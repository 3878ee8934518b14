--------------------------- MODULE RequestGates_proofs ---------------------------
(***************************************************************************)
(* Theorems about what requests share and queue for outside the account    *)
(* gates: RequestDedup, for any callers, any hashes and any size of the    *)
(* map, and RateLimitSemaphore, for any callers, any limits, any cooldowns *)
(* and any number of resume timers.                                        *)
(***************************************************************************)
EXTENDS RequestDedup, RateLimitSemaphore, FiniteSetTheorems, SequenceTheorems, TLAPS

(***************************************************************************)
(* RequestDedup.  The invariant adds to the properties that a call that    *)
(* nobody dropped is the one the map has under its hash (Listed).          *)
(***************************************************************************)
Listed ==
    \A k \in Calling \ dropped : hash[k] \in Hash /\ inflight[hash[k]] = k

DedupInv == DedupTypeOK /\ OrderIsTheMap /\ EntriesLive /\ Listed /\ NobodyOrphaned

-----------------------------------------------------------------------------
LEMMA OrderFacts ==
    ASSUME NEW seq \in Seq(Hash)
    PROVE  /\ Len(seq) \in Nat
           /\ DOMAIN seq = 1..Len(seq)
           /\ \A i \in 1..Len(seq) : seq[i] \in Hash
OBVIOUS

(* What is left when one element is taken out of a sequence. *)
LEMMA RemoveAtFacts ==
    ASSUME NEW S, NEW seq \in Seq(S), NEW i \in 1..Len(seq)
    PROVE  /\ RemoveAt(seq, i) \in Seq(S)
           /\ Len(RemoveAt(seq, i)) = Len(seq) - 1
           /\ \A j \in 1..(Len(seq) - 1) :
                RemoveAt(seq, i)[j] = IF j < i THEN seq[j] ELSE seq[j + 1]
<1>. DEFINE a == SubSeq(seq, 1, i - 1)
            b == SubSeq(seq, i + 1, Len(seq))
<1>1. Len(seq) \in Nat /\ i \in Nat /\ 1 <= i /\ i <= Len(seq)
    OBVIOUS
<1>2. /\ a \in Seq(S) /\ Len(a) = i - 1
      /\ \A j \in 1..(i - 1) : a[j] = seq[j]
    BY <1>1
<1>3. /\ b \in Seq(S) /\ Len(b) = Len(seq) - i
      /\ \A j \in 1..(Len(seq) - i) : b[j] = seq[i + j]
    BY <1>1
<1>. HIDE DEF a, b
<1>4. /\ a \o b \in Seq(S) /\ Len(a \o b) = Len(a) + Len(b)
      /\ \A j \in 1..(Len(a) + Len(b)) :
            (a \o b)[j] = IF j <= Len(a) THEN a[j] ELSE b[j - Len(a)]
    BY <1>2, <1>3, ConcatProperties
<1>. DEFINE c == a \o b
<1>. HIDE DEF c
<1>5. Len(c) = Len(seq) - 1 /\ c \in Seq(S)
    BY <1>1, <1>2, <1>3, <1>4 DEF c
<1>7. ASSUME NEW j \in 1..(Len(seq) - 1)
      PROVE  c[j] = IF j < i THEN seq[j] ELSE seq[j + 1]
    <2>1. c[j] = IF j <= i - 1 THEN a[j] ELSE b[j - (i - 1)]
        BY <1>1, <1>2, <1>3, <1>4 DEF c
    <2>2. CASE j < i
        BY <1>1, <1>2, <2>1, <2>2
    <2>3. CASE ~(j < i)
        <3>1. j - (i - 1) \in 1..(Len(seq) - i) /\ i + (j - (i - 1)) = j + 1
            BY <1>1, <2>3
        <3>2. b[j - (i - 1)] = seq[i + (j - (i - 1))]
            BY <1>3, <3>1
        <3>. QED
            BY <1>1, <2>1, <2>3, <3>1, <3>2
    <2>. QED
        BY <2>2, <2>3
<1>8. RemoveAt(seq, i) = c
    BY DEF RemoveAt, a, b, c
<1>. QED
    BY <1>5, <1>7, <1>8

-----------------------------------------------------------------------------
LEMMA DedupInitially ==
    ASSUME DedupInit
    PROVE  DedupInv
<1>1. DedupTypeOK
    BY DEF DedupTypeOK, DedupInit
<1>2. OrderIsTheMap
    BY DedupAssumption DEF OrderIsTheMap, DedupInit
<1>3. EntriesLive /\ Listed /\ NobodyOrphaned
    BY DedupAssumption DEF EntriesLive, Listed, NobodyOrphaned, Calling, DedupInit
<1>. QED
    BY <1>1, <1>2, <1>3 DEF DedupInv

(* What Delete(k) leaves of the map. *)
LEMMA Deleted ==
    ASSUME DedupInv, NEW k \in Caller, Delete(k)
    PROVE  /\ inflight' \in [Hash -> Caller \cup {None}]
           /\ order' \in Seq(Hash)
           /\ OrderIsTheMap'
           /\ \A h \in Hash : inflight'[h] = IF h \in Own(k) THEN None ELSE inflight[h]
<1>. USE DEF DedupInv, DedupTypeOK
<1>1. /\ inflight' \in [Hash -> Caller \cup {None}]
      /\ \A h \in Hash : inflight'[h] = IF h \in Own(k) THEN None ELSE inflight[h]
    BY DEF Delete
<1>. DEFINE at == {i \in 1..Len(order) : order[i] \in Own(k)}
<1>2. Len(order) \in Nat /\ MaxInflight \in Nat
    BY OrderFacts, DedupAssumption
<1>3. \A h \in Own(k) : h \in Hash /\ h = hash[k] /\ inflight[h] # None
    BY DedupAssumption DEF Own
<1>4. CASE at = {}
    <2>1. order' = order
        BY <1>4 DEF Delete
    <2>2. Own(k) = {}
        <3>1. SUFFICES ASSUME NEW h \in Own(k) PROVE FALSE
            OBVIOUS
        <3>2. PICK i \in 1..Len(order) : order[i] = h
            BY <1>3, <3>1 DEF OrderIsTheMap
        <3>3. i \in at
            BY <3>1, <3>2
        <3>. QED
            BY <1>4, <3>3
    <2>3. \A h \in Hash : inflight'[h] = inflight[h]
        BY <1>1, <2>2
    <2>. QED
        BY <1>1, <2>1, <2>3 DEF OrderIsTheMap
<1>5. CASE at # {}
    <2>1. PICK i \in at : order' = RemoveAt(order, i)
        BY <1>5 DEF Delete
    <2>2. i \in 1..Len(order) /\ order[i] = hash[k] /\ order[i] \in Own(k)
        BY <2>1, <1>3
    <2>3. /\ order' \in Seq(Hash)
          /\ Len(order') = Len(order) - 1
          /\ \A j \in 1..(Len(order) - 1) :
                order'[j] = IF j < i THEN order[j] ELSE order[j + 1]
        BY <2>1, <2>2, RemoveAtFacts
    <2>4. \A h \in Hash : inflight'[h] # None => \E j \in 1..Len(order') : order'[j] = h
        <3>1. SUFFICES ASSUME NEW h \in Hash, inflight'[h] # None
                       PROVE  \E j \in 1..Len(order') : order'[j] = h
            OBVIOUS
        <3>2. h \notin Own(k) /\ inflight[h] # None
            BY <1>1, <3>1
        <3>3. PICK j \in 1..Len(order) : order[j] = h
            BY <3>2 DEF OrderIsTheMap
        <3>4. j # i
            BY <2>2, <3>2, <3>3
        <3>5. CASE j < i
            BY <1>2, <2>2, <2>3, <3>3, <3>5
        <3>6. CASE i < j
            <4>1. j - 1 \in 1..(Len(order) - 1) /\ ~(j - 1 < i) /\ (j - 1) + 1 = j
                BY <1>2, <2>2, <3>3, <3>6
            <4>2. order'[j - 1] = h
                BY <4>1, <2>3, <3>3
            <4>. QED
                BY <4>1, <4>2, <2>3
        <3>. QED
            BY <3>4, <3>5, <3>6, <2>2, <3>3
    <2>5. \A j \in 1..Len(order') : inflight'[order'[j]] # None
        <3>1. SUFFICES ASSUME NEW j \in 1..Len(order') PROVE inflight'[order'[j]] # None
            OBVIOUS
        <3>2. PICK l \in 1..Len(order) : l # i /\ order'[j] = order[l]
            <4>1. CASE j < i
                BY <1>2, <2>2, <2>3, <4>1
            <4>2. CASE ~(j < i)
                <5>1. j + 1 \in 1..Len(order) /\ j + 1 # i /\ order'[j] = order[j + 1]
                    BY <1>2, <2>2, <2>3, <4>2
                <5>. QED
                    BY <5>1
            <4>. QED
                BY <4>1, <4>2
        <3>3. order[l] # hash[k] /\ order[l] \in Hash
            BY <2>2, <3>2, OrderFacts DEF OrderIsTheMap
        <3>4. inflight[order[l]] # None
            BY <3>3 DEF OrderIsTheMap
        <3>. QED
            BY <1>1, <1>3, <3>2, <3>3, <3>4
    <2>6. \A j, l \in 1..Len(order') : order'[j] = order'[l] => j = l
        <3>1. SUFFICES ASSUME NEW j \in 1..Len(order'), NEW l \in 1..Len(order'),
                              order'[j] = order'[l]
                       PROVE  j = l
            OBVIOUS
        <3>. DEFINE f(x) == IF x < i THEN x ELSE x + 1
        <3>2. /\ f(j) \in 1..Len(order) /\ order'[j] = order[f(j)]
              /\ f(l) \in 1..Len(order) /\ order'[l] = order[f(l)]
            BY <1>2, <2>2, <2>3
        <3>3. f(j) = f(l)
            <4>. HIDE DEF f
            <4>1. order[f(j)] = order[f(l)]
                BY <3>1, <3>2
            <4>. QED
                BY <3>2, <4>1 DEF OrderIsTheMap
        <3>. QED
            BY <3>3, <1>2, <2>2, <2>3
    <2>7. Len(order') <= MaxInflight
        BY <1>2, <2>3 DEF OrderIsTheMap
    <2>8. \A h \in Hash : inflight'[h] # None <=> \E j \in 1..Len(order') : order'[j] = h
        BY <2>4, <2>5
    <2>. QED
        BY <1>1, <2>3, <2>6, <2>7, <2>8 DEF OrderIsTheMap
<1>. QED
    BY <1>4, <1>5

-----------------------------------------------------------------------------
LEMMA LeadKeeps ==
    ASSUME DedupInv, NEW k \in Caller, NEW h \in Hash, Lead(k, h)
    PROVE  DedupInv'
<1>. USE DEF DedupInv, DedupTypeOK
<1>1. /\ stage[k] = "idle" /\ inflight[h] = None
      /\ \A g \in Hash : inflight'[g] = IF g = h THEN k ELSE IF g \in Evicted THEN None ELSE inflight[g]
      /\ inflight' \in [Hash -> Caller \cup {None}]
      /\ k # None
    BY DedupAssumption DEF Lead
<1>. DEFINE rest == IF Evicted = {} THEN order ELSE Tail(order)
<1>2. Len(order) \in Nat /\ MaxInflight \in Nat /\ MaxInflight >= 1
    BY OrderFacts, DedupAssumption
<1>3. /\ rest \in Seq(Hash) /\ Len(rest) < MaxInflight
      /\ \A g \in Hash : g # h =>
            (inflight'[g] # None <=> \E i \in 1..Len(rest) : rest[i] = g)
      /\ \A i \in 1..Len(rest) : rest[i] # h
      /\ \A i, j \in 1..Len(rest) : rest[i] = rest[j] => i = j
    <2>1. CASE Len(order) < MaxInflight
        <3>1. Evicted = {} /\ rest = order
            BY <1>2, <2>1 DEF Evicted
        <3>2. \A g \in Hash : g # h => inflight'[g] = inflight[g]
            BY <1>1, <3>1
        <3>. QED
            BY <1>1, <2>1, <3>1, <3>2 DEF OrderIsTheMap
    <2>2. CASE Len(order) >= MaxInflight
        <3>1. order # <<>>
            BY <1>2, <2>2
        <3>2. Evicted = {order[1]} /\ rest = Tail(order)
            BY <2>2, <3>1, HeadTailProperties DEF Evicted
        <3>3. /\ rest \in Seq(Hash) /\ Len(rest) = Len(order) - 1
              /\ \A i \in 1..Len(rest) : rest[i] = order[i + 1]
            BY <3>1, <3>2, HeadTailProperties
        <3>4. Len(order) = MaxInflight
            BY <1>2, <2>2 DEF OrderIsTheMap
        <3>5. \A i \in 1..Len(rest) : i + 1 \in 1..Len(order) /\ i + 1 # 1
            BY <1>2, <3>3
        <3>6. \A i \in 1..Len(rest) : rest[i] # h
            BY <1>1, <3>3, <3>5 DEF OrderIsTheMap
        <3>7. \A i, j \in 1..Len(rest) : rest[i] = rest[j] => i = j
            <4>1. SUFFICES ASSUME NEW i \in 1..Len(rest), NEW j \in 1..Len(rest), rest[i] = rest[j]
                           PROVE  i = j
                OBVIOUS
            <4>2. i + 1 = j + 1
                BY <3>3, <3>5, <4>1 DEF OrderIsTheMap
            <4>. QED
                BY <1>2, <3>3, <4>2
        <3>8. ASSUME NEW g \in Hash, g # h
              PROVE  inflight'[g] # None <=> \E i \in 1..Len(rest) : rest[i] = g
            <4>1. ASSUME inflight'[g] # None PROVE \E i \in 1..Len(rest) : rest[i] = g
                <5>1. g # order[1] /\ inflight[g] # None
                    BY <1>1, <3>2, <3>8, <4>1
                <5>2. PICK i \in 1..Len(order) : order[i] = g
                    BY <5>1 DEF OrderIsTheMap
                <5>3. i # 1 /\ i - 1 \in 1..Len(rest) /\ (i - 1) + 1 = i
                    BY <1>2, <3>3, <5>1, <5>2
                <5>. QED
                    BY <3>3, <5>2, <5>3
            <4>2. ASSUME NEW i \in 1..Len(rest), rest[i] = g PROVE inflight'[g] # None
                <5>1. order[i + 1] = g /\ i + 1 \in 1..Len(order) /\ i + 1 # 1
                    BY <3>3, <3>5, <4>2
                <5>2. 1 \in 1..Len(order)
                    BY <1>2, <3>4
                <5>3. g # order[1] /\ inflight[g] # None
                    BY <5>1, <5>2 DEF OrderIsTheMap
                <5>. QED
                    BY <1>1, <3>2, <3>8, <5>3
            <4>. QED
                BY <4>1, <4>2
        <3>9. Len(rest) < MaxInflight
            BY <1>2, <3>3, <3>4
        <3>. HIDE DEF rest
        <3>. QED
            BY <3>3, <3>6, <3>7, <3>8, <3>9
    <2>3. Len(order) < MaxInflight \/ Len(order) >= MaxInflight
        BY <1>2
    <2>. HIDE DEF rest
    <2>. QED
        BY <2>1, <2>2, <2>3, Zenon
<1>4. /\ order' \in Seq(Hash) /\ Len(order') = Len(rest) + 1
      /\ \A i \in 1..Len(rest) : order'[i] = rest[i]
      /\ order'[Len(rest) + 1] = h
    BY <1>3, AppendProperties DEF Lead
<1>5. OrderIsTheMap'
    <2>. HIDE DEF rest
    <2>0. Len(rest) \in Nat /\ 1..Len(order') = 1..Len(rest) \cup {Len(rest) + 1}
        BY <1>3, <1>4
    <2>1. inflight'[h] # None
        BY <1>1
    <2>2. \A g \in Hash : inflight'[g] # None <=> \E i \in 1..Len(order') : order'[i] = g
        BY <1>3, <1>4, <2>0, <2>1
    <2>3. \A i, j \in 1..Len(order') : order'[i] = order'[j] => i = j
        BY <1>3, <1>4, <2>0
    <2>4. Len(order') <= MaxInflight
        BY <1>2, <1>3, <1>4, <2>0
    <2>. QED
        BY <2>2, <2>3, <2>4 DEF OrderIsTheMap
<1>6. /\ stage' = [stage EXCEPT ![k] = "calling"] /\ hash' = [hash EXCEPT ![k] = h]
      /\ joined' = joined /\ dedupTimers' = dedupTimers \cup {k}
      /\ dropped' = dropped \cup {j \in Caller : \E g \in Evicted : inflight[g] = j}
    BY DEF Lead
<1>7. DedupTypeOK'
    BY <1>1, <1>4, <1>6
<1>8. EntriesLive'
    BY <1>1, <1>6 DEF EntriesLive
<1>9. Listed'
    <2>1. SUFFICES ASSUME NEW j \in Caller, stage'[j] = "calling", j \notin dropped'
                   PROVE  hash'[j] \in Hash /\ inflight'[hash'[j]] = j
        BY DEF Listed, Calling
    <2>2. CASE j = k
        BY <1>1, <1>6, <2>2
    <2>3. CASE j # k
        <3>1. stage[j] = "calling" /\ j \notin dropped /\ hash'[j] = hash[j]
            BY <1>6, <2>1, <2>3
        <3>2. hash[j] \in Hash /\ inflight[hash[j]] = j
            BY <3>1 DEF Listed, Calling
        <3>3. hash[j] \notin Evicted
            BY <1>6, <2>1, <3>2
        <3>4. hash[j] # h
            BY <1>1, <3>2, DedupAssumption
        <3>. QED
            BY <1>1, <3>1, <3>2, <3>3, <3>4
    <2>. QED
        BY <2>2, <2>3
<1>10. NobodyOrphaned'
    BY <1>1, <1>6 DEF NobodyOrphaned
<1>. QED
    BY <1>5, <1>7, <1>8, <1>9, <1>10

LEMMA FollowKeeps ==
    ASSUME DedupInv, NEW k \in Caller, NEW h \in Hash, Follow(k, h)
    PROVE  DedupInv'
<1>. USE DEF DedupInv, DedupTypeOK, Follow
<1>1. DedupTypeOK'
    OBVIOUS
<1>2. OrderIsTheMap'
    BY DEF OrderIsTheMap
<1>3. EntriesLive'
    BY DEF EntriesLive
<1>4. Listed'
    BY DEF Listed, Calling
<1>5. NobodyOrphaned'
    BY DedupAssumption DEF NobodyOrphaned, EntriesLive
<1>. QED
    BY <1>1, <1>2, <1>3, <1>4, <1>5

LEMMA DedupTimerKeeps ==
    ASSUME DedupInv, NEW k \in Caller, DedupTimerFires(k)
    PROVE  DedupInv'
<1>. USE DEF DedupInv, DedupTypeOK
<1>1. /\ inflight' \in [Hash -> Caller \cup {None}]
      /\ order' \in Seq(Hash)
      /\ OrderIsTheMap'
      /\ \A h \in Hash : inflight'[h] = IF h \in Own(k) THEN None ELSE inflight[h]
    BY Deleted DEF DedupTimerFires
<1>2. /\ dedupTimers' = dedupTimers \ {k} /\ dropped' = dropped \cup {k}
      /\ stage' = stage /\ hash' = hash /\ joined' = joined
    BY DEF DedupTimerFires
<1>3. DedupTypeOK'
    BY <1>1, <1>2
<1>4. EntriesLive'
    BY <1>1, <1>2 DEF EntriesLive
<1>5. Listed'
    BY <1>1, <1>2 DEF Listed, Calling, Own
<1>6. NobodyOrphaned'
    BY <1>2 DEF NobodyOrphaned
<1>. QED
    BY <1>1, <1>3, <1>4, <1>5, <1>6

LEMMA EndKeeps ==
    ASSUME DedupInv, NEW k \in Caller, CallEnds(k)
    PROVE  DedupInv'
<1>. USE DEF DedupInv, DedupTypeOK
<1>1. /\ inflight' \in [Hash -> Caller \cup {None}]
      /\ order' \in Seq(Hash)
      /\ OrderIsTheMap'
      /\ \A h \in Hash : inflight'[h] = IF h \in Own(k) THEN None ELSE inflight[h]
    BY Deleted DEF CallEnds
<1>2. /\ stage[k] = "calling"
      /\ stage' = [j \in Caller |-> IF j \in Followers(k) \cup {k} THEN "idle" ELSE stage[j]]
      /\ hash' = [j \in Caller |-> IF j \in Followers(k) \cup {k} THEN None ELSE hash[j]]
      /\ joined' = [j \in Caller |-> IF j \in Followers(k) THEN None ELSE joined[j]]
      /\ dedupTimers' = dedupTimers \ {k} /\ dropped' = dropped \ {k}
    BY DEF CallEnds
<1>3. DedupTypeOK'
    BY <1>1, <1>2
<1>4. \A j \in Followers(k) : stage[j] = "following" /\ joined[j] = k
    BY DEF Followers
<1>5. EntriesLive'
    <2>1. SUFFICES ASSUME NEW h \in Hash, inflight'[h] # None
                   PROVE  stage'[inflight'[h]] = "calling" /\ hash'[inflight'[h]] = h
        BY DEF EntriesLive
    <2>2. /\ h \notin Own(k) /\ inflight'[h] = inflight[h] /\ inflight[h] \in Caller
          /\ stage[inflight[h]] = "calling" /\ hash[inflight[h]] = h
        BY <1>1, <2>1 DEF EntriesLive
    <2>3. inflight[h] # k /\ inflight[h] \notin Followers(k)
        BY <1>4, <2>2 DEF Own
    <2>. QED
        BY <1>2, <2>2, <2>3
<1>6. Listed'
    <2>1. SUFFICES ASSUME NEW j \in Caller, stage'[j] = "calling", j \notin dropped'
                   PROVE  hash'[j] \in Hash /\ inflight'[hash'[j]] = j
        BY DEF Listed, Calling
    <2>2. j \notin Followers(k) /\ j # k /\ stage[j] = "calling" /\ hash'[j] = hash[j]
        BY <1>2, <2>1
    <2>3. hash[j] \in Hash /\ inflight[hash[j]] = j
        BY <1>2, <2>1, <2>2 DEF Listed, Calling
    <2>. QED
        BY <1>1, <2>2, <2>3 DEF Own
<1>7. NobodyOrphaned'
    <2>1. SUFFICES ASSUME NEW j \in Caller, stage'[j] = "following"
                   PROVE  joined'[j] \in Caller /\ stage'[joined'[j]] = "calling"
        BY DEF NobodyOrphaned
    <2>2. /\ j \notin Followers(k) /\ j # k /\ stage[j] = "following"
          /\ joined'[j] = joined[j]
        BY <1>2, <2>1
    <2>3. joined[j] \in Caller /\ stage[joined[j]] = "calling" /\ joined[j] # k
        BY <2>2 DEF NobodyOrphaned, Followers
    <2>. QED
        BY <1>2, <1>4, <2>2, <2>3
<1>. QED
    BY <1>1, <1>3, <1>5, <1>6, <1>7

LEMMA DedupStepsKeep ==
    ASSUME DedupInv, [DedupNext]_dedupVars
    PROVE  DedupInv'
<1>1. CASE DedupNext
    BY <1>1, LeadKeeps, FollowKeeps, DedupTimerKeeps, EndKeeps DEF DedupNext
<1>2. CASE UNCHANGED dedupVars
    BY <1>2 DEF dedupVars, DedupInv, DedupTypeOK, OrderIsTheMap, EntriesLive, Listed, Calling, NobodyOrphaned
<1>. QED
    BY <1>1, <1>2

(* Under every handler of deduplicate(), the inductive invariant holds. *)
LEMMA DedupInvariant == DedupSpec => []DedupInv
<1>1. DedupInit => DedupInv
    BY DedupInitially, DedupAssumption
<1>2. DedupInv /\ [DedupNext]_dedupVars => DedupInv'
    BY DedupStepsKeep, DedupAssumption
<1>. QED
    BY <1>1, <1>2, PTL DEF DedupSpec

-----------------------------------------------------------------------------
(* The types of the variables of deduplicate(). *)
THEOREM SharingTyped == DedupSpec => []DedupTypeOK
<1>1. DedupInv => DedupTypeOK
    BY DEF DedupInv
<1>. QED
    BY DedupInvariant, <1>1, PTL

(***************************************************************************)
(* Calls with one hash overlap only where the timer or the cap allowed it: *)
(* neither a late timer nor the end of an older call takes the entry of a  *)
(* younger one (requestDedup.ts:223-236).                                  *)
(***************************************************************************)
THEOREM TwinsOnlyIfDropped == DedupSpec => []NoNeedlessTwin
<1>1. DedupInv => NoNeedlessTwin
    BY DEF DedupInv, Listed, NoNeedlessTwin
<1>. QED
    BY DedupInvariant, <1>1, PTL

(***************************************************************************)
(* The map has promises of running calls only, each under its own hash,    *)
(* and whoever joined one awaits a running call (requestDedup.ts:204-208). *)
(***************************************************************************)
THEOREM PromisesAreLive == DedupSpec => [](EntriesLive /\ NobodyOrphaned)
<1>1. DedupInv => EntriesLive /\ NobodyOrphaned
    BY DEF DedupInv
<1>. QED
    BY DedupInvariant, <1>1, PTL

(* The map never outgrows MAX_INFLIGHT (requestDedup.ts:210-213). *)
THEOREM MapWithinCap == DedupSpec => []OrderIsTheMap
<1>1. DedupInv => OrderIsTheMap
    BY DEF DedupInv
<1>. QED
    BY DedupInvariant, <1>1, PTL

-----------------------------------------------------------------------------
(***************************************************************************)
(* RateLimitSemaphore.  The invariant adds to the properties:              *)
(*                                                                         *)
(*   TimersBounded  so that a new gate can have an object of its own       *)
(*   QueueInOrder   whoever waits waits once, and holds nothing            *)
(*   CooldownTimed  a cooldown of the gate has a timer for its very end    *)
(*   WaitsInCooldown  only a cooldown makes requests wait for nobody       *)
(***************************************************************************)
FiniteHolders == IsFiniteSet(holders)

TimersBounded == IsFiniteSet(resumeTimers) /\ Cardinality(resumeTimers) <= MaxTimers

Orderly(q, held) ==
    /\ \A i, j \in 1..Len(q) : q[i] = q[j] => i = j
    /\ \A i \in 1..Len(q) : q[i] \notin held

QueueInOrder == gate # NoGate => Orderly(gate.queue, holders)

CooldownTimed ==
    gate # NoGate /\ until[gate.object] # NoGate =>
        \E t \in resumeTimers : t.object = gate.object /\ t.due = until[gate.object]

WaitsInCooldown ==
    gate # NoGate /\ gate.queue # <<>> /\ holders = {} => until[gate.object] # NoGate

SlotInv ==
    /\ SlotTypeOK
    /\ FiniteHolders
    /\ TimersBounded
    /\ QueueInOrder
    /\ SlotsCounted
    /\ CooldownTimed
    /\ WaitsInCooldown

-----------------------------------------------------------------------------
LEMMA QueueFacts ==
    ASSUME NEW q \in Seq(Client)
    PROVE  /\ Len(q) \in Nat
           /\ DOMAIN q = 1..Len(q)
           /\ \A i \in 1..Len(q) : q[i] \in Client
OBVIOUS

(* Those whom a drain admits are as many as the places it fills. *)
LEMMA DrainAdmits ==
    ASSUME NEW q \in Seq(Client), NEW held \in SUBSET Client, IsFiniteSet(held),
           Orderly(q, held), NEW n \in 0..Len(q)
    PROVE  LET more == held \cup {q[i] : i \in 1..n}
           IN  /\ IsFiniteSet(more)
               /\ Cardinality(more) = Cardinality(held) + n
<1>. DEFINE new == {q[i] : i \in 1..n}
            f == [i \in 1..n |-> q[i]]
<1>1. n \in Nat /\ \A i \in 1..n : i \in 1..Len(q)
    BY QueueFacts
<1>2. IsFiniteSet(1..n) /\ Cardinality(1..n) = n
    BY <1>1, FS_Interval
<1>3. f \in Injection(1..n, new)
    BY <1>1 DEF Injection, IsInjective, Orderly
<1>4. f \in Surjection(1..n, new)
    BY DEF Surjection
<1>5. ExistsBijection(1..n, new)
    BY <1>3, <1>4 DEF ExistsBijection, Bijection
<1>6. IsFiniteSet(new) /\ Cardinality(new) = n
    BY <1>2, <1>5, FS_Bijection
<1>7. held \cap new = {}
    BY <1>1 DEF Orderly
<1>8. Cardinality(held \cap new) = 0
    BY <1>7, FS_EmptySet
<1>9. Cardinality(held) \in Nat
    BY FS_CardinalityType
<1>. HIDE DEF new
<1>10. IsFiniteSet(held \cup new)
       /\ Cardinality(held \cup new) = Cardinality(held) + Cardinality(new) - Cardinality(held \cap new)
    BY <1>6, FS_Union
<1>. QED
    BY <1>1, <1>6, <1>8, <1>9, <1>10 DEF new

(* The timers cannot keep every object: a gate made anew has one of its own. *)
LEMMA UnusedIsThere ==
    ASSUME SlotTypeOK, TimersBounded
    PROVE  Unused \in Object
<1>1. \E o \in Object : \A t \in resumeTimers : t.object # o
    <2>1. SUFFICES ASSUME \A o \in Object : \E t \in resumeTimers : t.object = o
                   PROVE  FALSE
        OBVIOUS
    <2>. DEFINE f == [o \in Object |-> CHOOSE t \in resumeTimers : t.object = o]
    <2>2. \A o \in Object : f[o] \in resumeTimers /\ f[o].object = o
        BY <2>1
    <2>3. f \in [Object -> resumeTimers]
        BY <2>2
    <2>4. f \in Injection(Object, resumeTimers)
        BY <2>2, <2>3 DEF Injection, IsInjective
    <2>5. Cardinality(Object) <= Cardinality(resumeTimers)
        BY <2>4, FS_Injection DEF TimersBounded
    <2>6. Cardinality(Object) = MaxTimers + 1
        BY FS_Interval, GateAssumption DEF Object
    <2>7. Cardinality(resumeTimers) \in Nat
        BY FS_CardinalityType DEF TimersBounded
    <2>. QED
        BY <2>5, <2>6, <2>7, GateAssumption DEF TimersBounded
<1>. QED
    BY <1>1 DEF Unused

-----------------------------------------------------------------------------
LEMMA SlotsInitially ==
    ASSUME SlotInit
    PROVE  SlotInv
<1>1. SlotTypeOK
    BY GateAssumption DEF SlotTypeOK, SlotInit, Instant
<1>2. FiniteHolders /\ TimersBounded /\ SlotsCounted
    BY FS_EmptySet, GateAssumption DEF FiniteHolders, TimersBounded, SlotsCounted, SlotInit
<1>3. QueueInOrder /\ CooldownTimed /\ WaitsInCooldown
    BY DEF QueueInOrder, CooldownTimed, WaitsInCooldown, SlotInit
<1>. QED
    BY <1>1, <1>2, <1>3 DEF SlotInv

(* What a drain does to a gate whose slots are counted. *)
LEMMA Drained ==
    ASSUME now \in Instant, NEW g \in GateObject,
           NEW u \in [Object -> Instant \cup {NoGate}],
           NEW held \in SUBSET Client, IsFiniteSet(held),
           Cardinality(held) = g.running, Orderly(g.queue, held),
           DrainQueue(g, u, held)
    PROVE  /\ gate' \in GateObject \cup {NoGate}
           /\ until' \in [Object -> Instant \cup {NoGate}]
           /\ holders' \subseteq Client
           /\ FiniteHolders' /\ QueueInOrder' /\ SlotsCounted' /\ WaitsInCooldown'
           /\ gate' # NoGate => gate'.object = g.object
           /\ until'[g.object] # NoGate => until'[g.object] = u[g.object]
<1>. DEFINE q == g.queue
            room == IF g.running < g.max THEN g.max - g.running ELSE 0
            looks == q # <<>> /\ room > 0
            n == IF ~looks \/ RateLimited(u[g.object]) THEN 0
                 ELSE IF Len(q) < room THEN Len(q) ELSE room
            after == [g EXCEPT !.running = @ + n, !.queue = SubSeq(@, n + 1, Len(@))]
            rest == SubSeq(q, n + 1, Len(q))
            more == held \cup {q[i] : i \in 1..n}
<1>1. /\ g.object \in Object /\ g.running \in Nat /\ g.max \in Nat \ {0}
      /\ q \in Seq(Client)
    BY DEF GateObject
<1>2. Len(q) \in Nat /\ room \in Nat
    BY <1>1
<1>3. n \in 0..Len(q)
    BY <1>1, <1>2
<1>4. /\ gate' = Kept(after)
      /\ until' = IF looks THEN [u EXCEPT ![g.object] = Lapsed(@)] ELSE u
      /\ holders' = more
    BY DEF DrainQueue
<1>5. /\ rest \in Seq(Client) /\ Len(rest) = Len(q) - n
      /\ \A i \in 1..(Len(q) - n) : rest[i] = q[n + i]
    BY <1>1, <1>2, <1>3
<1>6. n = 0 => (looks => RateLimited(u[g.object]))
    <2>1. q # <<>> => Len(q) > 0
        BY <1>1
    <2>. QED
        BY <1>1, <1>2, <2>1
<1>. HIDE DEF n
<1>7. /\ after \in GateObject /\ after.object = g.object
      /\ after.running = g.running + n /\ after.queue = rest
    <2>. DEFINE r == g.running + n
    <2>1. after = [g EXCEPT !.running = r, !.queue = rest]
        OBVIOUS
    <2>. HIDE DEF r, rest, after
    <2>3. after = [object |-> g.object, running |-> r, max |-> g.max, queue |-> rest]
        BY <2>1 DEF GateObject
    <2>2. g.running + n \in Nat
        BY <1>1, <1>2, <1>3
    <2>. QED
        BY <1>1, <1>5, <2>3, <2>2 DEF GateObject, r
<1>. HIDE DEF after, rest
<1>8. gate' \in {NoGate, after}
    BY <1>4 DEF Kept
<1>9. gate' = NoGate => g.running + n = 0
    BY <1>4, <1>7, GateAssumption DEF Kept
<1>10. /\ IsFiniteSet(more) /\ Cardinality(more) = g.running + n
    BY <1>1, <1>3, DrainAdmits
<1>11. SlotsCounted'
    <2>1. CASE gate' = NoGate
        BY <2>1, <1>4, <1>9, <1>10 DEF SlotsCounted
    <2>2. CASE gate' # NoGate
        BY <2>2, <1>4, <1>7, <1>8, <1>10 DEF SlotsCounted
    <2>. QED
        BY <2>1, <2>2
<1>12. QueueInOrder'
    <2>1. SUFFICES ASSUME gate' # NoGate PROVE Orderly(rest, more)
        BY <1>4, <1>7, <1>8 DEF QueueInOrder, Orderly
    <2>2. \A i \in 1..Len(rest) : n + i \in 1..Len(q) /\ rest[i] = q[n + i] /\ n + i \notin 1..n
        BY <1>2, <1>3, <1>5
    <2>3. ASSUME NEW i \in 1..Len(rest), NEW j \in 1..Len(rest), rest[i] = rest[j] PROVE i = j
        <3>1. n + i = n + j
            BY <2>2, <2>3 DEF Orderly
        <3>. QED
            BY <1>2, <1>3, <1>5, <3>1
    <2>4. ASSUME NEW i \in 1..Len(rest) PROVE rest[i] \notin more
        <3>1. rest[i] \notin held
            BY <2>2 DEF Orderly
        <3>2. ASSUME NEW j \in 1..n PROVE q[j] # rest[i]
            <4>1. j \in 1..Len(q)
                BY <1>2, <1>3
            <4>. QED
                BY <2>2, <4>1 DEF Orderly
        <3>. QED
            BY <3>1, <3>2
    <2>. QED
        BY <2>3, <2>4 DEF Orderly
<1>13. until' \in [Object -> Instant \cup {NoGate}]
    BY <1>1, <1>4 DEF Lapsed
<1>14. until'[g.object] # NoGate => until'[g.object] = u[g.object]
    BY <1>1, <1>4 DEF Lapsed
<1>15. WaitsInCooldown'
    <2>1. SUFFICES ASSUME gate' # NoGate, gate'.queue # <<>>, holders' = {}
                   PROVE  until'[g.object] # NoGate
        BY <1>7, <1>8 DEF WaitsInCooldown
    <2>2. g.running + n = 0
        BY <1>4, <1>10, <2>1, FS_EmptySet
    <2>3. g.running = 0 /\ n = 0
        BY <1>1, <1>2, <1>3, <2>2
    <2>4. rest = q
        BY <1>1, <2>3 DEF rest
    <2>5. looks
        BY <1>1, <1>7, <1>8, <2>1, <2>3, <2>4
    <2>6. RateLimited(u[g.object])
        BY <1>6, <2>3, <2>5
    <2>7. until'[g.object] = u[g.object]
        BY <1>1, <1>4, <2>5, <2>6 DEF Lapsed
    <2>. QED
        BY <2>6, <2>7 DEF RateLimited
<1>16. holders' \subseteq Client /\ FiniteHolders'
    BY <1>1, <1>2, <1>3, <1>4, <1>10, QueueFacts DEF FiniteHolders
<1>. QED
    BY <1>7, <1>8, <1>11, <1>12, <1>13, <1>14, <1>15, <1>16

-----------------------------------------------------------------------------
(* What the code finds or makes when it looks a gate up. *)
LEMMA Found ==
    ASSUME SlotInv, NEW limit \in Nat \ {0}
    PROVE  LET g == GetGate(limit)
           IN  /\ g \in GateObject
               /\ g # NoGate
               /\ g.max = limit
               /\ g.running = Cardinality(holders)
               /\ Orderly(g.queue, holders)
               /\ gate # NoGate => g.object = gate.object /\ g.queue = gate.queue
               /\ gate = NoGate => g.queue = <<>>
<1>1. CASE gate = NoGate
    <2>1. Unused \in Object
        BY UnusedIsThere DEF SlotInv
    <2>2. <<>> \in Seq(Client) /\ Len(<<>>) = 0
        OBVIOUS
    <2>3. GetGate(limit) = [object |-> Unused, running |-> 0, max |-> limit, queue |-> <<>>]
        BY <1>1 DEF GetGate
    <2>4. GetGate(limit) \in GateObject /\ GetGate(limit).queue = <<>>
        BY <2>1, <2>2, <2>3 DEF GateObject
    <2>5. Cardinality(holders) = 0
        BY <1>1 DEF SlotInv, SlotsCounted
    <2>6. Orderly(<<>>, holders)
        BY <2>2 DEF Orderly
    <2>. QED
        BY <1>1, <2>3, <2>4, <2>5, <2>6, GateAssumption
<1>2. CASE gate # NoGate
    <2>1. gate \in GateObject
        BY <1>2 DEF SlotInv, SlotTypeOK
    <2>2. GetGate(limit) = [gate EXCEPT !.max = limit]
        BY <1>2 DEF GetGate
    <2>3. GetGate(limit) = [object |-> gate.object, running |-> gate.running,
                            max |-> limit, queue |-> gate.queue]
        BY <2>1, <2>2 DEF GateObject
    <2>4. GetGate(limit) \in GateObject
        BY <2>1, <2>3 DEF GateObject
    <2>. QED
        BY <1>2, <2>3, <2>4, GateAssumption DEF SlotInv, SlotsCounted, QueueInOrder
<1>. QED
    BY <1>1, <1>2

LEMMA AtOnceKeeps ==
    ASSUME SlotInv, NEW k \in Client, SlotAtOnce(k)
    PROVE  SlotInv'
<1>. DEFINE g == GetGate(SlotLimit[k])
<1>1. SlotLimit[k] \in Nat \ {0}
    BY GateAssumption
<1>2. /\ g \in GateObject /\ g.running = Cardinality(holders)
      /\ Orderly(g.queue, holders)
      /\ gate # NoGate => g.queue = gate.queue
      /\ gate = NoGate => g.queue = <<>>
    BY <1>1, Found
<1>3. /\ k \notin holders /\ k \notin Queued
      /\ gate' = [g EXCEPT !.running = @ + 1]
      /\ until' = [until EXCEPT ![g.object] = NoGate]
      /\ holders' = holders \cup {k}
      /\ UNCHANGED <<now, resumeTimers, limitedTill>>
    BY DEF SlotAtOnce, Outside
<1>. HIDE DEF g
<1>4. g.object \in Object /\ g.running \in Nat /\ g.queue \in Seq(Client)
    BY <1>2 DEF GateObject
<1>5. gate' = [object |-> g.object, running |-> g.running + 1, max |-> g.max, queue |-> g.queue]
    BY <1>2, <1>3 DEF GateObject
<1>6. gate' \in GateObject /\ gate' # NoGate
    BY <1>2, <1>4, <1>5, GateAssumption DEF GateObject
<1>7. until' \in [Object -> Instant \cup {NoGate}] /\ until'[g.object] = NoGate
    BY <1>3, <1>4 DEF SlotInv, SlotTypeOK
<1>8. SlotTypeOK'
    BY <1>3, <1>6, <1>7 DEF SlotInv, SlotTypeOK
<1>9. FiniteHolders' /\ SlotsCounted'
    BY <1>2, <1>3, <1>4, <1>5, <1>6, FS_AddElement DEF SlotInv, FiniteHolders, SlotsCounted
<1>10. TimersBounded'
    BY <1>3 DEF SlotInv, TimersBounded
<1>11. \A i \in 1..Len(g.queue) : g.queue[i] # k
    BY <1>2, <1>3, <1>4, QueueFacts DEF Queued
<1>12. QueueInOrder'
    BY <1>2, <1>3, <1>5, <1>11 DEF QueueInOrder, Orderly
<1>13. CooldownTimed' /\ WaitsInCooldown'
    BY <1>3, <1>5, <1>7 DEF CooldownTimed, WaitsInCooldown
<1>. QED
    BY <1>8, <1>9, <1>10, <1>12, <1>13 DEF SlotInv

(* A rejected caller leaves the gate that a request holds or waits at. *)
LEMMA RejectedKeeps ==
    ASSUME SlotInv, NEW k \in Client, SlotRejected(k)
    PROVE  SlotInv'
<1>. DEFINE g == GetGate(SlotLimit[k])
<1>1. SlotLimit[k] \in Nat \ {0}
    BY GateAssumption
<1>2. /\ g \in GateObject /\ g # NoGate /\ g.running = Cardinality(holders)
      /\ Orderly(g.queue, holders)
      /\ gate # NoGate => g.object = gate.object /\ g.queue = gate.queue
      /\ gate = NoGate => g.queue = <<>>
    BY <1>1, Found
<1>3. /\ gate' = Kept(g)
      /\ UNCHANGED <<now, until, holders, resumeTimers, limitedTill>>
    BY DEF SlotRejected
<1>4. gate = NoGate => gate' = NoGate
    BY <1>2, <1>3, <1>1 DEF SlotRejected, SlotFits, LimitedNow, GetGate
<1>. HIDE DEF g
<1>5. gate' \in {NoGate, g}
    BY <1>3 DEF Kept
<1>6. gate' = NoGate => g.running = 0
    BY <1>2, <1>3 DEF Kept
<1>7. SlotTypeOK' /\ FiniteHolders' /\ TimersBounded'
    BY <1>2, <1>3, <1>5 DEF SlotInv, SlotTypeOK, FiniteHolders, TimersBounded
<1>8. QueueInOrder'
    BY <1>2, <1>3, <1>5 DEF QueueInOrder
<1>9. SlotsCounted'
    BY <1>2, <1>3, <1>5, <1>6 DEF SlotsCounted
<1>10. CooldownTimed' /\ WaitsInCooldown'
    BY <1>2, <1>3, <1>4, <1>5 DEF SlotInv, CooldownTimed, WaitsInCooldown
<1>. QED
    BY <1>7, <1>8, <1>9, <1>10 DEF SlotInv

(* Nobody waits for nothing: with no holder it is the cooldown that does not let one in. *)
LEMMA WaitsKeeps ==
    ASSUME SlotInv, NEW k \in Client, SlotAwaited(k)
    PROVE  SlotInv'
<1>. DEFINE g == GetGate(SlotLimit[k])
<1>1. SlotLimit[k] \in Nat \ {0}
    BY GateAssumption
<1>2. /\ g \in GateObject /\ g.running = Cardinality(holders)
      /\ Orderly(g.queue, holders)
      /\ gate # NoGate => g.object = gate.object /\ g.queue = gate.queue
    BY <1>1, Found
<1>3. gate # NoGate
    BY <1>1 DEF SlotAwaited, SlotFits, LimitedNow, GetGate
<1>4. /\ k \notin holders /\ k \notin Queued
      /\ gate' = [g EXCEPT !.queue = Append(@, k)]
      /\ UNCHANGED <<now, until, holders, resumeTimers, limitedTill>>
    BY DEF SlotAwaited, Outside
<1>5. g.running < SlotLimit[k] => until[g.object] # NoGate
    BY <1>2, <1>3 DEF SlotAwaited, SlotFits, LimitedNow, RateLimited
<1>. HIDE DEF g
<1>. DEFINE q == Append(g.queue, k)
<1>6. /\ g.object \in Object /\ g.running \in Nat /\ g.max \in Nat \ {0}
      /\ g.queue \in Seq(Client)
    BY <1>2 DEF GateObject
<1>7. /\ q \in Seq(Client) /\ Len(q) = Len(g.queue) + 1 /\ Len(g.queue) \in Nat
      /\ q[Len(q)] = k
      /\ \A i \in 1..Len(g.queue) : q[i] = g.queue[i]
    BY <1>6
<1>8. gate' = [g EXCEPT !.queue = q]
    BY <1>4
<1>. HIDE DEF q
<1>9. gate' = [object |-> g.object, running |-> g.running, max |-> g.max, queue |-> q]
    BY <1>2, <1>8 DEF GateObject
<1>10. gate' \in GateObject /\ gate' # NoGate
    BY <1>6, <1>7, <1>9, GateAssumption DEF GateObject
<1>11. SlotTypeOK' /\ FiniteHolders' /\ TimersBounded'
    BY <1>4, <1>10 DEF SlotInv, SlotTypeOK, FiniteHolders, TimersBounded
<1>12. SlotsCounted'
    BY <1>2, <1>4, <1>9, <1>10 DEF SlotsCounted
<1>13. \A i \in 1..Len(g.queue) : g.queue[i] # k
    BY <1>2, <1>3, <1>4, <1>6, QueueFacts DEF Queued
<1>14. QueueInOrder'
    <2>1. \A i \in 1..Len(q) : i = Len(q) \/ i \in 1..Len(g.queue)
        BY <1>7
    <2>. QED
        BY <1>2, <1>4, <1>7, <1>9, <1>13, <2>1 DEF QueueInOrder, Orderly
<1>15. CooldownTimed'
    BY <1>2, <1>3, <1>4, <1>9 DEF SlotInv, CooldownTimed
<1>16. WaitsInCooldown'
    <2>1. SUFFICES ASSUME holders = {} PROVE until[g.object] # NoGate
        BY <1>4, <1>9 DEF WaitsInCooldown
    <2>2. g.running = 0
        BY <1>2, <2>1, FS_EmptySet
    <2>. QED
        BY <1>1, <1>5, <2>2
<1>. QED
    BY <1>11, <1>12, <1>14, <1>15, <1>16 DEF SlotInv

LEMMA QueueTimeoutKeeps ==
    ASSUME SlotInv, NEW k \in Client, QueueTimeout(k)
    PROVE  SlotInv'
<1>1. gate # NoGate /\ gate \in GateObject
    BY DEF QueueTimeout, Queued, SlotInv, SlotTypeOK
<1>2. /\ gate.object \in Object /\ gate.running \in Nat /\ gate.max \in Nat \ {0}
      /\ gate.queue \in Seq(Client)
    BY <1>1 DEF GateObject
<1>3. PICK i \in 1..Len(gate.queue) : gate' = [gate EXCEPT !.queue = RemoveAt(@, i)]
    BY <1>2, QueueFacts DEF QueueTimeout
<1>4. UNCHANGED <<now, until, holders, resumeTimers, limitedTill>>
    BY DEF QueueTimeout
<1>. DEFINE n == Len(gate.queue)
            q == RemoveAt(gate.queue, i)
<1>5. /\ q \in Seq(Client) /\ Len(q) = n - 1
      /\ \A j \in 1..(n - 1) : q[j] = IF j < i THEN gate.queue[j] ELSE gate.queue[j + 1]
    BY <1>2, RemoveAtFacts
<1>6. gate' = [gate EXCEPT !.queue = q]
    BY <1>3
<1>. HIDE DEF q
<1>7. gate' = [object |-> gate.object, running |-> gate.running,
               max |-> gate.max, queue |-> q]
    BY <1>1, <1>6 DEF GateObject
<1>8. gate' \in GateObject /\ gate' # NoGate
    BY <1>2, <1>5, <1>7, GateAssumption DEF GateObject
<1>9. SlotTypeOK' /\ FiniteHolders' /\ TimersBounded'
    BY <1>4, <1>8 DEF SlotInv, SlotTypeOK, FiniteHolders, TimersBounded
<1>10. SlotsCounted'
    BY <1>1, <1>4, <1>7, <1>8 DEF SlotInv, SlotsCounted
<1>11. QueueInOrder'
    <2>. DEFINE at(j) == IF j < i THEN j ELSE j + 1
    <2>1. Len(gate.queue) \in Nat
        BY <1>2
    <2>2. \A j \in 1..Len(q) : at(j) \in 1..n /\ q[j] = gate.queue[at(j)]
        BY <1>3, <1>5, <2>1
    <2>3. \A j, l \in 1..Len(q) : at(j) = at(l) => j = l
        BY <1>3, <1>5, <2>1
    <2>4. Orderly(gate.queue, holders)
        BY <1>1 DEF SlotInv, QueueInOrder
    <2>. HIDE DEF at
    <2>5. Orderly(q, holders)
        BY <2>2, <2>3, <2>4 DEF Orderly
    <2>. QED
        BY <1>4, <1>7, <2>5 DEF QueueInOrder
<1>12. gate.queue # <<>>
    BY <1>2, <1>3
<1>13. CooldownTimed' /\ WaitsInCooldown'
    BY <1>1, <1>4, <1>7, <1>12 DEF SlotInv, CooldownTimed, WaitsInCooldown
<1>. QED
    BY <1>9, <1>10, <1>11, <1>13 DEF SlotInv

(* A release finds its slot counted at the gate that has the name. *)
LEMMA ReleaseKeeps ==
    ASSUME SlotInv, NEW k \in Client, ReleaseSlot(k)
    PROVE  SlotInv'
<1>. DEFINE held == holders \ {k}
            g == [gate EXCEPT !.running = @ - 1]
<1>1. k \in holders /\ IsFiniteSet(holders) /\ Cardinality(holders) \in Nat
    BY FS_CardinalityType DEF ReleaseSlot, SlotInv, FiniteHolders
<1>2. Cardinality(holders) # 0
    BY <1>1, FS_EmptySet
<1>3. gate # NoGate /\ gate.running = Cardinality(holders) /\ gate.running > 0
    BY <1>1, <1>2 DEF SlotInv, SlotsCounted
<1>4. DrainQueue(g, until, held) /\ UNCHANGED <<now, resumeTimers, limitedTill>>
    BY <1>3 DEF ReleaseSlot
<1>5. /\ held \in SUBSET Client /\ IsFiniteSet(held)
      /\ Cardinality(held) = Cardinality(holders) - 1
    BY <1>1, FS_RemoveElement DEF SlotInv, SlotTypeOK
<1>6. gate \in GateObject
    BY <1>3 DEF SlotInv, SlotTypeOK
<1>7. /\ g \in GateObject /\ g.running = gate.running - 1
      /\ g.object = gate.object /\ g.queue = gate.queue
    BY <1>1, <1>3, <1>6 DEF GateObject
<1>8. Orderly(g.queue, held)
    BY <1>3, <1>7 DEF SlotInv, QueueInOrder, Orderly
<1>9. now \in Instant /\ until \in [Object -> Instant \cup {NoGate}]
    BY DEF SlotInv, SlotTypeOK
<1>. HIDE DEF g, held
<1>10. /\ gate' \in GateObject \cup {NoGate}
       /\ until' \in [Object -> Instant \cup {NoGate}]
       /\ holders' \subseteq Client
       /\ FiniteHolders' /\ QueueInOrder' /\ SlotsCounted' /\ WaitsInCooldown'
       /\ gate' # NoGate => gate'.object = g.object
       /\ until'[g.object] # NoGate => until'[g.object] = until[g.object]
    BY <1>3, <1>4, <1>5, <1>7, <1>8, <1>9, Drained
<1>11. SlotTypeOK' /\ TimersBounded'
    BY <1>4, <1>10 DEF SlotInv, SlotTypeOK, TimersBounded
<1>12. CooldownTimed'
    BY <1>3, <1>4, <1>7, <1>10 DEF SlotInv, CooldownTimed
<1>. QED
    BY <1>10, <1>11, <1>12 DEF SlotInv

(* The timer is set for the object that is limited, and for the end of its cooldown. *)
LEMMA MarkKeeps ==
    ASSUME SlotInv, NEW k \in Client, NEW d \in Cooldown, MarkRateLimited(k, d)
    PROVE  SlotInv'
<1>. DEFINE g == GetGate(DefaultLimit)
            t == [object |-> g.object, due |-> now + d]
<1>1. /\ g \in GateObject /\ g # NoGate /\ g.running = Cardinality(holders)
      /\ Orderly(g.queue, holders)
    BY Found, GateAssumption
<1>2. /\ now + d <= MaxNow /\ Cardinality(resumeTimers) < MaxTimers
      /\ gate' = g
      /\ until' = [until EXCEPT ![g.object] = now + d]
      /\ resumeTimers' = resumeTimers \cup {t}
      /\ limitedTill' = now + d
      /\ UNCHANGED <<now, holders>>
    BY DEF MarkRateLimited
<1>. HIDE DEF g
<1>3. now + d \in Instant /\ now + d # NoGate /\ g.object \in Object
    BY <1>1, <1>2, GateAssumption DEF SlotInv, SlotTypeOK, Instant, GateObject
<1>4. until' \in [Object -> Instant \cup {NoGate}] /\ until'[g.object] = now + d
    BY <1>2, <1>3 DEF SlotInv, SlotTypeOK
<1>5. t \in Timer /\ t.object = g.object /\ t.due = now + d
    BY <1>3 DEF Timer
<1>6. SlotTypeOK'
    BY <1>1, <1>2, <1>3, <1>4, <1>5 DEF SlotInv, SlotTypeOK
<1>. HIDE DEF t
<1>7. IsFiniteSet(resumeTimers) /\ Cardinality(resumeTimers) \in Nat
    BY FS_CardinalityType DEF SlotInv, TimersBounded
<1>8. IsFiniteSet(resumeTimers') /\ Cardinality(resumeTimers') <= Cardinality(resumeTimers) + 1
    <2>1. /\ IsFiniteSet(resumeTimers \cup {t})
          /\ Cardinality(resumeTimers \cup {t}) = IF t \in resumeTimers THEN Cardinality(resumeTimers)
                                            ELSE Cardinality(resumeTimers) + 1
        BY <1>7, FS_AddElement
    <2>. QED
        BY <1>2, <1>7, <2>1
<1>9. Cardinality(resumeTimers') \in Nat
    BY <1>8, FS_CardinalityType
<1>10. TimersBounded'
    BY <1>2, <1>7, <1>8, <1>9, GateAssumption DEF TimersBounded
<1>11. FiniteHolders' /\ QueueInOrder' /\ SlotsCounted'
    BY <1>1, <1>2 DEF SlotInv, FiniteHolders, QueueInOrder, SlotsCounted
<1>12. CooldownTimed' /\ WaitsInCooldown'
    BY <1>2, <1>3, <1>4, <1>5 DEF CooldownTimed, WaitsInCooldown
<1>. QED
    BY <1>6, <1>10, <1>11, <1>12 DEF SlotInv

(* A timer that finds its object limited anew, or another object, changes nothing. *)
LEMMA ResumeTimerKeeps ==
    ASSUME SlotInv, NEW t \in resumeTimers, ResumeTimerFires(t)
    PROVE  SlotInv'
<1>. DEFINE over == until[t.object] # NoGate /\ now >= until[t.object]
            u == [until EXCEPT ![t.object] = NoGate]
<1>1. /\ resumeTimers' = resumeTimers \ {t}
      /\ UNCHANGED <<now, limitedTill>>
      /\ IF over /\ gate # NoGate THEN DrainQueue(gate, u, holders)
         ELSE until' = (IF over THEN u ELSE until) /\ UNCHANGED <<gate, holders>>
    BY DEF ResumeTimerFires
<1>2. t.object \in Object /\ t.due \in Instant /\ t.due <= now
    BY DEF ResumeTimerFires, SlotInv, SlotTypeOK, Timer
<1>3. now \in Instant /\ until \in [Object -> Instant \cup {NoGate}]
    BY DEF SlotInv, SlotTypeOK
<1>4. /\ u \in [Object -> Instant \cup {NoGate}]
      /\ \A o \in Object : u[o] = IF o = t.object THEN NoGate ELSE until[o]
    BY <1>2, <1>3
<1>5. TimersBounded'
    <2>1. IsFiniteSet(resumeTimers \ {t}) /\ Cardinality(resumeTimers \ {t}) <= Cardinality(resumeTimers)
        BY FS_Subset DEF SlotInv, TimersBounded
    <2>2. Cardinality(resumeTimers \ {t}) \in Nat /\ Cardinality(resumeTimers) \in Nat
        BY <2>1, FS_CardinalityType DEF SlotInv, TimersBounded
    <2>. QED
        BY <1>1, <2>1, <2>2, GateAssumption DEF SlotInv, TimersBounded
<1>6. until[t.object] = t.due => over
    BY <1>2, <1>3, GateAssumption DEF Instant
<1>. HIDE DEF over, u
<1>7. CASE over /\ gate # NoGate
    <2>1. gate \in GateObject /\ gate.object \in Object
        BY <1>7 DEF SlotInv, SlotTypeOK, GateObject
    <2>2. /\ holders \in SUBSET Client /\ IsFiniteSet(holders)
          /\ Cardinality(holders) = gate.running /\ Orderly(gate.queue, holders)
        BY <1>7 DEF SlotInv, SlotTypeOK, FiniteHolders, SlotsCounted, QueueInOrder
    <2>3. DrainQueue(gate, u, holders)
        BY <1>1, <1>7
    <2>4. /\ gate' \in GateObject \cup {NoGate}
          /\ until' \in [Object -> Instant \cup {NoGate}]
          /\ holders' \subseteq Client
          /\ FiniteHolders' /\ QueueInOrder' /\ SlotsCounted' /\ WaitsInCooldown'
          /\ gate' # NoGate => gate'.object = gate.object
          /\ until'[gate.object] # NoGate => until'[gate.object] = u[gate.object]
        BY <1>3, <1>4, <2>1, <2>2, <2>3, Drained
    <2>5. SlotTypeOK'
        BY <1>1, <2>4 DEF SlotInv, SlotTypeOK
    <2>6. CooldownTimed'
        <3>1. SUFFICES ASSUME gate' # NoGate, until'[gate.object] # NoGate
                       PROVE  \E x \in resumeTimers' : x.object = gate.object
                                                 /\ x.due = until'[gate.object]
            BY <2>4 DEF CooldownTimed
        <3>2. gate.object # t.object /\ until'[gate.object] = until[gate.object]
            BY <1>4, <2>1, <2>4, <3>1
        <3>3. PICK x \in resumeTimers : x.object = gate.object /\ x.due = until[gate.object]
            BY <1>7, <3>1, <3>2 DEF SlotInv, CooldownTimed
        <3>4. x \in resumeTimers'
            BY <1>1, <3>2, <3>3
        <3>. QED
            BY <3>2, <3>3, <3>4
    <2>. QED
        BY <1>5, <2>4, <2>5, <2>6 DEF SlotInv
<1>8. CASE gate = NoGate
    <2>1. UNCHANGED <<gate, holders>> /\ until' \in [Object -> Instant \cup {NoGate}]
        BY <1>1, <1>3, <1>4, <1>8
    <2>. QED
        BY <1>1, <1>5, <1>8, <2>1
        DEF SlotInv, SlotTypeOK, FiniteHolders, QueueInOrder, SlotsCounted, CooldownTimed, WaitsInCooldown
<1>9. CASE ~over /\ gate # NoGate
    <2>1. UNCHANGED <<gate, holders, until>>
        BY <1>1, <1>9
    <2>2. CooldownTimed'
        <3>1. SUFFICES ASSUME until[gate.object] # NoGate
                       PROVE  \E x \in resumeTimers' : x.object = gate.object
                                                 /\ x.due = until[gate.object]
            BY <1>9, <2>1 DEF CooldownTimed
        <3>2. PICK x \in resumeTimers : x.object = gate.object /\ x.due = until[gate.object]
            BY <1>9, <3>1 DEF SlotInv, CooldownTimed
        <3>3. x # t
            BY <1>6, <1>9, <3>2
        <3>. QED
            BY <1>1, <3>2, <3>3
    <2>. QED
        BY <1>1, <1>5, <2>1, <2>2
        DEF SlotInv, SlotTypeOK, FiniteHolders, QueueInOrder, SlotsCounted, WaitsInCooldown
<1>. QED
    BY <1>7, <1>8, <1>9

LEMMA RestKeeps ==
    ASSUME SlotInv, UNCHANGED <<gate, until, holders, resumeTimers, limitedTill>>,
           now' \in Instant
    PROVE  SlotInv'
BY DEF SlotInv, SlotTypeOK, FiniteHolders, TimersBounded, QueueInOrder, SlotsCounted,
       CooldownTimed, WaitsInCooldown

LEMMA SlotStepsKeep ==
    ASSUME SlotInv, [SlotNext]_slotVars
    PROVE  SlotInv'
<1>1. ASSUME NEW k \in Client, SlotAtOnce(k) PROVE SlotInv'
    BY <1>1, AtOnceKeeps
<1>2. ASSUME NEW k \in Client, SlotRejected(k) PROVE SlotInv'
    BY <1>2, RejectedKeeps
<1>3. ASSUME NEW k \in Client, SlotAwaited(k) PROVE SlotInv'
    BY <1>3, WaitsKeeps
<1>4. ASSUME NEW k \in Client, QueueTimeout(k) PROVE SlotInv'
    BY <1>4, QueueTimeoutKeeps
<1>5. ASSUME NEW k \in Client, ReleaseSlot(k) PROVE SlotInv'
    BY <1>5, ReleaseKeeps
<1>6. ASSUME NEW k \in Client, NEW d \in Cooldown, MarkRateLimited(k, d) PROVE SlotInv'
    BY <1>6, MarkKeeps
<1>7. ASSUME NEW t \in resumeTimers, ResumeTimerFires(t) PROVE SlotInv'
    BY <1>7, ResumeTimerKeeps
<1>8. CASE Tick
    BY <1>8, RestKeeps, GateAssumption DEF Tick, SlotInv, SlotTypeOK, Instant
<1>9. CASE UNCHANGED slotVars
    BY <1>9, RestKeeps DEF slotVars, SlotInv, SlotTypeOK
<1>. QED
    BY <1>1, <1>2, <1>3, <1>4, <1>5, <1>6, <1>7, <1>8, <1>9 DEF SlotNext

LEMMA SlotsInvariant == SlotSpec => []SlotInv
<1>1. SlotInit => SlotInv
    BY SlotsInitially, GateAssumption
<1>2. SlotInv /\ [SlotNext]_slotVars => SlotInv'
    BY SlotStepsKeep, GateAssumption
<1>. QED
    BY <1>1, <1>2, PTL DEF SlotSpec

-----------------------------------------------------------------------------
(* Type correctness; in particular a gate that is made anew has an object of its own. *)
THEOREM SlotsTyped == SlotSpec => []SlotTypeOK
<1>1. SlotInv => SlotTypeOK
    BY DEF SlotInv
<1>. QED
    BY <1>1, SlotsInvariant, PTL

(***************************************************************************)
(* The counter of the gate that has the name is the number of requests     *)
(* with a release function in hand, whichever gate object they got it from *)
(* (createReleaseFn(), rateLimitSemaphore.ts:109-125).                     *)
(***************************************************************************)
THEOREM ReleasesFindTheirSlot == SlotSpec => []SlotsCounted
<1>1. SlotInv => SlotsCounted
    BY DEF SlotInv
<1>. QED
    BY <1>1, SlotsInvariant, PTL

(***************************************************************************)
(* Whoever waits has a holder or the timer of the very cooldown the gate   *)
(* is in to wake it, however often cooldowns were reported over each other *)
(* and gates made anew (markRateLimited(), rateLimitSemaphore.ts:188-199). *)
(***************************************************************************)
THEOREM WaitersCanBeWoken == SlotSpec => []SomebodyWillDrain
<1>1. SlotInv => SomebodyWillDrain
    <2>1. SUFFICES ASSUME SlotInv, Queued # {}, holders = {}
                   PROVE  \E t \in resumeTimers : t.object = gate.object /\ t.due = until[gate.object]
        BY DEF SomebodyWillDrain
    <2>2. gate # NoGate /\ gate.queue \in Seq(Client)
        BY <2>1 DEF Queued, SlotInv, SlotTypeOK, GateObject
    <2>3. gate.queue # <<>>
        BY <2>1, <2>2 DEF Queued
    <2>. QED
        BY <2>1, <2>2, <2>3 DEF SlotInv, CooldownTimed, WaitsInCooldown
<1>. QED
    BY <1>1, SlotsInvariant, PTL
=============================================================================
