-------------------------- MODULE ExclusiveLeases_proofs --------------------------
(***************************************************************************)
(* Theorems about the lease table for any sets of owners, keys,            *)
(* connections and instants, and about the managed sessions that use it,   *)
(* and their proofs.                                                       *)
(***************************************************************************)
EXTENDS ManagedSessions, TLAPS, WellFoundedInduction, NaturalsInduction, SequenceTheorems

-----------------------------------------------------------------------------
(* What the inductive invariant says of a state of the table. *)

Sole(tbl) ==
    \A i, j \in Active(tbl) :
        tbl[i].owner = tbl[j].owner \/ tbl[i].conn = tbl[j].conn => i = j

Ordered(tbl) ==
    \A i, j \in DOMAIN tbl :
        i < j /\ tbl[i].owner = tbl[j].owner =>
            /\ tbl[i].state # "ACTIVE"
            /\ tbl[i].gen <= tbl[j].gen
            /\ tbl[i].gen = tbl[j].gen =>
                    tbl[i].state = "INVALIDATED" /\ tbl[i].key = tbl[j].key

Good(tbl) == tbl \in Seq(Row) /\ Sole(tbl) /\ Ordered(tbl)

(* Rows only ended or had their times changed, none was added. *)
Aged(tbl, new) ==
    /\ new \in Seq(Row) /\ Len(new) = Len(tbl)
    /\ \A i \in 1 .. Len(tbl) :
        /\ new[i].owner = tbl[i].owner /\ new[i].key = tbl[i].key
        /\ new[i].conn = tbl[i].conn /\ new[i].gen = tbl[i].gen
        /\ tbl[i].state # "ACTIVE" => new[i] = tbl[i]

(* new is tbl, perhaps aged and then with one row inserted. *)
Grown(tbl, new) ==
    \E mid, row :
        /\ Aged(tbl, mid) /\ row \in Row /\ new = Append(mid, row)
        /\ Len(tbl) < MaxRows
        /\ row.state = "ACTIVE"
        /\ \A i \in 1 .. Len(tbl) : mid[i].owner = row.owner =>
            /\ mid[i].state # "ACTIVE"
            /\ mid[i].gen <= row.gen
            /\ mid[i].gen = row.gen => mid[i].state = "INVALIDATED" /\ mid[i].key = row.key
            /\ mid[i].gen = row.gen =>
                    \E j \in 1 .. Len(tbl) : /\ tbl[j].state = "ACTIVE"
                                             /\ tbl[j].owner = row.owner
                                             /\ tbl[j].gen = row.gen
        /\ \A i \in 1 .. Len(tbl) : mid[i].conn = row.conn => mid[i].state # "ACTIVE"
        /\ \/ row.gen = LastGeneration(tbl, row.owner) + 1
           \/ \E j \in 1 .. Len(tbl) : /\ tbl[j].state = "ACTIVE"
                                       /\ tbl[j].owner = row.owner /\ tbl[j].gen = row.gen
                                       /\ tbl[j].key = row.key /\ tbl[j].conn # row.conn

-----------------------------------------------------------------------------
LEMMA SeqFacts ==
    ASSUME NEW tbl \in Seq(Row)
    PROVE  /\ Len(tbl) \in Nat
           /\ DOMAIN tbl = 1 .. Len(tbl)
           /\ \A i \in 1 .. Len(tbl) : tbl[i] \in Row
OBVIOUS

(* Ageing keeps the invariant: a row that changes state was ACTIVE. *)
LEMMA AgedGood ==
    ASSUME NEW tbl, Good(tbl), NEW new, Aged(tbl, new)
    PROVE  Good(new)
<1>1. /\ tbl \in Seq(Row) /\ new \in Seq(Row)
      /\ DOMAIN tbl = 1 .. Len(tbl) /\ DOMAIN new = 1 .. Len(tbl)
    BY SeqFacts DEF Good, Aged
<1>2. \A i \in 1 .. Len(tbl) : new[i].state = "ACTIVE" => tbl[i].state = "ACTIVE"
    BY DEF Aged
<1>3. Sole(new)
    BY <1>1, <1>2 DEF Sole, Active, Good, Aged
<1>4. Ordered(new)
    BY <1>1 DEF Ordered, Good, Aged
<1>. QED
    BY <1>1, <1>3, <1>4 DEF Good

(* So does inserting a row. *)
LEMMA GrownGood ==
    ASSUME NEW tbl, Good(tbl), NEW new, Grown(tbl, new)
    PROVE  Good(new)
<1>1. PICK mid, row :
        /\ Aged(tbl, mid) /\ row \in Row /\ new = Append(mid, row)
        /\ row.state = "ACTIVE"
        /\ \A i \in 1 .. Len(tbl) : mid[i].owner = row.owner =>
            /\ mid[i].state # "ACTIVE"
            /\ mid[i].gen <= row.gen
            /\ mid[i].gen = row.gen => mid[i].state = "INVALIDATED" /\ mid[i].key = row.key
        /\ \A i \in 1 .. Len(tbl) : mid[i].conn = row.conn => mid[i].state # "ACTIVE"
    BY DEF Grown
<1>2. Good(mid)
    BY <1>1, AgedGood
<1>3. mid \in Seq(Row) /\ Len(mid) \in Nat /\ Len(mid) = Len(tbl) /\ DOMAIN mid = 1 .. Len(mid)
    BY <1>1, <1>2, SeqFacts DEF Good, Aged
<1>4. /\ new \in Seq(Row) /\ DOMAIN new = 1 .. Len(mid) + 1
      /\ \A i \in 1 .. Len(mid) : new[i] = mid[i]
      /\ new[Len(mid) + 1] = row
    BY <1>1, <1>3
<1>5. \A i \in DOMAIN new : i \in DOMAIN mid \/ i = Len(mid) + 1
    BY <1>3, <1>4
<1>6. Sole(new)
    <2>1. SUFFICES ASSUME NEW i \in Active(new), NEW j \in Active(new),
                          new[i].owner = new[j].owner \/ new[i].conn = new[j].conn
                   PROVE  i = j
        BY DEF Sole
    <2>2. CASE i \in DOMAIN mid /\ j \in DOMAIN mid
        BY <1>2, <1>3, <1>4, <2>1, <2>2 DEF Good, Sole, Active
    <2>3. CASE i \in DOMAIN mid /\ j = Len(mid) + 1
        BY <1>1, <1>3, <1>4, <2>1, <2>3 DEF Active
    <2>4. CASE j \in DOMAIN mid /\ i = Len(mid) + 1
        BY <1>1, <1>3, <1>4, <2>1, <2>4 DEF Active
    <2>. QED
        BY <1>5, <2>2, <2>3, <2>4 DEF Active
<1>7. Ordered(new)
    <2>1. SUFFICES ASSUME NEW i \in DOMAIN new, NEW j \in DOMAIN new,
                          i < j, new[i].owner = new[j].owner
                   PROVE  /\ new[i].state # "ACTIVE"
                          /\ new[i].gen <= new[j].gen
                          /\ new[i].gen = new[j].gen =>
                                 new[i].state = "INVALIDATED" /\ new[i].key = new[j].key
        BY DEF Ordered
    <2>2. i \in DOMAIN mid
        BY <1>3, <1>4, <2>1
    <2>3. CASE j \in DOMAIN mid
        BY <1>2, <1>3, <1>4, <2>1, <2>2, <2>3 DEF Good, Ordered
    <2>4. CASE j = Len(mid) + 1
        BY <1>1, <1>3, <1>4, <2>1, <2>2, <2>4
    <2>. QED
        BY <1>5, <2>3, <2>4
<1>. QED
    BY <1>4, <1>6, <1>7 DEF Good

-----------------------------------------------------------------------------
(* The largest of finitely many bounded numbers. *)
LEMMA Greatest ==
    ASSUME NEW A, A # {}, A \subseteq Nat, NEW n \in Nat, \A x \in A : x <= n
    PROVE  \E m \in A : \A x \in A : x <= m
<1> DEFINE B == {b \in Nat : \A x \in A : x <= b}
<1>1. B \subseteq Nat /\ n \in B
    OBVIOUS
<1>2. PICK b \in B : \A c \in B : <<c, b>> \notin OpToRel(<, Nat)
    BY <1>1, WFMin, NatLessThanWellFounded
<1>3. \A c \in B : ~(c < b)
    BY <1>1, <1>2 DEF OpToRel
<1>4. SUFFICES ASSUME b \notin A PROVE FALSE
    BY <1>1, <1>2
<1>5. \A x \in A : x <= b - 1
    BY <1>4
<1>6. b - 1 \in Nat
    <2>1. PICK x \in A : x \in Nat /\ x <= b - 1
        BY <1>5
    <2>2. b \in Nat
        BY <1>1
    <2>. QED
        BY <2>1, <2>2
<1>. QED
    BY <1>3, <1>5, <1>6

(* LastGeneration is the MAX the query computes. *)
LEMMA LastGenerationIsMax ==
    ASSUME NEW tbl, Good(tbl), NEW o
    PROVE  /\ LastGeneration(tbl, o) \in Nat
           /\ \A i \in 1 .. Len(tbl) : tbl[i].owner = o => tbl[i].gen <= LastGeneration(tbl, o)
           /\ \/ LastGeneration(tbl, o) = 0
              \/ \E i \in 1 .. Len(tbl) : /\ tbl[i].owner = o
                                          /\ tbl[i].gen = LastGeneration(tbl, o)
<1> DEFINE D == {j \in DOMAIN tbl : tbl[j].owner = o}
           G == {0} \cup {tbl[i].gen : i \in D}
           Bound(g) == \A i \in DOMAIN tbl : tbl[i].owner = o => tbl[i].gen <= g
<1>1. /\ Len(tbl) \in Nat /\ DOMAIN tbl = 1 .. Len(tbl) /\ D \subseteq 1 .. Len(tbl)
      /\ \A i \in DOMAIN tbl : tbl[i].gen \in Nat
    BY SeqFacts DEF Good, Row
<1>2. \E g \in G : Bound(g)
    <2>1. CASE D = {}
        BY <2>1
    <2>2. CASE D # {}
        <3>1. PICK m \in D : \A x \in D : x <= m
            <4> HIDE DEF D
            <4>1. D \subseteq Nat /\ \A x \in D : x <= Len(tbl)
                BY <1>1
            <4>. QED
                BY <1>1, <2>2, <4>1, Greatest
        <3>2. \A i \in D : tbl[i].gen <= tbl[m].gen
            <4>1. SUFFICES ASSUME NEW i \in D PROVE tbl[i].gen <= tbl[m].gen
                OBVIOUS
            <4>2. i = m \/ i < m
                BY <1>1, <3>1
            <4>. QED
                BY <1>1, <4>2 DEF Good, Ordered
        <3>. QED
            BY <3>1, <3>2
    <2>. QED
        BY <2>1, <2>2
<1>3. LastGeneration(tbl, o) = CHOOSE g \in G : Bound(g)
    BY DEF LastGeneration
<1>4. LastGeneration(tbl, o) \in G /\ Bound(LastGeneration(tbl, o))
    <2> HIDE DEF G, Bound
    <2>. QED
        BY <1>2, <1>3
<1>. QED
    BY <1>1, <1>4

(* Ageing changes no generation. *)
LEMMA AgedLast ==
    ASSUME NEW tbl, Good(tbl), NEW new, Aged(tbl, new), NEW o
    PROVE  LastGeneration(new, o) = LastGeneration(tbl, o)
<1> DEFINE x == LastGeneration(tbl, o)
           y == LastGeneration(new, o)
<1>1. /\ Len(new) = Len(tbl)
      /\ \A i \in 1 .. Len(tbl) : new[i].owner = tbl[i].owner /\ new[i].gen = tbl[i].gen
    BY DEF Aged
<1>2. /\ x \in Nat /\ \A i \in 1 .. Len(tbl) : tbl[i].owner = o => tbl[i].gen <= x
      /\ x = 0 \/ \E i \in 1 .. Len(tbl) : tbl[i].owner = o /\ tbl[i].gen = x
    BY LastGenerationIsMax
<1>3. /\ y \in Nat /\ \A i \in 1 .. Len(tbl) : tbl[i].owner = o => tbl[i].gen <= y
      /\ y = 0 \/ \E i \in 1 .. Len(tbl) : tbl[i].owner = o /\ tbl[i].gen = y
    BY <1>1, AgedGood, LastGenerationIsMax
<1> HIDE DEF x, y
<1>4. x <= y /\ y <= x
    BY <1>2, <1>3
<1>5. x = y
    BY <1>2, <1>3, <1>4
<1>. QED
    BY <1>5 DEF x, y

-----------------------------------------------------------------------------
(* What each statement of a transaction does to the table. *)

LEMMA ExpiredAged ==
    ASSUME rows \in Seq(Row), NEW now
    PROVE  Aged(rows, Expired(now))
<1>1. /\ Len(rows) \in Nat /\ DOMAIN rows = 1 .. Len(rows)
      /\ \A i \in 1 .. Len(rows) : rows[i] \in Row
    BY SeqFacts
<1>2. \A i \in 1 .. Len(rows) : [rows[i] EXCEPT !.state = "EXPIRED"] \in Row
    BY <1>1 DEF Row, State
<1>3. \A i \in 1 .. Len(rows) : Expired(now)[i] \in Row
    BY <1>1, <1>2 DEF Expired
<1>4. Expired(now) \in Seq(Row) /\ Len(Expired(now)) = Len(rows)
    BY <1>1, <1>3 DEF Expired
<1>. QED
    BY <1>1, <1>4 DEF Aged, Expired, Row

LEMMA AgedTwice ==
    ASSUME NEW a, NEW b, NEW c, a \in Seq(Row), Aged(a, b), Aged(b, c)
    PROVE  Aged(a, c)
BY DEF Aged

LEMMA StateSet ==
    ASSUME NEW tbl \in Seq(Row), NEW i \in Active(tbl), NEW s \in State
    PROVE  Aged(tbl, [tbl EXCEPT ![i].state = s])
<1>1. /\ Len(tbl) \in Nat /\ DOMAIN tbl = 1 .. Len(tbl) /\ i \in 1 .. Len(tbl)
      /\ \A j \in 1 .. Len(tbl) : tbl[j] \in Row
    BY SeqFacts DEF Active
<1>2. [tbl[i] EXCEPT !.state = s] \in Row
    BY <1>1 DEF Row
<1>3. [tbl EXCEPT ![i].state = s] = [tbl EXCEPT ![i] = [tbl[i] EXCEPT !.state = s]]
    BY <1>1
<1>. QED
    BY <1>1, <1>2, <1>3 DEF Aged, Active, Row

LEMMA ExpirySet ==
    ASSUME NEW tbl \in Seq(Row), NEW i \in Active(tbl), NEW t \in Nat
    PROVE  Aged(tbl, [tbl EXCEPT ![i].expires = t])
<1>1. /\ Len(tbl) \in Nat /\ DOMAIN tbl = 1 .. Len(tbl) /\ i \in 1 .. Len(tbl)
      /\ \A j \in 1 .. Len(tbl) : tbl[j] \in Row
    BY SeqFacts DEF Active
<1>2. [tbl[i] EXCEPT !.expires = t] \in Row
    BY <1>1 DEF Row
<1>3. [tbl EXCEPT ![i].expires = t] = [tbl EXCEPT ![i] = [tbl[i] EXCEPT !.expires = t]]
    BY <1>1
<1>. QED
    BY <1>1, <1>2, <1>3 DEF Aged, Active, Row

(***************************************************************************)
(* The steps.  Each operation ages the table, and acquire and transition   *)
(* may then insert a row for an owner and a connection that have none.     *)
(***************************************************************************)
LEMMA AcquireStep ==
    ASSUME LeasesAssumption, Good(rows), NEW now \in Instant, NEW ttl \in Ttl,
           NEW o \in Owner, NEW k \in ApiKey, NEW c \in Connection, NEW kind,
           Acquire(o, k, c, now, ttl, kind)
    PROVE  Aged(rows, rows') \/ Grown(rows, rows')
<1> DEFINE tbl == Expired(now)
           held == ActiveOf(tbl, o)
           mine == {i \in held : tbl[i].key = k /\ tbl[i].conn = c}
           g == NextGeneration(tbl, o)
           row == [owner |-> o, key |-> k, conn |-> c, gen |-> g,
                   state |-> "ACTIVE", expires |-> now + ttl]
<1>1. Aged(rows, tbl) /\ Good(tbl) /\ tbl \in Seq(Row) /\ rows \in Seq(Row)
    BY ExpiredAged, AgedGood DEF Good
<1>2. now + ttl \in Nat
    BY DEF LeasesAssumption
<1>3. CASE rows' = tbl
    BY <1>1, <1>3
<1>4. CASE \E i \in mine : rows' = [tbl EXCEPT ![i].expires = now + ttl]
    <2>1. PICK i \in mine : rows' = [tbl EXCEPT ![i].expires = now + ttl]
        BY <1>4
    <2>2. i \in Active(tbl)
        BY DEF ActiveOf
    <2> HIDE DEF tbl, mine
    <2>3. Aged(tbl, rows')
        BY <1>1, <1>2, <2>1, <2>2, ExpirySet
    <2>. QED
        BY <1>1, <2>3, AgedTwice
<1>5. CASE held = {} /\ HolderOf(tbl, c) = {} /\ Insert(tbl, o, k, c, g, now + ttl)
    <2>1. rows' = Append(tbl, row) /\ Len(tbl) < MaxRows
        BY <1>5 DEF Insert
    <2>2. /\ g \in Nat \ {0}
          /\ \A i \in 1 .. Len(tbl) : tbl[i].owner = o => tbl[i].gen < g
        <3>1. \A i \in 1 .. Len(tbl) : tbl[i].gen \in Nat
            BY <1>1, SeqFacts DEF Row
        <3> HIDE DEF tbl
        <3>. QED
            BY <1>1, <3>1, LastGenerationIsMax DEF NextGeneration
    <2>3. row \in Row
        BY <1>2, <2>2 DEF Row, State
    <2>4. \A i \in 1 .. Len(tbl) :
            /\ tbl[i].owner = o => tbl[i].state # "ACTIVE"
            /\ tbl[i].conn = c => tbl[i].state # "ACTIVE"
        <3>1. DOMAIN tbl = 1 .. Len(tbl)
            BY <1>1, SeqFacts
        <3> HIDE DEF tbl
        <3>. QED
            BY <1>5, <3>1 DEF ActiveOf, HolderOf, Active
    <2>5. Len(tbl) = Len(rows)
        BY <1>1 DEF Aged
    <2>6. \A i \in 1 .. Len(tbl) : tbl[i].owner = o => tbl[i].gen <= g /\ tbl[i].gen # g
        <3>1. \A i \in 1 .. Len(tbl) : tbl[i].gen \in Nat
            BY <1>1, SeqFacts DEF Row
        <3> HIDE DEF tbl, g
        <3>. QED
            BY <2>2, <3>1
    <2>7. row.owner = o /\ row.conn = c /\ row.gen = g /\ row.key = k /\ row.state = "ACTIVE"
        OBVIOUS
    <2>8. g = LastGeneration(rows, o) + 1
        BY <1>1, AgedLast DEF NextGeneration
    <2> HIDE DEF tbl, g, row
    <2>. QED
        BY <1>1, <2>1, <2>3, <2>4, <2>5, <2>6, <2>7, <2>8 DEF Grown
<1>. QED
    BY <1>3, <1>4, <1>5 DEF Acquire

LEMMA TransitionStep ==
    ASSUME LeasesAssumption, Good(rows), NEW now \in Instant, NEW ttl \in Ttl,
           NEW o \in Owner, NEW g \in Nat, NEW k \in ApiKey, NEW c \in Connection, NEW kind,
           Transition(o, g, k, c, now, ttl, kind)
    PROVE  Aged(rows, rows') \/ Grown(rows, rows')
<1> DEFINE tbl == Expired(now)
           mine == {i \in ActiveOf(tbl, o) : tbl[i].gen = g /\ tbl[i].key = k}
           row == [owner |-> o, key |-> k, conn |-> c, gen |-> g,
                   state |-> "ACTIVE", expires |-> now + ttl]
<1>1. Aged(rows, tbl) /\ Good(tbl) /\ tbl \in Seq(Row) /\ rows \in Seq(Row)
    BY ExpiredAged, AgedGood DEF Good
<1>2. now + ttl \in Nat
    BY DEF LeasesAssumption
<1>3. CASE rows' = tbl
    BY <1>1, <1>3
<1>4. ASSUME HolderOf(tbl, c) = {},
             NEW i \in mine, tbl[i].conn # c,
             Insert([tbl EXCEPT ![i].state = "INVALIDATED"], o, k, c, g, now + ttl)
      PROVE  Grown(rows, rows')
    <2> DEFINE mid == [tbl EXCEPT ![i].state = "INVALIDATED"]
    <2>1. rows' = Append(mid, row) /\ Len(mid) < MaxRows
        BY <1>4 DEF Insert
    <2>2. /\ i \in Active(tbl) /\ i \in 1 .. Len(tbl) /\ Len(tbl) = Len(rows)
          /\ tbl[i].owner = o /\ tbl[i].gen = g /\ tbl[i].key = k
          /\ DOMAIN tbl = 1 .. Len(tbl) /\ tbl[i] \in Row /\ tbl[i].state = "ACTIVE"
        BY <1>1, <1>4, SeqFacts DEF ActiveOf, Active, Aged
    <2>3. /\ Aged(tbl, mid)
          /\ mid[i].state = "INVALIDATED"
          /\ \A j \in 1 .. Len(tbl) : j # i => mid[j] = tbl[j]
        <3> HIDE DEF tbl
        <3>1. "INVALIDATED" \in State
            BY DEF State
        <3>2. Aged(tbl, mid)
            BY <1>1, <2>2, <3>1, StateSet
        <3>3. mid[i].state = "INVALIDATED"
            BY <2>2 DEF Row
        <3>4. \A j \in 1 .. Len(tbl) : j # i => mid[j] = tbl[j]
            BY <2>2
        <3>. QED
            BY <3>2, <3>3, <3>4
    <2>4. Aged(rows, mid)
        <3> HIDE DEF tbl, mid
        <3>. QED
            BY <1>1, <2>3, AgedTwice
    <2>5. row \in Row
        <3>1. g # 0
            BY <2>2 DEF Row
        <3>. QED
            BY <1>2, <3>1 DEF Row, State
    <2>6. ASSUME NEW j \in 1 .. Len(rows), mid[j].owner = o
          PROVE  /\ mid[j].state # "ACTIVE"
                 /\ mid[j].gen <= g
                 /\ mid[j].gen = g => mid[j].state = "INVALIDATED" /\ mid[j].key = k
        <3> HIDE DEF tbl, mid
        <3>1. mid[j].owner = tbl[j].owner /\ mid[j].key = tbl[j].key /\ mid[j].gen = tbl[j].gen
            BY <2>2, <2>3, <2>6 DEF Aged
        <3>2. CASE j = i
            BY <2>2, <2>3, <3>1, <3>2
        <3>3. CASE j < i
            <4>1. /\ tbl[j].state # "ACTIVE" /\ tbl[j].gen <= tbl[i].gen
                  /\ tbl[j].gen = tbl[i].gen =>
                        tbl[j].state = "INVALIDATED" /\ tbl[j].key = tbl[i].key
                BY <1>1, <2>2, <2>6, <3>1, <3>3 DEF Good, Ordered
            <4>2. mid[j] = tbl[j]
                BY <2>2, <2>3, <2>6, <3>3
            <4>. QED
                BY <2>2, <4>1, <4>2
        <3>4. CASE i < j
            BY <1>1, <2>2, <2>6, <3>1, <3>4 DEF Good, Ordered
        <3>5. j = i \/ j < i \/ i < j
            BY <2>2, <2>6
        <3>. QED
            BY <3>2, <3>3, <3>4, <3>5
    <2>7. \A j \in 1 .. Len(rows) : mid[j].conn = c => mid[j].state # "ACTIVE"
        <3> HIDE DEF tbl, mid
        <3>. QED
            BY <1>4, <2>2, <2>3 DEF HolderOf, Active, Aged
    <2>8. /\ rows[i].state = "ACTIVE" /\ rows[i].owner = o /\ rows[i].gen = g
          /\ rows[i].key = k /\ rows[i].conn # c /\ i \in 1 .. Len(rows)
        <3>1. rows[i].state # "ACTIVE" => tbl[i] = rows[i]
            BY <1>1, <2>2 DEF Aged
        <3>. QED
            BY <1>1, <1>4, <2>2, <3>1 DEF Aged
    <2>9. row.owner = o /\ row.conn = c /\ row.gen = g /\ row.key = k /\ row.state = "ACTIVE"
        OBVIOUS
    <2>10. \A j \in 1 .. Len(rows) : mid[j].owner = row.owner =>
                /\ mid[j].state # "ACTIVE"
                /\ mid[j].gen <= row.gen
                /\ mid[j].gen = row.gen => mid[j].state = "INVALIDATED" /\ mid[j].key = row.key
                /\ mid[j].gen = row.gen =>
                        \E m \in 1 .. Len(rows) : /\ rows[m].state = "ACTIVE"
                                                  /\ rows[m].owner = row.owner
                                                  /\ rows[m].gen = row.gen
        <3> HIDE DEF tbl, mid, row
        <3>. QED
            BY <2>2, <2>6, <2>8, <2>9
    <2>11. \A j \in 1 .. Len(rows) : mid[j].conn = row.conn => mid[j].state # "ACTIVE"
        <3> HIDE DEF tbl, mid, row
        <3>. QED
            BY <2>7, <2>9
    <2>12. \E j \in 1 .. Len(rows) : /\ rows[j].state = "ACTIVE"
                                     /\ rows[j].owner = row.owner /\ rows[j].gen = row.gen
                                     /\ rows[j].key = row.key /\ rows[j].conn # row.conn
        <3> HIDE DEF tbl, mid, row
        <3>. QED
            BY <2>8, <2>9
    <2> HIDE DEF tbl, mid, row
    <2>13. Len(rows) < MaxRows
        BY <2>1, <2>4 DEF Aged
    <2>. QED
        BY <2>1, <2>4, <2>5, <2>9, <2>10, <2>11, <2>12, <2>13 DEF Grown
<1>. QED
    BY <1>3, <1>4 DEF Transition

(* renew, release and invalidate: they change the current row at most. *)
LEMMA UpdateStep ==
    ASSUME LeasesAssumption, Good(rows), NEW now \in Instant,
           NEW o \in Owner, NEW g \in Nat, NEW k \in ApiKey, NEW kind,
           \/ \E ttl \in Ttl : Renew(o, g, k, now, ttl, kind)
           \/ Release(o, g, k, now, kind)
           \/ Invalidate(o, g, k, now, kind)
    PROVE  Aged(rows, rows')
<1> DEFINE tbl == Expired(now)
           current == Current(tbl, o, g, k, now)
<1>1. Aged(rows, tbl) /\ tbl \in Seq(Row) /\ rows \in Seq(Row)
    BY ExpiredAged DEF Good, Aged
<1>2. \A i \in current : i \in Active(tbl)
    BY DEF Current, ActiveOf
<1>3. CASE rows' = tbl
    BY <1>1, <1>3
<1>4. ASSUME NEW ttl \in Ttl, NEW i \in current, rows' = [tbl EXCEPT ![i].expires = now + ttl]
      PROVE  Aged(rows, rows')
    <2>1. now + ttl \in Nat
        BY DEF LeasesAssumption
    <2> HIDE DEF tbl, current
    <2>2. Aged(tbl, rows')
        BY <1>1, <1>2, <1>4, <2>1, ExpirySet
    <2>. QED
        BY <1>1, <2>2, AgedTwice
<1>5. ASSUME NEW s \in {"RELEASED", "INVALIDATED"}, NEW i \in current,
             rows' = [tbl EXCEPT ![i].state = s]
      PROVE  Aged(rows, rows')
    <2> HIDE DEF tbl, current
    <2>1. Aged(tbl, rows')
        BY <1>1, <1>2, <1>5, StateSet DEF State
    <2>. QED
        BY <1>1, <2>1, AgedTwice
<1>6. CASE \E ttl \in Ttl : Renew(o, g, k, now, ttl, kind)
    BY <1>3, <1>4, <1>6 DEF Renew
<1>7. CASE Release(o, g, k, now, kind)
    BY <1>3, <1>5, <1>7 DEF Release
<1>8. CASE Invalidate(o, g, k, now, kind)
    BY <1>3, <1>5, <1>8 DEF Invalidate
<1>. QED
    BY <1>6, <1>7, <1>8

LEMMA StepShape ==
    ASSUME LeasesAssumption, Good(rows), Next
    PROVE  Aged(rows, rows') \/ Grown(rows, rows')
<1>1. PICK now \in Instant :
        \/ Reconcile(now)
        \/ \E o \in Owner, k \in ApiKey, kind \in Kind :
            \/ \E c \in Connection, ttl \in Ttl : Acquire(o, k, c, now, ttl, kind)
            \/ \E g \in Generation, c \in Connection, ttl \in Ttl :
                    Transition(o, g, k, c, now, ttl, kind)
            \/ \E g \in Generation, ttl \in Ttl : Renew(o, g, k, now, ttl, kind)
            \/ \E g \in Generation : Release(o, g, k, now, kind)
            \/ \E g \in Generation : Invalidate(o, g, k, now, kind)
    BY DEF Next
<1>2. \A g \in Generation : g \in Nat
    BY DEF Generation, LeasesAssumption
<1>3. CASE Reconcile(now)
    BY <1>3, ExpiredAged DEF Reconcile, Good
<1>4. ASSUME NEW o \in Owner, NEW k \in ApiKey, NEW kind \in Kind
      PROVE  /\ \A c \in Connection, ttl \in Ttl : Acquire(o, k, c, now, ttl, kind)
                    => Aged(rows, rows') \/ Grown(rows, rows')
             /\ \A g \in Generation, c \in Connection, ttl \in Ttl :
                    Transition(o, g, k, c, now, ttl, kind)
                    => Aged(rows, rows') \/ Grown(rows, rows')
             /\ \A g \in Generation, ttl \in Ttl :
                    Renew(o, g, k, now, ttl, kind) => Aged(rows, rows')
             /\ \A g \in Generation :
                    Release(o, g, k, now, kind) \/ Invalidate(o, g, k, now, kind)
                    => Aged(rows, rows')
    <2>1. \A c \in Connection, ttl \in Ttl : Acquire(o, k, c, now, ttl, kind)
                    => Aged(rows, rows') \/ Grown(rows, rows')
        BY AcquireStep
    <2>2. \A g \in Generation, c \in Connection, ttl \in Ttl :
                    Transition(o, g, k, c, now, ttl, kind)
                    => Aged(rows, rows') \/ Grown(rows, rows')
        BY <1>2, TransitionStep
    <2>3. \A g \in Generation : (\E ttl \in Ttl : Renew(o, g, k, now, ttl, kind))
                    => Aged(rows, rows')
        BY <1>2, UpdateStep
    <2>4. \A g \in Generation :
                    Release(o, g, k, now, kind) \/ Invalidate(o, g, k, now, kind)
                    => Aged(rows, rows')
        BY <1>2, UpdateStep
    <2>. QED
        BY <2>1, <2>2, <2>3, <2>4
<1>. QED
    BY <1>1, <1>3, <1>4

-----------------------------------------------------------------------------
(***************************************************************************)
(* The inductive invariant.  ExclusiveOwnership is not inductive alone:    *)
(* that a transition may reuse the generation of the row it ends, and that *)
(* no older row of the owner is ACTIVE, both come from HistoryInOrder.     *)
(***************************************************************************)
LEMMA Invariance == Spec => []Good(rows)
<1>1. Init => Good(rows)
    BY DEF Init, Good, Sole, Ordered, Active
<1>2. Good(rows) /\ [Next]_rows => Good(rows)'
    <2>1. SUFFICES ASSUME Good(rows), [Next]_rows PROVE Good(rows')
        BY DEF Good, Sole, Ordered, Active
    <2>2. CASE UNCHANGED rows
        BY <2>1, <2>2
    <2>3. CASE Next
        BY <2>1, <2>3, LeasesAssumption, StepShape, AgedGood, GrownGood
    <2>. QED
        BY <2>1, <2>2, <2>3
<1>. QED
    BY <1>1, <1>2, PTL DEF Spec

(* The rows of the table have the types and satisfy the CHECKs of the schema. *)
THEOREM TypeCorrect == Spec => []TypeOK
<1>1. Good(rows) => TypeOK
    BY DEF Good, TypeOK
<1>. QED
    BY <1>1, Invariance, PTL

(***************************************************************************)
(* No two rows are ACTIVE for one owner or one connection: the unique      *)
(* indices are never needed.                                               *)
(***************************************************************************)
THEOREM OwnershipIsExclusive == Spec => []ExclusiveOwnership
<1>1. Good(rows) => ExclusiveOwnership
    BY DEF Good, Sole, ExclusiveOwnership
<1>. QED
    BY <1>1, Invariance, PTL

(* The last row of a generation, and of an owner, tells the truth about it. *)
THEOREM HistoryIsInOrder == Spec => []HistoryInOrder
<1>1. Good(rows) => HistoryInOrder
    BY DEF Good, Ordered, HistoryInOrder
<1>. QED
    BY <1>1, Invariance, PTL

(***************************************************************************)
(* A generation that ended is never in force again, and ended rows do not  *)
(* change: the fence rejects a late request for ever.                      *)
(***************************************************************************)
THEOREM EndedGenerationsStayEnded == Spec => EndedForGood
<1> DEFINE Kept ==
        /\ \A o \in Owner : \A i \in DOMAIN rows :
            rows[i].owner = o /\ ~InForce(o, rows[i].gen) => ~InForce(o, rows[i].gen)'
        /\ \A i \in DOMAIN rows :
            /\ i \in DOMAIN rows'
            /\ rows[i].state # "ACTIVE" => rows'[i] = rows[i]
<1>1. ASSUME Good(rows), Good(rows'), Aged(rows, rows') \/ Grown(rows, rows')
      PROVE  Kept
    <2>1. /\ rows \in Seq(Row) /\ DOMAIN rows = 1 .. Len(rows) /\ Len(rows) \in Nat
          /\ rows' \in Seq(Row) /\ DOMAIN rows' = 1 .. Len(rows')
        BY <1>1, SeqFacts DEF Good
    <2>2. CASE Aged(rows, rows')
        <3>1. Len(rows') = Len(rows)
            BY <2>2 DEF Aged
        <3>2. \A i \in 1 .. Len(rows) : rows'[i].state = "ACTIVE" =>
                rows[i].state = "ACTIVE" /\ rows'[i].owner = rows[i].owner
                                         /\ rows'[i].gen = rows[i].gen
            BY <2>2 DEF Aged
        <3>3. \A o \in Owner : \A g : InForce(o, g)' => InForce(o, g)
            BY <2>1, <3>1, <3>2 DEF InForce, ActiveOf, Active
        <3>. QED
            BY <2>1, <2>2, <3>1, <3>3 DEF Aged
    <2>3. CASE Grown(rows, rows')
        <3>1. PICK mid, row :
                /\ Aged(rows, mid) /\ row \in Row /\ rows' = Append(mid, row)
                /\ \A i \in 1 .. Len(rows) :
                    mid[i].owner = row.owner /\ mid[i].gen = row.gen =>
                        \E j \in 1 .. Len(rows) : /\ rows[j].state = "ACTIVE"
                                                  /\ rows[j].owner = row.owner
                                                  /\ rows[j].gen = row.gen
            BY <2>3, SMTT(60) DEF Grown
        <3>2. /\ Len(mid) = Len(rows) /\ Len(rows') = Len(rows) + 1
              /\ \A i \in 1 .. Len(rows) : rows'[i] = mid[i]
              /\ rows'[Len(rows) + 1] = row
            BY <2>1, <3>1 DEF Aged
        <3>3. \A i \in 1 .. Len(rows) :
                /\ mid[i].owner = rows[i].owner /\ mid[i].gen = rows[i].gen
                /\ rows[i].state # "ACTIVE" => mid[i] = rows[i]
            BY <3>1 DEF Aged
        <3>4. ASSUME NEW o \in Owner, NEW i \in 1 .. Len(rows), rows[i].owner = o,
                     InForce(o, rows[i].gen)'
              PROVE  InForce(o, rows[i].gen)
            <4>1. rows'[i] = mid[i] /\ rows'[i].gen = rows[i].gen
                BY <3>2, <3>3
            <4>2. PICK j \in 1 .. Len(rows) + 1 :
                    rows'[j].state = "ACTIVE" /\ rows'[j].owner = o
                                              /\ rows'[j].gen = rows[i].gen
                BY <2>1, <3>2, <3>4, <4>1 DEF InForce, ActiveOf, Active
            <4>3. CASE j \in 1 .. Len(rows)
                BY <2>1, <3>2, <3>3, <4>2, <4>3 DEF InForce, ActiveOf, Active
            <4>4. CASE j = Len(rows) + 1
                <5>1. row.owner = o /\ row.gen = rows[i].gen
                    BY <3>2, <4>2, <4>4
                <5>2. mid[i].owner = row.owner /\ mid[i].gen = row.gen
                    BY <3>3, <3>4, <5>1
                <5>3. PICK m \in 1 .. Len(rows) :
                        rows[m].state = "ACTIVE" /\ rows[m].owner = o
                                                 /\ rows[m].gen = rows[i].gen
                    BY <3>1, <5>1, <5>2
                <5>. QED
                    BY <2>1, <5>3 DEF InForce, ActiveOf, Active
            <4>. QED
                BY <2>1, <4>2, <4>3, <4>4
        <3>5. \A i \in DOMAIN rows : i \in DOMAIN rows'
                /\ (rows[i].state # "ACTIVE" => rows'[i] = rows[i])
            BY <2>1, <3>2, <3>3
        <3>. QED
            BY <2>1, <3>4, <3>5
    <2>. QED
        BY <1>1, <2>2, <2>3
<1>2. Good(rows) /\ [Next]_rows /\ Good(rows)' => [Kept]_rows
    <2>1. SUFFICES ASSUME Good(rows), Next, Good(rows)' PROVE Kept
        OBVIOUS
    <2>2. Good(rows')
        BY <2>1 DEF Good, Sole, Ordered, Active
    <2> HIDE DEF Kept
    <2>. QED
        BY <1>1, <2>1, <2>2, LeasesAssumption, StepShape
<1>3. Spec => [][Kept]_rows
    <2> HIDE DEF Kept
    <2>. QED
        BY <1>2, Invariance, PTL DEF Spec
<1>. QED
    BY <1>3 DEF EndedForGood

(***************************************************************************)
(* A release that succeeded is answered RELEASED whenever it is repeated.  *)
(***************************************************************************)
THEOREM ReleaseIsRepeatable == Spec => ReleaseRepeats
<1> DEFINE Kept ==
        \A i \in DOMAIN rows :
            LET o == rows[i].owner  g == rows[i].gen  k == rows[i].key
            IN  Accepted(rows, o, g, k) => Accepted(rows', o, g, k)
<1>1. ASSUME Good(rows), Good(rows'), Aged(rows, rows') \/ Grown(rows, rows'),
             NEW o, NEW g, NEW k, Accepted(rows, o, g, k)
      PROVE  Accepted(rows', o, g, k)
    <2>1. /\ rows \in Seq(Row) /\ DOMAIN rows = 1 .. Len(rows) /\ Len(rows) \in Nat
          /\ rows' \in Seq(Row) /\ DOMAIN rows' = 1 .. Len(rows')
        BY <1>1, SeqFacts DEF Good
    <2>2. PICK i \in 1 .. Len(rows) :
            /\ rows[i].owner = o /\ rows[i].gen = g /\ rows[i].key = k
            /\ rows[i].state = "RELEASED"
            /\ \A j \in 1 .. Len(rows) : rows[j].owner = o /\ rows[j].gen = g => j <= i
        BY <1>1, <2>1 DEF Accepted, Historical
    <2>3. CASE Aged(rows, rows')
        <3>1. /\ Len(rows') = Len(rows) /\ rows'[i] = rows[i]
              /\ \A j \in 1 .. Len(rows) :
                    rows'[j].owner = rows[j].owner /\ rows'[j].gen = rows[j].gen
            BY <2>2, <2>3 DEF Aged
        <3>. QED
            BY <2>1, <2>2, <3>1 DEF Accepted, Historical
    <2>4. CASE Grown(rows, rows')
        <3>1. PICK mid, row :
                /\ Aged(rows, mid) /\ row \in Row /\ rows' = Append(mid, row)
                /\ \A j \in 1 .. Len(rows) :
                    mid[j].owner = row.owner /\ mid[j].gen = row.gen => mid[j].state = "INVALIDATED"
            BY <2>4 DEF Grown
        <3>2. /\ Len(mid) = Len(rows) /\ Len(rows') = Len(rows) + 1
              /\ \A j \in 1 .. Len(rows) : rows'[j] = mid[j]
              /\ rows'[Len(rows) + 1] = row
            BY <2>1, <3>1 DEF Aged
        <3>3. /\ mid[i] = rows[i]
              /\ \A j \in 1 .. Len(rows) :
                    mid[j].owner = rows[j].owner /\ mid[j].gen = rows[j].gen
            BY <2>2, <3>1 DEF Aged
        <3>4. ~(row.owner = o /\ row.gen = g)
            BY <2>2, <3>1, <3>3
        <3>5. \A j \in 1 .. Len(rows) + 1 :
                rows'[j].owner = o /\ rows'[j].gen = g => j <= i
            <4>1. SUFFICES ASSUME NEW j \in 1 .. Len(rows) + 1,
                                  rows'[j].owner = o, rows'[j].gen = g
                           PROVE  j <= i
                OBVIOUS
            <4>2. j # Len(rows) + 1
                BY <3>2, <3>4, <4>1
            <4>3. j \in 1 .. Len(rows)
                BY <2>1, <4>2
            <4>. QED
                BY <2>2, <3>2, <3>3, <4>1, <4>3
        <3>6. i \in DOMAIN rows' /\ rows'[i] = rows[i]
            BY <2>1, <2>2, <3>2, <3>3
        <3>. QED
            BY <2>1, <2>2, <3>2, <3>5, <3>6 DEF Accepted, Historical
    <2>. QED
        BY <1>1, <2>3, <2>4
<1>2. Good(rows) /\ [Next]_rows /\ Good(rows)' => [Kept]_rows
    <2>1. SUFFICES ASSUME Good(rows), Next, Good(rows)' PROVE Kept
        OBVIOUS
    <2>2. Good(rows')
        BY <2>1 DEF Good, Sole, Ordered, Active
    <2>3. Aged(rows, rows') \/ Grown(rows, rows')
        BY <2>1, LeasesAssumption, StepShape
    <2>. QED
        BY <1>1, <2>1, <2>2, <2>3
<1>3. Spec => [][Kept]_rows
    <2> HIDE DEF Kept
    <2>. QED
        BY <1>2, Invariance, PTL DEF Spec
<1>. QED
    BY <1>3 DEF ReleaseRepeats

-----------------------------------------------------------------------------
(* The refinement: what the steps do to the leases in force. *)
ClaimsOf(tbl) == {<<tbl[i].owner, tbl[i].key, tbl[i].conn, tbl[i].gen>> : i \in Active(tbl)}

(* Ageing ends leases and grants none. *)
LEMMA AgedClaims ==
    ASSUME NEW tbl, Good(tbl), NEW new, Aged(tbl, new)
    PROVE  ClaimsOf(new) \subseteq ClaimsOf(tbl)
<1>1. /\ DOMAIN tbl = 1 .. Len(tbl) /\ DOMAIN new = 1 .. Len(tbl)
    BY SeqFacts DEF Good, Aged
<1>2. \A i \in Active(new) : /\ i \in Active(tbl)
                             /\ new[i].owner = tbl[i].owner /\ new[i].key = tbl[i].key
                             /\ new[i].conn = tbl[i].conn /\ new[i].gen = tbl[i].gen
    BY <1>1 DEF Aged, Active
<1>. QED
    BY <1>2 DEF ClaimsOf

(***************************************************************************)
(* A row that is inserted is a grant of the next generation, or the lease  *)
(* of a row that was ACTIVE, moved; neither the owner nor the connection   *)
(* is left with another.                                                   *)
(***************************************************************************)
LEMMA GrownClaims ==
    ASSUME NEW tbl, Good(tbl), NEW new, Grown(tbl, new)
    PROVE  \E left \in SUBSET ClaimsOf(tbl), row \in Row :
             /\ \A claim \in left : claim[1] # row.owner /\ claim[3] # row.conn
             /\ ClaimsOf(new) = left \cup {<<row.owner, row.key, row.conn, row.gen>>}
             /\ \A o : LastGeneration(new, o) =
                         IF o = row.owner THEN row.gen ELSE LastGeneration(tbl, o)
             /\ \/ row.gen = LastGeneration(tbl, row.owner) + 1
                \/ /\ row.gen = LastGeneration(tbl, row.owner)
                   /\ \E claim \in ClaimsOf(tbl) : /\ claim[1] = row.owner /\ claim[2] = row.key
                                                   /\ claim[3] # row.conn /\ claim[4] = row.gen
<1>1. PICK mid, row :
        /\ Aged(tbl, mid) /\ row \in Row /\ new = Append(mid, row)
        /\ row.state = "ACTIVE"
        /\ \A i \in 1 .. Len(tbl) : mid[i].owner = row.owner =>
            mid[i].state # "ACTIVE" /\ mid[i].gen <= row.gen
        /\ \A i \in 1 .. Len(tbl) : mid[i].conn = row.conn => mid[i].state # "ACTIVE"
        /\ \/ row.gen = LastGeneration(tbl, row.owner) + 1
           \/ \E j \in 1 .. Len(tbl) : /\ tbl[j].state = "ACTIVE"
                                       /\ tbl[j].owner = row.owner /\ tbl[j].gen = row.gen
                                       /\ tbl[j].key = row.key /\ tbl[j].conn # row.conn
    BY DEF Grown
<1>2. Good(mid) /\ Good(new)
    BY <1>1, AgedGood, GrownGood
<1>3. /\ Len(tbl) \in Nat /\ Len(mid) = Len(tbl) /\ mid \in Seq(Row)
      /\ DOMAIN tbl = 1 .. Len(tbl) /\ DOMAIN mid = 1 .. Len(tbl)
      /\ DOMAIN new = 1 .. Len(tbl) + 1 /\ Len(new) = Len(tbl) + 1
      /\ \A i \in 1 .. Len(tbl) : new[i] = mid[i] /\ new[i].gen \in Nat
      /\ new[Len(tbl) + 1] = row /\ row.gen \in Nat
    <2>1. mid \in Seq(Row) /\ Len(mid) = Len(tbl) /\ tbl \in Seq(Row)
        BY <1>1, <1>2 DEF Good, Aged
    <2>2. \A i \in 1 .. Len(tbl) : mid[i].gen \in Nat
        BY <2>1, SeqFacts DEF Row
    <2>. QED
        BY <1>1, <2>1, <2>2, SeqFacts DEF Row
<1> DEFINE left == ClaimsOf(mid)
<1>4. left \subseteq ClaimsOf(tbl)
    BY <1>1, AgedClaims
<1>5. \A claim \in left : claim[1] # row.owner /\ claim[3] # row.conn
    BY <1>1, <1>3 DEF ClaimsOf, Active
<1>6. ClaimsOf(new) = left \cup {<<row.owner, row.key, row.conn, row.gen>>}
    <2>1. Active(new) = Active(mid) \cup {Len(tbl) + 1}
        BY <1>1, <1>3 DEF Active
    <2>2. \A i \in Active(mid) : new[i] = mid[i]
        BY <1>3 DEF Active
    <2>. QED
        BY <1>3, <2>1, <2>2 DEF ClaimsOf
<1>7. \A i \in 1 .. Len(tbl) : mid[i].owner = tbl[i].owner /\ mid[i].gen = tbl[i].gen
    BY <1>1 DEF Aged
<1>8. ASSUME NEW o
      PROVE  LastGeneration(new, o) = IF o = row.owner THEN row.gen ELSE LastGeneration(tbl, o)
    <2> DEFINE x == LastGeneration(new, o)
               z == LastGeneration(mid, o)
    <2>1. /\ x \in Nat /\ \A i \in 1 .. Len(tbl) + 1 : new[i].owner = o => new[i].gen <= x
          /\ x = 0 \/ \E i \in 1 .. Len(tbl) + 1 : new[i].owner = o /\ new[i].gen = x
        BY <1>2, <1>3, LastGenerationIsMax
    <2>2. /\ z \in Nat /\ \A i \in 1 .. Len(tbl) : mid[i].owner = o => mid[i].gen <= z
          /\ z = 0 \/ \E i \in 1 .. Len(tbl) : mid[i].owner = o /\ mid[i].gen = z
        BY <1>2, <1>3, LastGenerationIsMax
    <2> HIDE DEF x, z
    <2>3. CASE o = row.owner
        <3>1. row.gen <= x
            BY <1>3, <2>1, <2>3
        <3>2. x <= row.gen
            BY <1>1, <1>3, <2>1, <2>3
        <3>. QED
            BY <1>3, <2>1, <2>3, <3>1, <3>2 DEF x
    <2>4. CASE o # row.owner
        <3>1. x <= z /\ z <= x
            BY <1>3, <2>1, <2>2, <2>4
        <3>2. z = LastGeneration(tbl, o)
            BY <1>1, AgedLast DEF z
        <3>. QED
            BY <2>1, <2>2, <2>4, <3>1, <3>2 DEF x
    <2>. QED
        BY <2>3, <2>4
<1>9. \/ row.gen = LastGeneration(tbl, row.owner) + 1
      \/ /\ row.gen = LastGeneration(tbl, row.owner)
         /\ \E claim \in ClaimsOf(tbl) : /\ claim[1] = row.owner /\ claim[2] = row.key
                                         /\ claim[3] # row.conn /\ claim[4] = row.gen
    <2>1. SUFFICES ASSUME NEW j \in 1 .. Len(tbl),
                          tbl[j].state = "ACTIVE", tbl[j].owner = row.owner,
                          tbl[j].gen = row.gen, tbl[j].key = row.key, tbl[j].conn # row.conn
                   PROVE  /\ row.gen = LastGeneration(tbl, row.owner)
                          /\ \E claim \in ClaimsOf(tbl) :
                                /\ claim[1] = row.owner /\ claim[2] = row.key
                                /\ claim[3] # row.conn /\ claim[4] = row.gen
        BY <1>1
    <2>2. <<tbl[j].owner, tbl[j].key, tbl[j].conn, tbl[j].gen>> \in ClaimsOf(tbl)
        BY <1>3, <2>1 DEF ClaimsOf, Active
    <2>3. row.gen = LastGeneration(tbl, row.owner)
        <3> DEFINE z == LastGeneration(tbl, row.owner)
        <3>1. /\ z \in Nat /\ row.gen <= z
              /\ z = 0 \/ \E i \in 1 .. Len(tbl) : tbl[i].owner = row.owner /\ tbl[i].gen = z
            BY <2>1, LastGenerationIsMax
        <3>2. z <= row.gen
            BY <1>1, <1>3, <1>7, <3>1
        <3>. QED
            BY <1>3, <3>1, <3>2
    <2>. QED
        BY <2>1, <2>2, <2>3
<1> HIDE DEF left
<1>. QED
    BY <1>1, <1>4, <1>5, <1>6, <1>8, <1>9

(***************************************************************************)
(* The transactions of the table implement the one-to-one assignment with  *)
(* a generation per grant: acquire() is Grant, transition() is Move, and   *)
(* all else, the expiry in front of each included, ends leases or nothing. *)
(***************************************************************************)
THEOREM LeasesAreOwnership == Spec => ImplementsLeaseOwnership
<1> DEFINE issued == [o \in Owner |-> LastGeneration(rows, o)]
<1>1. ASSUME Init PROVE Ownership!Init
    <2>1. Good(rows) /\ Len(rows) = 0 /\ Active(rows) = {}
        BY <1>1 DEF Init, Good, Sole, Ordered, Active
    <2>2. \A o \in Owner : LastGeneration(rows, o) = 0
        BY <2>1, LastGenerationIsMax
    <2>. QED
        BY <2>1, <2>2 DEF Ownership!Init, Claims
<1>2. ASSUME Good(rows), Next PROVE Ownership!Next
    <2>1. Claims = ClaimsOf(rows) /\ Claims' = ClaimsOf(rows')
        BY DEF Claims, ClaimsOf, Active
    <2>2. issued' = [o \in Owner |-> LastGeneration(rows', o)]
        BY DEF LastGeneration
    <2>3. CASE Aged(rows, rows')
        <3>1. Claims' \in SUBSET Claims
            BY <1>2, <2>1, <2>3, AgedClaims
        <3>2. issued' = issued
            BY <1>2, <2>2, <2>3, AgedLast
        <3>. QED
            BY <3>1, <3>2 DEF Ownership!Next
    <2>4. CASE Grown(rows, rows')
        <3>1. PICK left \in SUBSET Claims, row \in Row :
             /\ \A claim \in left : claim[1] # row.owner /\ claim[3] # row.conn
             /\ Claims' = left \cup {<<row.owner, row.key, row.conn, row.gen>>}
             /\ \A o : LastGeneration(rows', o) =
                         IF o = row.owner THEN row.gen ELSE LastGeneration(rows, o)
             /\ \/ row.gen = LastGeneration(rows, row.owner) + 1
                \/ /\ row.gen = LastGeneration(rows, row.owner)
                   /\ \E claim \in Claims : /\ claim[1] = row.owner /\ claim[2] = row.key
                                            /\ claim[3] # row.conn /\ claim[4] = row.gen
            BY <1>2, <2>1, <2>4, GrownClaims
        <3>2. row.owner \in Owner /\ row.key \in ApiKey /\ row.conn \in Connection
            BY DEF Row
        <3>3. CASE row.gen = LastGeneration(rows, row.owner) + 1
            <4>1. issued' = [issued EXCEPT ![row.owner] = @ + 1] /\ issued'[row.owner] = row.gen
                BY <2>2, <3>1, <3>2, <3>3
            <4>2. Ownership!Grant(left, row.owner, row.key, row.conn)
                BY <3>1, <4>1 DEF Ownership!Grant, Ownership!Free
            <4>. QED
                BY <3>1, <3>2, <4>2 DEF Ownership!Next
        <3>4. CASE /\ row.gen = LastGeneration(rows, row.owner)
                   /\ \E claim \in Claims : /\ claim[1] = row.owner /\ claim[2] = row.key
                                            /\ claim[3] # row.conn /\ claim[4] = row.gen
            <4>1. PICK claim \in Claims : /\ claim[1] = row.owner /\ claim[2] = row.key
                                          /\ claim[3] # row.conn /\ claim[4] = row.gen
                BY <3>4
            <4>2. issued' = issued
                BY <2>2, <3>1, <3>4
            <4>3. claim \notin left /\ (left \cup {claim}) \ {claim} = left
                BY <3>1, <4>1
            <4>4. Ownership!Move(left \cup {claim}, claim, row.conn)
                BY <3>1, <4>1, <4>2, <4>3 DEF Ownership!Move, Ownership!Free
            <4>. QED
                BY <3>1, <3>2, <4>1, <4>4 DEF Ownership!Next
        <3>. QED
            BY <3>1, <3>3, <3>4
    <2>. QED
        BY <1>2, <2>3, <2>4, LeasesAssumption, StepShape
<1>3. ASSUME UNCHANGED rows PROVE UNCHANGED <<Claims, issued>>
    BY <1>3 DEF Claims, Active, LastGeneration
<1>4. Good(rows) /\ [Next]_rows => [Ownership!Next]_<<Claims, issued>>
    BY <1>2, <1>3
<1>. QED
    BY <1>1, <1>4, Invariance, PTL DEF Spec, ImplementsLeaseOwnership, Ownership!Spec

-----------------------------------------------------------------------------
(***************************************************************************)
(* Managed sessions.  A generation is never above the number of rows, so   *)
(* that one a call reads from the table is one that may be presented.      *)
(***************************************************************************)
Numbered(tbl) == Len(tbl) <= MaxRows /\ \A i \in 1 .. Len(tbl) : tbl[i].gen <= Len(tbl)

LEMMA AgedNumbered ==
    ASSUME NEW tbl, NEW new, Numbered(tbl), Aged(tbl, new)
    PROVE  Numbered(new)
BY DEF Numbered, Aged

LEMMA GrownNumbered ==
    ASSUME LeasesAssumption, NEW tbl, Good(tbl), Numbered(tbl), NEW new, Grown(tbl, new)
    PROVE  Numbered(new)
<1>1. PICK mid, row :
        /\ Aged(tbl, mid) /\ row \in Row /\ new = Append(mid, row) /\ Len(tbl) < MaxRows
        /\ \/ row.gen = LastGeneration(tbl, row.owner) + 1
           \/ \E j \in 1 .. Len(tbl) : tbl[j].gen = row.gen
    BY DEF Grown
<1>2. /\ Len(tbl) \in Nat /\ mid \in Seq(Row) /\ Len(mid) = Len(tbl)
      /\ \A i \in 1 .. Len(tbl) : tbl[i].gen \in Nat /\ mid[i].gen = tbl[i].gen
    BY <1>1, SeqFacts DEF Good, Aged, Row
<1>3. LastGeneration(tbl, row.owner) \in Nat /\ LastGeneration(tbl, row.owner) <= Len(tbl)
    BY <1>2, LastGenerationIsMax DEF Numbered
<1>4. row.gen \in Nat /\ row.gen <= Len(tbl) + 1
    BY <1>1, <1>2, <1>3 DEF Numbered, Row
<1>5. /\ Len(new) = Len(tbl) + 1 /\ new[Len(tbl) + 1] = row
      /\ \A i \in 1 .. Len(tbl) : new[i] = mid[i]
    BY <1>1, <1>2
<1>. QED
    BY <1>1, <1>2, <1>4, <1>5 DEF Numbered, LeasesAssumption

(* What every state of the sessions satisfies. *)
SessionInv ==
    /\ Good(rows)
    /\ Numbered(rows)
    /\ call \in [Call -> CallState]
    /\ \A r \in Call : call[r].phase = "selected" => call[r].conn \in Connection

LEMMA SessionInvInit ==
    ASSUME LeasesAssumption, SessionInit
    PROVE  SessionInv
<1>1. Good(rows) /\ Numbered(rows)
    BY DEF SessionInit, Init, Good, Sole, Ordered, Active, Numbered, LeasesAssumption
<1>2. call \in [Call -> {s \in CallState : s.phase = "idle"}]
    BY DEF SessionInit
<1>. QED
    BY <1>1, <1>2 DEF SessionInv

(* A call that goes on keeps its shape. *)
LEMMA CallKept ==
    ASSUME SessionInv, NEW r \in Call, NEW phase \in Phase \ {"selected"},
           To(r, phase) \/ (phase = "selecting" /\ call' = Without(r))
    PROVE  /\ call' \in [Call -> CallState]
           /\ \A q \in Call : call'[q].phase = "selected" => call'[q].conn \in Connection
<1>1. call[r] \in CallState
    BY DEF SessionInv
<1>2. [call[r] EXCEPT !.phase = phase] \in CallState
    BY <1>1 DEF CallState
<1>3. [call[r] EXCEPT !.phase = "selecting", !.pool = @ \ {call[r].conn}] \in CallState
    BY <1>1 DEF CallState, Phase
<1>4. PICK s \in CallState : s.phase # "selected" /\ call' = [call EXCEPT ![r] = s]
    <2>1. CASE To(r, phase)
        BY <1>1, <1>2, <2>1 DEF To, CallState
    <2>2. CASE phase = "selecting" /\ call' = Without(r)
        BY <1>1, <1>3, <2>2 DEF Without, CallState
    <2>. QED
        BY <2>1, <2>2
<1>. QED
    BY <1>4 DEF SessionInv

LEMMA CallSelected ==
    ASSUME SessionInv, NEW r \in Call, NEW c \in Connection,
           call' = [call EXCEPT ![r].phase = "selected", ![r].conn = c]
    PROVE  /\ call' \in [Call -> CallState]
           /\ \A q \in Call : call'[q].phase = "selected" => call'[q].conn \in Connection
<1>1. call[r] \in CallState
    BY DEF SessionInv
<1>2. [call[r] EXCEPT !.phase = "selected", !.conn = c] \in CallState
    BY <1>1 DEF CallState, Phase
<1>3. call' = [call EXCEPT ![r] = [call[r] EXCEPT !.phase = "selected", !.conn = c]]
    BY <1>1 DEF SessionInv
<1>4. [call[r] EXCEPT !.phase = "selected", !.conn = c].conn = c
    BY <1>1 DEF CallState
<1>. QED
    BY <1>2, <1>3, <1>4 DEF SessionInv

(***************************************************************************)
(* A step of the sessions leaves the table alone or runs one transaction   *)
(* on it, and it keeps the calls in shape.                                 *)
(***************************************************************************)
LEMMA SessionCallStep ==
    ASSUME LeasesAssumption, SessionInv, NEW r \in Call, Arrive(r) \/ CallStep(r)
    PROVE  /\ rows' = rows \/ Next
           /\ call' \in [Call -> CallState]
           /\ \A q \in Call : call'[q].phase = "selected" => call'[q].conn \in Connection
<1>1. /\ call[r] \in CallState
      /\ call[r].owner \in Owner /\ call[r].key \in ApiKey /\ call[r].gen \in Generation
      /\ call[r].pool \subseteq Connection
    BY DEF SessionInv, CallState
<1>2. \A now \in Instant : rows' = Expired(now) => Next
    BY DEF Next, Reconcile
<1>3. {"idle", "selecting", "claimed", "sent", "done"} \subseteq Phase \ {"selected"}
    BY DEF Phase
<1>4. CASE Arrive(r) \/ PreflightBlocks(r) \/ Retry(r) \/ FailOver(r) \/ Finish(r)
    <2>1. rows' = rows
        BY <1>4 DEF Arrive, PreflightBlocks, Retry, FailOver, Finish
    <2>2. \E phase \in Phase \ {"selected"} : To(r, phase) \/ (phase = "selecting" /\ call' = Without(r))
        BY <1>3, <1>4 DEF Arrive, PreflightBlocks, Retry, FailOver, Finish
    <2>. QED
        BY <2>1, <2>2, CallKept
<1>5. ASSUME NEW now \in Instant, Select(r, now)
      PROVE  /\ rows' = rows \/ Next
             /\ call' \in [Call -> CallState]
             /\ \A q \in Call : call'[q].phase = "selected" => call'[q].conn \in Connection
    <2>1. InvalidateOwn(r, now) => Next
        BY <1>1 DEF InvalidateOwn, Next
    <2>2. rows' = rows \/ Next
        BY <1>2, <1>5, <2>1 DEF Select
    <2>3. To(r, "done") \/ \E c \in Connection : call' = [call EXCEPT ![r].phase = "selected", ![r].conn = c]
        BY <1>1, <1>5 DEF Select, Candidates
    <2>. QED
        BY <1>3, <2>2, <2>3, CallKept, CallSelected
<1>6. ASSUME NEW now \in Instant, Commit(r, now)
      PROVE  /\ rows' = rows \/ Next
             /\ call' \in [Call -> CallState]
             /\ \A q \in Call : call'[q].phase = "selected" => call'[q].conn \in Connection
    <2>1. PICK ttl \in Ttl, kind \in Kind :
            /\ Claim(r, now, ttl, kind)
            /\ \/ call' = Without(r)
               \/ \E phase \in {"done", "claimed"} : To(r, phase)
        BY <1>6 DEF Commit
    <2>2. call[r].conn \in Connection
        BY <1>6 DEF Commit, SessionInv
    <2>3. Next
        <3>1. CASE \E i \in Held(Expired(now), r) :
                      Transition(call[r].owner,
                                 IF call[r].mode = "acquire" THEN Expired(now)[i].gen ELSE call[r].gen,
                                 call[r].key, call[r].conn, now, ttl, kind)
            <4>1. PICK i \in Held(Expired(now), r) :
                      Transition(call[r].owner,
                                 IF call[r].mode = "acquire" THEN Expired(now)[i].gen ELSE call[r].gen,
                                 call[r].key, call[r].conn, now, ttl, kind)
                BY <3>1
            <4>2. Expired(now)[i].gen \in Generation
                <5>1. Aged(rows, Expired(now))
                    BY ExpiredAged DEF SessionInv, Good
                <5>2. Good(Expired(now)) /\ Numbered(Expired(now))
                    BY <5>1, AgedGood, AgedNumbered DEF SessionInv
                <5> DEFINE tbl == Expired(now)
                <5>3. tbl \in Seq(Row) /\ Numbered(tbl) /\ i \in DOMAIN tbl
                    BY <5>2 DEF Good, Held, ActiveOf, Active
                <5> HIDE DEF tbl
                <5>4. /\ tbl[i].gen \in Nat \ {0} /\ tbl[i].gen <= Len(tbl)
                      /\ Len(tbl) \in Nat /\ Len(tbl) <= MaxRows
                    BY <5>3, SeqFacts DEF Numbered, Row
                <5>5. tbl[i].gen \in Generation
                    BY <5>4 DEF Generation, LeasesAssumption
                <5>. QED
                    BY <5>5 DEF tbl
            <4>. QED
                BY <1>1, <2>2, <4>1, <4>2 DEF Next
        <3>2. CASE Acquire(call[r].owner, call[r].key, call[r].conn, now, ttl, kind)
            BY <1>1, <2>2, <3>2 DEF Next
        <3>. QED
            BY <2>1, <3>1, <3>2 DEF Claim
    <2>. QED
        BY <1>3, <2>1, <2>3, CallKept
<1>7. ASSUME NEW now \in Instant, Dispatch(r, now)
      PROVE  /\ rows' = rows \/ Next
             /\ call' \in [Call -> CallState]
             /\ \A q \in Call : call'[q].phase = "selected" => call'[q].conn \in Connection
    <2>1. \E phase \in {"sent", "done"} : To(r, phase)
        BY <1>7 DEF Dispatch
    <2>2. Next
        BY <1>2, <1>7 DEF Dispatch
    <2>. QED
        BY <1>3, <2>1, <2>2, CallKept
<1>. QED
    BY <1>4, <1>5, <1>6, <1>7 DEF CallStep

LEMMA SessionStep ==
    ASSUME LeasesAssumption, SessionInv, [SessionNext]_vars
    PROVE  SessionInv' /\ [Next]_rows
<1>1. /\ rows' = rows \/ Next
      /\ call' \in [Call -> CallState]
      /\ \A q \in Call : call'[q].phase = "selected" => call'[q].conn \in Connection
    <2>1. CASE UNCHANGED vars
        BY <2>1 DEF vars, SessionInv
    <2>2. CASE \E r \in Call : Arrive(r) \/ CallStep(r)
        BY <2>2, SessionCallStep
    <2>3. ASSUME NEW now \in Instant, Read(now)
          PROVE  Next /\ call' = call
        BY <2>3 DEF Read, Next
    <2>4. ASSUME NEW now \in Instant, NEW o \in Owner, NEW g \in Generation, NEW k \in ApiKey,
                 ClientRenews(o, g, k, now) \/ ClientReleases(o, g, k, now)
          PROVE  Next /\ call' = call
        BY <2>4 DEF ClientRenews, ClientReleases, Next
    <2>. QED
        BY <2>1, <2>2, <2>3, <2>4 DEF SessionNext, SessionInv
<1>2. Good(rows') /\ Numbered(rows')
    <2>1. CASE rows' = rows
        BY <2>1 DEF SessionInv
    <2>2. CASE Next
        BY <2>2, StepShape, AgedGood, GrownGood, AgedNumbered, GrownNumbered DEF SessionInv
    <2>. QED
        BY <1>1, <2>1, <2>2
<1>. QED
    BY <1>1, <1>2 DEF SessionInv, Good, Sole, Ordered, Active, Numbered

LEMMA SessionInvariance == SessionSpec => []SessionInv
<1>1. SessionInit => SessionInv
    BY SessionInvInit, LeasesAssumption
<1>2. SessionInv /\ [SessionNext]_vars => SessionInv'
    BY SessionStep, LeasesAssumption
<1>. QED
    BY <1>1, <1>2, PTL DEF SessionSpec

(***************************************************************************)
(* Whatever calls and clients do, the table changes by its own             *)
(* transactions alone: every theorem above about Spec, one owner to a      *)
(* connection and generations that end for good, holds of the sessions.    *)
(***************************************************************************)
THEOREM SessionsKeepTheTable == SessionSpec => TableDiscipline
<1>1. SessionInit => Init
    BY DEF SessionInit
<1>2. SessionInv /\ [SessionNext]_vars => [Next]_rows
    BY SessionStep, LeasesAssumption
<1>. QED
    BY <1>1, <1>2, SessionInvariance, PTL DEF SessionSpec, TableDiscipline, Spec

(***************************************************************************)
(* A request is dispatched only under the lease it presents, on the        *)
(* connection its owner holds at that moment, whatever happened to the     *)
(* lease while the request waited.                                         *)
(***************************************************************************)
THEOREM RequestsAreFenced == SessionSpec => DispatchFenced
<1>1. SessionInv /\ [SessionNext]_vars =>
        [\A r \in Call :
            call[r].phase # "sent" /\ call'[r].phase = "sent" =>
                \E i \in ActiveOf(rows', call[r].owner) :
                    /\ rows'[i].gen = call[r].gen
                    /\ rows'[i].key = call[r].key
                    /\ rows'[i].conn = call[r].conn]_vars
    <2>1. SUFFICES ASSUME SessionInv, SessionNext, NEW r \in Call,
                          call[r].phase # "sent", call'[r].phase = "sent"
                   PROVE  \E i \in ActiveOf(rows', call[r].owner) :
                             /\ rows'[i].gen = call[r].gen
                             /\ rows'[i].key = call[r].key
                             /\ rows'[i].conn = call[r].conn
        OBVIOUS
    <2>2. \A q \in Call : call[q] \in CallState
        BY <2>1 DEF SessionInv
    <2>3. ASSUME NEW q \in Call, NEW phase, To(q, phase)
          PROVE  q = r /\ phase = "sent"
        BY <2>1, <2>2, <2>3 DEF To, SessionInv, CallState
    <2>4. ASSUME NEW q \in Call
          PROVE  call' # Without(q)
        BY <2>1, <2>2 DEF Without, SessionInv, CallState
    <2>5. ASSUME NEW q \in Call, NEW c
          PROVE  call' # [call EXCEPT ![q].phase = "selected", ![q].conn = c]
        BY <2>1, <2>2 DEF SessionInv, CallState
    <2>6. call' # call
        BY <2>1
    <2>7. \E now \in Instant : Dispatch(r, now)
        <3>1. PICK q \in Call : CallStep(q)
            BY <2>1, <2>3, <2>6 DEF SessionNext, Arrive, Read, ClientRenews, ClientReleases
        <3>2. ~(PreflightBlocks(q) \/ Retry(q) \/ FailOver(q) \/ Finish(q))
            BY <2>3, <2>4 DEF PreflightBlocks, Retry, FailOver, Finish
        <3>3. \A now \in Instant : ~Select(q, now) /\ ~Commit(q, now)
            BY <2>3, <2>4, <2>5 DEF Select, Commit
        <3>4. PICK now \in Instant : Dispatch(q, now)
            BY <3>1, <3>2, <3>3 DEF CallStep
        <3>5. q = r
            BY <2>3, <3>4 DEF Dispatch
        <3>. QED
            BY <3>4, <3>5
    <2>8. PICK now \in Instant : rows' = Expired(now) /\ FenceValid(Expired(now), r)
        BY <2>3, <2>7 DEF Dispatch
    <2>. QED
        BY <2>8 DEF FenceValid, Held
<1>. QED
    BY <1>1, SessionInvariance, PTL DEF SessionSpec, DispatchFenced
=============================================================================
