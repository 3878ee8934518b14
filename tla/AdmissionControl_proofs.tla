------------------------- MODULE AdmissionControl_proofs -------------------------
(***************************************************************************)
(* Theorems about AdmissionControl for any requests, costs, tenants and    *)
(* configurations.                                                         *)
(***************************************************************************)
EXTENDS AdmissionControl, TLAPS, SequenceTheorems, FiniteSetTheorems

-----------------------------------------------------------------------------
(***************************************************************************)
(* Induction, over sets of numbers: the provers take no predicates.        *)
(***************************************************************************)
LEMMA NatSet ==
    ASSUME NEW P, 0 \in P, \A n \in Nat : n \in P => n + 1 \in P
    PROVE  Nat \subseteq P
<1> DEFINE C == Nat \ P
<1>1. SUFFICES ASSUME C # {} PROVE FALSE
  OBVIOUS
<1>2. PICK x \in C : \A y \in C : <<y, x>> \notin OpToRel(<, Nat)
  BY <1>1, WFMin, NatLessThanWellFounded
<1>3. \A y \in C : ~(y < x)
  BY <1>2 DEF OpToRel
<1>4. x \in Nat /\ x # 0 /\ x \notin P
  OBVIOUS
<1>5. x - 1 \in Nat /\ x - 1 < x
  BY <1>4
<1>6. x - 1 \in P
  BY <1>3, <1>5
<1>7. (x - 1) + 1 \in P
  BY <1>5, <1>6
<1> QED
  BY <1>4, <1>7

LEMMA IntervalSet ==
    ASSUME NEW n \in Nat, NEW P, 0 \in P, \A i \in 1..n : i - 1 \in P => i \in P
    PROVE  \A i \in 0..n : i \in P
<1> DEFINE Q == {i \in Nat : i <= n => i \in P}
<1>1. 0 \in Q
  OBVIOUS
<1>2. ASSUME NEW i \in Nat, i \in Q PROVE i + 1 \in Q
  <2>1. CASE i + 1 <= n
    <3>1. i + 1 \in 1..n /\ (i + 1) - 1 = i /\ i <= n
      BY <2>1
    <3>2. i + 1 \in P
      BY <1>2, <3>1
    <3> QED
      BY <3>2
  <2>2. CASE ~(i + 1 <= n)
    BY <2>2
  <2> QED
    BY <2>1, <2>2
<1>3. Nat \subseteq Q
  <2> HIDE DEF Q
  <2> QED
    BY <1>1, <1>2, NatSet
<1> QED
  BY <1>3

(***************************************************************************)
(* A loop of n turns: if turn i takes what is in G[i - 1] to what is in    *)
(* G[i], then there is a run of it, and every run stays in these sets.     *)
(***************************************************************************)
RunsWithin(f, n, G, x, step) ==
    /\ f = [i \in 0..n |-> IF i = 0 THEN x ELSE step[<<f[i - 1], i>>]]
    /\ \A i \in 0..n : f[i] \in G[i]

LEMMA Iterate ==
    ASSUME NEW n \in Nat, NEW G, NEW x \in G[0], NEW step,
           \A i \in 1..n : \A y \in G[i - 1] : step[<<y, i>>] \in G[i]
    PROVE  \E f : RunsWithin(f, n, G, x, step)
<1> DEFINE Run(m, f) == RunsWithin(f, m, G, x, step)
           P == {m \in 0..n : \E f : Run(m, f)}
<1> USE DEF RunsWithin
<1>1. 0 \in P
  <2> DEFINE f == [i \in 0..0 |-> x]
  <2>1. Run(0, f)
    OBVIOUS
  <2> HIDE DEF f, Run
  <2> QED
    BY <2>1
<1>2. ASSUME NEW j \in 1..n, j - 1 \in P PROVE j \in P
  <2>1. PICK f : Run(j - 1, f)
    BY <1>2
  <2> DEFINE g == [i \in 0..j |-> IF i = j THEN step[<<f[j - 1], j>>] ELSE f[i]]
  <2>2. \A i \in 0..(j - 1) : g[i] = f[i] /\ i \in 0..j
    OBVIOUS
  <2>3. g[j] = step[<<f[j - 1], j>>]
    OBVIOUS
  <2>4. g = [i \in 0..j |-> g[i]]
    OBVIOUS
  <2> HIDE DEF g
  <2>5. j - 1 \in 0..(j - 1) /\ f[j - 1] = g[j - 1]
    BY <2>2
  <2>6. g[j] \in G[j]
    BY <2>1, <2>3, <2>5
  <2>7. ASSUME NEW i \in 0..j PROVE g[i] \in G[i]
    <3>1. i = j \/ i \in 0..(j - 1)
      OBVIOUS
    <3> QED
      BY <2>1, <2>2, <2>6, <3>1
  <2>8. ASSUME NEW i \in 0..j PROVE g[i] = IF i = 0 THEN x ELSE step[<<g[i - 1], i>>]
    <3>1. CASE i = j
      BY <2>3, <2>5, <3>1
    <3>2. CASE i # j /\ i # 0
      <4>1. i \in 0..(j - 1) /\ i - 1 \in 0..(j - 1)
        BY <3>2
      <4>2. f[i] = step[<<f[i - 1], i>>]
        BY <2>1, <3>2, <4>1
      <4> QED
        BY <2>2, <3>2, <4>1, <4>2
    <3>3. CASE i = 0
      <4>1. i \in 0..(j - 1)
        BY <3>3
      <4> QED
        BY <2>1, <2>2, <3>3, <4>1
    <3> QED
      BY <3>1, <3>2, <3>3
  <2>9. Run(j, g)
    BY <2>4, <2>7, <2>8
  <2> HIDE DEF Run
  <2> QED
    BY <2>9
<1>3. n \in P
  <2> HIDE DEF P
  <2> QED
    BY <1>1, <1>2, IntervalSet
<1> QED
  BY <1>3

LEMMA RunStays ==
    ASSUME NEW n \in Nat, NEW G, NEW f, f[0] \in G[0],
           \A i \in 1..n : f[i - 1] \in G[i - 1] => f[i] \in G[i]
    PROVE  f[n] \in G[n]
<1> DEFINE P == {i \in 0..n : f[i] \in G[i]}
<1>1. 0 \in P /\ \A i \in 1..n : i - 1 \in P => i \in P
  OBVIOUS
<1> HIDE DEF P
<1>2. n \in P
  BY <1>1, IntervalSet
<1> QED
  BY <1>2 DEF P

-----------------------------------------------------------------------------
(***************************************************************************)
(* The loops: each stays within sets that its turns do not leave.          *)
(***************************************************************************)
(* The shared queue is served while somebody fits. *)
SharedTurn(w) ==
    [LetIn(w, Taken(w.queue, Room(w))) EXCEPT !.queue = Dequeued(w.queue, Room(w))]

LEMMA SharedLoop ==
    ASSUME NEW d, NEW n \in Nat, n = Cardinality(Entries(d.queue)), NEW G, d \in G[0],
           \A i \in 1..n : \A w \in G[i - 1] : SharedTurn(w) \in G[i]
    PROVE  SharedServed(d) \in G[n]
<1> DEFINE U == UNION {G[i] : i \in 0..n}
           step == [p \in U \X (1..n) |-> SharedTurn(p[1])]
           run == CHOOSE g : g = [i \in 0..n |-> IF i = 0 THEN d ELSE SharedTurn(g[i - 1])]
<1>1. \A i \in 1..n : \A w \in G[i - 1] : step[<<w, i>>] = SharedTurn(w)
  <2>1. \A i \in 1..n : i - 1 \in 0..n
    OBVIOUS
  <2>2. \A i \in 1..n : G[i - 1] \subseteq U
    BY <2>1
  <2> HIDE DEF U
  <2> QED
    BY <2>2
<1> HIDE DEF step
<1>2. \A i \in 1..n : \A w \in G[i - 1] : step[<<w, i>>] \in G[i]
  BY <1>1
<1>3. PICK f : RunsWithin(f, n, G, d, step)
  BY <1>2, Iterate
<1>4. f = [i \in 0..n |-> IF i = 0 THEN d ELSE SharedTurn(f[i - 1])]
  <2>1. \A i \in 0..n : i # 0 => i \in 1..n /\ i - 1 \in 0..n
    OBVIOUS
  <2>2. \A i \in 0..n : f[i] \in G[i]
    BY <1>3 DEF RunsWithin
  <2> QED
    BY <1>1, <1>3, <2>1, <2>2 DEF RunsWithin
<1>5. run = [i \in 0..n |-> IF i = 0 THEN d ELSE SharedTurn(run[i - 1])]
  BY <1>4
<1>6. SharedServed(d) = run[n]
  BY DEF SharedServed, Turns, SharedTurn
<1> HIDE DEF run
<1>7. run[0] = d /\ \A i \in 1..n : run[i] = SharedTurn(run[i - 1])
  <2>1. 0 \in 0..n /\ \A i \in 1..n : i \in 0..n /\ i # 0
    OBVIOUS
  <2> QED
    BY <1>5, <2>1
<1>8. run[0] \in G[0] /\ \A i \in 1..n : run[i - 1] \in G[i - 1] => run[i] \in G[i]
  BY <1>7
<1>9. run[n] \in G[n]
  BY <1>8, RunStays
<1> QED
  BY <1>6, <1>9

(* Each lane has its turn. *)
LEMMA LanesLoop ==
    ASSUME NEW d, NEW n \in Nat, n = Len(d.lanes.order), NEW G, d \in G[0],
           \A i \in 1..n : \A w \in G[i - 1] : LaneServed(w, d.lanes.order[i]) \in G[i]
    PROVE  LanesServed(d) \in G[n]
<1> DEFINE U == UNION {G[i] : i \in 0..n}
           step == [p \in U \X (1..n) |-> LaneServed(p[1], d.lanes.order[p[2]])]
           run == CHOOSE g : g = [i \in 0..n |-> IF i = 0 THEN d ELSE LaneServed(g[i - 1], d.lanes.order[i])]
<1>1. \A i \in 1..n : \A w \in G[i - 1] : step[<<w, i>>] = LaneServed(w, d.lanes.order[i])
  <2>1. \A i \in 1..n : i - 1 \in 0..n
    OBVIOUS
  <2>2. \A i \in 1..n : G[i - 1] \subseteq U
    BY <2>1
  <2> HIDE DEF U
  <2> QED
    BY <2>2
<1> HIDE DEF step
<1>2. \A i \in 1..n : \A w \in G[i - 1] : step[<<w, i>>] \in G[i]
  BY <1>1
<1>3. PICK f : RunsWithin(f, n, G, d, step)
  BY <1>2, Iterate
<1>4. f = [i \in 0..n |-> IF i = 0 THEN d ELSE LaneServed(f[i - 1], d.lanes.order[i])]
  <2>1. \A i \in 0..n : i # 0 => i \in 1..n /\ i - 1 \in 0..n
    OBVIOUS
  <2>2. \A i \in 0..n : f[i] \in G[i]
    BY <1>3 DEF RunsWithin
  <2> QED
    BY <1>1, <1>3, <2>1, <2>2 DEF RunsWithin
<1>5. run = [i \in 0..n |-> IF i = 0 THEN d ELSE LaneServed(run[i - 1], d.lanes.order[i])]
  BY <1>4
<1>6. LanesServed(d) = run[n]
  BY DEF LanesServed, Turns
<1> HIDE DEF run
<1>7. run[0] = d /\ \A i \in 1..n : run[i] = LaneServed(run[i - 1], d.lanes.order[i])
  <2>1. 0 \in 0..n /\ \A i \in 1..n : i \in 0..n /\ i # 0
    OBVIOUS
  <2> QED
    BY <1>5, <2>1
<1>8. run[0] \in G[0] /\ \A i \in 1..n : run[i - 1] \in G[i - 1] => run[i] \in G[i]
  BY <1>7
<1>9. run[n] \in G[n]
  BY <1>8, RunStays
<1> QED
  BY <1>6, <1>9

(* The virtual queue is served. *)
VirtualTurn(w, max) ==
    [queue |-> Dequeued(w.queue, max - w.cost),
     cost |-> w.cost + CostOf(Taken(w.queue, max - w.cost)),
     as |-> [r \in Entry |-> IF r \in Taken(w.queue, max - w.cost) THEN "active" ELSE w.as[r]]]

LEMMA VirtualLoop ==
    ASSUME NEW v, NEW max, NEW n \in Nat, n = Cardinality(Entries(v.queue)), NEW G, v \in G[0],
           \A i \in 1..n : \A w \in G[i - 1] : VirtualTurn(w, max) \in G[i]
    PROVE  VirtualServed(v, max) \in G[n]
<1> DEFINE U == UNION {G[i] : i \in 0..n}
           step == [p \in U \X (1..n) |-> VirtualTurn(p[1], max)]
           run == CHOOSE g : g = [i \in 0..n |-> IF i = 0 THEN v ELSE VirtualTurn(g[i - 1], max)]
<1>1. \A i \in 1..n : \A w \in G[i - 1] : step[<<w, i>>] = VirtualTurn(w, max)
  <2>1. \A i \in 1..n : i - 1 \in 0..n
    OBVIOUS
  <2>2. \A i \in 1..n : G[i - 1] \subseteq U
    BY <2>1
  <2> HIDE DEF U
  <2> QED
    BY <2>2
<1> HIDE DEF step
<1>2. \A i \in 1..n : \A w \in G[i - 1] : step[<<w, i>>] \in G[i]
  BY <1>1
<1>3. PICK f : RunsWithin(f, n, G, v, step)
  BY <1>2, Iterate
<1>4. f = [i \in 0..n |-> IF i = 0 THEN v ELSE VirtualTurn(f[i - 1], max)]
  <2>1. \A i \in 0..n : i # 0 => i \in 1..n /\ i - 1 \in 0..n
    OBVIOUS
  <2>2. \A i \in 0..n : f[i] \in G[i]
    BY <1>3 DEF RunsWithin
  <2> QED
    BY <1>1, <1>3, <2>1, <2>2 DEF RunsWithin
<1>5. run = [i \in 0..n |-> IF i = 0 THEN v ELSE VirtualTurn(run[i - 1], max)]
  BY <1>4
<1>6. VirtualServed(v, max) = run[n]
  BY DEF VirtualServed, Turns, VirtualTurn
<1> HIDE DEF run
<1>7. run[0] = v /\ \A i \in 1..n : run[i] = VirtualTurn(run[i - 1], max)
  <2>1. 0 \in 0..n /\ \A i \in 1..n : i \in 0..n /\ i # 0
    OBVIOUS
  <2> QED
    BY <1>5, <2>1
<1>8. run[0] \in G[0] /\ \A i \in 1..n : run[i - 1] \in G[i - 1] => run[i] \in G[i]
  BY <1>7
<1>9. run[n] \in G[n]
  BY <1>8, RunStays
<1> QED
  BY <1>6, <1>9

(* Idle lanes go. *)
EvictionTurn(w, t, idle) == IF t \in idle THEN LaneDeleted(w, t) ELSE w

LEMMA EvictionLoop ==
    ASSUME NEW d, NEW idle, NEW n \in Nat, n = Len(d.lanes.order), NEW G, d \in G[0],
           \A i \in 1..n : \A w \in G[i - 1] : EvictionTurn(w, d.lanes.order[i], idle) \in G[i]
    PROVE  WithoutLanes(d, idle) \in G[n]
<1> DEFINE U == UNION {G[i] : i \in 0..n}
           step == [p \in U \X (1..n) |-> EvictionTurn(p[1], d.lanes.order[p[2]], idle)]
           run == CHOOSE g : g = [i \in 0..n |-> IF i = 0 THEN d ELSE EvictionTurn(g[i - 1], d.lanes.order[i], idle)]
<1>1. \A i \in 1..n : \A w \in G[i - 1] : step[<<w, i>>] = EvictionTurn(w, d.lanes.order[i], idle)
  <2>1. \A i \in 1..n : i - 1 \in 0..n
    OBVIOUS
  <2>2. \A i \in 1..n : G[i - 1] \subseteq U
    BY <2>1
  <2> HIDE DEF U
  <2> QED
    BY <2>2
<1> HIDE DEF step
<1>2. \A i \in 1..n : \A w \in G[i - 1] : step[<<w, i>>] \in G[i]
  BY <1>1
<1>3. PICK f : RunsWithin(f, n, G, d, step)
  BY <1>2, Iterate
<1>4. f = [i \in 0..n |-> IF i = 0 THEN d ELSE EvictionTurn(f[i - 1], d.lanes.order[i], idle)]
  <2>1. \A i \in 0..n : i # 0 => i \in 1..n /\ i - 1 \in 0..n
    OBVIOUS
  <2>2. \A i \in 0..n : f[i] \in G[i]
    BY <1>3 DEF RunsWithin
  <2> QED
    BY <1>1, <1>3, <2>1, <2>2 DEF RunsWithin
<1>5. run = [i \in 0..n |-> IF i = 0 THEN d ELSE EvictionTurn(run[i - 1], d.lanes.order[i], idle)]
  BY <1>4
<1>6. WithoutLanes(d, idle) = run[n]
  BY DEF WithoutLanes, Turns, EvictionTurn
<1> HIDE DEF run
<1>7. run[0] = d /\ \A i \in 1..n : run[i] = EvictionTurn(run[i - 1], d.lanes.order[i], idle)
  <2>1. 0 \in 0..n /\ \A i \in 1..n : i \in 0..n /\ i # 0
    OBVIOUS
  <2> QED
    BY <1>5, <2>1
<1>8. run[0] \in G[0] /\ \A i \in 1..n : run[i - 1] \in G[i - 1] => run[i] \in G[i]
  BY <1>7
<1>9. run[n] \in G[n]
  BY <1>8, RunStays
<1> QED
  BY <1>6, <1>9

(* A queue is drained. *)
Full(q) == [queue |-> q, out |-> <<>>]

DrainTurn(w) ==
    [queue |-> Dequeued(w.queue, CostOf(Entry)),
     out |-> w.out \o SetToSeq(Taken(w.queue, CostOf(Entry)))]

LEMMA DrainLoop ==
    ASSUME NEW q, NEW n \in Nat, n = Cardinality(Entries(q)), NEW G, Full(q) \in G[0],
           \A i \in 1..n : \A w \in G[i - 1] : DrainTurn(w) \in G[i]
    PROVE  Drained(q) \in {w.out : w \in G[n]}
<1> DEFINE U == UNION {G[i] : i \in 0..n}
           step == [p \in U \X (1..n) |-> DrainTurn(p[1])]
           run == CHOOSE g : g = [i \in 0..n |-> IF i = 0 THEN Full(q) ELSE DrainTurn(g[i - 1])]
<1>1. \A i \in 1..n : \A w \in G[i - 1] : step[<<w, i>>] = DrainTurn(w)
  <2>1. \A i \in 1..n : i - 1 \in 0..n
    OBVIOUS
  <2>2. \A i \in 1..n : G[i - 1] \subseteq U
    BY <2>1
  <2> HIDE DEF U
  <2> QED
    BY <2>2
<1> HIDE DEF step
<1>2. \A i \in 1..n : \A w \in G[i - 1] : step[<<w, i>>] \in G[i]
  BY <1>1
<1>3. PICK f : RunsWithin(f, n, G, Full(q), step)
  BY <1>2, Iterate
<1>4. f = [i \in 0..n |-> IF i = 0 THEN Full(q) ELSE DrainTurn(f[i - 1])]
  <2>1. \A i \in 0..n : i # 0 => i \in 1..n /\ i - 1 \in 0..n
    OBVIOUS
  <2>2. \A i \in 0..n : f[i] \in G[i]
    BY <1>3 DEF RunsWithin
  <2> QED
    BY <1>1, <1>3, <2>1, <2>2 DEF RunsWithin
<1>5. run = [i \in 0..n |-> IF i = 0 THEN Full(q) ELSE DrainTurn(run[i - 1])]
  BY <1>4
<1>6. Drained(q) = run[n].out
  BY DEF Drained, Turns, DrainTurn, Full
<1> HIDE DEF run
<1>7. run[0] = Full(q) /\ \A i \in 1..n : run[i] = DrainTurn(run[i - 1])
  <2>1. 0 \in 0..n /\ \A i \in 1..n : i \in 0..n /\ i # 0
    OBVIOUS
  <2> QED
    BY <1>5, <2>1
<1>8. run[0] \in G[0] /\ \A i \in 1..n : run[i - 1] \in G[i - 1] => run[i] \in G[i]
  BY <1>7
<1>9. run[n] \in G[n]
  BY <1>8, RunStays
<1> QED
  BY <1>6, <1>9

(* The lanes are drained after the shared queue. *)
LEMMA EverybodyLoop ==
    ASSUME NEW n \in Nat, n = Len(lanes.order), NEW G, Drained(fairQueue) \in G[0],
           \A i \in 1..n : \A w \in G[i - 1] : w \o lanes.bucket[lanes.order[i]] \in G[i]
    PROVE  Everybody \in G[n]
<1> DEFINE U == UNION {G[i] : i \in 0..n}
           step == [p \in U \X (1..n) |-> p[1] \o lanes.bucket[lanes.order[p[2]]]]
           run == CHOOSE g : g = [i \in 0..n |-> IF i = 0 THEN Drained(fairQueue) ELSE g[i - 1] \o lanes.bucket[lanes.order[i]]]
<1>1. \A i \in 1..n : \A w \in G[i - 1] : step[<<w, i>>] = w \o lanes.bucket[lanes.order[i]]
  <2>1. \A i \in 1..n : i - 1 \in 0..n
    OBVIOUS
  <2>2. \A i \in 1..n : G[i - 1] \subseteq U
    BY <2>1
  <2> HIDE DEF U
  <2> QED
    BY <2>2
<1> HIDE DEF step
<1>2. \A i \in 1..n : \A w \in G[i - 1] : step[<<w, i>>] \in G[i]
  BY <1>1
<1>3. PICK f : RunsWithin(f, n, G, Drained(fairQueue), step)
  BY <1>2, Iterate
<1>4. f = [i \in 0..n |-> IF i = 0 THEN Drained(fairQueue) ELSE f[i - 1] \o lanes.bucket[lanes.order[i]]]
  <2>1. \A i \in 0..n : i # 0 => i \in 1..n /\ i - 1 \in 0..n
    OBVIOUS
  <2>2. \A i \in 0..n : f[i] \in G[i]
    BY <1>3 DEF RunsWithin
  <2> QED
    BY <1>1, <1>3, <2>1, <2>2 DEF RunsWithin
<1>5. run = [i \in 0..n |-> IF i = 0 THEN Drained(fairQueue) ELSE run[i - 1] \o lanes.bucket[lanes.order[i]]]
  BY <1>4
<1>6. Everybody = run[n]
  BY DEF Everybody, Turns
<1> HIDE DEF run
<1>7. run[0] = Drained(fairQueue) /\ \A i \in 1..n : run[i] = run[i - 1] \o lanes.bucket[lanes.order[i]]
  <2>1. 0 \in 0..n /\ \A i \in 1..n : i \in 0..n /\ i # 0
    OBVIOUS
  <2> QED
    BY <1>5, <2>1
<1>8. run[0] \in G[0] /\ \A i \in 1..n : run[i - 1] \in G[i - 1] => run[i] \in G[i]
  BY <1>7
<1>9. run[n] \in G[n]
  BY <1>8, RunStays
<1> QED
  BY <1>6, <1>9

(* Those the new configuration can serve are queued again. *)
Serves(q, r, max) ==
    Cost[r] <= max /\ Accepts(q, r, config'.maxQueueCount, config'.maxQueueCost)

RequeueTurn(q, r, max) == IF Serves(q, r, max) THEN Enqueued(q, r, Tenant[r]) ELSE q

LEMMA RequeueLoop ==
    ASSUME NEW max, NEW all, all = Everybody, NEW n \in Nat, n = Len(all), NEW G, EmptyQueue \in G[0],
           \A i \in 1..n : \A w \in G[i - 1] : RequeueTurn(w, all[i], max) \in G[i]
    PROVE  Requeued(max) \in G[n]
<1> DEFINE U == UNION {G[i] : i \in 0..n}
           step == [p \in U \X (1..n) |-> RequeueTurn(p[1], all[p[2]], max)]
           run == CHOOSE g : g = [i \in 0..n |-> IF i = 0 THEN EmptyQueue ELSE RequeueTurn(g[i - 1], all[i], max)]
<1>1. \A i \in 1..n : \A w \in G[i - 1] : step[<<w, i>>] = RequeueTurn(w, all[i], max)
  <2>1. \A i \in 1..n : i - 1 \in 0..n
    OBVIOUS
  <2>2. \A i \in 1..n : G[i - 1] \subseteq U
    BY <2>1
  <2> HIDE DEF U
  <2> QED
    BY <2>2
<1> HIDE DEF step
<1>2. \A i \in 1..n : \A w \in G[i - 1] : step[<<w, i>>] \in G[i]
  BY <1>1
<1>3. PICK f : RunsWithin(f, n, G, EmptyQueue, step)
  BY <1>2, Iterate
<1>4. f = [i \in 0..n |-> IF i = 0 THEN EmptyQueue ELSE RequeueTurn(f[i - 1], all[i], max)]
  <2>1. \A i \in 0..n : i # 0 => i \in 1..n /\ i - 1 \in 0..n
    OBVIOUS
  <2>2. \A i \in 0..n : f[i] \in G[i]
    BY <1>3 DEF RunsWithin
  <2> QED
    BY <1>1, <1>3, <2>1, <2>2 DEF RunsWithin
<1>5. run = [i \in 0..n |-> IF i = 0 THEN EmptyQueue ELSE RequeueTurn(run[i - 1], all[i], max)]
  BY <1>4
<1>6. Requeued(max) = run[n]
  BY DEF Requeued, Turns, RequeueTurn, Serves
<1> HIDE DEF run
<1>7. run[0] = EmptyQueue /\ \A i \in 1..n : run[i] = RequeueTurn(run[i - 1], all[i], max)
  <2>1. 0 \in 0..n /\ \A i \in 1..n : i \in 0..n /\ i # 0
    OBVIOUS
  <2> QED
    BY <1>5, <2>1
<1>8. run[0] \in G[0] /\ \A i \in 1..n : run[i - 1] \in G[i - 1] => run[i] \in G[i]
  BY <1>7
<1>9. run[n] \in G[n]
  BY <1>8, RunStays
<1> QED
  BY <1>6, <1>9

(* Records are judged anew. *)
Rejudged(order, max) ==
    LET judge(v, i) == Judged(v, order[i], "_existing", max)
    IN  Turns(judge, NoShadow, Len(order))

LEMMA RebuildLoop ==
    ASSUME NEW max, NEW order, NEW n \in Nat, n = Len(order), NEW G, NoShadow \in G[0],
           \A i \in 1..n : \A w \in G[i - 1] : Judged(w, order[i], "_existing", max) \in G[i]
    PROVE  Rejudged(order, max) \in G[n]
<1> DEFINE U == UNION {G[i] : i \in 0..n}
           step == [p \in U \X (1..n) |-> Judged(p[1], order[p[2]], "_existing", max)]
           run == CHOOSE g : g = [i \in 0..n |-> IF i = 0 THEN NoShadow ELSE Judged(g[i - 1], order[i], "_existing", max)]
<1>1. \A i \in 1..n : \A w \in G[i - 1] : step[<<w, i>>] = Judged(w, order[i], "_existing", max)
  <2>1. \A i \in 1..n : i - 1 \in 0..n
    OBVIOUS
  <2>2. \A i \in 1..n : G[i - 1] \subseteq U
    BY <2>1
  <2> HIDE DEF U
  <2> QED
    BY <2>2
<1> HIDE DEF step
<1>2. \A i \in 1..n : \A w \in G[i - 1] : step[<<w, i>>] \in G[i]
  BY <1>1
<1>3. PICK f : RunsWithin(f, n, G, NoShadow, step)
  BY <1>2, Iterate
<1>4. f = [i \in 0..n |-> IF i = 0 THEN NoShadow ELSE Judged(f[i - 1], order[i], "_existing", max)]
  <2>1. \A i \in 0..n : i # 0 => i \in 1..n /\ i - 1 \in 0..n
    OBVIOUS
  <2>2. \A i \in 0..n : f[i] \in G[i]
    BY <1>3 DEF RunsWithin
  <2> QED
    BY <1>1, <1>3, <2>1, <2>2 DEF RunsWithin
<1>5. run = [i \in 0..n |-> IF i = 0 THEN NoShadow ELSE Judged(run[i - 1], order[i], "_existing", max)]
  BY <1>4
<1>6. Rejudged(order, max) = run[n]
  BY DEF Rejudged, Turns
<1> HIDE DEF run
<1>7. run[0] = NoShadow /\ \A i \in 1..n : run[i] = Judged(run[i - 1], order[i], "_existing", max)
  <2>1. 0 \in 0..n /\ \A i \in 1..n : i \in 0..n /\ i # 0
    OBVIOUS
  <2> QED
    BY <1>5, <2>1
<1>8. run[0] \in G[0] /\ \A i \in 1..n : run[i - 1] \in G[i - 1] => run[i] \in G[i]
  BY <1>7
<1>9. run[n] \in G[n]
  BY <1>8, RunStays
<1> QED
  BY <1>6, <1>9
-----------------------------------------------------------------------------
(***************************************************************************)
(* Sums of costs.  CostOf() takes the requests of a set out one by one; a  *)
(* table with the sum of every set does as well.                           *)
(***************************************************************************)
Picked(R) == CHOOSE r \in R : TRUE

SumTable(F) ==
    /\ F \in [SUBSET Entry -> Nat]
    /\ F[{}] = 0
    /\ \A R \in SUBSET Entry : R # {} => F[R] = Cost[Picked(R)] + F[R \ {Picked(R)}]

LEMMA Finite ==
    /\ Cardinality(Entry) \in Nat
    /\ \A R \in SUBSET Entry :
         /\ IsFiniteSet(R)
         /\ Cardinality(R) \in 0..Cardinality(Entry)
         /\ (Cardinality(R) = 0) <=> (R = {})
         /\ \A r \in R : Cardinality(R \ {r}) = Cardinality(R) - 1
         /\ \A r \in Entry \ R : Cardinality(R \cup {r}) = Cardinality(R) + 1
<1>1. IsFiniteSet(Entry) /\ Cardinality(Entry) \in Nat
  BY CostAssumption, FS_CardinalityType
<1>2. ASSUME NEW R \in SUBSET Entry
      PROVE  /\ IsFiniteSet(R)
             /\ Cardinality(R) \in 0..Cardinality(Entry)
             /\ (Cardinality(R) = 0) <=> (R = {})
             /\ \A r \in R : Cardinality(R \ {r}) = Cardinality(R) - 1
             /\ \A r \in Entry \ R : Cardinality(R \cup {r}) = Cardinality(R) + 1
  <2>1. IsFiniteSet(R) /\ Cardinality(R) <= Cardinality(Entry)
    BY <1>1, FS_Subset
  <2>2. Cardinality(R) \in Nat
    BY <2>1, FS_CardinalityType
  <2>3. (Cardinality(R) = 0) <=> (R = {})
    BY <2>1, FS_EmptySet
  <2>4. \A r \in R : Cardinality(R \ {r}) = Cardinality(R) - 1
    BY <2>1, FS_RemoveElement
  <2>5. \A r \in Entry \ R : Cardinality(R \cup {r}) = Cardinality(R) + 1
    BY <2>1, FS_AddElement
  <2>6. Cardinality(R) \in 0..Cardinality(Entry)
    BY <1>1, <2>1, <2>2
  <2> QED
    BY <2>1, <2>3, <2>4, <2>5, <2>6
<1> QED
  BY <1>1, <1>2

LEMMA PickedIn == \A R \in SUBSET Entry : R # {} => Picked(R) \in R /\ Cost[Picked(R)] \in Nat \ {0}
BY CostAssumption DEF Picked

LEMMA SumTableExists == \E F : SumTable(F)
<1> DEFINE n == Cardinality(Entry)
           T == [SUBSET Entry -> Nat]
           better(F) == [R \in SUBSET Entry |->
                           IF R = {} THEN 0 ELSE Cost[Picked(R)] + F[R \ {Picked(R)}]]
           step == [p \in T \X (1..n) |-> better(p[1])]
           G == [i \in 0..n |-> T]
           zero == [R \in SUBSET Entry |-> 0]
<1>1. n \in Nat /\ zero \in T
  BY Finite
<1>2. \A F \in T : better(F) \in T
  <2> SUFFICES ASSUME NEW F \in T, NEW R \in SUBSET Entry, R # {}
               PROVE  Cost[Picked(R)] + F[R \ {Picked(R)}] \in Nat
    OBVIOUS
  <2>1. Cost[Picked(R)] \in Nat /\ F[R \ {Picked(R)}] \in Nat
    BY PickedIn
  <2> QED
    BY <2>1
<1>3. \A F \in T : \A R \in SUBSET Entry :
        better(F)[R] = IF R = {} THEN 0 ELSE Cost[Picked(R)] + F[R \ {Picked(R)}]
  OBVIOUS
<1> HIDE DEF n, better, zero
<1>4. \A i \in 1..n : \A F \in T : step[<<F, i>>] = better(F)
  OBVIOUS
<1>5. \A i \in 1..n : \A y \in G[i - 1] : step[<<y, i>>] \in G[i]
  <2>1. \A i \in 1..n : i \in 0..n /\ i - 1 \in 0..n
    BY <1>1
  <2>2. \A i \in 1..n : G[i] = T /\ G[i - 1] = T
    BY <2>1
  <2> HIDE DEF G, T, step
  <2> QED
    BY <1>2, <1>4, <2>2
<1>6. zero \in G[0]
  BY <1>1
<1> HIDE DEF T, step
<1>7. \A i \in 0..n : G[i] = T
  OBVIOUS
<1> HIDE DEF G
<1>8. PICK f : RunsWithin(f, n, G, zero, step)
  BY <1>1, <1>5, <1>6, Iterate
<1>9. f[0] = zero /\ \A i \in 1..n : f[i - 1] \in T /\ f[i] = better(f[i - 1])
  <2>1. 0 \in 0..n /\ \A i \in 1..n : i # 0 /\ i \in 0..n /\ i - 1 \in 0..n
    BY <1>1
  <2>2. \A i \in 1..n : f[i - 1] \in T
    BY <1>7, <1>8, <2>1 DEF RunsWithin
  <2> QED
    BY <1>4, <1>8, <2>1, <2>2 DEF RunsWithin
<1>10. f[n] \in T
  <2>1. n \in 0..n
    BY <1>1
  <2> QED
    BY <1>7, <1>8, <2>1 DEF RunsWithin
(* After i turns the sums of the sets of at most i requests are final. *)
<1> DEFINE Final(i) == \A R \in SUBSET Entry : Cardinality(R) <= i => better(f[i])[R] = f[i][R]
           P == {i \in 0..n : f[i] \in T /\ Final(i)}
<1>11. 0 \in P
  <2>1. f[0] \in T
    BY <1>1, <1>9
  <2>2. ASSUME NEW R \in SUBSET Entry, Cardinality(R) <= 0 PROVE better(f[0])[R] = f[0][R]
    <3>1. R = {}
      BY <2>2, Finite
    <3> QED
      BY <1>3, <1>9, <2>1, <3>1 DEF zero
  <2> QED
    BY <1>1, <2>1, <2>2
<1>12. ASSUME NEW i \in 1..n, i - 1 \in P PROVE i \in P
  <2>1. f[i] = better(f[i - 1]) /\ f[i - 1] \in T /\ f[i] \in T
    BY <1>2, <1>9
  <2>2. ASSUME NEW R \in SUBSET Entry, Cardinality(R) <= i PROVE better(f[i])[R] = f[i][R]
    <3>1. CASE R = {}
      BY <1>3, <2>1, <3>1
    <3>2. CASE R # {}
      <4> DEFINE S == R \ {Picked(R)}
      <4>1. S \in SUBSET Entry /\ Cardinality(S) = Cardinality(R) - 1 /\ Cardinality(R) \in Nat
        BY <3>2, PickedIn, Finite
      <4>2. Cardinality(S) <= i - 1
        BY <2>2, <4>1
      <4>3. f[i][S] = f[i - 1][S]
        BY <1>12, <2>1, <4>1, <4>2
      <4> QED
        BY <1>3, <2>1, <3>2, <4>3
    <3> QED
      BY <3>1, <3>2
  <2> QED
    BY <1>1, <2>1, <2>2
<1>13. n \in P
  <2> HIDE DEF P
  <2> QED
    BY <1>1, <1>11, <1>12, IntervalSet
<1>14. SumTable(f[n])
  <2>1. \A R \in SUBSET Entry : better(f[n])[R] = f[n][R]
    BY <1>13, Finite DEF n
  <2> QED
    BY <1>3, <1>10, <2>1 DEF SumTable, T
<1> QED
  BY <1>14

LEMMA CostOfTable ==
    ASSUME NEW F, SumTable(F), NEW R \in SUBSET Entry
    PROVE  CostOf(R) = F[R]
<1> DEFINE iter == CHOOSE g : g = [Q \in SUBSET R |->
                     IF Q = {} THEN 0 ELSE Cost[Picked(Q)] + g[Q \ {Picked(Q)}]]
           own == [Q \in SUBSET R |-> F[Q]]
<1>1. own = [Q \in SUBSET R |-> IF Q = {} THEN 0 ELSE Cost[Picked(Q)] + own[Q \ {Picked(Q)}]]
  <2> SUFFICES ASSUME NEW Q \in SUBSET R
               PROVE  own[Q] = IF Q = {} THEN 0 ELSE Cost[Picked(Q)] + own[Q \ {Picked(Q)}]
    OBVIOUS
  <2>1. own[Q] = F[Q] /\ own[Q \ {Picked(Q)}] = F[Q \ {Picked(Q)}] /\ Q \in SUBSET Entry
    OBVIOUS
  <2> HIDE DEF own
  <2> QED
    BY <2>1 DEF SumTable
<1> HIDE DEF own
<1>2. iter = [Q \in SUBSET R |-> IF Q = {} THEN 0 ELSE Cost[Picked(Q)] + iter[Q \ {Picked(Q)}]]
  BY <1>1
<1>3. CostOf(R) = iter[R]
  BY DEF CostOf, MapThenSumSet, MapThenFoldSet, Picked
<1> HIDE DEF iter
<1>4. \A Q \in SUBSET R :
        iter[Q] = IF Q = {} THEN 0 ELSE Cost[Picked(Q)] + iter[Q \ {Picked(Q)}]
  BY <1>2
<1> DEFINE n == Cardinality(Entry)
           P == {i \in 0..n : \A Q \in SUBSET R : Cardinality(Q) <= i => iter[Q] = F[Q]}
<1>5. 0 \in P
  <2>1. 0 \in 0..n
    BY Finite
  <2>2. ASSUME NEW Q \in SUBSET R, Cardinality(Q) <= 0 PROVE iter[Q] = F[Q]
    <3>1. Q = {}
      BY <2>2, Finite
    <3> QED
      BY <1>4, <3>1 DEF SumTable
  <2> QED
    BY <2>1, <2>2
<1>6. ASSUME NEW i \in 1..n, i - 1 \in P PROVE i \in P
  <2>1. ASSUME NEW Q \in SUBSET R, Cardinality(Q) <= i PROVE iter[Q] = F[Q]
    <3>1. CASE Q = {}
      BY <1>4, <3>1 DEF SumTable
    <3>2. CASE Q # {}
      <4> DEFINE S == Q \ {Picked(Q)}
      <4>1. S \in SUBSET R /\ Cardinality(S) = Cardinality(Q) - 1 /\ Cardinality(Q) \in Nat
        BY <3>2, PickedIn, Finite
      <4>2. Cardinality(S) <= i - 1
        BY <2>1, <4>1
      <4>3. iter[S] = F[S]
        BY <1>6, <4>1, <4>2
      <4> QED
        BY <1>4, <3>2, <4>3 DEF SumTable
    <3> QED
      BY <3>1, <3>2
  <2> QED
    BY <2>1, Finite
<1>7. n \in P /\ n \in Nat
  <2> HIDE DEF P
  <2>1. n \in Nat
    BY Finite
  <2> QED
    BY <1>5, <1>6, <2>1, IntervalSet
<1>8. Cardinality(R) <= n /\ R \in SUBSET R
  BY Finite
<1> QED
  BY <1>3, <1>7, <1>8

(* The cost of one more request is its own, whichever is taken out first. *)
LEMMA CostOfAdd ==
    /\ CostOf({}) = 0
    /\ \A R \in SUBSET Entry :
         /\ CostOf(R) \in Nat
         /\ \A r \in Entry \ R : CostOf(R \cup {r}) = CostOf(R) + Cost[r]
<1>1. PICK F : SumTable(F)
  BY SumTableExists
<1> DEFINE n == Cardinality(Entry)
           Adds(R) == \A r \in Entry \ R : F[R \cup {r}] = F[R] + Cost[r]
           P == {i \in 0..n : \A R \in SUBSET Entry : Cardinality(R) <= i => Adds(R)}
<1>2. ASSUME NEW r \in Entry PROVE F[{r}] = F[{}] + Cost[r]
  <2>1. Picked({r}) = r /\ {r} \ {r} = {}
    BY DEF Picked
  <2> QED
    BY <1>1, <2>1, CostAssumption DEF SumTable
<1>3. 0 \in P
  <2>1. 0 \in 0..n
    BY Finite
  <2>2. ASSUME NEW R \in SUBSET Entry, Cardinality(R) <= 0 PROVE Adds(R)
    <3>1. R = {}
      BY <2>2, Finite
    <3>2. \A r \in Entry : R \cup {r} = {r}
      BY <3>1
    <3> QED
      BY <1>2, <3>1, <3>2
  <2> QED
    BY <2>1, <2>2
<1>4. ASSUME NEW i \in 1..n, i - 1 \in P PROVE i \in P
  <2>1. ASSUME NEW R \in SUBSET Entry, Cardinality(R) <= i, NEW r \in Entry \ R
        PROVE  F[R \cup {r}] = F[R] + Cost[r]
    <3> DEFINE T == R \cup {r}
               x == Picked(T)
    <3>1. T \in SUBSET Entry /\ x \in T /\ F[T] = Cost[x] + F[T \ {x}]
      BY <1>1, PickedIn DEF SumTable
    <3>2. /\ Cost[x] \in Nat /\ Cost[r] \in Nat
          /\ F[R] \in Nat /\ F[T \ {x}] \in Nat /\ F[R \ {x}] \in Nat
      BY <1>1, <3>1, CostAssumption DEF SumTable
    <3> HIDE DEF x
    <3>3. CASE x = r
      <4>1. T \ {x} = R
        BY <3>3
      <4>2. F[T] = Cost[r] + F[R]
        BY <3>1, <3>3, <4>1
      <4> HIDE DEF T
      <4>3. F[T] = F[R] + Cost[r]
        BY <3>2, <4>2
      <4> QED
        BY <4>3 DEF T
    <3>4. CASE x # r
      <4>1. x \in R /\ T \ {x} = (R \ {x}) \cup {r} /\ R = (R \ {x}) \cup {x}
        BY <3>1, <3>4
      <4>2. R \ {x} \in SUBSET Entry /\ Cardinality(R \ {x}) <= i - 1
        BY <2>1, <4>1, Finite
      <4>3. Adds(R \ {x})
        BY <1>4, <4>2
      <4>4. F[(R \ {x}) \cup {r}] = F[R \ {x}] + Cost[r] /\ F[(R \ {x}) \cup {x}] = F[R \ {x}] + Cost[x]
        BY <3>1, <4>1, <4>3
      <4>5. F[T] = Cost[x] + (F[R \ {x}] + Cost[r]) /\ F[R] = F[R \ {x}] + Cost[x]
        BY <3>1, <4>1, <4>4
      <4> HIDE DEF T
      <4>6. F[T] = F[R] + Cost[r]
        BY <3>2, <4>5
      <4> QED
        BY <4>6 DEF T
    <3> QED
      BY <3>3, <3>4
  <2> QED
    BY <2>1, Finite
<1>5. n \in P /\ n \in Nat
  <2> HIDE DEF P
  <2>1. n \in Nat
    BY Finite
  <2> QED
    BY <1>3, <1>4, <2>1, IntervalSet
<1>6. ASSUME NEW R \in SUBSET Entry PROVE Adds(R)
  BY <1>5, Finite
<1>7. \A R \in SUBSET Entry : CostOf(R) = F[R]
  BY <1>1, CostOfTable
<1> QED
  BY <1>1, <1>6, <1>7 DEF SumTable

LEMMA CostOfRemove ==
    ASSUME NEW R \in SUBSET Entry, NEW r \in R
    PROVE  /\ CostOf(R \ {r}) = CostOf(R) - Cost[r]
           /\ CostOf(R) >= Cost[r] /\ CostOf(R \ {r}) \in Nat /\ Cost[r] \in Nat \ {0}
<1>1. R \ {r} \in SUBSET Entry /\ r \in Entry \ (R \ {r}) /\ (R \ {r}) \cup {r} = R
  OBVIOUS
<1>2. CostOf(R) = CostOf(R \ {r}) + Cost[r] /\ CostOf(R \ {r}) \in Nat
  BY <1>1, CostOfAdd
<1> QED
  BY <1>2, CostAssumption

(* More requests cost more. *)
LEMMA CostOfMonotone ==
    ASSUME NEW R \in SUBSET Entry, NEW T \in SUBSET R
    PROVE  CostOf(T) <= CostOf(R)
<1> DEFINE n == Cardinality(Entry)
           P == {i \in 0..n : \A Q \in SUBSET R : Cardinality(Q) <= i /\ T \subseteq Q
                                                    => CostOf(T) <= CostOf(Q)}
<1>1. 0 \in P
  <2>1. 0 \in 0..n
    BY Finite
  <2>2. ASSUME NEW Q \in SUBSET R, Cardinality(Q) <= 0, T \subseteq Q PROVE CostOf(T) <= CostOf(Q)
    <3>1. Q = {} /\ T = {}
      BY <2>2, Finite
    <3> QED
      BY <3>1, CostOfAdd
  <2> QED
    BY <2>1, <2>2
<1>2. ASSUME NEW i \in 1..n, i - 1 \in P PROVE i \in P
  <2>1. ASSUME NEW Q \in SUBSET R, Cardinality(Q) <= i, T \subseteq Q PROVE CostOf(T) <= CostOf(Q)
    <3>1. CASE T = Q
      BY <3>1, CostOfAdd
    <3>2. CASE T # Q
      <4>1. PICK r \in Q : r \notin T
        BY <2>1, <3>2
      <4>2. Q \ {r} \in SUBSET R /\ T \subseteq Q \ {r} /\ Cardinality(Q \ {r}) <= i - 1
        BY <2>1, <4>1, Finite
      <4>3. CostOf(T) <= CostOf(Q \ {r})
        BY <1>2, <4>2
      <4>4. CostOf(Q \ {r}) = CostOf(Q) - Cost[r] /\ Cost[r] \in Nat /\ CostOf(Q) \in Nat /\ CostOf(T) \in Nat
        BY <4>1, CostOfRemove, CostOfAdd
      <4> QED
        BY <4>3, <4>4
    <3> QED
      BY <3>1, <3>2
  <2> QED
    BY <2>1, Finite
<1>3. n \in P /\ n \in Nat
  <2> HIDE DEF P
  <2>1. n \in Nat
    BY Finite
  <2> QED
    BY <1>1, <1>2, <2>1, IntervalSet
<1>4. Cardinality(R) <= n /\ R \in SUBSET R
  BY Finite
<1> QED
  BY <1>3, <1>4

LEMMA CostOfOne == \A r \in Entry : CostOf({r}) = Cost[r]
<1> SUFFICES ASSUME NEW r \in Entry PROVE CostOf({r}) = Cost[r]
  OBVIOUS
<1>1. {} \in SUBSET Entry /\ r \in Entry \ {} /\ {} \cup {r} = {r}
  OBVIOUS
<1> QED
  BY <1>1, CostOfAdd, CostAssumption

-----------------------------------------------------------------------------
(***************************************************************************)
(* Sequences that lose elements: rest keeps some of old, in their order.   *)
(***************************************************************************)
Thins(rest, old) ==
    \E h \in [DOMAIN rest -> DOMAIN old] :
        /\ \A i, j \in DOMAIN rest : i < j => h[i] < h[j]
        /\ \A i \in DOMAIN rest : rest[i] = old[h[i]]

LEMMA ThinSelf ==
    ASSUME NEW S, NEW s \in Seq(S)
    PROVE  Thins(s, s)
<1> DEFINE h == [i \in DOMAIN s |-> i]
<1>1. h \in [DOMAIN s -> DOMAIN s] /\ \A i \in DOMAIN s : h[i] = i
  OBVIOUS
<1> HIDE DEF h
<1> QED
  BY <1>1 DEF Thins

LEMMA ThinEmpty ==
    ASSUME NEW S, NEW s \in Seq(S)
    PROVE  Thins(<<>>, s)
<1> DEFINE h == [i \in DOMAIN <<>> |-> 1]
<1>1. DOMAIN <<>> = {}
  OBVIOUS
<1>2. h \in [DOMAIN <<>> -> DOMAIN s]
  BY <1>1
<1> HIDE DEF h
<1> QED
  BY <1>1, <1>2 DEF Thins

(* The elements from some place on *)
LEMMA ThinSuffix ==
    ASSUME NEW S, NEW s \in Seq(S), NEW k \in 0..Len(s)
    PROVE  LET rest == SubSeq(s, k + 1, Len(s))
           IN  /\ rest \in Seq(S) /\ Len(rest) = Len(s) - k
               /\ \A i \in 1..Len(rest) : rest[i] = s[i + k]
               /\ Thins(rest, s)
               /\ ToSet(s) = {s[j] : j \in 1..k} \cup ToSet(rest)
<1> DEFINE rest == SubSeq(s, k + 1, Len(s))
           h == [i \in 1..(Len(s) - k) |-> i + k]
<1>1. Len(s) \in Nat /\ DOMAIN s = 1..Len(s) /\ s \in [1..Len(s) -> S]
  BY LenProperties
<1>2. rest \in Seq(S) /\ Len(rest) = Len(s) - k /\ \A i \in 1..(Len(s) - k) : rest[i] = s[i + k]
  <2>1. k + 1 \in Int /\ Len(s) \in Int /\ \A i \in (k + 1)..Len(s) : s[i] \in S
    BY <1>1
  <2>2. /\ rest \in Seq(S)
        /\ Len(rest) = IF k + 1 <= Len(s) THEN Len(s) - (k + 1) + 1 ELSE 0
        /\ \A i \in 1..(Len(s) - (k + 1) + 1) : rest[i] = s[(k + 1) + i - 1]
    BY <2>1, SubSeqProperties
  <2> HIDE DEF rest
  <2>3. Len(rest) = Len(s) - k
    <3>1. CASE k = Len(s)
      <4>1. ~(k + 1 <= Len(s)) /\ Len(s) - k = 0
        BY <1>1, <3>1
      <4> QED
        BY <2>2, <4>1
    <3>2. CASE k # Len(s)
      <4>1. k \in Nat /\ Len(s) \in Nat /\ k <= Len(s) /\ k < Len(s)
        <5>1. Len(s) \in Nat
          BY <1>1
        <5>2. k \in Nat /\ k <= Len(s)
          BY <5>1
        <5> QED
          BY <5>1, <5>2, <3>2
      <4>2. k + 1 <= Len(s) /\ Len(s) - k = Len(s) - (k + 1) + 1
        BY ONLY <4>1
      <4> QED
        BY <2>2, <4>2
    <3> QED
      BY <3>1, <3>2
  <2>4. ASSUME NEW i \in 1..(Len(s) - k) PROVE rest[i] = s[i + k]
    <3>1. i \in 1..(Len(s) - (k + 1) + 1) /\ (k + 1) + i - 1 = i + k
      BY <1>1
    <3> QED
      BY <2>2, <3>1
  <2> QED
    BY <2>2, <2>3, <2>4
<1> HIDE DEF rest
<1>3. DOMAIN rest = 1..(Len(s) - k)
  BY <1>2, LenProperties
<1>4. /\ h \in [DOMAIN rest -> DOMAIN s]
      /\ \A i \in DOMAIN rest : h[i] = i + k
  BY <1>1, <1>3
<1> HIDE DEF h
<1>5. Thins(rest, s)
  <2>1. \A i, j \in DOMAIN rest : i < j => h[i] < h[j]
    BY <1>1, <1>3, <1>4
  <2>2. \A i \in DOMAIN rest : rest[i] = s[h[i]]
    BY <1>2, <1>3, <1>4
  <2> QED
    BY <1>4, <2>1, <2>2 DEF Thins
<1>6. ToSet(s) = {s[j] : j \in 1..k} \cup ToSet(rest)
  <2>1. ASSUME NEW j \in 1..Len(s), j \notin 1..k PROVE s[j] \in ToSet(rest)
    <3>1. j - k \in 1..(Len(s) - k) /\ (j - k) + k = j
      BY <1>1, <2>1
    <3>2. rest[j - k] = s[j]
      BY <1>2, <3>1
    <3> QED
      BY <1>3, <3>1, <3>2 DEF ToSet
  <2>2. \A j \in 1..k : s[j] \in ToSet(s)
    BY <1>1 DEF ToSet
  <2>3. ASSUME NEW i \in 1..(Len(s) - k) PROVE rest[i] \in ToSet(s)
    <3>1. i + k \in 1..Len(s)
      BY <1>1
    <3> QED
      BY <1>1, <1>2, <3>1 DEF ToSet
  <2> QED
    BY <1>1, <1>3, <2>1, <2>2, <2>3 DEF ToSet
<1> QED
  BY <1>2, <1>5, <1>6 DEF rest

LEMMA ThinTail ==
    ASSUME NEW S, NEW s \in Seq(S), s # <<>>
    PROVE  /\ Tail(s) \in Seq(S) /\ Len(Tail(s)) = Len(s) - 1
           /\ Head(s) = s[1] /\ Len(s) \in Nat \ {0} /\ DOMAIN s = 1..Len(s)
           /\ \A i \in 1..Len(Tail(s)) : Tail(s)[i] = s[i + 1]
           /\ Thins(Tail(s), s)
           /\ ToSet(s) = {Head(s)} \cup ToSet(Tail(s))
<1>1. Len(s) \in Nat \ {0} /\ DOMAIN s = 1..Len(s)
  BY EmptySeq, LenProperties
<1>2. Tail(s) = SubSeq(s, 2, Len(s)) /\ Head(s) = s[1]
  BY TailIsSubSeq
<1>3. 1 \in 0..Len(s)
  BY <1>1
<1>4. /\ Tail(s) \in Seq(S) /\ Len(Tail(s)) = Len(s) - 1
      /\ \A i \in 1..Len(Tail(s)) : Tail(s)[i] = s[i + 1]
      /\ Thins(Tail(s), s)
      /\ ToSet(s) = {s[j] : j \in 1..1} \cup ToSet(Tail(s))
  <2>1. LET rest == SubSeq(s, 1 + 1, Len(s))
        IN  /\ rest \in Seq(S) /\ Len(rest) = Len(s) - 1
            /\ \A i \in 1..Len(rest) : rest[i] = s[i + 1]
            /\ Thins(rest, s)
            /\ ToSet(s) = {s[j] : j \in 1..1} \cup ToSet(rest)
    BY ONLY <1>3, ThinSuffix
  <2>2. SubSeq(s, 1 + 1, Len(s)) = Tail(s)
    BY <1>2
  <2> QED
    BY <2>1, <2>2
<1>5. {s[j] : j \in 1..1} = {s[1]}
  OBVIOUS
<1> QED
  BY <1>1, <1>2, <1>4, <1>5

LEMMA ThinRemoveAt ==
    ASSUME NEW S, NEW s \in Seq(S), NEW p \in DOMAIN s
    PROVE  LET rest == RemoveAt(s, p)
           IN  /\ rest \in Seq(S) /\ Len(rest) = Len(s) - 1
               /\ \A i \in 1..(Len(s) - 1) : rest[i] = s[IF i < p THEN i ELSE i + 1]
               /\ Thins(rest, s)
               /\ ToSet(s) = {s[p]} \cup ToSet(rest)
               /\ IsInjective(s) => ToSet(rest) = ToSet(s) \ {s[p]}
<1> DEFINE rest == RemoveAt(s, p)
           left == SubSeq(s, 1, p - 1)
           right == SubSeq(s, p + 1, Len(s))
           h == [i \in 1..(Len(s) - 1) |-> IF i < p THEN i ELSE i + 1]
<1>1. Len(s) \in Nat /\ DOMAIN s = 1..Len(s) /\ s \in [1..Len(s) -> S]
  BY LenProperties
<1>2. left \in Seq(S) /\ Len(left) = p - 1 /\ \A i \in 1..(p - 1) : left[i] = s[i]
  <2>1. 1 \in Int /\ p - 1 \in Int /\ \A i \in 1..(p - 1) : s[i] \in S
    BY <1>1
  <2>2. /\ left \in Seq(S)
        /\ Len(left) = IF 1 <= p - 1 THEN p - 1 - 1 + 1 ELSE 0
        /\ \A i \in 1..(p - 1 - 1 + 1) : left[i] = s[1 + i - 1]
    BY <2>1, SubSeqProperties
  <2> HIDE DEF left
  <2>3. p - 1 - 1 + 1 = p - 1 /\ \A i \in Int : 1 + i - 1 = i
    BY <1>1
  <2> QED
    BY <1>1, <2>2, <2>3
<1>3. right \in Seq(S) /\ Len(right) = Len(s) - p /\ \A i \in 1..(Len(s) - p) : right[i] = s[i + p]
  <2>1. p \in 0..Len(s)
    BY <1>1
  <2> QED
    BY <2>1, ThinSuffix
<1>4. rest = left \o right
  BY DEF RemoveAt
<1> HIDE DEF rest, left, right
<1>5. /\ rest \in Seq(S) /\ Len(rest) = Len(left) + Len(right)
      /\ \A i \in 1..(Len(left) + Len(right)) :
           rest[i] = IF i <= Len(left) THEN left[i] ELSE right[i - Len(left)]
  BY <1>2, <1>3, <1>4, ConcatProperties
<1>6. Len(rest) = Len(s) - 1 /\ Len(left) + Len(right) = Len(s) - 1
  BY <1>1, <1>2, <1>3, <1>5
<1>7. ASSUME NEW i \in 1..(Len(s) - 1) PROVE rest[i] = s[IF i < p THEN i ELSE i + 1]
  <2>1. rest[i] = IF i <= p - 1 THEN left[i] ELSE right[i - (p - 1)]
    BY <1>2, <1>5, <1>6
  <2>2. CASE i < p
    <3>1. i <= p - 1 /\ i \in 1..(p - 1)
      BY <1>1, <2>2
    <3> QED
      BY <1>2, <2>1, <2>2, <3>1
  <2>3. CASE ~(i < p)
    <3>1. ~(i <= p - 1) /\ i - (p - 1) \in 1..(Len(s) - p) /\ i - (p - 1) + p = i + 1
      BY <1>1, <2>3
    <3>2. right[i - (p - 1)] = s[i + 1]
      BY <1>3, <3>1
    <3> QED
      BY <2>1, <2>3, <3>1, <3>2
  <2> QED
    BY <2>2, <2>3
<1>8. DOMAIN rest = 1..(Len(s) - 1)
  BY <1>5, <1>6, LenProperties
<1>9. /\ h \in [DOMAIN rest -> DOMAIN s]
      /\ \A i \in DOMAIN rest : h[i] = IF i < p THEN i ELSE i + 1
  BY <1>1, <1>8
<1> HIDE DEF h
<1>10. \A i \in DOMAIN rest : rest[i] = s[h[i]] /\ h[i] # p /\ h[i] \in DOMAIN s
  BY <1>1, <1>7, <1>8, <1>9
<1>11. Thins(rest, s)
  <2>1. \A i, j \in DOMAIN rest : i < j => h[i] < h[j]
    BY <1>1, <1>8, <1>9
  <2> QED
    BY <1>9, <1>10, <2>1 DEF Thins
<1>12. ASSUME NEW j \in DOMAIN s, j # p PROVE s[j] \in ToSet(rest)
  <2>1. CASE j < p
    <3>1. j \in 1..(Len(s) - 1)
      BY <1>1, <2>1
    <3> QED
      BY <1>7, <1>8, <2>1, <3>1 DEF ToSet
  <2>2. CASE ~(j < p)
    <3>1. j - 1 \in 1..(Len(s) - 1) /\ ~(j - 1 < p) /\ (j - 1) + 1 = j
      BY <1>1, <1>12, <2>2
    <3>2. rest[j - 1] = s[j]
      BY <1>7, <3>1
    <3> QED
      BY <1>8, <3>1, <3>2 DEF ToSet
  <2> QED
    BY <2>1, <2>2
<1>13. ToSet(rest) \subseteq ToSet(s)
  BY <1>10 DEF ToSet
<1>14. ToSet(s) = {s[p]} \cup ToSet(rest)
  BY <1>12, <1>13 DEF ToSet
<1>15. IsInjective(s) => s[p] \notin ToSet(rest)
  BY <1>10 DEF ToSet, IsInjective
<1> QED
  BY <1>5, <1>6, <1>7, <1>11, <1>14, <1>15 DEF rest

LEMMA ThinInjective ==
    ASSUME NEW S, NEW s \in Seq(S), NEW rest \in Seq(S), Thins(rest, s)
    PROVE  /\ ToSet(rest) \subseteq ToSet(s)
           /\ IsInjective(s) => IsInjective(rest)
           /\ rest # <<>> => s # <<>>
<1>1. PICK h \in [DOMAIN rest -> DOMAIN s] :
        /\ \A i, j \in DOMAIN rest : i < j => h[i] < h[j]
        /\ \A i \in DOMAIN rest : rest[i] = s[h[i]]
  BY DEF Thins
<1>2. DOMAIN rest = 1..Len(rest) /\ DOMAIN s = 1..Len(s) /\ Len(rest) \in Nat /\ Len(s) \in Nat
  BY LenProperties
<1>3. \A i, j \in DOMAIN rest : h[i] = h[j] => i = j
  BY <1>1, <1>2
<1>4. rest # <<>> => s # <<>>
  <2>1. ASSUME rest # <<>> PROVE s # <<>>
    <3>1. 1 \in DOMAIN rest
      BY <1>2, <2>1, EmptySeq
    <3>2. h[1] \in DOMAIN s
      BY <1>1, <3>1
    <3> QED
      BY <3>2
  <2> QED
    BY <2>1
<1> QED
  BY <1>1, <1>3, <1>4 DEF ToSet, IsInjective

(* What is where Position() says *)
LEMMA PositionOf ==
    ASSUME NEW s, NEW x \in ToSet(s)
    PROVE  Position(s, x) \in DOMAIN s /\ s[Position(s, x)] = x
BY DEF Position, ToSet

-----------------------------------------------------------------------------
(***************************************************************************)
(* Buckets                                                                 *)
(***************************************************************************)
Sound(b) ==
    /\ b.order \in Seq(TenantKey) /\ b.bucket \in [TenantKey -> Seq(Entry)]
    /\ Orderly(b)

LEMMA InBuckets ==
    ASSUME NEW b, Sound(b)
    PROVE  /\ \A t \in TenantKey : /\ b.bucket[t] \in Seq(Entry)
                                   /\ DOMAIN b.bucket[t] = 1..Len(b.bucket[t])
                                   /\ ToSet(b.bucket[t]) \subseteq Entries(b)
                                   /\ IsInjective(b.bucket[t])
           /\ \A t, u \in TenantKey : \A r \in ToSet(b.bucket[t]) : r \in ToSet(b.bucket[u]) => t = u
           /\ Entries(b) \subseteq Entry
           /\ DOMAIN b.order = 1..Len(b.order) /\ Len(b.order) \in Nat
           /\ \A p \in DOMAIN b.order : /\ b.order[p] \in TenantKey
                                        /\ b.bucket[b.order[p]] # <<>>
           /\ \A p, o \in DOMAIN b.order : b.order[p] = b.order[o] => p = o
           /\ \A t \in TenantKey : b.bucket[t] # <<>> => \E p \in DOMAIN b.order : b.order[p] = t
<1>1. ASSUME NEW t \in TenantKey
      PROVE  /\ b.bucket[t] \in Seq(Entry)
             /\ DOMAIN b.bucket[t] = 1..Len(b.bucket[t])
             /\ ToSet(b.bucket[t]) \subseteq Entries(b)
             /\ ToSet(b.bucket[t]) \subseteq Entry
             /\ IsInjective(b.bucket[t])
  <2>1. b.bucket[t] \in Seq(Entry)
    BY DEF Sound
  <2>2. DOMAIN b.bucket[t] = 1..Len(b.bucket[t]) /\ b.bucket[t] \in [1..Len(b.bucket[t]) -> Entry]
    BY <2>1, LenProperties
  <2>3. ToSet(b.bucket[t]) \subseteq Entries(b)
    BY DEF Entries
  <2>4. IsInjective(b.bucket[t])
    BY DEF Sound, Orderly, IsInjective
  <2>5. ToSet(b.bucket[t]) \subseteq Entry
    BY <2>2 DEF ToSet
  <2> QED
    BY <2>1, <2>2, <2>3, <2>4, <2>5
<1>2. \A t, u \in TenantKey : \A r \in ToSet(b.bucket[t]) : r \in ToSet(b.bucket[u]) => t = u
  BY DEF Sound, Orderly, ToSet
<1>3. Entries(b) \subseteq Entry
  BY <1>1 DEF Entries
<1>4. DOMAIN b.order = 1..Len(b.order) /\ Len(b.order) \in Nat /\ b.order \in [1..Len(b.order) -> TenantKey]
  BY LenProperties DEF Sound
<1>5. ASSUME NEW p \in DOMAIN b.order PROVE b.order[p] \in TenantKey /\ b.bucket[b.order[p]] # <<>>
  <2>1. b.order[p] \in TenantKey /\ b.order[p] \in ToSet(b.order)
    BY <1>4 DEF ToSet
  <2> QED
    BY <2>1 DEF Sound, Orderly
<1>6. \A p, o \in DOMAIN b.order : b.order[p] = b.order[o] => p = o
  BY DEF Sound, Orderly, IsInjective
<1>7. \A t \in TenantKey : b.bucket[t] # <<>> => \E p \in DOMAIN b.order : b.order[p] = t
  BY DEF Sound, Orderly, ToSet
<1> QED
  BY <1>1, <1>2, <1>3, <1>4, <1>5, <1>6, <1>7

LEMMA EntryIn ==
    ASSUME NEW b, NEW r
    PROVE  r \in Entries(b) <=> \E t \in TenantKey : r \in ToSet(b.bucket[t])
BY DEF Entries

(* A bucket may lose elements; the last takes the tenant out of the line. *)
ThinnedTo(b, t, rest, c) ==
    /\ Sound(b) /\ t \in TenantKey
    /\ rest \in Seq(Entry) /\ Thins(rest, b.bucket[t])
    /\ c.bucket = [b.bucket EXCEPT ![t] = rest]
    /\ c.order \in Seq(TenantKey) /\ IsInjective(c.order)
    /\ ToSet(c.order) = IF rest = <<>> THEN ToSet(b.order) \ {t} ELSE ToSet(b.order)

LEMMA ThinnedSound ==
    ASSUME NEW b, NEW t, NEW rest, NEW c, ThinnedTo(b, t, rest, c)
    PROVE  Sound(c) /\ Entries(c) = (Entries(b) \ ToSet(b.bucket[t])) \cup ToSet(rest)
<1> USE DEF ThinnedTo
<1>1. /\ c.bucket \in [TenantKey -> Seq(Entry)]
      /\ c.bucket[t] = rest
      /\ \A u \in TenantKey : u # t => c.bucket[u] = b.bucket[u]
  BY DEF Sound
<1>2. PICK h \in [DOMAIN rest -> DOMAIN b.bucket[t]] :
        /\ \A i, j \in DOMAIN rest : i < j => h[i] < h[j]
        /\ \A i \in DOMAIN rest : rest[i] = b.bucket[t][h[i]]
  BY DEF Thins
<1>3. /\ ToSet(rest) \subseteq ToSet(b.bucket[t])
      /\ IsInjective(rest)
      /\ rest # <<>> => b.bucket[t] # <<>>
  BY ThinInjective, InBuckets
<1>4. \A u \in TenantKey : c.bucket[u] # <<>> <=> u \in ToSet(c.order)
  BY <1>1, <1>3 DEF Sound, Orderly
<1>5. ASSUME NEW u \in TenantKey, NEW v \in TenantKey,
             NEW i \in DOMAIN c.bucket[u], NEW j \in DOMAIN c.bucket[v],
             c.bucket[u][i] = c.bucket[v][j]
      PROVE  u = v /\ i = j
  <2>1. \A w \in TenantKey : ToSet(c.bucket[w]) \subseteq ToSet(b.bucket[w])
    BY <1>1, <1>3
  <2>2. c.bucket[u][i] \in ToSet(c.bucket[u]) /\ c.bucket[u][i] \in ToSet(c.bucket[v])
    BY <1>5 DEF ToSet
  <2>3. u = v
    <3>1. \A s, w \in TenantKey : \A r \in ToSet(b.bucket[s]) : r \in ToSet(b.bucket[w]) => s = w
      BY InBuckets
    <3>2. c.bucket[u][i] \in ToSet(b.bucket[u]) /\ c.bucket[u][i] \in ToSet(b.bucket[v])
      BY <2>1, <2>2
    <3> QED
      BY <3>1, <3>2
  <2>4. IsInjective(c.bucket[u])
    BY <1>1, <1>3, InBuckets
  <2> QED
    BY <1>5, <2>3, <2>4 DEF IsInjective
<1>6. Sound(c)
  BY <1>1, <1>4, <1>5 DEF Sound, Orderly
<1>7. ASSUME NEW r PROVE r \in Entries(c) <=> r \in (Entries(b) \ ToSet(b.bucket[t])) \cup ToSet(rest)
  <2>1. CASE r \in ToSet(rest)
    BY <1>1, <2>1, EntryIn
  <2>2. CASE r \notin ToSet(rest) /\ r \in ToSet(b.bucket[t])
    <3>1. \A u \in TenantKey : u # t => r \notin ToSet(b.bucket[u])
      BY <2>2, InBuckets
    <3> QED
      BY <1>1, <2>2, <3>1, EntryIn
  <2>3. CASE r \notin ToSet(rest) /\ r \notin ToSet(b.bucket[t])
    BY <1>1, <2>3, EntryIn
  <2> QED
    BY <2>1, <2>2, <2>3
<1> QED
  BY <1>6, <1>7

LEMMA ShortenedLine ==
    ASSUME NEW b, Sound(b), NEW p \in DOMAIN b.order
    PROVE  LET order == RemoveAt(b.order, p)
           IN  /\ order \in Seq(TenantKey) /\ IsInjective(order)
               /\ ToSet(order) = ToSet(b.order) \ {b.order[p]}
               /\ Len(order) = Len(b.order) - 1
<1>1. b.order \in Seq(TenantKey) /\ IsInjective(b.order)
  BY DEF Sound, Orderly
<1> DEFINE order == RemoveAt(b.order, p)
<1>2. /\ order \in Seq(TenantKey) /\ Thins(order, b.order) /\ Len(order) = Len(b.order) - 1
      /\ ToSet(order) = ToSet(b.order) \ {b.order[p]}
  BY <1>1, ThinRemoveAt
<1> HIDE DEF order
<1>3. IsInjective(order)
  BY <1>1, <1>2, ThinInjective
<1> QED
  BY <1>2, <1>3 DEF order

(* A newcomer at the end of its tenant's bucket *)
LEMMA PushedSound ==
    ASSUME NEW b, Sound(b), NEW r \in Entry \ Entries(b), NEW t \in TenantKey,
           NEW c, c.bucket = [b.bucket EXCEPT ![t] = Append(@, r)],
           c.order = IF b.bucket[t] = <<>> THEN Append(b.order, t) ELSE b.order
    PROVE  Sound(c) /\ Entries(c) = Entries(b) \cup {r}
<1> DEFINE old == b.bucket[t]
           new == Append(old, r)
<1>1. old \in Seq(Entry) /\ r \notin ToSet(old) /\ IsInjective(old)
  BY InBuckets
<1>2. /\ new \in Seq(Entry) /\ Len(new) = Len(old) + 1 /\ new # <<>>
      /\ \A i \in 1..Len(old) : new[i] = old[i]
      /\ new[Len(old) + 1] = r
  BY <1>1, AppendProperties
<1>3. /\ Len(old) \in Nat /\ DOMAIN old = 1..Len(old) /\ DOMAIN new = 1..(Len(old) + 1)
  BY <1>1, <1>2, LenProperties
<1>4. /\ c.bucket \in [TenantKey -> Seq(Entry)]
      /\ c.bucket[t] = new
      /\ \A u \in TenantKey : u # t => c.bucket[u] = b.bucket[u]
  BY <1>2 DEF Sound
<1> HIDE DEF new
<1>5. ToSet(new) = ToSet(old) \cup {r}
  <2>1. \A i \in DOMAIN new : i \in DOMAIN old \/ i = Len(old) + 1
    BY <1>3
  <2>2. Len(old) + 1 \in DOMAIN new /\ \A i \in DOMAIN old : i \in DOMAIN new
    BY <1>3
  <2> QED
    BY <1>2, <1>3, <2>1, <2>2 DEF ToSet
<1>6. IsInjective(new)
  <2> SUFFICES ASSUME NEW i \in DOMAIN new, NEW j \in DOMAIN new, new[i] = new[j] PROVE i = j
    BY DEF IsInjective
  <2>1. \A k \in DOMAIN new : k \in DOMAIN old \/ k = Len(old) + 1
    BY <1>3
  <2>2. \A k \in DOMAIN old : new[k] = old[k] /\ old[k] # r
    BY <1>1, <1>2, <1>3 DEF ToSet
  <2>3. \A k, l \in DOMAIN old : old[k] = old[l] => k = l
    BY <1>1 DEF IsInjective
  <2> HIDE DEF old
  <2> QED
    BY <1>2, <2>1, <2>2, <2>3
<1>7. /\ c.order \in Seq(TenantKey) /\ IsInjective(c.order)
      /\ ToSet(c.order) = ToSet(b.order) \cup {t}
  <2>1. b.order \in Seq(TenantKey) /\ IsInjective(b.order) /\ (old # <<>> <=> t \in ToSet(b.order))
    BY DEF Sound, Orderly
  <2>2. CASE old # <<>>
    BY <2>1, <2>2
  <2>3. CASE old = <<>>
    <3> DEFINE o == b.order
               n == Append(o, t)
    <3>1. /\ n \in Seq(TenantKey) /\ Len(n) = Len(o) + 1
          /\ \A i \in 1..Len(o) : n[i] = o[i]
          /\ n[Len(o) + 1] = t
      BY <2>1, AppendProperties
    <3>2. /\ Len(o) \in Nat /\ DOMAIN o = 1..Len(o) /\ DOMAIN n = 1..(Len(o) + 1)
      BY <2>1, <3>1, LenProperties
    <3>3. c.order = n /\ t \notin ToSet(o)
      BY <2>1, <2>3
    <3> HIDE DEF n
    <3>4. \A i \in DOMAIN n : i \in DOMAIN o \/ i = Len(o) + 1
      BY <3>2
    <3>5. Len(o) + 1 \in DOMAIN n /\ \A i \in DOMAIN o : i \in DOMAIN n /\ n[i] = o[i] /\ o[i] # t
      BY <3>1, <3>2, <3>3 DEF ToSet
    <3>6. ToSet(n) = ToSet(o) \cup {t}
      BY <3>1, <3>4, <3>5 DEF ToSet
    <3>7. \A i, j \in DOMAIN o : o[i] = o[j] => i = j
      BY <2>1 DEF IsInjective
    <3> HIDE DEF o
    <3>8. IsInjective(n)
      BY <3>1, <3>4, <3>5, <3>7 DEF IsInjective
    <3> QED
      BY <3>1, <3>3, <3>6, <3>8 DEF o
  <2> QED
    BY <2>2, <2>3
<1>8. \A u \in TenantKey : c.bucket[u] # <<>> <=> u \in ToSet(c.order)
  BY <1>2, <1>4, <1>7 DEF Sound, Orderly, new
<1>9. ASSUME NEW u \in TenantKey, NEW v \in TenantKey,
             NEW i \in DOMAIN c.bucket[u], NEW j \in DOMAIN c.bucket[v],
             c.bucket[u][i] = c.bucket[v][j]
      PROVE  u = v /\ i = j
  <2>1. c.bucket[u][i] \in ToSet(c.bucket[u]) /\ c.bucket[u][i] \in ToSet(c.bucket[v])
    BY <1>9 DEF ToSet
  <2>2. \A w \in TenantKey : r \notin ToSet(b.bucket[w])
    BY InBuckets
  <2>3. u = v
    <3>1. \A s, w \in TenantKey : \A x \in ToSet(b.bucket[s]) : x \in ToSet(b.bucket[w]) => s = w
      BY InBuckets
    <3>2. \A s \in TenantKey : ToSet(c.bucket[s]) = IF s = t THEN ToSet(old) \cup {r} ELSE ToSet(b.bucket[s])
      BY <1>4, <1>5
    <3> DEFINE x == c.bucket[u][i]
    <3>3. x \in ToSet(c.bucket[u]) /\ x \in ToSet(c.bucket[v])
      BY <2>1
    <3> HIDE DEF x
    <3>4. CASE x = r
      <4>1. \A s \in TenantKey : s # t => x \notin ToSet(c.bucket[s])
        BY <2>2, <3>2, <3>4
      <4> QED
        BY <3>3, <4>1
    <3>5. CASE x # r
      <4>1. x \in ToSet(b.bucket[u]) /\ x \in ToSet(b.bucket[v])
        BY <3>2, <3>3, <3>5
      <4> QED
        BY <3>1, <4>1
    <3> QED
      BY <3>4, <3>5
  <2>4. IsInjective(c.bucket[u])
    BY <1>4, <1>6, InBuckets
  <2> QED
    BY <1>9, <2>3, <2>4 DEF IsInjective
<1>10. Sound(c)
  BY <1>4, <1>7, <1>8, <1>9 DEF Sound, Orderly
<1>11. ASSUME NEW x PROVE x \in Entries(c) <=> x \in Entries(b) \cup {r}
  BY <1>4, <1>5, EntryIn
<1> QED
  BY <1>10, <1>11

-----------------------------------------------------------------------------
(***************************************************************************)
(* The fair queue                                                          *)
(***************************************************************************)
QueueOK(q) == q \in Queue /\ WellFormed(q)

(* A record with the fields of a queue *)
IsQueue(q) == q = [order |-> q.order, bucket |-> q.bucket, cursor |-> q.cursor,
                        skips |-> q.skips, older |-> q.older]

LEMMA ExceptOrder ==
    ASSUME NEW q, IsQueue(q), NEW x
    PROVE  LET c == [q EXCEPT !.order = x]
           IN  IsQueue(c) /\ c.order = x /\ c.bucket = q.bucket /\ c.cursor = q.cursor /\ c.skips = q.skips /\ c.older = q.older
BY DEF IsQueue

LEMMA ExceptBucket ==
    ASSUME NEW q, IsQueue(q), NEW x
    PROVE  LET c == [q EXCEPT !.bucket = x]
           IN  IsQueue(c) /\ c.order = q.order /\ c.bucket = x /\ c.cursor = q.cursor /\ c.skips = q.skips /\ c.older = q.older
BY DEF IsQueue

LEMMA ExceptCursor ==
    ASSUME NEW q, IsQueue(q), NEW x
    PROVE  LET c == [q EXCEPT !.cursor = x]
           IN  IsQueue(c) /\ c.order = q.order /\ c.bucket = q.bucket /\ c.cursor = x /\ c.skips = q.skips /\ c.older = q.older
BY DEF IsQueue

LEMMA ExceptSkips ==
    ASSUME NEW q, IsQueue(q), NEW x
    PROVE  LET c == [q EXCEPT !.skips = x]
           IN  IsQueue(c) /\ c.order = q.order /\ c.bucket = q.bucket /\ c.cursor = q.cursor /\ c.skips = x /\ c.older = q.older
BY DEF IsQueue

LEMMA ExceptOlder ==
    ASSUME NEW q, IsQueue(q), NEW x
    PROVE  LET c == [q EXCEPT !.older = x]
           IN  IsQueue(c) /\ c.order = q.order /\ c.bucket = q.bucket /\ c.cursor = q.cursor /\ c.skips = q.skips /\ c.older = x
BY DEF IsQueue

OnLine(q) == IF q.order = <<>> THEN q.cursor = 1 ELSE q.cursor \in DOMAIN q.order

HeadsOnly(q) == \A r \in Entry : q.skips[r] > 0 => \E p \in Place(q) : First(q, p) = r

LEMMA QueueParts ==
    ASSUME NEW q, QueueOK(q)
    PROVE  /\ Sound(q) /\ Chronological(q) /\ OnLine(q) /\ HeadsOnly(q)
           /\ q.cursor \in Nat \ {0} /\ q.skips \in [Entry -> Nat]
           /\ q.older \in SUBSET (Entry \X Entry)
           /\ Place(q) = 1..Len(q.order) /\ Len(q.order) \in Nat
           /\ IsQueue(q)
<1>1. Sound(q)
  BY DEF QueueOK, Queue, WellFormed, Sound
<1>2. Place(q) = 1..Len(q.order) /\ Len(q.order) \in Nat
  BY <1>1, InBuckets DEF Place
<1>3. Chronological(q) /\ OnLine(q) /\ HeadsOnly(q)
  BY DEF QueueOK, WellFormed, OnLine, HeadsOnly, Place
<1> QED
  BY <1>1, <1>2, <1>3 DEF QueueOK, Queue, IsQueue

LEMMA QueueFromParts ==
    ASSUME NEW q, Sound(q), Chronological(q), OnLine(q), HeadsOnly(q),
           q.cursor \in Nat \ {0}, q.skips \in [Entry -> Nat], q.older \in SUBSET (Entry \X Entry),
           IsQueue(q)
    PROVE  QueueOK(q)
<1>1. q \in Queue
  BY DEF Queue, Sound, IsQueue
<1>2. WellFormed(q)
  BY DEF WellFormed, Sound, OnLine, HeadsOnly, Place
<1> QED
  BY <1>1, <1>2 DEF QueueOK

LEMMA EmptyWell ==
    /\ QueueOK(EmptyQueue) /\ Entries(EmptyQueue) = {} /\ EmptyQueue.order = <<>>
    /\ Sound(NoBuckets) /\ Entries(NoBuckets) = {} /\ NoBuckets.order = <<>>
    /\ NoBuckets \in [order : Seq(TenantKey), bucket : [TenantKey -> Seq(Entry)]]
<1>1. <<>> \in Seq(TenantKey) /\ <<>> \in Seq(Entry) /\ DOMAIN <<>> = {} /\ ToSet(<<>>) = {}
  BY DEF ToSet
<1>2. /\ EmptyQueue.order = <<>> /\ EmptyQueue.cursor = 1 /\ EmptyQueue.older = {}
      /\ EmptyQueue.skips = [r \in Entry |-> 0] /\ EmptyQueue.bucket = [t \in TenantKey |-> <<>>]
      /\ NoBuckets.order = <<>> /\ NoBuckets.bucket = [t \in TenantKey |-> <<>>]
  BY DEF EmptyQueue, NoBuckets
<1>3. NoBuckets \in [order : Seq(TenantKey), bucket : [TenantKey -> Seq(Entry)]]
  BY <1>1 DEF NoBuckets
<1>4. Sound(NoBuckets) /\ Sound(EmptyQueue)
  BY <1>1, <1>2 DEF Sound, Orderly, IsInjective
<1>5. Entries(NoBuckets) = {} /\ Entries(EmptyQueue) = {}
  BY <1>1, <1>2 DEF Entries
<1>6. Chronological(EmptyQueue) /\ OnLine(EmptyQueue) /\ HeadsOnly(EmptyQueue)
  BY <1>1, <1>2, <1>5 DEF Chronological, OnLine, HeadsOnly
<1>7. IsQueue(EmptyQueue)
  BY DEF EmptyQueue, IsQueue
<1>8. EmptyQueue.cursor \in Nat \ {0} /\ EmptyQueue.skips \in [Entry -> Nat]
  BY <1>2
<1>9. QueueOK(EmptyQueue)
  BY <1>2, <1>4, <1>6, <1>7, <1>8, QueueFromParts
<1> QED
  BY <1>2, <1>3, <1>4, <1>5, <1>9

(* The head at a place *)
LEMMA HeadIn ==
    ASSUME NEW q, QueueOK(q), NEW p \in Place(q)
    PROVE  LET t == q.order[p]
           IN  /\ t \in TenantKey /\ q.bucket[t] \in Seq(Entry) /\ q.bucket[t] # <<>>
               /\ 1 \in DOMAIN q.bucket[t] /\ First(q, p) = q.bucket[t][1]
               /\ First(q, p) \in ToSet(q.bucket[t])
               /\ First(q, p) \in Entries(q) /\ First(q, p) \in Entry
               /\ \A o \in Place(q) : First(q, o) = First(q, p) => o = p
<1> DEFINE t == q.order[p]
<1>1. Sound(q)
  BY QueueParts
<1>2. t \in TenantKey /\ q.bucket[t] \in Seq(Entry) /\ q.bucket[t] # <<>>
  BY <1>1, InBuckets DEF Place
<1>3. 1 \in DOMAIN q.bucket[t] /\ First(q, p) = q.bucket[t][1]
  BY <1>2, ThinTail DEF First
<1>4. First(q, p) \in ToSet(q.bucket[t])
  BY <1>3 DEF ToSet
<1>5. First(q, p) \in Entries(q) /\ First(q, p) \in Entry
  BY <1>1, <1>2, <1>4, InBuckets
<1>6. ASSUME NEW o \in Place(q), First(q, o) = First(q, p) PROVE o = p
  <2>1. /\ q.order[o] \in TenantKey /\ q.bucket[q.order[o]] \in Seq(Entry)
        /\ q.bucket[q.order[o]] # <<>>
    BY <1>1, InBuckets DEF Place
  <2>2. First(q, o) \in ToSet(q.bucket[q.order[o]])
    BY <2>1, ThinTail DEF First
  <2>3. q.order[o] = t
    <3>1. \A s, w \in TenantKey : \A x \in ToSet(q.bucket[s]) : x \in ToSet(q.bucket[w]) => s = w
      BY <1>1, InBuckets
    <3> QED
      BY <1>2, <1>4, <1>6, <2>1, <2>2, <3>1
  <2> QED
    BY <1>1, <2>3, InBuckets DEF Place
<1> QED
  BY <1>2, <1>3, <1>4, <1>5, <1>6

(***************************************************************************)
(* A queue that loses r: what the rest of its operation has to see to.     *)
(***************************************************************************)
LEMMA LossWell ==
    ASSUME NEW q, QueueOK(q), NEW r \in Entry, NEW c, Sound(c),
           IsQueue(c), Entries(c) = Entries(q) \ {r},
           \A t \in TenantKey : Thins(c.bucket[t], q.bucket[t]),
           \A p \in Place(q) : First(q, p) # r =>
               c.bucket[q.order[p]] # <<>> /\ Head(c.bucket[q.order[p]]) = First(q, p),
           c.skips = [q.skips EXCEPT ![r] = 0],
           c.older = {pair \in q.older : r \notin {pair[1], pair[2]}},
           c.cursor \in Nat \ {0}, OnLine(c)
    PROVE  QueueOK(c)
<1>1. /\ Sound(q) /\ Chronological(q) /\ HeadsOnly(q) /\ q.skips \in [Entry -> Nat]
      /\ q.older \in SUBSET (Entry \X Entry)
  BY QueueParts
<1>2. \A x, y : <<x, y>> \in c.older <=> <<x, y>> \in q.older /\ x # r /\ y # r
  OBVIOUS
<1>3. Chronological(c)
  <2>1. c.older \subseteq Entries(c) \X Entries(c)
    BY <1>1 DEF Chronological
  <2>2. \A x \in Entries(c) : <<x, x>> \notin c.older
    BY <1>1, <1>2 DEF Chronological
  <2>3. \A x, y, z \in Entries(c) :
           <<x, y>> \in c.older /\ <<y, z>> \in c.older => <<x, z>> \in c.older
    BY <1>1, <1>2 DEF Chronological
  <2>4. \A x, y \in Entries(c) : x = y \/ <<x, y>> \in c.older \/ <<y, x>> \in c.older
    BY <1>1, <1>2 DEF Chronological
  <2>5. ASSUME NEW t \in TenantKey, NEW i \in DOMAIN c.bucket[t], NEW j \in DOMAIN c.bucket[t], i < j
        PROVE  <<c.bucket[t][i], c.bucket[t][j]>> \in c.older
    <3>1. PICK h \in [DOMAIN c.bucket[t] -> DOMAIN q.bucket[t]] :
            /\ \A k, l \in DOMAIN c.bucket[t] : k < l => h[k] < h[l]
            /\ \A k \in DOMAIN c.bucket[t] : c.bucket[t][k] = q.bucket[t][h[k]]
      BY DEF Thins
    <3>2. <<q.bucket[t][h[i]], q.bucket[t][h[j]]>> \in q.older
      BY <1>1, <2>5, <3>1 DEF Chronological
    <3>3. c.bucket[t][i] \in Entries(c) /\ c.bucket[t][j] \in Entries(c)
      BY DEF Entries, ToSet
    <3> QED
      BY <1>2, <3>1, <3>2, <3>3
  <2> QED
    BY <2>1, <2>2, <2>3, <2>4, <2>5 DEF Chronological
<1>4. HeadsOnly(c)
  <2> SUFFICES ASSUME NEW x \in Entry, c.skips[x] > 0 PROVE \E o \in Place(c) : First(c, o) = x
    BY DEF HeadsOnly
  <2>1. x # r /\ q.skips[x] > 0
    BY <1>1
  <2>2. PICK p \in Place(q) : First(q, p) = x
    BY <1>1, <2>1 DEF HeadsOnly
  <2>3. q.order[p] \in TenantKey
    BY HeadIn
  <2>4. c.bucket[q.order[p]] # <<>> /\ Head(c.bucket[q.order[p]]) = x
    BY <2>1, <2>2
  <2>5. PICK o \in DOMAIN c.order : c.order[o] = q.order[p]
    BY <2>3, <2>4, InBuckets
  <2> QED
    BY <2>4, <2>5 DEF Place, First
<1>5. c.skips \in [Entry -> Nat] /\ c.older \in SUBSET (Entry \X Entry)
  BY <1>1
<1> QED
  BY <1>3, <1>4, <1>5, QueueFromParts

LEMMA GoneIs ==
    ASSUME NEW q, IsQueue(q), NEW r
    PROVE  LET c == Gone(q, r)
           IN  /\ IsQueue(c) 
               /\ c.order = q.order /\ c.bucket = q.bucket /\ c.cursor = q.cursor
               /\ c.skips = [q.skips EXCEPT ![r] = 0]
               /\ c.older = {pair \in q.older : r \notin {pair[1], pair[2]}}
<1> DEFINE c == Gone(q, r)
           x == [q.skips EXCEPT ![r] = 0]
           y == {pair \in q.older : r \notin {pair[1], pair[2]}}
           d == [q EXCEPT !.skips = x]
           e == [d EXCEPT !.older = y]
<1>1. c = [q EXCEPT !.skips = x, !.older = y]
  BY DEF Gone
<1>2. c = e
  BY <1>1
<1>3. IsQueue(d)
  BY ExceptSkips
<1>4. IsQueue(e)
  <2> HIDE DEF d
  <2> QED
    BY <1>3, ExceptOlder
<1>5. e.order = q.order /\ e.bucket = q.bucket /\ e.cursor = q.cursor /\ e.skips = x /\ e.older = y
  <2> HIDE DEF x, y
  <2> QED
    BY DEF IsQueue
<1> QED
  BY <1>2, <1>4, <1>5
(* takeAt() *)
LEMMA TakenAtWell ==
    ASSUME NEW q, QueueOK(q), NEW p \in Place(q)
    PROVE  /\ QueueOK(TakenAt(q, p)) /\ Entries(TakenAt(q, p)) = Entries(q) \ {First(q, p)}
           /\ TakenAt(q, p).skips = [q.skips EXCEPT ![First(q, p)] = 0]
<1> DEFINE t == q.order[p]
           r == First(q, p)
           rest == Tail(q.bucket[t])
           order == IF rest = <<>> THEN RemoveAt(q.order, p) ELSE q.order
           next == IF rest = <<>> THEN p ELSE p + 1
           c == TakenAt(q, p)
<1>1. /\ Sound(q) /\ OnLine(q) /\ q.skips \in [Entry -> Nat]
      /\ Place(q) = 1..Len(q.order) /\ Len(q.order) \in Nat
      /\ IsQueue(q)
  BY QueueParts
<1>2. /\ t \in TenantKey /\ q.bucket[t] \in Seq(Entry) /\ q.bucket[t] # <<>>
      /\ r \in ToSet(q.bucket[t]) /\ r \in Entries(q) /\ r \in Entry
      /\ r = q.bucket[t][1]
  BY HeadIn
<1>3. /\ c.order = order
      /\ c.bucket = [q.bucket EXCEPT ![t] = rest]
      /\ c.cursor = IF next > Len(order) THEN 1 ELSE next
      /\ c.skips = [q.skips EXCEPT ![r] = 0]
      /\ c.older = {pair \in q.older : r \notin {pair[1], pair[2]}}
      /\ IsQueue(c)
  <2> DEFINE g == Gone(q, r)
             bucket == [g.bucket EXCEPT ![t] = rest]
             cursor == IF next > Len(order) THEN 1 ELSE next
             d == [g EXCEPT !.bucket = bucket]
             e == [d EXCEPT !.order = order]
             f == [e EXCEPT !.cursor = cursor]
  <2>1. /\ IsQueue(g) /\ g.bucket = q.bucket
        /\ g.skips = [q.skips EXCEPT ![r] = 0]
        /\ g.older = {pair \in q.older : r \notin {pair[1], pair[2]}}
    BY <1>1, GoneIs
  <2>2. c = [g EXCEPT !.bucket[t] = rest, !.order = order, !.cursor = cursor]
    BY DEF TakenAt
  <2> HIDE DEF g, c, r, rest, order, t, cursor
  <2>3. c = f
    BY <2>2
  <2>4. IsQueue(f)
    <3>1. IsQueue(d)
      BY <2>1, ExceptBucket
    <3> HIDE DEF d
    <3>2. IsQueue(e)
      BY <3>1, ExceptOrder
    <3> HIDE DEF e
    <3> QED
      BY <3>2, ExceptCursor
  <2>5. f.bucket = bucket /\ f.order = order /\ f.cursor = cursor /\ f.skips = g.skips /\ f.older = g.older
    <3> HIDE DEF bucket
    <3> QED
      BY <2>1 DEF IsQueue
  <2> QED
    BY <2>1, <2>3, <2>4, <2>5 DEF cursor
<1> HIDE DEF c
<1>4. /\ rest \in Seq(Entry) /\ Thins(rest, q.bucket[t])
      /\ ToSet(q.bucket[t]) = {r} \cup ToSet(rest)
      /\ Len(rest) = Len(q.bucket[t]) - 1 /\ Len(q.bucket[t]) \in Nat \ {0}
      /\ \A i \in 1..Len(rest) : rest[i] = q.bucket[t][i + 1]
      /\ DOMAIN q.bucket[t] = 1..Len(q.bucket[t])
  BY <1>2, ThinTail DEF First
<1>5. r \notin ToSet(rest)
  <2>1. IsInjective(q.bucket[t])
    BY <1>1, <1>2, InBuckets
  <2>2. DOMAIN rest = 1..Len(rest)
    BY <1>4, LenProperties
  <2> SUFFICES ASSUME NEW i \in DOMAIN rest PROVE rest[i] # r
    BY DEF ToSet
  <2>3. i + 1 \in DOMAIN q.bucket[t] /\ 1 \in DOMAIN q.bucket[t] /\ i + 1 # 1
    BY <1>4, <2>2
  <2>4. rest[i] = q.bucket[t][i + 1]
    BY <1>4, <2>2
  <2> QED
    BY <1>2, <2>1, <2>3, <2>4 DEF IsInjective
<1>6. /\ order \in Seq(TenantKey) /\ IsInjective(order)
      /\ ToSet(order) = IF rest = <<>> THEN ToSet(q.order) \ {t} ELSE ToSet(q.order)
      /\ Len(order) = IF rest = <<>> THEN Len(q.order) - 1 ELSE Len(q.order)
  <2>1. q.order \in Seq(TenantKey) /\ IsInjective(q.order)
    BY <1>1 DEF Sound, Orderly
  <2>2. CASE rest = <<>>
    BY <1>1, <2>2, ShortenedLine DEF Place
  <2>3. CASE rest # <<>>
    BY <2>1, <2>3
  <2> QED
    BY <2>2, <2>3
<1>7. Sound(c) /\ Entries(c) = (Entries(q) \ ToSet(q.bucket[t])) \cup ToSet(rest)
  <2> HIDE DEF t, rest, order, r
  <2>1. c.order \in Seq(TenantKey) /\ IsInjective(c.order)
    BY <1>3, <1>6
  <2>2. ToSet(c.order) = IF rest = <<>> THEN ToSet(q.order) \ {t} ELSE ToSet(q.order)
    BY <1>3, <1>6
  <2>3. c.bucket = [q.bucket EXCEPT ![t] = rest]
    BY <1>3
  <2>4. Sound(q) /\ t \in TenantKey /\ rest \in Seq(Entry) /\ Thins(rest, q.bucket[t])
    BY <1>1, <1>2, <1>4
  <2>5. ThinnedTo(q, t, rest, c)
    BY <2>1, <2>2, <2>3, <2>4 DEF ThinnedTo
  <2> QED
    BY <2>5, ThinnedSound
<1>8. Entries(c) = Entries(q) \ {r}
  <2>1. ToSet(q.bucket[t]) \subseteq Entries(q)
    BY <1>1, <1>2, InBuckets
  <2> HIDE DEF r, rest
  <2> QED
    BY <1>4, <1>5, <1>7, <2>1
<1>9. \A u \in TenantKey : c.bucket[u] = IF u = t THEN rest ELSE q.bucket[u]
  BY <1>1, <1>3 DEF Sound
<1>10. \A u \in TenantKey : Thins(c.bucket[u], q.bucket[u])
  <2>1. \A u \in TenantKey : Thins(q.bucket[u], q.bucket[u])
    BY <1>1, InBuckets, ThinSelf
  <2> QED
    BY <1>4, <1>9, <2>1
<1>11. ASSUME NEW o \in Place(q), First(q, o) # r
       PROVE  c.bucket[q.order[o]] # <<>> /\ Head(c.bucket[q.order[o]]) = First(q, o)
  <2>1. q.order[o] # t /\ q.order[o] \in TenantKey /\ q.bucket[q.order[o]] # <<>>
    <3>1. o # p
      BY <1>11
    <3> QED
      BY <1>1, <3>1, InBuckets, HeadIn DEF Place
  <2> QED
    BY <1>9, <2>1 DEF First
<1>12. c.cursor \in Nat \ {0} /\ OnLine(c)
  <2>1. p \in Nat \ {0} /\ p <= Len(q.order)
    BY <1>1
  <2>2. DOMAIN order = 1..Len(order) /\ (order = <<>> <=> Len(order) = 0) /\ Len(order) \in Nat
    BY <1>6, EmptySeq, LenProperties
  <2>3. next \in Nat \ {0} /\ (Len(order) = 0 => next > Len(order))
    BY <2>1
  <2> HIDE DEF order, next
  <2>4. c.cursor = (IF next > Len(order) THEN 1 ELSE next) /\ c.order = order
    BY <1>3
  <2> QED
    BY <2>2, <2>3, <2>4 DEF OnLine
<1> HIDE DEF r
<1>13. QueueOK(c)
  BY <1>2, <1>3, <1>7, <1>8, <1>10, <1>11, <1>12, LossWell
<1> QED
  BY <1>3, <1>8, <1>13 DEF c, r

-----------------------------------------------------------------------------
(* dequeue() takes at most one request: no two stand in line with the same
   turn, and of those with a reservation one is the oldest. *)
LEMMA ChosenOne ==
    ASSUME NEW q, QueueOK(q), NEW room \in Int
    PROVE  /\ Chosen(q, room) \subseteq Place(q)
           /\ \A p \in Chosen(q, room) : Cost[First(q, p)] <= room
           /\ \A p, o \in Chosen(q, room) : p = o
<1> DEFINE reserved == Reserved(q)
           fitting == Fitting(q, room)
<1>1. reserved \subseteq Place(q) /\ fitting \subseteq Place(q)
  BY DEF Reserved, Fitting
<1>2. \A p \in fitting : Cost[First(q, p)] <= room
  BY DEF Fitting
<1>3. Chosen(q, room) \subseteq fitting
  BY DEF Chosen
<1>4. ASSUME NEW p \in Chosen(q, room), NEW o \in Chosen(q, room) PROVE p = o
  <2>1. CASE reserved # {}
    <3>1. ASSUME p # o PROVE FALSE
      <4>1. <<First(q, p), First(q, o)>> \in q.older /\ <<First(q, o), First(q, p)>> \in q.older
        BY <1>4, <2>1, <3>1 DEF Chosen
      <4>2. First(q, p) \in Entries(q) /\ First(q, o) \in Entries(q)
        BY <1>1, <1>3, HeadIn
      <4>3. Chronological(q)
        BY QueueParts
      <4> QED
        BY <4>1, <4>2, <4>3 DEF Chronological
    <3> QED
      BY <3>1
  <2>2. CASE reserved = {}
    <3>1. p \in fitting /\ o \in fitting /\ Turn(q, p) <= Turn(q, o) /\ Turn(q, o) <= Turn(q, p)
      BY <1>4, <2>2 DEF Chosen
    <3>2. p \in 1..Len(q.order) /\ o \in 1..Len(q.order) /\ Len(q.order) \in Nat
      BY <1>1, <3>1, QueueParts
    <3>3. q.cursor \in 1..Len(q.order)
      <4>1. Place(q) = 1..Len(q.order) /\ OnLine(q) /\ Sound(q)
        BY QueueParts
      <4>2. q.order # <<>>
        BY <3>2, <4>1, EmptySeq DEF Sound
      <4> QED
        BY <4>1, <4>2 DEF OnLine, Place
    <3> QED
      BY <3>1, <3>2, <3>3 DEF Turn
  <2> QED
    BY <2>1, <2>2
<1> QED
  BY <1>1, <1>2, <1>3, <1>4

(* Being passed over keeps a queue in shape. *)
LEMMA AgedWell ==
    ASSUME NEW q, QueueOK(q), NEW aged \in [Entry -> Nat],
           \A r \in Entry : aged[r] > 0 => q.skips[r] > 0 \/ \E p \in Place(q) : First(q, p) = r
    PROVE  LET c == [q EXCEPT !.skips = aged]
           IN  /\ QueueOK(c) /\ Entries(c) = Entries(q) /\ Place(c) = Place(q)
               /\ \A p \in Place(q) : First(c, p) = First(q, p)
               /\ c.skips = aged
<1> DEFINE c == [q EXCEPT !.skips = aged]
<1>1. /\ Sound(q) /\ Chronological(q) /\ OnLine(q) /\ HeadsOnly(q)
      /\ q.cursor \in Nat \ {0} /\ q.skips \in [Entry -> Nat]
      /\ q.older \in SUBSET (Entry \X Entry)
      /\ IsQueue(q)
  BY QueueParts
<1>2. IsQueue(c)
  BY <1>1, ExceptSkips
<1>3. c.order = q.order /\ c.bucket = q.bucket /\ c.cursor = q.cursor /\ c.skips = aged /\ c.older = q.older
  BY <1>1 DEF IsQueue
<1> HIDE DEF c
<1>4. Entries(c) = Entries(q) /\ Place(c) = Place(q) /\ \A p : First(c, p) = First(q, p)
  BY <1>3 DEF Entries, Place, First
<1>5. Sound(c) /\ Chronological(c) /\ OnLine(c)
  BY <1>1, <1>3, <1>4 DEF Sound, Orderly, Chronological, OnLine
<1>6. HeadsOnly(c)
  BY <1>1, <1>3, <1>4 DEF HeadsOnly
<1>7. QueueOK(c)
  BY <1>1, <1>2, <1>3, <1>5, <1>6, QueueFromParts
<1> QED
  BY <1>3, <1>4, <1>7 DEF c

(* dequeue() *)
Aged(q, room) == [r \in Entry |-> IF r \in PassedOver(q, room) THEN q.skips[r] + 1 ELSE q.skips[r]]

LEMMA DequeuedWell ==
    ASSUME NEW q, QueueOK(q), NEW room \in Int
    PROVE  /\ QueueOK(Dequeued(q, room))
           /\ Entries(Dequeued(q, room)) = Entries(q) \ Taken(q, room)
           /\ Taken(q, room) \subseteq Entries(q) /\ Entries(q) \subseteq Entry
           /\ Chosen(q, room) = {} => Dequeued(q, room) = q /\ Taken(q, room) = {}
           /\ Chosen(q, room) # {} => \E r \in Entries(q) : Taken(q, room) = {r} /\ Cost[r] <= room
<1>1. Entries(q) \subseteq Entry
  BY QueueParts, InBuckets
<1>2. CASE Chosen(q, room) = {}
  <2>1. Dequeued(q, room) = q /\ Taken(q, room) = {}
    BY <1>2 DEF Dequeued, Taken
  <2> QED
    BY <1>1, <1>2, <2>1
<1>3. CASE Chosen(q, room) # {}
  <2> DEFINE c == [q EXCEPT !.skips = Aged(q, room)]
             p == CHOOSE p \in Chosen(q, room) : TRUE
  <2>1. Dequeued(q, room) = TakenAt(c, p)
    BY <1>3 DEF Dequeued, Aged
  <2>2. p \in Place(q) /\ Cost[First(q, p)] <= room /\ p \in Chosen(q, room)
    BY <1>3, ChosenOne
  <2>3. Chosen(q, room) = {p}
    BY <2>2, ChosenOne
  <2> HIDE DEF p
  <2>4. Taken(q, room) = {First(q, p)}
    BY <2>3 DEF Taken
  <2>5. First(q, p) \in Entries(q)
    BY <2>2, HeadIn
  <2>6. Aged(q, room) \in [Entry -> Nat]
    BY QueueParts DEF Aged
  <2>7. PassedOver(q, room) \subseteq {First(q, o) : o \in Place(q)}
    BY DEF PassedOver
  <2>8. \A r \in Entry : Aged(q, room)[r] > 0 => q.skips[r] > 0 \/ \E o \in Place(q) : First(q, o) = r
    BY <2>7 DEF Aged
  <2>9. QueueOK(c) /\ Entries(c) = Entries(q) /\ p \in Place(c) /\ First(c, p) = First(q, p)
    BY <2>2, <2>6, <2>8, AgedWell
  <2> HIDE DEF c
  <2>10. QueueOK(TakenAt(c, p)) /\ Entries(TakenAt(c, p)) = Entries(c) \ {First(c, p)}
    BY <2>9, TakenAtWell
  <2> QED
    BY <1>1, <1>3, <2>1, <2>2, <2>4, <2>5, <2>9, <2>10
<1> QED
  BY <1>2, <1>3

(* Nobody is chosen from an empty queue. *)
LEMMA EmptyChoice ==
    ASSUME NEW q, QueueOK(q), NEW room
    PROVE  /\ (q.order = <<>>) <=> (Entries(q) = {})
           /\ Entries(q) = {} => Chosen(q, room) = {}
<1>1. Sound(q) /\ Place(q) = 1..Len(q.order) /\ q.order \in Seq(TenantKey) /\ Len(q.order) \in Nat
  BY QueueParts DEF Sound
<1>2. q.order # <<>> => Entries(q) # {}
  <2>1. ASSUME q.order # <<>> PROVE Entries(q) # {}
    <3>1. 1 \in Place(q)
      BY <1>1, <2>1, EmptySeq
    <3> QED
      BY <3>1, HeadIn
  <2> QED
    BY <2>1
<1>3. q.order = <<>> => Entries(q) = {} /\ Place(q) = {}
  <2>1. ASSUME q.order = <<>> PROVE Entries(q) = {} /\ Place(q) = {}
    <3>1. Place(q) = {} /\ ToSet(q.order) = {}
      BY <2>1 DEF Place, ToSet
    <3>2. \A t \in TenantKey : q.bucket[t] = <<>>
      BY <1>1, <3>1, InBuckets DEF Place
    <3>3. \A t \in TenantKey : ToSet(q.bucket[t]) = {}
      BY <3>2 DEF ToSet
    <3> QED
      BY <3>1, <3>3 DEF Entries
  <2> QED
    BY <2>1
<1>4. Chosen(q, room) \subseteq Place(q)
  BY DEF Chosen, Fitting
<1> QED
  BY <1>2, <1>3, <1>4

(* enqueue() *)
LEMMA EnqueuedWell ==
    ASSUME NEW q, QueueOK(q), NEW r \in Entry \ Entries(q), NEW t \in TenantKey
    PROVE  LET c == Enqueued(q, r, t)
           IN  /\ QueueOK(c) /\ Entries(c) = Entries(q) \cup {r} /\ c.skips = q.skips
               /\ c.older = q.older \cup (Entries(q) \X {r})
               /\ \A p \in Place(q) : p \in Place(c) /\ First(c, p) = First(q, p)
               /\ \A p \in Place(c) \ Place(q) : First(c, p) = r
<1> DEFINE c == Enqueued(q, r, t)
           more == Entries(q) \X {r}
<1>1. /\ Sound(q) /\ Chronological(q) /\ OnLine(q) /\ HeadsOnly(q)
      /\ q.cursor \in Nat \ {0} /\ q.skips \in [Entry -> Nat]
      /\ q.older \in SUBSET (Entry \X Entry)
      /\ IsQueue(q)
  BY QueueParts
<1>2. /\ IsQueue(c)
      /\ c.order = IF q.bucket[t] = <<>> THEN Append(q.order, t) ELSE q.order
      /\ c.bucket = [q.bucket EXCEPT ![t] = Append(@, r)]
      /\ c.cursor = q.cursor /\ c.skips = q.skips /\ c.older = q.older \cup more
  <2> DEFINE order == IF q.bucket[t] = <<>> THEN Append(q.order, t) ELSE q.order
             bucket == [q.bucket EXCEPT ![t] = Append(@, r)]
             older == q.older \cup more
             d == [q EXCEPT !.order = order]
             e == [d EXCEPT !.bucket = bucket]
             f == [e EXCEPT !.older = older]
  <2>1. IsQueue(d) /\ d.order = order /\ d.bucket = q.bucket /\ d.cursor = q.cursor
        /\ d.skips = q.skips /\ d.older = q.older
    <3> HIDE DEF order
    <3> QED
      BY <1>1, ExceptOrder
  <2>2. e = Pushed(q, r, t)
    <3> HIDE DEF order
    <3>1. e = [q EXCEPT !.order = order, !.bucket = bucket]
      OBVIOUS
    <3>2. Pushed(q, r, t) = [q EXCEPT !.order = order, !.bucket = bucket]
      BY DEF Pushed, order
    <3> QED
      BY <3>1, <3>2
  <2>3. IsQueue(e) /\ e.order = order /\ e.bucket = bucket /\ e.cursor = q.cursor
        /\ e.skips = q.skips /\ e.older = q.older
    <3> HIDE DEF d, bucket, order
    <3> QED
      BY <2>1, ExceptBucket
  <2>4. c = f
    <3> HIDE DEF e
    <3> QED
      BY <2>2, <2>3 DEF Enqueued
  <2>5. IsQueue(f) /\ f.order = order /\ f.bucket = bucket /\ f.cursor = q.cursor
        /\ f.skips = q.skips /\ f.older = older
    <3> HIDE DEF e, bucket, order, older
    <3> QED
      BY <2>3, ExceptOlder
  <2> QED
    BY <2>4, <2>5
<1> HIDE DEF c
<1>3. Sound(c) /\ Entries(c) = Entries(q) \cup {r}
  <2>1. c.order = IF q.bucket[t] = <<>> THEN Append(q.order, t) ELSE q.order
    BY <1>2
  <2>2. c.bucket = [q.bucket EXCEPT ![t] = Append(@, r)]
    BY <1>2
  <2> QED
    BY <1>1, <2>1, <2>2, PushedSound
<1>4. \A u \in TenantKey : c.bucket[u] = IF u = t THEN Append(q.bucket[t], r) ELSE q.bucket[u]
  BY <1>1, <1>2 DEF Sound
<1>5. Chronological(c)
  <2> DEFINE E == Entries(q)
  <2>1. \A x, y : <<x, y>> \in c.older <=> <<x, y>> \in q.older \/ (x \in E /\ y = r)
    BY <1>2
  <2>2. \A x, y : <<x, y>> \in q.older => x \in E /\ y \in E
    BY <1>1 DEF Chronological
  <2>3. r \notin E /\ Entries(c) = E \cup {r}
    BY <1>3
  <2>4. c.older \subseteq Entries(c) \X Entries(c)
    BY <1>1, <1>2, <2>3 DEF Chronological
  <2>5. \A x \in E : <<x, x>> \notin q.older
    BY <1>1 DEF Chronological
  <2>6. \A x, y, z \in E : <<x, y>> \in q.older /\ <<y, z>> \in q.older => <<x, z>> \in q.older
    BY <1>1 DEF Chronological
  <2>7. \A x, y \in E : x = y \/ <<x, y>> \in q.older \/ <<y, x>> \in q.older
    BY <1>1 DEF Chronological
  <2> HIDE DEF E
  <2>8. \A x \in Entries(c) : <<x, x>> \notin c.older
    BY <2>1, <2>3, <2>2, <2>5
  <2>9. \A x, y, z \in Entries(c) :
           <<x, y>> \in c.older /\ <<y, z>> \in c.older => <<x, z>> \in c.older
    BY <2>1, <2>2, <2>3, <2>6
  <2>10. \A x, y \in Entries(c) : x = y \/ <<x, y>> \in c.older \/ <<y, x>> \in c.older
    BY <2>1, <2>3, <2>7
  <2>11. ASSUME NEW u \in TenantKey, NEW i \in DOMAIN c.bucket[u], NEW j \in DOMAIN c.bucket[u], i < j
         PROVE  <<c.bucket[u][i], c.bucket[u][j]>> \in c.older
    <3> DEFINE s == q.bucket[u]
    <3>1. s \in Seq(Entry) /\ \A k, l \in DOMAIN s : k < l => <<s[k], s[l]>> \in q.older
      BY <1>1, InBuckets DEF Chronological
    <3>2. CASE u # t
      BY <1>4, <2>1, <2>11, <3>1, <3>2
    <3>3. CASE u = t
      <4> DEFINE n == Append(s, r)
      <4>1. c.bucket[u] = n
        BY <1>4, <3>3
      <4>2. /\ Len(n) = Len(s) + 1 /\ n \in Seq(Entry)
            /\ \A k \in 1..Len(s) : n[k] = s[k]
            /\ n[Len(s) + 1] = r
        BY <3>1, AppendProperties
      <4>3. Len(s) \in Nat /\ DOMAIN s = 1..Len(s) /\ DOMAIN n = 1..Len(n)
        BY <3>1, <4>2, LenProperties
      <4>4. \A k \in DOMAIN s : s[k] \in E
        BY DEF Entries, ToSet, E
      <4> HIDE DEF n, s
      <4>5. i \in DOMAIN s /\ (j \in DOMAIN s \/ j = Len(s) + 1)
        BY <2>11, <4>1, <4>2, <4>3
      <4>6. n[i] = s[i] /\ s[i] \in E
        BY <4>2, <4>3, <4>4, <4>5
      <4>7. CASE j \in DOMAIN s
        BY <2>1, <2>11, <3>1, <4>1, <4>2, <4>3, <4>5, <4>6, <4>7
      <4>8. CASE j = Len(s) + 1
        BY <2>1, <4>1, <4>2, <4>6, <4>8
      <4> QED
        BY <4>5, <4>7, <4>8
    <3> QED
      BY <3>2, <3>3
  <2> QED
    BY <2>4, <2>8, <2>9, <2>10, <2>11 DEF Chronological
<1>6. /\ OnLine(c) /\ Place(q) \subseteq Place(c)
      /\ \A p \in Place(q) : c.order[p] = q.order[p]
  <2>1. CASE q.bucket[t] # <<>>
    BY <1>1, <1>2, <2>1 DEF OnLine, Place
  <2>2. CASE q.bucket[t] = <<>>
    <3> DEFINE o == q.order
               n == Append(o, t)
    <3>1. o \in Seq(TenantKey) /\ c.order = n
      BY <1>1, <1>2, <2>2 DEF Sound
    <3>2. /\ n \in Seq(TenantKey) /\ Len(n) = Len(o) + 1 /\ n # <<>>
          /\ \A i \in 1..Len(o) : n[i] = o[i]
      BY <3>1, AppendProperties
    <3>3. Len(o) \in Nat /\ DOMAIN o = 1..Len(o) /\ DOMAIN n = 1..Len(n)
      BY <3>1, <3>2, LenProperties
    <3>4. q.cursor = 1 \/ q.cursor \in DOMAIN o
      BY <1>1 DEF OnLine
    <3> HIDE DEF n, o
    <3>5. q.cursor \in DOMAIN n
      BY <3>2, <3>3, <3>4
    <3> QED
      BY <1>2, <3>1, <3>2, <3>3, <3>5 DEF OnLine, Place, o
  <2> QED
    BY <2>1, <2>2
<1>9. ASSUME NEW p \in Place(q) PROVE First(c, p) = First(q, p)
  <2> DEFINE s == q.bucket[q.order[p]]
  <2>1. s \in Seq(Entry) /\ s # <<>> /\ q.order[p] \in TenantKey
    BY HeadIn
  <2>2. Head(Append(s, r)) = Head(s)
    BY <2>1, HeadTailAppend
  <2> QED
    BY <1>4, <1>6, <2>1, <2>2 DEF First
<1>10. ASSUME NEW p \in Place(c) \ Place(q) PROVE First(c, p) = r
  <2> DEFINE o == q.order
  <2>1. o \in Seq(TenantKey)
    BY <1>1 DEF Sound
  <2>2. q.bucket[t] = <<>> /\ c.order = Append(o, t)
    BY <1>2 DEF Place
  <2>3. c.order[p] = t
    <3> DEFINE n == Append(o, t)
    <3>1. n \in Seq(TenantKey) /\ Len(n) = Len(o) + 1 /\ n[Len(o) + 1] = t
      BY <2>1, AppendProperties
    <3>2. Len(o) \in Nat /\ DOMAIN o = 1..Len(o) /\ DOMAIN n = 1..Len(n)
      BY <2>1, <3>1, LenProperties
    <3>3. p \in DOMAIN n /\ p \notin DOMAIN o
      BY <2>2 DEF Place
    <3> HIDE DEF n, o
    <3>4. p = Len(o) + 1
      BY <3>1, <3>2, <3>3
    <3> QED
      BY <2>2, <3>1, <3>4 DEF n
  <2>4. c.bucket[t] = Append(<<>>, r)
    BY <1>4, <2>2
  <2> QED
    BY <2>3, <2>4 DEF First
<1>7. HeadsOnly(c)
  BY <1>1, <1>2, <1>6, <1>9 DEF HeadsOnly
<1>8. c.older \in SUBSET (Entry \X Entry)
  BY <1>1, <1>2, InBuckets
<1> QED
  BY <1>1, <1>2, <1>3, <1>5, <1>6, <1>7, <1>8, <1>9, <1>10, QueueFromParts DEF c

-----------------------------------------------------------------------------
LEMMA TenantOfEntry ==
    ASSUME NEW b, NEW r \in Entries(b)
    PROVE  TenantOf(b, r) \in TenantKey /\ r \in ToSet(b.bucket[TenantOf(b, r)])
BY DEF TenantOf, Entries

(* A bucket that loses one of its entries *)
LEMMA SplicedBucket ==
    ASSUME NEW s \in Seq(Entry), IsInjective(s), NEW r \in ToSet(s)
    PROVE  LET rest == Spliced(s, r)
           IN  /\ rest \in Seq(Entry) /\ Thins(rest, s)
               /\ ToSet(rest) = ToSet(s) \ {r}
               /\ Head(s) # r => rest # <<>> /\ Head(rest) = Head(s)
<1> DEFINE p == Position(s, r)
           rest == Spliced(s, r)
<1>1. p \in DOMAIN s /\ s[p] = r
  BY PositionOf
<1>2. DOMAIN s = 1..Len(s) /\ Len(s) \in Nat
  BY LenProperties
<1>3. /\ rest \in Seq(Entry) /\ Len(rest) = Len(s) - 1 /\ Thins(rest, s)
      /\ \A i \in 1..(Len(s) - 1) : rest[i] = s[IF i < p THEN i ELSE i + 1]
      /\ ToSet(rest) = ToSet(s) \ {r}
  <2> HIDE DEF p
  <2>1. rest = RemoveAt(s, p)
    BY DEF Spliced, p
  <2> HIDE DEF rest
  <2> QED
    BY <1>1, <2>1, ThinRemoveAt
<1>4. ASSUME Head(s) # r PROVE rest # <<>> /\ Head(rest) = Head(s)
  <2>1. s # <<>> /\ Head(s) = s[1]
    BY <1>1, <1>2, EmptySeq, ThinTail
  <2>2. p # 1
    BY <1>1, <1>4, <2>1
  <2> HIDE DEF p, rest
  <2>3. 1 < p /\ 1 \in 1..(Len(s) - 1)
    BY <1>1, <1>2, <2>2
  <2>4. rest[1] = s[1] /\ Len(rest) # 0
    BY <1>2, <1>3, <2>3
  <2>5. rest # <<>>
    BY <2>4, EmptySeq
  <2>6. Head(rest) = rest[1]
    BY <1>3, <2>5, ThinTail
  <2> QED
    BY <2>1, <2>4, <2>5, <2>6
<1> QED
  BY <1>3, <1>4

(* removeById() *)
LEMMA RemovedWell ==
    ASSUME NEW q, QueueOK(q), NEW r \in Entries(q)
    PROVE  /\ QueueOK(Removed(q, r)) /\ Entries(Removed(q, r)) = Entries(q) \ {r}
           /\ Removed(q, r).skips = [q.skips EXCEPT ![r] = 0]
<1> DEFINE t == TenantOf(q, r)
           rest == Spliced(q.bucket[t], r)
           p == Position(q.order, t)
           order == IF rest = <<>> THEN RemoveAt(q.order, p) ELSE q.order
           cursor == IF rest # <<>> THEN q.cursor
                     ELSE IF p < q.cursor THEN q.cursor - 1
                     ELSE IF q.cursor > Len(order) THEN 1 ELSE q.cursor
           c == Removed(q, r)
<1>1. /\ Sound(q) /\ OnLine(q) /\ q.skips \in [Entry -> Nat] /\ q.cursor \in Nat \ {0}
      /\ Place(q) = 1..Len(q.order) /\ Len(q.order) \in Nat
      /\ IsQueue(q)
  BY QueueParts
<1>2. t \in TenantKey /\ r \in ToSet(q.bucket[t])
  BY TenantOfEntry
<1> HIDE DEF t
<1>3. q.bucket[t] \in Seq(Entry) /\ IsInjective(q.bucket[t]) /\ r \in Entry
      /\ ToSet(q.bucket[t]) \subseteq Entries(q)
  BY <1>1, <1>2, InBuckets
<1>4. q.bucket[t] # <<>>
  BY <1>2 DEF ToSet
<1>5. p \in DOMAIN q.order /\ q.order[p] = t
  <2>1. t \in ToSet(q.order)
    BY <1>1, <1>2, <1>4 DEF Sound, Orderly
  <2> QED
    BY <2>1, PositionOf
<1>6. /\ rest \in Seq(Entry) /\ Thins(rest, q.bucket[t])
      /\ ToSet(rest) = ToSet(q.bucket[t]) \ {r}
      /\ Head(q.bucket[t]) # r => rest # <<>> /\ Head(rest) = Head(q.bucket[t])
  BY <1>2, <1>3, SplicedBucket
<1> HIDE DEF rest, p
<1>7. /\ order \in Seq(TenantKey) /\ IsInjective(order)
      /\ ToSet(order) = IF rest = <<>> THEN ToSet(q.order) \ {t} ELSE ToSet(q.order)
      /\ Len(order) = IF rest = <<>> THEN Len(q.order) - 1 ELSE Len(q.order)
  <2>1. q.order \in Seq(TenantKey) /\ IsInjective(q.order)
    BY <1>1 DEF Sound, Orderly
  <2>2. CASE rest = <<>>
    BY <1>1, <1>5, <2>2, ShortenedLine
  <2>3. CASE rest # <<>>
    BY <2>1, <2>3
  <2> QED
    BY <2>2, <2>3
<1>8. /\ c.order = order
      /\ c.bucket = [q.bucket EXCEPT ![t] = rest]
      /\ c.cursor = cursor
      /\ c.skips = [q.skips EXCEPT ![r] = 0]
      /\ c.older = {pair \in q.older : r \notin {pair[1], pair[2]}}
      /\ IsQueue(c)
  <2> DEFINE g == Gone(q, r)
             bucket == [g.bucket EXCEPT ![t] = rest]
             d == [g EXCEPT !.bucket = bucket]
             e == [d EXCEPT !.order = order]
             f == [e EXCEPT !.cursor = cursor]
  <2>1. /\ IsQueue(g) /\ g.bucket = q.bucket /\ g.cursor = q.cursor
        /\ g.skips = [q.skips EXCEPT ![r] = 0]
        /\ g.older = {pair \in q.older : r \notin {pair[1], pair[2]}}
    BY <1>1, GoneIs
  <2>2. c = [g EXCEPT !.bucket[t] = rest, !.order = order,
                      !.cursor = IF rest # <<>> THEN @
                       ELSE IF p < @ THEN @ - 1
                       ELSE IF @ > Len(order) THEN 1 ELSE @]
    BY DEF Removed, t, rest, p
  <2> HIDE DEF g, c, order
  <2>3. c = [g EXCEPT !.bucket[t] = rest, !.order = order, !.cursor = cursor]
    BY <2>1, <2>2
  <2> HIDE DEF cursor
  <2>4. c = f
    BY <2>3
  <2>5. IsQueue(d) /\ d.bucket = bucket /\ d.skips = g.skips /\ d.older = g.older
    <3> HIDE DEF bucket
    <3> QED
      BY <2>1, ExceptBucket
  <2> HIDE DEF d, bucket
  <2>6. IsQueue(e) /\ e.bucket = bucket /\ e.order = order /\ e.skips = g.skips /\ e.older = g.older
    BY <2>5, ExceptOrder
  <2> HIDE DEF e
  <2>7. IsQueue(f) /\ f.bucket = bucket /\ f.order = order /\ f.cursor = cursor
        /\ f.skips = g.skips /\ f.older = g.older
    BY <2>6, ExceptCursor
  <2> HIDE DEF f
  <2> QED
    BY <2>1, <2>4, <2>7 DEF bucket
<1> HIDE DEF c
<1>9. Sound(c) /\ Entries(c) = (Entries(q) \ ToSet(q.bucket[t])) \cup ToSet(rest)
  <2>1. ThinnedTo(q, t, rest, c)
    <3> HIDE DEF order
    <3> QED
      BY <1>1, <1>2, <1>6, <1>7, <1>8 DEF ThinnedTo
  <2> QED
    BY <2>1, ThinnedSound
<1>10. Entries(c) = Entries(q) \ {r}
  BY <1>2, <1>3, <1>6, <1>9
<1>11. \A u \in TenantKey : c.bucket[u] = IF u = t THEN rest ELSE q.bucket[u]
  BY <1>1, <1>8 DEF Sound
<1>12. \A u \in TenantKey : Thins(c.bucket[u], q.bucket[u])
  <2>1. \A u \in TenantKey : Thins(q.bucket[u], q.bucket[u])
    BY <1>1, InBuckets, ThinSelf
  <2> QED
    BY <1>6, <1>11, <2>1
<1>13. ASSUME NEW o \in Place(q), First(q, o) # r
       PROVE  c.bucket[q.order[o]] # <<>> /\ Head(c.bucket[q.order[o]]) = First(q, o)
  <2>1. q.order[o] \in TenantKey /\ q.bucket[q.order[o]] # <<>>
    BY HeadIn
  <2> QED
    BY <1>6, <1>11, <1>13, <2>1 DEF First
<1>14. c.cursor \in Nat \ {0} /\ OnLine(c)
  <2>1. p \in Nat \ {0} /\ p <= Len(q.order) /\ q.cursor \in 1..Len(q.order)
    <3>1. q.order # <<>>
      BY <1>5
    <3> QED
      BY <1>1, <1>5, <3>1 DEF OnLine, Place
  <2>2. DOMAIN order = 1..Len(order) /\ (order = <<>> <=> Len(order) = 0) /\ Len(order) \in Nat
    BY <1>7, EmptySeq, LenProperties
  <2>3. c.order = order /\ c.cursor = cursor /\ Len(order) = IF rest = <<>> THEN Len(q.order) - 1 ELSE Len(q.order)
    BY <1>7, <1>8
  <2> HIDE DEF order
  <2>4. cursor \in Nat \ {0} /\ (Len(order) = 0 => cursor = 1) /\ (Len(order) # 0 => cursor <= Len(order))
    BY <1>1, <2>1, <2>2, <2>3
  <2> HIDE DEF cursor
  <2> QED
    BY <2>2, <2>3, <2>4 DEF OnLine
<1>15. QueueOK(c)
  <2>1. c.skips = [q.skips EXCEPT ![r] = 0]
    BY <1>8
  <2>2. c.older = {pair \in q.older : r \notin {pair[1], pair[2]}}
    BY <1>8
  <2>3. IsQueue(c)
    BY <1>8
  <2> QED
    BY <1>3, <1>9, <1>10, <1>12, <1>13, <1>14, <2>1, <2>2, <2>3, LossWell
<1> QED
  BY <1>8, <1>10, <1>15 DEF c

-----------------------------------------------------------------------------
(***************************************************************************)
(* Queues that are emptied and filled again                                *)
(***************************************************************************)
(* A sequence of different requests, all of them in R *)
Lists(s, R) == s \in Seq(Entry) /\ IsInjective(s) /\ ToSet(s) \subseteq R

LEMMA ListsConcat ==
    ASSUME NEW s, NEW u, NEW R, NEW T, Lists(s, R), Lists(u, T), R \cap T = {}
    PROVE  Lists(s \o u, R \cup T)
<1> DEFINE n == s \o u
<1>1. s \in Seq(Entry) /\ u \in Seq(Entry)
  BY DEF Lists
<1>2. /\ n \in Seq(Entry) /\ Len(n) = Len(s) + Len(u)
      /\ \A i \in 1..(Len(s) + Len(u)) : n[i] = IF i <= Len(s) THEN s[i] ELSE u[i - Len(s)]
  BY <1>1, ConcatProperties
<1> HIDE DEF n
<1>3. /\ Len(s) \in Nat /\ Len(u) \in Nat
      /\ DOMAIN s = 1..Len(s) /\ DOMAIN u = 1..Len(u) /\ DOMAIN n = 1..(Len(s) + Len(u))
  BY <1>1, <1>2, LenProperties
<1>4. ASSUME NEW i \in DOMAIN n
      PROVE  \/ i \in DOMAIN s /\ n[i] = s[i] /\ n[i] \in R
             \/ i - Len(s) \in DOMAIN u /\ n[i] = u[i - Len(s)] /\ n[i] \in T /\ i \notin DOMAIN s
  <2>1. CASE i <= Len(s)
    <3>1. i \in DOMAIN s /\ n[i] = s[i]
      BY <1>2, <1>3, <2>1
    <3> QED
      BY <3>1 DEF Lists, ToSet
  <2>2. CASE ~(i <= Len(s))
    <3>1. i - Len(s) \in DOMAIN u /\ n[i] = u[i - Len(s)] /\ i \notin DOMAIN s
      BY <1>2, <1>3, <2>2
    <3> QED
      BY <3>1 DEF Lists, ToSet
  <2> QED
    BY <2>1, <2>2
<1>5. ASSUME NEW i \in DOMAIN n, NEW j \in DOMAIN n, n[i] = n[j] PROVE i = j
  <2>1. i \in Int /\ j \in Int /\ Len(s) \in Int
    BY <1>3
  <2>2. CASE n[i] \in R
    <3>1. i \in DOMAIN s /\ n[i] = s[i] /\ j \in DOMAIN s /\ n[j] = s[j]
      BY <1>4, <1>5, <2>2
    <3> QED
      BY <1>5, <3>1 DEF Lists, IsInjective
  <2>3. CASE n[i] \notin R
    <3>1. /\ i - Len(s) \in DOMAIN u /\ n[i] = u[i - Len(s)]
          /\ j - Len(s) \in DOMAIN u /\ n[j] = u[j - Len(s)]
      BY <1>4, <1>5, <2>3
    <3>2. i - Len(s) = j - Len(s)
      BY <1>5, <3>1 DEF Lists, IsInjective
    <3> QED
      BY <2>1, <3>2
  <2> QED
    BY <2>2, <2>3
<1>6. ToSet(n) \subseteq R \cup T
  BY <1>4 DEF ToSet
<1> QED
  BY <1>2, <1>5, <1>6 DEF Lists, IsInjective, n

LEMMA ListsTaken ==
    ASSUME NEW R \in SUBSET Entry, R = {} \/ \E r \in Entry : R = {r}
    PROVE  Lists(SetToSeq(R), R)
<1> DEFINE Is(f) == f \in [1..Cardinality(R) -> R] /\ IsInjective(f)
<1>1. \E f : Is(f)
  <2>1. CASE R = {}
    <3>1. Cardinality(R) = 0 /\ 1..0 = {}
      BY <2>1, FS_EmptySet
    <3> DEFINE f == [i \in 1..Cardinality(R) |-> i]
    <3>2. Is(f)
      BY <3>1 DEF IsInjective
    <3> QED
      BY <3>2
  <2>2. CASE R # {}
    <3>1. PICK r \in Entry : R = {r}
      BY <2>2
    <3>2. Cardinality(R) = 1 /\ \A i \in 1..1 : i = 1
      BY <3>1, FS_Singleton
    <3> DEFINE f == [i \in 1..Cardinality(R) |-> r]
    <3>3. Is(f)
      BY <3>1, <3>2 DEF IsInjective
    <3> QED
      BY <3>3
  <2> QED
    BY <2>1, <2>2
<1>2. Is(SetToSeq(R))
  <2>1. SetToSeq(R) = CHOOSE f \in [1..Cardinality(R) -> R] : IsInjective(f)
    BY DEF SetToSeq
  <2> QED
    BY <1>1, <2>1
<1>3. Cardinality(R) \in Nat
  BY Finite
<1> DEFINE s == SetToSeq(R)
<1>4. s \in [1..Cardinality(R) -> R] /\ IsInjective(s)
  BY <1>2
<1> HIDE DEF s
<1>5. s \in Seq(Entry)
  <2>1. s \in [1..Cardinality(R) -> Entry]
    BY <1>4
  <2> QED
    BY <1>3, <2>1
<1>6. ToSet(s) \subseteq R
  BY <1>4 DEF ToSet
<1> QED
  BY <1>4, <1>5, <1>6 DEF Lists, s

LEMMA CostOfInt == CostOf(Entry) \in Nat
BY CostOfAdd

(* drain(): whoever comes out has been in, and comes out once. *)
LEMMA DrainedLists ==
    ASSUME NEW q, QueueOK(q)
    PROVE  Lists(Drained(q), Entries(q))
<1> DEFINE n == Cardinality(Entries(q))
           Inv(w) == /\ QueueOK(w.queue) /\ Entries(w.queue) \subseteq Entries(q)
                     /\ Lists(w.out, Entries(q) \ Entries(w.queue))
           all == CostOf(Entry)
<1>1. n \in Nat /\ Entries(q) \subseteq Entry
  BY QueueParts, InBuckets, Finite
<1> DEFINE W == {w \in [queue : Queue, out : Seq(Entry)] : Inv(w)}
<1>2. Full(q) \in W
  <2>1. <<>> \in Seq(Entry) /\ IsInjective(<<>>) /\ ToSet(<<>>) = {}
    BY DEF IsInjective, ToSet
  <2>2. Full(q).queue = q /\ Full(q).out = <<>> /\ Full(q) \in [queue : Queue, out : Seq(Entry)]
    BY <2>1 DEF Full, QueueOK
  <2>3. Lists(<<>>, Entries(q) \ Entries(q))
    BY <2>1 DEF Lists
  <2> QED
    BY <2>2, <2>3
<1>3. ASSUME NEW w \in W PROVE DrainTurn(w) \in W
  <2> DEFINE t == Taken(w.queue, all)
             d == Dequeued(w.queue, all)
  <2>1. /\ QueueOK(d) /\ Entries(d) = Entries(w.queue) \ t
        /\ t \subseteq Entries(w.queue) /\ Entries(w.queue) \subseteq Entry
        /\ t = {} \/ \E r \in Entries(w.queue) : t = {r}
    <3>1. QueueOK(w.queue) /\ all \in Int
      BY CostOfInt
    <3>2. Chosen(w.queue, all) = {} \/ Chosen(w.queue, all) # {}
      OBVIOUS
    <3> HIDE DEF all
    <3> QED
      BY <3>1, <3>2, DequeuedWell
  <2>2. /\ DrainTurn(w).queue = d /\ DrainTurn(w).out = w.out \o SetToSeq(t)
        /\ DrainTurn(w) = [queue |-> d, out |-> w.out \o SetToSeq(t)]
    BY DEF DrainTurn
  <2> HIDE DEF t, d
  <2>3. Lists(SetToSeq(t), t)
    BY <2>1, ListsTaken
  <2>4. Lists(w.out \o SetToSeq(t), (Entries(q) \ Entries(w.queue)) \cup t)
    <3>1. (Entries(q) \ Entries(w.queue)) \cap t = {}
      BY <2>1
    <3> QED
      BY <2>3, <3>1, ListsConcat
  <2>5. (Entries(q) \ Entries(w.queue)) \cup t \subseteq Entries(q) \ Entries(d)
    BY <2>1
  <2>6. Lists(w.out \o SetToSeq(t), Entries(q) \ Entries(d))
    BY <2>4, <2>5 DEF Lists
  <2>7. Inv(DrainTurn(w))
    BY <2>1, <2>2, <2>6
  <2>8. DrainTurn(w) \in [queue : Queue, out : Seq(Entry)]
    BY <2>1, <2>2, <2>6 DEF QueueOK, Lists
  <2> QED
    BY <2>7, <2>8
<1>4. \A w \in W : Lists(w.out, Entries(q))
  BY DEF Lists
<1> HIDE DEF W
<1> DEFINE H == [i \in 0..n |-> W]
<1>5. H[0] = W /\ H[n] = W /\ \A i \in 1..n : H[i] = W /\ H[i - 1] = W
  <2>1. 0 \in 0..n /\ n \in 0..n /\ \A i \in 1..n : i \in 0..n /\ i - 1 \in 0..n
    BY <1>1
  <2> HIDE DEF n
  <2> QED
    BY <2>1
<1> HIDE DEF H, n
<1>6. Drained(q) \in {w.out : w \in H[n]}
  <2>1. Full(q) \in H[0] /\ \A i \in 1..n : \A w \in H[i - 1] : DrainTurn(w) \in H[i]
    BY <1>2, <1>3, <1>5
  <2> QED
    BY <1>1, <2>1, DrainLoop DEF n
<1> QED
  BY <1>4, <1>5, <1>6

(* Everybody waiting is listed once. *)
LEMMA EverybodyLists ==
    ASSUME QueueOK(fairQueue), Sound(lanes), Entries(fairQueue) \cap InLanes = {}
    PROVE  Lists(Everybody, Queued)
<1> DEFINE n == Len(lanes.order)
           lane(i) == lanes.bucket[lanes.order[i]]
           upto(i) == Entries(fairQueue) \cup UNION {ToSet(lane(j)) : j \in 1..i}
           G == [i \in 0..n |-> {s \in Seq(Entry) : Lists(s, upto(i))}]
<1>1. n \in Nat /\ DOMAIN lanes.order = 1..n
  BY InBuckets
<1>2. ASSUME NEW i \in 1..n
      PROVE  Lists(lane(i), ToSet(lane(i))) /\ ToSet(lane(i)) \subseteq InLanes
  <2>1. lanes.order[i] \in TenantKey
    BY <1>1, InBuckets
  <2> QED
    BY <2>1, InBuckets DEF Lists, InLanes
<1>3. ASSUME NEW i \in 1..n, NEW j \in 1..n, i # j PROVE ToSet(lane(i)) \cap ToSet(lane(j)) = {}
  <2>1. lanes.order[i] \in TenantKey /\ lanes.order[j] \in TenantKey /\ lanes.order[i] # lanes.order[j]
    BY <1>1, <1>3, InBuckets
  <2> QED
    BY <2>1, InBuckets
<1>4. Drained(fairQueue) \in G[0]
  <2>1. Lists(Drained(fairQueue), Entries(fairQueue))
    BY DrainedLists
  <2>2. Lists(Drained(fairQueue), upto(0))
    BY <2>1 DEF Lists
  <2>3. 0 \in 0..n /\ Drained(fairQueue) \in Seq(Entry)
    BY <1>1, <2>1 DEF Lists
  <2> HIDE DEF upto
  <2> QED
    BY <2>2, <2>3
<1>5. ASSUME NEW i \in 1..n, NEW s \in G[i - 1] PROVE s \o lane(i) \in G[i]
  <2>1. /\ i - 1 \in 0..n /\ i \in 0..n
        /\ \A j \in 1..i : (j \in 1..(i - 1) \/ j = i) /\ j \in 1..n
        /\ \A j \in 1..(i - 1) : j \in 1..i /\ j # i
    BY <1>1
  <2>2. Lists(s, upto(i - 1))
    BY <2>1
  <2>3. upto(i - 1) \cap ToSet(lane(i)) = {}
    <3>1. \A j \in 1..(i - 1) : ToSet(lane(j)) \cap ToSet(lane(i)) = {}
      <4>1. \A k, j \in 1..n : k # j => ToSet(lane(k)) \cap ToSet(lane(j)) = {}
        BY <1>3
      <4> HIDE DEF lane
      <4> QED
        BY <2>1, <4>1
    <3>2. Entries(fairQueue) \cap ToSet(lane(i)) = {}
      BY <1>2
    <3> HIDE DEF lane
    <3> QED
      BY <3>1, <3>2
  <2>4. upto(i - 1) \cup ToSet(lane(i)) = upto(i)
    <3> HIDE DEF lane
    <3> QED
      BY <2>1
  <2>5. Lists(lane(i), ToSet(lane(i)))
    BY <1>2
  <2> HIDE DEF upto, lane
  <2>6. Lists(s \o lane(i), upto(i - 1) \cup ToSet(lane(i)))
    BY <2>2, <2>3, <2>5, ListsConcat
  <2>7. Lists(s \o lane(i), upto(i))
    BY <2>4, <2>6
  <2>8. s \o lane(i) \in Seq(Entry)
    BY <2>7 DEF Lists
  <2> QED
    BY <2>1, <2>7, <2>8
<1>6. Everybody \in G[n]
  <2> HIDE DEF G, n
  <2>1. n = Len(lanes.order)
    BY DEF n
  <2>2. \A i \in 1..n : \A w \in G[i - 1] : w \o lanes.bucket[lanes.order[i]] \in G[i]
    BY <1>5
  <2> QED
    BY <1>1, <1>4, <2>1, <2>2, EverybodyLoop
<1>7. upto(n) \subseteq Queued
  BY <1>2 DEF Queued
<1>8. n \in 0..n
  BY <1>1
<1> HIDE DEF upto
<1> QED
  BY <1>6, <1>7, <1>8 DEF Lists

-----------------------------------------------------------------------------
(***************************************************************************)
(* Reservations                                                            *)
(***************************************************************************)
(* The requests that have been passed over often enough *)
Overdue(q) == {r \in Entries(q) : q.skips[r] >= MaxSkips}

LEMMA OverdueHeads ==
    ASSUME NEW q, QueueOK(q)
    PROVE  Overdue(q) = {First(q, p) : p \in Reserved(q)}
<1>1. HeadsOnly(q) /\ q.skips \in [Entry -> Nat] /\ Entries(q) \subseteq Entry
  BY QueueParts, InBuckets
<1>2. ASSUME NEW r \in Overdue(q) PROVE r \in {First(q, p) : p \in Reserved(q)}
  <2>1. r \in Entry /\ q.skips[r] > 0 /\ q.skips[r] >= MaxSkips
    BY <1>1 DEF Overdue, MaxSkips
  <2>2. PICK p \in Place(q) : First(q, p) = r
    BY <1>1, <2>1 DEF HeadsOnly
  <2> QED
    BY <2>1, <2>2 DEF Reserved
<1>3. ASSUME NEW p \in Reserved(q) PROVE First(q, p) \in Overdue(q)
  <2>1. p \in Place(q) /\ q.skips[First(q, p)] >= MaxSkips
    BY DEF Reserved
  <2> QED
    BY <2>1, HeadIn DEF Overdue
<1> QED
  BY <1>2, <1>3

(* With a reservation nobody else is taken, and nobody passed over. *)
LEMMA DequeuedReserved ==
    ASSUME NEW q, QueueOK(q), NEW room \in Int, Overdue(q) # {}
    PROVE  /\ Taken(q, room) \subseteq Overdue(q)
           /\ Overdue(Dequeued(q, room)) = Overdue(q) \ Taken(q, room)
<1>1. Reserved(q) # {}
  BY OverdueHeads
<1>2. Chosen(q, room) \subseteq Reserved(q)
  BY <1>1 DEF Chosen
<1>3. Taken(q, room) \subseteq Overdue(q)
  BY <1>2, OverdueHeads DEF Taken
<1>4. CASE Chosen(q, room) = {}
  BY <1>3, <1>4, DequeuedWell
<1>5. CASE Chosen(q, room) # {}
  <2> DEFINE aged == [r \in Entry |-> IF r \in PassedOver(q, room) THEN q.skips[r] + 1 ELSE q.skips[r]]
             c == [q EXCEPT !.skips = aged]
             p == CHOOSE p \in Chosen(q, room) : TRUE
             d == TakenAt(c, p)
  <2>1. q.skips \in [Entry -> Nat]
    BY QueueParts
  <2>2. PassedOver(q, room) = {}
    BY <1>1 DEF PassedOver
  <2>3. aged = q.skips
    BY <2>1, <2>2
  <2>4. Dequeued(q, room) = d
    BY <1>5 DEF Dequeued
  <2>5. p \in Place(q) /\ p \in Chosen(q, room)
    BY <1>5, ChosenOne
  <2>6. Chosen(q, room) = {p}
    BY <2>5, ChosenOne
  <2> HIDE DEF p, aged
  <2>7. Taken(q, room) = {First(q, p)}
    BY <2>6 DEF Taken
  <2>8. /\ QueueOK(c) /\ Entries(c) = Entries(q) /\ p \in Place(c) /\ First(c, p) = First(q, p)
        /\ c.skips = q.skips
    <3>1. \A r \in Entry : q.skips[r] > 0 => q.skips[r] > 0 \/ \E o \in Place(q) : First(q, o) = r
      OBVIOUS
    <3> QED
      BY <2>1, <2>3, <2>5, <3>1, AgedWell
  <2> HIDE DEF c
  <2>9. /\ Entries(d) = Entries(q) \ {First(q, p)}
        /\ d.skips = [q.skips EXCEPT ![First(q, p)] = 0]
    BY <2>8, TakenAtWell
  <2>10. Entries(q) \subseteq Entry
    BY QueueParts, InBuckets
  <2> HIDE DEF d
  <2>11. Overdue(d) = Overdue(q) \ {First(q, p)}
    BY <2>1, <2>9, <2>10 DEF Overdue
  <2> QED
    BY <1>3, <2>4, <2>7, <2>11
<1> QED
  BY <1>4, <1>5

-----------------------------------------------------------------------------
(***************************************************************************)
(* The desk                                                                *)
(***************************************************************************)
Lanes == [order : Seq(TenantKey), bucket : [TenantKey -> Seq(Entry)]]

Desk == [limit : Nat, queue : Queue, lanes : Lanes, active : SUBSET Entry, late : SUBSET Entry]

Waiting(d) == Entries(d.queue) \cup Entries(d.lanes)

(* A desk in order: nobody is in two places. *)
DeskOK(d) ==
    /\ d \in Desk
    /\ QueueOK(d.queue) /\ Sound(d.lanes)
    /\ d.late \subseteq Waiting(d)
    /\ d.active \cap Waiting(d) = {}
    /\ Entries(d.queue) \cap Entries(d.lanes) = {}

(***************************************************************************)
(* What dispatch may make of a desk, and eviction too: those it admits     *)
(* have waited and are not late, and fit; and nobody passes a reservation. *)
(***************************************************************************)
Follows(w, d) ==
    /\ DeskOK(w)
    /\ w.limit = d.limit
    /\ d.active \subseteq w.active
    /\ w.active \subseteq d.active \cup (Waiting(d) \ d.late)
    /\ Entries(w.queue) \subseteq Entries(d.queue) /\ Entries(w.lanes) \subseteq Entries(d.lanes)
    /\ w.late = d.late \cap Waiting(w)
    /\ w.active = d.active \/ CostOf(w.active) <= d.limit
    /\ \A r \in Overdue(d.queue) : r \in Entries(w.queue) =>
          /\ w.active \ d.active \subseteq Overdue(d.queue)
          /\ r \in Overdue(w.queue) /\ Overdue(w.queue) \subseteq Overdue(d.queue)

LEMMA FollowsSelf ==
    ASSUME NEW d, DeskOK(d)
    PROVE  Follows(d, d)
BY DEF Follows, DeskOK

LEMMA FollowsOn ==
    ASSUME NEW d, NEW w, NEW v, Follows(w, d), Follows(v, w)
    PROVE  Follows(v, d)
<1>1. DeskOK(v) /\ v.limit = d.limit /\ d.active \subseteq v.active
  BY DEF Follows
<1>2. Entries(v.queue) \subseteq Entries(d.queue) /\ Entries(v.lanes) \subseteq Entries(d.lanes)
  BY DEF Follows
<1>3. Waiting(v) \subseteq Waiting(w) /\ Waiting(w) \subseteq Waiting(d)
  BY DEF Follows, Waiting
<1>4. v.active \subseteq d.active \cup (Waiting(d) \ d.late)
  BY <1>3 DEF Follows
<1>5. v.late = d.late \cap Waiting(v)
  BY <1>3 DEF Follows
<1>6. v.active = d.active \/ CostOf(v.active) <= d.limit
  BY DEF Follows
<1>7. ASSUME NEW r \in Overdue(d.queue), r \in Entries(v.queue)
      PROVE  /\ v.active \ d.active \subseteq Overdue(d.queue)
             /\ r \in Overdue(v.queue) /\ Overdue(v.queue) \subseteq Overdue(d.queue)
  <2>1. r \in Entries(w.queue)
    BY <1>7 DEF Follows
  <2>2. w.active \ d.active \subseteq Overdue(d.queue) /\ r \in Overdue(w.queue)
        /\ Overdue(w.queue) \subseteq Overdue(d.queue)
    BY <2>1 DEF Follows
  <2>3. v.active \ w.active \subseteq Overdue(w.queue) /\ r \in Overdue(v.queue)
        /\ Overdue(v.queue) \subseteq Overdue(w.queue)
    BY <1>7, <2>2 DEF Follows
  <2> QED
    BY <2>2, <2>3
<1> QED
  BY <1>1, <1>2, <1>4, <1>5, <1>6, <1>7 DEF Follows

(* A record with the fields of a desk *)
IsDesk(d) == d = [limit |-> d.limit, queue |-> d.queue, lanes |-> d.lanes,
                  active |-> d.active, late |-> d.late]

LEMMA ExceptDeskQueue ==
    ASSUME NEW d, IsDesk(d), NEW x
    PROVE  LET c == [d EXCEPT !.queue = x]
           IN  /\ IsDesk(c) /\ c.limit = d.limit /\ c.queue = x /\ c.lanes = d.lanes
               /\ c.active = d.active /\ c.late = d.late
BY DEF IsDesk

LEMMA ExceptDeskLanes ==
    ASSUME NEW d, IsDesk(d), NEW x
    PROVE  LET c == [d EXCEPT !.lanes = x]
           IN  /\ IsDesk(c) /\ c.limit = d.limit /\ c.queue = d.queue /\ c.lanes = x
               /\ c.active = d.active /\ c.late = d.late
BY DEF IsDesk

LEMMA ExceptDeskActive ==
    ASSUME NEW d, IsDesk(d), NEW x
    PROVE  LET c == [d EXCEPT !.active = x]
           IN  /\ IsDesk(c) /\ c.limit = d.limit /\ c.queue = d.queue /\ c.lanes = d.lanes
               /\ c.active = x /\ c.late = d.late
BY DEF IsDesk

LEMMA ExceptDeskLate ==
    ASSUME NEW d, IsDesk(d), NEW x
    PROVE  LET c == [d EXCEPT !.late = x]
           IN  /\ IsDesk(c) /\ c.limit = d.limit /\ c.queue = d.queue /\ c.lanes = d.lanes
               /\ c.active = d.active /\ c.late = x
BY DEF IsDesk

LEMMA ExceptDeskLimit ==
    ASSUME NEW d, IsDesk(d), NEW x
    PROVE  LET c == [d EXCEPT !.limit = x]
           IN  /\ IsDesk(c) /\ c.limit = x /\ c.queue = d.queue /\ c.lanes = d.lanes
               /\ c.active = d.active /\ c.late = d.late
BY DEF IsDesk

LEMMA DeskParts ==
    ASSUME NEW d, DeskOK(d)
    PROVE  /\ IsDesk(d) /\ d.limit \in Nat /\ d.lanes \in Lanes
           /\ d.active \in SUBSET Entry /\ d.late \in SUBSET Entry
           /\ CostOf(d.active) \in Nat /\ Room(d) \in Int /\ Room(d) = d.limit - CostOf(d.active)
           /\ Waiting(d) \subseteq Entry
<1>1. d.limit \in Nat /\ d.lanes \in Lanes /\ d.active \in SUBSET Entry /\ d.late \in SUBSET Entry /\ IsDesk(d)
  BY DEF DeskOK, Desk, IsDesk
<1>2. CostOf(d.active) \in Nat
  BY <1>1, CostOfAdd
<1>3. Room(d) \in Int /\ Room(d) = d.limit - CostOf(d.active)
  BY <1>1, <1>2 DEF Room
<1>4. Waiting(d) \subseteq Entry
  BY QueueParts, InBuckets DEF DeskOK, Waiting
<1> QED
  BY <1>1, <1>2, <1>3, <1>4

LEMMA DeskFromParts ==
    ASSUME NEW d, IsDesk(d), d.limit \in Nat, QueueOK(d.queue), d.lanes \in Lanes, Sound(d.lanes),
           d.active \in SUBSET Entry, d.late \subseteq Waiting(d), d.active \cap Waiting(d) = {},
           Entries(d.queue) \cap Entries(d.lanes) = {}
    PROVE  DeskOK(d)
<1>1. Waiting(d) \subseteq Entry /\ d.queue \in Queue
  BY QueueParts, InBuckets DEF Waiting, QueueOK
<1>2. d \in Desk
  BY <1>1 DEF Desk, IsDesk
<1> QED
  BY <1>2 DEF DeskOK

LEMMA LetInIs ==
    ASSUME NEW d, IsDesk(d), NEW R
    PROVE  LET c == LetIn(d, R)
           IN  /\ IsDesk(c) /\ c.limit = d.limit /\ c.queue = d.queue /\ c.lanes = d.lanes
               /\ c.active = d.active \cup (R \ d.late) /\ c.late = d.late \ R
<1> DEFINE a == d.active \cup (R \ d.late)
           l == d.late \ R
           e == [d EXCEPT !.active = a]
           f == [e EXCEPT !.late = l]
<1>1. LetIn(d, R) = [d EXCEPT !.active = a, !.late = l]
  BY DEF LetIn
<1> HIDE DEF a, l
<1>2. LetIn(d, R) = f
  BY <1>1
<1>3. IsDesk(e) /\ e.limit = d.limit /\ e.queue = d.queue /\ e.lanes = d.lanes /\ e.active = a
  BY ExceptDeskActive
<1> HIDE DEF e
<1>4. IsDesk(f) /\ f.limit = d.limit /\ f.queue = d.queue /\ f.lanes = d.lanes /\ f.active = a /\ f.late = l
  BY <1>3, ExceptDeskLate
<1> QED
  BY <1>2, <1>4 DEF a, l

(* One turn of dispatch() *)
LEMMA SharedTurnFollows ==
    ASSUME NEW d, DeskOK(d)
    PROVE  Follows(SharedTurn(d), d)
<1> DEFINE R == Taken(d.queue, Room(d))
           q == Dequeued(d.queue, Room(d))
           e == LetIn(d, R)
           w == SharedTurn(d)
<1>1. /\ QueueOK(d.queue) /\ Sound(d.lanes) /\ d.late \subseteq Waiting(d)
      /\ d.active \cap Waiting(d) = {} /\ Entries(d.queue) \cap Entries(d.lanes) = {}
  BY DEF DeskOK
<1>2. /\ IsDesk(d) /\ d.limit \in Nat /\ d.lanes \in Lanes
      /\ d.active \in SUBSET Entry /\ CostOf(d.active) \in Nat
      /\ Room(d) \in Int /\ Room(d) = d.limit - CostOf(d.active)
  BY DeskParts
<1>3. /\ QueueOK(q) /\ Entries(q) = Entries(d.queue) \ R
      /\ R \subseteq Entries(d.queue) /\ Entries(d.queue) \subseteq Entry
      /\ R = {} \/ \E r \in Entries(d.queue) : R = {r} /\ Cost[r] <= Room(d)
  <2>1. Chosen(d.queue, Room(d)) = {} \/ Chosen(d.queue, Room(d)) # {}
    OBVIOUS
  <2> QED
    BY <1>1, <1>2, <2>1, DequeuedWell
<1>4. Overdue(d.queue) # {} => R \subseteq Overdue(d.queue) /\ Overdue(q) = Overdue(d.queue) \ R
  BY <1>1, <1>2, DequeuedReserved
<1>5. w = [e EXCEPT !.queue = q]
  BY DEF SharedTurn
<1> HIDE DEF R, q
<1>6. /\ IsDesk(w) /\ w.limit = d.limit /\ w.queue = q /\ w.lanes = d.lanes
      /\ w.active = d.active \cup (R \ d.late) /\ w.late = d.late \ R
  <2>1. /\ IsDesk(e) /\ e.limit = d.limit /\ e.queue = d.queue /\ e.lanes = d.lanes
        /\ e.active = d.active \cup (R \ d.late) /\ e.late = d.late \ R
    BY <1>2, LetInIs
  <2> HIDE DEF e, w
  <2> QED
    BY <1>5, <2>1, ExceptDeskQueue
<1> HIDE DEF w
<1>7. Waiting(w) = Waiting(d) \ R
  BY <1>1, <1>3, <1>6 DEF Waiting
<1>8. DeskOK(w)
  <2>1. w.limit \in Nat /\ QueueOK(w.queue) /\ w.lanes \in Lanes /\ Sound(w.lanes)
    BY <1>1, <1>2, <1>3, <1>6
  <2>2. w.active \in SUBSET Entry
    BY <1>2, <1>3, <1>6
  <2>3. w.late \subseteq Waiting(w) /\ w.active \cap Waiting(w) = {}
    BY <1>1, <1>6, <1>7
  <2>4. Entries(w.queue) \cap Entries(w.lanes) = {}
    BY <1>1, <1>3, <1>6
  <2> QED
    BY <1>6, <2>1, <2>2, <2>3, <2>4, DeskFromParts
<1>9. w.active = d.active \/ CostOf(w.active) <= d.limit
  <2>1. CASE R \ d.late = {}
    BY <1>6, <2>1
  <2>2. CASE R \ d.late # {}
    <3>1. PICK r \in Entries(d.queue) : R = {r} /\ Cost[r] <= Room(d)
      BY <1>3, <2>2
    <3>2. w.active = d.active \cup {r} /\ r \in Entry \ d.active
      BY <1>1, <1>3, <1>6, <2>2, <3>1 DEF Waiting
    <3>3. CostOf(w.active) = CostOf(d.active) + Cost[r] /\ Cost[r] \in Nat
      BY <1>2, <3>2, CostOfAdd, CostAssumption
    <3> QED
      BY <1>2, <3>1, <3>3
  <2> QED
    BY <2>1, <2>2
<1>10. \A r \in Overdue(d.queue) : r \in Entries(w.queue) =>
          /\ w.active \ d.active \subseteq Overdue(d.queue)
          /\ r \in Overdue(w.queue) /\ Overdue(w.queue) \subseteq Overdue(d.queue)
  BY <1>3, <1>4, <1>6
<1>11. w.active \subseteq d.active \cup (Waiting(d) \ d.late) /\ d.active \subseteq w.active
  BY <1>3, <1>6 DEF Waiting
<1>12. w.late = d.late \cap Waiting(w)
  BY <1>1, <1>6, <1>7
<1>13. Entries(w.queue) \subseteq Entries(d.queue) /\ Entries(w.lanes) \subseteq Entries(d.lanes)
  BY <1>3, <1>6
<1> QED
  BY <1>6, <1>8, <1>9, <1>10, <1>11, <1>12, <1>13 DEF Follows, w

-----------------------------------------------------------------------------
(* One turn serves somebody, or there is nobody left to serve. *)
LEMMA SharedTurnProgress ==
    ASSUME NEW d, DeskOK(d)
    PROVE  LET w == SharedTurn(d)
           IN  /\ w.lanes = d.lanes
               /\ Chosen(d.queue, Room(d)) = {} => Chosen(w.queue, Room(w)) = {}
               /\ Chosen(d.queue, Room(d)) # {} =>
                    Cardinality(Entries(w.queue)) = Cardinality(Entries(d.queue)) - 1
<1> DEFINE R == Taken(d.queue, Room(d))
           q == Dequeued(d.queue, Room(d))
           e == LetIn(d, R)
           w == SharedTurn(d)
<1>1. IsDesk(d) /\ Room(d) \in Int /\ QueueOK(d.queue) /\ Entries(d.queue) \subseteq Entry
  BY DeskParts, QueueParts, InBuckets DEF DeskOK
<1>2. /\ w.limit = d.limit /\ w.queue = q /\ w.lanes = d.lanes
      /\ w.active = d.active \cup (R \ d.late)
  <2>1. w = [e EXCEPT !.queue = q]
    BY DEF SharedTurn
  <2> HIDE DEF R, q
  <2>2. /\ IsDesk(e) /\ e.limit = d.limit /\ e.queue = d.queue /\ e.lanes = d.lanes
        /\ e.active = d.active \cup (R \ d.late) /\ e.late = d.late \ R
    BY <1>1, LetInIs
  <2> HIDE DEF e, w
  <2> QED
    BY <2>1, <2>2, ExceptDeskQueue
<1> HIDE DEF w
<1>3. CASE Chosen(d.queue, Room(d)) = {}
  <2>1. q = d.queue /\ R = {}
    BY <1>1, <1>3, DequeuedWell
  <2>2. Room(w) = Room(d)
    BY <1>2, <2>1 DEF Room
  <2> QED
    BY <1>2, <1>3, <2>1, <2>2 DEF w
<1>4. CASE Chosen(d.queue, Room(d)) # {}
  <2>1. PICK r \in Entries(d.queue) : R = {r} /\ Entries(q) = Entries(d.queue) \ {r}
    BY <1>1, <1>4, DequeuedWell
  <2>2. Cardinality(Entries(d.queue) \ {r}) = Cardinality(Entries(d.queue)) - 1
    BY <1>1, Finite
  <2> QED
    BY <1>2, <1>4, <2>1, <2>2 DEF w
<1> QED
  BY <1>3, <1>4

(***************************************************************************)
(* The loop of dispatch() ends with nobody left to serve: it has a turn    *)
(* for each entry, and each turn serves somebody or nobody can be served.  *)
(***************************************************************************)
LEMMA SharedServedFollows ==
    ASSUME NEW d, DeskOK(d)
    PROVE  /\ Follows(SharedServed(d), d)
           /\ SharedServed(d).lanes = d.lanes
           /\ Chosen(SharedServed(d).queue, Room(SharedServed(d))) = {}
<1> DEFINE n == Cardinality(Entries(d.queue))
           Left(w, k) == \/ Chosen(w.queue, Room(w)) = {}
                         \/ Cardinality(Entries(w.queue)) <= k
           S(k) == {w \in Desk : Follows(w, d) /\ w.lanes = d.lanes /\ Left(w, k)}
           G == [i \in 0..n |-> S(n - i)]
<1>1. Entries(d.queue) \subseteq Entry /\ n \in Nat
  <2>1. Entries(d.queue) \subseteq Entry
    BY QueueParts, InBuckets DEF DeskOK
  <2> QED
    BY <2>1, Finite
<1>2. d \in S(n)
  BY <1>1, FollowsSelf DEF DeskOK
<1>3. ASSUME NEW k \in Nat, NEW w \in S(k + 1) PROVE SharedTurn(w) \in S(k)
  <2> DEFINE v == SharedTurn(w)
  <2>1. DeskOK(w)
    BY DEF Follows
  <2>2. Follows(v, w)
    BY <2>1, SharedTurnFollows
  <2>3. Follows(v, d) /\ v \in Desk
    BY <2>2, FollowsOn DEF Follows, DeskOK
  <2>4. v.lanes = d.lanes
    BY <2>1, SharedTurnProgress
  <2>5. Left(v, k)
    <3>1. CASE Chosen(w.queue, Room(w)) = {}
      BY <2>1, <3>1, SharedTurnProgress
    <3>2. CASE Chosen(w.queue, Room(w)) # {}
      <4>1. Cardinality(Entries(w.queue)) <= k + 1
        BY <3>2
      <4>2. Cardinality(Entries(v.queue)) = Cardinality(Entries(w.queue)) - 1
        BY <2>1, <3>2, SharedTurnProgress
      <4>3. Entries(w.queue) \subseteq Entry
        BY <2>1, QueueParts, InBuckets DEF DeskOK
      <4>4. Cardinality(Entries(w.queue)) \in Nat
        BY <4>3, Finite
      <4>5. Cardinality(Entries(v.queue)) <= k
        BY <4>1, <4>2, <4>4
      <4> QED
        BY <4>5
    <3> QED
      BY <3>1, <3>2
  <2> HIDE DEF v, Left
  <2>6. v \in S(k)
    BY <2>3, <2>4, <2>5
  <2> QED
    BY <2>6 DEF v
<1>4. ASSUME NEW w \in S(0) PROVE Chosen(w.queue, Room(w)) = {}
  <2>1. CASE Chosen(w.queue, Room(w)) = {}
    BY <2>1
  <2>2. CASE Cardinality(Entries(w.queue)) <= 0
    <3>1. QueueOK(w.queue)
      BY DEF Follows, DeskOK
    <3>2. Entries(w.queue) \subseteq Entry
      BY <3>1, QueueParts, InBuckets
    <3>3. Cardinality(Entries(w.queue)) \in Nat
      BY <3>2, Finite
    <3>4. Cardinality(Entries(w.queue)) = 0
      BY <2>2, <3>3
    <3>5. Entries(w.queue) = {}
      BY <3>2, <3>4, Finite
    <3> QED
      BY <3>1, <3>5, EmptyChoice
  <2> QED
    BY <2>1, <2>2
<1>5. \A k : \A w \in S(k) : Follows(w, d) /\ w.lanes = d.lanes
  OBVIOUS
<1> HIDE DEF S
<1>6. G[0] = S(n) /\ G[n] = S(0)
  <2>1. 0 \in 0..n /\ n \in 0..n /\ n - 0 = n /\ n - n = 0
    BY <1>1
  <2> HIDE DEF n
  <2> QED
    BY <2>1
<1>7. ASSUME NEW i \in 1..n PROVE G[i] = S(n - i) /\ G[i - 1] = S((n - i) + 1) /\ n - i \in Nat
  <2>1. i \in 0..n /\ i - 1 \in 0..n /\ n - (i - 1) = (n - i) + 1 /\ n - i \in Nat
    BY <1>1
  <2> HIDE DEF n
  <2> QED
    BY <2>1
<1> HIDE DEF G
<1>8. \A i \in 1..n : \A w \in G[i - 1] : SharedTurn(w) \in G[i]
  BY <1>3, <1>7
<1>9. SharedServed(d) \in G[n]
  <2>1. d \in G[0] /\ n = Cardinality(Entries(d.queue))
    BY <1>2, <1>6
  <2> HIDE DEF n
  <2> QED
    BY <1>1, <1>8, <2>1, SharedLoop
<1> HIDE DEF n
<1> QED
  BY <1>4, <1>5, <1>6, <1>9

-----------------------------------------------------------------------------
(***************************************************************************)
(* Lanes                                                                   *)
(***************************************************************************)
(* What remains of a lane, and of the line of the lanes *)
LEMMA ClosedLane ==
    ASSUME NEW b \in Lanes, Sound(b), NEW t \in TenantKey, b.bucket[t] # <<>>,
           NEW rest \in Seq(Entry), Thins(rest, b.bucket[t])
    PROVE  LET c == Closed([b EXCEPT !.bucket[t] = rest], t)
           IN  /\ c \in Lanes /\ Sound(c)
               /\ c.bucket = [b.bucket EXCEPT ![t] = rest]
               /\ Entries(c) = (Entries(b) \ ToSet(b.bucket[t])) \cup ToSet(rest)
<1> DEFINE e == [b EXCEPT !.bucket[t] = rest]
           order == IF rest = <<>> THEN Spliced(b.order, t) ELSE b.order
           c == Closed(e, t)
<1>1. /\ b.order \in Seq(TenantKey) /\ b.bucket \in [TenantKey -> Seq(Entry)]
      /\ IsInjective(b.order) /\ t \in ToSet(b.order)
  BY DEF Sound, Orderly
<1>2. e.order = b.order /\ e.bucket = [b.bucket EXCEPT ![t] = rest]
      /\ e.bucket \in [TenantKey -> Seq(Entry)] /\ e.bucket[t] = rest /\ e \in Lanes
  BY <1>1 DEF Lanes
<1> HIDE DEF e
<1>3. c = [e EXCEPT !.order = order]
  BY <1>2 DEF Closed
<1>4. /\ order \in Seq(TenantKey) /\ IsInjective(order)
      /\ ToSet(order) = IF rest = <<>> THEN ToSet(b.order) \ {t} ELSE ToSet(b.order)
  <2>1. CASE rest = <<>>
    <3> DEFINE p == Position(b.order, t)
    <3>1. p \in DOMAIN b.order /\ b.order[p] = t
      BY <1>1, PositionOf
    <3>2. order = RemoveAt(b.order, p)
      BY <2>1 DEF Spliced
    <3> HIDE DEF p, order
    <3> QED
      BY <2>1, <3>1, <3>2, ShortenedLine
  <2>2. CASE rest # <<>>
    BY <1>1, <2>2
  <2> QED
    BY <2>1, <2>2
<1> HIDE DEF order
<1>5. c.order = order /\ c.bucket = [b.bucket EXCEPT ![t] = rest] /\ c \in Lanes
  BY <1>2, <1>3, <1>4 DEF Lanes
<1> HIDE DEF c
<1>6. ThinnedTo(b, t, rest, c)
  BY <1>4, <1>5 DEF ThinnedTo
<1>7. Sound(c) /\ Entries(c) = (Entries(b) \ ToSet(b.bucket[t])) \cup ToSet(rest)
  BY <1>6, ThinnedSound
<1> QED
  BY <1>5, <1>7 DEF c, e

(* deleteLane() *)
LEMMA LaneDeletedFollows ==
    ASSUME NEW d, DeskOK(d), NEW t \in TenantKey, d.lanes.bucket[t] # <<>>
    PROVE  LET w == LaneDeleted(d, t)
           IN  /\ Follows(w, d) /\ w.queue = d.queue /\ w.active = d.active
               /\ w.lanes.bucket = [d.lanes.bucket EXCEPT ![t] = <<>>]
               /\ Entries(w.lanes) = Entries(d.lanes) \ ToSet(d.lanes.bucket[t])
               /\ Len(w.lanes.order) = Len(d.lanes.order) - 1
<1> DEFINE b == d.lanes
           order == Spliced(b.order, t)
           bucket == [b.bucket EXCEPT ![t] = <<>>]
           c == [order |-> order, bucket |-> bucket]
           still == d.late \ ToSet(b.bucket[t])
           w == LaneDeleted(d, t)
<1>1. /\ QueueOK(d.queue) /\ Sound(d.lanes) /\ d.late \subseteq Waiting(d)
      /\ d.active \cap Waiting(d) = {} /\ Entries(d.queue) \cap Entries(d.lanes) = {}
  BY DEF DeskOK
<1>2. IsDesk(d) /\ d.limit \in Nat /\ d.lanes \in Lanes /\ d.active \in SUBSET Entry
  BY DeskParts
<1>3. /\ b.order \in Seq(TenantKey) /\ b.bucket \in [TenantKey -> Seq(Entry)]
      /\ IsInjective(b.order) /\ t \in ToSet(b.order)
  BY <1>1 DEF Sound, Orderly
<1>4. <<>> \in Seq(Entry) /\ Thins(<<>>, b.bucket[t]) /\ ToSet(<<>>) = {}
  BY <1>3, ThinEmpty DEF ToSet
<1>5. /\ order \in Seq(TenantKey) /\ IsInjective(order) /\ ToSet(order) = ToSet(b.order) \ {t}
      /\ Len(order) = Len(b.order) - 1
  <2> DEFINE p == Position(b.order, t)
  <2>1. p \in DOMAIN b.order /\ b.order[p] = t
    BY <1>3, PositionOf
  <2>2. order = RemoveAt(b.order, p)
    BY DEF Spliced
  <2> HIDE DEF p, order
  <2> QED
    BY <1>1, <2>1, <2>2, ShortenedLine
<1> HIDE DEF order
<1>6. c \in Lanes /\ c.order = order /\ c.bucket = bucket
  BY <1>3, <1>4, <1>5 DEF Lanes
<1>7. Sound(c) /\ Entries(c) = Entries(b) \ ToSet(b.bucket[t])
  <2> HIDE DEF c
  <2>1. ThinnedTo(b, t, <<>>, c)
    BY <1>1, <1>4, <1>5, <1>6 DEF ThinnedTo
  <2> HIDE DEF b
  <2> QED
    BY <1>4, <2>1, ThinnedSound
<1>8. /\ IsDesk(w) /\ w.limit = d.limit /\ w.queue = d.queue /\ w.lanes = c
      /\ w.active = d.active /\ w.late = still
  <2> DEFINE e == [d EXCEPT !.lanes = c]
             f == [e EXCEPT !.late = still]
  <2>1. [b EXCEPT !.order = order, !.bucket = bucket] = c
    <3> DEFINE g == [b EXCEPT !.order = order]
    <3>1. b \in Lanes
      BY <1>2
    <3> HIDE DEF b, order, bucket
    <3>2. g = [order |-> order, bucket |-> b.bucket]
      BY <3>1 DEF Lanes
    <3>3. [b EXCEPT !.order = order, !.bucket = bucket] = [g EXCEPT !.bucket = bucket]
      OBVIOUS
    <3> HIDE DEF g
    <3>4. [g EXCEPT !.bucket = bucket] = [order |-> order, bucket |-> bucket]
      BY <3>2
    <3> QED
      BY <3>3, <3>4
  <2>2. w = [d EXCEPT !.lanes = [@ EXCEPT !.order = order, !.bucket = bucket], !.late = still]
    BY DEF LaneDeleted, order
  <2> HIDE DEF c, still
  <2>3. w = f
    BY <2>1, <2>2
  <2>4. /\ IsDesk(e) /\ e.limit = d.limit /\ e.queue = d.queue /\ e.lanes = c
        /\ e.active = d.active
    BY <1>2, ExceptDeskLanes
  <2> HIDE DEF e
  <2>5. /\ IsDesk(f) /\ f.limit = d.limit /\ f.queue = d.queue /\ f.lanes = c
        /\ f.active = d.active /\ f.late = still
    BY <2>4, ExceptDeskLate
  <2> HIDE DEF f
  <2> QED
    BY <2>3, <2>5
<1> HIDE DEF w, c
<1>9. DeskOK(w)
  <2>1. Waiting(w) \subseteq Waiting(d)
    BY <1>7, <1>8 DEF Waiting
  <2>2. w.late \subseteq Waiting(w)
    BY <1>1, <1>7, <1>8 DEF Waiting
  <2>3. Entries(w.queue) \cap Entries(w.lanes) = {} /\ w.active \cap Waiting(w) = {}
    BY <1>1, <1>7, <1>8, <2>1
  <2>4. w.limit \in Nat /\ QueueOK(w.queue) /\ w.lanes \in Lanes /\ Sound(w.lanes) /\ w.active \in SUBSET Entry
    BY <1>1, <1>2, <1>6, <1>7, <1>8
  <2> QED
    BY <1>8, <2>2, <2>3, <2>4, DeskFromParts
<1>10. w.late = d.late \cap Waiting(w)
  <2>1. ToSet(b.bucket[t]) \subseteq Entries(b)
    BY <1>1, InBuckets
  <2> QED
    BY <1>1, <1>7, <1>8, <2>1 DEF Waiting
<1>11. Follows(w, d)
  BY <1>7, <1>8, <1>9, <1>10 DEF Follows
<1> QED
  BY <1>5, <1>6, <1>7, <1>8, <1>11 DEF w

-----------------------------------------------------------------------------
LEMMA MaxIn ==
    ASSUME NEW n \in Nat, NEW S \in SUBSET (0..n), S # {}
    PROVE  Max(S) \in S
<1> DEFINE Has(T) == \E x \in T : \A y \in T : x >= y
           P == {i \in 0..n : \A T \in SUBSET (0..i) : T # {} => Has(T)}
<1>1. 0 \in P
  <2>1. 0 \in 0..n
    OBVIOUS
  <2>2. ASSUME NEW T \in SUBSET (0..0), T # {} PROVE Has(T)
    <3>1. \A y \in T : y = 0
      OBVIOUS
    <3>2. PICK x \in T : TRUE
      BY <2>2
    <3>3. \A y \in T : x >= y
      BY <3>1
    <3> QED
      BY <3>3
  <2> QED
    BY <2>1, <2>2
<1>2. ASSUME NEW i \in 1..n, i - 1 \in P PROVE i \in P
  <2>1. ASSUME NEW T \in SUBSET (0..i), T # {} PROVE Has(T)
    <3>1. CASE i \in T
      <4>1. \A y \in T : i >= y
        OBVIOUS
      <4> QED
        BY <3>1, <4>1
    <3>2. CASE i \notin T
      <4>1. T \in SUBSET (0..(i - 1))
        BY <3>2
      <4> QED
        BY <1>2, <2>1, <4>1
    <3> QED
      BY <3>1, <3>2
  <2>2. i \in 0..n
    OBVIOUS
  <2> HIDE DEF Has
  <2> QED
    BY <2>1, <2>2
<1>3. n \in P
  <2> HIDE DEF P
  <2> QED
    BY <1>1, <1>2, IntervalSet
<1>4. Has(S)
  BY <1>3
<1> QED
  BY <1>4 DEF Max

(* One turn of dispatchLanes() *)
LEMMA LaneServedFollows ==
    ASSUME NEW d, DeskOK(d), Entries(d.queue) = {},
           NEW t \in TenantKey, d.lanes.bucket[t] # <<>>
    PROVE  LET w == LaneServed(d, t)
           IN  /\ Follows(w, d) /\ w.queue = d.queue
               /\ \A u \in TenantKey : u # t => w.lanes.bucket[u] = d.lanes.bucket[u]
<1> DEFINE b == d.lanes
           s == b.bucket[t]
           out == {n \in DOMAIN s : /\ \A j \in 1..n : Cost[s[j]] <= Room(d)
                                    /\ \A j \in 1..(n - 1) : s[j] \in d.late}
           k == Max({0} \cup out)
           R == {s[j] : j \in 1..k}
           rest == SubSeq(s, k + 1, Len(s))
           c == Closed([b EXCEPT !.bucket[t] = rest], t)
           e == LetIn(d, R)
           w == LaneServed(d, t)
<1>1. /\ QueueOK(d.queue) /\ Sound(b) /\ d.late \subseteq Waiting(d)
      /\ d.active \cap Waiting(d) = {} /\ Entries(d.queue) \cap Entries(b) = {}
  BY DEF DeskOK
<1>2. /\ IsDesk(d) /\ d.limit \in Nat /\ b \in Lanes
      /\ d.active \in SUBSET Entry /\ CostOf(d.active) \in Nat
      /\ Room(d) \in Int /\ Room(d) = d.limit - CostOf(d.active)
  BY DeskParts
<1>3. /\ s \in Seq(Entry) /\ IsInjective(s) /\ DOMAIN s = 1..Len(s) /\ Len(s) \in Nat
      /\ ToSet(s) \subseteq Entries(b) /\ Entries(b) \subseteq Entry
  BY <1>1, InBuckets, LenProperties
<1> HIDE DEF s
<1>4. k \in 0..Len(s) /\ (k # 0 => k \in out)
  <2>1. {0} \cup out \in SUBSET (0..Len(s)) /\ {0} \cup out # {}
    BY <1>3
  <2>2. k \in {0} \cup out
    <3> HIDE DEF out
    <3> QED
      BY <1>3, <2>1, MaxIn
  <2> HIDE DEF k, out
  <2> QED
    BY <2>1, <2>2
<1>5. \A j \in 1..k : Cost[s[j]] <= Room(d)
  <2>1. CASE k = 0
    <3> HIDE DEF k
    <3> QED
      BY <2>1
  <2>2. CASE k # 0
    <3>1. k \in out
      BY <1>4, <2>2
    <3> HIDE DEF k
    <3> QED
      BY <3>1
  <2> QED
    BY <2>1, <2>2
<1>6. \A j \in 1..k : j # k => s[j] \in d.late
  <2>1. ASSUME NEW j \in 1..k, j # k PROVE s[j] \in d.late
    <3>1. k # 0 /\ j \in 1..(k - 1)
      <4> HIDE DEF k
      <4> QED
        BY <1>4, <2>1
    <3>2. k \in out
      BY <1>4, <3>1
    <3> HIDE DEF k
    <3> QED
      BY <3>1, <3>2
  <2> QED
    BY <2>1
<1> HIDE DEF k
<1>7. /\ rest \in Seq(Entry) /\ Thins(rest, s)
      /\ Len(rest) = Len(s) - k /\ \A i \in 1..Len(rest) : rest[i] = s[i + k]
      /\ ToSet(s) = R \cup ToSet(rest)
  BY <1>3, <1>4, ThinSuffix
<1>8. R \cap ToSet(rest) = {}
  <2>1. DOMAIN rest = 1..Len(rest)
    BY <1>7, LenProperties
  <2>2. ASSUME NEW j \in 1..k, NEW i \in 1..Len(rest) PROVE s[j] # rest[i]
    <3> HIDE DEF rest
    <3>0. rest[i] = s[i + k]
      BY <1>7
    <3>2. k \in Nat /\ k <= Len(s) /\ Len(s) \in Nat /\ i \in Nat /\ 1 <= i /\ i <= Len(s) - k
      BY <1>3, <1>4, <1>7
    <3>3. i + k \in 1..Len(s) /\ j \in 1..Len(s) /\ i + k # j
      BY <3>2
    <3>1. rest[i] = s[i + k] /\ i + k \in DOMAIN s /\ j \in DOMAIN s /\ i + k # j
      BY <1>3, <3>0, <3>3
    <3> QED
      BY <1>3, <3>1 DEF IsInjective
  <2> QED
    BY <2>1, <2>2 DEF ToSet
<1>9. w = [e EXCEPT !.lanes = c]
  <2>1. LaneServed(d, t) = [e EXCEPT !.lanes = Closed([@ EXCEPT !.bucket[t] = rest], t)]
    BY DEF LaneServed, k, s
  <2>2. e.lanes = d.lanes
    <3> HIDE DEF R
    <3> QED
      BY <1>2, LetInIs
  <2> HIDE DEF e, rest
  <2> QED
    BY <2>1, <2>2
<1>10. /\ c \in Lanes /\ Sound(c)
       /\ c.bucket = [b.bucket EXCEPT ![t] = rest]
       /\ Entries(c) = (Entries(b) \ ToSet(s)) \cup ToSet(rest)
  <2>1. b.bucket[t] # <<>> /\ Thins(rest, b.bucket[t])
    BY <1>7 DEF s
  <2>2. b \in Lanes /\ Sound(b) /\ rest \in Seq(Entry)
    BY <1>1, <1>2, <1>7
  <2> HIDE DEF rest, b
  <2> QED
    BY <2>1, <2>2, ClosedLane DEF s
<1>11. /\ IsDesk(w) /\ w.limit = d.limit /\ w.queue = d.queue /\ w.lanes = c
       /\ w.active = d.active \cup (R \ d.late) /\ w.late = d.late \ R
  <2>1. /\ IsDesk(e) /\ e.limit = d.limit /\ e.queue = d.queue
        /\ e.active = d.active \cup (R \ d.late) /\ e.late = d.late \ R
    <3> HIDE DEF R
    <3> QED
      BY <1>2, LetInIs
  <2> HIDE DEF e, c, w, R
  <2> QED
    BY <1>9, <2>1, ExceptDeskLanes
<1> HIDE DEF w, c, rest
<1>12. R \subseteq Entries(b) /\ Entries(c) = Entries(b) \ R
  <2> HIDE DEF R, b
  <2> QED
    BY <1>3, <1>7, <1>8, <1>10
<1>13. R \ d.late = {} \/ \E r \in Entry : R \ d.late = {r} /\ Cost[r] <= Room(d)
  <2>1. ASSUME R \ d.late # {} PROVE \E r \in Entry : R \ d.late = {r} /\ Cost[r] <= Room(d)
    <3>1. PICK r \in R \ d.late : TRUE
      BY <2>1
    <3>2. \A x \in R \ d.late : x = s[k] /\ k \in 1..k
      BY <1>6
    <3>3. R \ d.late = {s[k]} /\ k \in 1..k /\ s[k] \in R
      BY <3>1, <3>2
    <3>4. Cost[s[k]] <= Room(d) /\ s[k] \in Entry
      BY <1>3, <1>5, <1>12, <3>3
    <3> QED
      BY <3>3, <3>4
  <2> QED
    BY <2>1
<1> HIDE DEF R, b
<1>14. Waiting(w) = Waiting(d) \ R
  <2>1. Entries(d.queue) \cap R = {}
    BY <1>1, <1>12
  <2> QED
    BY <1>11, <1>12, <2>1 DEF Waiting, b
<1>15. DeskOK(w)
  <2>1. w.limit \in Nat /\ QueueOK(w.queue) /\ w.lanes \in Lanes /\ Sound(w.lanes)
    BY <1>1, <1>2, <1>10, <1>11
  <2>2. w.active \in SUBSET Entry
    BY <1>2, <1>3, <1>11, <1>12
  <2>3. w.late \subseteq Waiting(w) /\ w.active \cap Waiting(w) = {}
    BY <1>1, <1>11, <1>14
  <2>4. Entries(w.queue) \cap Entries(w.lanes) = {}
    BY <1>1, <1>11, <1>12
  <2> QED
    BY <1>11, <2>1, <2>2, <2>3, <2>4, DeskFromParts
<1>16. w.active = d.active \/ CostOf(w.active) <= d.limit
  <2>1. CASE R \ d.late = {}
    BY <1>11, <2>1
  <2>2. CASE R \ d.late # {}
    <3>1. PICK r \in Entry : R \ d.late = {r} /\ Cost[r] <= Room(d)
      BY <1>13, <2>2
    <3>2. r \in Entry \ d.active
      BY <1>1, <1>12, <3>1 DEF Waiting, b
    <3>3. CostOf(w.active) = CostOf(d.active) + Cost[r] /\ Cost[r] \in Nat
      BY <1>2, <1>11, <3>1, <3>2, CostOfAdd, CostAssumption
    <3> QED
      BY <1>2, <3>1, <3>3
  <2> QED
    BY <2>1, <2>2
<1>17. Overdue(d.queue) = {}
  BY DEF Overdue
<1>18. w.active \subseteq d.active \cup (Waiting(d) \ d.late) /\ d.active \subseteq w.active
  BY <1>11, <1>12 DEF Waiting, b
<1>19. w.late = d.late \cap Waiting(w)
  BY <1>1, <1>11, <1>14
<1>20. Entries(w.queue) \subseteq Entries(d.queue) /\ Entries(w.lanes) \subseteq Entries(d.lanes)
  BY <1>11, <1>12 DEF b
<1>21. Follows(w, d)
  BY <1>11, <1>15, <1>16, <1>17, <1>18, <1>19, <1>20 DEF Follows
<1>22. \A u \in TenantKey : u # t => w.lanes.bucket[u] = d.lanes.bucket[u]
  BY <1>2, <1>10, <1>11 DEF Lanes, b
<1> QED
  BY <1>11, <1>21, <1>22 DEF w

(* dispatchLanes() *)
LEMMA LanesServedFollows ==
    ASSUME NEW d, DeskOK(d), Entries(d.queue) = {}
    PROVE  Follows(LanesServed(d), d) /\ LanesServed(d).queue = d.queue
<1> DEFINE n == Len(d.lanes.order)
           lane(i) == d.lanes.order[i]
           S(i) == {w \in Desk : /\ Follows(w, d) /\ w.queue = d.queue
                                 /\ \A j \in (i + 1)..n : w.lanes.bucket[lane(j)] # <<>>}
           G == [i \in 0..n |-> S(i)]
<1>1. /\ n \in Nat /\ DOMAIN d.lanes.order = 1..n
      /\ \A i \in 1..n : lane(i) \in TenantKey /\ d.lanes.bucket[lane(i)] # <<>>
      /\ \A i, j \in 1..n : lane(i) = lane(j) => i = j
  BY InBuckets DEF DeskOK
<1> HIDE DEF n, lane
<1>2. d \in S(0)
  <2>1. Follows(d, d) /\ d \in Desk
    BY FollowsSelf DEF DeskOK
  <2>2. \A j \in (0 + 1)..n : j \in 1..n
    BY <1>1
  <2> QED
    BY <1>1, <2>1, <2>2
<1>3. ASSUME NEW i \in 1..n, NEW w \in S(i - 1) PROVE LaneServed(w, lane(i)) \in S(i)
  <2> DEFINE v == LaneServed(w, lane(i))
  <2>1. i \in (i - 1 + 1)..n /\ \A j \in (i + 1)..n : j \in (i - 1 + 1)..n /\ j \in 1..n /\ j # i
    BY <1>1
  <2>2. DeskOK(w) /\ Entries(w.queue) = {} /\ w.lanes.bucket[lane(i)] # <<>>
    BY <2>1 DEF Follows
  <2>3. /\ Follows(v, w) /\ v.queue = w.queue
        /\ \A u \in TenantKey : u # lane(i) => v.lanes.bucket[u] = w.lanes.bucket[u]
    BY <1>1, <2>2, LaneServedFollows
  <2>4. Follows(v, d) /\ v \in Desk
    BY <2>3, FollowsOn DEF Follows, DeskOK
  <2> HIDE DEF v
  <2>5. ASSUME NEW j \in (i + 1)..n PROVE v.lanes.bucket[lane(j)] # <<>>
    <3>1. lane(j) \in TenantKey /\ lane(j) # lane(i) /\ w.lanes.bucket[lane(j)] # <<>>
      BY <1>1, <2>1
    <3> QED
      BY <2>3, <3>1
  <2>6. v \in S(i)
    BY <2>3, <2>4, <2>5
  <2> QED
    BY <2>6 DEF v
<1>4. \A w \in S(n) : Follows(w, d) /\ w.queue = d.queue
  OBVIOUS
<1> HIDE DEF S
<1>5. G[0] = S(0) /\ G[n] = S(n) /\ \A i \in 1..n : G[i] = S(i) /\ G[i - 1] = S(i - 1)
  <2>1. 0 \in 0..n /\ n \in 0..n /\ \A i \in 1..n : i \in 0..n /\ i - 1 \in 0..n
    BY <1>1
  <2> QED
    BY <2>1
<1> HIDE DEF G
<1>6. LanesServed(d) \in G[n]
  <2>1. d \in G[0] /\ n = Len(d.lanes.order)
    BY <1>2, <1>5 DEF n
  <2>2. \A i \in 1..n : \A w \in G[i - 1] : LaneServed(w, d.lanes.order[i]) \in G[i]
    BY <1>3, <1>5 DEF lane
  <2> QED
    BY <1>1, <2>1, <2>2, LanesLoop
<1> QED
  BY <1>4, <1>5, <1>6

(***************************************************************************)
(* dispatch(): when it ends nobody in the shared queue could be served.    *)
(***************************************************************************)
LEMMA DispatchedFollows ==
    ASSUME NEW d, DeskOK(d)
    PROVE  /\ Follows(Dispatched(d), d)
           /\ Chosen(Dispatched(d).queue, Room(Dispatched(d))) = {}
<1> DEFINE e == SharedServed(d)
<1>1. Follows(e, d) /\ Chosen(e.queue, Room(e)) = {} /\ DeskOK(e)
  BY SharedServedFollows DEF Follows
<1>2. CASE e.queue.order = <<>>
  <2>1. QueueOK(e.queue)
    BY <1>1 DEF DeskOK
  <2>2. Entries(e.queue) = {} /\ \A room : Chosen(e.queue, room) = {}
    BY <1>2, <2>1, EmptyChoice
  <2>3. Follows(LanesServed(e), e) /\ LanesServed(e).queue = e.queue
    BY <1>1, <2>2, LanesServedFollows
  <2>4. Dispatched(d) = LanesServed(e)
    BY <1>2 DEF Dispatched
  <2> QED
    BY <1>1, <2>2, <2>3, <2>4, FollowsOn
<1>3. CASE e.queue.order # <<>>
  BY <1>1, <1>3 DEF Dispatched
<1> QED
  BY <1>2, <1>3

(* evictIdleLanes() *)
LEMMA WithoutLanesFollows ==
    ASSUME NEW d, DeskOK(d), NEW idle
    PROVE  LET w == WithoutLanes(d, idle)
           IN  Follows(w, d) /\ w.queue = d.queue /\ w.active = d.active
<1> DEFINE n == Len(d.lanes.order)
           lane(i) == d.lanes.order[i]
           S(i) == {w \in Desk : /\ Follows(w, d) /\ w.queue = d.queue /\ w.active = d.active
                                 /\ \A j \in (i + 1)..n : w.lanes.bucket[lane(j)] # <<>>}
           G == [i \in 0..n |-> S(i)]
<1>1. /\ n \in Nat /\ DOMAIN d.lanes.order = 1..n
      /\ \A i \in 1..n : lane(i) \in TenantKey /\ d.lanes.bucket[lane(i)] # <<>>
      /\ \A i, j \in 1..n : lane(i) = lane(j) => i = j
  BY InBuckets DEF DeskOK
<1> HIDE DEF n, lane
<1>2. d \in S(0)
  <2>1. Follows(d, d) /\ d \in Desk
    BY FollowsSelf DEF DeskOK
  <2>2. \A j \in (0 + 1)..n : j \in 1..n
    BY <1>1
  <2> QED
    BY <1>1, <2>1, <2>2
<1>3. ASSUME NEW i \in 1..n, NEW w \in S(i - 1) PROVE EvictionTurn(w, lane(i), idle) \in S(i)
  <2> DEFINE v == EvictionTurn(w, lane(i), idle)
  <2>1. i \in (i - 1 + 1)..n /\ \A j \in (i + 1)..n : j \in (i - 1 + 1)..n /\ j \in 1..n /\ j # i
    BY <1>1
  <2>2. DeskOK(w) /\ w.lanes.bucket[lane(i)] # <<>> /\ w.lanes.bucket \in [TenantKey -> Seq(Entry)]
    BY <2>1 DEF Follows, DeskOK, Sound
  <2>3. /\ Follows(v, w) /\ v.queue = w.queue /\ v.active = w.active
        /\ \A u \in TenantKey : u # lane(i) => v.lanes.bucket[u] = w.lanes.bucket[u]
    <3>1. CASE lane(i) \in idle
      <4>1. v = LaneDeleted(w, lane(i))
        BY <3>1 DEF EvictionTurn
      <4>2. /\ Follows(v, w) /\ v.queue = w.queue /\ v.active = w.active
            /\ v.lanes.bucket = [w.lanes.bucket EXCEPT ![lane(i)] = <<>>]
        BY <1>1, <2>2, <4>1, LaneDeletedFollows
      <4> HIDE DEF v
      <4> QED
        BY <2>2, <4>2
    <3>2. CASE lane(i) \notin idle
      BY <2>2, <3>2, FollowsSelf DEF EvictionTurn
    <3> QED
      BY <3>1, <3>2
  <2>4. Follows(v, d) /\ v \in Desk
    BY <2>3, FollowsOn DEF Follows, DeskOK
  <2> HIDE DEF v
  <2>5. ASSUME NEW j \in (i + 1)..n PROVE v.lanes.bucket[lane(j)] # <<>>
    <3>1. lane(j) \in TenantKey /\ lane(j) # lane(i) /\ w.lanes.bucket[lane(j)] # <<>>
      BY <1>1, <2>1
    <3> QED
      BY <2>3, <3>1
  <2>6. v \in S(i)
    BY <2>3, <2>4, <2>5
  <2> QED
    BY <2>6 DEF v
<1>4. \A w \in S(n) : Follows(w, d) /\ w.queue = d.queue /\ w.active = d.active
  OBVIOUS
<1> HIDE DEF S
<1>5. G[0] = S(0) /\ G[n] = S(n) /\ \A i \in 1..n : G[i] = S(i) /\ G[i - 1] = S(i - 1)
  <2>1. 0 \in 0..n /\ n \in 0..n /\ \A i \in 1..n : i \in 0..n /\ i - 1 \in 0..n
    BY <1>1
  <2> QED
    BY <2>1
<1> HIDE DEF G
<1>6. WithoutLanes(d, idle) \in G[n]
  <2>1. d \in G[0] /\ n = Len(d.lanes.order)
    BY <1>2, <1>5 DEF n
  <2>2. \A i \in 1..n : \A w \in G[i - 1] : EvictionTurn(w, d.lanes.order[i], idle) \in G[i]
    BY <1>3, <1>5 DEF lane
  <2> QED
    BY <1>1, <2>1, <2>2, EvictionLoop
<1> QED
  BY <1>4, <1>5, <1>6

-----------------------------------------------------------------------------
(***************************************************************************)
(* The books of shadow mode                                                *)
(***************************************************************************)
Books == [queue : Queue, cost : Nat, as : [Entry -> Disposition]]

Deemed(v, x) == {r \in Entry : v.as[r] = x}

BooksOK(v) ==
    /\ v \in Books /\ QueueOK(v.queue)
    /\ v.cost = CostOf(Deemed(v, "active"))
    /\ Entries(v.queue) = Deemed(v, "queued")

IsBooks(v) == v = [queue |-> v.queue, cost |-> v.cost, as |-> v.as]

LEMMA ExceptBooksQueue ==
    ASSUME NEW v, IsBooks(v), NEW x
    PROVE  LET c == [v EXCEPT !.queue = x]
           IN  IsBooks(c) /\ c.queue = x /\ c.cost = v.cost /\ c.as = v.as
BY DEF IsBooks

LEMMA ExceptBooksCost ==
    ASSUME NEW v, IsBooks(v), NEW x
    PROVE  LET c == [v EXCEPT !.cost = x]
           IN  IsBooks(c) /\ c.queue = v.queue /\ c.cost = x /\ c.as = v.as
BY DEF IsBooks

LEMMA ExceptBooksAs ==
    ASSUME NEW v, IsBooks(v), NEW x
    PROVE  LET c == [v EXCEPT !.as = x]
           IN  IsBooks(c) /\ c.queue = v.queue /\ c.cost = v.cost /\ c.as = x
BY DEF IsBooks

LEMMA BooksParts ==
    ASSUME NEW v, BooksOK(v)
    PROVE  /\ IsBooks(v) /\ QueueOK(v.queue) /\ v.cost \in Nat /\ v.as \in [Entry -> Disposition]
           /\ v.cost \in 0..CostOf(Entry)
           /\ v \in [queue : Queue, cost : 0..CostOf(Entry), as : [Entry -> Disposition]]
<1>1. IsBooks(v) /\ QueueOK(v.queue) /\ v.cost \in Nat /\ v.as \in [Entry -> Disposition] /\ v.queue \in Queue
  BY DEF BooksOK, Books, IsBooks
<1>2. Deemed(v, "active") \in SUBSET Entry /\ Entry \in SUBSET Entry
  BY DEF Deemed
<1>3. CostOf(Deemed(v, "active")) <= CostOf(Entry) /\ CostOf(Entry) \in Nat
  BY <1>2, CostOfMonotone, CostOfInt
<1>4. v.cost \in 0..CostOf(Entry)
  BY <1>1, <1>3 DEF BooksOK
<1> QED
  BY <1>1, <1>4 DEF IsBooks

LEMMA BooksFromParts ==
    ASSUME NEW v, IsBooks(v), QueueOK(v.queue), v.as \in [Entry -> Disposition],
           v.cost = CostOf(Deemed(v, "active")), Entries(v.queue) = Deemed(v, "queued")
    PROVE  BooksOK(v)
<1>1. Deemed(v, "active") \in SUBSET Entry
  BY DEF Deemed
<1>2. v.cost \in Nat /\ v.queue \in Queue
  BY <1>1, CostOfAdd DEF QueueOK
<1>3. v \in Books
  BY <1>2 DEF Books, IsBooks
<1> QED
  BY <1>3 DEF BooksOK

LEMMA NoShadowOK == BooksOK(NoShadow) /\ Deemed(NoShadow, "none") = Entry
<1>1. /\ IsBooks(NoShadow) /\ NoShadow.queue = EmptyQueue /\ NoShadow.cost = 0
      /\ NoShadow.as = [r \in Entry |-> "none"]
  BY DEF IsBooks, NoShadow
<1>2. NoShadow.as \in [Entry -> Disposition]
  BY <1>1 DEF Disposition
<1>3. /\ Deemed(NoShadow, "active") = {} /\ Deemed(NoShadow, "queued") = {}
      /\ Deemed(NoShadow, "none") = Entry
  BY <1>1 DEF Deemed
<1>4. QueueOK(NoShadow.queue) /\ Entries(NoShadow.queue) = {}
  BY <1>1, EmptyWell
<1>5. NoShadow.cost = CostOf({})
  BY <1>1, CostOfAdd
<1> QED
  BY <1>1, <1>2, <1>3, <1>4, <1>5, BooksFromParts

(***************************************************************************)
(* What serving the virtual queue makes of the books                       *)
(***************************************************************************)
Keeps(w, v) == BooksOK(w) /\ Deemed(w, "none") = Deemed(v, "none")

LEMMA VirtualTurnKeeps ==
    ASSUME NEW v, BooksOK(v), NEW max \in Int
    PROVE  LET w == VirtualTurn(v, max)
           IN  /\ Keeps(w, v)
               /\ Chosen(v.queue, max - v.cost) = {} => w = v
               /\ Chosen(v.queue, max - v.cost) # {} =>
                    Cardinality(Entries(w.queue)) = Cardinality(Entries(v.queue)) - 1
<1> DEFINE room == max - v.cost
           R == Taken(v.queue, room)
           q == Dequeued(v.queue, room)
           as == [r \in Entry |-> IF r \in R THEN "active" ELSE v.as[r]]
           w == VirtualTurn(v, max)
<1>1. /\ IsBooks(v) /\ QueueOK(v.queue) /\ v.cost \in Nat /\ v.as \in [Entry -> Disposition]
      /\ room \in Int
  BY BooksParts
<1>2. v.cost = CostOf(Deemed(v, "active")) /\ Entries(v.queue) = Deemed(v, "queued")
  BY DEF BooksOK
<1>3. IsBooks(w) /\ w.queue = q /\ w.cost = v.cost + CostOf(R) /\ w.as = as
  BY DEF VirtualTurn, IsBooks
<1>4. QueueOK(q) /\ Entries(q) = Entries(v.queue) \ R
  BY <1>1, DequeuedWell
<1> HIDE DEF w, q
<1>5. CASE Chosen(v.queue, room) = {}
  <2>1. q = v.queue /\ R = {}
    BY <1>1, <1>5, DequeuedWell DEF q
  <2>2. as = v.as /\ CostOf(R) = 0
    BY <1>1, <2>1, CostOfAdd
  <2> HIDE DEF as, R
  <2>3. v.cost + 0 = v.cost
    BY <1>1
  <2>4. w.queue = v.queue /\ w.cost = v.cost /\ w.as = v.as
    BY <1>3, <2>1, <2>2, <2>3
  <2>5. w = v
    BY <1>1, <1>3, <2>4 DEF IsBooks
  <2> QED
    BY <1>5, <2>5 DEF Keeps, w
<1>6. CASE Chosen(v.queue, room) # {}
  <2>1. PICK r \in Entries(v.queue) : R = {r}
    BY <1>1, <1>6, DequeuedWell
  <2>2. r \in Entry /\ v.as[r] = "queued" /\ Entries(v.queue) \subseteq Entry
    BY <1>2, <2>1 DEF Deemed
  <2> HIDE DEF R
  <2>3. as \in [Entry -> Disposition] /\ as[r] = "active" /\ \A s \in Entry : s # r => as[s] = v.as[s]
    BY <1>1, <2>1, <2>2 DEF Disposition
  <2> HIDE DEF as
  <2>4. /\ Deemed(w, "active") = Deemed(v, "active") \cup {r} /\ r \in Entry \ Deemed(v, "active")
        /\ Deemed(w, "queued") = Deemed(v, "queued") \ {r}
        /\ Deemed(w, "none") = Deemed(v, "none")
        /\ Deemed(v, "active") \in SUBSET Entry
    BY <1>3, <2>2, <2>3 DEF Deemed
  <2>5. w.cost = CostOf(Deemed(w, "active"))
    BY <1>2, <1>3, <2>1, <2>2, <2>4, CostOfAdd, CostOfOne
  <2>6. Entries(w.queue) = Deemed(w, "queued")
    BY <1>2, <1>3, <1>4, <2>1, <2>4
  <2>7. BooksOK(w)
    BY <1>3, <1>4, <2>3, <2>5, <2>6, BooksFromParts
  <2>8. Cardinality(Entries(w.queue)) = Cardinality(Entries(v.queue)) - 1
    BY <1>3, <1>4, <2>1, <2>2, Finite
  <2> QED
    BY <1>6, <2>4, <2>7, <2>8 DEF Keeps, w
<1> QED
  BY <1>5, <1>6

(* dispatchVirtual(): when it ends nobody in the virtual queue could be served. *)
LEMMA VirtualServedKeeps ==
    ASSUME NEW v, BooksOK(v), NEW max \in Int
    PROVE  LET w == VirtualServed(v, max)
           IN  Keeps(w, v) /\ Chosen(w.queue, max - w.cost) = {}
<1> DEFINE n == Cardinality(Entries(v.queue))
           Left(w, k) == \/ Chosen(w.queue, max - w.cost) = {}
                         \/ Cardinality(Entries(w.queue)) <= k
           S(k) == {w \in Books : Keeps(w, v) /\ Left(w, k)}
           G == [i \in 0..n |-> S(n - i)]
<1>1. Entries(v.queue) \subseteq Entry /\ n \in Nat
  <2>1. Entries(v.queue) \subseteq Entry
    BY QueueParts, InBuckets DEF BooksOK
  <2> QED
    BY <2>1, Finite
<1>2. v \in S(n)
  BY <1>1 DEF BooksOK, Keeps
<1>3. ASSUME NEW k \in Nat, NEW w \in S(k + 1) PROVE VirtualTurn(w, max) \in S(k)
  <2> DEFINE u == VirtualTurn(w, max)
  <2>1. BooksOK(w) /\ Deemed(w, "none") = Deemed(v, "none")
    BY DEF Keeps
  <2>2. Keeps(u, w)
    BY <2>1, VirtualTurnKeeps
  <2>3. Keeps(u, v) /\ u \in Books
    BY <2>1, <2>2 DEF Keeps, BooksOK
  <2>5. Left(u, k)
    <3>1. CASE Chosen(w.queue, max - w.cost) = {}
      <4>1. u = w
        BY <2>1, <3>1, VirtualTurnKeeps
      <4> HIDE DEF u
      <4> QED
        BY <3>1, <4>1
    <3>2. CASE Chosen(w.queue, max - w.cost) # {}
      <4>1. Cardinality(Entries(w.queue)) <= k + 1
        BY <3>2
      <4>2. Cardinality(Entries(u.queue)) = Cardinality(Entries(w.queue)) - 1
        BY <2>1, <3>2, VirtualTurnKeeps
      <4>3. Entries(w.queue) \subseteq Entry
        BY <2>1, QueueParts, InBuckets DEF BooksOK
      <4>4. Cardinality(Entries(w.queue)) \in Nat
        BY <4>3, Finite
      <4>5. Cardinality(Entries(u.queue)) <= k
        BY <4>1, <4>2, <4>4
      <4> QED
        BY <4>5
    <3> QED
      BY <3>1, <3>2
  <2> HIDE DEF u, Left
  <2>6. u \in S(k)
    BY <2>3, <2>5
  <2> QED
    BY <2>6 DEF u
<1>4. ASSUME NEW w \in S(0) PROVE Chosen(w.queue, max - w.cost) = {}
  <2>1. CASE Chosen(w.queue, max - w.cost) = {}
    BY <2>1
  <2>2. CASE Cardinality(Entries(w.queue)) <= 0
    <3>1. QueueOK(w.queue)
      BY DEF Keeps, BooksOK
    <3>2. Entries(w.queue) \subseteq Entry
      BY <3>1, QueueParts, InBuckets
    <3>3. Cardinality(Entries(w.queue)) \in Nat
      BY <3>2, Finite
    <3>4. Cardinality(Entries(w.queue)) = 0
      BY <2>2, <3>3
    <3>5. Entries(w.queue) = {}
      BY <3>2, <3>4, Finite
    <3> QED
      BY <3>1, <3>5, EmptyChoice
  <2> QED
    BY <2>1, <2>2
<1>5. \A k : \A w \in S(k) : Keeps(w, v)
  OBVIOUS
<1> HIDE DEF S
<1>6. G[0] = S(n) /\ G[n] = S(0)
  <2>1. 0 \in 0..n /\ n \in 0..n /\ n - 0 = n /\ n - n = 0
    BY <1>1
  <2> HIDE DEF n
  <2> QED
    BY <2>1
<1>7. ASSUME NEW i \in 1..n PROVE G[i] = S(n - i) /\ G[i - 1] = S((n - i) + 1) /\ n - i \in Nat
  <2>1. i \in 0..n /\ i - 1 \in 0..n /\ n - (i - 1) = (n - i) + 1 /\ n - i \in Nat
    BY <1>1
  <2> HIDE DEF n
  <2> QED
    BY <2>1
<1> HIDE DEF G
<1>8. \A i \in 1..n : \A w \in G[i - 1] : VirtualTurn(w, max) \in G[i]
  BY <1>3, <1>7
<1>9. VirtualServed(v, max) \in G[n]
  <2>1. v \in G[0] /\ n = Cardinality(Entries(v.queue))
    BY <1>2, <1>6
  <2> HIDE DEF n
  <2> QED
    BY <1>1, <1>8, <2>1, VirtualLoop
<1> HIDE DEF n
<1> QED
  BY <1>4, <1>5, <1>6, <1>9

-----------------------------------------------------------------------------
(***************************************************************************)
(* When dequeue() takes nobody                                             *)
(***************************************************************************)
(* Without a reservation, somebody who fits is taken. *)
LEMMA SomebodyFits ==
    ASSUME NEW q, QueueOK(q), NEW room \in Int, Reserved(q) = {}, Fitting(q, room) # {}
    PROVE  Chosen(q, room) # {}
<1> DEFINE S == {Turn(q, p) : p \in Fitting(q, room)}
<1>1. \A p \in Place(q) : Turn(q, p) \in Nat
  <2> SUFFICES ASSUME NEW p \in Place(q) PROVE Turn(q, p) \in Nat
    OBVIOUS
  <2>1. p \in 1..Len(q.order) /\ Len(q.order) \in Nat /\ Place(q) = 1..Len(q.order) /\ OnLine(q) /\ Sound(q)
    BY QueueParts
  <2>2. q.order # <<>>
    BY <2>1, EmptySeq DEF Sound
  <2>3. q.cursor \in 1..Len(q.order)
    BY <2>1, <2>2 DEF OnLine, Place
  <2> QED
    BY <2>1, <2>3 DEF Turn
<1>2. Fitting(q, room) \subseteq Place(q)
  BY DEF Fitting
<1>3. S \subseteq Nat /\ S # {}
  BY <1>1, <1>2
<1>4. PICK x \in S : \A y \in S : <<y, x>> \notin OpToRel(<, Nat)
  BY <1>3, WFMin, NatLessThanWellFounded
<1>5. \A y \in S : ~(y < x)
  BY <1>3, <1>4 DEF OpToRel
<1>6. \A y \in S : x <= y
  BY <1>3, <1>5
<1>7. PICK p \in Fitting(q, room) : x = Turn(q, p)
  OBVIOUS
<1>8. p \in Chosen(q, room)
  BY <1>6, <1>7 DEF Chosen
<1> QED
  BY <1>8

(* Whoever did not fit does not fit into less. *)
LEMMA TighterChoice ==
    ASSUME NEW q, QueueOK(q), NEW room \in Int, NEW less \in Int, less <= room,
           Chosen(q, room) = {}
    PROVE  Chosen(q, less) = {}
<1>1. Fitting(q, less) \subseteq Fitting(q, room)
  <2>1. \A p \in Place(q) : Cost[First(q, p)] \in Int
    BY HeadIn, CostAssumption
  <2> QED
    BY <2>1 DEF Fitting
<1>2. CASE Reserved(q) # {}
  BY <1>1, <1>2 DEF Chosen
<1>3. CASE Reserved(q) = {}
  <2>1. Fitting(q, room) = {}
    BY <1>3, SomebodyFits
  <2> QED
    BY <1>1, <1>3, <2>1 DEF Chosen
<1> QED
  BY <1>2, <1>3

(* A newcomer that does not fit lets nobody through. *)
LEMMA EnqueuedChoice ==
    ASSUME NEW q, QueueOK(q), NEW r \in Entry \ Entries(q), NEW t \in TenantKey,
           NEW room \in Int, ~(Cost[r] <= room), Chosen(q, room) = {}
    PROVE  Chosen(Enqueued(q, r, t), room) = {}
<1> DEFINE c == Enqueued(q, r, t)
<1>1. /\ QueueOK(c) /\ Entries(c) = Entries(q) \cup {r} /\ c.skips = q.skips
      /\ c.older = q.older \cup (Entries(q) \X {r})
      /\ \A p \in Place(q) : p \in Place(c) /\ First(c, p) = First(q, p)
      /\ \A p \in Place(c) \ Place(q) : First(c, p) = r
  BY EnqueuedWell
<1> HIDE DEF c
<1>2. q.skips[r] \in Nat /\ ~(q.skips[r] > 0)
  <2>1. HeadsOnly(q) /\ q.skips \in [Entry -> Nat]
    BY QueueParts
  <2>2. \A p \in Place(q) : First(q, p) # r
    BY HeadIn
  <2> QED
    BY <2>1, <2>2 DEF HeadsOnly
<1>3. ~(q.skips[r] >= MaxSkips)
  BY <1>2 DEF MaxSkips
<1>4. Reserved(c) = Reserved(q)
  BY <1>1, <1>3 DEF Reserved
<1>5. Fitting(c, room) = Fitting(q, room)
  BY <1>1 DEF Fitting
<1>6. CASE Reserved(q) = {}
  <2>1. Fitting(q, room) = {}
    BY <1>6, SomebodyFits
  <2> QED
    BY <1>4, <1>5, <1>6, <2>1 DEF Chosen, c
<1>7. CASE Reserved(q) # {}
  <2>1. Reserved(q) \subseteq Place(q)
    BY DEF Reserved
  <2>2. ASSUME NEW p \in Reserved(q), NEW o \in Reserved(q), <<First(c, p), First(c, o)>> \in c.older
        PROVE  <<First(q, p), First(q, o)>> \in q.older
    <3>1. p \in Place(q) /\ o \in Place(q) /\ First(c, p) = First(q, p) /\ First(c, o) = First(q, o)
      BY <1>1, <2>1
    <3>2. First(q, o) # r
      BY <3>1, HeadIn
    <3> QED
      BY <1>1, <2>2, <3>1, <3>2
  <2>3. Chosen(c, room) \subseteq Chosen(q, room)
    BY <1>4, <1>5, <1>7, <2>2 DEF Chosen
  <2> QED
    BY <2>3 DEF c
<1> QED
  BY <1>6, <1>7

(***************************************************************************)
(* A record more, or less, in the books                                    *)
(***************************************************************************)
LEMMA JudgedKeeps ==
    ASSUME NEW v, BooksOK(v), NEW r \in Deemed(v, "none"), NEW t \in TenantKey, NEW max \in Int
    PROVE  LET w == Judged(v, r, t, max)
           IN  /\ BooksOK(w) /\ Deemed(w, "none") = Deemed(v, "none") \ {r}
               /\ Chosen(v.queue, max - v.cost) = {} => Chosen(w.queue, max - w.cost) = {}
<1> DEFINE w == Judged(v, r, t, max)
           As(x) == [v.as EXCEPT ![r] = x]
<1>1. /\ IsBooks(v) /\ QueueOK(v.queue) /\ v.cost \in Nat /\ v.as \in [Entry -> Disposition]
  BY BooksParts
<1>2. v.cost = CostOf(Deemed(v, "active")) /\ Entries(v.queue) = Deemed(v, "queued")
  BY DEF BooksOK
<1>3. r \in Entry /\ v.as[r] = "none" /\ r \notin Entries(v.queue)
  BY <1>2 DEF Deemed
<1>4. Cost[r] \in Nat \ {0}
  BY <1>3, CostAssumption
<1>5. /\ \A x \in Disposition : As(x) \in [Entry -> Disposition]
      /\ \A x : As(x)[r] = x /\ \A s \in Entry : s # r => As(x)[s] = v.as[s]
  BY <1>1, <1>3
<1> HIDE DEF As
(* What changes of the sets of records *)
<1>6. ASSUME NEW x \in Disposition \ {"none"}, NEW c, c.as = As(x)
      PROVE  /\ Deemed(c, "none") = Deemed(v, "none") \ {r}
             /\ Deemed(c, "active") = IF x = "active" THEN Deemed(v, "active") \cup {r} ELSE Deemed(v, "active")
             /\ Deemed(c, "queued") = IF x = "queued" THEN Deemed(v, "queued") \cup {r} ELSE Deemed(v, "queued")
             /\ r \in Entry \ Deemed(v, "active") /\ Deemed(v, "active") \in SUBSET Entry
  BY <1>3, <1>5, <1>6 DEF Deemed
<1>7. CASE w = [v EXCEPT !.as[r] = "rejected"]
  <2> DEFINE c == [v EXCEPT !.as = As("rejected")]
  <2>1. w = c
    BY <1>7 DEF As
  <2>2. IsBooks(c) /\ c.queue = v.queue /\ c.cost = v.cost /\ c.as = As("rejected")
    BY <1>1, ExceptBooksAs
  <2> HIDE DEF c, w
  <2>3. "rejected" \in Disposition \ {"none"} /\ "rejected" # "active" /\ "rejected" # "queued"
    BY DEF Disposition
  <2>4. /\ Deemed(c, "none") = Deemed(v, "none") \ {r}
        /\ Deemed(c, "active") = Deemed(v, "active") /\ Deemed(c, "queued") = Deemed(v, "queued")
    BY <1>6, <2>2, <2>3
  <2>5. c.as \in [Entry -> Disposition]
    BY <1>5, <2>2, <2>3
  <2>6. BooksOK(c)
    BY <1>1, <1>2, <2>2, <2>4, <2>5, BooksFromParts
  <2> QED
    BY <2>1, <2>2, <2>4, <2>6 DEF w
<1>8. CASE v.cost + Cost[r] <= max /\ w = [v EXCEPT !.as[r] = "active", !.cost = @ + Cost[r]]
  <2> DEFINE cost == v.cost + Cost[r]
             e == [v EXCEPT !.as = As("active")]
             c == [e EXCEPT !.cost = cost]
  <2>1. w = c
    <3>1. w = [v EXCEPT !.as = As("active"), !.cost = cost]
      BY <1>8 DEF As
    <3> HIDE DEF cost, w
    <3> QED
      BY <3>1
  <2>2. IsBooks(e) /\ e.queue = v.queue /\ e.cost = v.cost /\ e.as = As("active")
    BY <1>1, ExceptBooksAs
  <2> HIDE DEF e, cost
  <2>3. IsBooks(c) /\ c.queue = v.queue /\ c.cost = cost /\ c.as = As("active")
    BY <2>2, ExceptBooksCost
  <2> HIDE DEF c, w
  <2>4. "active" \in Disposition \ {"none"} /\ "active" # "queued"
    BY DEF Disposition
  <2>5. /\ Deemed(c, "none") = Deemed(v, "none") \ {r}
        /\ Deemed(c, "active") = Deemed(v, "active") \cup {r} /\ Deemed(c, "queued") = Deemed(v, "queued")
        /\ r \in Entry \ Deemed(v, "active") /\ Deemed(v, "active") \in SUBSET Entry
    BY <1>6, <2>3, <2>4
  <2>6. c.cost = CostOf(Deemed(c, "active"))
    BY <1>2, <2>3, <2>5, CostOfAdd DEF cost
  <2>7. c.as \in [Entry -> Disposition]
    BY <1>5, <2>3, <2>4
  <2>8. BooksOK(c)
    BY <1>1, <1>2, <2>3, <2>5, <2>6, <2>7, BooksFromParts
  <2>9. Chosen(v.queue, max - v.cost) = {} => Chosen(c.queue, max - c.cost) = {}
    <3>1. max - v.cost \in Int /\ max - cost \in Int /\ max - cost <= max - v.cost
      BY <1>1, <1>4 DEF cost
    <3> QED
      BY <1>1, <2>3, <3>1, TighterChoice
  <2> QED
    BY <2>1, <2>5, <2>8, <2>9 DEF w
<1>9. CASE ~(v.cost + Cost[r] <= max) /\ w = [v EXCEPT !.as[r] = "queued", !.queue = Enqueued(@, r, t)]
  <2> DEFINE q == Enqueued(v.queue, r, t)
             e == [v EXCEPT !.as = As("queued")]
             c == [e EXCEPT !.queue = q]
  <2>1. w = c
    <3>1. w = [v EXCEPT !.as = As("queued"), !.queue = q]
      BY <1>9 DEF As
    <3> HIDE DEF q, w
    <3> QED
      BY <3>1
  <2>2. IsBooks(e) /\ e.queue = v.queue /\ e.cost = v.cost /\ e.as = As("queued")
    BY <1>1, ExceptBooksAs
  <2>3. QueueOK(q) /\ Entries(q) = Entries(v.queue) \cup {r}
    BY <1>1, <1>3, EnqueuedWell
  <2>4. Chosen(v.queue, max - v.cost) = {} => Chosen(q, max - v.cost) = {}
    <3>1. max - v.cost \in Int /\ ~(Cost[r] <= max - v.cost)
      BY <1>1, <1>4, <1>9
    <3> QED
      BY <1>1, <1>3, <3>1, EnqueuedChoice
  <2> HIDE DEF e, q
  <2>5. IsBooks(c) /\ c.queue = q /\ c.cost = v.cost /\ c.as = As("queued")
    BY <2>2, ExceptBooksQueue
  <2> HIDE DEF c, w
  <2>6. "queued" \in Disposition \ {"none"} /\ "active" # "queued"
    BY DEF Disposition
  <2>7. /\ Deemed(c, "none") = Deemed(v, "none") \ {r}
        /\ Deemed(c, "active") = Deemed(v, "active") /\ Deemed(c, "queued") = Deemed(v, "queued") \cup {r}
    BY <1>6, <2>5, <2>6
  <2>8. c.as \in [Entry -> Disposition]
    BY <1>5, <2>5, <2>6
  <2>9. BooksOK(c)
    BY <1>2, <2>3, <2>5, <2>7, <2>8, BooksFromParts
  <2> QED
    BY <2>1, <2>4, <2>5, <2>7, <2>9 DEF w
<1>10. \/ w = [v EXCEPT !.as[r] = "rejected"]
       \/ v.cost + Cost[r] <= max /\ w = [v EXCEPT !.as[r] = "active", !.cost = @ + Cost[r]]
       \/ ~(v.cost + Cost[r] <= max) /\ w = [v EXCEPT !.as[r] = "queued", !.queue = Enqueued(@, r, t)]
  BY DEF Judged
<1> HIDE DEF w
<1> QED
  BY <1>7, <1>8, <1>9, <1>10 DEF w

(* releaseVirtual(), before its dispatch *)
LEMMA StruckKeeps ==
    ASSUME NEW v, BooksOK(v), NEW r \in Entry
    PROVE  BooksOK(Struck(v, r)) /\ Deemed(Struck(v, r), "none") = Deemed(v, "none") \cup {r}
<1> DEFINE cost == IF v.as[r] = "active" THEN v.cost - Cost[r] ELSE v.cost
           q == IF v.as[r] = "queued" THEN Removed(v.queue, r) ELSE v.queue
           as == [v.as EXCEPT ![r] = "none"]
           e == [v EXCEPT !.cost = cost]
           f == [e EXCEPT !.queue = q]
           w == [f EXCEPT !.as = as]
<1>1. /\ IsBooks(v) /\ QueueOK(v.queue) /\ v.cost \in Nat /\ v.as \in [Entry -> Disposition]
  BY BooksParts
<1>2. v.cost = CostOf(Deemed(v, "active")) /\ Entries(v.queue) = Deemed(v, "queued")
  BY DEF BooksOK
<1>3. Struck(v, r) = [v EXCEPT !.cost = cost, !.queue = q, !.as = as]
  BY DEF Struck
<1>4. as \in [Entry -> Disposition] /\ as[r] = "none" /\ \A s \in Entry : s # r => as[s] = v.as[s]
  BY <1>1 DEF Disposition
<1>5. cost = CostOf(Deemed(v, "active") \ {r})
  <2>1. CASE v.as[r] = "active"
    <3>1. r \in Deemed(v, "active") /\ Deemed(v, "active") \in SUBSET Entry
      BY <2>1 DEF Deemed
    <3> QED
      BY <1>2, <2>1, <3>1, CostOfRemove
  <2>2. CASE v.as[r] # "active"
    <3>1. Deemed(v, "active") \ {r} = Deemed(v, "active")
      BY <2>2 DEF Deemed
    <3> QED
      BY <1>2, <2>2, <3>1
  <2> QED
    BY <2>1, <2>2
<1>6. QueueOK(q) /\ Entries(q) = Deemed(v, "queued") \ {r}
  <2>1. CASE v.as[r] = "queued"
    <3>1. r \in Entries(v.queue)
      BY <1>2, <2>1 DEF Deemed
    <3> QED
      BY <1>1, <1>2, <2>1, <3>1, RemovedWell
  <2>2. CASE v.as[r] # "queued"
    <3>1. Deemed(v, "queued") \ {r} = Deemed(v, "queued")
      BY <2>2 DEF Deemed
    <3> QED
      BY <1>1, <1>2, <2>2, <3>1
  <2> QED
    BY <2>1, <2>2
<1> HIDE DEF cost, q, as
<1>7. Struck(v, r) = w
  BY <1>3
<1>8. IsBooks(e) /\ e.queue = v.queue /\ e.cost = cost /\ e.as = v.as
  BY <1>1, ExceptBooksCost
<1> HIDE DEF e
<1>9. IsBooks(f) /\ f.queue = q /\ f.cost = cost /\ f.as = v.as
  BY <1>8, ExceptBooksQueue
<1> HIDE DEF f
<1>10. IsBooks(w) /\ w.queue = q /\ w.cost = cost /\ w.as = as
  BY <1>9, ExceptBooksAs
<1> HIDE DEF w
<1>11. /\ Deemed(w, "active") = Deemed(v, "active") \ {r}
       /\ Deemed(w, "queued") = Deemed(v, "queued") \ {r}
       /\ Deemed(w, "none") = Deemed(v, "none") \cup {r}
  BY <1>4, <1>10 DEF Deemed
<1>12. BooksOK(w)
  BY <1>4, <1>5, <1>6, <1>10, <1>11, BooksFromParts
<1> QED
  BY <1>7, <1>11, <1>12

(* rebuildVirtualState(): those without a lease have no record. *)
LEMMA RebuiltKeeps ==
    ASSUME NEW R \in SUBSET Entry, NEW max \in Nat, NEW v \in Rebuilt(R, max)
    PROVE  BooksOK(v) /\ Entry \ R \subseteq Deemed(v, "none") /\ Chosen(v.queue, max - v.cost) = {}
<1>1. PICK order \in SetToSeqs(R) : v = Rejudged(order, max)
  BY DEF Rebuilt, Rejudged
<1>2. order \in Seq(Entry) /\ IsInjective(order) /\ ToSet(order) \subseteq R
      /\ Len(order) \in Nat /\ DOMAIN order = 1..Len(order)
  <2>1. order \in [1..Cardinality(R) -> R] /\ IsInjective(order)
    BY DEF SetToSeqs, IsInjective
  <2>2. Cardinality(R) \in Nat
    BY Finite
  <2>3. order \in Seq(Entry) /\ Len(order) = Cardinality(R) /\ DOMAIN order = 1..Len(order)
    BY <2>1, <2>2
  <2> QED
    BY <2>1, <2>2, <2>3 DEF ToSet
<1> DEFINE n == Len(order)
           G == [i \in 0..n |-> {w \in Books :
                   /\ BooksOK(w) /\ Chosen(w.queue, max - w.cost) = {}
                   /\ Entry \ {order[j] : j \in 1..i} \subseteq Deemed(w, "none")}]
<1>3. NoShadow \in G[0]
  <2>1. BooksOK(NoShadow) /\ Deemed(NoShadow, "none") = Entry /\ NoShadow \in Books
    BY NoShadowOK DEF BooksOK
  <2>2. NoShadow.queue = EmptyQueue
    BY DEF NoShadow
  <2>3. Chosen(NoShadow.queue, max - NoShadow.cost) = {}
    BY <2>2, EmptyWell, EmptyChoice
  <2>4. 0 \in 0..n
    BY <1>2
  <2> QED
    BY <2>1, <2>3, <2>4
<1>4. ASSUME NEW i \in 1..n, NEW w \in G[i - 1]
      PROVE  Judged(w, order[i], "_existing", max) \in G[i]
  <2> DEFINE r == order[i]
             u == Judged(w, r, "_existing", max)
  <2>1. i \in 0..n /\ i - 1 \in 0..n /\ i \in DOMAIN order /\ r \in Entry
    BY <1>2
  <2>2. /\ BooksOK(w) /\ Chosen(w.queue, max - w.cost) = {}
        /\ Entry \ {order[j] : j \in 1..(i - 1)} \subseteq Deemed(w, "none")
    BY <2>1
  <2>3. r \notin {order[j] : j \in 1..(i - 1)}
    <3>1. \A j \in 1..(i - 1) : j \in DOMAIN order /\ j # i
      BY <1>2, <2>1
    <3> QED
      BY <1>2, <2>1, <3>1 DEF IsInjective
  <2>4. r \in Deemed(w, "none")
    BY <2>1, <2>2, <2>3
  <2>5. BooksOK(u) /\ Deemed(u, "none") = Deemed(w, "none") \ {r} /\ Chosen(u.queue, max - u.cost) = {}
    <3>1. "_existing" \in TenantKey /\ max \in Int
      BY AdmissionAssumption
    <3> HIDE DEF r
    <3> QED
      BY <2>2, <2>4, <3>1, JudgedKeeps
  <2>6. u \in Books
    BY <2>5 DEF BooksOK
  <2> HIDE DEF u
  <2>7. Entry \ {order[j] : j \in 1..i} \subseteq Deemed(u, "none")
    <3>1. \A j \in 1..(i - 1) : j \in 1..i
      OBVIOUS
    <3>2. i \in 1..i
      BY <2>1
    <3> QED
      BY <2>2, <2>5, <3>1, <3>2
  <2> QED
    BY <2>1, <2>5, <2>6, <2>7 DEF u
<1>5. n \in Nat /\ n \in 0..n
  BY <1>2
<1>6. Rejudged(order, max) \in G[n]
  <2> HIDE DEF G
  <2>1. n = Len(order)
    OBVIOUS
  <2> HIDE DEF n
  <2> QED
    BY <1>3, <1>4, <1>5, <2>1, RebuildLoop
<1>7. {order[j] : j \in 1..n} \subseteq R
  BY <1>2 DEF ToSet
<1> QED
  BY <1>1, <1>5, <1>6, <1>7

-----------------------------------------------------------------------------
(* updateConfig(): whoever is queued again has waited, and can be served. *)
LEMMA RequeuedWell ==
    ASSUME QueueOK(fairQueue), Sound(lanes), Entries(fairQueue) \cap InLanes = {}, NEW max
    PROVE  /\ QueueOK(Requeued(max)) /\ Entries(Requeued(max)) \subseteq Queued
           /\ \A r \in Entries(Requeued(max)) : Cost[r] <= max
<1> DEFINE all == Everybody
           n == Len(all)
           G == [i \in 0..n |-> {q \in Queue :
                   /\ QueueOK(q) /\ Entries(q) \subseteq {all[j] : j \in 1..i}
                   /\ \A r \in Entries(q) : Cost[r] <= max}]
<1>1. all \in Seq(Entry) /\ IsInjective(all) /\ ToSet(all) \subseteq Queued
  BY EverybodyLists DEF Lists
<1> HIDE DEF all
<1>2. n \in Nat /\ DOMAIN all = 1..n
  BY <1>1, LenProperties
<1>3. EmptyQueue \in G[0]
  <2>1. 0 \in 0..n
    BY <1>2
  <2>2. EmptyQueue \in Queue /\ QueueOK(EmptyQueue) /\ Entries(EmptyQueue) = {}
    BY EmptyWell DEF QueueOK
  <2> QED
    BY <2>1, <2>2
<1>4. ASSUME NEW i \in 1..n, NEW q \in G[i - 1] PROVE RequeueTurn(q, all[i], max) \in G[i]
  <2> DEFINE r == all[i]
             c == RequeueTurn(q, r, max)
  <2>1. i \in 0..n /\ i - 1 \in 0..n /\ i \in DOMAIN all /\ r \in Entry
    BY <1>1, <1>2
  <2>2. /\ QueueOK(q) /\ Entries(q) \subseteq {all[j] : j \in 1..(i - 1)}
        /\ \A s \in Entries(q) : Cost[s] <= max
    BY <2>1
  <2>3. r \notin {all[j] : j \in 1..(i - 1)}
    <3>1. \A j \in 1..(i - 1) : j \in DOMAIN all /\ j # i
      BY <1>2, <2>1
    <3> QED
      BY <1>1, <2>1, <3>1 DEF IsInjective
  <2>4. Tenant[r] \in TenantKey
    BY <2>1, AdmissionAssumption
  <2>5. c = q \/ (Cost[r] <= max /\ c = Enqueued(q, r, Tenant[r]))
    BY DEF RequeueTurn, Serves
  <2>6. QueueOK(Enqueued(q, r, Tenant[r])) /\ Entries(Enqueued(q, r, Tenant[r])) = Entries(q) \cup {r}
    <3> HIDE DEF r
    <3> QED
      BY <2>1, <2>2, <2>3, <2>4, EnqueuedWell
  <2> HIDE DEF c
  <2>7. /\ QueueOK(c) /\ Entries(c) \subseteq Entries(q) \cup {r}
        /\ \A s \in Entries(c) : Cost[s] <= max
    BY <2>2, <2>5, <2>6
  <2>8. Entries(c) \subseteq {all[j] : j \in 1..i}
    <3>1. \A j \in 1..(i - 1) : j \in 1..i
      OBVIOUS
    <3>2. i \in 1..i
      BY <2>1
    <3> QED
      BY <2>2, <2>7, <3>1, <3>2
  <2>9. c \in Queue
    BY <2>7 DEF QueueOK
  <2> QED
    BY <2>1, <2>7, <2>8, <2>9 DEF c
<1>5. Requeued(max) \in G[n]
  <2> HIDE DEF G
  <2>1. n = Len(all) /\ all = Everybody
    BY DEF all
  <2> HIDE DEF n
  <2> QED
    BY <1>2, <1>3, <1>4, <2>1, RequeueLoop
<1>6. n \in 0..n /\ {all[j] : j \in 1..n} \subseteq Queued
  BY <1>1, <1>2 DEF ToSet
<1> QED
  BY <1>5, <1>6

LEMMA SinceBeforeWell ==
    ASSUME NEW q, QueueOK(q), NEW w \in SinceBefore(q)
    PROVE  QueueOK(w) /\ Entries(w) = Entries(q)
<1> DEFINE known == fairQueue.older \cup InLine(lanes) \cup InLine(q)
           open == {pair \in Entries(q) \X Entries(q) :
                      pair[1] # pair[2] /\ {pair, <<pair[2], pair[1]>>} \cap known = {}}
           kept == known \cap (Entries(q) \X Entries(q))
<1>1. PICK more \in SUBSET open : w = [q EXCEPT !.older = kept \cup more] /\ Chronological(w)
  BY DEF SinceBefore
<1>2. /\ Sound(q) /\ OnLine(q) /\ HeadsOnly(q)
      /\ q.cursor \in Nat \ {0} /\ q.skips \in [Entry -> Nat] /\ IsQueue(q)
      /\ Entries(q) \subseteq Entry
  BY QueueParts, InBuckets
<1> DEFINE older == kept \cup more
<1>3. older \in SUBSET (Entry \X Entry)
  <2>1. kept \subseteq Entries(q) \X Entries(q) /\ open \subseteq Entries(q) \X Entries(q)
    OBVIOUS
  <2> HIDE DEF kept, open
  <2> QED
    BY <1>2, <2>1
<1> HIDE DEF older
<1>4. w = [q EXCEPT !.older = older]
  BY <1>1 DEF older
<1>5. /\ IsQueue(w) /\ w.order = q.order /\ w.bucket = q.bucket /\ w.cursor = q.cursor
      /\ w.skips = q.skips /\ w.older = older
  BY <1>2, <1>4, ExceptOlder
<1>6. Entries(w) = Entries(q) /\ Place(w) = Place(q) /\ \A p : First(w, p) = First(q, p)
  BY <1>5 DEF Entries, Place, First
<1>7. Sound(w) /\ OnLine(w) /\ HeadsOnly(w)
  BY <1>2, <1>5, <1>6 DEF Sound, Orderly, OnLine, HeadsOnly
<1> QED
  BY <1>1, <1>2, <1>3, <1>5, <1>6, <1>7, QueueFromParts

-----------------------------------------------------------------------------
(***************************************************************************)
(* The controller                                                          *)
(***************************************************************************)
(* What a handler's desk has to do with the state it found: it is in order *)
(* and has admitted nobody as yet, still knows who is late, and has        *)
(* changed no reservation.                                                 *)
Prepared(d) ==
    /\ DeskOK(d)
    /\ d.active \subseteq active
    /\ late \cap Waiting(d) \subseteq d.late
    /\ Overdue(d.queue) = Overdue(fairQueue) \cap Entries(d.queue)

LEMMA DeskHas ==
    /\ IsDesk(desk) /\ desk.limit = limit /\ desk.queue = fairQueue /\ desk.lanes = lanes
    /\ desk.active = active /\ desk.late = late
    /\ Waiting(desk) = Queued
BY DEF IsDesk, desk, Waiting, Queued, InLanes

LEMMA DeskPrepared ==
    ASSUME DeskOK(desk)
    PROVE  Prepared(desk)
<1>1. Overdue(fairQueue) \subseteq Entries(fairQueue)
  BY DEF Overdue
<1> QED
  BY <1>1, DeskHas DEF Prepared

(* The tenants' lanes: a lane that is not empty stands in line. *)
LEMMA WithLanePrepared ==
    ASSUME DeskOK(desk), NEW t \in TenantKey, NEW d \in WithLane(desk, t)
    PROVE  /\ Prepared(d) /\ d.active = active /\ d.limit = limit /\ d.queue = fairQueue
           /\ Waiting(d) \subseteq Queued
<1>1. CASE d = desk
  BY <1>1, DeskPrepared, DeskHas
<1>2. CASE \E u \in ToSet(lanes.order) : d = LaneDeleted(desk, u)
  <2>1. PICK u \in ToSet(lanes.order) : d = LaneDeleted(desk, u)
    BY <1>2
  <2>2. u \in TenantKey /\ lanes.bucket[u] # <<>>
    <3>1. Sound(lanes)
      BY DeskHas DEF DeskOK
    <3>2. lanes.order \in Seq(TenantKey)
      BY <3>1 DEF Sound
    <3>3. u \in TenantKey
      BY <3>1, InBuckets DEF ToSet
    <3> QED
      BY <3>1, <3>3 DEF Sound, Orderly
  <2>3. desk.lanes.bucket[u] # <<>>
    BY <2>2, DeskHas
  <2>4. /\ Follows(d, desk) /\ d.queue = desk.queue /\ d.active = desk.active
    BY <2>1, <2>2, <2>3, LaneDeletedFollows
  <2>5. /\ DeskOK(d) /\ d.limit = desk.limit /\ d.late = desk.late \cap Waiting(d)
        /\ Waiting(d) \subseteq Waiting(desk)
    BY <2>4 DEF Follows, Waiting
  <2>6. Overdue(fairQueue) \subseteq Entries(fairQueue)
    BY DEF Overdue
  <2> QED
    BY <2>4, <2>5, <2>6, DeskHas DEF Prepared
<1> QED
  BY <1>1, <1>2, DeskHas DEF WithLane

LEMMA JoinedPrepared ==
    ASSUME DeskOK(desk), NEW r \in Entry, Absent(r), NEW d \in Joined(r)
    PROVE  Prepared(d) /\ d.active = active /\ d.limit = limit
<1>1. r \notin active /\ r \notin Queued
  BY DEF Absent
<1>2. Tenant[r] \in TenantKey
  BY AdmissionAssumption
<1>3. CASE d = [desk EXCEPT !.queue = Enqueued(@, r, Tenant[r])]
  <2> DEFINE q == Enqueued(fairQueue, r, Tenant[r])
  <2>1. QueueOK(fairQueue) /\ r \notin Entries(fairQueue)
    BY <1>1, DeskHas DEF DeskOK, Queued
  <2>2. QueueOK(q) /\ Entries(q) = Entries(fairQueue) \cup {r} /\ q.skips = fairQueue.skips
    BY <1>2, <2>1, EnqueuedWell
  <2> HIDE DEF q
  <2>3. d = [desk EXCEPT !.queue = q]
    BY <1>3, DeskHas DEF q
  <2>4. /\ IsDesk(d) /\ d.limit = limit /\ d.queue = q /\ d.lanes = lanes
        /\ d.active = active /\ d.late = late
    BY <2>3, DeskHas, ExceptDeskQueue
  <2>5. /\ Sound(lanes) /\ late \subseteq Queued /\ active \cap Queued = {}
        /\ Entries(fairQueue) \cap InLanes = {} /\ InLanes = Entries(lanes)
    BY DeskHas DEF DeskOK, InLanes
  <2>6. Waiting(d) = Queued \cup {r}
    BY <2>2, <2>4 DEF Waiting, Queued, InLanes
  <2>7. limit \in Nat /\ lanes \in Lanes /\ active \in SUBSET Entry
    BY DeskHas, DeskParts
  <2>8. DeskOK(d)
    <3>1. d.limit \in Nat /\ QueueOK(d.queue) /\ d.lanes \in Lanes /\ Sound(d.lanes) /\ d.active \in SUBSET Entry
      BY <2>2, <2>4, <2>5, <2>7
    <3>2. d.late \subseteq Waiting(d) /\ d.active \cap Waiting(d) = {}
      BY <1>1, <2>4, <2>5, <2>6
    <3>3. Entries(d.queue) \cap Entries(d.lanes) = {}
      BY <1>1, <2>2, <2>4, <2>5 DEF Queued
    <3> QED
      BY <2>4, <3>1, <3>2, <3>3, DeskFromParts
  <2>9. Overdue(q) = Overdue(fairQueue) \cap Entries(q)
    <3>1. r \notin Overdue(q)
      <4>1. HeadsOnly(fairQueue) /\ fairQueue.skips \in [Entry -> Nat]
        BY <2>1, QueueParts
      <4>2. \A p \in Place(fairQueue) : First(fairQueue, p) # r
        BY <2>1, HeadIn
      <4>3. ~(fairQueue.skips[r] > 0) /\ fairQueue.skips[r] \in Nat
        BY <4>1, <4>2 DEF HeadsOnly
      <4> QED
        BY <2>2, <4>3 DEF Overdue, MaxSkips
    <3> QED
      BY <2>1, <2>2, <3>1 DEF Overdue
  <2> QED
    BY <2>4, <2>8, <2>9 DEF Prepared
<1>4. CASE \E c \in WithLane(desk, Tenant[r]) : d = [c EXCEPT !.lanes = Pushed(@, r, Tenant[r])]
  <2>1. PICK c \in WithLane(desk, Tenant[r]) : d = [c EXCEPT !.lanes = Pushed(@, r, Tenant[r])]
    BY <1>4
  <2>2. /\ Prepared(c) /\ c.active = active /\ c.limit = limit /\ c.queue = fairQueue
        /\ Waiting(c) \subseteq Queued
    BY <1>2, <2>1, WithLanePrepared
  <2> DEFINE t == Tenant[r]
             b == c.lanes
             order == IF b.bucket[t] = <<>> THEN Append(b.order, t) ELSE b.order
             bucket == [b.bucket EXCEPT ![t] = Append(@, r)]
             l == Pushed(b, r, t)
  <2>3. DeskOK(c) /\ IsDesk(c) /\ c.limit \in Nat /\ c.lanes \in Lanes /\ c.active \in SUBSET Entry
    BY <2>2, DeskParts DEF Prepared
  <2>4. /\ QueueOK(c.queue) /\ Sound(c.lanes) /\ c.late \subseteq Waiting(c)
        /\ c.active \cap Waiting(c) = {} /\ Entries(c.queue) \cap Entries(c.lanes) = {}
    BY <2>3 DEF DeskOK
  <2>5. r \in Entry \ Entries(b) /\ r \notin Waiting(c)
    BY <1>1, <2>2 DEF Waiting
  <2>6. l = [order |-> order, bucket |-> bucket]
    <3> DEFINE g == [b EXCEPT !.order = order]
    <3>1. b \in Lanes
      BY <2>3
    <3>2. l = [b EXCEPT !.order = order, !.bucket = bucket]
      BY DEF Pushed
    <3> HIDE DEF b, order, bucket, l
    <3>3. g = [order |-> order, bucket |-> b.bucket]
      BY <3>1 DEF Lanes
    <3>4. l = [g EXCEPT !.bucket = bucket]
      BY <3>2
    <3> HIDE DEF g
    <3>5. [g EXCEPT !.bucket = bucket] = [order |-> order, bucket |-> bucket]
      BY <3>3
    <3> QED
      BY <3>4, <3>5
  <2>7. Sound(l) /\ Entries(l) = Entries(b) \cup {r} /\ l \in Lanes
    <3>1. l.order = order /\ l.bucket = bucket
      BY <2>6
    <3> HIDE DEF l
    <3>2. Sound(l) /\ Entries(l) = Entries(b) \cup {r}
      BY <1>2, <2>4, <2>5, <3>1, PushedSound
    <3>3. l = [order |-> l.order, bucket |-> l.bucket]
      BY <2>6, <3>1
    <3>4. l \in Lanes
      BY <3>2, <3>3 DEF Lanes, Sound
    <3> QED
      BY <3>2, <3>4
  <2>8. /\ IsDesk(d) /\ d.limit = c.limit /\ d.queue = c.queue /\ d.lanes = l
        /\ d.active = c.active /\ d.late = c.late
    <3>1. d = [c EXCEPT !.lanes = l]
      BY <2>1
    <3> HIDE DEF l
    <3> QED
      BY <2>3, <3>1, ExceptDeskLanes
  <2> HIDE DEF l, b
  <2>9. Waiting(d) = Waiting(c) \cup {r}
    BY <2>7, <2>8 DEF Waiting, b
  <2>10. DeskOK(d)
    <3>1. d.limit \in Nat /\ QueueOK(d.queue) /\ d.lanes \in Lanes /\ Sound(d.lanes) /\ d.active \in SUBSET Entry
      BY <2>3, <2>4, <2>7, <2>8
    <3>2. d.late \subseteq Waiting(d) /\ d.active \cap Waiting(d) = {}
      BY <1>1, <2>2, <2>4, <2>8, <2>9
    <3>3. Entries(d.queue) \cap Entries(d.lanes) = {}
      BY <2>4, <2>5, <2>7, <2>8 DEF Waiting, b
    <3> QED
      BY <2>8, <3>1, <3>2, <3>3, DeskFromParts
  <2>11. late \cap Waiting(d) \subseteq d.late
    <3>1. r \notin late
      BY <1>1, DeskHas DEF DeskOK
    <3> QED
      BY <2>2, <2>8, <2>9, <3>1 DEF Prepared
  <2> QED
    BY <2>2, <2>8, <2>10, <2>11 DEF Prepared
<1> QED
  BY <1>3, <1>4 DEF Joined

(* releaseLease() *)
LEMMA ReleasedPrepared ==
    ASSUME DeskOK(desk), NEW r \in active
    PROVE  LET d == [desk EXCEPT !.active = @ \ {r}]
           IN  Prepared(d) /\ d.active = active \ {r} /\ d.limit = limit
<1> DEFINE d == [desk EXCEPT !.active = @ \ {r}]
           a == active \ {r}
<1>1. d = [desk EXCEPT !.active = a]
  BY DeskHas
<1> HIDE DEF a
<1>2. /\ IsDesk(d) /\ d.limit = limit /\ d.queue = fairQueue /\ d.lanes = lanes
      /\ d.active = a /\ d.late = late
  BY <1>1, DeskHas, ExceptDeskActive
<1> HIDE DEF d
<1>3. Waiting(d) = Waiting(desk)
  BY <1>2, DeskHas DEF Waiting
<1>4. /\ desk.limit \in Nat /\ desk.lanes \in Lanes /\ desk.active \in SUBSET Entry
      /\ QueueOK(desk.queue) /\ Sound(desk.lanes) /\ desk.late \subseteq Waiting(desk)
      /\ desk.active \cap Waiting(desk) = {} /\ Entries(desk.queue) \cap Entries(desk.lanes) = {}
  BY DeskParts DEF DeskOK
<1>5. DeskOK(d)
  <2>1. d.limit \in Nat /\ QueueOK(d.queue) /\ d.lanes \in Lanes /\ Sound(d.lanes)
    BY <1>2, <1>4, DeskHas
  <2>2. d.active \in SUBSET Entry /\ d.late \subseteq Waiting(d) /\ d.active \cap Waiting(d) = {}
    BY <1>2, <1>3, <1>4, DeskHas DEF a
  <2>3. Entries(d.queue) \cap Entries(d.lanes) = {}
    BY <1>2, <1>4, DeskHas
  <2> QED
    BY <1>2, <2>1, <2>2, <2>3, DeskFromParts
<1>6. Overdue(fairQueue) \subseteq Entries(fairQueue)
  BY DEF Overdue
<1> QED
  BY <1>2, <1>5, <1>6 DEF Prepared, a, d

(* Another limit *)
LEMMA LimitedPrepared ==
    ASSUME NEW c, Prepared(c), c.active = active, NEW next \in Nat
    PROVE  LET d == [c EXCEPT !.limit = next]
           IN  Prepared(d) /\ d.active = active /\ d.limit = next /\ Waiting(d) = Waiting(c)
<1> DEFINE d == [c EXCEPT !.limit = next]
<1>1. /\ IsDesk(c) /\ c.lanes \in Lanes /\ c.active \in SUBSET Entry
      /\ QueueOK(c.queue) /\ Sound(c.lanes) /\ c.late \subseteq Waiting(c)
      /\ c.active \cap Waiting(c) = {} /\ Entries(c.queue) \cap Entries(c.lanes) = {}
  BY DeskParts DEF Prepared, DeskOK
<1>2. /\ IsDesk(d) /\ d.limit = next /\ d.queue = c.queue /\ d.lanes = c.lanes
      /\ d.active = c.active /\ d.late = c.late
  BY <1>1, ExceptDeskLimit
<1> HIDE DEF d
<1>3. Waiting(d) = Waiting(c)
  BY <1>2 DEF Waiting
<1>4. DeskOK(d)
  BY <1>1, <1>2, <1>3, DeskFromParts
<1> QED
  BY <1>2, <1>3, <1>4 DEF Prepared, d

-----------------------------------------------------------------------------
(* expireEntry() *)
LeftLanes(r) ==
    LET t == TenantOf(lanes, r)
    IN  Closed([lanes EXCEPT !.bucket[t] = Spliced(@, r)], t)

ExpiredDesk(r) ==
    [desk EXCEPT !.late = @ \ {r},
                 !.queue = IF r \in Entries(fairQueue) THEN Removed(@, r) ELSE @,
                 !.lanes = IF r \in InLanes THEN LeftLanes(r) ELSE @]

LEMMA LeftLanesWell ==
    ASSUME Sound(lanes), lanes \in Lanes, NEW r \in InLanes
    PROVE  /\ LeftLanes(r) \in Lanes /\ Sound(LeftLanes(r))
           /\ Entries(LeftLanes(r)) = InLanes \ {r}
<1> DEFINE t == TenantOf(lanes, r)
           s == lanes.bucket[t]
           rest == Spliced(s, r)
           c == Closed([lanes EXCEPT !.bucket[t] = rest], t)
<1>1. t \in TenantKey /\ r \in ToSet(s)
  BY TenantOfEntry DEF InLanes
<1> HIDE DEF t
<1>2. /\ s \in Seq(Entry) /\ IsInjective(s) /\ ToSet(s) \subseteq InLanes
      /\ \A u \in TenantKey : r \in ToSet(lanes.bucket[u]) => u = t
  BY <1>1, InBuckets DEF InLanes
<1>3. s # <<>>
  BY <1>1 DEF ToSet
<1>4. rest \in Seq(Entry) /\ Thins(rest, s) /\ ToSet(rest) = ToSet(s) \ {r}
  BY <1>1, <1>2, SplicedBucket
<1>5. LeftLanes(r) = c
  BY DEF LeftLanes, t
<1> HIDE DEF rest
<1>6. c \in Lanes /\ Sound(c) /\ Entries(c) = (Entries(lanes) \ ToSet(s)) \cup ToSet(rest)
  BY <1>1, <1>3, <1>4, ClosedLane
<1> HIDE DEF c
<1> QED
  BY <1>1, <1>2, <1>4, <1>5, <1>6 DEF InLanes

LEMMA ExpiredPrepared ==
    ASSUME DeskOK(desk), NEW r \in late
    PROVE  /\ Prepared(ExpiredDesk(r)) /\ ExpiredDesk(r).active = active
           /\ ExpiredDesk(r).limit = limit
           /\ r \notin Waiting(ExpiredDesk(r))
<1> DEFINE q == IF r \in Entries(fairQueue) THEN Removed(fairQueue, r) ELSE fairQueue
           l == IF r \in InLanes THEN LeftLanes(r) ELSE lanes
           m == late \ {r}
           e == [desk EXCEPT !.late = m]
           f == [e EXCEPT !.queue = q]
           d == [f EXCEPT !.lanes = l]
<1>1. /\ limit \in Nat /\ lanes \in Lanes /\ active \in SUBSET Entry
      /\ QueueOK(fairQueue) /\ Sound(lanes) /\ late \subseteq Queued
      /\ active \cap Queued = {} /\ Entries(fairQueue) \cap InLanes = {}
      /\ Queued = Entries(fairQueue) \cup InLanes /\ InLanes = Entries(lanes)
  BY DeskHas, DeskParts DEF DeskOK, InLanes, Queued
<1>2. /\ QueueOK(q) /\ Entries(q) = Entries(fairQueue) \ {r}
      /\ q.skips = fairQueue.skips \/ q.skips = [fairQueue.skips EXCEPT ![r] = 0]
  <2>1. CASE r \in Entries(fairQueue)
    BY <1>1, <2>1, RemovedWell
  <2>2. CASE r \notin Entries(fairQueue)
    BY <1>1, <2>2
  <2> QED
    BY <2>1, <2>2
<1>3. l \in Lanes /\ Sound(l) /\ Entries(l) = InLanes \ {r}
  <2>1. CASE r \in InLanes
    BY <1>1, <2>1, LeftLanesWell
  <2>2. CASE r \notin InLanes
    BY <1>1, <2>2
  <2> QED
    BY <2>1, <2>2
<1>4. ExpiredDesk(r) = [desk EXCEPT !.late = m, !.queue = q, !.lanes = l]
  BY DeskHas DEF ExpiredDesk
<1> HIDE DEF q, l, m
<1>5. ExpiredDesk(r) = d
  BY <1>4
<1>6. /\ IsDesk(e) /\ e.limit = limit /\ e.queue = fairQueue /\ e.lanes = lanes
      /\ e.active = active /\ e.late = m
  BY DeskHas, ExceptDeskLate
<1> HIDE DEF e
<1>7. /\ IsDesk(f) /\ f.limit = limit /\ f.queue = q /\ f.lanes = lanes
      /\ f.active = active /\ f.late = m
  BY <1>6, ExceptDeskQueue
<1> HIDE DEF f
<1>8. /\ IsDesk(d) /\ d.limit = limit /\ d.queue = q /\ d.lanes = l
      /\ d.active = active /\ d.late = m
  BY <1>7, ExceptDeskLanes
<1> HIDE DEF d
<1>9. Waiting(d) = Queued \ {r}
  BY <1>1, <1>2, <1>3, <1>8 DEF Waiting
<1>10. DeskOK(d)
  <2>1. d.limit \in Nat /\ QueueOK(d.queue) /\ d.lanes \in Lanes /\ Sound(d.lanes) /\ d.active \in SUBSET Entry
    BY <1>1, <1>2, <1>3, <1>8
  <2>2. d.late \subseteq Waiting(d) /\ d.active \cap Waiting(d) = {}
    BY <1>1, <1>8, <1>9 DEF m
  <2>3. Entries(d.queue) \cap Entries(d.lanes) = {}
    BY <1>1, <1>2, <1>3, <1>8
  <2> QED
    BY <1>8, <2>1, <2>2, <2>3, DeskFromParts
<1>11. Overdue(q) = Overdue(fairQueue) \cap Entries(q)
  <2>1. fairQueue.skips \in [Entry -> Nat] /\ Entries(fairQueue) \subseteq Entry
    BY <1>1, QueueParts, InBuckets
  <2>2. \A s \in Entries(q) : s \in Entries(fairQueue) /\ q.skips[s] = fairQueue.skips[s]
    BY <1>2, <2>1
  <2> QED
    BY <2>2 DEF Overdue
<1>12. late \cap Waiting(d) \subseteq d.late
  BY <1>8, <1>9 DEF m
<1> QED
  BY <1>5, <1>8, <1>9, <1>10, <1>11, <1>12 DEF Prepared

(* evictIdleLanes() *)
LEMMA EvictedPrepared ==
    ASSUME DeskOK(desk), NEW idle
    PROVE  LET d == WithoutLanes(desk, idle)
           IN  /\ Prepared(d) /\ d.active = active /\ d.queue = fairQueue
               /\ Follows(d, desk)
<1> DEFINE d == WithoutLanes(desk, idle)
<1>1. Follows(d, desk) /\ d.queue = desk.queue /\ d.active = desk.active
  BY WithoutLanesFollows
<1> HIDE DEF d
<1>2. DeskOK(d) /\ d.late = desk.late \cap Waiting(d)
  BY <1>1 DEF Follows
<1>3. Overdue(fairQueue) \subseteq Entries(fairQueue)
  BY DEF Overdue
<1> QED
  BY <1>1, <1>2, <1>3, DeskHas DEF Prepared, d

(***************************************************************************)
(* The end of a handler                                                    *)
(***************************************************************************)
Served(d) == Chosen(d.queue, Room(d)) = {}

DeskNext == [limit |-> limit', queue |-> fairQueue', lanes |-> lanes',
             active |-> active', late |-> late']

LEMMA SettleFollows ==
    ASSUME NEW d, DeskOK(d), Settle(d)
    PROVE  /\ Follows(DeskNext, d)
           /\ config'.mode = "enforce" /\ ~shutDown' => Served(DeskNext)
           /\ ~(config'.mode = "enforce" /\ ~shutDown') => active' = d.active
<1> DEFINE w == IF config'.mode = "enforce" /\ ~shutDown' THEN Dispatched(d) ELSE d
<1>1. Follows(w, d) /\ (config'.mode = "enforce" /\ ~shutDown' => Served(w))
  <2>1. CASE config'.mode = "enforce" /\ ~shutDown'
    BY <2>1, DispatchedFollows DEF Served
  <2>2. CASE ~(config'.mode = "enforce" /\ ~shutDown')
    BY <2>2, FollowsSelf
  <2> QED
    BY <2>1, <2>2
<1>2. ~(config'.mode = "enforce" /\ ~shutDown') => w.active = d.active
  OBVIOUS
<1>3. limit' = w.limit /\ fairQueue' = w.queue /\ lanes' = w.lanes /\ active' = w.active /\ late' = w.late
  BY DEF Settle
<1> HIDE DEF w
<1>4. IsDesk(w)
  BY <1>1, DeskParts DEF Follows
<1>5. DeskNext = w
  BY <1>3, <1>4 DEF IsDesk, DeskNext
<1> QED
  BY <1>1, <1>2, <1>3, <1>5

-----------------------------------------------------------------------------
(***************************************************************************)
(* The inductive invariant: the invariants the runs check support each     *)
(* other, and where nothing is dispatched nobody may wait: neither outside *)
(* mode enforce, nor after the shutdown.                                   *)
(***************************************************************************)
ControlInv ==
    /\ ControlTypeOK /\ FairQueueIntegrity /\ ShadowAccounts /\ NobodyStranded
    /\ config.mode # "enforce" \/ shutDown => Queued = {}

(* The same, in the terms of the lemmas, for any values of the variables *)
Legal(conf, lim, press, low, down) ==
    /\ conf \in Configs /\ lim \in conf.min..conf.max
    /\ press \in DOMAIN Severity /\ {low, down} \subseteq BOOLEAN

Settled(conf, down, d, v) ==
    /\ DeskOK(d) /\ BooksOK(v)
    /\ Entry \ d.active \subseteq Deemed(v, "none")
    /\ conf.mode = "enforce" => Served(d)
    /\ Chosen(v.queue, d.limit - v.cost) = {}
    /\ conf.mode # "enforce" \/ down => Waiting(d) = {}

LEMMA ConfigHas ==
    ASSUME NEW c \in Configs
    PROVE  c.min \in Nat \ {0} /\ c.max \in Nat \ {0} /\ c.initial \in Nat /\ c.min <= c.max
BY AdmissionAssumption DEF Config

LEMMA InvIs ==
    ControlInv <=> /\ Legal(config, limit, pressure, lowered, shutDown)
                   /\ Settled(config, shutDown, desk, shadow)
<1> DEFINE Room0 == limit - CostOf(active)
<1>1. /\ IsDesk(desk) /\ desk.limit = limit /\ desk.queue = fairQueue /\ desk.lanes = lanes
      /\ desk.active = active /\ desk.late = late
      /\ Waiting(desk) = Queued
  BY DeskHas
<1>2. NobodyStranded <=> /\ config.mode = "enforce" => Served(desk)
                         /\ Chosen(shadow.queue, limit - shadow.cost) = {}
  BY <1>1 DEF NobodyStranded, Served
<1>3. ASSUME ControlInv
      PROVE  /\ Legal(config, limit, pressure, lowered, shutDown)
             /\ Settled(config, shutDown, desk, shadow)
  <2>1. Legal(config, limit, pressure, lowered, shutDown)
    BY <1>3 DEF ControlInv, ControlTypeOK, Legal
  <2>2. limit \in Nat
    BY <1>3, ConfigHas DEF ControlInv, ControlTypeOK
  <2>3. QueueOK(fairQueue) /\ QueueOK(shadow.queue)
    BY <1>3 DEF ControlInv, ControlTypeOK, FairQueueIntegrity, QueueOK
  <2>4. lanes \in Lanes /\ Sound(lanes)
    BY <1>3 DEF ControlInv, ControlTypeOK, FairQueueIntegrity, Sound, Lanes
  <2>5. active \subseteq Entry /\ late \subseteq Queued /\ active \cap Queued = {}
        /\ Entries(fairQueue) \cap InLanes = {}
    BY <1>3 DEF ControlInv, ControlTypeOK, FairQueueIntegrity
  <2>6. DeskOK(desk)
    <3>1. desk.active \in SUBSET Entry /\ desk.late \subseteq Waiting(desk)
          /\ desk.active \cap Waiting(desk) = {} /\ Entries(desk.queue) \cap Entries(desk.lanes) = {}
      BY <1>1, <2>5 DEF InLanes
    <3> QED
      BY <1>1, <2>2, <2>3, <2>4, <3>1, DeskFromParts
  <2>7. BooksOK(shadow)
    <3>1. shadow \in [queue : Queue, cost : 0..CostOf(Entry), as : [Entry -> Disposition]]
      BY <1>3 DEF ControlInv, ControlTypeOK
    <3>2. IsBooks(shadow) /\ shadow.as \in [Entry -> Disposition]
      BY <3>1 DEF IsBooks
    <3>3. shadow.cost = CostOf(Deemed(shadow, "active")) /\ Entries(shadow.queue) = Deemed(shadow, "queued")
      BY <1>3 DEF ControlInv, ShadowAccounts, Deemed
    <3> QED
      BY <2>3, <3>2, <3>3, BooksFromParts
  <2>8. Entry \ active \subseteq Deemed(shadow, "none")
    BY <1>3 DEF ControlInv, ShadowAccounts, Deemed
  <2> QED
    BY <1>1, <1>2, <1>3, <2>1, <2>6, <2>7, <2>8 DEF Settled, ControlInv
<1>4. ASSUME Legal(config, limit, pressure, lowered, shutDown),
             Settled(config, shutDown, desk, shadow)
      PROVE  ControlInv
  <2>1. DeskOK(desk) /\ BooksOK(shadow)
    BY <1>4 DEF Settled
  <2>2. /\ QueueOK(fairQueue) /\ Sound(lanes) /\ late \subseteq Queued /\ active \cap Queued = {}
        /\ Entries(fairQueue) \cap InLanes = {}
        /\ lanes \in Lanes /\ active \subseteq Entry
    BY <1>1, <2>1, DeskParts DEF DeskOK, InLanes
  <2>3. /\ QueueOK(shadow.queue)
        /\ shadow \in [queue : Queue, cost : 0..CostOf(Entry), as : [Entry -> Disposition]]
    BY <2>1, BooksParts
  <2>4. ControlTypeOK
    BY <1>4, <2>2, <2>3 DEF ControlTypeOK, Legal, QueueOK, Lanes
  <2>5. FairQueueIntegrity
    BY <2>2, <2>3 DEF FairQueueIntegrity, QueueOK, Sound
  <2>6. ShadowAccounts
    BY <1>1, <1>4, <2>1 DEF Settled, BooksOK, ShadowAccounts, Deemed
  <2> QED
    BY <1>1, <1>2, <1>4, <2>4, <2>5, <2>6 DEF Settled, ControlInv
<1> QED
  BY <1>3, <1>4

LEMMA InvNext ==
    ASSUME Legal(config', limit', pressure', lowered', shutDown'),
           Settled(config', shutDown', DeskNext, shadow')
    PROVE  ControlInv'
<1>1. Legal(config, limit, pressure, lowered, shutDown)'
  BY DEF Legal
<1>2. desk' = DeskNext
  BY DEF desk, DeskNext
<1>3. Settled(config, shutDown, desk, shadow)'
  BY <1>2 DEF Settled
<1>4. (ControlInv <=> /\ Legal(config, limit, pressure, lowered, shutDown)
                      /\ Settled(config, shutDown, desk, shadow))'
  BY InvIs, PTL
<1> QED
  BY <1>1, <1>3, <1>4

-----------------------------------------------------------------------------
(***************************************************************************)
(* What the action properties say of a step                                *)
(***************************************************************************)
Fits ==
    Enforces /\ ~(active' \subseteq active) =>
        \/ CostOf(active') <= limit'
        \/ \E r \in Entry : active' = {r} /\ Cost[r] <= config.max

Punctual == Enforces => late \cap active' = {}

Reserves == \A r \in ReservedHeads :
    r \in Entries(fairQueue)' => active' \ active \subseteq ReservedHeads

Retains == config' # config =>
    \A r \in Queued' : config'.mode = "enforce" /\ Cost[r] <= limit'

(* A step of a handler that leaves the configuration alone *)
Proper == ControlInv' /\ Fits /\ Punctual /\ Reserves /\ config' = config

(* Where a handler ends that had this desk *)
Ends(d) ==
    /\ Follows(DeskNext, d)
    /\ config'.mode = "enforce" /\ ~shutDown' => Served(DeskNext)

LEMMA EndsInv ==
    ASSUME NEW d, Ends(d), Legal(config', d.limit, pressure', lowered', shutDown'),
           BooksOK(shadow'), Entry \ d.active \subseteq Deemed(shadow', "none"),
           Chosen(shadow'.queue, d.limit - shadow'.cost) = {},
           config'.mode # "enforce" \/ shutDown' => Waiting(d) = {}
    PROVE  ControlInv'
<1>1. /\ DeskOK(DeskNext) /\ limit' = d.limit /\ d.active \subseteq active'
      /\ Waiting(DeskNext) \subseteq Waiting(d)
  BY DEF Ends, Follows, Waiting, DeskNext
<1>2. DeskNext.limit = limit' /\ DeskNext.active = active'
  BY DEF DeskNext
<1>3. config'.mode = "enforce" => Served(DeskNext)
  <2>1. CASE ~shutDown'
    BY <2>1 DEF Ends
  <2>2. CASE shutDown'
    <3>1. Entries(DeskNext.queue) = {}
      BY <1>1, <2>2 DEF Waiting
    <3>2. QueueOK(DeskNext.queue)
      BY <1>1 DEF DeskOK
    <3> QED
      BY <3>1, <3>2, EmptyChoice DEF Served
  <2> QED
    BY <2>1, <2>2
<1>4. config'.mode # "enforce" \/ shutDown' => Waiting(DeskNext) = {}
  BY <1>1
<1>5. Settled(config', shutDown', DeskNext, shadow')
  BY <1>1, <1>2, <1>3, <1>4 DEF Settled
<1>6. Legal(config', limit', pressure', lowered', shutDown')
  BY <1>1
<1> QED
  BY <1>5, <1>6, InvNext

(* Nobody waits and holds a lease. *)
LEMMA InvHas ==
    ASSUME ControlInv
    PROVE  /\ Legal(config, limit, pressure, lowered, shutDown)
           /\ limit \in Nat /\ config \in Configs
           /\ DeskOK(desk) /\ BooksOK(shadow)
           /\ Entry \ active \subseteq Deemed(shadow, "none")
           /\ config.mode = "enforce" => Served(desk)
           /\ Chosen(shadow.queue, limit - shadow.cost) = {}
           /\ config.mode # "enforce" \/ shutDown => Queued = {}
           /\ QueueOK(fairQueue) /\ Sound(lanes) /\ lanes \in Lanes /\ active \in SUBSET Entry
           /\ late \subseteq Queued /\ active \cap Queued = {} /\ Entries(fairQueue) \cap InLanes = {}
           /\ Queued \subseteq Entry
           /\ ReservedHeads = Overdue(fairQueue)
<1>1. /\ Legal(config, limit, pressure, lowered, shutDown)
      /\ Settled(config, shutDown, desk, shadow)
  BY InvIs
<1>2. DeskOK(desk) /\ BooksOK(shadow)
  BY <1>1 DEF Settled
<1>3. /\ Entry \ active \subseteq Deemed(shadow, "none")
      /\ config.mode = "enforce" => Served(desk)
      /\ Chosen(shadow.queue, limit - shadow.cost) = {}
      /\ config.mode # "enforce" \/ shutDown => Queued = {}
  BY <1>1, DeskHas DEF Settled
<1>4. limit \in Nat /\ config \in Configs
  BY <1>1, ConfigHas DEF Legal
<1>5. /\ QueueOK(fairQueue) /\ Sound(lanes) /\ lanes \in Lanes /\ active \in SUBSET Entry
      /\ late \subseteq Queued /\ active \cap Queued = {} /\ Entries(fairQueue) \cap InLanes = {}
      /\ Queued \subseteq Entry
  BY <1>2, DeskHas, DeskParts DEF DeskOK, InLanes
<1>6. ReservedHeads = Overdue(fairQueue)
  BY <1>5, OverdueHeads DEF ReservedHeads
<1> QED
  BY <1>1, <1>2, <1>3, <1>4, <1>5, <1>6

LEMMA EndsProper ==
    ASSUME ControlInv, NEW d, Prepared(d), Ends(d)
    PROVE  Fits /\ Punctual /\ Reserves
<1>1. /\ d.active \subseteq active /\ late \cap Waiting(d) \subseteq d.late
      /\ Overdue(d.queue) = Overdue(fairQueue) \cap Entries(d.queue)
  BY DEF Prepared
<1>2. /\ limit' = d.limit /\ d.active \subseteq active'
      /\ active' \subseteq d.active \cup (Waiting(d) \ d.late)
      /\ Entries(fairQueue') \subseteq Entries(d.queue)
      /\ active' = d.active \/ CostOf(active') <= d.limit
      /\ \A r \in Overdue(d.queue) : r \in Entries(fairQueue') =>
            active' \ d.active \subseteq Overdue(d.queue)
  BY DEF Ends, Follows, DeskNext
<1>3. late \subseteq Queued /\ active \cap Queued = {} /\ ReservedHeads = Overdue(fairQueue)
  BY InvHas
<1>4. Fits
  BY <1>1, <1>2 DEF Fits
<1>5. Punctual
  BY <1>1, <1>2, <1>3 DEF Punctual
<1>6. Reserves
  BY <1>1, <1>2, <1>3 DEF Reserves
<1> QED
  BY <1>4, <1>5, <1>6

LEMMA SettleEnds ==
    ASSUME NEW d, DeskOK(d), Settle(d)
    PROVE  Ends(d)
BY SettleFollows DEF Ends

-----------------------------------------------------------------------------
(***************************************************************************)
(* Each handler                                                            *)
(***************************************************************************)
LEMMA LegalKept ==
    ASSUME ControlInv, UNCHANGED <<config, pressure, lowered, shutDown>>
    PROVE  Legal(config', limit, pressure', lowered', shutDown')
BY InvHas DEF Legal

LEMMA EnqueueProper ==
    ASSUME ControlInv, NEW r \in Entry, Enqueue(r)
    PROVE  Proper
<1>1. PICK d \in Joined(r) : Settle(Dispatched(d))
  BY DEF Enqueue
<1>2. /\ UNCHANGED <<config, pressure, lowered, shutDown, shadow>>
      /\ Absent(r) /\ config.mode = "enforce" /\ ~shutDown
  BY DEF Enqueue, Asks
<1>3. Prepared(d) /\ d.active = active /\ d.limit = limit
  BY <1>1, <1>2, InvHas, JoinedPrepared
<1>4. Follows(Dispatched(d), d)
  BY <1>3, DispatchedFollows DEF Prepared
<1>5. Ends(Dispatched(d))
  BY <1>1, <1>4, SettleEnds DEF Follows
<1>6. Ends(d)
  BY <1>4, <1>5, FollowsOn DEF Ends
<1>7. Legal(config', d.limit, pressure', lowered', shutDown')
  BY <1>2, <1>3, LegalKept
<1>8. /\ BooksOK(shadow') /\ Entry \ d.active \subseteq Deemed(shadow', "none")
      /\ Chosen(shadow'.queue, d.limit - shadow'.cost) = {}
      /\ config'.mode = "enforce" /\ ~shutDown'
  BY <1>2, <1>3, InvHas
<1>9. ControlInv'
  BY <1>6, <1>7, <1>8, EndsInv
<1> QED
  BY <1>2, <1>3, <1>6, <1>9, EndsProper DEF Proper

(* A request that is admitted when it asks, in mode enforce *)
LEMMA AdmittedProper ==
    ASSUME ControlInv, NEW r \in Entry, Asks(r), Entries(fairQueue) = {},
           active' = active \cup {r},
           \/ Cost[r] <= Room(desk)
           \/ active = {} /\ Cost[r] <= config.max,
           UNCHANGED <<config, limit, pressure, lowered, shutDown, fairQueue, lanes, late, shadow>>
    PROVE  Proper
<1>1. r \notin active /\ r \notin Queued /\ config.mode = "enforce" /\ ~shutDown
  BY DEF Asks, Absent
<1>2. /\ limit \in Nat /\ BooksOK(shadow) /\ Entry \ active \subseteq Deemed(shadow, "none")
      /\ Chosen(shadow.queue, limit - shadow.cost) = {}
      /\ QueueOK(fairQueue) /\ Sound(lanes) /\ lanes \in Lanes /\ active \in SUBSET Entry
      /\ late \subseteq Queued /\ active \cap Queued = {} /\ Entries(fairQueue) \cap InLanes = {}
      /\ ReservedHeads = Overdue(fairQueue) /\ DeskOK(desk)
  BY InvHas
<1>3. /\ IsDesk(DeskNext) /\ DeskNext.limit = limit /\ DeskNext.queue = fairQueue
      /\ DeskNext.lanes = lanes /\ DeskNext.active = active \cup {r} /\ DeskNext.late = late
  BY DEF DeskNext, IsDesk
<1>4. Waiting(DeskNext) = Queued
  BY <1>3 DEF Waiting, Queued, InLanes
<1>5. DeskOK(DeskNext)
  <2>1. /\ DeskNext.active \in SUBSET Entry /\ DeskNext.late \subseteq Waiting(DeskNext)
        /\ DeskNext.active \cap Waiting(DeskNext) = {}
    BY <1>1, <1>2, <1>3, <1>4
  <2>2. Entries(DeskNext.queue) \cap Entries(DeskNext.lanes) = {}
    BY <1>2, <1>3 DEF InLanes
  <2> QED
    BY <1>2, <1>3, <2>1, <2>2, DeskFromParts
<1>6. Served(DeskNext)
  BY <1>2, <1>3, EmptyChoice DEF Served
<1>7. Settled(config', shutDown', DeskNext, shadow')
  BY <1>1, <1>2, <1>3, <1>5, <1>6 DEF Settled
<1>8. ControlInv'
  <2>1. Legal(config', limit', pressure', lowered', shutDown')
    BY LegalKept
  <2> QED
    BY <1>7, <2>1, InvNext
<1>9. Fits
  <2>1. CASE Cost[r] <= Room(desk)
    <3>1. CostOf(active') = CostOf(active) + Cost[r] /\ CostOf(active) \in Nat
      BY <1>1, <1>2, CostOfAdd
    <3>2. Room(desk) = limit - CostOf(active)
      BY DeskHas DEF Room
    <3>3. CostOf(active') <= limit
      BY <1>2, <2>1, <3>1, <3>2, CostAssumption
    <3> QED
      BY <3>3 DEF Fits
  <2>2. CASE active = {} /\ Cost[r] <= config.max
    <3>1. active' = {r}
      BY <2>2
    <3> QED
      BY <2>2, <3>1 DEF Fits
  <2> QED
    BY <2>1, <2>2
<1>10. Punctual
  BY <1>1, <1>2 DEF Punctual
<1>11. Reserves
  BY <1>2 DEF Reserves, Overdue
<1> QED
  BY <1>8, <1>9, <1>10, <1>11 DEF Proper

LEMMA AdmitSoloProper ==
    ASSUME ControlInv, NEW r \in Entry, AdmitSolo(r)
    PROVE  Proper
<1>1. Entries(fairQueue) = {} /\ active = {} /\ active' = active \cup {r} /\ Asks(r)
      /\ Cost[r] <= config.max
  BY DEF AdmitSolo, Queued
<1> QED
  BY <1>1, AdmittedProper DEF AdmitSolo

LEMMA AdmitAtOnceProper ==
    ASSUME ControlInv, NEW r \in Entry, AdmitAtOnce(r)
    PROVE  Proper
<1>1. Asks(r) /\ fairQueue.order = <<>> /\ Cost[r] <= Room(desk)
  BY DEF AdmitAtOnce, FitsNow
<1>2. Entries(fairQueue) = {}
  BY <1>1, InvHas, EmptyChoice
<1> QED
  BY <1>1, <1>2, AdmittedProper DEF AdmitAtOnce

-----------------------------------------------------------------------------
LEMMA AcquireShadowProper ==
    ASSUME ControlInv, NEW r \in Entry, AcquireShadow(r)
    PROVE  Proper
<1>1. /\ config.mode = "shadow" /\ ~shutDown /\ r \notin active /\ r \notin Queued
      /\ active' = active \cup {r} /\ shadow' = Judged(shadow, r, Tenant[r], limit)
      /\ UNCHANGED <<config, limit, pressure, lowered, shutDown, fairQueue, lanes, late>>
  BY DEF AcquireShadow, Absent
<1>2. /\ limit \in Nat /\ BooksOK(shadow) /\ Entry \ active \subseteq Deemed(shadow, "none")
      /\ Chosen(shadow.queue, limit - shadow.cost) = {} /\ Queued = {}
      /\ QueueOK(fairQueue) /\ Sound(lanes) /\ lanes \in Lanes /\ active \in SUBSET Entry
      /\ late \subseteq Queued /\ Entries(fairQueue) \cap InLanes = {}
      /\ ReservedHeads = Overdue(fairQueue)
  BY <1>1, InvHas
<1>3. /\ IsDesk(DeskNext) /\ DeskNext.limit = limit /\ DeskNext.queue = fairQueue
      /\ DeskNext.lanes = lanes /\ DeskNext.active = active \cup {r} /\ DeskNext.late = late
  BY <1>1 DEF DeskNext, IsDesk
<1>4. Waiting(DeskNext) = {}
  BY <1>2, <1>3 DEF Waiting, Queued, InLanes
<1>5. DeskOK(DeskNext)
  <2>1. /\ DeskNext.active \in SUBSET Entry /\ DeskNext.late \subseteq Waiting(DeskNext)
        /\ DeskNext.active \cap Waiting(DeskNext) = {}
    BY <1>2, <1>3, <1>4
  <2>2. Entries(DeskNext.queue) \cap Entries(DeskNext.lanes) = {}
    BY <1>2, <1>3 DEF InLanes
  <2> QED
    BY <1>2, <1>3, <2>1, <2>2, DeskFromParts
<1>6. /\ BooksOK(shadow') /\ Deemed(shadow', "none") = Deemed(shadow, "none") \ {r}
      /\ Chosen(shadow'.queue, limit - shadow'.cost) = {}
  <2>1. r \in Deemed(shadow, "none") /\ Tenant[r] \in TenantKey /\ limit \in Int
    BY <1>1, <1>2, AdmissionAssumption
  <2> QED
    BY <1>1, <1>2, <2>1, JudgedKeeps
<1>7. Settled(config', shutDown', DeskNext, shadow')
  BY <1>1, <1>2, <1>3, <1>4, <1>5, <1>6 DEF Settled
<1>8. ControlInv'
  <2>1. Legal(config', limit', pressure', lowered', shutDown')
    BY <1>1, LegalKept
  <2> QED
    BY <1>7, <2>1, InvNext
<1>9. Fits /\ Punctual
  BY <1>1 DEF Fits, Punctual, Enforces
<1>10. Reserves
  BY <1>2 DEF Reserves, Overdue, Queued
<1> QED
  BY <1>1, <1>8, <1>9, <1>10 DEF Proper

LEMMA ReleaseLeaseProper ==
    ASSUME ControlInv, NEW r \in Entry, ReleaseLease(r)
    PROVE  Proper
<1> DEFINE d == [desk EXCEPT !.active = @ \ {r}]
<1>1. /\ UNCHANGED <<config, pressure, lowered, shutDown>> /\ r \in active
      /\ shadow' = VirtualServed(Struck(shadow, r), limit) /\ Settle(d)
  BY DEF ReleaseLease
<1>2. /\ limit \in Nat /\ BooksOK(shadow) /\ Entry \ active \subseteq Deemed(shadow, "none")
      /\ DeskOK(desk)
      /\ config.mode # "enforce" \/ shutDown => Queued = {}
  BY InvHas
<1>3. Prepared(d) /\ d.active = active \ {r} /\ d.limit = limit
  <2>1. DeskOK(desk) /\ r \in active
    BY <1>1, <1>2
  <2> QED
    BY <2>1, ReleasedPrepared
<1>4. Waiting(d) = Queued
  BY DeskHas DEF desk, Waiting, Queued, InLanes
<1> HIDE DEF d
<1>5. Ends(d)
  BY <1>1, <1>3, SettleEnds DEF Prepared
<1>6. /\ BooksOK(shadow') /\ Entry \ d.active \subseteq Deemed(shadow', "none")
      /\ Chosen(shadow'.queue, d.limit - shadow'.cost) = {}
  <2>1. BooksOK(Struck(shadow, r)) /\ Deemed(Struck(shadow, r), "none") = Deemed(shadow, "none") \cup {r}
    BY <1>2, StruckKeeps
  <2>2. /\ Keeps(shadow', Struck(shadow, r))
        /\ Chosen(shadow'.queue, limit - shadow'.cost) = {}
    BY <1>1, <1>2, <2>1, VirtualServedKeeps
  <2> QED
    BY <1>2, <1>3, <2>1, <2>2 DEF Keeps
<1>7. Legal(config', d.limit, pressure', lowered', shutDown')
  BY <1>1, <1>3, LegalKept
<1>8. config'.mode # "enforce" \/ shutDown' => Waiting(d) = {}
  <2>1. config' = config /\ shutDown' = shutDown
    BY <1>1
  <2> QED
    BY <1>2, <1>4, <2>1
<1>9. ControlInv'
  BY <1>5, <1>6, <1>7, <1>8, EndsInv
<1> QED
  BY <1>1, <1>3, <1>5, <1>9, EndsProper DEF Proper

LEMMA LapseProper ==
    ASSUME ControlInv, NEW r \in Entry, Lapse(r)
    PROVE  Proper
<1>1. /\ r \in Queued /\ late' = late \cup {r}
      /\ UNCHANGED <<config, limit, pressure, lowered, shutDown, fairQueue, lanes, active, shadow>>
  BY DEF Lapse
<1>2. /\ limit \in Nat /\ BooksOK(shadow) /\ Entry \ active \subseteq Deemed(shadow, "none")
      /\ Chosen(shadow.queue, limit - shadow.cost) = {}
      /\ config.mode = "enforce" => Served(desk)
      /\ config.mode # "enforce" \/ shutDown => Queued = {}
      /\ QueueOK(fairQueue) /\ Sound(lanes) /\ lanes \in Lanes /\ active \in SUBSET Entry
      /\ late \subseteq Queued /\ active \cap Queued = {} /\ Entries(fairQueue) \cap InLanes = {}
  BY InvHas
<1>3. /\ IsDesk(DeskNext) /\ DeskNext.limit = limit /\ DeskNext.queue = fairQueue
      /\ DeskNext.lanes = lanes /\ DeskNext.active = active /\ DeskNext.late = late \cup {r}
  BY <1>1 DEF DeskNext, IsDesk
<1>4. Waiting(DeskNext) = Queued
  BY <1>3 DEF Waiting, Queued, InLanes
<1>5. DeskOK(DeskNext)
  <2>1. DeskNext.late \subseteq Waiting(DeskNext) /\ DeskNext.active \cap Waiting(DeskNext) = {}
    BY <1>1, <1>2, <1>3, <1>4
  <2>2. Entries(DeskNext.queue) \cap Entries(DeskNext.lanes) = {}
    BY <1>2, <1>3 DEF InLanes
  <2> QED
    BY <1>2, <1>3, <2>1, <2>2, DeskFromParts
<1>6. config.mode = "enforce" => Served(DeskNext)
  BY <1>2, <1>3, DeskHas DEF Served, Room
<1>7. Settled(config', shutDown', DeskNext, shadow')
  BY <1>1, <1>2, <1>3, <1>4, <1>5, <1>6 DEF Settled
<1>8. ControlInv'
  <2>1. Legal(config', limit', pressure', lowered', shutDown')
    BY <1>1, LegalKept
  <2> QED
    BY <1>7, <2>1, InvNext
<1>9. Fits /\ Punctual /\ Reserves
  BY <1>1, <1>2 DEF Fits, Punctual, Reserves
<1> QED
  BY <1>1, <1>8, <1>9 DEF Proper

LEMMA ExpireProper ==
    ASSUME ControlInv, NEW r \in Entry, Expire(r)
    PROVE  Proper
<1> DEFINE d == ExpiredDesk(r)
<1>1. /\ UNCHANGED <<config, pressure, lowered, shutDown, shadow>> /\ r \in late /\ Settle(d)
  BY DEF Expire, ExpiredDesk, LeftLanes
<1>2. /\ limit \in Nat /\ BooksOK(shadow) /\ Entry \ active \subseteq Deemed(shadow, "none")
      /\ Chosen(shadow.queue, limit - shadow.cost) = {}
      /\ DeskOK(desk)
      /\ config.mode # "enforce" \/ shutDown => Queued = {}
      /\ late \subseteq Queued
  BY InvHas
<1>3. Prepared(d) /\ d.active = active /\ d.limit = limit
  <2>1. DeskOK(desk) /\ r \in late
    BY <1>1, <1>2
  <2> QED
    BY <2>1, ExpiredPrepared
<1> HIDE DEF d
<1>4. Ends(d)
  BY <1>1, <1>3, SettleEnds DEF Prepared
<1>5. config'.mode = "enforce" /\ ~shutDown'
  <2>1. config' = config /\ shutDown' = shutDown /\ Queued # {}
    BY <1>1, <1>2
  <2> QED
    BY <1>2, <2>1
<1>6. ControlInv'
  <2>1. Legal(config', d.limit, pressure', lowered', shutDown')
    BY <1>1, <1>3, LegalKept
  <2>2. /\ BooksOK(shadow') /\ Entry \ d.active \subseteq Deemed(shadow', "none")
        /\ Chosen(shadow'.queue, d.limit - shadow'.cost) = {}
    BY <1>1, <1>2, <1>3
  <2> QED
    BY <1>4, <1>5, <2>1, <2>2, EndsInv
<1> QED
  BY <1>1, <1>3, <1>4, <1>6, EndsProper DEF Proper

-----------------------------------------------------------------------------
(* Limits *)
LEMMA ClampIn ==
    ASSUME NEW n \in Int, NEW c \in Configs
    PROVE  Clamp(n, c) \in c.min..c.max /\ Clamp(n, c) \in Nat
BY ConfigHas DEF Clamp

LEMMA HalvedIn ==
    ASSUME config \in Configs, NEW n \in Nat
    PROVE  Halved(n) \in config.min..config.max /\ Eased(n) \in config.min..config.max
           /\ Halved(n) \in Nat /\ Eased(n) \in Nat
<1>1. n \div 2 \in Int /\ (4 * n) \div 5 \in Int
  OBVIOUS
<1> QED
  BY <1>1, ClampIn DEF Halved, Eased

LEMMA NextLimitsIn ==
    ASSUME ControlInv, NEW next \in NextLimits
    PROVE  next \in config.min..config.max /\ next \in Nat
<1> DEFINE ceiling == Clamp(config.initial, config)
           more(n) == Clamp(Min({ceiling, n + 1}), config)
           eased == Eased(limit)
<1>1. /\ limit \in Nat /\ config \in Configs /\ limit \in config.min..config.max
      /\ pressure \in DOMAIN Severity
  BY InvHas DEF Legal
<1>2. ceiling \in Nat
  BY <1>1, ConfigHas, ClampIn
<1>3. ASSUME NEW n \in Nat PROVE more(n) \in config.min..config.max
  <2>1. Min({ceiling, n + 1}) \in {ceiling, n + 1}
    <3>1. \E x \in {ceiling, n + 1} : \A y \in {ceiling, n + 1} : x <= y
      <4> HIDE DEF ceiling
      <4> QED
        BY <1>2
    <3> QED
      BY <3>1 DEF Min
  <2> HIDE DEF ceiling
  <2>2. Min({ceiling, n + 1}) \in Int
    BY <1>2, <2>1
  <2> QED
    BY <1>1, <2>2, ClampIn
<1>4. eased \in Nat /\ eased \in config.min..config.max
      /\ Halved(limit) \in config.min..config.max /\ Clamp(limit + 1, config) \in config.min..config.max
  BY <1>1, HalvedIn, ClampIn
<1>5. more(limit) \in config.min..config.max /\ more(eased) \in config.min..config.max
  BY <1>1, <1>3, <1>4
<1>6. pressure \in {"normal", "high", "critical"}
  BY <1>1 DEF Severity
<1>7. next \in {limit, Halved(limit), eased, more(eased), Clamp(limit + 1, config), more(limit)}
  <2>1. CASE pressure = "critical"
    BY <2>1 DEF NextLimits
  <2>2. CASE pressure = "high"
    BY <2>2 DEF NextLimits
  <2>3. CASE pressure = "normal"
    BY <2>3 DEF NextLimits
  <2> QED
    BY <1>6, <2>1, <2>2, <2>3
<1> HIDE DEF more, eased
<1>8. next \in config.min..config.max
  BY <1>1, <1>4, <1>5, <1>7
<1> QED
  BY <1>1, <1>8, ConfigHas

-----------------------------------------------------------------------------
LEMMA ObservePressureProper ==
    ASSUME ControlInv, NEW p \in DOMAIN Severity, ObservePressure(p)
    PROVE  Proper
<1>1. UNCHANGED <<config, shutDown>> /\ pressure' \in {p, pressure}
  BY DEF ObservePressure
<1>2. /\ limit \in Nat /\ config \in Configs /\ DeskOK(desk)
      /\ BooksOK(shadow) /\ Entry \ active \subseteq Deemed(shadow, "none")
      /\ Chosen(shadow.queue, limit - shadow.cost) = {}
      /\ config.mode = "enforce" => Served(desk)
      /\ config.mode # "enforce" \/ shutDown => Queued = {}
      /\ Legal(config, limit, pressure, lowered, shutDown)
  BY InvHas
<1>3. CASE p = "critical" /\ ~lowered
  <2> DEFINE next == Halved(limit)
             d == [desk EXCEPT !.limit = next]
  <2>1. lowered' = TRUE /\ shadow' = VirtualServed(shadow, next) /\ Settle(d)
    BY <1>3 DEF ObservePressure
  <2>2. next \in Nat /\ next \in config.min..config.max
    BY <1>2, HalvedIn
  <2> HIDE DEF next
  <2>3. Prepared(d) /\ d.active = active /\ d.limit = next /\ Waiting(d) = Queued
    <3>1. Prepared(desk) /\ desk.active = active /\ Waiting(desk) = Queued
      BY <1>2, DeskPrepared, DeskHas
    <3> QED
      BY <2>2, <3>1, LimitedPrepared
  <2> HIDE DEF d
  <2>4. Ends(d)
    BY <2>1, <2>3, SettleEnds DEF Prepared
  <2>5. Legal(config', d.limit, pressure', lowered', shutDown')
    BY <1>1, <1>2, <2>1, <2>2, <2>3 DEF Legal
  <2>6. /\ BooksOK(shadow') /\ Entry \ d.active \subseteq Deemed(shadow', "none")
        /\ Chosen(shadow'.queue, d.limit - shadow'.cost) = {}
    <3>1. Keeps(shadow', shadow) /\ Chosen(shadow'.queue, next - shadow'.cost) = {}
      BY <1>2, <2>1, <2>2, VirtualServedKeeps
    <3> QED
      BY <1>2, <2>3, <3>1 DEF Keeps
  <2>7. config'.mode # "enforce" \/ shutDown' => Waiting(d) = {}
    BY <1>1, <1>2, <2>3
  <2>8. ControlInv'
    BY <2>4, <2>5, <2>6, <2>7, EndsInv
  <2> QED
    BY <1>1, <2>3, <2>4, <2>8, EndsProper DEF Proper
<1>4. CASE ~(p = "critical" /\ ~lowered)
  <2>1. UNCHANGED <<lowered, shadow, limit, fairQueue, lanes, active, late>>
    BY <1>4 DEF ObservePressure
  <2>2. DeskNext = desk
    BY <2>1 DEF DeskNext, desk
  <2>3. Ends(desk) /\ Prepared(desk)
    BY <1>1, <1>2, <2>2, FollowsSelf, DeskPrepared DEF Ends
  <2>4. Legal(config', desk.limit, pressure', lowered', shutDown')
    BY <1>1, <1>2, <2>1, DeskHas DEF Legal
  <2>5. /\ BooksOK(shadow') /\ Entry \ desk.active \subseteq Deemed(shadow', "none")
        /\ Chosen(shadow'.queue, desk.limit - shadow'.cost) = {}
    BY <1>2, <2>1, DeskHas
  <2>6. config'.mode # "enforce" \/ shutDown' => Waiting(desk) = {}
    BY <1>1, <1>2, DeskHas
  <2>7. ControlInv'
    BY <2>3, <2>4, <2>5, <2>6, EndsInv
  <2> QED
    BY <1>1, <2>3, <2>7, EndsProper DEF Proper
<1> QED
  BY <1>3, <1>4

LEMMA TickProper ==
    ASSUME ControlInv, Tick
    PROVE  Proper
<1>1. PICK next \in NextLimits, idle \in SUBSET ToSet(lanes.order) :
        /\ shadow' = VirtualServed(shadow, next)
        /\ Settle([WithoutLanes(desk, idle) EXCEPT !.limit = next])
  BY DEF Tick
<1>2. UNCHANGED <<config, shutDown>> /\ pressure' = "normal" /\ lowered' = FALSE
  BY DEF Tick
<1>3. /\ DeskOK(desk)
      /\ BooksOK(shadow) /\ Entry \ active \subseteq Deemed(shadow, "none")
      /\ config.mode # "enforce" \/ shutDown => Queued = {}
      /\ Legal(config, limit, pressure, lowered, shutDown)
  BY InvHas
<1>4. next \in config.min..config.max /\ next \in Nat
  BY NextLimitsIn
<1> DEFINE c == WithoutLanes(desk, idle)
           d == [c EXCEPT !.limit = next]
<1>5. Prepared(c) /\ c.active = active /\ Waiting(c) \subseteq Queued
  <2>1. Prepared(c) /\ c.active = active /\ Follows(c, desk)
    BY <1>3, EvictedPrepared
  <2>2. Waiting(c) \subseteq Waiting(desk)
    BY <2>1 DEF Follows, Waiting
  <2> QED
    BY <2>1, <2>2, DeskHas
<1>6. Settle(d)
  BY <1>1
<1> HIDE DEF c
<1>7. Prepared(d) /\ d.active = active /\ d.limit = next /\ Waiting(d) = Waiting(c)
  BY <1>4, <1>5, LimitedPrepared
<1> HIDE DEF d
<1>8. Ends(d)
  BY <1>6, <1>7, SettleEnds DEF Prepared
<1>9. Legal(config', d.limit, pressure', lowered', shutDown')
  <2>1. "normal" \in DOMAIN Severity
    BY DEF Severity
  <2> QED
    BY <1>2, <1>3, <1>4, <1>7, <2>1 DEF Legal
<1>10. /\ BooksOK(shadow') /\ Entry \ d.active \subseteq Deemed(shadow', "none")
       /\ Chosen(shadow'.queue, d.limit - shadow'.cost) = {}
  <2>1. Keeps(shadow', shadow) /\ Chosen(shadow'.queue, next - shadow'.cost) = {}
    BY <1>1, <1>3, <1>4, VirtualServedKeeps
  <2> QED
    BY <1>3, <1>7, <2>1 DEF Keeps
<1>11. config'.mode # "enforce" \/ shutDown' => Waiting(d) = {}
  BY <1>2, <1>3, <1>5, <1>7
<1>12. ControlInv'
  BY <1>8, <1>9, <1>10, <1>11, EndsInv
<1> QED
  BY <1>2, <1>7, <1>8, <1>12, EndsProper DEF Proper

LEMMA EvictIdleLanesProper ==
    ASSUME ControlInv, EvictIdleLanes
    PROVE  Proper
<1>1. PICK idle : LET left == WithoutLanes(desk, idle) IN lanes' = left.lanes /\ late' = left.late
  BY DEF EvictIdleLanes
<1>2. UNCHANGED <<config, limit, pressure, lowered, shutDown, fairQueue, active, shadow>>
  BY DEF EvictIdleLanes
<1>3. /\ DeskOK(desk) /\ BooksOK(shadow) /\ Entry \ active \subseteq Deemed(shadow, "none")
      /\ Chosen(shadow.queue, limit - shadow.cost) = {}
      /\ config.mode = "enforce" => Served(desk)
      /\ config.mode # "enforce" \/ shutDown => Queued = {}
  BY InvHas
<1> DEFINE d == WithoutLanes(desk, idle)
<1>4. lanes' = d.lanes /\ late' = d.late
  BY <1>1
<1>5. Prepared(d) /\ d.active = active /\ d.queue = fairQueue /\ Follows(d, desk)
  BY <1>3, EvictedPrepared
<1> HIDE DEF d
<1>6. IsDesk(d) /\ d.limit = limit /\ DeskOK(d)
  BY <1>5, DeskParts, DeskHas DEF Prepared, Follows
<1>7. DeskNext = d
  BY <1>2, <1>4, <1>5, <1>6 DEF DeskNext, IsDesk
<1>8. Served(desk) <=> Served(d)
  BY <1>5, <1>6, DeskHas DEF Served, Room
<1>9. Ends(d)
  BY <1>2, <1>3, <1>6, <1>7, <1>8, FollowsSelf DEF Ends
<1>10. Legal(config', d.limit, pressure', lowered', shutDown')
  BY <1>2, <1>6, LegalKept
<1>11. config'.mode # "enforce" \/ shutDown' => Waiting(d) = {}
  <2>1. Waiting(d) \subseteq Waiting(desk)
    BY <1>5 DEF Follows, Waiting
  <2> QED
    BY <1>2, <1>3, <2>1, DeskHas
<1>12. ControlInv'
  <2>1. /\ BooksOK(shadow') /\ Entry \ d.active \subseteq Deemed(shadow', "none")
        /\ Chosen(shadow'.queue, d.limit - shadow'.cost) = {}
    BY <1>2, <1>3, <1>5, <1>6
  <2> QED
    BY <1>9, <1>10, <1>11, <2>1, EndsInv
<1> QED
  BY <1>2, <1>5, <1>9, <1>12, EndsProper DEF Proper

LEMMA ShutdownProper ==
    ASSUME ControlInv, Shutdown
    PROVE  Proper
<1>1. /\ shutDown' = TRUE /\ fairQueue' = EmptyQueue /\ lanes' = NoBuckets /\ late' = {}
      /\ UNCHANGED <<config, limit, pressure, lowered, active, shadow>>
  BY DEF Shutdown
<1>2. /\ DeskOK(desk) /\ BooksOK(shadow) /\ Entry \ active \subseteq Deemed(shadow, "none")
      /\ Chosen(shadow.queue, limit - shadow.cost) = {} /\ limit \in Nat /\ active \in SUBSET Entry
      /\ Legal(config, limit, pressure, lowered, shutDown)
  BY InvHas
<1>3. /\ IsDesk(DeskNext) /\ DeskNext.limit = limit /\ DeskNext.queue = EmptyQueue
      /\ DeskNext.lanes = NoBuckets /\ DeskNext.active = active /\ DeskNext.late = {}
  BY <1>1 DEF DeskNext, IsDesk
<1>4. /\ QueueOK(EmptyQueue) /\ Entries(EmptyQueue) = {} /\ Sound(NoBuckets)
      /\ Entries(NoBuckets) = {} /\ NoBuckets \in Lanes
  BY EmptyWell DEF Lanes
<1>5. Waiting(DeskNext) = {}
  BY <1>3, <1>4 DEF Waiting
<1>6. DeskOK(DeskNext)
  BY <1>2, <1>3, <1>4, <1>5, DeskFromParts
<1>7. Served(DeskNext)
  BY <1>3, <1>4, EmptyChoice DEF Served
<1>8. Settled(config', shutDown', DeskNext, shadow')
  BY <1>1, <1>2, <1>3, <1>5, <1>6, <1>7 DEF Settled
<1>9. ControlInv'
  <2>1. Legal(config', limit', pressure', lowered', shutDown')
    BY <1>1, <1>2 DEF Legal
  <2> QED
    BY <1>8, <2>1, InvNext
<1>10. Fits /\ Reserves
  BY <1>1 DEF Fits, Reserves
<1>11. Punctual
  BY <1>1, InvHas DEF Punctual
<1> QED
  BY <1>1, <1>9, <1>10, <1>11 DEF Proper

-----------------------------------------------------------------------------
(* The desk of updateConfig() *)
LEMMA ConfiguredDesk ==
    ASSUME NEW max \in Nat, NEW waiting, QueueOK(waiting), NEW holding \in SUBSET Entry,
           holding \cap Entries(waiting) = {}
    PROVE  LET d == [limit |-> max, queue |-> waiting, lanes |-> NoBuckets, active |-> holding,
                     late |-> late \cap Entries(waiting)]
           IN  /\ DeskOK(d) /\ d.limit = max /\ d.active = holding
               /\ d.late = late \cap Waiting(d) /\ Waiting(d) = Entries(waiting)
<1> DEFINE d == [limit |-> max, queue |-> waiting, lanes |-> NoBuckets, active |-> holding,
                 late |-> late \cap Entries(waiting)]
<1>1. /\ IsDesk(d) /\ d.limit = max /\ d.queue = waiting /\ d.lanes = NoBuckets
      /\ d.active = holding /\ d.late = late \cap Entries(waiting)
  BY DEF IsDesk
<1> HIDE DEF d
<1>2. Sound(NoBuckets) /\ Entries(NoBuckets) = {} /\ NoBuckets \in Lanes
  BY EmptyWell DEF Lanes
<1>3. Waiting(d) = Entries(waiting)
  BY <1>1, <1>2 DEF Waiting
<1>4. DeskOK(d)
  BY <1>1, <1>2, <1>3, DeskFromParts
<1> QED
  BY <1>1, <1>3, <1>4 DEF d

LEMMA UpdateConfigKeeps ==
    ASSUME ControlInv, NEW c \in Configs, UpdateConfig(c)
    PROVE  ControlInv' /\ Fits /\ Punctual /\ Retains
<1> DEFINE max == Clamp(limit, c)
           open == c.mode # "enforce"
           again == IF open THEN {EmptyQueue} ELSE {Requeued(max)}
           holding == IF open THEN active \cup Queued ELSE active
<1>1. /\ config' = c /\ pressure' = "normal" /\ lowered' = FALSE /\ shutDown' = shutDown
      /\ IF c.mode = "shadow" THEN shadow' \in Rebuilt(holding, max) ELSE shadow' = NoShadow
  BY DEF UpdateConfig
<1>2. PICK q \in again : \E waiting \in SinceBefore(q) :
        Settle([limit |-> max, queue |-> waiting, lanes |-> NoBuckets, active |-> holding,
                late |-> late \cap Entries(waiting)])
  BY DEF UpdateConfig
<1>2a. PICK waiting \in SinceBefore(q) :
        Settle([limit |-> max, queue |-> waiting, lanes |-> NoBuckets, active |-> holding,
                late |-> late \cap Entries(waiting)])
  BY <1>2
<1>3. /\ limit \in Nat /\ QueueOK(fairQueue) /\ Sound(lanes) /\ active \in SUBSET Entry
      /\ late \subseteq Queued /\ active \cap Queued = {} /\ Entries(fairQueue) \cap InLanes = {}
      /\ Queued \subseteq Entry
      /\ config.mode # "enforce" \/ shutDown => Queued = {}
      /\ Legal(config, limit, pressure, lowered, shutDown)
  BY InvHas
<1>4. max \in Nat /\ max \in c.min..c.max
  BY <1>3, ClampIn
<1> HIDE DEF max
<1>5. /\ QueueOK(q) /\ Entries(q) \subseteq Queued /\ (open => Entries(q) = {})
      /\ \A r \in Entries(q) : Cost[r] <= max
  <2>1. CASE open
    BY <2>1, EmptyWell
  <2>2. CASE ~open
    BY <1>3, <2>2, RequeuedWell
  <2> QED
    BY <2>1, <2>2
<1>6. QueueOK(waiting) /\ Entries(waiting) = Entries(q)
  BY <1>5, SinceBeforeWell
<1>7. holding \in SUBSET Entry /\ holding \cap Entries(waiting) = {} /\ active \subseteq holding
  BY <1>3, <1>5, <1>6
<1>8. ~open => holding = active
  OBVIOUS
<1> HIDE DEF holding
<1> DEFINE d == [limit |-> max, queue |-> waiting, lanes |-> NoBuckets, active |-> holding,
                 late |-> late \cap Entries(waiting)]
<1>9. /\ DeskOK(d) /\ d.limit = max /\ d.active = holding
      /\ d.late = late \cap Waiting(d) /\ Waiting(d) = Entries(waiting)
  BY <1>4, <1>6, <1>7, ConfiguredDesk
<1>10. Settle(d)
  BY <1>2a
<1> HIDE DEF d
<1>11. Ends(d)
  BY <1>9, <1>10, SettleEnds
<1>12. Legal(config', d.limit, pressure', lowered', shutDown')
  <2>1. "normal" \in DOMAIN Severity
    BY DEF Severity
  <2> QED
    BY <1>1, <1>3, <1>4, <1>9, <2>1 DEF Legal
<1>13. /\ BooksOK(shadow') /\ Entry \ d.active \subseteq Deemed(shadow', "none")
       /\ Chosen(shadow'.queue, d.limit - shadow'.cost) = {}
  <2>1. CASE c.mode = "shadow"
    <3>1. shadow' \in Rebuilt(holding, max)
      BY <1>1, <2>1
    <3> QED
      BY <1>4, <1>7, <1>9, <3>1, RebuiltKeeps
  <2>2. CASE c.mode # "shadow"
    <3>1. shadow' = NoShadow /\ NoShadow.queue = EmptyQueue
      BY <1>1, <2>2 DEF NoShadow
    <3>2. BooksOK(NoShadow) /\ Deemed(NoShadow, "none") = Entry
      BY NoShadowOK
    <3>3. \A room : Chosen(EmptyQueue, room) = {}
      BY EmptyWell, EmptyChoice
    <3> QED
      BY <3>1, <3>2, <3>3
  <2> QED
    BY <2>1, <2>2
<1>14. config'.mode # "enforce" \/ shutDown' => Waiting(d) = {}
  BY <1>1, <1>3, <1>5, <1>6, <1>9
<1>15. ControlInv'
  BY <1>11, <1>12, <1>13, <1>14, EndsInv
<1>16. /\ limit' = max /\ d.active \subseteq active'
       /\ active' \subseteq holding \cup (Waiting(d) \ d.late)
       /\ active' = holding \/ CostOf(active') <= limit'
       /\ Queued' \subseteq Waiting(d)
  BY <1>9, <1>11 DEF Ends, Follows, DeskNext, Waiting, Queued, InLanes
<1>17. Enforces => holding = active
  BY <1>1, <1>8 DEF Enforces
<1>18. Fits
  BY <1>16, <1>17 DEF Fits
<1>19. Punctual
  BY <1>3, <1>9, <1>16, <1>17 DEF Punctual
<1>20. Retains
  BY <1>1, <1>5, <1>6, <1>9, <1>16 DEF Retains
<1> QED
  BY <1>15, <1>18, <1>19, <1>20

-----------------------------------------------------------------------------
LEMMA ControlInit_Inv ==
    ASSUME ControlInit
    PROVE  ControlInv
<1>1. /\ config \in Configs /\ limit = Clamp(config.initial, config) /\ pressure = "normal"
      /\ lowered = FALSE /\ shutDown = FALSE /\ fairQueue = EmptyQueue /\ lanes = NoBuckets
      /\ active = {} /\ late = {} /\ shadow = NoShadow
  BY DEF ControlInit
<1>2. limit \in config.min..config.max /\ limit \in Nat
  BY <1>1, ConfigHas, ClampIn
<1>3. Legal(config, limit, pressure, lowered, shutDown)
  <2>1. "normal" \in DOMAIN Severity
    BY DEF Severity
  <2> QED
    BY <1>1, <1>2, <2>1 DEF Legal
<1>4. /\ QueueOK(EmptyQueue) /\ Entries(EmptyQueue) = {} /\ Sound(NoBuckets)
      /\ Entries(NoBuckets) = {} /\ NoBuckets \in Lanes
  BY EmptyWell DEF Lanes
<1>5. Waiting(desk) = {}
  BY <1>1, <1>4, DeskHas DEF Queued, InLanes
<1>6. DeskOK(desk)
  BY <1>1, <1>2, <1>4, <1>5, DeskHas, DeskFromParts
<1>7. \A room : Chosen(EmptyQueue, room) = {}
  BY <1>4, EmptyChoice
<1>8. Served(desk)
  BY <1>1, <1>7, DeskHas DEF Served
<1>9. BooksOK(shadow) /\ Entry \subseteq Deemed(shadow, "none") /\ shadow.queue = EmptyQueue
  BY <1>1, NoShadowOK DEF NoShadow
<1>10. Settled(config, shutDown, desk, shadow)
  BY <1>5, <1>6, <1>7, <1>8, <1>9 DEF Settled
<1> QED
  BY <1>3, <1>10, InvIs

LEMMA EntryStepProper ==
    ASSUME ControlInv, NEW r \in Entry, EntryStep(r)
    PROVE  Proper
<1>1. CASE AcquireShadow(r)
  BY <1>1, AcquireShadowProper
<1>2. CASE AdmitSolo(r)
  BY <1>2, AdmitSoloProper
<1>3. CASE AdmitAtOnce(r)
  BY <1>3, AdmitAtOnceProper
<1>4. CASE Enqueue(r)
  BY <1>4, EnqueueProper
<1>5. CASE ReleaseLease(r)
  BY <1>5, ReleaseLeaseProper
<1>6. CASE Lapse(r)
  BY <1>6, LapseProper
<1>7. CASE Expire(r)
  BY <1>7, ExpireProper
<1> QED
  BY <1>1, <1>2, <1>3, <1>4, <1>5, <1>6, <1>7 DEF EntryStep

LEMMA IdleStep ==
    ASSUME ControlInv, UNCHANGED controlVars
    PROVE  Proper
<1>1. UNCHANGED <<config, limit, pressure, lowered, shutDown, fairQueue, lanes, active, late, shadow>>
  BY DEF controlVars
<1>2. DeskNext = desk
  BY <1>1 DEF DeskNext, desk
<1>3. ControlInv'
  <2>1. /\ Legal(config, limit, pressure, lowered, shutDown)
        /\ Settled(config, shutDown, desk, shadow)
    BY InvIs
  <2>2. Legal(config', limit', pressure', lowered', shutDown')
    BY <1>1, <2>1
  <2>3. Settled(config', shutDown', DeskNext, shadow')
    BY <1>1, <1>2, <2>1
  <2> QED
    BY <2>2, <2>3, InvNext
<1>4. Fits /\ Punctual /\ Reserves
  BY <1>1, InvHas DEF Fits, Punctual, Reserves
<1> QED
  BY <1>1, <1>3, <1>4 DEF Proper

(* Every step keeps the invariant and has the properties; but updateConfig()
   forgets who was reserved. *)
LEMMA ControlStep ==
    ASSUME ControlInv, [ControlNext]_controlVars
    PROVE  /\ ControlInv' /\ Fits /\ Punctual /\ Retains
           /\ Reserves \/ \E c \in Configs : UpdateConfig(c)
<1>1. Proper => Retains
  BY DEF Proper, Retains
<1>2. CASE Proper
  BY <1>1, <1>2 DEF Proper
<1>3. CASE \E c \in Configs : UpdateConfig(c)
  BY <1>3, UpdateConfigKeeps
<1>4. CASE \E r \in Entry : EntryStep(r)
  BY <1>2, <1>4, EntryStepProper
<1>5. CASE \E p \in DOMAIN Severity : ObservePressure(p)
  BY <1>2, <1>5, ObservePressureProper
<1>6. CASE Tick \/ EvictIdleLanes \/ Shutdown
  BY <1>2, <1>6, TickProper, EvictIdleLanesProper, ShutdownProper
<1>7. CASE UNCHANGED controlVars
  BY <1>2, <1>7, IdleStep
<1> QED
  BY <1>3, <1>4, <1>5, <1>6, <1>7 DEF ControlNext

(***************************************************************************)
(* The invariant holds of every state the controller reaches.              *)
(***************************************************************************)
THEOREM ControlInvHolds == ControlSpec => []ControlInv
<1>1. ControlInit => ControlInv
  BY ControlInit_Inv
<1>2. ControlInv /\ [ControlNext]_controlVars => ControlInv'
  BY ControlStep
<1> QED
  BY <1>1, <1>2, PTL DEF ControlSpec

(***************************************************************************)
(* The limit of the controller stays within the bounds of its              *)
(* configuration, whatever the adaptation makes of it, and every variable  *)
(* keeps its type (adaptation.ts, controller.ts).                          *)
(***************************************************************************)
THEOREM ControlTyped == ControlSpec => []ControlTypeOK
<1>1. ControlInv => ControlTypeOK
  BY DEF ControlInv
<1> QED
  BY <1>1, ControlInvHolds, PTL

(***************************************************************************)
(* FairCostQueue and the lanes keep their shape under every operation of   *)
(* the controller, and a request is in one place (queue.ts).               *)
(***************************************************************************)
THEOREM QueuesKeepIntegrity == ControlSpec => []FairQueueIntegrity
<1>1. ControlInv => FairQueueIntegrity
  BY DEF ControlInv
<1> QED
  BY <1>1, ControlInvHolds, PTL

(***************************************************************************)
(* dispatch() and dispatchVirtual() leave nobody behind whom they would    *)
(* serve, when control is back with the event loop (controller.ts).        *)
(***************************************************************************)
THEOREM NobodyIsStranded == ControlSpec => []NobodyStranded
<1>1. ControlInv => NobodyStranded
  BY DEF ControlInv
<1> QED
  BY <1>1, ControlInvHolds, PTL

(***************************************************************************)
(* The virtual cost and the virtual queue of shadow mode are those of the  *)
(* records, and only requests with a lease have one (controller.ts).       *)
(***************************************************************************)
THEOREM ShadowBooksBalance == ControlSpec => []ShadowAccounts
<1>1. ControlInv => ShadowAccounts
  BY DEF ControlInv
<1> QED
  BY <1>1, ControlInvHolds, PTL

(***************************************************************************)
(* Admissions stay within the limit, by acquire() and by dispatch(), but   *)
(* for the request that runs alone.                                        *)
(***************************************************************************)
THEOREM AdmissionsFit == ControlSpec => AdmissionsFitLimit
<1>1. ControlInv /\ [ControlNext]_controlVars
        => [Enforces /\ ~(active' \subseteq active) =>
              \/ CostOf(active') <= limit'
              \/ \E r \in Entry : active' = {r} /\ Cost[r] <= config.max]_controlVars
  BY ControlStep DEF Fits
<1> QED
  BY <1>1, ControlInvHolds, PTL DEF ControlSpec, AdmissionsFitLimit

(***************************************************************************)
(* dispatch() and dispatchLanes() admit nobody whose deadline has passed   *)
(* or whose client has left.                                               *)
(***************************************************************************)
THEOREM NobodyIsAdmittedLate == ControlSpec => NoLateAdmission
<1>1. ControlInv /\ [ControlNext]_controlVars
        => [Enforces => late \cap active' = {}]_controlVars
  BY ControlStep DEF Punctual
<1> QED
  BY <1>1, ControlInvHolds, PTL DEF ControlSpec, NoLateAdmission

(***************************************************************************)
(* A head that has been passed over maxSkips times keeps everybody else    *)
(* out until it is served or leaves (queue.ts: reserved heads).            *)
(***************************************************************************)
THEOREM ReservationsAreHonoured == ControlSpec => ReservationHonoured
<1>1. ControlInv /\ [ControlNext]_controlVars
        => [\A r \in ReservedHeads :
              r \in Entries(fairQueue)' /\ ~(\E c \in Configs : UpdateConfig(c))
                  => active' \ active \subseteq ReservedHeads]_controlVars
  BY ControlStep DEF Reserves
<1> QED
  BY <1>1, ControlInvHolds, PTL DEF ControlSpec, ReservationHonoured

(***************************************************************************)
(* A new configuration leaves nobody waiting whom it could not serve       *)
(* (updateConfig()).                                                       *)
(***************************************************************************)
THEOREM UpdatesServeOrReject == ControlSpec => UpdateServesOrRejects
<1>1. ControlInv /\ [ControlNext]_controlVars
        => [config' # config =>
              \A r \in Queued' : config'.mode = "enforce" /\ Cost[r] <= limit']_controlVars
  BY ControlStep DEF Retains
<1> QED
  BY <1>1, ControlInvHolds, PTL DEF ControlSpec, UpdateServesOrRejects
=============================================================================
