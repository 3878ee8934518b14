--------------------------- MODULE TokenRefresh_proofs ---------------------------
(***************************************************************************)
(* Theorems about TokenRefresh for any connections, callers, number of     *)
(* tokens and number of attempts.                                          *)
(*                                                                         *)
(* Types and turns hold whatever the switches allow.  The invariant behind *)
(* them says that a caller with work has a connection and a token          *)
(* (Placed), that what is redirected or was answered is past (Past), and   *)
(* that who asks is at the head of the lane (HeadAsks).                    *)
(*                                                                         *)
(* That no token is presented twice is proved for accounts whose owner     *)
(* does not revoke them, a provider that takes back no good token, and one *)
(* rotation of a connection within the map's life; restarts and abandoned  *)
(* attempts may happen at any moment.  That only dead tokens take an       *)
(* account out of service needs no more than such a provider: owners may   *)
(* revoke and log in as they please.                                       *)
(***************************************************************************)
EXTENDS TokenRefresh, TLAPS, SequenceTheorems

Placed ==
    \A k \in Caller : caller[k].pc # "idle" => caller[k].conn \in Conn /\ caller[k].held \in Token

Past ==
    \A c \in Conn :
        /\ \A t \in rotated[c] : t < provider[c].newest
        /\ task[c] # None /\ task[c].asked /\ task[c].got \in Token
              => task[c].presents < provider[c].newest

HeadAsks == \A c \in Conn : InLane(c) => lane # <<>> /\ Head(lane) = c

IInv == TypeOK /\ Placed /\ Past /\ HeadAsks

-----------------------------------------------------------------------------
LEMMA LaneFacts ==
    ASSUME NEW s \in Seq(Conn)
    PROVE  /\ Len(s) \in Nat
           /\ s # <<>> => Head(s) \in Conn /\ Tail(s) \in Seq(Conn)
           /\ \A c \in Conn : /\ Append(s, c) \in Seq(Conn)
                              /\ Append(s, c) # <<>>
                              /\ s # <<>> => Head(Append(s, c)) = Head(s)
BY AppendProperties, HeadTailProperties, EmptySeq

(* The fields of what is typed. *)
LEMMA Typed ==
    ASSUME TypeOK
    PROVE  /\ \A c \in Conn :
                /\ row[c] \in Row /\ row[c].token \in Token \cup {None}
                /\ row[c].fresh \in BOOLEAN
                /\ provider[c] \in Provider
                /\ provider[c].newest \in Token /\ provider[c].base \in Token
                /\ rotated[c] \subseteq Token
                /\ task[c] # None =>
                     /\ task[c] \in Task /\ task[c].presents \in Token
                     /\ task[c].stage \in Stage /\ task[c].got \in Result
           /\ \A k \in Caller :
                /\ caller[k] \in CallerState /\ caller[k].conn \in Conn \cup {None}
                /\ caller[k].got \in Result /\ caller[k].tries \in Nat
                /\ caller[k].held \in Token \cup {None}
                /\ caller[k].attempted \in Token \cup {None}
BY DEF TypeOK, Row, Provider, Task, CallerState

(* Integers, errors and nothing are told apart. *)
LEMMA Apart ==
    /\ Token \subseteq Int /\ None \notin Token /\ Dead \notin Token /\ None # Dead
    /\ None \notin Conn /\ None \notin Task /\ MaxToken \in Nat
BY RefreshAssumption DEF Token

LEMMA IdleTyped == Idle \in CallerState /\ Idle.pc = "idle" /\ Idle.conn = None
BY DEF Idle, CallerState, Result

(***************************************************************************)
(* Steps that only move callers keep the invariant if they leave each      *)
(* caller idle or with a connection and a token.                           *)
(***************************************************************************)
LEMMA CallersMove ==
    ASSUME IInv, UNCHANGED <<provider, rotated, task, lane, lost>>,
           row' \in [Conn -> Row],
           caller' \in [Caller -> CallerState],
           \A k \in Caller : \/ caller'[k] = Idle
                             \/ caller'[k].conn \in Conn /\ caller'[k].held \in Token
    PROVE  IInv'
<1>1. TypeOK'
  BY DEF IInv, TypeOK
<1>2. Placed'
  BY IdleTyped DEF Placed
<1>3. Past' /\ HeadAsks'
  BY DEF IInv, Past, HeadAsks, InLane
<1> QED
  BY <1>1, <1>2, <1>3 DEF IInv

(* What k has is a connection and a token, whatever becomes of k's other fields. *)
LEMMA AgainPlaced ==
    ASSUME IInv, NEW k \in Caller, caller[k].pc # "idle"
    PROVE  /\ Again(k) \in CallerState
           /\ Again(k) = Idle \/ (Again(k).conn \in Conn /\ Again(k).held \in Token)
<1>1. caller[k] \in CallerState /\ caller[k].conn \in Conn /\ caller[k].held \in Token
  BY Typed DEF IInv, Placed
<1>2. CASE Retries(k)
  <2>1. Again(k) = [caller[k] EXCEPT !.pc = "loaded", !.got = None]
    BY <1>2 DEF Again
  <2> QED
    BY <1>1, <2>1 DEF CallerState, Result
<1>3. CASE ~Retries(k)
  BY <1>3, IdleTyped DEF Again
<1> QED
  BY <1>2, <1>3

(* One caller changes, all others stay. *)
LEMMA OneMoves ==
    ASSUME IInv, NEW k \in Caller, NEW v \in CallerState,
           v = Idle \/ (v.conn \in Conn /\ v.held \in Token),
           caller' = [caller EXCEPT ![k] = v]
    PROVE  /\ caller' \in [Caller -> CallerState]
           /\ caller'[k] = v
           /\ \A j \in Caller \ {k} : caller'[j] = caller[j]
           /\ \A j \in Caller : caller'[j].pc # "idle" =>
                 caller'[j].conn \in Conn /\ caller'[j].held \in Token
BY IdleTyped DEF IInv, TypeOK, Placed

-----------------------------------------------------------------------------
(* A caller that waits for a refresh of token t keeps its connection. *)
Waits(x, h, t) == [x EXCEPT !.pc = "waiting", !.tries = x.tries + 1, !.held = h, !.of = t]

LEMMA WaitsTyped ==
    ASSUME NEW x \in CallerState, NEW t \in Token, NEW h \in Token \cup {None}
    PROVE  /\ Waits(x, h, t) \in CallerState
           /\ Waits(x, h, t).pc = "waiting"
           /\ Waits(x, h, t).conn = x.conn
           /\ Waits(x, h, t).held = h
<1> DEFINE n == x.tries + 1
           x1 == [x EXCEPT !.pc = "waiting"]
           x2 == [x1 EXCEPT !.tries = n]
           x3 == [x2 EXCEPT !.held = h]
           x4 == [x3 EXCEPT !.of = t]
<1>1. n \in Nat
  BY DEF CallerState
<1>2. Waits(x, h, t) = x4
  BY DEF Waits
<1> HIDE DEF n
<1>3. x1 \in CallerState /\ x1.pc = "waiting" /\ x1.conn = x.conn
  BY DEF CallerState
<1> HIDE DEF x1
<1>4. x2 \in CallerState /\ x2.pc = "waiting" /\ x2.conn = x.conn
  BY <1>1, <1>3 DEF CallerState
<1> HIDE DEF x2
<1>5. x3 \in CallerState /\ x3.pc = "waiting" /\ x3.conn = x.conn /\ x3.held = h
  BY <1>4 DEF CallerState
<1> HIDE DEF x3
<1>6. x4 \in CallerState /\ x4.pc = "waiting" /\ x4.conn = x.conn /\ x4.held = h
  BY <1>5 DEF CallerState
<1> QED
  BY <1>2, <1>6

LEMMA WaitsOf ==
    ASSUME NEW x \in CallerState, NEW t \in Token, NEW h \in Token \cup {None}
    PROVE  /\ Waits(x, h, t).pc = "waiting" /\ Waits(x, h, t).conn = x.conn
           /\ Waits(x, h, t).held = h /\ Waits(x, h, t).of = t
           /\ Waits(x, h, t).attempted = x.attempted
BY DEF Waits, CallerState

LEMMA InitInv == Init => IInv
<1> SUFFICES ASSUME Init PROVE IInv
  OBVIOUS
<1>1. 0 \in Token
  BY RefreshAssumption DEF Token
<1>2. TypeOK
  <2>1. row \in [Conn -> Row]
    BY <1>1 DEF Init, Good, Row
  <2>2. provider \in [Conn -> Provider]
    BY <1>1 DEF Init, Provider
  <2> QED
    BY <2>1, <2>2, IdleTyped DEF Init, TypeOK
<1>3. Placed /\ Past /\ HeadAsks
  BY IdleTyped DEF Init, Placed, Past, HeadAsks, InLane
<1> QED
  BY <1>2, <1>3 DEF IInv

LEMMA LoadInv ==
    ASSUME IInv, NEW k \in Caller, NEW c \in Conn, Load(k, c)
    PROVE  IInv'
<1> DEFINE v == [Idle EXCEPT !.conn = c, !.pc = "loaded",
                             !.held = row[c].token, !.attempted = row[c].token,
                             !.loaded = row[c].status]
<1>1. row[c].token \in Token /\ row[c].status \in {"active", "expired"}
  BY Typed DEF IInv, Load, Loadable, Row
<1>2. v \in CallerState /\ v.conn = c /\ v.held = row[c].token
  BY <1>1 DEF Idle, CallerState, Result
<1>3. caller' = [caller EXCEPT ![k] = v] /\ UNCHANGED <<row, provider, rotated, task, lane, lost>>
  BY DEF Load
<1> HIDE DEF v
<1>4. /\ caller' \in [Caller -> CallerState]
      /\ \A j \in Caller : caller'[j].pc # "idle" => caller'[j].conn \in Conn /\ caller'[j].held \in Token
  BY <1>1, <1>2, <1>3, OneMoves
<1>5. TypeOK' /\ Placed'
  BY <1>3, <1>4 DEF IInv, TypeOK, Placed
<1> QED
  BY <1>3, <1>5 DEF IInv, Past, HeadAsks, InLane

(* Tokens that go to a row. *)
LEMMA StoredTyped ==
    ASSUME NEW r \in Row, NEW t \in Token
    PROVE  Stored(r, t) \in Row /\ Stored(r, t).token = t
BY DEF Stored, Row

(* What is stored when no token came: the row's own token stays, or none is left. *)
LEMMA VerdictsTyped ==
    ASSUME IInv, NEW k \in Caller, NEW r \in Row
    PROVE  /\ WrittenBack(k, r) \in Row /\ WrittenBack(k, r).token = r.token
           /\ \A v \in Verdicts(k, r) : v \in Row /\ v.token \in {r.token, None}
<1>1. caller[k].loaded \in {"active", "expired"}
  BY Typed DEF IInv, CallerState
<1>2. WrittenBack(k, r) \in Row /\ WrittenBack(k, r).token = r.token
  BY <1>1 DEF WrittenBack, Row
<1>3. Deactivated(r) \in Row /\ Deactivated(r).token = r.token
  BY DEF Deactivated, Row
<1>4. \A v \in SweepVerdicts(r) : v \in Row /\ v.token \in {r.token, None}
  <2>1. \A a \in {r.active, FALSE} :
          LET v == [r EXCEPT !.status = "expired", !.token = None, !.active = a]
          IN  v \in Row /\ v.token = None
    BY DEF Row
  <2>2. [r EXCEPT !.status = "active"] \in Row /\ [r EXCEPT !.status = "active"].token = r.token
    BY DEF Row
  <2> QED
    BY <2>1, <2>2 DEF SweepVerdicts
<1> QED
  BY <1>2, <1>3, <1>4 DEF Verdicts

(* Ends, joins, abandoned attempts, and answers that leave a row its token. *)
LEMMA MovesInv ==
    ASSUME IInv, NEW k \in Caller,
           NoNeed(k) \/ Join(k) \/ Abandon(k) \/ ReturnNull(k)
    PROVE  IInv'
<1>0. UNCHANGED <<provider, rotated, task, lane, lost>> /\ caller[k].pc # "idle"
  BY DEF NoNeed, Join, Abandon, ReturnNull
<1>1. /\ caller[k] \in CallerState /\ caller[k].conn \in Conn /\ caller[k].held \in Token
  BY <1>0, Typed DEF IInv, Placed
<1>2. \E v \in CallerState : /\ v = Idle \/ (v.conn \in Conn /\ v.held \in Token)
                             /\ caller' = [caller EXCEPT ![k] = v]
  <2>1. CASE NoNeed(k)
    BY <2>1, IdleTyped DEF NoNeed
  <2>2. CASE Abandon(k) \/ ReturnNull(k)
    BY <1>0, <2>2, AgainPlaced DEF Abandon, ReturnNull
  <2>3. CASE Join(k)
    <3> DEFINE x == caller[k]
               t == task[x.conn].presents
    <3>1. t \in Token /\ x \in CallerState /\ x.held \in Token \cup {None}
      BY <1>1, <2>3, Typed DEF Join, IInv
    <3>2. Waits(x, x.held, t) = [x EXCEPT !.pc = "waiting", !.tries = x.tries + 1, !.of = t]
      BY <1>1 DEF CallerState, Waits
    <3>3. caller' = [caller EXCEPT ![k] = Waits(x, x.held, t)]
      BY <2>3, <3>2 DEF Join, IInv, TypeOK
    <3> HIDE DEF t
    <3> QED
      BY <1>1, <3>1, <3>3, WaitsTyped
  <2> QED
    BY <2>1, <2>2, <2>3
<1>3. PICK v \in CallerState : /\ v = Idle \/ (v.conn \in Conn /\ v.held \in Token)
                               /\ caller' = [caller EXCEPT ![k] = v]
  BY <1>2
<1>4. /\ caller' \in [Caller -> CallerState]
      /\ \A j \in Caller : caller'[j].pc # "idle" => caller'[j].conn \in Conn /\ caller'[j].held \in Token
  BY <1>3, OneMoves
<1>5. row' \in [Conn -> Row]
  <2>1. CASE ReturnNull(k)
    <3> DEFINE c == caller[k].conn
    <3>1. WrittenBack(k, row[c]) \in Row
      BY <1>1, Typed, VerdictsTyped DEF IInv
    <3> QED
      BY <1>1, <2>1, <3>1 DEF ReturnNull, IInv, TypeOK
  <2>2. CASE ~ReturnNull(k)
    BY <2>2 DEF NoNeed, Join, Abandon, IInv, TypeOK
  <2> QED
    BY <2>1, <2>2
<1>6. TypeOK' /\ Placed'
  BY <1>0, <1>4, <1>5 DEF IInv, TypeOK, Placed
<1> QED
  BY <1>0, <1>6 DEF IInv, Past, HeadAsks, InLane

(* A caller that goes on is idle, and changes its connection's row at most. *)
LEMMA ReturnInv ==
    ASSUME IInv, NEW k \in Caller, ReturnTokens(k) \/ ReturnError(k)
    PROVE  IInv'
<1> DEFINE c == caller[k].conn
<1>1. UNCHANGED <<provider, rotated, task, lane, lost>> /\ caller' = [caller EXCEPT ![k] = Idle]
  BY DEF ReturnTokens, ReturnError
<1>2. c \in Conn
  BY DEF IInv, Placed, ReturnTokens, ReturnError
<1>3. row[c] \in Row /\ row \in [Conn -> Row]
  BY <1>2 DEF IInv, TypeOK
<1>4. row' \in [Conn -> Row]
  <2>1. CASE ReturnTokens(k)
    <3>1. row' = IF StoresAgain(k) THEN [row EXCEPT ![c] = Stored(@, caller[k].got)] ELSE row
      BY <2>1 DEF ReturnTokens
    <3>2. Stored(row[c], caller[k].got) \in Row
      BY <1>3, <2>1, StoredTyped DEF ReturnTokens
    <3> QED
      BY <1>2, <1>3, <3>1, <3>2
  <2>2. CASE ReturnError(k)
    <3>1. PICK v \in Verdicts(k, row[c]) : row' = [row EXCEPT ![c] = v]
      BY <2>2 DEF ReturnError
    <3>2. v \in Row
      BY <1>3, VerdictsTyped
    <3> HIDE DEF c
    <3> QED
      BY <1>2, <1>3, <3>1, <3>2
  <2> QED
    BY <2>1, <2>2
<1>5. /\ caller' \in [Caller -> CallerState]
      /\ \A j \in Caller : caller'[j].pc # "idle" => caller'[j].conn \in Conn /\ caller'[j].held \in Token
  BY <1>1, IdleTyped, OneMoves
<1>6. TypeOK' /\ Placed'
  BY <1>1, <1>4, <1>5 DEF IInv, TypeOK, Placed
<1> QED
  BY <1>1, <1>6 DEF IInv, Past, HeadAsks, InLane

(***************************************************************************)
(* A refresh is new: queued at the end of the lane, or answered from what  *)
(* is known; its answer is a token that was issued.                        *)
(***************************************************************************)
LEMMA Begun ==
    ASSUME IInv, NEW k \in Caller, Begin(k)
    PROVE  \E t \in Token :
             LET c == caller[k].conn
                 new == [presents |-> t, expects |-> Guard(k), asked |-> Known(k) = None,
                         got |-> Known(k),
                         stage |-> IF Known(k) = None THEN "queued" ELSE "answered"]
             IN  /\ c \in Conn /\ task[c] = None
                 /\ t = IF Known(k) = None /\ row[c].token # None THEN row[c].token
                                                                  ELSE caller[k].held
                 /\ Known(k) \in Token \cup {None}
                 /\ new \in Task
                 /\ task' = [task EXCEPT ![c] = new]
                 /\ lane' = IF Known(k) = None THEN Append(lane, c) ELSE lane
                 /\ caller' = [caller EXCEPT ![k] = Waits(caller[k], t, t)]
                 /\ UNCHANGED <<row, provider, rotated, lost>>
<1> DEFINE c == caller[k].conn
           t == IF Known(k) = None /\ row[c].token # None THEN row[c].token ELSE caller[k].held
           new == [presents |-> t, expects |-> Guard(k), asked |-> Known(k) = None,
                   got |-> Known(k),
                   stage |-> IF Known(k) = None THEN "queued" ELSE "answered"]
<1>1. c \in Conn /\ caller[k].held \in Token /\ caller[k] \in CallerState
  BY Typed DEF IInv, Placed, Begin
<1>2. t \in Token
  BY <1>1, Typed DEF IInv
<1>3. Known(k) \in Token \cup {None}
  <2>1. CASE caller[k].held \in rotated[c]
    <3>1. caller[k].held < provider[c].newest /\ provider[c].newest \in Token
      BY <1>1, <2>1, Typed DEF IInv, Past
    <3>2. Known(k) = caller[k].held + 1
      BY <2>1 DEF Known
    <3> QED
      BY <1>1, <3>1, <3>2, Apart DEF Token
  <2>2. CASE caller[k].held \notin rotated[c]
    BY <1>1, <2>2, Typed DEF IInv, Known
  <2> QED
    BY <2>1, <2>2
<1>4. Guard(k) \in Token \cup {None}
  BY Typed DEF Guard, IInv
<1>5. new \in Task
  BY <1>2, <1>3, <1>4 DEF Task, Stage, Result
<1>6. caller' = [caller EXCEPT ![k] = Waits(caller[k], t, t)]
  <2>1. caller' = [caller EXCEPT ![k].pc = "waiting", ![k].tries = @ + 1,
                                 ![k].held = t, ![k].of = t]
    BY DEF Begin
  <2> HIDE DEF t
  <2> QED
    BY <2>1 DEF Waits, IInv, TypeOK
<1>7. /\ task[c] = None /\ task' = [task EXCEPT ![c] = new]
      /\ lane' = IF Known(k) = None THEN Append(lane, c) ELSE lane
      /\ UNCHANGED <<row, provider, rotated, lost>>
  BY DEF Begin
<1>8. t = IF Known(k) = None /\ row[c].token # None THEN row[c].token ELSE caller[k].held
  OBVIOUS
<1> HIDE DEF t
<1> QED
  BY <1>1, <1>2, <1>3, <1>5, <1>6, <1>7, <1>8

LEMMA BeginInv ==
    ASSUME IInv, NEW k \in Caller, Begin(k)
    PROVE  IInv'
<1> DEFINE c == caller[k].conn
<1>1. PICK t \in Token :
        LET new == [presents |-> t, expects |-> Guard(k), asked |-> Known(k) = None,
                    got |-> Known(k),
                    stage |-> IF Known(k) = None THEN "queued" ELSE "answered"]
        IN  /\ c \in Conn /\ task[c] = None
            /\ new \in Task
            /\ task' = [task EXCEPT ![c] = new]
            /\ lane' = IF Known(k) = None THEN Append(lane, c) ELSE lane
            /\ caller' = [caller EXCEPT ![k] = Waits(caller[k], t, t)]
            /\ UNCHANGED <<row, provider, rotated, lost>>
  BY Begun
<1> DEFINE new == [presents |-> t, expects |-> Guard(k), asked |-> Known(k) = None,
                   got |-> Known(k),
                   stage |-> IF Known(k) = None THEN "queued" ELSE "answered"]
<1>2. /\ c \in Conn /\ new \in Task /\ task' = [task EXCEPT ![c] = new] /\ task[c] = None
      /\ lane' \in {lane, Append(lane, c)}
      /\ UNCHANGED <<row, provider, rotated, lost>>
  BY <1>1
<1>3. /\ new.asked => new.got = None
      /\ new.stage \in {"queued", "answered"}
  OBVIOUS
<1>4. /\ caller' \in [Caller -> CallerState]
      /\ \A j \in Caller : caller'[j].pc # "idle" => caller'[j].conn \in Conn /\ caller'[j].held \in Token
  <2>1. caller[k] \in CallerState
    BY Typed DEF IInv
  <2>2. Waits(caller[k], t, t) \in CallerState /\ Waits(caller[k], t, t).conn \in Conn
        /\ Waits(caller[k], t, t).held \in Token
    BY <1>2, <2>1, WaitsTyped
  <2>3. caller' = [caller EXCEPT ![k] = Waits(caller[k], t, t)]
    BY <1>1
  <2> QED
    BY <2>2, <2>3, OneMoves
<1> HIDE DEF new, c
<1>5. lane \in Seq(Conn) /\ lane' \in Seq(Conn)
  BY <1>2, LaneFacts DEF IInv, TypeOK
<1>6. TypeOK' /\ Placed'
  BY <1>2, <1>4, <1>5 DEF IInv, TypeOK, Placed
<1>7. \A d \in Conn : task'[d] = IF d = c THEN new ELSE task[d]
  BY <1>2 DEF IInv, TypeOK
<1>8. Past'
  BY <1>2, <1>3, <1>7, Apart DEF IInv, Past
<1>9. HeadAsks'
  <2>1. \A d \in Conn : InLane(d)' => d # c /\ InLane(d)
    BY <1>2, <1>3, <1>7 DEF InLane
  <2>2. lane # <<>> => lane' # <<>> /\ Head(lane') = Head(lane)
    BY <1>2, <1>5, LaneFacts
  <2> QED
    BY <2>1, <2>2 DEF IInv, HeadAsks
<1> QED
  BY <1>6, <1>8, <1>9 DEF IInv

(* A refresh goes on to stage s with what it got so far. *)
Staged(x, g, s) == [x EXCEPT !.got = g, !.stage = s]

LEMMA StagedTyped ==
    ASSUME NEW x \in Task, NEW g \in Result, NEW s \in Stage
    PROVE  /\ Staged(x, g, s) \in Task
           /\ Staged(x, g, s).stage = s
           /\ Staged(x, g, s).got = g
           /\ Staged(x, g, s).presents = x.presents
           /\ Staged(x, g, s).expects = x.expects
           /\ (Staged(x, g, s).asked <=> x.asked)
<1> DEFINE x1 == [x EXCEPT !.got = g]
           x2 == [x1 EXCEPT !.stage = s]
<1>1. /\ x1 \in Task /\ x1.got = g /\ x1.presents = x.presents /\ x1.expects = x.expects
      /\ (x1.asked <=> x.asked)
  BY DEF Task
<1> HIDE DEF x1
<1>2. /\ x2 \in Task /\ x2.stage = s /\ x2.got = g
      /\ x2.presents = x.presents /\ x2.expects = x.expects /\ (x2.asked <=> x.asked)
  BY <1>1 DEF Task
<1>3. Staged(x, g, s) = x2
  BY DEF Staged, x1
<1> QED
  BY <1>2, <1>3

(***************************************************************************)
(* A refresh that goes on keeps the invariant if it is past what it got,   *)
(* and the lane has whoever asks at its head.                              *)
(***************************************************************************)
LEMMA StagedKeeps ==
    ASSUME IInv, NEW c \in Conn, task[c] # None, NEW g \in Result, NEW s \in Stage,
           task' = [task EXCEPT ![c] = Staged(task[c], g, s)],
           UNCHANGED <<row, rotated, caller, lost>>,
           provider' \in [Conn -> Provider],
           \A d \in Conn : provider[d].newest <= provider'[d].newest,
           lane' \in Seq(Conn),
           task[c].asked /\ g \in Token => task[c].presents < provider'[c].newest,
           \A d \in Conn : (IF d = c THEN s \in {"asking", "gap"} ELSE InLane(d))
                => lane' # <<>> /\ Head(lane') = d
    PROVE  IInv'
<1> DEFINE x == Staged(task[c], g, s)
<1>1. /\ task[c] \in Task
      /\ x \in Task /\ x.stage = s /\ x.got = g /\ x.presents = task[c].presents
      /\ (x.asked <=> task[c].asked)
  BY Typed, StagedTyped DEF IInv
<1> HIDE DEF x
<1>2. /\ task' = [task EXCEPT ![c] = x] /\ task \in [Conn -> Task \cup {None}]
  BY DEF x, IInv, TypeOK
<1>3. \A d \in Conn : task'[d] = IF d = c THEN x ELSE task[d]
  BY <1>2
<1>4. TypeOK'
  BY <1>1, <1>2 DEF IInv, TypeOK
<1>5. Placed'
  BY DEF IInv, Placed
<1>6. Past'
  <2>1. \A d \in Conn : provider[d].newest \in Int /\ provider'[d].newest \in Int
    BY Apart DEF IInv, TypeOK, Provider
  <2>2. \A d \in Conn : rotated[d] \subseteq Int
    BY Typed, Apart DEF IInv
  <2>3. \A d \in Conn : task[d] # None => task[d].presents \in Int
    BY Typed, Apart DEF IInv
  <2>4. ASSUME NEW d \in Conn, NEW t \in rotated[d] PROVE t < provider'[d].newest
    BY <2>1, <2>2, <2>4 DEF IInv, Past
  <2>5. ASSUME NEW d \in Conn, task'[d] # None, task'[d].asked, task'[d].got \in Token
        PROVE  task'[d].presents < provider'[d].newest
    <3>1. CASE d = c
      BY <1>1, <1>3, <2>5, <3>1
    <3>2. CASE d # c
      BY <1>3, <2>1, <2>3, <2>5, <3>2 DEF IInv, Past
    <3> QED
      BY <3>1, <3>2
  <2> QED
    BY <2>4, <2>5 DEF Past
<1>7. HeadAsks'
  <2>1. \A d \in Conn : InLane(d)' => IF d = c THEN s \in {"asking", "gap"} ELSE InLane(d)
    BY <1>1, <1>3 DEF InLane
  <2> QED
    BY <2>1 DEF HeadAsks
<1> QED
  BY <1>4, <1>5, <1>6, <1>7 DEF IInv

LEMMA SendInv ==
    ASSUME IInv, NEW c \in Conn, Send(c)
    PROVE  IInv'
<1>1. /\ task[c] # None /\ lane # <<>> /\ Head(lane) = c
      /\ task' = [task EXCEPT ![c].stage = "asking"]
      /\ UNCHANGED <<row, provider, rotated, lane, caller, lost>>
  BY DEF Send
<1>2. task[c] \in Task /\ task[c].got \in Result /\ "asking" \in Stage
  BY <1>1, Typed DEF IInv, Stage
<1>3. [task[c] EXCEPT !.stage = "asking"] = Staged(task[c], task[c].got, "asking")
  BY <1>2 DEF Staged, Task
<1>4. task' = [task EXCEPT ![c] = Staged(task[c], task[c].got, "asking")]
  BY <1>1, <1>3
<1>5. \A d \in Conn : InLane(d) => d = c
  BY <1>1 DEF IInv, HeadAsks
<1>6. task[c].asked /\ task[c].got \in Token => task[c].presents < provider[c].newest
  BY <1>1 DEF IInv, Past
<1>7. /\ provider' \in [Conn -> Provider] /\ lane' \in Seq(Conn)
      /\ \A d \in Conn : provider[d].newest <= provider'[d].newest
  BY <1>1, Typed, Apart DEF IInv, TypeOK
<1> QED
  BY <1>1, <1>2, <1>4, <1>5, <1>6, <1>7, StagedKeeps

LEMMA GapEndsInv ==
    ASSUME IInv, NEW c \in Conn, GapEnds(c)
    PROVE  IInv'
<1>1. /\ task[c] # None /\ task[c].stage = "gap"
      /\ task' = [task EXCEPT ![c].stage = "answered"] /\ lane' = Tail(lane)
      /\ UNCHANGED <<row, provider, rotated, caller, lost>>
  BY DEF GapEnds
<1>2. task[c] \in Task /\ task[c].got \in Result /\ "answered" \in Stage
  BY <1>1, Typed DEF IInv, Stage
<1>3. [task[c] EXCEPT !.stage = "answered"] = Staged(task[c], task[c].got, "answered")
  BY <1>2 DEF Staged, Task
<1>4. task' = [task EXCEPT ![c] = Staged(task[c], task[c].got, "answered")]
  BY <1>1, <1>3
<1>5. lane # <<>> /\ \A d \in Conn : InLane(d) => d = c
  BY <1>1 DEF IInv, HeadAsks, InLane
<1>6. task[c].asked /\ task[c].got \in Token => task[c].presents < provider[c].newest
  BY <1>1 DEF IInv, Past
<1>7. /\ provider' \in [Conn -> Provider] /\ lane' \in Seq(Conn)
      /\ \A d \in Conn : provider[d].newest <= provider'[d].newest
  BY <1>1, <1>5, LaneFacts, Typed, Apart DEF IInv, TypeOK
<1> QED
  BY <1>1, <1>2, <1>4, <1>5, <1>6, <1>7, StagedKeeps

(* What the provider answers is an answer, and never takes the newest token back. *)
LEMMA AnswersTyped ==
    ASSUME IInv, NEW c \in Conn, task[c] # None, NEW a \in Answers(c, task[c].presents)
    PROVE  /\ a[1] \in Result /\ a[2] \in Provider
           /\ provider[c].newest <= a[2].newest
           /\ a[1] \in Token => task[c].presents < a[2].newest
<1> DEFINE t == task[c].presents
           p == provider[c]
<1>1. /\ t \in Token /\ t \in Nat /\ p \in Provider /\ p.newest \in Nat /\ p.newest \in Token
  BY Typed DEF IInv, Token
<1>2. CASE a[1] = Dead \/ a[1] = None
  <2>1. a[2] \in {p, [p EXCEPT !.revoked = "reuse"]}
    BY <1>1, <1>2, Apart DEF Answers, Token
  <2>2. a[2] \in Provider /\ a[2].newest = p.newest
    BY <1>1, <2>1 DEF Provider
  <2> QED
    BY <1>1, <1>2, <2>2, Apart DEF Result
<1>3. CASE a[1] \notin {Dead, None}
  <2>1. /\ Alive(c, t) /\ t < MaxToken /\ a = <<t + 1, [p EXCEPT !.newest = t + 1]>>
    BY <1>3 DEF Answers
  <2>2. t + 1 \in Token /\ p.newest = t
    BY <1>1, <2>1, Apart DEF Token, Alive
  <2>3. a[2] \in Provider /\ a[2].newest = t + 1
    BY <1>1, <2>1, <2>2 DEF Provider
  <2> QED
    BY <1>1, <2>1, <2>2, <2>3 DEF Result
<1> QED
  BY <1>2, <1>3

LEMMA AnswerInv ==
    ASSUME IInv, NEW c \in Conn, Answer(c)
    PROVE  IInv'
<1> DEFINE s == IF Len(lane) > 1 THEN "gap" ELSE "answered"
<1>1. task[c] # None /\ task[c].stage = "asking"
  BY DEF Answer
<1>2. PICK a \in Answers(c, task[c].presents) :
        /\ provider' = [provider EXCEPT ![c] = a[2]]
        /\ task' = [task EXCEPT ![c].got = a[1], ![c].stage = s]
  BY DEF Answer
<1>3. /\ lane' = IF Len(lane) > 1 THEN lane ELSE Tail(lane)
      /\ UNCHANGED <<row, rotated, caller, lost>>
  BY DEF Answer
<1>4. /\ a[1] \in Result /\ a[2] \in Provider /\ provider[c].newest <= a[2].newest
      /\ a[1] \in Token => task[c].presents < a[2].newest
  BY <1>1, AnswersTyped
<1>5. lane # <<>> /\ Head(lane) = c /\ \A d \in Conn : InLane(d) => d = c
  BY <1>1 DEF IInv, HeadAsks, InLane
<1>6. s \in Stage /\ (s = "gap" => Len(lane) > 1)
  BY DEF Stage
<1> HIDE DEF s
<1>7. task' = [task EXCEPT ![c] = Staged(task[c], a[1], s)]
  BY <1>2 DEF Staged, IInv, TypeOK
<1>8. \A d \in Conn : provider'[d] = IF d = c THEN a[2] ELSE provider[d]
  BY <1>2 DEF IInv, TypeOK
<1>9. /\ provider' \in [Conn -> Provider] /\ lane' \in Seq(Conn)
      /\ \A d \in Conn : provider[d].newest <= provider'[d].newest
  BY <1>2, <1>3, <1>4, <1>5, <1>8, LaneFacts, Typed, Apart DEF IInv, TypeOK
<1>10. s \in {"asking", "gap"} => lane' = lane
  BY <1>3, <1>6 DEF s
<1> QED
  BY <1>1, <1>3, <1>4, <1>5, <1>6, <1>7, <1>8, <1>9, <1>10, StagedKeeps

(* A caller that is told what the refresh came to. *)
LEMMA ToldTyped ==
    ASSUME NEW x \in CallerState, NEW g \in Result
    PROVE  LET v == [x EXCEPT !.pc = "returned", !.got = g]
           IN  /\ v \in CallerState /\ v.pc = "returned" /\ v.got = g
               /\ v.conn = x.conn /\ v.held = x.held
BY DEF CallerState

LEMMA SettleInv ==
    ASSUME IInv, NEW c \in Conn, Settle(c)
    PROVE  IInv'
<1> DEFINE t == task[c]
           ok == t.got \in Token
<1>1. /\ t # None /\ t \in Task /\ t.got \in Result /\ t.presents \in Token
      /\ task' = [task EXCEPT ![c] = None]
      /\ rotated' = IF ok /\ t.asked
                    THEN [rotated EXCEPT ![c] = @ \cup {t.presents}] ELSE rotated
      /\ row' = IF ok /\ ~Skipped(c) THEN [row EXCEPT ![c] = Stored(@, t.got)] ELSE row
      /\ caller' = [k \in Caller |->
            IF k \in Waiting(c) THEN [caller[k] EXCEPT !.pc = "returned", !.got = t.got]
            ELSE caller[k]]
      /\ lost' \in {lost, lost \cup {c}}
      /\ UNCHANGED <<provider, lane>>
  BY Typed DEF Settle, Answered, IInv
<1>2. row' \in [Conn -> Row]
  <2>1. ok => Stored(row[c], t.got) \in Row
    BY StoredTyped DEF IInv, TypeOK
  <2> QED
    BY <1>1, <2>1 DEF IInv, TypeOK
<1>3. rotated' \in [Conn -> SUBSET Token]
  BY <1>1 DEF IInv, TypeOK
<1>4. \A k \in Caller : /\ caller'[k] \in CallerState
                        /\ caller'[k].conn = caller[k].conn
                        /\ caller'[k].held = caller[k].held
                        /\ caller'[k].pc # "idle" => caller[k].pc # "idle"
  <2>1. ASSUME NEW k \in Waiting(c)
        PROVE  /\ caller'[k] \in CallerState
               /\ caller'[k].conn = caller[k].conn
               /\ caller'[k].held = caller[k].held
               /\ caller[k].pc # "idle"
    <3>1. k \in Caller /\ caller[k].pc = "waiting" /\ caller[k] \in CallerState
      BY <2>1, Typed DEF Waiting, IInv
    <3>2. caller'[k] = [caller[k] EXCEPT !.pc = "returned", !.got = t.got]
      BY <1>1, <2>1, <3>1
    <3> QED
      BY <1>1, <3>1, <3>2, ToldTyped
  <2>2. \A k \in Caller \ Waiting(c) : caller'[k] = caller[k]
    BY <1>1
  <2> QED
    BY <2>1, <2>2, Typed DEF IInv
<1>5. caller' \in [Caller -> CallerState]
  BY <1>1, <1>4
<1> HIDE DEF t
<1>6. \A d \in Conn : task'[d] = IF d = c THEN None ELSE task[d]
  BY <1>1 DEF IInv, TypeOK
<1>7. TypeOK'
  BY <1>1, <1>2, <1>3, <1>5 DEF IInv, TypeOK
<1>8. Placed'
  BY <1>4 DEF IInv, Placed
<1>9. Past'
  <2>1. ok /\ t.asked => t.presents < provider[c].newest
    BY <1>1 DEF IInv, Past, t
  <2>2. \A d \in Conn : rotated'[d] \subseteq IF d = c /\ ok /\ t.asked
                                              THEN rotated[d] \cup {t.presents} ELSE rotated[d]
    BY <1>1 DEF IInv, TypeOK
  <2> QED
    BY <1>1, <1>6, <2>1, <2>2 DEF IInv, Past
<1>10. HeadAsks'
  BY <1>1, <1>6 DEF IInv, HeadAsks, InLane
<1> QED
  BY <1>7, <1>8, <1>9, <1>10 DEF IInv

(* The world outside: tokens age, owners revoke and log in, the process restarts. *)
LEMMA WorldInv ==
    ASSUME IInv,
           Restart \/ \E c \in Conn : Expire(c) \/ Forget(c) \/ Revoke(c) \/ Login(c)
    PROVE  IInv'
<1>1. ASSUME NEW c \in Conn, Expire(c) PROVE IInv'
  <2>1. row' = [row EXCEPT ![c].fresh = FALSE]
        /\ UNCHANGED <<provider, rotated, task, lane, caller, lost>>
    BY <1>1 DEF Expire
  <2>2. row' \in [Conn -> Row]
    BY <2>1 DEF IInv, TypeOK, Row
  <2> QED
    BY <2>1, <2>2 DEF IInv, TypeOK, Placed, Past, HeadAsks, InLane
<1>2. ASSUME NEW c \in Conn, Forget(c) PROVE IInv'
  <2>1. PICK t : rotated' = [rotated EXCEPT ![c] = @ \ {t}]
    BY <1>2 DEF Forget
  <2>2. UNCHANGED <<row, provider, task, lane, caller, lost>>
    BY <1>2 DEF Forget
  <2>3. rotated' \in [Conn -> SUBSET Token] /\ \A d \in Conn : rotated'[d] \subseteq rotated[d]
    BY <2>1 DEF IInv, TypeOK
  <2> QED
    BY <2>2, <2>3 DEF IInv, TypeOK, Placed, Past, HeadAsks, InLane
<1>3. ASSUME UNCHANGED <<rotated, task, lane, caller, lost>>,
             provider' \in [Conn -> Provider], row' \in [Conn -> Row],
             \A d \in Conn : provider[d].newest <= provider'[d].newest
      PROVE  IInv'
  <2>1. \A d \in Conn : provider[d].newest \in Int /\ provider'[d].newest \in Int
    BY <1>3, Apart DEF IInv, TypeOK, Provider
  <2>2. \A d \in Conn : /\ rotated[d] \subseteq Int
                        /\ task[d] # None => task[d].presents \in Int
    BY Typed, Apart DEF IInv
  <2>3. Past'
    <3>1. ASSUME NEW d \in Conn, NEW t \in rotated[d] PROVE t < provider'[d].newest
      BY <1>3, <2>1, <2>2, <3>1 DEF IInv, Past
    <3>2. ASSUME NEW d \in Conn, task[d] # None, task[d].asked, task[d].got \in Token
          PROVE  task[d].presents < provider'[d].newest
      BY <1>3, <2>1, <2>2, <3>2 DEF IInv, Past
    <3> QED
      BY <1>3, <3>1, <3>2 DEF Past
  <2> QED
    BY <1>3, <2>3 DEF IInv, TypeOK, Placed, HeadAsks, InLane
<1>4. ASSUME NEW c \in Conn, Revoke(c) PROVE IInv'
  <2>1. provider' = [provider EXCEPT ![c].revoked = "user"]
        /\ UNCHANGED <<row, rotated, task, lane, caller, lost>>
    BY <1>4 DEF Revoke
  <2>2. \A d \in Conn : provider[d] \in Provider /\ provider[d].newest \in Int
    BY Typed, Apart DEF IInv
  <2> DEFINE p == [provider[c] EXCEPT !.revoked = "user"]
  <2>3. p \in Provider /\ p.newest = provider[c].newest
    BY <2>2 DEF Provider
  <2>4. \A d \in Conn : provider'[d] = IF d = c THEN p ELSE provider[d]
    BY <2>1 DEF IInv, TypeOK
  <2> HIDE DEF p
  <2>5. provider' \in [Conn -> Provider]
    BY <2>1, <2>2, <2>3, <2>4 DEF IInv, TypeOK
  <2>6. \A d \in Conn : provider[d].newest <= provider'[d].newest
    BY <2>2, <2>3, <2>4
  <2> QED
    BY <1>3, <2>1, <2>5, <2>6 DEF IInv, TypeOK
<1>5. ASSUME NEW c \in Conn, Login(c) PROVE IInv'
  <2> DEFINE t == provider[c].newest + 1
             p == [base |-> t, newest |-> t, revoked |-> "no"]
             r == [token |-> t, fresh |-> TRUE, status |-> "active", active |-> TRUE]
  <2>1. /\ provider' = [provider EXCEPT ![c] = p] /\ row' = [row EXCEPT ![c] = r]
        /\ UNCHANGED <<rotated, task, lane, caller, lost>> /\ provider[c].newest < MaxToken
    BY <1>5 DEF Login
  <2>2. \A d \in Conn : provider[d].newest \in Token /\ provider[d].newest \in Int
    BY Typed, Apart DEF IInv
  <2>3. t \in Token
    BY <2>1, <2>2, Apart DEF Token
  <2>4. p \in Provider /\ r \in Row /\ p.newest = t
    BY <2>3 DEF Provider, Row
  <2> HIDE DEF p, r
  <2>5. provider' \in [Conn -> Provider] /\ row' \in [Conn -> Row]
    BY <2>1, <2>4 DEF IInv, TypeOK
  <2>6. \A d \in Conn : provider'[d] = IF d = c THEN p ELSE provider[d]
    BY <2>1 DEF IInv, TypeOK
  <2>7. \A d \in Conn : provider[d].newest <= provider'[d].newest
    BY <2>2, <2>4, <2>6
  <2> QED
    BY <1>3, <2>1, <2>5, <2>7
<1>6. CASE Restart
  <2>1. /\ rotated' = [c \in Conn |-> {}] /\ task' = [c \in Conn |-> None]
        /\ lane' = <<>> /\ caller' = [k \in Caller |-> Idle]
        /\ UNCHANGED <<row, provider>> /\ lost' \subseteq lost \cup Conn
    BY <1>6 DEF Restart
  <2>2. TypeOK'
    BY <2>1, IdleTyped DEF IInv, TypeOK
  <2> QED
    BY <2>1, <2>2, IdleTyped DEF IInv, Placed, Past, HeadAsks, InLane
<1> QED
  BY <1>1, <1>2, <1>4, <1>5, <1>6

LEMMA NextInv == IInv /\ [Next]_vars => IInv'
<1> SUFFICES ASSUME IInv, [Next]_vars PROVE IInv'
  OBVIOUS
<1>1. ASSUME NEW k \in Caller, NEW c \in Conn, Load(k, c) PROVE IInv'
  BY <1>1, LoadInv
<1>2. ASSUME NEW k \in Caller, Begin(k) PROVE IInv'
  BY <1>2, BeginInv
<1>3. ASSUME NEW k \in Caller, NoNeed(k) \/ Join(k) \/ Return(k) \/ Abandon(k) PROVE IInv'
  BY <1>3, MovesInv, ReturnInv DEF Return
<1>4. ASSUME NEW c \in Conn, Serve(c) PROVE IInv'
  BY <1>4, SendInv, AnswerInv, GapEndsInv, SettleInv DEF Serve
<1>5. CASE Restart \/ \E c \in Conn : Expire(c) \/ Forget(c) \/ Revoke(c) \/ Login(c)
  BY <1>5, WorldInv
<1>6. CASE UNCHANGED vars
  BY <1>6 DEF vars, IInv, TypeOK, Placed, Past, HeadAsks, InLane
<1> QED
  BY <1>1, <1>2, <1>3, <1>4, <1>5, <1>6 DEF Next

LEMMA Invariance == Spec => []IInv
BY InitInv, NextInv, PTL DEF Spec

(* Rows, the provider, the map, the mutexes, the lane and callers keep their types. *)
THEOREM TypeCorrect == Spec => []TypeOK
<1>1. IInv => TypeOK
  BY DEF IInv
<1> QED
  BY <1>1, Invariance, PTL

(***************************************************************************)
(* However refreshes are begun, abandoned and cut short by restarts, one   *)
(* connection of the rotation group at a time is with the provider or in   *)
(* the gap after it (serializeRefresh(), refreshSerializer.ts:74-105).     *)
(***************************************************************************)
THEOREM RefreshesTakeTurns == Spec => []OneAtATime
<1>1. IInv => OneAtATime
  BY DEF IInv, HeadAsks, OneAtATime
<1> QED
  BY <1>1, Invariance, PTL

-----------------------------------------------------------------------------
(***************************************************************************)
(* No token is presented twice.  The invariant, for a connection none of   *)
(* whose tokens was lost: the newest token is in its row, in its refresh   *)
(* in flight, or with a caller about to store it (Reachable); a refresh    *)
(* presents the newest token and what it gets takes that token's place     *)
(* (TaskKept); and nobody is told of another token (TurnKept).             *)
(***************************************************************************)
Mild == Revocable = {} /\ ~Blips /\ ~QuickRotations

TaskKept(c) ==
    LET t == task[c]
        n == provider[c].newest
    IN  task[c] # None =>
        /\ t.got \in {None, n}
        /\ t.stage # "answered" => t.asked
        /\ t.stage \in {"queued", "asking"} => t.presents = n /\ t.got = None
        /\ t.stage = "asking" => rotated[c] = {}
        /\ t.asked /\ t.got = n => t.presents + 1 = n /\ rotated[c] = {}
        /\ ~t.asked => t.got = n /\ row[c].token = n

TurnKept(c) ==
    \A k \in Returned : caller[k].conn = c => caller[k].got \in {None, provider[c].newest}

Reachable(c) ==
    LET n == provider[c].newest
    IN  \/ row[c].token = n
        \/ task[c] # None /\ task[c].got = n
        \/ \E k \in Returned : caller[k].conn = c /\ caller[k].got = n /\ StoresAgain(k)

Kept(c) ==
    /\ provider[c].revoked = "no"
    /\ row[c].token \in Token
    /\ \A t \in rotated[c] : t + 1 = provider[c].newest
    /\ TaskKept(c) /\ TurnKept(c) /\ Reachable(c)

Safe == \A c \in Conn \ lost : Kept(c)

LEMMA InitSafe == Init => Safe
<1> SUFFICES ASSUME Init, NEW c \in Conn PROVE Kept(c)
  BY DEF Safe
<1>1. 0 \in Token
  BY RefreshAssumption DEF Token
<1> QED
  BY <1>1, IdleTyped DEF Init, Good, Kept, TaskKept, TurnKept, Reachable, Returned

(* The newest token is a number, and neither an error nor nothing. *)
LEMMA NewestTyped ==
    ASSUME IInv, NEW c \in Conn
    PROVE  provider[c].newest \in Token /\ provider[c].newest \in Int
           /\ provider[c].newest # None /\ provider[c].newest # Dead
BY Typed, Apart DEF IInv

(* A step keeps a connection if it changes nothing that Kept looks at. *)
LEMMA SameKept ==
    ASSUME NEW c \in Conn, Kept(c),
           provider'[c] = provider[c], row'[c].token = row[c].token,
           rotated'[c] \subseteq rotated[c], task'[c] = task[c],
           \A k \in Caller : caller'[k].pc = "returned" /\ caller'[k].conn = c
                => caller'[k] = caller[k],
           \A k \in Returned : caller[k].conn = c /\ StoresAgain(k)
                               /\ caller[k].got = provider[c].newest
                => caller'[k] = caller[k]
    PROVE  Kept(c)'
<1>1. TaskKept(c)'
  BY DEF Kept, TaskKept
<1>2. TurnKept(c)'
  BY DEF Kept, TurnKept, Returned
<1>3. Reachable(c)'
  BY DEF Kept, Reachable, Returned, StoresAgain
<1> QED
  BY <1>1, <1>2, <1>3 DEF Kept

(* Where nobody is about to go on, the newest token is in the row or in flight. *)
LEMMA QuietReachable ==
    ASSUME NEW c \in Conn, Kept(c), Returned = {}
    PROVE  \/ row[c].token = provider[c].newest
           \/ task[c] # None /\ task[c].got = provider[c].newest
BY DEF Kept, Reachable

(* Steps of callers that begin no refresh and have nothing to store. *)
LEMMA MovesSafe ==
    ASSUME IInv, Safe, NEW k \in Caller,
           \/ NoNeed(k) \/ Join(k) \/ Abandon(k) \/ ReturnNull(k)
           \/ \E d \in Conn : Load(k, d)
    PROVE  Safe'
<1> SUFFICES ASSUME NEW c \in Conn \ lost PROVE Kept(c)'
  BY DEF Safe, NoNeed, Join, Abandon, ReturnNull, Load
<1>0. UNCHANGED <<provider, rotated, task, lane, lost>> /\ Kept(c)
  BY DEF Safe, NoNeed, Join, Abandon, ReturnNull, Load
<1>1. row'[c].token = row[c].token
  <2>1. CASE ReturnNull(k)
    <3>1. WrittenBack(k, row[c]).token = row[c].token
      BY Typed, VerdictsTyped DEF IInv
    <3>2. row'[c] \in {row[c], WrittenBack(k, row[c])}
      BY <2>1 DEF ReturnNull, IInv, TypeOK
    <3> QED
      BY <3>1, <3>2
  <2>2. CASE ~ReturnNull(k)
    BY <2>2 DEF NoNeed, Join, Abandon, Load
  <2> QED
    BY <2>1, <2>2
<1>2. /\ \A j \in Caller \ {k} : caller'[j] = caller[j]
      /\ caller'[k].pc # "returned"
  <2>1. Idle.pc # "returned"
    BY IdleTyped
  <2>2. Again(k).pc # "returned" /\ Again(k) \in {Idle, [caller[k] EXCEPT !.pc = "loaded", !.got = None]}
    BY <2>1, Typed DEF Again, IInv, CallerState
  <2>3. CASE NoNeed(k) \/ Abandon(k) \/ ReturnNull(k)
    BY <2>1, <2>2, <2>3 DEF NoNeed, Abandon, ReturnNull, IInv, TypeOK
  <2>4. CASE Join(k)
    <3>1. caller[k].pc = "loaded" /\ caller' = [caller EXCEPT ![k].pc = "waiting",
             ![k].tries = @ + 1, ![k].of = task[caller[k].conn].presents]
      BY <2>4 DEF Join
    <3>2. caller[k] \in CallerState
      BY Typed DEF IInv
    <3>3. caller'[k].pc = "waiting"
      BY <3>1, <3>2 DEF IInv, TypeOK, CallerState
    <3> QED
      BY <3>1, <3>3 DEF IInv, TypeOK
  <2>5. CASE \E d \in Conn : Load(k, d)
    BY <2>5 DEF Load, Idle, IInv, TypeOK
  <2> QED
    BY <2>3, <2>4, <2>5
<1>3. k \notin Returned \/ caller[k].got = None
  BY DEF Returned, NoNeed, Join, Abandon, ReturnNull, Load
<1>4. Returned \subseteq Caller /\ provider[c].newest # None
  BY NewestTyped DEF Returned
<1> QED
  BY <1>0, <1>1, <1>2, <1>3, <1>4, SameKept

(***************************************************************************)
(* A refresh begins: what the map or the row has is the newest token, and  *)
(* what is presented otherwise is the row's.                               *)
(***************************************************************************)
LEMMA BeginSafe ==
    ASSUME IInv, Safe, NEW k \in Caller, Begin(k)
    PROVE  Safe'
<1> SUFFICES ASSUME NEW c \in Conn \ lost PROVE Kept(c)'
  BY DEF Safe, Begin
<1> DEFINE d == caller[k].conn
           n == provider[c].newest
<1>1. PICK t \in Token :
        LET new == [presents |-> t, expects |-> Guard(k), asked |-> Known(k) = None,
                    got |-> Known(k),
                    stage |-> IF Known(k) = None THEN "queued" ELSE "answered"]
        IN  /\ d \in Conn /\ task[d] = None
            /\ t = IF Known(k) = None /\ row[d].token # None THEN row[d].token ELSE caller[k].held
            /\ task' = [task EXCEPT ![d] = new]
            /\ caller' = [caller EXCEPT ![k] = Waits(caller[k], t, t)]
            /\ UNCHANGED <<row, provider, rotated, lost>>
  BY Begun
<1>2. Kept(c) /\ Returned = {} /\ n \in Token /\ n # None /\ row[c].token \in Token
  BY NewestTyped DEF Safe, Begin, Quiet, Kept
<1>3. Returned' = {}
  <2>1. Waits(caller[k], t, t).pc = "waiting"
    BY WaitsTyped, Typed DEF IInv
  <2> QED
    BY <1>1, <1>2, <2>1 DEF Returned, IInv, TypeOK
<1>4. CASE c # d
  <2>1. task'[c] = task[c]
    BY <1>1, <1>4 DEF IInv, TypeOK
  <2> QED
    BY <1>1, <1>2, <1>3, <2>1, SameKept DEF Returned
<1>5. CASE c = d
  <2>1. row[c].token = n
    BY <1>1, <1>2, <1>5, QuietReachable
  <2>2. Known(k) \in {None, n}
    <3>1. CASE caller[k].held \in rotated[c]
      BY <1>2, <1>5, <3>1 DEF Known, Kept
    <3>2. CASE caller[k].held \notin rotated[c]
      BY <1>5, <2>1, <3>2 DEF Known
    <3> QED
      BY <3>1, <3>2
  <2>3. Known(k) = None => t = n
    BY <1>1, <1>2, <1>5, <2>1
  <2> DEFINE new == [presents |-> t, expects |-> Guard(k), asked |-> Known(k) = None,
                     got |-> Known(k),
                     stage |-> IF Known(k) = None THEN "queued" ELSE "answered"]
  <2>4. /\ new.got = Known(k) /\ (new.asked <=> Known(k) = None) /\ new.presents = t
        /\ new.stage = IF Known(k) = None THEN "queued" ELSE "answered"
    OBVIOUS
  <2>5. task' = [task EXCEPT ![c] = new]
    BY <1>1, <1>5
  <2> HIDE DEF new
  <2>6. task'[c] = new
    BY <2>5 DEF IInv, TypeOK
  <2>7. UNCHANGED <<row, provider, rotated>>
    BY <1>1
  <2> HIDE DEF d
  <2>8. TaskKept(c)'
    BY <1>2, <2>1, <2>2, <2>3, <2>4, <2>6, <2>7 DEF TaskKept
  <2> QED
    BY <1>2, <1>3, <2>1, <2>7, <2>8 DEF Kept, TurnKept, Reachable
<1> QED
  BY <1>4, <1>5

(* Steps of one refresh leave the other connections alone. *)
LEMMA OthersKept ==
    ASSUME IInv, Safe, NEW c \in Conn, NEW d \in Conn \ lost, d # c,
           UNCHANGED <<row, rotated, caller>>, Returned = {},
           task'[d] = task[d], provider'[d] = provider[d]
    PROVE  Kept(d)'
<1>1. Kept(d) /\ Returned' = {}
  BY DEF Safe, Returned
<1> QED
  BY <1>1, SameKept DEF Returned

LEMMA SendSafe ==
    ASSUME IInv, Safe, Mild, NEW c \in Conn, Send(c)
    PROVE  Safe'
<1>1. /\ task[c] # None /\ task[c].stage = "queued" /\ rotated[c] = {}
      /\ task' = [task EXCEPT ![c].stage = "asking"] /\ Returned = {}
      /\ UNCHANGED <<row, provider, rotated, lane, caller, lost>>
  BY DEF Send, Mild, Quiet
<1>2. task[c] \in Task
  BY <1>1, Typed DEF IInv
<1> DEFINE x == [task[c] EXCEPT !.stage = "asking"]
<1>3. /\ x \in Task /\ x.stage = "asking" /\ x.got = task[c].got
      /\ x.presents = task[c].presents /\ (x.asked <=> task[c].asked)
  BY <1>2 DEF Task, Stage
<1> HIDE DEF x
<1>4. \A d \in Conn : task'[d] = IF d = c THEN x ELSE task[d]
  BY <1>1 DEF IInv, TypeOK, x
<1>5. ASSUME c \notin lost PROVE Kept(c)'
  <2>1. Kept(c) /\ Returned' = {} /\ x # None
    BY <1>1, <1>3, <1>5, Apart DEF Safe, Returned
  <2>2. TaskKept(c)'
    BY <1>1, <1>3, <1>4, <2>1 DEF Kept, TaskKept
  <2> QED
    BY <1>1, <1>3, <1>4, <2>1, <2>2, QuietReachable DEF Kept, TurnKept, Reachable
<1>6. ASSUME NEW d \in Conn \ lost, d # c PROVE Kept(d)'
  BY <1>1, <1>4, <1>6, OthersKept
<1> QED
  BY <1>1, <1>5, <1>6 DEF Safe

LEMMA GapEndsSafe ==
    ASSUME IInv, Safe, NEW c \in Conn, GapEnds(c)
    PROVE  Safe'
<1>1. /\ task[c] # None /\ task[c].stage = "gap" /\ Returned = {}
      /\ task' = [task EXCEPT ![c].stage = "answered"]
      /\ UNCHANGED <<row, provider, rotated, caller, lost>>
  BY DEF GapEnds, Quiet
<1>2. task[c] \in Task
  BY <1>1, Typed DEF IInv
<1> DEFINE x == [task[c] EXCEPT !.stage = "answered"]
<1>3. /\ x \in Task /\ x.stage = "answered" /\ x.got = task[c].got
      /\ x.presents = task[c].presents /\ (x.asked <=> task[c].asked)
  BY <1>2 DEF Task, Stage
<1> HIDE DEF x
<1>4. \A d \in Conn : task'[d] = IF d = c THEN x ELSE task[d]
  BY <1>1 DEF IInv, TypeOK, x
<1>5. ASSUME c \notin lost PROVE Kept(c)'
  <2>1. Kept(c) /\ Returned' = {} /\ x # None
    BY <1>1, <1>3, <1>5, Apart DEF Safe, Returned
  <2>2. TaskKept(c)'
    BY <1>1, <1>3, <1>4, <2>1 DEF Kept, TaskKept
  <2> QED
    BY <1>1, <1>3, <1>4, <2>1, <2>2, QuietReachable DEF Kept, TurnKept, Reachable
<1>6. ASSUME NEW d \in Conn \ lost, d # c PROVE Kept(d)'
  BY <1>1, <1>4, <1>6, OthersKept
<1> QED
  BY <1>1, <1>5, <1>6 DEF Safe

(***************************************************************************)
(* The provider answers: it was shown the newest token, so it issues the   *)
(* next one, or nothing arrives.                                           *)
(***************************************************************************)
LEMMA AnswerSafe ==
    ASSUME IInv, Safe, Mild, NEW c \in Conn, Answer(c)
    PROVE  Safe'
<1> DEFINE s == IF Len(lane) > 1 THEN "gap" ELSE "answered"
           t == task[c].presents
<1>1. /\ task[c] # None /\ task[c].stage = "asking" /\ Returned = {}
      /\ UNCHANGED <<row, rotated, caller, lost>>
  BY DEF Answer, Quiet
<1>2. PICK a \in Answers(c, t) :
        /\ provider' = [provider EXCEPT ![c] = a[2]]
        /\ task' = [task EXCEPT ![c].got = a[1], ![c].stage = s]
  BY DEF Answer
<1>3. s \in {"gap", "answered"} /\ s \in Stage
  BY DEF Stage
<1> HIDE DEF s
<1>4. task[c] \in Task /\ a[1] \in Result /\ a[2] \in Provider
  BY <1>1, AnswersTyped, Typed DEF IInv
<1> DEFINE x == Staged(task[c], a[1], s)
<1>5. /\ x \in Task /\ x.stage = s /\ x.got = a[1] /\ x.presents = t
      /\ (x.asked <=> task[c].asked)
  BY <1>3, <1>4, StagedTyped
<1>6. \A d \in Conn : /\ task'[d] = IF d = c THEN x ELSE task[d]
                      /\ provider'[d] = IF d = c THEN a[2] ELSE provider[d]
  BY <1>2 DEF IInv, TypeOK, Staged
<1> HIDE DEF x
<1>7. ASSUME c \notin lost PROVE Kept(c)'
  <2>1. Kept(c) /\ Returned' = {} /\ x # None
    BY <1>1, <1>5, <1>7, Apart DEF Safe, Returned
  <2>2. /\ t = provider[c].newest /\ task[c].asked /\ rotated[c] = {} /\ task[c].got = None
        /\ provider[c].revoked = "no"
    BY <1>1, <2>1 DEF Kept, TaskKept
  <2>3. t \in Token /\ t \in Int /\ t # None /\ provider[c] \in Provider
    BY <2>2, NewestTyped, Typed DEF IInv
  <2>4. row[c].token = t
    BY <1>1, <2>1, <2>2, <2>3, QuietReachable
  <2>5. Alive(c, t)
    BY <2>2 DEF Alive
  <2>6. \/ a = <<None, provider[c]>>
        \/ t < MaxToken /\ a = <<t + 1, [provider[c] EXCEPT !.newest = t + 1]>>
    BY <2>5 DEF Answers, Mild
  <2>7. CASE a = <<None, provider[c]>>
    <3>1. provider'[c] = provider[c] /\ x.got = None
      BY <1>5, <1>6, <2>7
    <3>2. TaskKept(c)'
      BY <1>3, <1>5, <1>6, <2>2, <2>3, <3>1 DEF TaskKept
    <3> QED
      BY <1>1, <2>1, <2>2, <2>4, <3>1, <3>2 DEF Kept, TurnKept, Reachable
  <2>8. CASE t < MaxToken /\ a = <<t + 1, [provider[c] EXCEPT !.newest = t + 1]>>
    <3>1. /\ provider'[c] = [provider[c] EXCEPT !.newest = t + 1]
          /\ x.got = t + 1
      BY <1>5, <1>6, <2>8
    <3>2. provider'[c].newest = t + 1 /\ provider'[c].revoked = "no"
      BY <2>2, <2>3, <3>1 DEF Provider
    <3>3. TaskKept(c)'
      BY <1>1, <1>3, <1>5, <1>6, <2>2, <2>3, <3>1, <3>2 DEF TaskKept
    <3> QED
      BY <1>1, <1>6, <2>1, <2>2, <3>1, <3>2, <3>3 DEF Kept, TurnKept, Reachable
  <2> QED
    BY <2>6, <2>7, <2>8
<1>8. ASSUME NEW d \in Conn \ lost, d # c PROVE Kept(d)'
  BY <1>1, <1>6, <1>8, OthersKept
<1> QED
  BY <1>1, <1>7, <1>8 DEF Safe

(***************************************************************************)
(* A refresh settles: what it got is persisted, or the row has the newest  *)
(* token already, or somebody who waits stores it again; or it is lost.    *)
(***************************************************************************)
LEMMA SettleSafe ==
    ASSUME IInv, Safe, NEW c \in Conn, Settle(c)
    PROVE  Safe'
<1> DEFINE t == task[c]
           n == provider[c].newest
           ok == t.got \in Token
           told(k) == [caller[k] EXCEPT !.pc = "returned", !.got = t.got]
<1>1. /\ t # None /\ t \in Task /\ t.stage = "answered" /\ Returned = {}
      /\ task' = [task EXCEPT ![c] = None]
      /\ rotated' = IF ok /\ t.asked
                    THEN [rotated EXCEPT ![c] = @ \cup {t.presents}] ELSE rotated
      /\ row' = IF ok /\ ~Skipped(c) THEN [row EXCEPT ![c] = Stored(@, t.got)] ELSE row
      /\ caller' = [k \in Caller |-> IF k \in Waiting(c) THEN told(k) ELSE caller[k]]
      /\ lost' = IF ok /\ t.asked /\ Skipped(c) /\ ~(\E k \in Waiting(c) : StoresAgain(k))
                 THEN lost \cup {c} ELSE lost
      /\ UNCHANGED provider
  BY Typed DEF Settle, Answered, IInv
<1>2. \A d \in Conn \ {c} : /\ task'[d] = task[d] /\ rotated'[d] = rotated[d]
                            /\ row'[d] = row[d] /\ provider'[d] = provider[d]
  BY <1>1 DEF IInv, TypeOK
<1>3. \A k \in Waiting(c) : /\ k \in Caller /\ caller[k].conn = c
                            /\ caller'[k].pc = "returned" /\ caller'[k].got = t.got
                            /\ caller'[k].conn = c
  <2> SUFFICES ASSUME NEW k \in Waiting(c)
               PROVE  /\ k \in Caller /\ caller[k].conn = c
                      /\ caller'[k].pc = "returned" /\ caller'[k].got = t.got
                      /\ caller'[k].conn = c
    OBVIOUS
  <2>1. k \in Caller /\ caller[k].conn = c /\ caller[k] \in CallerState
    BY Typed DEF Waiting, IInv
  <2>2. caller'[k] = [caller[k] EXCEPT !.pc = "returned", !.got = t.got]
    BY <1>1, <2>1
  <2>3. t.got \in Result
    BY <1>1, Typed DEF IInv
  <2> DEFINE x == caller[k]
             g == t.got
             y == caller'[k]
  <2>4. x \in CallerState /\ g \in Result /\ y = [x EXCEPT !.pc = "returned", !.got = g]
    BY <2>1, <2>2, <2>3
  <2> HIDE DEF x, g, y
  <2>5. y.pc = "returned" /\ y.got = g /\ y.conn = x.conn
    BY <2>4 DEF CallerState
  <2> QED
    BY <2>1, <2>5 DEF x, g, y
<1>4. \A k \in Caller \ Waiting(c) : caller'[k] = caller[k] /\ caller'[k].pc # "returned"
  BY <1>1 DEF Returned
<1> HIDE DEF told
<1>5. ASSUME NEW d \in Conn \ lost, d # c PROVE Kept(d)'
  <2>1. Kept(d)
    BY DEF Safe
  <2>2. \A k \in Caller : caller'[k].pc = "returned" /\ caller'[k].conn = d => caller'[k] = caller[k]
    BY <1>3, <1>4, <1>5
  <2> QED
    BY <1>1, <1>2, <1>5, <2>1, <2>2, SameKept
<1>6. ASSUME c \notin lost' PROVE Kept(c)'
  <2>1. Kept(c) /\ n \in Token /\ n # None /\ row[c].token \in Token
    BY <1>1, <1>6, NewestTyped DEF Safe, Kept
  <2>2. /\ t.got \in {None, n} /\ (ok <=> t.got = n)
        /\ t.asked /\ t.got = n => t.presents + 1 = n /\ rotated[c] = {}
        /\ ~t.asked => t.got = n /\ row[c].token = n
    BY <1>1, <2>1, Apart DEF Kept, TaskKept
  <2>3. task'[c] = None /\ provider'[c] = provider[c]
    BY <1>1 DEF IInv, TypeOK
  <2>4. row'[c].token = IF ok /\ ~Skipped(c) THEN n ELSE row[c].token
    <3>1. row'[c] = IF ok /\ ~Skipped(c) THEN Stored(row[c], t.got) ELSE row[c]
      BY <1>1 DEF IInv, TypeOK
    <3>2. ok => Stored(row[c], t.got).token = t.got
      BY StoredTyped, Typed DEF IInv
    <3> QED
      BY <2>2, <3>1, <3>2
  <2>5. \A u \in rotated'[c] : u + 1 = n
    <3>1. rotated'[c] = IF ok /\ t.asked THEN rotated[c] \cup {t.presents} ELSE rotated[c]
      BY <1>1 DEF IInv, TypeOK
    <3> QED
      BY <2>1, <2>2, <3>1 DEF Kept
  <2>6. TurnKept(c)'
    <3>1. ASSUME NEW k \in Caller, caller'[k].pc = "returned" PROVE caller'[k].got \in {None, n}
      BY <1>3, <1>4, <2>2, <3>1
    <3> QED
      BY <2>3, <3>1 DEF TurnKept, Returned
  <2>7. Reachable(c)'
    <3>1. CASE ~ok
      BY <1>1, <2>1, <2>2, <2>3, <2>4, <3>1, QuietReachable DEF Reachable
    <3>2. CASE ok /\ (~Skipped(c) \/ ~t.asked)
      BY <2>2, <2>3, <2>4, <3>2 DEF Reachable
    <3>3. CASE ok /\ Skipped(c) /\ t.asked
      <4>1. PICK k \in Waiting(c) : StoresAgain(k)
        BY <1>1, <1>6, <3>3
      <4> QED
        BY <1>3, <2>2, <2>3, <3>3, <4>1 DEF Reachable, Returned, StoresAgain
    <3> QED
      BY <3>1, <3>2, <3>3
  <2>8. TaskKept(c)'
    BY <2>3 DEF TaskKept
  <2> QED
    BY <2>1, <2>3, <2>4, <2>5, <2>6, <2>7, <2>8 DEF Kept
<1> QED
  BY <1>1, <1>5, <1>6 DEF Safe

(* A caller goes on with tokens: they are the newest, or none of its business. *)
LEMMA ReturnTokensSafe ==
    ASSUME IInv, Safe, NEW k \in Caller, ReturnTokens(k)
    PROVE  Safe'
<1> DEFINE d == caller[k].conn
<1>1. /\ k \in Returned /\ d \in Conn /\ caller[k].got \in Token
      /\ row' = IF StoresAgain(k) THEN [row EXCEPT ![d] = Stored(@, caller[k].got)] ELSE row
      /\ caller' = [caller EXCEPT ![k] = Idle]
      /\ UNCHANGED <<provider, rotated, task, lane, lost>>
  BY DEF ReturnTokens, Returned, IInv, Placed
<1>2. /\ caller'[k].pc # "returned"
      /\ \A j \in Caller \ {k} : caller'[j] = caller[j]
  BY <1>1, IdleTyped DEF IInv, TypeOK
<1> SUFFICES ASSUME NEW c \in Conn \ lost PROVE Kept(c)'
  BY <1>1 DEF Safe
<1>3. Kept(c) /\ Returned \subseteq Caller
  BY DEF Safe, Returned
<1>4. CASE c # d \/ ~StoresAgain(k)
  <2>1. row'[c] = row[c]
    BY <1>1, <1>4 DEF IInv, TypeOK
  <2> QED
    BY <1>1, <1>2, <1>3, <1>4, <2>1, SameKept
<1>5. CASE c = d /\ StoresAgain(k)
  <2>1. caller[k].got = provider[c].newest
    BY <1>1, <1>3, <1>5, Apart DEF Kept, TurnKept
  <2>2. row'[c].token = provider[c].newest
    <3>1. row'[c] = Stored(row[c], caller[k].got)
      BY <1>1, <1>5 DEF IInv, TypeOK
    <3> QED
      BY <1>1, <2>1, <3>1, StoredTyped, Typed DEF IInv
  <2>3. TurnKept(c)'
    BY <1>1, <1>2, <1>3 DEF Kept, TurnKept, Returned
  <2>4. TaskKept(c)'
    BY <1>1, <1>3, <2>2 DEF Kept, TaskKept
  <2> QED
    BY <1>1, <1>3, <2>1, <2>2, <2>3, <2>4 DEF Kept, Reachable
<1> QED
  BY <1>4, <1>5

(* Nobody is told that a token of a connection with none lost is dead. *)
LEMMA ReturnErrorSafe ==
    ASSUME IInv, Safe, NEW k \in Caller, ReturnError(k)
    PROVE  Safe'
<1> DEFINE d == caller[k].conn
<1>1. /\ k \in Returned /\ d \in Conn /\ caller[k].got = Dead
      /\ \A c \in Conn \ {d} : row'[c] = row[c]
      /\ caller' = [caller EXCEPT ![k] = Idle]
      /\ UNCHANGED <<provider, rotated, task, lane, lost>>
  BY DEF ReturnError, Returned, IInv, Placed, TypeOK
<1>2. /\ caller'[k].pc # "returned"
      /\ \A j \in Caller \ {k} : caller'[j] = caller[j]
  BY <1>1, IdleTyped DEF IInv, TypeOK
<1> SUFFICES ASSUME NEW c \in Conn \ lost PROVE Kept(c)'
  BY <1>1 DEF Safe
<1>3. Kept(c) /\ Returned \subseteq Caller
  BY DEF Safe, Returned
<1>4. c # d
  BY <1>1, <1>3, NewestTyped, Apart DEF Kept, TurnKept
<1> QED
  BY <1>1, <1>2, <1>3, <1>4, SameKept

(* The world outside, when owners revoke nothing. *)
LEMMA WorldSafe ==
    ASSUME IInv, Safe, Mild,
           Restart \/ \E c \in Conn : Expire(c) \/ Forget(c) \/ Revoke(c) \/ Login(c)
    PROVE  Safe'
<1>1. ASSUME NEW d \in Conn, Expire(d) \/ Forget(d) PROVE Safe'
  <2> SUFFICES ASSUME NEW c \in Conn \ lost PROVE Kept(c)'
    BY <1>1 DEF Safe, Expire, Forget
  <2>1. UNCHANGED <<provider, task, caller, lost>> /\ Kept(c)
    BY <1>1 DEF Safe, Expire, Forget
  <2>2. row'[c].token = row[c].token
    BY <1>1 DEF Expire, Forget, IInv, TypeOK, Row
  <2>3. rotated'[c] \subseteq rotated[c]
    BY <1>1 DEF Expire, Forget, IInv, TypeOK
  <2> QED
    BY <2>1, <2>2, <2>3, SameKept
<1>2. CASE Restart
  <2> SUFFICES ASSUME NEW c \in Conn \ lost' PROVE Kept(c)'
    BY DEF Safe
  <2>1. /\ lost' = lost \cup {d \in Conn : Unwritten(d)}
        /\ rotated' = [d \in Conn |-> {}] /\ task' = [d \in Conn |-> None]
        /\ caller' = [k \in Caller |-> Idle]
        /\ UNCHANGED <<row, provider>>
    BY <1>2 DEF Restart
  <2>2. Kept(c) /\ ~Unwritten(c)
    BY <2>1 DEF Safe
  <2>3. row[c].token = provider[c].newest
    BY <2>2 DEF Unwritten, Kept, Reachable
  <2>4. Returned' = {}
    BY <2>1, IdleTyped DEF Returned
  <2> QED
    BY <2>1, <2>2, <2>3, <2>4 DEF Kept, TaskKept, TurnKept, Reachable
<1> QED
  BY <1>1, <1>2 DEF Mild, Revoke, Login

LEMMA NextSafe == ASSUME Mild PROVE IInv /\ Safe /\ [Next]_vars => Safe'
<1> SUFFICES ASSUME IInv, Safe, [Next]_vars PROVE Safe'
  OBVIOUS
<1>1. ASSUME NEW k \in Caller, Begin(k) PROVE Safe'
  BY <1>1, BeginSafe
<1>2. ASSUME NEW k \in Caller,
             \/ NoNeed(k) \/ Join(k) \/ Return(k) \/ Abandon(k)
             \/ \E c \in Conn : Load(k, c)
      PROVE  Safe'
  BY <1>2, MovesSafe, ReturnTokensSafe, ReturnErrorSafe DEF Return
<1>3. ASSUME NEW c \in Conn, Serve(c) PROVE Safe'
  BY <1>3, SendSafe, AnswerSafe, GapEndsSafe, SettleSafe DEF Serve
<1>4. CASE Restart \/ \E c \in Conn : Expire(c) \/ Forget(c) \/ Revoke(c) \/ Login(c)
  BY <1>4, WorldSafe
<1>5. CASE UNCHANGED vars
  <2>1. UNCHANGED <<row, provider, rotated, task, caller, lost>>
    BY <1>5 DEF vars
  <2> QED
    BY <2>1, SameKept DEF Safe
<1> QED
  BY <1>1, <1>2, <1>3, <1>4, <1>5 DEF Next

(***************************************************************************)
(* Whatever waits in the lane, is shared, abandoned or cut short by a      *)
(* restart, a single-use token is presented once, unless the answer that   *)
(* replaced it was never stored (getAccessToken(), tokenRefresh.ts, and    *)
(* what its callers do with the answer).                                   *)
(***************************************************************************)
THEOREM TokensPresentedOnce == ASSUME Mild PROVE Spec => []PresentedOnce
<1>1. Safe => PresentedOnce
  BY DEF Safe, Kept, PresentedOnce
<1>2. IInv /\ Safe /\ [Next]_vars => Safe'
  BY NextSafe
<1> QED
  BY <1>1, <1>2, InitSafe, Invariance, PTL DEF Spec
-----------------------------------------------------------------------------
(***************************************************************************)
(* Only dead tokens take an account out of service.  The invariant: every  *)
(* token about was issued, whoever waits waits for the refresh of the      *)
(* token noted, and an error is about a token that is spent for good.      *)
(***************************************************************************)
Spent(p, t) == t <= p.newest /\ (t = p.newest => p.revoked # "no")

RowTrue(c) == row[c].token # None => row[c].token <= provider[c].newest

TaskTrue(c) ==
    LET t == task[c]
    IN  t # None =>
        /\ t.presents <= provider[c].newest
        /\ t.got \in Token => t.got <= provider[c].newest
        /\ t.got = Dead => Spent(provider[c], t.presents)

CallerTrue(k) ==
    LET x == caller[k]
    IN  /\ x.pc # "idle" => x.held <= provider[x.conn].newest /\ x.attempted # None
        /\ x.pc = "waiting" => task[x.conn] # None /\ x.of = task[x.conn].presents
        /\ x.pc = "returned" /\ x.got \in Token => x.got <= provider[x.conn].newest
        /\ x.pc = "returned" /\ x.got = Dead => x.of # None /\ Spent(provider[x.conn], x.of)

Truthful == (\A c \in Conn : RowTrue(c) /\ TaskTrue(c)) /\ \A k \in Caller : CallerTrue(k)

(* What the provider may do: tokens that were issued and spent stay so. *)
Ages ==
    \A c \in Conn : /\ provider[c].newest \in Int /\ provider'[c].newest \in Int
                    /\ provider[c].newest <= provider'[c].newest
                    /\ \A t \in Token : Spent(provider[c], t) => Spent(provider'[c], t)

LEMMA AgesIdle == ASSUME IInv, UNCHANGED provider PROVE Ages
<1>1. \A c \in Conn : provider[c].newest \in Int /\ provider'[c] = provider[c]
  BY Typed, Apart DEF IInv
<1> QED
  BY <1>1 DEF Ages

(* What is left alone stays true. *)
LEMMA TrueStays ==
    ASSUME IInv, Truthful, Ages
    PROVE  /\ \A c \in Conn : row'[c] = row[c] => RowTrue(c)'
           /\ \A c \in Conn : task'[c] = task[c] => TaskTrue(c)'
           /\ \A k \in Caller : /\ caller'[k] = caller[k]
                                /\ caller[k].pc = "waiting" => task'[caller[k].conn] = task[caller[k].conn]
                                => CallerTrue(k)'
<1>1. ASSUME NEW c \in Conn, row'[c] = row[c] PROVE RowTrue(c)'
  <2>1. RowTrue(c) /\ (row[c].token # None => row[c].token \in Int)
    BY Typed, Apart DEF IInv, Truthful
  <2> QED
    BY <1>1, <2>1 DEF RowTrue, Ages
<1>2. ASSUME NEW c \in Conn, task'[c] = task[c] PROVE TaskTrue(c)'
  <2>1. /\ TaskTrue(c)
        /\ task[c] # None => task[c].presents \in Token
    BY Typed DEF IInv, Truthful
  <2>2. \A u \in Token : u <= provider[c].newest => u <= provider'[c].newest
    BY Apart DEF Ages
  <2>3. \A u \in Token : Spent(provider[c], u) => Spent(provider'[c], u)
    BY DEF Ages
  <2> QED
    BY <1>2, <2>1, <2>2, <2>3 DEF TaskTrue
<1>3. ASSUME NEW k \in Caller, caller'[k] = caller[k],
             caller[k].pc = "waiting" => task'[caller[k].conn] = task[caller[k].conn]
      PROVE  CallerTrue(k)'
  <2>1. /\ CallerTrue(k) /\ caller[k] \in CallerState
        /\ caller[k].pc # "idle" => caller[k].conn \in Conn /\ caller[k].held \in Token
        /\ caller[k].of \in Token \cup {None}
    BY Typed DEF IInv, Truthful, Placed, CallerState
  <2>2. caller'[k] = caller[k]
    BY <1>3
  <2>3. CASE caller[k].pc = "idle"
    BY <2>2, <2>3 DEF CallerTrue
  <2>4. CASE caller[k].pc # "idle"
    <3> DEFINE c == caller[k].conn
    <3>1. /\ c \in Conn /\ caller[k].held \in Int /\ caller[k].held <= provider[c].newest
          /\ caller[k].attempted # None
      BY <2>1, <2>4, Apart DEF CallerTrue
    <3>2. caller[k].held <= provider'[c].newest
      BY <3>1 DEF Ages
    <3>3. caller[k].pc = "waiting" => task'[c] # None /\ caller[k].of = task'[c].presents
      BY <1>3, <2>1 DEF CallerTrue
    <3>4. caller[k].pc = "returned" /\ caller[k].got \in Token => caller[k].got <= provider'[c].newest
      <4>1. \A t \in Token : t <= provider[c].newest => t <= provider'[c].newest
        BY <3>1, Apart DEF Ages
      <4> QED
        BY <2>1, <4>1 DEF CallerTrue
    <3>5. caller[k].pc = "returned" /\ caller[k].got = Dead
            => caller[k].of # None /\ Spent(provider'[c], caller[k].of)
      BY <2>1, <3>1 DEF CallerTrue, Ages
    <3> QED
      BY <2>2, <3>1, <3>2, <3>3, <3>4, <3>5 DEF CallerTrue
  <2> QED
    BY <2>3, <2>4
<1> QED
  BY <1>1, <1>2, <1>3

LEMMA InitTrue == Init => Truthful
<1> SUFFICES ASSUME Init PROVE Truthful
  OBVIOUS
<1>1. \A c \in Conn : RowTrue(c) /\ TaskTrue(c)
  BY DEF Init, Good, RowTrue, TaskTrue
<1>2. \A k \in Caller : CallerTrue(k)
  BY IdleTyped DEF Init, CallerTrue
<1> QED
  BY <1>1, <1>2 DEF Truthful

(* One caller goes on to v, no refresh changes. *)
LEMMA OneTrue ==
    ASSUME IInv, Truthful, Ages, NEW k \in Caller, NEW v,
           caller' = [caller EXCEPT ![k] = v], UNCHANGED task,
           \A c \in Conn : RowTrue(c)',
           CallerTrue(k)'
    PROVE  Truthful'
<1>1. \A j \in Caller \ {k} : caller'[j] = caller[j]
  BY DEF IInv, TypeOK
<1>2. \A j \in Caller : CallerTrue(j)'
  BY <1>1, TrueStays
<1>3. \A c \in Conn : TaskTrue(c)'
  BY TrueStays
<1> QED
  BY <1>2, <1>3 DEF Truthful

LEMMA LoadTrue ==
    ASSUME IInv, Truthful, NEW k \in Caller, NEW c \in Conn, Load(k, c)
    PROVE  Truthful'
<1> DEFINE v == [Idle EXCEPT !.conn = c, !.pc = "loaded",
                             !.held = row[c].token, !.attempted = row[c].token,
                             !.loaded = row[c].status]
<1>1. /\ row[c].token # None /\ caller' = [caller EXCEPT ![k] = v]
      /\ UNCHANGED <<row, provider, task>>
  BY DEF Load, Loadable
<1>2. v.conn = c /\ v.pc = "loaded" /\ v.held = row[c].token /\ v.attempted = row[c].token
  BY DEF Idle
<1>3. caller'[k] = v
  BY <1>1 DEF IInv, TypeOK
<1>4. Ages /\ RowTrue(c)
  BY <1>1, AgesIdle DEF Truthful
<1>5. CallerTrue(k)'
  BY <1>1, <1>2, <1>3, <1>4 DEF CallerTrue, RowTrue
<1> HIDE DEF v
<1> QED
  BY <1>1, <1>4, <1>5, OneTrue, TrueStays

(* Who goes on keeps what it holds, or is idle. *)
LEMMA AgainTrue ==
    ASSUME IInv, Truthful, NEW k \in Caller, caller[k].pc # "idle",
           caller'[k] = Again(k) \/ caller'[k] = Idle, UNCHANGED provider
    PROVE  CallerTrue(k)'
<1> DEFINE x == caller[k]
<1>1. x \in CallerState /\ CallerTrue(k)
  BY Typed DEF IInv, Truthful
<1>2. CASE caller'[k] = Idle
  BY <1>2, IdleTyped DEF CallerTrue
<1>3. CASE caller'[k] = [x EXCEPT !.pc = "loaded", !.got = None]
  <2>1. /\ caller'[k].pc = "loaded" /\ caller'[k].conn = x.conn /\ caller'[k].held = x.held
        /\ caller'[k].attempted = x.attempted
    BY <1>1, <1>3 DEF CallerState
  <2> QED
    BY <1>1, <2>1 DEF CallerTrue
<1> QED
  BY <1>2, <1>3 DEF Again

LEMMA MovesTrue ==
    ASSUME IInv, Truthful, NEW k \in Caller, NoNeed(k) \/ Abandon(k) \/ ReturnNull(k)
    PROVE  Truthful'
<1>1. /\ UNCHANGED <<provider, task>> /\ caller[k].pc # "idle"
      /\ caller' = [caller EXCEPT ![k] = Idle] \/ caller' = [caller EXCEPT ![k] = Again(k)]
  BY DEF NoNeed, Abandon, ReturnNull
<1>2. caller'[k] = Again(k) \/ caller'[k] = Idle
  BY <1>1 DEF IInv, TypeOK
<1>3. CallerTrue(k)' /\ Ages
  BY <1>1, <1>2, AgainTrue, AgesIdle
<1>4. ASSUME NEW c \in Conn PROVE RowTrue(c)'
  <2>1. WrittenBack(k, row[c]).token = row[c].token
    BY Typed, VerdictsTyped DEF IInv
  <2>2. row'[c] \in {row[c], WrittenBack(k, row[c])}
    BY DEF NoNeed, Abandon, ReturnNull, IInv, TypeOK
  <2> QED
    BY <1>1, <2>1, <2>2 DEF RowTrue, Truthful
<1> QED
  BY <1>1, <1>3, <1>4, OneTrue

LEMMA JoinTrue ==
    ASSUME IInv, Truthful, NEW k \in Caller, Join(k)
    PROVE  Truthful'
<1> DEFINE x == caller[k]
           t == task[x.conn].presents
<1>1. /\ x.pc = "loaded" /\ task[x.conn] # None /\ x \in CallerState /\ x.conn \in Conn
      /\ x.held \in Token \cup {None} /\ t \in Token
      /\ UNCHANGED <<row, provider, task>>
  BY Typed DEF Join, IInv, Placed
<1>2. Waits(x, x.held, t) = [x EXCEPT !.pc = "waiting", !.tries = x.tries + 1, !.of = t]
  BY <1>1 DEF CallerState, Waits
<1>3. caller' = [caller EXCEPT ![k] = Waits(x, x.held, t)]
  BY <1>2 DEF Join, IInv, TypeOK
<1>4. caller'[k] = Waits(x, x.held, t)
  BY <1>3 DEF IInv, TypeOK
<1> HIDE DEF t
<1>5. /\ caller'[k].pc = "waiting" /\ caller'[k].conn = x.conn /\ caller'[k].held = x.held
      /\ caller'[k].of = t /\ caller'[k].attempted = x.attempted
  BY <1>1, <1>4, WaitsOf
<1>6. CallerTrue(k) /\ Ages
  BY <1>1, AgesIdle DEF Truthful
<1>7. CallerTrue(k)'
  BY <1>1, <1>5, <1>6 DEF CallerTrue, t
<1> QED
  BY <1>1, <1>3, <1>6, <1>7, OneTrue, TrueStays

(***************************************************************************)
(* A refresh begins: nobody waits for the connection yet, and what is      *)
(* known of a rotated token was issued.                                    *)
(***************************************************************************)
LEMMA BeginTrue ==
    ASSUME IInv, Truthful, NEW k \in Caller, Begin(k)
    PROVE  Truthful'
<1>0. PICK c \in Conn : c = caller[k].conn
  BY Typed DEF Begin, IInv, Placed
<1>1. PICK t \in Token :
        LET new == [presents |-> t, expects |-> Guard(k), asked |-> Known(k) = None,
                    got |-> Known(k),
                    stage |-> IF Known(k) = None THEN "queued" ELSE "answered"]
        IN  /\ c \in Conn /\ task[c] = None
            /\ t = IF Known(k) = None /\ row[c].token # None THEN row[c].token
                                                             ELSE caller[k].held
            /\ Known(k) \in Token \cup {None}
            /\ task' = [task EXCEPT ![c] = new]
            /\ caller' = [caller EXCEPT ![k] = Waits(caller[k], t, t)]
            /\ UNCHANGED <<row, provider>>
  BY <1>0, Begun
<1>2. /\ Ages /\ CallerTrue(k) /\ RowTrue(c) /\ provider' = provider /\ row' = row
      /\ caller[k].pc = "loaded" /\ caller[k] \in CallerState
  BY <1>1, AgesIdle, Typed DEF Truthful, Begin, IInv
<1>3. /\ \A d \in Conn \ {c} : task'[d] = task[d]
      /\ task'[c] # None /\ task'[c].presents = t /\ task'[c].got = Known(k)
  <2> DEFINE new == [presents |-> t, expects |-> Guard(k), asked |-> Known(k) = None,
                     got |-> Known(k),
                     stage |-> IF Known(k) = None THEN "queued" ELSE "answered"]
  <2>1. task' = [task EXCEPT ![c] = new]
    BY <1>1
  <2>2. new.presents = t /\ new.got = Known(k)
    OBVIOUS
  <2>3. Guard(k) \in Token \cup {None} /\ Known(k) \in Result
    BY <1>1, Typed DEF Guard, IInv, Result
  <2>4. new \in Task
    BY <2>3 DEF Task, Stage
  <2> HIDE DEF new
  <2> QED
    BY <1>1, <2>1, <2>2, <2>4, Apart DEF IInv, TypeOK
<1>4. t <= provider[c].newest
  BY <1>0, <1>1, <1>2 DEF CallerTrue, RowTrue
<1>5. Known(k) \in Token => Known(k) <= provider[c].newest
  <2>1. CASE caller[k].held \in rotated[c]
    <3>1. caller[k].held < provider[c].newest /\ caller[k].held \in Int /\ provider[c].newest \in Int
      BY <1>1, <2>1, Typed, Apart DEF IInv, Past
    <3>2. Known(k) = caller[k].held + 1
      BY <1>0, <2>1 DEF Known
    <3> QED
      BY <3>1, <3>2
  <2>2. CASE caller[k].held \notin rotated[c]
    BY <1>0, <1>2, <2>2, Apart DEF Known, RowTrue
  <2> QED
    BY <2>1, <2>2
<1>6. \A d \in Conn : RowTrue(d)' /\ TaskTrue(d)'
  <2>1. TaskTrue(c)'
    <3>1. Known(k) # Dead
      BY <1>1, Apart
    <3> QED
      BY <1>2, <1>3, <1>4, <1>5, <3>1 DEF TaskTrue
  <2> QED
    BY <1>2, <1>3, <2>1, TrueStays
<1>7. CallerTrue(k)'
  <2>1. caller'[k] = Waits(caller[k], t, t)
    BY <1>1 DEF IInv, TypeOK
  <2>2. /\ caller'[k].pc = "waiting" /\ caller'[k].conn = c /\ caller'[k].held = t
        /\ caller'[k].of = t /\ caller'[k].attempted = caller[k].attempted
    BY <1>0, <1>2, <2>1, WaitsOf
  <2> QED
    BY <1>1, <1>2, <1>3, <1>4, <2>2 DEF CallerTrue
<1>8. ASSUME NEW j \in Caller, j # k PROVE CallerTrue(j)'
  <2>1. caller'[j] = caller[j]
    BY <1>1, <1>8 DEF IInv, TypeOK
  <2>2. caller[j].pc = "waiting" => caller[j].conn \in Conn \ {c}
    BY <1>1 DEF IInv, Placed, Truthful, CallerTrue
  <2> QED
    BY <1>2, <1>3, <2>1, <2>2, TrueStays
<1> QED
  BY <1>6, <1>7, <1>8 DEF Truthful

(* A refresh goes on; it gets what it had, or what the provider answers. *)
LEMMA StagedTrue ==
    ASSUME IInv, Truthful, Ages, NEW c \in Conn, task[c] # None, NEW x \in Task,
           \A d \in Conn : task'[d] = IF d = c THEN x ELSE task[d],
           x.presents = task[c].presents,
           x.got \in Token => x.got <= provider'[c].newest,
           x.got = Dead => Spent(provider'[c], x.presents),
           UNCHANGED <<row, caller>>
    PROVE  Truthful'
<1>1. TaskTrue(c)'
  <2>1. task[c].presents \in Int /\ TaskTrue(c)
    BY Typed, Apart DEF IInv, Truthful
  <2>2. x.presents <= provider'[c].newest
    BY <2>1 DEF TaskTrue, Ages
  <2> QED
    BY <2>2 DEF TaskTrue
<1>2. \A d \in Conn : RowTrue(d)' /\ TaskTrue(d)'
  BY <1>1, TrueStays
<1>3. ASSUME NEW k \in Caller PROVE CallerTrue(k)'
  <2>1. CASE caller[k].pc = "waiting" /\ caller[k].conn = c
    <3>1. /\ CallerTrue(k) /\ caller[k].held \in Int /\ x # None
      BY <2>1, Typed, Apart DEF IInv, Placed, Truthful
    <3> QED
      BY <2>1, <3>1 DEF CallerTrue, Ages
  <2>2. CASE ~(caller[k].pc = "waiting" /\ caller[k].conn = c)
    BY <2>2, TrueStays DEF IInv, Placed
  <2> QED
    BY <2>1, <2>2
<1> QED
  BY <1>2, <1>3 DEF Truthful

LEMMA SendTrue ==
    ASSUME IInv, Truthful, NEW c \in Conn, Send(c) \/ GapEnds(c)
    PROVE  Truthful'
<1>1. PICK s \in Stage : /\ task' = [task EXCEPT ![c].stage = s] /\ task[c] # None
                         /\ UNCHANGED <<row, provider, caller>>
  BY DEF Send, GapEnds, Stage
<1> DEFINE x == [task[c] EXCEPT !.stage = s]
<1>2. x \in Task /\ x.presents = task[c].presents /\ x.got = task[c].got
  BY <1>1, Typed DEF IInv, Task
<1>3. \A d \in Conn : task'[d] = IF d = c THEN x ELSE task[d]
  BY <1>1 DEF IInv, TypeOK
<1> HIDE DEF x
<1>4. Ages /\ TaskTrue(c)
  BY <1>1, AgesIdle DEF Truthful
<1>5. /\ x.got \in Token => x.got <= provider'[c].newest
      /\ x.got = Dead => Spent(provider'[c], x.presents)
  BY <1>1, <1>2, <1>4 DEF TaskTrue, Spent, Alive
<1> QED
  BY <1>1, <1>2, <1>3, <1>4, <1>5, StagedTrue

(* A provider that refuses no good token refuses a token that is spent for good. *)
LEMMA AnswerTrue ==
    ASSUME IInv, Truthful, ~Blips, NEW c \in Conn, Answer(c)
    PROVE  Truthful'
<1> DEFINE s == IF Len(lane) > 1 THEN "gap" ELSE "answered"
           t == task[c].presents
           p == provider[c]
<1>1. task[c] # None /\ UNCHANGED <<row, caller>> /\ s \in Stage
  BY DEF Answer, Stage
<1>2. PICK a \in Answers(c, t) :
        /\ provider' = [provider EXCEPT ![c] = a[2]]
        /\ task' = [task EXCEPT ![c].got = a[1], ![c].stage = s]
  BY DEF Answer
<1> HIDE DEF s
<1>3. /\ task[c] \in Task /\ a[1] \in Result /\ a[2] \in Provider /\ p \in Provider
      /\ t \in Token /\ p.newest \in Int /\ a[2].newest \in Int /\ t \in Int
      /\ p.newest <= a[2].newest /\ t <= p.newest
  <2>1. a[2].newest \in Token
    BY <1>1, AnswersTyped DEF Provider
  <2> QED
    BY <1>1, <2>1, AnswersTyped, Typed, Apart DEF IInv, Truthful, TaskTrue
<1> DEFINE x == Staged(task[c], a[1], s)
<1>4. /\ x \in Task /\ x.got = a[1] /\ x.presents = t
  BY <1>1, <1>3, StagedTyped
<1>5. \A d \in Conn : /\ task'[d] = IF d = c THEN x ELSE task[d]
                      /\ provider'[d] = IF d = c THEN a[2] ELSE provider[d]
  BY <1>2 DEF IInv, TypeOK, Staged
<1> HIDE DEF x
<1>6. \/ /\ Alive(c, t) /\ a[1] = t + 1 /\ a[2].newest = t + 1
      \/ /\ a[1] = Dead /\ ~Alive(c, t) /\ a[2].newest = p.newest
         /\ a[2].revoked \in {p.revoked, "reuse"}
      \/ a[1] = None /\ a[2] = p
  <2>1. CASE Alive(c, t) /\ a[1] \notin {Dead, None}
    <3>1. a = <<t + 1, [p EXCEPT !.newest = t + 1]>>
      BY <2>1 DEF Answers
    <3> QED
      BY <1>3, <2>1, <3>1 DEF Provider
  <2>2. CASE ~Alive(c, t) /\ a[1] # None
    <3>1. a = <<Dead, p>> \/ a = <<Dead, [p EXCEPT !.revoked = "reuse"]>>
      BY <2>2 DEF Answers
    <3> QED
      BY <1>3, <2>2, <3>1 DEF Provider
  <2>3. CASE a[1] = None
    <3>1. a = <<None, p>>
      BY <1>3, <2>3, Apart DEF Answers, Token
    <3> QED
      BY <3>1
  <2>4. CASE Alive(c, t) /\ a[1] = Dead
    BY <1>3, <2>4, Apart DEF Answers, Token
  <2> QED
    BY <2>1, <2>2, <2>3, <2>4
<1>7. Ages
  <2>1. ASSUME NEW u \in Token, Spent(provider[c], u) PROVE Spent(provider'[c], u)
    <3>1. u \in Int /\ u <= p.newest /\ ~(p.revoked = "no" /\ u = p.newest) /\ provider'[c] = a[2]
      BY <1>5, <2>1, Apart DEF Spent, Alive
    <3>2. u <= a[2].newest /\ ~(a[2].revoked = "no" /\ u = a[2].newest)
      BY <1>3, <1>6, <3>1 DEF Alive
    <3> QED
      BY <3>1, <3>2 DEF Spent, Alive
  <2>2. \A d \in Conn : provider[d].newest \in Int
    BY Typed, Apart DEF IInv
  <2>3. \A d \in Conn \ {c} : provider'[d] = provider[d]
    BY <1>5
  <2> QED
    BY <1>3, <1>5, <2>1, <2>2, <2>3 DEF Ages, Spent, Alive
<1>8. x.got \in Token => x.got <= provider'[c].newest
  BY <1>3, <1>4, <1>5, <1>6, Apart
<1>9. x.got = Dead => Spent(provider'[c], x.presents)
  <2>1. a[1] = Dead => ~Alive(c, t)
    BY <1>3, <1>6, RefreshAssumption
  <2>2. a[1] = Dead => Spent(provider[c], t)
    BY <1>3, <2>1 DEF Spent, Alive
  <2> QED
    BY <1>3, <1>4, <1>7, <2>2 DEF Ages
<1> QED
  BY <1>1, <1>4, <1>5, <1>7, <1>8, <1>9, StagedTrue

(* Who waited is told, of the token it waited for; what is stored was issued. *)
LEMMA SettleTrue ==
    ASSUME IInv, Truthful, NEW c \in Conn, Settle(c)
    PROVE  Truthful'
<1> DEFINE t == task[c]
           told(k) == [caller[k] EXCEPT !.pc = "returned", !.got = t.got]
<1>1. /\ t # None /\ t \in Task /\ t.got \in Result /\ TaskTrue(c)
      /\ task' = [task EXCEPT ![c] = None]
      /\ row' = IF t.got \in Token /\ ~Skipped(c) THEN [row EXCEPT ![c] = Stored(@, t.got)] ELSE row
      /\ caller' = [k \in Caller |-> IF k \in Waiting(c) THEN told(k) ELSE caller[k]]
      /\ UNCHANGED provider
  BY Typed DEF Settle, Answered, IInv, Truthful
<1>2. Ages /\ t.presents \in Token
  BY <1>1, AgesIdle, Typed DEF IInv
<1>3. /\ task'[c] = None
      /\ \A d \in Conn \ {c} : task'[d] = task[d] /\ row'[d] = row[d]
  BY <1>1 DEF IInv, TypeOK
<1>4. RowTrue(c)'
  <2>1. row'[c] = IF t.got \in Token /\ ~Skipped(c) THEN Stored(row[c], t.got) ELSE row[c]
    BY <1>1 DEF IInv, TypeOK
  <2>2. t.got \in Token => Stored(row[c], t.got).token = t.got
    BY StoredTyped, Typed DEF IInv
  <2>3. RowTrue(c)
    BY DEF Truthful
  <2> QED
    BY <1>1, <2>1, <2>2, <2>3 DEF RowTrue, TaskTrue
<1>5. \A d \in Conn : RowTrue(d)' /\ TaskTrue(d)'
  BY <1>2, <1>3, <1>4, TrueStays DEF TaskTrue
<1>6. ASSUME NEW k \in Waiting(c) PROVE CallerTrue(k)'
  <2> DEFINE x == caller[k]
  <2>1. /\ k \in Caller /\ x.pc = "waiting" /\ x.conn = c /\ x \in CallerState /\ CallerTrue(k)
    BY <1>6, Typed DEF Waiting, IInv, Truthful
  <2>2. caller'[k] = told(k)
    BY <1>1, <1>6, <2>1
  <2>3. /\ caller'[k].pc = "returned" /\ caller'[k].conn = c /\ caller'[k].got = t.got
        /\ caller'[k].held = x.held /\ caller'[k].of = x.of /\ caller'[k].attempted = x.attempted
    BY <1>1, <2>1, <2>2 DEF CallerState
  <2> HIDE DEF told
  <2>4. x.of = t.presents /\ x.of # None
    BY <1>2, <2>1, Apart DEF CallerTrue
  <2>5. t.got = Dead => Spent(provider'[c], t.presents)
    BY <1>1, <1>2 DEF TaskTrue, Ages
  <2> QED
    BY <1>1, <2>1, <2>3, <2>4, <2>5 DEF CallerTrue, TaskTrue
<1>7. ASSUME NEW k \in Caller \ Waiting(c) PROVE CallerTrue(k)'
  <2>1. caller'[k] = caller[k] /\ (caller[k].pc = "waiting" => caller[k].conn \in Conn \ {c})
    BY <1>1 DEF Waiting, IInv, Placed
  <2> QED
    BY <1>2, <1>3, <2>1, TrueStays
<1> QED
  BY <1>5, <1>6, <1>7 DEF Truthful

(* Who was told goes on; a row is left without a token, or gets one that was issued. *)
LEMMA ReturnTrue ==
    ASSUME IInv, Truthful, NEW k \in Caller, ReturnTokens(k) \/ ReturnError(k)
    PROVE  Truthful'
<1>0. PICK c \in Conn : c = caller[k].conn
  BY DEF ReturnTokens, ReturnError, IInv, Placed
<1>1. /\ UNCHANGED <<provider, task>> /\ caller' = [caller EXCEPT ![k] = Idle]
      /\ caller[k].pc = "returned" /\ c = caller[k].conn
  BY <1>0 DEF ReturnTokens, ReturnError
<1>2. Ages /\ CallerTrue(k) /\ RowTrue(c) /\ row[c] \in Row
  BY <1>1, AgesIdle, Typed DEF Truthful, IInv
<1>3. CallerTrue(k)'
  <2>1. caller'[k] = Idle
    BY <1>1 DEF IInv, TypeOK
  <2> QED
    BY <2>1, IdleTyped DEF CallerTrue
<1>4. \A d \in Conn \ {c} : row'[d] = row[d]
  BY <1>1 DEF ReturnTokens, ReturnError, IInv, TypeOK
<1>5. \/ row'[c].token \in {row[c].token, None}
      \/ caller[k].got \in Token /\ row'[c].token = caller[k].got
  <2>1. CASE ReturnTokens(k)
    <3>1. row'[c] \in {Stored(row[c], caller[k].got), row[c]} /\ caller[k].got \in Token
      BY <1>1, <2>1 DEF ReturnTokens, IInv, TypeOK
    <3> QED
      BY <1>2, <3>1, StoredTyped
  <2>2. CASE ReturnError(k)
    <3>1. row'[c] \in Verdicts(k, row[c])
      BY <1>1, <2>2 DEF ReturnError, IInv, TypeOK
    <3> QED
      BY <1>2, <3>1, VerdictsTyped
  <2> QED
    BY <2>1, <2>2
<1>6. RowTrue(c)'
  <2>1. provider' = provider
    BY <1>1
  <2>2. caller[k].got \in Token => caller[k].got <= provider[c].newest
    BY <1>1, <1>2 DEF CallerTrue
  <2> QED
    BY <1>2, <1>5, <2>1, <2>2 DEF RowTrue
<1>7. \A d \in Conn : RowTrue(d)'
  BY <1>2, <1>4, <1>6, TrueStays
<1> QED
  BY <1>1, <1>2, <1>3, <1>7, OneTrue

(* The world outside: what was spent stays spent whoever revokes and logs in. *)
LEMMA WorldTrue ==
    ASSUME IInv, Truthful,
           Restart \/ \E c \in Conn : Expire(c) \/ Forget(c) \/ Revoke(c) \/ Login(c)
    PROVE  Truthful'
<1>1. ASSUME NEW c \in Conn, Expire(c) \/ Forget(c) PROVE Truthful'
  <2>1. UNCHANGED <<provider, task, caller>> /\ Ages
    BY <1>1, AgesIdle DEF Expire, Forget
  <2>2. \A d \in Conn : row'[d].token = row[d].token
    BY <1>1 DEF Expire, Forget, IInv, TypeOK, Row
  <2>3. \A d \in Conn : RowTrue(d)'
    BY <2>1, <2>2 DEF Truthful, RowTrue
  <2> QED
    BY <2>1, <2>3, TrueStays DEF Truthful
<1>2. ASSUME NEW c \in Conn, Revoke(c) PROVE Truthful'
  <2>1. /\ provider' = [provider EXCEPT ![c].revoked = "user"]
        /\ UNCHANGED <<row, task, caller>>
    BY <1>2 DEF Revoke
  <2>2. \A d \in Conn : /\ provider[d] \in Provider /\ provider[d].newest \in Int
                        /\ provider'[d].newest = provider[d].newest
                        /\ provider'[d].revoked \in {provider[d].revoked, "user"}
    BY <2>1, Typed, Apart DEF IInv, TypeOK, Provider
  <2>3. Ages
    BY <2>2 DEF Ages, Spent, Alive
  <2> QED
    BY <2>1, <2>3, TrueStays DEF Truthful
<1>3. ASSUME NEW c \in Conn, Login(c) PROVE Truthful'
  <2> DEFINE n == provider[c].newest + 1
             p == [base |-> n, newest |-> n, revoked |-> "no"]
             r == [token |-> n, fresh |-> TRUE, status |-> "active", active |-> TRUE]
  <2>1. /\ provider' = [provider EXCEPT ![c] = p] /\ row' = [row EXCEPT ![c] = r]
        /\ UNCHANGED <<task, caller>>
    BY <1>3 DEF Login
  <2>2. p.newest = n /\ r.token = n
    OBVIOUS
  <2> HIDE DEF p, r
  <2>3. \A d \in Conn : /\ provider[d].newest \in Int
                        /\ provider'[d] = IF d = c THEN p ELSE provider[d]
                        /\ row'[d] = IF d = c THEN r ELSE row[d]
    BY <2>1, Typed, Apart DEF IInv, TypeOK
  <2>4. ASSUME NEW t \in Token, Spent(provider[c], t) PROVE Spent(provider'[c], t)
    <3>1. t \in Int /\ t <= provider[c].newest
      BY <2>4, Apart DEF Spent
    <3>2. t < p.newest
      BY <2>2, <2>3, <3>1
    <3> QED
      BY <2>2, <2>3, <3>1, <3>2 DEF Spent, Alive
  <2>5. Ages
    BY <2>2, <2>3, <2>4 DEF Ages, Spent, Alive
  <2>6. RowTrue(c)'
    BY <2>2, <2>3 DEF RowTrue
  <2>7. \A d \in Conn : RowTrue(d)'
    BY <2>3, <2>5, <2>6, TrueStays
  <2> QED
    BY <2>1, <2>5, <2>7, TrueStays DEF Truthful
<1>4. CASE Restart
  <2>1. /\ task' = [d \in Conn |-> None] /\ caller' = [k \in Caller |-> Idle]
        /\ UNCHANGED <<row, provider>>
    BY <1>4 DEF Restart
  <2>2. \A d \in Conn : RowTrue(d)' /\ TaskTrue(d)'
    BY <2>1 DEF Truthful, RowTrue, TaskTrue
  <2>3. \A k \in Caller : CallerTrue(k)'
    BY <2>1, IdleTyped DEF CallerTrue
  <2> QED
    BY <2>2, <2>3 DEF Truthful
<1> QED
  BY <1>1, <1>2, <1>3, <1>4

LEMMA NextTrue == ASSUME ~Blips PROVE IInv /\ Truthful /\ [Next]_vars => Truthful'
<1> SUFFICES ASSUME IInv, Truthful, [Next]_vars PROVE Truthful'
  OBVIOUS
<1>1. ASSUME NEW k \in Caller,
             \/ NoNeed(k) \/ Join(k) \/ Begin(k) \/ Return(k) \/ Abandon(k)
             \/ \E c \in Conn : Load(k, c)
      PROVE  Truthful'
  BY <1>1, LoadTrue, MovesTrue, JoinTrue, BeginTrue, ReturnTrue DEF Return
<1>2. ASSUME NEW c \in Conn, Serve(c) PROVE Truthful'
  BY <1>2, SendTrue, AnswerTrue, SettleTrue DEF Serve
<1>3. CASE Restart \/ \E c \in Conn : Expire(c) \/ Forget(c) \/ Revoke(c) \/ Login(c)
  BY <1>3, WorldTrue
<1>4. CASE UNCHANGED vars
  <2>1. UNCHANGED <<row, provider, task, caller>> /\ Ages
    BY <1>4, AgesIdle DEF vars
  <2> QED
    BY <2>1, TrueStays DEF Truthful
<1> QED
  BY <1>1, <1>2, <1>3, <1>4 DEF Next

(* A row that loses something: its token, its place in the rotation, its good status. *)
Disabled(c) == row[c].active /\ ~row'[c].active
Cleared(c) == row[c].token # None /\ row'[c].token = None
Expired(c) == row[c].status = "active" /\ row'[c].status = "expired"

(* Rows lose only where a caller is told of an error, or a sweep writes back. *)
LEMMA OnlyErrorsExpire ==
    ASSUME IInv, [Next]_vars, NEW c \in Conn, Disabled(c) \/ Cleared(c) \/ Expired(c)
    PROVE  \E k \in Caller :
             /\ caller[k].conn = c
             /\ \/ ReturnError(k) /\ row'[c] \in Verdicts(k, row[c]) /\ row'[c] # row[c]
                \/ ReturnNull(k) /\ WritesBack(k) /\ ~Disabled(c) /\ ~Cleared(c)
<1> DEFINE Loses == Disabled(c) \/ Cleared(c) \/ Expired(c)
<1>0. row[c] \in Row /\ row \in [Conn -> Row]
  BY DEF IInv, TypeOK
<1>1. row'[c] # row[c]
  BY DEF Disabled, Cleared, Expired
<1>2. ASSUME NEW t \in Token, row'[c] = Stored(row[c], t) PROVE FALSE
  <2>1. /\ row'[c].active = row[c].active /\ row'[c].token = t /\ row'[c].status = "active"
    BY <1>0, <1>2 DEF Stored, Row
  <2> QED
    BY <2>1, Apart DEF Disabled, Cleared, Expired
<1>3. ASSUME NEW k \in Caller, ReturnTokens(k) PROVE FALSE
  <2>1. row'[c] = row[c] \/ row'[c] = Stored(row[c], caller[k].got)
    BY <1>3 DEF ReturnTokens, IInv, TypeOK
  <2> QED
    BY <1>1, <1>2, <1>3, <2>1 DEF ReturnTokens
<1>4. ASSUME NEW d \in Conn, Settle(d) PROVE FALSE
  <2>1. row'[c] = row[c] \/ (task[d].got \in Token /\ row'[c] = Stored(row[c], task[d].got))
    BY <1>4 DEF Settle, IInv, TypeOK
  <2> QED
    BY <1>1, <1>2, <2>1
<1>5. ASSUME NEW d \in Conn, Expire(d) \/ Login(d) PROVE FALSE
  <2>1. CASE Expire(d)
    BY <1>0, <2>1 DEF Expire, Row, Disabled, Cleared, Expired
  <2>2. CASE Login(d)
    <3> DEFINE n == provider[d].newest + 1
    <3>1. row'[c] = row[c] \/ row'[c] = [token |-> n, fresh |-> TRUE, status |-> "active",
                                          active |-> TRUE]
      BY <1>0, <2>2 DEF Login
    <3>2. n # None
      <4>1. d \in Conn /\ provider[d].newest \in Int
        BY <1>5, NewestTyped
      <4> QED
        BY <4>1, RefreshAssumption
    <3> HIDE DEF n
    <3> QED
      BY <1>1, <3>1, <3>2 DEF Disabled, Cleared, Expired
  <2> QED
    BY <1>5, <2>1, <2>2
<1>6. ASSUME NEW k \in Caller, ReturnError(k)
      PROVE  caller[k].conn = c /\ row'[c] \in Verdicts(k, row[c])
  <2>1. PICK v \in Verdicts(k, row[caller[k].conn]) : row' = [row EXCEPT ![caller[k].conn] = v]
    BY <1>6 DEF ReturnError
  <2>2. caller[k].conn = c
    BY <1>0, <1>1, <2>1
  <2> QED
    BY <1>0, <2>1, <2>2
<1>7. ASSUME NEW k \in Caller, ReturnNull(k)
      PROVE  caller[k].conn = c /\ WritesBack(k) /\ ~Disabled(c) /\ ~Cleared(c)
  <2>1. row' = [row EXCEPT ![caller[k].conn] = WrittenBack(k, @)] /\ caller[k].got = None
    BY <1>7 DEF ReturnNull
  <2>2. caller[k].conn = c /\ row'[c] = WrittenBack(k, row[c])
    BY <1>0, <1>1, <2>1
  <2>3. k \in Sweep /\ row'[c] = [row[c] EXCEPT !.status = caller[k].loaded]
    BY <1>1, <2>2 DEF WrittenBack
  <2>4. /\ row'[c].active = row[c].active /\ row'[c].token = row[c].token
        /\ row'[c].status = caller[k].loaded
    BY <1>0, <2>3 DEF Row
  <2>5. ~Disabled(c) /\ ~Cleared(c)
    BY <2>4 DEF Disabled, Cleared
  <2> QED
    BY <2>1, <2>2, <2>3, <2>4, <2>5 DEF WritesBack, Expired
<1>8. CASE Next
  <2>1. ASSUME NEW k \in Caller,
               \/ \E d \in Conn : Load(k, d)
               \/ NoNeed(k) \/ Join(k) \/ Begin(k) \/ Abandon(k)
        PROVE  FALSE
    BY <1>1, <2>1 DEF Load, NoNeed, Join, Begin, Abandon
  <2>2. ASSUME NEW d \in Conn, Send(d) \/ Answer(d) \/ GapEnds(d) \/ Forget(d) \/ Revoke(d)
        PROVE  FALSE
    BY <1>1, <2>2 DEF Send, Answer, GapEnds, Forget, Revoke
  <2>3. ~Restart
    BY <1>1 DEF Restart
  <2>4. PICK k \in Caller : ReturnError(k) \/ ReturnNull(k)
    BY <1>3, <1>4, <1>5, <1>8, <2>1, <2>2, <2>3 DEF Next, Serve, Return
  <2> QED
    BY <1>1, <1>6, <1>7, <2>4
<1> QED
  BY <1>1, <1>8 DEF vars

(* An error that changes a row is about the row's own token, unless it was shared. *)
LEMMA ErrorsDeserved ==
    ASSUME IInv, Truthful, NEW c \in Conn, NEW k \in Caller, ReturnError(k),
           caller[k].conn = c, row'[c] \in Verdicts(k, row[c]), row'[c] # row[c],
           ~SharedAnother(k)
    PROVE  ~Alive(c, row[c].token)
<1>1. caller[k].got = Dead /\ caller[k].pc = "returned" /\ CallerTrue(k)
  BY DEF ReturnError, Truthful
<1>2. caller[k].of = caller[k].attempted
  BY DEF SharedAnother
<1>3. caller[k].attempted # None /\ ~Alive(c, caller[k].attempted)
  BY <1>1, <1>2 DEF CallerTrue, Spent, Alive
<1>4. row[c].token = None \/ row[c].token = caller[k].attempted
  BY <1>3 DEF Verdicts, WasRotated
<1>5. provider[c].newest # None
  BY NewestTyped DEF IInv
<1> QED
  BY <1>3, <1>4, <1>5 DEF Alive

(* What DeactivationJustified asks of a step of connection c. *)
Justified(c) ==
    LET dead == \/ ~Alive(c, row[c].token)
                \/ \E k \in Returned : caller[k].conn = c /\ SharedAnother(k)
    IN  /\ row[c].active /\ ~row'[c].active => dead
        /\ row[c].token # None /\ row'[c].token = None => dead
        /\ row[c].status = "active" /\ row'[c].status = "expired"
              => dead \/ \E k \in Returned : caller[k].conn = c /\ WritesBack(k)

LEMMA StepsJustified ==
    ASSUME IInv, Truthful, [Next]_vars
    PROVE  \A c \in Conn : Justified(c)
<1> SUFFICES ASSUME NEW c \in Conn PROVE Justified(c)
  OBVIOUS
<1>1. CASE ~Disabled(c) /\ ~Cleared(c) /\ ~Expired(c)
  BY <1>1 DEF Justified, Disabled, Cleared, Expired
<1>2. CASE Disabled(c) \/ Cleared(c) \/ Expired(c)
  <2>1. PICK k \in Caller :
          /\ caller[k].conn = c
          /\ \/ ReturnError(k) /\ row'[c] \in Verdicts(k, row[c]) /\ row'[c] # row[c]
             \/ ReturnNull(k) /\ WritesBack(k) /\ ~Disabled(c) /\ ~Cleared(c)
    BY <1>2, OnlyErrorsExpire
  <2>2. k \in Returned
    BY <2>1 DEF ReturnError, ReturnNull, Returned
  <2>3. CASE ReturnError(k) /\ row'[c] \in Verdicts(k, row[c]) /\ row'[c] # row[c]
    <3>1. ~Alive(c, row[c].token) \/ SharedAnother(k)
      BY <2>1, <2>3, ErrorsDeserved
    <3> QED
      BY <2>1, <2>2, <3>1 DEF Justified
  <2>4. CASE ReturnNull(k) /\ WritesBack(k) /\ ~Disabled(c) /\ ~Cleared(c)
    BY <2>1, <2>2, <2>4 DEF Justified, Disabled, Cleared
  <2> QED
    BY <2>1, <2>3, <2>4
<1> QED
  BY <1>1, <1>2

(***************************************************************************)
(* Whoever refreshes, retries, gives up, revokes and logs in, in whatever  *)
(* order, an account is deactivated or loses its token only when that      *)
(* token is dead, or through a caller that shared another token's refresh  *)
(* (chatCore.ts:4022-4045, tokenHealthCheck.ts:1080-1139), if the provider *)
(* refuses no token that is good; and only a sweep that loaded it as       *)
(* expired may mark it so again.                                           *)
(***************************************************************************)
THEOREM OnlyDeadTokensDeactivate == ASSUME ~Blips PROVE Spec => DeactivationJustified
<1>1. IInv /\ Truthful /\ [Next]_vars => [\A c \in Conn : Justified(c)]_vars
  BY StepsJustified
<1>2. IInv /\ Truthful /\ [Next]_vars => Truthful'
  BY NextTrue
<1> QED
  BY <1>1, <1>2, InitTrue, Invariance, PTL DEF Spec, DeactivationJustified, Justified
=============================================================================
