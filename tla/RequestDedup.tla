------------------------------ MODULE RequestDedup ------------------------------
(***************************************************************************)
(* Identical chat requests that overlap share one upstream call            *)
(* (open-sse/services/requestDedup.ts).  A caller runs deduplicate() once  *)
(* per attempt: it either joins the promise the map has under its hash, or *)
(* puts a promise of its own there and makes the call.  The entry goes     *)
(* when the call ends, but also when the dedup timer fires or when the map *)
(* is full and the entry is its oldest, while the call still runs.         *)
(* clearInflight() serves the tests only and is left out.                  *)
(***************************************************************************)
EXTENDS Integers, Sequences, SequencesExt

CONSTANTS
    Caller,
    Hash,
    MaxInflight, \* MAX_INFLIGHT
    None

ASSUME DedupAssumption ==
    /\ None \notin Caller \cup Hash
    /\ MaxInflight \in Nat \ {0}

VARIABLES
    inflight,    \* whose promise the map has under a hash, or None
    order,       \* the map's keys in the order they were inserted
    stage,       \* where each caller is in deduplicate()
    hash,        \* the hash of its request
    joined,      \* the caller whose promise it awaits
    dedupTimers, \* callers whose dedup timer is armed
    dropped      \* auxiliary: running calls that lost their entry to a timer or to the cap

dedupVars == <<inflight, order, stage, hash, joined, dedupTimers, dropped>>

DedupInit ==
    /\ inflight = [h \in Hash |-> None]
    /\ order = <<>>
    /\ stage = [k \in Caller |-> "idle"]
    /\ hash = [k \in Caller |-> None]
    /\ joined = [k \in Caller |-> None]
    /\ dedupTimers = {}
    /\ dropped = {}

(* The hash a full map gives up for a new one: its oldest. *)
Evicted == IF Len(order) >= MaxInflight THEN {Head(order)} ELSE {}

(* A slip: whose promise it is is not looked at. *)
Own_Any(k) == {h \in Hash : hash[k] = h}

(* The hash whose entry goes with call k: its own, if the promise there is k's. *)
Own(k) == {h \in Hash : hash[k] = h /\ inflight[h] = k}

-----------------------------------------------------------------------------
(* No call for this hash is known: k makes it, and shares it. *)
Lead(k, h) ==
    /\ stage[k] = "idle"
    /\ inflight[h] = None
    /\ inflight' = [g \in Hash |-> IF g = h THEN k
                                    ELSE IF g \in Evicted THEN None ELSE inflight[g]]
    /\ order' = Append(IF Evicted = {} THEN order ELSE Tail(order), h)
    /\ stage' = [stage EXCEPT ![k] = "calling"]
    /\ hash' = [hash EXCEPT ![k] = h]
    /\ dedupTimers' = dedupTimers \cup {k}
    /\ dropped' = dropped \cup {j \in Caller : \E g \in Evicted : inflight[g] = j}
    /\ UNCHANGED joined

Follow(k, h) ==
    /\ stage[k] = "idle"
    /\ inflight[h] # None
    /\ joined' = [joined EXCEPT ![k] = inflight[h]]
    /\ stage' = [stage EXCEPT ![k] = "following"]
    /\ hash' = [hash EXCEPT ![k] = h]
    /\ UNCHANGED <<inflight, order, dedupTimers, dropped>>

(* inflight.delete(), if the promise under k's hash is k's *)
Delete(k) ==
    /\ inflight' = [h \in Hash |-> IF h \in Own(k) THEN None ELSE inflight[h]]
    /\ LET at == {i \in 1..Len(order) : order[i] \in Own(k)}
       IN  order' = IF at = {} THEN order ELSE RemoveAt(order, CHOOSE i \in at : TRUE)

(* The dedup timer: the call goes on, but nobody can join it any more. *)
DedupTimerFires(k) ==
    /\ k \in dedupTimers
    /\ dedupTimers' = dedupTimers \ {k}
    /\ Delete(k)
    /\ dropped' = dropped \cup {k}
    /\ UNCHANGED <<stage, hash, joined>>

(* A slip: a call that lost its entry answers nobody. *)
Followers_Listed(k) == {j \in Caller : stage[j] = "following" /\ joined[j] = k /\ Own(k) # {}}

(* Those who await k's promise. *)
Followers(k) == {j \in Caller : stage[j] = "following" /\ joined[j] = k}

(* The call resolves or rejects, and with it the promise its followers await. *)
CallEnds(k) ==
    /\ stage[k] = "calling"
    /\ stage' = [j \in Caller |-> IF j \in Followers(k) \cup {k} THEN "idle" ELSE stage[j]]
    /\ hash' = [j \in Caller |-> IF j \in Followers(k) \cup {k} THEN None ELSE hash[j]]
    /\ joined' = [j \in Caller |-> IF j \in Followers(k) THEN None ELSE joined[j]]
    /\ dedupTimers' = dedupTimers \ {k}
    /\ Delete(k)
    /\ dropped' = dropped \ {k}

DedupNext ==
    \E k \in Caller :
        \/ \E h \in Hash : Lead(k, h) \/ Follow(k, h)
        \/ DedupTimerFires(k)
        \/ CallEnds(k)

DedupSpec == DedupInit /\ [][DedupNext]_dedupVars

(* Upstream calls end: the executor has time limits of its own. *)
DedupFairness == \A k \in Caller : WF_dedupVars(CallEnds(k))

DedupFairSpec == DedupSpec /\ DedupFairness

-----------------------------------------------------------------------------
Calling == {k \in Caller : stage[k] = "calling"}

DedupTypeOK ==
    /\ inflight \in [Hash -> Caller \cup {None}]
    /\ order \in Seq(Hash)
    /\ stage \in [Caller -> {"idle", "calling", "following"}]
    /\ hash \in [Caller -> Hash \cup {None}]
    /\ joined \in [Caller -> Caller \cup {None}]
    /\ dedupTimers \subseteq Caller
    /\ dropped \subseteq Caller

(* The map's keys are in one order, each once, and no more than the cap. *)
OrderIsTheMap ==
    /\ \A h \in Hash : inflight[h] # None <=> \E i \in 1..Len(order) : order[i] = h
    /\ \A i, j \in 1..Len(order) : order[i] = order[j] => i = j
    /\ Len(order) <= MaxInflight

(***************************************************************************)
(* Every entry is the promise of a call that runs under that hash: nobody  *)
(* joins a promise that was settled, however the entry was moved about by  *)
(* timers and by the cap (requestDedup.ts:209-235).                        *)
(***************************************************************************)
EntriesLive ==
    \A h \in Hash : inflight[h] # None =>
        stage[inflight[h]] = "calling" /\ hash[inflight[h]] = h

(***************************************************************************)
(* Two calls with one hash run at once only if a timer or the cap took the *)
(* entry of all but one: the end, or the late timer, of an older call does *)
(* not take the entry of a younger one (requestDedup.ts:223 and 235).      *)
(***************************************************************************)
NoNeedlessTwin ==
    \A j, k \in Calling \ dropped : hash[j] = hash[k] => j = k

(* Nobody awaits the promise of a call that is over. *)
NobodyOrphaned ==
    \A k \in Caller : stage[k] = "following" =>
        joined[k] \in Caller /\ stage[joined[k]] = "calling"

(* Who joined a call is answered, whatever became of its entry meanwhile. *)
FollowersAnswered ==
    \A k \in Caller : stage[k] = "following" ~> stage[k] # "following"
=============================================================================
