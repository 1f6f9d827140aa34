---------------------------- MODULE EventLedger ----------------------------
(***************************************************************************)
(* What the event log promises, without the lookups, the cache, the assets *)
(* and the process: a report has at most one row, which only a delete of   *)
(* its asset changes afterwards, and a sender is told that its report was  *)
(* taken only once the row is there.  A sender that was told of a failure  *)
(* may still find its report recorded.                                     *)
(***************************************************************************)
CONSTANTS Reports, Assets, NoAsset, Absent, Removed

VARIABLES
  sender,  \* "idle", "waiting", "ok", "failed"
  log      \* the asset a row refers to, NoAsset, or no row

vars == <<sender, log>>

Init ==
  /\ sender = [e \in Reports |-> "idle"]
  /\ log = [e \in Reports |-> Absent]

Post(e) ==
  /\ sender[e] = "idle"
  /\ sender' \in {[sender EXCEPT ![e] = s] : s \in {"waiting", "failed"}}
  /\ UNCHANGED log

Record(e) ==
  /\ sender[e] # "idle" /\ log[e] = Absent
  /\ log' \in {[log EXCEPT ![e] = a] : a \in Assets \cup {NoAsset}}
  /\ UNCHANGED sender

Confirm(e) ==
  /\ sender[e] = "waiting" /\ log[e] \notin {Absent, Removed}
  /\ sender' = [sender EXCEPT ![e] = "ok"]
  /\ UNCHANGED log

Disappoint(e) ==
  /\ sender[e] = "waiting"
  /\ sender' = [sender EXCEPT ![e] = "failed"]
  /\ UNCHANGED log

(* Assets go.  Their events lose the reference, or go as well in a database *)
(* that cannot keep them without one.                                       *)
Forget(A) ==
  /\ \E r \in {NoAsset, Removed} :
       log' = [e \in Reports |-> IF log[e] \in A THEN r ELSE log[e]]
  /\ UNCHANGED sender

Next ==
  \/ \E e \in Reports : Post(e) \/ Record(e) \/ Confirm(e) \/ Disappoint(e)
  \/ \E A \in SUBSET Assets : Forget(A)

Spec == Init /\ [][Next]_vars
=============================================================================
