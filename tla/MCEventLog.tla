----------------------------- MODULE MCEventLog -----------------------------
(* Small instances of EventLog for TLC. *)
EXTENDS EventLog, TLC

CONSTANTS e1, e2, p1, a1, a2, ip1

OnePath == [e \in Reports |-> p1]
OneAddr == [e \in Reports |-> ip1]
SamePath == [a \in Assets |-> p1]
Same == Permutations(Reports) \cup Permutations(Assets)
=============================================================================
