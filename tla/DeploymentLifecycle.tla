------------------------- MODULE DeploymentLifecycle -------------------------
(***************************************************************************)
(* What the manager promises about the deployments, without the mutex, the *)
(* requests and their steps: when a row, the map and the sockets may       *)
(* change.  A port has one row and one server.  A row says running only    *)
(* from a moment when the deployment was in the map; it says stopped, or   *)
(* goes, only after somebody has taken the entry out or seen that there is *)
(* none, but for a restore that has failed.  A row that is gone stays so.  *)
(***************************************************************************)
CONSTANTS Deps, PortOf

VARIABLES
  row,        \* status of the row, "new" or "gone"
  listed,     \* deployments in the map
  live,       \* those with a server that runs
  leaving,    \* those that somebody found or left without an entry
  restoring   \* the process restores what ran before

vars == <<row, listed, live, leaving, restoring>>

Rows == {"stopped", "running"}

Init ==
  /\ row = [d \in Deps |-> "new"]
  /\ listed = {} /\ live = {} /\ leaving = {}
  /\ restoring = FALSE

Create(d) ==
  /\ row[d] = "new"
  /\ \A e \in Deps : row[e] \in Rows => PortOf[e] # PortOf[d]
  /\ row' = [row EXCEPT ![d] = "stopped"]
  /\ UNCHANGED <<listed, live, leaving, restoring>>

Open(d) ==
  /\ row[d] # "new"
  /\ d \notin listed
  /\ \A e \in live : PortOf[e] # PortOf[d]
  /\ listed' = listed \cup {d} /\ live' = live \cup {d}
  /\ UNCHANGED <<row, leaving, restoring>>

Record(d) ==
  /\ row[d] \in Rows
  /\ d \in listed
  /\ row' = [row EXCEPT ![d] = "running"]
  /\ UNCHANGED <<listed, live, leaving, restoring>>

Die(d) ==
  /\ live' = live \ {d}
  /\ UNCHANGED <<row, listed, leaving, restoring>>

Take(d) ==
  /\ ~restoring
  /\ listed' = listed \ {d} /\ live' = live \ {d}
  /\ leaving' = leaving \cup {d}
  /\ UNCHANGED <<row, restoring>>

(* The row is stopped or deleted, or the request gives up; the deployment  *)
(* is no longer leaving unless another request has found it so too.        *)
Settle(d) ==
  /\ d \in leaving
  /\ \/ row[d] \in Rows /\ \E s \in {"stopped", "gone"} : row' = [row EXCEPT ![d] = s]
     \/ UNCHANGED row
  /\ leaving' \in {leaving, leaving \ {d}}
  /\ UNCHANGED <<listed, live, restoring>>

Restore ==
  /\ listed = {}
  /\ restoring' = TRUE
  /\ UNCHANGED <<row, listed, live, leaving>>

RestoreFails(d) ==
  /\ restoring
  /\ row[d] \in Rows
  /\ row' = [row EXCEPT ![d] = "stopped"]
  /\ UNCHANGED <<listed, live, leaving, restoring>>

Serve ==
  /\ restoring
  /\ restoring' = FALSE
  /\ UNCHANGED <<row, listed, live, leaving>>

(* The process ends: the rows are all that is left. *)
End ==
  /\ listed' = {} /\ live' = {} /\ leaving' = {}
  /\ restoring' = FALSE
  /\ UNCHANGED row

Next ==
  \/ Restore \/ Serve \/ End
  \/ \E d \in Deps : \/ Create(d) \/ Open(d) \/ Record(d) \/ Die(d)
                     \/ Take(d) \/ Settle(d) \/ RestoreFails(d)

Spec == Init /\ [][Next]_vars
=============================================================================
