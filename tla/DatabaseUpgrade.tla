--------------------------- MODULE DatabaseUpgrade ---------------------------
(***************************************************************************)
(* What the server relies on when it opens its database, without the       *)
(* stages of a migration: a start brings the database up to date and keeps *)
(* what it says, or it leaves the database as it was.  One that is up to   *)
(* date is not touched by a start and never goes back, and the server runs *)
(* on no other.                                                            *)
(***************************************************************************)
VARIABLES
  serving,   \* the process has started
  database,  \* the content of the file
  says,      \* what it says, whichever version has written it
  current    \* it is up to date

vars == <<serving, database, says, current>>

Init == serving = FALSE

Start ==
  /\ serving = FALSE
  /\ serving' = TRUE
  /\ current' = TRUE
  /\ says' = says
  /\ current => database' = database

(* The process ends, or its start fails. *)
Stop ==
  /\ serving' = FALSE
  /\ UNCHANGED <<database, says, current>>

Write ==
  /\ serving = TRUE
  /\ current' = TRUE
  /\ UNCHANGED serving

Next == Start \/ Stop \/ Write

Spec == Init /\ [][Next]_vars
=============================================================================
