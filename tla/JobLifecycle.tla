---------------------------- MODULE JobLifecycle ----------------------------
(***************************************************************************)
(* What the generation service promises about one row of generation_jobs,  *)
(* without its assets, files, requests and process: which status may       *)
(* follow which, while who is at work on the job, and when the row may go. *)
(*                                                                         *)
(* A row that was canceled is written back to running as long as the       *)
(* goroutine that runs the job is alive (Reopen); a row that completed or  *)
(* failed is never changed again; a row is removed only after some         *)
(* terminal status was written to it.                                      *)
(***************************************************************************)
CONSTANT Jobs

VARIABLES
  status,   \* the row's status, "none" when there is no row
  stage,    \* "new", "launching" (Run), "working" (runJob), "over"
  settled   \* jobs to which a terminal status was ever written

vars == <<status, stage, settled>>

Open     == {"pending", "running"}
Terminal == {"completed", "failed", "canceled"}

Init ==
  /\ status = [j \in Jobs |-> "none"]
  /\ stage = [j \in Jobs |-> "new"]
  /\ settled = {}

Submit(j) ==
  /\ stage[j] = "new"
  /\ stage' = [stage EXCEPT ![j] = "launching"]
  /\ status' = [status EXCEPT ![j] = "pending"]
  /\ UNCHANGED settled

(* Run marks the row running, whether or not it was canceled meanwhile. *)
Start(j) ==
  /\ stage[j] = "launching"
  /\ status[j] \in Open \cup {"canceled"}
  /\ status' = [status EXCEPT ![j] = "running"]
  /\ UNCHANGED <<stage, settled>>

HandOver(j) ==
  /\ stage[j] = "launching"
  /\ stage' = [stage EXCEPT ![j] = "working"]
  /\ UNCHANGED <<status, settled>>

(* A summary update writes back a status that is no longer current. *)
Reopen(j) ==
  /\ stage[j] = "working"
  /\ status[j] \in {"running", "canceled"}
  /\ status' \in {[status EXCEPT ![j] = s] : s \in {"running", "canceled"}}
  /\ j \in settled
  /\ UNCHANGED <<stage, settled>>

(* The worker's last write, which also ends its work. *)
Settle(j) ==
  /\ stage[j] = "working"
  /\ status[j] \in Open
  /\ status' \in {[status EXCEPT ![j] = s] : s \in Terminal}
  /\ settled' = settled \cup {j}
  /\ stage' = [stage EXCEPT ![j] = "over"]

(* The work ends and the row stays as it is: a failed Run, a failed summary *)
(* update, or the end of the process.                                       *)
Quit ==
  /\ \E S \in SUBSET {j \in Jobs : stage[j] # "new"} :
       stage' = [j \in Jobs |-> IF j \in S THEN "over" ELSE stage[j]]
  /\ UNCHANGED <<status, settled>>

Cancel(j) ==
  /\ status[j] \in Open
  /\ status' = [status EXCEPT ![j] = "canceled"]
  /\ settled' = settled \cup {j}
  /\ UNCHANGED stage

Remove(j) ==
  /\ status[j] # "none"
  /\ j \in settled
  /\ status' = [status EXCEPT ![j] = "none"]
  /\ UNCHANGED <<stage, settled>>

Next ==
  \/ Quit
  \/ \E j \in Jobs :
       \/ Submit(j) \/ Start(j) \/ HandOver(j) \/ Reopen(j) \/ Settle(j)
       \/ Cancel(j) \/ Remove(j)

Spec == Init /\ [][Next]_vars
=============================================================================
