--------------------------- MODULE AssetLifecycle ---------------------------
(***************************************************************************)
(* What the two stores promise about the assets of one job, without the    *)
(* files, the requests and their steps: which way an asset may go.  A row  *)
(* comes only to a path that is free, and while the job is there.  A       *)
(* delete takes the row out, and either it is acknowledged, or the row is  *)
(* put back, or the asset is lost; one that was acknowledged or lost never *)
(* comes back.                                                             *)
(***************************************************************************)
CONSTANTS Assets, Original, PathOf

VARIABLES
  job,     \* "completed" or "gone"
  known,   \* assets whose ids were handed out
  coming,  \* those that have not yet a row
  stored,  \* those that have one
  taken,   \* those whose row a delete has taken out
  deleted  \* those whose delete was acknowledged

vars == <<job, known, coming, stored, taken, deleted>>

Init ==
  /\ job = "completed"
  /\ known = Original /\ stored = Original
  /\ coming = {} /\ taken = {} /\ deleted = {}

Upload(a) ==
  /\ job = "completed"
  /\ a \notin known
  /\ known' = known \cup {a}
  /\ coming' = coming \cup {a}
  /\ UNCHANGED <<job, stored, taken, deleted>>

(* The row is created, or created again because its delete has failed. *)
Store(a) ==
  /\ job = "completed"
  /\ a \in coming \cup taken
  /\ \A b \in stored : PathOf[b] # PathOf[a]
  /\ stored' = stored \cup {a}
  /\ coming' = coming \ {a} /\ taken' = taken \ {a}
  /\ UNCHANGED <<job, known, deleted>>

Take(a) ==
  /\ a \in stored
  /\ stored' = stored \ {a}
  /\ taken' = taken \cup {a}
  /\ UNCHANGED <<job, known, coming, deleted>>

Acknowledge(a) ==
  /\ a \in taken
  /\ taken' = taken \ {a}
  /\ deleted' = deleted \cup {a}
  /\ UNCHANGED <<job, known, coming, stored>>

(* Requests give up, or the assets of the job are deleted. *)
Lose ==
  /\ coming' \in SUBSET coming
  /\ stored' \in SUBSET stored
  /\ taken' \in SUBSET taken
  /\ UNCHANGED <<job, known, deleted>>

DeleteJob ==
  /\ stored = {}
  /\ job' = "gone"
  /\ UNCHANGED <<known, coming, stored, taken, deleted>>

Next ==
  \/ Lose \/ DeleteJob
  \/ \E a \in Assets : Upload(a) \/ Store(a) \/ Take(a) \/ Acknowledge(a)

Spec == Init /\ [][Next]_vars
=============================================================================
