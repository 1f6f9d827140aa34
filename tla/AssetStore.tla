----------------------------- MODULE AssetStore -----------------------------
(***************************************************************************)
(* The assets of one completed job: their rows, the files the rows name,   *)
(* and the files that a delete has staged.  Requests upload assets, delete *)
(* them, and delete the job.  No lock covers the two stores: each handler  *)
(* changes them in turn and undoes by hand what it did when a later step   *)
(* fails.                                                                  *)
(***************************************************************************)
EXTENDS Integers

CONSTANTS
  Assets,    \* ids, each used once
  Original,  \* those the job generated
  Paths,     \* storage paths
  PathOf,    \* the path in the row of an asset
  Clients,   \* concurrent requests
  NoAsset,   \* no asset
  NoFile,    \* no file
  Torn,      \* what a failed write leaves
  Faults     \* what may go wrong, a subset of FaultKinds

FaultKinds ==
  {"storage",   \* a file operation returns an error
   "database",  \* an SQL statement returns an error
   "request",   \* the client goes away, or the 30 seconds of the handler pass
   "deployed",  \* a deployment still references the job
   "crash"}     \* the process dies

ASSUME ConstantsOK ==
  /\ Original \subseteq Assets
  /\ PathOf \in [Assets -> Paths]
  /\ \A a, b \in Original : PathOf[a] = PathOf[b] => a = b
  /\ {NoAsset, NoFile, Torn} \cap Assets = {}
  /\ NoFile # Torn
  /\ Faults \subseteq FaultKinds

VARIABLES
  job,      \* the row of the job
  rows,     \* the assets that have a row
  file,     \* at each path, the asset whose content is there
  staged,   \* the same in .deletions, under the id of the asset
  used,     \* ids handed out so far
  pc,       \* control state of each request
  arg,      \* the asset it works on
  done,     \* history: assets whose delete was answered with success
  tangled,  \* history: paths where two requests worked on one asset at once
  faulted   \* history: paths where a failure was not undone

stores == <<job, rows, file, staged, used>>
reqs == <<pc, arg>>
hist == <<done, tangled, faulted>>
vars == <<stores, reqs, hist>>

UploadPc == {"upFind", "upCreate", "upBack", "upWrite", "upUndo"}
DeletePc == {"delJob", "delStage", "delRow", "delRestore", "delFile", "delFind",
             "delRecreate", "delBack", "delPut", "delDrop"}
PurgePc == {"jobDir", "jobAssets", "jobRow"}

Contents == Assets \cup {NoFile, Torn}

TypeOK ==
  /\ job \in {"completed", "gone"}
  /\ rows \subseteq used
  /\ file \in [Paths -> Contents]
  /\ staged \in [Assets -> Contents]
  /\ used \subseteq Assets
  /\ pc \in [Clients -> {"idle"} \cup UploadPc \cup DeletePc \cup PurgePc]
  /\ arg \in [Clients -> used \cup {NoAsset}]
  /\ \A c \in Clients : arg[c] = NoAsset <=> pc[c] \in {"idle"} \cup PurgePc
  /\ done \subseteq used
  /\ tangled \subseteq Paths
  /\ faulted \subseteq Paths

Init ==
  /\ job = "completed"
  /\ rows = Original
  /\ used = Original
  /\ file \in [Paths -> Original \cup {NoFile}]
  /\ \A p \in Paths, a \in Original : file[p] = a <=> PathOf[a] = p
  /\ staged = [a \in Assets |-> NoFile]
  /\ pc = [c \in Clients |-> "idle"]
  /\ arg = [c \in Clients |-> NoAsset]
  /\ done = {}
  /\ tangled = {}
  /\ faulted = {}

(***************************************************************************)
(* Steps of a request.                                                     *)
(***************************************************************************)
Begin(c, a, where) ==
  /\ pc' = [pc EXCEPT ![c] = where]
  /\ arg' = [arg EXCEPT ![c] = a]

Goto(c, where) == Begin(c, arg[c], where)
End(c) == Begin(c, NoAsset, "idle")

(* A statement with the context of the request, and one with its own. *)
CallFails == Faults \cap {"database", "request"} # {}
FinalizerFails == "database" \in Faults
StorageFails == "storage" \in Faults

Fault(c) == faulted' = faulted \cup {PathOf[arg[c]]}

(* Somebody else is at work on this asset, or deletes the whole job. *)
Overlap(c, a) == \E b \in Clients \ {c} : arg[b] = a \/ pc[b] \in PurgePc

Note(c, a) == tangled' = IF Overlap(c, a) THEN tangled \cup {PathOf[a]} ELSE tangled

AtPath(p) == {a \in rows : PathOf[a] = p}

(* The unique index on assets.path and the foreign key to generation_jobs. *)
InsertOK(a) == job # "gone" /\ AtPath(PathOf[a]) = {}

(***************************************************************************)
(* The upload handler: row first, then the file.                           *)
(***************************************************************************)
UploadGetJob(c, a) ==
  /\ pc[c] = "idle"
  /\ a \notin used
  /\ job = "completed"
  /\ used' = used \cup {a}
  /\ Begin(c, a, "upFind")
  /\ Note(c, a)
  /\ UNCHANGED <<job, rows, file, staged, done, faulted>>

UploadFind(c) ==
  /\ pc[c] = "upFind"
  /\ \/ AtPath(PathOf[arg[c]]) = {} /\ Goto(c, "upCreate")
     \/ (AtPath(PathOf[arg[c]]) # {} \/ CallFails) /\ End(c)
  /\ UNCHANGED <<stores, hist>>

(* Mutant of UploadCreate: an error other than the conflict is dropped. *)
UploadCreateUnchecked(c) ==
  /\ pc[c] = "upCreate"
  /\ \/ InsertOK(arg[c]) /\ rows' = rows \cup {arg[c]} /\ Goto(c, "upBack")
     \/ CallFails /\ Goto(c, "upWrite") /\ UNCHANGED rows
     \/ ~InsertOK(arg[c]) /\ End(c) /\ UNCHANGED rows
  /\ UNCHANGED <<job, file, staged, used, hist>>

UploadCreate(c) ==
  /\ pc[c] = "upCreate"
  /\ \/ InsertOK(arg[c]) /\ rows' = rows \cup {arg[c]} /\ Goto(c, "upBack")
     \/ (~InsertOK(arg[c]) \/ CallFails) /\ End(c) /\ UNCHANGED rows
  /\ UNCHANGED <<job, file, staged, used, hist>>

(* Create reads the row back; if it cannot, the row stays. *)
UploadBack(c) ==
  /\ pc[c] = "upBack"
  /\ \/ arg[c] \in rows /\ Goto(c, "upWrite") /\ UNCHANGED faulted
     \/ arg[c] \notin rows /\ End(c) /\ UNCHANGED faulted
     \/ CallFails /\ End(c) /\ Fault(c)
  /\ UNCHANGED <<stores, done, tangled>>

UploadWrite(c) ==
  LET a == arg[c] IN
  /\ pc[c] = "upWrite"
  /\ \/ file' = [file EXCEPT ![PathOf[a]] = a] /\ End(c) /\ UNCHANGED faulted
     \/ /\ StorageFails
        /\ Goto(c, "upUndo")
        /\ \/ UNCHANGED <<file, faulted>>
           \/ file' = [file EXCEPT ![PathOf[a]] = Torn] /\ Fault(c)
  /\ UNCHANGED <<job, rows, staged, used, done, tangled>>

UploadUndo(c) ==
  /\ pc[c] = "upUndo"
  /\ \/ rows' = rows \ {arg[c]} /\ UNCHANGED faulted
     \/ FinalizerFails /\ Fault(c) /\ UNCHANGED rows
  /\ End(c)
  /\ UNCHANGED <<job, file, staged, used, done, tangled>>

(***************************************************************************)
(* Service.DeleteAsset: stage the file, delete the row, delete the file.   *)
(***************************************************************************)
DeleteGet(c, a) ==
  /\ pc[c] = "idle"
  /\ a \in rows
  /\ Begin(c, a, "delJob")
  /\ Note(c, a)
  /\ UNCHANGED <<stores, done, faulted>>

(* There is no such asset: the handler answers so. *)
DeleteMisses(c, a) ==
  /\ pc[c] = "idle"
  /\ a \notin rows
  /\ UNCHANGED vars

DeleteGetJob(c) ==
  /\ pc[c] = "delJob"
  /\ \/ job = "completed" /\ Goto(c, "delStage")
     \/ (job = "gone" \/ CallFails) /\ End(c)
  /\ UNCHANGED <<stores, hist>>

(* Move: nothing to rename is not an error, an existing target is replaced. *)
Stage(a) ==
  IF file[PathOf[a]] = NoFile THEN UNCHANGED <<file, staged>>
  ELSE /\ staged' = [staged EXCEPT ![a] = file[PathOf[a]]]
       /\ file' = [file EXCEPT ![PathOf[a]] = NoFile]

Unstage(a) ==
  IF staged[a] = NoFile THEN UNCHANGED <<file, staged>>
  ELSE /\ file' = [file EXCEPT ![PathOf[a]] = staged[a]]
       /\ staged' = [staged EXCEPT ![a] = NoFile]

DeleteStage(c) ==
  /\ pc[c] = "delStage"
  /\ \/ Stage(arg[c]) /\ Goto(c, "delRow")
     \/ StorageFails /\ End(c) /\ UNCHANGED <<file, staged>>
  /\ UNCHANGED <<job, rows, used, hist>>

(* assets.Delete, in a transaction; a missing row is an error. *)
DeleteRow(c) ==
  /\ pc[c] = "delRow"
  /\ \/ arg[c] \in rows /\ rows' = rows \ {arg[c]} /\ Goto(c, "delFile")
     \/ (arg[c] \notin rows \/ CallFails) /\ Goto(c, "delRestore") /\ UNCHANGED rows
  /\ UNCHANGED <<job, file, staged, used, hist>>

DeleteRestore(c) ==
  /\ pc[c] = "delRestore"
  /\ \/ Unstage(arg[c]) /\ UNCHANGED faulted
     \/ StorageFails /\ Fault(c) /\ UNCHANGED <<file, staged>>
  /\ End(c)
  /\ UNCHANGED <<job, rows, used, done, tangled>>

(* Mutant of DeleteFile: the error is dropped and the delete acknowledged. *)
DeleteFileUnchecked(c) ==
  /\ pc[c] = "delFile"
  /\ \/ staged' = [staged EXCEPT ![arg[c]] = NoFile]
     \/ StorageFails /\ UNCHANGED staged
  /\ done' = done \cup {arg[c]}
  /\ End(c)
  /\ UNCHANGED <<job, rows, file, used, tangled, faulted>>

(* Mutant of DeleteFile: the delete is acknowledged and then undone. *)
DeleteFileTooEarly(c) ==
  /\ pc[c] = "delFile"
  /\ \/ staged' = [staged EXCEPT ![arg[c]] = NoFile] /\ End(c)
     \/ StorageFails /\ Goto(c, "delFind") /\ UNCHANGED staged
  /\ done' = done \cup {arg[c]}
  /\ UNCHANGED <<job, rows, file, used, tangled, faulted>>

DeleteFile(c) ==
  /\ pc[c] = "delFile"
  /\ \/ /\ staged' = [staged EXCEPT ![arg[c]] = NoFile]
        /\ done' = done \cup {arg[c]}
        /\ End(c)
     \/ StorageFails /\ Goto(c, "delFind") /\ UNCHANGED <<staged, done>>
  /\ UNCHANGED <<job, rows, file, used, tangled, faulted>>

(* Is there a replacement?  If so, or if unknown, the staged file is left. *)
DeleteFind(c) ==
  /\ pc[c] = "delFind"
  /\ \/ AtPath(PathOf[arg[c]]) = {} /\ Goto(c, "delRecreate")
     \/ (AtPath(PathOf[arg[c]]) # {} \/ FinalizerFails) /\ End(c)
  /\ UNCHANGED <<stores, hist>>

(* Mutant of DeleteRecreate: the conflict with a replacement is ignored. *)
DeleteRecreateUnchecked(c) ==
  /\ pc[c] = "delRecreate"
  /\ rows' = IF InsertOK(arg[c]) THEN rows \cup {arg[c]} ELSE rows
  /\ Goto(c, "delPut")
  /\ UNCHANGED <<job, file, staged, used, hist>>

DeleteRecreate(c) ==
  /\ pc[c] = "delRecreate"
  /\ \/ InsertOK(arg[c]) /\ rows' = rows \cup {arg[c]} /\ Goto(c, "delBack")
     \/ (~InsertOK(arg[c]) \/ FinalizerFails) /\ End(c) /\ UNCHANGED rows
  /\ UNCHANGED <<job, file, staged, used, hist>>

DeleteBack(c) ==
  /\ pc[c] = "delBack"
  /\ \/ arg[c] \in rows /\ Goto(c, "delPut") /\ UNCHANGED faulted
     \/ (arg[c] \notin rows \/ FinalizerFails) /\ End(c) /\ Fault(c)
  /\ UNCHANGED <<stores, done, tangled>>

DeletePut(c) ==
  /\ pc[c] = "delPut"
  /\ \/ Unstage(arg[c]) /\ End(c)
     \/ StorageFails /\ Goto(c, "delDrop") /\ UNCHANGED <<file, staged>>
  /\ UNCHANGED <<job, rows, used, hist>>

DeleteDrop(c) ==
  /\ pc[c] = "delDrop"
  /\ \/ rows' = rows \ {arg[c]} /\ UNCHANGED faulted
     \/ FinalizerFails /\ Fault(c) /\ UNCHANGED rows
  /\ End(c)
  /\ UNCHANGED <<job, file, staged, used, done, tangled>>

(***************************************************************************)
(* Service.Delete: the directory, the asset rows, the job.                 *)
(***************************************************************************)
JobGet(c) ==
  /\ pc[c] = "idle"
  /\ job = "completed"
  /\ pc' = [pc EXCEPT ![c] = "jobDir"]
  /\ tangled' = IF \E b \in Clients : pc[b] # "idle" THEN Paths ELSE tangled
  /\ UNCHANGED <<stores, arg, done, faulted>>

Removals(contents, domain) ==
  {f \in [domain -> Contents] : \A x \in domain : f[x] \in {contents[x], NoFile}}

JobDir(c) ==
  /\ pc[c] = "jobDir"
  /\ \/ /\ file' = [p \in Paths |-> NoFile]
        /\ staged' = [a \in Assets |-> NoFile]
        /\ Goto(c, "jobAssets")
        /\ UNCHANGED faulted
     \/ /\ StorageFails
        /\ file' \in Removals(file, Paths)
        /\ staged' \in Removals(staged, Assets)
        /\ faulted' = faulted \cup {p \in Paths : file'[p] # file[p]}
        /\ End(c)
  /\ UNCHANGED <<job, rows, used, done, tangled>>

JobAssets(c) ==
  /\ pc[c] = "jobAssets"
  /\ \/ rows' = {} /\ Goto(c, "jobRow") /\ UNCHANGED faulted
     \/ CallFails /\ End(c) /\ faulted' = Paths /\ UNCHANGED rows
  /\ UNCHANGED <<job, file, staged, used, done, tangled>>

(* Mutant of JobRow: the row is kept and marked. *)
JobRowMarked(c) ==
  /\ pc[c] = "jobRow"
  /\ job' = "deleted"
  /\ End(c)
  /\ UNCHANGED <<rows, file, staged, used, hist>>

JobRow(c) ==
  /\ pc[c] = "jobRow"
  /\ \/ rows = {} /\ job' = "gone"
     \/ (rows # {} \/ CallFails \/ "deployed" \in Faults) /\ UNCHANGED job
  /\ End(c)
  /\ UNCHANGED <<rows, file, staged, used, hist>>

(* The process dies and is started again: it looks at no asset. *)
Crash ==
  /\ "crash" \in Faults
  /\ pc' = [c \in Clients |-> "idle"]
  /\ arg' = [c \in Clients |-> NoAsset]
  /\ faulted' = IF \E c \in Clients : pc[c] \in PurgePc THEN Paths
                ELSE faulted \cup {PathOf[a] : a \in {arg[c] : c \in Clients} \ {NoAsset}}
  /\ UNCHANGED <<stores, done, tangled>>

Step(c) ==
  \/ UploadFind(c) \/ UploadCreate(c) \/ UploadBack(c) \/ UploadWrite(c) \/ UploadUndo(c)
  \/ DeleteGetJob(c) \/ DeleteStage(c) \/ DeleteRow(c) \/ DeleteRestore(c)
  \/ DeleteFile(c) \/ DeleteFind(c) \/ DeleteRecreate(c) \/ DeleteBack(c)
  \/ DeletePut(c) \/ DeleteDrop(c)
  \/ JobDir(c) \/ JobAssets(c) \/ JobRow(c)

Request(c) ==
  \/ \E a \in Assets : UploadGetJob(c, a) \/ DeleteGet(c, a) \/ DeleteMisses(c, a)
  \/ JobGet(c)

Next == Crash \/ \E c \in Clients : Request(c) \/ Step(c)

Spec == Init /\ [][Next]_vars

(***************************************************************************)
(* Properties.                                                             *)
(***************************************************************************)
Disturbed == tangled \cup faulted

AtWork(a) == \E c \in Clients : arg[c] = a \/ pc[c] \in PurgePc

(* Every row has its own content at its path, once nobody is at work on   *)
(* it: a single failing step is undone, and neither a replacement uploaded *)
(* while the old asset is being deleted nor the rollback of that delete    *)
(* takes the other's file.  Only overlapping requests for one asset, and   *)
(* failures of the undoing itself, are exempt.                             *)
RowHasItsFile ==
  \A a \in rows : file[PathOf[a]] = a \/ AtWork(a) \/ PathOf[a] \in Disturbed

(* No content lies at a path, to be served, without the row it belongs to: *)
(* two uploads to one path, or an upload that fails, leave none behind.    *)
FileHasItsRow ==
  \A p \in Paths : file[p] # NoFile => file[p] \in rows \/ p \in Disturbed

(* A delete that was acknowledged lasts: the row does not come back, and   *)
(* the content is neither at its path nor staged.                          *)
DeleteLasts ==
  \A a \in done :
    /\ a \notin rows
    /\ PathOf[a] \in tangled \/ (file[PathOf[a]] # a /\ staged[a] = NoFile)

(* What the files and the steps of the requests come down to for an asset: *)
(* AssetStore implements AssetLifecycle.                                   *)
OutPc == {"delFile", "delFind", "delRecreate"}

AssetsAt(labels) == {arg[c] : c \in {b \in Clients : pc[b] \in labels}}

Lifecycle == INSTANCE AssetLifecycle WITH
       known <- used, stored <- rows, deleted <- done,
       coming <- AssetsAt({"upFind", "upCreate"}), taken <- AssetsAt(OutPc)

ImplementsAssetLifecycle == Lifecycle!Spec
=============================================================================
