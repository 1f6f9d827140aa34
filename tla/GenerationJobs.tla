--------------------------- MODULE GenerationJobs ---------------------------
(***************************************************************************)
(* The generation service: the rows of generation_jobs, the asset rows and *)
(* files that a job's worker goroutine produces, and the request handlers  *)
(* that run, cancel and delete jobs while the workers are busy.            *)
(*                                                                         *)
(* Every SQL statement is one atomic step (the pool holds one connection); *)
(* a handler or a worker is a sequence of such steps, and everything else  *)
(* may run between two of them.  A context is checked when a call starts.  *)
(***************************************************************************)
EXTENDS Integers, Sequences, FiniteSets

CONSTANTS
  Jobs,         \* ids that newJobID may return; an id is used once
  Cancelers,    \* concurrent POST .../cancel requests
  Deleters,     \* concurrent DELETE .../jobs/:id requests
  Closer,       \* the goroutine that runs Service.Close
  Deployable,   \* the jobs that clients create deployments for, in Jobs
  NoJob,        \* "this request handles no job"
  Manifest,     \* the paths the planner lays out for each job, in order
  Faults,       \* what may go wrong, a subset of FaultKinds
  MaxRuns,      \* bound on the number of POST .../run requests
  MaxRestarts   \* bound on the number of process restarts

FaultKinds ==
  {"provider",  \* Generate or Render returns an error
   "storage",   \* a filesystem call returns an error
   "database",  \* an SQL statement returns an error
   "request",   \* the client goes away, or the handler's deadline passes
   "drain",     \* handlers outlive the 5 seconds of server.Shutdown
   "crash"}     \* the process dies

Requests == Cancelers \cup Deleters \cup {Closer}

ASSUME ConstantsOK ==
  /\ Cancelers \cap Deleters = {}
  /\ Closer \notin Cancelers \cup Deleters
  /\ Deployable \subseteq Jobs
  /\ NoJob \notin Jobs
  /\ Faults \subseteq FaultKinds
  /\ MaxRuns \in Nat
  /\ MaxRestarts \in Nat

(* Nothing keeps the planner from giving two pages of a job the same path. *)
ASSUME ManifestOK == Manifest \in [Jobs -> Seq(STRING) \ {<< >>}]

Size(j) == Len(Manifest[j])
Stored(j, n) == {Manifest[j][i] : i \in 1..n}
Paths(j) == Stored(j, Size(j))

VARIABLES
  status,    \* generation_jobs.status, "none" when there is no such row
  count,     \* asset_count in generation_jobs.summary_json
  assets,    \* paths of the rows of assets that belong to the job
  deployed,  \* jobs that a row of deployments references
  files,     \* paths that exist under generated/<world>/<job>/
  pc,        \* control state of the job's worker goroutine
  idx,       \* position of its loop over the manifest
  made,      \* AssetCount in the worker's own copy of the summary
  seen,      \* the status UpdateSummary read and will write back
  verdict,   \* the terminal status the worker is about to write
  tracked,   \* keys of Service.jobCancels
  canceled,  \* jobs whose context was cancelled through jobCancels
  launch,    \* control state of the handler that runs Service.Run for the job
  opPc,      \* control state of each cancel or delete request
  opJob,     \* the job that request handles
  opCount,   \* asset_count in the summary that cancelJob read
  phase,     \* "up", "signaled", "draining" (Shutdown), "closing" (Close), "down"
  todo,      \* jobs Close still has to cancel
  restarts,  \* number of restarts so far
  marks      \* history: what has happened to the job, see Marks

rows   == <<status, count, assets, deployed>>
work   == <<pc, idx, made, seen, verdict>>
memory == <<tracked, canceled>>
ops    == <<opPc, opJob, opCount>>
proc   == <<phase, todo, restarts>>
vars   == <<rows, files, work, memory, launch, ops, proc, marks>>

Open     == {"pending", "running"}
Terminal == {"completed", "failed", "canceled"}
Status   == Open \cup Terminal \cup {"none"}

WorkerPc == {"off", "head", "read1", "write1", "back1", "generate", "render",
             "store", "create", "back", "cleanup", "read2", "write2",
             "back2", "finish"}
LaunchPc == {"idle", "created", "running", "done"}
OpPc     == {"idle", "cancelWrite", "cancelSignal", "deleteFiles",
             "deleteRecords", "deleteRow"}

(* settled: a terminal status was written.  purged: a delete removed files *)
(* of the job.  faulted: a failed filesystem call, or a failed statement   *)
(* of assets.Create, may have left file and row apart.  dropped: Run, or   *)
(* the worker after a failed call or the signal, ended without a terminal  *)
(* status.  interrupted: the process ended while the worker was running.   *)
Marks == {"settled", "purged", "faulted", "dropped", "interrupted"}

Typed ==
  /\ status \in [Jobs -> Status]
  /\ count \in [Jobs -> Nat]
  /\ assets \in [Jobs -> SUBSET STRING]
  /\ deployed \subseteq Jobs
  /\ files \in [Jobs -> SUBSET STRING]
  /\ pc \in [Jobs -> WorkerPc]
  /\ idx \in [Jobs -> Nat]
  /\ made \in [Jobs -> Nat]
  /\ seen \in [Jobs -> Status]
  /\ verdict \in [Jobs -> Terminal]
  /\ tracked \subseteq Jobs
  /\ canceled \subseteq Jobs
  /\ launch \in [Jobs -> LaunchPc]
  /\ opPc \in [Requests -> OpPc]
  /\ opJob \in [Requests -> Jobs \cup {NoJob}]
  /\ opCount \in [Requests -> Nat]
  /\ phase \in {"up", "signaled", "draining", "closing", "down"}
  /\ todo \subseteq Jobs
  /\ restarts \in 0..MaxRestarts
  /\ marks \in [Jobs -> SUBSET Marks]

(* What a job counts and stores stays within its manifest. *)
WithinManifest(j) ==
  /\ idx[j] \in 1..(Size(j) + 1)
  /\ made[j] <= Size(j) /\ count[j] <= Size(j)
  /\ assets[j] \cup files[j] \subseteq Paths(j)

TypeOK == Typed /\ \A j \in Jobs : WithinManifest(j)

Init ==
  /\ status = [j \in Jobs |-> "none"]
  /\ count = [j \in Jobs |-> 0]
  /\ assets = [j \in Jobs |-> {}]
  /\ deployed = {}
  /\ files = [j \in Jobs |-> {}]
  /\ pc = [j \in Jobs |-> "off"]
  /\ idx = [j \in Jobs |-> 1]
  /\ made = [j \in Jobs |-> 0]
  /\ seen = [j \in Jobs |-> "none"]
  /\ verdict = [j \in Jobs |-> "completed"]
  /\ tracked = {}
  /\ canceled = {}
  /\ launch = [j \in Jobs |-> "idle"]
  /\ opPc = [r \in Requests |-> "idle"]
  /\ opJob = [r \in Requests |-> NoJob]
  /\ opCount = [r \in Requests |-> 0]
  /\ phase = "up"
  /\ todo = {}
  /\ restarts = 0
  /\ marks = [j \in Jobs |-> {}]

(***************************************************************************)
(* The job store.                                                          *)
(***************************************************************************)
CanCancel(s) == s \in Open
CanDelete(s) == s \in Terminal

(* Mutant of Updatable: the UPDATE names the id only. *)
UpdatableAnyStatus(j) == status[j] # "none"

(* WHERE id = ? AND status IN ('pending', 'running') matches a row. *)
Updatable(j) == status[j] \in Open

(* Mutant of SetTerminal: the summary claims the whole manifest. *)
SetTerminalClaimsAll(j, s, n) ==
  /\ status' = [status EXCEPT ![j] = IF Updatable(j) THEN s ELSE @]
  /\ count' = [count EXCEPT ![j] = IF Updatable(j) THEN Size(j) ELSE @]
  /\ UNCHANGED marks

(* SetCompleted, SetFailed, SetCanceled: the guarded UPDATE with summary n. *)
SetTerminal(j, s, n) ==
  IF Updatable(j)
  THEN /\ status' = [status EXCEPT ![j] = s]
       /\ count' = [count EXCEPT ![j] = n]
       /\ marks' = [marks EXCEPT ![j] = @ \cup {"settled"}]
  ELSE UNCHANGED <<status, count, marks>>

(* A call that takes the request's context may fail. *)
CallFails == Faults \cap {"database", "request"} # {}

Mark(j, m) == marks' = [marks EXCEPT ![j] = @ \cup {m}]

(* The jobs' contexts derive from the lifecycle context, which the signal *)
(* cancels at once and Close cancels in any case.                         *)
CtxDone(j) == j \in canceled \/ phase # "up"

(***************************************************************************)
(* Service.Run: insert the pending row, make it running, start the worker. *)
(***************************************************************************)
(* Requests arrive until server.Shutdown closes the listener. *)
Accepting == phase \in {"up", "signaled"}

RunCreate(j) ==
  /\ Accepting
  /\ launch[j] = "idle"
  /\ Cardinality({k \in Jobs : launch[k] # "idle"}) < MaxRuns
  /\ launch' = [launch EXCEPT ![j] = "created"]
  /\ status' = [status EXCEPT ![j] = "pending"]
  /\ UNCHANGED <<count, assets, deployed, files, work, memory, ops, proc, marks>>

(* SetRunning does not look at the status it replaces. *)
RunSetRunning(j) ==
  /\ phase # "down"
  /\ launch[j] = "created"
  /\ status[j] # "none"
  /\ launch' = [launch EXCEPT ![j] = "running"]
  /\ status' = [status EXCEPT ![j] = "running"]
  /\ count' = [count EXCEPT ![j] = 0]
  /\ UNCHANGED <<assets, deployed, files, work, memory, ops, proc, marks>>

RunLaunch(j) ==
  /\ phase # "down"
  /\ launch[j] = "running"
  /\ launch' = [launch EXCEPT ![j] = "done"]
  /\ tracked' = tracked \cup {j}
  /\ pc' = [pc EXCEPT ![j] = "head"]
  /\ UNCHANGED <<rows, files, idx, made, seen, verdict, canceled, ops, proc, marks>>

(* A failed call, or a row deleted meanwhile: Run returns the error and no *)
(* worker is started, whatever the row says by then.                       *)
RunAbort(j) ==
  /\ phase # "down"
  /\ launch[j] \in {"created", "running"}
  /\ CallFails \/ status[j] = "none"
  /\ launch' = [launch EXCEPT ![j] = "done"]
  /\ Mark(j, "dropped")
  /\ UNCHANGED <<rows, files, work, memory, ops, proc>>

(***************************************************************************)
(* runJob: the worker goroutine of job j.                                  *)
(***************************************************************************)
Goto(j, where) == pc' = [pc EXCEPT ![j] = where]

(* The goroutine returns: deferred untrackJob and wg.Done. *)
Return(j) ==
  /\ Goto(j, "off")
  /\ tracked' = tracked \ {j}

Conclude(j, v) ==
  /\ Goto(j, "finish")
  /\ verdict' = [verdict EXCEPT ![j] = v]

(* Mutants of Fail: back to the queue; return without a word. *)
FailRequeues(j) == Conclude(j, "pending")
FailQuietly(j) == Goto(j, "off") /\ UNCHANGED verdict

(* The error branch of a step: a cancelled job is canceled, not failed. *)
Fail(j) == Conclude(j, IF CtxDone(j) THEN "canceled" ELSE "failed")

(* Mutant of WorkerHead: a cancelled loop is left as a finished one is. *)
WorkerHeadBreaks(j) ==
  /\ pc[j] = "head"
  /\ IF CtxDone(j) \/ idx[j] > Size(j) THEN Conclude(j, "completed")
     ELSE Goto(j, "read1") /\ UNCHANGED verdict
  /\ UNCHANGED <<rows, files, idx, made, seen, memory, launch, ops, proc, marks>>

(* The head of the loop, the check after it and the one at its end. *)
WorkerHead(j) ==
  /\ pc[j] = "head"
  /\ IF CtxDone(j) THEN Conclude(j, "canceled")
     ELSE IF idx[j] > Size(j) THEN Conclude(j, "completed")
     ELSE Goto(j, "read1") /\ UNCHANGED verdict
  /\ UNCHANGED <<rows, files, idx, made, seen, memory, launch, ops, proc, marks>>

(* UpdateSummary runs twice an entry: before Generate with the job context *)
(* (read1, write1, back1), after the asset is stored with a background one *)
(* (read2, write2, back2).  It reads the row, writes the status it read    *)
(* together with the new summary, and reads the row again.                 *)
SummaryPc == {"read1", "write1", "back1", "read2", "write2", "back2"}

SummaryBlocked(j) ==
  \/ status[j] = "none"
  \/ pc[j] \in {"read1", "write1", "back1"} /\ CtxDone(j)

SummaryRead(j) ==
  /\ pc[j] \in {"read1", "read2"}
  /\ ~SummaryBlocked(j)
  /\ seen' = [seen EXCEPT ![j] = status[j]]
  /\ Goto(j, IF pc[j] = "read1" THEN "write1" ELSE "write2")
  /\ UNCHANGED <<rows, files, idx, made, verdict, memory, launch, ops, proc, marks>>

SummaryWrite(j) ==
  /\ pc[j] \in {"write1", "write2"}
  /\ ~SummaryBlocked(j)
  /\ status' = [status EXCEPT ![j] = seen[j]]
  /\ count' = [count EXCEPT ![j] = made[j]]
  /\ Goto(j, IF pc[j] = "write1" THEN "back1" ELSE "back2")
  /\ UNCHANGED <<assets, deployed, files, idx, made, seen, verdict, memory,
                 launch, ops, proc, marks>>

(* After the second one comes the isCanceled check that ends the iteration; *)
(* the head of the loop makes the same check on the next entry.             *)
SummaryBack(j) ==
  /\ pc[j] \in {"back1", "back2"}
  /\ ~SummaryBlocked(j)
  /\ IF pc[j] = "back1"
     THEN Goto(j, "generate") /\ UNCHANGED idx
     ELSE Goto(j, "head") /\ idx' = [idx EXCEPT ![j] = @ + 1]
  /\ UNCHANGED <<rows, files, made, seen, verdict, memory, launch, ops, proc, marks>>

(* Mutant of SummaryFails: the update is tried again. *)
SummaryRetries(j) ==
  /\ pc[j] \in SummaryPc
  /\ SummaryBlocked(j) \/ "database" \in Faults
  /\ Goto(j, IF pc[j] \in {"read1", "write1", "back1"} THEN "read1" ELSE "read2")
  /\ UNCHANGED <<rows, files, idx, made, seen, verdict, memory, launch, ops,
                 proc, marks>>

(* UpdateSummary fails: runJob returns and leaves the row as it is.  (When *)
(* the job was cancelled, cancelJob has settled it before.)                *)
SummaryFails(j) ==
  /\ pc[j] \in SummaryPc
  /\ SummaryBlocked(j) \/ "database" \in Faults
  /\ IF j \in canceled THEN UNCHANGED marks ELSE Mark(j, "dropped")
  /\ Return(j)
  /\ UNCHANGED <<rows, files, idx, made, seen, verdict, canceled, launch, ops, proc>>

Generate(j) ==
  /\ pc[j] = "generate"
  /\ \/ ~CtxDone(j) /\ Goto(j, "render") /\ UNCHANGED verdict
     \/ (CtxDone(j) \/ "provider" \in Faults) /\ Fail(j)
  /\ UNCHANGED <<rows, files, idx, made, seen, memory, launch, ops, proc, marks>>

(* The renderers do not watch the context. *)
Render(j) ==
  /\ pc[j] = "render"
  /\ \/ Goto(j, "store") /\ UNCHANGED verdict
     \/ "provider" \in Faults /\ Fail(j)
  /\ UNCHANGED <<rows, files, idx, made, seen, memory, launch, ops, proc, marks>>

(* Mutant of StoreFile: the error of Write is dropped. *)
StoreFileUnchecked(j) ==
  /\ pc[j] = "store"
  /\ files' \in {files, [files EXCEPT ![j] = @ \cup {Manifest[j][idx[j]]}]}
  /\ Goto(j, "create")
  /\ UNCHANGED <<rows, idx, made, seen, verdict, memory, launch, ops, proc, marks>>

(* Filesystem.Write ignores the context; a failed write may leave a file. *)
StoreFile(j) ==
  /\ pc[j] = "store"
  /\ \/ /\ files' = [files EXCEPT ![j] = @ \cup {Manifest[j][idx[j]]}]
        /\ Goto(j, "create")
        /\ UNCHANGED <<verdict, marks>>
     \/ /\ "storage" \in Faults
        /\ files' \in {files, [files EXCEPT ![j] = @ \cup {Manifest[j][idx[j]]}]}
        /\ Fail(j)
        /\ Mark(j, "faulted")
  /\ UNCHANGED <<rows, idx, made, seen, memory, launch, ops, proc>>

(* The foreign key to generation_jobs and the unique index on assets.path. *)
InsertOK(j) == status[j] # "none" /\ Manifest[j][idx[j]] \notin assets[j]

CreateAsset(j) ==
  /\ pc[j] = "create"
  /\ \/ /\ InsertOK(j)
        /\ assets' = [assets EXCEPT ![j] = @ \cup {Manifest[j][idx[j]]}]
        /\ Goto(j, "back")
     \/ /\ ~InsertOK(j) \/ "database" \in Faults
        /\ UNCHANGED assets
        /\ Goto(j, "cleanup")
  /\ UNCHANGED <<status, count, deployed, files, idx, made, seen, verdict,
                 memory, launch, ops, proc, marks>>

(* assets.Create ends by reading the row back. *)
AssetBack(j) ==
  /\ pc[j] = "back"
  /\ \/ /\ Manifest[j][idx[j]] \in assets[j]
        /\ made' = [made EXCEPT ![j] = @ + 1]
        /\ Goto(j, "read2")
        /\ UNCHANGED marks
     \/ /\ \/ Manifest[j][idx[j]] \notin assets[j] /\ UNCHANGED marks
           \/ "database" \in Faults /\ Mark(j, "faulted")
        /\ UNCHANGED made
        /\ Goto(j, "cleanup")
  /\ UNCHANGED <<rows, files, idx, seen, verdict, memory, launch, ops, proc>>

(* Mutant of CleanupStoredFile: the file of a failed asset is left behind. *)
CleanupNothing(j) ==
  /\ pc[j] = "cleanup"
  /\ Fail(j)
  /\ UNCHANGED <<rows, files, idx, made, seen, memory, launch, ops, proc, marks>>

(* cleanupStoredFile drops the error of Delete. *)
CleanupStoredFile(j) ==
  /\ pc[j] = "cleanup"
  /\ \/ /\ files' = [files EXCEPT ![j] = @ \ {Manifest[j][idx[j]]}]
        /\ UNCHANGED marks
     \/ /\ "storage" \in Faults
        /\ UNCHANGED files
        /\ Mark(j, "faulted")
  /\ Fail(j)
  /\ UNCHANGED <<rows, idx, made, seen, memory, launch, ops, proc>>

(* The errors of the last write are ignored. *)
Finish(j) ==
  /\ pc[j] = "finish"
  /\ \/ SetTerminal(j, verdict[j], made[j])
     \/ "database" \in Faults /\ Mark(j, "dropped") /\ UNCHANGED <<status, count>>
  /\ Return(j)
  /\ UNCHANGED <<assets, deployed, files, idx, made, seen, verdict, canceled,
                 launch, ops, proc>>

Worker(j) ==
  /\ phase # "down"
  /\ \/ WorkerHead(j)
     \/ SummaryRead(j) \/ SummaryWrite(j) \/ SummaryBack(j) \/ SummaryFails(j)
     \/ Generate(j) \/ Render(j) \/ StoreFile(j)
     \/ CreateAsset(j) \/ AssetBack(j) \/ CleanupStoredFile(j)
     \/ Finish(j)

(***************************************************************************)
(* cancelJob: read the row, write it canceled, then cancel the context.    *)
(***************************************************************************)
Begin(r, j, where, n) ==
  /\ opPc' = [opPc EXCEPT ![r] = where]
  /\ opJob' = [opJob EXCEPT ![r] = j]
  /\ opCount' = [opCount EXCEPT ![r] = n]

Proceed(r, where) ==
  /\ opPc' = [opPc EXCEPT ![r] = where]
  /\ UNCHANGED <<opJob, opCount>>

End(r) == Begin(r, NoJob, "idle", 0)

CancelRead(r, j) ==
  /\ Accepting
  /\ opPc[r] = "idle"
  /\ CanCancel(status[j])
  /\ Begin(r, j, "cancelWrite", count[j])
  /\ UNCHANGED <<rows, files, work, memory, launch, proc, marks>>

(* The summary written is the one read above.  When the guard finds the    *)
(* row settled or gone, cancelJob returns without cancelling the context.  *)
CancelWrite(r) ==
  LET j == opJob[r] IN
  /\ phase # "down"
  /\ opPc[r] = "cancelWrite"
  /\ SetTerminal(j, "canceled", opCount[r])
  /\ IF Updatable(j) THEN Proceed(r, "cancelSignal") ELSE End(r)
  /\ UNCHANGED <<assets, deployed, files, work, memory, launch, proc>>

(* The row is read back, then the context is cancelled if the job is still *)
(* tracked.  When a delete has removed the row meanwhile, the read may not  *)
(* find it, and cancelJob returns without cancelling.                       *)
CancelSignal(r) ==
  LET j == opJob[r] IN
  /\ phase # "down"
  /\ opPc[r] = "cancelSignal"
  /\ \/ canceled' = canceled \cup ({j} \cap tracked)
     \/ status[j] = "none" /\ UNCHANGED canceled
  /\ End(r)
  /\ UNCHANGED <<rows, files, work, tracked, launch, proc, marks>>

(* The UPDATE, or reading the row back, fails.  (Close: see CloseAborts.) *)
CancelFails(r) ==
  /\ phase # "down"
  /\ r # Closer
  /\ opPc[r] \in {"cancelWrite", "cancelSignal"}
  /\ "database" \in Faults
  /\ End(r)
  /\ UNCHANGED <<rows, files, work, memory, launch, proc, marks>>

(***************************************************************************)
(* Service.Delete: files first, then the asset rows, then the job row.     *)
(***************************************************************************)
DeleteRead(r, j) ==
  /\ Accepting
  /\ opPc[r] = "idle"
  /\ CanDelete(status[j])
  /\ Begin(r, j, "deleteFiles", 0)
  /\ UNCHANGED <<rows, files, work, memory, launch, proc, marks>>

(* os.RemoveAll may fail after it has removed part of the tree. *)
DeleteFiles(r) ==
  LET j == opJob[r] IN
  /\ phase # "down"
  /\ opPc[r] = "deleteFiles"
  /\ \/ files' = [files EXCEPT ![j] = {}] /\ Proceed(r, "deleteRecords")
     \/ /\ "storage" \in Faults
        /\ \E left \in SUBSET files[j] : files' = [files EXCEPT ![j] = left]
        /\ End(r)
  /\ Mark(j, "purged")
  /\ UNCHANGED <<rows, work, memory, launch, proc>>

DeleteRecords(r) ==
  LET j == opJob[r] IN
  /\ phase # "down"
  /\ opPc[r] = "deleteRecords"
  /\ assets' = [assets EXCEPT ![j] = {}]
  /\ Proceed(r, "deleteRow")
  /\ UNCHANGED <<status, count, deployed, files, work, memory, launch, proc, marks>>

(* Mutant of Unreferenced: the foreign keys are not enforced. *)
UnreferencedUnchecked(j) == j \in Jobs

(* No row of assets or deployments references the job. *)
Unreferenced(j) == assets[j] = {} /\ j \notin deployed

(* The DELETE fails on a foreign key, or finds no row: nothing changes. *)
DeleteRow(r) ==
  LET j == opJob[r] IN
  /\ phase # "down"
  /\ opPc[r] = "deleteRow"
  /\ IF Unreferenced(j)
     THEN status' = [status EXCEPT ![j] = "none"]
     ELSE UNCHANGED status
  /\ End(r)
  /\ UNCHANGED <<count, assets, deployed, files, work, memory, launch, proc, marks>>

DeleteFails(r) ==
  /\ phase # "down"
  /\ opPc[r] \in {"deleteRecords", "deleteRow"}
  /\ CallFails
  /\ End(r)
  /\ UNCHANGED <<rows, files, work, memory, launch, proc, marks>>

(* The rows of deployments matter here only through their foreign key. *)
CreateDeployment(j) ==
  /\ Accepting
  /\ j \in Deployable
  /\ status[j] # "none"
  /\ j \notin deployed
  /\ deployed' = deployed \cup {j}
  /\ UNCHANGED <<status, count, assets, files, work, memory, launch, ops, proc, marks>>

DeleteDeployment(j) ==
  /\ Accepting
  /\ j \in deployed
  /\ deployed' = deployed \ {j}
  /\ UNCHANGED <<status, count, assets, files, work, memory, launch, ops, proc, marks>>

(***************************************************************************)
(* The process: signal, graceful close, crash, restart.                    *)
(***************************************************************************)
Signal ==
  /\ phase = "up"
  /\ phase' = "signaled"
  /\ UNCHANGED <<rows, files, work, memory, launch, ops, todo, restarts, marks>>

Shutdown ==
  /\ phase = "signaled"
  /\ phase' = "draining"
  /\ UNCHANGED <<rows, files, work, memory, launch, ops, todo, restarts, marks>>

(* server.Shutdown returns when the handlers are done, or after 5 seconds; *)
(* Close then takes its list of jobs to cancel.                            *)
Drained ==
  /\ \A r \in Requests : opPc[r] = "idle"
  /\ \A j \in Jobs : launch[j] \in {"idle", "done"}

CloseSnapshot ==
  /\ phase = "draining"
  /\ Drained \/ "drain" \in Faults
  /\ phase' = "closing"
  /\ todo' = tracked
  /\ UNCHANGED <<rows, files, work, memory, launch, ops, restarts, marks>>

CloseCancel(j) ==
  /\ phase = "closing"
  /\ opPc[Closer] = "idle"
  /\ j \in todo
  /\ todo' = todo \ {j}
  /\ IF CanCancel(status[j])
     THEN Begin(Closer, j, "cancelWrite", count[j])
     ELSE UNCHANGED ops
  /\ UNCHANGED <<rows, files, work, memory, launch, phase, restarts, marks>>

(* Run or the worker is at the job. *)
AtWork(j) == launch[j] \in {"created", "running"} \/ pc[j] # "off"

(* What ends with the process. *)
Halt ==
  /\ phase' = "down"
  /\ todo' = {}
  /\ pc' = [j \in Jobs |-> "off"]
  /\ tracked' = {}
  /\ canceled' = {}
  /\ launch' = [j \in Jobs |-> IF launch[j] = "idle" THEN "idle" ELSE "done"]
  /\ opPc' = [r \in Requests |-> "idle"]
  /\ opJob' = [r \in Requests |-> NoJob]
  /\ opCount' = [r \in Requests |-> 0]
  /\ marks' = [j \in Jobs |-> marks[j] \cup
                 (IF pc[j] # "off" THEN {"interrupted"}
                  ELSE IF AtWork(j) THEN {"dropped"} ELSE {})]
  /\ UNCHANGED <<rows, files, idx, made, seen, verdict, restarts>>

WorkersDone == \A j \in Jobs : pc[j] = "off"

CloseReturns ==
  /\ phase = "closing"
  /\ todo = {}
  /\ opPc[Closer] = "idle"
  /\ WorkersDone
  /\ Halt

(* An error other than not-found or not-cancelable: Close returns at once, *)
(* without waiting for the workers, and so does APIApp.Close.              *)
CloseAborts ==
  /\ phase = "closing"
  /\ "database" \in Faults
  /\ opPc[Closer] # "idle" \/ todo # {}
  /\ Halt

Crash ==
  /\ phase # "down"
  /\ "crash" \in Faults
  /\ Halt

(* Nothing at startup looks at the jobs the last process left behind. *)
Restart ==
  /\ phase = "down"
  /\ restarts < MaxRestarts
  /\ phase' = "up"
  /\ restarts' = restarts + 1
  /\ UNCHANGED <<rows, files, work, memory, launch, ops, todo, marks>>

(* The process has ended for good. *)
Stopped ==
  /\ phase = "down"
  /\ restarts = MaxRestarts
  /\ UNCHANGED vars

RunHandler(j) == RunSetRunning(j) \/ RunLaunch(j) \/ RunAbort(j)

Handler(r) ==
  \/ CancelWrite(r) \/ CancelSignal(r) \/ CancelFails(r)
  \/ DeleteFiles(r) \/ DeleteRecords(r) \/ DeleteRow(r) \/ DeleteFails(r)

Closing ==
  \/ Shutdown \/ CloseSnapshot \/ CloseReturns
  \/ \E j \in Jobs : CloseCancel(j)

Next ==
  \/ \E j \in Jobs :
       \/ RunCreate(j) \/ RunHandler(j)
       \/ Worker(j)
       \/ CreateDeployment(j) \/ DeleteDeployment(j)
  \/ \E r \in Cancelers, j \in Jobs : CancelRead(r, j)
  \/ \E r \in Deleters, j \in Jobs : DeleteRead(r, j)
  \/ \E r \in Requests : Handler(r)
  \/ Signal \/ Closing
  \/ CloseAborts \/ Crash \/ Restart \/ Stopped

Spec == Init /\ [][Next]_vars

(* Goroutines that can run do run; clients, operators and faults need not. *)
Fairness ==
  /\ \A j \in Jobs : WF_vars(RunHandler(j)) /\ WF_vars(Worker(j))
  /\ \A r \in Requests : WF_vars(Handler(r))
  /\ WF_vars(Closing)

FairSpec == Spec /\ Fairness

(***************************************************************************)
(* Properties.                                                             *)
(***************************************************************************)

(* A completed job has every planned file on disk, a row for each of them  *)
(* and the right asset_count, until a delete of the job has reached its    *)
(* files: no cancel, shutdown or fault that raced the worker can leave a   *)
(* job completed with a part of its assets.                                *)
CompletedIsWhole ==
  \A j \in Jobs :
    status[j] = "completed" /\ "purged" \notin marks[j] =>
      assets[j] = Paths(j) /\ files[j] = Paths(j) /\ count[j] = Size(j)

(* A file under the job's directory has an asset row, except the one the   *)
(* worker is about to record or to clean up: runJob removes what it could  *)
(* not record, and stops between entries only.                             *)
FilesBackedByRows ==
  \A j \in Jobs :
    marks[j] \cap {"purged", "faulted", "interrupted"} = {} =>
      \A p \in files[j] \ assets[j] :
        pc[j] \in {"create", "cleanup"} /\ p = Manifest[j][idx[j]]

(* The path of the current entry, when an earlier entry had it, too. *)
Repeated(j) ==
  IF idx[j] <= Size(j) THEN {Manifest[j][idx[j]]} \cap Stored(j, idx[j] - 1) ELSE {}

(* The file of every asset row exists, whatever interrupted the worker:    *)
(* the file is written before the row.  There is one way to lose it: the   *)
(* second entry of the same path cannot be recorded, its cleanup takes the *)
(* file of the first one away, and the job ends there.                     *)
RowsBackedByFiles ==
  \A j \in Jobs :
    marks[j] \cap {"purged", "faulted"} = {} =>
      \/ assets[j] \subseteq files[j]
      \/ pc[j] \in {"finish", "off"} /\ assets[j] \ files[j] \subseteq Repeated(j)

(* asset_count never counts an asset that has no row, although cancelJob   *)
(* writes back a summary that it read earlier.                             *)
CountIsBacked ==
  \A j \in Jobs :
    "purged" \notin marks[j] => Stored(j, count[j]) \subseteq assets[j]

(* The asset rows of a removed job are gone with it: Delete and the worker *)
(* that is still winding down cannot between them leave a row without job. *)
NoStrayRows == \A j \in Jobs : assets[j] # {} \/ j \in deployed => status[j] # "none"

(* A completed or failed job keeps its status until it is deleted: a late  *)
(* cancel, of a client or of Close, and a late worker do not overwrite it. *)
(* (JobLifecycle says so, too.)                                            *)
CompletedAndFailedAreFinal ==
  [][\A j \in Jobs :
       status[j] \in {"completed", "failed"} => status'[j] \in {status[j], "none"}]_vars

(* The service implements the job life cycle of JobLifecycle. *)
stage ==
  [j \in Jobs |-> IF launch[j] = "idle" THEN "new"
                  ELSE IF launch[j] # "done" THEN "launching"
                  ELSE IF pc[j] # "off" THEN "working" ELSE "over"]

settled == {j \in Jobs : "settled" \in marks[j]}

Lifecycle == INSTANCE JobLifecycle WITH
       Jobs <- Jobs, status <- status, stage <- stage, settled <- settled

ImplementsLifecycle == Lifecycle!Spec

(* A job that is pending or running has somebody at work on it, under any  *)
(* faults and any number of restarts, except that a cancel wrote it        *)
(* terminal and the worker's summary wrote it back, that a failed call     *)
(* made Run or the worker give it up, or that the process ended.           *)
OpenIsAttended ==
  \A j \in Jobs :
    status[j] \in Open =>
      AtWork(j) \/ marks[j] \cap {"settled", "dropped", "interrupted"} # {}

(* A started job reaches a terminal status and keeps it, as long as the    *)
(* process is up: what the test of a cancelled run waits for.              *)
RunSettles ==
  \A j \in Jobs :
    launch[j] = "running" ~> [](status[j] \notin Open \/ phase # "up")

(* A signal ends the process: Close never waits for a worker for ever. *)
ShutdownCompletes == phase = "signaled" ~> phase = "down"
=============================================================================
