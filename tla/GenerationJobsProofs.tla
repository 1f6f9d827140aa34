------------------------ MODULE GenerationJobsProofs ------------------------
(***************************************************************************)
(* Theorems about GenerationJobs, for every set of jobs and requests,      *)
(* every manifest and every combination of faults.                         *)
(***************************************************************************)
EXTENDS GenerationJobs, FiniteSets, FiniteSetTheorems, TLAPS

(***************************************************************************)
(* The inductive invariant: the type invariant, one invariant of the       *)
(* requests and one of each job.                                           *)
(***************************************************************************)

(* A request at work handles a job; a delete has seen it settled, and past *)
(* its first step it has removed files; a cancel carries a summary that    *)
(* counts no more assets than the worker has made.                         *)
RequestOK(r) ==
  /\ opPc[r] # "idle" => opJob[r] \in Jobs
  /\ opPc[r] \in {"deleteFiles", "deleteRecords", "deleteRow"} =>
       "settled" \in marks[opJob[r]]
  /\ opPc[r] \in {"deleteRecords", "deleteRow"} => "purged" \in marks[opJob[r]]
  /\ opPc[r] = "cancelWrite" => opCount[r] <= made[opJob[r]]

(* The loop index and the worker's own count move together, and the count  *)
(* on the row never runs ahead of them.                                    *)
BeforeInsert == {"head", "read1", "write1", "back1", "generate", "render",
                 "store", "create", "back", "cleanup"}
AfterInsert  == {"read2", "write2", "back2"}

LoopOK(j) ==
  /\ pc[j] \in BeforeInsert => made[j] = idx[j] - 1
  /\ pc[j] \in AfterInsert => made[j] = idx[j]
  /\ pc[j] \in (BeforeInsert \cup AfterInsert) \ {"head"} => idx[j] <= Size(j)
  /\ pc[j] = "finish" /\ verdict[j] = "completed" => made[j] = Size(j)
  /\ launch[j] # "done" => pc[j] = "off" /\ idx[j] = 1 /\ made[j] = 0
  /\ 1 <= idx[j] /\ idx[j] <= Size(j) + 1
  /\ count[j] <= made[j] /\ made[j] <= Size(j)

(* Which statuses a row may have while the job is launched or worked on.   *)
(* In particular no goroutine of a completed or failed job is left.        *)
StatusOK(j) ==
  /\ launch[j] = "idle" => status[j] = "none"
  /\ launch[j] = "created" => status[j] \in {"none", "pending", "canceled"}
  /\ launch[j] = "running" => status[j] \in {"none", "running", "canceled"}
  /\ pc[j] # "off" => status[j] \in {"none", "running", "canceled"}
  /\ pc[j] \in {"write1", "write2"} => seen[j] \in {"running", "canceled"}
  /\ pc[j] \in {"write1", "write2"} /\ seen[j] = "canceled" => "settled" \in marks[j]
  /\ status[j] \in Terminal => "settled" \in marks[j]

(* What the worker has made is on record and on disk. *)
ProductOK(j) ==
  "purged" \notin marks[j] =>
    /\ Stored(j, made[j]) \subseteq assets[j]
    /\ pc[j] \notin {"off", "finish"} => Stored(j, made[j]) \subseteq files[j]
    /\ pc[j] = "finish" /\ verdict[j] = "completed" => Stored(j, made[j]) \subseteq files[j]
    /\ pc[j] \in {"create", "back"} => Manifest[j][idx[j]] \in files[j]
    /\ pc[j] = "back" => Manifest[j][idx[j]] \in assets[j]

(* The properties of GenerationJobs, of one job. *)
WholeOK(j) ==
  status[j] = "completed" /\ "purged" \notin marks[j] =>
    assets[j] = Paths(j) /\ files[j] = Paths(j) /\ count[j] = Size(j)

TornOK(j) ==
  marks[j] \cap {"purged", "faulted", "interrupted"} = {} =>
    \A p \in files[j] \ assets[j] :
      pc[j] \in {"create", "cleanup"} /\ p = Manifest[j][idx[j]]

(* Nothing is stored or recorded that the planner did not lay out. *)
FilesOK(j) ==
  /\ assets[j] \subseteq Paths(j) /\ files[j] \subseteq Paths(j)
  /\ TornOK(j)

RowOK(j) == assets[j] # {} \/ j \in deployed => status[j] # "none"

JobInv(j) ==
  LoopOK(j) /\ StatusOK(j) /\ ProductOK(j) /\ WholeOK(j) /\ FilesOK(j) /\ RowOK(j)

IInv ==
  /\ Typed
  /\ \A r \in Requests : RequestOK(r)
  /\ \A j \in Jobs : JobInv(j)

(***************************************************************************)
(* Facts about the constants.                                              *)
(***************************************************************************)
LEMMA ManifestFacts ==
  ASSUME NEW j \in Jobs
  PROVE  /\ Size(j) \in Nat \ {0}
         /\ \A i \in 1..Size(j) : Manifest[j][i] \in STRING /\ Manifest[j][i] \in Paths(j)
         /\ Stored(j, 0) = {} /\ Stored(j, Size(j)) = Paths(j)
         /\ \A m, n \in Nat : m <= n => Stored(j, m) \subseteq Stored(j, n)
         /\ \A n \in Nat : Stored(j, n + 1) = Stored(j, n) \cup {Manifest[j][n + 1]}
<1>1. Manifest[j] \in Seq(STRING) /\ Manifest[j] # << >>
  BY ManifestOK
<1>2. Size(j) \in Nat \ {0} /\ \A i \in 1..Size(j) : Manifest[j][i] \in STRING
  BY <1>1 DEF Size
<1>3. \A m, n \in Nat : m <= n => Stored(j, m) \subseteq Stored(j, n)
  BY DEF Stored
<1>4. \A n \in Nat : Stored(j, n + 1) = Stored(j, n) \cup {Manifest[j][n + 1]}
  BY DEF Stored
<1>5. Stored(j, 0) = {}
  BY DEF Stored
<1>6. QED
  BY <1>2, <1>3, <1>4, <1>5 DEF Stored, Paths

LEMMA SizeFacts == \A j \in Jobs : Size(j) \in Nat \ {0}
  BY ManifestFacts

LEMMA RequestFacts == Closer \in Requests /\ NoJob \notin Jobs
  BY ConstantsOK DEF Requests

(***************************************************************************)
(* Typed in three parts.                                                  *)
(***************************************************************************)
TypeRows ==
  /\ status \in [Jobs -> Status] /\ count \in [Jobs -> Nat]
  /\ assets \in [Jobs -> SUBSET STRING] /\ deployed \subseteq Jobs
  /\ files \in [Jobs -> SUBSET STRING] /\ marks \in [Jobs -> SUBSET Marks]

TypeWork ==
  /\ pc \in [Jobs -> WorkerPc] /\ idx \in [Jobs -> Nat]
  /\ made \in [Jobs -> Nat] /\ seen \in [Jobs -> Status]
  /\ verdict \in [Jobs -> Terminal]

TypeProcess ==
  /\ tracked \subseteq Jobs /\ canceled \subseteq Jobs /\ todo \subseteq Jobs
  /\ launch \in [Jobs -> LaunchPc]
  /\ opPc \in [Requests -> OpPc] /\ opJob \in [Requests -> Jobs \cup {NoJob}]
  /\ opCount \in [Requests -> Nat]
  /\ phase \in {"up", "signaled", "draining", "closing", "down"}
  /\ restarts \in 0..MaxRestarts

(***************************************************************************)
(* Frame lemmas: a job or a request that a step leaves alone.              *)
(***************************************************************************)
SameJob(k) ==
  /\ status'[k] = status[k] /\ count'[k] = count[k] /\ assets'[k] = assets[k]
  /\ files'[k] = files[k] /\ pc'[k] = pc[k] /\ idx'[k] = idx[k]
  /\ made'[k] = made[k] /\ seen'[k] = seen[k] /\ verdict'[k] = verdict[k]
  /\ launch'[k] = launch[k] /\ marks'[k] = marks[k]
  /\ (k \in deployed') <=> (k \in deployed)

LEMMA JobFrame ==
  ASSUME NEW k \in Jobs, JobInv(k), SameJob(k)
  PROVE  JobInv(k)'
<1>1. LoopOK(k)' /\ StatusOK(k)'
  BY DEF JobInv, SameJob, LoopOK, StatusOK
<1>2. ProductOK(k)' /\ WholeOK(k)'
  BY DEF JobInv, SameJob, ProductOK, WholeOK
<1>3. FilesOK(k)' /\ RowOK(k)'
  BY DEF JobInv, SameJob, FilesOK, TornOK, RowOK
<1>4. QED
  BY <1>1, <1>2, <1>3 DEF JobInv

(* What the marks and the worker's count may do while a request waits. *)
Grows ==
  \A k \in Jobs : marks[k] \subseteq marks'[k] /\ made[k] <= made'[k]

SameRequest(r) ==
  opPc'[r] = opPc[r] /\ opJob'[r] = opJob[r] /\ opCount'[r] = opCount[r]

LEMMA RequestFrame ==
  ASSUME Typed, Typed', NEW r \in Requests, RequestOK(r), Grows, SameRequest(r)
  PROVE  RequestOK(r)'
  BY ManifestFacts DEF Typed, RequestOK, Grows, SameRequest

(* What the helpers of the actions do to the variables they change. *)
LEMMA FailFacts ==
  ASSUME Typed, NEW j \in Jobs, Fail(j)
  PROVE  /\ pc' \in [Jobs -> WorkerPc] /\ pc'[j] = "finish"
         /\ verdict' \in [Jobs -> Terminal] /\ verdict'[j] \in {"canceled", "failed"}
         /\ \A k \in Jobs : k # j => pc'[k] = pc[k] /\ verdict'[k] = verdict[k]
<1>1. pc' = [pc EXCEPT ![j] = "finish"]
  BY DEF Fail, Conclude, Goto
<1>2. PICK v \in {"canceled", "failed"} : verdict' = [verdict EXCEPT ![j] = v]
  BY DEF Fail, Conclude
<1>3. QED
  BY <1>1, <1>2 DEF Typed, WorkerPc, Terminal

LEMMA MarkFacts ==
  ASSUME Typed, NEW j \in Jobs, NEW m \in Marks, Mark(j, m) \/ UNCHANGED marks
  PROVE  /\ marks' \in [Jobs -> SUBSET Marks]
         /\ marks[j] \subseteq marks'[j] /\ marks'[j] \subseteq marks[j] \cup {m}
         /\ \A k \in Jobs : k # j => marks'[k] = marks[k]
<1>1. CASE Mark(j, m)
  BY <1>1 DEF Typed, Mark
<1>2. CASE UNCHANGED marks
  BY <1>2 DEF Typed
<1>3. QED
  BY <1>1, <1>2

LEMMA FileFacts ==
  ASSUME Typed, NEW j \in Jobs, NEW S \in SUBSET STRING, files' = [files EXCEPT ![j] = S]
  PROVE  /\ files' \in [Jobs -> SUBSET STRING] /\ files'[j] = S
         /\ \A k \in Jobs : k # j => files'[k] = files[k]
  BY DEF Typed

LEMMA SetTerminalFacts ==
  ASSUME Typed, NEW j \in Jobs, NEW s \in Terminal, NEW n \in Nat,
         SetTerminal(j, s, n)
  PROVE  /\ status' \in [Jobs -> Status] /\ count' \in [Jobs -> Nat]
         /\ marks' \in [Jobs -> SUBSET Marks] /\ marks[j] \subseteq marks'[j]
         /\ marks'[j] \subseteq marks[j] \cup {"settled"}
         /\ \/ status'[j] = status[j] /\ count'[j] = count[j] /\ marks'[j] = marks[j]
            \/ /\ status[j] \in Open /\ status'[j] = s /\ count'[j] = n
               /\ "settled" \in marks'[j]
         /\ \A k \in Jobs : k # j => /\ status'[k] = status[k] /\ count'[k] = count[k]
                                     /\ marks'[k] = marks[k]
<1>1. CASE SetTerminal(j, s, n) /\ Updatable(j)
  <2>1. /\ status' = [status EXCEPT ![j] = s] /\ count' = [count EXCEPT ![j] = n]
        /\ marks' = [marks EXCEPT ![j] = @ \cup {"settled"}] /\ status[j] \in Open
    BY <1>1 DEF SetTerminal, Updatable
  <2>2. QED
    BY <2>1 DEF Typed, Status, Marks
<1>2. CASE UNCHANGED <<status, count, marks>>
  BY <1>2 DEF Typed
<1>3. QED
  BY <1>1, <1>2 DEF SetTerminal

(***************************************************************************)
(* Each action preserves the invariant.                                    *)
(***************************************************************************)

LEMMA RunCreateInv ==
  ASSUME IInv, NEW j \in Jobs, RunCreate(j)
  PROVE  IInv'
<1> USE DEF RunCreate, rows, work, memory, ops, proc
<1>1. Typed'
  <2>1. TypeRows'
    BY SizeFacts DEF IInv, Typed, TypeRows, JobInv, LoopOK, StatusOK, Status, Open, Terminal, Marks
  <2>2. TypeWork'
    BY SizeFacts DEF IInv, Typed, TypeWork, JobInv, LoopOK, BeforeInsert, AfterInsert, WorkerPc, Terminal
  <2>3. TypeProcess'
    BY DEF IInv, Typed, TypeProcess, LaunchPc
  <2>4. QED
    BY <2>1, <2>2, <2>3 DEF Typed, TypeRows, TypeWork, TypeProcess
<1>2. ASSUME NEW r \in Requests PROVE RequestOK(r)'
  <2>1. Grows /\ SameRequest(r)
    BY SizeFacts DEF IInv, Typed, Grows, SameRequest
  <2>2. QED
    BY <1>1, <2>1, RequestFrame DEF IInv
<1>3. JobInv(j)'
  <2>1. LoopOK(j)'
    BY SizeFacts DEF IInv, Typed, JobInv, LoopOK, StatusOK, BeforeInsert, AfterInsert
  <2>2. StatusOK(j)'
    BY DEF IInv, Typed, JobInv, StatusOK, LoopOK, Status, Open, Terminal, WorkerPc, LaunchPc, OpPc, Marks
  <2>3. ProductOK(j)'
    BY DEF IInv, Typed, JobInv, LoopOK, ProductOK, BeforeInsert, AfterInsert
  <2>4. WholeOK(j)'
    BY DEF IInv, Typed, JobInv, LoopOK, StatusOK, ProductOK, WholeOK
  <2>5. FilesOK(j)'
    BY DEF IInv, Typed, JobInv, FilesOK, TornOK, LoopOK
  <2>6. RowOK(j)'
    BY DEF IInv, Typed, JobInv, RowOK, StatusOK
  <2>7. QED
    BY <2>1, <2>2, <2>3, <2>4, <2>5, <2>6 DEF JobInv
<1>4. ASSUME NEW k \in Jobs, k # j PROVE JobInv(k)'
  <2>1. SameJob(k)
    BY <1>4 DEF IInv, Typed, SameJob
  <2>2. QED
    BY <2>1, JobFrame DEF IInv
<1>5. QED
  BY <1>1, <1>2, <1>3, <1>4 DEF IInv

LEMMA RunSetRunningInv ==
  ASSUME IInv, NEW j \in Jobs, RunSetRunning(j)
  PROVE  IInv'
<1> USE DEF RunSetRunning, rows, work, memory, ops, proc
<1>1. Typed'
  <2>1. TypeRows'
    BY SizeFacts DEF IInv, Typed, TypeRows, JobInv, LoopOK, StatusOK, Status, Open, Terminal, Marks
  <2>2. TypeWork'
    BY SizeFacts DEF IInv, Typed, TypeWork, JobInv, LoopOK, BeforeInsert, AfterInsert, WorkerPc, Terminal
  <2>3. TypeProcess'
    BY DEF IInv, Typed, TypeProcess, LaunchPc
  <2>4. QED
    BY <2>1, <2>2, <2>3 DEF Typed, TypeRows, TypeWork, TypeProcess
<1>2. ASSUME NEW r \in Requests PROVE RequestOK(r)'
  <2>1. Grows /\ SameRequest(r)
    BY SizeFacts DEF IInv, Typed, Grows, SameRequest
  <2>2. QED
    BY <1>1, <2>1, RequestFrame DEF IInv
<1>3. JobInv(j)'
  <2>1. LoopOK(j)'
    BY SizeFacts DEF IInv, Typed, JobInv, LoopOK, StatusOK, BeforeInsert, AfterInsert
  <2>2. StatusOK(j)'
    BY DEF IInv, Typed, JobInv, StatusOK, LoopOK, Status, Open, Terminal, WorkerPc, LaunchPc, OpPc, Marks
  <2>3. ProductOK(j)'
    BY DEF IInv, Typed, JobInv, LoopOK, ProductOK, BeforeInsert, AfterInsert
  <2>4. WholeOK(j)'
    BY DEF IInv, Typed, JobInv, LoopOK, StatusOK, ProductOK, WholeOK
  <2>5. FilesOK(j)'
    BY DEF IInv, Typed, JobInv, FilesOK, TornOK, LoopOK
  <2>6. RowOK(j)'
    BY DEF IInv, Typed, JobInv, RowOK, StatusOK
  <2>7. QED
    BY <2>1, <2>2, <2>3, <2>4, <2>5, <2>6 DEF JobInv
<1>4. ASSUME NEW k \in Jobs, k # j PROVE JobInv(k)'
  <2>1. SameJob(k)
    BY <1>4 DEF IInv, Typed, SameJob
  <2>2. QED
    BY <2>1, JobFrame DEF IInv
<1>5. QED
  BY <1>1, <1>2, <1>3, <1>4 DEF IInv

LEMMA RunLaunchInv ==
  ASSUME IInv, NEW j \in Jobs, RunLaunch(j)
  PROVE  IInv'
<1> USE DEF RunLaunch, rows, work, memory, ops, proc
<1>1. Typed'
  <2>1. TypeRows'
    BY SizeFacts DEF IInv, Typed, TypeRows, JobInv, LoopOK, StatusOK, Status, Open, Terminal, Marks
  <2>2. TypeWork'
    BY SizeFacts DEF IInv, Typed, TypeWork, JobInv, LoopOK, BeforeInsert, AfterInsert, WorkerPc, Terminal
  <2>3. TypeProcess'
    BY DEF IInv, Typed, TypeProcess, LaunchPc
  <2>4. QED
    BY <2>1, <2>2, <2>3 DEF Typed, TypeRows, TypeWork, TypeProcess
<1>2. ASSUME NEW r \in Requests PROVE RequestOK(r)'
  <2>1. Grows /\ SameRequest(r)
    BY SizeFacts DEF IInv, Typed, Grows, SameRequest
  <2>2. QED
    BY <1>1, <2>1, RequestFrame DEF IInv
<1>3. JobInv(j)'
  <2>1. LoopOK(j)'
    BY SizeFacts DEF IInv, Typed, JobInv, LoopOK, StatusOK, BeforeInsert, AfterInsert
  <2>2. StatusOK(j)'
    BY DEF IInv, Typed, JobInv, StatusOK, LoopOK, Status, Open, Terminal, WorkerPc, LaunchPc, OpPc, Marks
  <2>3. ProductOK(j)'
    <3>1. made[j] = 0 /\ Stored(j, 0) = {}
      BY ManifestFacts DEF IInv, JobInv, LoopOK
    <3>2. pc'[j] = "head" /\ UNCHANGED <<assets, files, made, marks>>
      BY DEF IInv, Typed
    <3>3. QED
      BY <3>1, <3>2 DEF ProductOK
  <2>4. WholeOK(j)'
    BY DEF IInv, Typed, JobInv, LoopOK, StatusOK, ProductOK, WholeOK
  <2>5. FilesOK(j)'
    BY DEF IInv, Typed, JobInv, FilesOK, TornOK, LoopOK
  <2>6. RowOK(j)'
    BY DEF IInv, Typed, JobInv, RowOK, StatusOK
  <2>7. QED
    BY <2>1, <2>2, <2>3, <2>4, <2>5, <2>6 DEF JobInv
<1>4. ASSUME NEW k \in Jobs, k # j PROVE JobInv(k)'
  <2>1. SameJob(k)
    BY <1>4 DEF IInv, Typed, SameJob
  <2>2. QED
    BY <2>1, JobFrame DEF IInv
<1>5. QED
  BY <1>1, <1>2, <1>3, <1>4 DEF IInv

LEMMA RunAbortInv ==
  ASSUME IInv, NEW j \in Jobs, RunAbort(j)
  PROVE  IInv'
<1> USE DEF RunAbort, Mark, rows, work, memory, ops, proc
<1>1. Typed'
  <2>1. TypeRows'
    BY SizeFacts DEF IInv, Typed, TypeRows, JobInv, LoopOK, StatusOK, Status, Open, Terminal, Marks
  <2>2. TypeWork'
    BY SizeFacts DEF IInv, Typed, TypeWork, JobInv, LoopOK, BeforeInsert, AfterInsert, WorkerPc, Terminal
  <2>3. TypeProcess'
    BY DEF IInv, Typed, TypeProcess, LaunchPc
  <2>4. QED
    BY <2>1, <2>2, <2>3 DEF Typed, TypeRows, TypeWork, TypeProcess
<1>2. ASSUME NEW r \in Requests PROVE RequestOK(r)'
  <2>1. Grows /\ SameRequest(r)
    BY SizeFacts DEF IInv, Typed, Grows, SameRequest
  <2>2. QED
    BY <1>1, <2>1, RequestFrame DEF IInv
<1>3. JobInv(j)'
  <2>1. LoopOK(j)'
    BY SizeFacts DEF IInv, Typed, JobInv, LoopOK, StatusOK, BeforeInsert, AfterInsert
  <2>2. StatusOK(j)'
    BY DEF IInv, Typed, JobInv, StatusOK, LoopOK, Status, Open, Terminal, WorkerPc, LaunchPc, OpPc, Marks
  <2>3. ProductOK(j)'
    BY DEF IInv, Typed, JobInv, LoopOK, ProductOK, BeforeInsert, AfterInsert
  <2>4. WholeOK(j)'
    BY DEF IInv, Typed, JobInv, LoopOK, StatusOK, ProductOK, WholeOK
  <2>5. FilesOK(j)'
    BY DEF IInv, Typed, JobInv, FilesOK, TornOK, LoopOK
  <2>6. RowOK(j)'
    BY DEF IInv, Typed, JobInv, RowOK, StatusOK
  <2>7. QED
    BY <2>1, <2>2, <2>3, <2>4, <2>5, <2>6 DEF JobInv
<1>4. ASSUME NEW k \in Jobs, k # j PROVE JobInv(k)'
  <2>1. SameJob(k)
    BY <1>4 DEF IInv, Typed, SameJob
  <2>2. QED
    BY <2>1, JobFrame DEF IInv
<1>5. QED
  BY <1>1, <1>2, <1>3, <1>4 DEF IInv

LEMMA WorkerHeadInv ==
  ASSUME IInv, NEW j \in Jobs, WorkerHead(j)
  PROVE  IInv'
<1> USE DEF WorkerHead, Goto, Conclude, rows, work, memory, ops, proc
<1>1. Typed'
  <2>1. TypeRows'
    BY SizeFacts DEF IInv, Typed, TypeRows, JobInv, LoopOK, StatusOK, Status, Open, Terminal, Marks
  <2>2. TypeWork'
    <3>1. CASE UNCHANGED verdict
      BY <3>1 DEF IInv, Typed, TypeWork, WorkerPc
    <3>2. CASE Conclude(j, "canceled") \/ Conclude(j, "completed")
      BY <3>2 DEF IInv, Typed, TypeWork, WorkerPc, Terminal
    <3>3. QED
      BY <3>1, <3>2
  <2>3. TypeProcess'
    BY DEF IInv, Typed, TypeProcess, LaunchPc
  <2>4. QED
    BY <2>1, <2>2, <2>3 DEF Typed, TypeRows, TypeWork, TypeProcess
<1>2. ASSUME NEW r \in Requests PROVE RequestOK(r)'
  <2>1. Grows /\ SameRequest(r)
    BY SizeFacts DEF IInv, Typed, Grows, SameRequest
  <2>2. QED
    BY <1>1, <2>1, RequestFrame DEF IInv
<1>3. JobInv(j)'
  <2>1. LoopOK(j)'
    BY SizeFacts DEF IInv, Typed, JobInv, LoopOK, StatusOK, BeforeInsert, AfterInsert
  <2>2. StatusOK(j)'
    BY DEF IInv, Typed, JobInv, StatusOK, LoopOK, Status, Open, Terminal, WorkerPc, LaunchPc, OpPc, Marks
  <2>3. ProductOK(j)'
    BY DEF IInv, Typed, JobInv, LoopOK, ProductOK, BeforeInsert, AfterInsert
  <2>4. WholeOK(j)'
    BY DEF IInv, Typed, JobInv, LoopOK, StatusOK, ProductOK, WholeOK
  <2>5. FilesOK(j)'
    BY DEF IInv, Typed, JobInv, FilesOK, TornOK, LoopOK
  <2>6. RowOK(j)'
    BY DEF IInv, Typed, JobInv, RowOK, StatusOK
  <2>7. QED
    BY <2>1, <2>2, <2>3, <2>4, <2>5, <2>6 DEF JobInv
<1>4. ASSUME NEW k \in Jobs, k # j PROVE JobInv(k)'
  <2>1. SameJob(k)
    BY <1>4 DEF IInv, Typed, SameJob
  <2>2. QED
    BY <2>1, JobFrame DEF IInv
<1>5. QED
  BY <1>1, <1>2, <1>3, <1>4 DEF IInv

LEMMA SummaryReadInv ==
  ASSUME IInv, NEW j \in Jobs, SummaryRead(j)
  PROVE  IInv'
<1> USE DEF SummaryRead, SummaryBlocked, Goto, rows, work, memory, ops, proc
<1>1. Typed'
  <2>1. TypeRows'
    BY SizeFacts DEF IInv, Typed, TypeRows, JobInv, LoopOK, StatusOK, Status, Open, Terminal, Marks
  <2>2. TypeWork'
    BY SizeFacts DEF IInv, Typed, TypeWork, JobInv, LoopOK, BeforeInsert, AfterInsert, WorkerPc, Terminal
  <2>3. TypeProcess'
    BY DEF IInv, Typed, TypeProcess, LaunchPc
  <2>4. QED
    BY <2>1, <2>2, <2>3 DEF Typed, TypeRows, TypeWork, TypeProcess
<1>2. ASSUME NEW r \in Requests PROVE RequestOK(r)'
  <2>1. Grows /\ SameRequest(r)
    BY SizeFacts DEF IInv, Typed, Grows, SameRequest
  <2>2. QED
    BY <1>1, <2>1, RequestFrame DEF IInv
<1>3. JobInv(j)'
  <2>1. LoopOK(j)'
    BY SizeFacts DEF IInv, Typed, JobInv, LoopOK, StatusOK, BeforeInsert, AfterInsert
  <2>2. StatusOK(j)'
    BY DEF IInv, Typed, JobInv, StatusOK, LoopOK, Status, Open, Terminal, WorkerPc, LaunchPc, OpPc, Marks
  <2>3. ProductOK(j)'
    <3>1. pc[j] \notin {"off", "finish"} /\ pc'[j] \in {"write1", "write2"}
      BY DEF IInv, Typed
    <3>2. UNCHANGED <<assets, files, made, marks>>
      OBVIOUS
    <3>3. QED
      BY <3>1, <3>2 DEF IInv, JobInv, ProductOK
  <2>4. WholeOK(j)'
    BY DEF IInv, Typed, JobInv, LoopOK, StatusOK, ProductOK, WholeOK
  <2>5. FilesOK(j)'
    BY DEF IInv, Typed, JobInv, FilesOK, TornOK, LoopOK
  <2>6. RowOK(j)'
    BY DEF IInv, Typed, JobInv, RowOK, StatusOK
  <2>7. QED
    BY <2>1, <2>2, <2>3, <2>4, <2>5, <2>6 DEF JobInv
<1>4. ASSUME NEW k \in Jobs, k # j PROVE JobInv(k)'
  <2>1. SameJob(k)
    BY <1>4 DEF IInv, Typed, SameJob
  <2>2. QED
    BY <2>1, JobFrame DEF IInv
<1>5. QED
  BY <1>1, <1>2, <1>3, <1>4 DEF IInv

LEMMA SummaryWriteInv ==
  ASSUME IInv, NEW j \in Jobs, SummaryWrite(j)
  PROVE  IInv'
<1> USE DEF SummaryWrite, SummaryBlocked, Goto, rows, work, memory, ops, proc
<1>1. Typed'
  <2>1. TypeRows'
    BY SizeFacts DEF IInv, Typed, TypeRows, JobInv, LoopOK, StatusOK, Status, Open, Terminal, Marks
  <2>2. TypeWork'
    BY SizeFacts DEF IInv, Typed, TypeWork, JobInv, LoopOK, BeforeInsert, AfterInsert, WorkerPc, Terminal
  <2>3. TypeProcess'
    BY DEF IInv, Typed, TypeProcess, LaunchPc
  <2>4. QED
    BY <2>1, <2>2, <2>3 DEF Typed, TypeRows, TypeWork, TypeProcess
<1>2. ASSUME NEW r \in Requests PROVE RequestOK(r)'
  <2>1. Grows /\ SameRequest(r)
    BY SizeFacts DEF IInv, Typed, Grows, SameRequest
  <2>2. QED
    BY <1>1, <2>1, RequestFrame DEF IInv
<1>3. JobInv(j)'
  <2>1. LoopOK(j)'
    BY SizeFacts DEF IInv, Typed, JobInv, LoopOK, StatusOK, BeforeInsert, AfterInsert
  <2>2. StatusOK(j)'
    BY DEF IInv, Typed, JobInv, StatusOK, LoopOK, Status, Open, Terminal, WorkerPc, LaunchPc, OpPc, Marks
  <2>3. ProductOK(j)'
    <3>1. pc[j] \notin {"off", "finish"} /\ pc'[j] \in {"back1", "back2"}
      BY DEF IInv, Typed
    <3>2. UNCHANGED <<assets, files, made, marks>>
      OBVIOUS
    <3>3. QED
      BY <3>1, <3>2 DEF IInv, JobInv, ProductOK
  <2>4. WholeOK(j)'
    BY DEF IInv, Typed, JobInv, LoopOK, StatusOK, ProductOK, WholeOK
  <2>5. FilesOK(j)'
    BY DEF IInv, Typed, JobInv, FilesOK, TornOK, LoopOK
  <2>6. RowOK(j)'
    BY DEF IInv, Typed, JobInv, RowOK, StatusOK
  <2>7. QED
    BY <2>1, <2>2, <2>3, <2>4, <2>5, <2>6 DEF JobInv
<1>4. ASSUME NEW k \in Jobs, k # j PROVE JobInv(k)'
  <2>1. SameJob(k)
    BY <1>4 DEF IInv, Typed, SameJob
  <2>2. QED
    BY <2>1, JobFrame DEF IInv
<1>5. QED
  BY <1>1, <1>2, <1>3, <1>4 DEF IInv

LEMMA SummaryBackInv ==
  ASSUME IInv, NEW j \in Jobs, SummaryBack(j)
  PROVE  IInv'
<1> USE DEF SummaryBack, Goto, rows, work, memory, ops, proc
<1>1. Typed'
  <2>1. TypeRows'
    BY SizeFacts DEF IInv, Typed, TypeRows, JobInv, LoopOK, StatusOK, Status, Open, Terminal, Marks
  <2>2. TypeWork'
    <3>1. CASE pc[j] = "back1"
      BY <3>1 DEF IInv, Typed, TypeWork, WorkerPc
    <3>2. CASE pc[j] = "back2"
      <4>1. idx[j] + 1 \in Nat
        BY <3>2, SizeFacts DEF IInv, Typed, JobInv, LoopOK, AfterInsert
      <4>2. pc' = [pc EXCEPT ![j] = "head"] /\ idx' = [idx EXCEPT ![j] = @ + 1]
        BY <3>2
      <4>3. QED
        BY <4>1, <4>2 DEF IInv, Typed, TypeWork, WorkerPc
    <3>3. QED
      BY <3>1, <3>2
  <2>3. TypeProcess'
    BY DEF IInv, Typed, TypeProcess, LaunchPc
  <2>4. QED
    BY <2>1, <2>2, <2>3 DEF Typed, TypeRows, TypeWork, TypeProcess
<1>2. ASSUME NEW r \in Requests PROVE RequestOK(r)'
  <2>1. Grows /\ SameRequest(r)
    BY SizeFacts DEF IInv, Typed, Grows, SameRequest
  <2>2. QED
    BY <1>1, <2>1, RequestFrame DEF IInv
<1>3. JobInv(j)'
  <2>1. LoopOK(j)'
    BY SizeFacts DEF IInv, Typed, JobInv, LoopOK, StatusOK, BeforeInsert, AfterInsert
  <2>2. StatusOK(j)'
    BY DEF IInv, Typed, JobInv, StatusOK, LoopOK, Status, Open, Terminal, WorkerPc, LaunchPc, OpPc, Marks
  <2>3. ProductOK(j)'
    <3>1. pc[j] \notin {"off", "finish"} /\ pc'[j] \in {"generate", "head"}
      BY DEF IInv, Typed
    <3>2. UNCHANGED <<assets, files, made, marks>> /\ ProductOK(j)
      BY DEF IInv, JobInv
    <3>3. QED
      BY <3>1, <3>2 DEF ProductOK
  <2>4. WholeOK(j)'
    BY DEF IInv, Typed, JobInv, LoopOK, StatusOK, ProductOK, WholeOK
  <2>5. FilesOK(j)'
    BY DEF IInv, Typed, JobInv, FilesOK, TornOK, LoopOK
  <2>6. RowOK(j)'
    BY DEF IInv, Typed, JobInv, RowOK, StatusOK
  <2>7. QED
    BY <2>1, <2>2, <2>3, <2>4, <2>5, <2>6 DEF JobInv
<1>4. ASSUME NEW k \in Jobs, k # j PROVE JobInv(k)'
  <2>1. SameJob(k)
    BY <1>4 DEF IInv, Typed, SameJob
  <2>2. QED
    BY <2>1, JobFrame DEF IInv
<1>5. QED
  BY <1>1, <1>2, <1>3, <1>4 DEF IInv

LEMMA SummaryFailsInv ==
  ASSUME IInv, NEW j \in Jobs, SummaryFails(j)
  PROVE  IInv'
<1> USE DEF SummaryFails, Mark, SummaryPc, Return, Goto, rows, work, memory, ops, proc
<1>1. Typed'
  <2>1. TypeRows'
    BY SizeFacts DEF IInv, Typed, TypeRows, JobInv, LoopOK, StatusOK, Status, Open, Terminal, Marks
  <2>2. TypeWork'
    BY SizeFacts DEF IInv, Typed, TypeWork, JobInv, LoopOK, BeforeInsert, AfterInsert, WorkerPc, Terminal
  <2>3. TypeProcess'
    BY DEF IInv, Typed, TypeProcess, LaunchPc
  <2>4. QED
    BY <2>1, <2>2, <2>3 DEF Typed, TypeRows, TypeWork, TypeProcess
<1>2. ASSUME NEW r \in Requests PROVE RequestOK(r)'
  <2>1. Grows /\ SameRequest(r)
    BY SizeFacts DEF IInv, Typed, Grows, SameRequest
  <2>2. QED
    BY <1>1, <2>1, RequestFrame DEF IInv
<1>3. JobInv(j)'
  <2>1. LoopOK(j)'
    BY SizeFacts DEF IInv, Typed, JobInv, LoopOK, StatusOK, BeforeInsert, AfterInsert
  <2>2. StatusOK(j)'
    BY DEF IInv, Typed, JobInv, StatusOK, LoopOK, Status, Open, Terminal, WorkerPc, LaunchPc, OpPc, Marks
  <2>3. ProductOK(j)'
    BY DEF IInv, Typed, JobInv, LoopOK, ProductOK, BeforeInsert, AfterInsert
  <2>4. WholeOK(j)'
    BY DEF IInv, Typed, JobInv, LoopOK, StatusOK, ProductOK, WholeOK
  <2>5. FilesOK(j)'
    BY DEF IInv, Typed, JobInv, FilesOK, TornOK, LoopOK
  <2>6. RowOK(j)'
    BY DEF IInv, Typed, JobInv, RowOK, StatusOK
  <2>7. QED
    BY <2>1, <2>2, <2>3, <2>4, <2>5, <2>6 DEF JobInv
<1>4. ASSUME NEW k \in Jobs, k # j PROVE JobInv(k)'
  <2>1. SameJob(k)
    BY <1>4 DEF IInv, Typed, SameJob
  <2>2. QED
    BY <2>1, JobFrame DEF IInv
<1>5. QED
  BY <1>1, <1>2, <1>3, <1>4 DEF IInv

LEMMA GenerateInv ==
  ASSUME IInv, NEW j \in Jobs, Generate(j)
  PROVE  IInv'
<1> USE DEF Generate, Goto, Fail, Conclude, rows, work, memory, ops, proc
<1>1. Typed'
  <2>1. TypeRows'
    BY SizeFacts DEF IInv, Typed, TypeRows, JobInv, LoopOK, StatusOK, Status, Open, Terminal, Marks
  <2>2. TypeWork'
    BY SizeFacts DEF IInv, Typed, TypeWork, JobInv, LoopOK, BeforeInsert, AfterInsert, WorkerPc, Terminal
  <2>3. TypeProcess'
    BY DEF IInv, Typed, TypeProcess, LaunchPc
  <2>4. QED
    BY <2>1, <2>2, <2>3 DEF Typed, TypeRows, TypeWork, TypeProcess
<1>2. ASSUME NEW r \in Requests PROVE RequestOK(r)'
  <2>1. Grows /\ SameRequest(r)
    BY SizeFacts DEF IInv, Typed, Grows, SameRequest
  <2>2. QED
    BY <1>1, <2>1, RequestFrame DEF IInv
<1>3. JobInv(j)'
  <2>1. LoopOK(j)'
    BY SizeFacts DEF IInv, Typed, JobInv, LoopOK, StatusOK, BeforeInsert, AfterInsert
  <2>2. StatusOK(j)'
    BY DEF IInv, Typed, JobInv, StatusOK, LoopOK, Status, Open, Terminal, WorkerPc, LaunchPc, OpPc, Marks
  <2>3. ProductOK(j)'
    BY DEF IInv, Typed, JobInv, LoopOK, ProductOK, BeforeInsert, AfterInsert
  <2>4. WholeOK(j)'
    BY DEF IInv, Typed, JobInv, LoopOK, StatusOK, ProductOK, WholeOK
  <2>5. FilesOK(j)'
    BY DEF IInv, Typed, JobInv, FilesOK, TornOK, LoopOK
  <2>6. RowOK(j)'
    BY DEF IInv, Typed, JobInv, RowOK, StatusOK
  <2>7. QED
    BY <2>1, <2>2, <2>3, <2>4, <2>5, <2>6 DEF JobInv
<1>4. ASSUME NEW k \in Jobs, k # j PROVE JobInv(k)'
  <2>1. SameJob(k)
    BY <1>4 DEF IInv, Typed, SameJob
  <2>2. QED
    BY <2>1, JobFrame DEF IInv
<1>5. QED
  BY <1>1, <1>2, <1>3, <1>4 DEF IInv

LEMMA RenderInv ==
  ASSUME IInv, NEW j \in Jobs, Render(j)
  PROVE  IInv'
<1> USE DEF Render, Goto, Fail, Conclude, rows, work, memory, ops, proc
<1>1. Typed'
  <2>1. TypeRows'
    BY SizeFacts DEF IInv, Typed, TypeRows, JobInv, LoopOK, StatusOK, Status, Open, Terminal, Marks
  <2>2. TypeWork'
    BY SizeFacts DEF IInv, Typed, TypeWork, JobInv, LoopOK, BeforeInsert, AfterInsert, WorkerPc, Terminal
  <2>3. TypeProcess'
    BY DEF IInv, Typed, TypeProcess, LaunchPc
  <2>4. QED
    BY <2>1, <2>2, <2>3 DEF Typed, TypeRows, TypeWork, TypeProcess
<1>2. ASSUME NEW r \in Requests PROVE RequestOK(r)'
  <2>1. Grows /\ SameRequest(r)
    BY SizeFacts DEF IInv, Typed, Grows, SameRequest
  <2>2. QED
    BY <1>1, <2>1, RequestFrame DEF IInv
<1>3. JobInv(j)'
  <2>1. LoopOK(j)'
    BY SizeFacts DEF IInv, Typed, JobInv, LoopOK, StatusOK, BeforeInsert, AfterInsert
  <2>2. StatusOK(j)'
    BY DEF IInv, Typed, JobInv, StatusOK, LoopOK, Status, Open, Terminal, WorkerPc, LaunchPc, OpPc, Marks
  <2>3. ProductOK(j)'
    BY DEF IInv, Typed, JobInv, LoopOK, ProductOK, BeforeInsert, AfterInsert
  <2>4. WholeOK(j)'
    BY DEF IInv, Typed, JobInv, LoopOK, StatusOK, ProductOK, WholeOK
  <2>5. FilesOK(j)'
    BY DEF IInv, Typed, JobInv, FilesOK, TornOK, LoopOK
  <2>6. RowOK(j)'
    BY DEF IInv, Typed, JobInv, RowOK, StatusOK
  <2>7. QED
    BY <2>1, <2>2, <2>3, <2>4, <2>5, <2>6 DEF JobInv
<1>4. ASSUME NEW k \in Jobs, k # j PROVE JobInv(k)'
  <2>1. SameJob(k)
    BY <1>4 DEF IInv, Typed, SameJob
  <2>2. QED
    BY <2>1, JobFrame DEF IInv
<1>5. QED
  BY <1>1, <1>2, <1>3, <1>4 DEF IInv

LEMMA StoreFileInv ==
  ASSUME IInv, NEW j \in Jobs, StoreFile(j)
  PROVE  IInv'
<1> USE DEF StoreFile, rows, work, memory, ops, proc
<1>a. /\ idx[j] \in 1..Size(j) /\ Size(j) \in Nat /\ Typed /\ "faulted" \in Marks
      /\ Manifest[j][idx[j]] \in STRING /\ Manifest[j][idx[j]] \in Paths(j)
  BY ManifestFacts DEF IInv, Typed, JobInv, LoopOK, BeforeInsert, Marks
<1>b. /\ files' \in [Jobs -> SUBSET STRING]
      /\ files'[j] \in {files[j], files[j] \cup {Manifest[j][idx[j]]}}
  <2>1. UNCHANGED files \/ files' = [files EXCEPT ![j] = files[j] \cup {Manifest[j][idx[j]]}]
    OBVIOUS
  <2>2. files[j] \cup {Manifest[j][idx[j]]} \in SUBSET STRING
    BY <1>a DEF Typed
  <2>3. QED
    BY <1>a, <2>1, <2>2, FileFacts DEF Typed
<1>c. marks' \in [Jobs -> SUBSET Marks] /\ marks[j] \subseteq marks'[j]
  BY <1>a, MarkFacts
<1>d. \/ /\ Goto(j, "create") /\ pc'[j] = "create" /\ UNCHANGED verdict
         /\ files' = [files EXCEPT ![j] = @ \cup {Manifest[j][idx[j]]}]
      \/ /\ Fail(j) /\ pc'[j] = "finish" /\ verdict'[j] # "completed"
         /\ "faulted" \in marks'[j]
  BY <1>a, FailFacts DEF Typed, Goto, Mark
<1>1. Typed'
  <2>1. TypeRows'
    BY <1>a, <1>b, <1>c DEF Typed, TypeRows
  <2>2. TypeWork'
    <3>1. pc' \in [Jobs -> WorkerPc] /\ verdict' \in [Jobs -> Terminal]
      <4>1. CASE Goto(j, "create") /\ UNCHANGED verdict
        BY <1>a, <4>1 DEF Typed, Goto, WorkerPc
      <4>2. CASE Fail(j)
        BY <1>a, <4>2 DEF Typed, Fail, Conclude, Goto, WorkerPc, Terminal
      <4>3. QED
        BY <1>d, <4>1, <4>2
    <3>2. UNCHANGED <<idx, made, seen>>
      OBVIOUS
    <3>3. QED
      BY <1>a, <3>1, <3>2 DEF Typed, TypeWork
  <2>3. TypeProcess'
    BY DEF IInv, Typed, TypeProcess, LaunchPc, Goto, Fail, Conclude, Mark
  <2>4. QED
    BY <2>1, <2>2, <2>3 DEF Typed, TypeRows, TypeWork, TypeProcess
<1>2. ASSUME NEW r \in Requests PROVE RequestOK(r)'
  <2>1. SameRequest(r)
    BY DEF SameRequest
  <2>2. \A k \in Jobs : k # j => marks'[k] = marks[k]
    BY <1>a, MarkFacts
  <2>3. \A k \in Jobs : made'[k] = made[k] /\ made[k] \in Nat
    BY SizeFacts DEF IInv, Typed
  <2>4. Grows
    BY <1>c, <2>2, <2>3 DEF Grows
  <2>5. QED
    BY <1>1, <2>1, <2>4, RequestFrame DEF IInv
<1>3. JobInv(j)'
  <2>1. LoopOK(j)'
    BY SizeFacts DEF IInv, Typed, JobInv, LoopOK, StatusOK, BeforeInsert, AfterInsert, Goto, Fail, Conclude, Mark
  <2>2. StatusOK(j)'
    BY DEF IInv, Typed, JobInv, StatusOK, LoopOK, Status, Open, Terminal, WorkerPc, LaunchPc, OpPc, Marks, Goto, Fail, Conclude, Mark
  <2>3. ProductOK(j)'
    BY <1>a, <1>b, <1>c, <1>d DEF IInv, Typed, JobInv, ProductOK
  <2>4. WholeOK(j)'
    BY DEF IInv, Typed, JobInv, LoopOK, StatusOK, ProductOK, WholeOK, Goto, Fail, Conclude, Mark
  <2>5. FilesOK(j)'
    BY <1>a, <1>b, <1>c, <1>d DEF IInv, JobInv, FilesOK, TornOK
  <2>6. RowOK(j)'
    BY DEF IInv, Typed, JobInv, RowOK, StatusOK, Goto, Fail, Conclude, Mark
  <2>7. QED
    BY <2>1, <2>2, <2>3, <2>4, <2>5, <2>6 DEF JobInv
<1>4. ASSUME NEW k \in Jobs, k # j PROVE JobInv(k)'
  <2>1. SameJob(k)
    BY <1>4 DEF IInv, Typed, SameJob, Goto, Fail, Conclude, Mark
  <2>2. QED
    BY <2>1, JobFrame DEF IInv
<1>5. QED
  BY <1>1, <1>2, <1>3, <1>4 DEF IInv

LEMMA CreateAssetInv ==
  ASSUME IInv, NEW j \in Jobs, CreateAsset(j)
  PROVE  IInv'
<1> USE DEF CreateAsset, Goto, InsertOK, rows, work, memory, ops, proc
<1>a. /\ idx[j] \in 1..Size(j) /\ Size(j) \in Nat /\ Typed /\ "faulted" \in Marks
      /\ Manifest[j][idx[j]] \in STRING /\ Manifest[j][idx[j]] \in Paths(j)
  BY ManifestFacts DEF IInv, Typed, JobInv, LoopOK, BeforeInsert, Marks
<1>b. /\ assets' \in [Jobs -> SUBSET STRING] /\ assets[j] \subseteq assets'[j]
      /\ assets'[j] \subseteq assets[j] \cup {Manifest[j][idx[j]]}
      /\ pc' \in [Jobs -> WorkerPc]
      /\ (pc'[j] = "back" /\ Manifest[j][idx[j]] \in assets'[j]) \/ pc'[j] = "cleanup"
  <2>1. CASE /\ assets' = [assets EXCEPT ![j] = @ \cup {Manifest[j][idx[j]]}]
             /\ pc' = [pc EXCEPT ![j] = "back"]
    BY <1>a, <2>1 DEF Typed, WorkerPc
  <2>2. CASE UNCHANGED assets /\ pc' = [pc EXCEPT ![j] = "cleanup"]
    BY <1>a, <2>2 DEF Typed, WorkerPc
  <2>3. QED
    BY <2>1, <2>2
<1>1. Typed'
  <2>1. TypeRows'
    BY <1>a, <1>b DEF Typed, TypeRows
  <2>2. TypeWork'
    BY <1>a, <1>b DEF Typed, TypeWork
  <2>3. TypeProcess'
    BY DEF IInv, Typed, TypeProcess, LaunchPc
  <2>4. QED
    BY <2>1, <2>2, <2>3 DEF Typed, TypeRows, TypeWork, TypeProcess
<1>2. ASSUME NEW r \in Requests PROVE RequestOK(r)'
  <2>1. Grows /\ SameRequest(r)
    BY SizeFacts DEF IInv, Typed, Grows, SameRequest
  <2>2. QED
    BY <1>1, <2>1, RequestFrame DEF IInv
<1>3. JobInv(j)'
  <2>1. LoopOK(j)'
    BY SizeFacts DEF IInv, Typed, JobInv, LoopOK, StatusOK, BeforeInsert, AfterInsert
  <2>2. StatusOK(j)'
    BY DEF IInv, Typed, JobInv, StatusOK, LoopOK, Status, Open, Terminal, WorkerPc, LaunchPc, OpPc, Marks
  <2>3. ProductOK(j)'
    BY <1>b DEF IInv, JobInv, ProductOK
  <2>4. WholeOK(j)'
    BY DEF IInv, Typed, JobInv, LoopOK, StatusOK, ProductOK, WholeOK
  <2>5. FilesOK(j)'
    BY <1>a, <1>b DEF IInv, Typed, JobInv, FilesOK, TornOK
  <2>6. RowOK(j)'
    BY DEF IInv, Typed, JobInv, RowOK, StatusOK
  <2>7. QED
    BY <2>1, <2>2, <2>3, <2>4, <2>5, <2>6 DEF JobInv
<1>4. ASSUME NEW k \in Jobs, k # j PROVE JobInv(k)'
  <2>1. SameJob(k)
    BY <1>4 DEF IInv, Typed, SameJob
  <2>2. QED
    BY <2>1, JobFrame DEF IInv
<1>5. QED
  BY <1>1, <1>2, <1>3, <1>4 DEF IInv

LEMMA AssetBackInv ==
  ASSUME IInv, NEW j \in Jobs, AssetBack(j)
  PROVE  IInv'
<1> USE DEF AssetBack, rows, work, memory, ops, proc
<1>a. /\ idx[j] \in 1..Size(j) /\ Size(j) \in Nat /\ Typed /\ "faulted" \in Marks
      /\ Manifest[j][idx[j]] \in STRING /\ Manifest[j][idx[j]] \in Paths(j)
  BY ManifestFacts DEF IInv, Typed, JobInv, LoopOK, BeforeInsert, Marks
<1>b. /\ made[j] = idx[j] - 1 /\ made[j] + 1 \in Nat
      /\ Stored(j, made[j] + 1) = Stored(j, made[j]) \cup {Manifest[j][idx[j]]}
  BY <1>a, ManifestFacts DEF IInv, Typed, JobInv, LoopOK, BeforeInsert
<1>c. marks' \in [Jobs -> SUBSET Marks] /\ marks[j] \subseteq marks'[j]
      /\ \A k \in Jobs : k # j => marks'[k] = marks[k]
  BY <1>a, MarkFacts
<1>d. \/ made' = [made EXCEPT ![j] = @ + 1] /\ pc' = [pc EXCEPT ![j] = "read2"]
      \/ UNCHANGED made /\ pc' = [pc EXCEPT ![j] = "cleanup"]
  BY DEF Goto
<1>e. /\ made' \in [Jobs -> Nat] /\ pc' \in [Jobs -> WorkerPc] /\ made[j] <= made'[j]
      /\ \A k \in Jobs : k # j => made'[k] = made[k]
      /\ \/ made'[j] = made[j] + 1 /\ pc'[j] = "read2"
         \/ made'[j] = made[j] /\ pc'[j] = "cleanup"
  <2>1. CASE made' = [made EXCEPT ![j] = @ + 1] /\ pc' = [pc EXCEPT ![j] = "read2"]
    <3>1. /\ made' \in [Jobs -> Nat] /\ made'[j] = made[j] + 1
          /\ \A k \in Jobs : k # j => made'[k] = made[k]
      BY <1>a, <1>b, <2>1 DEF Typed
    <3>2. pc' \in [Jobs -> WorkerPc] /\ pc'[j] = "read2"
      BY <1>a, <2>1 DEF Typed, WorkerPc
    <3>3. QED
      BY <1>a, <3>1, <3>2, SizeFacts DEF Typed
  <2>2. CASE UNCHANGED made /\ pc' = [pc EXCEPT ![j] = "cleanup"]
    BY <1>a, <2>2, SizeFacts DEF Typed, WorkerPc
  <2>3. QED
    BY <1>d, <2>1, <2>2
<1>1. Typed'
  <2>1. TypeRows'
    BY <1>a, <1>c DEF Typed, TypeRows
  <2>2. TypeWork'
    BY <1>a, <1>e DEF Typed, TypeWork
  <2>3. TypeProcess'
    BY DEF IInv, Typed, TypeProcess, LaunchPc, Goto, Mark
  <2>4. QED
    BY <2>1, <2>2, <2>3 DEF Typed, TypeRows, TypeWork, TypeProcess
<1>2. ASSUME NEW r \in Requests PROVE RequestOK(r)'
  <2>1. Grows /\ SameRequest(r)
    <3>1. \A k \in Jobs : made[k] <= made'[k]
      <4> HIDE DEF AssetBack, rows, work, memory, ops, proc
      <4>1. \A k \in Jobs : made[k] \in Nat
        BY <1>a DEF Typed
      <4>2. \A n \in Nat : n <= n
        BY ManifestFacts
      <4>3. SUFFICES ASSUME NEW k \in Jobs PROVE made[k] <= made'[k]
        OBVIOUS
      <4>4. CASE k = j
        BY <1>e, <4>4
      <4>5. CASE k # j
        BY <1>e, <4>1, <4>2, <4>5
      <4>6. QED
        BY <4>4, <4>5
    <3>2. \A k \in Jobs : marks[k] \subseteq marks'[k]
      BY <1>c
    <3>3. SameRequest(r)
      BY DEF SameRequest
    <3>4. QED
      BY <3>1, <3>2, <3>3 DEF Grows
  <2>2. QED
    BY <1>1, <2>1, RequestFrame DEF IInv
<1>3. JobInv(j)'
  <2>1. LoopOK(j)'
    BY SizeFacts DEF IInv, Typed, JobInv, LoopOK, StatusOK, BeforeInsert, AfterInsert, Goto, Mark
  <2>2. StatusOK(j)'
    BY DEF IInv, Typed, JobInv, StatusOK, LoopOK, Status, Open, Terminal, WorkerPc, LaunchPc, OpPc, Marks, Goto, Mark
  <2>3. ProductOK(j)'
    <3> SUFFICES ASSUME "purged" \notin marks'[j] PROVE ProductOK(j)'
      BY DEF ProductOK
    <3>1. /\ Stored(j, made[j]) \subseteq assets[j] /\ Stored(j, made[j]) \subseteq files[j]
          /\ Manifest[j][idx[j]] \in assets[j] /\ Manifest[j][idx[j]] \in files[j]
      BY <1>c DEF IInv, JobInv, ProductOK
    <3>2. UNCHANGED <<assets, files>>
      OBVIOUS
    <3>3. QED
      BY <1>b, <1>e, <3>1, <3>2 DEF ProductOK
  <2>4. WholeOK(j)'
    BY DEF IInv, Typed, JobInv, LoopOK, StatusOK, ProductOK, WholeOK, Goto, Mark
  <2>5. FilesOK(j)'
    <3>0. assets[j] \subseteq Paths(j) /\ files[j] \subseteq Paths(j) /\ UNCHANGED <<assets, files>>
      BY DEF IInv, JobInv, FilesOK
    <3> SUFFICES ASSUME marks'[j] \cap {"purged", "faulted", "interrupted"} = {}
                 PROVE  FilesOK(j)'
      BY <3>0 DEF FilesOK, TornOK
    <3>1. "purged" \notin marks[j] /\ "faulted" \notin marks'[j]
      BY <1>c
    <3>2. Manifest[j][idx[j]] \in assets[j] /\ files[j] \subseteq assets[j]
      BY <1>c, <3>1 DEF IInv, JobInv, ProductOK, FilesOK, TornOK
    <3>3. QED
      BY <3>0, <3>2 DEF FilesOK, TornOK
  <2>6. RowOK(j)'
    BY DEF IInv, Typed, JobInv, RowOK, StatusOK, Goto, Mark
  <2>7. QED
    BY <2>1, <2>2, <2>3, <2>4, <2>5, <2>6 DEF JobInv
<1>4. ASSUME NEW k \in Jobs, k # j PROVE JobInv(k)'
  <2>1. SameJob(k)
    BY <1>4 DEF IInv, Typed, SameJob, Goto, Mark
  <2>2. QED
    BY <2>1, JobFrame DEF IInv
<1>5. QED
  BY <1>1, <1>2, <1>3, <1>4 DEF IInv

LEMMA CleanupStoredFileInv ==
  ASSUME IInv, NEW j \in Jobs, CleanupStoredFile(j)
  PROVE  IInv'
<1> USE DEF CleanupStoredFile, rows, work, memory, ops, proc
<1>a. /\ idx[j] \in 1..Size(j) /\ Size(j) \in Nat /\ Typed /\ "faulted" \in Marks
      /\ Manifest[j][idx[j]] \in STRING /\ Manifest[j][idx[j]] \in Paths(j)
  BY ManifestFacts DEF IInv, Typed, JobInv, LoopOK, BeforeInsert, Marks
<1>b. /\ files' \in [Jobs -> SUBSET STRING]
      /\ \/ files'[j] = files[j] \ {Manifest[j][idx[j]]}
         \/ files'[j] = files[j] /\ "faulted" \in marks'[j]
  <2>1. CASE UNCHANGED files /\ Mark(j, "faulted")
    BY <1>a, <2>1 DEF Typed, Mark
  <2>2. CASE files' = [files EXCEPT ![j] = @ \ {Manifest[j][idx[j]]}]
    <3>1. files' = [files EXCEPT ![j] = files[j] \ {Manifest[j][idx[j]]}]
      BY <2>2
    <3>2. files[j] \ {Manifest[j][idx[j]]} \in SUBSET STRING
      BY <1>a DEF Typed
    <3>3. QED
      BY <1>a, <3>1, <3>2, FileFacts
  <2>3. QED
    BY <2>1, <2>2
<1>c. marks' \in [Jobs -> SUBSET Marks] /\ marks[j] \subseteq marks'[j]
  BY <1>a, MarkFacts
<1>1. Typed'
  <2>1. TypeRows'
    BY <1>a, <1>b, <1>c DEF Typed, TypeRows
  <2>2. TypeWork'
    BY SizeFacts DEF IInv, Typed, TypeWork, JobInv, LoopOK, BeforeInsert, AfterInsert, WorkerPc, Terminal, Goto, Fail, Conclude, Mark
  <2>3. TypeProcess'
    BY DEF IInv, Typed, TypeProcess, LaunchPc, Goto, Fail, Conclude, Mark
  <2>4. QED
    BY <2>1, <2>2, <2>3 DEF Typed, TypeRows, TypeWork, TypeProcess
<1>2. ASSUME NEW r \in Requests PROVE RequestOK(r)'
  <2>1. Grows /\ SameRequest(r)
    BY SizeFacts DEF IInv, Typed, Grows, SameRequest, Goto, Fail, Conclude, Mark
  <2>2. QED
    BY <1>1, <2>1, RequestFrame DEF IInv
<1>3. JobInv(j)'
  <2>1. LoopOK(j)'
    BY SizeFacts DEF IInv, Typed, JobInv, LoopOK, StatusOK, BeforeInsert, AfterInsert, Goto, Fail, Conclude, Mark
  <2>2. StatusOK(j)'
    BY DEF IInv, Typed, JobInv, StatusOK, LoopOK, Status, Open, Terminal, WorkerPc, LaunchPc, OpPc, Marks, Goto, Fail, Conclude, Mark
  <2>3. ProductOK(j)'
    BY DEF IInv, Typed, JobInv, LoopOK, ProductOK, BeforeInsert, AfterInsert, Goto, Fail, Conclude, Mark
  <2>4. WholeOK(j)'
    BY DEF IInv, Typed, JobInv, LoopOK, StatusOK, ProductOK, WholeOK, Goto, Fail, Conclude, Mark
  <2>5. FilesOK(j)'
    BY <1>b, <1>c DEF IInv, JobInv, FilesOK, TornOK
  <2>6. RowOK(j)'
    BY DEF IInv, Typed, JobInv, RowOK, StatusOK, Goto, Fail, Conclude, Mark
  <2>7. QED
    BY <2>1, <2>2, <2>3, <2>4, <2>5, <2>6 DEF JobInv
<1>4. ASSUME NEW k \in Jobs, k # j PROVE JobInv(k)'
  <2>1. SameJob(k)
    BY <1>4 DEF IInv, Typed, SameJob, Goto, Fail, Conclude, Mark
  <2>2. QED
    BY <2>1, JobFrame DEF IInv
<1>5. QED
  BY <1>1, <1>2, <1>3, <1>4 DEF IInv

LEMMA FinishInv ==
  ASSUME IInv, NEW j \in Jobs, Finish(j)
  PROVE  IInv'
<1> USE DEF Finish, rows, work, memory, ops, proc
<1>a. Typed /\ verdict[j] \in Terminal /\ made[j] \in Nat
  BY DEF IInv, Typed
<1>b. /\ status' \in [Jobs -> Status] /\ count' \in [Jobs -> Nat]
      /\ marks' \in [Jobs -> SUBSET Marks] /\ marks[j] \subseteq marks'[j]
      /\ \/ status'[j] = status[j] /\ count'[j] = count[j]
         \/ status[j] \in Open /\ status'[j] = verdict[j] /\ count'[j] = made[j]
      /\ \A k \in Jobs : k # j => /\ marks'[k] = marks[k] /\ status'[k] = status[k]
                                  /\ count'[k] = count[k]
  <2>1. CASE SetTerminal(j, verdict[j], made[j])
    BY <1>a, <2>1, SetTerminalFacts
  <2>2. CASE Mark(j, "dropped") /\ UNCHANGED <<status, count>>
    BY <1>a, <2>2, MarkFacts DEF Typed, Marks
  <2>3. QED
    BY <2>1, <2>2
<1>1. Typed'
  <2>1. TypeRows'
    BY <1>a, <1>b DEF Typed, TypeRows
  <2>2. TypeWork'
    BY SizeFacts DEF IInv, Typed, TypeWork, JobInv, LoopOK, BeforeInsert, AfterInsert, WorkerPc, Terminal, SetTerminal, Updatable, Return, Goto, Mark
  <2>3. TypeProcess'
    BY DEF IInv, Typed, TypeProcess, LaunchPc, SetTerminal, Updatable, Return, Goto, Mark
  <2>4. QED
    BY <2>1, <2>2, <2>3 DEF Typed, TypeRows, TypeWork, TypeProcess
<1>2. ASSUME NEW r \in Requests PROVE RequestOK(r)'
  <2>1. Grows /\ SameRequest(r)
    <3>1. UNCHANGED made
      OBVIOUS
    <3>2. \A k \in Jobs : marks[k] \subseteq marks'[k]
      BY <1>b
    <3>3. \A k \in Jobs : made[k] <= made'[k]
      BY <1>a, <3>1, SizeFacts DEF Typed
    <3>4. QED
      BY <3>2, <3>3 DEF Grows, SameRequest
  <2>2. QED
    BY <1>1, <2>1, RequestFrame DEF IInv
<1>3. JobInv(j)'
  <2>1. LoopOK(j)'
    BY SizeFacts DEF IInv, Typed, JobInv, LoopOK, StatusOK, BeforeInsert, AfterInsert, SetTerminal, Updatable, Return, Goto, Mark
  <2>2. StatusOK(j)'
    BY DEF IInv, Typed, JobInv, StatusOK, LoopOK, Status, Open, Terminal, WorkerPc, LaunchPc, OpPc, Marks, SetTerminal, Updatable, Return, Goto, Mark
  <2>3. ProductOK(j)'
    BY DEF IInv, Typed, JobInv, LoopOK, ProductOK, BeforeInsert, AfterInsert, SetTerminal, Updatable, Return, Goto, Mark
  <2>4. WholeOK(j)'
    <3> SUFFICES ASSUME status'[j] = "completed", "purged" \notin marks'[j]
                 PROVE  WholeOK(j)'
      BY DEF WholeOK
    <3>1. CASE status'[j] = status[j] /\ count'[j] = count[j]
      BY <1>b, <3>1 DEF IInv, JobInv, WholeOK
    <3>2. CASE verdict[j] = "completed" /\ count'[j] = made[j]
      <4>1. made[j] = Size(j) /\ Stored(j, Size(j)) \subseteq assets[j] /\ Stored(j, Size(j)) \subseteq files[j]
        BY <1>b, <3>2 DEF IInv, JobInv, LoopOK, ProductOK
      <4>2. assets[j] \subseteq Paths(j) /\ files[j] \subseteq Paths(j) /\ Stored(j, Size(j)) = Paths(j)
        BY ManifestFacts DEF IInv, JobInv, FilesOK
      <4>3. UNCHANGED <<assets, files>>
        OBVIOUS
      <4>4. assets'[j] = Paths(j) /\ files'[j] = Paths(j) /\ count'[j] = Size(j)
        <5> HIDE DEF Finish, rows, work, memory, ops, proc
        <5>1. assets[j] = Paths(j) /\ files[j] = Paths(j)
          BY <4>1, <4>2
        <5>2. QED
          BY <3>2, <4>1, <4>3, <5>1
      <4>5. QED
        BY <4>4 DEF WholeOK
    <3>3. QED
      BY <1>b, <3>1, <3>2
  <2>5. FilesOK(j)'
    BY DEF IInv, Typed, JobInv, FilesOK, TornOK, LoopOK, SetTerminal, Updatable, Return, Goto, Mark
  <2>6. RowOK(j)'
    BY <1>a, <1>b DEF IInv, JobInv, RowOK, StatusOK, Terminal
  <2>7. QED
    BY <2>1, <2>2, <2>3, <2>4, <2>5, <2>6 DEF JobInv
<1>4. ASSUME NEW k \in Jobs, k # j PROVE JobInv(k)'
  <2>1. SameJob(k)
    BY <1>4, <1>b DEF IInv, Typed, SameJob, Return, Goto
  <2>2. QED
    BY <2>1, JobFrame DEF IInv
<1>5. QED
  BY <1>1, <1>2, <1>3, <1>4 DEF IInv

LEMMA CreateDeploymentInv ==
  ASSUME IInv, NEW j \in Jobs, CreateDeployment(j)
  PROVE  IInv'
<1> USE DEF CreateDeployment, rows, work, memory, ops, proc
<1>1. Typed'
  <2>1. TypeRows'
    BY SizeFacts DEF IInv, Typed, TypeRows, JobInv, LoopOK, StatusOK, Status, Open, Terminal, Marks
  <2>2. TypeWork'
    BY SizeFacts DEF IInv, Typed, TypeWork, JobInv, LoopOK, BeforeInsert, AfterInsert, WorkerPc, Terminal
  <2>3. TypeProcess'
    BY DEF IInv, Typed, TypeProcess, LaunchPc
  <2>4. QED
    BY <2>1, <2>2, <2>3 DEF Typed, TypeRows, TypeWork, TypeProcess
<1>2. ASSUME NEW r \in Requests PROVE RequestOK(r)'
  <2>1. Grows /\ SameRequest(r)
    BY SizeFacts DEF IInv, Typed, Grows, SameRequest
  <2>2. QED
    BY <1>1, <2>1, RequestFrame DEF IInv
<1>3. JobInv(j)'
  <2>1. LoopOK(j)'
    BY SizeFacts DEF IInv, Typed, JobInv, LoopOK, StatusOK, BeforeInsert, AfterInsert
  <2>2. StatusOK(j)'
    BY DEF IInv, Typed, JobInv, StatusOK, LoopOK, Status, Open, Terminal, WorkerPc, LaunchPc, OpPc, Marks
  <2>3. ProductOK(j)'
    BY DEF IInv, Typed, JobInv, LoopOK, ProductOK, BeforeInsert, AfterInsert
  <2>4. WholeOK(j)'
    BY DEF IInv, Typed, JobInv, LoopOK, StatusOK, ProductOK, WholeOK
  <2>5. FilesOK(j)'
    BY DEF IInv, Typed, JobInv, FilesOK, TornOK, LoopOK
  <2>6. RowOK(j)'
    BY DEF IInv, Typed, JobInv, RowOK, StatusOK
  <2>7. QED
    BY <2>1, <2>2, <2>3, <2>4, <2>5, <2>6 DEF JobInv
<1>4. ASSUME NEW k \in Jobs, k # j PROVE JobInv(k)'
  <2>1. SameJob(k)
    BY <1>4 DEF IInv, Typed, SameJob
  <2>2. QED
    BY <2>1, JobFrame DEF IInv
<1>5. QED
  BY <1>1, <1>2, <1>3, <1>4 DEF IInv

LEMMA DeleteDeploymentInv ==
  ASSUME IInv, NEW j \in Jobs, DeleteDeployment(j)
  PROVE  IInv'
<1> USE DEF DeleteDeployment, rows, work, memory, ops, proc
<1>1. Typed'
  <2>1. TypeRows'
    BY SizeFacts DEF IInv, Typed, TypeRows, JobInv, LoopOK, StatusOK, Status, Open, Terminal, Marks
  <2>2. TypeWork'
    BY SizeFacts DEF IInv, Typed, TypeWork, JobInv, LoopOK, BeforeInsert, AfterInsert, WorkerPc, Terminal
  <2>3. TypeProcess'
    BY DEF IInv, Typed, TypeProcess, LaunchPc
  <2>4. QED
    BY <2>1, <2>2, <2>3 DEF Typed, TypeRows, TypeWork, TypeProcess
<1>2. ASSUME NEW r \in Requests PROVE RequestOK(r)'
  <2>1. Grows /\ SameRequest(r)
    BY SizeFacts DEF IInv, Typed, Grows, SameRequest
  <2>2. QED
    BY <1>1, <2>1, RequestFrame DEF IInv
<1>3. JobInv(j)'
  <2>1. LoopOK(j)'
    BY SizeFacts DEF IInv, Typed, JobInv, LoopOK, StatusOK, BeforeInsert, AfterInsert
  <2>2. StatusOK(j)'
    BY DEF IInv, Typed, JobInv, StatusOK, LoopOK, Status, Open, Terminal, WorkerPc, LaunchPc, OpPc, Marks
  <2>3. ProductOK(j)'
    BY DEF IInv, Typed, JobInv, LoopOK, ProductOK, BeforeInsert, AfterInsert
  <2>4. WholeOK(j)'
    BY DEF IInv, Typed, JobInv, LoopOK, StatusOK, ProductOK, WholeOK
  <2>5. FilesOK(j)'
    BY DEF IInv, Typed, JobInv, FilesOK, TornOK, LoopOK
  <2>6. RowOK(j)'
    BY DEF IInv, Typed, JobInv, RowOK, StatusOK
  <2>7. QED
    BY <2>1, <2>2, <2>3, <2>4, <2>5, <2>6 DEF JobInv
<1>4. ASSUME NEW k \in Jobs, k # j PROVE JobInv(k)'
  <2>1. SameJob(k)
    BY <1>4 DEF IInv, Typed, SameJob
  <2>2. QED
    BY <2>1, JobFrame DEF IInv
<1>5. QED
  BY <1>1, <1>2, <1>3, <1>4 DEF IInv

LEMMA CancelWriteInv ==
  ASSUME IInv, NEW r \in Requests, CancelWrite(r)
  PROVE  IInv'
<1> USE DEF CancelWrite, rows, work, memory, ops, proc
<1>0. PICK j \in Jobs : j = opJob[r]
  BY DEF IInv, RequestOK
<1>a. Typed /\ "canceled" \in Terminal /\ opCount[r] \in Nat
  BY DEF IInv, Typed, Terminal
<1>b. /\ status' \in [Jobs -> Status] /\ count' \in [Jobs -> Nat]
      /\ marks' \in [Jobs -> SUBSET Marks] /\ marks[j] \subseteq marks'[j]
      /\ \A k \in Jobs : k # j => marks'[k] = marks[k]
  BY <1>0, <1>a, SetTerminalFacts
<1>1. Typed'
  <2>1. TypeRows'
    BY <1>a, <1>b DEF Typed, TypeRows
  <2>2. TypeWork'
    BY DEF IInv, Typed, TypeWork, SetTerminal, Updatable, Proceed, End, Begin
  <2>3. TypeProcess'
    <3>1. CASE Proceed(r, "cancelSignal")
      BY <1>a, <3>1 DEF Typed, TypeProcess, OpPc, Proceed
    <3>2. CASE End(r)
      BY <1>a, <3>2, SizeFacts DEF Typed, TypeProcess, OpPc, End, Begin
    <3>3. QED
      BY <3>1, <3>2
  <2>4. QED
    BY <2>1, <2>2, <2>3 DEF Typed, TypeRows, TypeWork, TypeProcess
<1>2. ASSUME NEW q \in Requests, q # r PROVE RequestOK(q)'
  <2>1. Grows /\ SameRequest(q)
    <3>1. Grows
      <4>1. UNCHANGED made
        OBVIOUS
      <4>2. \A k \in Jobs : marks[k] \subseteq marks'[k]
        BY <1>b
      <4>3. \A k \in Jobs : made[k] <= made'[k]
        BY <1>a, <4>1, SizeFacts DEF Typed
      <4>4. QED
        BY <4>2, <4>3 DEF Grows
    <3>2. SameRequest(q)
      BY <1>a, <1>2 DEF Typed, SameRequest, Proceed, End, Begin
    <3>3. QED
      BY <3>1, <3>2
  <2>2. QED
    BY <1>1, <2>1, RequestFrame DEF IInv
<1>3. RequestOK(r)'
  BY <1>0 DEF IInv, Typed, RequestOK, Marks, SetTerminal, Updatable, Proceed, End, Begin
<1>4. JobInv(j)'
  <2>1. LoopOK(j)'
    BY <1>0, SizeFacts DEF IInv, Typed, JobInv, LoopOK, RequestOK, BeforeInsert, AfterInsert, SetTerminal, Updatable, Proceed, End, Begin
  <2>2. StatusOK(j)'
    BY <1>0 DEF IInv, Typed, JobInv, StatusOK, LoopOK, RequestOK, Status, Open, Terminal, WorkerPc, LaunchPc, OpPc, Marks, SetTerminal, Updatable, Proceed, End, Begin
  <2>3. ProductOK(j)'
    BY <1>0 DEF IInv, Typed, JobInv, RequestOK, ProductOK, SetTerminal, Updatable, Proceed, End, Begin
  <2>4. WholeOK(j)'
    BY <1>0 DEF IInv, Typed, JobInv, RequestOK, WholeOK, SetTerminal, Updatable, Proceed, End, Begin
  <2>5. FilesOK(j)'
    BY <1>0 DEF IInv, Typed, JobInv, RequestOK, FilesOK, TornOK, SetTerminal, Updatable, Proceed, End, Begin
  <2>6. RowOK(j)'
    BY <1>0 DEF IInv, Typed, JobInv, RowOK, SetTerminal, Updatable, Proceed, End, Begin
  <2>7. QED
    BY <2>1, <2>2, <2>3, <2>4, <2>5, <2>6 DEF JobInv
<1>5. ASSUME NEW k \in Jobs, k # j PROVE JobInv(k)'
  <2>1. SameJob(k)
    BY <1>0, <1>5 DEF IInv, Typed, SameJob, SetTerminal, Updatable, Proceed, End, Begin
  <2>2. QED
    BY <2>1, JobFrame DEF IInv
<1>6. QED
  BY <1>1, <1>2, <1>3, <1>4, <1>5 DEF IInv

LEMMA CancelSignalInv ==
  ASSUME IInv, NEW r \in Requests, CancelSignal(r)
  PROVE  IInv'
<1> USE DEF CancelSignal, End, Begin, rows, work, memory, ops, proc
<1>0. PICK j \in Jobs : j = opJob[r]
  BY DEF IInv, RequestOK
<1>1. Typed'
  <2>1. TypeRows'
    BY <1>0, SizeFacts DEF IInv, Typed, TypeRows, Status, Terminal, Marks
  <2>2. TypeWork'
    BY DEF IInv, Typed, TypeWork
  <2>3. TypeProcess'
    BY SizeFacts DEF IInv, Typed, TypeProcess, OpPc
  <2>4. QED
    BY <2>1, <2>2, <2>3 DEF Typed, TypeRows, TypeWork, TypeProcess
<1>2. ASSUME NEW q \in Requests, q # r PROVE RequestOK(q)'
  <2>1. Grows /\ SameRequest(q)
    BY <1>0, <1>2, SizeFacts DEF IInv, Typed, Grows, SameRequest
  <2>2. QED
    BY <1>1, <2>1, RequestFrame DEF IInv
<1>3. RequestOK(r)'
  BY <1>0 DEF IInv, Typed, RequestOK, Marks
<1>4. JobInv(j)'
  <2>1. LoopOK(j)'
    BY <1>0, SizeFacts DEF IInv, Typed, JobInv, LoopOK, RequestOK, BeforeInsert, AfterInsert
  <2>2. StatusOK(j)'
    BY <1>0 DEF IInv, Typed, JobInv, StatusOK, LoopOK, RequestOK, Status, Open, Terminal, WorkerPc, LaunchPc, OpPc, Marks
  <2>3. ProductOK(j)'
    BY <1>0 DEF IInv, Typed, JobInv, RequestOK, ProductOK
  <2>4. WholeOK(j)'
    BY <1>0 DEF IInv, Typed, JobInv, RequestOK, WholeOK
  <2>5. FilesOK(j)'
    BY <1>0 DEF IInv, Typed, JobInv, RequestOK, FilesOK, TornOK
  <2>6. RowOK(j)'
    BY <1>0 DEF IInv, Typed, JobInv, RowOK
  <2>7. QED
    BY <2>1, <2>2, <2>3, <2>4, <2>5, <2>6 DEF JobInv
<1>5. ASSUME NEW k \in Jobs, k # j PROVE JobInv(k)'
  <2>1. SameJob(k)
    BY <1>0, <1>5 DEF IInv, Typed, SameJob
  <2>2. QED
    BY <2>1, JobFrame DEF IInv
<1>6. QED
  BY <1>1, <1>2, <1>3, <1>4, <1>5 DEF IInv

LEMMA CancelFailsInv ==
  ASSUME IInv, NEW r \in Requests, CancelFails(r)
  PROVE  IInv'
<1> USE DEF CancelFails, End, Begin, rows, work, memory, ops, proc
<1>0. PICK j \in Jobs : j = opJob[r]
  BY DEF IInv, RequestOK
<1>1. Typed'
  <2>1. TypeRows'
    BY <1>0, SizeFacts DEF IInv, Typed, TypeRows, Status, Terminal, Marks
  <2>2. TypeWork'
    BY DEF IInv, Typed, TypeWork
  <2>3. TypeProcess'
    BY SizeFacts DEF IInv, Typed, TypeProcess, OpPc
  <2>4. QED
    BY <2>1, <2>2, <2>3 DEF Typed, TypeRows, TypeWork, TypeProcess
<1>2. ASSUME NEW q \in Requests, q # r PROVE RequestOK(q)'
  <2>1. Grows /\ SameRequest(q)
    BY <1>0, <1>2, SizeFacts DEF IInv, Typed, Grows, SameRequest
  <2>2. QED
    BY <1>1, <2>1, RequestFrame DEF IInv
<1>3. RequestOK(r)'
  BY <1>0 DEF IInv, Typed, RequestOK, Marks
<1>4. JobInv(j)'
  <2>1. LoopOK(j)'
    BY <1>0, SizeFacts DEF IInv, Typed, JobInv, LoopOK, RequestOK, BeforeInsert, AfterInsert
  <2>2. StatusOK(j)'
    BY <1>0 DEF IInv, Typed, JobInv, StatusOK, LoopOK, RequestOK, Status, Open, Terminal, WorkerPc, LaunchPc, OpPc, Marks
  <2>3. ProductOK(j)'
    BY <1>0 DEF IInv, Typed, JobInv, RequestOK, ProductOK
  <2>4. WholeOK(j)'
    BY <1>0 DEF IInv, Typed, JobInv, RequestOK, WholeOK
  <2>5. FilesOK(j)'
    BY <1>0 DEF IInv, Typed, JobInv, RequestOK, FilesOK, TornOK
  <2>6. RowOK(j)'
    BY <1>0 DEF IInv, Typed, JobInv, RowOK
  <2>7. QED
    BY <2>1, <2>2, <2>3, <2>4, <2>5, <2>6 DEF JobInv
<1>5. ASSUME NEW k \in Jobs, k # j PROVE JobInv(k)'
  <2>1. SameJob(k)
    BY <1>0, <1>5 DEF IInv, Typed, SameJob
  <2>2. QED
    BY <2>1, JobFrame DEF IInv
<1>6. QED
  BY <1>1, <1>2, <1>3, <1>4, <1>5 DEF IInv

LEMMA DeleteFilesInv ==
  ASSUME IInv, NEW r \in Requests, DeleteFiles(r)
  PROVE  IInv'
<1> USE DEF DeleteFiles, rows, work, memory, ops, proc
<1>0. PICK j \in Jobs : j = opJob[r]
  BY DEF IInv, RequestOK
<1>a. Typed /\ "purged" \in Marks
  BY DEF IInv, Marks
<1>b. files' \in [Jobs -> SUBSET STRING]
  <2>1. PICK left \in SUBSET files[j] : files' = [files EXCEPT ![j] = left]
    BY <1>0
  <2>2. QED
    BY <1>a, <2>1 DEF Typed
<1>c. marks' \in [Jobs -> SUBSET Marks]
  BY <1>0, <1>a, MarkFacts
<1>1. Typed'
  <2>1. TypeRows'
    BY <1>a, <1>b, <1>c DEF Typed, TypeRows
  <2>2. TypeWork'
    BY DEF IInv, Typed, TypeWork, Proceed, End, Begin, Mark
  <2>3. TypeProcess'
    <3>1. CASE Proceed(r, "deleteRecords")
      BY <1>a, <3>1 DEF Typed, TypeProcess, OpPc, Proceed
    <3>2. CASE End(r)
      BY <1>a, <3>2, SizeFacts DEF Typed, TypeProcess, OpPc, End, Begin
    <3>3. QED
      BY <3>1, <3>2
  <2>4. QED
    BY <2>1, <2>2, <2>3 DEF Typed, TypeRows, TypeWork, TypeProcess
<1>2. ASSUME NEW q \in Requests, q # r PROVE RequestOK(q)'
  <2>1. Grows /\ SameRequest(q)
    BY <1>0, <1>2, SizeFacts DEF IInv, Typed, Grows, SameRequest, Proceed, End, Begin, Mark
  <2>2. QED
    BY <1>1, <2>1, RequestFrame DEF IInv
<1>3. RequestOK(r)'
  BY <1>0 DEF IInv, Typed, RequestOK, Marks, Proceed, End, Begin, Mark
<1>4. JobInv(j)'
  <2>1. LoopOK(j)'
    BY <1>0, SizeFacts DEF IInv, Typed, JobInv, LoopOK, RequestOK, BeforeInsert, AfterInsert, Proceed, End, Begin, Mark
  <2>2. StatusOK(j)'
    BY <1>0 DEF IInv, Typed, JobInv, StatusOK, LoopOK, RequestOK, Status, Open, Terminal, WorkerPc, LaunchPc, OpPc, Marks, Proceed, End, Begin, Mark
  <2>3. ProductOK(j)'
    BY <1>0 DEF IInv, Typed, JobInv, RequestOK, ProductOK, Proceed, End, Begin, Mark
  <2>4. WholeOK(j)'
    BY <1>0 DEF IInv, Typed, JobInv, RequestOK, WholeOK, Proceed, End, Begin, Mark
  <2>5. FilesOK(j)'
    BY <1>0 DEF IInv, Typed, JobInv, RequestOK, FilesOK, TornOK, Proceed, End, Begin, Mark
  <2>6. RowOK(j)'
    BY <1>0 DEF IInv, Typed, JobInv, RowOK, Proceed, End, Begin, Mark
  <2>7. QED
    BY <2>1, <2>2, <2>3, <2>4, <2>5, <2>6 DEF JobInv
<1>5. ASSUME NEW k \in Jobs, k # j PROVE JobInv(k)'
  <2>1. SameJob(k)
    BY <1>0, <1>5 DEF IInv, Typed, SameJob, Proceed, End, Begin, Mark
  <2>2. QED
    BY <2>1, JobFrame DEF IInv
<1>6. QED
  BY <1>1, <1>2, <1>3, <1>4, <1>5 DEF IInv

LEMMA DeleteRecordsInv ==
  ASSUME IInv, NEW r \in Requests, DeleteRecords(r)
  PROVE  IInv'
<1> USE DEF DeleteRecords, Proceed, rows, work, memory, ops, proc
<1>0. PICK j \in Jobs : j = opJob[r]
  BY DEF IInv, RequestOK
<1>1. Typed'
  <2>1. TypeRows'
    BY <1>0, SizeFacts DEF IInv, Typed, TypeRows, Status, Terminal, Marks
  <2>2. TypeWork'
    BY DEF IInv, Typed, TypeWork
  <2>3. TypeProcess'
    BY SizeFacts DEF IInv, Typed, TypeProcess, OpPc
  <2>4. QED
    BY <2>1, <2>2, <2>3 DEF Typed, TypeRows, TypeWork, TypeProcess
<1>2. ASSUME NEW q \in Requests, q # r PROVE RequestOK(q)'
  <2>1. Grows /\ SameRequest(q)
    BY <1>0, <1>2, SizeFacts DEF IInv, Typed, Grows, SameRequest
  <2>2. QED
    BY <1>1, <2>1, RequestFrame DEF IInv
<1>3. RequestOK(r)'
  BY <1>0 DEF IInv, Typed, RequestOK, Marks
<1>4. JobInv(j)'
  <2>1. LoopOK(j)'
    BY <1>0, SizeFacts DEF IInv, Typed, JobInv, LoopOK, RequestOK, BeforeInsert, AfterInsert
  <2>2. StatusOK(j)'
    BY <1>0 DEF IInv, Typed, JobInv, StatusOK, LoopOK, RequestOK, Status, Open, Terminal, WorkerPc, LaunchPc, OpPc, Marks
  <2>3. ProductOK(j)'
    BY <1>0 DEF IInv, Typed, JobInv, RequestOK, ProductOK
  <2>4. WholeOK(j)'
    BY <1>0 DEF IInv, Typed, JobInv, RequestOK, WholeOK
  <2>5. FilesOK(j)'
    BY <1>0 DEF IInv, Typed, JobInv, RequestOK, FilesOK, TornOK
  <2>6. RowOK(j)'
    BY <1>0 DEF IInv, Typed, JobInv, RowOK
  <2>7. QED
    BY <2>1, <2>2, <2>3, <2>4, <2>5, <2>6 DEF JobInv
<1>5. ASSUME NEW k \in Jobs, k # j PROVE JobInv(k)'
  <2>1. SameJob(k)
    BY <1>0, <1>5 DEF IInv, Typed, SameJob
  <2>2. QED
    BY <2>1, JobFrame DEF IInv
<1>6. QED
  BY <1>1, <1>2, <1>3, <1>4, <1>5 DEF IInv

LEMMA DeleteRowInv ==
  ASSUME IInv, NEW r \in Requests, DeleteRow(r)
  PROVE  IInv'
<1> USE DEF DeleteRow, Unreferenced, End, Begin, rows, work, memory, ops, proc
<1>0. PICK j \in Jobs : j = opJob[r]
  BY DEF IInv, RequestOK
<1>1. Typed'
  <2>1. TypeRows'
    <3>1. UNCHANGED status \/ status' = [status EXCEPT ![j] = "none"]
      BY <1>0
    <3>2. status \in [Jobs -> Status] /\ "none" \in Status
      BY DEF IInv, Typed, Status
    <3>3. status' \in [Jobs -> Status]
      BY <3>1, <3>2
    <3>4. QED
      BY <3>3 DEF IInv, Typed, TypeRows
  <2>2. TypeWork'
    BY DEF IInv, Typed, TypeWork
  <2>3. TypeProcess'
    BY SizeFacts DEF IInv, Typed, TypeProcess, OpPc
  <2>4. QED
    BY <2>1, <2>2, <2>3 DEF Typed, TypeRows, TypeWork, TypeProcess
<1>2. ASSUME NEW q \in Requests, q # r PROVE RequestOK(q)'
  <2>1. Grows /\ SameRequest(q)
    BY <1>0, <1>2, SizeFacts DEF IInv, Typed, Grows, SameRequest
  <2>2. QED
    BY <1>1, <2>1, RequestFrame DEF IInv
<1>3. RequestOK(r)'
  BY <1>0 DEF IInv, Typed, RequestOK, Marks
<1>4. JobInv(j)'
  <2>1. LoopOK(j)'
    BY <1>0, SizeFacts DEF IInv, Typed, JobInv, LoopOK, RequestOK, BeforeInsert, AfterInsert
  <2>2. StatusOK(j)'
    BY <1>0 DEF IInv, Typed, JobInv, StatusOK, LoopOK, RequestOK, Status, Open, Terminal, WorkerPc, LaunchPc, OpPc, Marks
  <2>3. ProductOK(j)'
    BY <1>0 DEF IInv, Typed, JobInv, RequestOK, ProductOK
  <2>4. WholeOK(j)'
    BY <1>0 DEF IInv, Typed, JobInv, RequestOK, WholeOK
  <2>5. FilesOK(j)'
    BY <1>0 DEF IInv, Typed, JobInv, RequestOK, FilesOK, TornOK
  <2>6. RowOK(j)'
    BY <1>0 DEF IInv, Typed, JobInv, RowOK
  <2>7. QED
    BY <2>1, <2>2, <2>3, <2>4, <2>5, <2>6 DEF JobInv
<1>5. ASSUME NEW k \in Jobs, k # j PROVE JobInv(k)'
  <2>1. SameJob(k)
    BY <1>0, <1>5 DEF IInv, Typed, SameJob
  <2>2. QED
    BY <2>1, JobFrame DEF IInv
<1>6. QED
  BY <1>1, <1>2, <1>3, <1>4, <1>5 DEF IInv

LEMMA DeleteFailsInv ==
  ASSUME IInv, NEW r \in Requests, DeleteFails(r)
  PROVE  IInv'
<1> USE DEF DeleteFails, End, Begin, rows, work, memory, ops, proc
<1>0. PICK j \in Jobs : j = opJob[r]
  BY DEF IInv, RequestOK
<1>1. Typed'
  <2>1. TypeRows'
    BY <1>0, SizeFacts DEF IInv, Typed, TypeRows, Status, Terminal, Marks
  <2>2. TypeWork'
    BY DEF IInv, Typed, TypeWork
  <2>3. TypeProcess'
    BY SizeFacts DEF IInv, Typed, TypeProcess, OpPc
  <2>4. QED
    BY <2>1, <2>2, <2>3 DEF Typed, TypeRows, TypeWork, TypeProcess
<1>2. ASSUME NEW q \in Requests, q # r PROVE RequestOK(q)'
  <2>1. Grows /\ SameRequest(q)
    BY <1>0, <1>2, SizeFacts DEF IInv, Typed, Grows, SameRequest
  <2>2. QED
    BY <1>1, <2>1, RequestFrame DEF IInv
<1>3. RequestOK(r)'
  BY <1>0 DEF IInv, Typed, RequestOK, Marks
<1>4. JobInv(j)'
  <2>1. LoopOK(j)'
    BY <1>0, SizeFacts DEF IInv, Typed, JobInv, LoopOK, RequestOK, BeforeInsert, AfterInsert
  <2>2. StatusOK(j)'
    BY <1>0 DEF IInv, Typed, JobInv, StatusOK, LoopOK, RequestOK, Status, Open, Terminal, WorkerPc, LaunchPc, OpPc, Marks
  <2>3. ProductOK(j)'
    BY <1>0 DEF IInv, Typed, JobInv, RequestOK, ProductOK
  <2>4. WholeOK(j)'
    BY <1>0 DEF IInv, Typed, JobInv, RequestOK, WholeOK
  <2>5. FilesOK(j)'
    BY <1>0 DEF IInv, Typed, JobInv, RequestOK, FilesOK, TornOK
  <2>6. RowOK(j)'
    BY <1>0 DEF IInv, Typed, JobInv, RowOK
  <2>7. QED
    BY <2>1, <2>2, <2>3, <2>4, <2>5, <2>6 DEF JobInv
<1>5. ASSUME NEW k \in Jobs, k # j PROVE JobInv(k)'
  <2>1. SameJob(k)
    BY <1>0, <1>5 DEF IInv, Typed, SameJob
  <2>2. QED
    BY <2>1, JobFrame DEF IInv
<1>6. QED
  BY <1>1, <1>2, <1>3, <1>4, <1>5 DEF IInv

LEMMA CancelReadInv ==
  ASSUME IInv, NEW r \in Requests, NEW j \in Jobs, CancelRead(r, j)
  PROVE  IInv'
<1> USE DEF CancelRead, CanCancel, Begin, rows, work, memory, ops, proc
<1>1. Typed'
  <2>1. TypeRows' /\ TypeWork'
    BY DEF IInv, Typed, TypeRows, TypeWork
  <2>2. TypeProcess'
    BY ManifestFacts, RequestFacts DEF IInv, Typed, TypeProcess, OpPc
  <2>3. QED
    BY <2>1, <2>2 DEF Typed, TypeRows, TypeWork, TypeProcess
<1>2. ASSUME NEW q \in Requests, q # r PROVE RequestOK(q)'
  <2>1. Grows /\ SameRequest(q)
    BY <1>2, SizeFacts DEF IInv, Typed, Grows, SameRequest
  <2>2. QED
    BY <1>1, <2>1, RequestFrame DEF IInv
<1>3. RequestOK(r)'
  BY RequestFacts DEF IInv, Typed, RequestOK, JobInv, LoopOK, StatusOK
<1>4. ASSUME NEW k \in Jobs PROVE JobInv(k)'
  BY JobFrame DEF IInv, SameJob
<1>5. QED
  BY <1>1, <1>2, <1>3, <1>4 DEF IInv

LEMMA DeleteReadInv ==
  ASSUME IInv, NEW r \in Requests, NEW j \in Jobs, DeleteRead(r, j)
  PROVE  IInv'
<1> USE DEF DeleteRead, CanDelete, Begin, rows, work, memory, ops, proc
<1>1. Typed'
  <2>1. TypeRows' /\ TypeWork'
    BY DEF IInv, Typed, TypeRows, TypeWork
  <2>2. TypeProcess'
    BY ManifestFacts, RequestFacts DEF IInv, Typed, TypeProcess, OpPc
  <2>3. QED
    BY <2>1, <2>2 DEF Typed, TypeRows, TypeWork, TypeProcess
<1>2. ASSUME NEW q \in Requests, q # r PROVE RequestOK(q)'
  <2>1. Grows /\ SameRequest(q)
    BY <1>2, SizeFacts DEF IInv, Typed, Grows, SameRequest
  <2>2. QED
    BY <1>1, <2>1, RequestFrame DEF IInv
<1>3. RequestOK(r)'
  BY RequestFacts DEF IInv, Typed, RequestOK, JobInv, LoopOK, StatusOK
<1>4. ASSUME NEW k \in Jobs PROVE JobInv(k)'
  BY JobFrame DEF IInv, SameJob
<1>5. QED
  BY <1>1, <1>2, <1>3, <1>4 DEF IInv

LEMMA CloseCancelInv ==
  ASSUME IInv, NEW j \in Jobs, CloseCancel(j)
  PROVE  IInv'
<1> USE DEF CloseCancel, CanCancel, Begin, rows, work, memory, ops, proc
<1>1. Typed'
  <2>1. TypeRows' /\ TypeWork'
    BY DEF IInv, Typed, TypeRows, TypeWork
  <2>2. TypeProcess'
    <3>1. CASE CanCancel(status[j])
      BY <3>1, RequestFacts DEF IInv, Typed, TypeProcess, OpPc
    <3>2. CASE UNCHANGED ops
      BY <3>2 DEF IInv, Typed, TypeProcess
    <3>3. QED
      BY <3>1, <3>2
  <2>3. QED
    BY <2>1, <2>2 DEF Typed, TypeRows, TypeWork, TypeProcess
<1>2. ASSUME NEW q \in Requests, q # Closer PROVE RequestOK(q)'
  <2>1. Grows /\ SameRequest(q)
    BY <1>2, SizeFacts DEF IInv, Typed, Grows, SameRequest
  <2>2. QED
    BY <1>1, <2>1, RequestFrame DEF IInv
<1>3. RequestOK(Closer)'
  BY RequestFacts DEF IInv, Typed, RequestOK, JobInv, LoopOK, StatusOK
<1>4. ASSUME NEW k \in Jobs PROVE JobInv(k)'
  BY JobFrame DEF IInv, SameJob
<1>5. QED
  BY <1>1, <1>2, <1>3, <1>4 DEF IInv

LEMMA HaltInv ==
  ASSUME IInv, Halt
  PROVE  IInv'
<1> USE DEF Halt, rows, work, memory, ops, proc
<1>1. Typed'
  <2>1. TypeRows'
    BY DEF IInv, Typed, TypeRows, Marks
  <2>2. TypeWork'
    BY DEF IInv, Typed, TypeWork, WorkerPc
  <2>3. TypeProcess'
    BY SizeFacts DEF IInv, Typed, TypeProcess, LaunchPc, OpPc
  <2>4. QED
    BY <2>1, <2>2, <2>3 DEF Typed, TypeRows, TypeWork, TypeProcess
<1>2. ASSUME NEW r \in Requests PROVE RequestOK(r)'
  BY DEF RequestOK
<1>3. ASSUME NEW j \in Jobs PROVE JobInv(j)'
  <2>1. LoopOK(j)' /\ StatusOK(j)'
    BY SizeFacts DEF IInv, Typed, JobInv, LoopOK, StatusOK, BeforeInsert, AfterInsert, LaunchPc
  <2>2. ProductOK(j)' /\ WholeOK(j)'
    BY DEF IInv, Typed, JobInv, ProductOK, WholeOK
  <2>3. FilesOK(j)' /\ RowOK(j)'
    BY DEF IInv, Typed, JobInv, FilesOK, TornOK, RowOK
  <2>4. QED
    BY <2>1, <2>2, <2>3 DEF JobInv
<1>4. QED
  BY <1>1, <1>2, <1>3 DEF IInv

(* A step of the process that touches its phase only. *)
LEMMA PhaseInv ==
  ASSUME IInv, UNCHANGED <<rows, files, work, memory, launch, ops, marks>>,
         phase' \in {"up", "signaled", "draining", "closing", "down"},
         todo' \subseteq Jobs, restarts' \in 0..MaxRestarts
  PROVE  IInv'
<1> USE DEF rows, work, memory, ops
<1>1. Typed'
  BY DEF IInv, Typed
<1>2. ASSUME NEW r \in Requests PROVE RequestOK(r)'
  BY <1>2 DEF IInv, RequestOK
<1>3. ASSUME NEW j \in Jobs PROVE JobInv(j)'
  BY JobFrame DEF IInv, SameJob
<1>4. QED
  BY <1>1, <1>2, <1>3 DEF IInv

LEMMA InitInv == Init => IInv
<1> SUFFICES ASSUME Init PROVE IInv
  OBVIOUS
<1>1. Typed
  BY ConstantsOK, SizeFacts DEF Init, Typed, Status, Open, Terminal, WorkerPc, LaunchPc,
     OpPc, Marks
<1>2. ASSUME NEW r \in Requests PROVE RequestOK(r)
  BY DEF Init, RequestOK
<1>3. ASSUME NEW j \in Jobs PROVE JobInv(j)
  <2>1. LoopOK(j) /\ StatusOK(j) /\ WholeOK(j) /\ FilesOK(j) /\ RowOK(j)
    BY SizeFacts DEF Init, LoopOK, StatusOK, WholeOK, FilesOK, TornOK, RowOK, BeforeInsert,
       AfterInsert, Terminal
  <2>2. Stored(j, 0) = {} /\ made[j] = 0 /\ pc[j] = "off"
    BY ManifestFacts DEF Init
  <2>3. ProductOK(j)
    BY <2>2 DEF ProductOK
  <2>4. QED
    BY <2>1, <2>3 DEF JobInv
<1>4. QED
  BY <1>1, <1>2, <1>3 DEF IInv

LEMMA NextInv == IInv /\ [Next]_vars => IInv'
<1> SUFFICES ASSUME IInv, [Next]_vars PROVE IInv'
  OBVIOUS
<1>1. ASSUME NEW j \in Jobs, RunCreate(j) \/ RunHandler(j) PROVE IInv'
  BY <1>1, RunCreateInv, RunSetRunningInv, RunLaunchInv, RunAbortInv DEF RunHandler
<1>2. ASSUME NEW j \in Jobs, Worker(j) PROVE IInv'
  BY <1>2, WorkerHeadInv, SummaryReadInv, SummaryWriteInv, SummaryBackInv, SummaryFailsInv,
     GenerateInv, RenderInv, StoreFileInv, CreateAssetInv, AssetBackInv,
     CleanupStoredFileInv, FinishInv
     DEF Worker
<1>3. ASSUME NEW j \in Jobs, CreateDeployment(j) \/ DeleteDeployment(j) PROVE IInv'
  BY <1>3, CreateDeploymentInv, DeleteDeploymentInv
<1>4. ASSUME NEW r \in Cancelers, NEW j \in Jobs, CancelRead(r, j) PROVE IInv'
  BY <1>4, CancelReadInv DEF Requests
<1>5. ASSUME NEW r \in Deleters, NEW j \in Jobs, DeleteRead(r, j) PROVE IInv'
  BY <1>5, DeleteReadInv DEF Requests
<1>6. ASSUME NEW r \in Requests, Handler(r) PROVE IInv'
  BY <1>6, CancelWriteInv, CancelSignalInv, CancelFailsInv, DeleteFilesInv,
     DeleteRecordsInv, DeleteRowInv, DeleteFailsInv DEF Handler
<1>7. CASE Signal \/ Shutdown \/ CloseSnapshot \/ Restart
  <2>1. phase' \in {"up", "signaled", "draining", "closing", "down"}
    BY <1>7 DEF Signal, Shutdown, CloseSnapshot, Restart
  <2>2. todo' \subseteq Jobs /\ restarts' \in 0..MaxRestarts
    BY <1>7, ConstantsOK DEF IInv, Typed, Signal, Shutdown, CloseSnapshot, Restart
  <2>3. UNCHANGED <<rows, files, work, memory, launch, ops, marks>>
    BY <1>7 DEF Signal, Shutdown, CloseSnapshot, Restart
  <2>4. QED
    BY <2>1, <2>2, <2>3, PhaseInv
<1>8. ASSUME NEW j \in Jobs, CloseCancel(j) PROVE IInv'
  BY <1>8, CloseCancelInv
<1>9. CASE CloseReturns \/ CloseAborts \/ Crash
  BY <1>9, HaltInv DEF CloseReturns, CloseAborts, Crash
<1>10. CASE Stopped \/ UNCHANGED vars
  <2>1. UNCHANGED vars
    BY <1>10 DEF Stopped
  <2>2. QED
    BY <2>1, PhaseInv DEF vars, proc, IInv, Typed
<1>11. QED
  BY <1>1, <1>2, <1>3, <1>4, <1>5, <1>6, <1>7, <1>8, <1>9, <1>10 DEF Next, Closing

(***************************************************************************)
(* The theorems.                                                           *)
(***************************************************************************)

(* The inductive invariant holds in every reachable state. *)
THEOREM Invariance == Spec => []IInv
  BY InitInv, NextInv, PTL DEF Spec

(* The variables keep their types: the worker's index stays in the manifest. *)
THEOREM TypeCorrect == Spec => []TypeOK
<1>1. IInv => TypeOK
  <2> SUFFICES ASSUME IInv, NEW j \in Jobs PROVE WithinManifest(j)
    BY DEF IInv, TypeOK
  <2>1. idx[j] \in Nat /\ LoopOK(j) /\ FilesOK(j) /\ Size(j) \in Nat
    BY ManifestFacts DEF IInv, Typed, JobInv
  <2>2. made[j] \in Nat /\ count[j] \in Nat
    BY DEF IInv, Typed
  <2>3. QED
    BY <2>1, <2>2 DEF WithinManifest, LoopOK, FilesOK
<1>2. QED
  BY <1>1, Invariance, PTL

(* A job is completed only with every planned file stored and recorded,    *)
(* whatever cancels, deletes, faults and crashes its worker has met.       *)
THEOREM CompletedWhole == Spec => []CompletedIsWhole
<1>1. IInv => CompletedIsWhole
  BY DEF IInv, JobInv, WholeOK, CompletedIsWhole
<1>2. QED
  BY <1>1, Invariance, PTL

(* The worker leaves no file without a record, short of a fault or a delete. *)
THEOREM NoOrphanFiles == Spec => []FilesBackedByRows
<1>1. IInv => FilesBackedByRows
  BY DEF IInv, JobInv, FilesOK, TornOK, FilesBackedByRows
<1>2. QED
  BY <1>1, Invariance, PTL

(* asset_count counts only assets that are on record. *)
THEOREM CountSound == Spec => []CountIsBacked
<1>1. IInv => CountIsBacked
  <2> SUFFICES ASSUME IInv, NEW j \in Jobs, "purged" \notin marks[j]
               PROVE  Stored(j, count[j]) \subseteq assets[j]
    BY DEF CountIsBacked
  <2>1. count[j] <= made[j] /\ Stored(j, made[j]) \subseteq assets[j]
    BY DEF IInv, JobInv, LoopOK, ProductOK
  <2>2. count[j] \in Nat /\ made[j] \in Nat
    BY DEF IInv, Typed
  <2>3. QED
    BY <2>1, <2>2, ManifestFacts
<1>2. QED
  BY <1>1, Invariance, PTL

(* No asset and no deployment outlives the row of its job. *)
THEOREM RowsHaveJobs == Spec => []NoStrayRows
<1>1. IInv => NoStrayRows
  BY DEF IInv, JobInv, RowOK, NoStrayRows
<1>2. QED
  BY <1>1, Invariance, PTL

(***************************************************************************)
(* Rows and files.  While the worker is at it, the rows of a job are those *)
(* of the entries it has been through, so that cleaning up after an entry  *)
(* takes the file of another one away only if they have the same path.     *)
(***************************************************************************)
Reached(j) == IF pc[j] = "back" THEN idx[j] ELSE made[j]

Ongoing(j) == launch[j] # "done" \/ pc[j] # "off"

Ended == {"finish", "off"}

RowsOK(j) ==
  marks[j] \cap {"purged", "faulted"} = {} =>
    /\ \/ assets[j] \subseteq files[j]
       \/ pc[j] \in Ended /\ assets[j] \ files[j] \subseteq Repeated(j)
    /\ Ongoing(j) => assets[j] \subseteq Stored(j, Reached(j))

(* A step that moves neither rows nor files of the job. *)
SameRows(k) ==
  /\ assets'[k] = assets[k] /\ files'[k] = files[k] /\ made'[k] = made[k]
  /\ marks[k] \subseteq marks'[k]
  /\ \/ pc'[k] = pc[k] /\ idx'[k] = idx[k]
     \/ /\ pc[k] # "back" /\ pc'[k] # "back"
        /\ \/ launch[k] # "done" \/ pc[k] \notin Ended
           \/ pc'[k] \in Ended /\ idx'[k] = idx[k]
  /\ Ongoing(k)' => Ongoing(k)

LEMMA RowsFrame ==
  ASSUME NEW k \in Jobs, LoopOK(k), RowsOK(k), SameRows(k)
  PROVE  RowsOK(k)'
<1> SUFFICES ASSUME marks'[k] \cap {"purged", "faulted"} = {} PROVE RowsOK(k)'
  BY DEF RowsOK
<1>1. marks[k] \cap {"purged", "faulted"} = {}
  BY DEF SameRows
<1>2. Ongoing(k)' => assets'[k] \subseteq Stored(k, Reached(k)')
  BY <1>1 DEF RowsOK, SameRows, Reached
<1>3. CASE launch[k] # "done"
  <2>1. assets[k] \subseteq Stored(k, 0)
    BY <1>1, <1>3 DEF RowsOK, Ongoing, LoopOK, Reached
  <2>2. QED
    BY <1>2, <2>1, ManifestFacts DEF RowsOK, SameRows
<1>4. CASE pc'[k] = pc[k] /\ idx'[k] = idx[k]
  BY <1>1, <1>2, <1>4 DEF RowsOK, SameRows, Repeated
<1>5. CASE pc[k] \notin Ended
  BY <1>1, <1>2, <1>5 DEF RowsOK, SameRows
<1>6. CASE pc'[k] \in Ended /\ idx'[k] = idx[k]
  BY <1>1, <1>2, <1>6 DEF RowsOK, SameRows, Repeated
<1>7. QED
  BY <1>3, <1>4, <1>5, <1>6 DEF SameRows

LEMMA RunRows ==
  ASSUME IInv, NEW j \in Jobs, RunCreate(j) \/ RunHandler(j), NEW k \in Jobs
  PROVE  SameRows(k)
<1> USE DEF IInv, Typed, JobInv, LoopOK, SameRows, Ended, Ongoing, rows, work, memory, ops, proc
<1>1. CASE RunCreate(j)
  BY <1>1 DEF RunCreate
<1>2. CASE RunSetRunning(j)
  BY <1>2 DEF RunSetRunning
<1>3. CASE RunLaunch(j)
  BY <1>3 DEF RunLaunch
<1>4. CASE RunAbort(j)
  BY <1>4 DEF RunAbort, Mark
<1>5. QED
  BY <1>1, <1>2, <1>3, <1>4 DEF RunHandler

(* The steps of the worker that leave assets, files and count alone. *)
LEMMA PlainWorkerRows ==
  ASSUME Typed, NEW j \in Jobs, NEW k \in Jobs,
         \/ WorkerHead(j) \/ SummaryRead(j) \/ SummaryWrite(j) \/ SummaryBack(j)
         \/ SummaryFails(j) \/ Generate(j) \/ Render(j) \/ Finish(j)
  PROVE  SameRows(k)
<1> USE DEF Typed, SameRows, Ended, Ongoing, Goto, rows, work, memory, ops, proc
<1>1. CASE WorkerHead(j)
  BY <1>1 DEF WorkerHead, Conclude
<1>2. CASE SummaryRead(j)
  BY <1>2 DEF SummaryRead
<1>3. CASE SummaryWrite(j)
  BY <1>3 DEF SummaryWrite
<1>4. CASE SummaryBack(j)
  BY <1>4 DEF SummaryBack
<1>5. CASE SummaryFails(j)
  BY <1>5 DEF SummaryFails, SummaryPc, Return, Mark
<1>6. CASE Generate(j)
  BY <1>6 DEF Generate, Fail, Conclude
<1>7. CASE Render(j)
  BY <1>7 DEF Render, Fail, Conclude
<1>8. CASE Finish(j)
  BY <1>8 DEF Finish, SetTerminal, Return, Mark
<1>9. QED
  BY <1>1, <1>2, <1>3, <1>4, <1>5, <1>6, <1>7, <1>8

LEMMA StoreFileRows ==
  ASSUME Typed, NEW j \in Jobs, NEW k \in Jobs, RowsOK(k), StoreFile(j)
  PROVE  RowsOK(k)'
<1> USE DEF rows, work, memory, ops, proc
<1>1. /\ assets'[k] = assets[k] /\ made'[k] = made[k] /\ files[k] \subseteq files'[k]
      /\ marks[k] \subseteq marks'[k]
  BY DEF StoreFile, Mark, Typed
<1>2. /\ Ongoing(k)' => Ongoing(k)
      /\ (pc[k] # "back" /\ pc'[k] # "back") \/ (pc'[k] = pc[k] /\ idx'[k] = idx[k])
  BY DEF StoreFile, Fail, Conclude, Goto, Typed, Ongoing
<1>3. pc[k] \notin Ended \/ (pc'[k] = pc[k] /\ Repeated(k)' = Repeated(k))
  BY DEF StoreFile, Fail, Conclude, Goto, Typed, Ended, Repeated
<1>4. SUFFICES ASSUME marks'[k] \cap {"purged", "faulted"} = {} PROVE RowsOK(k)'
  BY DEF RowsOK
<1>5. marks[k] \cap {"purged", "faulted"} = {}
  BY <1>1, <1>4
<1>6. Ongoing(k)' => assets'[k] \subseteq Stored(k, Reached(k)')
  BY <1>1, <1>2, <1>5 DEF RowsOK, Reached
<1>7. \/ assets'[k] \subseteq files'[k]
      \/ pc'[k] \in Ended /\ assets'[k] \ files'[k] \subseteq Repeated(k)'
  BY <1>1, <1>3, <1>5 DEF RowsOK
<1>8. QED
  BY <1>6, <1>7 DEF RowsOK

LEMMA CreateAssetRows ==
  ASSUME IInv, NEW j \in Jobs, NEW k \in Jobs, RowsOK(k), CreateAsset(j)
  PROVE  RowsOK(k)'
<1> USE DEF CreateAsset, Goto, rows, work, memory, ops, proc
<1>1. CASE k # j
  BY <1>1, RowsFrame DEF IInv, JobInv, Typed, SameRows, Ongoing
<1>2. CASE k = j
  <2> SUFFICES ASSUME marks'[j] \cap {"purged", "faulted"} = {} PROVE RowsOK(j)'
    BY <1>2 DEF RowsOK
  <2>1. /\ assets[j] \subseteq files[j] /\ assets[j] \subseteq Stored(j, made[j])
        /\ Manifest[j][idx[j]] \in files[j]
    BY <1>2 DEF IInv, JobInv, ProductOK, RowsOK, Ended, Ongoing, Reached
  <2>2. /\ made[j] + 1 = idx[j] /\ made'[j] = made[j] /\ idx'[j] = idx[j]
        /\ files'[j] = files[j] /\ made[j] \in Nat /\ idx[j] \in 1..Size(j)
    BY ManifestFacts DEF IInv, Typed, JobInv, LoopOK, BeforeInsert
  <2>5. Stored(j, idx[j]) = Stored(j, made[j]) \cup {Manifest[j][idx[j]]}
    BY <2>2, ManifestFacts
  <2>3. \/ pc'[j] = "back" /\ assets'[j] = assets[j] \cup {Manifest[j][idx[j]]}
        \/ pc'[j] = "cleanup" /\ assets'[j] = assets[j]
    BY DEF IInv, Typed
  <2>4. QED
    BY <2>1, <2>2, <2>3, <2>5 DEF RowsOK, Reached
<1>3. QED
  BY <1>1, <1>2

LEMMA AssetBackRows ==
  ASSUME IInv, NEW j \in Jobs, NEW k \in Jobs, RowsOK(k), AssetBack(j)
  PROVE  RowsOK(k)'
<1> USE DEF AssetBack, Goto, Mark, rows, work, memory, ops, proc
<1>1. CASE k # j
  BY <1>1, RowsFrame DEF IInv, JobInv, Typed, SameRows, Ongoing
<1>2. CASE k = j
  <2> SUFFICES ASSUME marks'[j] \cap {"purged", "faulted"} = {} PROVE RowsOK(j)'
    BY <1>2 DEF RowsOK
  <2>1. Manifest[j][idx[j]] \in assets[j] /\ marks'[j] = marks[j]
    <3>1. marks[j] \subseteq Marks /\ ProductOK(j)
      BY DEF IInv, Typed, JobInv
    <3>2. \/ Manifest[j][idx[j]] \in assets[j] /\ UNCHANGED marks
          \/ Manifest[j][idx[j]] \notin assets[j] /\ UNCHANGED marks
          \/ marks' = [marks EXCEPT ![j] = @ \cup {"faulted"}]
      OBVIOUS
    <3>3. UNCHANGED marks
      BY <3>2 DEF IInv, Typed
    <3>4. "purged" \notin marks[j]
      BY <3>3
    <3>5. QED
      BY <3>1, <3>3, <3>4 DEF ProductOK
  <2>2. /\ assets[j] \subseteq files[j] /\ assets[j] \subseteq Stored(j, idx[j])
    BY <1>2, <2>1 DEF RowsOK, Ended, Ongoing, Reached
  <2>3. /\ made'[j] = made[j] + 1 /\ pc'[j] = "read2"
    <3>1. ~("faulted" \in marks'[j])
      OBVIOUS
    <3>2. made' = [made EXCEPT ![j] = @ + 1] /\ pc' = [pc EXCEPT ![j] = "read2"]
      BY <2>1, <3>1 DEF IInv, Typed
    <3>3. QED
      BY <3>2 DEF IInv, Typed
  <2>4. made[j] + 1 = idx[j] /\ UNCHANGED <<assets, files>>
    BY DEF IInv, Typed, JobInv, LoopOK, BeforeInsert
  <2>5. QED
    BY <2>2, <2>3, <2>4 DEF RowsOK, Reached
<1>3. QED
  BY <1>1, <1>2

LEMMA CleanupRows ==
  ASSUME IInv, NEW j \in Jobs, NEW k \in Jobs, RowsOK(k), CleanupStoredFile(j)
  PROVE  RowsOK(k)'
<1> USE DEF CleanupStoredFile, rows, work, memory, ops, proc
<1>1. CASE k # j
  BY <1>1, RowsFrame DEF Fail, Conclude, Goto, Mark, IInv, JobInv, Typed, SameRows, Ongoing
<1>2. CASE k = j
  <2> SUFFICES ASSUME marks'[j] \cap {"purged", "faulted"} = {} PROVE RowsOK(j)'
    BY <1>2 DEF RowsOK
  <2>1. marks'[j] = marks[j] /\ files' = [files EXCEPT ![j] = @ \ {Manifest[j][idx[j]]}]
    <3>1. \/ marks' = marks /\ files' = [files EXCEPT ![j] = @ \ {Manifest[j][idx[j]]}]
          \/ marks' = [marks EXCEPT ![j] = @ \cup {"faulted"}]
      BY DEF Mark
    <3>2. "faulted" \notin marks'[j] /\ marks \in [Jobs -> SUBSET Marks]
      BY DEF IInv, Typed
    <3>3. QED
      BY <3>1, <3>2
  <2>2. /\ assets[j] \subseteq files[j] /\ assets[j] \subseteq Stored(j, made[j])
    BY <1>2, <2>1 DEF RowsOK, Ended, Ongoing, Reached
  <2>3. made[j] = idx[j] - 1 /\ idx[j] \in 1..Size(j)
    BY ManifestFacts DEF IInv, Typed, JobInv, LoopOK, BeforeInsert
  <2>4. Repeated(j) = {Manifest[j][idx[j]]} \cap Stored(j, made[j])
    BY <2>3, ManifestFacts DEF Repeated
  <2>5. /\ assets'[j] = assets[j] /\ made'[j] = made[j] /\ Repeated(j)' = Repeated(j)
        /\ files'[j] = files[j] \ {Manifest[j][idx[j]]}
    BY <2>1 DEF IInv, Typed, Repeated
  <2>6. pc'[j] = "finish"
    BY FailFacts DEF IInv
  <2>7. QED
    BY <2>2, <2>4, <2>5, <2>6 DEF RowsOK, Ended, Reached
<1>3. QED
  BY <1>1, <1>2

LEMMA RequestRows ==
  ASSUME IInv, NEW r \in Requests, NEW k \in Jobs, RowsOK(k), Handler(r)
  PROVE  RowsOK(k)'
<1> USE DEF rows, work, memory, ops, proc
<1>1. CASE DeleteFiles(r)
  <2>1. CASE opJob[r] = k
    <3>1. "purged" \in marks'[k]
      BY <1>1, <2>1 DEF DeleteFiles, Mark, IInv, Typed
    <3>2. QED
      BY <3>1 DEF RowsOK
  <2>2. CASE opJob[r] # k
    <3>1. SameRows(k)
      BY <1>1, <2>2 DEF DeleteFiles, Mark, IInv, Typed, SameRows, Ongoing
    <3>2. QED
      BY <3>1, RowsFrame DEF IInv, JobInv
  <2>3. QED
    BY <2>1, <2>2
<1>2. CASE DeleteRecords(r)
  <2>1. CASE opJob[r] = k
    <3>1. "purged" \in marks'[k]
      BY <1>2, <2>1 DEF DeleteRecords, IInv, RequestOK
    <3>2. QED
      BY <3>1 DEF RowsOK
  <2>2. CASE opJob[r] # k
    <3>1. SameRows(k)
      BY <1>2, <2>2 DEF DeleteRecords, IInv, Typed, SameRows, Ongoing
    <3>2. QED
      BY <3>1, RowsFrame DEF IInv, JobInv
  <2>3. QED
    BY <2>1, <2>2
<1>3. CASE CancelWrite(r)
  <2>1. UNCHANGED <<assets, files, work, launch>>
    BY <1>3 DEF CancelWrite
  <2>2. marks[k] \subseteq marks'[k]
    BY <1>3 DEF CancelWrite, SetTerminal, IInv, Typed
  <2>3. QED
    BY <2>1, <2>2, RowsFrame DEF SameRows, Ongoing, IInv, JobInv
<1>4. CASE CancelSignal(r) \/ CancelFails(r) \/ DeleteRow(r) \/ DeleteFails(r)
  <2>1. UNCHANGED <<assets, files, work, launch, marks>>
    BY <1>4 DEF CancelSignal, CancelFails, DeleteRow, DeleteFails
  <2>2. QED
    BY <2>1, RowsFrame DEF SameRows, Ongoing, IInv, JobInv
<1>5. QED
  BY <1>1, <1>2, <1>3, <1>4 DEF Handler

LEMMA RowsStep ==
  ASSUME IInv, NEW k \in Jobs, RowsOK(k), [Next]_vars
  PROVE  RowsOK(k)'
<1> USE DEF rows, work, memory, ops, proc
<1>1. ASSUME NEW j \in Jobs, RunCreate(j) \/ RunHandler(j) PROVE RowsOK(k)'
  BY <1>1, RunRows, RowsFrame DEF IInv, JobInv
<1>2. ASSUME NEW j \in Jobs, Worker(j) PROVE RowsOK(k)'
  BY <1>2, PlainWorkerRows, RowsFrame, StoreFileRows, CreateAssetRows, AssetBackRows,
     CleanupRows DEF Worker, IInv, JobInv
<1>3. ASSUME NEW r \in Requests, Handler(r) PROVE RowsOK(k)'
  BY <1>3, RequestRows
<1>4. CASE CloseReturns \/ CloseAborts \/ Crash
  <2>1. Halt
    BY <1>4 DEF CloseReturns, CloseAborts, Crash
  <2>2. UNCHANGED <<assets, files, idx, made>> /\ marks[k] \subseteq marks'[k]
    BY <2>1 DEF Halt
  <2>3. CASE launch[k] = "idle"
    <3>1. pc[k] = "off" /\ pc'[k] = "off" /\ launch'[k] = "idle"
      BY <2>1, <2>3 DEF Halt, IInv, JobInv, LoopOK
    <3>2. QED
      BY <2>2, <2>3, <3>1, RowsFrame DEF SameRows, Ongoing, IInv, JobInv
  <2>4. CASE launch[k] # "idle"
    <3>1. ~Ongoing(k)' /\ pc'[k] \in Ended /\ Repeated(k)' = Repeated(k)
      BY <2>1, <2>2, <2>4 DEF Halt, Ongoing, Ended, Repeated
    <3>2. QED
      BY <2>2, <3>1 DEF RowsOK
  <2>5. QED
    BY <2>3, <2>4
<1>5. ASSUME UNCHANGED <<assets, files, work, launch, marks>> PROVE RowsOK(k)'
  BY <1>5, RowsFrame DEF SameRows, Ongoing, IInv, JobInv
<1>6. ASSUME NEW j \in Jobs, CreateDeployment(j) \/ DeleteDeployment(j) PROVE RowsOK(k)'
  BY <1>5, <1>6 DEF CreateDeployment, DeleteDeployment
<1>7. ASSUME NEW r \in Requests, NEW j \in Jobs, CancelRead(r, j) \/ DeleteRead(r, j)
      PROVE  RowsOK(k)'
  BY <1>5, <1>7 DEF CancelRead, DeleteRead
<1>8. ASSUME NEW j \in Jobs, CloseCancel(j) PROVE RowsOK(k)'
  BY <1>5, <1>8 DEF CloseCancel
<1>9. CASE Signal \/ Shutdown \/ CloseSnapshot \/ Restart \/ Stopped \/ UNCHANGED vars
  BY <1>5, <1>9 DEF Signal, Shutdown, CloseSnapshot, Restart, Stopped, vars
<1>10. QED
  BY <1>1, <1>2, <1>3, <1>4, <1>6, <1>7, <1>8, <1>9 DEF Next, Closing, Requests

(* Every asset row has its file, but for the one whose path the worker met *)
(* again in its last entry: for every manifest the planner may lay out.    *)
THEOREM RowsHaveFiles == Spec => []RowsBackedByFiles
<1> DEFINE RInv == \A k \in Jobs : RowsOK(k)
<1>1. Init => RInv
  BY DEF Init, RowsOK
<1>2. IInv /\ RInv /\ [Next]_vars => RInv'
  BY RowsStep
<1>3. RInv => RowsBackedByFiles
  BY DEF RowsOK, Ended, RowsBackedByFiles
<1>4. QED
  BY <1>1, <1>2, <1>3, Invariance, PTL DEF Spec

(***************************************************************************)
(* Final statuses.                                                         *)
(***************************************************************************)
Final(k) == status[k] \in {"completed", "failed"} => status'[k] \in {status[k], "none"}

LEMMA FinalStep ==
  ASSUME IInv, NEW k \in Jobs, [Next]_vars
  PROVE  Final(k)
<1> USE DEF Final, rows, work, memory, ops, proc
<1>1. ASSUME NEW j \in Jobs, RunCreate(j) \/ RunHandler(j) PROVE Final(k)
  BY <1>1 DEF RunCreate, RunHandler, RunSetRunning, RunLaunch, RunAbort, IInv, Typed,
     JobInv, StatusOK
<1>2. ASSUME NEW j \in Jobs, Worker(j) PROVE Final(k)
  <2>1. CASE SummaryWrite(j)
    BY <2>1 DEF SummaryWrite, IInv, Typed, JobInv, StatusOK
  <2>2. CASE Finish(j)
    BY <2>2 DEF Finish, SetTerminal, Updatable, Open, IInv, Typed
  <2>3. CASE UNCHANGED status
    BY <2>3
  <2>4. QED
    BY <1>2, <2>1, <2>2, <2>3 DEF Worker, WorkerHead, SummaryRead, SummaryBack,
       SummaryFails, Generate, Render, StoreFile, CreateAsset, AssetBack, CleanupStoredFile
<1>3. ASSUME NEW r \in Requests, Handler(r) PROVE Final(k)
  <2>1. CASE CancelWrite(r)
    BY <2>1 DEF CancelWrite, SetTerminal, Updatable, Open, IInv, Typed
  <2>2. CASE DeleteRow(r)
    BY <2>2 DEF DeleteRow, IInv, Typed
  <2>3. CASE UNCHANGED status
    BY <2>3
  <2>4. QED
    BY <1>3, <2>1, <2>2, <2>3 DEF Handler, CancelSignal, CancelFails, DeleteFiles,
       DeleteRecords, DeleteFails
<1>4. CASE UNCHANGED status
  BY <1>4
<1>5. QED
  BY <1>1, <1>2, <1>3, <1>4 DEF Next, CreateDeployment, DeleteDeployment, CancelRead,
     DeleteRead, Signal, Closing, Shutdown, CloseSnapshot, CloseCancel, CloseReturns,
     CloseAborts, Crash, Halt, Restart, Stopped, vars

(* Whoever comes late, a cancel, Close or the worker itself, finds that a  *)
(* completed or failed job keeps its status.                               *)
THEOREM FinalStatuses == Spec => CompletedAndFailedAreFinal
<1>1. IInv /\ [Next]_vars =>
        [\A j \in Jobs :
           status[j] \in {"completed", "failed"} => status'[j] \in {status[j], "none"}]_vars
  BY FinalStep DEF Final
<1>2. QED
  BY <1>1, Invariance, PTL DEF Spec, CompletedAndFailedAreFinal

-----------------------------------------------------------------------------
(***************************************************************************)
(* GenerationJobs implements JobLifecycle: the statuses of a row, the      *)
(* stage of its work and the record of its settling follow the abstract    *)
(* life cycle, step by step.                                               *)
(***************************************************************************)
(* How a step changes the stages and the settled jobs. *)
LEMMA StageChange ==
  ASSUME NEW j \in Jobs, \A k \in Jobs : k # j => launch'[k] = launch[k] /\ pc'[k] = pc[k],
         NEW s, stage'[j] = s
  PROVE  stage' = [stage EXCEPT ![j] = s]
<1>1. ASSUME NEW k \in Jobs, k # j PROVE stage'[k] = stage[k]
  BY <1>1 DEF stage
<1>2. stage' = [k \in Jobs |-> stage'[k]] /\ stage = [k \in Jobs |-> stage[k]]
  BY DEF stage
<1>3. QED
  BY <1>1, <1>2

LEMMA StageSame ==
  ASSUME \A k \in Jobs : launch'[k] = launch[k] /\ (pc'[k] = "off" <=> pc[k] = "off")
  PROVE  stage' = stage
  BY DEF stage

LEMMA SettledSame ==
  ASSUME \A k \in Jobs : "settled" \in marks'[k] <=> "settled" \in marks[k]
  PROVE  settled' = settled
  BY DEF settled

(* A step that changes neither statuses, nor stages, nor what is settled. *)
LEMMA Stutter ==
  ASSUME UNCHANGED <<status, launch, marks>>,
         \A k \in Jobs : pc'[k] = "off" <=> pc[k] = "off"
  PROVE  UNCHANGED <<status, stage, settled>>
<1>1. stage' = stage
  BY StageSame
<1>2. settled' = settled
  BY DEF settled
<1>3. QED
  BY <1>1, <1>2

(***************************************************************************)
(* Each action of GenerationJobs is an action of JobLifecycle, or none.    *)
(***************************************************************************)
LEMMA RunCreateRefines ==
  ASSUME IInv, NEW j \in Jobs, RunCreate(j)
  PROVE  Lifecycle!Submit(j)
<1> USE DEF RunCreate, rows, work, memory, ops, proc
<1>1. stage[j] = "new" /\ settled' = settled
  BY SettledSame DEF stage
<1>2. stage' = [stage EXCEPT ![j] = "launching"]
  <2>1. launch'[j] = "created" /\ \A k \in Jobs : k # j => launch'[k] = launch[k] /\ pc'[k] = pc[k]
    BY DEF IInv, Typed
  <2>2. stage'[j] = "launching"
    BY <2>1 DEF stage
  <2>3. QED
    BY <2>1, <2>2, StageChange
<1>3. QED
  BY <1>1, <1>2 DEF Lifecycle!Submit

LEMMA RunSetRunningRefines ==
  ASSUME IInv, NEW j \in Jobs, RunSetRunning(j)
  PROVE  Lifecycle!Start(j)
<1> USE DEF RunSetRunning, rows, work, memory, ops, proc
<1>1. stage[j] = "launching" /\ settled' = settled
  BY SettledSame DEF stage
<1>2. status[j] \in Lifecycle!Open \cup {"canceled"}
  BY DEF IInv, JobInv, StatusOK, Lifecycle!Open
<1>3. stage' = stage
  <2>1. \A k \in Jobs : stage'[k] = stage[k]
    BY DEF stage, IInv, Typed
  <2>2. QED
    BY <2>1 DEF stage
<1>4. QED
  BY <1>1, <1>2, <1>3 DEF Lifecycle!Start

LEMMA RunLaunchRefines ==
  ASSUME IInv, NEW j \in Jobs, RunLaunch(j)
  PROVE  Lifecycle!HandOver(j)
<1> USE DEF RunLaunch, rows, work, memory, ops, proc
<1>1. stage[j] = "launching" /\ settled' = settled
  BY SettledSame DEF stage
<1>2. stage' = [stage EXCEPT ![j] = "working"]
  <2>1. /\ launch'[j] = "done" /\ pc'[j] # "off"
        /\ \A k \in Jobs : k # j => launch'[k] = launch[k] /\ pc'[k] = pc[k]
    BY DEF IInv, Typed
  <2>2. stage'[j] = "working"
    BY <2>1 DEF stage
  <2>3. QED
    BY <2>1, <2>2, StageChange
<1>3. QED
  BY <1>1, <1>2 DEF Lifecycle!HandOver

(* The work of one job ends. *)
LEMMA QuitOne ==
  ASSUME IInv, NEW j \in Jobs, launch[j] # "idle", UNCHANGED <<status, settled>>,
         launch'[j] = "done", pc'[j] = "off",
         \A k \in Jobs : k # j => launch'[k] = launch[k] /\ pc'[k] = pc[k]
  PROVE  Lifecycle!Quit
<1>1. stage' = [k \in Jobs |-> IF k \in {j} THEN "over" ELSE stage[k]]
  BY DEF stage
<1>2. {j} \in SUBSET {k \in Jobs : stage[k] # "new"}
  BY DEF stage
<1>3. QED
  BY <1>1, <1>2 DEF Lifecycle!Quit

(* A mark other than "settled". *)
LEMMA DroppedSame ==
  ASSUME IInv, NEW j \in Jobs, Mark(j, "dropped") \/ UNCHANGED marks
  PROVE  settled' = settled
<1>1. \A k \in Jobs : "settled" \in marks'[k] <=> "settled" \in marks[k]
  BY DEF Mark, IInv, Typed
<1>2. QED
  BY <1>1, SettledSame

LEMMA RunAbortRefines ==
  ASSUME IInv, NEW j \in Jobs, RunAbort(j)
  PROVE  Lifecycle!Quit
<1> USE DEF RunAbort, rows, work
<1>1. launch'[j] = "done" /\ pc'[j] = "off" /\ launch[j] # "idle"
  BY DEF IInv, Typed, JobInv, LoopOK
<1>2. \A k \in Jobs : k # j => launch'[k] = launch[k] /\ pc'[k] = pc[k]
  BY DEF IInv, Typed
<1>3. settled' = settled
  BY DroppedSame
<1>4. QED
  BY <1>1, <1>2, <1>3, QuitOne

LEMMA SummaryFailsRefines ==
  ASSUME IInv, NEW j \in Jobs, SummaryFails(j)
  PROVE  Lifecycle!Quit
<1> USE DEF SummaryFails, SummaryPc, Return, Goto, rows
<1>1. launch[j] = "done" /\ pc'[j] = "off" /\ UNCHANGED launch
  BY DEF IInv, Typed, JobInv, LoopOK
<1>2. \A k \in Jobs : k # j => launch'[k] = launch[k] /\ pc'[k] = pc[k]
  BY DEF IInv, Typed
<1>3. settled' = settled
  BY DroppedSame
<1>4. QED
  BY <1>1, <1>2, <1>3, QuitOne

(* A worker that goes on to another step of the same job. *)
LEMMA Busy ==
  ASSUME Typed, NEW j \in Jobs, UNCHANGED launch, pc[j] # "off", pc'[j] # "off",
         \A k \in Jobs : k # j => pc'[k] = pc[k]
  PROVE  stage' = stage
  BY StageSame

LEMMA SummaryWriteRefines ==
  ASSUME IInv, NEW j \in Jobs, SummaryWrite(j)
  PROVE  Lifecycle!Reopen(j) \/ UNCHANGED <<status, stage, settled>>
<1> USE DEF SummaryWrite, SummaryBlocked, Goto, memory
<1>1. stage' = stage
  BY Busy DEF IInv, Typed
<1>2. stage[j] = "working"
  BY DEF stage, IInv, JobInv, LoopOK
<1>3. settled' = settled
  BY DEF settled
<1>4. /\ status[j] \in {"running", "canceled"} /\ seen[j] \in {"running", "canceled"}
      /\ status' = [status EXCEPT ![j] = seen[j]]
  BY DEF IInv, JobInv, StatusOK
<1>5. CASE status[j] = seen[j]
  BY <1>1, <1>3, <1>4, <1>5 DEF IInv, Typed
<1>6. CASE status[j] # seen[j]
  <2>1. j \in settled
    BY <1>4, <1>6 DEF IInv, JobInv, StatusOK, Terminal, settled
  <2>2. QED
    BY <1>1, <1>2, <1>3, <1>4, <2>1 DEF Lifecycle!Reopen
<1>7. QED
  BY <1>5, <1>6

LEMMA SetTerminalSettles ==
  ASSUME Typed, NEW j \in Jobs, NEW s, NEW n, SetTerminal(j, s, n), Updatable(j)
  PROVE  status' = [status EXCEPT ![j] = s] /\ settled' = settled \cup {j}
<1>1. marks' = [marks EXCEPT ![j] = @ \cup {"settled"}]
  BY DEF SetTerminal
<1>2. \A k \in Jobs : "settled" \in marks'[k] <=> k = j \/ "settled" \in marks[k]
  BY <1>1 DEF Typed
<1>3. QED
  BY <1>2 DEF SetTerminal, settled

LEMMA FinishRefines ==
  ASSUME IInv, NEW j \in Jobs, Finish(j)
  PROVE  Lifecycle!Settle(j) \/ Lifecycle!Quit
<1>1. /\ launch[j] = "done" /\ launch'[j] = "done" /\ pc[j] # "off" /\ pc'[j] = "off"
      /\ \A k \in Jobs : k # j => launch'[k] = launch[k] /\ pc'[k] = pc[k]
  BY DEF Finish, Return, Goto, IInv, Typed, JobInv, LoopOK
<1>2. CASE SetTerminal(j, verdict[j], made[j]) /\ Updatable(j)
  <2>1. stage[j] = "working" /\ stage'[j] = "over"
    BY <1>1 DEF stage
  <2>2. stage' = [stage EXCEPT ![j] = "over"]
    BY <1>1, <2>1, StageChange
  <2>3. status' = [status EXCEPT ![j] = verdict[j]] /\ settled' = settled \cup {j}
    BY <1>2, SetTerminalSettles DEF IInv
  <2>4. verdict[j] \in Lifecycle!Terminal /\ status[j] \in Lifecycle!Open
    BY <1>2 DEF IInv, Typed, Terminal, Updatable, Open, Lifecycle!Terminal, Lifecycle!Open
  <2>5. QED
    BY <2>1, <2>2, <2>3, <2>4 DEF Lifecycle!Settle
<1>3. CASE UNCHANGED status /\ (Mark(j, "dropped") \/ UNCHANGED marks)
  BY <1>1, <1>3, DroppedSame, QuitOne
<1>4. QED
  BY <1>2, <1>3 DEF Finish, SetTerminal

LEMMA WorkerRefines ==
  ASSUME IInv, NEW j \in Jobs, Worker(j)
  PROVE  [Lifecycle!Next]_<<status, stage, settled>>
<1> USE DEF rows, work, memory, Goto
<1>1. CASE SummaryWrite(j)
  BY <1>1, SummaryWriteRefines DEF Lifecycle!Next
<1>2. CASE SummaryFails(j)
  BY <1>2, SummaryFailsRefines DEF Lifecycle!Next
<1>3. CASE Finish(j)
  BY <1>3, FinishRefines DEF Lifecycle!Next
<1>4. CASE WorkerHead(j) \/ SummaryRead(j) \/ SummaryBack(j) \/ Generate(j) \/ Render(j)
  <2>1. UNCHANGED <<status, launch, marks>>
    BY <1>4 DEF WorkerHead, SummaryRead, SummaryBack, Generate, Render
  <2>2. \A k \in Jobs : pc'[k] = "off" <=> pc[k] = "off"
    BY <1>4 DEF WorkerHead, SummaryRead, SummaryBack, Generate, Render, Fail, Conclude,
       IInv, Typed
  <2>3. QED
    BY <2>1, <2>2, Stutter
<1>5. CASE StoreFile(j) \/ CreateAsset(j) \/ AssetBack(j) \/ CleanupStoredFile(j)
  <2>1. UNCHANGED <<status, launch>>
    BY <1>5 DEF StoreFile, CreateAsset, AssetBack, CleanupStoredFile
  <2>2. \A k \in Jobs : "settled" \in marks'[k] <=> "settled" \in marks[k]
    BY <1>5 DEF StoreFile, CreateAsset, AssetBack, CleanupStoredFile, Mark, IInv, Typed
  <2>3. \A k \in Jobs : pc'[k] = "off" <=> pc[k] = "off"
    BY <1>5 DEF StoreFile, CreateAsset, AssetBack, CleanupStoredFile, Fail, Conclude,
       IInv, Typed
  <2>4. QED
    BY <2>1, <2>2, <2>3, StageSame, SettledSame
<1>6. QED
  BY <1>1, <1>2, <1>3, <1>4, <1>5 DEF Worker

LEMMA HandlerRefines ==
  ASSUME IInv, NEW r \in Requests, Handler(r)
  PROVE  [Lifecycle!Next]_<<status, stage, settled>>
<1> USE DEF rows, work, memory, proc
<1>1. CASE CancelWrite(r)
  <2>0. PICK j \in Jobs : j = opJob[r]
    BY <1>1 DEF CancelWrite, IInv, RequestOK
  <2>1. stage' = stage
    BY <1>1, StageSame DEF CancelWrite
  <2>2. CASE Updatable(j)
    <3>1. status' = [status EXCEPT ![j] = "canceled"] /\ settled' = settled \cup {j}
      BY <1>1, <2>0, <2>2, SetTerminalSettles DEF CancelWrite, IInv
    <3>2. Lifecycle!Cancel(j)
      BY <2>1, <2>2, <3>1 DEF Lifecycle!Cancel, Updatable, Open, Lifecycle!Open
    <3>3. QED
      BY <3>2 DEF Lifecycle!Next
  <2>3. CASE ~Updatable(j)
    BY <1>1, <2>0, <2>1, <2>3 DEF CancelWrite, SetTerminal, settled
  <2>4. QED
    BY <2>2, <2>3
<1>2. CASE DeleteRow(r)
  <2>0. PICK j \in Jobs : j = opJob[r]
    BY <1>2 DEF DeleteRow, IInv, RequestOK
  <2>1. stage' = stage /\ settled' = settled
    BY <1>2, StageSame, SettledSame DEF DeleteRow
  <2>2. j \in settled
    BY <1>2, <2>0 DEF DeleteRow, IInv, RequestOK, settled
  <2>3. CASE status[j] # "none" /\ Unreferenced(j)
    <3>1. Lifecycle!Remove(j)
      BY <1>2, <2>0, <2>1, <2>2, <2>3 DEF DeleteRow, Lifecycle!Remove
    <3>2. QED
      BY <3>1 DEF Lifecycle!Next
  <2>4. CASE ~(status[j] # "none" /\ Unreferenced(j))
    BY <1>2, <2>0, <2>1, <2>4 DEF DeleteRow, IInv, Typed
  <2>5. QED
    BY <2>3, <2>4
<1>3. CASE DeleteFiles(r)
  <2>1. UNCHANGED <<status, launch, pc>>
    BY <1>3 DEF DeleteFiles
  <2>2. \A k \in Jobs : "settled" \in marks'[k] <=> "settled" \in marks[k]
    BY <1>3 DEF DeleteFiles, Mark, IInv, Typed
  <2>3. QED
    BY <2>1, <2>2, StageSame, SettledSame
<1>4. CASE CancelSignal(r) \/ CancelFails(r) \/ DeleteRecords(r) \/ DeleteFails(r)
  <2>1. UNCHANGED <<status, launch, pc, marks>>
    BY <1>4 DEF CancelSignal, CancelFails, DeleteRecords, DeleteFails
  <2>2. QED
    BY <2>1, Stutter
<1>5. QED
  BY <1>1, <1>2, <1>3, <1>4 DEF Handler

LEMMA HaltRefines ==
  ASSUME IInv, Halt
  PROVE  Lifecycle!Quit
<1> DEFINE S == {j \in Jobs : stage[j] # "new"}
<1>1. stage' = [j \in Jobs |-> IF j \in S THEN "over" ELSE stage[j]]
  BY DEF Halt, stage
<1>2. UNCHANGED status
  BY DEF Halt, rows
<1>3. settled' = settled
  <2>1. \A k \in Jobs : "settled" \in marks'[k] <=> "settled" \in marks[k]
    BY DEF Halt
  <2>2. QED
    BY <2>1, SettledSame
<1>4. QED
  BY <1>1, <1>2, <1>3 DEF Lifecycle!Quit

LEMMA StepRefines ==
  ASSUME IInv, [Next]_vars
  PROVE  [Lifecycle!Next]_<<status, stage, settled>>
<1> USE DEF rows, work, memory, ops, proc
<1>1. ASSUME NEW j \in Jobs, RunCreate(j) \/ RunHandler(j)
      PROVE  Lifecycle!Next
  BY <1>1, RunCreateRefines, RunSetRunningRefines, RunLaunchRefines, RunAbortRefines
     DEF RunHandler, Lifecycle!Next
<1>2. ASSUME NEW j \in Jobs, Worker(j)
      PROVE  [Lifecycle!Next]_<<status, stage, settled>>
  BY <1>2, WorkerRefines
<1>3. ASSUME NEW r \in Requests, Handler(r)
      PROVE  [Lifecycle!Next]_<<status, stage, settled>>
  BY <1>3, HandlerRefines
<1>4. CASE CloseReturns \/ CloseAborts \/ Crash
  BY <1>4, HaltRefines DEF CloseReturns, CloseAborts, Crash, Lifecycle!Next
<1>5. CASE UNCHANGED <<status, launch, pc, marks>>
  BY <1>5, Stutter
<1>6. QED
  BY <1>1, <1>2, <1>3, <1>4, <1>5 DEF Next, CreateDeployment, DeleteDeployment,
     CancelRead, DeleteRead, Signal, Closing, Shutdown, CloseSnapshot, CloseCancel,
     Restart, Stopped, vars

(* Every behaviour of the service is one of the abstract life cycle: rows  *)
(* are settled by live workers or by cancels, reopened only by a worker    *)
(* whose job was canceled, and removed only once settled.                  *)
THEOREM LifecycleImplemented == Spec => ImplementsLifecycle
<1>1. Init => Lifecycle!Init
  BY DEF Init, Lifecycle!Init, stage, settled
<1>2. IInv /\ [Next]_vars => [Lifecycle!Next]_(Lifecycle!vars)
  BY StepRefines DEF Lifecycle!vars
<1>3. QED
  BY <1>1, <1>2, Invariance, PTL DEF Spec, ImplementsLifecycle, Lifecycle!Spec

(***************************************************************************)
(* What liveness rests on.  That workers settle and a signal ends the      *)
(* process depends on fairness, but that every loop of a goroutine comes   *)
(* to an end does not.                                                     *)
(***************************************************************************)

(* jobCancels has an entry for each worker that lives and for no other:    *)
(* Close and cancels find every worker they have to stop, and a process    *)
(* that has ended has none.                                                *)
TrackedOK ==
  /\ \A j \in Jobs : j \in tracked <=> pc[j] # "off"
  /\ phase = "down" => \A j \in Jobs : pc[j] = "off"

(* How many steps of its entry a worker has left, and how many a worker    *)
(* has whose context is cancelled.                                         *)
PlaceLeft(j) ==
  CASE pc[j] = "head"   -> 14 [] pc[j] = "read1"  -> 13 [] pc[j] = "write1"   -> 12
    [] pc[j] = "back1"  -> 11 [] pc[j] = "generate" -> 10 [] pc[j] = "render" -> 9
    [] pc[j] = "store"  -> 8  [] pc[j] = "create" -> 7  [] pc[j] = "back"     -> 6
    [] pc[j] = "read2"  -> 5  [] pc[j] = "write2" -> 4  [] pc[j] = "back2"    -> 3
    [] pc[j] = "cleanup" -> 2 [] pc[j] = "finish" -> 1  [] OTHER              -> 0

StopLeft(j) ==
  CASE pc[j] \in {"head", "generate", "cleanup"} -> 2
    [] pc[j] \in {"read1", "write1", "back1", "finish"} -> 1
    [] OTHER -> PlaceLeft(j)

WorkLeft(j) == IF pc[j] = "off" THEN 0 ELSE 12 * (Size(j) + 1 - idx[j]) + PlaceLeft(j)

LeftOK(j) ==
  /\ PlaceLeft(j) \in 0..14 /\ (pc[j] # "off" => PlaceLeft(j) \in 1..14)
  /\ StopLeft(j) \in 0..9
  /\ Size(j) \in Nat /\ idx[j] \in 1..(Size(j) + 1)

LeftsOK == \A j \in Jobs : LeftOK(j)

LEMMA LeftFacts == ASSUME IInv, NEW j \in Jobs PROVE LeftOK(j)
<1>1. pc[j] \in WorkerPc /\ idx[j] \in 1..(Size(j) + 1) /\ Size(j) \in Nat
  BY ManifestFacts DEF IInv, Typed, JobInv, LoopOK
<1>2. PlaceLeft(j) \in 0..14 /\ (pc[j] # "off" => PlaceLeft(j) \in 1..14)
  <2>1. CASE pc[j] \in {"off", "head", "read1", "write1", "back1", "generate", "render"}
    BY <2>1 DEF PlaceLeft
  <2>2. CASE pc[j] \in {"store", "create", "back", "read2", "write2", "back2", "cleanup", "finish"}
    BY <2>2 DEF PlaceLeft
  <2>3. QED
    BY <1>1, <2>1, <2>2 DEF WorkerPc
<1>3. StopLeft(j) \in 0..9
  BY <1>1 DEF StopLeft, PlaceLeft, WorkerPc
<1>4. QED
  BY <1>1, <1>2, <1>3 DEF LeftOK

LEMMA LeftInvariance == Spec => []LeftsOK
<1>1. IInv => LeftsOK
  BY LeftFacts DEF LeftsOK
<1>2. QED
  BY <1>1, Invariance, PTL

(* One step of a worker: it comes nearer to the end of its entry or goes   *)
(* on to the next, and when its context is cancelled it comes nearer to    *)
(* its end.                                                                *)
Advance(j) ==
  /\ \/ idx'[j] = idx[j] /\ PlaceLeft(j)' < PlaceLeft(j)
     \/ pc[j] = "back2" /\ pc'[j] = "head" /\ idx'[j] = idx[j] + 1
  /\ CtxDone(j) => StopLeft(j)' < StopLeft(j)

LEMMA WorkerAdvances ==
  ASSUME IInv, NEW j \in Jobs, Worker(j)
  PROVE  Advance(j)
<1> USE DEF Advance, PlaceLeft, StopLeft, Goto
<1>1. pc \in [Jobs -> WorkerPc] /\ idx \in [Jobs -> Nat] /\ Size(j) \in Nat
  BY ManifestFacts DEF IInv, Typed
<1>2. CASE WorkerHead(j)
  BY <1>1, <1>2 DEF WorkerHead, Conclude
<1>3. CASE SummaryRead(j)
  BY <1>1, <1>3 DEF SummaryRead, SummaryBlocked
<1>4. CASE SummaryWrite(j)
  BY <1>1, <1>4 DEF SummaryWrite, SummaryBlocked
<1>5. CASE SummaryBack(j)
  BY <1>1, <1>5 DEF SummaryBack, SummaryBlocked
<1>6. CASE SummaryFails(j)
  BY <1>1, <1>6 DEF SummaryFails, SummaryPc, Return
<1>7. CASE Generate(j)
  BY <1>1, <1>7 DEF Generate, Fail, Conclude
<1>8. CASE Render(j) \/ StoreFile(j)
  BY <1>1, <1>8 DEF Render, StoreFile, Fail, Conclude
<1>9. CASE CreateAsset(j) \/ AssetBack(j)
  BY <1>1, <1>9 DEF CreateAsset, AssetBack, rows
<1>10. CASE CleanupStoredFile(j) \/ Finish(j)
  BY <1>1, <1>10 DEF CleanupStoredFile, Finish, Fail, Conclude, Return
<1>11. QED
  BY <1>2, <1>3, <1>4, <1>5, <1>6, <1>7, <1>8, <1>9, <1>10 DEF Worker

(* What a worker's step leaves alone. *)
LEMMA WorkerFrame ==
  ASSUME IInv, NEW j \in Jobs, Worker(j)
  PROVE  /\ pc[j] # "off" /\ phase # "down" /\ UNCHANGED <<phase, todo, canceled, ops>>
         /\ \A k \in Jobs \ {j} : pc'[k] = pc[k] /\ idx'[k] = idx[k]
         /\ tracked' = IF pc'[j] = "off" THEN tracked \ {j} ELSE tracked
<1> USE DEF IInv, Typed, Goto, memory, proc
<1>1. phase # "down"
  BY DEF Worker
<1>2. CASE WorkerHead(j) \/ SummaryRead(j) \/ SummaryWrite(j) \/ SummaryBack(j)
  BY <1>1, <1>2 DEF WorkerHead, SummaryRead, SummaryWrite, SummaryBack, Conclude
<1>3. CASE SummaryFails(j) \/ Finish(j)
  BY <1>1, <1>3 DEF SummaryFails, Finish, SummaryPc, Return
<1>4. CASE Generate(j) \/ Render(j) \/ StoreFile(j) \/ CleanupStoredFile(j)
  BY <1>1, <1>4 DEF Generate, Render, StoreFile, CleanupStoredFile, Fail, Conclude
<1>5. CASE CreateAsset(j) \/ AssetBack(j)
  BY <1>1, <1>5 DEF CreateAsset, AssetBack
<1>6. QED
  BY <1>2, <1>3, <1>4, <1>5 DEF Worker

(* What the steps of requests, of the launch and of the process do to a    *)
(* worker at work: nothing, but that its context may be cancelled, or the  *)
(* process ends.                                                           *)
LEMMA Bystander ==
  ASSUME IInv, TrackedOK, NEW j \in Jobs, pc[j] # "off", Next, ~Worker(j)
  PROVE  \/ pc'[j] = "off"
         \/ pc'[j] = pc[j] /\ idx'[j] = idx[j] /\ (CtxDone(j) => CtxDone(j)')
<1> USE DEF rows, work, memory, ops, proc, CtxDone
<1>1. ASSUME NEW k \in Jobs, Worker(k)
      PROVE  pc'[j] = pc[j] /\ idx'[j] = idx[j] /\ (CtxDone(j) => CtxDone(j)')
  <2>1. j # k
    BY <1>1
  <2>2. QED
    BY <1>1, <2>1, WorkerFrame
<1>2. ASSUME NEW k \in Jobs, RunCreate(k) \/ RunSetRunning(k) \/ RunAbort(k)
      PROVE  UNCHANGED <<work, memory, phase>>
  BY <1>2 DEF RunCreate, RunSetRunning, RunAbort
<1>3. ASSUME NEW k \in Jobs, RunLaunch(k)
      PROVE  pc'[j] = pc[j] /\ UNCHANGED <<idx, canceled, phase>>
  BY <1>3 DEF RunLaunch, IInv, JobInv, LoopOK, Typed
<1>4. ASSUME NEW r \in Requests, Handler(r)
      PROVE  UNCHANGED <<work, phase>> /\ canceled \subseteq canceled'
  BY <1>4 DEF Handler, CancelWrite, CancelSignal, CancelFails, DeleteFiles, DeleteRecords,
     DeleteRow, DeleteFails
<1>5. ASSUME NEW k \in Jobs, CreateDeployment(k) \/ DeleteDeployment(k) \/ CloseCancel(k)
      PROVE  UNCHANGED <<work, memory, phase>>
  BY <1>5 DEF CreateDeployment, DeleteDeployment, CloseCancel
<1>6. ASSUME NEW r, NEW k \in Jobs, CancelRead(r, k) \/ DeleteRead(r, k)
      PROVE  UNCHANGED <<work, memory, phase>>
  BY <1>6 DEF CancelRead, DeleteRead
<1>7. CASE Signal \/ Shutdown \/ CloseSnapshot
  BY <1>7 DEF Signal, Shutdown, CloseSnapshot
<1>8. CASE CloseReturns \/ CloseAborts \/ Crash
  BY <1>8 DEF CloseReturns, CloseAborts, Crash, Halt
<1>9. ~Restart
  BY DEF Restart, TrackedOK
<1>10. CASE Stopped
  BY <1>10 DEF Stopped, vars
<1>11. QED
  BY <1>1, <1>2, <1>3, <1>4, <1>5, <1>6, <1>7, <1>8, <1>9, <1>10
     DEF Next, RunHandler, Closing

LEMMA TrackedInvariance == Spec => []TrackedOK
<1>1. Init => TrackedOK
  BY DEF Init, TrackedOK
<1>2. ASSUME IInv, TrackedOK, [Next]_vars PROVE TrackedOK'
  <2> USE DEF TrackedOK, rows, work, memory, ops, proc
  <2>1. ASSUME NEW j \in Jobs, Worker(j) PROVE TrackedOK'
    BY <1>2, <2>1, WorkerFrame
  <2>2. ASSUME NEW j \in Jobs, RunLaunch(j) PROVE TrackedOK'
    BY <1>2, <2>2 DEF RunLaunch, IInv, Typed
  <2>3. CASE Halt
    BY <2>3 DEF Halt
  <2>4. CASE UNCHANGED <<pc, tracked>> /\ (phase' = "down" => phase = "down")
    BY <1>2, <2>4
  <2>5. ASSUME NEW j \in Jobs, RunCreate(j) \/ RunSetRunning(j) \/ RunAbort(j)
                               \/ CreateDeployment(j) \/ DeleteDeployment(j) \/ CloseCancel(j)
        PROVE  UNCHANGED <<pc, tracked, phase>>
    BY <2>5 DEF RunCreate, RunSetRunning, RunAbort, CreateDeployment, DeleteDeployment, CloseCancel
  <2>6. ASSUME NEW r \in Requests, Handler(r)
        PROVE  UNCHANGED <<pc, tracked, phase>>
    BY <2>6 DEF Handler, CancelWrite, CancelSignal, CancelFails, DeleteFiles, DeleteRecords,
       DeleteRow, DeleteFails
  <2>7. ASSUME NEW r, NEW j \in Jobs, CancelRead(r, j) \/ DeleteRead(r, j)
        PROVE  UNCHANGED <<pc, tracked, phase>>
    BY <2>7 DEF CancelRead, DeleteRead
  <2>8. CASE Signal \/ Shutdown \/ CloseSnapshot \/ Restart
    BY <1>2, <2>8 DEF Signal, Shutdown, CloseSnapshot, Restart
  <2>9. CASE Stopped \/ UNCHANGED vars
    BY <1>2, <2>9 DEF Stopped, vars
  <2>10. QED
    BY <1>2, <2>1, <2>2, <2>3, <2>4, <2>5, <2>6, <2>7, <2>8, <2>9
       DEF Next, RunHandler, Closing, CloseReturns, CloseAborts, Crash
<1>3. QED
  BY <1>1, <1>2, Invariance, PTL DEF Spec

(* The map of cancel functions names the workers that live. *)
THEOREM WorkersAreTracked == Spec => [](\A j \in Jobs : j \in tracked <=> pc[j] # "off")
<1>1. TrackedOK => \A j \in Jobs : j \in tracked <=> pc[j] # "off"
  BY DEF TrackedOK
<1>2. QED
  BY <1>1, TrackedInvariance, PTL

(* A worker ends after at most 12 * Size(j) + 14 steps of its own: no step *)
(* goes back to an entry that it has passed, however often the requests,   *)
(* the launch and the process take steps in between.                       *)
WorkersAdvance ==
  [][\A j \in Jobs : pc[j] # "off" =>
       /\ WorkLeft(j) \in Nat /\ WorkLeft(j)' \in Nat
       /\ WorkLeft(j)' <= WorkLeft(j)
       /\ Worker(j) => WorkLeft(j)' < WorkLeft(j)]_vars

THEOREM WorkersEnd == Spec => WorkersAdvance
<1> DEFINE Down(j) == /\ WorkLeft(j) \in Nat /\ WorkLeft(j)' \in Nat
                      /\ WorkLeft(j)' <= WorkLeft(j)
                      /\ Worker(j) => WorkLeft(j)' < WorkLeft(j)
<1>1. ASSUME IInv, TrackedOK, Next, NEW j \in Jobs, LeftOK(j), LeftOK(j)', pc[j] # "off"
      PROVE  Down(j)
  <2>1. /\ Size(j) \in Nat /\ idx[j] \in 1..(Size(j) + 1) /\ idx'[j] \in 1..(Size(j) + 1)
        /\ PlaceLeft(j) \in 1..14 /\ PlaceLeft(j)' \in 0..14
    BY <1>1 DEF LeftOK
  <2>2. CASE Worker(j)
    <3>1. \/ idx'[j] = idx[j] /\ PlaceLeft(j)' < PlaceLeft(j)
          \/ PlaceLeft(j) = 3 /\ PlaceLeft(j)' = 14 /\ idx'[j] = idx[j] + 1
      BY <1>1, <2>2, WorkerAdvances DEF Advance, PlaceLeft
    <3>2. QED
      BY <1>1, <2>1, <3>1 DEF WorkLeft
  <2>3. CASE ~Worker(j)
    <3>1. pc'[j] = "off" \/ (idx'[j] = idx[j] /\ pc'[j] = pc[j] /\ PlaceLeft(j)' = PlaceLeft(j))
      BY <1>1, <2>3, Bystander DEF PlaceLeft
    <3>2. QED
      BY <1>1, <2>1, <2>3, <3>1 DEF WorkLeft
  <2>4. QED
    BY <2>2, <2>3
<1>2. ASSUME IInv, TrackedOK, [Next]_vars,
             LeftsOK, LeftsOK'
      PROVE  [\A j \in Jobs : pc[j] # "off" => Down(j)]_vars
  BY <1>1, <1>2 DEF LeftsOK
<1>3. QED
  BY <1>2, Invariance, TrackedInvariance, LeftInvariance, PTL DEF Spec, WorkersAdvance

(* A worker whose context is cancelled, by a cancel, by Close or by the    *)
(* signal, ends after at most nine steps of its own, whatever its manifest *)
(* still holds, and nothing takes the cancellation back while it lives.    *)
CancelsStop ==
  [][\A j \in Jobs : pc[j] # "off" /\ CtxDone(j) =>
       /\ pc'[j] # "off" => CtxDone(j)'
       /\ StopLeft(j) \in 0..9 /\ StopLeft(j)' \in 0..9
       /\ StopLeft(j)' <= StopLeft(j)
       /\ Worker(j) => StopLeft(j)' < StopLeft(j)]_vars

THEOREM CanceledWorkersStop == Spec => CancelsStop
<1> DEFINE Down(j) == /\ pc'[j] # "off" => CtxDone(j)'
                      /\ StopLeft(j) \in 0..9 /\ StopLeft(j)' \in 0..9
                      /\ StopLeft(j)' <= StopLeft(j)
                      /\ Worker(j) => StopLeft(j)' < StopLeft(j)
<1>1. ASSUME IInv, TrackedOK, Next, NEW j \in Jobs, LeftOK(j), LeftOK(j)',
             pc[j] # "off", CtxDone(j)
      PROVE  Down(j)
  <2>1. StopLeft(j) \in 0..9
    BY <1>1 DEF LeftOK
  <2>2. StopLeft(j)' \in 0..9
    BY <1>1 DEF LeftOK
  <2>3. CASE Worker(j)
    <3>1. UNCHANGED <<phase, canceled>>
      BY <1>1, <2>3, WorkerFrame
    <3>2. StopLeft(j)' < StopLeft(j)
      BY <1>1, <2>3, WorkerAdvances DEF Advance
    <3>3. QED
      BY <1>1, <2>1, <2>2, <3>1, <3>2 DEF CtxDone
  <2>4. CASE ~Worker(j)
    <3>1. \/ pc'[j] = "off"
          \/ pc'[j] = pc[j] /\ CtxDone(j)'
      BY <1>1, <2>4, Bystander
    <3>2. StopLeft(j)' = 0 \/ StopLeft(j)' = StopLeft(j)
      BY <3>1 DEF StopLeft, PlaceLeft
    <3>3. QED
      BY <2>1, <2>2, <2>4, <3>1, <3>2
  <2>5. QED
    BY <2>3, <2>4
<1>2. ASSUME IInv, TrackedOK, [Next]_vars,
             LeftsOK, LeftsOK'
      PROVE  [\A j \in Jobs : pc[j] # "off" /\ CtxDone(j) => Down(j)]_vars
  BY <1>1, <1>2 DEF LeftsOK
<1>3. QED
  BY <1>2, Invariance, TrackedInvariance, LeftInvariance, PTL DEF Spec, CancelsStop

(* How many steps a request has left. *)
HandlerLeft(r) ==
  CASE opPc[r] = "deleteFiles" -> 3
    [] opPc[r] \in {"cancelWrite", "deleteRecords"} -> 2
    [] opPc[r] \in {"cancelSignal", "deleteRow"} -> 1
    [] OTHER -> 0

LEMMA HandlerLeftType == ASSUME NEW r \in Requests PROVE HandlerLeft(r) \in 0..3
  BY DEF HandlerLeft

LEMMA HandlerAdvances ==
  ASSUME Typed, NEW r \in Requests, Handler(r)
  PROVE  /\ HandlerLeft(r)' \in 0..3 /\ HandlerLeft(r)' < HandlerLeft(r)
         /\ \A q \in Requests \ {r} : opPc'[q] = opPc[q]
         /\ UNCHANGED <<phase, todo>>
<1> USE DEF Typed, HandlerLeft, Begin, Proceed, End, proc
<1>1. CASE CancelWrite(r) \/ CancelSignal(r) \/ CancelFails(r)
  BY <1>1 DEF CancelWrite, CancelSignal, CancelFails
<1>2. CASE DeleteFiles(r)
  BY <1>2 DEF DeleteFiles
<1>3. CASE DeleteRecords(r) \/ DeleteRow(r) \/ DeleteFails(r)
  BY <1>3 DEF DeleteRecords, DeleteRow, DeleteFails
<1>4. QED
  BY <1>1, <1>2, <1>3 DEF Handler

(* What the other steps do to a request at work, and to Close: nothing,    *)
(* but that the process may end.                                           *)
LEMMA RequestBystander ==
  ASSUME IInv, NEW r \in Requests, Next, ~Handler(r), ~Closing,
         r = Closer \/ opPc[r] # "idle"
  PROVE  \/ phase' = "down" /\ opPc'[r] = "idle"
         \/ opPc'[r] = opPc[r] /\ (phase = "closing" => phase' = phase /\ todo' = todo)
<1> USE DEF rows, work, memory, ops, proc
<1>1. ASSUME NEW q \in Requests, Handler(q)
      PROVE  opPc'[r] = opPc[r] /\ UNCHANGED <<phase, todo>>
  BY <1>1, HandlerAdvances DEF IInv
<1>2. ASSUME NEW j \in Jobs, RunCreate(j) \/ RunSetRunning(j) \/ RunLaunch(j) \/ RunAbort(j)
      PROVE  UNCHANGED <<opPc, phase, todo>>
  BY <1>2 DEF RunCreate, RunSetRunning, RunLaunch, RunAbort
<1>3. ASSUME NEW j \in Jobs, Worker(j)
      PROVE  UNCHANGED <<opPc, phase, todo>>
  BY <1>3, WorkerFrame
<1>4. ASSUME NEW j \in Jobs, CreateDeployment(j) \/ DeleteDeployment(j)
      PROVE  UNCHANGED <<opPc, phase, todo>>
  BY <1>4 DEF CreateDeployment, DeleteDeployment
<1>5. ASSUME NEW q \in Cancelers \cup Deleters, NEW j \in Jobs, CancelRead(q, j) \/ DeleteRead(q, j)
      PROVE  opPc'[r] = opPc[r] /\ UNCHANGED <<phase, todo>>
  BY <1>5, ConstantsOK DEF CancelRead, DeleteRead, Begin, Requests, IInv, Typed
<1>6. CASE CloseAborts \/ Crash
  BY <1>6 DEF CloseAborts, Crash, Halt
<1>7. CASE Signal \/ Restart \/ Stopped
  BY <1>7 DEF Signal, Restart, Stopped, vars
<1>8. QED
  BY <1>1, <1>2, <1>3, <1>4, <1>5, <1>6, <1>7 DEF Next, RunHandler

(* A cancel or a delete is answered after at most three steps of its own:  *)
(* none of them waits for the worker of the job.                           *)
RequestsAdvance ==
  [][\A r \in Requests : opPc[r] # "idle" =>
       HandlerLeft(r)' <= HandlerLeft(r) /\ (Handler(r) => HandlerLeft(r)' < HandlerLeft(r))]_vars

THEOREM RequestsAreShort == Spec => RequestsAdvance
<1> DEFINE Down(r) == HandlerLeft(r)' <= HandlerLeft(r) /\ (Handler(r) => HandlerLeft(r)' < HandlerLeft(r))
<1>1. ASSUME IInv, Next, NEW r \in Requests, opPc[r] # "idle" PROVE Down(r)
  <2>1. CASE Handler(r)
    BY <1>1, <2>1, HandlerAdvances, HandlerLeftType DEF IInv
  <2>2. ASSUME ~Handler(r), opPc'[r] = opPc[r] \/ opPc'[r] = "idle" PROVE Down(r)
    <3>1. HandlerLeft(r)' = HandlerLeft(r) \/ HandlerLeft(r)' = 0
      BY <2>2 DEF HandlerLeft
    <3>2. QED
      BY <2>2, <3>1, HandlerLeftType
  <2>3. CASE ~Handler(r) /\ ~Closing
    BY <1>1, <2>2, <2>3, RequestBystander
  <2>4. CASE ~Handler(r) /\ Closing
    <3>1. opPc'[r] = opPc[r] \/ opPc'[r] = "idle"
      BY <1>1, <2>4 DEF Closing, Shutdown, CloseSnapshot, CloseReturns, Halt, CloseCancel,
         Begin, ops, IInv, Typed
    <3>2. QED
      BY <2>2, <2>4, <3>1
  <2>5. QED
    BY <2>1, <2>3, <2>4
<1>2. ASSUME IInv, [Next]_vars
      PROVE  [\A r \in Requests : opPc[r] # "idle" => Down(r)]_vars
  BY <1>1, <1>2
<1>3. QED
  BY <1>2, Invariance, PTL DEF Spec, RequestsAdvance

(* Close cancels each job of its list once and is then left with the wait  *)
(* for the workers: nothing is added to the list meanwhile.                *)
CloseLeft == 3 * Cardinality(todo) + HandlerLeft(Closer)

CloseAdvances ==
  [][phase = "closing" /\ phase' = phase =>
       /\ CloseLeft \in Nat /\ CloseLeft' \in Nat
       /\ CloseLeft' <= CloseLeft
       /\ Handler(Closer) \/ Closing => CloseLeft' < CloseLeft]_vars

THEOREM CloseIsShort == ASSUME IsFiniteSet(Jobs) PROVE Spec => CloseAdvances
<1>1. ASSUME IInv, Next, phase = "closing", phase' = phase
      PROVE  /\ CloseLeft \in Nat /\ CloseLeft' \in Nat
             /\ CloseLeft' <= CloseLeft
             /\ Handler(Closer) \/ Closing => CloseLeft' < CloseLeft
  <2>1. Typed /\ Closer \in Requests
    BY <1>1, RequestFacts DEF IInv
  <2>2. \A S \in SUBSET Jobs : IsFiniteSet(S) /\ Cardinality(S) \in Nat
    BY FS_Subset, FS_CardinalityType
  <2>3. \A S \in SUBSET Jobs : \A j \in S : Cardinality(S \ {j}) = Cardinality(S) - 1
    BY <2>2, FS_RemoveElement
  <2>4. todo \in SUBSET Jobs /\ Cardinality(todo) \in Nat /\ HandlerLeft(Closer) \in 0..3
    BY <2>1, <2>2, HandlerLeftType DEF Typed
  <2>5. CASE Handler(Closer)
    <3>1. /\ todo' = todo /\ HandlerLeft(Closer)' \in 0..3
          /\ HandlerLeft(Closer)' < HandlerLeft(Closer)
      BY <2>1, <2>5, HandlerAdvances
    <3>2. QED
      BY <2>4, <3>1 DEF CloseLeft
  <2>6. CASE Closing
    <3>1. PICK j \in Jobs : CloseCancel(j)
      BY <1>1, <2>6 DEF Closing, Shutdown, CloseSnapshot, CloseReturns, Halt
    <3>2. /\ j \in todo /\ todo' = todo \ {j} /\ opPc[Closer] = "idle"
          /\ opPc'[Closer] \in {"idle", "cancelWrite"}
      BY <2>1, <3>1 DEF CloseCancel, Begin, ops, Typed
    <3>3. HandlerLeft(Closer) = 0 /\ HandlerLeft(Closer)' \in 0..2
      BY <3>2 DEF HandlerLeft
    <3>4. Cardinality(todo') = Cardinality(todo) - 1 /\ Cardinality(todo') \in Nat
      BY <2>2, <2>3, <2>4, <3>2
    <3>5. QED
      BY <2>4, <3>3, <3>4 DEF CloseLeft
  <2>7. CASE ~Handler(Closer) /\ ~Closing
    <3>1. todo' = todo /\ opPc'[Closer] = opPc[Closer]
      BY <1>1, <2>1, <2>7, RequestBystander
    <3>2. HandlerLeft(Closer)' = HandlerLeft(Closer)
      BY <3>1 DEF HandlerLeft
    <3>3. QED
      BY <2>4, <2>7, <3>1, <3>2 DEF CloseLeft
  <2>8. QED
    BY <2>5, <2>6, <2>7
<1>2. ASSUME IInv, [Next]_vars
      PROVE  [phase = "closing" /\ phase' = phase =>
                /\ CloseLeft \in Nat /\ CloseLeft' \in Nat
                /\ CloseLeft' <= CloseLeft
                /\ Handler(Closer) \/ Closing => CloseLeft' < CloseLeft]_vars
  BY <1>1, <1>2
<1>3. QED
  BY <1>2, Invariance, PTL DEF Spec, CloseAdvances

-----------------------------------------------------------------------------
(***************************************************************************)
(* What is left behind, and by whom.                                       *)
(***************************************************************************)

(* The row of a job is written before its context is cancelled by name. *)
SettledOK ==
  /\ \A j \in canceled : "settled" \in marks[j]
  /\ \A r \in Requests : opPc[r] = "cancelSignal" => "settled" \in marks[opJob[r]]
  /\ OpenIsAttended

LEMMA WorkerSettles ==
  ASSUME IInv, SettledOK, NEW j \in Jobs, Worker(j)
  PROVE  SettledOK'
<1> USE DEF SettledOK, OpenIsAttended, AtWork, IInv, Typed, rows, work, memory, ops, proc
<1>1. \A k \in Jobs : marks[k] \subseteq marks'[k]
  BY DEF Worker, WorkerHead, SummaryRead, SummaryWrite, SummaryBack, SummaryFails, Generate,
     Render, StoreFile, CreateAsset, AssetBack, CleanupStoredFile, Finish, SetTerminal, Mark
<1>2. UNCHANGED <<canceled, launch, opPc, opJob, phase>>
  BY DEF Worker, WorkerHead, SummaryRead, SummaryWrite, SummaryBack, SummaryFails, Generate,
     Render, StoreFile, CreateAsset, AssetBack, CleanupStoredFile, Finish, Return
<1>3. \A k \in Jobs \ {j} : pc'[k] = pc[k] /\ status'[k] = status[k]
  BY DEF Worker, WorkerHead, SummaryRead, SummaryWrite, SummaryBack, SummaryFails, Generate,
     Render, StoreFile, CreateAsset, AssetBack, CleanupStoredFile, Finish, SetTerminal, Return,
     Goto, Conclude, Fail
<1>4. ASSUME status'[j] \in Open, pc'[j] = "off"
      PROVE  marks'[j] \cap {"settled", "dropped"} # {}
  <2>1. SummaryFails(j) \/ Finish(j)
    BY <1>4 DEF Worker, WorkerHead, SummaryRead, SummaryWrite, SummaryBack, Generate, Render,
       StoreFile, CreateAsset, AssetBack, CleanupStoredFile, Goto, Conclude, Fail
  <2>2. CASE SummaryFails(j)
    <3>1. CASE j \in canceled
      BY <1>1, <3>1
    <3>2. CASE Mark(j, "dropped")
      BY <3>2 DEF Mark
    <3>3. QED
      BY <2>2, <3>1, <3>2 DEF SummaryFails
  <2>3. CASE Finish(j)
    <3>1. CASE Mark(j, "dropped")
      BY <3>1 DEF Mark
    <3>2. CASE SetTerminal(j, verdict[j], made[j])
      BY <1>4, <3>2 DEF SetTerminal, Updatable, Open, Terminal
    <3>3. QED
      BY <2>3, <3>1, <3>2 DEF Finish
  <2>4. QED
    BY <2>1, <2>2, <2>3
<1>5. QED
  BY <1>1, <1>2, <1>3, <1>4, RequestFacts DEF RequestOK

LEMMA RequestSettles ==
  ASSUME IInv, SettledOK, NEW r \in Requests, Handler(r)
  PROVE  SettledOK'
<1> USE DEF SettledOK, OpenIsAttended, AtWork, IInv, Typed, rows, work, memory, ops, proc,
       Proceed, End, Begin, RequestOK
<1>1. CASE CancelWrite(r)
  BY <1>1 DEF CancelWrite, SetTerminal, Updatable, Open
<1>2. CASE CancelSignal(r)
  BY <1>2 DEF CancelSignal
<1>3. CASE CancelFails(r)
  BY <1>3 DEF CancelFails
<1>4. CASE DeleteFiles(r)
  BY <1>4 DEF DeleteFiles, Mark
<1>5. CASE DeleteRecords(r)
  BY <1>5 DEF DeleteRecords
<1>6. CASE DeleteRow(r)
  BY <1>6 DEF DeleteRow, Open
<1>7. CASE DeleteFails(r)
  BY <1>7 DEF DeleteFails
<1>8. QED
  BY <1>1, <1>2, <1>3, <1>4, <1>5, <1>6, <1>7 DEF Handler

(* Nobody strands an open job silently: whatever fails and whatever races, *)
(* it is launched or worked on, or its row was settled and written back,   *)
(* or a failed call, the signal or the end of the process has dropped it.  *)
THEOREM OpenJobsAttended == Spec => []OpenIsAttended
<1>1. ASSUME IInv, SettledOK, [Next]_vars PROVE SettledOK'
  <2> USE <1>1 DEF SettledOK, OpenIsAttended, AtWork, IInv, Typed, rows, work, memory, ops, proc
  <2>1. ASSUME NEW j \in Jobs, RunCreate(j) \/ RunSetRunning(j) \/ RunLaunch(j) PROVE SettledOK'
    BY <2>1 DEF RunCreate, RunSetRunning, RunLaunch, Open
  <2>2. ASSUME NEW j \in Jobs, RunAbort(j) PROVE SettledOK'
    BY <2>2, RequestFacts DEF RunAbort, Mark, RequestOK
  <2>3. ASSUME NEW j \in Jobs, CreateDeployment(j) \/ DeleteDeployment(j) PROVE SettledOK'
    BY <2>3 DEF CreateDeployment, DeleteDeployment
  <2>4. ASSUME NEW r \in Requests, NEW j \in Jobs, CancelRead(r, j) \/ DeleteRead(r, j)
        PROVE  SettledOK'
    BY <2>4 DEF CancelRead, DeleteRead, Begin
  <2>5. ASSUME NEW j \in Jobs, CloseCancel(j) PROVE SettledOK'
    BY <2>5 DEF CloseCancel, Begin
  <2>6. CASE Signal \/ Shutdown \/ CloseSnapshot \/ Restart
    BY <2>6 DEF Signal, Shutdown, CloseSnapshot, Restart
  <2>7. CASE Halt
    BY <2>7 DEF Halt
  <2>8. CASE Stopped \/ UNCHANGED vars
    BY <2>8 DEF Stopped, vars
  <2>9. QED
    BY <2>1, <2>2, <2>3, <2>4, <2>5, <2>6, <2>7, <2>8, WorkerSettles, RequestSettles
       DEF Next, RunHandler, Closing, CloseReturns, CloseAborts, Crash, Requests
<1>2. Init => SettledOK
  BY DEF Init, SettledOK, OpenIsAttended, Open
<1>3. SettledOK => OpenIsAttended
  BY DEF SettledOK
<1>4. QED
  BY <1>1, <1>2, <1>3, Invariance, PTL DEF Spec

(* No file or statement of assets.Create fails, and the process ends only  *)
(* when its workers have.                                                  *)
NothingTorn == {"storage", "database", "crash"} \cap Faults = {}

MarksOK == \A j \in Jobs : marks[j] \cap {"faulted", "interrupted"} = {}

(* Then the files of a job are the paths of its rows, between the write of *)
(* an entry's file and that of its row excepted, and but for the file that *)
(* the clean-up after a repeated path took: cancels, providers that fail,  *)
(* requests that are given up and the shutdown leave nothing over.         *)
FilesAreRows ==
  \A j \in Jobs :
    pc[j] \notin {"create", "cleanup"} /\ "purged" \notin marks[j] =>
      /\ files[j] \subseteq assets[j]
      /\ assets[j] \ files[j] \subseteq Repeated(j)

THEOREM FilesMatchRows == ASSUME NothingTorn PROVE Spec => []FilesAreRows
<1>1. ASSUME NothingTorn, IInv, MarksOK, [Next]_vars PROVE MarksOK'
  <2> USE <1>1 DEF MarksOK, IInv, Typed, rows, work, memory, ops, proc
  <2>1. ASSUME NEW j \in Jobs, RunCreate(j) \/ RunHandler(j) PROVE MarksOK'
    BY <2>1 DEF RunCreate, RunHandler, RunSetRunning, RunLaunch, RunAbort, Mark
  <2>2. ASSUME NEW j \in Jobs, Worker(j) PROVE MarksOK'
    BY <2>2 DEF NothingTorn, Worker, WorkerHead, SummaryRead, SummaryWrite, SummaryBack,
       SummaryFails, Generate, Render, StoreFile, CreateAsset, AssetBack, CleanupStoredFile,
       Finish, SetTerminal, Mark
  <2>3. ASSUME NEW r \in Requests, Handler(r) PROVE MarksOK'
    BY <2>3 DEF Handler, CancelWrite, SetTerminal, CancelSignal, CancelFails, DeleteFiles, Mark,
       DeleteRecords, DeleteRow, DeleteFails
  <2>4. CASE CloseReturns
    BY <2>4 DEF CloseReturns, WorkersDone, Halt
  <2>5. CASE UNCHANGED marks
    BY <2>5
  <2>6. QED
    BY <2>1, <2>2, <2>3, <2>4, <2>5 DEF NothingTorn, Next, CreateDeployment, DeleteDeployment,
       CancelRead, DeleteRead, Signal, Closing, Shutdown, CloseSnapshot, CloseCancel,
       CloseAborts, Crash, Restart, Stopped, vars
<1>2. ASSUME Init, NEW j \in Jobs PROVE marks[j] \cap {"faulted", "interrupted"} = {}
  BY <1>2 DEF Init
<1>3. Init => MarksOK
  BY <1>2 DEF MarksOK
<1>4. ASSUME FilesBackedByRows, RowsBackedByFiles, MarksOK PROVE FilesAreRows
  <2> SUFFICES ASSUME NEW j \in Jobs, pc[j] \notin {"create", "cleanup"}, "purged" \notin marks[j]
               PROVE  files[j] \subseteq assets[j] /\ assets[j] \ files[j] \subseteq Repeated(j)
    BY DEF FilesAreRows
  <2>1. marks[j] \cap {"purged", "faulted", "interrupted"} = {}
    BY <1>4 DEF MarksOK
  <2>2. files[j] \ assets[j] = {}
    BY <1>4, <2>1 DEF FilesBackedByRows
  <2>3. assets[j] \ files[j] \subseteq Repeated(j)
    BY <1>4, <2>1 DEF RowsBackedByFiles
  <2>4. QED
    BY <2>2, <2>3
<1>5. Spec => []RowsBackedByFiles
  BY RowsHaveFiles
<1>6. QED
  BY <1>1, <1>3, <1>4, <1>5, NoOrphanFiles, Invariance, PTL DEF Spec
=============================================================================
