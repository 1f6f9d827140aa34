----------------------------- MODULE LandingPage -----------------------------
(***************************************************************************)
(* The landing page of the decoy web server: links to the first generated  *)
(* files that a walk over the directories finds.  The first page that has  *)
(* a link is kept for as long as the process lives; until then every       *)
(* request walks, next to the others and to the API process, which writes  *)
(* and removes files.  The directories are there all along.                *)
(***************************************************************************)
EXTENDS Integers, FiniteSets

CONSTANTS
  Visitors,   \* requests for "/"
  EntryCount, \* directories and files, numbered in the order of the walk
  Dirs,
  DirOf,      \* the directory of each file
  Limit,      \* links of a page
  NoPage,     \* no page is kept
  MaxRestarts \* bound on restarts of the process

Files == (1..EntryCount) \ Dirs

ASSUME ConstantsOK ==
  /\ EntryCount \in Nat
  /\ Dirs \subseteq 1..EntryCount /\ Dirs # {}
  /\ DirOf \in [Files -> Dirs] /\ \A f \in Files : DirOf[f] < f
  /\ Limit \in Nat \ {0}
  /\ \A S \in SUBSET Files : S # NoPage
  /\ MaxRestarts \in Nat

VARIABLES
  files,   \* that are on disk
  page,    \* the links of the page that is kept, or NoPage
  pc,      \* "idle", "walking", "walked" or "answered"
  at,      \* the directory a walk has read last
  listed,  \* the files that its reads have returned
  links,   \* of a walk, then of the answer
  restarts,
  failed,  \* history: directories of which a walk has not got all the files
  stayed,  \* history: files that have been there since the request began
  answers  \* history: the pages with links that this process has answered

vars == <<files, page, pc, at, listed, links, restarts, failed, stayed, answers>>

TypeOK ==
  /\ files \subseteq Files
  /\ page = NoPage \/ (page \subseteq Files /\ Cardinality(page) \in 1..Limit)
  /\ pc \in [Visitors -> {"idle", "walking", "walked", "answered"}]
  /\ at \in [Visitors -> {0} \cup Dirs]
  /\ listed \in [Visitors -> SUBSET Files]
  /\ links \in [Visitors -> SUBSET Files] /\ \A v \in Visitors : Cardinality(links[v]) \in 0..Limit
  /\ restarts \in 0..MaxRestarts
  /\ failed \in [Visitors -> SUBSET Dirs]
  /\ stayed \in [Visitors -> SUBSET Files]
  /\ answers \in SUBSET SUBSET Files

Init ==
  /\ files \in SUBSET Files
  /\ page = NoPage
  /\ pc = [v \in Visitors |-> "idle"]
  /\ at = [v \in Visitors |-> 0]
  /\ listed = [v \in Visitors |-> {}]
  /\ links = [v \in Visitors |-> {}]
  /\ restarts = 0
  /\ failed = [v \in Visitors |-> {}]
  /\ stayed = [v \in Visitors |-> {}]
  /\ answers = {}

-----------------------------------------------------------------------------
Answer(v, shown) ==
  /\ pc' = [pc EXCEPT ![v] = "answered"]
  /\ links' = [links EXCEPT ![v] = shown]
  /\ answers' = answers \cup ({shown} \ {{}})

(* The page is read under the read lock, which is given back. *)
Request(v) ==
  /\ pc[v] = "idle"
  /\ stayed' = [stayed EXCEPT ![v] = files]
  /\ IF page # NoPage
     THEN Answer(v, page)
     ELSE /\ pc' = [pc EXCEPT ![v] = "walking"]
          /\ UNCHANGED <<links, answers>>
  /\ UNCHANGED <<files, page, at, listed, restarts, failed>>

(* The first n of S. *)
Lowest(n, S) == {f \in S : Cardinality({g \in S : g < f}) < n}

FilesOf(d) == {f \in files : DirOf[f] = d}

NextDir(v, d) == d > at[v] /\ \A e \in Dirs : e > at[v] => d <= e

(* What the walk comes to before it reads the directory after d. *)
Before(d, S) == {f \in S : \A e \in Dirs : e > d => f < e}

Last(d) == \A e \in Dirs : e <= d

(* A read that fails returns some of the files or none, and the walk goes   *)
(* on without the others.                                                  *)
Reads(v, d, read) ==
  \/ read = FilesOf(d) /\ UNCHANGED failed
  \/ read \in SUBSET FilesOf(d) /\ failed' = [failed EXCEPT ![v] = @ \cup {d}]

(* Mutant of ReadDir: the limit only is looked at after a directory. *)
ReadDirUnlimited(v) ==
  /\ pc[v] = "walking"
  /\ \E d \in Dirs, read \in SUBSET Files :
       /\ NextDir(v, d) /\ Reads(v, d, read)
       /\ at' = [at EXCEPT ![v] = d]
       /\ listed' = [listed EXCEPT ![v] = @ \cup read]
       /\ links' = [links EXCEPT ![v] = Before(d, listed[v] \cup read)]
       /\ pc' = IF Last(d) \/ Cardinality(links'[v]) >= Limit THEN [pc EXCEPT ![v] = "walked"] ELSE pc
  /\ UNCHANGED <<files, page, restarts, stayed, answers>>

(* WalkDir reads a directory at once and then takes its entries in their    *)
(* order, among them the directories, each of which it reads when it comes *)
(* to it; between two reads files come and go.                             *)
ReadDir(v) ==
  /\ pc[v] = "walking"
  /\ \E d \in Dirs, read \in SUBSET Files :
       /\ NextDir(v, d) /\ Reads(v, d, read)
       /\ at' = [at EXCEPT ![v] = d]
       /\ listed' = [listed EXCEPT ![v] = @ \cup read]
       /\ links' = [links EXCEPT ![v] = Lowest(Limit, Before(d, listed[v] \cup read))]
       /\ pc' = IF Last(d) \/ Cardinality(links'[v]) >= Limit THEN [pc EXCEPT ![v] = "walked"] ELSE pc
  /\ UNCHANGED <<files, page, restarts, stayed, answers>>

(* Mutant of Keep: the last walk to end replaces the page. *)
KeepLast(v) ==
  /\ pc[v] = "walked"
  /\ page' = IF links[v] # {} THEN links[v] ELSE page
  /\ Answer(v, links[v])
  /\ UNCHANGED <<files, at, listed, restarts, failed, stayed>>

(* Mutant of Keep: a page without links is kept, too. *)
KeepEmpty(v) ==
  /\ pc[v] = "walked"
  /\ page' = IF page = NoPage THEN links[v] ELSE page
  /\ Answer(v, page')
  /\ UNCHANGED <<files, at, listed, restarts, failed, stayed>>

(* Under the write lock: the first page with a link is kept, and answered   *)
(* to all who have found one.  A page without links is answered and not     *)
(* kept.                                                                    *)
Keep(v) ==
  /\ pc[v] = "walked"
  /\ IF links[v] = {} THEN UNCHANGED page /\ Answer(v, {})
     ELSE page' = (IF page = NoPage THEN links[v] ELSE page) /\ Answer(v, page')
  /\ UNCHANGED <<files, at, listed, restarts, failed, stayed>>

Leave(v) ==
  /\ pc[v] = "answered"
  /\ pc' = [pc EXCEPT ![v] = "idle"]
  /\ at' = [at EXCEPT ![v] = 0]
  /\ listed' = [listed EXCEPT ![v] = {}]
  /\ failed' = [failed EXCEPT ![v] = {}]
  /\ links' = [links EXCEPT ![v] = {}]
  /\ stayed' = [stayed EXCEPT ![v] = {}]
  /\ UNCHANGED <<files, page, restarts, answers>>

Busy == {v \in Visitors : pc[v] \in {"walking", "walked"}}

WriteFile(f) ==
  /\ f \notin files
  /\ files' = files \cup {f}
  /\ UNCHANGED <<page, pc, at, listed, links, restarts, failed, stayed, answers>>

RemoveFile(f) ==
  /\ f \in files
  /\ files' = files \ {f}
  /\ stayed' = [v \in Visitors |-> IF v \in Busy THEN stayed[v] \ {f} ELSE stayed[v]]
  /\ UNCHANGED <<page, pc, at, listed, links, restarts, failed, answers>>

Restart ==
  /\ restarts < MaxRestarts
  /\ restarts' = restarts + 1
  /\ page' = NoPage
  /\ pc' = [v \in Visitors |-> "idle"]
  /\ at' = [v \in Visitors |-> 0]
  /\ listed' = [v \in Visitors |-> {}]
  /\ failed' = [v \in Visitors |-> {}]
  /\ links' = [v \in Visitors |-> {}]
  /\ stayed' = [v \in Visitors |-> {}]
  /\ answers' = {}
  /\ UNCHANGED files

Handle(v) == ReadDir(v) \/ Keep(v)

Next ==
  \/ \E v \in Visitors : Request(v) \/ Handle(v) \/ Leave(v)
  \/ \E f \in Files : WriteFile(f) \/ RemoveFile(f)
  \/ Restart

Spec == Init /\ [][Next]_vars

-----------------------------------------------------------------------------
(* Requests that walk at the same time, while files come and go, do not     *)
(* make the page change: as long as the process lives, all the answers that *)
(* have links have the same ones.                                           *)
OnePage == \A a, b \in answers : a = b

(* "No generated files are available yet" is answered only if each file     *)
(* that was there all the time lies in a directory that this walk could not *)
(* read, whatever other requests have found or kept and whatever came and   *)
(* went.                                                                   *)
NoFilesIsTrue ==
  \A v \in Visitors : pc[v] = "answered" /\ links[v] = {} =>
    \A f \in stayed[v] : DirOf[f] \in failed[v]
=============================================================================
