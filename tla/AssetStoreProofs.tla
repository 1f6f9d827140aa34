-------------------------- MODULE AssetStoreProofs --------------------------
(***************************************************************************)
(* Theorems about AssetStore, for every set of assets, paths and requests  *)
(* and every combination of faults.                                        *)
(***************************************************************************)
EXTENDS AssetStore, TLAPS

(***************************************************************************)
(* The inductive invariant.  What an asset or a request can rely on holds  *)
(* on a path that is not tangled, and more of it on one that is also not   *)
(* faulted.                                                                *)
(***************************************************************************)

(* One row to a path; content lies at or is staged from its own path; torn *)
(* content only where a failure was noted.                                 *)
PlaceOK ==
  /\ \A a, b \in rows : PathOf[a] = PathOf[b] => a = b
  /\ \A p \in Paths : file[p] \in Assets => PathOf[file[p]] = p
  /\ \A a \in Assets : staged[a] \in Assets => PathOf[staged[a]] = PathOf[a]
  /\ \A p \in Paths : file[p] = Torn => p \in faulted
  /\ \A a \in Assets : staged[a] = Torn => PathOf[a] \in faulted

(* Requests that meet have tangled the path. *)
MeetOK ==
  \A b, c \in Clients :
    b # c =>
      /\ arg[b] # NoAsset /\ arg[b] = arg[c] => PathOf[arg[b]] \in tangled
      /\ arg[b] # NoAsset /\ pc[c] \in PurgePc => PathOf[arg[b]] \in tangled
      /\ pc[b] \in PurgePc /\ pc[c] \in PurgePc => Paths \subseteq tangled

(* An asset whose row is not yet in, or has just been taken out, by one    *)
(* request: nobody else can bring it in or acknowledge its delete.         *)
OutOK ==
  /\ \A c \in Clients :
       pc[c] \in {"upFind", "upCreate"} \cup OutPc => arg[c] \notin rows \cup done
  /\ \A b, c \in Clients :
       pc[b] \in {"upFind", "upCreate"} /\ arg[b] = arg[c] => b = c
  /\ \A b, c \in Clients :
       pc[b] \in OutPc /\ pc[c] \in OutPc /\ arg[b] = arg[c] => b = c

(* What a request at work knows on a path that is not tangled. *)
FilledPc == {"upBack", "upWrite", "upUndo"}
EmptiedPc == {"delRow", "delRestore", "delBack", "delPut", "delDrop"}

WorkOK ==
  \A c \in Clients :
    LET a == arg[c] IN
    a # NoAsset /\ PathOf[a] \notin tangled =>
      /\ pc[c] \in FilledPc \cup EmptiedPc => a \in rows /\ file[PathOf[a]] # a
      /\ pc[c] \in {"delJob", "delStage"} => a \in rows
      /\ PathOf[a] \notin faulted =>
           /\ pc[c] \in FilledPc \cup EmptiedPc => file[PathOf[a]] = NoFile
           /\ pc[c] \in {"delJob", "delStage"} => file[PathOf[a]] = a
           /\ pc[c] \in EmptiedPc \cup OutPc => staged[a] = a

(* What the delete of the job knows there. *)
PurgeOK ==
  \A c \in Clients, p \in Paths \ tangled :
    /\ pc[c] \in {"jobAssets", "jobRow"} => file[p] = NoFile
    /\ pc[c] = "jobRow" => AtPath(p) = {}

(* What is known there of the stores. *)
FileOK ==
  /\ \A p \in Paths \ tangled : file[p] \in Assets => file[p] \in rows
  /\ \A a \in Assets : PathOf[a] \notin tangled => staged[a] \in {NoFile, Torn, a}

(* A row lacks its file only while a request that will settle this is at   *)
(* work.                                                                   *)
RowOK ==
  \A a \in rows :
    PathOf[a] \notin Disturbed =>
      \/ file[PathOf[a]] = a
      \/ \E c \in Clients : arg[c] = a /\ pc[c] \in FilledPc \cup EmptiedPc
      \/ \E c \in Clients : pc[c] = "jobAssets"

DoneOK ==
  \A a \in done :
    /\ a \notin rows
    /\ PathOf[a] \notin tangled => staged[a] = NoFile /\ \A c \in Clients : arg[c] # a

IInv ==
  TypeOK /\ PlaceOK /\ MeetOK /\ OutOK /\ WorkOK /\ PurgeOK /\ FileOK /\ RowOK /\ DoneOK

(***************************************************************************)
(* Facts about the constants, and one lemma for each action.               *)
(***************************************************************************)
LEMMA ConstantFacts ==
  /\ Original \subseteq Assets /\ PathOf \in [Assets -> Paths]
  /\ \A a, b \in Original : PathOf[a] = PathOf[b] => a = b
  /\ NoAsset \notin Assets /\ NoFile \notin Assets /\ Torn \notin Assets
  /\ NoFile # Torn
  BY ConstantsOK

LEMMA UploadGetJobInv ==
  ASSUME IInv, NEW c \in Clients, NEW a \in Assets, UploadGetJob(c, a)
  PROVE  IInv'
<1> USE ConstantFacts DEF IInv, UploadGetJob, Begin, Note, Overlap, stores, hist
<1>1. TypeOK'
  BY DEF TypeOK, UploadPc, PurgePc
<1>2. PlaceOK'
  BY DEF PlaceOK
<1>3. MeetOK'
  BY DEF MeetOK, PurgePc
<1>4. OutOK'
  BY DEF TypeOK, OutOK
<1>5. WorkOK'
  BY DEF WorkOK, OutPc, FilledPc, EmptiedPc
<1>6. PurgeOK'
  BY DEF PurgeOK, AtPath
<1>7. FileOK'
  BY DEF FileOK
<1>8. RowOK'
  BY DEF RowOK, Disturbed, FilledPc, EmptiedPc
<1>9. DoneOK'
  BY DEF TypeOK, DoneOK
<1>10. QED
  BY <1>1, <1>2, <1>3, <1>4, <1>5, <1>6, <1>7, <1>8, <1>9

LEMMA DeleteGetInv ==
  ASSUME IInv, NEW c \in Clients, NEW a \in Assets, DeleteGet(c, a)
  PROVE  IInv'
<1> USE ConstantFacts DEF IInv, DeleteGet, Begin, Note, Overlap, stores, hist
<1>1. TypeOK'
  BY DEF TypeOK, DeletePc, PurgePc
<1>2. PlaceOK'
  BY DEF PlaceOK
<1>3. MeetOK'
  BY DEF MeetOK, PurgePc
<1>4. OutOK'
  BY DEF OutOK, OutPc
<1>5. WorkOK'
  BY DEF TypeOK, WorkOK, RowOK, Disturbed, PurgePc, OutPc, FilledPc, EmptiedPc
<1>6. PurgeOK'
  BY DEF PurgeOK, AtPath
<1>7. FileOK'
  BY DEF FileOK
<1>8. RowOK'
  BY DEF RowOK, Disturbed, FilledPc, EmptiedPc
<1>9. DoneOK'
  BY DEF DoneOK
<1>10. QED
  BY <1>1, <1>2, <1>3, <1>4, <1>5, <1>6, <1>7, <1>8, <1>9

LEMMA JobGetInv ==
  ASSUME IInv, NEW c \in Clients, JobGet(c)
  PROVE  IInv'
<1> USE ConstantFacts DEF IInv, JobGet, stores, hist
<1>1. TypeOK'
  BY DEF TypeOK, PurgePc
<1>2. PlaceOK'
  BY DEF PlaceOK
<1>3. MeetOK'
  BY DEF TypeOK, MeetOK
<1>4. OutOK'
  BY DEF OutOK, OutPc
<1>5. WorkOK'
  BY DEF TypeOK, WorkOK
<1>6. PurgeOK'
  BY DEF PurgeOK
<1>7. FileOK'
  BY DEF FileOK
<1>8. RowOK'
  BY DEF TypeOK, RowOK, Disturbed
<1>9. DoneOK'
  BY DEF TypeOK, DoneOK
<1>10. QED
  BY <1>1, <1>2, <1>3, <1>4, <1>5, <1>6, <1>7, <1>8, <1>9

LEMMA UploadFindInv ==
  ASSUME IInv, NEW c \in Clients, UploadFind(c)
  PROVE  IInv'
<1> USE ConstantFacts DEF IInv, UploadFind, Goto, End, Begin, AtPath, stores, hist
<1>1. TypeOK'
  BY DEF TypeOK, UploadPc, PurgePc
<1>2. PlaceOK'
  BY DEF PlaceOK
<1>3. MeetOK'
  BY DEF TypeOK, MeetOK, PurgePc
<1>4. OutOK'
  BY DEF TypeOK, OutOK, OutPc, PurgePc
<1>5. WorkOK'
  BY DEF TypeOK, WorkOK, OutPc, FilledPc, EmptiedPc
<1>6. PurgeOK'
  BY DEF TypeOK, PurgeOK
<1>7. FileOK'
  BY DEF FileOK
<1>8. RowOK'
  BY DEF TypeOK, RowOK, Disturbed, FilledPc, EmptiedPc
<1>9. DoneOK'
  BY DEF TypeOK, DoneOK
<1>10. QED
  BY <1>1, <1>2, <1>3, <1>4, <1>5, <1>6, <1>7, <1>8, <1>9

LEMMA UploadCreateInv ==
  ASSUME IInv, NEW c \in Clients, UploadCreate(c)
  PROVE  IInv'
<1> USE ConstantFacts DEF IInv, UploadCreate, Goto, End, Begin, InsertOK, AtPath,
   stores, hist
<1>1. TypeOK'
  BY DEF TypeOK, UploadPc, PurgePc
<1>2. PlaceOK'
  BY DEF PlaceOK
<1>3. MeetOK'
  BY DEF TypeOK, MeetOK, PurgePc
<1>4. OutOK'
  BY DEF TypeOK, OutOK, OutPc, PurgePc
<1>5. WorkOK'
  BY DEF TypeOK, PlaceOK, WorkOK, FileOK, Contents, OutPc, EmptiedPc
<1>6. PurgeOK'
  BY DEF TypeOK, MeetOK, PurgeOK, PurgePc
<1>7. FileOK'
  BY DEF FileOK
<1>8. RowOK'
  BY DEF TypeOK, RowOK, Disturbed, FilledPc, EmptiedPc
<1>9. DoneOK'
  BY DEF TypeOK, OutOK, DoneOK
<1>10. QED
  BY <1>1, <1>2, <1>3, <1>4, <1>5, <1>6, <1>7, <1>8, <1>9

LEMMA UploadBackInv ==
  ASSUME IInv, NEW c \in Clients, UploadBack(c)
  PROVE  IInv'
<1> USE ConstantFacts DEF IInv, UploadBack, Goto, End, Begin, Fault, stores, hist
<1>1. TypeOK'
  BY DEF TypeOK, UploadPc, PurgePc
<1>2. PlaceOK'
  BY DEF PlaceOK
<1>3. MeetOK'
  BY DEF TypeOK, MeetOK, PurgePc
<1>4. OutOK'
  BY DEF TypeOK, OutOK, OutPc, PurgePc
<1>5. WorkOK'
  BY DEF TypeOK, WorkOK, OutPc, FilledPc, EmptiedPc
<1>6. PurgeOK'
  BY DEF TypeOK, PurgeOK, AtPath
<1>7. FileOK'
  BY DEF FileOK
<1>8. RowOK'
  BY DEF TypeOK, RowOK, Disturbed, FilledPc
<1>9. DoneOK'
  BY DEF TypeOK, DoneOK
<1>10. QED
  BY <1>1, <1>2, <1>3, <1>4, <1>5, <1>6, <1>7, <1>8, <1>9

LEMMA UploadWriteInv ==
  ASSUME IInv, NEW c \in Clients, UploadWrite(c)
  PROVE  IInv'
<1> USE ConstantFacts DEF IInv, UploadWrite, Goto, End, Begin, Fault, stores, hist
<1>a. arg[c] \in Assets /\ arg[c] \in used /\ arg[c] # NoAsset /\ PathOf[arg[c]] \in Paths
  BY DEF TypeOK, PurgePc
<1>1. TypeOK'
  BY DEF TypeOK, Contents, UploadPc, PurgePc
<1>2. PlaceOK'
  BY <1>a DEF TypeOK, PlaceOK
<1>3. MeetOK'
  BY DEF TypeOK, MeetOK, PurgePc
<1>4. OutOK'
  BY DEF TypeOK, OutOK, OutPc, PurgePc
<1>5. WorkOK'
  BY DEF TypeOK, PlaceOK, MeetOK, WorkOK, OutPc, FilledPc, EmptiedPc
<1>6. PurgeOK'
  BY DEF TypeOK, MeetOK, PurgeOK, AtPath, PurgePc
<1>7. FileOK'
  BY DEF TypeOK, WorkOK, FileOK, FilledPc
<1>8. RowOK'
  BY <1>a DEF TypeOK, WorkOK, RowOK, Disturbed, FilledPc
<1>9. DoneOK'
  BY DEF TypeOK, DoneOK
<1>10. QED
  BY <1>1, <1>2, <1>3, <1>4, <1>5, <1>6, <1>7, <1>8, <1>9

LEMMA UploadUndoInv ==
  ASSUME IInv, NEW c \in Clients, UploadUndo(c)
  PROVE  IInv'
<1> USE ConstantFacts DEF IInv, UploadUndo, End, Begin, Fault, stores, hist
<1>a. arg[c] \in Assets /\ arg[c] \in used /\ arg[c] # NoAsset /\ PathOf[arg[c]] \in Paths
  BY DEF TypeOK, PurgePc
<1>1. TypeOK'
  BY <1>a DEF TypeOK
<1>2. PlaceOK'
  BY DEF PlaceOK
<1>3. MeetOK'
  BY DEF MeetOK, PurgePc
<1>4. OutOK'
  BY DEF TypeOK, OutOK, OutPc, PurgePc
<1>5. WorkOK'
  BY DEF TypeOK, MeetOK, WorkOK
<1>6. PurgeOK'
  BY DEF PurgeOK, AtPath
<1>7. FileOK'
  BY DEF PlaceOK, WorkOK, FileOK, FilledPc
<1>8. RowOK'
  BY DEF RowOK, Disturbed
<1>9. DoneOK'
  BY DEF TypeOK, DoneOK
<1>10. QED
  BY <1>1, <1>2, <1>3, <1>4, <1>5, <1>6, <1>7, <1>8, <1>9

LEMMA DeleteGetJobInv ==
  ASSUME IInv, NEW c \in Clients, DeleteGetJob(c)
  PROVE  IInv'
<1> USE ConstantFacts DEF IInv, DeleteGetJob, Goto, End, Begin, stores, hist
<1>1. TypeOK'
  BY DEF TypeOK, DeletePc, PurgePc
<1>2. PlaceOK'
  BY DEF PlaceOK
<1>3. MeetOK'
  BY DEF TypeOK, MeetOK, PurgePc
<1>4. OutOK'
  BY DEF TypeOK, OutOK, OutPc, PurgePc
<1>5. WorkOK'
  BY DEF TypeOK, WorkOK, OutPc, FilledPc, EmptiedPc
<1>6. PurgeOK'
  BY DEF TypeOK, PurgeOK, AtPath
<1>7. FileOK'
  BY DEF FileOK
<1>8. RowOK'
  BY DEF TypeOK, RowOK, Disturbed, FilledPc, EmptiedPc
<1>9. DoneOK'
  BY DEF TypeOK, DoneOK
<1>10. QED
  BY <1>1, <1>2, <1>3, <1>4, <1>5, <1>6, <1>7, <1>8, <1>9

LEMMA DeleteStageInv ==
  ASSUME IInv, NEW c \in Clients, DeleteStage(c)
  PROVE  IInv'
<1> USE ConstantFacts DEF IInv, DeleteStage, Goto, End, Begin, Stage, stores, hist
<1>a. arg[c] \in Assets /\ arg[c] \in used /\ arg[c] # NoAsset /\ PathOf[arg[c]] \in Paths
  BY DEF TypeOK, PurgePc
<1>1. TypeOK'
  BY DEF TypeOK, Contents, DeletePc, PurgePc
<1>2. PlaceOK'
  BY DEF TypeOK, PlaceOK
<1>3. MeetOK'
  BY DEF TypeOK, MeetOK, PurgePc
<1>4. OutOK'
  BY DEF TypeOK, OutOK, OutPc, PurgePc
<1>5. WorkOK'
  BY DEF TypeOK, MeetOK, WorkOK
<1>6. PurgeOK'
  BY DEF TypeOK, PurgeOK, AtPath
<1>7. FileOK'
  BY DEF TypeOK, PlaceOK, WorkOK, FileOK, Contents
<1>8. RowOK'
  BY <1>a DEF TypeOK, WorkOK, RowOK, Disturbed, EmptiedPc
<1>9. DoneOK'
  BY DEF TypeOK, DoneOK
<1>10. QED
  BY <1>1, <1>2, <1>3, <1>4, <1>5, <1>6, <1>7, <1>8, <1>9

LEMMA DeleteRowInv ==
  ASSUME IInv, NEW c \in Clients, DeleteRow(c)
  PROVE  IInv'
<1> USE ConstantFacts DEF IInv, DeleteRow, Goto, Begin, stores, hist
<1>1. TypeOK'
  BY DEF TypeOK, DeletePc, PurgePc
<1>2. PlaceOK'
  BY DEF PlaceOK
<1>3. MeetOK'
  BY DEF TypeOK, MeetOK, PurgePc
<1>4. OutOK'
  BY DEF TypeOK, OutOK, DoneOK, OutPc
<1>5. WorkOK'
  BY DEF TypeOK, MeetOK, WorkOK, FilledPc, EmptiedPc
<1>6. PurgeOK'
  BY DEF TypeOK, PurgeOK, AtPath
<1>7. FileOK'
  BY DEF PlaceOK, WorkOK, FileOK, EmptiedPc
<1>8. RowOK'
  BY DEF TypeOK, RowOK, Disturbed, EmptiedPc
<1>9. DoneOK'
  BY DEF TypeOK, DoneOK
<1>10. QED
  BY <1>1, <1>2, <1>3, <1>4, <1>5, <1>6, <1>7, <1>8, <1>9

LEMMA DeleteRestoreInv ==
  ASSUME IInv, NEW c \in Clients, DeleteRestore(c)
  PROVE  IInv'
<1> USE ConstantFacts DEF IInv, DeleteRestore, End, Begin, Unstage, Fault, stores, hist
<1>a. arg[c] \in Assets /\ arg[c] \in used /\ arg[c] # NoAsset /\ PathOf[arg[c]] \in Paths
  BY DEF TypeOK, PurgePc
<1>1. TypeOK'
  BY <1>a DEF TypeOK, Contents
<1>2. PlaceOK'
  BY <1>a DEF TypeOK, PlaceOK
<1>3. MeetOK'
  BY DEF MeetOK, PurgePc
<1>4. OutOK'
  BY DEF TypeOK, OutOK, OutPc, PurgePc
<1>5. WorkOK'
  BY DEF TypeOK, PlaceOK, MeetOK, WorkOK, EmptiedPc
<1>6. PurgeOK'
  BY DEF TypeOK, MeetOK, PurgeOK, AtPath, PurgePc
<1>7. FileOK'
  BY <1>a DEF TypeOK, WorkOK, FileOK, EmptiedPc
<1>8. RowOK'
  BY <1>a DEF TypeOK, WorkOK, RowOK, Disturbed, EmptiedPc
<1>9. DoneOK'
  BY DEF TypeOK, DoneOK
<1>10. QED
  BY <1>1, <1>2, <1>3, <1>4, <1>5, <1>6, <1>7, <1>8, <1>9

LEMMA DeleteFileInv ==
  ASSUME IInv, NEW c \in Clients, DeleteFile(c)
  PROVE  IInv'
<1> USE ConstantFacts DEF IInv, DeleteFile, Goto, End, Begin, stores, hist
<1>a. arg[c] \in Assets /\ arg[c] \in used /\ arg[c] # NoAsset /\ PathOf[arg[c]] \in Paths
  BY DEF TypeOK, PurgePc
<1>1. TypeOK'
  BY DEF TypeOK, Contents, DeletePc, PurgePc
<1>2. PlaceOK'
  BY DEF TypeOK, PlaceOK
<1>3. MeetOK'
  BY DEF TypeOK, MeetOK, PurgePc
<1>4. OutOK'
  BY DEF TypeOK, OutOK, OutPc, PurgePc
<1>5. WorkOK'
  BY DEF TypeOK, OutOK, WorkOK, OutPc, FilledPc, EmptiedPc
<1>6. PurgeOK'
  BY DEF TypeOK, PurgeOK, AtPath
<1>7. FileOK'
  BY DEF TypeOK, FileOK
<1>8. RowOK'
  BY DEF TypeOK, RowOK, Disturbed, FilledPc, EmptiedPc
<1>9. DoneOK'
  BY <1>a DEF TypeOK, MeetOK, OutOK, DoneOK, OutPc
<1>10. QED
  BY <1>1, <1>2, <1>3, <1>4, <1>5, <1>6, <1>7, <1>8, <1>9

LEMMA DeleteFindInv ==
  ASSUME IInv, NEW c \in Clients, DeleteFind(c)
  PROVE  IInv'
<1> USE ConstantFacts DEF IInv, DeleteFind, Goto, End, Begin, AtPath, stores, hist
<1>1. TypeOK'
  BY DEF TypeOK, DeletePc, PurgePc
<1>2. PlaceOK'
  BY DEF PlaceOK
<1>3. MeetOK'
  BY DEF TypeOK, MeetOK, PurgePc
<1>4. OutOK'
  BY DEF TypeOK, OutOK, OutPc, PurgePc
<1>5. WorkOK'
  BY DEF TypeOK, WorkOK, OutPc, FilledPc, EmptiedPc
<1>6. PurgeOK'
  BY DEF TypeOK, PurgeOK
<1>7. FileOK'
  BY DEF FileOK
<1>8. RowOK'
  BY DEF TypeOK, RowOK, Disturbed, FilledPc, EmptiedPc
<1>9. DoneOK'
  BY DEF TypeOK, DoneOK
<1>10. QED
  BY <1>1, <1>2, <1>3, <1>4, <1>5, <1>6, <1>7, <1>8, <1>9

LEMMA DeleteRecreateInv ==
  ASSUME IInv, NEW c \in Clients, DeleteRecreate(c)
  PROVE  IInv'
<1> USE ConstantFacts DEF IInv, DeleteRecreate, Goto, End, Begin, InsertOK, AtPath,
   stores, hist
<1>1. TypeOK'
  BY DEF TypeOK, DeletePc, PurgePc
<1>2. PlaceOK'
  BY DEF PlaceOK
<1>3. MeetOK'
  BY DEF TypeOK, MeetOK, PurgePc
<1>4. OutOK'
  BY DEF TypeOK, OutOK, OutPc, PurgePc
<1>5. WorkOK'
  BY DEF TypeOK, PlaceOK, WorkOK, FileOK, Contents, OutPc
<1>6. PurgeOK'
  BY DEF TypeOK, MeetOK, PurgeOK, PurgePc
<1>7. FileOK'
  BY DEF FileOK
<1>8. RowOK'
  BY DEF TypeOK, RowOK, Disturbed, FilledPc, EmptiedPc
<1>9. DoneOK'
  BY DEF TypeOK, OutOK, DoneOK, OutPc
<1>10. QED
  BY <1>1, <1>2, <1>3, <1>4, <1>5, <1>6, <1>7, <1>8, <1>9

LEMMA DeleteBackInv ==
  ASSUME IInv, NEW c \in Clients, DeleteBack(c)
  PROVE  IInv'
<1> USE ConstantFacts DEF IInv, DeleteBack, Goto, End, Begin, Fault, stores, hist
<1>1. TypeOK'
  BY DEF TypeOK, DeletePc, PurgePc
<1>2. PlaceOK'
  BY DEF PlaceOK
<1>3. MeetOK'
  BY DEF TypeOK, MeetOK, PurgePc
<1>4. OutOK'
  BY DEF TypeOK, OutOK, OutPc, PurgePc
<1>5. WorkOK'
  BY DEF TypeOK, WorkOK, EmptiedPc
<1>6. PurgeOK'
  BY DEF TypeOK, PurgeOK, AtPath
<1>7. FileOK'
  BY DEF FileOK
<1>8. RowOK'
  BY DEF TypeOK, RowOK, Disturbed, EmptiedPc
<1>9. DoneOK'
  BY DEF TypeOK, DoneOK
<1>10. QED
  BY <1>1, <1>2, <1>3, <1>4, <1>5, <1>6, <1>7, <1>8, <1>9

LEMMA DeletePutInv ==
  ASSUME IInv, NEW c \in Clients, DeletePut(c)
  PROVE  IInv'
<1> USE ConstantFacts DEF IInv, DeletePut, Goto, End, Begin, Unstage, stores, hist
<1>a. arg[c] \in Assets /\ arg[c] \in used /\ arg[c] # NoAsset /\ PathOf[arg[c]] \in Paths
  BY DEF TypeOK, PurgePc
<1>1. TypeOK'
  BY DEF TypeOK, Contents, DeletePc, PurgePc
<1>2. PlaceOK'
  BY <1>a DEF TypeOK, PlaceOK
<1>3. MeetOK'
  BY DEF TypeOK, MeetOK, PurgePc
<1>4. OutOK'
  BY DEF TypeOK, OutOK, OutPc, PurgePc
<1>5. WorkOK'
  BY DEF TypeOK, PlaceOK, MeetOK, WorkOK, EmptiedPc
<1>6. PurgeOK'
  BY DEF TypeOK, MeetOK, PurgeOK, AtPath, PurgePc
<1>7. FileOK'
  BY <1>a DEF TypeOK, WorkOK, FileOK, EmptiedPc
<1>8. RowOK'
  BY <1>a DEF TypeOK, WorkOK, RowOK, Disturbed, EmptiedPc
<1>9. DoneOK'
  BY DEF TypeOK, DoneOK
<1>10. QED
  BY <1>1, <1>2, <1>3, <1>4, <1>5, <1>6, <1>7, <1>8, <1>9

LEMMA DeleteDropInv ==
  ASSUME IInv, NEW c \in Clients, DeleteDrop(c)
  PROVE  IInv'
<1> USE ConstantFacts DEF IInv, DeleteDrop, End, Begin, Fault, stores, hist
<1>a. arg[c] \in Assets /\ arg[c] \in used /\ arg[c] # NoAsset /\ PathOf[arg[c]] \in Paths
  BY DEF TypeOK, PurgePc
<1>1. TypeOK'
  BY <1>a DEF TypeOK
<1>2. PlaceOK'
  BY DEF PlaceOK
<1>3. MeetOK'
  BY DEF MeetOK, PurgePc
<1>4. OutOK'
  BY DEF TypeOK, OutOK, OutPc, PurgePc
<1>5. WorkOK'
  BY DEF TypeOK, MeetOK, WorkOK
<1>6. PurgeOK'
  BY DEF PurgeOK, AtPath
<1>7. FileOK'
  BY DEF PlaceOK, WorkOK, FileOK, EmptiedPc
<1>8. RowOK'
  BY DEF RowOK, Disturbed
<1>9. DoneOK'
  BY DEF TypeOK, DoneOK
<1>10. QED
  BY <1>1, <1>2, <1>3, <1>4, <1>5, <1>6, <1>7, <1>8, <1>9

LEMMA JobDirInv ==
  ASSUME IInv, NEW c \in Clients, JobDir(c)
  PROVE  IInv'
<1> USE ConstantFacts DEF IInv, JobDir, Goto, End, Begin, Removals, stores, hist
<1>1. TypeOK'
  BY DEF TypeOK, Contents, PurgePc
<1>2. PlaceOK'
  BY DEF PlaceOK
<1>3. MeetOK'
  BY DEF TypeOK, MeetOK, PurgePc
<1>4. OutOK'
  BY DEF TypeOK, OutOK, OutPc, PurgePc
<1>5. WorkOK'
  BY DEF TypeOK, MeetOK, WorkOK, PurgePc
<1>6. PurgeOK'
  BY DEF TypeOK, PurgeOK, AtPath
<1>7. FileOK'
  BY DEF FileOK
<1>8. RowOK'
  BY DEF TypeOK, RowOK, Disturbed, FilledPc, EmptiedPc
<1>9. DoneOK'
  BY DEF TypeOK, DoneOK
<1>10. QED
  BY <1>1, <1>2, <1>3, <1>4, <1>5, <1>6, <1>7, <1>8, <1>9

LEMMA JobAssetsInv ==
  ASSUME IInv, NEW c \in Clients, JobAssets(c)
  PROVE  IInv'
<1> USE ConstantFacts DEF IInv, JobAssets, Goto, End, Begin, stores, hist
<1>1. TypeOK'
  BY DEF TypeOK, PurgePc
<1>2. PlaceOK'
  BY DEF PlaceOK
<1>3. MeetOK'
  BY DEF TypeOK, MeetOK, PurgePc
<1>4. OutOK'
  BY DEF TypeOK, OutOK, OutPc, PurgePc
<1>5. WorkOK'
  BY DEF TypeOK, MeetOK, WorkOK, PurgePc
<1>6. PurgeOK'
  BY DEF TypeOK, PurgeOK, AtPath
<1>7. FileOK'
  BY DEF PurgeOK, FileOK
<1>8. RowOK'
  BY DEF TypeOK, RowOK, Disturbed
<1>9. DoneOK'
  BY DEF TypeOK, DoneOK
<1>10. QED
  BY <1>1, <1>2, <1>3, <1>4, <1>5, <1>6, <1>7, <1>8, <1>9

LEMMA JobRowInv ==
  ASSUME IInv, NEW c \in Clients, JobRow(c)
  PROVE  IInv'
<1> USE ConstantFacts DEF IInv, JobRow, End, Begin, stores, hist
<1>1. TypeOK'
  BY DEF TypeOK
<1>2. PlaceOK'
  BY DEF PlaceOK
<1>3. MeetOK'
  BY DEF MeetOK, PurgePc
<1>4. OutOK'
  BY DEF TypeOK, OutOK, OutPc, PurgePc
<1>5. WorkOK'
  BY DEF WorkOK, OutPc, FilledPc, EmptiedPc
<1>6. PurgeOK'
  BY DEF PurgeOK, AtPath
<1>7. FileOK'
  BY DEF FileOK
<1>8. RowOK'
  BY DEF RowOK, Disturbed, FilledPc, EmptiedPc
<1>9. DoneOK'
  BY DEF TypeOK, DoneOK
<1>10. QED
  BY <1>1, <1>2, <1>3, <1>4, <1>5, <1>6, <1>7, <1>8, <1>9

LEMMA CrashInv ==
  ASSUME IInv, Crash
  PROVE  IInv'
<1> USE ConstantFacts DEF IInv, Crash, stores, hist
<1>1. TypeOK'
  BY DEF TypeOK
<1>2. PlaceOK'
  BY DEF PlaceOK
<1>3. MeetOK'
  BY DEF MeetOK, PurgePc
<1>4. OutOK'
  BY DEF OutOK, OutPc
<1>5. WorkOK'
  BY DEF WorkOK
<1>6. PurgeOK'
  BY DEF PurgeOK
<1>7. FileOK'
  BY DEF FileOK
<1>8. RowOK'
  BY DEF TypeOK, RowOK, Disturbed, PurgePc
<1>9. DoneOK'
  BY DEF TypeOK, DoneOK
<1>10. QED
  BY <1>1, <1>2, <1>3, <1>4, <1>5, <1>6, <1>7, <1>8, <1>9
LEMMA InitInv == Init => IInv
<1> SUFFICES ASSUME Init PROVE IInv
  OBVIOUS
<1> USE ConstantFacts DEF Init
<1>1. TypeOK
  BY DEF TypeOK, Contents
<1>2. PlaceOK /\ MeetOK /\ OutOK
  BY DEF PlaceOK, MeetOK, OutOK, OutPc, PurgePc
<1>3. WorkOK /\ PurgeOK
  BY DEF WorkOK, PurgeOK
<1>4. FileOK
  BY DEF FileOK
<1>5. RowOK /\ DoneOK
  BY DEF RowOK, DoneOK
<1>6. QED
  BY <1>1, <1>2, <1>3, <1>4, <1>5 DEF IInv

LEMMA NextInv == IInv /\ [Next]_vars => IInv'
<1> SUFFICES ASSUME IInv, [Next]_vars PROVE IInv'
  OBVIOUS
<1>1. CASE UNCHANGED vars
  BY <1>1 DEF vars, stores, reqs, hist, IInv, TypeOK, PlaceOK, MeetOK, OutOK, WorkOK,
     PurgeOK,
     FileOK, RowOK, DoneOK, AtPath, Disturbed
<1>2. CASE Crash
  BY <1>2, CrashInv
<1>3. ASSUME NEW c \in Clients, Request(c) PROVE IInv'
  BY <1>1, <1>3, UploadGetJobInv, DeleteGetInv, JobGetInv DEF Request, DeleteMisses
<1>4. ASSUME NEW c \in Clients, Step(c) PROVE IInv'
  BY <1>4, UploadFindInv, UploadCreateInv, UploadBackInv, UploadWriteInv, UploadUndoInv,
     DeleteGetJobInv, DeleteStageInv, DeleteRowInv, DeleteRestoreInv, DeleteFileInv,
     DeleteFindInv, DeleteRecreateInv, DeleteBackInv, DeletePutInv, DeleteDropInv,
     JobDirInv, JobAssetsInv, JobRowInv
     DEF Step
<1>5. QED
  BY <1>1, <1>2, <1>3, <1>4 DEF Next

(***************************************************************************)
(* The theorems.                                                           *)
(***************************************************************************)

(* The inductive invariant holds in every reachable state. *)
THEOREM Invariance == Spec => []IInv
  BY InitInv, NextInv, PTL DEF Spec

(* Every variable keeps its type. *)
THEOREM TypeCorrect == Spec => []TypeOK
<1>1. IInv => TypeOK
  BY DEF IInv
<1>2. QED
  BY <1>1, Invariance, PTL

(* Short of overlapping requests for one asset and of failures of the       *)
(* undoing, every row has its own content at its path unless a request is   *)
(* at work on it.                                                           *)
THEOREM RowsHaveTheirFiles == Spec => []RowHasItsFile
<1>1. IInv => RowHasItsFile
  BY DEF IInv, RowOK, RowHasItsFile, AtWork, PurgePc
<1>2. QED
  BY <1>1, Invariance, PTL

(* Under the same exemption no content lies at a path without its row. *)
THEOREM FilesHaveTheirRows == Spec => []FileHasItsRow
<1>1. IInv => FileHasItsRow
  BY DEF IInv, TypeOK, Contents, PlaceOK, FileOK, FileHasItsRow, Disturbed
<1>2. QED
  BY <1>1, Invariance, PTL

(* An acknowledged delete lasts. *)
THEOREM DeletesLast == Spec => []DeleteLasts
<1>1. IInv => DeleteLasts
  <2> SUFFICES ASSUME IInv, NEW a \in done
               PROVE  /\ a \notin rows
                      /\ PathOf[a] \in tangled \/ (file[PathOf[a]] # a /\ staged[a] = NoFile)
    BY DEF DeleteLasts
  <2>1. a \in Assets /\ PathOf[a] \in Paths
    BY ConstantFacts DEF IInv, TypeOK
  <2>2. a \notin rows /\ (PathOf[a] \notin tangled => staged[a] = NoFile)
    BY DEF IInv, DoneOK
  <2>3. PathOf[a] \notin tangled => file[PathOf[a]] # a
    BY <2>1, <2>2 DEF IInv, FileOK
  <2> QED
    BY <2>2, <2>3
<1>2. QED
  BY <1>1, Invariance, PTL

(***************************************************************************)
(* The marks tangled and faulted exempt paths from the theorems above.     *)
(* What is left behind is owed to them: to overlapping requests and to     *)
(* failures that the handlers do not undo.                                 *)
(***************************************************************************)
StagedPc == {"delRow", "delRestore", "delFile"}

(* Every delete, successful or not, empties its place in .deletions, also  *)
(* when others stage the same asset: unless file operations fail, only a   *)
(* crash in the middle of a delete leaves a staged file behind.            *)
StagedIsInHand ==
  \A a \in Assets : staged[a] # NoFile =>
    (\E c \in Clients : arg[c] = a /\ pc[c] \in StagedPc) \/ PathOf[a] \in faulted

THEOREM StagedFilesGo == ASSUME ~StorageFails PROVE Spec => []StagedIsInHand
<1>1. ASSUME ~StorageFails, IInv, StagedIsInHand, [Next]_vars PROVE StagedIsInHand'
  <2> USE <1>1, ConstantFacts DEF StagedIsInHand, StagedPc, Goto, End, Begin, stores, hist
  <2>1. ASSUME NEW c \in Clients, UploadFind(c) \/ UploadCreate(c) \/ UploadBack(c)
                                   \/ UploadWrite(c) \/ UploadUndo(c)
        PROVE  StagedIsInHand'
    BY <2>1 DEF IInv, TypeOK, UploadFind, UploadCreate, UploadBack, UploadWrite, UploadUndo, Fault
  <2>2. ASSUME NEW c \in Clients, DeleteGetJob(c) \/ DeleteRow(c) \/ DeleteFind(c)
                                   \/ DeleteRecreate(c) \/ DeleteBack(c) \/ DeleteDrop(c)
        PROVE  StagedIsInHand'
    BY <2>2 DEF IInv, TypeOK, DeleteGetJob, DeleteRow, DeleteFind, DeleteRecreate, DeleteBack,
       DeleteDrop, Fault
  <2>3. ASSUME NEW c \in Clients, DeleteStage(c) PROVE StagedIsInHand'
    BY <2>3 DEF IInv, TypeOK, PurgePc, DeleteStage, Stage
  <2>4. ASSUME NEW c \in Clients, DeleteRestore(c) \/ DeletePut(c) PROVE StagedIsInHand'
    BY <2>4 DEF IInv, TypeOK, PurgePc, DeleteRestore, DeletePut, Unstage
  <2>5. ASSUME NEW c \in Clients, DeleteFile(c) PROVE StagedIsInHand'
    BY <2>5 DEF IInv, TypeOK, PurgePc, DeleteFile
  <2>6. ASSUME NEW c \in Clients, JobDir(c) \/ JobAssets(c) \/ JobRow(c) PROVE StagedIsInHand'
    BY <2>6 DEF IInv, TypeOK, JobDir, JobAssets, JobRow
  <2>7. ASSUME NEW c \in Clients, Request(c) PROVE StagedIsInHand'
    BY <2>7 DEF IInv, TypeOK, Request, UploadGetJob, DeleteGet, DeleteMisses, JobGet, vars, reqs
  <2>8. CASE Crash
    BY <2>8 DEF IInv, TypeOK, Crash
  <2>9. CASE UNCHANGED vars
    BY <2>9 DEF vars, reqs
  <2>10. QED
    BY <2>1, <2>2, <2>3, <2>4, <2>5, <2>6, <2>7, <2>8, <2>9 DEF Next, Step
<1>2. Init => StagedIsInHand
  BY DEF Init, StagedIsInHand
<1>3. QED
  BY <1>1, <1>2, Invariance, PTL DEF Spec

(* Nothing fails but what the job delete is refused for, and there is one  *)
(* request at a time.                                                      *)
Undisturbed == Faults \subseteq {"deployed"} /\ \A b, c \in Clients : b = c

QuietOK ==
  /\ Disturbed = {}
  /\ \A c \in Clients : pc[c] \notin {"upUndo", "delRestore", "delFind", "delRecreate",
                                       "delBack", "delPut", "delDrop"}

(* Then, whenever no request is at work, the two stores agree: a path has  *)
(* no row and no file, or one row and its content, and .deletions is       *)
(* empty; also after a delete of the job that a deployment has stopped.    *)
StoresAgree ==
  (\A c \in Clients : pc[c] = "idle") =>
    /\ \A a \in Assets : staged[a] = NoFile
    /\ \A p \in Paths : (AtPath(p) = {} /\ file[p] = NoFile) \/ AtPath(p) = {file[p]}

THEOREM UndisturbedStoresAgree == ASSUME Undisturbed PROVE Spec => []StoresAgree
<1>1. Undisturbed => ~CallFails /\ ~FinalizerFails /\ ~StorageFails /\ "crash" \notin Faults
  BY DEF Undisturbed, CallFails, FinalizerFails, StorageFails
<1>2. ASSUME Undisturbed, IInv, QuietOK, [Next]_vars PROVE QuietOK'
  <2> USE <1>1, <1>2, ConstantFacts DEF QuietOK, Disturbed, Goto, End, Begin, stores, hist
  <2>1. ASSUME NEW c \in Clients, Request(c) PROVE QuietOK'
    BY <2>1 DEF Undisturbed, IInv, TypeOK, Request, UploadGetJob, DeleteGet, DeleteMisses, JobGet,
       Note, Overlap, vars, reqs
  <2>2. ASSUME NEW c \in Clients, UploadFind(c) \/ UploadCreate(c) \/ UploadBack(c)
                                   \/ UploadWrite(c) \/ UploadUndo(c)
        PROVE  QuietOK'
    BY <2>2 DEF IInv, TypeOK, UploadFind, UploadCreate, UploadBack, UploadWrite, UploadUndo
  <2>3. ASSUME NEW c \in Clients, DeleteRow(c) PROVE QuietOK'
    <3>1. arg[c] \in rows
      BY <2>3 DEF DeleteRow, IInv, TypeOK, WorkOK, EmptiedPc, PurgePc
    <3>2. QED
      BY <2>3, <3>1 DEF IInv, TypeOK, DeleteRow
  <2>4. ASSUME NEW c \in Clients, DeleteGetJob(c) \/ DeleteStage(c) \/ DeleteRestore(c)
                                   \/ DeleteFile(c) \/ DeleteFind(c) \/ DeleteRecreate(c)
                                   \/ DeleteBack(c) \/ DeletePut(c) \/ DeleteDrop(c)
        PROVE  QuietOK'
    BY <2>4 DEF IInv, TypeOK, DeleteGetJob, DeleteStage, DeleteRestore, DeleteFile, DeleteFind,
       DeleteRecreate, DeleteBack, DeletePut, DeleteDrop
  <2>5. ASSUME NEW c \in Clients, JobDir(c) \/ JobAssets(c) \/ JobRow(c) PROVE QuietOK'
    BY <2>5 DEF IInv, TypeOK, JobDir, JobAssets, JobRow
  <2>6. CASE Crash
    BY <2>6 DEF Crash
  <2>7. CASE UNCHANGED vars
    BY <2>7 DEF vars, reqs
  <2>8. QED
    BY <2>1, <2>2, <2>3, <2>4, <2>5, <2>6, <2>7 DEF Next, Step
<1>3. Init => QuietOK
  BY DEF Init, QuietOK, Disturbed
<1>4. ASSUME IInv, QuietOK, StagedIsInHand PROVE StoresAgree
  <2> SUFFICES ASSUME \A c \in Clients : pc[c] = "idle"
               PROVE  /\ \A a \in Assets : staged[a] = NoFile
                      /\ \A p \in Paths : \/ AtPath(p) = {} /\ file[p] = NoFile
                                          \/ AtPath(p) = {file[p]}
    BY DEF StoresAgree
  <2>1. \A a \in Assets : staged[a] = NoFile
    BY <1>4 DEF StagedIsInHand, StagedPc, QuietOK, Disturbed
  <2>2. ASSUME NEW p \in Paths, NEW a \in AtPath(p) PROVE AtPath(p) = {file[p]}
    <3>1. a \in rows /\ PathOf[a] = p
      BY DEF AtPath
    <3>2. file[p] = a
      BY <1>4, <3>1 DEF IInv, RowOK, QuietOK, FilledPc, EmptiedPc
    <3>3. QED
      BY <1>4, <3>1, <3>2 DEF AtPath, IInv, PlaceOK
  <2>3. ASSUME NEW p \in Paths, AtPath(p) = {} PROVE file[p] = NoFile
    BY <1>4, <2>3 DEF AtPath, IInv, TypeOK, Contents, PlaceOK, FileOK, QuietOK, Disturbed
  <2>4. QED
    BY <2>1, <2>2, <2>3
<1>5. Spec => []StagedIsInHand
  BY <1>1, StagedFilesGo
<1>6. QED
  BY <1>2, <1>3, <1>4, <1>5, Invariance, PTL DEF Spec

-----------------------------------------------------------------------------
(***************************************************************************)
(* AssetStore implements AssetLifecycle.  Most steps move no asset, or     *)
(* lose some; the others are steps of the life cycle.                      *)
(***************************************************************************)
ComingPc == {"upFind", "upCreate"}

(* Only request c moves. *)
Alone(c) == \A b \in Clients \ {c} : pc'[b] = pc[b] /\ arg'[b] = arg[b]

LEMMA Shrinks ==
  ASSUME NEW c \in Clients, Alone(c), NEW labels,
         pc'[c] \in labels => pc[c] \in labels /\ arg'[c] = arg[c]
  PROVE  AssetsAt(labels)' \subseteq AssetsAt(labels)
  BY DEF AssetsAt, Alone

LEMMA Stays ==
  ASSUME NEW c \in Clients, Alone(c), NEW labels,
         pc'[c] \in labels <=> pc[c] \in labels, pc[c] \in labels => arg'[c] = arg[c]
  PROVE  AssetsAt(labels)' = AssetsAt(labels)
  BY DEF AssetsAt, Alone

LEMMA Enters ==
  ASSUME NEW c \in Clients, Alone(c), NEW labels, pc[c] \notin labels, pc'[c] \in labels
  PROVE  AssetsAt(labels)' = AssetsAt(labels) \cup {arg'[c]}
  BY DEF AssetsAt, Alone

LEMMA Leaves ==
  ASSUME NEW c \in Clients, Alone(c), NEW labels, pc[c] \in labels, pc'[c] \notin labels,
         \A b \in Clients : pc[b] \in labels /\ arg[b] = arg[c] => b = c
  PROVE  AssetsAt(labels)' = AssetsAt(labels) \ {arg[c]}
  BY DEF AssetsAt, Alone

(* A step after which each asset is where it was, or is lost. *)
KeepsOrLoses ==
  /\ rows' \subseteq rows
  /\ AssetsAt(ComingPc)' \subseteq AssetsAt(ComingPc)
  /\ AssetsAt(OutPc)' \subseteq AssetsAt(OutPc)
  /\ UNCHANGED <<job, used, done>>

LEMMA LosesIsStep ==
  ASSUME KeepsOrLoses PROVE Lifecycle!Lose
  BY DEF KeepsOrLoses, Lifecycle!Lose, ComingPc

(* The steps that move no asset. *)
LEMMA QuietStep ==
  ASSUME IInv, NEW c \in Clients,
         \/ UploadFind(c) \/ UploadBack(c) \/ UploadWrite(c) \/ UploadUndo(c)
         \/ DeleteGetJob(c) \/ DeleteStage(c) \/ DeleteRestore(c) \/ DeleteFind(c)
         \/ DeleteBack(c) \/ DeletePut(c) \/ DeleteDrop(c)
         \/ JobGet(c) \/ JobDir(c) \/ JobAssets(c)
         \/ \E a \in Assets : DeleteGet(c, a)
  PROVE  KeepsOrLoses
<1> USE DEF Goto, End, Begin, stores, hist, OutPc, ComingPc
<1>1. pc \in [Clients -> {"idle"} \cup UploadPc \cup DeletePc \cup PurgePc]
      /\ arg \in [Clients -> used \cup {NoAsset}]
  BY DEF IInv, TypeOK
<1>2. rows' \subseteq rows /\ UNCHANGED <<job, used, done>>
  BY DEF UploadFind, UploadBack, UploadWrite, UploadUndo, DeleteGetJob, DeleteStage,
     DeleteRestore, DeleteFind, DeleteBack, DeletePut, DeleteDrop, JobGet, JobDir, JobAssets,
     DeleteGet
<1>3. /\ Alone(c)
      /\ pc'[c] \in ComingPc => pc[c] \in ComingPc /\ arg'[c] = arg[c]
      /\ pc'[c] \in OutPc => pc[c] \in OutPc /\ arg'[c] = arg[c]
  <2>1. CASE UploadFind(c) \/ UploadBack(c) \/ UploadWrite(c) \/ UploadUndo(c)
    BY <1>1, <2>1 DEF UploadFind, UploadBack, UploadWrite, UploadUndo, Alone
  <2>2. CASE DeleteGetJob(c) \/ DeleteStage(c) \/ DeleteRestore(c) \/ DeleteFind(c)
    BY <1>1, <2>2 DEF DeleteGetJob, DeleteStage, DeleteRestore, DeleteFind, Alone
  <2>3. CASE DeleteBack(c) \/ DeletePut(c) \/ DeleteDrop(c)
    BY <1>1, <2>3 DEF DeleteBack, DeletePut, DeleteDrop, Alone
  <2>4. CASE JobGet(c) \/ JobDir(c) \/ JobAssets(c) \/ \E a \in Assets : DeleteGet(c, a)
    BY <1>1, <2>4 DEF JobGet, JobDir, JobAssets, DeleteGet, Alone
  <2>5. QED
    BY <2>1, <2>2, <2>3, <2>4
<1>4. QED
  BY <1>2, <1>3, Shrinks DEF KeepsOrLoses

LEMMA QuietCrash ==
  ASSUME Crash
  PROVE  KeepsOrLoses
  BY DEF KeepsOrLoses, AssetsAt, ComingPc, OutPc, Crash, stores

LEMMA UploadGetJobMoves ==
  ASSUME IInv, NEW c \in Clients, NEW a \in Assets, UploadGetJob(c, a)
  PROVE  Lifecycle!Upload(a)
<1> USE DEF UploadGetJob, Begin
<1>1. Alone(c) /\ pc[c] = "idle" /\ pc'[c] = "upFind" /\ arg'[c] = a
  BY DEF IInv, TypeOK, Alone
<1>2. AssetsAt(ComingPc)' = AssetsAt(ComingPc) \cup {a}
  BY <1>1, Enters DEF ComingPc
<1>3. AssetsAt(OutPc)' = AssetsAt(OutPc)
  BY <1>1, Stays DEF OutPc
<1>4. QED
  BY <1>2, <1>3 DEF Lifecycle!Upload, ComingPc

(* A request that puts a row in has the asset for itself. *)
LEMMA CreatesAlone ==
  ASSUME IInv, NEW c \in Clients, pc[c] \in {"upCreate"} \cup OutPc
  PROVE  /\ arg[c] \in Assets
         /\ \A b \in Clients : pc[b] \in ComingPc \cup OutPc /\ arg[b] = arg[c] => b = c
  BY DEF IInv, TypeOK, OutOK, ComingPc, OutPc, PurgePc

LEMMA UploadCreateMoves ==
  ASSUME IInv, NEW c \in Clients, UploadCreate(c)
  PROVE  KeepsOrLoses \/ \E a \in Assets : Lifecycle!Store(a)
<1> USE DEF Goto, End, Begin
<1>1. /\ Alone(c) /\ pc[c] = "upCreate" /\ UNCHANGED <<job, used, done>>
      /\ \/ /\ InsertOK(arg[c]) /\ rows' = rows \cup {arg[c]} /\ pc'[c] = "upBack"
         \/ UNCHANGED rows /\ pc'[c] = "idle"
  BY DEF UploadCreate, Alone, IInv, TypeOK, hist
<1>2. PICK a \in Assets : a = arg[c]
  BY <1>1, CreatesAlone
<1>3. AssetsAt(ComingPc)' = AssetsAt(ComingPc) \ {a} /\ a \in AssetsAt(ComingPc)
  <2>1. pc[c] \in ComingPc /\ pc'[c] \notin ComingPc
    BY <1>1 DEF ComingPc
  <2>2. QED
    BY <1>1, <1>2, <2>1, CreatesAlone, Leaves DEF AssetsAt
<1>4. AssetsAt(OutPc)' = AssetsAt(OutPc)
  BY <1>1, Stays DEF OutPc
<1>5. CASE UNCHANGED rows
  BY <1>1, <1>3, <1>4, <1>5 DEF KeepsOrLoses
<1>6. CASE InsertOK(a) /\ rows' = rows \cup {a}
  <2>1. a \notin AssetsAt(OutPc)
    BY <1>1, <1>2, CreatesAlone DEF AssetsAt, OutPc
  <2>2. job = "completed" /\ \A b \in rows : PathOf[b] # PathOf[a]
    BY <1>6 DEF InsertOK, AtPath, IInv, TypeOK
  <2>3. QED
    BY <1>1, <1>3, <1>4, <1>6, <2>1, <2>2 DEF Lifecycle!Store, ComingPc
<1>7. QED
  BY <1>1, <1>2, <1>5, <1>6

LEMMA DeleteRecreateMoves ==
  ASSUME IInv, NEW c \in Clients, DeleteRecreate(c)
  PROVE  KeepsOrLoses \/ \E a \in Assets : Lifecycle!Store(a)
<1> USE DEF Goto, End, Begin
<1>1. /\ Alone(c) /\ pc[c] = "delRecreate" /\ UNCHANGED <<job, used, done>>
      /\ \/ /\ InsertOK(arg[c]) /\ rows' = rows \cup {arg[c]} /\ pc'[c] = "delBack"
         \/ UNCHANGED rows /\ pc'[c] = "idle"
  BY DEF DeleteRecreate, Alone, IInv, TypeOK, hist
<1>2. PICK a \in Assets : a = arg[c]
  BY <1>1, CreatesAlone DEF OutPc
<1>3. AssetsAt(OutPc)' = AssetsAt(OutPc) \ {a} /\ a \in AssetsAt(OutPc)
  <2>1. pc[c] \in OutPc /\ pc'[c] \notin OutPc
    BY <1>1 DEF OutPc
  <2>2. QED
    BY <1>1, <1>2, <2>1, CreatesAlone, Leaves DEF AssetsAt
<1>4. AssetsAt(ComingPc)' = AssetsAt(ComingPc)
  BY <1>1, Stays DEF ComingPc
<1>5. CASE UNCHANGED rows
  BY <1>1, <1>3, <1>4, <1>5 DEF KeepsOrLoses
<1>6. CASE InsertOK(a) /\ rows' = rows \cup {a}
  <2>1. a \notin AssetsAt(ComingPc)
    BY <1>1, <1>2, CreatesAlone DEF AssetsAt, ComingPc, OutPc
  <2>2. job = "completed" /\ \A b \in rows : PathOf[b] # PathOf[a]
    BY <1>6 DEF InsertOK, AtPath, IInv, TypeOK
  <2>3. QED
    BY <1>1, <1>3, <1>4, <1>6, <2>1, <2>2 DEF Lifecycle!Store, ComingPc
<1>7. QED
  BY <1>1, <1>2, <1>5, <1>6

LEMMA DeleteRowMoves ==
  ASSUME IInv, NEW c \in Clients, DeleteRow(c)
  PROVE  KeepsOrLoses \/ \E a \in Assets : Lifecycle!Take(a)
<1> USE DEF Goto, Begin
<1>1. /\ Alone(c) /\ pc[c] = "delRow" /\ UNCHANGED <<job, used, done>> /\ arg'[c] = arg[c]
      /\ \/ arg[c] \in rows /\ rows' = rows \ {arg[c]} /\ pc'[c] = "delFile"
         \/ UNCHANGED rows /\ pc'[c] = "delRestore"
  BY DEF DeleteRow, Alone, IInv, TypeOK, hist
<1>2. AssetsAt(ComingPc)' = AssetsAt(ComingPc)
  BY <1>1, Stays DEF ComingPc
<1>3. CASE UNCHANGED rows /\ pc'[c] = "delRestore"
  BY <1>1, <1>2, <1>3, Stays DEF KeepsOrLoses, OutPc
<1>4. CASE arg[c] \in rows /\ rows' = rows \ {arg[c]} /\ pc'[c] = "delFile"
  <2>1. AssetsAt(OutPc)' = AssetsAt(OutPc) \cup {arg[c]}
    BY <1>1, <1>4, Enters DEF OutPc
  <2>2. Lifecycle!Take(arg[c])
    BY <1>1, <1>2, <1>4, <2>1 DEF Lifecycle!Take, ComingPc
  <2>3. QED
    BY <1>4, <2>2 DEF IInv, TypeOK
<1>5. QED
  BY <1>1, <1>3, <1>4

LEMMA DeleteFileMoves ==
  ASSUME IInv, NEW c \in Clients, DeleteFile(c)
  PROVE  KeepsOrLoses \/ \E a \in Assets : Lifecycle!Acknowledge(a)
<1> USE DEF Goto, End, Begin
<1>1. /\ Alone(c) /\ pc[c] = "delFile" /\ UNCHANGED <<job, used, rows>>
      /\ \/ done' = done \cup {arg[c]} /\ pc'[c] = "idle"
         \/ UNCHANGED done /\ pc'[c] = "delFind" /\ arg'[c] = arg[c]
  BY DEF DeleteFile, Alone, IInv, TypeOK
<1>2. AssetsAt(ComingPc)' = AssetsAt(ComingPc)
  BY <1>1, Stays DEF ComingPc
<1>3. CASE UNCHANGED done /\ pc'[c] = "delFind" /\ arg'[c] = arg[c]
  BY <1>1, <1>2, <1>3, Stays DEF KeepsOrLoses, OutPc
<1>4. CASE done' = done \cup {arg[c]} /\ pc'[c] = "idle"
  <2>1. pc[c] \in OutPc /\ pc'[c] \notin OutPc
    BY <1>1, <1>4 DEF OutPc
  <2>2. /\ AssetsAt(OutPc)' = AssetsAt(OutPc) \ {arg[c]} /\ arg[c] \in AssetsAt(OutPc)
        /\ arg[c] \in Assets
    BY <1>1, <2>1, CreatesAlone, Leaves DEF AssetsAt
  <2>3. Lifecycle!Acknowledge(arg[c])
    BY <1>1, <1>2, <1>4, <2>2 DEF Lifecycle!Acknowledge, ComingPc
  <2>4. QED
    BY <2>2, <2>3
<1>5. QED
  BY <1>1, <1>3, <1>4

LEMMA JobRowMoves ==
  ASSUME IInv, NEW c \in Clients, JobRow(c)
  PROVE  KeepsOrLoses \/ Lifecycle!DeleteJob
<1>1. /\ Alone(c) /\ pc[c] = "jobRow" /\ pc'[c] = "idle" /\ UNCHANGED <<rows, used, done>>
      /\ UNCHANGED job \/ (rows = {} /\ job' = "gone")
  BY DEF JobRow, End, Begin, Alone, IInv, TypeOK, hist
<1>2. AssetsAt(ComingPc)' = AssetsAt(ComingPc) /\ AssetsAt(OutPc)' = AssetsAt(OutPc)
  BY <1>1, Stays DEF ComingPc, OutPc
<1>3. QED
  BY <1>1, <1>2 DEF KeepsOrLoses, Lifecycle!DeleteJob, ComingPc

(* The asset store implements the life cycle of the assets. *)
THEOREM AssetLifecycleImplemented == Spec => ImplementsAssetLifecycle
<1>1. Init => Lifecycle!Init
  BY DEF Init, Lifecycle!Init, AssetsAt, OutPc
<1>2. IInv /\ [Next]_vars => [Lifecycle!Next]_(Lifecycle!vars)
  <2> SUFFICES ASSUME IInv, [Next]_vars PROVE [Lifecycle!Next]_(Lifecycle!vars)
    OBVIOUS
  <2>1. CASE UNCHANGED vars
    BY <2>1 DEF vars, stores, reqs, hist, Lifecycle!vars, AssetsAt
  <2>2. CASE KeepsOrLoses
    BY <2>2, LosesIsStep DEF Lifecycle!Next
  <2>3. CASE Crash
    BY <2>2, <2>3, QuietCrash
  <2>4. ASSUME NEW c \in Clients, Request(c) PROVE [Lifecycle!Next]_(Lifecycle!vars)
    <3>1. CASE JobGet(c) \/ \E a \in Assets : DeleteGet(c, a)
      BY <2>2, <3>1, QuietStep
    <3>2. ASSUME NEW a \in Assets, UploadGetJob(c, a) PROVE Lifecycle!Next
      BY <3>2, UploadGetJobMoves DEF Lifecycle!Next
    <3>3. QED
      BY <2>1, <2>4, <3>1, <3>2 DEF Request, DeleteMisses
  <2>5. ASSUME NEW c \in Clients, Step(c) PROVE [Lifecycle!Next]_(Lifecycle!vars)
    <3>1. CASE UploadCreate(c)
      BY <2>2, <3>1, UploadCreateMoves DEF Lifecycle!Next
    <3>2. CASE DeleteRecreate(c)
      BY <2>2, <3>2, DeleteRecreateMoves DEF Lifecycle!Next
    <3>3. CASE DeleteRow(c)
      BY <2>2, <3>3, DeleteRowMoves DEF Lifecycle!Next
    <3>4. CASE DeleteFile(c)
      BY <2>2, <3>4, DeleteFileMoves DEF Lifecycle!Next
    <3>5. CASE JobRow(c)
      BY <2>2, <3>5, JobRowMoves DEF Lifecycle!Next
    <3>6. QED
      BY <2>2, <2>5, <3>1, <3>2, <3>3, <3>4, <3>5, QuietStep DEF Step
  <2>6. QED
    BY <2>1, <2>3, <2>4, <2>5 DEF Next
<1>3. QED
  BY <1>1, <1>2, Invariance, PTL DEF Spec, ImplementsAssetLifecycle, Lifecycle!Spec
=============================================================================
