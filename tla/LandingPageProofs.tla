-------------------------- MODULE LandingPageProofs --------------------------
(***************************************************************************)
(* The safety theorems of LandingPage, for any number of visitors, files,  *)
(* directories, failed reads and restarts.  IInv adds what a walk knows:   *)
(* the files it was to find are still there, it has listed those of the    *)
(* directories it has read, but for reads that failed, and as long as it   *)
(* has no link all that it has listed comes after the next directory.      *)
(***************************************************************************)
EXTENDS LandingPage, FiniteSetTheorems, WellFoundedInduction, TLAPS

-----------------------------------------------------------------------------
(* The first n of a set of files. *)
LEMMA FilesAreFinite ==
  ASSUME NEW S \in SUBSET Files
  PROVE  /\ IsFiniteSet(S) /\ S \subseteq Int
         /\ Cardinality(S) \in Nat /\ (Cardinality(S) = 0 <=> S = {})
<1>1. Files \subseteq 1..EntryCount /\ EntryCount \in Nat
  BY ConstantsOK DEF Files
<1>2. IsFiniteSet(1..EntryCount) /\ 1..EntryCount \subseteq Int
  BY <1>1, FS_Interval
<1>3. IsFiniteSet(S)
  <2>1. S \in SUBSET (1..EntryCount)
    BY <1>1
  <2>2. QED
    BY <1>2, <2>1, FS_Subset
<1>4. S \subseteq Int
  BY <1>1, <1>2
<1>5. QED
  BY <1>3, <1>4, FS_CardinalityType, FS_EmptySet

LEMMA BelowGrows ==
  ASSUME NEW S \in SUBSET Files, NEW x \in S, NEW y \in S, x < y
  PROVE  {g \in S : g < x} \subseteq {g \in S : g < y} /\ {g \in S : g < x} # {g \in S : g < y}
<1>1. S \subseteq Int
  BY FilesAreFinite
<1>2. \A g \in S : g < x => g < y
  BY <1>1
<1>3. ~(x < x)
  BY <1>1
<1>4. QED
  BY <1>2, <1>3

LEMMA Smallest ==
  ASSUME NEW S \in SUBSET Files, S # {}
  PROVE  \E x \in S : {y \in S : y < x} = {}
<1> DEFINE Below(x) == {y \in S : y < x}
           T == {Below(x) : x \in S}
<1>1. S \subseteq Int
  BY FilesAreFinite
<1>2. T \subseteq FiniteSubsetsOf(S) /\ T # {}
  <2>1. \A U \in SUBSET S : IsFiniteSet(U)
    BY FilesAreFinite
  <2>2. QED
    BY <2>1 DEF FiniteSubsetsOf
<1>3. PICK U \in T : \A V \in T : ~(<<V, U>> \in StrictSubsetOrdering(S))
  BY <1>2, FS_StrictSubsetOrderingWellFounded, WFMin
<1>4. PICK x \in S : U = Below(x)
  BY <1>3
<1>5. ASSUME NEW y \in Below(x) PROVE FALSE
  <2>1. Below(y) \in T /\ Below(y) \subseteq S /\ U \subseteq S
    BY <1>4, <1>5
  <2>2. Below(y) \subseteq U /\ Below(y) # U
    BY <1>4, <1>5, BelowGrows
  <2>3. QED
    BY <1>3, <2>1, <2>2 DEF StrictSubsetOrdering
<1>6. QED
  BY <1>4, <1>5

LEMMA LowestFacts ==
  ASSUME NEW S \in SUBSET Files
  PROVE  /\ Lowest(Limit, S) \subseteq S
         /\ Cardinality(Lowest(Limit, S)) \in 0..Limit
         /\ Lowest(Limit, S) = {} => S = {}
<1> DEFINE L == Lowest(Limit, S)
           rank == [f \in L |-> Cardinality({g \in S : g < f})]
<1>1. L \subseteq S /\ L \in SUBSET Files /\ Limit \in Nat \ {0}
  BY ConstantsOK DEF Lowest
<1>2. Cardinality(L) <= Limit
  <2>1. IsFiniteSet(L) /\ Cardinality(L) \in Nat /\ S \subseteq Int
    BY <1>1, FilesAreFinite
  <2>2. IsFiniteSet(0..(Limit - 1)) /\ Cardinality(0..(Limit - 1)) = Limit
    BY <1>1, FS_Interval
  <2>3. rank \in [L -> 0..(Limit - 1)]
    <3>1. \A f \in L : Cardinality({g \in S : g < f}) \in Nat
      BY FilesAreFinite
    <3>2. \A f \in L : Cardinality({g \in S : g < f}) < Limit
      BY DEF Lowest
    <3>3. QED
      BY <1>1, <3>1, <3>2
  <2>4. ASSUME NEW x \in L, NEW y \in L, x < y PROVE rank[x] # rank[y]
    <3>1. /\ {g \in S : g < x} \subseteq {g \in S : g < y}
          /\ {g \in S : g < x} # {g \in S : g < y}
      BY <1>1, <2>4, BelowGrows
    <3>2. IsFiniteSet({g \in S : g < y})
      BY FilesAreFinite
    <3>3. QED
      BY <3>1, <3>2, FS_Subset
  <2>5. \A x, y \in L : x # y => rank[x] # rank[y]
    <3>1. L \subseteq Int
      BY <1>1, <2>1
    <3>2. \A x, y \in Int : x < y \/ y < x \/ x = y
      OBVIOUS
    <3> HIDE DEF L, rank
    <3>3. QED
      BY <2>4, <3>1, <3>2
  <2>6. ~(Cardinality(0..(Limit - 1)) < Cardinality(L))
    <3> HIDE DEF L, rank
    <3>1. QED
      BY <2>1, <2>2, <2>3, <2>5, FS_PigeonHole
  <2>7. QED
    BY <1>1, <2>1, <2>2, <2>6
<1>3. ASSUME S # {} PROVE L # {}
  <2>1. PICK x \in S : {y \in S : y < x} = {}
    BY <1>3, Smallest
  <2>2. Cardinality({y \in S : y < x}) < Limit
    BY <1>1, <2>1, FS_EmptySet
  <2>3. QED
    BY <2>2 DEF Lowest
<1>4. QED
  BY <1>1, <1>2, <1>3, FilesAreFinite

-----------------------------------------------------------------------------
(* The inductive invariant. *)
PageOK == answers \subseteq (IF page = NoPage THEN {} ELSE {page})

WalkOK ==
  \A v \in Visitors :
    /\ pc[v] = "idle" => links[v] = {} /\ at[v] = 0 /\ listed[v] = {} /\ failed[v] = {}
    /\ pc[v] \in {"walking", "walked"} => stayed[v] \subseteq files
    /\ pc[v] = "walking" =>
         \A f \in stayed[v] : DirOf[f] <= at[v] => f \in listed[v] \/ DirOf[f] \in failed[v]
    /\ pc[v] = "walked" /\ links[v] = {} => \A f \in stayed[v] : DirOf[f] \in failed[v]

IInv == TypeOK /\ PageOK /\ WalkOK /\ NoFilesIsTrue

LEMMA Initially == Init => IInv
<1>1. 0 \in 0..MaxRestarts
  BY ConstantsOK
<1>2. QED
  BY <1>1, FS_EmptySet, ConstantsOK DEF Init, IInv, TypeOK, PageOK, WalkOK, NoFilesIsTrue

LEMMA Numbers ==
  /\ Files \subseteq Int /\ Dirs \subseteq Int /\ \A d \in Dirs : d > 0
  /\ \A f \in Files : DirOf[f] \in Dirs
  BY ConstantsOK DEF Files

LEMMA RequestKeeps ==
  ASSUME IInv, NEW v \in Visitors, Request(v) PROVE IInv'
<1> USE DEF Request, IInv
<1>1. page # NoPage => page # {} /\ page \in SUBSET Files /\ Cardinality(page) \in 0..Limit
  BY FilesAreFinite, ConstantsOK DEF TypeOK
<1>2. TypeOK'
  BY <1>1 DEF TypeOK, Answer
<1>3. PageOK'
  BY DEF TypeOK, PageOK, Answer
<1>4. WalkOK'
  <2>1. UNCHANGED <<at, listed, failed>>
    OBVIOUS
  <2>2. CASE page # NoPage
    BY <2>1, <2>2 DEF TypeOK, WalkOK, Answer
  <2>3. CASE page = NoPage
    <3>1. \A w \in Visitors \ {v} :
            UNCHANGED <<pc[w], at[w], listed[w], failed[w], links[w], stayed[w], files>>
      BY <2>3 DEF TypeOK
    <3>2. /\ at'[v] = 0 /\ pc'[v] = "walking" /\ stayed'[v] = files
          /\ files \subseteq Files /\ files' = files
      BY <2>3 DEF TypeOK, WalkOK
    <3>3. \A f \in files : ~(DirOf[f] <= 0)
      <4>1. \A d \in Dirs : ~(d <= 0)
        BY Numbers
      <4>2. QED
        BY <3>2, <4>1, Numbers
    <3>4. QED
      BY <3>1, <3>2, <3>3 DEF WalkOK
  <2>4. QED
    BY <2>2, <2>3
<1>5. NoFilesIsTrue'
  BY <1>1 DEF TypeOK, NoFilesIsTrue, Answer
<1>6. QED
  BY <1>2, <1>3, <1>4, <1>5

LEMMA ReadDirKeeps ==
  ASSUME IInv, NEW v \in Visitors, ReadDir(v) PROVE IInv'
<1>1. PICK d \in Dirs, read \in SUBSET Files :
        /\ NextDir(v, d) /\ Reads(v, d, read)
        /\ at' = [at EXCEPT ![v] = d]
        /\ listed' = [listed EXCEPT ![v] = @ \cup read]
        /\ links' = [links EXCEPT ![v] = Lowest(Limit, Before(d, listed[v] \cup read))]
        /\ pc' = IF Last(d) \/ Cardinality(links'[v]) >= Limit THEN [pc EXCEPT ![v] = "walked"] ELSE pc
  BY DEF ReadDir
<1> DEFINE all == listed[v] \cup read
           found == Lowest(Limit, Before(d, all))
<1>2. TypeOK /\ WalkOK /\ pc[v] = "walking" /\ UNCHANGED <<files, page, restarts, stayed, answers>>
  BY DEF ReadDir, IInv
<1>3. /\ all \in SUBSET Files /\ Before(d, all) \in SUBSET Files
      /\ found \in SUBSET Files /\ Cardinality(found) \in 0..Limit
      /\ found = {} => Before(d, all) = {}
  <2>1. all \in SUBSET Files
    BY <1>2 DEF TypeOK
  <2>2. Before(d, all) \in SUBSET Files
    BY <2>1 DEF Before
  <2>3. QED
    BY <2>1, <2>2, LowestFacts
<1> HIDE DEF found
<1>4. /\ links'[v] = found /\ at'[v] = d /\ listed'[v] = all
      /\ pc'[v] \in {"walking", "walked"}
      /\ pc'[v] = "walked" => Last(d) \/ Cardinality(found) >= Limit
      /\ failed' \in [Visitors -> SUBSET Dirs] /\ failed[v] \subseteq failed'[v]
      /\ \A w \in Visitors \ {v} : UNCHANGED <<pc[w], at[w], listed[w], failed[w], links[w], stayed[w]>>
  BY <1>1, <1>2 DEF TypeOK, Reads, found
<1>5. TypeOK'
  <2>1. links' \in [Visitors -> SUBSET Files] /\ \A w \in Visitors : Cardinality(links'[w]) \in 0..Limit
    BY <1>1, <1>2, <1>3, <1>4 DEF TypeOK, found
  <2>2. at' \in [Visitors -> {0} \cup Dirs] /\ listed' \in [Visitors -> SUBSET Files]
    BY <1>1, <1>2, <1>3 DEF TypeOK
  <2>3. pc' \in [Visitors -> {"idle", "walking", "walked", "answered"}]
    BY <1>1, <1>2 DEF TypeOK
  <2>4. QED
    BY <1>2, <1>4, <2>1, <2>2, <2>3 DEF TypeOK
<1>6. PageOK'
  BY <1>2 DEF PageOK, IInv
<1>7. ASSUME NEW f \in stayed[v], DirOf[f] <= d PROVE f \in all \/ DirOf[f] \in failed'[v]
  <2>1. f \in Files /\ f \in files /\ DirOf[f] \in Dirs /\ DirOf[f] \in Int /\ d \in Int /\ at[v] \in Int
    <3>1. f \in files /\ files \subseteq Files /\ at[v] \in {0} \cup Dirs
      BY <1>2 DEF TypeOK, WalkOK
    <3>2. \A n \in {0} \cup Dirs : n \in Int
      BY Numbers
    <3>3. QED
      BY <3>1, <3>2, Numbers
  <2>2. CASE DirOf[f] <= at[v]
    BY <1>2, <1>4, <2>2 DEF WalkOK
  <2>3. CASE DirOf[f] = d
    <3>1. CASE read = FilesOf(d)
      BY <2>1, <2>3, <3>1 DEF FilesOf
    <3>2. CASE read # FilesOf(d)
      BY <1>1, <1>2, <2>3, <3>2 DEF Reads, TypeOK
    <3>3. QED
      BY <3>1, <3>2
  <2>4. DirOf[f] <= at[v] \/ DirOf[f] = d
    BY <1>1, <1>7, <2>1 DEF NextDir
  <2>5. QED
    BY <2>2, <2>3, <2>4
<1>8. ASSUME pc'[v] = "walked", found = {} PROVE \A f \in stayed[v] : DirOf[f] \in failed'[v]
  <2>1. Cardinality(found) = 0 /\ Limit \in Nat \ {0}
    BY <1>8, FS_EmptySet, ConstantsOK
  <2>2. Last(d)
    BY <1>4, <1>8, <2>1
  <2>3. Before(d, all) = all
    BY <2>2, Numbers DEF Last, Before
  <2>4. all = {}
    BY <1>3, <1>8, <2>3
  <2>5. \A f \in stayed[v] : DirOf[f] <= d
    BY <1>2, <2>2, Numbers DEF Last, TypeOK
  <2>6. QED
    BY <1>7, <2>4, <2>5
<1> HIDE DEF all
<1>9. WalkOK'
  <2> SUFFICES ASSUME NEW w \in Visitors
      PROVE  /\ pc'[w] = "idle" => links'[w] = {} /\ at'[w] = 0 /\ listed'[w] = {} /\ failed'[w] = {}
             /\ pc'[w] \in {"walking", "walked"} => stayed'[w] \subseteq files'
             /\ pc'[w] = "walking" =>
                  \A f \in stayed'[w] : DirOf[f] <= at'[w] => f \in listed'[w] \/ DirOf[f] \in failed'[w]
             /\ pc'[w] = "walked" /\ links'[w] = {} => \A f \in stayed'[w] : DirOf[f] \in failed'[w]
    BY DEF WalkOK
  <2>1. CASE w # v
    BY <1>2, <1>4, <2>1 DEF WalkOK
  <2>2. CASE w = v
    BY <1>2, <1>4, <1>7, <1>8, <2>2 DEF WalkOK
  <2>3. QED
    BY <2>1, <2>2
<1>10. NoFilesIsTrue'
  BY <1>2, <1>4 DEF NoFilesIsTrue, IInv
<1>11. QED
  BY <1>5, <1>6, <1>9, <1>10 DEF IInv

LEMMA KeepKeeps ==
  ASSUME IInv, NEW v \in Visitors, Keep(v) PROVE IInv'
<1> USE DEF Keep, IInv
<1>1. links[v] \in SUBSET Files /\ Cardinality(links[v]) \in 0..Limit /\ {} # NoPage
      /\ Cardinality({}) \in 0..Limit
  <2>1. links[v] \in SUBSET Files /\ Cardinality(links[v]) \in 0..Limit
    BY DEF TypeOK
  <2>2. {} \in SUBSET Files /\ 0 \in 0..Limit
    BY ConstantsOK
  <2>3. QED
    BY <2>1, <2>2, ConstantsOK, FS_EmptySet
<1>2. links[v] # {} => Cardinality(links[v]) \in 1..Limit /\ links[v] # NoPage
  BY <1>1, FilesAreFinite, ConstantsOK
<1>3. TypeOK'
  <2>1. PICK shown \in {{}, page'} :
          Answer(v, shown) /\ (links[v] = {} => shown = {} /\ page' = page) /\ (links[v] # {} => shown = page')
    OBVIOUS
  <2>2. /\ page' = NoPage \/ (page' \subseteq Files /\ Cardinality(page') \in 1..Limit)
        /\ links[v] # {} => page' # NoPage
    BY <1>1, <1>2 DEF TypeOK
  <2>3. \A n \in 1..Limit : n \in 0..Limit
    BY ConstantsOK
  <2>4. shown \in SUBSET Files /\ Cardinality(shown) \in 0..Limit
    BY <1>1, <2>1, <2>2, <2>3
  <2>5. links' = [links EXCEPT ![v] = shown] /\ pc' = [pc EXCEPT ![v] = "answered"]
        /\ answers' = answers \cup ({shown} \ {{}})
    BY <2>1 DEF Answer
  <2>6. UNCHANGED <<files, at, listed, restarts, failed, stayed>>
    OBVIOUS
  <2> HIDE DEF Keep
  <2>7. QED
    BY <2>2, <2>4, <2>5, <2>6 DEF TypeOK
<1>4. PageOK'
  BY <1>1, <1>2 DEF PageOK, Answer
<1>5. WalkOK'
  BY DEF WalkOK, TypeOK, Answer
<1>6. page # NoPage => page # {}
  BY FilesAreFinite DEF TypeOK
<1>7. NoFilesIsTrue'
  BY <1>6 DEF NoFilesIsTrue, WalkOK, TypeOK, Answer
<1>8. QED
  BY <1>3, <1>4, <1>5, <1>7

LEMMA LeaveKeeps ==
  ASSUME IInv, NEW v \in Visitors, Leave(v) PROVE IInv'
  BY FS_EmptySet, ConstantsOK DEF Leave, IInv, TypeOK, PageOK, WalkOK, NoFilesIsTrue

LEMMA WriteFileKeeps ==
  ASSUME IInv, NEW f \in Files, WriteFile(f) PROVE IInv'
  BY DEF WriteFile, IInv, TypeOK, PageOK, WalkOK, NoFilesIsTrue

LEMMA RemoveFileKeeps ==
  ASSUME IInv, NEW f \in Files, RemoveFile(f) PROVE IInv'
<1> USE DEF RemoveFile, IInv
<1>1. TypeOK'
  BY DEF TypeOK, Busy
<1>2. PageOK'
  BY DEF PageOK
<1>3. WalkOK'
  BY DEF WalkOK, TypeOK, Busy
<1>4. NoFilesIsTrue'
  BY DEF NoFilesIsTrue, TypeOK, Busy
<1>5. QED
  BY <1>1, <1>2, <1>3, <1>4

LEMMA RestartKeeps ==
  ASSUME IInv, Restart PROVE IInv'
<1>1. restarts' \in 0..MaxRestarts
  BY ConstantsOK DEF Restart, IInv, TypeOK
<1>2. QED
  BY <1>1, FS_EmptySet, ConstantsOK DEF Restart, IInv, TypeOK, PageOK, WalkOK, NoFilesIsTrue

LEMMA Invariance == Spec => []IInv
<1>1. ASSUME IInv, [Next]_vars PROVE IInv'
  <2>1. CASE UNCHANGED vars
    BY <1>1, <2>1 DEF IInv, TypeOK, PageOK, WalkOK, NoFilesIsTrue, vars
  <2>2. QED
    BY <1>1, <2>1, RequestKeeps, ReadDirKeeps, KeepKeeps, LeaveKeeps, WriteFileKeeps,
       RemoveFileKeeps, RestartKeeps DEF Next, Handle
<1>2. QED
  BY <1>1, Initially, PTL DEF Spec

-----------------------------------------------------------------------------
(* Every variable keeps its type; in particular no walk ever has more links *)
(* than the limit, although a read returns as many files as the directory   *)
(* holds, and the page that is kept has at least one.                      *)
THEOREM TypeCorrect == Spec => []TypeOK
  BY Invariance, PTL DEF IInv

(* Whatever walks overlap and whatever files come and go: all the answers  *)
(* with links that one process gives have the same links.                  *)
THEOREM PageIsOne == Spec => []OnePage
<1>1. IInv => OnePage
  BY DEF IInv, PageOK, OnePage
<1>2. QED
  BY <1>1, Invariance, PTL

(* A visitor is told that there are no files only if every file that was    *)
(* there from the beginning of the request to its answer lies in a directory *)
(* that its walk could not read.                                            *)
THEOREM NoFilesTrue == Spec => []NoFilesIsTrue
  BY Invariance, PTL DEF IInv
=============================================================================
