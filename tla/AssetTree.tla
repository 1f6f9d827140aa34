------------------------------ MODULE AssetTree ------------------------------
(***************************************************************************)
(* The tree of assets that GET /api/assets/tree answers: the rows are read *)
(* in pages by OFFSET, each page by a statement of its own, while uploads, *)
(* jobs and deletes add and remove rows; then each row is put into a tree  *)
(* under the path that is displayed for the filter of the request.         *)
(*                                                                         *)
(* Assets are numbered in the order in which they are listed.  A tree is a *)
(* function from the path of a node, as a sequence of names, to what the   *)
(* node is; the order of siblings is left out.                             *)
(***************************************************************************)
EXTENDS Integers, Sequences, FiniteSets, SequencesExt

CONSTANTS
  AssetCount,
  Readers,       \* requests for the tree
  Names,         \* of the directories and files of a path
  World, Job,    \* of each asset
  Target,        \* its path below the directory of its job
  Generated,     \* the directory of all jobs
  NoFilter,      \* the empty parameter
  Filters,       \* pairs of a world model and a job, or NoFilter
  PageSize,      \* what listAllForTree asks for
  MaxLimit, DefaultLimit,
  MaxChanges     \* bound on inserts and deletes

Assets == 1..AssetCount

ASSUME ConstantsOK ==
  /\ AssetCount \in Nat
  /\ PageSize \in 1..MaxLimit /\ MaxLimit \in Nat
  /\ DefaultLimit \in 1..MaxLimit
  /\ MaxChanges \in Nat
  /\ Generated \in Names
  /\ World \in [Assets -> Names] /\ Job \in [Assets -> Names]
  /\ Target \in [Assets -> Seq(Names)]
  /\ \A a \in Assets : Target[a] # <<>>
  /\ \A a, b \in Assets : Job[a] = Job[b] => World[a] = World[b]
  /\ \A a, b \in Assets :
       Job[a] = Job[b] /\ Target[a] = Target[b] => a = b

VARIABLES
  rows,     \* the assets that have a row
  pc,       \* "idle", "listing", "building", "done" or "failed"
  filter,   \* of each request
  items,    \* allItems, as a set
  offset,   \* their number, with repetitions
  built,    \* those that are in the tree
  tree,     \* the answer
  stayed,   \* history: assets that have had a row since the request began
  deleted,  \* history: requests a row was deleted during
  changes

vars == <<rows, pc, filter, items, offset, built, tree, stayed, deleted, changes>>

(* Uploads and jobs store below the directory of the job. *)
Path(a) == <<Generated, World[a], Job[a]>> \o Target[a]

NoTree == <<>>

Directory == [kind |-> "directory"]
File(a) == [kind |-> "file", asset |-> a]

NonEmptyPrefixes(path) == {SubSeq(path, 1, n) : n \in 1..Len(path)}

(* displayPath: the part of the path that is below what the filter names.  *)
TrimTreePrefix(path, prefix) == SubSeq(path, Len(prefix) + 1, Len(path))

DisplayPath(a, f) ==
  LET below(prefix) == IsStrictPrefix(prefix, Path(a))
      ofJob == <<Generated, World[a], f.job>>
      ofWorld == <<Generated, f.world>>
  IN IF f.job # NoFilter /\ below(ofJob) THEN TrimTreePrefix(Path(a), ofJob)
     ELSE IF f.world # NoFilter /\ below(ofWorld) THEN TrimTreePrefix(Path(a), ofWorld)
     ELSE IF f.world # NoFilter /\ below(<<f.world>>) THEN TrimTreePrefix(Path(a), <<f.world>>)
     ELSE Path(a)

(* The nodes of a tree of the assets in S. *)
Nodes(S, f) == UNION {NonEmptyPrefixes(DisplayPath(a, f)) : a \in S}

TypeOK ==
  /\ rows \subseteq Assets
  /\ pc \in [Readers -> {"idle", "listing", "building", "done", "failed"}]
  /\ filter \in [Readers -> Filters]
  /\ items \in [Readers -> SUBSET Assets]
  /\ offset \in [Readers -> Nat]
  /\ \A r \in Readers : Cardinality(items[r]) <= offset[r]
  /\ built \in [Readers -> SUBSET Assets]
  /\ DOMAIN tree = Readers
  /\ \A r \in Readers :
       tree[r] \in [Nodes(built[r], filter[r]) -> {Directory} \cup {File(a) : a \in built[r]}]
  /\ stayed \in [Readers -> SUBSET rows]
  /\ deleted \subseteq Readers
  /\ changes \in 0..MaxChanges

Init ==
  /\ rows \in SUBSET Assets
  /\ pc = [r \in Readers |-> "idle"]
  /\ filter \in [Readers -> Filters]
  /\ items = [r \in Readers |-> {}]
  /\ offset = [r \in Readers |-> 0]
  /\ built = [r \in Readers |-> {}]
  /\ tree = [r \in Readers |-> NoTree]
  /\ stayed = [r \in Readers |-> {}]
  /\ deleted = {}
  /\ changes = 0

-----------------------------------------------------------------------------
(* List: one statement with a WHERE, a LIMIT and an OFFSET. *)
Matches(a, f) == f.world \in {NoFilter, World[a]} /\ f.job \in {NoFilter, Job[a]}

Matching(f) == {a \in rows : Matches(a, f)}

(* How many rows come before a. *)
Rank(a, f) == Cardinality({b \in Matching(f) : b < a})

(* Mutant of NormalizeLimit: the greatest limit is too great. *)
NormalizeLimitBelow(limit) == IF limit <= 0 \/ limit >= MaxLimit THEN DefaultLimit ELSE limit

NormalizeLimit(limit) == IF limit <= 0 \/ limit > MaxLimit THEN DefaultLimit ELSE limit

List(f, limit, from) ==
  {a \in Matching(f) : from <= Rank(a, f) /\ Rank(a, f) < from + NormalizeLimit(limit)}

(* Mutant of InsertTreeNode: a node that is there is not looked for. *)
InsertTreeNodeAnew(nodes, path, a) ==
  [p \in {q \in DOMAIN nodes : ~IsStrictPrefix(<<path[1]>>, q)} \cup NonEmptyPrefixes(path) |->
     IF p = path THEN File(a)
     ELSE IF p \in NonEmptyPrefixes(path) THEN Directory ELSE nodes[p]]

InsertTreeNode(nodes, path, a) ==
  [p \in DOMAIN nodes \cup NonEmptyPrefixes(path) |->
     IF p = path THEN File(a)
     ELSE IF p \in DOMAIN nodes THEN nodes[p] ELSE Directory]

-----------------------------------------------------------------------------
Request(r) ==
  /\ pc[r] = "idle"
  /\ pc' = [pc EXCEPT ![r] = "listing"]
  /\ stayed' = [stayed EXCEPT ![r] = Matching(filter[r])]
  /\ UNCHANGED <<rows, filter, items, offset, built, tree, deleted, changes>>

(* One round of listAllForTree. *)
ListPage(r) ==
  /\ pc[r] = "listing"
  /\ LET page == List(filter[r], PageSize, offset[r])
     IN /\ items' = [items EXCEPT ![r] = @ \cup page]
        /\ offset' = [offset EXCEPT ![r] = @ + Cardinality(page)]
        /\ pc' = IF Cardinality(page) < PageSize THEN [pc EXCEPT ![r] = "building"] ELSE pc
  /\ UNCHANGED <<rows, filter, built, tree, stayed, deleted, changes>>

(* The loop of Tree, for the next item in the order of the list. *)
Build(r) ==
  /\ pc[r] = "building"
  /\ \E a \in items[r] \ built[r] :
       /\ \A b \in items[r] \ built[r] : a <= b
       /\ built' = [built EXCEPT ![r] = @ \cup {a}]
       /\ tree' = [tree EXCEPT ![r] = InsertTreeNode(@, DisplayPath(a, filter[r]), a)]
  /\ UNCHANGED <<rows, pc, filter, items, offset, stayed, deleted, changes>>

Answer(r) ==
  /\ pc[r] = "building" /\ built[r] = items[r]
  /\ pc' = [pc EXCEPT ![r] = "done"]
  /\ UNCHANGED <<rows, filter, items, offset, built, tree, stayed, deleted, changes>>

(* The statement fails, or the five seconds of the request are over. *)
Fail(r) ==
  /\ pc[r] = "listing"
  /\ pc' = [pc EXCEPT ![r] = "failed"]
  /\ UNCHANGED <<rows, filter, items, offset, built, tree, stayed, deleted, changes>>

Listing == {r \in Readers : pc[r] = "listing"}

Insert(a) ==
  /\ a \notin rows
  /\ changes < MaxChanges
  /\ changes' = changes + 1
  /\ rows' = rows \cup {a}
  /\ UNCHANGED <<pc, filter, items, offset, built, tree, stayed, deleted>>

(* An asset, or all the assets of a job: those are one statement. *)
Delete(gone) ==
  /\ gone # {} /\ gone \subseteq rows
  /\ changes < MaxChanges
  /\ changes' = changes + 1
  /\ rows' = rows \ gone
  /\ stayed' = [r \in Readers |-> stayed[r] \ gone]
  /\ deleted' = deleted \cup Listing
  /\ UNCHANGED <<pc, filter, items, offset, built, tree>>

OfJob(j) == {a \in rows : Job[a] = j}

Handle(r) == ListPage(r) \/ Build(r) \/ Answer(r)

Next ==
  \/ \E r \in Readers : Request(r) \/ Handle(r) \/ Fail(r)
  \/ \E a \in Assets : Insert(a) \/ Delete({a}) \/ Delete(OfJob(Job[a]))

Spec == Init /\ [][Next]_vars

-----------------------------------------------------------------------------
(* An asset that has had its row all the time is in the tree, as a file at  *)
(* its path, unless another row was deleted while the pages were read: the *)
(* rows that are inserted meanwhile hide none.                             *)
TreeShowsWhatStayed ==
  \A r \in Readers \ deleted : pc[r] = "done" =>
    \A a \in stayed[r] :
      LET path == DisplayPath(a, filter[r])
      IN path \in DOMAIN tree[r] /\ tree[r][path] = File(a)
=============================================================================
