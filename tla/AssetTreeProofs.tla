--------------------------- MODULE AssetTreeProofs ---------------------------
(***************************************************************************)
(* The safety theorems of AssetTree, for any number of assets, requests    *)
(* and changes and every size of a page.  IInv adds what a request knows   *)
(* between two pages: an asset that stayed is among the items, or its rank *)
(* is not below the offset, so that a page to come shows it.               *)
(***************************************************************************)
EXTENDS AssetTree, FiniteSetTheorems, SequenceTheorems, WellFoundedInduction, TLAPS

(***************************************************************************)
(* The rank of an asset in a set of assets is the number of those before   *)
(* it: ranks are distinct, have no gaps, and grow with the set.            *)
(***************************************************************************)
Before(S, a) == {b \in S : b < a}

RankIn(S, a) == Cardinality(Before(S, a))

LEMMA AssetsAreFinite ==
  ASSUME NEW S \in SUBSET Assets
  PROVE  IsFiniteSet(S) /\ S \subseteq Int /\ Cardinality(S) \in Nat
<1>1. Assets \subseteq Int /\ AssetCount \in Nat
  BY ConstantsOK DEF Assets
<1>2. IsFiniteSet(Assets)
  BY <1>1, FS_Interval DEF Assets
<1>3. IsFiniteSet(S)
  BY <1>2, FS_Subset
<1>4. QED
  BY <1>1, <1>3, FS_CardinalityType

LEMMA BeforeGrows ==
  ASSUME NEW S \in SUBSET Assets, NEW x \in S, NEW y \in S, x < y
  PROVE  Before(S, x) \subseteq Before(S, y) /\ Before(S, x) # Before(S, y)
<1>1. S \subseteq Int
  BY AssetsAreFinite
<1>2. \A g \in S : g < x => g < y
  BY <1>1
<1>3. ~(x < x)
  BY <1>1
<1>4. x \in Before(S, y) /\ x \notin Before(S, x)
  BY <1>3 DEF Before
<1>5. QED
  BY <1>2, <1>4 DEF Before

LEMMA RankType ==
  ASSUME NEW S \in SUBSET Assets, NEW a
  PROVE  RankIn(S, a) \in Nat /\ IsFiniteSet(Before(S, a))
<1>1. Before(S, a) \in SUBSET Assets
  BY DEF Before
<1>2. QED
  BY <1>1, AssetsAreFinite DEF RankIn

LEMMA RankGrows ==
  ASSUME NEW S \in SUBSET Assets, NEW x \in S, NEW y \in S, x < y
  PROVE  RankIn(S, x) < RankIn(S, y)
<1>1. Before(S, x) \in SUBSET Before(S, y) /\ Before(S, x) # Before(S, y)
  BY BeforeGrows
<1>2. Cardinality(Before(S, x)) <= Cardinality(Before(S, y))
  BY <1>1, RankType, FS_Subset
<1>3. Cardinality(Before(S, x)) # Cardinality(Before(S, y))
  BY <1>1, RankType, FS_Subset
<1>4. RankIn(S, x) \in Nat /\ RankIn(S, y) \in Nat
  BY RankType
<1>5. QED
  BY <1>2, <1>3, <1>4 DEF RankIn

LEMMA RankInjective ==
  ASSUME NEW S \in SUBSET Assets, NEW x \in S, NEW y \in S, RankIn(S, x) = RankIn(S, y)
  PROVE  x = y
<1>1. x \in Int /\ y \in Int
  BY AssetsAreFinite
<1>2. RankIn(S, x) \in Nat
  BY RankType
<1>3. CASE x < y
  BY <1>2, <1>3, RankGrows
<1>4. CASE y < x
  BY <1>2, <1>4, RankGrows
<1>5. QED
  BY <1>1, <1>3, <1>4

LEMMA RankMonotone ==
  ASSUME NEW S \in SUBSET Assets, NEW T \in SUBSET S, NEW a
  PROVE  RankIn(T, a) <= RankIn(S, a)
<1>1. Before(T, a) \in SUBSET Before(S, a)
  BY DEF Before
<1>2. QED
  BY <1>1, RankType, FS_Subset DEF RankIn

LEMMA First ==
  ASSUME NEW S \in SUBSET Assets, S # {}
  PROVE  \E x \in S : Before(S, x) = {}
<1> DEFINE T == {Before(S, x) : x \in S}
<1>1. T \subseteq FiniteSubsetsOf(S) /\ T # {}
  <2>1. \A U \in SUBSET S : IsFiniteSet(U)
    BY AssetsAreFinite
  <2>2. QED
    BY <2>1 DEF FiniteSubsetsOf, Before
<1>2. PICK U \in T : \A V \in T : ~(<<V, U>> \in StrictSubsetOrdering(S))
  BY <1>1, FS_StrictSubsetOrderingWellFounded, WFMin
<1>3. PICK x \in S : U = Before(S, x)
  BY <1>2
<1>4. ASSUME NEW y \in Before(S, x) PROVE FALSE
  <2>1. y \in S /\ y < x
    BY <1>4 DEF Before
  <2>2. Before(S, y) \in T /\ Before(S, y) \subseteq S /\ U \subseteq S
    BY <1>3, <2>1 DEF Before
  <2>3. Before(S, y) \subseteq U /\ Before(S, y) # U
    BY <1>3, <2>1, BeforeGrows
  <2>4. QED
    BY <1>2, <2>2, <2>3 DEF StrictSubsetOrdering
<1>5. QED
  BY <1>3, <1>4

(* As many elements as distinct ranks below k, so at most k. *)
LEMMA FewRanks ==
  ASSUME NEW S \in SUBSET Assets, NEW T \in SUBSET S, NEW from \in Nat, NEW n \in Nat,
         \A x \in T : from <= RankIn(S, x) /\ RankIn(S, x) < from + n
  PROVE  Cardinality(T) <= n
<1> DEFINE K == 0..(n - 1)
           rank == [x \in T |-> RankIn(S, x) - from]
<1>1. IsFiniteSet(K) /\ Cardinality(K) = n
  BY FS_Interval
<1>2. rank \in [T -> K]
  <2>1. \A x \in T : RankIn(S, x) \in Nat
    BY RankType
  <2>2. \A x \in T : RankIn(S, x) - from \in K
    BY <2>1
  <2>3. QED
    BY <2>2
<1>3. \A x, y \in T : rank[x] = rank[y] => x = y
  <2>1. ASSUME NEW x \in T, NEW y \in T, rank[x] = rank[y] PROVE x = y
    <3>1. RankIn(S, x) \in Nat /\ RankIn(S, y) \in Nat
      BY RankType
    <3>2. RankIn(S, x) = RankIn(S, y)
      BY <2>1, <3>1
    <3>3. QED
      BY <3>2, RankInjective
  <2>2. QED
    BY <2>1
<1>4. rank \in Injection(T, K)
  <2> HIDE DEF rank, K
  <2>1. QED
    BY <1>2, <1>3 DEF Injection, IsInjective
<1>5. QED
  <2> HIDE DEF rank, K
  <2>1. QED
    BY <1>1, <1>4, FS_Injection

LEMMA RanksHaveNoGaps ==
  ASSUME NEW S \in SUBSET Assets, NEW a \in S, NEW k \in Nat, k <= RankIn(S, a)
  PROVE  \E x \in S : RankIn(S, x) = k
<1> DEFINE U == {x \in S : k <= RankIn(S, x)}
<1>1. PICK x \in U : Before(U, x) = {}
  <2>1. U \in SUBSET Assets /\ U # {}
    OBVIOUS
  <2> HIDE DEF U
  <2>2. QED
    BY <2>1, First
<1>2. RankIn(S, x) \in Nat
  BY RankType
<1>3. \A y \in Before(S, x) : 0 <= RankIn(S, y) /\ RankIn(S, y) < 0 + k
  <2>1. ASSUME NEW y \in Before(S, x) PROVE 0 <= RankIn(S, y) /\ RankIn(S, y) < 0 + k
    <3>1. y \in S /\ y \notin U
      BY <1>1, <2>1 DEF Before
    <3>2. RankIn(S, y) \in Nat
      BY RankType
    <3>3. QED
      BY <3>1, <3>2
  <2>2. QED
    BY <2>1
<1>4. Before(S, x) \in SUBSET S
  BY DEF Before
<1>5. Cardinality(Before(S, x)) <= k
  <2> HIDE DEF U
  <2>1. QED
    BY <1>3, <1>4, FewRanks
<1>6. QED
  BY <1>1, <1>2, <1>5 DEF RankIn

(***************************************************************************)
(* A page holds the rows of the next ranks: at most as many as are asked   *)
(* for, and fewer only if no row comes after them.                         *)
(***************************************************************************)
RankPage(S, from, n) == {a \in S : from <= RankIn(S, a) /\ RankIn(S, a) < from + n}

LEMMA PageFits ==
  ASSUME NEW S \in SUBSET Assets, NEW from \in Nat, NEW n \in Nat
  PROVE  /\ RankPage(S, from, n) \in SUBSET S
         /\ IsFiniteSet(RankPage(S, from, n))
         /\ Cardinality(RankPage(S, from, n)) \in Nat
         /\ Cardinality(RankPage(S, from, n)) <= n
<1> DEFINE P == RankPage(S, from, n)
<1>1. P \in SUBSET S /\ \A x \in P : from <= RankIn(S, x) /\ RankIn(S, x) < from + n
  BY DEF RankPage
<1> HIDE DEF P
<1>2. IsFiniteSet(P) /\ Cardinality(P) \in Nat
  BY <1>1, AssetsAreFinite
<1>3. Cardinality(P) <= n
  BY <1>1, FewRanks
<1>4. QED
  BY <1>1, <1>2, <1>3 DEF P

LEMMA ShortPageIsLast ==
  ASSUME NEW S \in SUBSET Assets, NEW from \in Nat, NEW n \in Nat,
         Cardinality(RankPage(S, from, n)) < n,
         NEW a \in S, from <= RankIn(S, a)
  PROVE  a \in RankPage(S, from, n)
<1> DEFINE P == RankPage(S, from, n)
           K == from..(from + n - 1)
           rank == [x \in P |-> RankIn(S, x)]
<1>1. RankIn(S, a) \in Nat
  BY RankType
<1>2. SUFFICES ASSUME from + n <= RankIn(S, a) PROVE FALSE
  BY <1>1 DEF RankPage
<1>3. \A k \in K : \E x \in P : rank[x] = k
  <2>1. ASSUME NEW k \in K PROVE \E x \in P : rank[x] = k
    <3>1. k \in Nat /\ k <= RankIn(S, a) /\ from <= k /\ k < from + n
      BY <1>1, <1>2
    <3>2. PICK x \in S : RankIn(S, x) = k
      BY <3>1, RanksHaveNoGaps
    <3>3. x \in P
      BY <3>1, <3>2 DEF RankPage
    <3>4. QED
      BY <3>2, <3>3
  <2>2. QED
    BY <2>1
<1>4. rank \in [P -> K]
  <2>1. \A x \in P : RankIn(S, x) \in K
    BY RankType DEF RankPage
  <2>2. QED
    BY <2>1
<1>5. IsFiniteSet(P) /\ Cardinality(P) \in Nat
  BY PageFits
<1>6. Cardinality(K) = n
  BY FS_Interval
<1>7. Cardinality(P) < n
  OBVIOUS
<1> HIDE DEF P, K, rank
<1>8. rank \in Surjection(P, K)
  BY <1>3, <1>4 DEF Surjection
<1>9. Cardinality(K) <= Cardinality(P)
  BY <1>5, <1>8, FS_Surjection
<1>10. QED
  BY <1>5, <1>6, <1>7, <1>9

LEMMA PageIsRankPage ==
  ASSUME NEW f, NEW from
  PROVE  List(f, PageSize, from) = RankPage(Matching(f), from, PageSize)
<1>1. NormalizeLimit(PageSize) = PageSize
  BY ConstantsOK DEF NormalizeLimit
<1>2. \A a : Rank(a, f) = RankIn(Matching(f), a)
  BY DEF Rank, RankIn, Before
<1>3. QED
  BY <1>1, <1>2 DEF List, RankPage

(***************************************************************************)
(* The path that is displayed is the path below what the filter names, and *)
(* no two assets that match a filter share it.                             *)
(***************************************************************************)
LEMMA PathBelow ==
  ASSUME NEW s \in Seq(Names), NEW t \in Seq(Names), t # <<>>
  PROVE  IsStrictPrefix(s, s \o t) /\ TrimTreePrefix(s \o t, s) = t
<1> DEFINE n == Len(s)
           m == Len(t)
<1>1. n \in Nat /\ m \in Nat /\ m > 0 /\ Len(s \o t) = n + m
  BY LenProperties, EmptySeq, ConcatProperties
<1>2. s # s \o t
  BY ConcatEqualIffEmpty
<1>3. SubSeq(s \o t, 1, n) = SubSeq(s, 1, n)
  <2>1. CASE n = 0
    BY <2>1, SubSeqEmpty
  <2>2. CASE n # 0
    <3>1. 1 \in 1..n /\ n \in 1..n
      BY <1>1, <2>2
    <3>2. QED
      BY <3>1, SubSeqOfConcat1
  <2>3. QED
    BY <2>1, <2>2
<1>4. SubSeq(s \o t, n + 1, n + m) = t
  <2>1. n + 1 \in n + 1 .. n + m /\ n + m \in n + 1 .. n + m
    BY <1>1
  <2>2. SubSeq(s \o t, n + 1, n + m) = SubSeq(t, (n + 1) - n, (n + m) - n)
    BY <2>1, SubSeqOfConcat2
  <2>3. (n + 1) - n = 1 /\ (n + m) - n = m
    BY <1>1
  <2>4. SubSeq(t, 1, m) = t
    BY SubSeqFull
  <2>5. QED
    BY <2>2, <2>3, <2>4
<1>5. n <= Len(s \o t)
  BY <1>1
<1>6. QED
  BY <1>1, <1>2, <1>3, <1>4, <1>5 DEF IsStrictPrefix, IsPrefix, TrimTreePrefix

LEMMA PathParts ==
  ASSUME NEW a \in Assets
  PROVE  /\ Path(a) = <<Generated, World[a], Job[a]>> \o Target[a]
         /\ Path(a) = <<Generated, World[a]>> \o (<<Job[a]>> \o Target[a])
         /\ <<Generated, World[a], Job[a]>> \in Seq(Names)
         /\ <<Generated, World[a]>> \in Seq(Names)
         /\ <<Job[a]>> \in Seq(Names)
         /\ Target[a] \in Seq(Names) /\ Target[a] # <<>>
         /\ <<Job[a]>> \o Target[a] \in Seq(Names) /\ <<Job[a]>> \o Target[a] # <<>>
<1>1. Generated \in Names /\ World[a] \in Names /\ Job[a] \in Names
  BY ConstantsOK
<1>2. Target[a] \in Seq(Names) /\ Target[a] # <<>>
  BY ConstantsOK
<1>3. /\ <<Generated, World[a], Job[a]>> \in Seq(Names)
      /\ <<Generated, World[a]>> \in Seq(Names)
      /\ <<Job[a]>> \in Seq(Names)
  BY <1>1
<1>4. <<Generated, World[a]>> \o <<Job[a]>> = <<Generated, World[a], Job[a]>>
  <2> DEFINE s == <<Generated, World[a]>> \o <<Job[a]>>
             t == <<Generated, World[a], Job[a]>>
  <2>1. Len(t) = 3 /\ t[1] = Generated /\ t[2] = World[a] /\ t[3] = Job[a]
    OBVIOUS
  <2>2. s \in Seq(Names) /\ Len(s) = 3 /\ s[1] = Generated /\ s[2] = World[a] /\ s[3] = Job[a]
    BY <1>3, ConcatProperties
  <2>3. t \in Seq(Names)
    BY <1>3
  <2> HIDE DEF s, t
  <2>4. \A i \in 1..Len(s) : s[i] = t[i]
    <3>1. \A i \in 1..3 : i = 1 \/ i = 2 \/ i = 3
      OBVIOUS
    <3>2. QED
      BY <2>1, <2>2, <3>1
  <2>5. s = t
    BY <2>1, <2>2, <2>3, <2>4, SeqEqual
  <2>6. QED
    BY <2>5 DEF s, t
<1>5. (<<Generated, World[a]>> \o <<Job[a]>>) \o Target[a]
        = <<Generated, World[a]>> \o (<<Job[a]>> \o Target[a])
  BY <1>2, <1>3, ConcatAssociative
<1>6. <<Job[a]>> \o Target[a] \in Seq(Names)
  BY <1>2, <1>3, ConcatProperties
<1>7. <<Job[a]>> \o Target[a] # <<>>
  BY <1>2, <1>3, ConcatEqualIffEmpty
<1>8. QED
  BY <1>2, <1>3, <1>4, <1>5, <1>6, <1>7 DEF Path

LEMMA DisplayedBelow ==
  ASSUME NEW f, NEW a \in Assets, Matches(a, f)
  PROVE  DisplayPath(a, f) = IF f.job # NoFilter THEN Target[a]
                             ELSE IF f.world # NoFilter THEN <<Job[a]>> \o Target[a]
                             ELSE Path(a)
<1>1. CASE f.job # NoFilter
  <2>1. f.job = Job[a]
    BY <1>1 DEF Matches
  <2>2. /\ IsStrictPrefix(<<Generated, World[a], Job[a]>>, Path(a))
        /\ TrimTreePrefix(Path(a), <<Generated, World[a], Job[a]>>) = Target[a]
    <3>1. /\ <<Generated, World[a], Job[a]>> \in Seq(Names)
          /\ Target[a] \in Seq(Names) /\ Target[a] # <<>>
      BY PathParts
    <3>2. QED
      BY <3>1, PathBelow DEF Path
  <2>3. QED
    BY <1>1, <2>1, <2>2 DEF DisplayPath
<1>2. CASE f.job = NoFilter /\ f.world # NoFilter
  <2>1. f.world = World[a]
    BY <1>2 DEF Matches
  <2>2. /\ IsStrictPrefix(<<Generated, World[a]>>, Path(a))
        /\ TrimTreePrefix(Path(a), <<Generated, World[a]>>) = <<Job[a]>> \o Target[a]
    <3>1. /\ <<Generated, World[a]>> \in Seq(Names)
          /\ <<Job[a]>> \o Target[a] \in Seq(Names) /\ <<Job[a]>> \o Target[a] # <<>>
          /\ Path(a) = <<Generated, World[a]>> \o (<<Job[a]>> \o Target[a])
      BY PathParts
    <3>2. QED
      BY <3>1, PathBelow
  <2>3. QED
    BY <1>2, <2>1, <2>2 DEF DisplayPath
<1>3. CASE f.job = NoFilter /\ f.world = NoFilter
  BY <1>3 DEF DisplayPath
<1>4. QED
  BY <1>1, <1>2, <1>3

LEMMA DisplayedIsPath ==
  ASSUME NEW f, NEW a \in Assets, Matches(a, f)
  PROVE  DisplayPath(a, f) \in Seq(Names) /\ DisplayPath(a, f) # <<>>
<1>1. Path(a) \in Seq(Names) /\ Path(a) # <<>>
  <2>1. Path(a) = <<Generated, World[a]>> \o (<<Job[a]>> \o Target[a])
    BY PathParts
  <2>2. /\ <<Generated, World[a]>> \in Seq(Names)
        /\ <<Job[a]>> \o Target[a] \in Seq(Names) /\ <<Job[a]>> \o Target[a] # <<>>
    BY PathParts
  <2>3. QED
    BY <2>1, <2>2, ConcatProperties, ConcatEqualIffEmpty
<1>2. QED
  BY <1>1, PathParts, DisplayedBelow

LEMMA DisplayedInjective ==
  ASSUME NEW f, NEW a \in Assets, NEW b \in Assets, Matches(a, f), Matches(b, f),
         DisplayPath(a, f) = DisplayPath(b, f)
  PROVE  a = b
<1>1. SUFFICES Job[a] = Job[b] /\ Target[a] = Target[b]
  BY ConstantsOK
<1>2. CASE f.job # NoFilter
  BY <1>2, DisplayedBelow DEF Matches
<1>3. CASE f.job = NoFilter /\ f.world # NoFilter
  <2>1. <<Job[a]>> \o Target[a] = <<Job[b]>> \o Target[b]
    BY <1>3, DisplayedBelow
  <2>2. (<<Job[a]>> \o Target[a])[1] = Job[a] /\ (<<Job[b]>> \o Target[b])[1] = Job[b]
    <3>1. ASSUME NEW c \in Assets PROVE (<<Job[c]>> \o Target[c])[1] = Job[c]
      BY PathParts
    <3>2. QED
      BY <3>1
  <2>3. Job[a] = Job[b]
    BY <2>1, <2>2
  <2>4. Target[a] = Target[b]
    <3>1. \A c \in Assets : TrimTreePrefix(<<Job[c]>> \o Target[c], <<Job[c]>>) = Target[c]
      BY PathParts, PathBelow
    <3>2. QED
      BY <2>1, <2>3, <3>1
  <2>5. QED
    BY <2>3, <2>4
<1>4. CASE f.job = NoFilter /\ f.world = NoFilter
  <2>1. Path(a) = Path(b)
    BY <1>4, DisplayedBelow
  <2>2. Path(a)[3] = Job[a] /\ Path(b)[3] = Job[b]
    <3>1. ASSUME NEW c \in Assets PROVE Path(c)[3] = Job[c]
      <4> DEFINE s == <<Generated, World[c], Job[c]>>
      <4>1. Len(s) = 3 /\ s[3] = Job[c]
        OBVIOUS
      <4>2. Path(c) = s \o Target[c] /\ s \in Seq(Names) /\ Target[c] \in Seq(Names)
        BY PathParts
      <4>3. Len(Target[c]) \in Nat
        BY <4>2
      <4> HIDE DEF s
      <4>4. 3 \in 1..Len(s) + Len(Target[c]) /\ 3 <= Len(s)
        BY <4>1, <4>3
      <4>5. \A i \in 1..Len(s) + Len(Target[c]) :
              (s \o Target[c])[i] = IF i <= Len(s) THEN s[i] ELSE Target[c][i - Len(s)]
        BY <4>2, ConcatProperties
      <4>6. (s \o Target[c])[3] = s[3]
        BY <4>4, <4>5
      <4>7. QED
        BY <4>1, <4>2, <4>6
    <3>2. QED
      BY <3>1
  <2>3. Job[a] = Job[b] /\ World[a] = World[b]
    BY <2>1, <2>2, ConstantsOK
  <2>4. Target[a] = Target[b]
    <3>1. \A c \in Assets :
            TrimTreePrefix(Path(c), <<Generated, World[c], Job[c]>>) = Target[c]
      BY PathParts, PathBelow
    <3>2. QED
      BY <2>1, <2>3, <3>1
  <2>5. QED
    BY <2>3, <2>4
<1>5. QED
  BY <1>2, <1>3, <1>4

LEMMA PrefixesHold ==
  ASSUME NEW path \in Seq(Names), path # <<>>
  PROVE  path \in NonEmptyPrefixes(path)
<1>1. Len(path) \in 1..Len(path)
  BY EmptySeq
<1>2. SubSeq(path, 1, Len(path)) = path
  BY SubSeqFull
<1>3. QED
  BY <1>1, <1>2 DEF NonEmptyPrefixes

(***************************************************************************)
(* The inductive invariant.                                                *)
(***************************************************************************)

(* Between two pages: what stayed is an item, or comes after the offset.   *)
Upcoming(r, a) == a \in items[r] \/ offset[r] <= Rank(a, filter[r])

ListOK(r) ==
  /\ pc[r] = "idle" => offset[r] = 0
  /\ stayed[r] \subseteq Matching(filter[r])
  /\ pc[r] = "listing" /\ r \notin deleted => \A a \in stayed[r] : Upcoming(r, a)
  /\ pc[r] \in {"building", "done"} /\ r \notin deleted => stayed[r] \subseteq items[r]

(* The items match the filter, and those that are built have their files.  *)
BuildOK(r) ==
  /\ \A a \in items[r] : Matches(a, filter[r])
  /\ built[r] \subseteq items[r]
  /\ pc[r] = "done" => built[r] = items[r]
  /\ \A a \in built[r] :
       LET path == DisplayPath(a, filter[r])
       IN path \in DOMAIN tree[r] /\ tree[r][path] = File(a)

IInv == TypeOK /\ \A r \in Readers : ListOK(r) /\ BuildOK(r)

LEMMA Initially == Init => IInv
<1> SUFFICES ASSUME Init PROVE IInv
  OBVIOUS
<1> USE DEF Init
<1>1. TypeOK
  <2>1. 0 \in 0..MaxChanges
    BY ConstantsOK
  <2>2. \A r \in Readers : Cardinality(items[r]) <= offset[r]
    BY FS_EmptySet
  <2>3. \A r \in Readers : tree[r] \in [Nodes(built[r], filter[r]) -> {Directory} \cup {File(a) : a \in built[r]}]
    <3>1. \A r \in Readers : Nodes(built[r], filter[r]) = {}
      BY DEF Nodes
    <3>2. <<>> \in [{} -> {Directory}]
      OBVIOUS
    <3>3. QED
      BY <3>1, <3>2 DEF NoTree
  <2>4. QED
    BY <2>1, <2>2, <2>3 DEF TypeOK
<1>2. ASSUME NEW r \in Readers PROVE ListOK(r) /\ BuildOK(r)
  BY DEF ListOK, BuildOK
<1>3. QED
  BY <1>1, <1>2 DEF IInv

LEMMA MatchingIsAssets == ASSUME TypeOK, NEW f PROVE Matching(f) \in SUBSET Assets
  BY DEF TypeOK, Matching

LEMMA RankIsRankIn == ASSUME NEW f, NEW a PROVE Rank(a, f) = RankIn(Matching(f), a)
  BY DEF Rank, RankIn, Before

(* What is known of a request depends on its own variables and the rows.   *)
LEMMA Untouched ==
  ASSUME NEW r \in Readers, ListOK(r), BuildOK(r), rows' = rows, filter' = filter,
         pc'[r] = pc[r], items'[r] = items[r], offset'[r] = offset[r],
         built'[r] = built[r], tree'[r] = tree[r], stayed'[r] = stayed[r],
         r \in deleted' <=> r \in deleted
  PROVE  ListOK(r)' /\ BuildOK(r)'
<1>1. Matching(filter[r])' = Matching(filter[r])
  BY DEF Matching
<1>2. \A a : Rank(a, filter[r])' = Rank(a, filter[r])
  BY <1>1 DEF Rank
<1>3. \A a : Upcoming(r, a)' = Upcoming(r, a)
  BY <1>2 DEF Upcoming
<1>4. ListOK(r)'
  BY <1>1, <1>3 DEF ListOK
<1>5. BuildOK(r)'
  BY DEF BuildOK
<1>6. QED
  BY <1>4, <1>5

LEMMA RequestKeeps ==
  ASSUME IInv, NEW r \in Readers, Request(r) PROVE IInv'
<1> USE DEF Request
<1>1. TypeOK /\ ListOK(r) /\ BuildOK(r)
  BY DEF IInv
<1>2. TypeOK'
  <2>1. Matching(filter[r]) \in SUBSET rows
    BY DEF Matching
  <2>2. pc' \in [Readers -> {"idle", "listing", "building", "done", "failed"}]
    BY <1>1 DEF TypeOK
  <2>3. stayed' \in [Readers -> SUBSET rows]
    BY <1>1, <2>1 DEF TypeOK
  <2>4. QED
    BY <1>1, <2>2, <2>3 DEF TypeOK
<1>3. ASSUME NEW s \in Readers PROVE ListOK(s)' /\ BuildOK(s)'
  <2>0. ListOK(s) /\ BuildOK(s)
    BY DEF IInv
  <2>1. CASE s # r
    <3>1. pc'[s] = pc[s] /\ stayed'[s] = stayed[s]
      BY <1>1, <2>1 DEF TypeOK
    <3>2. QED
      BY <2>0, <3>1, Untouched
  <2>2. CASE s = r
    <3>1. /\ pc'[r] = "listing" /\ offset'[r] = 0
          /\ stayed'[r] = Matching(filter[r]) /\ Matching(filter[r])' = Matching(filter[r])
      BY <1>1 DEF TypeOK, ListOK, Matching
    <3>2. \A a : Upcoming(r, a)'
      <4>1. ASSUME NEW a PROVE 0 <= RankIn(Matching(filter[r]), a)
        BY <1>1, MatchingIsAssets, RankType
      <4>2. ASSUME NEW a PROVE Rank(a, filter[r])' = RankIn(Matching(filter[r]), a)
        BY <3>1 DEF Rank, RankIn, Before
      <4>3. QED
        BY <3>1, <4>1, <4>2 DEF Upcoming
    <3>3. ListOK(r)'
      BY <3>1, <3>2 DEF ListOK
    <3>4. BuildOK(r)'
      BY <1>1, <3>1 DEF BuildOK
    <3>5. QED
      BY <2>2, <3>3, <3>4
  <2>3. QED
    BY <2>1, <2>2
<1>4. QED
  BY <1>2, <1>3 DEF IInv

LEMMA ListPageKeeps ==
  ASSUME IInv, NEW r \in Readers, ListPage(r) PROVE IInv'
<1> DEFINE page == List(filter[r], PageSize, offset[r])
           M == Matching(filter[r])
<1>1. TypeOK /\ ListOK(r) /\ BuildOK(r)
  BY DEF IInv
<1>2. /\ pc[r] = "listing"
      /\ items' = [items EXCEPT ![r] = @ \cup page]
      /\ offset' = [offset EXCEPT ![r] = @ + Cardinality(page)]
      /\ pc' = IF Cardinality(page) < PageSize THEN [pc EXCEPT ![r] = "building"] ELSE pc
      /\ UNCHANGED <<rows, filter, built, tree, stayed, deleted, changes>>
  BY DEF ListPage
<1>3. M \in SUBSET Assets /\ offset[r] \in Nat /\ PageSize \in Nat
  BY <1>1, MatchingIsAssets, ConstantsOK DEF TypeOK
<1>4. page = RankPage(M, offset[r], PageSize)
  BY PageIsRankPage
<1> HIDE DEF M
<1>5. /\ page \in SUBSET M /\ IsFiniteSet(page)
      /\ Cardinality(page) \in Nat /\ Cardinality(page) <= PageSize
  BY <1>3, <1>4, PageFits
<1> HIDE DEF page
<1>6. /\ items'[r] = items[r] \cup page /\ offset'[r] = offset[r] + Cardinality(page)
      /\ pc'[r] = IF Cardinality(page) < PageSize THEN "building" ELSE "listing"
  BY <1>1, <1>2 DEF TypeOK
<1>7. \A s \in Readers \ {r} : items'[s] = items[s] /\ offset'[s] = offset[s] /\ pc'[s] = pc[s]
  BY <1>1, <1>2 DEF TypeOK
<1>8. M' = M
  BY <1>2 DEF M, Matching
<1>9. TypeOK'
  <2>1. pc' \in [Readers -> {"idle", "listing", "building", "done", "failed"}]
    BY <1>1, <1>2 DEF TypeOK
  <2>2. items' \in [Readers -> SUBSET Assets]
    BY <1>1, <1>2, <1>3, <1>5 DEF TypeOK
  <2>3. offset' \in [Readers -> Nat]
    <3>1. offset[r] + Cardinality(page) \in Nat
      BY <1>3, <1>5
    <3>2. QED
      BY <1>1, <1>2, <3>1 DEF TypeOK
  <2>4. ASSUME NEW s \in Readers PROVE Cardinality(items'[s]) <= offset'[s]
    <3>1. CASE s # r
      BY <1>1, <1>7, <3>1 DEF TypeOK
    <3>2. CASE s = r
      <4>1. IsFiniteSet(items[r]) /\ Cardinality(items[r]) \in Nat /\ Cardinality(items[r]) <= offset[r]
        BY <1>1, AssetsAreFinite DEF TypeOK
      <4>2. Cardinality(items[r] \cup page)
              = Cardinality(items[r]) + Cardinality(page) - Cardinality(items[r] \cap page)
        BY <1>5, <4>1, FS_Union
      <4>3. Cardinality(items[r] \cap page) \in Nat
        BY <4>1, FS_Intersection, FS_CardinalityType
      <4>4. \A x, y, z, n \in Nat : x <= n => (x + y) - z <= n + y
        OBVIOUS
      <4>5. Cardinality(items[r] \cup page) <= offset[r] + Cardinality(page)
        BY <1>3, <1>5, <4>1, <4>2, <4>3, <4>4
      <4>6. QED
        BY <1>6, <3>2, <4>5
    <3>3. QED
      BY <3>1, <3>2
  <2>5. QED
    BY <1>1, <1>2, <2>1, <2>2, <2>3, <2>4 DEF TypeOK
<1>10. ASSUME NEW s \in Readers, s # r PROVE ListOK(s)' /\ BuildOK(s)'
  <2>1. ListOK(s) /\ BuildOK(s)
    BY DEF IInv
  <2>2. QED
    BY <1>2, <1>7, <1>10, <2>1, Untouched
<1>11. ListOK(r)'
  <2>1. stayed'[r] \subseteq M
    BY <1>1, <1>2 DEF ListOK, M
  <2>2. \A a : Rank(a, filter[r])' = Rank(a, filter[r]) /\ Rank(a, filter[r]) = RankIn(M, a)
    BY <1>2 DEF Rank, RankIn, Before, Matching, M
  <2>3. ASSUME r \notin deleted, NEW a \in stayed[r], a \notin items'[r]
        PROVE  offset[r] + PageSize <= RankIn(M, a) /\ ~(Cardinality(page) < PageSize)
    <3>1. a \in M /\ offset[r] <= RankIn(M, a) /\ a \notin page
      BY <1>1, <1>2, <1>6, <2>2, <2>3 DEF ListOK, Upcoming, M
    <3>2. RankIn(M, a) \in Nat
      BY <1>3, RankType
    <3>3. offset[r] + PageSize <= RankIn(M, a)
      BY <1>3, <1>4, <3>1, <3>2 DEF RankPage
    <3>4. ~(Cardinality(page) < PageSize)
      BY <1>3, <1>4, <3>1, ShortPageIsLast
    <3>5. QED
      BY <3>3, <3>4
  <2>4. ASSUME r \notin deleted, NEW a \in stayed[r], a \notin items'[r]
        PROVE  offset'[r] <= Rank(a, filter[r])'
    <3>1. RankIn(M, a) \in Nat
      BY <1>3, RankType
    <3>2. offset[r] + PageSize <= RankIn(M, a)
      BY <2>3, <2>4
    <3>3. QED
      BY <1>3, <1>5, <1>6, <2>2, <3>1, <3>2
  <2>5. pc'[r] = "listing" /\ r \notin deleted' => \A a \in stayed'[r] : Upcoming(r, a)'
    BY <1>2, <2>4 DEF Upcoming
  <2>6. pc'[r] = "building" /\ r \notin deleted' => stayed'[r] \subseteq items'[r]
    BY <1>2, <1>6, <2>3
  <2>7. pc'[r] \notin {"idle", "done"}
    BY <1>6
  <2>8. stayed'[r] \subseteq Matching(filter[r])'
    BY <1>8, <2>1 DEF M
  <2>9. QED
    BY <2>5, <2>6, <2>7, <2>8 DEF ListOK
<1>12. BuildOK(r)'
  <2>1. \A a \in items'[r] : Matches(a, filter[r])
    BY <1>1, <1>5, <1>6 DEF BuildOK, M, Matching
  <2>2. built'[r] \subseteq items'[r] /\ pc'[r] # "done"
    BY <1>1, <1>2, <1>6 DEF BuildOK
  <2>3. \A a \in built[r] : DisplayPath(a, filter[r]) \in DOMAIN tree[r]
                         /\ tree[r][DisplayPath(a, filter[r])] = File(a)
    BY <1>1 DEF BuildOK
  <2>4. QED
    BY <1>2, <2>1, <2>2, <2>3 DEF BuildOK
<1>13. QED
  BY <1>9, <1>10, <1>11, <1>12 DEF IInv

(* InsertTreeNode puts the file of an asset at its path and keeps the rest. *)
LEMMA InsertTreeNodeFacts ==
  ASSUME NEW nodes, NEW path, NEW a, path \in NonEmptyPrefixes(path)
  PROVE  LET grown == InsertTreeNode(nodes, path, a)
         IN /\ DOMAIN grown = DOMAIN nodes \cup NonEmptyPrefixes(path)
            /\ grown = [p \in DOMAIN grown |-> grown[p]]
            /\ grown[path] = File(a)
            /\ \A p \in DOMAIN nodes \ {path} : grown[p] = nodes[p]
            /\ \A p \in DOMAIN grown \ DOMAIN nodes : grown[p] \in {File(a), Directory}
  BY DEF InsertTreeNode

LEMMA BuildKeeps ==
  ASSUME IInv, NEW r \in Readers, Build(r) PROVE IInv'
<1>1. TypeOK /\ ListOK(r) /\ BuildOK(r)
  BY DEF IInv
<1>2. PICK a \in items[r] \ built[r] :
        /\ built' = [built EXCEPT ![r] = @ \cup {a}]
        /\ tree' = [tree EXCEPT ![r] = InsertTreeNode(@, DisplayPath(a, filter[r]), a)]
  BY DEF Build
<1>3. UNCHANGED <<rows, pc, filter, items, offset, stayed, deleted, changes>> /\ pc[r] = "building"
  BY DEF Build
<1> DEFINE path == DisplayPath(a, filter[r])
           nodes == tree[r]
           grown == InsertTreeNode(nodes, path, a)
<1>4. a \in Assets /\ Matches(a, filter[r])
  BY <1>1 DEF TypeOK, BuildOK
<1>5. path \in NonEmptyPrefixes(path)
  BY <1>4, DisplayedIsPath, PrefixesHold
<1>6. /\ DOMAIN grown = DOMAIN nodes \cup NonEmptyPrefixes(path)
      /\ grown = [p \in DOMAIN grown |-> grown[p]]
      /\ grown[path] = File(a)
      /\ \A p \in DOMAIN nodes \ {path} : grown[p] = nodes[p]
      /\ \A p \in DOMAIN grown \ DOMAIN nodes : grown[p] \in {File(a), Directory}
  BY <1>5, InsertTreeNodeFacts
<1>7. /\ built'[r] = built[r] \cup {a} /\ tree'[r] = grown
      /\ \A s \in Readers \ {r} : built'[s] = built[s] /\ tree'[s] = tree[s]
  BY <1>1, <1>2 DEF TypeOK
<1>8. DOMAIN tree' = Readers
  BY <1>1, <1>2 DEF TypeOK
<1>9. nodes \in [Nodes(built[r], filter[r]) -> {Directory} \cup {File(b) : b \in built[r]}]
  BY <1>1 DEF TypeOK
<1> HIDE DEF grown, nodes, path
<1>10. grown \in [Nodes(built[r] \cup {a}, filter[r]) -> {Directory} \cup {File(b) : b \in built[r] \cup {a}}]
  <2>1. DOMAIN grown = Nodes(built[r] \cup {a}, filter[r])
    <3>1. DOMAIN nodes = Nodes(built[r], filter[r])
      BY <1>9
    <3>2. Nodes(built[r] \cup {a}, filter[r]) = Nodes(built[r], filter[r]) \cup NonEmptyPrefixes(path)
      BY DEF Nodes, path
    <3>3. QED
      BY <1>6, <3>1, <3>2
  <2>2. ASSUME NEW p \in DOMAIN grown
        PROVE  grown[p] \in {Directory} \cup {File(b) : b \in built[r] \cup {a}}
    <3>1. CASE p = path
      BY <1>6, <3>1
    <3>2. CASE p \in DOMAIN nodes \ {path}
      <4>1. nodes[p] \in {Directory} \cup {File(b) : b \in built[r]}
        BY <1>9, <3>2
      <4>2. QED
        BY <1>6, <3>2, <4>1
    <3>3. CASE p \notin DOMAIN nodes
      BY <1>6, <3>3
    <3>4. QED
      BY <3>1, <3>2, <3>3
  <2>3. QED
    BY <1>6, <2>1, <2>2
<1>11. TypeOK'
  <2>1. built' \in [Readers -> SUBSET Assets]
    BY <1>1, <1>2, <1>4 DEF TypeOK
  <2>2. ASSUME NEW s \in Readers
        PROVE  tree'[s] \in [Nodes(built'[s], filter[s]) -> {Directory} \cup {File(b) : b \in built'[s]}]
    <3>1. CASE s = r
      BY <1>7, <1>10, <3>1
    <3>2. CASE s # r
      BY <1>1, <1>7, <3>2 DEF TypeOK
    <3>3. QED
      BY <3>1, <3>2
  <2>3. QED
    BY <1>1, <1>3, <1>8, <2>1, <2>2 DEF TypeOK
<1>12. ASSUME NEW s \in Readers, s # r PROVE ListOK(s)' /\ BuildOK(s)'
  <2>1. ListOK(s) /\ BuildOK(s)
    BY DEF IInv
  <2>2. QED
    BY <1>3, <1>7, <1>12, <2>1, Untouched
<1>13. ListOK(r)'
  <2>1. Matching(filter[r])' = Matching(filter[r])
    BY <1>3 DEF Matching
  <2>2. QED
    BY <1>1, <1>3, <2>1 DEF ListOK
<1>14. BuildOK(r)'
  <2>1. ASSUME NEW b \in built'[r]
        PROVE  DisplayPath(b, filter[r]) \in DOMAIN grown /\ grown[DisplayPath(b, filter[r])] = File(b)
    <3>1. CASE b = a
      BY <1>5, <1>6, <3>1 DEF path
    <3>2. CASE b # a
      <4>1. b \in built[r] /\ b \in Assets /\ Matches(b, filter[r])
        BY <1>1, <1>7, <2>1, <3>2 DEF TypeOK, BuildOK
      <4>2. DisplayPath(b, filter[r]) \in DOMAIN nodes /\ nodes[DisplayPath(b, filter[r])] = File(b)
        BY <1>1, <4>1 DEF BuildOK, nodes
      <4>3. DisplayPath(b, filter[r]) # path
        BY <1>4, <3>2, <4>1, DisplayedInjective DEF path
      <4>4. QED
        BY <1>6, <4>2, <4>3
    <3>3. QED
      BY <3>1, <3>2
  <2>2. built'[r] \subseteq items[r] /\ \A b \in items[r] : Matches(b, filter[r])
    BY <1>1, <1>7 DEF BuildOK
  <2>3. QED
    BY <1>3, <1>7, <2>1, <2>2 DEF BuildOK
<1>15. QED
  BY <1>11, <1>12, <1>13, <1>14 DEF IInv

LEMMA AnswerKeeps ==
  ASSUME IInv, NEW r \in Readers, Answer(r) PROVE IInv'
<1> USE DEF Answer
<1>1. TypeOK /\ ListOK(r) /\ BuildOK(r)
  BY DEF IInv
<1>2. pc'[r] = "done" /\ \A s \in Readers \ {r} : pc'[s] = pc[s]
  BY <1>1 DEF TypeOK
<1>3. TypeOK'
  BY <1>1 DEF TypeOK
<1>4. ASSUME NEW s \in Readers, s # r PROVE ListOK(s)' /\ BuildOK(s)'
  <2>1. ListOK(s) /\ BuildOK(s)
    BY DEF IInv
  <2>2. QED
    BY <1>2, <1>4, <2>1, Untouched
<1>5. ListOK(r)'
  <2>1. Matching(filter[r])' = Matching(filter[r])
    BY DEF Matching
  <2>2. QED
    BY <1>1, <1>2, <2>1 DEF ListOK
<1>6. BuildOK(r)'
  BY <1>1 DEF BuildOK
<1>7. QED
  BY <1>3, <1>4, <1>5, <1>6 DEF IInv

LEMMA FailKeeps ==
  ASSUME IInv, NEW r \in Readers, Fail(r) PROVE IInv'
<1> USE DEF Fail
<1>1. TypeOK /\ ListOK(r) /\ BuildOK(r)
  BY DEF IInv
<1>2. pc'[r] = "failed" /\ \A s \in Readers \ {r} : pc'[s] = pc[s]
  BY <1>1 DEF TypeOK
<1>3. TypeOK'
  BY <1>1 DEF TypeOK
<1>4. ASSUME NEW s \in Readers, s # r PROVE ListOK(s)' /\ BuildOK(s)'
  <2>1. ListOK(s) /\ BuildOK(s)
    BY DEF IInv
  <2>2. QED
    BY <1>2, <1>4, <2>1, Untouched
<1>5. ListOK(r)'
  <2>1. Matching(filter[r])' = Matching(filter[r])
    BY DEF Matching
  <2>2. QED
    BY <1>1, <1>2, <2>1 DEF ListOK
<1>6. BuildOK(r)'
  BY <1>1, <1>2 DEF BuildOK
<1>7. QED
  BY <1>3, <1>4, <1>5, <1>6 DEF IInv

(* A row that is inserted only raises the ranks of the others. *)
LEMMA InsertKeeps ==
  ASSUME IInv, NEW a \in Assets, Insert(a) PROVE IInv'
<1> USE DEF Insert
<1>1. TypeOK
  BY DEF IInv
<1>2. TypeOK'
  <2>1. changes' \in 0..MaxChanges
    BY <1>1, ConstantsOK DEF TypeOK
  <2>2. stayed \in [Readers -> SUBSET rows']
    BY <1>1 DEF TypeOK
  <2>3. QED
    BY <1>1, <2>1, <2>2 DEF TypeOK
<1>3. ASSUME NEW r \in Readers PROVE ListOK(r)' /\ BuildOK(r)'
  <2>1. ListOK(r) /\ BuildOK(r)
    BY DEF IInv
  <2>2. Matching(filter[r]) \in SUBSET Matching(filter[r])'
    BY DEF Matching
  <2>3. ASSUME NEW b \in Assets, Upcoming(r, b) PROVE Upcoming(r, b)'
    <3>1. Rank(b, filter[r]) <= Rank(b, filter[r])'
      <4>1. Matching(filter[r])' \in SUBSET Assets
        BY <1>1 DEF TypeOK, Matching
      <4>2. RankIn(Matching(filter[r]), b) <= RankIn(Matching(filter[r])', b)
        BY <2>2, <4>1, RankMonotone
      <4>3. Rank(b, filter[r])' = RankIn(Matching(filter[r])', b)
        BY DEF Rank, RankIn, Before
      <4>4. QED
        BY <4>2, <4>3, RankIsRankIn
    <3>2. Rank(b, filter[r]) \in Nat /\ Rank(b, filter[r])' \in Nat /\ offset[r] \in Nat
      <4>1. Matching(filter[r]) \in SUBSET Assets /\ Matching(filter[r])' \in SUBSET Assets
        BY <1>1 DEF TypeOK, Matching
      <4>2. RankIn(Matching(filter[r]), b) \in Nat /\ RankIn(Matching(filter[r])', b) \in Nat
        BY <4>1, RankType
      <4>3. Rank(b, filter[r])' = RankIn(Matching(filter[r])', b)
        BY DEF Rank, RankIn, Before
      <4>4. QED
        BY <1>1, <4>2, <4>3, RankIsRankIn DEF TypeOK
    <3>3. QED
      BY <2>3, <3>1, <3>2 DEF Upcoming
  <2>4. \A b \in stayed[r] : b \in Assets
    BY <1>1 DEF TypeOK
  <2>5. ListOK(r)'
    <3>1. stayed'[r] \subseteq Matching(filter[r])'
      BY <2>1, <2>2 DEF ListOK
    <3>2. pc'[r] = "listing" /\ r \notin deleted' => \A b \in stayed'[r] : Upcoming(r, b)'
      BY <2>1, <2>3, <2>4 DEF ListOK
    <3>3. QED
      BY <2>1, <3>1, <3>2 DEF ListOK
  <2>6. BuildOK(r)'
    BY <2>1 DEF BuildOK
  <2>7. QED
    BY <2>5, <2>6
<1>4. QED
  BY <1>2, <1>3 DEF IInv

LEMMA DeleteKeeps ==
  ASSUME IInv, NEW gone \in SUBSET Assets, Delete(gone) PROVE IInv'
<1> USE DEF Delete
<1>1. TypeOK
  BY DEF IInv
<1>2. TypeOK'
  <2>1. changes' \in 0..MaxChanges
    BY <1>1, ConstantsOK DEF TypeOK
  <2>2. stayed' \in [Readers -> SUBSET rows']
    <3>1. \A r \in Readers : stayed[r] \ gone \in SUBSET rows'
      BY <1>1 DEF TypeOK
    <3>2. QED
      BY <3>1
  <2>3. deleted' \subseteq Readers
    BY <1>1 DEF TypeOK, Listing
  <2>4. rows' \subseteq Assets
    BY <1>1 DEF TypeOK
  <2>5. QED
    BY <1>1, <2>1, <2>2, <2>3, <2>4 DEF TypeOK
<1>3. ASSUME NEW r \in Readers PROVE ListOK(r)' /\ BuildOK(r)'
  <2>1. ListOK(r) /\ BuildOK(r)
    BY DEF IInv
  <2>2. stayed'[r] = stayed[r] \ gone
    OBVIOUS
  <2>3. stayed'[r] \subseteq Matching(filter[r])'
    BY <2>1, <2>2 DEF ListOK, Matching
  <2>4. pc[r] = "listing" => r \in deleted'
    BY DEF Listing
  <2>5. r \notin deleted' => r \notin deleted
    OBVIOUS
  <2>6. ListOK(r)'
    BY <2>1, <2>2, <2>3, <2>4, <2>5 DEF ListOK
  <2>7. BuildOK(r)'
    BY <2>1 DEF BuildOK
  <2>8. QED
    BY <2>6, <2>7
<1>4. QED
  BY <1>2, <1>3 DEF IInv

LEMMA StepKeeps ==
  ASSUME IInv, [Next]_vars PROVE IInv'
<1>1. CASE \E r \in Readers : Request(r) \/ Handle(r) \/ Fail(r)
  BY <1>1, RequestKeeps, ListPageKeeps, BuildKeeps, AnswerKeeps, FailKeeps DEF Handle
<1>2. CASE \E a \in Assets : Insert(a) \/ Delete({a}) \/ Delete(OfJob(Job[a]))
  <2>1. \A a \in Assets : {a} \in SUBSET Assets /\ OfJob(Job[a]) \in SUBSET Assets
    BY DEF OfJob, IInv, TypeOK
  <2>2. QED
    BY <1>2, <2>1, InsertKeeps, DeleteKeeps
<1>3. CASE UNCHANGED vars
  <2>1. TypeOK'
    BY <1>3 DEF vars, IInv, TypeOK
  <2>2. ASSUME NEW r \in Readers PROVE ListOK(r)' /\ BuildOK(r)'
    <3>1. ListOK(r) /\ BuildOK(r)
      BY DEF IInv
    <3>2. QED
      BY <1>3, <3>1, Untouched DEF vars
  <2>3. QED
    BY <2>1, <2>2 DEF IInv
<1>4. QED
  BY <1>1, <1>2, <1>3 DEF Next

THEOREM Invariance == Spec => []IInv
<1>1. IInv /\ [Next]_vars => IInv'
  BY StepKeeps
<1>2. QED
  BY Initially, <1>1, PTL DEF Spec

(* The variables keep their types: among them, the tree of a request has a *)
(* node for every prefix of the paths that were put into it and for        *)
(* nothing else, and no file but theirs.                                   *)
THEOREM TypeCorrect == Spec => []TypeOK
<1>1. IInv => TypeOK
  BY DEF IInv
<1>2. QED
  BY <1>1, Invariance, PTL

(* The tree that GET /api/assets/tree answers shows every asset that had   *)
(* its row all the time, at its path, if no row was deleted between the    *)
(* pages: for every size of a page and whatever is inserted meanwhile.     *)
THEOREM StayedShown == Spec => []TreeShowsWhatStayed
<1>1. IInv => TreeShowsWhatStayed
  BY DEF IInv, ListOK, BuildOK, TreeShowsWhatStayed
<1>2. QED
  BY <1>1, Invariance, PTL
=============================================================================
