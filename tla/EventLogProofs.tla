--------------------------- MODULE EventLogProofs ---------------------------
(***************************************************************************)
(* Theorems about EventLog, for every set of reports, addresses and assets *)
(* and every combination of faults.                                        *)
(***************************************************************************)
EXTENDS EventLog, TLAPS

(***************************************************************************)
(* The inductive invariant.                                                *)
(***************************************************************************)

(* What the place of a handler says of its report. *)
Before == {"find", "cacheGet", "lookup", "cacheSet", "insert"}

PlaceOK ==
  \A e \in Reports :
    /\ sender[e] = "idle" => pc[e] = "idle"
    /\ pc[e] \in Before \cup {"idle"} => log[e] = Absent
    /\ pc[e] = "readBack" => log[e] # Absent
    /\ pc[e] \in {"cacheGet", "lookup", "cacheSet"} => AddrOf[e] \in Addrs

(* One row to a path. *)
PathsDiffer == \A a, b \in rows : PathOf[a] = PathOf[b] => a = b

(* A handler that has looked has found the asset that was there before and  *)
(* has stayed.                                                              *)
FoundOK ==
  \A e \in Reports :
    /\ \A a \in present[e] : PathOf[a] = PathAt[e]
    /\ pc[e] \in Before \ {"find"} =>
         \A a \in (present[e] \cap rows) \ restored : found[e] = a

(* An answer that can still be cached is partial only by RDAP's own word. *)
AnswerOK ==
  \A e \in Reports :
    pc[e] = "cacheSet" /\ e \notin ended /\ answer[e] = "partial" => AddrOf[e] \in negative

IInv ==
  TypeOK /\ PlaceOK /\ PathsDiffer /\ FoundOK /\ AnswerOK
  /\ LossExplained /\ AttributionKept /\ CachedFailureIsReal

(***************************************************************************)
(* One lemma for each action.                                              *)
(***************************************************************************)
LEMMA ConstantFacts ==
  /\ PathAt \in [Reports -> Paths] /\ PathOf \in [Assets -> Paths]
  /\ AddrOf \in [Reports -> Addrs \cup {Local}] /\ Local \notin Addrs
  /\ NoAsset \notin Assets /\ Absent \notin Assets /\ Removed \notin Assets
  /\ NoAsset # Absent /\ NoAsset # Removed /\ Absent # Removed
  BY ConstantsOK

LEMMA PostInv ==
  ASSUME IInv, NEW e \in Reports, Post(e)
  PROVE  IInv'
<1> USE ConstantFacts DEF IInv, Post, AtPath, Goto, world, assetVars, cacheVars,
   handler, hist
<1>1. TypeOK'
  BY DEF TypeOK, Busy
<1>2. PlaceOK'
  BY DEF TypeOK, PlaceOK
<1>3. PathsDiffer'
  BY DEF PathsDiffer
<1>4. FoundOK'
  BY DEF TypeOK, FoundOK
<1>5. AnswerOK'
  BY DEF TypeOK, AnswerOK
<1>6. LossExplained'
  BY DEF TypeOK, LossExplained, Lost, HasOtherCause
<1>7. AttributionKept'
  BY DEF TypeOK, PlaceOK, AttributionKept, Recorded
<1>8. CachedFailureIsReal'
  BY DEF CachedFailureIsReal
<1>9. QED
  BY <1>1, <1>2, <1>3, <1>4, <1>5, <1>6, <1>7, <1>8

LEMMA GiveUpInv ==
  ASSUME IInv, NEW e \in Reports, GiveUp(e)
  PROVE  IInv'
<1> USE ConstantFacts DEF IInv, GiveUp, world, assetVars, cacheVars, handler, hist
<1>1. TypeOK'
  BY DEF TypeOK
<1>2. PlaceOK'
  BY DEF PlaceOK
<1>3. PathsDiffer'
  BY DEF PathsDiffer
<1>4. FoundOK'
  BY DEF FoundOK
<1>5. AnswerOK'
  BY DEF AnswerOK
<1>6. LossExplained'
  BY DEF LossExplained, Lost, HasOtherCause
<1>7. AttributionKept'
  BY DEF AttributionKept, Recorded
<1>8. CachedFailureIsReal'
  BY DEF CachedFailureIsReal
<1>9. QED
  BY <1>1, <1>2, <1>3, <1>4, <1>5, <1>6, <1>7, <1>8

LEMMA ConnectionLostInv ==
  ASSUME IInv, NEW e \in Reports, ConnectionLost(e)
  PROVE  IInv'
<1> USE ConstantFacts DEF IInv, ConnectionLost, world, assetVars, cacheVars, handler,
   hist
<1>1. TypeOK'
  BY DEF TypeOK
<1>2. PlaceOK'
  BY DEF PlaceOK
<1>3. PathsDiffer'
  BY DEF PathsDiffer
<1>4. FoundOK'
  BY DEF FoundOK
<1>5. AnswerOK'
  BY DEF AnswerOK
<1>6. LossExplained'
  BY DEF LossExplained, Lost, HasOtherCause
<1>7. AttributionKept'
  BY DEF AttributionKept, Recorded
<1>8. CachedFailureIsReal'
  BY DEF CachedFailureIsReal
<1>9. QED
  BY <1>1, <1>2, <1>3, <1>4, <1>5, <1>6, <1>7, <1>8

LEMMA RefuseInv ==
  ASSUME IInv, NEW e \in Reports, Refuse(e)
  PROVE  IInv'
<1> USE ConstantFacts DEF IInv, Refuse, Answer, Goto, world, assetVars, cacheVars,
   handler, hist
<1>1. TypeOK'
  BY DEF TypeOK
<1>2. PlaceOK'
  BY DEF PlaceOK, Before
<1>3. PathsDiffer'
  BY DEF PathsDiffer
<1>4. FoundOK'
  BY DEF FoundOK, Before
<1>5. AnswerOK'
  BY DEF AnswerOK
<1>6. LossExplained'
  BY DEF LossExplained, Lost, HasOtherCause
<1>7. AttributionKept'
  BY DEF AttributionKept, Recorded
<1>8. CachedFailureIsReal'
  BY DEF CachedFailureIsReal
<1>9. QED
  BY <1>1, <1>2, <1>3, <1>4, <1>5, <1>6, <1>7, <1>8

LEMMA ContextEndsInv ==
  ASSUME IInv, NEW e \in Reports, ContextEnds(e)
  PROVE  IInv'
<1> USE ConstantFacts DEF IInv, ContextEnds, world, assetVars, cacheVars, handler, hist
<1>1. TypeOK'
  BY DEF TypeOK
<1>2. PlaceOK'
  BY DEF PlaceOK
<1>3. PathsDiffer'
  BY DEF PathsDiffer
<1>4. FoundOK'
  BY DEF FoundOK
<1>5. AnswerOK'
  BY DEF AnswerOK
<1>6. LossExplained'
  BY DEF LossExplained, Lost, HasOtherCause
<1>7. AttributionKept'
  BY DEF AttributionKept, Recorded
<1>8. CachedFailureIsReal'
  BY DEF CachedFailureIsReal
<1>9. QED
  BY <1>1, <1>2, <1>3, <1>4, <1>5, <1>6, <1>7, <1>8

LEMMA FindInv ==
  ASSUME IInv, NEW e \in Reports, Find(e)
  PROVE  IInv'
<1> USE ConstantFacts DEF IInv, Find, AtPath, Fail, Answer, Goto, world, assetVars,
   cacheVars, handler, hist
<1>1. TypeOK'
  BY DEF TypeOK, Busy
<1>2. PlaceOK'
  BY DEF TypeOK, PlaceOK, Before
<1>3. PathsDiffer'
  BY DEF PathsDiffer
<1>4. FoundOK'
  BY DEF TypeOK, PathsDiffer, FoundOK, Before
<1>5. AnswerOK'
  BY DEF TypeOK, AnswerOK
<1>6. LossExplained'
  BY DEF TypeOK, LossExplained, Lost, HasOtherCause
<1>7. AttributionKept'
  BY DEF AttributionKept, Recorded
<1>8. CachedFailureIsReal'
  BY DEF CachedFailureIsReal
<1>9. QED
  BY <1>1, <1>2, <1>3, <1>4, <1>5, <1>6, <1>7, <1>8

LEMMA CacheGetInv ==
  ASSUME IInv, NEW e \in Reports, CacheGet(e)
  PROVE  IInv'
<1> USE ConstantFacts DEF IInv, CacheGet, Goto, world, assetVars, cacheVars, handler,
   hist
<1>1. TypeOK'
  BY DEF TypeOK, Busy
<1>2. PlaceOK'
  BY DEF TypeOK, PlaceOK, Before
<1>3. PathsDiffer'
  BY DEF PathsDiffer
<1>4. FoundOK'
  BY DEF TypeOK, FoundOK, Before
<1>5. AnswerOK'
  BY DEF TypeOK, AnswerOK
<1>6. LossExplained'
  BY DEF TypeOK, LossExplained, Lost, HasOtherCause
<1>7. AttributionKept'
  BY DEF AttributionKept, Recorded
<1>8. CachedFailureIsReal'
  BY DEF CachedFailureIsReal
<1>9. QED
  BY <1>1, <1>2, <1>3, <1>4, <1>5, <1>6, <1>7, <1>8

LEMMA LookupInv ==
  ASSUME IInv, NEW e \in Reports, Lookup(e)
  PROVE  IInv'
<1> USE ConstantFacts DEF IInv, Lookup, Goto, world, assetVars, cacheVars, handler, hist
<1>1. TypeOK'
  BY DEF TypeOK, PlaceOK, Busy, Answers
<1>2. PlaceOK'
  BY DEF PlaceOK, Before
<1>3. PathsDiffer'
  BY DEF PathsDiffer
<1>4. FoundOK'
  BY DEF FoundOK, Before
<1>5. AnswerOK'
  BY DEF TypeOK, AnswerOK
<1>6. LossExplained'
  BY DEF LossExplained, Lost, HasOtherCause
<1>7. AttributionKept'
  BY DEF AttributionKept, Recorded
<1>8. CachedFailureIsReal'
  BY DEF CachedFailureIsReal
<1>9. QED
  BY <1>1, <1>2, <1>3, <1>4, <1>5, <1>6, <1>7, <1>8

LEMMA CacheSetInv ==
  ASSUME IInv, NEW e \in Reports, CacheSet(e)
  PROVE  IInv'
<1> USE ConstantFacts DEF IInv, CacheSet, Goto, world, assetVars, cacheVars, handler,
   hist
<1>1. TypeOK'
  BY DEF TypeOK, PlaceOK, Busy, Answers
<1>2. PlaceOK'
  BY DEF PlaceOK, Before
<1>3. PathsDiffer'
  BY DEF PathsDiffer
<1>4. FoundOK'
  BY DEF FoundOK, Before
<1>5. AnswerOK'
  BY DEF TypeOK, AnswerOK
<1>6. LossExplained'
  BY DEF LossExplained, Lost, HasOtherCause
<1>7. AttributionKept'
  BY DEF AttributionKept, Recorded
<1>8. CachedFailureIsReal'
  BY DEF TypeOK, PlaceOK, AnswerOK, CachedFailureIsReal
<1>9. QED
  BY <1>1, <1>2, <1>3, <1>4, <1>5, <1>6, <1>7, <1>8

LEMMA InsertInv ==
  ASSUME IInv, NEW e \in Reports, Insert(e)
  PROVE  IInv'
<1> USE ConstantFacts DEF IInv, Insert, RefersWell, Fail, Answer, Goto, world,
   assetVars, cacheVars, handler, hist
<1>1. TypeOK'
  BY DEF TypeOK, Busy
<1>2. PlaceOK'
  BY DEF TypeOK, PlaceOK, Before
<1>3. PathsDiffer'
  BY DEF PathsDiffer
<1>4. FoundOK'
  BY DEF TypeOK, FoundOK, Before
<1>5. AnswerOK'
  BY DEF TypeOK, AnswerOK
<1>6. LossExplained'
  BY DEF TypeOK, LossExplained, Lost, HasOtherCause
<1>7. AttributionKept'
  BY DEF TypeOK, FoundOK, AttributionKept, Recorded, Before
<1>8. CachedFailureIsReal'
  BY DEF CachedFailureIsReal
<1>9. QED
  BY <1>1, <1>2, <1>3, <1>4, <1>5, <1>6, <1>7, <1>8

LEMMA ReadBackInv ==
  ASSUME IInv, NEW e \in Reports, ReadBack(e)
  PROVE  IInv'
<1> USE ConstantFacts DEF IInv, ReadBack, Answer, Goto, world, assetVars, cacheVars,
   handler, hist
<1>1. TypeOK'
  BY DEF TypeOK
<1>2. PlaceOK'
  BY DEF TypeOK, PlaceOK, Before
<1>3. PathsDiffer'
  BY DEF PathsDiffer
<1>4. FoundOK'
  BY DEF TypeOK, FoundOK, Before
<1>5. AnswerOK'
  BY DEF TypeOK, AnswerOK
<1>6. LossExplained'
  BY DEF TypeOK, PlaceOK, LossExplained, Lost, HasOtherCause
<1>7. AttributionKept'
  BY DEF AttributionKept, Recorded
<1>8. CachedFailureIsReal'
  BY DEF CachedFailureIsReal
<1>9. QED
  BY <1>1, <1>2, <1>3, <1>4, <1>5, <1>6, <1>7, <1>8

LEMMA CreateAssetInv ==
  ASSUME IInv, NEW a \in Assets, CreateAsset(a)
  PROVE  IInv'
<1> USE ConstantFacts DEF IInv, CreateAsset, AtPath, world, assetVars, cacheVars,
   handler, hist
<1>1. TypeOK'
  BY DEF TypeOK
<1>2. PlaceOK'
  BY DEF PlaceOK
<1>3. PathsDiffer'
  BY DEF PathsDiffer
<1>4. FoundOK'
  BY DEF TypeOK, FoundOK
<1>5. AnswerOK'
  BY DEF AnswerOK
<1>6. LossExplained'
  BY DEF TypeOK, LossExplained, Lost, HasOtherCause
<1>7. AttributionKept'
  BY DEF TypeOK, AttributionKept, Recorded
<1>8. CachedFailureIsReal'
  BY DEF CachedFailureIsReal
<1>9. QED
  BY <1>1, <1>2, <1>3, <1>4, <1>5, <1>6, <1>7, <1>8

LEMMA DeleteAssetInv ==
  ASSUME IInv, NEW a \in Assets, DeleteAsset(a)
  PROVE  IInv'
<1> USE ConstantFacts DEF IInv, DeleteAsset, ClearReferences, world, assetVars,
   cacheVars, handler, hist
<1>1. TypeOK'
  BY DEF TypeOK
<1>2. PlaceOK'
  BY DEF PlaceOK
<1>3. PathsDiffer'
  BY DEF PathsDiffer
<1>4. FoundOK'
  BY DEF FoundOK
<1>5. AnswerOK'
  BY DEF AnswerOK
<1>6. LossExplained'
  BY DEF LossExplained, Lost, HasOtherCause
<1>7. AttributionKept'
  BY DEF AttributionKept, Recorded
<1>8. CachedFailureIsReal'
  BY DEF CachedFailureIsReal
<1>9. QED
  BY <1>1, <1>2, <1>3, <1>4, <1>5, <1>6, <1>7, <1>8

LEMMA DeleteJobAssetsInv ==
  ASSUME IInv, DeleteJobAssets
  PROVE  IInv'
<1> USE ConstantFacts DEF IInv, DeleteJobAssets, ClearReferences, world, assetVars,
   cacheVars, handler, hist
<1>1. TypeOK'
  BY DEF TypeOK
<1>2. PlaceOK'
  BY DEF TypeOK, PlaceOK
<1>3. PathsDiffer'
  BY DEF PathsDiffer
<1>4. FoundOK'
  BY DEF FoundOK
<1>5. AnswerOK'
  BY DEF AnswerOK
<1>6. LossExplained'
  BY DEF LossExplained, Lost, HasOtherCause
<1>7. AttributionKept'
  BY DEF AttributionKept
<1>8. CachedFailureIsReal'
  BY DEF CachedFailureIsReal
<1>9. QED
  BY <1>1, <1>2, <1>3, <1>4, <1>5, <1>6, <1>7, <1>8

LEMMA RestoreAssetInv ==
  ASSUME IInv, NEW a \in Assets, RestoreAsset(a)
  PROVE  IInv'
<1> USE ConstantFacts DEF IInv, RestoreAsset, AtPath, world, assetVars, cacheVars,
   handler, hist
<1>1. TypeOK'
  BY DEF TypeOK
<1>2. PlaceOK'
  BY DEF PlaceOK
<1>3. PathsDiffer'
  BY DEF PathsDiffer
<1>4. FoundOK'
  BY DEF FoundOK
<1>5. AnswerOK'
  BY DEF AnswerOK
<1>6. LossExplained'
  BY DEF LossExplained, Lost, HasOtherCause
<1>7. AttributionKept'
  BY DEF AttributionKept, Recorded
<1>8. CachedFailureIsReal'
  BY DEF CachedFailureIsReal
<1>9. QED
  BY <1>1, <1>2, <1>3, <1>4, <1>5, <1>6, <1>7, <1>8

LEMMA ExpireInv ==
  ASSUME IInv, NEW a \in Addrs, Expire(a)
  PROVE  IInv'
<1> USE ConstantFacts DEF IInv, Expire, world, assetVars, cacheVars, handler, hist
<1>1. TypeOK'
  BY DEF TypeOK
<1>2. PlaceOK'
  BY DEF PlaceOK
<1>3. PathsDiffer'
  BY DEF PathsDiffer
<1>4. FoundOK'
  BY DEF FoundOK
<1>5. AnswerOK'
  BY DEF AnswerOK
<1>6. LossExplained'
  BY DEF LossExplained, Lost, HasOtherCause
<1>7. AttributionKept'
  BY DEF AttributionKept, Recorded
<1>8. CachedFailureIsReal'
  BY DEF CachedFailureIsReal
<1>9. QED
  BY <1>1, <1>2, <1>3, <1>4, <1>5, <1>6, <1>7, <1>8

LEMMA StopInv ==
  ASSUME IInv, Stop
  PROVE  IInv'
<1> USE ConstantFacts DEF IInv, Stop, world, assetVars, cacheVars, handler, hist
<1>1. TypeOK'
  BY DEF TypeOK
<1>2. PlaceOK'
  BY DEF PlaceOK, Busy, Before
<1>3. PathsDiffer'
  BY DEF PathsDiffer
<1>4. FoundOK'
  BY DEF FoundOK, Before
<1>5. AnswerOK'
  BY DEF AnswerOK
<1>6. LossExplained'
  BY DEF LossExplained, Lost, HasOtherCause
<1>7. AttributionKept'
  BY DEF AttributionKept, Recorded
<1>8. CachedFailureIsReal'
  BY DEF CachedFailureIsReal
<1>9. QED
  BY <1>1, <1>2, <1>3, <1>4, <1>5, <1>6, <1>7, <1>8

LEMMA RestartInv ==
  ASSUME IInv, Restart
  PROVE  IInv'
<1> USE ConstantFacts DEF IInv, Restart, world, assetVars, cacheVars, handler, hist
<1>1. TypeOK'
  BY DEF TypeOK
<1>2. PlaceOK'
  BY DEF PlaceOK
<1>3. PathsDiffer'
  BY DEF PathsDiffer
<1>4. FoundOK'
  BY DEF FoundOK
<1>5. AnswerOK'
  BY DEF AnswerOK
<1>6. LossExplained'
  BY DEF LossExplained, Lost, HasOtherCause
<1>7. AttributionKept'
  BY DEF AttributionKept, Recorded
<1>8. CachedFailureIsReal'
  BY DEF CachedFailureIsReal
<1>9. QED
  BY <1>1, <1>2, <1>3, <1>4, <1>5, <1>6, <1>7, <1>8

LEMMA InitInv == Init => IInv
<1> SUFFICES ASSUME Init PROVE IInv
  OBVIOUS
<1> USE ConstantFacts DEF Init
<1>1. TypeOK
  BY DEF TypeOK, Answers
<1>2. PlaceOK /\ PathsDiffer /\ FoundOK /\ AnswerOK
  BY DEF PlaceOK, PathsDiffer, FoundOK, AnswerOK, Before
<1>3. LossExplained /\ AttributionKept /\ CachedFailureIsReal
  BY DEF LossExplained, Lost, AttributionKept, Recorded, CachedFailureIsReal
<1>4. QED
  BY <1>1, <1>2, <1>3 DEF IInv

LEMMA NextInv == IInv /\ [Next]_vars => IInv'
<1> SUFFICES ASSUME IInv, [Next]_vars PROVE IInv'
  OBVIOUS
<1>1. ASSUME NEW e \in Reports,
             Post(e) \/ GiveUp(e) \/ ConnectionLost(e) \/ Refuse(e) \/ ContextEnds(e)
      PROVE  IInv'
  BY <1>1, PostInv, GiveUpInv, ConnectionLostInv, RefuseInv, ContextEndsInv
<1>2. ASSUME NEW e \in Reports, Handle(e) PROVE IInv'
  BY <1>2, FindInv, CacheGetInv, LookupInv, CacheSetInv, InsertInv,
     ReadBackInv DEF Handle
<1>3. ASSUME NEW a \in Assets, CreateAsset(a) \/ DeleteAsset(a) \/ RestoreAsset(a) PROVE IInv'
  BY <1>3, CreateAssetInv, DeleteAssetInv, RestoreAssetInv
<1>4. ASSUME NEW a \in Addrs, Expire(a) PROVE IInv'
  BY <1>4, ExpireInv
<1>5. CASE DeleteJobAssets \/ Stop \/ Restart
  BY <1>5, DeleteJobAssetsInv, StopInv, RestartInv
<1>6. CASE UNCHANGED vars
  BY <1>6 DEF vars, world, assetVars, cacheVars, handler, hist, IInv, TypeOK, PlaceOK,
     PathsDiffer, FoundOK, AnswerOK, LossExplained, Lost, HasOtherCause, AttributionKept,
     Recorded, CachedFailureIsReal
<1>7. QED
  BY <1>1, <1>2, <1>3, <1>4, <1>5, <1>6 DEF Next

(***************************************************************************)
(* The theorems.                                                           *)
(***************************************************************************)

(* The inductive invariant holds in every reachable state. *)
THEOREM Invariance == Spec => []IInv
  BY InitInv, NextInv, PTL DEF Spec

(* Every variable keeps its type. *)
THEOREM TypeCorrect == Spec => []TypeOK
<1>1. IInv => TypeOK
  BY DEF IInv
<1>2. QED
  BY <1>1, Invariance, PTL

(* An accepted report is lost only because its context ended, a statement   *)
(* of its own failed, or its asset went away.                               *)
THEOREM LossesExplained == Spec => []LossExplained
<1>1. IInv => LossExplained
  BY DEF IInv
<1>2. QED
  BY <1>1, Invariance, PTL

(* An event keeps the asset it was about for as long as the asset stays.    *)
THEOREM EventsKeepTheirAsset == Spec => []AttributionKept
<1>1. IInv => AttributionKept
  BY DEF IInv
<1>2. QED
  BY <1>1, Invariance, PTL

(* A partial answer is cached only where RDAP itself gave no more. *)
THEOREM CachedFailuresAreReal == Spec => []CachedFailureIsReal
<1>1. IInv => CachedFailureIsReal
  BY DEF IInv
<1>2. QED
  BY <1>1, Invariance, PTL

(***************************************************************************)
(* The comment in Ingest is right about lookups that fail, and wrong only  *)
(* about those that take too long: where every call ends in time, no       *)
(* sender leaves before the answer and no context ends.                    *)
(***************************************************************************)
InTime == {"slow", "request"} \cap Faults = {}

WaitingOK == ended = {} /\ \A e \in Reports : pc[e] \in Busy => sender[e] = "waiting"

(* If nothing is slow, no answer of RDAP, of the cache or of the database   *)
(* costs an event: it is lost only if its own statement fails or its asset  *)
(* goes away.                                                               *)
THEOREM OnlySlowLookupsBlock == ASSUME InTime PROVE Spec => []EnrichmentNeverBlocks
<1>1. ASSUME InTime, IInv, WaitingOK, [Next]_vars PROVE WaitingOK'
  <2> USE <1>1, ConstantFacts DEF WaitingOK, Busy, IInv, TypeOK, Goto, Answer
  <2>1. \A e \in Reports : ~Late(e)
    BY DEF InTime, Late
  <2>2. ASSUME NEW e \in Reports, Post(e) PROVE WaitingOK'
    BY <2>2 DEF Post
  <2>3. ASSUME NEW e \in Reports, GiveUp(e) \/ ConnectionLost(e) \/ ContextEnds(e)
        PROVE  WaitingOK'
    BY <2>1, <2>3 DEF GiveUp, ConnectionLost, ContextEnds, handler
  <2>4. ASSUME NEW e \in Reports, Refuse(e) PROVE WaitingOK'
    BY <2>4 DEF Refuse
  <2>5. ASSUME NEW e \in Reports, Find(e) \/ CacheGet(e) \/ Lookup(e) PROVE WaitingOK'
    BY <2>5 DEF Find, Fail, CacheGet, Lookup
  <2>6. ASSUME NEW e \in Reports, CacheSet(e) \/ Insert(e) \/ ReadBack(e) PROVE WaitingOK'
    BY <2>6 DEF CacheSet, Insert, Fail, ReadBack
  <2>7. ASSUME NEW a \in Assets, CreateAsset(a) \/ DeleteAsset(a) \/ RestoreAsset(a)
        PROVE  WaitingOK'
    BY <2>7 DEF CreateAsset, DeleteAsset, RestoreAsset, handler
  <2>8. CASE DeleteJobAssets \/ \E a \in Addrs : Expire(a)
    BY <2>8 DEF DeleteJobAssets, Expire, handler
  <2>9. CASE Stop \/ Restart
    BY <2>9 DEF Stop, Restart, handler
  <2>10. CASE UNCHANGED vars
    BY <2>10 DEF vars, handler
  <2>11. QED
    BY <2>2, <2>3, <2>4, <2>5, <2>6, <2>7, <2>8, <2>9, <2>10 DEF Next, Handle
<1>2. Init => WaitingOK
  BY DEF Init, WaitingOK, Busy
<1>3. ASSUME IInv, WaitingOK PROVE EnrichmentNeverBlocks
  BY <1>3 DEF IInv, LossExplained, WaitingOK, EnrichmentNeverBlocks
<1>4. QED
  BY <1>1, <1>2, <1>3, Invariance, PTL DEF Spec

(***************************************************************************)
(* Refinement.                                                             *)
(***************************************************************************)
LEMMA LedgerInit == Init => Ledger!Init
  BY DEF Init, Ledger!Init

LEMMA LedgerNext == IInv /\ [Next]_vars => [Ledger!Next]_(Ledger!vars)
<1> SUFFICES ASSUME IInv, [Next]_vars PROVE [Ledger!Next]_(Ledger!vars)
  OBVIOUS
<1> USE ConstantFacts DEF Ledger!vars
<1>1. ASSUME NEW e \in Reports, Post(e) PROVE Ledger!Post(e)
  BY <1>1 DEF Post, Ledger!Post, IInv, TypeOK
<1>2. ASSUME NEW e \in Reports,
             GiveUp(e) \/ ConnectionLost(e) \/ Refuse(e) \/ Find(e) \/ ContextEnds(e)
             \/ CacheGet(e) \/ Lookup(e) \/ CacheSet(e)
      PROVE  Ledger!Disappoint(e) \/ UNCHANGED <<sender, log>>
  BY <1>2 DEF GiveUp, ConnectionLost, Refuse, Find, Fail, Answer, ContextEnds,
     CacheGet, Lookup,
     CacheSet, Ledger!Disappoint
<1>3. ASSUME NEW e \in Reports, Insert(e)
      PROVE  Ledger!Record(e) \/ Ledger!Disappoint(e) \/ UNCHANGED <<sender, log>>
  <2>1. pc[e] = "insert" /\ log[e] = Absent /\ sender[e] # "idle" /\ found[e] \in Assets \cup {NoAsset}
    BY <1>3 DEF Insert, IInv, TypeOK, PlaceOK, Before
  <2>2. QED
    BY <1>3, <2>1 DEF Insert, Fail, Answer, Ledger!Record, Ledger!Disappoint
<1>4. ASSUME NEW e \in Reports, ReadBack(e)
      PROVE  Ledger!Confirm(e) \/ Ledger!Disappoint(e) \/ UNCHANGED <<sender, log>>
  BY <1>4 DEF ReadBack, Answer, Ledger!Confirm, Ledger!Disappoint, IInv, PlaceOK
<1>5. ASSUME NEW a \in Assets, DeleteAsset(a) PROVE \E A \in SUBSET Assets : Ledger!Forget(A)
  <2>1. Ledger!Forget({a})
    BY <1>5 DEF DeleteAsset, ClearReferences, Ledger!Forget
  <2>2. QED
    BY <2>1
<1>6. ASSUME DeleteJobAssets PROVE \E A \in SUBSET Assets : Ledger!Forget(A)
  <2>1. Ledger!Forget(rows) /\ rows \subseteq Assets
    BY <1>6 DEF DeleteJobAssets, ClearReferences, Ledger!Forget, IInv, TypeOK
  <2>2. QED
    BY <2>1
<1>7. ASSUME \/ \E a \in Assets : CreateAsset(a) \/ RestoreAsset(a)
             \/ \E a \in Addrs : Expire(a)
             \/ Stop \/ Restart \/ UNCHANGED vars
      PROVE  UNCHANGED <<sender, log>>
  BY <1>7 DEF CreateAsset, RestoreAsset, Expire, Stop, Restart, vars
<1>8. QED
  BY <1>1, <1>2, <1>3, <1>4, <1>5, <1>6, <1>7 DEF Next, Handle, Ledger!Next

(* The event log keeps the promises of EventLedger: a row for a report at   *)
(* most once, no confirmation without the row, and rows that only a delete  *)
(* of their asset changes.                                                  *)
THEOREM LedgerImplemented == Spec => ImplementsLedger
<1>1. QED
  BY LedgerInit, LedgerNext, Invariance, PTL DEF Spec, ImplementsLedger, Ledger!Spec
=============================================================================
