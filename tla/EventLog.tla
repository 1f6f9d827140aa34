------------------------------ MODULE EventLog ------------------------------
(***************************************************************************)
(* How an access to a decoy becomes a row of the event log.  The server    *)
(* that saw the access posts a report to the API and waits two seconds for *)
(* the answer; the API looks up the asset at the path, enriches the source *)
(* address through a cache, and inserts the row.  Meanwhile assets come    *)
(* and go, the sender gives up, answers in the cache expire and the API    *)
(* restarts.                                                               *)
(***************************************************************************)
CONSTANTS
  Reports,   \* accesses, each reported once
  PathAt,    \* the path of an access
  AddrOf,    \* the address it came from
  Addrs,     \* public addresses
  Local,     \* an address that is not looked up: private, malformed or blank
  Assets,    \* ids, each used once
  Paths,
  PathOf,    \* the path of an asset
  NoAsset,   \* a NULL reference
  Absent,    \* no row yet
  Removed,   \* no row any more
  Faults     \* what may go wrong, a subset of FaultKinds

FaultKinds ==
  {"lookup",    \* RDAP answers with an error
   "slow",      \* RDAP answers later than the report's context allows
   "request",   \* the report's context may also end elsewhere
   "database",  \* an SQL statement returns an error
   "storage",   \* deleting an asset's file fails after its row is gone
   "refused",   \* the token or the body of a report is not accepted
   "stop"}      \* the API process ends

(* An answer with or without what RDAP knows; the part that the GeoIP file  *)
(* gives, if there is one, takes no call that could fail in time.          *)
Answers == {"whole", "partial"}

ASSUME ConstantsOK ==
  /\ PathAt \in [Reports -> Paths]
  /\ AddrOf \in [Reports -> Addrs \cup {Local}]
  /\ PathOf \in [Assets -> Paths]
  /\ Local \notin Addrs
  /\ {NoAsset, Absent, Removed} \cap Assets = {}
  /\ NoAsset # Absent /\ NoAsset # Removed /\ Absent # Removed
  /\ Faults \subseteq FaultKinds

VARIABLES
  up,        \* the API process runs
  notNull,   \* events.asset_id is NOT NULL, as in an old database
  rows,      \* assets that have a row
  used,      \* asset ids handed out
  log,       \* the row of each report: the asset it refers to, or no row
  fresh,     \* addresses with a row in the cache not older than cacheTTL
  cache,     \* the answer in that row
  sender,    \* "idle", "waiting", "ok", "failed"
  pc,        \* the handler of each report
  found,     \* its local: the asset at the path
  answer,    \* its local: what the lookups returned
  ended,     \* reports whose context is over
  erred,     \* history: reports that failed with a statement of their own
  present,   \* history: the assets at the path when the report arrived
  restored,  \* history: assets whose row was put back after a delete
  negative   \* history: addresses for which RDAP has answered with an error

world == <<up, notNull>>
assetVars == <<rows, used, restored>>
cacheVars == <<fresh, cache>>
handler == <<pc, found, answer>>
hist == <<erred, present, negative>>
vars == <<world, assetVars, log, cacheVars, sender, handler, ended, hist>>

Busy == {"find", "cacheGet", "lookup", "cacheSet", "insert", "readBack"}

TypeOK ==
  /\ {up, notNull} \subseteq BOOLEAN
  /\ rows \subseteq used /\ used \subseteq Assets /\ restored \subseteq used
  /\ log \in [Reports -> used \cup {NoAsset, Absent, Removed}]
  /\ fresh \subseteq Addrs
  /\ cache \in [Addrs -> Answers]
  /\ sender \in [Reports -> {"idle", "waiting", "ok", "failed"}]
  /\ pc \in [Reports -> Busy \cup {"idle", "done", "refused", "dead"}]
  /\ found \in [Reports -> used \cup {NoAsset}]
  /\ answer \in [Reports -> Answers]
  /\ ended \subseteq Reports /\ erred \subseteq Reports
  /\ present \in [Reports -> SUBSET used]
  /\ negative \subseteq Addrs

Init ==
  /\ up = TRUE
  /\ notNull \in BOOLEAN
  /\ rows = {} /\ used = {} /\ restored = {}
  /\ log = [e \in Reports |-> Absent]
  /\ fresh = {}
  /\ cache = [a \in Addrs |-> "partial"]
  /\ sender = [e \in Reports |-> "idle"]
  /\ pc = [e \in Reports |-> "idle"]
  /\ found = [e \in Reports |-> NoAsset]
  /\ answer = [e \in Reports |-> "partial"]
  /\ ended = {} /\ erred = {}
  /\ present = [e \in Reports |-> {}]
  /\ negative = {}

(***************************************************************************)
(* Helpers.                                                                *)
(***************************************************************************)
AtPath(p) == {a \in rows : PathOf[a] = p}

(* A call with the context of report e fails. *)
CallFails(e) == e \in ended \/ "database" \in Faults

Goto(e, label) == pc' = [pc EXCEPT ![e] = label]

(* The handler answers; only a sender that still waits hears it. *)
Answer(e, label, verdict) ==
  /\ Goto(e, label)
  /\ sender' = IF sender[e] = "waiting" THEN [sender EXCEPT ![e] = verdict] ELSE sender

(* It answers an error because a statement failed. *)
Fail(e) ==
  /\ CallFails(e)
  /\ Answer(e, "done", "failed")
  /\ erred' = IF e \in ended THEN erred ELSE erred \cup {e}

(* Something that takes longer than the deadlines allow. *)
Late(e) == "request" \in Faults \/ ("slow" \in Faults /\ pc[e] = "lookup")

(***************************************************************************)
(* The sender: LoggingMiddleware's goroutine, or a protocol server.        *)
(***************************************************************************)
Post(e) ==
  /\ sender[e] = "idle"
  /\ IF up
     THEN /\ sender' = [sender EXCEPT ![e] = "waiting"]
          /\ Goto(e, "find")
          /\ present' = [present EXCEPT ![e] = AtPath(PathAt[e])]
     ELSE /\ sender' = [sender EXCEPT ![e] = "failed"]
          /\ UNCHANGED <<pc, present>>
  /\ UNCHANGED <<world, assetVars, log, cacheVars, found, answer, ended, erred, negative>>

(* The two seconds pass. *)
GiveUp(e) ==
  /\ sender[e] = "waiting"
  /\ Late(e)
  /\ sender' = [sender EXCEPT ![e] = "failed"]
  /\ UNCHANGED <<world, assetVars, log, cacheVars, handler, ended, hist>>

ConnectionLost(e) ==
  /\ sender[e] = "waiting" /\ pc[e] = "dead"
  /\ sender' = [sender EXCEPT ![e] = "failed"]
  /\ UNCHANGED <<world, assetVars, log, cacheVars, handler, ended, hist>>

(***************************************************************************)
(* The handler of POST /internal/events.                                   *)
(***************************************************************************)

(* The token, the body or a field is not accepted. *)
Refuse(e) ==
  /\ pc[e] = "find" /\ "refused" \in Faults
  /\ Answer(e, "refused", "failed")
  /\ UNCHANGED <<world, assetVars, log, cacheVars, found, answer, ended, hist>>

(* The server notices that the sender has gone, or the handler's five       *)
(* seconds are over.                                                        *)
ContextEnds(e) ==
  /\ pc[e] \in Busy
  /\ sender[e] # "waiting" \/ Late(e)
  /\ ended' = ended \cup {e}
  /\ UNCHANGED <<world, assetVars, log, cacheVars, sender, handler, hist>>

(* Mutant of Find: any error counts as an asset that is not there. *)
FindLenient(e) ==
  /\ pc[e] = "find"
  /\ LET here == IF CallFails(e) THEN {} ELSE AtPath(PathAt[e])
     IN  found' \in {[found EXCEPT ![e] = a] : a \in IF here = {} THEN {NoAsset} ELSE here}
  /\ Goto(e, IF AddrOf[e] = Local THEN "insert" ELSE "cacheGet")
  /\ UNCHANGED <<world, assetVars, log, cacheVars, sender, answer, ended, hist>>

Find(e) ==
  /\ pc[e] = "find"
  /\ \/ /\ e \notin ended
        /\ LET here == AtPath(PathAt[e])
           IN  found' \in {[found EXCEPT ![e] = a] : a \in IF here = {} THEN {NoAsset} ELSE here}
        /\ Goto(e, IF AddrOf[e] = Local THEN "insert" ELSE "cacheGet")
        /\ UNCHANGED <<sender, erred>>
     \/ Fail(e) /\ UNCHANGED found
  /\ UNCHANGED <<world, assetVars, log, cacheVars, answer, ended, present, negative>>

(* An error of the cache counts as a miss. *)
CacheGet(e) ==
  /\ pc[e] = "cacheGet"
  /\ \/ e \notin ended /\ AddrOf[e] \in fresh /\ Goto(e, "insert")
     \/ (CallFails(e) \/ AddrOf[e] \notin fresh) /\ Goto(e, "lookup")
  /\ UNCHANGED <<world, assetVars, log, cacheVars, sender, found, answer, ended, hist>>

(* Mutant of Lookup: an enrichment that fails fails the event. *)
LookupStrict(e) ==
  /\ pc[e] = "lookup"
  /\ \/ e \notin ended /\ answer' = [answer EXCEPT ![e] = "whole"]
        /\ Goto(e, "cacheSet") /\ UNCHANGED <<sender, negative>>
     \/ e \notin ended /\ "lookup" \in Faults
        /\ negative' = negative \cup {AddrOf[e]}
        /\ Answer(e, "done", "failed") /\ UNCHANGED answer
  /\ UNCHANGED <<world, assetVars, log, cacheVars, found, ended, erred, present>>

(* RDAP knows the address, or answers with an error, or fails because the   *)
(* context is over.                                                         *)
Lookup(e) ==
  /\ pc[e] = "lookup"
  /\ \/ /\ e \notin ended
        /\ answer' = [answer EXCEPT ![e] = "whole"]
        /\ UNCHANGED negative
     \/ /\ e \notin ended /\ "lookup" \in Faults
        /\ negative' = negative \cup {AddrOf[e]}
        /\ UNCHANGED answer
     \/ e \in ended /\ UNCHANGED <<answer, negative>>
  /\ Goto(e, "cacheSet")
  /\ UNCHANGED <<world, assetVars, log, cacheVars, sender, found, ended, erred, present>>

(* Mutant of CacheSet: the write has a context of its own. *)
CacheSetDetached(e) ==
  /\ pc[e] = "cacheSet"
  /\ cache' = [cache EXCEPT ![AddrOf[e]] = answer[e]]
  /\ fresh' = fresh \cup {AddrOf[e]}
  /\ answer' = [answer EXCEPT ![e] = "partial"]
  /\ Goto(e, "insert")
  /\ UNCHANGED <<world, assetVars, log, sender, found, ended, hist>>

(* The answer replaces the one in the cache; an error is ignored. *)
CacheSet(e) ==
  /\ pc[e] = "cacheSet"
  /\ \/ /\ e \notin ended
        /\ cache' = [cache EXCEPT ![AddrOf[e]] = answer[e]]
        /\ fresh' = fresh \cup {AddrOf[e]}
     \/ CallFails(e) /\ UNCHANGED cacheVars
  /\ answer' = [answer EXCEPT ![e] = "partial"]
  /\ Goto(e, "insert")
  /\ UNCHANGED <<world, assetVars, log, sender, found, ended, hist>>

(* The row may refer to an asset that is there, or to none if the schema    *)
(* allows it.                                                               *)
RefersWell(e) == found[e] \in rows \/ (found[e] = NoAsset /\ ~notNull)

(* Mutant of Insert: a row that is refused is logged and the event taken.   *)
InsertUnchecked(e) ==
  /\ pc[e] = "insert" /\ e \notin ended
  /\ \/ RefersWell(e) /\ log' = [log EXCEPT ![e] = found[e]] /\ Goto(e, "readBack")
        /\ UNCHANGED sender
     \/ ~RefersWell(e) /\ Answer(e, "done", "ok") /\ UNCHANGED log
  /\ UNCHANGED <<world, assetVars, cacheVars, found, answer, ended, hist>>

Insert(e) ==
  /\ pc[e] = "insert"
  /\ \/ /\ e \notin ended /\ RefersWell(e)
        /\ log' = [log EXCEPT ![e] = found[e]]
        /\ found' = [found EXCEPT ![e] = NoAsset]
        /\ Goto(e, "readBack")
        /\ UNCHANGED <<sender, erred>>
     \/ /\ \/ Fail(e)
           \/ ~RefersWell(e) /\ Answer(e, "done", "failed") /\ UNCHANGED erred
        /\ UNCHANGED <<log, found>>
  /\ UNCHANGED <<world, assetVars, cacheVars, answer, ended, present, negative>>

ReadBack(e) ==
  /\ pc[e] = "readBack"
  /\ \/ e \notin ended /\ log[e] # Removed /\ Answer(e, "done", "ok")
     \/ (CallFails(e) \/ log[e] = Removed) /\ Answer(e, "done", "failed")
  /\ UNCHANGED <<world, assetVars, log, cacheVars, found, answer, ended, hist>>

Handle(e) ==
  \/ Find(e) \/ CacheGet(e) \/ Lookup(e) \/ CacheSet(e) \/ Insert(e) \/ ReadBack(e)

(***************************************************************************)
(* Assets come and go (see AssetStore); a row that goes takes itself out   *)
(* of the events in the same transaction.                                  *)
(***************************************************************************)
ClearReferences(A) ==
  log' = [e \in Reports |->
            IF log[e] \notin A THEN log[e] ELSE IF notNull THEN Removed ELSE NoAsset]

(* Mutant of CreateAsset: an id is used again. *)
CreateAssetAgain(a) ==
  /\ up /\ a \notin rows /\ AtPath(PathOf[a]) = {}
  /\ rows' = rows \cup {a}
  /\ UNCHANGED <<world, used, restored, log, cacheVars, sender, handler, ended, hist>>

CreateAsset(a) ==
  /\ up /\ a \notin used /\ AtPath(PathOf[a]) = {}
  /\ rows' = rows \cup {a}
  /\ used' = used \cup {a}
  /\ UNCHANGED <<world, restored, log, cacheVars, sender, handler, ended, hist>>

DeleteAsset(a) ==
  /\ up /\ a \in rows
  /\ ClearReferences({a})
  /\ rows' = rows \ {a}
  /\ UNCHANGED <<world, used, restored, cacheVars, sender, handler, ended, hist>>

DeleteJobAssets ==
  /\ up /\ rows # {}
  /\ ClearReferences(rows)
  /\ rows' = {}
  /\ UNCHANGED <<world, used, restored, cacheVars, sender, handler, ended, hist>>

(* Service.DeleteAsset puts a row back under its own id. *)
RestoreAsset(a) ==
  /\ up /\ "storage" \in Faults
  /\ a \in used \ rows /\ AtPath(PathOf[a]) = {}
  /\ rows' = rows \cup {a}
  /\ restored' = restored \cup {a}
  /\ UNCHANGED <<world, used, log, cacheVars, sender, handler, ended, hist>>

(***************************************************************************)
(* Time and the process.                                                   *)
(***************************************************************************)
Expire(a) ==
  /\ a \in fresh
  /\ fresh' = fresh \ {a}
  /\ UNCHANGED <<world, assetVars, log, cache, sender, handler, ended, hist>>

Stop ==
  /\ "stop" \in Faults /\ up
  /\ up' = FALSE
  /\ pc' = [e \in Reports |-> IF pc[e] \in Busy THEN "dead" ELSE pc[e]]
  /\ UNCHANGED <<notNull, assetVars, log, cacheVars, sender, found, answer, ended, hist>>

Restart ==
  /\ ~up
  /\ up' = TRUE
  /\ UNCHANGED <<notNull, assetVars, log, cacheVars, sender, handler, ended, hist>>

Next ==
  \/ \E e \in Reports :
       Post(e) \/ GiveUp(e) \/ ConnectionLost(e) \/ Refuse(e) \/ ContextEnds(e) \/ Handle(e)
  \/ \E a \in Assets : CreateAsset(a) \/ DeleteAsset(a) \/ RestoreAsset(a)
  \/ DeleteJobAssets
  \/ \E a \in Addrs : Expire(a)
  \/ Stop \/ Restart

Spec == Init /\ [][Next]_vars

(***************************************************************************)
(* Properties.                                                             *)
(***************************************************************************)
Recorded(e) == log[e] \notin {Absent, Removed}
Lost(e) == pc[e] = "done" /\ log[e] = Absent

(* What, besides the end of the context, keeps a row from being inserted.   *)
HasOtherCause(e) ==
  \/ e \in erred
  \/ found[e] \in Assets /\ found[e] \notin rows \ restored
  \/ found[e] = NoAsset /\ notNull

(* An accepted report gets its row unless its context ended, a statement    *)
(* failed, or the asset went away between the look at it and the insert:    *)
(* neither the cache nor the lookups, whatever they answer, cost an event.  *)
LossExplained == \A e \in Reports : Lost(e) => e \in ended \/ HasOtherCause(e)

(* An event is attributed to the asset that was at its path when the report *)
(* arrived, as long as that asset stays, whatever else happens to the path, *)
(* to the statements and to the cache meanwhile.                            *)
AttributionKept ==
  \A e \in Reports : Recorded(e) =>
    \A a \in (present[e] \cap rows) \ restored : log[e] = a

(* An answer without RDAP's part is kept for the time to live only if RDAP  *)
(* has answered so, and not because a deadline passed.                      *)
CachedFailureIsReal ==
  \A a \in fresh : cache[a] = "partial" => a \in negative

Ledger == INSTANCE EventLedger WITH
       Reports <- Reports, Assets <- Assets, NoAsset <- NoAsset, Absent <- Absent,
       Removed <- Removed, sender <- sender, log <- log

(* What EventLedger promises of the log and the answers. *)
ImplementsLedger == Ledger!Spec

(* The comment in Ingest: a failed enrichment must not block the event.  To *)
(* be checked where nothing fails but lookups that take too long.           *)
EnrichmentNeverBlocks == \A e \in Reports : Lost(e) => HasOtherCause(e)
=============================================================================
