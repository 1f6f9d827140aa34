----------------------------- MODULE Migrations -----------------------------
(***************************************************************************)
(* The migration that every start of the API process runs on its database: *)
(* one transaction that works on a copy of the database until it commits.  *)
(* A statement that fails, a constraint that is violated or a crash leaves *)
(* the database as it was, and ends the process.                           *)
(*                                                                         *)
(* A table is the set of its columns, of those that the migration adds,    *)
(* moves or drops one of each kind, and a row for each id.  A column that  *)
(* a table does not have reads as 0, which also is the empty string, NULL  *)
(* and the default that a new column gets.  Of the tables that are only     *)
(* added to there are the port of each deployment, and the jobs and world  *)
(* models that there are.                                                  *)
(***************************************************************************)
EXTENDS Integers

CONSTANTS
  AssetIds, EventIds,
  Paths,
  DeploymentIds, Ports,
  JobIds, WorldIds,
  Times,       \* of the server's clock
  Origins,     \* databases of earlier versions
  MaxFailures  \* bound on failed statements and crashes

AssetRow == [path : Paths, created_at : Nat, generation_job_id : Nat, job_id : Nat,
             world_model_id : Nat, size_bytes : Nat, byte_size : Nat]

EventRow == [asset_id : Nat, event_type : Nat, type : Nat,
             timestamp : Nat, occurred_at : Nat, created_at : Nat]

BaseSchema == [assets |-> {"path", "created_at", "generation_job_id", "size_bytes"},
               events |-> {"asset_id", "created_at", "event_type", "timestamp"}]

(* Columns that an ALTER TABLE adds if they are missing. *)
SchemaUpgrades == [assets |-> {"generation_job_id", "size_bytes"},
                   events |-> {"event_type", "timestamp"}]

Columns == {"path", "created_at", "generation_job_id", "size_bytes", "asset_id",
            "event_type", "timestamp", "job_id", "byte_size", "type", "occurred_at"}

(* references: asset_id of events is declared to reference assets.  A table *)
(* without columns is not there.                                           *)
Fields == {"assetColumns", "assets", "eventColumns", "events", "references",
           "deployments", "jobs", "worlds"}

IsDatabase(d) ==
  /\ d = [f \in Fields |-> d[f]]
  /\ d.assetColumns \subseteq Columns /\ d.eventColumns \subseteq Columns
  /\ DOMAIN d.assets \subseteq AssetIds /\ d.assets \in [DOMAIN d.assets -> AssetRow]
  /\ DOMAIN d.events \subseteq EventIds /\ d.events \in [DOMAIN d.events -> EventRow]
  /\ d.references \in BOOLEAN
  /\ DOMAIN d.deployments \subseteq DeploymentIds
  /\ d.deployments \in [DOMAIN d.deployments -> Ports]
  /\ d.jobs \subseteq JobIds /\ d.worlds \subseteq WorldIds

(* A column that is not there holds nothing; the MVP's tables, the legacy   *)
(* ones and those of today differ in nothing else.                         *)
Earlier(d) ==
  /\ \A e \in DOMAIN d.events : d.events[e].created_at # 0
  /\ d.assetColumns = {} => DOMAIN d.assets = {}
  /\ d.eventColumns = {} => DOMAIN d.events = {}
  /\ d.assetColumns # {} => {"path", "created_at"} \subseteq d.assetColumns
  /\ d.eventColumns # {} => {"asset_id", "created_at"} \subseteq d.eventColumns
  /\ "job_id" \notin d.assetColumns => \A a \in DOMAIN d.assets :
       d.assets[a].job_id = 0 /\ d.assets[a].byte_size = 0
  /\ "job_id" \notin d.eventColumns => \A e \in DOMAIN d.events :
       d.events[e].type = 0 /\ d.events[e].occurred_at = 0
  /\ "timestamp" \notin d.eventColumns => \A e \in DOMAIN d.events : d.events[e].timestamp = 0
  /\ "timestamp" \in d.eventColumns => \A e \in DOMAIN d.events : d.events[e].timestamp # 0

ASSUME ConstantsOK ==
  /\ AssetIds \subseteq Nat /\ 0 \notin AssetIds
  /\ Times \subseteq Nat /\ 0 \notin Times
  /\ Paths \subseteq Nat
  /\ JobIds \subseteq Nat /\ WorldIds \subseteq Nat
  /\ \A d \in Origins : IsDatabase(d) /\ Earlier(d)
  /\ MaxFailures \in Nat

VARIABLES
  phase,    \* of the process
  db,       \* the database on disk
  work,     \* the transaction's view of it
  added,    \* eventTimestampAdded
  failures

vars == <<phase, db, work, added, failures>>

Steps == {"upgrade", "backfill", "assets", "events", "dedupe"}

TypeOK ==
  /\ phase \in Steps \cup {"down", "serving"}
  /\ IsDatabase(db)
  /\ IsDatabase(work)
  /\ phase \notin Steps => work = db
  /\ added \in BOOLEAN
  /\ failures \in 0..MaxFailures

Init ==
  /\ phase = "down"
  /\ db \in Origins
  /\ work = db
  /\ added = FALSE
  /\ failures = 0

-----------------------------------------------------------------------------
(* BEGIN and the base schema: CREATE TABLE IF NOT EXISTS. *)
Begin ==
  /\ phase = "down"
  /\ work' = [db EXCEPT
       !.assetColumns = IF @ = {} THEN BaseSchema.assets ELSE @,
       !.eventColumns = IF @ = {} THEN BaseSchema.events ELSE @,
       !.references = @ \/ db.eventColumns = {}]
  /\ added' = FALSE
  /\ phase' = "upgrade"
  /\ UNCHANGED <<db, failures>>

Upgraded(d) == [d EXCEPT !.assetColumns = @ \cup SchemaUpgrades.assets,
                         !.eventColumns = @ \cup SchemaUpgrades.events]

(* Mutant of Upgrade: the columns are added outside of the transaction. *)
UpgradeCommits ==
  /\ phase = "upgrade"
  /\ work' = Upgraded(work)
  /\ db' = work'
  /\ added' = ("timestamp" \notin work.eventColumns)
  /\ phase' = "backfill"
  /\ UNCHANGED failures

Upgrade ==
  /\ phase = "upgrade"
  /\ work' = Upgraded(work)
  /\ added' = ("timestamp" \notin work.eventColumns)
  /\ phase' = "backfill"
  /\ UNCHANGED <<db, failures>>

First(value, other) == IF value # 0 THEN value ELSE other

Backfilled(events, fill) ==
  [e \in DOMAIN events |-> [events[e] EXCEPT !.timestamp = fill[e]]]

Backfill ==
  /\ phase = "backfill"
  /\ work' = IF added /\ "created_at" \in work.eventColumns
             THEN [work EXCEPT !.events = Backfilled(@,
                     [e \in DOMAIN @ |-> First(@[e].timestamp, @[e].created_at)])]
             ELSE work
  /\ phase' = "assets"
  /\ UNCHANGED <<db, added, failures>>

LegacyAssets(d) == "job_id" \in d.assetColumns

JobOf(d, a) == First(d.assets[a].generation_job_id, d.assets[a].job_id)

(* The rebuilt table references jobs and world models, each row that is     *)
(* copied is checked.                                                      *)
Orphan(d, a) == JobOf(d, a) \notin d.jobs \/ d.assets[a].world_model_id \notin d.worlds

(* DROP TABLE deletes the rows first, which a reference to one forbids. *)
DropFails(d) == d.references /\ \E e \in DOMAIN d.events : d.events[e].asset_id \in DOMAIN d.assets

AssetsFail(d) == LegacyAssets(d) /\ (DropFails(d) \/ \E a \in DOMAIN d.assets : Orphan(d, a))

MigrateLegacyAssets ==
  /\ phase = "assets"
  /\ ~AssetsFail(work)
  /\ work' = IF ~LegacyAssets(work) THEN work ELSE
       [work EXCEPT
         !.assetColumns = BaseSchema.assets,
         !.assets = [a \in DOMAIN work.assets |-> [work.assets[a] EXCEPT
            !.generation_job_id = JobOf(work, a), !.job_id = 0,
            !.size_bytes = First(@, work.assets[a].byte_size), !.byte_size = 0]]]
  /\ phase' = "events"
  /\ UNCHANGED <<db, added, failures>>

LegacyEvents(d) == "job_id" \in d.eventColumns

Dangling(d) == \E e \in DOMAIN d.events : d.events[e].asset_id \notin {0} \cup DOMAIN d.assets

(* So does the rebuilt table of the events reference the assets. *)
EventsFail(d) == LegacyEvents(d) /\ Dangling(d)

(* Mutant of RebuiltEvent: the time the event was written goes first. *)
RebuiltEventByTimestamp(e) ==
  [e EXCEPT !.event_type = First(@, e.type), !.type = 0,
            !.timestamp = First(@, First(e.occurred_at, e.created_at)), !.occurred_at = 0]

RebuiltEvent(e) ==
  [e EXCEPT !.event_type = First(@, e.type), !.type = 0,
            !.timestamp = First(e.occurred_at, First(@, e.created_at)), !.occurred_at = 0]

MigrateLegacyEvents ==
  /\ phase = "events"
  /\ ~EventsFail(work)
  /\ work' = IF ~LegacyEvents(work) THEN work ELSE
       [work EXCEPT
         !.eventColumns = BaseSchema.events,
         !.events = [e \in DOMAIN work.events |-> RebuiltEvent(work.events[e])],
         !.references = TRUE]
  /\ phase' = "dedupe"
  /\ UNCHANGED <<db, added, failures>>

(* Mutant of Newer: the id does not decide between two of one time. *)
NewerUntied(rows, a, b) == rows[a].created_at > rows[b].created_at

Newer(rows, a, b) ==
  \/ rows[a].created_at > rows[b].created_at
  \/ rows[a].created_at = rows[b].created_at /\ a > b

Canonical(rows, c) ==
  \A a \in DOMAIN rows : rows[a].path = rows[c].path /\ a # c => ~Newer(rows, a, c)

Repointed(events, a, c) ==
  [e \in DOMAIN events |-> IF events[e].asset_id = a THEN [events[e] EXCEPT !.asset_id = c] ELSE events[e]]

Without(rows, a) == [x \in DOMAIN rows \ {a} |-> rows[x]]

(* One duplicate of the loop, which takes them in the order of their paths. *)
RepointAndDelete(a, c) ==
  /\ phase = "dedupe"
  /\ a # c /\ work.assets[a].path = work.assets[c].path
  /\ Canonical(work.assets, c) /\ ~Canonical(work.assets, a)
  /\ work' = [work EXCEPT !.events = Repointed(@, a, c), !.assets = Without(@, a)]
  /\ UNCHANGED <<phase, db, added, failures>>

Deduplicated == \A a \in DOMAIN work.assets : Canonical(work.assets, a)

UniquePaths(d) == \A a, b \in DOMAIN d.assets : d.assets[a].path = d.assets[b].path => a = b

UniquePorts(d) == \A i, j \in DOMAIN d.deployments : d.deployments[i] = d.deployments[j] => i = j

(* The indexes, of which those of assets.path and deployments.port are      *)
(* unique, and COMMIT.                                                     *)
IndexAndCommit ==
  /\ phase = "dedupe" /\ Deduplicated
  /\ UniquePaths(work) /\ UniquePorts(work)
  /\ db' = work
  /\ phase' = "serving"
  /\ UNCHANGED <<work, added, failures>>

(* A constraint ends the transaction, on this start and on every other. *)
Violation ==
  \/ phase = "assets" /\ AssetsFail(work)
  \/ phase = "events" /\ EventsFail(work)
  \/ phase = "dedupe" /\ Deduplicated /\ ~(UniquePaths(work) /\ UniquePorts(work))

(* Mutant of Rollback: what was done so far stays. *)
RollbackNothing == phase' = "down" /\ UNCHANGED <<db, work, added>>

Rollback == phase' = "down" /\ work' = db /\ UNCHANGED <<db, added>>

ConstraintFails == Violation /\ Rollback /\ UNCHANGED failures

(* A statement fails, or the process dies. *)
Fail ==
  /\ phase # "down"
  /\ failures < MaxFailures
  /\ failures' = failures + 1
  /\ Rollback

-----------------------------------------------------------------------------
(* What the server writes when the migration is done. *)
Write(d) ==
  /\ phase = "serving"
  /\ db' = d /\ work' = d
  /\ UNCHANGED <<phase, added, failures>>

RecordEvent(e, a, time, now) ==
  /\ e \notin DOMAIN db.events /\ a \in {0} \cup DOMAIN db.assets
  /\ Write([db EXCEPT !.events = [x \in DOMAIN @ \cup {e} |-> IF x # e THEN @[x] ELSE
       [asset_id |-> a, event_type |-> 1, type |-> 0,
        timestamp |-> time, occurred_at |-> 0, created_at |-> now]]])

CreateAsset(a, p, j, w, now) ==
  /\ a \notin DOMAIN db.assets /\ \A x \in DOMAIN db.assets : db.assets[x].path # p
  /\ Write([db EXCEPT !.assets = [x \in DOMAIN @ \cup {a} |-> IF x # a THEN @[x] ELSE
       [path |-> p, created_at |-> now, generation_job_id |-> j, job_id |-> 0,
        world_model_id |-> w, size_bytes |-> 0, byte_size |-> 0]]])

DeleteAsset(a) ==
  /\ a \in DOMAIN db.assets
  /\ Write([db EXCEPT !.assets = Without(@, a), !.events = Repointed(@, a, 0)])

CreateDeployment(i, p) ==
  /\ i \notin DOMAIN db.deployments /\ \A x \in DOMAIN db.deployments : db.deployments[x] # p
  /\ Write([db EXCEPT !.deployments = [x \in DOMAIN @ \cup {i} |-> IF x # i THEN @[x] ELSE p]])

DeleteDeployment(i) ==
  /\ i \in DOMAIN db.deployments
  /\ Write([db EXCEPT !.deployments = Without(@, i)])

(* World models are created, and jobs also deleted unless an asset is of them. *)
ChangeOwners(js, ws) ==
  /\ \A a \in DOMAIN db.assets : db.assets[a].generation_job_id \in db.jobs => db.assets[a].generation_job_id \in js
  /\ db.worlds \subseteq ws
  /\ Write([db EXCEPT !.jobs = js, !.worlds = ws])

Migrate ==
  \/ Upgrade \/ Backfill \/ MigrateLegacyAssets \/ MigrateLegacyEvents
  \/ \E a, c \in DOMAIN work.assets : RepointAndDelete(a, c)
  \/ IndexAndCommit \/ ConstraintFails

Serve ==
  \/ \E e \in EventIds, a \in {0} \cup AssetIds, t, now \in Times : RecordEvent(e, a, t, now)
  \/ \E a \in AssetIds, p \in Paths, j \in db.jobs, w \in db.worlds, now \in Times : CreateAsset(a, p, j, w, now)
  \/ \E a \in AssetIds : DeleteAsset(a)
  \/ \E i \in DeploymentIds, p \in Ports : CreateDeployment(i, p)
  \/ \E i \in DeploymentIds : DeleteDeployment(i)
  \/ \E js \in SUBSET JobIds, ws \in SUBSET WorldIds : ChangeOwners(js, ws)

Next == Begin \/ Migrate \/ Fail \/ Serve

Spec == Init /\ [][Next]_vars

-----------------------------------------------------------------------------
(* What a database says, whichever version has written it. *)
TimeOf(e) == First(e.occurred_at, First(e.timestamp, e.created_at))

PathOf(d, a) == IF a \in DOMAIN d.assets THEN d.assets[a].path ELSE 0

Newest(d) ==
  {[id |-> a, path |-> d.assets[a].path,
    job |-> JobOf(d, a), world |-> d.assets[a].world_model_id,
    size |-> First(d.assets[a].size_bytes, d.assets[a].byte_size)] :
     a \in {c \in DOMAIN d.assets : Canonical(d.assets, c)}}

History(d) ==
  [e \in DOMAIN d.events |->
    [type |-> First(d.events[e].event_type, d.events[e].type),
     time |-> TimeOf(d.events[e]),
     path |-> PathOf(d, d.events[e].asset_id)]]

Reading(d) == <<Newest(d), History(d)>>

Current(d) ==
  /\ BaseSchema.assets \subseteq d.assetColumns /\ "job_id" \notin d.assetColumns
  /\ BaseSchema.events \subseteq d.eventColumns /\ "job_id" \notin d.eventColumns
  /\ UniquePaths(d) /\ UniquePorts(d)
  /\ \A e \in DOMAIN d.events : d.events[e].timestamp # 0

(* The databases that no start can bring up to date: two deployments on one *)
(* port, legacy assets that the events already reference or that have lost  *)
(* their job or world model, and legacy events of an asset that is gone.    *)
Refused(d) == ~UniquePorts(d) \/ AssetsFail(d) \/ EventsFail(d)

(* No start changes what the database says: the type, the time and the path *)
(* of the asset of every event, and the newest asset of every path with its *)
(* job, world model and size, wherever it fails and however often it is    *)
(* repeated.  One that finds a database that is up to date does not touch  *)
(* it.                                                                     *)
StartKeepsData ==
  [][phase # "serving" => /\ Reading(db') = Reading(db)
                          /\ Current(db) => db' = db]_vars

(* The server never runs on a table of an earlier version, on two assets of *)
(* one path, on two deployments on one port, or on an event without a time, *)
(* which no list could read.                                               *)
ServesCurrent == phase = "serving" => Current(db)

(* Whether a constraint ends the start is decided by what the disk says at  *)
(* its beginning: none of the steps, the rebuilt tables and the removal of  *)
(* duplicates among them, runs into one that Refused does not name, none    *)
(* lets a refused database pass, and nothing that the migration or the      *)
(* server writes is a database that the next start refuses.                *)
StartsUnlessRefused ==
  /\ Violation => Refused(db)
  /\ phase = "dedupe" /\ Deduplicated /\ ~Violation => ~Refused(db)
  /\ phase = "serving" => ~Refused(db)

(* The stages of a migration are one step of DatabaseUpgrade: each start is *)
(* done as a whole or has not happened.                                    *)
Whole == INSTANCE DatabaseUpgrade WITH
  serving <- phase = "serving", database <- db, says <- Reading(db), current <- Current(db)

ImplementsUpgrade == Whole!Spec
=============================================================================
