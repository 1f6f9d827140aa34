-------------------------- MODULE MigrationsProofs --------------------------
(***************************************************************************)
(* The safety theorems of Migrations, for any databases of earlier         *)
(* versions, any number of rows and any number of failures.                *)
(***************************************************************************)
EXTENDS Migrations, FiniteSetTheorems, WellFoundedInduction, TLAPS

Early == {"upgrade", "backfill", "assets", "events"}

(* What the steps so far have made of the columns. *)
ColumnsOK ==
  /\ {"path", "created_at"} \subseteq work.assetColumns
  /\ {"asset_id", "created_at"} \subseteq work.eventColumns
  /\ phase # "upgrade" => /\ BaseSchema.assets \subseteq work.assetColumns
                          /\ BaseSchema.events \subseteq work.eventColumns
  /\ phase \in {"events", "dedupe"} => ~LegacyAssets(work)
  /\ phase = "dedupe" => ~LegacyEvents(work)

(* What a column that is not there, or has been filled, holds. *)
ValuesOK ==
  /\ \A e \in DOMAIN work.events : work.events[e].created_at # 0
  /\ ~LegacyAssets(work) => \A a \in DOMAIN work.assets :
       work.assets[a].job_id = 0 /\ work.assets[a].byte_size = 0
  /\ ~LegacyEvents(work) => \A e \in DOMAIN work.events :
       work.events[e].type = 0 /\ work.events[e].occurred_at = 0
  /\ \/ phase = "upgrade" /\ "timestamp" \in work.eventColumns
     \/ phase = "backfill" /\ ~added
     \/ phase \in {"assets", "events", "dedupe"}
     => \A e \in DOMAIN work.events : work.events[e].timestamp # 0

(* Whether a table can be rebuilt is what it was on disk. *)
RowsOK ==
  /\ work.deployments = db.deployments /\ work.jobs = db.jobs /\ work.worlds = db.worlds
  /\ phase \in {"upgrade", "backfill", "assets"} => (AssetsFail(work) <=> AssetsFail(db))
  /\ phase \in Early => (EventsFail(work) <=> EventsFail(db))
  /\ phase \in {"events", "dedupe"} => ~AssetsFail(db)
  /\ phase = "dedupe" => ~EventsFail(db)

(* The transaction says what the database says, and has nothing to change  *)
(* in one that is up to date.                                              *)
WorkOK ==
  phase \in Steps =>
    /\ ColumnsOK /\ ValuesOK /\ RowsOK
    /\ Reading(work) = Reading(db)
    /\ Current(db) => work = db /\ (phase = "backfill" => ~added)

IInv == TypeOK /\ Earlier(db) /\ WorkOK /\ ServesCurrent

-----------------------------------------------------------------------------
LEMMA SameDatabase ==
  ASSUME NEW d, NEW x, IsDatabase(d), IsDatabase(x), \A f \in Fields : d[f] = x[f]
  PROVE  d = x
  BY DEF IsDatabase

LEMMA Rows ==
  ASSUME NEW d, IsDatabase(d)
  PROVE  /\ \A a \in DOMAIN d.assets : a \in Nat /\ a # 0 /\ a \in AssetIds /\ d.assets[a] \in AssetRow
         /\ \A e \in DOMAIN d.events : e \in EventIds /\ d.events[e] \in EventRow
  BY ConstantsOK DEF IsDatabase

LEMMA FirstFacts ==
  /\ \A v, w \in Nat : First(v, w) \in Nat /\ First(First(v, w), 0) = First(v, w)
                       /\ First(First(v, w), w) = First(v, w) /\ First(0, v) = v
  /\ \A v, w \in Nat : w # 0 => First(v, w) # 0
  BY DEF First

(* Two databases of the same rows say the same if each row does. *)
LEMMA SameReading ==
  ASSUME NEW d, NEW x, IsDatabase(d), IsDatabase(x),
         DOMAIN x.assets = DOMAIN d.assets, DOMAIN x.events = DOMAIN d.events,
         \A a \in DOMAIN d.assets :
           /\ x.assets[a].path = d.assets[a].path /\ x.assets[a].created_at = d.assets[a].created_at
           /\ JobOf(x, a) = JobOf(d, a) /\ x.assets[a].world_model_id = d.assets[a].world_model_id
           /\ First(x.assets[a].size_bytes, x.assets[a].byte_size)
                = First(d.assets[a].size_bytes, d.assets[a].byte_size),
         \A e \in DOMAIN d.events :
           /\ x.events[e].asset_id = d.events[e].asset_id
           /\ First(x.events[e].event_type, x.events[e].type) = First(d.events[e].event_type, d.events[e].type)
           /\ TimeOf(x.events[e]) = TimeOf(d.events[e])
  PROVE  Reading(x) = Reading(d)
<1>1. \A a \in DOMAIN d.assets : Canonical(x.assets, a) <=> Canonical(d.assets, a)
  BY DEF Canonical, Newer
<1>2. Newest(x) = Newest(d)
  BY <1>1 DEF Newest
<1>3. \A a : PathOf(x, a) = PathOf(d, a)
  BY DEF PathOf
<1>4. History(x) = History(d)
  BY <1>3 DEF History
<1>5. QED
  BY <1>2, <1>4 DEF Reading

(* Two databases of the same rows can be rebuilt or not alike. *)
LEMMA SameFailures ==
  ASSUME NEW d, NEW x,
         DOMAIN x.assets = DOMAIN d.assets, DOMAIN x.events = DOMAIN d.events,
         \A a \in DOMAIN d.assets :
           JobOf(x, a) = JobOf(d, a) /\ x.assets[a].world_model_id = d.assets[a].world_model_id,
         \A e \in DOMAIN d.events : x.events[e].asset_id = d.events[e].asset_id,
         x.jobs = d.jobs, x.worlds = d.worlds,
         (x.references <=> d.references) \/ DOMAIN d.events = {},
         LegacyAssets(x) <=> LegacyAssets(d), LegacyEvents(x) <=> LegacyEvents(d)
  PROVE  /\ AssetsFail(x) <=> AssetsFail(d)
         /\ EventsFail(x) <=> EventsFail(d)
<1>1. \A a \in DOMAIN d.assets : Orphan(x, a) <=> Orphan(d, a)
  BY DEF Orphan
<1>2. DropFails(x) <=> DropFails(d)
  BY DEF DropFails
<1>3. Dangling(x) <=> Dangling(d)
  BY DEF Dangling
<1>4. QED
  BY <1>1, <1>2, <1>3 DEF AssetsFail, EventsFail

(* The newest asset of a path is one, and stays it when another one of the *)
(* path is deleted.                                                        *)
LEMMA CanonicalFacts ==
  ASSUME NEW d, IsDatabase(d), NEW c \in DOMAIN d.assets, Canonical(d.assets, c),
         NEW a \in DOMAIN d.assets, a # c, d.assets[a].path = d.assets[c].path
  PROVE  /\ ~Canonical(d.assets, a)
         /\ \A x \in DOMAIN d.assets \ {a} :
              Canonical(Without(d.assets, a), x) <=> Canonical(d.assets, x)
<1>1. \A x, y \in DOMAIN d.assets : x # y => Newer(d.assets, x, y) \/ Newer(d.assets, y, x)
  BY Rows DEF Newer, AssetRow
<1>2. \A x \in DOMAIN d.assets : x # c /\ d.assets[x].path = d.assets[c].path => Newer(d.assets, c, x)
  BY <1>1 DEF Canonical
<1>3. ~Canonical(d.assets, a)
  BY <1>2 DEF Canonical
<1>4. ASSUME NEW x \in DOMAIN d.assets \ {a}
      PROVE  Canonical(Without(d.assets, a), x) <=> Canonical(d.assets, x)
  <2>1. /\ DOMAIN Without(d.assets, a) = DOMAIN d.assets \ {a}
        /\ \A y \in DOMAIN d.assets \ {a} : Without(d.assets, a)[y] = d.assets[y]
    BY DEF Without
  <2>2. Canonical(d.assets, x) => Canonical(Without(d.assets, a), x)
    BY <2>1 DEF Canonical, Newer
  <2>3. ASSUME Canonical(Without(d.assets, a), x) PROVE Canonical(d.assets, x)
    <3>1. CASE d.assets[x].path # d.assets[c].path
      BY <2>1, <2>3, <3>1 DEF Canonical, Newer
    <3>2. CASE x = c
      BY <3>2
    <3>3. CASE d.assets[x].path = d.assets[c].path /\ x # c
      BY <1>2, <2>1, <2>3, <3>3 DEF Canonical, Newer
    <3>4. QED
      BY <3>1, <3>2, <3>3
  <2>4. QED
    BY <2>2, <2>3
<1>5. QED
  BY <1>3, <1>4

(* Once every asset is the newest of its path, no two have one path. *)
LEMMA OneOfAPath ==
  ASSUME IsDatabase(work), Deduplicated PROVE UniquePaths(work)
  BY CanonicalFacts DEF Deduplicated, UniquePaths

LEMMA Initially == Init => IInv
<1> SUFFICES ASSUME Init PROVE IInv
  OBVIOUS
<1>1. IsDatabase(db) /\ Earlier(db)
  BY ConstantsOK DEF Init
<1>2. TypeOK
  <2>1. work = db /\ IsDatabase(work) /\ phase = "down" /\ added = FALSE /\ failures = 0
    BY <1>1 DEF Init
  <2>2. failures \in 0..MaxFailures
    BY <2>1, ConstantsOK
  <2>3. phase \in Steps \cup {"down", "serving"}
    BY <2>1
  <2>4. QED
    BY <1>1, <2>1, <2>2, <2>3 DEF TypeOK
<1>3. QED
  BY <1>1, <1>2 DEF Init, IInv, WorkOK, ServesCurrent, Steps

-----------------------------------------------------------------------------
LEMMA BeginKeeps ==
  ASSUME IInv, Begin PROVE IInv'
<1> USE DEF IInv
<1>1. IsDatabase(db) /\ Earlier(db) /\ db' = db /\ phase' = "upgrade" /\ failures' = failures /\ added' = FALSE
  BY DEF TypeOK, Begin
<1>2. /\ work'.assets = db.assets /\ work'.events = db.events
      /\ work'.assetColumns = IF db.assetColumns = {} THEN BaseSchema.assets ELSE db.assetColumns
      /\ work'.eventColumns = IF db.eventColumns = {} THEN BaseSchema.events ELSE db.eventColumns
      /\ work'.references = (db.references \/ db.eventColumns = {})
      /\ work'.deployments = db.deployments /\ work'.jobs = db.jobs /\ work'.worlds = db.worlds
      /\ work' = [f \in Fields |-> work'[f]]
  BY <1>1 DEF IsDatabase, Fields, Begin
<1>3. /\ {"path", "created_at"} \subseteq BaseSchema.assets /\ BaseSchema.assets \subseteq Columns
      /\ {"asset_id", "created_at"} \subseteq BaseSchema.events /\ BaseSchema.events \subseteq Columns
      /\ "job_id" \notin BaseSchema.assets /\ "job_id" \notin BaseSchema.events
  BY DEF BaseSchema, Columns
<1>4. IsDatabase(work')
  <2>1. work'.assetColumns \subseteq Columns /\ work'.eventColumns \subseteq Columns
    BY <1>1, <1>2, <1>3 DEF IsDatabase
  <2>2. work'.references \in BOOLEAN
    BY <1>2
  <2>3. QED
    BY <1>1, <1>2, <2>1, <2>2 DEF IsDatabase
<1>5. TypeOK'
  BY <1>1, <1>4 DEF TypeOK, Steps
<1>6. ColumnsOK'
  <2>1. {"path", "created_at"} \subseteq work'.assetColumns /\ {"asset_id", "created_at"} \subseteq work'.eventColumns
    BY <1>1, <1>2, <1>3 DEF Earlier
  <2>2. QED
    BY <1>1, <2>1 DEF ColumnsOK
<1>7. ValuesOK'
  <2>1. "job_id" \notin work'.assetColumns => "job_id" \notin db.assetColumns
    BY <1>2
  <2>2. "job_id" \notin work'.eventColumns => "job_id" \notin db.eventColumns
    BY <1>2
  <2>3. "timestamp" \in work'.eventColumns => "timestamp" \in db.eventColumns \/ DOMAIN db.events = {}
    BY <1>1, <1>2 DEF Earlier
  <2>4. QED
    BY <1>1, <1>2, <2>1, <2>2, <2>3 DEF ValuesOK, Earlier, LegacyAssets, LegacyEvents
<1>8. RowsOK'
  <2>1. (LegacyAssets(work') <=> LegacyAssets(db)) /\ (LegacyEvents(work') <=> LegacyEvents(db))
    BY <1>2, <1>3 DEF LegacyAssets, LegacyEvents
  <2>2. (work'.references <=> db.references) \/ DOMAIN db.events = {}
    BY <1>1, <1>2 DEF Earlier
  <2>3. \A a \in DOMAIN db.assets : JobOf(work', a) = JobOf(db, a)
    BY <1>2 DEF JobOf
  <2>4. (AssetsFail(work') <=> AssetsFail(db)) /\ (EventsFail(work') <=> EventsFail(db))
    BY <1>2, <2>1, <2>2, <2>3, SameFailures
  <2>5. QED
    BY <1>1, <1>2, <2>4 DEF RowsOK
<1>9. Reading(work') = Reading(db)
  <2>1. \A a : JobOf(work', a) = JobOf(db, a)
    BY <1>2 DEF JobOf
  <2>2. QED
    BY <1>1, <1>2, <1>4, <2>1, SameReading
<1>10. ASSUME Current(db) PROVE work' = db
  <2>1. db.assetColumns # {} /\ db.eventColumns # {}
    BY <1>3, <1>10 DEF Current
  <2>2. work'.references = db.references
    BY <1>1, <1>2, <2>1 DEF IsDatabase
  <2>3. \A f \in Fields : work'[f] = db[f]
    BY <1>2, <2>1, <2>2 DEF Fields
  <2>4. QED
    BY <1>1, <1>4, <2>3, SameDatabase
<1>11. WorkOK' /\ ServesCurrent'
  BY <1>1, <1>6, <1>7, <1>8, <1>9, <1>10 DEF WorkOK, ServesCurrent
<1>12. QED
  BY <1>1, <1>5, <1>11

LEMMA UpgradeKeeps ==
  ASSUME IInv, Upgrade PROVE IInv'
<1> USE DEF IInv
<1>1. /\ IsDatabase(db) /\ IsDatabase(work) /\ Earlier(db)
      /\ phase = "upgrade" /\ phase' = "backfill" /\ db' = db /\ failures' = failures
      /\ added' = ("timestamp" \notin work.eventColumns)
  BY DEF TypeOK, Upgrade
<1>2. /\ ColumnsOK /\ ValuesOK /\ RowsOK /\ Reading(work) = Reading(db)
      /\ Current(db) => work = db
  BY <1>1 DEF WorkOK, Steps
<1>3. /\ work'.assets = work.assets /\ work'.events = work.events /\ work'.references = work.references
      /\ work'.deployments = work.deployments /\ work'.jobs = work.jobs /\ work'.worlds = work.worlds
      /\ work'.assetColumns = work.assetColumns \cup SchemaUpgrades.assets
      /\ work'.eventColumns = work.eventColumns \cup SchemaUpgrades.events
      /\ work' = [f \in Fields |-> work'[f]]
  BY <1>1 DEF IsDatabase, Fields, Upgrade, Upgraded
<1>4. /\ SchemaUpgrades.assets \subseteq BaseSchema.assets /\ BaseSchema.assets \subseteq Columns
      /\ SchemaUpgrades.events \subseteq BaseSchema.events /\ BaseSchema.events \subseteq Columns
      /\ BaseSchema.assets \subseteq {"path", "created_at"} \cup SchemaUpgrades.assets
      /\ BaseSchema.events \subseteq {"asset_id", "created_at"} \cup SchemaUpgrades.events
      /\ "job_id" \notin BaseSchema.assets /\ "job_id" \notin BaseSchema.events
  BY DEF BaseSchema, SchemaUpgrades, Columns
<1>5. IsDatabase(work')
  <2>1. work'.assetColumns \subseteq Columns /\ work'.eventColumns \subseteq Columns
    BY <1>1, <1>3, <1>4 DEF IsDatabase
  <2>2. QED
    BY <1>1, <1>3, <2>1 DEF IsDatabase
<1>6. TypeOK'
  BY <1>1, <1>5 DEF TypeOK, Steps
<1>7. ColumnsOK'
  BY <1>1, <1>2, <1>3, <1>4 DEF ColumnsOK, LegacyAssets
<1>8. ValuesOK'
  <2>1. /\ "job_id" \in work'.assetColumns <=> "job_id" \in work.assetColumns
        /\ "job_id" \in work'.eventColumns <=> "job_id" \in work.eventColumns
    BY <1>3, <1>4
  <2>2. ~added' => "timestamp" \in work.eventColumns
    BY <1>1
  <2>3. ~added' => \A e \in DOMAIN work.events : work.events[e].timestamp # 0
    BY <1>1, <1>2, <2>2 DEF ValuesOK
  <2>4. QED
    BY <1>1, <1>2, <1>3, <2>1, <2>3 DEF ValuesOK, LegacyAssets, LegacyEvents
<1>9. RowsOK'
  <2>1. (LegacyAssets(work') <=> LegacyAssets(work)) /\ (LegacyEvents(work') <=> LegacyEvents(work))
    BY <1>3, <1>4 DEF LegacyAssets, LegacyEvents
  <2>2. \A a \in DOMAIN work.assets : JobOf(work', a) = JobOf(work, a)
    BY <1>3 DEF JobOf
  <2>3. (AssetsFail(work') <=> AssetsFail(work)) /\ (EventsFail(work') <=> EventsFail(work))
    BY <1>3, <2>1, <2>2, SameFailures
  <2>4. QED
    BY <1>1, <1>2, <1>3, <2>3 DEF RowsOK, Early
<1>10. Reading(work') = Reading(db)
  <2>1. \A a \in DOMAIN work.assets : JobOf(work', a) = JobOf(work, a)
    BY <1>3 DEF JobOf
  <2>2. QED
    BY <1>1, <1>2, <1>3, <1>5, <2>1, SameReading
<1>11. ASSUME Current(db) PROVE work' = db /\ ~added'
  <2>1. work = db /\ BaseSchema.assets \subseteq db.assetColumns /\ BaseSchema.events \subseteq db.eventColumns
    BY <1>2, <1>11 DEF Current
  <2>2. work'.assetColumns = db.assetColumns /\ work'.eventColumns = db.eventColumns
    BY <1>3, <1>4, <2>1
  <2>3. \A f \in Fields : work'[f] = db[f]
    BY <1>3, <2>1, <2>2 DEF Fields
  <2>4. ~added'
    BY <1>1, <2>1 DEF BaseSchema
  <2>5. QED
    BY <1>1, <1>5, <2>3, <2>4, SameDatabase
<1>12. WorkOK' /\ ServesCurrent'
  BY <1>1, <1>7, <1>8, <1>9, <1>10, <1>11 DEF WorkOK, ServesCurrent
<1>13. QED
  BY <1>1, <1>6, <1>12

LEMMA BackfillKeeps ==
  ASSUME IInv, Backfill PROVE IInv'
<1> USE DEF IInv
<1>1. /\ IsDatabase(db) /\ IsDatabase(work) /\ Earlier(db)
      /\ phase = "backfill" /\ phase' = "assets" /\ db' = db /\ failures' = failures /\ added' = added
  BY DEF TypeOK, Backfill
<1>2. /\ ColumnsOK /\ ValuesOK /\ RowsOK /\ Reading(work) = Reading(db)
      /\ Current(db) => work = db /\ ~added
  BY <1>1 DEF WorkOK, Steps
<1>3. \A e \in DOMAIN work.events :
        work.events[e] \in EventRow /\ work.events[e].timestamp \in Nat /\ work.events[e].created_at \in Nat
  BY <1>1, Rows DEF EventRow
<1>4. CASE ~added
  <2>1. work' = work
    BY <1>4 DEF Backfill
  <2>2. TypeOK'
    BY <1>1, <2>1 DEF TypeOK, Steps
  <2>3. ColumnsOK' /\ ValuesOK' /\ RowsOK'
    BY <1>1, <1>2, <1>4, <2>1 DEF ColumnsOK, ValuesOK, RowsOK, Early, LegacyAssets, LegacyEvents
  <2>4. QED
    BY <1>1, <1>2, <2>1, <2>2, <2>3 DEF WorkOK, ServesCurrent
<1>5. CASE added
  <2> DEFINE fill == [e \in DOMAIN work.events |-> First(work.events[e].timestamp, work.events[e].created_at)]
  <2>1. work' = [work EXCEPT !.events = Backfilled(@, fill)]
    BY <1>2, <1>5 DEF Backfill, ColumnsOK
  <2>2. /\ work'.assets = work.assets /\ work'.references = work.references
        /\ work'.deployments = work.deployments /\ work'.jobs = work.jobs /\ work'.worlds = work.worlds
        /\ work'.assetColumns = work.assetColumns /\ work'.eventColumns = work.eventColumns
        /\ work'.events = Backfilled(work.events, fill)
        /\ work' = [f \in Fields |-> work'[f]]
    BY <1>1, <2>1 DEF IsDatabase, Fields
  <2>3. /\ DOMAIN work'.events = DOMAIN work.events
        /\ \A e \in DOMAIN work.events : work'.events[e] = [work.events[e] EXCEPT !.timestamp = fill[e]]
    BY <2>2 DEF Backfilled
  <2>4. \A e \in DOMAIN work.events : fill[e] \in Nat /\ fill[e] # 0
                                    /\ fill[e] = First(work.events[e].timestamp, work.events[e].created_at)
    BY <1>2, <1>3, FirstFacts DEF ValuesOK
  <2> HIDE DEF fill
  <2>5. \A e \in DOMAIN work.events :
          /\ work'.events[e] \in EventRow
          /\ work'.events[e].timestamp = fill[e]
          /\ work'.events[e].asset_id = work.events[e].asset_id
          /\ work'.events[e].created_at = work.events[e].created_at
          /\ work'.events[e].event_type = work.events[e].event_type
          /\ work'.events[e].type = work.events[e].type
          /\ work'.events[e].occurred_at = work.events[e].occurred_at
    <3> DEFINE Stamped(row, n) == [row EXCEPT !.timestamp = n]
    <3>1. \A row \in EventRow, n \in Nat :
            /\ Stamped(row, n) \in EventRow /\ Stamped(row, n).timestamp = n
            /\ Stamped(row, n).asset_id = row.asset_id
            /\ Stamped(row, n).created_at = row.created_at
            /\ Stamped(row, n).event_type = row.event_type /\ Stamped(row, n).type = row.type
            /\ Stamped(row, n).occurred_at = row.occurred_at
      BY DEF EventRow
    <3>2. \A e \in DOMAIN work.events : work'.events[e] = Stamped(work.events[e], fill[e])
      BY <2>3
    <3>3. \A e \in DOMAIN work.events : work.events[e] \in EventRow /\ fill[e] \in Nat
      BY <1>3, <2>4
    <3> HIDE DEF Stamped
    <3>4. QED
      BY <3>1, <3>2, <3>3
  <2>6. IsDatabase(work')
    <3>1. work'.events \in [DOMAIN work'.events -> EventRow]
      BY <2>2, <2>3, <2>5 DEF Backfilled
    <3>2. QED
      BY <1>1, <2>2, <2>3, <3>1 DEF IsDatabase
  <2>7. TypeOK'
    BY <1>1, <2>6 DEF TypeOK, Steps
  <2>8. ColumnsOK' /\ RowsOK' /\ \A a \in DOMAIN work.assets : JobOf(work', a) = JobOf(work, a)
    <3>1. (LegacyAssets(work') <=> LegacyAssets(work)) /\ (LegacyEvents(work') <=> LegacyEvents(work))
      BY <2>2 DEF LegacyAssets, LegacyEvents
    <3>2. \A a \in DOMAIN work.assets : JobOf(work', a) = JobOf(work, a)
      BY <2>2 DEF JobOf
    <3>3. (AssetsFail(work') <=> AssetsFail(work)) /\ (EventsFail(work') <=> EventsFail(work))
      BY <2>2, <2>3, <2>5, <3>1, <3>2, SameFailures
    <3>4. QED
      BY <1>1, <1>2, <2>2, <3>2, <3>3 DEF ColumnsOK, RowsOK, Early
  <2>9. ValuesOK'
    BY <1>1, <1>2, <2>2, <2>3, <2>4, <2>5 DEF ValuesOK, LegacyAssets, LegacyEvents
  <2>10. \A e \in DOMAIN work.events : TimeOf(work'.events[e]) = TimeOf(work.events[e])
    BY <1>3, <2>4, <2>5, FirstFacts DEF TimeOf
  <2>11. Reading(work') = Reading(work)
    BY <1>1, <2>2, <2>3, <2>5, <2>6, <2>8, <2>10, SameReading
  <2>12. QED
    BY <1>1, <1>2, <1>5, <2>7, <2>8, <2>9, <2>11 DEF WorkOK, ServesCurrent
<1>6. QED
  BY <1>1, <1>4, <1>5 DEF TypeOK

LEMMA MigrateLegacyAssetsKeeps ==
  ASSUME IInv, MigrateLegacyAssets PROVE IInv'
<1> USE DEF IInv
<1>1. /\ IsDatabase(db) /\ IsDatabase(work) /\ Earlier(db)
      /\ phase = "assets" /\ phase' = "events" /\ db' = db /\ failures' = failures /\ added' = added
  BY DEF TypeOK, MigrateLegacyAssets
<1>2. /\ ColumnsOK /\ ValuesOK /\ RowsOK /\ Reading(work) = Reading(db)
      /\ Current(db) => work = db
  BY <1>1 DEF WorkOK, Steps
<1>3. CASE ~LegacyAssets(work)
  <2>1. work' = work
    BY <1>3 DEF MigrateLegacyAssets
  <2>2. TypeOK'
    BY <1>1, <2>1 DEF TypeOK, Steps
  <2>3. ColumnsOK' /\ ValuesOK' /\ RowsOK'
    <3>1. ~AssetsFail(work)
      BY <1>3 DEF AssetsFail
    <3>2. ColumnsOK' /\ ValuesOK'
      BY <1>1, <1>2, <1>3, <2>1 DEF ColumnsOK, ValuesOK, LegacyAssets, LegacyEvents
    <3>3. RowsOK'
      BY <1>1, <1>2, <2>1, <3>1 DEF RowsOK, Early
    <3>4. QED
      BY <3>2, <3>3
  <2>4. QED
    BY <1>1, <1>2, <2>1, <2>2, <2>3 DEF WorkOK, ServesCurrent
<1>4. CASE LegacyAssets(work)
  <2> DEFINE row(a) == [work.assets[a] EXCEPT
        !.generation_job_id = JobOf(work, a), !.job_id = 0,
        !.size_bytes = First(@, work.assets[a].byte_size), !.byte_size = 0]
  <2>1. /\ work'.events = work.events /\ work'.references = work.references
        /\ work'.eventColumns = work.eventColumns /\ work'.assetColumns = BaseSchema.assets
        /\ work'.deployments = work.deployments /\ work'.jobs = work.jobs /\ work'.worlds = work.worlds
        /\ work'.assets = [a \in DOMAIN work.assets |-> row(a)]
        /\ work' = [f \in Fields |-> work'[f]]
    BY <1>1, <1>4 DEF MigrateLegacyAssets, IsDatabase, Fields
  <2>2. \A a \in DOMAIN work.assets :
          /\ work.assets[a] \in AssetRow
          /\ JobOf(work, a) \in Nat
          /\ First(work.assets[a].size_bytes, work.assets[a].byte_size) \in Nat
    BY <1>1, Rows, FirstFacts DEF AssetRow, JobOf
  <2>3. \A a \in DOMAIN work.assets :
          /\ row(a) \in AssetRow
          /\ row(a).path = work.assets[a].path /\ row(a).created_at = work.assets[a].created_at
          /\ row(a).generation_job_id = JobOf(work, a)
          /\ row(a).world_model_id = work.assets[a].world_model_id
          /\ row(a).size_bytes = First(work.assets[a].size_bytes, work.assets[a].byte_size)
          /\ row(a).job_id = 0 /\ row(a).byte_size = 0
    BY <2>2 DEF AssetRow
  <2> HIDE DEF row
  <2>4. DOMAIN work'.assets = DOMAIN work.assets /\ \A a \in DOMAIN work.assets : work'.assets[a] = row(a)
    BY <2>1
  <2>5. BaseSchema.assets \subseteq Columns /\ "job_id" \notin BaseSchema.assets
        /\ {"path", "created_at"} \subseteq BaseSchema.assets
    BY DEF BaseSchema, Columns
  <2>6. IsDatabase(work')
    <3>1. work'.assets \in [DOMAIN work'.assets -> AssetRow]
      BY <2>1, <2>3, <2>4
    <3>2. QED
      BY <1>1, <2>1, <2>4, <2>5, <3>1 DEF IsDatabase
  <2>7. TypeOK'
    BY <1>1, <2>6 DEF TypeOK, Steps
  <2>8. ColumnsOK' /\ RowsOK'
    <3>1. EventsFail(work') <=> EventsFail(work)
      BY <2>1, <2>4 DEF EventsFail, LegacyEvents, Dangling
    <3>2. ~AssetsFail(work)
      BY DEF MigrateLegacyAssets
    <3>3. QED
      BY <1>1, <1>2, <2>1, <2>5, <3>1, <3>2 DEF ColumnsOK, RowsOK, Early, LegacyAssets
  <2>9. ValuesOK'
    BY <1>1, <1>2, <2>1, <2>3, <2>4 DEF ValuesOK, LegacyAssets, LegacyEvents
  <2>10. \A a \in DOMAIN work.assets :
           /\ JobOf(work', a) = JobOf(work, a)
           /\ First(row(a).size_bytes, row(a).byte_size)
                = First(work.assets[a].size_bytes, work.assets[a].byte_size)
    BY <2>3, <2>4 DEF First, JobOf
  <2>11. Reading(work') = Reading(work)
    BY <1>1, <2>1, <2>3, <2>4, <2>6, <2>10, SameReading
  <2>12. ~Current(db)
    BY <1>2, <1>4 DEF Current, LegacyAssets
  <2>13. QED
    BY <1>1, <1>2, <2>7, <2>8, <2>9, <2>11, <2>12 DEF WorkOK, ServesCurrent
<1>5. QED
  BY <1>3, <1>4

LEMMA MigrateLegacyEventsKeeps ==
  ASSUME IInv, MigrateLegacyEvents PROVE IInv'
<1> USE DEF IInv
<1>1. /\ IsDatabase(db) /\ IsDatabase(work) /\ Earlier(db)
      /\ phase = "events" /\ phase' = "dedupe" /\ db' = db /\ failures' = failures /\ added' = added
  BY DEF TypeOK, MigrateLegacyEvents
<1>2. /\ ColumnsOK /\ ValuesOK /\ RowsOK /\ Reading(work) = Reading(db)
      /\ Current(db) => work = db
  BY <1>1 DEF WorkOK, Steps
<1>3. CASE ~LegacyEvents(work)
  <2>1. work' = work
    BY <1>3 DEF MigrateLegacyEvents
  <2>2. TypeOK'
    BY <1>1, <2>1 DEF TypeOK, Steps
  <2>3. ColumnsOK' /\ ValuesOK' /\ RowsOK'
    <3>1. ~EventsFail(work)
      BY <1>3 DEF EventsFail
    <3>2. ColumnsOK' /\ ValuesOK'
      BY <1>1, <1>2, <1>3, <2>1 DEF ColumnsOK, ValuesOK, LegacyAssets, LegacyEvents
    <3>3. RowsOK'
      BY <1>1, <1>2, <2>1, <3>1 DEF RowsOK, Early
    <3>4. QED
      BY <3>2, <3>3
  <2>4. QED
    BY <1>1, <1>2, <2>1, <2>2, <2>3 DEF WorkOK, ServesCurrent
<1>4. CASE LegacyEvents(work)
  <2> DEFINE row(e) == RebuiltEvent(work.events[e])
  <2>1. /\ work'.assets = work.assets /\ work'.references = TRUE
        /\ work'.deployments = work.deployments /\ work'.jobs = work.jobs /\ work'.worlds = work.worlds
        /\ work'.assetColumns = work.assetColumns /\ work'.eventColumns = BaseSchema.events
        /\ work'.events = [e \in DOMAIN work.events |-> row(e)]
        /\ work' = [f \in Fields |-> work'[f]]
    BY <1>1, <1>4 DEF MigrateLegacyEvents, IsDatabase, Fields
  <2>2. \A e \in DOMAIN work.events :
          /\ work.events[e] \in EventRow
          /\ First(work.events[e].event_type, work.events[e].type) \in Nat
          /\ TimeOf(work.events[e]) \in Nat /\ TimeOf(work.events[e]) # 0
    <3>1. \A e \in DOMAIN work.events : work.events[e] \in EventRow /\ work.events[e].created_at # 0
      BY <1>1, <1>2, Rows DEF ValuesOK
    <3>2. QED
      BY <3>1 DEF EventRow, First, TimeOf
  <2>3. \A e \in DOMAIN work.events :
          /\ row(e) \in EventRow
          /\ row(e).asset_id = work.events[e].asset_id /\ row(e).created_at = work.events[e].created_at
          /\ row(e).event_type = First(work.events[e].event_type, work.events[e].type)
          /\ row(e).timestamp = TimeOf(work.events[e])
          /\ row(e).type = 0 /\ row(e).occurred_at = 0
    BY <2>2 DEF EventRow, RebuiltEvent, TimeOf
  <2> HIDE DEF row
  <2>4. DOMAIN work'.events = DOMAIN work.events /\ \A e \in DOMAIN work.events : work'.events[e] = row(e)
    BY <2>1
  <2>5. BaseSchema.events \subseteq Columns /\ "job_id" \notin BaseSchema.events
        /\ {"asset_id", "created_at"} \subseteq BaseSchema.events
    BY DEF BaseSchema, Columns
  <2>6. IsDatabase(work')
    <3>1. work'.events \in [DOMAIN work'.events -> EventRow]
      BY <2>1, <2>3, <2>4
    <3>2. QED
      BY <1>1, <2>1, <2>4, <2>5, <3>1 DEF IsDatabase
  <2>7. TypeOK'
    BY <1>1, <2>6 DEF TypeOK, Steps
  <2>8. ColumnsOK' /\ RowsOK' /\ \A a \in DOMAIN work.assets : JobOf(work', a) = JobOf(work, a)
    <3>1. ~EventsFail(work)
      BY DEF MigrateLegacyEvents
    <3>2. \A a \in DOMAIN work.assets : JobOf(work', a) = JobOf(work, a)
      BY <2>1 DEF JobOf
    <3>3. QED
      BY <1>1, <1>2, <2>1, <2>5, <3>1, <3>2 DEF ColumnsOK, RowsOK, Early, LegacyAssets, LegacyEvents
  <2>9. ValuesOK'
    BY <1>1, <1>2, <2>1, <2>2, <2>3, <2>4 DEF ValuesOK, LegacyAssets, LegacyEvents
  <2>10. \A e \in DOMAIN work.events :
           /\ First(row(e).event_type, row(e).type) = First(work.events[e].event_type, work.events[e].type)
           /\ TimeOf(row(e)) = TimeOf(work.events[e])
    BY <2>2, <2>3 DEF First, TimeOf
  <2>11. Reading(work') = Reading(work)
    BY <1>1, <2>1, <2>3, <2>4, <2>6, <2>8, <2>10, SameReading
  <2>12. ~Current(db)
    BY <1>2, <1>4 DEF Current, LegacyEvents
  <2>13. QED
    BY <1>1, <1>2, <2>7, <2>8, <2>9, <2>11, <2>12 DEF WorkOK, ServesCurrent
<1>5. QED
  BY <1>3, <1>4

(* Whoever pointed at the duplicate points at the newest asset of its path, *)
(* and the duplicate was not the newest of any.                            *)
LEMMA RepointAndDeleteKeeps ==
  ASSUME IInv, NEW a \in DOMAIN work.assets, NEW c \in DOMAIN work.assets, RepointAndDelete(a, c)
  PROVE  IInv'
<1> USE DEF IInv
<1>1. /\ IsDatabase(db) /\ IsDatabase(work) /\ Earlier(db)
      /\ phase = "dedupe" /\ phase' = phase /\ db' = db /\ failures' = failures /\ added' = added
      /\ a # c /\ work.assets[a].path = work.assets[c].path /\ Canonical(work.assets, c)
  BY DEF TypeOK, RepointAndDelete
<1>2. /\ ColumnsOK /\ ValuesOK /\ RowsOK /\ Reading(work) = Reading(db)
      /\ Current(db) => work = db
  BY <1>1 DEF WorkOK, Steps
<1>3. /\ work'.events = Repointed(work.events, a, c) /\ work'.assets = Without(work.assets, a)
      /\ work'.assetColumns = work.assetColumns /\ work'.eventColumns = work.eventColumns
      /\ work'.references = work.references
      /\ work'.deployments = work.deployments /\ work'.jobs = work.jobs /\ work'.worlds = work.worlds
      /\ work' = [f \in Fields |-> work'[f]]
  BY <1>1 DEF RepointAndDelete, IsDatabase, Fields
<1>4. /\ DOMAIN work'.assets = DOMAIN work.assets \ {a}
      /\ \A x \in DOMAIN work.assets \ {a} : work'.assets[x] = work.assets[x]
  BY <1>3 DEF Without
<1>5. /\ DOMAIN work'.events = DOMAIN work.events
      /\ \A e \in DOMAIN work.events : work'.events[e] =
           IF work.events[e].asset_id = a THEN [work.events[e] EXCEPT !.asset_id = c] ELSE work.events[e]
  BY <1>3 DEF Repointed
<1>6. \A e \in DOMAIN work.events : work.events[e] \in EventRow
  BY <1>1, Rows
<1>7. a \in AssetIds /\ c \in Nat
  BY <1>1, Rows
<1>8. \A e \in DOMAIN work.events :
        /\ work'.events[e] \in EventRow
        /\ work'.events[e].asset_id = IF work.events[e].asset_id = a THEN c ELSE work.events[e].asset_id
        /\ work'.events[e].event_type = work.events[e].event_type
        /\ work'.events[e].type = work.events[e].type
        /\ work'.events[e].timestamp = work.events[e].timestamp
        /\ work'.events[e].occurred_at = work.events[e].occurred_at
        /\ work'.events[e].created_at = work.events[e].created_at
  BY <1>5, <1>6, <1>7 DEF EventRow
<1>9. IsDatabase(work')
  <2>1. work'.events \in [DOMAIN work'.events -> EventRow]
    BY <1>3, <1>5, <1>8 DEF Repointed
  <2>2. work'.assets \in [DOMAIN work'.assets -> AssetRow]
    BY <1>1, <1>3, <1>4 DEF Without, IsDatabase
  <2>3. QED
    BY <1>1, <1>3, <1>4, <1>5, <2>1, <2>2 DEF IsDatabase
<1>10. TypeOK'
  BY <1>1, <1>9 DEF TypeOK, Steps
<1>11. ColumnsOK'
  BY <1>1, <1>2, <1>3 DEF ColumnsOK, LegacyAssets, LegacyEvents
<1>12. ValuesOK'
  BY <1>1, <1>2, <1>3, <1>4, <1>5, <1>8 DEF ValuesOK, LegacyAssets, LegacyEvents
<1>13. RowsOK'
  BY <1>1, <1>2, <1>3 DEF RowsOK, Early
<1>14. Newest(work') = Newest(work)
  <2>1. /\ ~Canonical(work.assets, a)
        /\ \A x \in DOMAIN work.assets \ {a} : Canonical(work'.assets, x) <=> Canonical(work.assets, x)
    BY <1>1, <1>3, CanonicalFacts
  <2>2. {x \in DOMAIN work'.assets : Canonical(work'.assets, x)} = {x \in DOMAIN work.assets : Canonical(work.assets, x)}
    BY <1>4, <2>1
  <2>3. \A x \in {y \in DOMAIN work.assets : Canonical(work.assets, y)} : work'.assets[x] = work.assets[x]
    BY <1>4, <2>1
  <2>4. QED
    BY <2>2, <2>3 DEF Newest, JobOf
<1>15. History(work') = History(work)
  <2>1. ASSUME NEW e \in DOMAIN work.events
        PROVE  PathOf(work', work'.events[e].asset_id) = PathOf(work, work.events[e].asset_id)
    BY <1>1, <1>4, <1>8 DEF PathOf
  <2>2. \A e \in DOMAIN work.events : TimeOf(work'.events[e]) = TimeOf(work.events[e])
    BY <1>8 DEF TimeOf
  <2>3. QED
    BY <1>5, <1>8, <2>1, <2>2 DEF History
<1>16. ~Current(db)
  BY <1>1, <1>2 DEF Current, UniquePaths
<1>17. WorkOK' /\ ServesCurrent'
  BY <1>1, <1>2, <1>11, <1>12, <1>13, <1>14, <1>15, <1>16 DEF WorkOK, ServesCurrent, Reading
<1>18. QED
  BY <1>1, <1>10, <1>17

(* What is committed is a database of today. *)
LEMMA Commits ==
  ASSUME IInv, IndexAndCommit PROVE Current(work) /\ Earlier(work)
<1>1. IsDatabase(work) /\ phase = "dedupe" /\ UniquePaths(work) /\ UniquePorts(work)
  BY DEF IInv, TypeOK, IndexAndCommit
<1>2. ColumnsOK /\ ValuesOK
  BY <1>1 DEF IInv, WorkOK, Steps
<1>3. Current(work)
  BY <1>1, <1>2 DEF Current, ColumnsOK, ValuesOK, LegacyAssets, LegacyEvents
<1>4. Earlier(work)
  BY <1>1, <1>2, <1>3 DEF Earlier, ColumnsOK, ValuesOK, LegacyAssets, LegacyEvents, Current, BaseSchema
<1>5. QED
  BY <1>3, <1>4

LEMMA IndexAndCommitKeeps ==
  ASSUME IInv, IndexAndCommit PROVE IInv'
<1>1. /\ db' = work /\ work' = work /\ phase' = "serving" /\ added' = added /\ failures' = failures
      /\ Current(work) /\ Earlier(work)
  BY Commits DEF IndexAndCommit
<1>2. TypeOK'
  BY <1>1 DEF IInv, TypeOK, Steps
<1>3. QED
  BY <1>1, <1>2 DEF IInv, WorkOK, ServesCurrent, Steps

LEMMA RollbackKeeps ==
  ASSUME IInv, ConstraintFails \/ Fail PROVE IInv'
<1>1. /\ db' = db /\ work' = db /\ phase' = "down" /\ added' = added
      /\ failures' \in 0..MaxFailures
  BY ConstantsOK DEF ConstraintFails, Fail, Rollback, IInv, TypeOK
<1>2. TypeOK'
  BY <1>1 DEF IInv, TypeOK, Steps
<1>3. QED
  BY <1>1, <1>2 DEF IInv, WorkOK, ServesCurrent, Steps

-----------------------------------------------------------------------------
(* The server. *)
LEMMA WriteKeeps ==
  ASSUME IInv, NEW d, IsDatabase(d), Earlier(d), Current(d), Write(d) PROVE IInv'
<1>1. db' = d /\ work' = d /\ phase' = "serving" /\ added' = added /\ failures' = failures
  BY DEF Write, IInv
<1>2. TypeOK'
  BY <1>1 DEF IInv, TypeOK, Steps
<1>3. QED
  BY <1>1, <1>2 DEF IInv, WorkOK, ServesCurrent, Steps

LEMMA RecordEventKeeps ==
  ASSUME IInv, NEW e \in EventIds, NEW a \in {0} \cup AssetIds, NEW t \in Times, NEW now \in Times,
         RecordEvent(e, a, t, now)
  PROVE  IInv'
<1> DEFINE row == [asset_id |-> a, event_type |-> 1, type |-> 0,
                   timestamp |-> t, occurred_at |-> 0, created_at |-> now]
           d == [db EXCEPT !.events = [x \in DOMAIN @ \cup {e} |-> IF x # e THEN @[x] ELSE row]]
<1>1. Write(d) /\ phase = "serving"
  BY DEF RecordEvent, Write
<1>2. IsDatabase(db) /\ Earlier(db) /\ Current(db)
  BY <1>1 DEF IInv, TypeOK, ServesCurrent
<1>3. row \in EventRow /\ row.timestamp # 0 /\ row.created_at # 0 /\ row.type = 0 /\ row.occurred_at = 0
  BY ConstantsOK DEF EventRow
<1> HIDE DEF row
<1>4. /\ d.assets = db.assets /\ d.assetColumns = db.assetColumns
      /\ d.eventColumns = db.eventColumns /\ d.references = db.references
      /\ d.deployments = db.deployments /\ d.jobs = db.jobs /\ d.worlds = db.worlds
      /\ d.events = [x \in DOMAIN db.events \cup {e} |-> IF x # e THEN db.events[x] ELSE row]
      /\ d = [f \in Fields |-> d[f]]
  BY <1>2 DEF IsDatabase, Fields
<1> HIDE DEF d
<1>5. /\ DOMAIN d.events = DOMAIN db.events \cup {e}
      /\ \A x \in DOMAIN d.events : d.events[x] = IF x # e THEN db.events[x] ELSE row
  BY <1>4
<1>6. IsDatabase(d)
  <2>1. d.events \in [DOMAIN d.events -> EventRow]
    BY <1>2, <1>3, <1>4, <1>5, Rows
  <2>2. QED
    BY <1>2, <1>4, <1>5, <2>1 DEF IsDatabase
<1>7. Earlier(d) /\ Current(d)
  <2>1. Current(d)
    BY <1>2, <1>3, <1>4, <1>5 DEF Current, UniquePaths, UniquePorts
  <2>2. Earlier(d)
    BY <1>2, <1>3, <1>4, <1>5, <2>1 DEF Earlier, Current, BaseSchema
  <2>3. QED
    BY <2>1, <2>2
<1>8. QED
  BY <1>1, <1>6, <1>7, WriteKeeps

LEMMA CreateAssetKeeps ==
  ASSUME IInv, NEW a \in AssetIds, NEW p \in Paths, NEW j \in db.jobs, NEW w \in db.worlds, NEW now \in Times,
         CreateAsset(a, p, j, w, now)
  PROVE  IInv'
<1> DEFINE row == [path |-> p, created_at |-> now, generation_job_id |-> j, job_id |-> 0,
                   world_model_id |-> w, size_bytes |-> 0, byte_size |-> 0]
           d == [db EXCEPT !.assets = [x \in DOMAIN @ \cup {a} |-> IF x # a THEN @[x] ELSE row]]
<1>1. Write(d) /\ phase = "serving" /\ \A x \in DOMAIN db.assets : db.assets[x].path # p
  BY DEF CreateAsset, Write
<1>2. IsDatabase(db) /\ Earlier(db) /\ Current(db)
  BY <1>1 DEF IInv, TypeOK, ServesCurrent
<1>3. row \in AssetRow /\ row.path = p /\ row.job_id = 0 /\ row.byte_size = 0
  <2>1. j \in Nat /\ w \in Nat /\ now \in Nat
    BY <1>2, ConstantsOK DEF IsDatabase
  <2>2. QED
    BY <2>1 DEF AssetRow
<1> HIDE DEF row
<1>4. /\ d.events = db.events /\ d.assetColumns = db.assetColumns
      /\ d.eventColumns = db.eventColumns /\ d.references = db.references
      /\ d.deployments = db.deployments /\ d.jobs = db.jobs /\ d.worlds = db.worlds
      /\ d.assets = [x \in DOMAIN db.assets \cup {a} |-> IF x # a THEN db.assets[x] ELSE row]
      /\ d = [f \in Fields |-> d[f]]
  BY <1>2 DEF IsDatabase, Fields
<1> HIDE DEF d
<1>5. /\ DOMAIN d.assets = DOMAIN db.assets \cup {a}
      /\ \A x \in DOMAIN d.assets : d.assets[x] = IF x # a THEN db.assets[x] ELSE row
  BY <1>4
<1>6. IsDatabase(d)
  <2>1. d.assets \in [DOMAIN d.assets -> AssetRow]
    BY <1>2, <1>3, <1>4, <1>5, Rows
  <2>2. QED
    BY <1>2, <1>4, <1>5, <2>1 DEF IsDatabase
<1>7. Current(d)
  <2>1. UniquePaths(d)
    BY <1>1, <1>2, <1>3, <1>5 DEF Current, UniquePaths
  <2>2. QED
    BY <1>2, <1>4, <2>1 DEF Current, UniquePorts
<1>8. Earlier(d)
  BY <1>2, <1>3, <1>4, <1>5, <1>7 DEF Earlier, Current, BaseSchema
<1>9. QED
  BY <1>1, <1>6, <1>7, <1>8, WriteKeeps

LEMMA DeleteAssetKeeps ==
  ASSUME IInv, NEW a \in AssetIds, DeleteAsset(a) PROVE IInv'
<1> DEFINE d == [db EXCEPT !.assets = Without(@, a), !.events = Repointed(@, a, 0)]
<1>1. Write(d) /\ phase = "serving"
  BY DEF DeleteAsset, Write
<1>2. IsDatabase(db) /\ Earlier(db) /\ Current(db)
  BY <1>1 DEF IInv, TypeOK, ServesCurrent
<1>3. /\ d.assets = Without(db.assets, a) /\ d.events = Repointed(db.events, a, 0)
      /\ d.assetColumns = db.assetColumns /\ d.eventColumns = db.eventColumns
      /\ d.references = db.references
      /\ d.deployments = db.deployments /\ d.jobs = db.jobs /\ d.worlds = db.worlds
      /\ d = [f \in Fields |-> d[f]]
  BY <1>2 DEF IsDatabase, Fields
<1> HIDE DEF d
<1>4. /\ DOMAIN d.assets = DOMAIN db.assets \ {a}
      /\ \A x \in DOMAIN d.assets : d.assets[x] = db.assets[x]
  BY <1>3 DEF Without
<1>5. /\ DOMAIN d.events = DOMAIN db.events
      /\ \A e \in DOMAIN db.events : d.events[e] =
           IF db.events[e].asset_id = a THEN [db.events[e] EXCEPT !.asset_id = 0] ELSE db.events[e]
  BY <1>3 DEF Repointed
<1>6. \A e \in DOMAIN db.events :
        /\ d.events[e] \in EventRow
        /\ d.events[e].type = db.events[e].type /\ d.events[e].occurred_at = db.events[e].occurred_at
        /\ d.events[e].timestamp = db.events[e].timestamp /\ d.events[e].created_at = db.events[e].created_at
  <2>1. SUFFICES ASSUME NEW e \in DOMAIN db.events
                 PROVE  /\ d.events[e] \in EventRow
                        /\ d.events[e].type = db.events[e].type
                        /\ d.events[e].occurred_at = db.events[e].occurred_at
                        /\ d.events[e].timestamp = db.events[e].timestamp
                        /\ d.events[e].created_at = db.events[e].created_at
    OBVIOUS
  <2>2. db.events[e] \in EventRow
    BY <1>2, Rows
  <2>3. d.events[e] = db.events[e] \/ d.events[e] = [db.events[e] EXCEPT !.asset_id = 0]
    BY <1>5
  <2>4. QED
    BY <2>2, <2>3 DEF EventRow
<1>7. IsDatabase(d)
  <2>1. d.events \in [DOMAIN d.events -> EventRow]
    BY <1>3, <1>5, <1>6 DEF Repointed
  <2>2. d.assets \in [DOMAIN d.assets -> AssetRow]
    BY <1>2, <1>3, <1>4, Rows DEF Without
  <2>3. QED
    BY <1>2, <1>3, <1>4, <1>5, <2>1, <2>2 DEF IsDatabase
<1>8. Current(d)
  BY <1>2, <1>3, <1>4, <1>5, <1>6 DEF Current, UniquePaths, UniquePorts
<1>9. Earlier(d)
  BY <1>2, <1>3, <1>4, <1>5, <1>6, <1>8 DEF Earlier, Current, BaseSchema
<1>10. QED
  BY <1>1, <1>7, <1>8, <1>9, WriteKeeps

(* The server changes one of the tables that are not migrated. *)
LEMMA OtherWriteKeeps ==
  ASSUME IInv, phase = "serving", NEW d, IsDatabase(d), UniquePorts(d), Write(d),
         \A f \in {"assetColumns", "assets", "eventColumns", "events", "references"} : d[f] = db[f]
  PROVE  IInv'
<1>1. IsDatabase(db) /\ Earlier(db) /\ Current(db)
  BY DEF IInv, TypeOK, ServesCurrent
<1>2. /\ d.assets = db.assets /\ d.events = db.events /\ d.assetColumns = db.assetColumns
      /\ d.eventColumns = db.eventColumns
  OBVIOUS
<1>3. Earlier(d) /\ Current(d)
  BY <1>1, <1>2 DEF Earlier, Current, UniquePaths
<1>4. QED
  BY <1>3, WriteKeeps

LEMMA CreateDeploymentKeeps ==
  ASSUME IInv, NEW i \in DeploymentIds, NEW p \in Ports, CreateDeployment(i, p) PROVE IInv'
<1> DEFINE d == [db EXCEPT !.deployments = [x \in DOMAIN @ \cup {i} |-> IF x # i THEN @[x] ELSE p]]
<1>1. Write(d) /\ phase = "serving" /\ \A x \in DOMAIN db.deployments : db.deployments[x] # p
  BY DEF CreateDeployment, Write
<1>2. IsDatabase(db) /\ Current(db)
  BY <1>1 DEF IInv, TypeOK, ServesCurrent
<1>3. /\ \A f \in Fields \ {"deployments"} : d[f] = db[f]
      /\ d.deployments = [x \in DOMAIN db.deployments \cup {i} |-> IF x # i THEN db.deployments[x] ELSE p]
      /\ d = [f \in Fields |-> d[f]]
  BY <1>2 DEF IsDatabase, Fields
<1> HIDE DEF d
<1>4. IsDatabase(d)
  BY <1>2, <1>3 DEF IsDatabase, Fields
<1>5. UniquePorts(d)
  BY <1>1, <1>2, <1>3 DEF Current, UniquePorts
<1>6. QED
  BY <1>1, <1>3, <1>4, <1>5, OtherWriteKeeps DEF Fields

LEMMA DeleteDeploymentKeeps ==
  ASSUME IInv, NEW i \in DeploymentIds, DeleteDeployment(i) PROVE IInv'
<1> DEFINE d == [db EXCEPT !.deployments = Without(@, i)]
<1>1. Write(d) /\ phase = "serving"
  BY DEF DeleteDeployment, Write
<1>2. IsDatabase(db) /\ Current(db)
  BY <1>1 DEF IInv, TypeOK, ServesCurrent
<1>3. /\ \A f \in Fields \ {"deployments"} : d[f] = db[f]
      /\ d.deployments = [x \in DOMAIN db.deployments \ {i} |-> db.deployments[x]]
      /\ d = [f \in Fields |-> d[f]]
  BY <1>2 DEF IsDatabase, Fields, Without
<1> HIDE DEF d
<1>4. IsDatabase(d)
  BY <1>2, <1>3 DEF IsDatabase, Fields
<1>5. UniquePorts(d)
  BY <1>2, <1>3 DEF Current, UniquePorts
<1>6. QED
  BY <1>1, <1>3, <1>4, <1>5, OtherWriteKeeps DEF Fields

LEMMA ChangeOwnersKeeps ==
  ASSUME IInv, NEW js \in SUBSET JobIds, NEW ws \in SUBSET WorldIds, ChangeOwners(js, ws) PROVE IInv'
<1> DEFINE d == [db EXCEPT !.jobs = js, !.worlds = ws]
<1>1. Write(d) /\ phase = "serving"
  BY DEF ChangeOwners, Write
<1>2. IsDatabase(db) /\ Current(db)
  BY <1>1 DEF IInv, TypeOK, ServesCurrent
<1>3. /\ \A f \in Fields \ {"jobs", "worlds"} : d[f] = db[f]
      /\ d.jobs = js /\ d.worlds = ws
      /\ d = [f \in Fields |-> d[f]]
  BY <1>2 DEF IsDatabase, Fields
<1> HIDE DEF d
<1>4. IsDatabase(d)
  BY <1>2, <1>3 DEF IsDatabase, Fields
<1>5. UniquePorts(d)
  BY <1>2, <1>3 DEF Current, UniquePorts, Fields
<1>6. QED
  BY <1>1, <1>3, <1>4, <1>5, OtherWriteKeeps DEF Fields

-----------------------------------------------------------------------------
LEMMA Stutter == ASSUME IInv, UNCHANGED vars PROVE IInv'
  BY DEF vars, IInv, TypeOK, WorkOK, ServesCurrent, ColumnsOK, ValuesOK, RowsOK, LegacyAssets, LegacyEvents

LEMMA Consecution == IInv /\ [Next]_vars => IInv'
<1> SUFFICES ASSUME IInv, [Next]_vars PROVE IInv'
  OBVIOUS
<1>1. ASSUME Migrate PROVE IInv'
  BY <1>1, UpgradeKeeps, BackfillKeeps, MigrateLegacyAssetsKeeps, MigrateLegacyEventsKeeps,
     RepointAndDeleteKeeps, IndexAndCommitKeeps, RollbackKeeps DEF Migrate
<1>2. ASSUME Serve PROVE IInv'
  BY <1>2, RecordEventKeeps, CreateAssetKeeps, DeleteAssetKeeps,
     CreateDeploymentKeeps, DeleteDeploymentKeeps, ChangeOwnersKeeps DEF Serve
<1>3. QED
  BY <1>1, <1>2, BeginKeeps, RollbackKeeps, Stutter DEF Next

LEMMA Invariance == Spec => []IInv
  BY Initially, Consecution, PTL DEF Spec

(* What is on disk and what the transaction sees are databases, and the    *)
(* two are the same outside of a migration.                                *)
THEOREM TypeCorrect == Spec => []TypeOK
  BY Invariance, PTL DEF IInv

(* The server runs on a database of today: no legacy table, no two assets  *)
(* of one path or deployments on one port, no event without a time.        *)
THEOREM OnlyCurrentServed == Spec => []ServesCurrent
  BY Invariance, PTL DEF IInv

(* A constraint ends a start if and only if the database it finds has two   *)
(* deployments on one port, legacy assets that events reference or whose    *)
(* job or world model is gone, or legacy events of an asset that is gone;   *)
(* neither a migration nor the server leaves such a database.              *)
THEOREM FailsIfRefused == Spec => []StartsUnlessRefused
<1>1. ASSUME IInv, phase \in {"assets", "events", "dedupe"}
      PROVE  /\ phase = "assets" /\ AssetsFail(work) => AssetsFail(db)
             /\ phase = "events" /\ EventsFail(work) => EventsFail(db)
             /\ phase = "dedupe" => ~AssetsFail(db) /\ ~EventsFail(db)
             /\ UniquePorts(work) <=> UniquePorts(db)
  <2>1. RowsOK
    BY <1>1 DEF IInv, WorkOK, Steps
  <2>2. QED
    BY <1>1, <2>1 DEF RowsOK, Early, UniquePorts
<1>2. ASSUME IInv, Deduplicated PROVE UniquePaths(work)
  BY <1>2, OneOfAPath DEF IInv, TypeOK
<1>3. ASSUME IInv, phase = "serving" PROVE ~Refused(db)
  BY <1>3 DEF IInv, ServesCurrent, Current, Refused, AssetsFail, EventsFail, LegacyAssets, LegacyEvents
<1>4. ASSUME IInv, Violation PROVE Refused(db)
  BY <1>1, <1>2, <1>4 DEF Violation, Refused
<1>5. ASSUME IInv, phase = "dedupe", Deduplicated, ~Violation PROVE ~Refused(db)
  BY <1>1, <1>2, <1>5 DEF Violation, Refused
<1>6. IInv => StartsUnlessRefused
  BY <1>3, <1>4, <1>5 DEF StartsUnlessRefused
<1>7. QED
  BY <1>6, Invariance, PTL

(* No start of the process changes what the database says, and none        *)
(* touches one that is up to date.                                         *)
THEOREM DataKept == Spec => StartKeepsData
<1>1. ASSUME IInv, Next, phase # "serving"
      PROVE  Reading(db') = Reading(db) /\ (Current(db) => db' = db)
  <2>1. CASE IndexAndCommit
    <3>1. phase \in Steps /\ db' = work
      BY <2>1 DEF IndexAndCommit, Steps
    <3>2. QED
      BY <1>1, <3>1 DEF IInv, WorkOK
  <2>2. CASE ~IndexAndCommit
    <3>1. ~Serve
      BY <1>1 DEF Serve, RecordEvent, CreateAsset, DeleteAsset, CreateDeployment,
         DeleteDeployment, ChangeOwners, Write
    <3>2. db' = db
      BY <1>1, <2>2, <3>1 DEF Next, Migrate, Begin, Upgrade, Backfill, MigrateLegacyAssets,
         MigrateLegacyEvents, RepointAndDelete, ConstraintFails, Fail, Rollback
    <3>3. QED
      BY <3>2
  <2>3. QED
    BY <2>1, <2>2
<1>2. ASSUME IInv, [Next]_vars
      PROVE  [phase # "serving" => /\ Reading(db') = Reading(db)
                                   /\ Current(db) => db' = db]_vars
  BY <1>1, <1>2
<1>3. QED
  BY <1>2, Invariance, PTL DEF Spec, StartKeepsData

(* The stages of a migration are one step to whoever looks at the disk:    *)
(* Migrations implements DatabaseUpgrade.                                  *)
THEOREM UpgradeImplemented == Spec => ImplementsUpgrade
<1>1. Init => Whole!Init
  BY DEF Init, Whole!Init
<1>2. ASSUME IInv, IInv', IndexAndCommit PROVE Whole!Start
  <2>1. phase = "dedupe" /\ phase' = "serving" /\ db' = work
    BY <1>2 DEF IndexAndCommit
  <2>2. Reading(work) = Reading(db) /\ (Current(db) => work = db)
    BY <1>2, <2>1 DEF IInv, WorkOK, Steps
  <2>3. Current(db')
    BY <1>2, <2>1 DEF IInv, ServesCurrent
  <2>4. Reading(db)' = Reading(db)
    BY <2>1, <2>2
  <2>5. Current(db)' = TRUE
    BY <2>3 DEF Current
  <2>6. QED
    BY <2>1, <2>2, <2>4, <2>5 DEF Whole!Start
<1>3. ASSUME Begin \/ Fail \/ (Migrate /\ ~IndexAndCommit) PROVE Whole!Stop
  <2>1. phase' # "serving" /\ db' = db
    BY <1>3 DEF Begin, Fail, Migrate, Upgrade, Backfill, MigrateLegacyAssets, MigrateLegacyEvents,
       RepointAndDelete, ConstraintFails, Rollback
  <2>2. Reading(db)' = Reading(db) /\ Current(db)' = Current(db)
    BY <2>1
  <2>3. QED
    BY <2>1, <2>2 DEF Whole!Stop
<1>4. ASSUME IInv', Serve PROVE Whole!Write
  <2>1. phase = "serving" /\ phase' = "serving"
    BY <1>4 DEF Serve, RecordEvent, CreateAsset, DeleteAsset, CreateDeployment,
         DeleteDeployment, ChangeOwners, Write
  <2>2. Current(db)' = TRUE
    BY <1>4, <2>1 DEF IInv, ServesCurrent, Current
  <2>3. QED
    BY <2>1, <2>2 DEF Whole!Write
<1>5. ASSUME IInv, IInv', [Next]_vars PROVE [Whole!Next]_(Whole!vars)
  <2>1. CASE UNCHANGED vars
    <3>1. phase' = phase /\ db' = db
      BY <2>1 DEF vars
    <3>2. Reading(db)' = Reading(db) /\ Current(db)' = Current(db)
      BY <3>1
    <3>3. QED
      BY <3>1, <3>2 DEF Whole!vars
  <2>2. CASE Next
    BY <1>2, <1>3, <1>4, <1>5, <2>2 DEF Next, Migrate, Whole!Next
  <2>3. QED
    BY <1>5, <2>1, <2>2
<1>6. QED
  BY <1>1, <1>5, Invariance, PTL DEF Spec, ImplementsUpgrade, Whole!Spec

-----------------------------------------------------------------------------
(***************************************************************************)
(* A migration ends.  The measure is the stages and the rows that are      *)
(* left: each step lowers it, and each duplicate has the newest asset of   *)
(* its path to give its events to.                                         *)
(***************************************************************************)
StagesLeft ==
  CASE phase = "upgrade" -> 4
    [] phase = "backfill" -> 3
    [] phase = "assets" -> 2
    [] phase = "events" -> 1
    [] OTHER -> 0

StepsLeft == StagesLeft + Cardinality(DOMAIN work.assets)

(* The newest asset of a path is found by going from each asset to a newer *)
(* one, as long as there is one.                                           *)
LEMMA NewestExists ==
  ASSUME IsFiniteSet(AssetIds), NEW d, IsDatabase(d), NEW a \in DOMAIN d.assets
  PROVE  \E c \in DOMAIN d.assets : d.assets[c].path = d.assets[a].path /\ Canonical(d.assets, c)
<1> DEFINE S == {x \in DOMAIN d.assets : d.assets[x].path = d.assets[a].path}
           Above(x) == {y \in S : Newer(d.assets, y, x)}
           T == {Above(x) : x \in S}
<1>1. \A x \in S : /\ x \in Nat /\ d.assets[x].created_at \in Nat
                   /\ x \in AssetIds /\ d.assets[x].path = d.assets[a].path
  BY Rows DEF AssetRow
<1>2. T \subseteq FiniteSubsetsOf(S) /\ T # {}
  <2>1. \A U \in SUBSET S : IsFiniteSet(U)
    <3>1. \A U \in SUBSET S : U \in SUBSET AssetIds
      BY <1>1
    <3>2. QED
      BY <3>1, FS_Subset
  <2>2. a \in S
    OBVIOUS
  <2>3. QED
    BY <2>1, <2>2 DEF FiniteSubsetsOf
<1>3. PICK U \in T : \A V \in T : ~(<<V, U>> \in StrictSubsetOrdering(S))
  BY <1>2, FS_StrictSubsetOrderingWellFounded, WFMin
<1>4. PICK c \in S : U = Above(c)
  BY <1>3
<1>5. ASSUME NEW y \in Above(c) PROVE FALSE
  <2>1. y \in S /\ Newer(d.assets, y, c)
    BY <1>5
  <2>2. Above(y) \in T /\ Above(y) \subseteq S /\ U \subseteq S
    BY <1>4, <2>1
  <2>3. Above(y) \subseteq U
    <3>1. ASSUME NEW z \in S, Newer(d.assets, z, y) PROVE Newer(d.assets, z, c)
      BY <1>1, <2>1, <3>1 DEF Newer
    <3>2. QED
      BY <1>4, <3>1
  <2>4. y \notin Above(y)
    BY <1>1, <2>1 DEF Newer
  <2>5. QED
    BY <1>3, <1>4, <1>5, <2>2, <2>3, <2>4 DEF StrictSubsetOrdering
<1>6. Canonical(d.assets, c)
  BY <1>4, <1>5 DEF Canonical
<1>7. QED
  BY <1>4, <1>6

(* While there are duplicates the loop finds one to delete, and when there *)
(* is none the unique index of the paths can be made: deduplication is     *)
(* never stuck.                                                            *)
NeverStuck ==
  phase = "dedupe" =>
    \/ Deduplicated /\ UniquePaths(work)
    \/ \E a, c \in DOMAIN work.assets :
         /\ a # c /\ work.assets[a].path = work.assets[c].path
         /\ Canonical(work.assets, c) /\ ~Canonical(work.assets, a)

THEOREM DeduplicationGoesOn ==
  ASSUME IsFiniteSet(AssetIds) PROVE Spec => []NeverStuck
<1>1. ASSUME IInv PROVE NeverStuck
  <2>1. IsDatabase(work)
    BY <1>1 DEF IInv, TypeOK
  <2>2. CASE Deduplicated
    BY <2>1, <2>2, OneOfAPath DEF NeverStuck
  <2>3. CASE ~Deduplicated
    <3>1. PICK a \in DOMAIN work.assets : ~Canonical(work.assets, a)
      BY <2>3 DEF Deduplicated
    <3>2. PICK c \in DOMAIN work.assets :
            work.assets[c].path = work.assets[a].path /\ Canonical(work.assets, c)
      BY <2>1, NewestExists
    <3>3. QED
      BY <3>1, <3>2 DEF NeverStuck
  <2>4. QED
    BY <2>2, <2>3
<1>2. QED
  BY <1>1, Invariance, PTL

(* Each step of a migration ends it or lowers what is left of it.          *)
MigrationAdvances ==
  [][Migrate => phase' \notin Steps \/ (StepsLeft' \in Nat /\ StepsLeft' < StepsLeft)]_vars

THEOREM MigrationEnds ==
  ASSUME IsFiniteSet(AssetIds) PROVE Spec => MigrationAdvances
<1>1. ASSUME IInv, Migrate, phase' \in Steps
      PROVE  StepsLeft' \in Nat /\ StepsLeft' < StepsLeft
  <2>1. IsDatabase(work) /\ work = [f \in Fields |-> work[f]]
    BY <1>1 DEF IInv, TypeOK, IsDatabase
  <2>2. IsFiniteSet(DOMAIN work.assets) /\ Cardinality(DOMAIN work.assets) \in Nat
    <3>1. DOMAIN work.assets \in SUBSET AssetIds
      BY <2>1 DEF IsDatabase
    <3>2. QED
      BY <3>1, FS_Subset, FS_CardinalityType
  <2>3. CASE Upgrade \/ Backfill \/ MigrateLegacyAssets \/ MigrateLegacyEvents
    <3>1. DOMAIN work'.assets = DOMAIN work.assets
      <4>1. CASE Upgrade
        BY <2>1, <4>1 DEF Upgrade, Upgraded, Fields
      <4>2. CASE Backfill
        BY <2>1, <4>2 DEF Backfill, Fields
      <4>3. CASE MigrateLegacyAssets
        BY <2>1, <4>3 DEF MigrateLegacyAssets, Fields
      <4>4. CASE MigrateLegacyEvents
        BY <2>1, <4>4 DEF MigrateLegacyEvents, Fields
      <4>5. QED
        BY <2>3, <4>1, <4>2, <4>3, <4>4
    <3>2. StagesLeft' = StagesLeft - 1 /\ StagesLeft \in 1..4
      BY <2>3 DEF StagesLeft, Upgrade, Backfill, MigrateLegacyAssets, MigrateLegacyEvents
    <3>3. QED
      BY <2>2, <3>1, <3>2 DEF StepsLeft
  <2>4. CASE \E a, c \in DOMAIN work.assets : RepointAndDelete(a, c)
    <3>1. PICK a \in DOMAIN work.assets, c \in DOMAIN work.assets : RepointAndDelete(a, c)
      BY <2>4
    <3>2. DOMAIN work'.assets = DOMAIN work.assets \ {a}
      BY <2>1, <3>1 DEF RepointAndDelete, Fields, Without
    <3>3. Cardinality(DOMAIN work'.assets) = Cardinality(DOMAIN work.assets) - 1
          /\ Cardinality(DOMAIN work'.assets) \in Nat
      BY <2>2, <3>2, FS_RemoveElement, FS_CardinalityType
    <3>4. StagesLeft' = 0 /\ StagesLeft = 0
      BY <3>1 DEF StagesLeft, RepointAndDelete
    <3>5. QED
      BY <2>2, <3>3, <3>4 DEF StepsLeft
  <2>5. ~IndexAndCommit /\ ~ConstraintFails
    BY <1>1 DEF IndexAndCommit, ConstraintFails, Rollback, Steps
  <2>6. QED
    BY <1>1, <2>3, <2>4, <2>5 DEF Migrate
<1>2. ASSUME IInv, [Next]_vars
      PROVE  [Migrate => phase' \notin Steps \/ (StepsLeft' \in Nat /\ StepsLeft' < StepsLeft)]_vars
  BY <1>1, <1>2
<1>3. QED
  BY <1>2, Invariance, PTL DEF Spec, MigrationAdvances
=============================================================================
