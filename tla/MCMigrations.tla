---------------------------- MODULE MCMigrations ----------------------------
(* Small instances of Migrations for TLC. *)
EXTENDS Migrations, TLC

Asset(p, c, j, l, s, b) ==
  [path |-> p, created_at |-> c, generation_job_id |-> j, job_id |-> l,
   world_model_id |-> 1, size_bytes |-> s, byte_size |-> b]

Event(a, t, l, time, occurred) ==
  [asset_id |-> a, event_type |-> t, type |-> l, timestamp |-> time, occurred_at |-> occurred, created_at |-> 1]

(* Pairs of paths and times of the two assets of the origin. *)
Layouts == [{1, 2} -> Paths \X Times]

AssetTables ==
  {[cols |-> {}, rows |-> <<>>]}
  \cup {[cols |-> BaseSchema.assets, rows |-> [a \in {1, 2} |-> Asset(l[a][1], l[a][2], 1, 0, a, 0)]] : l \in Layouts}
  \cup {[cols |-> {"path", "created_at", "generation_job_id"},
         rows |-> [a \in {1, 2} |-> Asset(l[a][1], l[a][2], 1, 0, 0, 0)]] : l \in Layouts}
  \cup {[cols |-> {"path", "created_at", "job_id", "byte_size"},
         rows |-> [a \in {1, 2} |-> Asset(l[a][1], l[a][2], 0, 1, 0, a)]] : l \in Layouts}

EventTables ==
  {[cols |-> {}, rows |-> <<>>, refs |-> FALSE]}
  \cup {[cols |-> BaseSchema.events, rows |-> 1 :> Event(a, 1, 0, 2, 0), refs |-> r] :
          a \in 0..2, r \in BOOLEAN}
  \cup {[cols |-> {"asset_id", "created_at"}, rows |-> 1 :> Event(a, 0, 0, 0, 0), refs |-> FALSE] : a \in 0..2}
  \cup {[cols |-> BaseSchema.events \cup {"job_id", "type", "occurred_at"},
         rows |-> 1 :> Event(a, t, 1, 2, o), refs |-> FALSE] : a \in 0..2, t \in {0, 2}, o \in {0, 3}}

(* No deployment, one, and two on one port. *)
DeploymentTables == {<<>>, 1 :> 1, <<1, 1>>}

(* The owners of the assets: all of them, no job, or no world model. *)
Owners == {[jobs |-> {1}, worlds |-> {1}], [jobs |-> {}, worlds |-> {1}], [jobs |-> {1}, worlds |-> {}]}

Database2(a, e, i, o) ==
  [assetColumns |-> a.cols, assets |-> a.rows, eventColumns |-> e.cols, events |-> e.rows,
   references |-> e.refs, deployments |-> i, jobs |-> o.jobs, worlds |-> o.worlds]

OriginSet ==
  {d \in {Database2(a, e, i, o) : a \in AssetTables, e \in EventTables, i \in DeploymentTables, o \in Owners} :
     Earlier(d) /\ (d.references => ~Dangling(d))}
=============================================================================
