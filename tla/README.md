# Honeygen in TLA+

Honeygen generates the files of an invented company with a language model, serves
them as decoys over HTTP, FTP, NFS and SMB, and records who reads them. This
directory models the parts of its Go backend (`src/backend`) whose correctness
depends on the order in which concurrent requests, worker goroutines, faults and
shutdowns take their steps.

## The system

| Part | State it keeps | Operations | Why it is hard |
| --- | --- | --- | --- |
| Generation service (`generation/service.go`, `jobs.go`) | rows of `generation_jobs`; `jobCancels`, a map of cancel functions; one worker goroutine per job; files under `generated/<world>/<job>/` | Run, Cancel, Delete, DeleteAsset, Close, the worker | a worker writes rows and files in many steps while handlers cancel and delete the same job; statuses are read, then written |
| Asset store (`assets/repository.go`, `storage/filesystem.go`, `api/assets.go`) | rows of `assets`, files, staged deletions | Create, Delete, DeleteByJobID, upload, DeleteAsset | database and filesystem are changed in turn and rolled back by hand |
| Deployments (`deployments/`, `api/deployments.go`) | rows of `deployments`, the manager's map of listeners, open sockets | create, start, stop, delete, StopAll, RestoreRunning | map, socket and row are three copies of one fact; the mutex covers some of the steps |
| Event ingestion (`events/`, `deployments/telemetry.go`, `decoy/logging.go`) | rows of `events`, goroutines with a deadline | Record, Ingest | best effort; the asset an event refers to may be deleted meanwhile |
| IP intelligence (`ipintel/`) | `ip_intel_cache`, GeoIP reader | Enrich, EnsureFresh | failures are cached like answers |
| Provider settings (`api/settings.go`, `app/`) | a row of `settings`, the provider in memory | GET, PUT, load at startup | a PUT reads the copy in memory, saves the row and replaces the copy in three steps; what is shown of the key is compared with the key in use later |
| Admin sessions (`app/admin_sessions.go`) | a set of tokens in memory | login, logout, check | a request is checked once, when it begins |
| World models (`worldmodels/`) | rows of `world_models` | CRUD, seed | validation, normalisation and decoding each look at other parts of a payload; the seed runs on every start |
| Schema (`db/migrations.go`) | tables, indexes | Migrate | tables of four ages are upgraded, rebuilt and deduplicated on every start, which may fail at any statement |
| Asset listing (`assets/repository.go`) | none of its own | list, tree | the tree is read in pages while rows come and go |
| Planner (`generation/planner.go`) | none | Plan | distinct inputs may give the same path |
| Rendering (`rendering/`) | none | Render | none: pure conversion |
| Decoy web (`decoy/`) | the cached landing page | serve, forward events | visitors walk the directories at once, the first page with a link is kept |
| API process (`cmd/api`, `app/api_app.go`) | lifecycle context, HTTP server | start, signal, shutdown, close | shutdown races handlers and workers |
| Admin web (`src/frontend`) | React state | polls the API | a client; its requests are what the modules quantify over |

The handlers of the API call the services directly. The services share one SQLite
database (one connection, foreign keys on) and one directory of files; a signal
cancels the lifecycle context from which the workers' contexts derive, closes the
HTTP server (five seconds for the handlers), then runs `APIApp.Close`: stop the
deployments, cancel the jobs, wait for the workers, close the database.

## How the code becomes a model

* **Atomic steps.** The pool has one connection (`db/sqlite.go`,
  `SetMaxOpenConns(1)`), so each SQL statement or transaction is one step. A call on
  the filesystem is one step. Everything between two such calls is local to its
  goroutine and is merged with the next call. A handler is a program counter and
  the values it keeps across steps; any other actor may run between two of them.
* **Contexts** are checked when a call starts. `CtxDone(j)` says that the context of
  job `j` is cancelled: through `jobCancels`, or because the process was signaled.
* **Faults** are a constant set. `"database"` lets a statement fail, `"storage"` a
  file operation, `"provider"` Generate or Render, `"listen"` a server that does not
  come up, `"dies"` one that ends by itself, `"request"` lets a client go away or a
  handler's deadline pass, `"drain"` lets handlers outlive `server.Shutdown`,
  `"deployed"` lets a deployment keep a job from being deleted, `"crash"` ends the
  process at any step. Without a fault in the set it does not occur. `EventLog` has
  kinds of its own: `"lookup"`, RDAP answers with an error; `"slow"`, it answers too
  late; `"refused"`, a report is not accepted; `"stop"`, the API process ends. So has
  `AdminConsole`: `"load"`, the saved provider cannot be read at the start; `"rekey"`,
  the process is started again with another encryption key. `Migrations` has a number
  of failures instead, of statements and of the process, at any step.
* **History.** Some variables only record what has happened: `marks` for a job
  (`settled`, some terminal status was written; `purged`, a delete touched its files;
  `faulted`, a failed call may have left file and row apart; `dropped`, Run or the
  worker ended without a terminal status after a failed call or the signal;
  `interrupted`, the process ended while its worker ran), `adrift` and `raced` for a deployment, `done`,
  `tangled` and `faulted` for assets, `erred`, `present`, `restored` and `negative` for
  events, `alone`, `clean`, `intended` and `tainted` for the settings, `stayed`,
  `deleted`, `failed` and `answers` for the tree and the landing page. No guard reads them, and
  no other variable takes its value from them; properties use them to say when they
  apply.
* **Data.** A file is its path, an asset row is its path, a summary is its
  `asset_count`; log lines, messages, times, tags and the content of files are left
  out. Ids are used once, as random ids are.

## Modules

| Module | What it is |
| --- | --- |
| `GenerationJobs` | the generation service with its job store: Run, worker, Cancel, Delete, Close, crash, restart; its properties |
| `JobLifecycle` | what the service promises about one job row; implemented by `GenerationJobs` |
| `Deployments` | the deployment manager with the rows, the requests, the restore at startup and StopAll at shutdown |
| `DeploymentLifecycle` | what the manager promises about the deployments; implemented by `Deployments` |
| `AssetStore` | uploads, deletes and the job's delete over rows and files, with every rollback |
| `AssetLifecycle` | what the two stores promise about the assets of a job; implemented by `AssetStore` |
| `EventLog` | from an access to a decoy to its row: the sender, the handler, the enrichment and its cache, against deletes of assets and restarts |
| `EventLedger` | what the event log promises about one report; implemented by `EventLog` |
| `AdminConsole` | sessions, the provider in use and the saved one, the world models, the start that loads and seeds them |
| `WorldModelPayload` | the shapes of a world model's JSON: what is validated, normalised and decoded; used by `AdminConsole` |
| `Migrations` | the migration of every start over databases of earlier versions, and the server's writes between two starts |
| `DatabaseUpgrade` | what a start promises about the database; implemented by `Migrations` |
| `AssetTree` | the request for the tree of assets, page by page, against inserts and deletes |
| `LandingPage` | the decoy's landing page, its walk over the files and its cache |
| `MCGenerationJobs`, `MCDeployments`, `MCAssetStore`, `MCEventLog`, `MCAdminConsole`, `MCMigrations`, `MCAssetTree`, `MCLandingPage` | manifests, ports, paths, addresses, payloads, databases and symmetry for TLC |
| `GenerationJobsProofs` | the inductive invariant of `GenerationJobs`, the safety theorems, and the proof that it implements `JobLifecycle` |
| `DeploymentsProofs`, `AssetStoreProofs`, `EventLogProofs`, `MigrationsProofs` | the same for these modules, with `DeploymentLifecycle`, `AssetLifecycle`, `EventLedger` and `DatabaseUpgrade` |
| `AdminConsoleProofs`, `AssetTreeProofs`, `LandingPageProofs` | the inductive invariants of these modules and their safety theorems |

### `GenerationJobs`

`status` and `count` are the columns of a job row, `assets` its asset rows, `files`
its directory, `deployed` the jobs that a deployment references (only the foreign
key matters here). `pc`, `idx`, `made`, `seen`, `verdict` are the worker's place in
`runJob` and its locals; `tracked` is `jobCancels`, `canceled` the contexts
cancelled through it; `launch` is the handler inside `Service.Run`; `opPc`, `opJob`,
`opCount` are the cancel and delete requests, and the cancels `Close` makes. `phase`
is the process.

The worker's steps follow `runJob` line by line: check the context, UpdateSummary
(read, write, read back), Generate, Render, Write, `assets.Create` (insert, read
back), UpdateSummary again with a background context, next entry; on an error the
stored file is cleaned up and the terminal status is `canceled` when the context is
done and `failed` otherwise. A failed UpdateSummary returns without a terminal
status. UpdateSummary writes back the status it read: this is what makes the life
cycle interesting, and it is why `JobLifecycle` has an action `Reopen`.

Each job has a manifest of its own, a sequence of paths that may repeat: `Plan` makes a
path from the names in the world model, and two names may give one path. The second
entry of a path writes its file over the first one's, its row fails on the unique index,
and the cleanup removes the file that the first row names (`Repeated`).

What the model leaves out of these files: `Service.DeleteAsset` (see `AssetStore`);
the end of the process when `server.Serve` fails by itself; the start
of a `Run` after `Close` has stopped waiting (the process is gone by then).

### `Deployments`

Three copies of one fact: `row` is the status column (or that there is no row yet or
any more), `listeners` the manager's map, with whether the server behind an entry is
still alive, and `sock` a server that a Stop has taken out of the map and not yet
closed. `mu` is the holder of `Manager.mu`. An actor (a request, or the main
goroutine in RestoreRunning and StopAll) has `pc`, the deployment `dep` it works on
and the `goal` that tells a stop from the stop inside a delete. `phase`, `signaled`
and `todo` are the main goroutine.

Start is four steps under the mutex: lock and look at the map, read the row, look up
the directory and open the server and enter it in the map, write `running`. The third
merges an `os.Stat`, a listen and a map insert: all of them happen under the mutex and
nobody else can see a difference, except for the socket, which no step of the others
reads without the mutex. Stop is three steps: take the entry under the mutex, close
the server, write `stopped`, the last two without the mutex. Delete looks at the map
under the mutex, runs Stop when there is an entry, then deletes the row without the
mutex. A request's arrival is merged with its first acquisition of the mutex; a later
acquisition (`StopTake` after `IsRunning`) is a step of its own that waits. A create
that fails on a foreign key is a failed statement. The four protocols differ in how a
server comes up and goes down and not in these steps.

`adrift` holds the deployments whose last status write was lost, `raced` those whose
server was opened while a stop or a delete that had passed the map was still to write
the row. Left out: the process ending because the API's own port is taken.

### `AssetStore`

`rows` are the asset rows of one completed job (the worker writes no more then),
`file` says whose content lies at a path, `staged` whose content lies in `.deletions`
under an id, `job` whether the job's row is there. `pc` and `arg` are the requests.
`Filesystem.Move` of a missing source is not an error and replaces its target; a
failed write may leave a file of its own (`Torn`). Each step of `DeleteAsset` and of
its two rollbacks is an action, and so is each of the upload's. Calls with the
request's context fail with `CallFails`, those with a context of their own with
`FinalizerFails`.

`tangled` holds the paths on which two requests worked on one asset at the same time,
or a request met the delete of the job; `faulted` those where a failure was not
undone by the code: the read back of a created row failed, a write stopped half way,
the rollback itself failed, or the process died.

### `EventLog`

A report `e` is one access to a decoy. `sender` is the goroutine of
`LoggingMiddleware`, or the protocol server in `emitProtocolEvent`, with its two
seconds (`GiveUp`). `pc`, `found` and `answer` are the handler of
`POST /internal/events` and its locals; `ended` says that its context is over, because
the sender left or the five seconds passed. `log` is the row of each report, by the
asset it refers to; `fresh` and `cache` are the rows of `ip_intel_cache` that are not
older than `cacheTTL` and their answers, with or without RDAP's part. `rows`, `used` and
the five actions on them are the asset store as the events see it: the references to
an asset are cleared in the transaction that deletes it, or the events deleted in a
database whose `asset_id` is still `NOT NULL` (`notNull`).

`Handle` follows `Ingest`: search the asset, look into the cache, ask RDAP, write the
cache, insert, read back. Errors of the cache and of RDAP are dropped, all others are
answered. A statement whose context is over fails; a statement that was cut off
after it took effect looks, from outside, like one that succeeded and whose read back
failed, which is a behaviour of the model.

Left out: a recorder without a base URL, which sends nothing and reports success; the
GeoIP part of an answer, which is read from a local file; what protocol logs are
parsed into; the events' own fields. During a shutdown the server refuses new
reports while old handlers finish; in the model they are either cut off or finish
before `Stop`.

### `AdminConsole` and `WorldModelPayload`

`active` is `Config.Provider` with the `Provider` built from it, which
`UpdateProvider` replaces together under a lock; `saved` is the row `"provider"` of
`settings` with the `seal` its key was encrypted under (`"plain"` for a row of an
earlier version); `sessions` the clients whose cookie is known. The three steps of a
PUT are `PutRead` (admission, the comparison of the key that was sent with the mask
of the key in use), `PutSave` and `PutApply`. `shown` is the key behind the mask that
a page shows: what the page can send is a new key, nothing, or that mask. URL and
model are one value; endpoints and keys are model values and `MaskOf` is a constant.

A start is `EnsureSeedData` (the look-up and the insert of one goroutine that nobody
races, hence one step) and `LoadSavedProvider`, which lays the fields of the row that are not empty
over those of the environment. A failed start changes nothing and is left out; a
crash may come between the two. Some consequences of the code that the properties
have to allow: a PUT that keeps the key saves the environment's key in the row; a
field that is saved empty is the environment's again after a restart (`Agrees`); the
mask of a page that was loaded before the key was changed is saved as a key.

`WorldModelPayload` gives each section of a payload one of five shapes. Validation
goes by a map of raw sections, normalisation gives the branding a list of colors,
and the list decodes into a Go struct, for which keys differ only by more than their
case. A payload whose `generation_settings` or whose respelled section has the wrong
type passes validation and makes `GET /api/world-models` fail for all models:
`ListedButForIgnored` says that nothing else does.

### `Migrations`

`db` is the database on disk, `work` the transaction's view of it and `added` the
local `eventTimestampAdded`. A database is the columns and the rows of `assets` and
`events`, of their columns one of each kind: those that every version has, those that
an ALTER TABLE adds, those that the legacy tables have instead, and the times among
which the code chooses; the port of each deployment; and the jobs and world models that
there are, which assets may have lost (`Orphan`). `Earlier` says what such a database may
look like: legacy assets may stand beside any events table. Each stage of `Migrate` is an
action, each duplicate of `deduplicateAssetPaths` too. `Violation` is a constraint that
ends the transaction, `Fail` any other failure and a crash. `Violation` has the foreign
keys of the two rebuilt tables, checked with each row that is copied, the reference that
forbids `DROP TABLE assets`, and the unique indexes on `assets.path` and
`deployments.port`, of which only the first is preceded by a deduplication. Between two
starts the server writes assets, events, deployments, jobs and world models, as far as
the migration could care.

`Reading` is what a database of any version says: for every event its type, time and
the path of its asset, for every path the newest asset with its job, world model and
size. That is what a migration must keep.

The other columns of the other tables, which are only added, and those columns of assets
and events that are copied as they are, are left out; so are the indexes that are not
unique.

### `AssetTree`

`rows` are the asset rows, numbered in the order of the list. A request (`pc`,
`filter`) reads pages (`ListPage`; `items`, `offset`) and builds the tree (`Build`), a
function from paths of names to nodes. `DisplayPath` strips the directory that the
filter names. An insert anywhere in the order and a delete, of one asset or of those of
a job, may come between two pages. Left out: the order of siblings and the sums of
sizes.

### `LandingPage`

`page` is the page that is kept, `files` the files on disk, `at`, `listed` and `links` the
walk of a visitor. The walk reads a directory as a whole when it comes to it (`ReadDir`),
before the directories below it, and takes the entries in their order: a file that comes
after a subdirectory is taken later, from the list that was read earlier (`Before`). A read
may fail: the callback drops the error, what was read of the directory counts and the
walk goes on (`Reads`, `failed`). `Keep` is the double check under the write lock,
`Request` the look at the page under the read lock. Directories and files are numbered
in the order of the walk; directories stay. That the page goes on linking files that were deleted since is what the code
does; serving a file is the standard library's.

## What the runs check

| Run | Instance | What it shows |
| --- | --- | --- |
| `jobs_safety` | two jobs of which one is run, one with two files and one with a path twice, one cancel and one delete request at a time, a deployment of the second, all faults, one restart, fairness | the safety properties, that the service implements `JobLifecycle`, and that a signal ends the process |
| `cancel_undone` | one job of one file, one cancel at a time, a signal, no faults, fairness | a finding, below |
| `deployments_safety` | three deployments of which two ask for one port, two requests at a time, all faults, a signal, one restart | rows, map and sockets agree, `Deployments` implements `DeploymentLifecycle` |
| `deployments_liveness` | two deployments, two requests, a signal, fairness | requests are answered, a signal ends the process |
| `deleted_served` | one deployment, two requests, no faults | a finding, below |
| `assets_safety` | one generated asset, two uploads to its path, three requests at a time, all faults, crashes | rows and files agree, acknowledged deletes last, `AssetStore` implements `AssetLifecycle` |
| `events_safety` | two reports of one path from one address, an asset and its replacement, all faults, restarts | losses have a cause, events keep their asset, cached failures are real, `EventLog` implements `EventLedger` |
| `admin_safety` | two administrators, an old key and a new one, two world models, failed statements, a crash with another encryption key | the saved provider is in use, keys are not lost, world models survive the start and can be listed |
| `migrations` | two assets and an event in every earlier version, no deployment, one, or two on one port, with and without the job and the world model, two failures, one asset and one event more | starts keep the data, what a constraint stops is known from the disk, `Migrations` implements `DatabaseUpgrade` |
| `asset_tree` | one request over four assets in pages of two, three filters, four changes | what stayed is shown |
| `landing_page` | two visitors, three files in two directories, pages of two links, reads that fail, one restart | one page is kept, "no files" is true of what could be read |
| `enrichment_blocks` | one report, one asset, no fault but a slow lookup | a finding, below |

Safety properties of `jobs_safety`:

* `CompletedIsWhole`: a completed job has every planned file, row and the right
  count. Cancels, shutdowns and faults end the worker in many places.
* `FilesBackedByRows`, `RowsBackedByFiles`: files and rows correspond, apart from the
  entry the worker is on; the second one even across a crash. With a repeated path the
  second one allows a single row to lose its file: the one of the path that the last
  entry repeats, when the worker has cleaned up and gives the job up.
* `CountIsBacked`: `asset_count` never runs ahead of the rows although cancelJob
  writes back an old summary.
* `NoStrayRows`: no asset or deployment without its job, although Delete works in
  three steps and a worker may still be inserting.
* `ImplementsLifecycle`: refinement of `JobLifecycle` with `stage` computed from
  `launch` and `pc`, `settled` from `marks`. `CompletedAndFailedAreFinal`, that such a
  row is only ever deleted, is a consequence of it and has a theorem of its own.
* `OpenIsAttended`: a pending or running job is being launched or worked on; else a cancel
  was undone, a failed call or the signal made Run or the worker leave, or the process
  ended. Nothing looks for such rows later, so these are the ways to strand one.
* `ShutdownCompletes`: a signal ends the process, although Close waits for every worker,
  and handlers that outlive the drain may still launch one.

Safety properties of `deployments_safety`:

* `RunningIsServed`: a row that says running has an entry in the map, unless a stop is
  about to write it, the write was lost, or it is being restored. No interleaving
  of start, stop and delete breaks it, and no crash: the restore either starts the
  server or writes stopped.
* `ServedIsRunning`: an entry belongs to a row that says running, unless Start is
  about to write it, the write was lost, or the start overlapped a stop or delete.
* `ImplementsDeploymentLifecycle`: refinement of `DeploymentLifecycle`, without the mutex
  and the steps of the requests, in which a port has one row and one server, a row is
  written running only while the deployment is in the map, and stopped or deleted only
  after somebody took the entry out or saw none, but for a failed restore. That no two
  rows have one port, although the handler looks before it inserts, is a consequence
  (`PortsDiffer`) and has a theorem of its own.

Safety properties of `assets_safety`:

* `RowHasItsFile`: a row that nobody is at work on has its own content at its path. A
  step that fails is undone, whatever an upload to the same path does meanwhile.
* `FileHasItsRow`: no content lies at a path without its row. A delete of the whole
  job is no exception: rows go after files.
* `DeleteLasts`: what was deleted with success does not come back.
* `ImplementsAssetLifecycle`: refinement of `AssetLifecycle`, in which an asset is on its
  way in, stored, taken out or deleted; what a request holds is in `pc` and `arg`. It is
  about the single steps: a row comes only to a free path while the job is there, and a
  delete is acknowledged only with the row out.

Safety properties of `events_safety`:

* `LossExplained`: an accepted report is lost only when its context ended, one of its
  own statements failed, or the asset it had found was deleted before the insert.
  Nothing that the cache or RDAP answers costs an event.
* `AttributionKept`: an event refers to the asset that was at its path when the report
  arrived, as long as that asset stays. Only an asset that was put back by the
  rollback of its delete is exempt: its events have lost the reference.
* `CachedFailureIsReal`: an answer without RDAP's part is kept for seven days only if
  RDAP has answered so. A lookup cut off by its context is not cached, since the
  write has the same context.
* `ImplementsLedger`: refinement of `EventLedger`: at most one row for a report, a
  confirmation only with the row in place, rows changed by deletes alone.

Safety properties of `admin_safety`:

* `SavedIsInUse`: the provider in use is the one that is saved, but for PUTs that
  overlap and a row that could not be loaded, and until the next PUT that meets no
  other.
* `SetKeyStays`: a key that a PUT has set is in use and saved until another one is set,
  whatever masks come back, statements fail and processes die.
* `MaskOnlyFromOldPage`: a mask is taken for a key only if a page was out of date.
* `ListedButForIgnored`: what is stored can be listed, but for what validation ignores.
* `StartKeepsModels`: no start writes over a world model.

Safety properties of `migrations`:

* `StartKeepsData`: a start keeps `Reading`, wherever it fails and however often it is
  repeated, and does not touch a database that is up to date.
* `ImplementsUpgrade`: refinement of `DatabaseUpgrade`: a start makes the database current
  in one step, or leaves it as it was, and the server runs on no other. `ServesCurrent`,
  the tables of today, unique paths and events that have a time, is a consequence of it
  and has a theorem of its own.
* `StartsUnlessRefused`: a constraint stops a start exactly if the disk had, when the start
  began, two deployments on one port, legacy assets that events reference or whose job or
  world model is gone, or legacy events of an asset that is gone (`Refused`). So no stage
  runs into a constraint that an earlier one has broken, the removal of duplicates always
  leaves what the unique index wants, and no database that a migration or the server has
  written is refused by the next start. A refused one is refused for ever: the process does
  not serve until somebody repairs the database.

Safety properties of `asset_tree` and `landing_page`:

* `TreeShowsWhatStayed`: an asset that was there all the time is in the tree as a file
  at its path, unless a row was deleted while the pages were read; inserts hide none.
* `OnePage`: all answers of one process that have links have the same ones.
* `NoFilesIsTrue`: that there are no files is answered only if each file that was there all
  the time lies in a directory that this walk could not read.

The bounds. One run (`MaxRuns`) is enough for safety: jobs share no row and no file, the
only step that concerns two is the drain before `Close`, and the theorems hold for any
number; which of the two jobs is run is a choice, so both manifests are covered. What
two workers at once could do to each other is left to the theorems, and for the end of
`Close` to `WorkersEnd` and `CloseIsShort`. Two files give a first, a middle and a last
entry, hence each place where a loop is left early. One cancel request at a time is
enough to hit every window since the client may send another when it is answered; Close
is a second canceler. One restart shows what the rows look like to a new process.
Deployments are made of the second job alone, to keep the instance small: that job fails,
and its delete takes the same steps as that of a completed one, which `RowsHaveJobs` covers.

Deployments meet each other in the mutex, in the ports and in StopAll's list: two on
one port and a third cover these. Two requests and the main goroutine are three
actors, one more than the longest race needs (a delete, a start, and the restore or
the shutdown). For assets one path is enough since no step reads two; the generated
asset and two uploads give an old asset and a replacement that itself races another,
and with three requests a delete can meet both. Requests may come again when
answered, so sequences are not bounded by the number of requests. The two uploads and
the requests are interchangeable, which the symmetry sets use; no liveness is
checked with symmetry.

Two reports meet only in the cache and in the assets, so two from one address to one
path cover each meeting; a second path or address only separates them. The asset and
its replacement are what an event can be wrongly attributed to. Restarts, expiries and
deletes are not bounded. A private address skips the cache and the lookup; it is not
in the instance, and the theorems cover it.

Two PUTs are what can overlap; a third adds nothing to the order of one save and one
apply, and the theorems cover any number. An old key in the environment, a new one
and the masks of each, and of a mask, give every source of what is sent. The
demo model and one other are all that the start tells apart; the bare rows of an old
database stand for what a start must not write over. Two assets of the same or of different paths and times, in tables of four
ages, give each stage of the migration something to do and nothing to do; a third
asset and a second event are written by the server, so that a later start finds them. One
port and two deployments are what a unique index can refuse, one job and one world model
what an asset can have lost; two failures let a start fail twice and succeed.
Four assets in pages of two give a full page, a short one and an empty one, and each change
before, within and after what was read. Two visitors are the
race of two walks for one page; they are interchangeable, and may come again. A
directory with a file before and one after a subdirectory with a third gives each order of
reading and taking.

`asset_tree` stops when its request is answered and its changes are used up, so a
deadlock is no error there.

### Fairness

Each worker, each handler that was started, and the closing goroutine are weakly
fair: they are goroutines, which the Go scheduler runs as long as they can run, and
none waits on a condition that can turn false again. Clients, signals, crashes and
restarts are not fair. The provider's call is assumed to return: it has a context,
and the HTTP client a deadline.

In `Deployments` each actor's step is weakly fair. `StopTake`, the second acquisition of
the mutex by one request, is strongly fair: other requests may take and release the
mutex for ever, and `sync.Mutex` hands it to a waiter that has waited for a
millisecond. The server's stop function is assumed to return: `server.Shutdown` has
five seconds, closing a socket does not block, and smbd is killed after five seconds.

No liveness is stated for the migration, the settings, the tree or the landing page:
each is a loop over what there is, without waiting, and nothing in the repository
starts a process again that has ended.

### Disagreements with the code's own statements

Three runs expect a violation. For each a theorem says how far it goes: `OpenJobsAttended`,
that a row is left open without a worker only by a cancel that was undone, a call that
failed, or the end of the process; `DeletedServedNeedsTwo`, that it takes requests which
overlap; and `OnlySlowLookupsBlock`, that it takes a call that is slow or a sender that
leaves.

* `cancel_undone`: UpdateSummary reads `running`, a cancel writes `canceled` and is
  answered so, UpdateSummary writes `running` back. The cancel ends the worker's context,
  its next UpdateSummary fails, and it returns without a terminal status: the row says
  `running` for as long as the process lives, and after it. No call has failed. SetRunning,
  which looks at no status, undoes a cancel of the pending row in the same way.
  `TestServiceCancelMarksRunningJobCanceled` waits for the row to be canceled, with a worker
  that is blocked in Generate. `RunSettles` is about a process that is not told to stop; what a
  signal does is listed below.
* `deleted_served`: DELETE looks whether the deployment is running, a start opens the
  listener, DELETE removes the row, and Start's own write finds no row: it answers an
  error and leaves listener and entry in place. `docs/api.md` says that the delete
  stops it first.
* `enrichment_blocks`: the lookup may take ten seconds, the context it shares with the
  insert lasts at most five, and two when the sender leaves. A lookup that is slower
  costs the event, although a comment in `Ingest` says that a failed enrichment must not
  block ingestion and `TestIngest_EnrichmentFailureDoesNotBreakIngest` tests it with a
  stub that returns at once.

Other behaviours of the code that a reader may not expect have no run of their own:
they are what the marks and exemptions of the properties stand for.

* The signal cancels the lifecycle context first. A worker then in UpdateSummary gets a
  context error, returns without a terminal status and leaves `jobCancels`; `Close` does
  not find it and the row stays `running` (`dropped`).
* With a path twice in the manifest the second insert fails on the unique index and the
  cleanup removes the file that the first row names (`Repeated`); the job fails.
* A delete of a completed job that a deployment references removes its files and asset
  rows before the foreign key stops it (`purged`); the job stays completed without them.
* A server that ends by itself keeps its entry in the manager's map, and its row says
  running (`RunningIsServed` speaks of entries, live or dead).
* Two DELETEs of one asset overlap; the second takes the missing row for a failure and
  restores the file that the first has staged, which the first then does not find: it
  answers 204 and the file stays, without a row. With a replacement uploaded in between,
  the same overlap loses the replacement's file (`tangled`).
* Two PUTs of the settings that overlap may leave one provider saved and another in
  use, until the next PUT or start (`clean`); a page loaded before the key was changed
  makes a mask the key (`tainted`).
* A delete while the tree is read makes it skip an asset that stays (`deleted`).

## What is proved

The theorems hold for every value of the constants: any set of jobs, deployments,
assets, reports and requests, every manifest, every set of faults, any number of
restarts. They assume the `ConstantsOK` of their module (request sets are disjoint,
markers are not ids, faults are known) and, for the jobs, `ManifestOK` (the manifest is
a sequence of at least one string for each job, repetitions included). The theorems under
"Exemptions" below assume that some fault or overlap does not occur, to show what it
costs. In each proof
module `Invariance` states that the inductive invariant `IInv` holds, one lemma per
action shows that the action keeps it, and the theorems follow from it.

No property of the list is inductive alone. In `GenerationJobsProofs`, `IInv` adds what
each place of a worker or a handler knows:

* `TypeOK`, and `RequestOK`: which job and which count an active request carries;
* `LoopOK`: the loop index and the worker's count in step, per program counter;
* `StatusOK`: which statuses a row may have at each place of the launch and of the
  worker, and what `seen` and `verdict` may be; a completed verdict is reached
  only past the last entry;
* `ProductOK`, `FilesOK`: the rows and files of the entries passed, and the entry in
  progress at each place;
* `WholeOK`: what a job that completed has;
* `RowOK`: rows only with a job row.

From it follow `TypeCorrect`, `CompletedWhole`, `NoOrphanFiles`, `CountSound`,
`RowsHaveJobs` and `FinalStatuses`; `RowsHaveFiles` needs one more inductive
conjunct, `RowsOK`, and `OpenJobsAttended` one about cancels, `SettledOK`. The second
half of the module shows that each step of `GenerationJobs` is a step of `JobLifecycle`
or a stutter, with one lemma per action, and concludes `LifecycleImplemented`.

In `DeploymentsProofs`, `IInv` says with `LockOK` that the holder of the mutex is the
one actor inside Start (`StartExcludes`); with `KnownOK` that a deployment is worked
on, served and restored only once it has a row, and created by one request; with
`PhaseOK` what runs in which phase of the process; with `StartOK` what Start knows of
the map at each step; and with `RacedOK` that a served deployment whose row may still
be written without a look at the map is marked. From it follow `TypeCorrect`,
`RunningServed`, `ServedRunning` and `PortsUnique`. For `DeploymentLifecycleImplemented`
the lemmas on `Leaving` say how the set of deployments that somebody has found without
an entry changes when one actor moves: two requests may be stopping one deployment, and
it is no longer leaving only when both have ended.

In `AssetStoreProofs` the difficulty is that two rollbacks, two writers and the job's
delete share a path. `PlaceOK` says that a path has one row and content lies only at
its own path; `MeetOK` that requests which meet have tangled the path; `OutOK` that an
asset whose row is out is in the hands of one request; `WorkOK` and `PurgeOK` what a
request at work, or the delete of the job, knows of row, file and staged file at
each place, where nothing is tangled, and how much of it survives a fault;
`FileOK`, `RowOK` and `DoneOK` give the three properties. From it follow `TypeCorrect`,
`RowsHaveTheirFiles`, `FilesHaveTheirRows` and `DeletesLast`. `AssetLifecycleImplemented`
needs of it that an asset whose row is out is held by one request: only then is an asset
that one request puts back or acknowledges taken out in the abstract state too.

In `EventLogProofs`, `PlaceOK` relates a handler's place to the sender and the row,
`PathsDiffer` says that a path has one asset, `FoundOK` that a handler past the search
has found the asset that was there and has stayed, and `AnswerOK` that an answer which
can still be cached is partial by RDAP's word alone. Beside the properties of the run
it gives `LedgerImplemented`: every step is a step of `EventLedger` or a stutter.

In `AdminConsoleProofs`, `AloneOK` says that a PUT which has met no other is the only one
under way, and that there is no other while the two providers agree or the key is
known; `AppliedOK` that what it is about to apply is what it has saved; `KeyOK` that
the key that was set last is saved, and that a PUT which sets none carries it; `MaskOK`
that no request, row or provider has a mask for a key. `KeyFacts` and `PayloadFacts` say
what `KeyToUse` and validation amount to. From it follow `TypeCorrect`, `SavedInUse`,
`KeysStay`, `NoMaskForKey`, `Listed` and `ModelsKept`.

In `MigrationsProofs`, `Earlier` itself is an invariant of the database on disk: what the
server writes and what a migration commits is again a database that a start may find.
`ColumnsOK` and `ValuesOK` say what each stage has made of the columns and of what they
hold, `RowsOK` that ports, jobs and world models stay those on disk and that what would
end a later stage was on disk when the start began, and `WorkOK`
that the transaction says what the disk says. `CanonicalFacts` is the heart of the
deduplication: the newest asset of a path is one, and stays it when another is deleted.
From it follow `TypeCorrect`, `OnlyCurrentServed`, `FailsIfRefused` and `DataKept`,
for any number of rows, and `UpgradeImplemented`: the commit is the step of
`DatabaseUpgrade`, all stages before it are stutters. Two theorems are what can be said
without fairness about its end: `DeduplicationGoesOn`, that a path with two assets always
has one to delete, and, for finitely many assets, `MigrationEnds`: a stage never goes back
and each delete of a duplicate leaves one asset less.

In `AssetTreeProofs` the pages are the matter. `RankInjective`, `FewRanks` and
`RanksHaveNoGaps` say that the ranks of a finite set of assets are the numbers below its
size, which is what `LIMIT` and `OFFSET` count; `ShortPageIsLast` that a page which is not full
ends the list. `ListOK` is the invariant of the loop: while nothing was deleted, what
stayed and is ranked below the offset has been read; an insert only raises ranks, so it
makes a later page repeat rows and skips none. `DisplayedInjective` says that no two
assets of one request are displayed at one path, and the insertion of one changes no other
node that is there: hence `BuildOK`, that the tree has each asset it was built from.
It rests on a job belonging to one world, as in the table `generation_jobs`. From it follow
`TypeCorrect` and `StayedShown`, for any number of rows, pages and requests.

In `LandingPageProofs`, the lemmas on `Lowest` say that the first files of a set are no
more than asked for and none only of the empty set; `IInv` adds that a walk has at most
a page of links, that the files it was to find are still there, and that each of them
in a directory it has come to was listed, unless a read of that directory has failed. From it follow `TypeCorrect`, `PageIsOne` and
`NoFilesTrue`.

### Exemptions

Several properties exempt states by a mark, a history variable or a fault, and the three
disagreements are promises that the code breaks. These theorems say that no more is
given away than the names claim: most assume that a cause does not occur, and show
that the promise then holds without the exemption, for every value of the constants.

* Deployments. `RunningServed` and `ServedRunning` exempt what is in `adrift` and `raced`.
  `LostWritesHaveCause`: without a `"database"` or `"request"` fault (`CallsWork`) a write
  is lost only when the signal ends the restore. `RacesNeedTwo`: with requests one by one
  (`OneByOne`: at most one client, and no drain that ends before its requests) nothing is
  raced. `RowsAndMapAgree`: under both, whenever no request is at work, a row says running
  exactly if the map has an entry, whatever listeners fail, servers end and processes
  crash. `DeletedServedNeedsTwo`: with requests one by one no deleted deployment is
  served, whatever fails.
* Jobs. `OpenJobsAttended` assumes nothing: it is the property `OpenIsAttended`. Providers and
  storage that fail, and deletes, strand no job. `FilesMatchRows`: without storage, database
  and crash faults, for every manifest, no file of a job is without a row, and no row without
  its file but that of a path which the last entry repeats, except between the two writes
  of one entry; a job that was cancelled, failed or shut down leaves nothing else over.
* Assets. `StagedFilesGo`: unless file operations fail, a file in `.deletions` is in the
  hands of a delete or was left by a crash, however many deletes stage the same asset.
  `UndisturbedStoresAgree`: one request at a time and without faults, rows and files agree
  and `.deletions` is empty whenever none is at work.
* Events. `OnlySlowLookupsBlock`: where no call is slow and no sender leaves, the
  enrichment costs no event, whatever else fails.
* Provider settings. `SoleSavedInUse`: with one administrator and a row that can be read,
  the provider in use is the saved one whenever no PUT is about to apply it, through
  crashes, restarts and failed statements. `SoleNoMaskForKey`: with one administrator and
  no crash no mask becomes the key; a crash in the middle of a PUT leaves the
  administrator with a page that is out of date.

### Progress

What liveness rests on is proved in so far as it is safety. For the deployments
`NoDeadlock` says that the holder of the mutex can always go on, that an actor which
cannot waits for such a holder, and that until the process has ended it serves or
something is left that can be done; it needs `RestoreOK`, that the main goroutine never
waits for an entry of the map. `CanStep` and `CanLead` are the guards of `Step` and
`Lifecycle`. `RequestsAreShort` and `MainIsShort` give measures that fall with each own
step and rise with none of the others. For the jobs `WorkersEnd` does so for a worker,
by the entries that are left and the place within one; `CanceledWorkersStop` says that
from a cancel on nine steps are left, whatever the manifest still holds, and that nothing
takes the cancel back, and `WorkersAreTracked` that every worker is in reach of one;
`RequestsAreShort` and `CloseIsShort` are about cancels, deletes and Close. Only the
measures of the two lists, in `MainIsShort` and `CloseIsShort`, assume that there are
finitely many deployments or jobs.

Only model-checked: `RequestsEnd` and `ShutdownCompletes`, since the step from these facts
to liveness under fairness is out of the prover's reach, and the three disagreements, which are counterexamples. Every other property of a run is a theorem.

## Plan

In this order, the behaviour that most depends on interleavings first:

1. `GenerationJobs` with `JobLifecycle`: done, proved.
2. `Deployments` with `DeploymentLifecycle`, `AssetStore` with `AssetLifecycle`: done, proved.
3. `EventLog` with `EventLedger`: done, proved.
4. `AdminConsole` with `WorldModelPayload`, `Migrations`, `LandingPage`: done, proved.
5. `AssetTree`: done, proved.
6. What is left: how the planner computes the paths of a manifest, with lemmas on when
   two entries get one path; the refresh of the GeoIP file; the pages of the admin web,
   whose polls may be answered out of order.

## Not modelled

* Rendering is a pure conversion, for a worker a step that succeeds or fails.
* Configuration and logging are read once at startup; health and status are read-only
  queries.
* The provider's HTTP client and its connection test keep no state; a world model that
  the provider proposes is returned to the client and not stored.
* The GeoIP file is downloaded, if it is old, and opened in the course of the start, before
  anything is served; a failure leaves the process without it. An enrichment reads what is
  there without waiting, and only its fields depend on it.
* The protocol servers, SQLite, the operating system and the provider are used as
  described under faults.
* The web client is the nondeterministic requests.
* The content of generated files is outside the aim of these modules.
