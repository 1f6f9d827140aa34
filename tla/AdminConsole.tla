---------------------------- MODULE AdminConsole ----------------------------
(***************************************************************************)
(* What the API process keeps for its administrators: their sessions, the  *)
(* provider in use, the row that saves it and the rows of the world        *)
(* models.  The provider in use is a copy in memory: a PUT reads it, saves *)
(* the row and replaces the copy in three steps that no lock covers, and   *)
(* only a start of the process reads the row again.                        *)
(***************************************************************************)
EXTENDS Integers, WorldModelPayload

CONSTANTS
  Clients,     \* admin pages, each with a cookie of its own
  Endpoints,   \* base URL and model, as one value
  Keys,        \* API keys
  Masks,       \* masked keys
  Blank,       \* the empty string
  MaskOf,      \* what is shown of a key
  Env,         \* the provider the environment configures
  Models,      \* ids of world models
  Demo,        \* the one that is seeded
  Seed,        \* its payload
  Submitted,   \* payloads clients send
  NoModel,     \* no row for a world model
  Unsaved,     \* no row for the provider
  Unknown,     \* no key, for history
  Faults,      \* what may go wrong, a subset of FaultKinds
  MaxRestarts  \* bound on crashes

FaultKinds ==
  {"database",  \* a statement fails, or the request ends before it
   "load",      \* the saved provider cannot be read at the start
   "rekey",     \* the process is started again with another encryption key
   "crash"}     \* the process dies

Secrets == Keys \cup Masks \cup {Blank}
Provider == [url : Endpoints \cup {Blank}, key : Secrets]
Row == [url : Endpoints \cup {Blank}, key : Secrets, seal : {"plain", "first", "second"}]

ASSUME ConstantsOK ==
  /\ Keys \cap Masks = {}
  /\ Blank \notin Keys \cup Masks \cup Endpoints
  /\ MaskOf \in [Secrets -> Masks \cup {Blank}]
  /\ \A k \in Secrets : MaskOf[k] = Blank <=> k = Blank
  /\ Env \in [url : Endpoints \cup {Blank}, key : Keys \cup {Blank}]
  /\ Demo \in Models
  /\ ValidatePayload(Seed)
  /\ Seed \in Payload
  /\ Submitted \subseteq Payload
  /\ NoModel \notin Payload
  /\ Unsaved \notin Row
  /\ Unknown \notin Secrets
  /\ Faults \subseteq FaultKinds
  /\ MaxRestarts \in Nat

VARIABLES
  phase,     \* of the process
  cipher,    \* the encryption key it was started with
  sessions,  \* clients whose cookie is valid
  active,    \* Config.Provider and Provider, in memory
  saved,     \* the row "provider" of settings
  rows,      \* the rows of world_models
  pc,        \* control state of each client's request
  req,       \* the provider a PUT is about to save
  shown,     \* the key behind the mask a page shows
  restarts,
  alone,     \* history: PUTs that have met no other
  clean,     \* history: no race and no failed load is unrepaired
  intended,  \* history: the key the last PUT with a key has set
  tainted    \* history: a page that was out of date has been sent

memory == <<phase, cipher, sessions, active>>
store == <<saved, rows>>
page == <<pc, req, shown>>
hist == <<alone, clean, intended, tainted>>
vars == <<memory, store, page, restarts, hist>>

Request == [url : Endpoints \cup {Blank}, key : Secrets, sets : BOOLEAN]
NoRequest == [url |-> Blank, key |-> Blank, sets |-> FALSE]

TypeOK ==
  /\ phase \in {"down", "seeded", "up"}
  /\ cipher \in {"first", "second"}
  /\ sessions \subseteq Clients
  /\ active \in Provider
  /\ saved = Unsaved \/ saved \in Row
  /\ rows \in [Models -> Payload \cup {NoModel}]
  /\ phase # "down" => rows[Demo] # NoModel
  /\ pc \in [Clients -> {"idle", "putSave", "putApply"}]
  /\ req \in [Clients -> Request]
  /\ shown \in [Clients -> Secrets]
  /\ restarts \in 0..MaxRestarts
  /\ alone \subseteq Clients
  /\ clean \in BOOLEAN
  /\ intended \in Keys \cup {Unknown}
  /\ tainted \in BOOLEAN

(* A database of an earlier version may hold a plain key and bare models. *)
Init ==
  /\ phase = "down"
  /\ cipher = "first"
  /\ sessions = {}
  /\ active = Env
  /\ \/ saved = Unsaved
     \/ saved \in [url : Endpoints, key : Keys, seal : {"plain"}]
  /\ rows \in {[m \in Models |-> b] : b \in {NoModel, Bare}}
  /\ pc = [c \in Clients |-> "idle"]
  /\ req = [c \in Clients |-> NoRequest]
  /\ shown = [c \in Clients |-> Blank]
  /\ restarts = 0
  /\ alone = {}
  /\ clean = TRUE
  /\ intended = Unknown
  /\ tainted = FALSE

(***************************************************************************)
(* The start of the process.                                               *)
(***************************************************************************)
InsertModel(m, p) == rows[m] = NoModel /\ rows' = [rows EXCEPT ![m] = p]

ReplaceModel(m, p) == rows[m] # NoModel /\ rows' = [rows EXCEPT ![m] = p]

(* Mutant of EnsureSeedData: the demo model is written on every start. *)
EnsureSeedDataAlways ==
  /\ phase = "down"
  /\ rows' = [rows EXCEPT ![Demo] = Seed]
  /\ phase' = "seeded"
  /\ UNCHANGED <<cipher, sessions, active, saved, page, restarts, hist>>

(* Mutant of EnsureSeedData: a failure is logged, and the start goes on. *)
EnsureSeedDataLogged ==
  /\ phase = "down"
  /\ \/ InsertModel(Demo, Seed)
     \/ (rows[Demo] # NoModel \/ "database" \in Faults) /\ UNCHANGED rows
  /\ phase' = "seeded"
  /\ UNCHANGED <<cipher, sessions, active, saved, page, restarts, hist>>

(* If it fails the process ends, and nothing has changed. *)
EnsureSeedData ==
  /\ phase = "down"
  /\ InsertModel(Demo, Seed) \/ (rows[Demo] # NoModel /\ UNCHANGED rows)
  /\ phase' = "seeded"
  /\ UNCHANGED <<cipher, sessions, active, saved, page, restarts, hist>>

Filled(value, default) == IF value = Blank THEN default ELSE value

Overlay(s) == [url |-> Filled(s.url, Env.url), key |-> Filled(s.key, Env.key)]

(* An empty key is not encrypted. *)
Decrypts(s) == s.key = Blank \/ s.seal \in {"plain", cipher}

(* A saved provider that cannot be read is a warning: the environment's is *)
(* used.  Otherwise each saved field that is not empty replaces its.       *)
LoadSavedProvider ==
  /\ phase = "seeded"
  /\ phase' = "up"
  /\ \/ /\ saved = Unsaved
        /\ active' = Env
        /\ clean' = TRUE
        /\ UNCHANGED intended
     \/ /\ saved # Unsaved
        /\ Decrypts(saved)
        /\ active' = Overlay(saved)
        /\ clean' = TRUE
        /\ UNCHANGED intended
     \/ /\ "load" \in Faults \/ (saved # Unsaved /\ ~Decrypts(saved))
        /\ active' = Env
        /\ clean' = FALSE
        /\ intended' = Unknown
  /\ UNCHANGED <<cipher, sessions, store, page, restarts, alone, tainted>>

Crash ==
  /\ "crash" \in Faults
  /\ phase # "down"
  /\ restarts < MaxRestarts
  /\ restarts' = restarts + 1
  /\ phase' = "down"
  /\ cipher' \in IF "rekey" \in Faults THEN {"first", "second"} ELSE {cipher}
  /\ sessions' = {}
  /\ active' = Env
  /\ pc' = [c \in Clients |-> "idle"]
  /\ req' = [c \in Clients |-> NoRequest]
  /\ alone' = {}
  /\ UNCHANGED <<store, shown, clean, intended, tainted>>

(***************************************************************************)
(* Sessions.  Every other request needs one, when it begins.  A login with  *)
(* a session and a logout without one change nothing and are left out.     *)
(***************************************************************************)
Login(c) ==
  /\ phase = "up" /\ pc[c] = "idle" /\ c \notin sessions
  /\ sessions' = sessions \cup {c}
  /\ UNCHANGED <<phase, cipher, active, store, page, restarts, hist>>

(* A request of another tab goes on: it has been admitted. *)
Logout(c) ==
  /\ phase = "up" /\ c \in sessions
  /\ sessions' = sessions \ {c}
  /\ UNCHANGED <<phase, cipher, active, store, page, restarts, hist>>

RequireAdminSession(c) == phase = "up" /\ pc[c] = "idle" /\ c \in sessions

(***************************************************************************)
(* The settings of the provider.                                           *)
(***************************************************************************)
Puts == {c \in Clients : pc[c] # "idle"}

GetProviderSettings(c) ==
  /\ RequireAdminSession(c)
  /\ shown' = [shown EXCEPT ![c] = active.key]
  /\ UNCHANGED <<memory, store, pc, req, restarts, hist>>

(* What a page sends for the key: a new one, nothing, or the mask it shows. *)
Sent(c) == Keys \cup {Blank, MaskOf[shown[c]]}

OutOfDate(c, k) == k \in Masks /\ shown[c] # active.key

(* Mutant of KeyToUse: only an empty field keeps the key. *)
KeyToUseUnmasked(k) == IF k = Blank THEN active.key ELSE k

(* Mutant of KeyToUse: an empty field removes the key. *)
KeyToUseCleared(k) == IF k = MaskOf[active.key] THEN active.key ELSE k

KeyToUse(k) == IF k \in {MaskOf[active.key], Blank} THEN active.key ELSE k

PutRead(c, url, k) ==
  /\ RequireAdminSession(c)
  /\ k \in Sent(c)
  /\ pc' = [pc EXCEPT ![c] = "putSave"]
  /\ req' = [req EXCEPT ![c] = [url |-> url, key |-> KeyToUse(k), sets |-> k \in Keys]]
  /\ alone' = IF Puts = {} THEN {c} ELSE {}
  /\ clean' = (clean /\ Puts = {})
  /\ intended' = IF Puts = {} /\ ~OutOfDate(c, k) THEN intended ELSE Unknown
  /\ tainted' = (tainted \/ OutOfDate(c, k))
  /\ UNCHANGED <<memory, store, shown, restarts>>

End(c) ==
  /\ pc' = [pc EXCEPT ![c] = "idle"]
  /\ req' = [req EXCEPT ![c] = NoRequest]
  /\ alone' = alone \ {c}

(* Mutant of PutSave: a failed write is logged and the PUT goes on. *)
PutSaveUnchecked(c) ==
  /\ pc[c] = "putSave"
  /\ pc' = [pc EXCEPT ![c] = "putApply"]
  /\ \/ saved' = [url |-> req[c].url, key |-> req[c].key, seal |-> cipher]
     \/ "database" \in Faults /\ UNCHANGED saved
  /\ intended' = IF c \notin alone THEN Unknown
                 ELSE IF req[c].sets THEN req[c].key ELSE intended
  /\ UNCHANGED <<memory, rows, req, shown, restarts, alone, clean, tainted>>

PutSave(c) ==
  /\ pc[c] = "putSave"
  /\ \/ /\ saved' = [url |-> req[c].url, key |-> req[c].key, seal |-> cipher]
        /\ pc' = [pc EXCEPT ![c] = "putApply"]
        /\ intended' = IF c \notin alone THEN Unknown
                       ELSE IF req[c].sets THEN req[c].key ELSE intended
        /\ UNCHANGED <<req, alone>>
     \/ /\ "database" \in Faults
        /\ End(c)
        /\ UNCHANGED <<saved, intended>>
  /\ UNCHANGED <<memory, rows, shown, restarts, clean, tainted>>

(* UpdateProvider, and the answer, which shows the page the new mask. *)
PutApply(c) ==
  /\ pc[c] = "putApply"
  /\ active' = [url |-> req[c].url, key |-> req[c].key]
  /\ shown' = [shown EXCEPT ![c] = req[c].key]
  /\ clean' = (clean \/ c \in alone)
  /\ End(c)
  /\ UNCHANGED <<phase, cipher, sessions, store, restarts, intended, tainted>>

(***************************************************************************)
(* World models.  The row that is read back for the answer changes nothing.*)
(***************************************************************************)
(* Mutant of CreateModel: the payload is taken as it comes. *)
CreateModelUnchecked(c, m, p) ==
  /\ RequireAdminSession(c)
  /\ m # Demo /\ InsertModel(m, p)
  /\ UNCHANGED <<memory, saved, page, restarts, hist>>

CreateModel(c, m, p) ==
  /\ RequireAdminSession(c)
  /\ ValidatePayload(p)
  /\ m # Demo /\ InsertModel(m, p)
  /\ UNCHANGED <<memory, saved, page, restarts, hist>>

UpdateModel(c, m, p) ==
  /\ RequireAdminSession(c)
  /\ ValidatePayload(p)
  /\ ReplaceModel(m, p)
  /\ UNCHANGED <<memory, saved, page, restarts, hist>>

Process == EnsureSeedData \/ LoadSavedProvider \/ Crash

Admin(c) ==
  \/ Login(c) \/ Logout(c) \/ GetProviderSettings(c)
  \/ \E url \in Endpoints \cup {Blank}, k \in Secrets : PutRead(c, url, k)
  \/ PutSave(c) \/ PutApply(c)
  \/ \E m \in Models, p \in Submitted : CreateModel(c, m, p) \/ UpdateModel(c, m, p)

Next == Process \/ \E c \in Clients : Admin(c)

Spec == Init /\ [][Next]_vars

(***************************************************************************)
(* Properties.                                                             *)
(***************************************************************************)
Applying == \E c \in Clients : pc[c] = "putApply"

(* value is what a field in use may be when the row holds stored. *)
Agrees(value, stored, default) ==
  IF stored = Blank THEN value \in {Blank, default} ELSE value = stored

(* The provider in use is the one that is saved, and would be used after a *)
(* restart, whatever failed or crashed before: only PUTs that overlap and  *)
(* a row that could not be loaded leave the two apart, and the next PUT    *)
(* that meets no other brings them together again.                         *)
SavedIsInUse ==
  phase = "up" /\ clean /\ ~Applying =>
    IF saved = Unsaved THEN active = Env
    ELSE /\ Agrees(active.url, saved.url, Env.url)
         /\ Agrees(active.key, saved.key, Env.key)

(* A key that a PUT has set stays in use and saved until another one is    *)
(* set: the pages that send its mask back or leave it out, failed PUTs and *)
(* restarts do not lose it.                                                *)
SetKeyStays ==
  phase = "up" /\ intended # Unknown /\ ~Applying =>
    /\ active.key = intended
    /\ saved # Unsaved /\ saved.key = intended

(* What is shown of a key is never taken for a key, unless a page that was *)
(* loaded before the key was changed is sent.                              *)
MaskOnlyFromOldPage ==
  active.key \in Masks \/ (saved # Unsaved /\ saved.key \in Masks) => tainted

(* The start of the process leaves the world models alone that are there,  *)
(* the demo model with the edits of an administrator above all.            *)
StartKeepsModels ==
  [][phase # "up" => \A m \in Models : rows[m] # NoModel => rows'[m] = rows[m]]_vars

(* A stored model can be listed, and so can all the others with it, unless  *)
(* what validation ignores keeps it from being decoded.                    *)
ListedButForIgnored ==
  \A m \in Models : rows[m] # NoModel =>
    BuildSummary(rows[m]) \/ \E f \in Ignored : rows[m][f] = "mistyped"
=============================================================================
