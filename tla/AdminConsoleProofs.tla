-------------------------- MODULE AdminConsoleProofs --------------------------
(***************************************************************************)
(* The safety theorems of AdminConsole, for any number of administrators,  *)
(* endpoints, keys and world models, all faults and any number of crashes. *)
(***************************************************************************)
EXTENDS AdminConsole, TLAPS

(* A PUT that has met no other is the only one that is under way, and while *)
(* the provider is in step, or the key is known, there is no other.        *)
AloneOK ==
  /\ phase # "up" => Puts = {} /\ alone = {}
  /\ \A c \in alone : Puts = {c}
  /\ clean \/ intended # Unknown => Puts \subseteq alone

(* What such a PUT has saved is what it will apply. *)
AppliedOK ==
  \A c \in alone : pc[c] = "putApply" =>
    saved # Unsaved /\ saved.url = req[c].url /\ saved.key = req[c].key

(* The key that was set last is saved, and a PUT that sets none keeps it. *)
KeyOK ==
  /\ intended # Unknown =>
       /\ saved # Unsaved /\ saved.key = intended
       /\ \A c \in alone : pc[c] = "putSave" => req[c].sets \/ req[c].key = intended
  /\ \A c \in Clients : req[c].sets => req[c].key \in Keys

(* Nobody has taken a mask for a key. *)
MaskOK ==
  tainted \/ /\ active.key \notin Masks
             /\ saved # Unsaved => saved.key \notin Masks
             /\ \A c \in Clients : req[c].key \notin Masks

IInv ==
  /\ TypeOK /\ AloneOK /\ AppliedOK /\ KeyOK /\ MaskOK
  /\ SavedIsInUse /\ SetKeyStays /\ ListedButForIgnored

-----------------------------------------------------------------------------
LEMMA ConstantFacts ==
  /\ Blank \notin Keys /\ Blank \notin Masks /\ Keys \cap Masks = {}
  /\ Keys \subseteq Secrets /\ Masks \subseteq Secrets /\ Blank \in Secrets
  /\ MaskOf \in [Secrets -> Masks \cup {Blank}]
  /\ Env \in Provider /\ Env.url \in Endpoints \cup {Blank} /\ Env.key \in Keys \cup {Blank}
  /\ Unknown \notin Keys /\ Unsaved \notin Row
  BY ConstantsOK DEF Secrets, Provider

(* What a payload that is accepted or that a migration has made amounts to. *)
LEMMA PayloadFacts ==
  ASSUME NEW p \in Payload, ValidatePayload(p) \/ p = Bare
  PROVE  BuildSummary(p) \/ \E f \in Ignored : p[f] = "mistyped"
<1>1. SUFFICES ASSUME \A f \in Ignored : p[f] # "mistyped" PROVE BuildSummary(p)
  OBVIOUS
<1>2. \A f \in Fields : p[f] # "mistyped"
  BY <1>1 DEF ValidatePayload, Fields, Sections, Bare
<1>3. NormalizedPayload(p) = p \/ NormalizedPayload(p) = [p EXCEPT !["colors"] = "empty"]
  BY DEF NormalizedPayload
<1>4. \A f \in Fields : NormalizedPayload(p)[f] # "mistyped"
  BY <1>2, <1>3 DEF Payload
<1>5. QED
  BY <1>2, <1>4 DEF BuildSummary, Normalizes, Decodes, Fields, Sections

(* Whichever key a page sends, it is one of the page's or the one in use. *)
LEMMA KeyFacts ==
  ASSUME TypeOK, NEW c \in Clients, NEW k \in Secrets, k \in Sent(c)
  PROVE  /\ KeyToUse(k) \in Secrets
         /\ k \in Keys => KeyToUse(k) = k
         /\ k \notin Keys /\ ~OutOfDate(c, k) => KeyToUse(k) = active.key
<1>1. active.key \in Secrets /\ shown[c] \in Secrets /\ MaskOf[active.key] \in Masks \cup {Blank}
  BY ConstantFacts DEF TypeOK, Provider
<1>2. ASSUME k \in Masks, ~OutOfDate(c, k) PROVE k = MaskOf[active.key]
  BY <1>2, ConstantFacts DEF Sent, OutOfDate
<1>3. QED
  BY <1>1, <1>2, ConstantFacts DEF KeyToUse, Secrets

LEMMA Initially == Init => IInv
<1> SUFFICES ASSUME Init PROVE IInv
  OBVIOUS
<1> USE DEF Init
<1>1. Bare \in Payload
  BY DEF Bare, Payload, Shapes
<1>2. saved # Unsaved => saved \in Row /\ saved.key \in Keys
  BY ConstantFacts DEF Row
<1>3. TypeOK
  <2>1. rows \in [Models -> Payload \cup {NoModel}]
    BY <1>1
  <2>2. active \in Provider /\ (saved = Unsaved \/ saved \in Row) /\ shown \in [Clients -> Secrets]
    BY <1>2, ConstantFacts
  <2>3. req \in [Clients -> Request] /\ pc \in [Clients -> {"idle", "putSave", "putApply"}]
    BY ConstantFacts DEF Request, NoRequest
  <2>4. restarts \in 0..MaxRestarts
    BY ConstantsOK
  <2>5. QED
    BY <2>1, <2>2, <2>3, <2>4 DEF TypeOK
<1>4. Puts = {}
  BY DEF Puts
<1>5. AloneOK /\ AppliedOK /\ SavedIsInUse /\ SetKeyStays
  BY <1>4 DEF AloneOK, AppliedOK, SavedIsInUse, SetKeyStays
<1>6. KeyOK /\ MaskOK
  BY <1>2, ConstantFacts DEF KeyOK, MaskOK, NoRequest
<1>7. ListedButForIgnored
  BY <1>1, PayloadFacts DEF ListedButForIgnored
<1>8. QED
  BY <1>3, <1>5, <1>6, <1>7 DEF IInv

(* What an action that leaves the provider, the PUTs and history alone keeps. *)
ProviderVars == <<phase, active, saved, pc, req, alone, clean, intended, tainted>>

LEMMA ProviderUnchanged ==
  ASSUME IInv, UNCHANGED ProviderVars
  PROVE  AloneOK' /\ AppliedOK' /\ KeyOK' /\ MaskOK' /\ SavedIsInUse' /\ SetKeyStays'
  BY DEF ProviderVars, IInv, AloneOK, AppliedOK, KeyOK, MaskOK, SavedIsInUse, SetKeyStays, Puts, Applying

-----------------------------------------------------------------------------
(* The process. *)
LEMMA EnsureSeedDataKeeps ==
  ASSUME IInv, EnsureSeedData PROVE IInv'
<1> USE DEF EnsureSeedData, IInv
<1>1. Seed \in Payload /\ Seed # NoModel /\ Demo \in Models /\ ValidatePayload(Seed)
  BY ConstantsOK
<1>2. \/ rows[Demo] = NoModel /\ rows' = [rows EXCEPT ![Demo] = Seed]
      \/ rows[Demo] # NoModel /\ rows' = rows
  BY DEF InsertModel
<1>3. TypeOK'
  BY <1>1, <1>2 DEF TypeOK, memory, store, page, hist
<1>4. Puts' = Puts /\ (Applying' <=> Applying)
  BY DEF Puts, Applying, page
<1>5. AloneOK' /\ AppliedOK' /\ KeyOK' /\ MaskOK' /\ SavedIsInUse' /\ SetKeyStays'
  BY <1>4 DEF AloneOK, AppliedOK, KeyOK, MaskOK, SavedIsInUse, SetKeyStays, page, hist
<1>6. ListedButForIgnored'
  BY <1>1, <1>2, PayloadFacts DEF ListedButForIgnored, TypeOK
<1>7. QED
  BY <1>3, <1>5, <1>6

LEMMA LoadSavedProviderKeeps ==
  ASSUME IInv, LoadSavedProvider PROVE IInv'
<1> USE DEF LoadSavedProvider, IInv
<1>1. saved # Unsaved => saved \in Row
  BY DEF TypeOK
<1>2. saved # Unsaved => Overlay(saved) \in Provider
  BY <1>1, ConstantFacts DEF Overlay, Filled, Row, Provider
<1>3. TypeOK'
  BY <1>2, ConstantFacts DEF TypeOK, store, page
<1>4. Puts = {} /\ alone = {} /\ Puts' = Puts /\ alone' = alone /\ saved' = saved /\ req' = req
  BY DEF AloneOK, Puts, store, page
<1>5. AloneOK' /\ AppliedOK' /\ KeyOK'
  BY <1>4 DEF AloneOK, AppliedOK, KeyOK
<1>6. MaskOK'
  BY <1>1, <1>4, ConstantFacts DEF MaskOK, Overlay, Filled
<1>7. SavedIsInUse'
  BY <1>1, <1>4 DEF SavedIsInUse, Overlay, Filled, Agrees
<1>8. SetKeyStays'
  <2>1. intended # Unknown => saved # Unsaved /\ saved.key = intended /\ intended \in Keys
    BY DEF KeyOK, TypeOK
  <2>2. QED
    BY <1>1, <1>4, <2>1, ConstantFacts DEF SetKeyStays, Overlay, Filled
<1>9. ListedButForIgnored'
  BY DEF ListedButForIgnored, store
<1>10. QED
  BY <1>3, <1>5, <1>6, <1>7, <1>8, <1>9

LEMMA CrashKeeps ==
  ASSUME IInv, Crash PROVE IInv'
<1> USE DEF Crash, IInv
<1>1. restarts' \in 0..MaxRestarts
  BY ConstantsOK DEF TypeOK
<1>2. TypeOK'
  BY <1>1, ConstantFacts DEF TypeOK, store, Request, NoRequest
<1>3. Puts' = {} /\ alone' = {} /\ saved' = saved /\ phase' = "down"
  BY DEF Puts, store
<1>4. AloneOK' /\ AppliedOK' /\ SavedIsInUse' /\ SetKeyStays'
  BY <1>3 DEF AloneOK, AppliedOK, SavedIsInUse, SetKeyStays
<1>5. KeyOK' /\ MaskOK'
  BY <1>3, ConstantFacts DEF KeyOK, MaskOK, NoRequest
<1>6. ListedButForIgnored'
  BY DEF ListedButForIgnored, store
<1>7. QED
  BY <1>2, <1>4, <1>5, <1>6

-----------------------------------------------------------------------------
(* The administrators. *)
LEMMA LoginKeeps ==
  ASSUME IInv, NEW c \in Clients, Login(c) \/ Logout(c) PROVE IInv'
<1> USE DEF Login, Logout, IInv
<1>1. sessions' \subseteq Clients /\ UNCHANGED <<rows, restarts, cipher, shown>> /\ UNCHANGED ProviderVars
  BY DEF TypeOK, ProviderVars, store, page, hist
<1>2. TypeOK' /\ ListedButForIgnored'
  BY <1>1 DEF TypeOK, ListedButForIgnored, ProviderVars
<1>3. QED
  BY <1>1, <1>2, ProviderUnchanged

LEMMA GetProviderSettingsKeeps ==
  ASSUME IInv, NEW c \in Clients, GetProviderSettings(c) PROVE IInv'
<1> USE DEF GetProviderSettings, IInv
<1>1. UNCHANGED <<rows, restarts, cipher, sessions>> /\ UNCHANGED ProviderVars
  BY DEF ProviderVars, memory, store, hist
<1>2. active.key \in Secrets
  BY DEF TypeOK, Provider
<1>3. TypeOK' /\ ListedButForIgnored'
  BY <1>1, <1>2 DEF TypeOK, ListedButForIgnored, ProviderVars
<1>4. QED
  BY <1>1, <1>3, ProviderUnchanged

(* The first step of a PUT: what it reads depends on nobody only if it is  *)
(* alone, and is the key in use unless the page sets one or was stale.     *)
LEMMA PutReadKeeps ==
  ASSUME IInv, NEW c \in Clients, NEW url \in Endpoints \cup {Blank}, NEW k \in Secrets,
         PutRead(c, url, k)
  PROVE  IInv'
<1> USE DEF IInv
<1>1. /\ phase = "up" /\ pc[c] = "idle" /\ k \in Sent(c)
      /\ pc' = [pc EXCEPT ![c] = "putSave"]
      /\ req' = [req EXCEPT ![c] = [url |-> url, key |-> KeyToUse(k), sets |-> k \in Keys]]
      /\ alone' = IF Puts = {} THEN {c} ELSE {}
      /\ clean' = (clean /\ Puts = {})
      /\ intended' = IF Puts = {} /\ ~OutOfDate(c, k) THEN intended ELSE Unknown
      /\ tainted' = (tainted \/ OutOfDate(c, k))
      /\ UNCHANGED <<phase, cipher, sessions, active, saved, rows, shown, restarts>>
  BY DEF PutRead, RequireAdminSession, memory, store
<1>2. /\ KeyToUse(k) \in Secrets
      /\ k \in Keys => KeyToUse(k) = k
      /\ k \notin Keys /\ ~OutOfDate(c, k) => KeyToUse(k) = active.key
  BY <1>1, KeyFacts
<1>3. [url |-> url, key |-> KeyToUse(k), sets |-> k \in Keys] \in Request
  BY <1>2 DEF Request
<1>4. req'[c].key = KeyToUse(k) /\ (req'[c].sets <=> k \in Keys) /\ pc'[c] = "putSave"
  BY <1>1 DEF TypeOK
<1>5. \A e \in Clients \ {c} : req'[e] = req[e] /\ pc'[e] = pc[e]
  BY <1>1 DEF TypeOK
<1>6. Puts' = Puts \cup {c}
  BY <1>4, <1>5 DEF Puts
<1>7. TypeOK'
  <2>1. pc' \in [Clients -> {"idle", "putSave", "putApply"}] /\ req' \in [Clients -> Request]
    BY <1>1, <1>3 DEF TypeOK
  <2>2. alone' \subseteq Clients /\ intended' \in Keys \cup {Unknown}
    BY <1>1 DEF TypeOK
  <2>3. clean' \in BOOLEAN /\ tainted' \in BOOLEAN
    BY <1>1 DEF TypeOK, OutOfDate
  <2>4. QED
    BY <1>1, <2>1, <2>2, <2>3 DEF TypeOK
<1>8. AloneOK'
  BY <1>1, <1>6 DEF AloneOK
<1>9. AppliedOK'
  BY <1>1, <1>4 DEF AppliedOK
<1>10. Puts = {} => ~Applying
  BY DEF Applying, Puts
<1>11. KeyOK'
  <2>1. \A e \in Clients : req'[e].sets => req'[e].key \in Keys
    BY <1>2, <1>4, <1>5 DEF KeyOK
  <2>2. ASSUME intended' # Unknown
        PROVE  /\ saved' # Unsaved /\ saved'.key = intended'
               /\ \A e \in alone' : pc'[e] = "putSave" => req'[e].sets \/ req'[e].key = intended'
    <3>1. intended' = intended /\ Puts = {} /\ ~OutOfDate(c, k) /\ alone' = {c}
      BY <1>1, <2>2
    <3>2. saved # Unsaved /\ saved.key = intended /\ active.key = intended
      BY <1>1, <1>10, <2>2, <3>1 DEF KeyOK, SetKeyStays
    <3>3. req'[c].sets \/ req'[c].key = intended'
      BY <1>2, <1>4, <3>1, <3>2
    <3>4. QED
      BY <1>1, <3>1, <3>2, <3>3
  <2>3. QED
    BY <2>1, <2>2 DEF KeyOK
<1>12. MaskOK'
  <2>1. ASSUME ~tainted' PROVE KeyToUse(k) \notin Masks
    BY <1>1, <1>2, <2>1, ConstantFacts DEF MaskOK
  <2>2. QED
    BY <1>1, <1>4, <1>5, <2>1 DEF MaskOK
<1>13. SavedIsInUse'
  BY <1>1, <1>10 DEF SavedIsInUse
<1>14. SetKeyStays'
  BY <1>1, <1>10 DEF SetKeyStays
<1>15. ListedButForIgnored'
  BY <1>1 DEF ListedButForIgnored
<1>16. QED
  BY <1>7, <1>8, <1>9, <1>11, <1>12, <1>13, <1>14, <1>15

LEMMA EndKeeps ==
  ASSUME TypeOK, NEW c \in Clients, End(c)
  PROVE  /\ pc' \in [Clients -> {"idle", "putSave", "putApply"}]
         /\ req' \in [Clients -> Request]
         /\ alone' \subseteq Clients
         /\ req'[c] = NoRequest /\ pc'[c] = "idle"
         /\ \A e \in Clients \ {c} : req'[e] = req[e] /\ pc'[e] = pc[e]
         /\ Puts' = Puts \ {c}
  BY ConstantFacts DEF TypeOK, End, NoRequest, Request, Puts

(* The second step: the row is written, or the PUT ends. *)
LEMMA PutSaveKeeps ==
  ASSUME IInv, NEW c \in Clients, PutSave(c) PROVE IInv'
<1> USE DEF IInv
<1>1. /\ pc[c] = "putSave" /\ c \in Puts
      /\ UNCHANGED <<phase, cipher, sessions, active, rows, shown, restarts, clean, tainted>>
  BY DEF PutSave, memory, Puts
<1>2. phase = "up" /\ (alone = {} \/ alone = {c})
  BY <1>1 DEF AloneOK
<1>3. req[c].key \in Secrets /\ req[c].url \in Endpoints \cup {Blank} /\ req[c].sets \in BOOLEAN
  BY DEF TypeOK, Request
<1>4. ListedButForIgnored'
  BY <1>1 DEF ListedButForIgnored
<1>5. CASE End(c) /\ UNCHANGED <<saved, intended>>
  <2>1. TypeOK'
    BY <1>1, <1>5, EndKeeps DEF TypeOK
  <2>2. alone' = {} /\ Puts' = Puts \ {c}
    BY <1>2, <1>5, EndKeeps DEF End
  <2>3. AloneOK' /\ AppliedOK'
    BY <1>1, <1>2, <1>5, <2>2 DEF AloneOK, AppliedOK
  <2>4. KeyOK' /\ MaskOK'
    BY <1>1, <1>5, <2>2, EndKeeps, ConstantFacts DEF KeyOK, MaskOK, NoRequest
  <2>5. Puts = {c} => ~Applying /\ ~Applying'
    BY <1>1, <1>5, EndKeeps DEF Applying, Puts
  <2>6. SavedIsInUse' /\ SetKeyStays'
    BY <1>1, <1>2, <1>5, <2>5 DEF SavedIsInUse, SetKeyStays, AloneOK
  <2>7. QED
    BY <1>4, <2>1, <2>3, <2>4, <2>6
<1>6. CASE /\ saved' = [url |-> req[c].url, key |-> req[c].key, seal |-> cipher]
           /\ pc' = [pc EXCEPT ![c] = "putApply"]
           /\ intended' = IF c \notin alone THEN Unknown
                          ELSE IF req[c].sets THEN req[c].key ELSE intended
           /\ UNCHANGED <<req, alone>>
  <2>1. saved' \in Row
    BY <1>3, <1>6 DEF Row, TypeOK
  <2>2. intended' \in Keys \cup {Unknown}
    BY <1>6 DEF TypeOK, KeyOK
  <2>3. TypeOK'
    BY <1>1, <1>6, <2>1, <2>2 DEF TypeOK
  <2>4. Puts' = Puts /\ pc'[c] = "putApply" /\ Applying'
    BY <1>1, <1>6 DEF Puts, TypeOK, Applying
  <2>5. AloneOK'
    BY <1>1, <1>2, <1>6, <2>4 DEF AloneOK
  <2>6. saved' # Unsaved
    BY <2>1, ConstantsOK
  <2>7. AppliedOK'
    BY <1>2, <1>6, <2>4, <2>6 DEF AppliedOK
  <2>8. KeyOK'
    BY <1>1, <1>2, <1>6, <2>4, <2>6 DEF KeyOK
  <2>9. MaskOK'
    BY <1>1, <1>6 DEF MaskOK
  <2>10. SavedIsInUse' /\ SetKeyStays'
    BY <2>4 DEF SavedIsInUse, SetKeyStays
  <2>11. QED
    BY <1>4, <2>3, <2>5, <2>7, <2>8, <2>9, <2>10
<1>7. QED
  BY <1>5, <1>6 DEF PutSave

(* The third step: a PUT that was alone has brought the two together. *)
LEMMA PutApplyKeeps ==
  ASSUME IInv, NEW c \in Clients, PutApply(c) PROVE IInv'
<1> USE DEF IInv
<1>1. /\ pc[c] = "putApply" /\ c \in Puts /\ End(c)
      /\ active' = [url |-> req[c].url, key |-> req[c].key]
      /\ shown' = [shown EXCEPT ![c] = req[c].key]
      /\ clean' = (clean \/ c \in alone)
      /\ UNCHANGED <<phase, cipher, sessions, saved, rows, restarts, intended, tainted>>
  BY DEF PutApply, store, Puts
<1>2. phase = "up" /\ (alone = {} \/ alone = {c})
  BY <1>1 DEF AloneOK
<1>3. req[c].key \in Secrets /\ req[c].url \in Endpoints \cup {Blank}
  BY DEF TypeOK, Request
<1>4. TypeOK'
  <2>1. active' \in Provider /\ shown' \in [Clients -> Secrets]
    BY <1>1, <1>3 DEF TypeOK, Provider
  <2>2. clean' \in BOOLEAN
    BY <1>1 DEF TypeOK
  <2>3. QED
    BY <1>1, <2>1, <2>2, EndKeeps DEF TypeOK
<1>5. alone' = {} /\ Puts' = Puts \ {c}
  BY <1>1, <1>2, EndKeeps DEF End
<1>6. AloneOK' /\ AppliedOK'
  BY <1>1, <1>2, <1>5 DEF AloneOK, AppliedOK
<1>7. KeyOK'
  BY <1>1, <1>5, EndKeeps DEF KeyOK, NoRequest
<1>8. MaskOK'
  BY <1>1, EndKeeps, ConstantFacts DEF MaskOK, NoRequest
<1>9. clean' \/ intended' # Unknown => c \in alone
  BY <1>1 DEF AloneOK
<1>10. c \in alone => saved # Unsaved /\ active'.url = saved.url /\ active'.key = saved.key
  BY <1>1 DEF AppliedOK
<1>11. SavedIsInUse'
  BY <1>1, <1>9, <1>10 DEF SavedIsInUse, Agrees
<1>12. SetKeyStays'
  BY <1>1, <1>9, <1>10 DEF SetKeyStays, KeyOK
<1>13. ListedButForIgnored'
  BY <1>1 DEF ListedButForIgnored
<1>14. QED
  BY <1>4, <1>6, <1>7, <1>8, <1>11, <1>12, <1>13

(* A world model is created or replaced. *)
LEMMA ModelKeeps ==
  ASSUME IInv, NEW c \in Clients, NEW m \in Models, NEW p \in Submitted,
         CreateModel(c, m, p) \/ UpdateModel(c, m, p)
  PROVE  IInv'
<1> USE DEF IInv
<1>1. /\ ValidatePayload(p) /\ p \in Payload /\ p # NoModel
      /\ rows' = [rows EXCEPT ![m] = p]
      /\ UNCHANGED <<restarts, cipher, sessions, shown>> /\ UNCHANGED ProviderVars
  BY ConstantsOK DEF CreateModel, UpdateModel, InsertModel, ReplaceModel, ProviderVars, memory, page, hist
<1>2. TypeOK'
  <2>1. rows' \in [Models -> Payload \cup {NoModel}] /\ (rows[Demo] # NoModel => rows'[Demo] # NoModel)
    BY <1>1, ConstantsOK DEF TypeOK
  <2>2. QED
    BY <1>1, <2>1 DEF TypeOK, ProviderVars
<1>3. ListedButForIgnored'
  BY <1>1, PayloadFacts DEF ListedButForIgnored, TypeOK
<1>4. QED
  BY <1>1, <1>2, <1>3, ProviderUnchanged

-----------------------------------------------------------------------------
LEMMA Stutter == ASSUME IInv, UNCHANGED vars PROVE IInv'
<1>1. UNCHANGED <<rows, restarts, cipher, sessions, shown>> /\ UNCHANGED ProviderVars
  BY DEF vars, memory, store, page, hist, ProviderVars
<1>2. TypeOK' /\ ListedButForIgnored'
  BY <1>1 DEF IInv, TypeOK, ListedButForIgnored, ProviderVars
<1>3. QED
  BY <1>1, <1>2, ProviderUnchanged DEF IInv

LEMMA Consecution == IInv /\ [Next]_vars => IInv'
<1> SUFFICES ASSUME IInv, [Next]_vars PROVE IInv'
  OBVIOUS
<1>1. ASSUME Process PROVE IInv'
  BY <1>1, EnsureSeedDataKeeps, LoadSavedProviderKeeps, CrashKeeps DEF Process
<1>2. ASSUME NEW c \in Clients, Admin(c) PROVE IInv'
  BY <1>2, LoginKeeps, GetProviderSettingsKeeps, PutReadKeeps, PutSaveKeeps, PutApplyKeeps, ModelKeeps
     DEF Admin
<1>3. QED
  BY <1>1, <1>2, Stutter DEF Next

LEMMA Invariance == Spec => []IInv
  BY Initially, Consecution, PTL DEF Spec

(* Every variable keeps its type, and the demo model is there once the     *)
(* process has seeded it.                                                  *)
THEOREM TypeCorrect == Spec => []TypeOK
  BY Invariance, PTL DEF IInv

(* The provider in use is the saved one but for PUTs that overlap and rows *)
(* that could not be loaded.                                               *)
THEOREM SavedInUse == Spec => []SavedIsInUse
  BY Invariance, PTL DEF IInv

(* A key that was set is used and saved until another one is set. *)
THEOREM KeysStay == Spec => []SetKeyStays
  BY Invariance, PTL DEF IInv

(* A mask becomes the key only through a page that was out of date. *)
THEOREM NoMaskForKey == Spec => []MaskOnlyFromOldPage
<1>1. IInv => MaskOnlyFromOldPage
  BY DEF IInv, MaskOK, MaskOnlyFromOldPage
<1>2. QED
  BY <1>1, Invariance, PTL

(* Stored models can be listed, but for what validation ignores. *)
THEOREM Listed == Spec => []ListedButForIgnored
  BY Invariance, PTL DEF IInv

(* While the process starts no world model is written that is there. *)
THEOREM ModelsKept == Spec => StartKeepsModels
<1> DEFINE Kept == phase # "up" => \A m \in Models : rows[m] # NoModel => rows'[m] = rows[m]
<1>1. IInv /\ [Next]_vars => [Kept]_vars
  <2> SUFFICES ASSUME IInv, Next, phase # "up" PROVE \A m \in Models : rows[m] # NoModel => rows'[m] = rows[m]
    OBVIOUS
  <2>1. ASSUME EnsureSeedData PROVE \A m \in Models : rows[m] # NoModel => rows'[m] = rows[m]
    BY <2>1 DEF EnsureSeedData, InsertModel, IInv, TypeOK
  <2>2. ASSUME LoadSavedProvider \/ Crash PROVE rows' = rows
    BY <2>2 DEF LoadSavedProvider, Crash, store
  <2>3. ASSUME NEW c \in Clients, Admin(c) PROVE rows' = rows
    <3>1. pc[c] = "idle"
      BY DEF IInv, AloneOK, Puts
    <3>2. QED
      BY <2>3, <3>1 DEF Admin, Login, Logout, GetProviderSettings, RequireAdminSession, PutRead,
         PutSave, PutApply, CreateModel, UpdateModel
  <2>4. QED
    BY <2>1, <2>2, <2>3 DEF Next, Process
<1>2. QED
  BY <1>1, Invariance, PTL DEF Spec, StartKeepsModels

-----------------------------------------------------------------------------
(***************************************************************************)
(* The history variable clean exempts states from SavedIsInUse.  It takes  *)
(* two PUTs that overlap, or a row that cannot be read, to unset it.       *)
(***************************************************************************)
OneAdministrator == \A b, c \in Clients : b = c

(* The saved row can be read at each start, with the key it was written.   *)
RowReadable == {"load", "rekey"} \cap Faults = {}

CleanOK == clean /\ (saved # Unsaved => Decrypts(saved))

InUse ==
  phase = "up" /\ ~Applying =>
    IF saved = Unsaved THEN active = Env
    ELSE /\ Agrees(active.url, saved.url, Env.url)
         /\ Agrees(active.key, saved.key, Env.key)

(* With one administrator and a readable row the provider in use is always *)
(* the saved one, whenever no PUT is about to apply it: failed statements,  *)
(* crashes between save and apply, and restarts do not part them.          *)
THEOREM SoleSavedInUse == ASSUME OneAdministrator, RowReadable PROVE Spec => []InUse
<1>1. ASSUME OneAdministrator, RowReadable, IInv, CleanOK, [Next]_vars PROVE CleanOK'
  <2> USE <1>1 DEF CleanOK, Decrypts, memory, store, page, hist
  <2>1. CASE EnsureSeedData
    BY <2>1 DEF EnsureSeedData
  <2>2. CASE LoadSavedProvider
    BY <2>2 DEF LoadSavedProvider, RowReadable
  <2>3. CASE Crash
    BY <2>3 DEF Crash, RowReadable
  <2>4. ASSUME NEW c \in Clients, Login(c) \/ Logout(c) \/ GetProviderSettings(c) PROVE CleanOK'
    BY <2>4 DEF Login, Logout, GetProviderSettings
  <2>5. ASSUME NEW c \in Clients, NEW url, NEW k, PutRead(c, url, k) PROVE CleanOK'
    <3>1. Puts = {}
      BY <2>5 DEF PutRead, RequireAdminSession, Puts, OneAdministrator
    <3>2. QED
      BY <2>5, <3>1 DEF PutRead
  <2>6. ASSUME NEW c \in Clients, PutSave(c) PROVE CleanOK'
    BY <2>6 DEF PutSave
  <2>7. ASSUME NEW c \in Clients, PutApply(c) PROVE CleanOK'
    BY <2>7 DEF PutApply
  <2>8. ASSUME NEW c \in Clients, NEW m \in Models, NEW p \in Submitted,
               CreateModel(c, m, p) \/ UpdateModel(c, m, p)
        PROVE  CleanOK'
    BY <2>8 DEF CreateModel, UpdateModel
  <2>9. CASE UNCHANGED vars
    BY <2>9 DEF vars
  <2>10. QED
    BY <2>1, <2>2, <2>3, <2>4, <2>5, <2>6, <2>7, <2>8, <2>9 DEF Next, Process, Admin
<1>2. Init => CleanOK
  BY ConstantFacts DEF Init, CleanOK, Decrypts
<1>3. ASSUME IInv, CleanOK PROVE InUse
  BY <1>3 DEF IInv, CleanOK, SavedIsInUse, InUse
<1>4. QED
  BY <1>1, <1>2, <1>3, Invariance, PTL DEF Spec

(* A page of the only administrator is out of date only if the process has *)
(* died in the middle of a PUT.                                            *)
ShownOK ==
  /\ ~tainted
  /\ \A c \in Clients : shown[c] = Blank \/ (phase = "up" /\ shown[c] = active.key)

(* With one administrator and no crash no mask ever becomes the key.       *)
NoMasks == active.key \notin Masks /\ (saved # Unsaved => saved.key \notin Masks)

THEOREM SoleNoMaskForKey ==
  ASSUME OneAdministrator, "crash" \notin Faults PROVE Spec => []NoMasks
<1>1. ASSUME OneAdministrator, "crash" \notin Faults, IInv, ShownOK, [Next]_vars PROVE ShownOK'
  <2> USE <1>1 DEF ShownOK, memory, store, page, hist
  <2>1. CASE EnsureSeedData
    BY <2>1 DEF EnsureSeedData
  <2>2. CASE LoadSavedProvider
    BY <2>2 DEF LoadSavedProvider
  <2>3. CASE Crash
    BY <2>3 DEF Crash
  <2>4. ASSUME NEW c \in Clients, Login(c) \/ Logout(c) \/ GetProviderSettings(c) PROVE ShownOK'
    BY <2>4 DEF Login, Logout, GetProviderSettings, RequireAdminSession, IInv, TypeOK
  <2>5. ASSUME NEW c \in Clients, NEW url, NEW k \in Secrets, PutRead(c, url, k) PROVE ShownOK'
    <3>1. ~OutOfDate(c, k)
      BY <2>5, ConstantsOK DEF PutRead, RequireAdminSession, Sent, OutOfDate, Secrets
    <3>2. QED
      BY <2>5, <3>1 DEF PutRead
  <2>6. ASSUME NEW c \in Clients, PutSave(c) PROVE ShownOK'
    BY <2>6 DEF PutSave
  <2>7. ASSUME NEW c \in Clients, PutApply(c) PROVE ShownOK'
    BY <2>7 DEF PutApply, OneAdministrator, IInv, TypeOK, AloneOK, Puts
  <2>8. ASSUME NEW c \in Clients, NEW m \in Models, NEW p \in Submitted,
               CreateModel(c, m, p) \/ UpdateModel(c, m, p)
        PROVE  ShownOK'
    BY <2>8 DEF CreateModel, UpdateModel
  <2>9. CASE UNCHANGED vars
    BY <2>9 DEF vars
  <2>10. QED
    BY <2>1, <2>2, <2>3, <2>4, <2>5, <2>6, <2>7, <2>8, <2>9, ConstantFacts
       DEF Next, Process, Admin
<1>2. Init => ShownOK
  BY DEF Init, ShownOK
<1>3. ASSUME IInv, ShownOK PROVE NoMasks
  BY <1>3 DEF IInv, ShownOK, MaskOK, NoMasks
<1>4. QED
  BY <1>1, <1>2, <1>3, Invariance, PTL DEF Spec
=============================================================================
