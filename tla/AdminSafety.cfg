\* Two administrators, an old key and a new one, a crash with the key changed.
SPECIFICATION Spec
CONSTANTS
  u0 = u0
  k0 = k0
  k1 = k1
  m0 = m0
  m1 = m1
  mm = mm
  d = d
  w = w
  Clients = {c1, c2}
  Endpoints = {u0}
  Keys = {k0, k1}
  Masks = {m0, m1, mm}
  Blank = Blank
  MaskOf <- ShownOf
  Env <- FromEnv
  Models = {d, w}
  Demo = d
  Seed <- NoColors
  Submitted <- Payloads
  NoModel = NoModel
  Unsaved = Unsaved
  Unknown = Unknown
  Faults = {"database", "rekey", "crash"}
  MaxRestarts = 1
SYMMETRY Same
INVARIANTS
  TypeOK
  SavedIsInUse
  SetKeyStays
  MaskOnlyFromOldPage
  ListedButForIgnored
PROPERTIES
  StartKeepsModels
