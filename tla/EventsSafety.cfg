\* Two reports of one path from one address; an asset and its replacement.
SPECIFICATION Spec
CONSTANTS
  e1 = e1
  e2 = e2
  p1 = p1
  a1 = a1
  a2 = a2
  ip1 = ip1
  Reports = {e1, e2}
  Paths = {p1}
  PathAt <- OnePath
  Addrs = {ip1}
  AddrOf <- OneAddr
  Local = local
  Assets = {a1, a2}
  PathOf <- SamePath
  NoAsset = NoAsset
  Absent = Absent
  Removed = Removed
  Faults = {"lookup", "slow", "request", "database", "storage", "refused", "stop"}
SYMMETRY Same
INVARIANTS
  TypeOK
  LossExplained
  AttributionKept
  CachedFailureIsReal
PROPERTIES
  ImplementsLedger
