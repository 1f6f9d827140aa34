\* One report; nothing fails but the lookup, which takes too long.
SPECIFICATION Spec
CONSTANTS
  e1 = e1
  e2 = e2
  p1 = p1
  a1 = a1
  a2 = a2
  ip1 = ip1
  Reports = {e1}
  Paths = {p1}
  PathAt <- OnePath
  Addrs = {ip1}
  AddrOf <- OneAddr
  Local = local
  Assets = {a1}
  PathOf <- SamePath
  NoAsset = NoAsset
  Absent = Absent
  Removed = Removed
  Faults = {"slow"}
INVARIANT EnrichmentNeverBlocks
