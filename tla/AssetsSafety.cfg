\* Three requests at a time; two uploads want the path of the generated asset.
SPECIFICATION Spec
CONSTANTS
  a1 = a1
  a2 = a2
  a3 = a3
  p1 = p1
  Assets = {a1, a2, a3}
  Original = {a1}
  Paths = {p1}
  PathOf <- OnePath
  Clients = {c1, c2, c3}
  NoAsset = NoAsset
  NoFile = NoFile
  Torn = Torn
  Faults = {"storage", "database", "request", "deployed", "crash"}
SYMMETRY SameClientsAndUploads
INVARIANTS
  TypeOK
  RowHasItsFile
  FileHasItsRow
  DeleteLasts
PROPERTIES
  ImplementsAssetLifecycle
