\* One request over four assets, in pages of two, with four changes meanwhile.
SPECIFICATION Spec
CONSTANTS
  w = w
  j1 = j1
  j2 = j2
  d1 = d1
  d2 = d2
  f1 = f1
  f2 = f2
  AssetCount = 4
  Readers = {r1}
  Names <- NameSet
  World <- OneWorld
  Job <- Jobs
  Target <- Targets
  Generated = generated
  NoFilter = NoFilter
  Filters <- FilterSet
  PageSize = 2
  MaxLimit = 2
  DefaultLimit = 1
  MaxChanges = 4
CHECK_DEADLOCK FALSE
INVARIANTS
  TypeOK
  TreeShowsWhatStayed
