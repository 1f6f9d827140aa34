\* One job, a cancel and a signal, and nothing fails.
SPECIFICATION FairSpec
CONSTANTS
  j1 = j1
  j2 = j2
  Jobs = {j1}
  Cancelers = {c1}
  Deleters = {}
  Closer = closer
  Deployable = {}
  NoJob = NoJob
  Manifest <- OneFile
  Faults = {}
  MaxRuns = 1
  MaxRestarts = 0
PROPERTIES
  RunSettles
