\* One of two jobs is run, with every kind of fault, a cancel and a delete
\* racing the worker; the second job has one path twice.
SPECIFICATION FairSpec
CONSTANTS
  j1 = j1
  j2 = j2
  Jobs = {j1, j2}
  Cancelers = {c1}
  Deleters = {d1}
  Closer = closer
  Deployable = {j2}
  NoJob = NoJob
  Manifest <- TwoFiles
  Faults = {"provider", "storage", "database", "request", "drain", "crash"}
  MaxRuns = 1
  MaxRestarts = 1
INVARIANTS
  TypeOK
  CompletedIsWhole
  FilesBackedByRows
  RowsBackedByFiles
  CountIsBacked
  NoStrayRows
  OpenIsAttended
PROPERTIES
  ImplementsLifecycle
  ShutdownCompletes
