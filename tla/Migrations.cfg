\* Two assets, an event and up to two deployments of every earlier version, with
\* and without the job and the world model; the server adds one of each.
SPECIFICATION Spec
CONSTANTS
  AssetIds = {1, 2, 3}
  EventIds = {1, 2}
  Paths = {1, 2}
  DeploymentIds = {1, 2}
  Ports = {1}
  JobIds = {1}
  WorldIds = {1}
  Times = {1, 2}
  Origins <- OriginSet
  MaxFailures = 2
INVARIANTS
  TypeOK
  StartsUnlessRefused
PROPERTIES
  StartKeepsData
  ImplementsUpgrade
