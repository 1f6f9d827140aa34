\* Two requests at a time; two of three deployments ask for one port.
SPECIFICATION Spec
CONSTANTS
  d1 = d1
  d2 = d2
  d3 = d3
  p1 = p1
  p2 = p2
  Deps = {d1, d2, d3}
  Ports = {p1, p2}
  PortOf <- SharedPort
  Clients = {c1, c2}
  Main = main
  Nobody = nobody
  NoDep = NoDep
  Faults = {"listen", "dies", "database", "request", "drain", "crash"}
  MaxRestarts = 1
SYMMETRY SameClientsSamePort
INVARIANTS
  TypeOK
  RunningIsServed
  ServedIsRunning
PROPERTY
  ImplementsDeploymentLifecycle
