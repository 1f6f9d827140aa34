\* Two deployments on ports of their own, two requests at a time, a signal.
SPECIFICATION FairSpec
CONSTANTS
  d1 = d1
  d2 = d2
  d3 = d3
  p1 = p1
  p2 = p2
  Deps = {d1, d2}
  Ports = {p1, p2}
  PortOf <- OwnPorts
  Clients = {c1, c2}
  Main = main
  Nobody = nobody
  NoDep = NoDep
  Faults = {"listen", "request", "drain"}
  MaxRestarts = 0
PROPERTIES
  RequestsEnd
  ShutdownCompletes
