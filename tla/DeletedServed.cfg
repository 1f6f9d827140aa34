\* One deployment, a start and a delete at the same time, no faults.
SPECIFICATION Spec
CONSTANTS
  d1 = d1
  d2 = d2
  d3 = d3
  p1 = p1
  p2 = p2
  Deps = {d1}
  Ports = {p1}
  PortOf <- OneOnly
  Clients = {c1, c2}
  Main = main
  Nobody = nobody
  NoDep = NoDep
  Faults = {}
  MaxRestarts = 0
INVARIANT DeletedIsNotServed
