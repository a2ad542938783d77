SPECIFICATION Spec
CONSTANTS
  t1 = t1
  t2 = t2
  c1 = c1
  c2 = c2
  p = p
  Threads = {t1, t2}
  Clients = {c1, c2}
  Principals = {p}
  Backends = {"local", "store", "postgres"}
  Cost = 2
  Rate <- MCRate
  Burst <- MCBurst
  MaxKeys = 1
  MaxRequests = 4
  MaxTime = 1
  MaxFaults = 1
CHECK_DEADLOCK FALSE
SYMMETRY Symmetry
INVARIANTS
  RateBound
  RefusalsAccounted
