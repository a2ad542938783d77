SPECIFICATION Spec
CONSTANTS
  t1 = t1
  t2 = t2
  t3 = t3
  s1 = s1
  s2 = s2
  x509 = x509
  Threads = {t1, t2, t3}
  server <- MCServer
  Starting = {s2}
  Workloads = {x509}
  NoWorkload = NoWorkload
  Unbound = Unbound
  MaxTTL = 2
  RevokeTTL = 1
  Leeway = 1
  PruneGrace = 1
  MaxKeys = 2
  MaxTokens = 1
  MaxTime = 3
CHECK_DEADLOCK FALSE
SYMMETRY Symmetry
INVARIANTS
  RevokedStaysOut
PROPERTIES
  RotationNeedsNoRestart
