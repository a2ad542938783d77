SPECIFICATION Spec
CONSTANTS
  a = a
  b = b
  h1 = h1
  h2 = h2
  t1 = t1
  t2 = t2
  x = x
  y = y
  msg = msg
  ask = ask
  None = None
  Never = Never
  NoDecision = NoDecision
  NoRequest = NoRequest
  Agents = {a, b}
  Principals = {a, h1, h2}
  Threads = {t1, t2}
  Arguments = {x, y, msg, ask}
  ContractNames = {"c1", "c2"}
  Reserved = {}
  Actions <- MCActions
  ActionNames <- MCActions
  attr <- MCAttr
  PrivateSuffixes <- MCSuffixes
  host <- MCHost
  Tools = {"write", "read"}
  NoArguments = x
  contracts <- MCBudgetContracts
  Proposals <- MCWrites
  Unparsed = {a}
  Simulate = FALSE
  Durable = TRUE
  GrantTTL = 1
  PruneGrace = 1
  MaxIds = 3
  MaxTime = 3
  MaxFaults = 2
SYMMETRY Symmetry
CHECK_DEADLOCK FALSE
INVARIANTS
  TypeOK
  AtMostOnce
  ExecutedAsAudited
  WithinBudget
