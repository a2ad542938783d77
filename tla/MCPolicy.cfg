SPECIFICATION WalkSpec
CONSTANTS
  a = a
  b = b
  c = c
  h = h
  None = None
  Never = Never
  Agents = {a, b, c}
  Principals = {h}
  ContractNames = {"c1", "c2", "c3"}
  Reserved = {"contract.edit"}
  ActionNames <- MCNames
  Actions <- MCActions
  Arguments <- MCArguments
  attr <- MCAttr
  contracts <- MCContracts
  PrivateSuffixes <- MCSuffixes
  Edits <- MCEdits
  AllowedPorts = {80, 443}
  MaxUse = 2
  MaxMoment = 3
CHECK_DEADLOCK FALSE
INVARIANTS
  EvaluateAgrees
  ViewsBoundDecisions
  DiffShowsEveryChange
  FetchStaysPublic
PROPERTIES
  AuthorityOnlyShrinks
