SPECIFICATION Spec
CONSTANTS
  w1 = w1
  w2 = w2
  Writers = {w1, w2}
  Sharing <- MCSharing
  LateFailure = {"table"}
  MaxHashes = 7
  MaxFaults = 3
  MaxEdits = 2
CHECK_DEADLOCK FALSE
INVARIANTS
  VerifiesUnlessTouched
  ChainVouchesForPrefix
  FailuresCostOneRecord
  BrowserAgrees
PROPERTIES
  BreaksStayVisible
