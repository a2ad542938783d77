SPECIFICATION Spec
CONSTANTS
  w1 = w1
  w2 = w2
  Writers = {w1, w2}
  Sharing <- MCFile
  LateFailure = {"file"}
  MaxHashes = 3
  MaxFaults = 1
  MaxEdits = 0
CHECK_DEADLOCK FALSE
INVARIANTS
  AcknowledgedIsStored
