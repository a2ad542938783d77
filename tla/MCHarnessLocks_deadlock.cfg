SPECIFICATION Spec
CONSTANTS
  t1 = t1
  t2 = t2
  t3 = t3
  t4 = t4
  t5 = t5
  Nobody = Nobody
  Threads = {t1, t2}
  process <- MCProcess
  operation <- MCMixed
  BusyTimeout = FALSE
  Limit = 1
CHECK_DEADLOCK FALSE
INVARIANTS
  NoWaitCycle
