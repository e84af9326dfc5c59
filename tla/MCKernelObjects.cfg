CONSTANTS
  TableSize = 3
  MaxLinearId = 2
  Objects = {o1, o2}
  MaxRefs = 1
  None = None
  t1 = t1
  t2 = t2
  t3 = t3
  Threads = {t1, t2, t3}
  Limits = {1, 3}
  InitialLimit = 3
  LimitWidth = 3
  Terminable = {t1}
  NoThread = NoThread
  Priority <- MCPriority
  Addresses = {a}
  NoAddress = NoAddress
  WordWidth = 2
  Counts = {0, 1, 2}
SPECIFICATION MCSpec
SYMMETRY MCSymmetry
INVARIANTS TableExact AccountsExact NoRoomMissed NoLostWakeup WordTellsWaiters
CHECK_DEADLOCK FALSE
