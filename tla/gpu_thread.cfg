CONSTANTS
  Capacity = 2
  Producers = {c1, c2}
  NoItem = NoItem
  None = None
  MaxFence = 5
SPECIFICATION FairSpec
INVARIANTS CallerStays
PROPERTIES ImplementsFifo ReturnsExecuted CallReturns
CHECK_DEADLOCK FALSE
