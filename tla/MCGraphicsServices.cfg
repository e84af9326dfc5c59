CONSTANTS
  Slots = {0, 1}
  DefaultMax = 1
  MaxChanges = 1
  Counts = {0, 1, 2}
  Longest = 2
  None = None
  Incrementers = {g1, g2}
  Nobody = Nobody
  EventSlots = {0, 1}
  MaxValue = 2
  Cleared = {0}
  Width = 4
  FailLimit = 0
SPECIFICATION MCSpec
PROPERTIES DequeueReturns SignalNotEarly FenceSignalled
CHECK_DEADLOCK FALSE
