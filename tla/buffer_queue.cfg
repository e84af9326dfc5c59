CONSTANTS
  Slots = {0, 1}
  DefaultMax = 2
  MaxChanges = 2
  Counts = {2}
  Longest = 1
  None = None
SPECIFICATION Spec
INVARIANTS  ShownIsQueued
CHECK_DEADLOCK FALSE
