CONSTANTS
  Main = main
  Extra = {t1}
  Sessions = {s1, s2}
  None = None
SPECIFICATION FairSpec
INVARIANTS HeldOnce
PROPERTIES Served StopEnds
CHECK_DEADLOCK FALSE
