CONSTANTS
  Threads = {t1, t2, t3}
  Keys = {k1, k2}
  NoThread = NoThread
  NoKey = NoKey
  Highest = 1
  Lowest = 3
SPECIFICATION FairInheritanceSpec
INVARIANTS PriorityInherited ExactInheritance
PROPERTY HandedToBest RestoreEnds
CHECK_DEADLOCK TRUE
