CONSTANTS
  Threads = {t1, t2, t3}
  Mutexes = {m1}
  CondVars = {c1}
  Terminable = {t1}
  NoThread = NoThread
  NoCv = NoCv
SPECIFICATION Spec
INVARIANTS NoWaiterLost
PROPERTY ImplementsMutex
CHECK_DEADLOCK FALSE
