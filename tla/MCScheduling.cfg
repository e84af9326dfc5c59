CONSTANTS
  Threads = {t1, t2}
  SchedThreads = {t1, t2, t3}
  NumCores = 2
  Host = Host
  NoThread = NoThread
  Priorities = {1, 2}
  InitPriority = 2
  Prioritized = {t1, t2}
  Movable = {t3}
  PreemptionPriority = 2
SPECIFICATION MCSpec
INVARIANTS ContextOwned NoLostReschedule WorkDistributed YieldSkipHarmless
PROPERTY Settles
