CONSTANTS
  Threads = {t1, t2, t3}
  NoThread = NoThread
  MaxTime = 3
SPECIFICATION FairTimerSpec
INVARIANTS TimerExact
PROPERTY NeverEarly TimedWaitEnds
