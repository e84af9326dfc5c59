CONSTANTS
  Threads = {t1, t2}
  Objects = {a, b}
  NoObject = NoObject
  MaxCount = 2
SPECIFICATION FairSpec
INVARIANTS NoSignalMissed
PROPERTY NotifyEnds
