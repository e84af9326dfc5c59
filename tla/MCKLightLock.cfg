CONSTANTS
  Threads = {t1, t2, t3}
  NumLocks = 2
  SuspendTypes = {sThread, sProcess}
  Suspendable = {t2}
  Terminable = {t1}
  NoThread = NoThread
SPECIFICATION Spec
INVARIANTS WaiterIsKnown WaiterCountExact
PROPERTIES ImplementsMutex SuspensionPutOff
