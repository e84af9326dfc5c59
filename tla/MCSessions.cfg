CONSTANTS
  Clients = {c1, c2}
  Servers = {s1, s2}
  Requests = {r1, r2}
  LightClients = {c1, c2, c3}
  LightServers = {s1, s2}
  NoThread = NoThread
  None = None
SPECIFICATION MCSpec
INVARIANTS RequestsKept ServersSeeRequests
PROPERTY ClientServed
CHECK_DEADLOCK FALSE
