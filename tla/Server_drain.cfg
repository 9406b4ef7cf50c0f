SPECIFICATION FairSpec
CONSTANTS
  Requests = {r1, r2}
  ShutdownBudget = 3
  PingTimeout = 1
  FlushBudget = 1
  ConnectTimeout = 6
  RequestBudget = 6
  Grace = 6
INVARIANTS
  ServerInv
  RequestsGetTheirTime
  StopsInTime
  NothingLeftOpen
PROPERTIES
  EndsWithoutForce
