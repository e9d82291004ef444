SPECIFICATION FairSpec
CONSTANTS
  Requests = {r1, r2}
  StateRequests = {r2}
  MaxConnections = 2
  NIL = NIL
INVARIANTS ToldOnce RegistryInv
PROPERTIES RequestsEnd SessionsClose
CHECK_DEADLOCK FALSE
