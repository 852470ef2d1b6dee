SPECIFICATION MCSpec
CONSTANTS
  r1 = r1
  r2 = r2
  r3 = r3
  c1 = c1
  c2 = c2
  Requests <- MCRequests
  Clients <- MCClients
  ClientOf <- MCClientOf
  Kinds = {"plain", "stream", "socket", "page"}
  Capacity = 1
  Rate = 1
  MaxDepth = 1
  Permits = 1
  MaxClock = 1
  QueueSize = 2
  MaxTokens = 4
  Faults = {"disconnect", "error", "timeout", "generator"}
INVARIANTS ServingTypeOK CountersExact AdmissionBound TokensArrive
PROPERTIES GenerationsStart StreamsEnd
CHECK_DEADLOCK FALSE
