SPECIFICATION MCSpec
CONSTANTS
  Parts = {"plugins"}
  MaxSlots = 2
  Requests = {r1, r2, r3, r4}
  Models = {m1, m2}
  NoModel = NoModel
  NoRequest = NoRequest
  Tasks = {s1, u1, q1}
  Streams = {s1}
  Metrics = {q1}
  Permits = 1
  Tokens = 1
  MaxConns = 3
  Faults = {"slow", "stall", "leave", "crash"}
  NoTask = NoTask
  Tools = {"x", "y"}
  Servers = {v}
  Heads = {p1, p2, p3}
  NoPrefix = NoPrefix
  Nameless = Nameless
  Chats = {c1, c2}
  MaxCached = 2
  MaxSteps = 4
  Kinds = {h2d, nvme}
  MaxBytes = 4
  MaxTokens = 3
INVARIANT ToolsReachOwn
CHECK_DEADLOCK FALSE
