CONSTANTS
  Tasks = {t1, t2}
  Streams = {t1}
  Metrics = {}
  Permits = 1
  Tokens = 2
  MaxConns = 4
  Faults = {"leave"}
  NoTask = NoTask
SPECIFICATION Spec
INVARIANTS
  ResponsesMatch
CHECK_DEADLOCK FALSE
