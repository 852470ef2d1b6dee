CONSTANTS
  Layers = {l1, l2}
  NoLayer = NoLayer
  Platforms = {"pread"}
  Pool = 2
  MaxReads = 3
SPECIFICATION Spec
INVARIANT
  ViewsHoldTheirLayer
CHECK_DEADLOCK FALSE
