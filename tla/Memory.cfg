CONSTANTS
  Layers = {l1, l2}
  VramLayers = {l1, l2, l3}
  Sizes = {1, 2}
  Threads = {t1, t2}
  MaxRam = 3
  Calls = {"store", "load", "remove", "suggest"}
  MaxAccesses = 1
  Nobody = Nobody
  Loaders = {w1, w2}
  Usable = 3
  MaxLedger = 3
  NoLayer = NoLayer
  NumLayers = 2
  Width = 4
  LruThreads = {t1, t2}
  Moments = {20, 1500}
  MaxCalls = 2
  MaxRestarts = 2
SPECIFICATION MCSpec
INVARIANTS MemoryTypeOK VramAccounted LedgerExact StuckOnlyWhenInverted
PROPERTIES LoadsEnd HistoryKept
CHECK_DEADLOCK FALSE
