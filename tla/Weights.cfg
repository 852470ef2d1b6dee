SPECIFICATION MCSpec
CONSTANTS
  Layers = {l1, l2}
  NoLayer = NoLayer
  Platforms = {"pread", "seek"}
  Pool = 2
  MaxReads = 3
  Procs = {p, q}
  Chunks = 2
  LibraryLayers = 2
  HasSha = {TRUE, FALSE}
  MaxFaults = 2
INVARIANTS
  LibraryTypeOK FilesWhole  LoneViewIntact FileIntact
PROPERTIES
  RetriesInstall AwaitsReturn
