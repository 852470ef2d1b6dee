\* Two tasks, every interleaving, crash points and capacity changes.
CONSTANTS
  Small = Small
  Large = Large
  Layers = {l1, l2}
  Workers = {w1, w2}
  NoWorker = NoWorker
  NoJob = NoJob
  NoReply = NoReply
  Frames <- MCFrames
  FrameSize <- MCFrameSize
  Capacities <- MCCapacities
SYMMETRY MCSymmetry
SPECIFICATION Spec
INVARIANTS
  HandlesReadBack
  NoSharedBytes
  TableIsFresh
PROPERTIES
  LoadsReturnOwnFrame
  ImplementsStore
