\* A restart keeps the page table and forgets the space it uses.
CONSTANTS
  Small = Small
  Large = Large
  Layers = {l1, l2}
  Workers = {w1, w2}
  NoWorker = NoWorker
  NoJob = NoJob
  NoReply = NoReply
  Frames <- MCFrames
  FrameSize <- MCFrameSize
  Capacities <- MCOneCapacity
SYMMETRY MCSymmetry
SPECIFICATION Spec
INVARIANT
  TableIsStored
