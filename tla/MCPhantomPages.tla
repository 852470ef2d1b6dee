---------------------------- MODULE MCPhantomPages ----------------------------
(* PhantomPages for TLC: two layers, a one-page and a two-page frame.      *)
EXTENDS PhantomPages

CONSTANTS Small, Large

MCFrames == {Small, Large}
MCFrameSize == (Small :> 1500) @@ (Large :> 4100)
MCCapacities == {8192, 6000}
MCOneCapacity == {8192}
MCSymmetry == Permutations(Layers) \cup Permutations(Workers)
=============================================================================
