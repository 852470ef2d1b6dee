-------------------------- MODULE PhantomPagesProofs --------------------------
(***************************************************************************)
(* Theorems about PhantomPages for every set of layers, frames, workers    *)
(* and capacities.  The inductive invariant IInv says where the ranges of  *)
(* the running session lie; everything a caller relies on follows from it. *)
(***************************************************************************)
EXTENDS PhantomPages, TLAPS

(* Rounding up keeps an offset a page boundary and never moves it down.    *)
LEMMA AlignUp ==
  ASSUME NEW x \in Nat
  PROVE  /\ Align(x) \in Nat
         /\ x <= Align(x)
         /\ PageAligned(Align(x))
  BY DEF Align, PageAligned

LEMMA HandleIsNat ==
  ASSUME NEW h \in Handles
  PROVE  /\ h.offset \in Nat /\ h.size \in Nat
         /\ h.layer \in Layers /\ h.frame \in Frames
  <1>1. FrameSizes \subseteq Nat
    BY PagesAssumption DEF FrameSizes
  <1>2. PageOffsets \subseteq Nat
    <2>1. PageNumbers \subseteq Nat
      BY PagesAssumption DEF PageNumbers
    <2> QED BY <2>1 DEF PageOffsets
  <1> QED BY <1>1, <1>2 DEF Handles

(* A page-aligned offset inside the file is one a handle can have.         *)
LEMMA InPageOffsets ==
  ASSUME NEW c \in Capacities, NEW o \in 0..c, PageAligned(o)
  PROVE  o \in PageOffsets
  <1>1. c \in Nat
    BY PagesAssumption
  <1>2. PICK k \in 0..(c \div 4096) : o = 4096 * k
    <2>1. o = 4096 * (o \div 4096)
      BY <1>1 DEF PageAligned
    <2>2. o \div 4096 \in 0..(c \div 4096)
      BY <1>1
    <2> QED BY <2>1, <2>2
  <1>3. k \in PageNumbers
    BY DEF PageNumbers
  <1> QED BY <1>2, <1>3 DEF PageOffsets

LEMMA ExtentOfHandle ==
  ASSUME NEW h \in Handles
  PROVE  /\ Extent(h) \in Extents
         /\ Extent(h).frame = h.frame
         /\ Extent(h).offset = h.offset
         /\ Extent(h).size = h.size
  BY HandleIsNat DEF Extent, Extents

(* Two intact extents that start together are the same one.                *)
LEMMA DecodedUnique ==
  ASSUME TypeOK, DiskInv, NEW h \in Handles, Extent(h) \in disk
  PROVE  Decoded(h.offset, h.size) = {h.frame}
  <1>1. /\ Extent(h).offset = h.offset /\ Extent(h).size = h.size
        /\ Extent(h).frame = h.frame
    BY ExtentOfHandle
  <1>2. ASSUME NEW e \in disk, e.offset = h.offset, e.size = h.size
        PROVE  e = Extent(h)
    <2>1. e.size \in Nat /\ e.offset \in Nat /\ e.size > 0
      BY DEF TypeOK, DiskInv, Extents
    <2>2. ~ Disjoint(e, Extent(h))
      BY <1>1, <1>2, <2>1 DEF Disjoint
    <2> QED BY <2>2 DEF DiskInv
  <1> QED BY <1>1, <1>2 DEF Decoded

LEMMA InitIInv == Init => IInv
  <1> SUFFICES ASSUME Init PROVE IInv
    OBVIOUS
  <1> USE PagesAssumption DEF Init
  <1>1. TypeOK
    BY DEF TypeOK, Phases
  <1>2. PageAligned(0)
    BY DEF PageAligned
  <1>3. PlacedInv /\ DisjointInv /\ DiskInv /\ ReaderInv /\ SavedInv /\ TableIsFresh
    BY <1>2 DEF PlacedInv, DisjointInv, DiskInv, ReaderInv, SavedInv,
           TableIsFresh, Reserved, OnePerLayer
  <1> QED BY <1>1, <1>3 DEF IInv

(* The reservation hands out a range that starts where every earlier one   *)
(* has ended.                                                              *)
LEMMA ReserveStep ==
  ASSUME IInv, NEW w \in Workers, NEW l \in Layers, NEW f \in Frames,
         Reserve(w, l, f)
  PROVE  IInv'
  <1>0. TypeOK BY DEF IInv
  <1>1. PICK n \in Handles :
          /\ n = [layer |-> l, frame |-> f, offset |-> next, size |-> FrameSize[f]]
          /\ n = job'[w] /\ FrameSize[f] \in Nat /\ next \in Nat
    <2> DEFINE m == [layer |-> l, frame |-> f, offset |-> next,
                     size |-> FrameSize[f]]
    <2>1. FrameSize[f] \in Nat /\ next \in Nat /\ next \in 0..capacity
      BY <1>0, PagesAssumption DEF TypeOK, Reserve
    <2>2. next \in PageOffsets /\ FrameSize[f] \in FrameSizes
      BY <1>0, <2>1, InPageOffsets DEF TypeOK, IInv, PlacedInv, FrameSizes
    <2>3. m \in Handles
      BY <2>2 DEF Handles
    <2>4. m = job'[w]
      BY <1>0 DEF TypeOK, Reserve
    <2> QED BY <2>1, <2>3, <2>4
  <1>2. next' \in Nat /\ next + FrameSize[f] <= next' /\ PageAligned(next')
    BY <1>1, AlignUp DEF Reserve
  <1>3. TypeOK'
    BY <1>0, <1>1, <1>2 DEF TypeOK, Reserve, locks, Phases
  <1>4. \A v \in Workers : v # w => job'[v] = job[v] /\ pc'[v] = pc[v]
    BY <1>0 DEF TypeOK, Reserve
  <1>5. \A h \in Handles : Placed(h) => Placed(h)' /\ Disjoint(h, n)
    <2> SUFFICES ASSUME NEW h \in Handles, Placed(h)
                 PROVE  Placed(h)' /\ Disjoint(h, n)
      OBVIOUS
    <2>1. h.offset \in Nat /\ h.size \in Nat
      BY HandleIsNat
    <2> QED BY <1>1, <1>2, <2>1 DEF Placed, Disjoint, Reserve
  <1>6. Placed(n)'
    BY <1>0, <1>1, <1>2, PagesAssumption DEF Placed, Reserve, IInv, PlacedInv, TypeOK
  <1>7. PlacedInv'
    <2>1. \A h \in issued' : Placed(h)'
      BY <1>0, <1>5 DEF IInv, PlacedInv, TypeOK, Reserve
    <2>2. ASSUME NEW v \in Workers, Reserved(v)'
          PROVE  Placed(job[v])'
      <3>1. CASE v = w
        BY <3>1, <1>1, <1>6 DEF Placed
      <3>2. CASE v # w
        <4>1. PICK h \in Handles : h = job[v] /\ Placed(h) /\ job'[v] = h
          BY <3>2, <1>0, <1>4, <2>2 DEF IInv, PlacedInv, Reserved, TypeOK
        <4>2. Placed(h)'
          BY <4>1, <1>5
        <4> QED BY <4>1, <4>2 DEF Placed
      <3> QED BY <3>1, <3>2
    <2> QED BY <1>2, <2>1, <2>2 DEF PlacedInv
  <1>8. DisjointInv'
    <2>1. \A g, h \in issued' : g # h => Disjoint(g, h)
      BY DEF IInv, DisjointInv, Reserve
    <2>2. ASSUME NEW h \in issued', NEW v \in Workers, Reserved(v)'
          PROVE  Disjoint(h, job'[v])
      <3>1. CASE v = w
        BY <3>1, <1>0, <1>1, <1>5 DEF IInv, PlacedInv, TypeOK, Reserve
      <3>2. CASE v # w
        BY <3>2, <1>4, <2>2 DEF IInv, DisjointInv, Reserved, Reserve
      <3> QED BY <3>1, <3>2
    <2>3. ASSUME NEW u \in Workers, NEW v \in Workers, u # v,
                 Reserved(u)', Reserved(v)'
          PROVE  Disjoint(job'[u], job'[v])
      <3>1. CASE u # w /\ v # w
        BY <3>1, <1>4, <2>3 DEF IInv, DisjointInv, Reserved
      <3>2. CASE u = w
        <4>1. job'[v] = job[v] /\ job[v] \in Handles /\ Placed(job[v])
          BY <3>2, <2>3, <1>0, <1>4 DEF IInv, PlacedInv, Reserved, TypeOK
        <4>2. Disjoint(job[v], n)
          BY <4>1, <1>5
        <4> QED BY <1>1, <3>2, <4>1, <4>2 DEF Disjoint
      <3>3. CASE v = w
        <4>1. job'[u] = job[u] /\ job[u] \in Handles /\ Placed(job[u])
          BY <3>3, <2>3, <1>0, <1>4 DEF IInv, PlacedInv, Reserved, TypeOK
        <4>2. Disjoint(job[u], n)
          BY <4>1, <1>5
        <4> QED BY <1>1, <3>3, <4>1, <4>2
      <3> QED BY <3>1, <3>2, <3>3
    <2> QED BY <2>1, <2>2, <2>3 DEF DisjointInv
  <1>9. DiskInv'
    BY <1>0, <1>4 DEF IInv, DiskInv, Reserve, TypeOK
  <1>10. ReaderInv'
    BY <1>0, <1>4 DEF IInv, ReaderInv, Reserve, TypeOK, locks
  <1>11. SavedInv' /\ TableIsFresh'
    BY DEF IInv, SavedInv, TableIsFresh, Reserve, OnePerLayer
  <1> QED BY <1>3, <1>7, <1>8, <1>9, <1>10, <1>11 DEF IInv

(* A write fills its own reserved range and therefore spares every frame   *)
(* that belongs to someone of this session.                                *)
LEMMA WriteStep ==
  ASSUME IInv, NEW w \in Workers, WriteFrame(w)
  PROVE  IInv'
  <1>0. TypeOK /\ pc[w] = "write" BY DEF IInv, WriteFrame
  <1>1. PICK n \in Handles : n = job[w] /\ Placed(n)
    BY <1>0 DEF TypeOK, IInv, PlacedInv, Reserved
  <1>2. /\ Extent(n) \in Extents /\ Extent(n).size > 0
        /\ Extent(n).offset = n.offset /\ Extent(n).size = n.size
    BY <1>1, ExtentOfHandle, HandleIsNat, PagesAssumption DEF Placed
  <1>3. disk' = {e \in disk : Disjoint(e, n)} \cup {Extent(n)}
    BY <1>1 DEF WriteFrame, Surviving
  <1>4. \A v \in Workers : v # w => pc'[v] = pc[v]
    BY <1>0 DEF TypeOK, WriteFrame
  <1>5. TypeOK'
    BY <1>0, <1>1, <1>2, <1>3 DEF TypeOK, WriteFrame, locks, Phases
  <1>6. PlacedInv' /\ DisjointInv'
    BY <1>0 DEF IInv, TypeOK, PlacedInv, DisjointInv, Reserved, Placed, WriteFrame
  <1>7. DiskInv'
    <2>1. ASSUME NEW h \in issued'
          PROVE  Extent(h) \in disk'
      <3>1. h \in Handles /\ Extent(h) \in disk /\ Disjoint(h, n)
        BY <1>0, <1>1 DEF IInv, TypeOK, DiskInv, DisjointInv, WriteFrame, Reserved
      <3>2. Disjoint(Extent(h), n)
        BY <3>1, ExtentOfHandle DEF Disjoint
      <3> QED BY <1>3, <3>1, <3>2
    <2>2. ASSUME NEW v \in Workers, pc'[v] = "register"
          PROVE  Extent(job'[v]) \in disk'
      <3>1. CASE v = w
        BY <3>1, <1>1, <1>3 DEF WriteFrame
      <3>2. CASE v # w
        <4>1. PICK h \in Handles : h = job[v] /\ Extent(h) \in disk /\ Disjoint(h, n)
          BY <1>0, <1>1, <1>4, <2>2, <3>2
          DEF IInv, TypeOK, DiskInv, DisjointInv, Reserved
        <4>2. Disjoint(Extent(h), n)
          BY <4>1, ExtentOfHandle DEF Disjoint
        <4> QED BY <1>3, <4>1, <4>2 DEF WriteFrame
      <3> QED BY <3>1, <3>2
    <2>3. \A e \in disk' : e.size > 0
      BY <1>2, <1>3 DEF IInv, DiskInv
    <2>4. \A d, e \in disk' : d # e => Disjoint(d, e)
      BY <1>2, <1>3 DEF IInv, DiskInv, Disjoint
    <2> QED BY <2>1, <2>2, <2>3, <2>4 DEF DiskInv
  <1>8. ReaderInv'
    BY <1>0 DEF IInv, TypeOK, ReaderInv, WriteFrame, locks
  <1>9. SavedInv' /\ TableIsFresh'
    BY DEF IInv, SavedInv, TableIsFresh, OnePerLayer, WriteFrame
  <1> QED BY <1>5, <1>6, <1>7, <1>8, <1>9 DEF IInv

(* A failed write may destroy its own range and nothing else.              *)
LEMMA WriteFailsStep ==
  ASSUME IInv, NEW w \in Workers, WriteFails(w)
  PROVE  IInv'
  <1>0. TypeOK /\ pc[w] = "write" BY DEF IInv, WriteFails
  <1>1. PICK n \in Handles : n = job[w]
    BY <1>0 DEF TypeOK
  <1>2. disk' = disk \/ disk' = {e \in disk : Disjoint(e, n)}
    BY <1>1 DEF WriteFails, Surviving
  <1>3. \A v \in Workers : v # w => pc'[v] = pc[v] /\ job'[v] = job[v]
    BY <1>0 DEF TypeOK, WriteFails
  <1>4. pc'[w] = "idle"
    BY <1>0 DEF TypeOK, WriteFails
  <1>5. TypeOK'
    BY <1>0, <1>2 DEF TypeOK, WriteFails, locks, Phases
  <1>6. PlacedInv' /\ DisjointInv'
    BY <1>0, <1>3, <1>4
    DEF IInv, TypeOK, PlacedInv, DisjointInv, Reserved, Placed, WriteFails
  <1>7. DiskInv'
    <2>1. ASSUME NEW h \in issued'
          PROVE  Extent(h) \in disk'
      <3>1. h \in Handles /\ Extent(h) \in disk /\ Disjoint(h, n)
        BY <1>0, <1>1 DEF IInv, TypeOK, DiskInv, DisjointInv, WriteFails, Reserved
      <3>2. Disjoint(Extent(h), n)
        BY <3>1, ExtentOfHandle DEF Disjoint
      <3> QED BY <1>2, <3>1, <3>2
    <2>2. ASSUME NEW v \in Workers, pc'[v] = "register"
          PROVE  Extent(job'[v]) \in disk'
      <3>1. PICK h \in Handles : h = job[v] /\ Extent(h) \in disk /\ Disjoint(h, n)
        BY <1>0, <1>1, <1>3, <1>4, <2>2
        DEF IInv, TypeOK, DiskInv, DisjointInv, Reserved
      <3>2. Disjoint(Extent(h), n)
        BY <3>1, ExtentOfHandle DEF Disjoint
      <3> QED BY <1>2, <1>3, <1>4, <2>2, <3>1, <3>2
    <2> QED BY <1>2, <2>1, <2>2 DEF IInv, DiskInv
  <1>8. ReaderInv'
    BY <1>0, <1>3, <1>4 DEF IInv, TypeOK, ReaderInv, WriteFails, locks
  <1>9. SavedInv' /\ TableIsFresh'
    BY DEF IInv, SavedInv, TableIsFresh, OnePerLayer, WriteFails
  <1> QED BY <1>5, <1>6, <1>7, <1>8, <1>9 DEF IInv

LEMMA RegisterStep ==
  ASSUME IInv, NEW w \in Workers, Register(w)
  PROVE  IInv'
  <1>0. TypeOK /\ pc[w] = "register" BY DEF IInv, Register
  <1>1. PICK n \in Handles : n = job[w] /\ Placed(n) /\ Extent(n) \in disk
    BY <1>0 DEF TypeOK, IInv, PlacedInv, DiskInv, Reserved
  <1>2. /\ issued' = issued \cup {n}
        /\ table' = {h \in table : h.layer # n.layer} \cup {n}
    BY <1>1 DEF Register
  <1>3. \A v \in Workers : v # w => pc'[v] = pc[v] /\ job'[v] = job[v]
    BY <1>0 DEF TypeOK, Register
  <1>4. pc'[w] = "idle"
    BY <1>0 DEF TypeOK, Register
  <1>5. TypeOK'
    BY <1>0, <1>1, <1>2 DEF TypeOK, Register, locks, Phases
  <1>6. PlacedInv'
    BY <1>0, <1>1, <1>2, <1>3, <1>4
    DEF IInv, TypeOK, PlacedInv, Reserved, Placed, Register
  <1>7. DisjointInv'
    <2>1. \A h \in issued : Disjoint(h, n) /\ Disjoint(n, h)
      BY <1>0, <1>1 DEF IInv, DisjointInv, Reserved, Disjoint
    <2>2. \A v \in Workers : v # w /\ Reserved(v) => Disjoint(n, job[v])
      BY <1>0, <1>1 DEF IInv, DisjointInv, Reserved
    <2> QED
      BY <1>2, <1>3, <1>4, <2>1, <2>2 DEF IInv, DisjointInv, Reserved
  <1>8. DiskInv'
    BY <1>1, <1>2, <1>3, <1>4 DEF IInv, DiskInv, Register
  <1>9. ReaderInv' /\ SavedInv'
    BY <1>0, <1>3, <1>4 DEF IInv, TypeOK, ReaderInv, SavedInv, Register, locks
  <1>10. TableIsFresh'
    BY <1>2 DEF IInv, TableIsFresh, OnePerLayer
  <1> QED BY <1>5, <1>6, <1>7, <1>8, <1>9, <1>10 DEF IInv

(* Loads and saves move no byte and hand out no range.                     *)
LEMMA LoadSaveStep ==
  ASSUME IInv, NEW w \in Workers, Load(w) \/ Save(w)
  PROVE  IInv'
  <1>0. TypeOK BY DEF IInv
  <1>1. ASSUME NEW h \in table \cup issued, LoadSeek(w, h) PROVE IInv'
    <2>1. h \in Handles /\ h.offset \in Nat
      BY <1>0, HandleIsNat DEF TypeOK
    <2>2. TypeOK'
      BY <1>0, <1>1, <2>1 DEF TypeOK, LoadSeek, Phases
    <2>3. PlacedInv' /\ DisjointInv' /\ DiskInv'
      BY <1>0, <1>1
      DEF IInv, TypeOK, PlacedInv, DisjointInv, DiskInv, Reserved, Placed, LoadSeek
    <2>4. ReaderInv' /\ SavedInv' /\ TableIsFresh'
      BY <1>0, <1>1, PagesAssumption
      DEF IInv, TypeOK, ReaderInv, SavedInv, TableIsFresh, OnePerLayer, LoadSeek
    <2> QED BY <2>2, <2>3, <2>4 DEF IInv
  <1>2. CASE LoadRead(w)
    <2>0. job[w] \in Handles /\ job[w].size \in Nat
      BY <1>0, <1>2, HandleIsNat DEF TypeOK, LoadRead
    <2>1. Decoded(cursor, job[w].size) \in SUBSET Frames
      BY <1>0 DEF TypeOK, Decoded, Extents
    <2>2. TypeOK'
      BY <1>0, <1>2, <2>0, <2>1 DEF TypeOK, LoadRead, Phases
    <2>3. PlacedInv' /\ DisjointInv' /\ DiskInv'
      BY <1>0, <1>2
      DEF IInv, TypeOK, PlacedInv, DisjointInv, DiskInv, Reserved, Placed, LoadRead
    <2>4. ReaderInv' /\ SavedInv' /\ TableIsFresh'
      BY <1>0, <1>2 DEF IInv, TypeOK, ReaderInv, SavedInv, TableIsFresh,
                        OnePerLayer, LoadRead
    <2> QED BY <2>2, <2>3, <2>4 DEF IInv
  <1>3. CASE LoadFails(w) \/ Return(w)
    <2>1. TypeOK'
      BY <1>0, <1>3 DEF TypeOK, LoadFails, Return, locks, Phases
    <2>2. PlacedInv' /\ DisjointInv' /\ DiskInv'
      BY <1>0, <1>3 DEF IInv, TypeOK, PlacedInv, DisjointInv, DiskInv, Reserved,
                        Placed, LoadFails, Return
    <2>3. ReaderInv' /\ SavedInv' /\ TableIsFresh'
      BY <1>0, <1>3 DEF IInv, TypeOK, ReaderInv, SavedInv, TableIsFresh,
                        OnePerLayer, LoadFails, Return, locks
    <2> QED BY <2>1, <2>2, <2>3 DEF IInv
  <1>4. CASE Save(w)
    <2>1. TypeOK'
      BY <1>0, <1>4 DEF TypeOK, Save, SaveBegin, SaveEnd, Phases
    <2>2. PlacedInv' /\ DisjointInv' /\ DiskInv'
      BY <1>0, <1>4 DEF IInv, TypeOK, PlacedInv, DisjointInv, DiskInv, Reserved,
                        Placed, Save, SaveBegin, SaveEnd
    <2>3. ReaderInv' /\ TableIsFresh'
      BY <1>0, <1>4 DEF IInv, TypeOK, ReaderInv, TableIsFresh, OnePerLayer,
                        Save, SaveBegin, SaveEnd
    <2>4. SavedInv'
      BY <1>4 DEF IInv, SavedInv, TableIsFresh, OnePerLayer, Save, SaveBegin,
                  SaveEnd
    <2> QED BY <2>1, <2>2, <2>3, <2>4 DEF IInv
  <1> QED BY <1>1, <1>2, <1>3, <1>4 DEF Load

(* A restart owns no range yet: only the disk, the persisted table and the *)
(* table loaded from it survive, and neither promises anything.            *)
LEMMA RestartStep ==
  ASSUME IInv, Restart
  PROVE  IInv'
  <1>0. TypeOK BY DEF IInv
  <1>1. disk' \subseteq disk
    BY DEF Restart
  <1>2. PageAligned(0)
    BY DEF PageAligned
  <1>3. TypeOK'
    BY <1>0, <1>1 DEF TypeOK, Restart, Phases
  <1>4. PlacedInv' /\ DisjointInv' /\ ReaderInv'
    BY <1>0, <1>2 DEF TypeOK, PlacedInv, DisjointInv, ReaderInv, Reserved, Restart
  <1>5. DiskInv'
    BY <1>1 DEF IInv, DiskInv, Restart
  <1>6. SavedInv' /\ TableIsFresh'
    BY DEF IInv, SavedInv, TableIsFresh, OnePerLayer, Restart
  <1> QED BY <1>3, <1>4, <1>5, <1>6 DEF IInv

LEMMA StepIInv == IInv /\ [Next]_vars => IInv'
  <1> SUFFICES ASSUME IInv, [Next]_vars PROVE IInv'
    OBVIOUS
  <1>1. ASSUME NEW w \in Workers, Evict(w) PROVE IInv'
    BY <1>1, ReserveStep, WriteStep, WriteFailsStep, RegisterStep DEF Evict
  <1>2. ASSUME NEW w \in Workers, Load(w) \/ Save(w) PROVE IInv'
    BY <1>2, LoadSaveStep
  <1>3. CASE Restart
    BY <1>3, RestartStep
  <1>4. CASE UNCHANGED vars
    BY <1>4 DEF IInv, vars, locks, TypeOK, PlacedInv, DisjointInv, DiskInv, ReaderInv,
                SavedInv, TableIsFresh, OnePerLayer, Reserved, Placed
  <1> QED BY <1>1, <1>2, <1>3, <1>4 DEF Next

(* The invariant holds in every state of every instance.                   *)
THEOREM InductiveInvariant == Spec => []IInv
  BY InitIInv, StepIInv, PTL DEF Spec

(* Every variable keeps its type.                                          *)
THEOREM TypeCorrect == Spec => []TypeOK
  <1>1. IInv => TypeOK
    BY DEF IInv
  <1> QED BY <1>1, InductiveInvariant, PTL

LEMMA IInvReadBack == IInv => HandlesReadBack
  BY DecodedUnique DEF IInv, TypeOK, DiskInv, HandlesReadBack

(* evict_layer / load_layer: a handle returned in this session reads back  *)
(* what was evicted under it.                                              *)
THEOREM HandleIntegrity == Spec => []HandlesReadBack
  BY IInvReadBack, InductiveInvariant, PTL

(* evict_layer's reservation: the ranges of one session never overlap and  *)
(* stay inside the file.                                                   *)
THEOREM SpaceIsExclusive == Spec => []NoSharedBytes
  <1>1. IInv => NoSharedBytes
    BY DEF IInv, PlacedInv, DisjointInv, NoSharedBytes, InFlight, Reserved, Placed,
           Disjoint
  <1> QED BY <1>1, InductiveInvariant, PTL

(* Register: a layer evicted in this session is found through a handle of  *)
(* this session, whatever table the restart loaded.                        *)
THEOREM TableFreshness == Spec => []TableIsFresh
  <1>1. IInv => TableIsFresh
    BY DEF IInv
  <1> QED BY <1>1, InductiveInvariant, PTL

(* What a load decodes: the shared file position is the loader's own, so a *)
(* handle of this session yields its frame.                                *)
LEMMA LoadDecodes ==
  ASSUME IInv, NEW w \in Workers, LoadRead(w), job[w] \in issued
  PROVE  got'[w] = {job[w].frame}
  <1>1. cursor = job[w].offset
    BY DEF IInv, ReaderInv, LoadRead
  <1>2. Decoded(job[w].offset, job[w].size) = {job[w].frame}
    BY IInvReadBack DEF HandlesReadBack
  <1> QED BY <1>1, <1>2 DEF LoadRead, IInv, TypeOK

(* load_layer: concurrent loads through the one persistent handle never    *)
(* get each other's bytes.                                                 *)
THEOREM LoadIntegrity == Spec => LoadsReturnOwnFrame
  <1> DEFINE Own == \A w \in Workers :
       (pc[w] = "read" /\ pc'[w] = "loaded" /\ job[w] \in issued)
         => got'[w] = {job[w].frame}
  <1>1. IInv /\ [Next]_vars => [Own]_vars
    <2> SUFFICES ASSUME IInv, Next, NEW w \in Workers, pc[w] = "read",
                        pc'[w] = "loaded", job[w] \in issued
                 PROVE  got'[w] = {job[w].frame}
      OBVIOUS
    <2>1. LoadRead(w)
      BY DEF IInv, TypeOK, Next, Evict, Load, Save, Reserve, WriteFrame, WriteFails,
             Register, LoadSeek, LoadRead, LoadFails, Return, SaveBegin, SaveEnd,
             Restart
    <2> QED BY <2>1, LoadDecodes
  <1> QED BY <1>1, InductiveInvariant, PTL DEF Spec, LoadsReturnOwnFrame

-----------------------------------------------------------------------------
(* The refinement of the write-once store, step by step.                   *)

LEMMA TicketOfHandle ==
  ASSUME NEW h \in Handles
  PROVE  Ticket(h) \in [layer : Layers, offset : PageOffsets, size : FrameSizes]
  BY DEF Ticket, Handles

LEMMA StoreInitially == Init => Store!StoreInit
  BY DEF Init, Store!StoreInit, Replies, Reply

(* A worker's reply changes only when it enters or leaves "loaded".        *)
LEMMA RepliesKept ==
  ASSUME TypeOK, NEW w \in Workers, pc[w] # "loaded", pc'[w] # "loaded",
         \A v \in Workers : v # w =>
           pc'[v] = pc[v] /\ job'[v] = job[v] /\ got'[v] = got[v]
  PROVE  Replies' = Replies
  <1>1. \A v \in Workers : Reply(v)' = Reply(v)
    BY DEF Reply, Ticket
  <1> QED BY <1>1 DEF Replies

(* Registering issues a ticket nobody holds: two handles of one session    *)
(* never start at the same offset.                                         *)
LEMMA RegisterIsPut ==
  ASSUME IInv, NEW w \in Workers, Register(w)
  PROVE  Store!StoreNext \/ UNCHANGED Store!storeVars
  <1>1. TypeOK /\ pc[w] = "register" BY DEF IInv, Register
  <1>2. PICK n \in Handles : n = job[w] /\ Placed(n)
    BY <1>1 DEF TypeOK, IInv, PlacedInv, Reserved
  <1>3. /\ issued' = issued \cup {n}
        /\ table' = {h \in table : h.layer # n.layer} \cup {n}
    BY <1>2 DEF Register
  <1>4. Replies' = Replies
    BY <1>1, RepliesKept DEF Register, TypeOK
  <1>5. n.layer \in Layers /\ n.frame \in Frames /\ n.offset \in Nat /\ n.size \in Nat
    BY HandleIsNat
  <1>6. Ticket(n) \in [layer : Layers, offset : PageOffsets, size : FrameSizes]
    BY TicketOfHandle
  <1>7. ASSUME NEW h \in issued
        PROVE  Ticket(h) # Ticket(n)
    <2>1. h \in Handles /\ Disjoint(h, n) /\ Placed(h)
      BY <1>1, <1>2 DEF IInv, TypeOK, DisjointInv, PlacedInv, Reserved
    <2>2. h.offset \in Nat /\ h.size \in Nat /\ h.size > 0
      BY <2>1, HandleIsNat, PagesAssumption DEF Placed
    <2>3. n.size > 0
      BY <1>2, <1>5, PagesAssumption DEF Placed
    <2>4. h.offset # n.offset
      BY <1>5, <2>1, <2>2, <2>3 DEF Disjoint
    <2> QED BY <2>4 DEF Ticket
  <1>8. Store!Put(n.layer, Ticket(n), n.frame)
    <2> DEFINE C == {<<Ticket(h), h.frame>> : h \in issued}
               D == {<<h.layer, Ticket(h)>> : h \in table \cap issued}
               Dp == {<<h.layer, Ticket(h)>> : h \in table' \cap issued'}
    <2>1. \A c \in C : c[1] # Ticket(n)
      BY <1>7
    <2>2. {<<Ticket(h), h.frame>> : h \in issued'} = C \cup {<<Ticket(n), n.frame>>}
      BY <1>3
    <2>3. Dp = {e \in D : e[1] # n.layer} \cup {<<n.layer, Ticket(n)>>}
      <3>1. table' \cap issued' = {h \in table \cap issued : h.layer # n.layer} \cup {n}
        BY <1>3
      <3> QED BY <3>1
    <2> QED BY <1>3, <1>4, <2>1, <2>2, <2>3 DEF Store!Put, Ticket
  <1> QED BY <1>5, <1>6, <1>8 DEF Store!StoreNext

(* A load is a Get of its handle's ticket; a handle of an earlier session  *)
(* is no ticket of this one unless it equals one.                          *)
LEMMA LoadReadIsGet ==
  ASSUME IInv, NEW w \in Workers, LoadRead(w)
  PROVE  Store!StoreNext \/ UNCHANGED Store!storeVars
  <1>0. TypeOK /\ pc[w] = "read" BY DEF IInv, LoadRead
  <1>1. PICK n \in Handles : n = job[w] /\ cursor = n.offset
    BY <1>0 DEF TypeOK, IInv, ReaderInv
  <1> DEFINE r == Decoded(n.offset, n.size)
             C == {<<Ticket(h), h.frame>> : h \in issued}
  <1>2. r \in SUBSET Frames
    BY <1>0 DEF TypeOK, Decoded, Extents
  <1>3. ASSUME NEW c \in C, c[1] = Ticket(n)
        PROVE  r = {c[2]}
    <2>1. PICK h \in issued : c = <<Ticket(h), h.frame>>
      OBVIOUS
    <2>2. h.offset = n.offset /\ h.size = n.size
      BY <1>3, <2>1 DEF Ticket
    <2>3. Decoded(h.offset, h.size) = {h.frame}
      BY IInvReadBack DEF HandlesReadBack
    <2> QED BY <2>1, <2>2, <2>3
  <1>4. /\ issued' = issued /\ table' = table
        /\ Replies' = [Replies EXCEPT ![w] = <<Ticket(n), r>>]
    <2>1. Reply(w)' = <<Ticket(n), r>>
      BY <1>0, <1>1 DEF LoadRead, Reply, Ticket, TypeOK
    <2>2. \A v \in Workers : v # w => Reply(v)' = Reply(v)
      BY <1>0 DEF LoadRead, Reply, Ticket, TypeOK
    <2> QED BY <2>1, <2>2 DEF Replies, LoadRead
  <1> QED
    <2>1. Ticket(n) \in [layer : Layers, offset : PageOffsets, size : FrameSizes]
      BY TicketOfHandle
    <2>2. Store!Get(w, Ticket(n))
      BY <1>2, <1>3, <1>4 DEF Store!Get
    <2> QED BY <2>1, <2>2 DEF Store!StoreNext

(* The last step of each kind: every step of the manager is a step of the  *)
(* store or leaves the store alone.                                        *)
LEMMA StepRefines ==
  ASSUME IInv, [Next]_vars
  PROVE  Store!StoreNext \/ UNCHANGED Store!storeVars
  <1> DEFINE Goal == Store!StoreNext \/ UNCHANGED Store!storeVars
  <1>0. TypeOK
    BY DEF IInv
  <1>1. ASSUME UNCHANGED <<issued, table>>, Replies' = Replies PROVE Goal
    BY <1>1 DEF Store!storeVars
  <1>2. ASSUME NEW w \in Workers, Evict(w) PROVE Goal
    <2>1. CASE Register(w)
      BY <2>1, RegisterIsPut
    <2>2. CASE ~ Register(w)
      <3>1. Replies' = Replies
        BY <1>0, <1>2, <2>2, RepliesKept
        DEF Evict, Reserve, WriteFrame, WriteFails, TypeOK
      <3> QED BY <1>1, <1>2, <2>2, <3>1 DEF Evict, Reserve, WriteFrame, WriteFails
    <2> QED BY <2>1, <2>2
  <1>3. ASSUME NEW w \in Workers, Load(w) PROVE Goal
    <2>1. CASE LoadRead(w)
      BY <2>1, LoadReadIsGet
    <2>2. CASE Return(w)
      <3>1. Replies' = [Replies EXCEPT ![w] = NoReply]
        <4>1. Reply(w)' = NoReply
          BY <1>0, <2>2 DEF Return, Reply, TypeOK
        <4>2. \A v \in Workers : v # w => Reply(v)' = Reply(v)
          BY <1>0, <2>2 DEF Return, Reply, Ticket, TypeOK
        <4> QED BY <4>1, <4>2 DEF Replies
      <3> QED BY <2>2, <3>1 DEF Return, Store!StoreNext
    <2>3. CASE ~ LoadRead(w) /\ ~ Return(w)
      <3>1. Replies' = Replies
        BY <1>0, <1>3, <2>3, RepliesKept DEF Load, LoadSeek, LoadFails, TypeOK
      <3> QED BY <1>1, <1>3, <2>3, <3>1 DEF Load, LoadSeek, LoadFails
    <2> QED BY <2>1, <2>2, <2>3
  <1>4. ASSUME NEW w \in Workers, Save(w) PROVE Goal
    <2>1. Replies' = Replies
      BY <1>0, <1>4, RepliesKept DEF Save, SaveBegin, SaveEnd, TypeOK
    <2> QED BY <1>1, <1>4, <2>1 DEF Save, SaveBegin, SaveEnd
  <1>5. CASE Restart
    BY <1>5 DEF Restart, Store!StoreNext, Store!Forget, Store!StoreInit, Replies,
                Reply
  <1>6. CASE UNCHANGED vars
    BY <1>1, <1>6 DEF vars, Replies, Reply, Ticket
  <1> QED BY <1>2, <1>3, <1>4, <1>5, <1>6 DEF Next

(* PhantomPageManager implements the write-once page store.                *)
THEOREM ImplementsPageStore == Spec => ImplementsStore
  <1>1. IInv /\ [Next]_vars => [Store!StoreNext]_(Store!storeVars)
    BY StepRefines
  <1> QED
    BY <1>1, StoreInitially, InductiveInvariant, PTL
    DEF Spec, ImplementsStore, Store!StoreSpec
=============================================================================
