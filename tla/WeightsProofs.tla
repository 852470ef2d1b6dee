----------------------------- MODULE WeightsProofs -----------------------------
(***************************************************************************)
(* Proofs about weights on disk: the local library, for any number of      *)
(* processes, chunks, layers and failures, and the tile paging engine, for *)
(* any number of layers, reads and pool threads, with and without pread.   *)
(* And what the readers make of a file, a model and a configuration of any *)
(* size.                                                                   *)
(***************************************************************************)
EXTENDS MCWeights, DataProofs, TLAPS

-----------------------------------------------------------------------------
(* THE LIBRARY.  Its types hold together with what a removal leaves: a     *)
(* process that fills a file of a directory that is gone writes to a file  *)
(* without a name.                                                         *)
Chunk == 0..Chunks
FilesTyped == /\ \A f \in part \cup gguf : f \in Seq(Chunk)
              /\ \A f, g \in part : f = g
              /\ \A f, g \in gguf : f = g
Manifests == L!Sources \cup {"none", "torn", "passthrough"}
LayerStates == L!Sources \cup {"none", "torn"}
ModelTyped == /\ dir \in BOOLEAN /\ weights \in [1..LibraryLayers -> LayerStates]
              /\ manifest \in Manifests /\ sentinel \in BOOLEAN
              /\ ~ dir => manifest = "none" /\ ~ sentinel /\ weights = L!Nothing
Conversions == [source : L!Sources, skip : BOOLEAN, next : 1..LibraryLayers, lost : BOOLEAN]
ProcsTyped == /\ pc \in [Procs -> L!Phases]
              /\ fd \in [Procs -> {"none", "part", "gguf", "gone"}]
              /\ conv \in [Procs -> Conversions]
ResponsesTyped == /\ have \in [Procs -> Nat]
                  /\ left \in [Procs -> Seq(Chunk)] /\ hash \in [Procs -> Seq(Chunk)]
Filling == {"fill", "entries"}
Unnamed == \A p \in Procs : pc[p] \in Filling /\ ~ dir => conv[p].lost
LTyped == /\ sha \in HasSha /\ faults \in 0..MaxFaults
          /\ FilesTyped /\ ModelTyped /\ ProcsTyped /\ ResponsesTyped /\ Unnamed

LEMMA Sizes ==
  /\ Chunks \in Nat \ {0} /\ LibraryLayers \in Nat \ {0} /\ MaxFaults \in Nat
  /\ HasSha \subseteq BOOLEAN /\ 1 \in 1..LibraryLayers /\ <<>> \in Seq(Chunk)
  /\ L!Full \in Seq(Chunk) /\ Len(L!Full) = Chunks /\ \A i \in 1..Chunks : L!Full[i] = i
BY LibrarySized DEF L!LibraryAssumption, L!Full, Chunk

LEMMA TypedIsTypeOK == LTyped => L!TypeOK
BY DEF LTyped, FilesTyped, ModelTyped, ProcsTyped, ResponsesTyped, Chunk, Manifests,
       LayerStates, Conversions, L!TypeOK

(* What the start, the bounds and the end of a piece of work do.           *)
LEMMA StartsTyped ==
  ASSUME LTyped, L!Starts \/ L!Fault \/ faults' = faults PROVE faults' \in 0..MaxFaults
BY Sizes DEF LTyped, L!Starts, L!Fault

LEMMA EndsTyped ==
  ASSUME ProcsTyped, NEW p \in Procs, L!Ends(p), fd' = fd
  PROVE  ProcsTyped' /\ (Unnamed /\ (dir => dir') => Unnamed')
BY Sizes DEF L!Ends, L!GoTo, L!NoConv, L!Phases, L!Sources, ProcsTyped, Conversions, Unnamed,
             Filling

LEMMA ClosesTyped ==
  ASSUME ResponsesTyped, NEW p \in Procs, L!Closes(p) PROVE ResponsesTyped'
BY Sizes DEF L!Closes, ResponsesTyped

LEMMA FoundNat == ASSUME FilesTyped PROVE L!Found \in Nat
BY DEF FilesTyped, L!Found, L!Content

LEMMA HeadTailChunk ==
  ASSUME NEW s \in Seq(Chunk), s # <<>>
  PROVE  /\ Head(s) = s[1] /\ Head(s) \in Chunk /\ Tail(s) \in Seq(Chunk)
         /\ Len(s) \in Nat /\ Len(s) >= 1 /\ Len(Tail(s)) = Len(s) - 1
         /\ \A i \in 1..(Len(s) - 1) : Tail(s)[i] = s[i + 1]
<1>1. Chunk \subseteq Nat
  BY Sizes DEF Chunk
<1> QED BY <1>1

LEMMA WrittenTyped ==
  ASSUME NEW f \in Seq(Chunk), NEW at \in Nat, NEW chunk \in Chunk
  PROVE  L!Written(f, at, chunk) \in Seq(Chunk)
<1> DEFINE n == IF at < Len(f) THEN Len(f) ELSE at + 1
<1>1. n \in Nat /\ 0 \in Chunk
  BY Sizes DEF Chunk
<1>2. \A i \in 1..n :
        (IF i = at + 1 THEN chunk ELSE IF i <= Len(f) THEN f[i] ELSE 0) \in Chunk
  <2> TAKE i \in 1..n
  <2>1. i <= Len(f) => f[i] \in Chunk
    OBVIOUS
  <2> QED BY <1>1, <2>1
<1> HIDE DEF n
<1>3. [i \in 1..n |-> IF i = at + 1 THEN chunk ELSE IF i <= Len(f) THEN f[i] ELSE 0]
        \in Seq(Chunk)
  BY <1>1, <1>2
<1> QED BY <1>3 DEF n, L!Written

LEMMA PutTyped ==
  ASSUME LTyped, NEW p \in Procs, left[p] # <<>>, NEW it \in {part, gguf}
  PROVE  /\ \A f \in L!Put(p, it) : f \in Seq(Chunk)
         /\ \A f, g \in L!Put(p, it) : f = g
<1>1. left[p] \in Seq(Chunk) /\ hash[p] \in Seq(Chunk)
  BY DEF LTyped, ResponsesTyped
<1>2. Head(left[p]) \in Chunk
  BY <1>1, HeadTailChunk
<1>3. /\ \A f \in it : f \in Seq(Chunk)
      /\ \A f, g \in it : f = g
  BY DEF LTyped, FilesTyped
<1>4. ASSUME NEW f \in it PROVE L!Position(p, f) \in Nat
  BY <1>1, <1>3 DEF L!Position
<1>5. \A f \in it : L!Written(f, L!Position(p, f), Head(left[p])) \in Seq(Chunk)
  BY <1>2, <1>3, <1>4, WrittenTyped
<1> QED BY <1>3, <1>5 DEF L!Put

(* A file that is moved keeps a descriptor's state a legal one.            *)
LEMMA MovedTyped ==
  ASSUME ProcsTyped, NEW p \in Procs,
         \/ L!Moved(p, [part |-> "gone"])
         \/ L!Moved(p, [part |-> "gguf", gguf |-> "gone"])
         \/ L!Moved(p, [gguf |-> "gone"])
  PROVE  fd' \in [Procs -> {"none", "part", "gguf", "gone"}]
BY DEF L!Moved, ProcsTyped

-----------------------------------------------------------------------------
(* Each operation keeps the types.  First the downloads.                   *)
LEMMA DownloadTyped ==
  ASSUME LTyped, NEW p \in Procs,
         \/ L!Request(p) \/ L!RequestOther(p) \/ L!NotSatisfiable(p) \/ L!Open(p)
         \/ L!OpenFails(p) \/ L!Fetch(p) \/ L!Truncated(p) \/ L!Mismatch(p)
         \/ L!Rename(p) \/ L!RenameFails(p)
  PROVE  LTyped'
<1> USE Sizes
<1>1. L!Found \in Nat /\ faults \in 0..MaxFaults
  BY FoundNat DEF LTyped
<1>2. ASSUME NEW chunks \in Seq(Chunk), L!Answer(p, chunks), UNCHANGED <<hash, fd, conv, dir>>
      PROVE  ProcsTyped' /\ ResponsesTyped' /\ Unnamed'
  BY <1>2, <1>1 DEF L!Answer, L!GoTo, L!Phases, LTyped, ProcsTyped, ResponsesTyped, Unnamed, Filling
<1>3. CASE L!Request(p)
  <2>1. SubSeq(L!Full, L!Found + 1, Chunks) \in Seq(Chunk)
    BY <1>1, <1>3 DEF L!Request
  <2>2. ProcsTyped' /\ ResponsesTyped' /\ Unnamed'
    BY <1>3, <1>2, <2>1 DEF L!Request, L!library
  <2> QED BY <1>3, <2>2 DEF L!Request, L!library, LTyped, FilesTyped, ModelTyped
<1>4. CASE L!RequestOther(p)
  <2>1. ASSUME L!Found < Chunks PROVE [i \in 1..Chunks - L!Found |-> 0] \in Seq(Chunk)
    BY <1>1, <2>1 DEF Chunk
  <2>2. ProcsTyped' /\ ResponsesTyped' /\ Unnamed'
    BY <1>4, <1>2, <2>1 DEF L!RequestOther, L!library
  <2>3. faults' \in 0..MaxFaults
    BY <1>4, StartsTyped DEF L!RequestOther
  <2> QED BY <1>4, <2>2, <2>3 DEF L!RequestOther, L!library, LTyped, FilesTyped, ModelTyped
<1>5. CASE L!NotSatisfiable(p)
  <2>1. ProcsTyped' /\ Unnamed'
    BY <1>5, EndsTyped DEF L!NotSatisfiable, L!library, L!download, LTyped
  <2> QED BY <1>5, <2>1
         DEF L!NotSatisfiable, L!library, L!download, LTyped, FilesTyped, ModelTyped, ResponsesTyped
<1>6. CASE L!Open(p)
  <2>1. have[p] > 0 => L!Content(part) \in Seq(Chunk)
    BY <1>6 DEF L!Open, L!Content, LTyped, FilesTyped
  <2>2. hash' \in [Procs -> Seq(Chunk)]
    BY <1>6, <2>1 DEF L!Open, LTyped, ResponsesTyped
  <2>3. FilesTyped'
    BY <1>6 DEF L!Open, LTyped, FilesTyped
  <2>4. ProcsTyped' /\ Unnamed'
    BY <1>6 DEF L!Open, L!GoTo, L!Phases, L!library, LTyped, ProcsTyped, Unnamed, Filling
  <2> QED BY <1>6, <2>2, <2>3, <2>4
         DEF L!Open, L!library, LTyped, ModelTyped, ResponsesTyped
<1>7. CASE L!OpenFails(p)
  <2>1. ProcsTyped' /\ Unnamed' /\ ResponsesTyped'
    BY <1>7, EndsTyped, ClosesTyped DEF L!OpenFails, L!library, LTyped
  <2> QED BY <1>7, <2>1 DEF L!OpenFails, L!library, LTyped, FilesTyped, ModelTyped
<1>8. CASE L!Fetch(p)
  <2>1. left[p] \in Seq(Chunk) /\ left[p] # <<>> /\ hash[p] \in Seq(Chunk)
    BY <1>8 DEF L!Fetch, LTyped, ResponsesTyped
  <2>2. Head(left[p]) \in Chunk /\ Tail(left[p]) \in Seq(Chunk)
    BY <2>1, HeadTailChunk
  <2>3. ResponsesTyped'
    BY <1>8, <2>1, <2>2 DEF L!Fetch, LTyped, ResponsesTyped
  <2>4. FilesTyped'
    BY <1>8, <2>1, PutTyped DEF L!Fetch, LTyped, FilesTyped
  <2> QED BY <1>8, <2>3, <2>4 DEF L!Fetch, L!library, LTyped, ModelTyped, ProcsTyped, Unnamed
<1>9. CASE L!Truncated(p)
  <2>1. faults' \in 0..MaxFaults
    BY <1>9, StartsTyped DEF L!Truncated
  <2> QED BY <1>9, <2>1 DEF L!Truncated, L!library, LTyped, FilesTyped, ModelTyped, ProcsTyped,
                         ResponsesTyped, Unnamed
<1>10. CASE L!Mismatch(p)
  <2>1. ProcsTyped' /\ Unnamed'
    <3>1. fd' \in [Procs -> {"none", "part", "gguf", "gone"}]
      BY <1>10, MovedTyped DEF L!Mismatch, LTyped
    <3> QED BY <1>10, <3>1 DEF L!Mismatch, L!Ends, L!GoTo, L!NoConv, L!Phases, L!Sources, L!library,
                           LTyped, ProcsTyped, Conversions, Unnamed, Filling
  <2> QED BY <1>10, <2>1, ClosesTyped DEF L!Mismatch, L!library, LTyped, FilesTyped, ModelTyped
<1>11. CASE L!Rename(p)
  <2>1. ProcsTyped' /\ Unnamed'
    <3>1. fd' \in [Procs -> {"none", "part", "gguf", "gone"}]
      BY <1>11, MovedTyped DEF L!Rename, LTyped
    <3> QED BY <1>11, <3>1 DEF L!Rename, L!GoTo, L!Phases, LTyped, ProcsTyped, Unnamed, Filling
  <2>2. FilesTyped'
    BY <1>11 DEF L!Rename, LTyped, FilesTyped
  <2>3. ModelTyped'
    BY <1>11 DEF L!Rename, LTyped, ModelTyped, ProcsTyped, Conversions
  <2> QED BY <1>11, <2>1, <2>2, <2>3, ClosesTyped DEF L!Rename, LTyped
<1>12. CASE L!RenameFails(p)
  <2>1. ProcsTyped' /\ Unnamed'
    <3>1. fd' \in [Procs -> {"none", "part", "gguf", "gone"}]
      BY <1>12, MovedTyped DEF L!RenameFails, LTyped
    <3> QED BY <1>12, <3>1 DEF L!RenameFails, L!Ends, L!GoTo, L!NoConv, L!Phases, L!Sources,
                            L!library, LTyped, ProcsTyped, Conversions, Unnamed, Filling
  <2> QED BY <1>12, <2>1, ClosesTyped DEF L!RenameFails, L!library, LTyped, FilesTyped, ModelTyped
<1> QED BY <1>3, <1>4, <1>5, <1>6, <1>7, <1>8, <1>9, <1>10, <1>11, <1>12

(* The pull, and the conversion.                                           *)
LEMMA BuildTyped ==
  ASSUME LTyped, NEW p \in Procs, NEW source \in L!Sources, NEW force \in BOOLEAN,
         L!Build(p, source, force), fd' = fd, UNCHANGED <<weights, manifest, sentinel>>
  PROVE  ModelTyped' /\ ProcsTyped' /\ Unnamed'
<1>1. ModelTyped' /\ dir'
  BY DEF L!Build, LTyped, ModelTyped
<1>2. CASE L!Ends(p)
  BY <1>1, <1>2, EndsTyped DEF LTyped
<1>3. CASE L!GoTo(p, "layer") /\ conv' = [conv EXCEPT ![p].source = source, ![p].next = 1]
  <2>1. [conv[p] EXCEPT !.source = source, !.next = 1] \in Conversions
    BY Sizes DEF LTyped, ProcsTyped, Conversions
  <2>2. conv' = [conv EXCEPT ![p] = [conv[p] EXCEPT !.source = source, !.next = 1]]
    BY <1>3 DEF LTyped, ProcsTyped
  <2>3. conv' \in [Procs -> Conversions]
    BY <2>1, <2>2 DEF LTyped, ProcsTyped
  <2> QED BY <1>1, <1>3, <2>3 DEF L!GoTo, L!Phases, LTyped, ProcsTyped, Unnamed
<1> QED BY <1>1, <1>2, <1>3 DEF L!Build

LEMMA ConversionTyped ==
  ASSUME LTyped, NEW p \in Procs,
         \/ L!Pull(p) \/ L!ConvertLocal(p) \/ L!ConvertPulled(p) \/ L!ConvertFails(p)
         \/ L!OpenLayer(p) \/ L!FillLayer(p) \/ L!OpenManifest(p) \/ L!FillManifest(p)
         \/ L!WriteSentinel(p) \/ L!OpenLastFails(p) \/ L!Stop(p)
  PROVE  LTyped'
<1> USE Sizes
<1>1. CASE L!Pull(p)
  <2>1. faults' \in 0..MaxFaults
    BY <1>1, StartsTyped DEF L!Pull
  <2>2. ModelTyped'
    BY <1>1 DEF L!Pull, L!download, LTyped, ModelTyped
  <2>3. PICK skip \in BOOLEAN : conv' = [conv EXCEPT ![p].skip = skip]
    BY <1>1 DEF L!Pull
  <2>4. [conv[p] EXCEPT !.skip = skip] \in Conversions
    BY DEF LTyped, ProcsTyped, Conversions
  <2>5. conv' = [conv EXCEPT ![p] = [conv[p] EXCEPT !.skip = skip]]
    BY <2>3 DEF LTyped, ProcsTyped
  <2>6. conv' \in [Procs -> Conversions] /\ \A q \in Procs \ {p} : conv'[q] = conv[q]
    BY <2>4, <2>5 DEF LTyped, ProcsTyped
  <2>7. PICK s \in {"request", "manifest", "convert"} : pc' = [pc EXCEPT ![p] = s]
    BY <1>1 DEF L!Pull, L!GoTo
  <2>8. fd' = fd /\ (~ dir' => ~ dir)
    BY <1>1 DEF L!Pull, L!download
  <2>9. ProcsTyped' /\ Unnamed'
    BY <2>6, <2>7, <2>8 DEF L!Phases, LTyped, ProcsTyped, Unnamed, Filling
  <2> QED BY <1>1, <2>1, <2>2, <2>9 DEF L!Pull, L!download, LTyped, FilesTyped, ResponsesTyped
<1>2. CASE L!ConvertLocal(p)
  <2>1. faults' \in 0..MaxFaults
    BY <1>2, StartsTyped DEF L!ConvertLocal
  <2>2. ModelTyped' /\ ProcsTyped' /\ Unnamed'
    BY <1>2, BuildTyped DEF L!ConvertLocal, L!download, L!Sources
  <2> QED BY <1>2, <2>1, <2>2 DEF L!ConvertLocal, L!download, LTyped, FilesTyped, ResponsesTyped
<1>3. CASE L!ConvertPulled(p)
  <2>1. ModelTyped' /\ ProcsTyped' /\ Unnamed'
    BY <1>3, BuildTyped DEF L!ConvertPulled, L!download, L!Sources
  <2> QED BY <1>3, <2>1 DEF L!ConvertPulled, L!download, LTyped, FilesTyped, ResponsesTyped
<1>4. CASE L!ConvertFails(p)
  <2>1. ProcsTyped' /\ Unnamed'
    BY <1>4, EndsTyped DEF L!ConvertFails, L!download, LTyped
  <2> QED BY <1>4, <2>1 DEF L!ConvertFails, L!download, LTyped, FilesTyped, ModelTyped,
                         ResponsesTyped
<1>5. CASE L!OpenLayer(p)
  <2>1. conv[p].next \in 1..LibraryLayers
    BY DEF LTyped, ProcsTyped, Conversions
  <2>2. ModelTyped'
    BY <1>5, <2>1 DEF L!OpenLayer, LTyped, ModelTyped, LayerStates
  <2>3. ProcsTyped' /\ Unnamed'
    <3>1. [conv[p] EXCEPT !.lost = FALSE] \in Conversions
      BY DEF LTyped, ProcsTyped, Conversions
    <3>2. conv' = [conv EXCEPT ![p] = [conv[p] EXCEPT !.lost = FALSE]]
      BY <1>5 DEF L!OpenLayer, LTyped, ProcsTyped
    <3>3. conv' \in [Procs -> Conversions] /\ \A q \in Procs \ {p} : conv'[q] = conv[q]
      BY <3>1, <3>2 DEF LTyped, ProcsTyped
    <3>4. /\ pc' = [pc EXCEPT ![p] = "fill"] /\ fd' = fd /\ dir'
      BY <1>5 DEF L!OpenLayer, L!GoTo, L!download
    <3> QED BY <3>3, <3>4 DEF L!Phases, LTyped, ProcsTyped, Unnamed
  <2> QED BY <1>5, <2>2, <2>3 DEF L!OpenLayer, L!download, LTyped, FilesTyped, ResponsesTyped
<1>6. CASE L!FillLayer(p)
  <2>1. conv[p].next \in 1..LibraryLayers /\ conv[p].source \in L!Sources
    BY DEF LTyped, ProcsTyped, Conversions
  <2>2. ~ dir => conv[p].lost
    BY <1>6 DEF L!FillLayer, LTyped, Unnamed, Filling
  <2>3. PICK w \in L!Sources \cup {"torn"} :
          weights' = IF conv[p].lost THEN weights ELSE [weights EXCEPT ![conv[p].next] = w]
    BY <1>6, <2>1 DEF L!FillLayer
  <2>4. ModelTyped'
    BY <1>6, <2>1, <2>2, <2>3 DEF L!FillLayer, LTyped, ModelTyped, LayerStates
  <2>5. ProcsTyped' /\ Unnamed'
    <3>1. CASE conv[p].next < LibraryLayers
      <4> DEFINE n == conv[p].next + 1
      <4>1. n \in 1..LibraryLayers
        BY <2>1, <3>1
      <4>2. conv' = [conv EXCEPT ![p].next = n]
        BY <1>6, <3>1 DEF L!FillLayer
      <4> HIDE DEF n
      <4>3. [conv[p] EXCEPT !.next = n] \in Conversions
        BY <4>1 DEF LTyped, ProcsTyped, Conversions
      <4>4. conv' = [conv EXCEPT ![p] = [conv[p] EXCEPT !.next = n]]
        BY <4>2 DEF LTyped, ProcsTyped
      <4>5. conv' \in [Procs -> Conversions] /\ \A q \in Procs \ {p} : conv'[q] = conv[q]
        BY <4>3, <4>4 DEF LTyped, ProcsTyped
      <4>6. pc' = [pc EXCEPT ![p] = "layer"] /\ UNCHANGED <<fd, dir>>
        BY <1>6, <3>1 DEF L!FillLayer, L!GoTo, L!download
      <4> QED BY <4>5, <4>6 DEF L!Phases, LTyped, ProcsTyped, Unnamed, Filling
    <3>2. CASE ~ (conv[p].next < LibraryLayers)
      BY <1>6, <3>2 DEF L!FillLayer, L!GoTo, L!Phases, L!download, LTyped, ProcsTyped, Unnamed,
                        Filling
    <3> QED BY <3>1, <3>2
  <2> QED BY <1>6, <2>4, <2>5 DEF L!FillLayer, L!download, LTyped, FilesTyped, ResponsesTyped
<1>7. CASE L!OpenManifest(p)
  <2>1. ModelTyped'
    BY <1>7 DEF L!OpenManifest, LTyped, ModelTyped, Manifests
  <2>2. ProcsTyped' /\ Unnamed'
    <3>1. [conv[p] EXCEPT !.lost = FALSE] \in Conversions
      BY DEF LTyped, ProcsTyped, Conversions
    <3>2. conv' = [conv EXCEPT ![p] = [conv[p] EXCEPT !.lost = FALSE]]
      BY <1>7 DEF L!OpenManifest, LTyped, ProcsTyped
    <3>3. conv' \in [Procs -> Conversions] /\ \A q \in Procs \ {p} : conv'[q] = conv[q]
      BY <3>1, <3>2 DEF LTyped, ProcsTyped
    <3>4. /\ pc' = [pc EXCEPT ![p] = "entries"] /\ UNCHANGED <<fd, dir>> /\ dir
      BY <1>7 DEF L!OpenManifest, L!GoTo, L!download
    <3> QED BY <3>3, <3>4 DEF L!Phases, LTyped, ProcsTyped, Unnamed
  <2> QED BY <1>7, <2>1, <2>2 DEF L!OpenManifest, L!download, LTyped, FilesTyped, ResponsesTyped
<1>8. CASE L!FillManifest(p)
  <2>1. conv[p].source \in L!Sources
    BY DEF LTyped, ProcsTyped, Conversions
  <2>2. ~ dir => conv[p].lost
    BY <1>8 DEF L!FillManifest, LTyped, Unnamed, Filling
  <2>3. ModelTyped'
    BY <1>8, <2>1, <2>2 DEF L!FillManifest, LTyped, ModelTyped, Manifests
  <2>4. ProcsTyped' /\ Unnamed'
    <3>1. CASE L!Ends(p)
      BY <1>8, <3>1, EndsTyped DEF L!FillManifest, L!download, LTyped
    <3>2. CASE L!GoTo(p, "sentinel") /\ UNCHANGED conv
      BY <1>8, <3>2 DEF L!FillManifest, L!GoTo, L!Phases, L!download, LTyped, ProcsTyped, Unnamed,
                        Filling
    <3> QED BY <1>8, <3>1, <3>2 DEF L!FillManifest
  <2> QED BY <1>8, <2>3, <2>4 DEF L!FillManifest, L!download, LTyped, FilesTyped, ResponsesTyped
<1>9. CASE L!WriteSentinel(p)
  <2>1. ProcsTyped' /\ Unnamed'
    BY <1>9, EndsTyped DEF L!WriteSentinel, L!download, LTyped
  <2> QED BY <1>9, <2>1 DEF L!WriteSentinel, L!download, LTyped, FilesTyped, ModelTyped,
                         ResponsesTyped
<1>10. CASE L!OpenLastFails(p)
  <2>1. ProcsTyped' /\ Unnamed'
    BY <1>10, EndsTyped DEF L!OpenLastFails, L!library, L!download, LTyped
  <2> QED BY <1>10, <2>1 DEF L!OpenLastFails, L!library, L!download, LTyped, FilesTyped,
                          ModelTyped, ResponsesTyped
<1>11. CASE L!Stop(p)
  <2>1. faults' \in 0..MaxFaults
    BY <1>11, StartsTyped DEF L!Stop
  <2>2. ProcsTyped' /\ Unnamed'
    BY <1>11 DEF L!Stop, L!Ends, L!GoTo, L!NoConv, L!Phases, L!Sources, L!library, LTyped,
                 ProcsTyped, Conversions, Unnamed, Filling
  <2> QED BY <1>11, <2>1, <2>2, ClosesTyped DEF L!Stop, L!library, LTyped, FilesTyped, ModelTyped
<1> QED BY <1>1, <1>2, <1>3, <1>4, <1>5, <1>6, <1>7, <1>8, <1>9, <1>10, <1>11

(* Removals.                                                               *)
LEMMA RemovalTyped == ASSUME LTyped, L!Rm \/ L!RmCut PROVE LTyped'
<1>1. L!Fault /\ L!Orphan /\ UNCHANGED <<sha, part, gguf, fd, have, left, hash, pc>>
  BY DEF L!Rm, L!RmCut, L!download
<1>2. faults' \in 0..MaxFaults /\ FilesTyped' /\ ResponsesTyped'
  BY <1>1, StartsTyped DEF LTyped, FilesTyped, ResponsesTyped
<1>3. \A q \in Procs : /\ conv'[q] \in Conversions
                       /\ pc[q] \in Filling => conv'[q].lost
  BY <1>1 DEF L!Orphan, LTyped, ProcsTyped, Conversions, Filling
<1>4. ProcsTyped' /\ Unnamed'
  <2>1. conv' \in [Procs -> Conversions]
    BY <1>1, <1>3 DEF L!Orphan
  <2> QED BY <1>1, <1>3, <2>1 DEF LTyped, ProcsTyped, Unnamed
<1>5. ModelTyped'
  <2>1. CASE L!Rm
    BY <2>1 DEF L!Rm, ModelTyped, L!Nothing, LayerStates, Manifests
  <2>2. CASE L!RmCut
    <3>1. PICK gone \in SUBSET (1..LibraryLayers) :
            weights' = [k \in 1..LibraryLayers |-> IF k \in gone THEN "none" ELSE weights[k]]
      BY <2>2 DEF L!RmCut
    <3>2. weights' \in [1..LibraryLayers -> LayerStates]
      BY <3>1 DEF LTyped, ModelTyped, LayerStates
    <3> QED BY <2>2, <3>2 DEF L!RmCut, LTyped, ModelTyped, Manifests
  <2> QED BY <2>1, <2>2
<1> QED BY <1>1, <1>2, <1>4, <1>5 DEF LTyped

LEMMA LibraryTyped == ASSUME LTyped, [L!Next]_libraryVars PROVE LTyped'
<1>1. CASE UNCHANGED libraryVars
  BY <1>1 DEF libraryVars, LTyped, FilesTyped, ModelTyped, ProcsTyped, ResponsesTyped, Unnamed
<1>2. CASE L!Next
  BY <1>2, DownloadTyped, ConversionTyped, RemovalTyped DEF L!Next, L!Work
<1> QED BY <1>1, <1>2

-----------------------------------------------------------------------------
(* As long as no two processes have been at it together, at most one works,*)
(* and a step of it leaves the others idle.                                *)
Alone == overlapped \/ \A p, q \in L!Busy : p = q
StepOf(p) == \/ L!Work(p) \/ L!ConvertLocal(p) \/ L!RequestOther(p) \/ L!Truncated(p)
             \/ L!Stop(p)

LEMMA StepMoves ==
  ASSUME LTyped, NEW p \in Procs, StepOf(p)
  PROVE  /\ \A q \in Procs \ {p} : pc'[q] = pc[q]
         /\ pc[p] = "idle" => L!Starts
         /\ overlapped => overlapped'
<1>1. ASSUME NEW s, L!GoTo(p, s) PROVE \A q \in Procs \ {p} : pc'[q] = pc[q]
  BY <1>1 DEF L!GoTo, LTyped, ProcsTyped
<1>2. ASSUME L!Ends(p) PROVE \A q \in Procs \ {p} : pc'[q] = pc[q]
  BY <1>2, <1>1 DEF L!Ends
<1>3. CASE L!Pull(p)
  BY <1>3, <1>1 DEF L!Pull, L!Starts
<1>4. CASE L!ConvertLocal(p)
  BY <1>4, <1>1, <1>2 DEF L!ConvertLocal, L!Build, L!Starts
<1>5. CASE L!Request(p) \/ L!RequestOther(p)
  BY <1>5, <1>1 DEF L!Request, L!RequestOther, L!Answer, L!history
<1>6. CASE L!NotSatisfiable(p) \/ L!OpenFails(p) \/ L!Mismatch(p) \/ L!RenameFails(p)
  <2>1. L!Ends(p) /\ pc[p] # "idle" /\ UNCHANGED overlapped
    BY <1>6 DEF L!NotSatisfiable, L!OpenFails, L!Mismatch, L!RenameFails, L!Verified, L!history
  <2> QED BY <2>1, <1>2
<1>7. CASE L!Open(p) \/ L!Rename(p)
  BY <1>7, <1>1 DEF L!Open, L!Rename, L!Verified, L!history
<1>8. CASE L!Fetch(p) \/ L!Truncated(p)
  BY <1>8 DEF L!Fetch, L!Truncated, L!history
<1>9. CASE L!ConvertPulled(p) \/ L!ConvertFails(p)
  BY <1>9, <1>1, <1>2 DEF L!ConvertPulled, L!ConvertFails, L!Build, L!history
<1>10. CASE L!OpenLayer(p) \/ L!FillLayer(p) \/ L!OpenManifest(p)
  BY <1>10, <1>1 DEF L!OpenLayer, L!FillLayer, L!OpenManifest, L!history
<1>11. CASE L!FillManifest(p) \/ L!WriteSentinel(p) \/ L!OpenLastFails(p) \/ L!Stop(p)
  BY <1>11, <1>1, <1>2 DEF L!FillManifest, L!WriteSentinel, L!OpenLastFails, L!Stop, L!history
<1> QED BY <1>3, <1>4, <1>5, <1>6, <1>7, <1>8, <1>9, <1>10, <1>11 DEF StepOf, L!Work

LEMMA OthersIdle ==
  ASSUME LTyped, Alone, NEW p \in Procs, StepOf(p), ~ overlapped', NEW q \in Procs \ {p}
  PROVE  pc[q] = "idle" /\ pc'[q] = "idle"
<1>1. pc'[q] = pc[q] /\ ~ overlapped /\ (pc[p] = "idle" => L!Starts)
  BY StepMoves
<1>2. CASE pc[p] = "idle"
  BY <1>1, <1>2 DEF L!Starts, L!Busy
<1>3. CASE pc[p] # "idle"
  BY <1>1, <1>3 DEF Alone, L!Busy
<1> QED BY <1>1, <1>2, <1>3

LEMMA AloneStays == ASSUME LTyped, Alone, [L!Next]_libraryVars PROVE Alone'
<1>1. ASSUME NEW p \in Procs, StepOf(p) PROVE Alone'
  BY <1>1, OthersIdle DEF Alone, L!Busy
<1>2. CASE L!Rm \/ L!RmCut
  BY <1>2 DEF L!Rm, L!RmCut, Alone, L!Busy
<1>3. CASE UNCHANGED libraryVars
  BY <1>3 DEF libraryVars, Alone, L!Busy
<1> QED BY <1>1, <1>2, <1>3 DEF L!Next, StepOf

-----------------------------------------------------------------------------
(* THE CONVERSION.  What the layer files hold in each phase of it, and     *)
(* what the manifest then stands for.                                      *)
Layered(n, source) == \A k \in 1..LibraryLayers : k < n => weights[k] = source
Built(source) == \A k \in 1..LibraryLayers : weights[k] = source
Converting(p) ==
  /\ pc[p] \in Filling => ~ conv[p].lost
  /\ pc[p] = "fill" /\ manifest # "none" => rebuilding
  /\ pc[p] \in {"layer", "fill"} => Layered(conv[p].next, conv[p].source)
  /\ pc[p] \in {"manifest", "entries"} /\ ~ conv[p].skip => Built(conv[p].source)
  /\ pc[p] = "sentinel" => manifest = conv[p].source /\ Built(conv[p].source)
Standing == manifest \in L!Sources /\ ~ rebuilding => Built(manifest)
Consistent == Standing /\ \A p \in Procs : Converting(p)
ConvertInv == overlapped \/ cut \/ Consistent

(* Most steps touch no file of the model.                                  *)
LEMMA Elsewhere ==
  ASSUME Consistent, NEW p \in Procs, UNCHANGED <<weights, manifest, rebuilding>>,
         Converting(p)', \A q \in Procs \ {p} : pc'[q] = "idle"
  PROVE  Consistent'
BY DEF Consistent, Standing, Built, Converting, Filling

LEMMA ConversionStep ==
  ASSUME LTyped, Alone, Consistent, NEW p \in Procs, StepOf(p), ~ overlapped', ~ cut'
  PROVE  Consistent'
<1> USE Sizes
<1>1. \A q \in Procs \ {p} : pc'[q] = "idle" /\ pc[q] = "idle"
  BY OthersIdle
<1>2. /\ conv[p].source \in L!Sources /\ conv[p].next \in 1..LibraryLayers
      /\ conv \in [Procs -> Conversions] /\ pc \in [Procs -> L!Phases]
      /\ weights \in [1..LibraryLayers -> LayerStates]
  BY DEF LTyped, ProcsTyped, ModelTyped, Conversions
<1>3. ASSUME UNCHANGED <<weights, manifest, rebuilding>>,
             pc'[p] \in {"idle", "request", "open", "fetch", "convert"}
      PROVE  Consistent'
  <2>1. Converting(p)'
    BY <1>3 DEF Converting, Filling
  <2> QED BY <1>3, <1>1, <2>1, Elsewhere
<1>4. ASSUME UNCHANGED <<weights, manifest, rebuilding>>, L!Ends(p) PROVE Consistent'
  BY <1>3, <1>4, <1>2 DEF L!Ends, L!GoTo
<1>5. ASSUME NEW source, NEW force, L!Build(p, source, force),
             UNCHANGED <<weights, manifest, rebuilding>>
      PROVE  Consistent'
  <2>1. CASE L!GoTo(p, "layer") /\ conv' = [conv EXCEPT ![p].source = source, ![p].next = 1]
    <3>1. pc'[p] = "layer" /\ conv'[p].next = 1
      BY <2>1, <1>2 DEF L!GoTo, Conversions
    <3>2. Converting(p)'
      BY <3>1 DEF Converting, Filling, Layered
    <3> QED BY <1>5, <1>1, <3>2, Elsewhere
  <2> QED BY <1>5, <1>4, <2>1 DEF L!Build
<1>6. CASE L!Pull(p)
  <2>1. UNCHANGED <<weights, manifest, rebuilding>>
    BY <1>6 DEF L!Pull
  <2>2. PICK skip \in BOOLEAN : /\ pc' = [pc EXCEPT ![p] = IF gguf = {} THEN "request" ELSE
                                            IF skip THEN "manifest" ELSE "convert"]
                                /\ conv' = [conv EXCEPT ![p].skip = skip]
    BY <1>6 DEF L!Pull, L!GoTo
  <2>3. conv'[p].skip = skip
    BY <2>2, <1>2 DEF Conversions
  <2>4. Converting(p)'
    BY <2>2, <2>3, <1>2 DEF Converting, Filling
  <2> QED BY <2>1, <2>4, <1>1, Elsewhere
<1>7. CASE L!ConvertLocal(p)
  BY <1>7, <1>5 DEF L!ConvertLocal
<1>8. CASE L!Request(p) \/ L!RequestOther(p)
  BY <1>8, <1>3, <1>2 DEF L!Request, L!RequestOther, L!Answer, L!GoTo, L!library, L!history
<1>9. CASE L!NotSatisfiable(p) \/ L!OpenFails(p) \/ L!Mismatch(p) \/ L!RenameFails(p)
  BY <1>9, <1>4 DEF L!NotSatisfiable, L!OpenFails, L!Mismatch, L!RenameFails, L!library, L!history
<1>10. CASE L!Open(p)
  BY <1>10, <1>3, <1>2 DEF L!Open, L!GoTo, L!library, L!history
<1>11. CASE L!Rename(p)
  <2>1. /\ UNCHANGED <<weights, manifest, rebuilding, conv>>
        /\ pc' = [pc EXCEPT ![p] = IF conv[p].skip THEN "manifest" ELSE "convert"]
    BY <1>11 DEF L!Rename, L!GoTo, L!history
  <2>2. Converting(p)'
    BY <2>1, <1>2 DEF Converting, Filling
  <2> QED BY <2>1, <2>2, <1>1, Elsewhere
<1>12. CASE L!Fetch(p) \/ L!Truncated(p)
  <2>1. pc[p] = "fetch" /\ UNCHANGED <<weights, manifest, rebuilding, pc>>
    BY <1>12 DEF L!Fetch, L!Truncated, L!library, L!history
  <2> QED BY <2>1, <1>3
<1>13. CASE L!ConvertPulled(p)
  BY <1>13, <1>5 DEF L!ConvertPulled, L!history
<1>14. CASE L!ConvertFails(p)
  BY <1>14, <1>4 DEF L!ConvertFails, L!history
<1>15. CASE L!OpenLayer(p)
  <2>1. /\ weights' = [weights EXCEPT ![conv[p].next] = "torn"] /\ manifest' = manifest
        /\ rebuilding' = (rebuilding \/ manifest # "none") /\ pc[p] = "layer"
        /\ pc'[p] = "fill" /\ conv'[p] = [conv[p] EXCEPT !.lost = FALSE]
    BY <1>15, <1>2 DEF L!OpenLayer, L!GoTo
  <2>2. Layered(conv[p].next, conv[p].source)'
    BY <2>1, <1>2 DEF Consistent, Converting, Layered, Conversions
  <2>3. conv'[p].next = conv[p].next /\ conv'[p].source = conv[p].source /\ ~ conv'[p].lost
    BY <2>1, <1>2 DEF Conversions
  <2>4. Converting(p)'
    BY <2>1, <2>2, <2>3 DEF Converting, Filling, Layered
  <2>5. Standing'
    BY <2>1 DEF Standing, L!Sources
  <2> QED BY <2>4, <2>5, <1>1 DEF Consistent, Converting, Filling
<1>16. CASE L!FillLayer(p)
  <2>1. ~ conv[p].lost /\ ~ L!Shared(p) /\ pc[p] = "fill"
    BY <1>16, <1>1 DEF L!FillLayer, L!Shared, Consistent, Converting, Filling
  <2>2. /\ weights' = [weights EXCEPT ![conv[p].next] = conv[p].source]
        /\ UNCHANGED <<manifest, rebuilding>>
    BY <1>16, <2>1 DEF L!FillLayer, L!history
  <2>3. manifest # "none" => rebuilding
    BY <2>1 DEF Consistent, Converting
  <2>4. Standing'
    BY <2>2, <2>3 DEF Standing, L!Sources
  <2>5. \A k \in 1..LibraryLayers : k <= conv[p].next => weights'[k] = conv[p].source
    <3>1. Layered(conv[p].next, conv[p].source)
      BY <2>1 DEF Consistent, Converting
    <3> QED BY <2>2, <3>1, <1>2 DEF Layered
  <2>6. CASE conv[p].next < LibraryLayers
    <3>1. pc'[p] = "layer" /\ conv' = [conv EXCEPT ![p].next = @ + 1]
      BY <1>16, <2>6, <1>2 DEF L!FillLayer, L!GoTo
    <3>2. conv'[p].next = conv[p].next + 1 /\ conv'[p].source = conv[p].source
      BY <3>1, <1>2 DEF Conversions
    <3>3. Layered(conv[p].next, conv[p].source)' 
      BY <2>5, <3>2, <1>2 DEF Layered
    <3>4. Converting(p)'
      BY <3>1, <3>3 DEF Converting, Filling
    <3> QED BY <2>4, <3>4, <1>1 DEF Consistent, Converting, Filling
  <2>7. CASE ~ (conv[p].next < LibraryLayers)
    <3>1. pc'[p] = "manifest" /\ conv' = conv
      BY <1>16, <2>7, <1>2 DEF L!FillLayer, L!GoTo
    <3>2. Built(conv[p].source)'
      BY <2>5, <2>7, <3>1, <1>2 DEF Built
    <3>3. Converting(p)'
      BY <3>1, <3>2 DEF Converting, Filling
    <3> QED BY <2>4, <3>3, <1>1 DEF Consistent, Converting, Filling
  <2> QED BY <2>6, <2>7
<1>17. CASE L!OpenManifest(p)
  <2>1. /\ manifest' = "torn" /\ weights' = weights /\ pc[p] = "manifest" /\ pc'[p] = "entries"
        /\ conv' = [conv EXCEPT ![p].lost = FALSE]
    BY <1>17, <1>2 DEF L!OpenManifest, L!GoTo
  <2>2. /\ conv'[p].skip = conv[p].skip /\ conv'[p].source = conv[p].source
        /\ ~ conv'[p].lost
    BY <2>1, <1>2 DEF Conversions
  <2>3. Converting(p)'
    BY <2>1, <2>2 DEF Consistent, Converting, Filling, Built
  <2>4. Standing'
    BY <2>1 DEF Standing, L!Sources
  <2> QED BY <2>3, <2>4, <1>1 DEF Consistent, Converting, Filling
<1>18. CASE L!FillManifest(p)
  <2>1. pc[p] = "entries" /\ ~ conv[p].lost /\ UNCHANGED <<weights, rebuilding>>
    BY <1>18 DEF L!FillManifest, L!history, Consistent, Converting, Filling
  <2>2. CASE conv[p].skip
    <3>1. manifest' = "passthrough" /\ pc'[p] = "idle"
      BY <1>18, <2>1, <2>2, <1>2 DEF L!FillManifest, L!Ends, L!GoTo
    <3> QED BY <3>1, <1>1 DEF Consistent, Standing, Converting, Filling, L!Sources
  <2>3. CASE ~ conv[p].skip
    <3>1. manifest' = conv[p].source /\ pc'[p] = "sentinel" /\ conv' = conv
      BY <1>18, <2>1, <2>3, <1>2 DEF L!FillManifest, L!GoTo
    <3>2. Built(conv[p].source)'
      BY <2>1, <2>3, <3>1 DEF Consistent, Converting, Built
    <3>3. Converting(p)' /\ Standing'
      BY <3>1, <3>2 DEF Converting, Filling, Standing, Built
    <3> QED BY <3>3, <1>1 DEF Consistent, Converting, Filling
  <2> QED BY <2>2, <2>3
<1>19. CASE L!WriteSentinel(p)
  <2>1. /\ pc[p] = "sentinel" /\ UNCHANGED <<weights, manifest>> /\ pc'[p] = "idle"
    BY <1>19, <1>2 DEF L!WriteSentinel, L!Ends, L!GoTo
  <2>2. Built(manifest)
    BY <2>1 DEF Consistent, Converting, Built
  <2>3. Standing'
    BY <2>1, <2>2 DEF Standing, Built
  <2> QED BY <2>1, <2>3, <1>1 DEF Consistent, Converting, Filling
<1>20. CASE L!OpenLastFails(p) \/ L!Stop(p)
  BY <1>20, <1>4 DEF L!OpenLastFails, L!Stop, L!library, L!history
<1> QED BY <1>6, <1>7, <1>8, <1>9, <1>10, <1>11, <1>12, <1>13, <1>14, <1>15, <1>16, <1>17, <1>18,
           <1>19, <1>20 DEF StepOf, L!Work

LEMMA ConversionKept ==
  ASSUME LTyped, Alone, ConvertInv, [L!Next]_libraryVars PROVE ConvertInv'
<1>1. ASSUME NEW p \in Procs, StepOf(p) PROVE overlapped => overlapped'
  BY <1>1, StepMoves
<1>2. ASSUME NEW p \in Procs, StepOf(p) PROVE cut' = cut
  <2>1. CASE \/ L!Pull(p) \/ L!ConvertLocal(p) \/ L!RequestOther(p) \/ L!Truncated(p)
             \/ L!OpenLayer(p) \/ L!WriteSentinel(p)
    BY <2>1 DEF L!Pull, L!ConvertLocal, L!RequestOther, L!Truncated, L!OpenLayer, L!WriteSentinel
  <2>2. CASE \/ L!Request(p) \/ L!NotSatisfiable(p) \/ L!Open(p) \/ L!OpenFails(p)
             \/ L!Fetch(p) \/ L!Mismatch(p) \/ L!Rename(p) \/ L!RenameFails(p)
    BY <2>2 DEF L!Request, L!NotSatisfiable, L!Open, L!OpenFails, L!Fetch, L!Mismatch, L!Rename,
                L!RenameFails, L!history
  <2>3. CASE \/ L!ConvertPulled(p) \/ L!ConvertFails(p) \/ L!FillLayer(p)
             \/ L!OpenManifest(p) \/ L!FillManifest(p) \/ L!OpenLastFails(p) \/ L!Stop(p)
    BY <2>3 DEF L!ConvertPulled, L!ConvertFails, L!FillLayer, L!OpenManifest, L!FillManifest,
                L!OpenLastFails, L!Stop, L!history
  <2> QED BY <1>2, <2>1, <2>2, <2>3 DEF StepOf, L!Work
<1>3. ASSUME NEW p \in Procs, StepOf(p) PROVE ConvertInv'
  BY <1>2, <1>3, <1>1, ConversionStep DEF ConvertInv
<1>4. CASE L!Rm
  BY <1>4 DEF L!Rm, L!Busy, ConvertInv, Consistent, Standing, Converting, Filling, L!Sources
<1>5. CASE L!RmCut
  BY <1>5 DEF L!RmCut, ConvertInv
<1>6. CASE UNCHANGED libraryVars
  BY <1>6 DEF libraryVars, ConvertInv, Consistent, Standing, Converting, Filling, Built, Layered
<1> QED BY <1>3, <1>4, <1>5, <1>6 DEF L!Next, StepOf

-----------------------------------------------------------------------------
(* THE DOWNLOAD.  Unless a response was not the rest, .part is the         *)
(* beginning of the remote file and the response brings the end of it; what*)
(* the hasher has seen is what the file holds.                             *)
FirstChunks(f) == Len(f) <= Chunks /\ \A i \in 1..Len(f) : f[i] = i
Remainder(s, n) == Len(s) = Chunks - n /\ \A i \in 1..Len(s) : s[i] = n + i
Downloading(p) ==
  /\ pc[p] = "open" /\ ~ lied => have[p] = L!Found /\ Remainder(left[p], have[p])
  /\ pc[p] = "fetch" => /\ fd[p] = "part" /\ part = {hash[p]}
                        /\ ~ lied => Remainder(left[p], Len(hash[p]))
Resumable == ~ lied => \A f \in part : FirstChunks(f)
Whole == gguf \subseteq {L!Full} \/ (~ sha /\ lied)
Faithful == Resumable /\ Whole /\ \A p \in Procs : Downloading(p)
DownloadInv == overlapped \/ Faithful

LEMMA FullIsIt ==
  ASSUME NEW f \in Seq(Chunk), FirstChunks(f), Len(f) = Chunks PROVE f = L!Full
BY Sizes DEF FirstChunks, L!Full

LEMMA FoundLength ==
  /\ part = {} => L!Found = 0
  /\ \A f : part = {f} => L!Found = Len(f) /\ L!Content(part) = f
BY DEF L!Found, L!Content

(* A chunk is appended by either way of opening the file.                  *)
LEMMA PutAppends ==
  ASSUME NEW p \in Procs, hash[p] \in Seq(Chunk), left[p] \in Seq(Chunk), left[p] # <<>>
  PROVE  L!Put(p, {hash[p]}) = {Append(hash[p], Head(left[p]))}
<1> DEFINE f == hash[p]
           c == Head(left[p])
<1>1. f \in Seq(Chunk) /\ c \in Chunk /\ Len(f) \in Nat
  BY HeadTailChunk
<1>2. L!Position(p, f) = Len(f)
  BY DEF L!Position
<1>3. L!Put(p, {f}) = {L!Written(f, Len(f), c)}
  BY <1>2 DEF L!Put
<1>4. L!Written(f, Len(f), c) = Append(f, c)
  <2> HIDE DEF f, c
  <2>1. L!Written(f, Len(f), c) = [i \in 1..(Len(f) + 1) |->
          IF i = Len(f) + 1 THEN c ELSE IF i <= Len(f) THEN f[i] ELSE 0]
    BY <1>1 DEF L!Written
  <2>2. /\ Len(Append(f, c)) = Len(f) + 1 /\ Append(f, c) \in Seq(Chunk)
        /\ Append(f, c)[Len(f) + 1] = c /\ \A i \in 1..Len(f) : Append(f, c)[i] = f[i]
    BY <1>1
  <2> DEFINE g == Append(f, c)
  <2>3. g \in Seq(Chunk) /\ Len(g) = Len(f) + 1
    BY <2>2
  <2>4. g \in [1..Len(g) -> Chunk]
    <3> HIDE DEF g
    <3> QED BY <2>3
  <2>5. g = [i \in 1..(Len(f) + 1) |-> g[i]]
    <3> HIDE DEF g
    <3> QED BY <2>3, <2>4
  <2>6. \A i \in 1..(Len(f) + 1) :
          Append(f, c)[i] = IF i = Len(f) + 1 THEN c ELSE IF i <= Len(f) THEN f[i] ELSE 0
    BY <1>1, <2>2
  <2> QED BY <2>1, <2>5, <2>6
<1> QED BY <1>3, <1>4

LEMMA DownloadStep ==
  ASSUME LTyped, Alone, Faithful, NEW p \in Procs, StepOf(p), ~ overlapped'
  PROVE  Faithful'
<1> USE Sizes
<1>1. \A q \in Procs \ {p} : pc'[q] = "idle" /\ pc[q] = "idle"
  BY OthersIdle
<1>2. /\ pc \in [Procs -> L!Phases] /\ fd \in [Procs -> {"none", "part", "gguf", "gone"}]
      /\ have \in [Procs -> Nat] /\ left \in [Procs -> Seq(Chunk)]
      /\ hash \in [Procs -> Seq(Chunk)] /\ sha \in BOOLEAN
      /\ \A f \in part : f \in Seq(Chunk)
      /\ \A f, g \in part : f = g
  BY DEF LTyped, ProcsTyped, ResponsesTyped, FilesTyped
<1>3. ASSUME Downloading(p)' PROVE \A q \in Procs : Downloading(q)'
  BY <1>3, <1>1 DEF Downloading
<1>4. ASSUME UNCHANGED <<gguf, sha, part>>, lied => lied', pc'[p] \notin {"open", "fetch"}
      PROVE  Faithful'
  <2>1. Downloading(p)'
    BY <1>4 DEF Downloading
  <2>2. Resumable' /\ Whole'
    BY <1>4 DEF Faithful, Resumable, Whole, FirstChunks, L!Full
  <2> QED BY <1>3, <2>1, <2>2 DEF Faithful
<1>5. CASE \/ L!Pull(p) \/ L!ConvertLocal(p) \/ L!ConvertPulled(p) \/ L!ConvertFails(p)
           \/ L!OpenLayer(p) \/ L!FillLayer(p) \/ L!OpenManifest(p) \/ L!FillManifest(p)
           \/ L!WriteSentinel(p) \/ L!OpenLastFails(p) \/ L!NotSatisfiable(p) \/ L!Stop(p)
           \/ L!OpenFails(p)
  <2>1. UNCHANGED <<gguf, sha, part, lied>>
    BY <1>5 DEF L!Pull, L!ConvertLocal, L!ConvertPulled, L!ConvertFails, L!OpenLayer, L!FillLayer,
                L!OpenManifest, L!FillManifest, L!WriteSentinel, L!OpenLastFails,
                L!NotSatisfiable, L!Stop, L!OpenFails, L!download, L!history
  <2>2. \E s \in {"idle", "request", "convert", "layer", "fill", "manifest", "entries",
                  "sentinel"} : L!GoTo(p, s)
    BY <1>5 DEF L!Pull, L!ConvertLocal, L!ConvertPulled, L!ConvertFails, L!OpenLayer, L!FillLayer,
                L!OpenManifest, L!FillManifest, L!WriteSentinel, L!OpenLastFails,
                L!NotSatisfiable, L!Stop, L!OpenFails, L!Ends, L!Build
  <2>3. pc'[p] \notin {"open", "fetch"}
    BY <2>2, <1>2 DEF L!GoTo
  <2> QED BY <2>1, <2>3, <1>4
<1>6. CASE L!Request(p)
  <2>1. /\ UNCHANGED <<gguf, sha, part, lied>> /\ pc'[p] = "open" /\ have'[p] = L!Found
        /\ left'[p] = SubSeq(L!Full, L!Found + 1, Chunks) /\ L!Found < Chunks
    BY <1>6, <1>2 DEF L!Request, L!Answer, L!GoTo, L!history
  <2>2. L!Found \in Nat /\ L!Found' = L!Found
    BY <2>1, FoundNat DEF LTyped, L!Found, L!Content
  <2>3. Remainder(left'[p], L!Found)
    <3> DEFINE n == L!Found
               s == SubSeq(L!Full, n + 1, Chunks)
    <3>1. n \in Nat /\ n < Chunks
      BY <2>1, <2>2
    <3> HIDE DEF n
    <3>2. Len(s) = Chunks - n /\ \A i \in 1..(Chunks - n) : s[i] = L!Full[n + i]
      BY <3>1
    <3>3. \A i \in 1..(Chunks - n) : L!Full[n + i] = n + i
      BY <3>1
    <3>4. Remainder(s, n)
      BY <3>2, <3>3 DEF Remainder
    <3> QED BY <2>1, <3>4 DEF n
  <2>4. Downloading(p)'
    BY <2>1, <2>2, <2>3 DEF Downloading, Remainder
  <2>5. Resumable' /\ Whole'
    BY <2>1 DEF Faithful, Resumable, Whole, FirstChunks, L!Full
  <2> QED BY <1>3, <2>4, <2>5 DEF Faithful
<1>7. CASE L!RequestOther(p)
  <2>1. UNCHANGED <<gguf, sha>> /\ lied' /\ pc'[p] = "open"
    BY <1>7, <1>2 DEF L!RequestOther, L!Answer, L!GoTo
  <2>2. Whole'
    BY <2>1 DEF Faithful, Whole, L!Full
  <2> QED BY <1>3, <2>1, <2>2 DEF Faithful, Resumable, Downloading
<1>8. CASE L!Open(p)
  <2>1. /\ UNCHANGED <<gguf, sha, lied, left, have>> /\ pc'[p] = "fetch" /\ fd'[p] = "part"
        /\ pc[p] = "open"
        /\ part' = IF have[p] = 0 THEN {<<>>} ELSE part
        /\ hash'[p] = IF have[p] = 0 THEN <<>> ELSE L!Content(part)
        /\ have[p] > 0 => part # {}
    BY <1>8, <1>2 DEF L!Open, L!GoTo, L!history
  <2>2. part' = {hash'[p]}
    <3>1. CASE have[p] = 0
      BY <2>1, <3>1
    <3>2. CASE have[p] # 0
      <4>1. PICK f \in part : TRUE
        BY <2>1, <3>2, <1>2
      <4>2. part = {f}
        BY <1>2, <4>1
      <4> QED BY <2>1, <3>2, <4>2, FoundLength
    <3> QED BY <3>1, <3>2
  <2>3. ASSUME ~ lied PROVE Remainder(left'[p], Len(hash'[p]))
    <3>1. have[p] = L!Found /\ Remainder(left[p], have[p])
      BY <2>1, <2>3 DEF Faithful, Downloading
    <3>2. Len(hash'[p]) = have[p]
      <4>1. CASE have[p] = 0
        BY <2>1, <4>1
      <4>2. CASE have[p] # 0
        BY <2>1, <2>2, <4>2, <3>1, FoundLength
      <4> QED BY <4>1, <4>2
    <3> QED BY <2>1, <3>1, <3>2
  <2>4. Downloading(p)'
    BY <2>1, <2>2, <2>3 DEF Downloading
  <2>5. Resumable' /\ Whole'
    BY <2>1 DEF Faithful, Resumable, Whole, FirstChunks, L!Full
  <2> QED BY <1>3, <2>4, <2>5 DEF Faithful
<1>9. CASE L!Fetch(p)
  <2>1. /\ pc[p] = "fetch" /\ left[p] # <<>> /\ UNCHANGED <<gguf, sha, lied, pc, fd>>
        /\ part' = L!Put(p, part)
        /\ hash'[p] = Append(hash[p], Head(left[p])) /\ left'[p] = Tail(left[p])
    BY <1>9, <1>2 DEF L!Fetch, L!history, Faithful, Downloading
  <2>2. fd[p] = "part" /\ part = {hash[p]} /\ (~ lied => Remainder(left[p], Len(hash[p])))
    BY <2>1 DEF Faithful, Downloading
  <2>3. part' = {hash'[p]}
    BY <2>1, <2>2, PutAppends, <1>2
  <2> DEFINE f == hash[p]
             s == left[p]
  <2>4. /\ f \in Seq(Chunk) /\ Len(f) \in Nat /\ Head(s) = s[1] /\ Len(s) \in Nat /\ Len(s) >= 1
        /\ Len(Tail(s)) = Len(s) - 1 /\ Head(s) \in Chunk
        /\ \A i \in 1..(Len(s) - 1) : Tail(s)[i] = s[i + 1]
    BY <2>1, <1>2, HeadTailChunk
  <2>5. /\ Len(Append(f, Head(s))) = Len(f) + 1 /\ Append(f, Head(s))[Len(f) + 1] = Head(s)
        /\ \A i \in 1..Len(f) : Append(f, Head(s))[i] = f[i]
    BY <2>4
  <2>6. ASSUME ~ lied PROVE FirstChunks(hash'[p]) /\ Remainder(left'[p], Len(hash'[p]))
    <3>1. FirstChunks(f) /\ Remainder(s, Len(f))
      BY <2>2, <2>6 DEF Faithful, Resumable
    <3>2. hash'[p] = Append(f, Head(s)) /\ left'[p] = Tail(s)
      BY <2>1
    <3> HIDE DEF f, s
    <3>3. Len(s) = Chunks - Len(f) /\ s[1] = Len(f) + 1
      BY <3>1, <2>4 DEF Remainder
    <3>4. FirstChunks(Append(f, Head(s)))
      <4>1. Len(f) + 1 <= Chunks
        BY <3>3, <2>4
      <4>2. ASSUME NEW i \in 1..(Len(f) + 1) PROVE Append(f, Head(s))[i] = i
        <5>1. CASE i \in 1..Len(f)
          BY <5>1, <2>5, <3>1 DEF FirstChunks
        <5>2. CASE i = Len(f) + 1
          BY <5>2, <2>4, <2>5, <3>3
        <5>3. i \in 1..Len(f) \/ i = Len(f) + 1
          BY <2>4
        <5> QED BY <5>1, <5>2, <5>3
      <4> QED BY <4>1, <4>2, <2>5 DEF FirstChunks
    <3>5. Remainder(Tail(s), Len(f) + 1)
      <4>1. Len(Tail(s)) = Chunks - (Len(f) + 1)
        BY <3>3, <2>4
      <4>2. ASSUME NEW i \in 1..(Len(s) - 1) PROVE Tail(s)[i] = Len(f) + 1 + i
        <5>1. i + 1 \in 1..Len(s)
          BY <2>4
        <5>2. s[i + 1] = Len(f) + (i + 1)
          BY <5>1, <3>1 DEF Remainder
        <5> QED BY <5>2, <2>4
      <4> QED BY <4>1, <4>2, <2>4 DEF Remainder
    <3> QED BY <3>2, <3>4, <3>5, <2>5
  <2>7. Downloading(p)'
    BY <2>1, <2>2, <2>3, <2>6 DEF Downloading
  <2>8. Resumable' /\ Whole'
    BY <2>1, <2>3, <2>6 DEF Faithful, Resumable, Whole, L!Full
  <2> QED BY <1>3, <2>7, <2>8 DEF Faithful
<1>10. CASE L!Truncated(p)
  <2>1. /\ pc[p] = "fetch" /\ UNCHANGED <<gguf, part, fd, sha, hash, pc>> /\ lied'
    BY <1>10 DEF L!Truncated
  <2>2. Downloading(p)' /\ Resumable' /\ Whole'
    BY <2>1 DEF Faithful, Downloading, Resumable, Whole, L!Full
  <2> QED BY <1>3, <2>2 DEF Faithful
<1>11. CASE L!Mismatch(p) \/ L!RenameFails(p)
  <2>1. /\ UNCHANGED <<sha, lied>> /\ gguf' \in {gguf, {}} /\ part' = {} /\ L!Ends(p)
    BY <1>11 DEF L!Mismatch, L!RenameFails, L!history
  <2>2. pc'[p] = "idle"
    BY <2>1, <1>2 DEF L!Ends, L!GoTo
  <2>3. Downloading(p)' /\ Resumable' /\ Whole'
    BY <2>1, <2>2 DEF Faithful, Downloading, Resumable, Whole, L!Full
  <2> QED BY <1>3, <2>3 DEF Faithful
<1>12. CASE L!Rename(p)
  <2>1. /\ UNCHANGED <<sha, lied>> /\ gguf' = part /\ part' = {} /\ pc[p] = "fetch"
        /\ left[p] = <<>> /\ (sha => hash[p] = L!Full)
        /\ pc'[p] \in {"manifest", "convert"}
    BY <1>12, <1>2 DEF L!Rename, L!Verified, L!GoTo, L!history
  <2>2. part = {hash[p]} /\ (~ lied => Remainder(left[p], Len(hash[p])))
    BY <2>1 DEF Faithful, Downloading
  <2>3. ASSUME ~ lied PROVE hash[p] = L!Full
    <3>1. FirstChunks(hash[p])
      BY <2>2, <2>3 DEF Faithful, Resumable
    <3>2. Len(hash[p]) \in Nat /\ Len(left[p]) = 0 /\ Len(left[p]) = Chunks - Len(hash[p])
      BY <2>1, <2>2, <2>3, <1>2 DEF Remainder
    <3> QED BY <3>1, <3>2, FullIsIt, <1>2
  <2>4. Whole'
    BY <2>1, <2>2, <2>3, <1>2 DEF Whole, L!Full
  <2>5. Downloading(p)' /\ Resumable'
    BY <2>1 DEF Downloading, Resumable
  <2> QED BY <1>3, <2>4, <2>5 DEF Faithful
<1> QED BY <1>5, <1>6, <1>7, <1>8, <1>9, <1>10, <1>11, <1>12 DEF StepOf, L!Work

LEMMA DownloadKept == ASSUME LTyped, Alone, DownloadInv, [L!Next]_libraryVars PROVE DownloadInv'
<1>1. ASSUME NEW p \in Procs, StepOf(p) PROVE DownloadInv'
  BY <1>1, StepMoves, DownloadStep DEF DownloadInv
<1>2. CASE L!Rm \/ L!RmCut
  BY <1>2 DEF L!Rm, L!RmCut, L!Orphan, L!download, DownloadInv, Faithful, Resumable, Whole,
              Downloading, FirstChunks, L!Full, L!Found, L!Content
<1>3. CASE UNCHANGED libraryVars
  BY <1>3 DEF libraryVars, DownloadInv, Faithful, Resumable, Whole, Downloading, FirstChunks,
              L!Full, L!Found, L!Content
<1> QED BY <1>1, <1>2, <1>3 DEF L!Next, StepOf

-----------------------------------------------------------------------------
LInv == LTyped /\ Alone /\ ConvertInv /\ DownloadInv

LEMMA LibraryInit == L!Init => LInv
<1> SUFFICES ASSUME L!Init PROVE LInv
  OBVIOUS
<1>1. LTyped
  <2>1. FilesTyped /\ ResponsesTyped
    BY Sizes DEF L!Init, FilesTyped, ResponsesTyped
  <2>2. ModelTyped /\ Unnamed
    BY DEF L!Init, ModelTyped, L!Nothing, LayerStates, Manifests, Unnamed, Filling
  <2>3. ProcsTyped
    BY Sizes DEF L!Init, ProcsTyped, Conversions, L!Phases, L!NoConv, L!Sources
  <2> QED BY <2>1, <2>2, <2>3, Sizes DEF L!Init, LTyped
<1>2. Alone
  BY DEF L!Init, Alone, L!Busy
<1>3. ConvertInv
  BY DEF L!Init, ConvertInv, Consistent, Standing, Converting, Filling, L!Sources
<1>4. DownloadInv
  BY DEF L!Init, DownloadInv, Faithful, Resumable, Whole, Downloading
<1> QED BY <1>1, <1>2, <1>3, <1>4 DEF LInv

LEMMA LibraryNext == LInv /\ [MCNext]_allVars => LInv'
<1> SUFFICES ASSUME LInv, [MCNext]_allVars PROVE LInv'
  OBVIOUS
<1>1. [L!Next]_libraryVars
  BY DEF MCNext, allVars, libraryVars
<1> QED BY <1>1, LibraryTyped, AloneStays, ConversionKept, DownloadKept DEF LInv

(* The library's inductive invariant.                                      *)
THEOREM LibraryInvariant == MCSpec => []LInv
<1>1. MCInit => LInv
  BY LibraryInit DEF MCInit
<1> QED BY <1>1, LibraryNext, PTL DEF MCSpec

(* The library keeps its types: for any number of processes that download, *)
(* convert and remove at once, a directory that is gone has no files.      *)
THEOREM LibraryTypes == MCSpec => []LibraryTypeOK
<1>1. LInv => LibraryTypeOK
  BY TypedIsTypeOK DEF LInv, LibraryTypeOK
<1> QED BY <1>1, LibraryInvariant, PTL

(* What is in downloads is the remote file and a manifest stands for all   *)
(* its layers, whatever is interrupted, resumed and removed, but for the   *)
(* causes that are named.                                                  *)
THEOREM FilesTheorem == MCSpec => []FilesWhole
<1>1. LInv => FilesWhole
  BY DEF LInv, ConvertInv, Consistent, Standing, Built, DownloadInv, Faithful, Whole,
         FilesWhole, L!GgufWhole, L!ManifestIsLast
<1> QED BY <1>1, LibraryInvariant, PTL

-----------------------------------------------------------------------------
(* THE TILE PAGING ENGINE.                                                 *)
USE DEF Ids, Tiles, Reads, NoTarget, NoView, shared, prefetch, staging

(* The invariant holds initially.                                          *)
LEMMA InitInv == Init => IInv
<1> SUFFICES ASSUME Init PROVE IInv
  OBVIOUS
<1>1. TypeOK
  <2>1. 0 \in Ids /\ NoLayer \in Tiles /\ FALSE \in BOOLEAN
    BY TilesAssumption
  <2>2. NoTarget \in [id : Ids, layer : Tiles]
    BY <2>1
  <2>3. NoView \in [layer : Tiles, index : 0..1, clean : BOOLEAN]
    BY <2>1
  <2>4. reads \subseteq Reads /\ failed \subseteq Ids /\ written \subseteq Layers
    BY DEF Init
  <2>5. /\ file \in [Layers -> Tiles] /\ pending \in [Layers -> Ids]
        /\ buffer \in [0..1 -> Tiles] /\ active \in 0..1
    BY <2>1 DEF Init
  <2>6. target \in [id : Ids, layer : Tiles]
    BY <2>2 DEF Init
  <2>7. view \in [layer : Tiles, index : 0..1, clean : BOOLEAN]
    BY <2>3 DEF Init
  <2>8. closed \in BOOLEAN /\ raced \in BOOLEAN
    BY DEF Init
  <2>9. /\ platform \in Platforms /\ consumer \in {"idle", "write", "wait"}
        /\ pos \in Tiles /\ lock \in Ids /\ submitted \in Ids /\ lone \in Ids
    BY <2>1 DEF Init
  <2> QED BY <2>4, <2>5, <2>6, <2>7, <2>8, <2>9 DEF TypeOK
<1>2. FileIntact /\ IdsInv /\ PositionInv /\ LoneInv /\ ViewInv
  BY DEF Init, FileIntact, IdsInv, PositionInv, LoneInv, ViewInv
<1> QED BY <1>1, <1>2 DEF IInv

-----------------------------------------------------------------------------
(* The consumer's steps, one lemma per operation.                          *)
LEMMA WriteSeekInv == ASSUME IInv, NEW l \in Layers, WriteSeek(l) PROVE IInv'
<1> USE DEF IInv, WriteSeek
<1>1. TypeOK' BY TilesAssumption DEF TypeOK
<1>2. FileIntact' BY DEF FileIntact
<1>3. IdsInv' BY DEF IdsInv
<1>4. PositionInv'
  <2>1. CASE platform = "pread"
    BY <2>1 DEF PositionInv, TypeOK
  <2>2. CASE platform = "seek"
    BY <2>2 DEF PositionInv, TypeOK
  <2> QED BY <2>1, <2>2, TilesAssumption DEF TypeOK
<1>5. LoneInv' BY DEF LoneInv, Due, Running
<1>6. ViewInv' BY DEF ViewInv
<1> QED BY <1>1, <1>2, <1>3, <1>4, <1>5, <1>6

LEMMA WriteDataInv == ASSUME IInv, WriteData PROVE IInv'
<1> USE DEF IInv, WriteData
<1>1. TypeOK'
  <2>1. target.layer \in Layers /\ pos \in Layers /\ NoTarget \in [id : Ids, layer : Tiles]
    BY TilesAssumption DEF PositionInv
  <2> QED BY <2>1 DEF TypeOK
<1>2. FileIntact' BY DEF FileIntact, PositionInv, TypeOK
<1>3. IdsInv' BY DEF IdsInv
<1>4. PositionInv' BY DEF PositionInv
<1>5. LoneInv' BY DEF LoneInv, Due, Running
<1>6. ViewInv' BY DEF ViewInv
<1> QED BY <1>1, <1>2, <1>3, <1>4, <1>5, <1>6

LEMMA SubmitInv ==
  ASSUME IInv, NEW l \in Layers, SubmitPrefetchTile(l) PROVE IInv'
<1> USE DEF IInv, SubmitPrefetchTile
<1>1. TypeOK' BY TilesAssumption DEF TypeOK
<1>2. FileIntact' BY DEF FileIntact
<1>3. IdsInv' BY DEF IdsInv, TypeOK
<1>4. PositionInv' BY DEF PositionInv, IdsInv, TypeOK
<1>5. LoneInv'
  <2>1. CASE lone' = 0
    BY <2>1 DEF LoneInv, Due, Running
  <2>2. CASE reads = {} /\ (\A k \in Layers : pending[k] = 0)
    <3>1. /\ lone' = submitted' /\ submitted' # 0
          /\ reads' = {[id |-> submitted', layer |-> l, target |-> 1 - active]}
          /\ consumer' = "idle" /\ active' = active
      BY <2>2 DEF TypeOK
    <3>2. \A k \in Layers : pending'[k] = IF k = l THEN submitted' ELSE 0
      BY <2>2 DEF TypeOK
    <3>3. submitted' \in Running'
      BY <3>1 DEF Running
    <3> QED BY <3>1, <3>2, <3>3 DEF LoneInv, Due
  <2> QED BY <2>1, <2>2
<1>6. ViewInv' BY DEF ViewInv
<1> QED BY <1>1, <1>2, <1>3, <1>4, <1>5, <1>6

LEMMA AwaitInv == ASSUME IInv, NEW l \in Layers, AwaitTile(l) PROVE IInv'
<1> USE DEF IInv, AwaitTile
<1>1. TypeOK' BY TilesAssumption DEF TypeOK
<1>2. FileIntact' BY DEF FileIntact
<1>3. IdsInv' BY DEF IdsInv
<1>4. PositionInv' BY DEF PositionInv
<1>5. LoneInv'
  <2>1. consumer' = "wait" /\ target'.id # 0 /\ target'.layer = l /\ pending'[l] = 0
    BY DEF TypeOK
  <2>2. ASSUME lone # 0 PROVE target'.id = lone /\ Due(l)
    BY <2>2 DEF LoneInv, Due
  <2>3. ASSUME lone # 0, NEW k \in Layers PROVE pending'[k] \in {0, lone} /\ (Due(k)' => Due(k))
    BY <2>2, <2>3 DEF LoneInv, Due, TypeOK
  <2>4. Running' = Running
    BY DEF Running
  <2> QED BY <2>1, <2>2, <2>3, <2>4 DEF LoneInv
<1>6. ViewInv' BY DEF ViewInv
<1> QED BY <1>1, <1>2, <1>3, <1>4, <1>5, <1>6

(* A wait that ends leaves nothing due.                                    *)
LEMMA NothingDue ==
  ASSUME IInv, consumer = "wait", consumer' = "idle", UNCHANGED <<pending, lone>>,
         lone # 0, NEW k \in Layers
  PROVE  ~ Due(k)'
BY DEF IInv, LoneInv, Due

LEMMA SwapInv == ASSUME IInv, Swap PROVE IInv'
<1> USE DEF IInv, Swap
<1>1. TypeOK' BY TilesAssumption DEF TypeOK
<1>2. FileIntact' BY DEF FileIntact
<1>3. IdsInv' BY DEF IdsInv
<1>4. PositionInv' BY DEF PositionInv
<1>5. LoneInv'
  BY NothingDue DEF LoneInv
<1>6. ViewInv'
  <2> SUFFICES ASSUME view'.clean PROVE ViewInv'
    BY DEF ViewInv
  <2>1. lone # 0 /\ target.id = lone /\ target.layer \in Layers /\ Due(target.layer)
    BY DEF LoneInv, Due
  <2>2. reads = {} /\ (~ raced => buffer[1 - active] = target.layer)
    BY <2>1 DEF LoneInv, Running
  <2> QED BY <2>2 DEF ViewInv
<1> QED BY <1>1, <1>2, <1>3, <1>4, <1>5, <1>6

LEMMA RaiseInv == ASSUME IInv, Raise PROVE IInv'
<1> USE DEF IInv, Raise
<1>1. TypeOK' BY TilesAssumption DEF TypeOK
<1>2. FileIntact' BY DEF FileIntact
<1>3. IdsInv' BY DEF IdsInv
<1>4. PositionInv' BY DEF PositionInv
<1>5. LoneInv'
  BY NothingDue DEF LoneInv
<1>6. ViewInv' BY DEF ViewInv
<1> QED BY <1>1, <1>2, <1>3, <1>4, <1>5, <1>6

LEMMA CloseInv == ASSUME IInv, Close PROVE IInv'
<1> USE DEF IInv, Close
<1>1. TypeOK' BY TilesAssumption DEF TypeOK
<1>2. FileIntact' BY DEF FileIntact
<1>3. IdsInv' BY DEF IdsInv
<1>4. PositionInv' BY DEF PositionInv
<1>5. LoneInv' BY DEF LoneInv, Due, Running
<1>6. ViewInv' BY DEF ViewInv
<1> QED BY <1>1, <1>2, <1>3, <1>4, <1>5, <1>6

-----------------------------------------------------------------------------
(* The pool.  A read that finishes puts a tile where only a lone prefetch, *)
(* and never a clean view, may care.                                       *)
LEMMA FilledInv ==
  ASSUME IInv, NEW r \in reads, NEW t \in Tiles, ~ raced => t = r.layer,
         buffer' = [buffer EXCEPT ![r.target] = t], reads' = reads \ {r}, lock' = 0,
         UNCHANGED <<shared, submitted, failed, pending, active, view, consumer,
                     target, closed, lone, raced>>
  PROVE  IInv'
<1> USE DEF IInv
<1>1. TypeOK' BY TilesAssumption DEF TypeOK
<1>2. FileIntact' BY DEF FileIntact
<1>3. IdsInv' BY DEF IdsInv, TypeOK
<1>4. PositionInv' BY DEF PositionInv, TypeOK
<1>5. LoneInv'
  <2>1. \A k \in Layers : Due(k)' = Due(k)
    BY DEF Due
  <2>2. ASSUME lone # 0, NEW k \in Layers, Due(k)
        PROVE  /\ \A q \in reads' : q.id = lone /\ q.layer = k /\ q.target = 1 - active
               /\ ~ raced => buffer'[1 - active] = k
    BY <2>2 DEF LoneInv, TypeOK
  <2> QED BY <2>1, <2>2 DEF LoneInv
<1>6. ViewInv' BY DEF ViewInv, TypeOK
<1> QED BY <1>1, <1>2, <1>3, <1>4, <1>5, <1>6

LEMMA ReadAtInv == ASSUME IInv, NEW r \in reads, ReadAt(r) PROVE IInv'
<1>1. r.layer \in Layers /\ file[r.layer] \in Tiles
  BY DEF IInv, TypeOK
<1>2. ~ raced => file[r.layer] = r.layer
  BY DEF IInv, IdsInv, FileIntact
<1>3. lock' = 0
  BY DEF ReadAt, IInv, PositionInv
<1> QED BY <1>1, <1>2, <1>3, FilledInv DEF ReadAt

LEMMA SeekInv == ASSUME IInv, NEW r \in reads, Seek(r) PROVE IInv'
<1> USE DEF IInv, Seek
<1>1. TypeOK'
  <2>1. r.id \in Ids /\ r.layer \in Tiles
    BY DEF TypeOK
  <2> QED BY <2>1 DEF TypeOK
<1>2. FileIntact' BY DEF FileIntact
<1>3. IdsInv' BY DEF IdsInv
<1>4. PositionInv'
  <2>1. platform # "pread" /\ r.layer \in Layers BY DEF TypeOK
  <2>2. \A q \in reads : q.id = r.id => pos' = q.layer
    BY DEF IdsInv
  <2> QED BY <2>1, <2>2 DEF PositionInv
<1>5. LoneInv' BY DEF LoneInv, Due, Running
<1>6. ViewInv' BY DEF ViewInv
<1> QED BY <1>1, <1>2, <1>3, <1>4, <1>5, <1>6

LEMMA ReadInv == ASSUME IInv, NEW r \in reads, Read(r) PROVE IInv'
<1>1. r.id # 0 /\ pos \in Layers
  BY DEF IInv, TypeOK, PositionInv, Read
<1>2. file[pos] \in Tiles
  BY <1>1 DEF IInv, TypeOK
<1>3. ~ raced => file[pos] = r.layer
  BY DEF IInv, PositionInv, IdsInv, FileIntact, Read
<1> QED BY <1>2, <1>3, FilledInv DEF Read

LEMMA ReadFailsInv == ASSUME IInv, NEW r \in reads, ReadFails(r) PROVE IInv'
<1> USE DEF IInv, ReadFails
<1>1. TypeOK'
  <2>1. r.id \in Ids /\ 0 \in Ids
    BY TilesAssumption DEF TypeOK
  <2> QED BY <2>1 DEF TypeOK
<1>2. FileIntact' BY DEF FileIntact
<1>3. IdsInv' BY DEF IdsInv, TypeOK
<1>4. PositionInv' BY DEF PositionInv, TypeOK
<1>5. LoneInv'
  <2>1. Running \cup failed = Running' \cup failed'
    BY DEF Running
  <2>2. \A k \in Layers : Due(k)' = Due(k)
    BY DEF Due
  <2> QED BY <2>1, <2>2 DEF LoneInv
<1>6. ViewInv' BY DEF ViewInv
<1> QED BY <1>1, <1>2, <1>3, <1>4, <1>5, <1>6

-----------------------------------------------------------------------------
(* Every step keeps the invariant.                                         *)
LEMMA NextInv == IInv /\ [Next]_vars => IInv'
<1> SUFFICES ASSUME IInv, [Next]_vars PROVE IInv'
  OBVIOUS
<1>1. CASE UNCHANGED vars
  BY <1>1 DEF vars, IInv, TypeOK, FileIntact, IdsInv, PositionInv, LoneInv, Due,
       Running, ViewInv
<1>2. ASSUME NEW l \in Layers, WriteSeek(l) \/ SubmitPrefetchTile(l) \/ AwaitTile(l)
      PROVE  IInv'
  BY <1>2, WriteSeekInv, SubmitInv, AwaitInv
<1>3. CASE WriteData \/ Swap \/ Raise \/ Close
  BY <1>3, WriteDataInv, SwapInv, RaiseInv, CloseInv
<1>4. ASSUME NEW r \in reads, Work(r) PROVE IInv'
  BY <1>4, ReadAtInv, SeekInv, ReadInv, ReadFailsInv DEF Work
<1> QED BY <1>1, <1>2, <1>3, <1>4 DEF Next, Works

(* The inductive invariant of the engine.                                  *)
THEOREM Invariant == Spec => []IInv
BY InitInv, NextInv, PTL DEF Spec

(* Types: whatever the pool and the consumer do.                           *)
THEOREM TypeCorrect == Spec => []TypeOK
<1>1. IInv => TypeOK BY DEF IInv
<1> QED BY <1>1, Invariant, PTL

(* No write and no read misplaces a tile unless they share the position of *)
(* the descriptor.                                                         *)
THEOREM FileSafe == Spec => []FileIntact
<1>1. IInv => FileIntact BY DEF IInv
<1> QED BY <1>1, Invariant, PTL

(* The double buffering keeps its promise to a consumer that prefetches one*)
(* tile at a time: the view of such a tile stays intact.                   *)
THEOREM LoneViews == Spec => []LoneViewIntact
<1>1. IInv => LoneViewIntact BY DEF IInv, ViewInv, LoneViewIntact
<1> QED BY <1>1, Invariant, PTL

-----------------------------------------------------------------------------
(* Sums of lists.                                                          *)
LEMMA TotalIsSum == \A s : F!Total(s) = SumFunctionOnSet(s, DOMAIN s)
BY DEF F!Total, F!SumFunction, F!SumFunctionOnSet, F!FoldFunctionOnSet, F!MapThenFoldSet,
       SumFunctionOnSet, FoldFunctionOnSet, MapThenFoldSet

LEMMA Upto == ASSUME NEW n \in Nat PROVE IsFiniteSet(1..n) /\ Cardinality(1..n) = n
<1>1. 1 \in Int /\ n \in Int
  OBVIOUS
<1>2. IsFiniteSet(1..n) /\ Cardinality(1..n) = IF 1 > n THEN 0 ELSE n - 1 + 1
  BY <1>1, FS_Interval
<1> QED BY <1>2

LEMMA TotalNat ==
  ASSUME NEW s, NEW n \in Nat, DOMAIN s = 1..n, \A i \in 1..n : s[i] \in Nat
  PROVE  F!Total(s) \in Nat
<1>1. IsFiniteSet(DOMAIN s) /\ Valued(s, DOMAIN s)
  BY Upto DEF Valued
<1>2. SumFunctionOnSet(s, DOMAIN s) \in Nat
  BY <1>1, SumNat
<1> QED BY <1>2, TotalIsSum

(* One summand after another.                                              *)
LEMMA SumNext ==
  ASSUME NEW w, NEW n \in Nat, \A i \in 1..(n + 1) : w[i] \in Nat
  PROVE  SumFunctionOnSet(w, 1..(n + 1)) = w[n + 1] + SumFunctionOnSet(w, 1..n)
<1>1. IsFiniteSet(1..n) /\ Valued(w, 1..n)
  BY Upto DEF Valued
<1>2. n + 1 \notin 1..n /\ w[n + 1] \in Nat /\ 1..(n + 1) = (1..n) \cup {n + 1}
  OBVIOUS
<1> QED BY <1>1, <1>2, SumAdd

-----------------------------------------------------------------------------
(* MODEL FILES.                                                            *)
Tensors == [name : Nat, dims : Nat, q : F!Enumerated \cup {"TQ2_0"}, n : Nat]
Values == [type : {"scalar", "string"}, width : Nat] \cup [type : {"array"}, items : Seq(Nat)]
Entries == [key : Nat, value : Values]
WrittenFiles == [kv : Seq(Entries), tensors : Seq(Tensors), alignment : Nat \ {0}]

LEMMA RoundedUp ==
  ASSUME NEW x \in Nat, NEW a \in Nat \ {0}
  PROVE  F!AlignUp(x, a) \in Nat /\ x <= F!AlignUp(x, a)
<1> DEFINE y == x + a - 1
           d == y \div a
           r == y % a
<1>1. y \in Nat /\ d \in Nat /\ r \in Nat /\ r < a /\ y = a * d + r
  OBVIOUS
<1>2. F!AlignUp(x, a) = a * d /\ a * d \in Nat
  BY <1>1 DEF F!AlignUp
<1> HIDE DEF d, r
<1> DEFINE e == a * d
<1>3. e \in Nat /\ y = e + r
  BY <1>1, <1>2
<1> HIDE DEF e
<1>4. x <= e
  BY <1>1, <1>3
<1> QED BY <1>2, <1>4 DEF e

(* Whole blocks.                                                           *)
Specs == {<<1, 4>>, <<1, 2>>, <<32, 18>>, <<32, 20>>, <<32, 22>>, <<32, 24>>, <<32, 34>>,
          <<32, 40>>, <<256, 144>>, <<256, 176>>, <<256, 210>>, <<256, 84>>, <<256, 66>>}
LEMMA SpecsKnown ==
  /\ DOMAIN F!QuantSpecs = {"F32", "F16", "BF16", "Q4_0", "Q4_1", "Q5_0", "Q5_1", "Q8_0",
                            "Q8_1", "Q4_K", "Q5_K", "Q6_K"}
  /\ \A q \in DOMAIN F!QuantSpecs : F!QuantSpecs[q] \in Specs
  /\ \A q \in F!Enumerated \cup {"TQ2_0"} : F!Stored(q) \in Specs
  /\ \A q \in DOMAIN F!QuantSpecs : F!Stored(q) = F!QuantSpecs[q]
  /\ F!Enumerated = DOMAIN F!QuantSpecs \cup {"Q2_K"}
<1>1. DOMAIN F!QuantSpecs = {"F32", "F16", "BF16", "Q4_0", "Q4_1", "Q5_0", "Q5_1", "Q8_0",
                            "Q8_1", "Q4_K", "Q5_K", "Q6_K"}
  BY DEF F!QuantSpecs
<1>2. \A q \in DOMAIN F!QuantSpecs : F!QuantSpecs[q] \in Specs
  BY DEF F!QuantSpecs, Specs
<1>3. F!Enumerated = DOMAIN F!QuantSpecs \cup {"Q2_K"}
  BY DEF F!Enumerated
<1>4. \A q \in DOMAIN F!QuantSpecs : F!Stored(q) = F!QuantSpecs[q]
  <2>1. \A x : x = 4 => /\ (1 * 32) \div 8 = x /\ 0 + x = 4
    OBVIOUS
  <2>2. ASSUME NEW q \in {"F32", "F16", "BF16"} PROVE F!Stored(q) = F!QuantSpecs[q]
    <3>1. F!Stored(q) = <<F!Layout[q][1], F!Layout[q][2] + (F!Layout[q][1] * F!Layout[q][3]) \div 8>>
      BY DEF F!Stored
    <3>2. CASE q = "F32"
      BY <3>1, <3>2 DEF F!Layout, F!QuantSpecs
    <3>3. CASE q = "F16"
      BY <3>1, <3>3 DEF F!Layout, F!QuantSpecs
    <3>4. CASE q = "BF16"
      BY <3>1, <3>4 DEF F!Layout, F!QuantSpecs
    <3> QED BY <3>2, <3>3, <3>4
  <2>3. ASSUME NEW q \in {"Q4_0", "Q4_1", "Q5_0", "Q5_1", "Q8_0", "Q8_1"}
        PROVE  F!Stored(q) = F!QuantSpecs[q]
    BY DEF F!Layout, F!Stored, F!QuantSpecs
  <2>4. ASSUME NEW q \in {"Q4_K", "Q5_K", "Q6_K"} PROVE F!Stored(q) = F!QuantSpecs[q]
    BY DEF F!Layout, F!Stored, F!QuantSpecs
  <2> QED BY <1>1, <2>2, <2>3, <2>4
<1>5. F!Stored("Q2_K") = <<256, 84>> /\ F!Stored("TQ2_0") = <<256, 66>>
  BY DEF F!Stored, F!Layout
<1>6. \A q \in F!Enumerated \cup {"TQ2_0"} : F!Stored(q) \in Specs
  BY <1>2, <1>3, <1>4, <1>5 DEF Specs
<1> QED BY <1>1, <1>2, <1>3, <1>4, <1>6

(* The writer pads to the boundary that the reader rounds up to.           *)
LEMMA OneQuotient ==
  ASSUME NEW a \in Nat \ {0}, NEW q \in Nat, NEW r \in Nat, r < a,
         NEW y \in Nat, y = a * q + r
  PROVE  y \div a = q
<1> DEFINE k == y \div a
           t == y % a
<1>1. k \in Nat /\ t \in Nat /\ t < a /\ y = a * k + t
  OBVIOUS
<1> HIDE DEF k, t
<1>2. CASE k > q
  <2>1. a * k = a * q + a + a * (k - q - 1) /\ a * (k - q - 1) \in Nat
    BY <1>1, <1>2
  <2> DEFINE u == a * (k - q - 1)
             v == a * q
  <2>2. u \in Nat /\ v \in Nat /\ v + r = v + a + u + t
    BY <1>1, <2>1
  <2> HIDE DEF u, v
  <2> QED BY <1>1, <2>2
<1>3. CASE k < q
  <2>1. a * q = a * k + a + a * (q - k - 1) /\ a * (q - k - 1) \in Nat
    BY <1>1, <1>3
  <2> DEFINE u == a * (q - k - 1)
             v == a * k
  <2>2. u \in Nat /\ v \in Nat /\ v + a + u + r = v + t
    BY <1>1, <2>1
  <2> HIDE DEF u, v
  <2> QED BY <1>1, <2>2
<1> QED BY <1>1, <1>2, <1>3 DEF k

LEMMA PaddedUp ==
  ASSUME NEW x \in Nat, NEW a \in Nat \ {0}
  PROVE  F!Padded(x, a) = F!AlignUp(x, a)
<1> DEFINE d == x \div a
           r == x % a
           v == a * d
<1>1. d \in Nat /\ r \in Nat /\ r < a /\ x = a * d + r /\ v \in Nat
  OBVIOUS
<1>2. x = v + r
  BY <1>1
<1>3. CASE r = 0
  <2>1. (x + a - 1) \div a = d
    <3>1. x + a - 1 = a * d + (a - 1) /\ a - 1 \in Nat /\ a - 1 < a /\ x + a - 1 \in Nat
      <4> HIDE DEF v, r, d
      <4>1. x = v
        BY <1>1, <1>2, <1>3
      <4> QED BY <1>1, <4>1 DEF v
    <3> HIDE DEF d
    <3> QED BY <1>1, <3>1, OneQuotient
  <2>2. F!AlignUp(x, a) = v
    <3>1. F!AlignUp(x, a) = d * a
      BY <2>1 DEF F!AlignUp
    <3> QED BY <1>1, <3>1
  <2>3. F!Padded(x, a) = x
    BY <1>3 DEF F!Padded
  <2> HIDE DEF v, r
  <2> QED BY <1>1, <1>2, <1>3, <2>2, <2>3
<1>4. CASE r # 0
  <2>1. (x + a - 1) \div a = d + 1
    <3>1. /\ x + a - 1 = a * (d + 1) + (r - 1) /\ r - 1 \in Nat /\ r - 1 < a
          /\ x + a - 1 \in Nat /\ d + 1 \in Nat
      <4>1. a * (d + 1) = v + a
        BY <1>1
      <4> HIDE DEF v, r, d
      <4> QED BY <1>1, <1>2, <1>4, <4>1
    <3> DEFINE e == d + 1
    <3>2. x + a - 1 = a * e + (r - 1) /\ e \in Nat
      BY <3>1
    <3> HIDE DEF d, r, e
    <3>3. (x + a - 1) \div a = e
      BY <3>1, <3>2, OneQuotient
    <3> QED BY <3>3 DEF e
  <2>2. F!AlignUp(x, a) = v + a
    <3>1. F!AlignUp(x, a) = (d + 1) * a
      BY <2>1 DEF F!AlignUp
    <3>2. (d + 1) * a = v + a
      BY <1>1
    <3> QED BY <3>1, <3>2
  <2>3. F!Padded(x, a) = x + (a - r)
    BY <1>4 DEF F!Padded
  <2> HIDE DEF v, r
  <2> QED BY <1>1, <1>2, <2>2, <2>3
<1> QED BY <1>3, <1>4

LEMMA BytesNat ==
  ASSUME NEW spec \in Specs, NEW n \in Nat
  PROVE  F!Bytes(spec, n) \in Nat
<1>1. spec[1] \in {1, 32, 256} /\ spec[2] \in Nat
  BY DEF Specs
<1> DEFINE b == spec[1]
           c == spec[2]
           d == (n + b - 1) \div b
<1>2. d \in Nat
  BY <1>1
<1>3. F!Bytes(spec, n) = d * c
  BY DEF F!Bytes
<1> HIDE DEF c, d
<1> QED BY <1>1, <1>2, <1>3 DEF c

LEMMA BytesAgree ==
  ASSUME NEW q \in F!Enumerated \cup {"TQ2_0"}, NEW n \in Nat
  PROVE  F!StoredBytes(q, n) = F!Bytes(F!Stored(q), n)
<1> DEFINE b == F!Stored(q)[1]
           c == F!Stored(q)[2]
<1>1. b \in {1, 32, 256}
  <2>1. F!Stored(q) \in Specs
    BY SpecsKnown
  <2> QED BY <2>1 DEF Specs
<1>2. (n + b - 1) \div b = n \div b + IF n % b = 0 THEN 0 ELSE 1
  <2> HIDE DEF b
  <2>1. CASE b = 1
    BY <2>1
  <2>2. CASE b = 32
    BY <2>2
  <2>3. CASE b = 256
    BY <2>3
  <2> QED BY <1>1, <2>1, <2>2, <2>3
<1>3. F!Bytes(F!Stored(q), n) = ((n + b - 1) \div b) * c
  BY DEF F!Bytes
<1>4. F!StoredBytes(q, n) = (n \div b + IF n % b = 0 THEN 0 ELSE 1) * c
  BY DEF F!StoredBytes
<1> QED BY <1>2, <1>3, <1>4, Zenon

LEMMA HeaderNat ==
  ASSUME NEW f \in WrittenFiles
  PROVE  F!DataOffset(f) \in Nat /\ F!DataOffset(f) = F!DataStart(f)
<1> DEFINE ks == [i \in DOMAIN f.kv |-> 8 + f.kv[i].key + 4 + F!ValueBytes(f.kv[i].value)]
           ts == [i \in DOMAIN f.tensors |-> 8 + f.tensors[i].name + 4 + 8 * f.tensors[i].dims + 4 + 8]
<1>1. /\ f.kv \in Seq(Entries) /\ f.tensors \in Seq(Tensors) /\ f.alignment \in Nat \ {0}
      /\ Len(f.kv) \in Nat /\ DOMAIN f.kv = 1..Len(f.kv)
      /\ Len(f.tensors) \in Nat /\ DOMAIN f.tensors = 1..Len(f.tensors)
  BY DEF WrittenFiles
<1>2. ASSUME NEW v \in Values PROVE F!ValueBytes(v) \in Nat
  <2>1. CASE v.type \in {"scalar", "string"} /\ v.width \in Nat
    BY <2>1 DEF F!ValueBytes
  <2>2. CASE v.type = "array" /\ v.items \in Seq(Nat)
    <3>1. F!Total(v.items) \in Nat
      <4>1. Len(v.items) \in Nat /\ DOMAIN v.items = 1..Len(v.items)
            /\ \A i \in 1..Len(v.items) : v.items[i] \in Nat
        BY <2>2
      <4> QED BY <4>1, TotalNat
    <3>2. F!ValueBytes(v) = 12 + F!Total(v.items)
      BY <2>2 DEF F!ValueBytes
    <3> QED BY <3>1, <3>2
  <2> QED BY <2>1, <2>2 DEF Values
<1>3. F!Total(ks) \in Nat
  <2>1. ASSUME NEW i \in 1..Len(f.kv) PROVE ks[i] \in Nat
    <3>1. f.kv[i] \in Entries
      BY <1>1
    <3>2. f.kv[i].key \in Nat /\ F!ValueBytes(f.kv[i].value) \in Nat
      BY <1>2, <3>1 DEF Entries
    <3>3. ks[i] = 8 + f.kv[i].key + 4 + F!ValueBytes(f.kv[i].value)
      BY <1>1
    <3> QED BY <3>2, <3>3, SMTT(30)
  <2>2. DOMAIN ks = 1..Len(f.kv)
    BY <1>1
  <2> HIDE DEF ks
  <2> QED BY <1>1, <2>1, <2>2, TotalNat
<1>4. F!Total(ts) \in Nat
  <2>1. ASSUME NEW i \in 1..Len(f.tensors) PROVE ts[i] \in Nat
    <3>1. f.tensors[i] \in Tensors
      BY <1>1
    <3>2. f.tensors[i].name \in Nat /\ f.tensors[i].dims \in Nat
      BY <3>1 DEF Tensors
    <3>3. ts[i] = 8 + f.tensors[i].name + 4 + 8 * f.tensors[i].dims + 4 + 8
      BY <1>1
    <3> DEFINE k == f.tensors[i].name
               d == 8 * f.tensors[i].dims
    <3>4. k \in Nat /\ d \in Nat /\ ts[i] = 8 + k + 4 + d + 4 + 8
      BY <3>2, <3>3, SMTT(30)
    <3> HIDE DEF k, d, ts
    <3> QED BY <3>4
  <2>2. DOMAIN ts = 1..Len(f.tensors)
    BY <1>1
  <2> HIDE DEF ts
  <2> QED BY <1>1, <2>1, <2>2, TotalNat
<1>5. F!HeaderEnd(f) = 24 + F!Total(ks) + F!Total(ts)
  BY DEF F!HeaderEnd, F!Mapped
<1> HIDE DEF ks, ts
<1>6. F!HeaderEnd(f) \in Nat
  BY <1>3, <1>4, <1>5
<1>7. F!DataOffset(f) \in Nat
  BY <1>1, <1>6, RoundedUp DEF F!DataOffset
<1>8. F!DataOffset(f) = F!DataStart(f)
  BY <1>1, <1>6, PaddedUp DEF F!DataOffset, F!DataStart
<1> QED BY <1>7, <1>8

(* The bytes of tensor i, and what the writer gives it.                    *)
Size(f, i) == F!StoredBytes(f.tensors[i].q, f.tensors[i].n)
Room(f) == [i \in 1..Len(f.tensors) |-> F!Padded(Size(f, i), f.alignment)]

LEMMA RoomEnough ==
  ASSUME NEW f \in WrittenFiles, NEW i \in 1..Len(f.tensors)
  PROVE  /\ f.tensors[i] \in Tensors /\ Size(f, i) \in Nat
         /\ Room(f)[i] \in Nat /\ Size(f, i) <= Room(f)[i]
<1>1. f.tensors[i] \in Tensors /\ f.alignment \in Nat \ {0}
  BY DEF WrittenFiles
<1>2. Size(f, i) \in Nat
  <2>1. f.tensors[i].q \in F!Enumerated \cup {"TQ2_0"} /\ f.tensors[i].n \in Nat
    BY <1>1 DEF Tensors
  <2> QED BY <2>1, SpecsKnown, BytesNat, BytesAgree DEF Size
<1>3. Room(f)[i] = F!AlignUp(Size(f, i), f.alignment)
  BY <1>1, <1>2, PaddedUp DEF Room
<1> QED BY <1>1, <1>2, <1>3, RoundedUp

(* Every tensor ends before the file does.                                 *)
LEMMA TensorsInFile ==
  ASSUME NEW f \in WrittenFiles, NEW i \in 1..Len(f.tensors)
  PROVE  /\ F!DataOffset(f) \in Nat /\ F!WrittenOffset(f, i) \in Nat /\ F!FileEnd(f) \in Nat
         /\ F!DataOffset(f) + F!WrittenOffset(f, i) + Size(f, i) <= F!FileEnd(f)
<1> DEFINE w == Room(f)
           n == Len(f.tensors)
           S(k) == SumFunctionOnSet(w, 1..k)
<1>1. n \in Nat /\ i \in 1..n /\ n \in 1..n /\ \A k \in 1..n : w[k] \in Nat /\ Size(f, k) \in Nat
                                                           /\ Size(f, k) <= w[k]
  BY RoomEnough DEF WrittenFiles
<1>2. ASSUME NEW k \in 1..n PROVE F!WrittenOffset(f, k) = S(k - 1) /\ S(k - 1) \in Nat
  <2> DEFINE v == [j \in 1..(k - 1) |-> F!Padded(F!StoredBytes(f.tensors[j].q, f.tensors[j].n),
                                                f.alignment)]
  <2>1. F!WrittenOffset(f, k) = F!Total(v)
    BY DEF F!WrittenOffset
  <2>2. k - 1 \in Nat /\ 1..(k - 1) \subseteq 1..n
    BY <1>1
  <2>3. \A j \in 1..(k - 1) : v[j] = w[j]
    BY <2>2 DEF Room, Size
  <2>4. DOMAIN v = 1..(k - 1)
    OBVIOUS
  <2> HIDE DEF v, w
  <2>5. F!Total(v) = SumFunctionOnSet(v, 1..(k - 1))
    BY <2>4, TotalIsSum
  <2>6. IsFiniteSet(1..(k - 1)) /\ Valued(w, 1..(k - 1))
    BY <1>1, <2>2, Upto DEF Valued
  <2>7. SumFunctionOnSet(v, 1..(k - 1)) = SumFunctionOnSet(w, 1..(k - 1))
    BY <2>3, <2>6, SumAgree
  <2>8. SumFunctionOnSet(w, 1..(k - 1)) \in Nat
    BY <2>6, SumNat
  <2> QED BY <2>1, <2>5, <2>7, <2>8
<1>3. F!FileEnd(f) = F!DataOffset(f) + F!WrittenOffset(f, n) + Size(f, n)
  BY HeaderNat DEF F!FileEnd, Size
<1>4. F!DataOffset(f) \in Nat
  BY HeaderNat
<1>5. F!WrittenOffset(f, i) + Size(f, i) <= F!WrittenOffset(f, n) + Size(f, n)
  <2>1. CASE i = n
    <3> QED BY <1>1, <1>2, <2>1
  <2>2. CASE i < n
    <3>1. S(i) = w[i] + S(i - 1)
      <4>1. i - 1 \in Nat /\ (i - 1) + 1 = i /\ \A k \in 1..i : w[k] \in Nat
        BY <1>1
      <4> HIDE DEF w
      <4>2. SumFunctionOnSet(w, 1..((i - 1) + 1)) = w[(i - 1) + 1] + SumFunctionOnSet(w, 1..(i - 1))
        BY <4>1, SumNext
      <4> QED BY <4>1, <4>2
    <3>2. S(i) <= S(n - 1) /\ S(i) \in Nat /\ S(n - 1) \in Nat
      <4>1. n - 1 \in Nat /\ 1..i \subseteq 1..(n - 1) /\ 1..(n - 1) \subseteq 1..n /\ i \in Nat
        BY <1>1, <2>2
      <4> HIDE DEF w, n
      <4>2. IsFiniteSet(1..(n - 1)) /\ Valued(w, 1..(n - 1)) /\ IsFiniteSet(1..i) /\ Valued(w, 1..i)
        BY <1>1, <4>1, Upto DEF Valued
      <4>3. SumFunctionOnSet(w, 1..i) <= SumFunctionOnSet(w, 1..(n - 1))
        BY <4>1, <4>2, SumPart
      <4> QED BY <4>2, <4>3, SumNat
    <3>3. /\ F!WrittenOffset(f, i) = S(i - 1) /\ S(i - 1) \in Nat
          /\ F!WrittenOffset(f, n) = S(n - 1)
      BY <1>1, <1>2
    <3>4. w[i] \in Nat /\ Size(f, i) \in Nat /\ Size(f, i) <= w[i] /\ Size(f, n) \in Nat
      BY <1>1
    <3> HIDE DEF S, w
    <3> QED BY <3>1, <3>2, <3>3, <3>4, SMTT(30)
  <2> QED BY <1>1, <2>1, <2>2
<1>6. /\ F!WrittenOffset(f, i) \in Nat /\ F!WrittenOffset(f, n) \in Nat
      /\ Size(f, i) \in Nat /\ Size(f, n) \in Nat
  BY <1>1, <1>2
<1> HIDE DEF n
<1> QED BY <1>3, <1>4, <1>5, <1>6, SMTT(30)


(* The two decoders take a weight from one place, but for two types.       *)
LEMMA SamePlaces ==
  ASSUME NEW q \in F!CpuTypes
  PROVE  (\E e \in 0..(F!QuantSpecs[q][1] - 1) : F!CpuPlace(q, e) # F!CudaPlace(q, e))
           <=> q \in {"Q4_K", "Q6_K"}
<1>1. CASE q \in {"Q4_0", "Q4_1", "Q5_0"}
  BY <1>1 DEF F!CpuPlace, F!CudaPlace
<1>2. CASE q \in {"F32", "F16", "BF16", "Q8_0", "Q8_1"}
  <2>1. ASSUME NEW e PROVE F!CpuPlace(q, e) = F!CudaPlace(q, e)
    <3>1. CASE q \in {"F32", "F16", "BF16"}
      BY <3>1 DEF F!CpuPlace, F!CudaPlace
    <3>2. CASE q \in {"Q8_0", "Q8_1"}
      BY <3>2 DEF F!CpuPlace, F!CudaPlace
    <3> QED BY <1>2, <3>1, <3>2
  <2>2. q \notin {"Q4_K", "Q6_K"}
    BY <1>2
  <2> QED BY <2>1, <2>2
<1>3. CASE q = "Q4_K"
  <2>1. F!QuantSpecs[q] = <<256, 144>>
    BY <1>3 DEF F!QuantSpecs
  <2>2. F!CpuPlace(q, 16).q = <<(16 \div 32) * 16 + (16 % 16), (16 % 32) \div 16>>
    BY <1>3 DEF F!CpuPlace
  <2>3. F!CudaPlace(q, 16).q = <<(16 \div 64) * 32 + (16 % 32), (16 \div 32) % 2>>
    BY <1>3 DEF F!CudaPlace
  <2>4. (16 % 32) \div 16 = 1 /\ (16 \div 32) % 2 = 0
    OBVIOUS
  <2>5. F!CpuPlace(q, 16) # F!CudaPlace(q, 16)
    BY <2>2, <2>3, <2>4
  <2>6. 16 \in 0..(F!QuantSpecs[q][1] - 1)
    BY <2>1
  <2> QED BY <1>3, <2>5, <2>6
<1>4. CASE q = "Q6_K"
  <2>1. F!QuantSpecs[q] = <<256, 210>>
    BY <1>4 DEF F!QuantSpecs
  <2>2. F!CpuPlace(q, 8).q = <<(8 \div 16) * 8 + (8 % 8), (8 % 16) \div 8>>
    BY <1>4 DEF F!CpuPlace
  <2>3. F!CudaPlace(q, 8).q = <<(8 \div 128) * 64 + (8 % 64), (8 \div 64) % 2>>
    BY <1>4 DEF F!CudaPlace
  <2>4. (8 % 16) \div 8 = 1 /\ (8 \div 64) % 2 = 0
    OBVIOUS
  <2>5. F!CpuPlace(q, 8) # F!CudaPlace(q, 8)
    BY <2>2, <2>3, <2>4
  <2>6. 8 \in 0..(F!QuantSpecs[q][1] - 1)
    BY <2>1
  <2> QED BY <1>4, <2>5, <2>6
<1> QED BY <1>1, <1>2, <1>3, <1>4 DEF F!CpuTypes

LEMMA TypesKnown ==
  /\ F!CudaTypes = DOMAIN F!QuantSpecs /\ F!CpuTypes \subseteq F!CudaTypes
  /\ \A q \in F!CudaTypes : q \notin F!CpuTypes <=> q \in {"Q5_1", "Q5_K"}
  /\ "F32" \in F!CpuTypes /\ {"Q4_K", "Q6_K", "Q5_1", "Q5_K"} \subseteq F!CudaTypes
  /\ "Q2_K" \notin F!CudaTypes /\ "TQ2_0" \notin F!CudaTypes /\ "TQ2_0" \notin F!Enumerated
BY SpecsKnown DEF F!CudaTypes, F!CpuTypes

LEMMA SizesAgree ==
  ASSUME NEW f \in WrittenFiles, NEW i \in 1..Len(f.tensors),
         f.tensors[i].q \in DOMAIN F!QuantSpecs
  PROVE  LET t == f.tensors[i] IN
         /\ F!DataOffset(f) = F!DataStart(f)
         /\ F!SizeBytes(t.q, t.n) = F!StoredBytes(t.q, t.n) /\ ~ F!Short(f, i)
<1> DEFINE t == f.tensors[i]
<1>1. F!ReadAs(t.q) = t.q
  BY SpecsKnown DEF F!ReadAs
<1>2. F!SizeBytes(t.q, t.n) = F!StoredBytes(t.q, t.n)
  <2>1. F!SizeBytes(t.q, t.n) = F!Bytes(F!Stored(t.q), t.n)
    BY <1>1, SpecsKnown DEF F!SizeBytes, F!Optional
  <2>2. t.q \in F!Enumerated \cup {"TQ2_0"} /\ t.n \in Nat
    BY RoomEnough DEF Tensors
  <2> QED BY <2>1, <2>2, BytesAgree
<1>3. F!SizeBytes(t.q, t.n) = Size(f, i)
  BY <1>2 DEF Size
<1>4. F!Short(f, i) <=> F!DataOffset(f) + F!WrittenOffset(f, i) + Size(f, i) > F!FileEnd(f)
  BY <1>3 DEF F!Short
<1>5. Size(f, i) \in Nat
  BY RoomEnough
<1> QED BY <1>2, <1>4, <1>5, TensorsInFile, HeaderNat

(* What is left of a tensor, by its type.                                  *)
LEMMA DequantizedIs ==
  ASSUME NEW f \in WrittenFiles, NEW i \in 1..Len(f.tensors), NEW cuda \in BOOLEAN,
         NEW t, t = f.tensors[i], NEW r, r = F!Dequantized(f, i, cuda)
  PROVE  /\ t.n = 0 => r = "exact"
         /\ t.n # 0 /\ t.q \in F!CudaTypes =>
              /\ cuda => r = IF F!Partial(t.q, t.n) THEN "zeros" ELSE "exact"
              /\ ~ cuda /\ t.q \in {"Q5_1", "Q5_K"} => r = "zeros"
              /\ ~ cuda /\ t.q \notin {"Q5_1", "Q5_K"} =>
                   r = IF F!Partial(t.q, t.n) THEN "raises"
                       ELSE IF t.q \in {"Q4_K", "Q6_K"} THEN "permuted" ELSE "exact"
         /\ t.n # 0 /\ t.q \notin F!CudaTypes =>
              r \in {"zeros", "raises", "foreign"}
<1>1. t \in Tensors /\ t.n \in Nat /\ t.q \in F!Enumerated \cup {"TQ2_0"}
  BY RoomEnough DEF Tensors
<1>2. t.n = 0 => r = "exact"
  BY DEF F!Dequantized
<1>3. ASSUME t.q \in F!CudaTypes PROVE F!ReadAs(t.q) = t.q /\ ~ F!Short(f, i)
  BY <1>3, SpecsKnown, TypesKnown, SizesAgree DEF F!ReadAs
<1>4. ASSUME t.n # 0, t.q \in F!CudaTypes, cuda
      PROVE  r = IF F!Partial(t.q, t.n) THEN "zeros" ELSE "exact"
  <2>1. F!DecodedCuda(t.q, t.n) = IF F!Partial(t.q, t.n) THEN "raises" ELSE "exact"
    BY <1>4 DEF F!DecodedCuda
  <2> QED BY <1>3, <1>4, <2>1 DEF F!Dequantized
<1>5. ASSUME t.n # 0, t.q \in F!CudaTypes, ~ cuda, t.q \in {"Q5_1", "Q5_K"}
      PROVE  r = "zeros"
  BY <1>3, <1>5, TypesKnown DEF F!Dequantized
<1>6. ASSUME t.n # 0, t.q \in F!CudaTypes, ~ cuda, t.q \notin {"Q5_1", "Q5_K"}
      PROVE  r = IF F!Partial(t.q, t.n) THEN "raises"
                 ELSE IF t.q \in {"Q4_K", "Q6_K"} THEN "permuted" ELSE "exact"
  <2>1. t.q \in F!CpuTypes
    BY <1>6, TypesKnown
  <2>2. (\E e \in 0..(F!QuantSpecs[t.q][1] - 1) :
           ~ cuda /\ F!CpuPlace(t.q, e) # F!CudaPlace(t.q, e)) <=> t.q \in {"Q4_K", "Q6_K"}
    BY <1>6, <2>1, SamePlaces
  <2> QED BY <1>3, <1>6, <2>1, <2>2, Zenon DEF F!Dequantized
<1>7. ASSUME t.n # 0, t.q \notin F!CudaTypes
      PROVE  r \in {"zeros", "raises", "foreign"}
  <2>1. CASE t.q = "Q2_K"
    <3>1. F!ReadAs(t.q) = "Q2_K"
      BY <2>1, SpecsKnown DEF F!ReadAs
    <3>2. F!DecodedCuda("Q2_K", t.n) = "raises"
      BY <1>7, <2>1 DEF F!DecodedCuda
    <3> QED BY <1>7, <2>1, <3>1, <3>2, TypesKnown DEF F!Dequantized
  <2>2. CASE t.q = "TQ2_0"
    <3>1. F!ReadAs(t.q) = "F32" /\ t.q # "F32"
      BY <2>2, TypesKnown DEF F!ReadAs
    <3> QED BY <1>7, <3>1, Zenon DEF F!Dequantized
  <2> QED BY <1>1, <1>7, <2>1, <2>2, SpecsKnown, TypesKnown
<1> QED BY <1>2, <1>3, <1>4, <1>5, <1>6, <1>7, Zenon


LEMMA TensorsFaithful ==
  ASSUME NEW f \in WrittenFiles, NEW i \in 1..Len(f.tensors), NEW cuda \in BOOLEAN
  PROVE  F!TensorFaithful(f, i, cuda)
<1> DEFINE t == f.tensors[i]
           r == F!Dequantized(f, i, cuda)
           known == t.q \in DOMAIN F!QuantSpecs
           cuts == t.n > 0 /\ F!Partial(t.q, t.n)
<1>1. t.n \in Nat /\ (t.n > 0 <=> t.n # 0)
  BY RoomEnough DEF Tensors
<1>2. /\ t.n = 0 => r = "exact"
      /\ t.n # 0 /\ known =>
           /\ cuda => r = IF F!Partial(t.q, t.n) THEN "zeros" ELSE "exact"
           /\ ~ cuda /\ t.q \in {"Q5_1", "Q5_K"} => r = "zeros"
           /\ ~ cuda /\ t.q \notin {"Q5_1", "Q5_K"} =>
                r = IF F!Partial(t.q, t.n) THEN "raises"
                    ELSE IF t.q \in {"Q4_K", "Q6_K"} THEN "permuted" ELSE "exact"
      /\ t.n # 0 /\ ~ known => r \in {"zeros", "raises", "foreign"}
  <2>1. t = f.tensors[i] /\ r = F!Dequantized(f, i, cuda)
    OBVIOUS
  <2> HIDE DEF t, r
  <2> QED BY <2>1, DequantizedIs, TypesKnown
<1>3. known => /\ F!DataOffset(f) = F!DataStart(f) /\ ~F!Short(f, i)
               /\ F!SizeBytes(t.q, t.n) = F!StoredBytes(t.q, t.n)
  BY SizesAgree
<1>4. /\ {"Q4_K", "Q6_K", "Q5_1", "Q5_K"} \subseteq DOMAIN F!QuantSpecs
      /\ known => (t.q \in F!CpuTypes <=> t.q \notin {"Q5_1", "Q5_K"})
  BY TypesKnown
<1>5. F!HookedDequantize(t, "library") = "library" <=> t.n > 0 /\ (~known \/ cuts)
  BY <1>1, TypesKnown DEF F!HookedDequantize, F!DecodedCuda
<1> HIDE DEF t, r
<1>6. \/ r = "exact" \/ ~known
      \/ cuts /\ r = IF cuda \/ t.q \notin F!CpuTypes THEN "zeros" ELSE "raises"
      \/ ~cuda /\ t.q \in {"Q4_K", "Q6_K"} /\ r = "permuted"
      \/ ~cuda /\ t.q \in {"Q5_1", "Q5_K"} /\ r = "zeros"
  BY <1>1, <1>2, <1>4
<1> QED BY <1>3, <1>5, <1>6, Zenon DEF F!TensorFaithful, t, r

(* Distinct places for distinct weights.                                   *)
LEMMA SameNumber ==
  ASSUME NEW n \in Nat, NEW p, \A x, y \in 0..n : p[x] = p[y] => x = y
  PROVE  Cardinality({p[x] : x \in 0..n}) = Cardinality(0..n)
<1> DEFINE g == [x \in 0..n |-> p[x]]
           R == {p[x] : x \in 0..n}
<1>1. IsFiniteSet(0..n)
  BY FS_Interval
<1>2. g \in [0..n -> R] /\ (\A z \in R : \E x \in 0..n : g[x] = z)
      /\ (\A x, y \in 0..n : g[x] = g[y] => x = y)
  OBVIOUS
<1> HIDE DEF g, R
<1>3. Cardinality(R) = Cardinality(0..n)
  <2>1. g \in Surjection(0..n, R) /\ g \in Injection(0..n, R)
    BY <1>2 DEF Surjection, Injection, IsInjective
  <2> QED BY <1>1, <2>1, FS_Surjection
<1> QED BY <1>3 DEF R

OneToOne(p, n) == \A x, y \in 0..n : p[x] = p[y] => x = y

Paired(p, a, b, n) == \A e \in 0..n : p[e] = <<a[e], b[e]>>
Apart(a, b, n) == \A x, y \in 0..n : a[x] = a[y] /\ b[x] = b[y] => x = y

LEMMA PairOneToOne ==
  ASSUME NEW n, NEW p, NEW a, NEW b, Paired(p, a, b, n), Apart(a, b, n)
  PROVE  OneToOne(p, n)
<1> SUFFICES ASSUME NEW x \in 0..n, NEW y \in 0..n, p[x] = p[y] PROVE x = y
  BY DEF OneToOne
<1>1. <<a[x], b[x]>> = <<a[y], b[y]>>
  BY DEF Paired
<1>2. a[x] = a[y] /\ b[x] = b[y]
  BY <1>1
<1> QED BY <1>2 DEF Apart

LEMMA CudaOneToOne ==
  ASSUME NEW q \in F!CudaTypes
  PROVE  OneToOne([e \in 0..(F!QuantSpecs[q][1] - 1) |-> F!CudaPlace(q, e).q],
                  F!QuantSpecs[q][1] - 1)
<1> DEFINE n == F!QuantSpecs[q][1] - 1
<1>1. CASE q \in {"Q4_0", "Q4_1", "Q5_0", "Q5_1"}
  <2>1. n = 31
    BY <1>1 DEF F!QuantSpecs
  <2> DEFINE a == [e \in 0..31 |-> e % 16]
             b == [e \in 0..31 |-> e \div 16]
             p == [e \in 0..n |-> F!CudaPlace(q, e).q]
  <2>2. Paired(p, a, b, 31)
    BY <1>1, <2>1 DEF Paired, F!CudaPlace, F!Halves
  <2>3. \A x, y \in 0..31 : /\ x % 16 = y % 16
                        /\ x \div 16 = y \div 16 => x = y
    OBVIOUS
  <2>4. Apart(a, b, 31)
    BY <2>3 DEF Apart
  <2> HIDE DEF a, b, p
  <2>5. OneToOne(p, 31)
    BY <2>2, <2>4, PairOneToOne
  <2> QED BY <2>1, <2>5 DEF p
<1>2. CASE q \in {"F32", "F16", "BF16", "Q8_0", "Q8_1"}
  <2>1. n \in Nat
    BY <1>2 DEF F!QuantSpecs
  <2> DEFINE p == [e \in 0..n |-> F!CudaPlace(q, e).q]
  <2>2. \A e \in 0..n : p[e] = <<e, 0>>
    BY <1>2 DEF F!CudaPlace, F!Whole
  <2> HIDE DEF p
  <2>3. \A x, y \in 0..n : p[x] = p[y] => <<x, 0>> = <<y, 0>>
    BY <2>2
  <2>4. \A x, y \in 0..n : <<x, 0>> = <<y, 0>> => x = y
    OBVIOUS
  <2>5. OneToOne(p, n)
    BY <2>3, <2>4, Zenon DEF OneToOne
  <2> QED BY <2>5 DEF p
<1>3. CASE q \in {"Q4_K", "Q5_K"}
  <2>1. n = 255
    BY <1>3 DEF F!QuantSpecs
  <2> DEFINE a == [e \in 0..255 |-> (e \div 64) * 32 + (e % 32)]
             b == [e \in 0..255 |-> (e \div 32) % 2]
             p == [e \in 0..n |-> F!CudaPlace(q, e).q]
  <2>2. Paired(p, a, b, 255)
    BY <1>3, <2>1 DEF Paired, F!CudaPlace
  <2>3. \A x, y \in 0..255 :
          ((x \div 64) * 32 + (x % 32) = (y \div 64) * 32 + (y % 32))
            /\ (x \div 32) % 2 = (y \div 32) % 2 => x = y
    <3>1. ASSUME NEW x \in 0..255
          PROVE  /\ x \div 64 \in Nat /\ x % 32 \in 0..31 /\ (x \div 32) % 2 \in Nat
                 /\ x = 64 * (x \div 64) + 32 * ((x \div 32) % 2) + (x % 32)
      <4>1. x = 32 * (x \div 32) + (x % 32) /\ x \div 32 \in Nat /\ x % 32 \in 0..31
        OBVIOUS
      <4>2. x \div 64 = (x \div 32) \div 2
        OBVIOUS
      <4>3. \A h \in Nat : h \div 2 \in Nat /\ h % 2 \in Nat /\ h = 2 * (h \div 2) + (h % 2)
        OBVIOUS
      <4>4. x \div 32 = 2 * (x \div 64) + ((x \div 32) % 2) /\ x \div 64 \in Nat
            /\ (x \div 32) % 2 \in Nat
        <5> DEFINE g == x \div 32
        <5>1. g \in Nat /\ x \div 64 = g \div 2
          BY <4>1, <4>2
        <5> HIDE DEF g
        <5>2. g = 2 * (g \div 2) + (g % 2) /\ g \div 2 \in Nat /\ g % 2 \in Nat
          BY <4>3, <5>1
        <5> QED BY <5>1, <5>2, Zenon DEF g
      <4> QED BY <4>1, <4>4
    <3>2. ASSUME NEW x \in 0..255, NEW y \in 0..255,
                 (x \div 64) * 32 + (x % 32) = (y \div 64) * 32 + (y % 32),
                 (x \div 32) % 2 = (y \div 32) % 2
          PROVE  x = y
      <4> DEFINE u == x \div 64
                 v == y \div 64
                 r == x % 32
                 t == y % 32
                 c == (x \div 32) % 2
                 d == (y \div 32) % 2
      <4>1. /\ u \in Nat /\ r \in 0..31 /\ c \in Nat /\ x = 64 * u + 32 * c + r
            /\ v \in Nat /\ t \in 0..31 /\ d \in Nat /\ y = 64 * v + 32 * d + t
        BY <3>1
      <4>2. u * 32 + r = v * 32 + t /\ c = d
        BY <3>2
      <4> HIDE DEF u, v, r, t, c, d
      <4>3. u = v /\ r = t
        BY <4>1, <4>2
      <4> QED BY <4>1, <4>2, <4>3
    <3> QED BY <3>2
  <2>4. Apart(a, b, 255)
    <3>1. ASSUME NEW x \in 0..255, NEW y \in 0..255, a[x] = a[y], b[x] = b[y] PROVE x = y
      BY <2>3, <3>1
    <3> HIDE DEF a, b
    <3> QED BY <3>1 DEF Apart
  <2> HIDE DEF a, b, p
  <2>5. OneToOne(p, 255)
    BY <2>2, <2>4, PairOneToOne
  <2> QED BY <2>1, <2>5 DEF p
<1>4. CASE q = "Q6_K"
  <2>1. n = 255
    BY <1>4 DEF F!QuantSpecs
  <2> DEFINE a == [e \in 0..255 |-> (e \div 128) * 64 + (e % 64)]
             b == [e \in 0..255 |-> (e \div 64) % 2]
             p == [e \in 0..n |-> F!CudaPlace(q, e).q]
  <2>2. Paired(p, a, b, 255)
    BY <1>4, <2>1 DEF Paired, F!CudaPlace
  <2>3. \A x, y \in 0..255 :
          ((x \div 128) * 64 + (x % 64) = (y \div 128) * 64 + (y % 64))
            /\ (x \div 64) % 2 = (y \div 64) % 2 => x = y
    <3>1. ASSUME NEW x \in 0..255
          PROVE  /\ x \div 128 \in Nat /\ x % 64 \in 0..63 /\ (x \div 64) % 2 \in Nat
                 /\ x = 128 * (x \div 128) + 64 * ((x \div 64) % 2) + (x % 64)
      <4>1. x = 64 * (x \div 64) + (x % 64) /\ x \div 64 \in Nat /\ x % 64 \in 0..63
        OBVIOUS
      <4>2. x \div 128 = (x \div 64) \div 2
        OBVIOUS
      <4>3. \A h \in Nat : h \div 2 \in Nat /\ h % 2 \in Nat /\ h = 2 * (h \div 2) + (h % 2)
        OBVIOUS
      <4>4. x \div 64 = 2 * (x \div 128) + ((x \div 64) % 2) /\ x \div 128 \in Nat
            /\ (x \div 64) % 2 \in Nat
        <5> DEFINE g == x \div 64
        <5>1. g \in Nat /\ x \div 128 = g \div 2
          BY <4>1, <4>2
        <5> HIDE DEF g
        <5>2. g = 2 * (g \div 2) + (g % 2) /\ g \div 2 \in Nat /\ g % 2 \in Nat
          BY <4>3, <5>1
        <5> QED BY <5>1, <5>2, Zenon DEF g
      <4> QED BY <4>1, <4>4
    <3>2. ASSUME NEW x \in 0..255, NEW y \in 0..255,
                 (x \div 128) * 64 + (x % 64) = (y \div 128) * 64 + (y % 64),
                 (x \div 64) % 2 = (y \div 64) % 2
          PROVE  x = y
      <4> DEFINE u == x \div 128
                 v == y \div 128
                 r == x % 64
                 t == y % 64
                 c == (x \div 64) % 2
                 d == (y \div 64) % 2
      <4>1. /\ u \in Nat /\ r \in 0..63 /\ c \in Nat /\ x = 128 * u + 64 * c + r
            /\ v \in Nat /\ t \in 0..63 /\ d \in Nat /\ y = 128 * v + 64 * d + t
        BY <3>1
      <4>2. u * 64 + r = v * 64 + t /\ c = d
        BY <3>2
      <4> HIDE DEF u, v, r, t, c, d
      <4>3. u = v /\ r = t
        BY <4>1, <4>2
      <4> QED BY <4>1, <4>2, <4>3
    <3> QED BY <3>2
  <2>4. Apart(a, b, 255)
    <3>1. ASSUME NEW x \in 0..255, NEW y \in 0..255, a[x] = a[y], b[x] = b[y] PROVE x = y
      <4>1. /\ (x \div 128) * 64 + (x % 64) = (y \div 128) * 64 + (y % 64)
            /\ (x \div 64) % 2 = (y \div 64) % 2
        BY <3>1, Zenon
      <4> QED BY <2>3, <4>1, Zenon
    <3> HIDE DEF a, b
    <3> QED BY <3>1 DEF Apart
  <2> HIDE DEF a, b, p
  <2>5. OneToOne(p, 255)
    BY <2>2, <2>4, PairOneToOne
  <2> QED BY <2>1, <2>5 DEF p
<1> QED BY <1>1, <1>2, <1>3, <1>4 DEF F!CudaTypes, F!CpuTypes

LEMMA CpuOneToOne ==
  ASSUME NEW q \in F!CpuTypes
  PROVE  OneToOne([e \in 0..(F!QuantSpecs[q][1] - 1) |-> F!CpuPlace(q, e).q],
                  F!QuantSpecs[q][1] - 1)
<1> DEFINE n == F!QuantSpecs[q][1] - 1
<1>1. CASE q \in {"Q4_0", "Q4_1", "Q5_0"}
  <2>1. n = 31
    BY <1>1 DEF F!QuantSpecs
  <2> DEFINE a == [e \in 0..31 |-> e % 16]
             b == [e \in 0..31 |-> e \div 16]
             p == [e \in 0..n |-> F!CpuPlace(q, e).q]
  <2>2. Paired(p, a, b, 31)
    BY <1>1, <2>1 DEF Paired, F!CpuPlace, F!Halves
  <2>3. \A x, y \in 0..31 : /\ x % 16 = y % 16
                        /\ x \div 16 = y \div 16 => x = y
    OBVIOUS
  <2>4. Apart(a, b, 31)
    BY <2>3 DEF Apart
  <2> HIDE DEF a, b, p
  <2>5. OneToOne(p, 31)
    BY <2>2, <2>4, PairOneToOne
  <2> QED BY <2>1, <2>5 DEF p
<1>2. CASE q \in {"F32", "F16", "BF16", "Q8_0", "Q8_1"}
  <2>1. n \in Nat
    BY <1>2 DEF F!QuantSpecs
  <2> DEFINE p == [e \in 0..n |-> F!CpuPlace(q, e).q]
  <2>2. \A e \in 0..n : p[e] = <<e, 0>>
    BY <1>2 DEF F!CpuPlace, F!Whole
  <2> HIDE DEF p
  <2>3. \A x, y \in 0..n : p[x] = p[y] => <<x, 0>> = <<y, 0>>
    BY <2>2
  <2>4. \A x, y \in 0..n : <<x, 0>> = <<y, 0>> => x = y
    OBVIOUS
  <2>5. OneToOne(p, n)
    BY <2>3, <2>4, Zenon DEF OneToOne
  <2> QED BY <2>5 DEF p
<1>3. CASE q = "Q4_K"
  <2>1. n = 255
    BY <1>3 DEF F!QuantSpecs
  <2> DEFINE a == [e \in 0..255 |-> (e \div 32) * 16 + (e % 16)]
             b == [e \in 0..255 |-> (e % 32) \div 16]
             p == [e \in 0..n |-> F!CpuPlace(q, e).q]
  <2>2. Paired(p, a, b, 255)
    BY <1>3, <2>1 DEF Paired, F!CpuPlace
  <2>3. \A x, y \in 0..255 :
          ((x \div 32) * 16 + (x % 16) = (y \div 32) * 16 + (y % 16))
            /\ (x % 32) \div 16 = (y % 32) \div 16 => x = y
    OBVIOUS
  <2>4. Apart(a, b, 255)
    <3>1. ASSUME NEW x \in 0..255, NEW y \in 0..255, a[x] = a[y], b[x] = b[y] PROVE x = y
      BY <2>3, <3>1
    <3> HIDE DEF a, b
    <3> QED BY <3>1 DEF Apart
  <2> HIDE DEF a, b, p
  <2>5. OneToOne(p, 255)
    BY <2>2, <2>4, PairOneToOne
  <2> QED BY <2>1, <2>5 DEF p
<1>4. CASE q = "Q6_K"
  <2>1. n = 255
    BY <1>4 DEF F!QuantSpecs
  <2> DEFINE a == [e \in 0..255 |-> (e \div 16) * 8 + (e % 8)]
             b == [e \in 0..255 |-> (e % 16) \div 8]
             p == [e \in 0..n |-> F!CpuPlace(q, e).q]
  <2>2. Paired(p, a, b, 255)
    BY <1>4, <2>1 DEF Paired, F!CpuPlace
  <2>3. \A x, y \in 0..255 :
          ((x \div 16) * 8 + (x % 8) = (y \div 16) * 8 + (y % 8))
            /\ (x % 16) \div 8 = (y % 16) \div 8 => x = y
    OBVIOUS
  <2>4. Apart(a, b, 255)
    <3>1. ASSUME NEW x \in 0..255, NEW y \in 0..255, a[x] = a[y], b[x] = b[y] PROVE x = y
      BY <2>3, <3>1
    <3> HIDE DEF a, b
    <3> QED BY <3>1 DEF Apart
  <2> HIDE DEF a, b, p
  <2>5. OneToOne(p, 255)
    BY <2>2, <2>4, PairOneToOne
  <2> QED BY <2>1, <2>5 DEF p
<1> QED BY <1>1, <1>2, <1>3, <1>4 DEF F!CpuTypes

LEMMA LayoutsHold == F!Layouts
<1>1. \A q \in F!CudaTypes : F!QuantSpecs[q][1] - 1 \in Nat
  BY SpecsKnown, TypesKnown DEF Specs
<1>2. ASSUME NEW q \in F!CudaTypes
      PROVE  Cardinality({F!CudaPlace(q, e).q : e \in 0..(F!QuantSpecs[q][1] - 1)})
               = Cardinality(0..(F!QuantSpecs[q][1] - 1))
  <2> DEFINE n == F!QuantSpecs[q][1] - 1
             p == [e \in 0..n |-> F!CudaPlace(q, e).q]
  <2>1. OneToOne(p, n) /\ n \in Nat
    BY <1>1, CudaOneToOne, TypesKnown
  <2>2. {p[e] : e \in 0..n} = {F!CudaPlace(q, e).q : e \in 0..n}
    OBVIOUS
  <2> HIDE DEF n, p
  <2>3. Cardinality({p[e] : e \in 0..n}) = Cardinality(0..n)
    BY <2>1, SameNumber DEF OneToOne
  <2> QED BY <2>2, <2>3 DEF n
<1>3. ASSUME NEW q \in F!CpuTypes
      PROVE  Cardinality({F!CpuPlace(q, e).q : e \in 0..(F!QuantSpecs[q][1] - 1)})
               = Cardinality(0..(F!QuantSpecs[q][1] - 1))
  <2> DEFINE n == F!QuantSpecs[q][1] - 1
             p == [e \in 0..n |-> F!CpuPlace(q, e).q]
  <2>1. OneToOne(p, n) /\ n \in Nat
    BY <1>1, CpuOneToOne, TypesKnown
  <2>2. {p[e] : e \in 0..n} = {F!CpuPlace(q, e).q : e \in 0..n}
    OBVIOUS
  <2> HIDE DEF n, p
  <2>3. Cardinality({p[e] : e \in 0..n}) = Cardinality(0..n)
    BY <2>1, SameNumber DEF OneToOne
  <2> QED BY <2>2, <2>3 DEF n
<1>4. \A a, c \in {0, 15, 16, 63, 64, 127, 128, 191, 192, 240, 255} :
        F!CpuScale(a, c) = F!CudaScale(a, c)
  <2>1. \A a \in 0..255 : ((a \div 4) \div 16) % 4 = a \div 64
    OBVIOUS
  <2>2. \A a \in {0, 15, 16, 63, 64, 127, 128, 191, 192, 240, 255} : a \in 0..255
    OBVIOUS
  <2>3. \A a \in 0..255, c \in Nat : F!CpuScale(a, c) = F!CudaScale(a, c)
    BY <2>1, Zenon DEF F!CpuScale, F!CudaScale
  <2> QED BY <2>2, <2>3
<1>5. \A S : F!Cardinality(S) = Cardinality(S)
  BY DEF F!Cardinality, Cardinality
<1>6. ASSUME NEW q \in F!CudaTypes
      PROVE  F!Cardinality({F!CudaPlace(q, e).q : e \in 0..(F!QuantSpecs[q][1] - 1)})
               = F!Cardinality(0..(F!QuantSpecs[q][1] - 1))
  BY <1>2, <1>5, Zenon
<1>7. ASSUME NEW q \in F!CpuTypes
      PROVE  F!Cardinality({F!CpuPlace(q, e).q : e \in 0..(F!QuantSpecs[q][1] - 1)})
               = F!Cardinality(0..(F!QuantSpecs[q][1] - 1))
  BY <1>3, <1>5, Zenon
<1>8. \A q \in F!CudaTypes :
        /\ F!Cardinality({F!CudaPlace(q, e).q : e \in 0..(F!QuantSpecs[q][1] - 1)})
             = F!Cardinality(0..(F!QuantSpecs[q][1] - 1))
        /\ q \in F!CpuTypes =>
             F!Cardinality({F!CpuPlace(q, e).q : e \in 0..(F!QuantSpecs[q][1] - 1)})
               = F!Cardinality(0..(F!QuantSpecs[q][1] - 1))
  BY <1>6, <1>7, Zenon
<1> QED BY <1>4, <1>8, Zenon DEF F!Layouts

(* What the loader says of any written GGUF is what its writer laid down,  *)
(* and each decoder takes every weight of a block from one place, no two   *)
(* from the same (gguf_loader.py; ModelFormats.tla: LoaderFaithful), but   *)
(* for the partial blocks and the types named there.                       *)
THEOREM LoaderIsFaithful ==
  ASSUME NEW f \in WrittenFiles, NEW cuda \in BOOLEAN PROVE F!LoaderFaithful(f, cuda)
<1>1. DOMAIN f.tensors = 1..Len(f.tensors)
  BY DEF WrittenFiles
<1> QED BY <1>1, TensorsFaithful, LayoutsHold DEF F!LoaderFaithful

-----------------------------------------------------------------------------
(* MODEL DIRECTORIES.                                                      *)
LEMMA StreamsWhole == ASSUME NEW p, p.files \in Nat \ {0} PROVE F!StreamsWholeModel(p)
<1> DEFINE d == F!DetectFormat(p)
<1>1. F!StreamLayers(p) = IF d \in {"gguf", "safetensors"} THEN {1} ELSE {}
  BY DEF F!StreamLayers
<1>2. CASE d \in {"gguf", "safetensors"}
  <2>1. F!StreamLayers(p) = {1}
    BY <1>1, <1>2
  <2>2. F!LoadModelMeta(p) = [raised |-> FALSE, files |-> {1}]
    BY <1>2 DEF F!LoadModelMeta
  <2>3. p.files > 1 \/ 1..p.files = {1}
    OBVIOUS
  <2> QED BY <2>1, <2>2, <2>3 DEF F!StreamsWholeModel
<1>3. CASE d = "huggingface"
  <2>1. F!LoadModelMeta(p) = [raised |-> FALSE, files |-> {}]
    BY <1>3 DEF F!LoadModelMeta
  <2> QED BY <1>1, <1>3, <2>1 DEF F!StreamsWholeModel
<1>4. CASE d \notin {"gguf", "safetensors", "huggingface"}
  <2>1. F!LoadModelMeta(p) = [raised |-> TRUE]
    BY <1>4 DEF F!LoadModelMeta
  <2>2. F!LoadModelMeta(p).raised
    BY <2>1
  <2>3. d \in {"phantom", "unknown"} \/ p.files > 1 \/ F!StreamLayers(p) = 1..p.files
    <3>1. d \in {"gguf", "safetensors", "phantom", "huggingface", "unknown"}
      BY DEF F!DetectFormat
    <3> QED BY <1>4, <3>1
  <2> QED BY <2>2, <2>3 DEF F!StreamsWholeModel
<1> QED BY <1>2, <1>3, <1>4

-----------------------------------------------------------------------------
(* ARCHITECTURES.                                                          *)
Areas(t) == [i \in DOMAIN t |-> t[i][1] * t[i][2]]

LEMMA SizeIsSum ==
  ASSUME NEW t, NEW n, DOMAIN t = 1..n
  PROVE  F!LayerSizeBytes(t) = 2 * SumFunctionOnSet(Areas(t), 1..n)
<1>1. F!Mapped(t, LAMBDA r : r[1] * r[2]) = Areas(t)
  BY DEF F!Mapped, Areas
<1>2. DOMAIN Areas(t) = 1..n
  BY DEF Areas
<1>3. F!LayerSizeBytes(t) = 2 * F!Total(Areas(t))
  BY <1>1, Zenon DEF F!LayerSizeBytes
<1> QED BY <1>2, <1>3, TotalIsSum

LEMMA SumSeven ==
  ASSUME NEW w, \A i \in 1..7 : w[i] \in Nat
  PROVE  SumFunctionOnSet(w, 1..7) = w[1] + w[2] + w[3] + w[4] + w[5] + w[6] + w[7]
<1> DEFINE S(k) == SumFunctionOnSet(w, 1..k)
<1>0. S(0) = 0
  <2>1. 1..0 = {}
    OBVIOUS
  <2> QED BY <2>1, SumEmpty
<1>1. ASSUME NEW k \in 0..6 PROVE S(k + 1) = w[k + 1] + S(k)
  <2>1. k \in Nat /\ \A i \in 1..(k + 1) : w[i] \in Nat
    OBVIOUS
  <2> QED BY <2>1, SumNext
<1> HIDE DEF S
<1>2. S(1) = w[1]
  BY <1>0, <1>1
<1>3. S(2) = w[2] + S(1) /\ S(3) = w[3] + S(2) /\ S(4) = w[4] + S(3)
  <2>1. 1 \in 0..6 /\ 2 \in 0..6 /\ 3 \in 0..6 /\ 1 + 1 = 2 /\ 2 + 1 = 3 /\ 3 + 1 = 4
    OBVIOUS
  <2> QED BY <1>1, <2>1
<1>4. S(5) = w[5] + S(4) /\ S(6) = w[6] + S(5) /\ S(7) = w[7] + S(6)
  <2>1. 4 \in 0..6 /\ 5 \in 0..6 /\ 6 \in 0..6 /\ 4 + 1 = 5 /\ 5 + 1 = 6 /\ 6 + 1 = 7
    OBVIOUS
  <2> QED BY <1>1, <2>1
<1>5. w[1] \in Nat /\ w[2] \in Nat /\ w[3] \in Nat /\ w[4] \in Nat /\ w[5] \in Nat
      /\ w[6] \in Nat /\ w[7] \in Nat
  OBVIOUS
<1>6. S(7) = w[1] + w[2] + w[3] + w[4] + w[5] + w[6] + w[7]
  BY <1>2, <1>3, <1>4, <1>5
<1> QED BY <1>6 DEF S

LEMMA SumNine ==
  ASSUME NEW w, \A i \in 1..9 : w[i] \in Nat
  PROVE  SumFunctionOnSet(w, 1..9)
           = w[1] + w[2] + w[3] + w[4] + w[5] + w[6] + w[7] + w[8] + w[9]
<1>1. SumFunctionOnSet(w, 1..(7 + 1)) = w[7 + 1] + SumFunctionOnSet(w, 1..7)
  <2>1. 7 \in Nat /\ \A i \in 1..(7 + 1) : w[i] \in Nat
    OBVIOUS
  <2> QED BY <2>1, SumNext
<1>2. SumFunctionOnSet(w, 1..(8 + 1)) = w[8 + 1] + SumFunctionOnSet(w, 1..8)
  <2>1. 8 \in Nat /\ \A i \in 1..(8 + 1) : w[i] \in Nat
    OBVIOUS
  <2> QED BY <2>1, SumNext
<1>3. SumFunctionOnSet(w, 1..7) = w[1] + w[2] + w[3] + w[4] + w[5] + w[6] + w[7]
  <2>1. \A i \in 1..7 : w[i] \in Nat
    OBVIOUS
  <2> QED BY <2>1, SumSeven
<1>4. w[1] \in Nat /\ w[2] \in Nat /\ w[3] \in Nat /\ w[4] \in Nat /\ w[5] \in Nat
      /\ w[6] \in Nat /\ w[7] \in Nat /\ w[8] \in Nat /\ w[9] \in Nat
  OBVIOUS
<1>5. 7 + 1 = 8 /\ 8 + 1 = 9
  OBVIOUS
<1> QED BY <1>1, <1>2, <1>3, <1>4, <1>5

LEMMA SumTwelve ==
  ASSUME NEW w, \A i \in 1..12 : w[i] \in Nat
  PROVE  SumFunctionOnSet(w, 1..12)
           = SumFunctionOnSet(w, 1..9) + w[10] + w[11] + w[12]
<1>1. SumFunctionOnSet(w, 1..(9 + 1)) = w[9 + 1] + SumFunctionOnSet(w, 1..9)
  <2>1. 9 \in Nat /\ \A i \in 1..(9 + 1) : w[i] \in Nat
    OBVIOUS
  <2> QED BY <2>1, SumNext
<1>2. SumFunctionOnSet(w, 1..(10 + 1)) = w[10 + 1] + SumFunctionOnSet(w, 1..10)
  <2>1. 10 \in Nat /\ \A i \in 1..(10 + 1) : w[i] \in Nat
    OBVIOUS
  <2> QED BY <2>1, SumNext
<1>3. SumFunctionOnSet(w, 1..(11 + 1)) = w[11 + 1] + SumFunctionOnSet(w, 1..11)
  <2>1. 11 \in Nat /\ \A i \in 1..(11 + 1) : w[i] \in Nat
    OBVIOUS
  <2> QED BY <2>1, SumNext
<1>4. w[10] \in Nat /\ w[11] \in Nat /\ w[12] \in Nat
  OBVIOUS
<1>5. SumFunctionOnSet(w, 1..9) \in Nat
  <2>1. 9 \in Nat /\ \A i \in 1..9 : w[i] \in Nat
    OBVIOUS
  <2>2. IsFiniteSet(1..9) /\ Valued(w, 1..9)
    BY <2>1, Upto DEF Valued
  <2> QED BY <2>2, SumNat
<1>6. 9 + 1 = 10 /\ 10 + 1 = 11 /\ 11 + 1 = 12
  OBVIOUS
<1> QED BY <1>1, <1>2, <1>3, <1>4, <1>5, <1>6

(* After m summands, n equal ones.                                         *)
Evenly(w, m, n, c) ==
  (\A i \in 1..(m + n) : w[i] \in Nat) /\ \A j \in 1..n : w[m + j] = c
LEMMA SumTail ==
  ASSUME NEW w, NEW m \in Nat, NEW n \in Nat, NEW c \in Nat, Evenly(w, m, n, c)
  PROVE  SumFunctionOnSet(w, 1..(m + n)) = SumFunctionOnSet(w, 1..m) + n * c
<1> DEFINE S(k) == SumFunctionOnSet(w, 1..k)
           U == {k \in 0..n : S(m + k) # S(m) + k * c}
<1>12. (\A i \in 1..(m + n) : w[i] \in Nat) /\ \A j \in 1..n : w[m + j] = c
  BY DEF Evenly
<1>0. S(m) \in Nat
  <2>1. IsFiniteSet(1..m) /\ Valued(w, 1..m)
    BY <1>12, Upto DEF Valued
  <2> QED BY <2>1, SumNat
<1>1. SUFFICES ASSUME U # {} PROVE FALSE
  <2>1. n \in 0..n
    OBVIOUS
  <2>2. U = {} => S(m + n) = S(m) + n * c
    BY <2>1
  <2> QED BY <2>2
<1>2. PICK k \in U : \A j \in U : k <= j
  <2>1. U \in SUBSET Nat
    OBVIOUS
  <2> HIDE DEF U
  <2> QED BY <1>1, <2>1, LeastNatural
<1>3. k \in 0..n /\ S(m + k) # S(m) + k * c
  BY <1>2
<1>4. k # 0
  <2>1. m + 0 = m /\ 0 * c = 0 /\ S(m) + 0 = S(m)
    BY <1>0
  <2> QED BY <1>3, <2>1
<1>5. k - 1 \in 0..n /\ k - 1 \notin U
  <2>1. k - 1 \in 0..n /\ ~ (k <= k - 1)
    BY <1>3, <1>4
  <2> HIDE DEF U
  <2> QED BY <1>2, <2>1
<1>6. S(m + (k - 1)) = S(m) + (k - 1) * c
  BY <1>5
<1>7. S(m + k) = w[m + k] + S(m + (k - 1))
  <2> DEFINE j == m + (k - 1)
  <2>1. j \in Nat /\ j + 1 = m + k /\ \A i \in 1..(j + 1) : w[i] \in Nat
    BY <1>3, <1>5, <1>12
  <2> HIDE DEF j
  <2>2. SumFunctionOnSet(w, 1..(j + 1)) = w[j + 1] + SumFunctionOnSet(w, 1..j)
    BY <2>1, SumNext
  <2>3. S(m + k) = w[m + k] + S(j)
    BY <2>1, <2>2
  <2> QED BY <2>3 DEF j
<1>8. w[m + k] = c
  BY <1>3, <1>4, <1>12
<1>9. k * c = (k - 1) * c + c
  BY <1>3, <1>4
<1>10. (k - 1) * c \in Nat /\ k * c \in Nat
  BY <1>3, <1>5
<1> HIDE DEF S, U
<1> DEFINE x == (k - 1) * c
           y == k * c
<1>11. x \in Nat /\ y \in Nat /\ y = x + c /\ S(m + k) = c + (S(m) + x) /\ S(m + k) # S(m) + y
  BY <1>3, <1>6, <1>7, <1>8, <1>9, <1>10
<1> HIDE DEF x, y
<1> QED BY <1>0, <1>11

Pairs(t, n) == DOMAIN t = 1..n /\ \A i \in 1..n : t[i][1] \in Nat /\ t[i][2] \in Nat
LEMMA AreasNat ==
  ASSUME NEW t, NEW n \in Nat, Pairs(t, n)
  PROVE  \A i \in 1..n : Areas(t)[i] \in Nat /\ Areas(t)[i] = t[i][1] * t[i][2]
BY DEF Pairs, Areas

(* The shapes a layer's weights are sized from.                            *)
Sized(s) == /\ s.width \in Nat \ {0} /\ s.heads \in Nat \ {0} /\ s.ffn \in Nat \ {0}
            /\ s.kv \in Nat /\ s.kv <= s.heads

(* The weights of the attention, the three of the feed-forward and norms.  *)
LEMMA AttentionIs ==
  ASSUME NEW s, Sized(s), NEW d \in Nat
  PROVE  /\ s.heads * d \in Nat /\ s.kv * d \in Nat
         /\ (s.heads * d) * s.width \in Nat /\ (s.kv * d) * s.width \in Nat
         /\ s.ffn * s.width \in Nat /\ s.width * (s.heads * d) = (s.heads * d) * s.width
         /\ s.width * s.ffn = s.ffn * s.width
         /\ F!Attention(s, d) = 2 * ((s.heads * d) * s.width) + 2 * ((s.kv * d) * s.width)
<1> DEFINE h == s.heads
           k == s.kv
           w == s.width
           f == s.ffn
<1>1. h \in Nat /\ k \in Nat /\ w \in Nat /\ f \in Nat
  BY DEF Sized
<1> HIDE DEF h, k, w, f
<1>2. h * d \in Nat /\ k * d \in Nat /\ f * w \in Nat /\ w * f = f * w
  BY <1>1
<1>3. (h + 2 * k) * d = h * d + 2 * (k * d)
  BY <1>1
<1>4. w * h * d = w * (h * d)
  BY <1>1
<1> DEFINE a == h * d
           b == k * d
<1>5. F!Attention(s, d) = ((h + 2 * k) * d) * w + w * h * d
  BY DEF F!Attention, h, k, w
<1>6. F!Attention(s, d) = (a + 2 * b) * w + w * a
  BY <1>3, <1>4, <1>5
<1>7. a \in Nat /\ b \in Nat
  BY <1>2
<1> HIDE DEF a, b
<1>8. (a + 2 * b) * w = a * w + 2 * (b * w) /\ w * a = a * w /\ a * w \in Nat /\ b * w \in Nat
  BY <1>1, <1>7
<1>9. F!Attention(s, d) = 2 * (a * w) + 2 * (b * w)
  BY <1>6, <1>8
<1> QED BY <1>2, <1>7, <1>8, <1>9 DEF a, b, h, k, w, f

LEMMA LlamaSized ==
  ASSUME NEW s, Sized(s), NEW d \in Nat
  PROVE  /\ Pairs(F!LlamaShapes(s, d), 9)
         /\ F!LayerSizeBytes(F!LlamaShapes(s, d)) = F!LlamaLayer(s, d)
         /\ SumFunctionOnSet(Areas(F!LlamaShapes(s, d)), 1..9)
              = F!Attention(s, d) + 3 * (s.ffn * s.width) + 2 * s.width
<1> DEFINE t == F!LlamaShapes(s, d)
           v == Areas(t)
           x == (s.heads * d) * s.width
           y == (s.kv * d) * s.width
           z == s.ffn * s.width
           w == s.width
<1>1. w \in Nat /\ x \in Nat /\ y \in Nat /\ z \in Nat
  BY AttentionIs DEF Sized
<1>2. s.heads * d \in Nat /\ s.kv * d \in Nat /\ s.width \in Nat /\ s.ffn \in Nat
  BY AttentionIs DEF Sized
<1>3. Pairs(t, 9)
  BY <1>2 DEF Pairs, F!LlamaShapes
<1>4. /\ t[1] = <<s.heads * d, s.width>> /\ t[2] = <<s.kv * d, s.width>>
      /\ t[3] = <<s.kv * d, s.width>> /\ t[4] = <<s.width, s.heads * d>>
      /\ t[5] = <<s.ffn, s.width>> /\ t[6] = <<s.ffn, s.width>> /\ t[7] = <<s.width, s.ffn>>
      /\ t[8] = <<s.width, 1>> /\ t[9] = <<s.width, 1>>
  BY DEF F!LlamaShapes
<1>5. \A i \in 1..9 : v[i] \in Nat /\ v[i] = t[i][1] * t[i][2]
  <2> HIDE DEF t
  <2>1. 9 \in Nat
    OBVIOUS
  <2> QED BY <1>3, <2>1, AreasNat
<1> HIDE DEF t, v
<1>6. /\ v[1] = x /\ v[2] = y /\ v[3] = y /\ v[4] = s.width * (s.heads * d) /\ v[5] = z
      /\ v[6] = z /\ v[7] = s.width * s.ffn /\ v[8] = s.width * 1 /\ v[9] = s.width * 1
  BY <1>4, <1>5
<1>7. v[4] = x /\ v[7] = z /\ v[8] = w /\ v[9] = w
  <2>1. s.width * (s.heads * d) = x /\ s.width * s.ffn = z
    BY AttentionIs
  <2>2. s.width * 1 = w
    BY <1>1
  <2> QED BY <1>6, <2>1, <2>2, Zenon
<1> HIDE DEF x, y, z, w
<1>8. SumFunctionOnSet(v, 1..9)
        = v[1] + v[2] + v[3] + v[4] + v[5] + v[6] + v[7] + v[8] + v[9]
  BY <1>5, SumNine
<1>9. SumFunctionOnSet(v, 1..9) = 2 * x + 2 * y + 3 * z + 2 * w
  BY <1>1, <1>6, <1>7, <1>8
<1>10. F!Attention(s, d) = 2 * x + 2 * y
  BY AttentionIs DEF x, y
<1>11. SumFunctionOnSet(v, 1..9) = F!Attention(s, d) + 3 * z + 2 * w
  BY <1>1, <1>9, <1>10
<1>12. 3 * s.ffn * s.width = 3 * z
  <2>1. s.ffn \in Nat /\ s.width \in Nat
    BY DEF Sized
  <2> QED BY <2>1 DEF z
<1>13. F!LlamaLayer(s, d) = 2 * (F!Attention(s, d) + 3 * z + 2 * w)
  BY <1>12 DEF F!LlamaLayer, w
<1>14. F!LayerSizeBytes(t) = 2 * SumFunctionOnSet(v, 1..9)
  BY <1>3, SizeIsSum DEF Pairs, v
<1> QED BY <1>3, <1>11, <1>13, <1>14 DEF t, v, z, w

(* One list of shapes after another.                                       *)
Sides == Nat \X Nat
Shapes == Seq(Sides)
Cat(s, t) == s \o t
Laid(s, t, m, n) == /\ Cat(s, t) \in Shapes /\ Len(Cat(s, t)) = m + n
                    /\ \A i \in 1..m : Cat(s, t)[i] = s[i]
                    /\ \A i \in 1..n : Cat(s, t)[m + i] = t[i]
LEMMA Joined == \A s, t \in Shapes : Laid(s, t, Len(s), Len(t))
<1> SUFFICES ASSUME NEW s \in Shapes, NEW t \in Shapes PROVE Laid(s, t, Len(s), Len(t))
  OBVIOUS
<1>1. s \o t \in Shapes /\ Len(s \o t) = Len(s) + Len(t)
  BY DEF Shapes
<1>2. \A i \in 1..Len(s) : (s \o t)[i] = s[i]
  BY DEF Shapes
<1>3. \A i \in 1..Len(t) : (s \o t)[Len(s) + i] = t[i]
  BY DEF Shapes
<1> QED BY <1>1, <1>2, <1>3, Zenon DEF Laid, Cat

First4(t) == SubSeq(t, 1, 4)
LEMMA FirstFour ==
  ASSUME NEW t \in Shapes, NEW n \in Nat, Len(t) = n, 4 <= n
  PROVE  First4(t) \in Shapes /\ Len(First4(t)) = 4 /\ \A i \in 1..4 : First4(t)[i] = t[i]
<1>1. DOMAIN t = 1..n /\ \A i \in 1..n : t[i] \in Sides
  BY DEF Shapes
<1>2. First4(t) = [i \in 1..4 |-> t[i]]
  BY <1>1 DEF First4
<1>3. \A i \in 1..4 : t[i] \in Sides
  BY <1>1
<1>4. [i \in 1..4 |-> t[i]] \in Shapes /\ Len([i \in 1..4 |-> t[i]]) = 4
  BY <1>3 DEF Shapes
<1>5. First4(t) \in Shapes /\ Len(First4(t)) = 4
  BY <1>2, <1>4
<1>6. \A i \in 1..4 : First4(t)[i] = t[i]
  BY <1>2
<1> QED BY <1>5, <1>6

LEMMA ShapesPaired ==
  ASSUME NEW t \in Shapes, NEW n \in Nat, Len(t) = n PROVE Pairs(t, n)
<1>1. DOMAIN t = 1..n /\ \A i \in 1..n : t[i] \in Nat \X Nat
  BY DEF Shapes, Sides
<1> QED BY <1>1 DEF Pairs

(* Three biases more.                                                      *)
LEMMA QwenSized ==
  ASSUME NEW s, Sized(s), NEW d \in Nat
  PROVE  F!LayerSizeBytes(F!QwenShapes(s, d)) = F!QwenLayer(s, d)
<1> DEFINE t == F!LlamaShapes(s, d)
           q == F!QwenShapes(s, d)
           more == <<<<s.heads * d, 1>>, <<s.kv * d, 1>>, <<s.kv * d, 1>>>>
           v == Areas(t)
           w == Areas(q)
           a == s.heads * d
           b == s.kv * d
<1>1. a \in Nat /\ b \in Nat
  BY AttentionIs DEF Sized
<1>2. q = Cat(t, more)
  BY DEF F!QwenShapes, Cat
<1>3. t \in Seq(Nat \X Nat) /\ Len(t) = 9
  <2>1. s.heads * d \in Nat /\ s.kv * d \in Nat /\ s.width \in Nat /\ s.ffn \in Nat /\ 1 \in Nat
    BY AttentionIs DEF Sized
  <2> QED BY <2>1 DEF F!LlamaShapes
<1>4. more \in Seq(Nat \X Nat) /\ Len(more) = 3 /\ more[1] = <<a, 1>> /\ more[2] = <<b, 1>>
      /\ more[3] = <<b, 1>>
  BY <1>1
<1>5. Pairs(t, 9)
  BY LlamaSized
<1> HIDE DEF t, q, more, a, b
<1>6. /\ DOMAIN q = 1..12 /\ \A i \in 1..9 : q[i] = t[i]
      /\ q[10] = <<a, 1>> /\ q[11] = <<b, 1>> /\ q[12] = <<b, 1>>
  <2>1. t \in Shapes /\ more \in Shapes /\ 9 \in Nat /\ 3 \in Nat
    BY <1>3, <1>4 DEF Shapes, Sides
  <2>2. /\ Cat(t, more) \in Shapes /\ Len(Cat(t, more)) = 9 + 3
        /\ \A i \in 1..9 : Cat(t, more)[i] = t[i]
        /\ \A i \in 1..3 : Cat(t, more)[9 + i] = more[i]
    <3>1. Len(t) = 9 /\ Len(more) = 3
      BY <1>3, <1>4
    <3>2. Laid(t, more, 9, 3)
      BY <2>1, <3>1, Joined
    <3> QED BY <3>2 DEF Laid
  <2>3. q[9 + 1] = more[1] /\ q[9 + 2] = more[2] /\ q[9 + 3] = more[3]
    <3>1. 1 \in 1..3 /\ 2 \in 1..3 /\ 3 \in 1..3
      OBVIOUS
    <3> QED BY <1>2, <2>2, <3>1
  <2>4. q \in Shapes /\ Len(q) = 12
    BY <1>2, <2>2
  <2>5. DOMAIN q = 1..12
    BY <2>4 DEF Shapes, Sides
  <2>6. 9 + 1 = 10 /\ 9 + 2 = 11 /\ 9 + 3 = 12
    OBVIOUS
  <2>7. q[10] = more[1] /\ q[11] = more[2] /\ q[12] = more[3]
    BY <2>3, <2>6
  <2> QED BY <1>2, <1>4, <2>2, <2>5, <2>7
<1>7. Pairs(q, 12)
  <2>1. \A i \in 1..9 : q[i][1] \in Nat /\ q[i][2] \in Nat
    BY <1>5, <1>6 DEF Pairs
  <2>2. \A i \in {10, 11, 12} : q[i][1] \in Nat /\ q[i][2] \in Nat
    BY <1>1, <1>6
  <2>3. \A i \in 1..12 : i \in 1..9 \/ i \in {10, 11, 12}
    OBVIOUS
  <2> QED BY <1>6, <2>1, <2>2, <2>3 DEF Pairs
<1>8. \A i \in 1..9 : v[i] \in Nat /\ v[i] = t[i][1] * t[i][2]
  <2>1. 9 \in Nat
    OBVIOUS
  <2> QED BY <1>5, <2>1, AreasNat
<1>9. \A i \in 1..12 : w[i] \in Nat /\ w[i] = q[i][1] * q[i][2]
  <2>1. 12 \in Nat
    OBVIOUS
  <2> QED BY <1>7, <2>1, AreasNat
<1> HIDE DEF v, w
<1>10. \A i \in 1..9 : w[i] = v[i]
  <2>1. \A i \in 1..9 : i \in 1..12
    OBVIOUS
  <2> QED BY <1>6, <1>8, <1>9, <2>1, Zenon
<1>11. w[10] = a /\ w[11] = b /\ w[12] = b
  <2>1. w[10] = a * 1 /\ w[11] = b * 1 /\ w[12] = b * 1
    BY <1>6, <1>9
  <2> QED BY <1>1, <2>1
<1>12. SumFunctionOnSet(w, 1..9) = SumFunctionOnSet(v, 1..9)
  <2>1. \A i \in 1..9 : w[i] \in Nat
    BY <1>9
  <2>2. SumFunctionOnSet(w, 1..9)
          = w[1] + w[2] + w[3] + w[4] + w[5] + w[6] + w[7] + w[8] + w[9]
    BY <2>1, SumNine
  <2>3. SumFunctionOnSet(v, 1..9)
          = v[1] + v[2] + v[3] + v[4] + v[5] + v[6] + v[7] + v[8] + v[9]
    BY <1>8, SumNine
  <2> QED BY <1>10, <2>2, <2>3
<1>13. SumFunctionOnSet(w, 1..12) = SumFunctionOnSet(w, 1..9) + w[10] + w[11] + w[12]
  BY <1>9, SumTwelve
<1> DEFINE n == SumFunctionOnSet(v, 1..9)
<1>14. n \in Nat
  <2>1. 9 \in Nat
    OBVIOUS
  <2>2. IsFiniteSet(1..9) /\ Valued(v, 1..9)
    BY <1>8, <2>1, Upto DEF Valued
  <2> QED BY <2>2, SumNat
<1>15. SumFunctionOnSet(w, 1..12) = n + a + b + b
  BY <1>11, <1>12, <1>13
<1>16. F!LayerSizeBytes(t) = 2 * n
  BY <1>5, SizeIsSum DEF Pairs, v
<1>17. F!LayerSizeBytes(q) = 2 * (n + a + b + b)
  BY <1>7, <1>15, SizeIsSum DEF Pairs, w
<1> HIDE DEF n
<1>18. F!LlamaLayer(s, d) = 2 * n
  BY <1>16, LlamaSized DEF t
<1>19. 2 * (s.heads + 2 * s.kv) * d = 2 * (a + 2 * b)
  <2>1. s.heads \in Nat /\ s.kv \in Nat
    BY DEF Sized
  <2>2. 2 * (s.heads + 2 * s.kv) * d = 2 * (s.heads * d + 2 * (s.kv * d))
    BY <2>1
  <2> QED BY <2>2 DEF a, b
<1>20. F!QwenLayer(s, d) = 2 * n + 2 * (a + 2 * b)
  BY <1>18, <1>19 DEF F!QwenLayer
<1>21. 2 * (n + a + b + b) = 2 * n + 2 * (a + 2 * b)
  BY <1>1, <1>14
<1> QED BY <1>17, <1>20, <1>21 DEF q

(* The attention and the router, then three matrices for every expert.     *)
LEMMA SumAfterSeven ==
  ASSUME NEW v, NEW n \in Nat, NEW z \in Nat, Evenly(v, 7, n, z)
  PROVE  SumFunctionOnSet(v, 1..(7 + n)) = SumFunctionOnSet(v, 1..7) + n * z
<1>1. 7 \in Nat
  OBVIOUS
<1>2. ASSUME NEW m \in Nat, Evenly(v, m, n, z)
      PROVE  SumFunctionOnSet(v, 1..(m + n)) = SumFunctionOnSet(v, 1..m) + n * z
  BY <1>2, SumTail
<1> QED BY <1>1, <1>2

LEMMA MixtralSized ==
  ASSUME NEW s, Sized(s), NEW d \in Nat, NEW e \in Nat
  PROVE  F!LayerSizeBytes(F!MixtralShapes(s, d, e)) = F!MixtralLayer(s, d, e)
<1> DEFINE t == F!LlamaShapes(s, d)
           head == Cat(First4(t), <<<<e, s.width>>, <<s.width, 1>>, <<s.width, 1>>>>)
           n == 3 * e
           rest == [i \in 1..n |-> IF i % 3 = 2 THEN <<s.width, s.ffn>> ELSE <<s.ffn, s.width>>]
           m == F!MixtralShapes(s, d, e)
           v == Areas(m)
           x == (s.heads * d) * s.width
           y == (s.kv * d) * s.width
           z == s.ffn * s.width
           w == s.width
           r == e * w
<1>1. w \in Nat /\ x \in Nat /\ y \in Nat /\ z \in Nat /\ r \in Nat /\ n \in Nat
  <2>1. w \in Nat
    BY DEF Sized
  <2>2. x \in Nat /\ y \in Nat /\ z \in Nat
    BY AttentionIs
  <2> QED BY <2>1, <2>2
<1>2. m = Cat(head, rest)
  BY DEF F!MixtralShapes, Cat, First4
<1>3. /\ t \in Seq(Nat \X Nat) /\ Len(t) = 9
      /\ t[1] = <<s.heads * d, s.width>> /\ t[2] = <<s.kv * d, s.width>>
      /\ t[3] = <<s.kv * d, s.width>> /\ t[4] = <<s.width, s.heads * d>>
  <2>1. s.heads * d \in Nat /\ s.kv * d \in Nat /\ s.width \in Nat /\ s.ffn \in Nat /\ 1 \in Nat
    BY AttentionIs DEF Sized
  <2> QED BY <2>1 DEF F!LlamaShapes
<1> HIDE DEF t
<1>4. /\ head \in Seq(Nat \X Nat) /\ Len(head) = 7
      /\ head[1] = t[1] /\ head[2] = t[2] /\ head[3] = t[3] /\ head[4] = t[4]
      /\ head[5] = <<e, w>> /\ head[6] = <<w, 1>> /\ head[7] = <<w, 1>>
  <2> DEFINE four == First4(t)
             three == <<<<e, w>>, <<w, 1>>, <<w, 1>>>>
  <2>1. four \in Seq(Nat \X Nat) /\ Len(four) = 4 /\ \A i \in 1..4 : four[i] = t[i]
    <3>1. t \in Shapes /\ Len(t) = 9 /\ 9 \in Nat /\ 4 <= 9
      BY <1>3 DEF Shapes, Sides
    <3>2. four \in Shapes /\ Len(four) = 4 /\ \A i \in 1..4 : four[i] = t[i]
      BY <3>1, FirstFour
    <3> QED BY <3>2 DEF Shapes, Sides
  <2>2. /\ three \in Seq(Nat \X Nat) /\ Len(three) = 3
        /\ three[1] = <<e, w>> /\ three[2] = <<w, 1>> /\ three[3] = <<w, 1>>
    BY <1>1
  <2> HIDE DEF four, three
  <2>3. /\ Cat(four, three) \in Seq(Nat \X Nat) /\ Len(Cat(four, three)) = 7
        /\ \A i \in 1..4 : Cat(four, three)[i] = four[i]
        /\ Cat(four, three)[5] = three[1] /\ Cat(four, three)[6] = three[2]
        /\ Cat(four, three)[7] = three[3]
    <3>1. four \in Shapes /\ three \in Shapes /\ 4 \in Nat /\ 3 \in Nat
      BY <2>1, <2>2 DEF Shapes, Sides
    <3>2. /\ Cat(four, three) \in Shapes /\ Len(Cat(four, three)) = 4 + 3
          /\ \A i \in 1..4 : Cat(four, three)[i] = four[i]
          /\ \A i \in 1..3 : Cat(four, three)[4 + i] = three[i]
      <4>1. Len(four) = 4 /\ Len(three) = 3
        BY <2>1, <2>2
      <4>2. Laid(four, three, 4, 3)
        BY <3>1, <4>1, Joined
      <4> QED BY <4>2 DEF Laid
    <3>3. /\ Cat(four, three)[4 + 1] = three[1] /\ Cat(four, three)[4 + 2] = three[2]
          /\ Cat(four, three)[4 + 3] = three[3]
      <4>1. 1 \in 1..3 /\ 2 \in 1..3 /\ 3 \in 1..3
        OBVIOUS
      <4> QED BY <3>2, <4>1
    <3>4. 4 + 1 = 5 /\ 4 + 2 = 6 /\ 4 + 3 = 7
      OBVIOUS
    <3> QED BY <3>2, <3>3, <3>4 DEF Shapes, Sides
  <2>4. head = Cat(four, three)
    BY DEF four, three
  <2> HIDE DEF head
  <2>5. \A i \in 1..4 : head[i] = t[i]
    BY <2>1, <2>3, <2>4
  <2>6. 1 \in 1..4 /\ 2 \in 1..4 /\ 3 \in 1..4 /\ 4 \in 1..4
    OBVIOUS
  <2>7. head[1] = t[1] /\ head[2] = t[2] /\ head[3] = t[3] /\ head[4] = t[4]
    BY <2>5, <2>6
  <2> QED BY <2>2, <2>3, <2>4, <2>7
<1>5. rest \in Seq(Nat \X Nat) /\ Len(rest) = n
  <2>1. s.ffn \in Nat /\ s.width \in Nat
    BY DEF Sized
  <2> HIDE DEF n
  <2> QED BY <1>1, <2>1
<1>6. \A i \in 1..n : rest[i] = <<s.width, s.ffn>> \/ rest[i] = <<s.ffn, s.width>>
  OBVIOUS
<1> HIDE DEF head, rest, m, n
<1>7. DOMAIN m = 1..(7 + n) /\ m \in Seq(Nat \X Nat)
      /\ (\A i \in 1..7 : m[i] = head[i]) /\ \A i \in 1..n : m[7 + i] = rest[i]
  <2>1. head \in Shapes /\ rest \in Shapes /\ 7 \in Nat
    BY <1>4, <1>5 DEF Shapes, Sides
  <2>2. /\ m \in Shapes /\ Len(m) = 7 + n /\ \A i \in 1..7 : m[i] = head[i]
        /\ \A i \in 1..n : m[7 + i] = rest[i]
    <3>1. Len(head) = 7 /\ Len(rest) = n
      BY <1>4, <1>5
    <3>2. Laid(head, rest, 7, n)
      BY <2>1, <3>1, Joined
    <3> QED BY <1>2, <3>2 DEF Laid
  <2>3. DOMAIN m = 1..Len(m) /\ m \in Seq(Nat \X Nat)
    BY <2>2 DEF Shapes, Sides
  <2> QED BY <2>2, <2>3
<1>8. Pairs(m, 7 + n)
  <2>1. m \in Shapes /\ 7 + n \in Nat /\ Len(m) = 7 + n
    BY <1>1, <1>7 DEF Shapes, Sides
  <2> QED BY <2>1, ShapesPaired
<1>9. \A i \in 1..(7 + n) : v[i] \in Nat /\ v[i] = m[i][1] * m[i][2]
  <2>1. 7 + n \in Nat
    BY <1>1
  <2> QED BY <1>8, <2>1, AreasNat
<1> HIDE DEF v
<1>10. /\ v[1] = (s.heads * d) * s.width /\ v[2] = (s.kv * d) * s.width
       /\ v[3] = (s.kv * d) * s.width /\ v[4] = s.width * (s.heads * d)
       /\ v[5] = e * w /\ v[6] = w * 1 /\ v[7] = w * 1
  <2>1. \A i \in 1..7 : i \in 1..(7 + n)
    BY <1>1
  <2>2. \A i \in 1..7 : v[i] = head[i][1] * head[i][2]
    BY <1>7, <1>9, <2>1, Zenon
  <2>3. /\ v[1] = head[1][1] * head[1][2] /\ v[2] = head[2][1] * head[2][2]
        /\ v[3] = head[3][1] * head[3][2] /\ v[4] = head[4][1] * head[4][2]
        /\ v[5] = head[5][1] * head[5][2] /\ v[6] = head[6][1] * head[6][2]
        /\ v[7] = head[7][1] * head[7][2]
    <3>1. 1 \in 1..7 /\ 2 \in 1..7 /\ 3 \in 1..7 /\ 4 \in 1..7 /\ 5 \in 1..7 /\ 6 \in 1..7
          /\ 7 \in 1..7
      OBVIOUS
    <3> QED BY <2>2, <3>1, Zenon
  <2>4. /\ head[1][1] = s.heads * d /\ head[1][2] = s.width
        /\ head[2][1] = s.kv * d /\ head[2][2] = s.width
        /\ head[3][1] = s.kv * d /\ head[3][2] = s.width
        /\ head[4][1] = s.width /\ head[4][2] = s.heads * d
    BY <1>3, <1>4
  <2>5. /\ head[5][1] = e /\ head[5][2] = w /\ head[6][1] = w /\ head[6][2] = 1
        /\ head[7][1] = w /\ head[7][2] = 1
    BY <1>4
  <2> QED BY <2>3, <2>4, <2>5, Zenon
<1>11. v[1] = x /\ v[2] = y /\ v[3] = y /\ v[4] = x /\ v[5] = r /\ v[6] = w /\ v[7] = w
  BY <1>1, <1>10, AttentionIs
<1>12. \A i \in 1..n : v[7 + i] = z
  <2>1. s.width * s.ffn = s.ffn * s.width
    BY AttentionIs
  <2>2. ASSUME NEW i \in 1..n PROVE v[7 + i] = z
    <3>1. 7 + i \in 1..(7 + n)
      BY <1>1
    <3>2. v[7 + i] = rest[i][1] * rest[i][2]
      BY <1>7, <1>9, <3>1
    <3> QED BY <1>6, <2>1, <3>2
  <2> QED BY <2>2
<1> HIDE DEF x, y, z, w, r
<1>13. SumFunctionOnSet(v, 1..7) = v[1] + v[2] + v[3] + v[4] + v[5] + v[6] + v[7]
  <2>1. \A i \in 1..7 : v[i] \in Nat
    BY <1>1, <1>9
  <2> QED BY <2>1, SumSeven
<1>14. SumFunctionOnSet(v, 1..7) = 2 * x + 2 * y + r + 2 * w
  BY <1>1, <1>11, <1>13
<1>15. SumFunctionOnSet(v, 1..(7 + n)) = SumFunctionOnSet(v, 1..7) + n * z
  <2>1. Evenly(v, 7, n, z)
    BY <1>9, <1>12 DEF Evenly
  <2> QED BY <1>1, <2>1, SumAfterSeven, Zenon
<1>16. F!Attention(s, d) = 2 * x + 2 * y
  BY AttentionIs DEF x, y
<1>17. e * 3 * s.ffn * s.width = n * z
  <2>1. s.ffn \in Nat /\ s.width \in Nat
    BY DEF Sized
  <2> QED BY <2>1 DEF n, z
<1>18. F!MixtralLayer(s, d, e) = 2 * (F!Attention(s, d) + n * z + r + 2 * w)
  BY <1>17 DEF F!MixtralLayer, r, w
<1> DEFINE u == n * z
<1>19. u \in Nat
  BY <1>1
<1>20. SumFunctionOnSet(v, 1..(7 + n)) = 2 * x + 2 * y + r + 2 * w + u
  BY <1>14, <1>15
<1>21. F!MixtralLayer(s, d, e) = 2 * (2 * x + 2 * y + u + r + 2 * w)
  BY <1>16, <1>18
<1>22. F!LayerSizeBytes(m) = 2 * SumFunctionOnSet(v, 1..(7 + n))
  BY <1>8, SizeIsSum DEF Pairs, v
<1> HIDE DEF u
<1>23. 2 * x + 2 * y + r + 2 * w + u = 2 * x + 2 * y + u + r + 2 * w
  BY <1>1, <1>19
<1> QED BY <1>20, <1>21, <1>22, <1>23 DEF m

(* Experts outweigh what the other builders count.                         *)
LEMMA ExpertsWeigh ==
  ASSUME NEW s, Sized(s), NEW e \in Nat, e > 1
  PROVE  LET d == s.width \div s.heads
         IN  /\ d \in Nat
             /\ F!LlamaLayer(s, d) < F!MixtralLayer(s, d, e)
             /\ F!QwenLayer(s, d) < F!MixtralLayer(s, d, e)
<1> DEFINE h == s.heads
           k == s.kv
           w == s.width
           f == s.ffn
           d == w \div h
           r == w % h
           z == f * w
           a == h * d
           b == k * d
           u == e * z
           v == e * w
           n == F!Attention(s, d)
<1>1. /\ h \in Nat \ {0} /\ k \in Nat /\ k <= h /\ w \in Nat \ {0} /\ f \in Nat \ {0}
      /\ h \in Nat /\ w \in Nat /\ f \in Nat
  BY DEF Sized
<1> HIDE DEF h, k, w, f
<1>2. d \in Nat /\ r \in Nat /\ w = h * d + r
  BY <1>1
<1>3. n \in Nat
  <2>1. /\ (s.heads * d) * s.width \in Nat /\ (s.kv * d) * s.width \in Nat
        /\ n = 2 * ((s.heads * d) * s.width) + 2 * ((s.kv * d) * s.width)
    BY <1>2, AttentionIs
  <2> DEFINE x == (s.heads * d) * s.width
             y == (s.kv * d) * s.width
  <2> HIDE DEF n, x, y
  <2>2. x \in Nat /\ y \in Nat /\ n = 2 * x + 2 * y
    BY <2>1 DEF x, y
  <2> QED BY <2>2
<1>4. F!LlamaLayer(s, d) = 2 * (n + 3 * f * w + 2 * w)
  BY DEF F!LlamaLayer, f, w
<1>5. F!QwenLayer(s, d) = F!LlamaLayer(s, d) + 2 * (h + 2 * k) * d
  BY DEF F!QwenLayer, h, k
<1>6. F!MixtralLayer(s, d, e) = 2 * (n + e * 3 * f * w + e * w + 2 * w)
  BY DEF F!MixtralLayer, f, w
<1> HIDE DEF d, r, n
<1>7. z \in Nat /\ a \in Nat /\ b \in Nat /\ u \in Nat /\ v \in Nat
  BY <1>1, <1>2
<1>8. 3 * f * w = 3 * z /\ e * 3 * f * w = 3 * u
  BY <1>1
<1>9. 2 * (h + 2 * k) * d = 2 * (a + 2 * b)
  BY <1>1, <1>2
<1>10. b <= a
  <2>1. \A x, y \in Nat : x <= y => x * d <= y * d
    BY <1>2
  <2> QED BY <1>1, <2>1
<1>11. a <= w
  <2> HIDE DEF a
  <2>1. w = a + r
    BY <1>2 DEF a
  <2> QED BY <1>2, <1>7, <2>1
<1>12. w <= z
  <2>1. z = w + (f - 1) * w /\ (f - 1) * w \in Nat
    BY <1>1
  <2> DEFINE y == (f - 1) * w
  <2>2. y \in Nat /\ z = w + y
    BY <2>1
  <2> HIDE DEF z, y
  <2> QED BY <1>1, <1>7, <2>2
<1>13. 2 * z <= u /\ 2 * w <= v
  <2>1. u = 2 * z + (e - 2) * z /\ v = 2 * w + (e - 2) * w
    BY <1>1, <1>7
  <2>2. e - 2 \in Nat
    OBVIOUS
  <2>3. (e - 2) * z \in Nat /\ (e - 2) * w \in Nat
    BY <1>1, <1>7, <2>2
  <2> DEFINE x == (e - 2) * z
             y == (e - 2) * w
  <2>4. x \in Nat /\ y \in Nat /\ u = 2 * z + x /\ v = 2 * w + y
    BY <2>1, <2>3
  <2> HIDE DEF u, v, z, x, y
  <2> QED BY <1>1, <1>7, <2>4
<1>14. F!LlamaLayer(s, d) = 2 * (n + 3 * z + 2 * w)
  BY <1>4, <1>8
<1>15. F!QwenLayer(s, d) = 2 * (n + 3 * z + 2 * w) + 2 * (a + 2 * b)
  BY <1>5, <1>9, <1>14
<1>16. F!MixtralLayer(s, d, e) = 2 * (n + 3 * u + v + 2 * w)
  BY <1>6, <1>8
<1> HIDE DEF z, a, b, u, v
<1>17. /\ 2 * (n + 3 * z + 2 * w) < 2 * (n + 3 * u + v + 2 * w)
       /\ 2 * (n + 3 * z + 2 * w) + 2 * (a + 2 * b) < 2 * (n + 3 * u + v + 2 * w)
  BY <1>1, <1>3, <1>7, <1>10, <1>11, <1>12, <1>13
<1>18. /\ F!LlamaLayer(s, d) < F!MixtralLayer(s, d, e)
       /\ F!QwenLayer(s, d) < F!MixtralLayer(s, d, e)
  BY <1>14, <1>15, <1>16, <1>17
<1> QED BY <1>2, <1>18 DEF d, w, h

(* A configuration with a width, heads and a feed-forward, no more KV heads *)
(* than heads, and the number of experts of a mixtral under its own key.   *)
TypeOf(c) == F!Optional(c, "type", "llama")
Sizable(c) ==
  /\ Sized(F!Shape(c))
  /\ F!Optional(c, "experts", 0) \in Nat /\ F!Optional(c, "n_routed_experts", 0) \in Nat
  /\ TypeOf(c) = "mixtral" => "n_routed_experts" \notin DOMAIN c
(* One of a model, which has a family: deepseek counts experts its own way. *)
Described(c) ==
  /\ Sizable(c)
  /\ "gguf" \in DOMAIN c /\ (c.gguf = "deepseek" <=> "deepseek" \in c.tags)
  /\ "deepseek" \in c.tags => "experts" \notin DOMAIN c

LEMMA Experts ==
  ASSUME NEW c, Sizable(c)
  PROVE  /\ F!ExpertCount(c) \in Nat
         /\ F!Optional(c, "experts", 0) > 1
              => F!ExpertCount(c) = F!Optional(c, "experts", 0)
         /\ TypeOf(c) = "mixtral" => F!ExpertCount(c) = F!Optional(c, "experts", 0)
BY DEF Sizable, F!ExpertCount, F!Optional

LEMMA LayerSized ==
  ASSUME NEW p, NEW b, NEW o, NEW c, c = F!Configured(p, b, o), Sizable(c),
         ~ F!DetectArchitecture(p, b, o).raised
  PROVE  LET d == F!DetectArchitecture(p, b, o)
             s == F!Shape(c)
             hd == s.width \div s.heads
             experts == F!ExpertCount(c)
             shapes == IF experts > 1 THEN F!MixtralShapes(s, hd, experts)
                       ELSE IF TypeOf(c) \in {"qwen2", "qwen"} THEN F!QwenShapes(s, hd)
                       ELSE F!LlamaShapes(s, hd)
         IN  \/ d.layer = F!LayerSizeBytes(shapes)
             \/ d.layer < F!LayerSizeBytes(shapes) /\ experts > 1 /\ TypeOf(c) # "mixtral"
<1> DEFINE s == F!Shape(c)
           hd == s.width \div s.heads
           experts == F!ExpertCount(c)
           own == F!Optional(c, "experts", 0)
           type == TypeOf(c)
           x == F!MixtralLayer(s, hd, experts)
           q == F!QwenLayer(s, hd)
           l == F!LlamaLayer(s, hd)
           shapes == IF experts > 1 THEN F!MixtralShapes(s, hd, experts)
                     ELSE IF type \in {"qwen2", "qwen"} THEN F!QwenShapes(s, hd)
                     ELSE F!LlamaShapes(s, hd)
           layer == F!DetectArchitecture(p, b, o).layer
<1>1. layer = IF own > 1 /\ type = "mixtral" THEN F!MixtralLayer(s, hd, own)
              ELSE IF type \in {"qwen2", "qwen"} THEN q ELSE l
  <2>1. ~ (F!Missing(p) \/ DOMAIN c = {})
    BY DEF F!DetectArchitecture
  <2> QED BY <2>1 DEF F!DetectArchitecture, TypeOf
<1>2. /\ experts \in Nat /\ (own > 1 => experts = own) /\ (type = "mixtral" => experts = own)
      /\ own \in Nat
  BY Experts DEF Sizable
<1>3. Sized(s) /\ hd \in Nat
  BY DEF Sizable, Sized
<1> HIDE DEF layer, s, own, type
<1>4. F!LayerSizeBytes(shapes) = IF experts > 1 THEN x
                                 ELSE IF type \in {"qwen2", "qwen"} THEN q ELSE l
  <2> HIDE DEF hd, experts
  <2>1. F!LayerSizeBytes(F!MixtralShapes(s, hd, experts)) = x
    BY <1>2, <1>3, MixtralSized
  <2>2. F!LayerSizeBytes(F!QwenShapes(s, hd)) = q
    BY <1>3, QwenSized
  <2>3. F!LayerSizeBytes(F!LlamaShapes(s, hd)) = l
    BY <1>3, LlamaSized
  <2> QED BY <2>1, <2>2, <2>3, Zenon
<1>5. experts > 1 => l < x /\ q < x
  <2> HIDE DEF experts
  <2> QED BY <1>2, <1>3, ExpertsWeigh
<1>6. own > 1 => F!MixtralLayer(s, hd, own) = x
  BY <1>2
<1> HIDE DEF experts, x, q, l, hd, shapes
<1>7. CASE experts > 1 /\ type = "mixtral"
  <2>1. layer = x /\ F!LayerSizeBytes(shapes) = x
    BY <1>1, <1>2, <1>4, <1>6, <1>7
  <2> QED BY <2>1 DEF layer, shapes, s, hd, experts, type
<1>8. CASE experts > 1 /\ type # "mixtral"
  <2>1. layer < x /\ F!LayerSizeBytes(shapes) = x
    BY <1>1, <1>4, <1>5, <1>8
  <2>2. layer < F!LayerSizeBytes(shapes) /\ experts > 1 /\ type # "mixtral"
    BY <1>8, <2>1
  <2> QED BY <2>2 DEF layer, shapes, s, hd, experts, type
<1>9. CASE ~ (experts > 1)
  <2>1. ~ (own > 1)
    BY <1>2, <1>9
  <2>2. layer = F!LayerSizeBytes(shapes)
    BY <1>1, <1>4, <1>9, <2>1
  <2> QED BY <2>2 DEF layer, shapes, s, hd, experts, type
<1> QED BY <1>7, <1>8, <1>9

(* The layers of any configuration, with any override, have the size of    *)
(* their weights, but for the families that ArchitectureSized names, and   *)
(* nothing that can be streamed is sized from its path (auto_detect.py:    *)
(* 77-419, loader/__init__.py:170-192).                                    *)
THEOREM Architectures ==
  ASSUME NEW c, NEW o, NEW p, p.kind \in {"file", "dir"},
         DOMAIN F!Configured(p, c, o) # {} => Sizable(F!Configured(p, c, o))
  PROVE  F!ArchitectureSized(p, c, o)
<1> DEFINE d == F!DetectArchitecture(p, c, o)
           e == F!Configured(p, c, o)
           s == F!Shape(e)
           hd == s.width \div s.heads
           true == F!Optional(e, "head_dim", hd)
           experts == F!ExpertCount(e)
           shapes(n) == IF experts > 1 THEN F!MixtralShapes(s, n, experts)
                        ELSE IF TypeOf(e) \in {"qwen2", "qwen"} THEN F!QwenShapes(s, n)
                        ELSE F!LlamaShapes(s, n)
<1>1. ~ d.raised => \/ d.layer = F!LayerSizeBytes(shapes(true))
                    \/ d.layer < F!LayerSizeBytes(shapes(true))
                         /\ experts > 1 /\ TypeOf(e) # "mixtral"
                    \/ true # hd
  <2> SUFFICES ASSUME ~ d.raised, true = hd
               PROVE  \/ d.layer = F!LayerSizeBytes(shapes(hd))
                      \/ d.layer < F!LayerSizeBytes(shapes(hd))
                           /\ experts > 1 /\ TypeOf(e) # "mixtral"
    BY Zenon
  <2>1. DOMAIN e # {}
    BY DEF F!DetectArchitecture
  <2> QED BY <2>1, LayerSized
<1>2. DOMAIN o = {} => d.raised \/ F!StreamLayers(p) = {}
  <2> SUFFICES ASSUME DOMAIN o = {}, F!StreamLayers(p) # {} PROVE d.raised
    OBVIOUS
  <2>1. F!DetectFormat(p) \in {"gguf", "safetensors"}
    BY DEF F!StreamLayers
  <2>2. ~ (p.kind = "dir" /\ "config" \in p.has)
    BY <2>1 DEF F!DetectFormat
  <2>3. DOMAIN F!NoKeys = {}
    BY DEF F!NoKeys
  <2>4. DOMAIN e = {}
    BY <2>2, <2>3 DEF F!Configured, F!Updated
  <2> QED BY <2>4 DEF F!DetectArchitecture
<1> QED BY <1>1, <1>2, Zenon DEF F!ArchitectureSized, TypeOf

(* What the GGUF made of a configuration says under a name of its own.     *)
LEMMA NamesRead ==
  ASSUME NEW c, NEW g \in DOMAIN F!Names, NEW v
  PROVE  /\ F!Optional(F!Converted(c), g, v)
              = F!Optional(c, F!Names[g][1], F!Optional(c, F!Names[g][2], v))
         /\ g \in DOMAIN F!Converted(c)
              <=> F!Names[g][1] \in DOMAIN c \/ F!Names[g][2] \in DOMAIN c
<1> DEFINE A(n) == F!Names[n][1]
           B(n) == F!Names[n][2]
           ks == {n \in DOMAIN F!Names : A(n) \in DOMAIN c \/ B(n) \in DOMAIN c}
<1>1. F!Converted(c) = [n \in ks |-> IF A(n) \in DOMAIN c THEN c[A(n)] ELSE c[B(n)]]
  BY DEF F!Converted
<1> HIDE DEF A, B
<1>2. /\ g \in DOMAIN F!Converted(c) <=> A(g) \in DOMAIN c \/ B(g) \in DOMAIN c
      /\ g \in DOMAIN F!Converted(c)
           => F!Converted(c)[g] = IF A(g) \in DOMAIN c THEN c[A(g)] ELSE c[B(g)]
  BY <1>1
<1>3. F!Optional(F!Converted(c), g, v) = F!Optional(c, A(g), F!Optional(c, B(g), v))
  BY <1>2 DEF F!Optional
<1> QED BY <1>2, <1>3 DEF A, B

LEMMA NamesAre ==
  /\ DOMAIN F!Names = {"block_count", "embedding_length", "head_count", "head_count_kv",
                       "feed_forward_length", "vocab_size", "expert_count", "q_lora_rank",
                       "kv_lora_rank", "architecture"}
  /\ F!Names["block_count"] = <<"num_hidden_layers", "n_layer">>
  /\ F!Names["embedding_length"] = <<"hidden_size", "n_embd">>
  /\ F!Names["head_count"] = <<"num_attention_heads", "n_head">>
  /\ F!Names["head_count_kv"] = <<"num_key_value_heads", "num_key_value_heads">>
  /\ F!Names["feed_forward_length"] = <<"intermediate_size", "intermediate_size">>
  /\ F!Names["vocab_size"] = <<"vocab_size", "vocab_size">>
  /\ F!Names["expert_count"] = <<"experts", "n_routed_experts">>
  /\ F!Names["q_lora_rank"] = <<"q_lora_rank", "q_lora_rank">>
  /\ F!Names["kv_lora_rank"] = <<"kv_lora_rank", "kv_lora_rank">>
  /\ F!Names["architecture"] = <<"gguf", "gguf">>
BY DEF F!Names

(* The two descriptions of any model agree, but for the experts and ranks  *)
(* that TwoDescriptionsAgree names (format_detect.py:81-173,               *)
(* gguf_loader.py:252-301).                                                *)
THEOREM DescriptionsAgree ==
  ASSUME NEW c, Described(c) PROVE F!TwoDescriptionsAgree(c)
<1> DEFINE m == F!Converted(c)
           hf == F!HfSpec(c)
           gg == F!GgufSpec(m)
           experts == F!ExpertCount(c)
<1>1. \A v : /\ F!Optional(m, "block_count", v)
                  = F!Optional(c, "num_hidden_layers", F!Optional(c, "n_layer", v))
             /\ F!Optional(m, "embedding_length", v)
                  = F!Optional(c, "hidden_size", F!Optional(c, "n_embd", v))
             /\ F!Optional(m, "head_count", v)
                  = F!Optional(c, "num_attention_heads", F!Optional(c, "n_head", v))
             /\ F!Optional(m, "expert_count", v)
                  = F!Optional(c, "experts", F!Optional(c, "n_routed_experts", v))
  <2> HIDE DEF m
  <2>1. \A g \in DOMAIN F!Names : \A v :
          F!Optional(m, g, v) = F!Optional(c, F!Names[g][1], F!Optional(c, F!Names[g][2], v))
    BY NamesRead DEF m
  <2> QED BY <2>1, NamesAre
<1>2. \A k, v : F!Optional(c, k, F!Optional(c, k, v)) = F!Optional(c, k, v)
  BY DEF F!Optional
<1>3. \A v : /\ F!Optional(m, "head_count_kv", v) = F!Optional(c, "num_key_value_heads", v)
             /\ F!Optional(m, "feed_forward_length", v) = F!Optional(c, "intermediate_size", v)
             /\ F!Optional(m, "vocab_size", v) = F!Optional(c, "vocab_size", v)
             /\ F!Optional(m, "architecture", v) = F!Optional(c, "gguf", v)
  <2> HIDE DEF m
  <2>1. \A g \in DOMAIN F!Names : \A v :
          F!Optional(m, g, v) = F!Optional(c, F!Names[g][1], F!Optional(c, F!Names[g][2], v))
    BY NamesRead DEF m
  <2> QED BY <1>2, <2>1, NamesAre
<1>4. /\ "q_lora_rank" \in DOMAIN m <=> "q_lora_rank" \in DOMAIN c
      /\ "kv_lora_rank" \in DOMAIN m <=> "kv_lora_rank" \in DOMAIN c
      /\ "layer_count" \notin DOMAIN m /\ "tokenizer" \notin DOMAIN m
  <2>1. \A g \in DOMAIN F!Names :
          g \in DOMAIN m <=> F!Names[g][1] \in DOMAIN c \/ F!Names[g][2] \in DOMAIN c
    BY NamesRead
  <2>2. DOMAIN m \subseteq DOMAIN F!Names
    BY DEF F!Converted
  <2> HIDE DEF m
  <2> QED BY <2>1, <2>2, NamesAre
<1>5. F!Optional(m, "layer_count", 32) = 32 /\ F!Optional(m, "tokenizer", 32000) = 32000
  BY <1>4 DEF F!Optional
<1>6. hf.shape = gg.shape
  <2>1. hf.shape = F!Shape(c)
    BY DEF F!HfSpec
  <2> DEFINE w == F!Optional(c, "hidden_size", F!Optional(c, "n_embd", 4096))
             h == F!Optional(c, "num_attention_heads", F!Optional(c, "n_head", 32))
  <2>2. F!Optional(m, "embedding_length", 4096) = w /\ F!Optional(m, "head_count", 32) = h
    BY <1>1
  <2>3. gg.shape = [layers |-> F!Optional(m, "block_count", F!Optional(m, "layer_count", 32)),
                    width |-> w, heads |-> h, kv |-> F!Optional(m, "head_count_kv", h),
                    ffn |-> F!Optional(m, "feed_forward_length", w * 4),
                    vocab |-> F!Optional(m, "vocab_size", F!Optional(m, "tokenizer", 32000))]
    <3> HIDE DEF m, w, h
    <3> QED BY <2>2 DEF F!GgufSpec
  <2>4. F!Shape(c) = [layers |-> F!Optional(c, "num_hidden_layers", F!Optional(c, "n_layer", 32)),
                      width |-> w, heads |-> h, kv |-> F!Optional(c, "num_key_value_heads", h),
                      ffn |-> F!Optional(c, "intermediate_size", 4 * w),
                      vocab |-> F!Optional(c, "vocab_size", 32000)]
    BY DEF F!Shape
  <2>5. w * 4 = 4 * w
    <3>1. w \in Nat
      BY DEF Described, Sizable, Sized, F!Shape
    <3> HIDE DEF w
    <3> QED BY <3>1
  <2> HIDE DEF m, w, h
  <2>6. /\ F!Optional(m, "block_count", F!Optional(m, "layer_count", 32))
             = F!Optional(c, "num_hidden_layers", F!Optional(c, "n_layer", 32))
        /\ F!Optional(m, "head_count_kv", h) = F!Optional(c, "num_key_value_heads", h)
        /\ F!Optional(m, "feed_forward_length", w * 4) = F!Optional(c, "intermediate_size", 4 * w)
        /\ F!Optional(m, "vocab_size", F!Optional(m, "tokenizer", 32000))
             = F!Optional(c, "vocab_size", 32000)
    BY <1>1, <1>3, <1>5, <2>5
  <2> QED BY <2>1, <2>3, <2>4, <2>6
<1> DEFINE lora == {"kv_lora_rank", "q_lora_rank"} \cap DOMAIN c # {}
           deep == "deepseek" \in c.tags
<1>7. /\ hf.moe = IF deep THEN "n_routed_experts" \in DOMAIN c
                  ELSE "mixtral" \in c.tags \/ "qwen2_moe" \in c.tags
      /\ hf.mla = (deep /\ lora)
  BY Zenon DEF F!HfSpec
<1>8. gg.moe = (experts > 0)
  <2>1. F!Optional(m, "expert_count", 0) = experts
    BY <1>1 DEF F!ExpertCount
  <2> HIDE DEF m, experts
  <2> QED BY <2>1 DEF F!GgufSpec
<1>9. gg.mla = (lora \/ deep)
  <2>1. F!Optional(m, "architecture", "llama") = c.gguf
    BY <1>3 DEF Described, F!Optional
  <2>2. gg.mla = ("q_lora_rank" \in DOMAIN m \/ "kv_lora_rank" \in DOMAIN m
                    \/ F!Optional(m, "architecture", "llama") = "deepseek")
    <3> HIDE DEF m
    <3> QED BY DEF F!GgufSpec
  <2>3. lora <=> "q_lora_rank" \in DOMAIN c \/ "kv_lora_rank" \in DOMAIN c
    OBVIOUS
  <2>4. c.gguf = "deepseek" <=> deep
    BY DEF Described
  <2> HIDE DEF m, lora, deep
  <2> QED BY <1>4, <2>1, <2>2, <2>3, <2>4
<1>10. deep => experts = F!Optional(c, "n_routed_experts", 0)
  BY DEF Described, F!ExpertCount, F!Optional
<1>11. experts \in Nat
  BY Experts DEF Described
<1>12. hf.moe # gg.moe
         => c.tags \cap {"mixtral", "qwen2_moe", "deepseek"} = {} \/ experts = 0
  <2> SUFFICES ASSUME hf.moe # gg.moe, experts # 0
               PROVE  c.tags \cap {"mixtral", "qwen2_moe", "deepseek"} = {}
    OBVIOUS
  <2>1. experts > 0
    <3> HIDE DEF experts
    <3> QED BY <1>11
  <2>2. deep => "n_routed_experts" \in DOMAIN c
    BY <1>10 DEF F!Optional
  <2>3. gg.moe = TRUE
    <3>1. (experts > 0) = TRUE
      <4> HIDE DEF experts
      <4> QED BY <2>1
    <3> QED BY <1>8, <3>1, Zenon
  <2>4. ~ hf.moe
    <3>1. hf.moe \in BOOLEAN
      <4>1. ("n_routed_experts" \in DOMAIN c) \in BOOLEAN
        OBVIOUS
      <4>2. ("mixtral" \in c.tags \/ "qwen2_moe" \in c.tags) \in BOOLEAN
        OBVIOUS
      <4> QED BY <1>7, <4>1, <4>2, Zenon
    <3> QED BY <2>3, <3>1, Zenon
  <2>5. ~ deep /\ "mixtral" \notin c.tags /\ "qwen2_moe" \notin c.tags
    BY <1>7, <2>2, <2>4, Zenon
  <2> QED BY <2>5
<1>13. hf.mla # gg.mla => \/ deep /\ ~ hf.mla
                          \/ ~ deep
  BY <1>7, <1>9, Zenon
<1> QED BY <1>6, <1>12, <1>13, Zenon DEF F!TwoDescriptionsAgree

-----------------------------------------------------------------------------
(* WHAT IS READ.                                                           *)
LEMMA FilesWritten == GgufFiles \cup {SomeFile} \subseteq WrittenFiles
<1>1. ASSUME NEW q \in F!Enumerated \cup {"TQ2_0"}, NEW r \in F!Enumerated \cup {"TQ2_0"},
             NEW n \in Nat, NEW kv \in {<<>>, <<Scalar, Array>>}, NEW a \in Nat \ {0}
      PROVE  File(q, r, n, kv, a) \in WrittenFiles
  <2>1. Scalar \in Entries /\ Array \in Entries
    <3>1. [type |-> "scalar", width |-> 4] \in Values
      BY DEF Values
    <3>2. [type |-> "array", items |-> <<9, 12>>] \in Values
      <4>1. <<9, 12>> \in Seq(Nat)
        OBVIOUS
      <4> QED BY <4>1 DEF Values
    <3>3. 9 \in Nat /\ 20 \in Nat
      OBVIOUS
    <3> QED BY <3>1, <3>2, <3>3, Zenon DEF Scalar, Array, Entries
  <2>2. kv \in Seq(Entries)
    <3>1. \A E : \A x, y \in E : \A s : s = <<x, y>> => s \in Seq(E)
      OBVIOUS
    <3>2. \A E : \A s : s = <<>> => s \in Seq(E)
      OBVIOUS
    <3>3. kv = <<>> \/ kv = <<Scalar, Array>>
      OBVIOUS
    <3> QED BY <2>1, <3>1, <3>2, <3>3, Zenon
  <2>3. \A t \in F!Enumerated \cup {"TQ2_0"}, m \in Nat : Tensor(t, m) \in Tensors
    BY DEF Tensor, Tensors
  <2>4. <<Tensor(q, n), Tensor(r, 300), Tensor(q, n)>> \in Seq(Tensors)
    <3>1. 300 \in Nat
      OBVIOUS
    <3>2. Tensor(q, n) \in Tensors /\ Tensor(r, 300) \in Tensors
      BY <2>3, <3>1, Zenon
    <3>3. \A E : \A x, y \in E : \A s : s = <<x, y, x>> => s \in Seq(E)
      OBVIOUS
    <3> QED BY <3>2, <3>3, Zenon
  <2> QED BY <2>2, <2>4, Zenon DEF File, WrittenFiles
<1>2. {"F32", "Q4_K", "TQ2_0", "F16"} \subseteq F!Enumerated \cup {"TQ2_0"}
  BY SpecsKnown
<1>3. SomeFile \in WrittenFiles
  <2>1. 256 \in Nat /\ 32 \in Nat \ {0} /\ <<>> \in {<<>>, <<Scalar, Array>>}
    OBVIOUS
  <2> QED BY <1>1, <1>2, <2>1 DEF SomeFile
<1>4. ASSUME NEW f \in GgufFiles PROVE f \in WrittenFiles
  <2>1. PICK q \in F!Enumerated \cup {"TQ2_0"}, r \in {"F32", "Q4_K", "TQ2_0"},
             n \in {0, 256, 300}, kv \in {<<>>, <<Scalar, Array>>}, a \in {32, 64} :
               f = File(q, r, n, kv, a)
    BY DEF GgufFiles
  <2>2. n \in Nat /\ a \in Nat \ {0} /\ r \in F!Enumerated \cup {"TQ2_0"}
    BY <1>2
  <2> QED BY <1>1, <2>1, <2>2
<1> QED BY <1>3, <1>4

Located(p) == p.files \in Nat \ {0} /\ p.kind \in {"file", "dir"}
LEMMA PathsNamed == \A p \in Paths \cup {Directory} : Located(p)
<1>1. \A k \in {"file", "dir"}, n \in {1, 2} : \A s, h : Located(Path(k, s, h, n))
  BY DEF Path, Located
<1>2. 1 \in {1, 2} /\ \A n \in 1..2 : n \in {1, 2}
  OBVIOUS
<1>3. Located(Directory)
  BY <1>1, <1>2, Zenon DEF Directory
<1>4. ASSUME NEW p \in Paths PROVE Located(p)
  <2>1. CASE \E x \in {"gguf", "safetensors", "phantom", "bin", "other"} :
               p = Path("file", x, {}, 1)
    BY <1>1, <1>2, <2>1, Zenon
  <2>2. CASE \E n \in 1..2, x \in SUBSET {"manifest", "weights", "config", "gguf", "safetensors"} :
               p = Path("dir", "other", x, n)
    BY <1>1, <1>2, <2>2, Zenon
  <2> QED BY <2>1, <2>2, SMT DEF Paths
<1> QED BY <1>3, <1>4, Zenon

(* What a configuration put together says of a key.                        *)
Merges(h, f, g) ==
  /\ DOMAIN h = DOMAIN f \cup DOMAIN g
  /\ \A k \in DOMAIN f : h[k] = f[k]
  /\ \A k \in DOMAIN g : k \notin DOMAIN f => h[k] = g[k]
LEMMA Merged == ASSUME NEW f, NEW g PROVE Merges(With(f, g), f, g)
BY DEF With, Merges

LEMMA Looked ==
  ASSUME NEW h, NEW f, NEW g, Merges(h, f, g)
  PROVE  /\ \A k \in DOMAIN f : \A v : F!Optional(h, k, v) = f[k]
         /\ \A k, v : k \notin DOMAIN f => F!Optional(h, k, v) = F!Optional(g, k, v)
BY DEF Merges, F!Optional

LEMMA FamiliesTagged ==
  ASSUME NEW c \in Families
  PROVE  /\ DOMAIN c = {"type", "tags", "gguf"}
         /\ c.type = "mixtral" => "deepseek" \notin c.tags
         /\ c.gguf = "deepseek" <=> "deepseek" \in c.tags
<1>1. DOMAIN c = {"type", "tags", "gguf"}
  BY DEF Families, Config
<1>2. c.type = "mixtral" => "deepseek" \notin c.tags
  BY DEF Families, Config
<1>3. c.gguf = "deepseek" <=> "deepseek" \in c.tags
  BY DEF Families, Config
<1> QED BY <1>1, <1>2, <1>3

(* A family and the numbers s, then the keys k.                            *)
Width(s) == F!Optional(s, "hidden_size", F!Optional(s, "n_embd", 4096))
Heads(s) == F!Optional(s, "num_attention_heads", F!Optional(s, "n_head", 32))
Feed(s) == F!Optional(s, "intermediate_size", 4 * Width(s))
Numbers(s) ==
  /\ Width(s) \in Nat \ {0} /\ Heads(s) \in Nat /\ Heads(s) > 3 /\ Feed(s) \in Nat \ {0}
  /\ {"type", "tags", "gguf", "num_key_value_heads", "experts", "n_routed_experts"}
        \cap DOMAIN s = {}
LEMMA SmallNumbers == \A s \in Partial : Numbers(s)
<1>1. Numbers(Small)
  BY DEF Small, Numbers, Width, Heads, Feed, F!Optional
<1> DEFINE a == [hidden_size |-> 64, num_attention_heads |-> 4, num_hidden_layers |-> 1]
           b == [intermediate_size |-> 96, num_hidden_layers |-> 2, vocab_size |-> 100]
           g == [n_embd |-> 80, n_head |-> 5, n_layer |-> 3]
<1>2. Numbers(a)
  BY DEF Numbers, Width, Heads, Feed, F!Optional
<1>3. Numbers(b)
  BY DEF Numbers, Width, Heads, Feed, F!Optional
<1>4. Numbers(g)
  BY DEF Numbers, Width, Heads, Feed, F!Optional
<1> HIDE DEF a, b, g
<1>5. Partial = {Small, a, b, g}
  BY Zenon DEF Partial, a, b, g
<1> QED BY <1>1, <1>2, <1>3, <1>4, <1>5

(* What a configuration's shape is made of.                                *)
LEMMA ShapeIs ==
  ASSUME NEW c
  PROVE  /\ F!Shape(c).width = Width(c) /\ F!Shape(c).heads = Heads(c)
         /\ F!Shape(c).kv = F!Optional(c, "num_key_value_heads", Heads(c))
         /\ F!Shape(c).ffn = Feed(c)
BY DEF F!Shape, Width, Heads, Feed

LEMMA PlainDescribed ==
  ASSUME NEW c \in Families, NEW s \in Partial PROVE Described(With(c, s))
<1> DEFINE d == With(c, s)
<1>1. Numbers(s) /\ DOMAIN c = {"type", "tags", "gguf"} /\ DOMAIN d = DOMAIN c \cup DOMAIN s
  BY SmallNumbers, FamiliesTagged, Merged DEF Merges
<1>2. \A k, v : k \notin {"type", "tags", "gguf"} => F!Optional(d, k, v) = F!Optional(s, k, v)
  <2>1. \A k, v : k \notin DOMAIN c => F!Optional(d, k, v) = F!Optional(s, k, v)
    <3>1. Merges(d, c, s)
      BY Merged
    <3> HIDE DEF d
    <3> QED BY <3>1, Looked
  <2> QED BY <1>1, <2>1, Zenon
<1>3. /\ "num_key_value_heads" \notin DOMAIN s /\ "experts" \notin DOMAIN s
      /\ "n_routed_experts" \notin DOMAIN s
  BY <1>1 DEF Numbers
<1>4. "experts" \notin DOMAIN d /\ "n_routed_experts" \notin DOMAIN d
  BY <1>1, <1>3
<1>5. /\ F!Optional(d, "num_key_value_heads", Heads(s)) = Heads(s)
      /\ F!Optional(d, "experts", 0) = 0 /\ F!Optional(d, "n_routed_experts", 0) = 0
  <2> HIDE DEF d
  <2> QED BY <1>2, <1>3, <1>4 DEF F!Optional
<1>6. d.gguf = c.gguf /\ d.tags = c.tags /\ "gguf" \in DOMAIN d
  <2>1. Merges(d, c, s)
    BY Merged
  <2> HIDE DEF d
  <2> QED BY <1>1, <2>1 DEF Merges
<1> HIDE DEF d
<1>7. Width(d) = Width(s) /\ Heads(d) = Heads(s)
  BY <1>2 DEF Width, Heads
<1>8. Feed(d) = Feed(s)
  BY <1>2, <1>7 DEF Feed
<1>9. Sized(F!Shape(d))
  <2>1. /\ Width(d) \in Nat \ {0} /\ Heads(d) \in Nat \ {0} /\ Feed(d) \in Nat \ {0}
        /\ F!Optional(d, "num_key_value_heads", Heads(d)) = Heads(d)
    BY <1>1, <1>5, <1>7, <1>8 DEF Numbers
  <2> QED BY <2>1, ShapeIs DEF Sized
<1>10. Sizable(d)
  <2>1. 0 \in Nat
    OBVIOUS
  <2> QED BY <1>4, <1>5, <1>9, <2>1, Zenon DEF Sizable
<1>11. d.gguf = "deepseek" <=> "deepseek" \in d.tags
  BY <1>6, FamiliesTagged
<1>12. Described(d)
  BY <1>4, <1>6, <1>10, <1>11 DEF Described
<1> QED BY <1>12 DEF d

LEMMA KeysRead ==
  ASSUME NEW k \in Keys
  PROVE  /\ F!Optional(k, "num_key_value_heads", 4) \in {2, 4}
         /\ F!Optional(k, "experts", 0) \in Nat /\ F!Optional(k, "n_routed_experts", 0) \in Nat
BY DEF Keys, F!Optional

LEMMA KeyedDescribed ==
  ASSUME NEW c \in Families, NEW k \in Keys,
         {"experts", "n_routed_experts"} \cap DOMAIN k \subseteq
           IF "deepseek" \in c.tags THEN {"n_routed_experts"} ELSE {"experts"}
  PROVE  Described(With(With(c, Small), k))
<1> DEFINE m == With(c, Small)
           d == With(m, k)
<1>1. /\ DOMAIN c = {"type", "tags", "gguf"}
      /\ DOMAIN Small = {"hidden_size", "num_attention_heads", "intermediate_size",
                         "num_hidden_layers", "vocab_size"}
  BY FamiliesTagged DEF Small
<1>2. DOMAIN m = DOMAIN c \cup DOMAIN Small /\ DOMAIN d = DOMAIN m \cup DOMAIN k
  BY Merged DEF Merges
<1>3. m.type = c.type /\ m.tags = c.tags /\ m.gguf = c.gguf
  <2>1. Merges(m, c, Small) /\ "type" \in DOMAIN c /\ "tags" \in DOMAIN c /\ "gguf" \in DOMAIN c
    BY <1>1, Merged
  <2> HIDE DEF m
  <2>2. m["type"] = c["type"] /\ m["tags"] = c["tags"] /\ m["gguf"] = c["gguf"]
    BY <2>1 DEF Merges
  <2> QED BY <2>2
<1>4. m["hidden_size"] = 64 /\ m["num_attention_heads"] = 4 /\ m["intermediate_size"] = 96
  <2>1. /\ Small["hidden_size"] = 64 /\ Small["num_attention_heads"] = 4
        /\ Small["intermediate_size"] = 96
    BY DEF Small
  <2>2. Merges(m, c, Small)
    BY Merged
  <2> HIDE DEF m
  <2> QED BY <1>1, <2>1, <2>2 DEF Merges
<1>5. \A x \in DOMAIN m : d[x] = m[x] /\ \A v : F!Optional(d, x, v) = m[x]
  <2>1. Merges(d, m, k)
    BY Merged
  <2> HIDE DEF d, m
  <2> QED BY <2>1, Looked DEF Merges
<1>6. /\ d.type = c.type /\ d.tags = c.tags /\ d.gguf = c.gguf
      /\ "gguf" \in DOMAIN d /\ TypeOf(d) = c.type
  BY <1>1, <1>2, <1>3, <1>5 DEF TypeOf
<1>7. Width(d) = 64 /\ Heads(d) = 4 /\ Feed(d) = 96
  <2>1. "hidden_size" \in DOMAIN m /\ "num_attention_heads" \in DOMAIN m
        /\ "intermediate_size" \in DOMAIN m
    BY <1>1, <1>2
  <2> HIDE DEF d, m
  <2> QED BY <1>4, <1>5, <2>1 DEF Width, Heads, Feed
<1>8. \A x, v : x \notin DOMAIN m => F!Optional(d, x, v) = F!Optional(k, x, v)
  <2>1. Merges(d, m, k)
    BY Merged
  <2> HIDE DEF d, m
  <2> QED BY <2>1, Looked DEF Merges
<1>9. "num_key_value_heads" \notin DOMAIN m /\ "experts" \notin DOMAIN m
      /\ "n_routed_experts" \notin DOMAIN m
  BY <1>1, <1>2
<1>10. /\ F!Optional(d, "num_key_value_heads", 4) \in {2, 4}
       /\ F!Optional(d, "experts", 0) \in Nat /\ F!Optional(d, "n_routed_experts", 0) \in Nat
  BY <1>8, <1>9, KeysRead
<1>11. /\ c.type = "mixtral" => "n_routed_experts" \notin DOMAIN d
       /\ "deepseek" \in c.tags => "experts" \notin DOMAIN d
  BY <1>2, <1>9, FamiliesTagged
<1> HIDE DEF d
<1>12. Sized(F!Shape(d))
  BY <1>7, <1>10, ShapeIs DEF Sized
<1>13. Sizable(d)
  BY <1>6, <1>10, <1>11, <1>12, Zenon DEF Sizable
<1>14. d.gguf = "deepseek" <=> "deepseek" \in d.tags
  BY <1>6, FamiliesTagged
<1>15. Described(d)
  BY <1>6, <1>11, <1>13, <1>14, Zenon DEF Described
<1> QED BY <1>15 DEF d

LEMMA ConfigsDescribed == \A c \in Configs : Described(c)
<1>1. ASSUME NEW c \in Configs PROVE Described(c)
  <2>1. CASE \E x \in Families, s \in Partial : c = With(x, s)
    BY <2>1, PlainDescribed, Zenon
  <2>2. CASE \E y \in Families \X Keys :
               /\ {"experts", "n_routed_experts"} \cap DOMAIN y[2] \subseteq
                    IF "deepseek" \in y[1].tags THEN {"n_routed_experts"} ELSE {"experts"}
               /\ c = With(With(y[1], Small), y[2])
    <3>1. PICK y \in Families \X Keys :
               /\ {"experts", "n_routed_experts"} \cap DOMAIN y[2] \subseteq
                    IF "deepseek" \in y[1].tags THEN {"n_routed_experts"} ELSE {"experts"}
               /\ c = With(With(y[1], Small), y[2])
      BY <2>2
    <3>2. y[1] \in Families /\ y[2] \in Keys
      OBVIOUS
    <3> QED BY <3>1, <3>2, KeyedDescribed, Zenon
  <2> QED BY <2>1, <2>2, SMT DEF Configs
<1> QED BY <1>1

LEMMA SomeDescribed == SomeConfig \in Configs
<1>1. Config("llama", {"llama"}, "llama") \in Families
  BY DEF Families
<1>2. Small \in Partial
  BY DEF Partial
<1> QED BY <1>1, <1>2 DEF Configs, SomeConfig

(* What an override leaves: a configuration that can be sized, or nothing. *)
LEMMA OverrideRead ==
  ASSUME NEW o \in Overrides
  PROVE  /\ {"hidden_size", "n_embd", "num_attention_heads", "n_head", "intermediate_size",
             "experts", "n_routed_experts"} \cap DOMAIN o = {}
         /\ \A v : F!Optional(o, "num_key_value_heads", v) \in {1, v}
         /\ \A v : F!Optional(o, "type", v) \in {"qwen2", v}
<1>1. CASE o = F!NoKeys
  <2>1. DOMAIN o = {}
    BY <1>1 DEF F!NoKeys
  <2> QED BY <2>1 DEF F!Optional
<1>2. CASE o = [num_key_value_heads |-> 1]
  BY <1>2 DEF F!Optional
<1>3. CASE o = [type |-> "qwen2", head_dim |-> 24]
  BY <1>3 DEF F!Optional
<1> QED BY <1>1, <1>2, <1>3, Zenon DEF Overrides

LEMMA Overridden ==
  ASSUME NEW c, Sizable(c), NEW o \in Overrides PROVE Sizable(F!Updated(c, o))
<1> DEFINE e == F!Updated(c, o)
<1>1. /\ DOMAIN e = DOMAIN c \cup DOMAIN o
      /\ \A k, v : F!Optional(e, k, v) = F!Optional(o, k, F!Optional(c, k, v))
  BY DEF F!Updated, F!Optional
<1> HIDE DEF e
<1>2. \A k, v : k \notin DOMAIN o => F!Optional(e, k, v) = F!Optional(c, k, v)
  BY <1>1 DEF F!Optional
<1>3. /\ "hidden_size" \notin DOMAIN o /\ "n_embd" \notin DOMAIN o /\ "n_head" \notin DOMAIN o
      /\ "num_attention_heads" \notin DOMAIN o /\ "intermediate_size" \notin DOMAIN o
      /\ "experts" \notin DOMAIN o /\ "n_routed_experts" \notin DOMAIN o
  BY OverrideRead
<1>4. Width(e) = Width(c) /\ Heads(e) = Heads(c)
  BY <1>2, <1>3 DEF Width, Heads
<1>5. Feed(e) = Feed(c)
  BY <1>2, <1>3, <1>4 DEF Feed
<1>6. F!Optional(e, "num_key_value_heads", Heads(c))
        \in {1, F!Optional(c, "num_key_value_heads", Heads(c))}
  BY <1>1, OverrideRead
<1>7. Sized(F!Shape(e))
  BY <1>4, <1>5, <1>6, ShapeIs DEF Sized, Sizable
<1>8. /\ F!Optional(e, "experts", 0) \in Nat /\ F!Optional(e, "n_routed_experts", 0) \in Nat
      /\ "n_routed_experts" \in DOMAIN e => "n_routed_experts" \in DOMAIN c
  BY <1>1, <1>2, <1>3 DEF Sizable
<1>9. TypeOf(e) \in {"qwen2", TypeOf(c)}
  BY <1>1, OverrideRead DEF TypeOf
<1>10. Sizable(e)
  BY <1>7, <1>8, <1>9 DEF Sizable
<1> QED BY <1>10 DEF e

LEMMA NothingSizable == Sizable(F!NoKeys)
<1>1. DOMAIN F!NoKeys = {}
  BY DEF F!NoKeys
<1>2. \A k, v : F!Optional(F!NoKeys, k, v) = v
  BY <1>1 DEF F!Optional
<1>3. Width(F!NoKeys) = 4096 /\ Heads(F!NoKeys) = 32 /\ Feed(F!NoKeys) = 4 * 4096
  BY <1>2 DEF Width, Heads, Feed
<1>4. Sized(F!Shape(F!NoKeys))
  BY <1>2, <1>3, ShapeIs DEF Sized
<1> QED BY <1>1, <1>2, <1>4 DEF Sizable, TypeOf

LEMMA Effective ==
  ASSUME NEW c, Sizable(c), NEW o \in Overrides, NEW p PROVE Sizable(F!Configured(p, c, o))
BY Overridden, NothingSizable DEF F!Configured

(* Every input is written, located and described.                          *)
Readable(i) == /\ i.f \in WrittenFiles /\ i.cuda \in BOOLEAN /\ Located(i.p)
           /\ Described(i.c) /\ i.o \in Overrides
InputInv == which = "formats" => Readable(input)

LEMMA InputsRead == ASSUME NEW i \in Inputs PROVE Readable(i)
<1>1. F!NoKeys \in Overrides /\ SomeConfig \in Configs
  BY SomeDescribed DEF Overrides
<1>2. CASE i \in [f : GgufFiles, cuda : BOOLEAN, p : {Directory}, c : {SomeConfig},
                  o : {F!NoKeys}]
  <2>1. /\ i.f \in GgufFiles \cup {SomeFile} /\ i.cuda \in BOOLEAN /\ i.p = Directory
        /\ i.c \in Configs /\ i.o \in Overrides
    BY <1>1, <1>2
  <2> QED BY <2>1, FilesWritten, PathsNamed, ConfigsDescribed DEF Readable
<1>3. CASE i \in [f : {SomeFile}, cuda : {FALSE}, p : Paths, c : {SomeConfig}, o : Overrides]
  <2>1. /\ i.f \in GgufFiles \cup {SomeFile} /\ i.cuda \in BOOLEAN /\ i.p \in Paths
        /\ i.c \in Configs /\ i.o \in Overrides
    BY <1>1, <1>3
  <2> QED BY <2>1, FilesWritten, PathsNamed, ConfigsDescribed DEF Readable
<1>4. CASE i \in [f : {SomeFile}, cuda : {FALSE}, p : {Directory}, c : Configs, o : Overrides]
  <2>1. /\ i.f \in GgufFiles \cup {SomeFile} /\ i.cuda \in BOOLEAN /\ i.p = Directory
        /\ i.c \in Configs /\ i.o \in Overrides
    BY <1>4
  <2> QED BY <2>1, FilesWritten, PathsNamed, ConfigsDescribed DEF Readable
<1> QED BY <1>2, <1>3, <1>4 DEF Inputs

LEMMA ReadHolds == InputInv => ModelsReadRight
<1> SUFFICES ASSUME InputInv, which = "formats"
             PROVE  /\ F!LoaderFaithful(input.f, input.cuda)
                    /\ F!StreamsWholeModel(input.p)
                    /\ F!ArchitectureSized(input.p, input.c, input.o)
                    /\ F!TwoDescriptionsAgree(input.c)
  BY DEF ModelsReadRight
<1>1. /\ input.f \in WrittenFiles /\ input.cuda \in BOOLEAN /\ Located(input.p)
      /\ Described(input.c) /\ input.o \in Overrides
  BY DEF InputInv, Readable
<1>2. F!LoaderFaithful(input.f, input.cuda)
  BY <1>1, LoaderIsFaithful
<1>3. F!StreamsWholeModel(input.p)
  BY <1>1, StreamsWhole DEF Located
<1>4. F!ArchitectureSized(input.p, input.c, input.o)
  <2>1. Sizable(F!Configured(input.p, input.c, input.o))
    BY <1>1, Effective DEF Described
  <2> QED BY <1>1, <2>1, Architectures DEF Located
<1>5. F!TwoDescriptionsAgree(input.c)
  BY <1>1, DescriptionsAgree
<1> QED BY <1>2, <1>3, <1>4, <1>5

(* In every behaviour, what is read out of a file, a directory and a       *)
(* configuration is what was written (MCWeights.tla: ModelsReadRight); the *)
(* lemmas say it of any file, model and configuration of such a form.      *)
THEOREM ReadsRight == MCSpec => []ModelsReadRight
<1>1. MCInit => InputInv
  BY InputsRead DEF MCInit, InputInv
<1>2. InputInv /\ [MCNext]_allVars => InputInv'
  <2> SUFFICES ASSUME InputInv, [MCNext]_allVars PROVE InputInv'
    OBVIOUS
  <2>1. which' = which /\ input' = input
    BY DEF MCNext, allVars
  <2> QED BY <2>1 DEF InputInv
<1> QED BY <1>1, <1>2, ReadHolds, PTL DEF MCSpec
=============================================================================
