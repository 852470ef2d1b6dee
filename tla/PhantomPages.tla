----------------------------- MODULE PhantomPages -----------------------------
(***************************************************************************)
(* core/src/memory/phantom_pages.rs: the NVMe swap file that backs evicted *)
(* layers.  Tokio tasks ("workers") evict, load and save concurrently; a   *)
(* step here is what a task does between two awaits.                       *)
(*                                                                         *)
(* Data.  A frame stands for a layer's tensor and its LZ4 block: only its  *)
(* compressed size and its identity matter.  The file's bytes are the set  *)
(* of frames that lie intact in it; a write destroys the frames it covers. *)
(* "frame" in a handle is the history of what was evicted: the code keeps  *)
(* shape, dtype and sizes there and never the payload.                     *)
(***************************************************************************)
EXTENDS Integers, FiniteSets, TLC

CONSTANTS Layers,      (* layer ids                                        *)
          Frames,      (* payloads the callers evict                       *)
          FrameSize,   (* compressed size of each frame, in bytes          *)
          Capacities,  (* capacities a session may configure, in bytes     *)
          Workers,     (* tasks sharing the manager                        *)
          NoWorker,    (* no holder of a lock                              *)
          NoJob,       (* an idle worker's job                             *)
          NoReply      (* nothing has been loaded                          *)

ASSUME PagesAssumption ==
  /\ FrameSize \in [Frames -> Nat \ {0}]
  /\ Capacities \subseteq Nat
  /\ Capacities # {}
  /\ NoWorker \notin Workers

(* Round up to the 4 KiB boundary: (x + 4095) & !4095.                     *)
Align(x) == ((x + 4095) \div 4096) * 4096

(* A handle names a page-aligned range of some session's file.             *)
PageNumbers == UNION {0..(c \div 4096) : c \in Capacities}
PageOffsets == {4096 * k : k \in PageNumbers}
FrameSizes == {FrameSize[f] : f \in Frames}
Handles == [layer : Layers, frame : Frames, offset : PageOffsets,
            size : FrameSizes]
Extents == [frame : Frames, offset : Nat, size : Nat]

(* Two byte ranges have no byte in common.                                 *)
Disjoint(a, b) == \/ a.offset + a.size <= b.offset
                  \/ b.offset + b.size <= a.offset

VARIABLES capacity,    (* capacity_bytes of the running session            *)
          disk,        (* the extents that lie intact in the swap file     *)
          saved,       (* the .lru.msgpack file: {} or {the table in it}   *)
          next,        (* next_offset                                      *)
          table,       (* page_table: the handles, one per layer           *)
          tableHolder, (* who holds the page_table mutex across an await   *)
          reader,      (* who holds file_handle's async mutex              *)
          cursor,      (* file position of the persistent read handle      *)
          pc,          (* what each worker is about to do                  *)
          job,         (* the handle each worker is working on             *)
          got,         (* what its load returned: {frame}, or {} (no frame)*)
          issued       (* history: the handles returned in this session    *)

vars == <<capacity, disk, saved, next, table, tableHolder, reader, cursor,
          pc, job, got, issued>>
locks == <<tableHolder, reader, cursor>>

Extent(h) == [frame |-> h.frame, offset |-> h.offset, size |-> h.size]

(* What reading size bytes at an offset decodes to: the frame that lies    *)
(* there, or an error when no whole frame does.                            *)
Decoded(offset, size) ==
  {e.frame : e \in {x \in disk : x.offset = offset /\ x.size = size}}

(* The extents a write over h leaves intact.                               *)
Surviving(h) == {e \in disk : Disjoint(e, h)}

-----------------------------------------------------------------------------
Init == /\ capacity \in Capacities
        /\ disk = {} /\ saved = {} /\ next = 0 /\ table = {} /\ issued = {}
        /\ tableHolder = NoWorker /\ reader = NoWorker /\ cursor = 0
        /\ pc = [w \in Workers |-> "idle"]
        /\ job = [w \in Workers |-> NoJob]
        /\ got = [w \in Workers |-> {}]

(* Definitions whose name ends in _Fault are slips the properties must     *)
(* catch; the model itself uses none of them.                              *)
Reserve_Fault(w, l, f) ==  (* the size left out of the capacity check *)
  /\ pc[w] = "idle"
  /\ next <= capacity
  /\ next' = Align(next + FrameSize[f])
  /\ job' = [job EXCEPT ![w] = [layer |-> l, frame |-> f, offset |-> next,
                                size |-> FrameSize[f]]]
  /\ pc' = [pc EXCEPT ![w] = "write"]
  /\ UNCHANGED <<capacity, disk, saved, table, locks, got, issued>>

(* evict_layer up to its first await: the reservation under next_offset's  *)
(* mutex.  A frame that does not fit is an Err that changes nothing.       *)
Reserve(w, l, f) ==
  /\ pc[w] = "idle"
  /\ next + FrameSize[f] <= capacity
  /\ next' = Align(next + FrameSize[f])
  /\ job' = [job EXCEPT ![w] = [layer |-> l, frame |-> f, offset |-> next,
                                size |-> FrameSize[f]]]
  /\ pc' = [pc EXCEPT ![w] = "write"]
  /\ UNCHANGED <<capacity, disk, saved, table, locks, got, issued>>

(* open, seek, write_all and flush through a handle of the task's own.     *)
WriteFrame(w) ==
  /\ pc[w] = "write"
  /\ disk' = Surviving(job[w]) \cup {Extent(job[w])}
  /\ pc' = [pc EXCEPT ![w] = "register"]
  /\ UNCHANGED <<capacity, saved, next, table, locks, job, got, issued>>

WriteFails_Fault(w) ==  (* the error is logged and the handle registered *)
  /\ pc[w] = "write"
  /\ disk' = Surviving(job[w])
  /\ pc' = [pc EXCEPT ![w] = "register"]
  /\ UNCHANGED <<capacity, saved, next, table, locks, job, got, issued>>

(* One of the four fails: the `?` returns, the reserved range is never     *)
(* given back and whatever the write touched is destroyed.                 *)
WriteFails(w) ==
  /\ pc[w] = "write"
  /\ disk' \in {disk, Surviving(job[w])}
  /\ pc' = [pc EXCEPT ![w] = "idle"]
  /\ job' = [job EXCEPT ![w] = NoJob]
  /\ UNCHANGED <<capacity, saved, next, table, locks, got, issued>>

Register_Fault(w) ==  (* entry().or_insert instead of insert *)
  /\ pc[w] = "register"
  /\ tableHolder = NoWorker
  /\ table' = table \cup {h \in {job[w]} : \A g \in table : g.layer # h.layer}
  /\ issued' = issued \cup {job[w]}
  /\ pc' = [pc EXCEPT ![w] = "idle"]
  /\ job' = [job EXCEPT ![w] = NoJob]
  /\ UNCHANGED <<capacity, disk, saved, next, locks, got>>

(* The page-table insert (the last one wins) and the return of the handle. *)
Register(w) ==
  /\ pc[w] = "register"
  /\ tableHolder = NoWorker
  /\ table' = {h \in table : h.layer # job[w].layer} \cup {job[w]}
  /\ issued' = issued \cup {job[w]}
  /\ pc' = [pc EXCEPT ![w] = "idle"]
  /\ job' = [job EXCEPT ![w] = NoJob]
  /\ UNCHANGED <<capacity, disk, saved, next, locks, got>>

LoadSeek_Fault(w, h) ==  (* the shared handle used without its mutex *)
  /\ pc[w] = "idle"
  /\ reader' = w
  /\ cursor' = h.offset
  /\ job' = [job EXCEPT ![w] = h]
  /\ pc' = [pc EXCEPT ![w] = "read"]
  /\ UNCHANGED <<capacity, disk, saved, next, table, tableHolder, got, issued>>

(* load_layer: take the async mutex, seek the shared handle ...            *)
LoadSeek(w, h) ==
  /\ pc[w] = "idle"
  /\ reader = NoWorker
  /\ reader' = w
  /\ cursor' = h.offset
  /\ job' = [job EXCEPT ![w] = h]
  /\ pc' = [pc EXCEPT ![w] = "read"]
  /\ UNCHANGED <<capacity, disk, saved, next, table, tableHolder, got, issued>>

(* ... read_exact from wherever the handle stands, decompress, and drop    *)
(* the guard.  Bytes that are no whole frame fail to decompress.           *)
LoadRead(w) ==
  /\ pc[w] = "read"
  /\ got' = [got EXCEPT ![w] = Decoded(cursor, job[w].size)]
  /\ cursor' = cursor + job[w].size
  /\ reader' = NoWorker
  /\ pc' = [pc EXCEPT ![w] = "loaded"]
  /\ UNCHANGED <<capacity, disk, saved, next, table, tableHolder, job, issued>>

(* Seek or read_exact fails: the guard drops and the caller sees an Err.   *)
LoadFails(w) ==
  /\ pc[w] = "read"
  /\ reader' = NoWorker
  /\ pc' = [pc EXCEPT ![w] = "idle"]
  /\ job' = [job EXCEPT ![w] = NoJob]
  /\ UNCHANGED <<capacity, disk, saved, next, table, tableHolder, cursor, got,
                 issued>>

(* The caller consumes the tensor.                                         *)
Return(w) ==
  /\ pc[w] = "loaded"
  /\ pc' = [pc EXCEPT ![w] = "idle"]
  /\ job' = [job EXCEPT ![w] = NoJob]
  /\ got' = [got EXCEPT ![w] = {}]
  /\ UNCHANGED <<capacity, disk, saved, next, table, locks, issued>>

(* save_lru_state holds the page_table guard across fs::write, which first *)
(* truncates the file.                                                     *)
SaveBegin(w) ==
  /\ pc[w] = "idle"
  /\ tableHolder = NoWorker
  /\ tableHolder' = w
  /\ saved' = {}
  /\ pc' = [pc EXCEPT ![w] = "save"]
  /\ UNCHANGED <<capacity, disk, next, table, reader, cursor, job, got, issued>>

(* The write completes, or fails and leaves an unreadable file.            *)
SaveEnd(w) ==
  /\ pc[w] = "save"
  /\ tableHolder' = NoWorker
  /\ saved' \in {{table}, {}}
  /\ pc' = [pc EXCEPT ![w] = "idle"]
  /\ UNCHANGED <<capacity, disk, next, table, reader, cursor, job, got, issued>>

(* The process dies at any point and PhantomPageManager::new runs again,   *)
(* perhaps with another capacity: a file of another length is truncated    *)
(* and zero-filled, next_offset restarts at 0, and the page table is the   *)
(* persisted one when it parses.                                           *)
Restart ==
  /\ capacity' \in Capacities
  /\ \E torn \in SUBSET {w \in Workers : pc[w] = "write"} :
       disk' = IF capacity' # capacity THEN {}
               ELSE {e \in disk : \A w \in torn : Disjoint(e, job[w])}
  /\ next' = 0
  /\ table' = UNION saved
  /\ issued' = {}
  /\ tableHolder' = NoWorker /\ reader' = NoWorker /\ cursor' = 0
  /\ pc' = [w \in Workers |-> "idle"]
  /\ job' = [w \in Workers |-> NoJob]
  /\ got' = [w \in Workers |-> {}]
  /\ UNCHANGED saved

Evict(w) == \/ \E l \in Layers, f \in Frames : Reserve(w, l, f)
            \/ WriteFrame(w) \/ WriteFails(w) \/ Register(w)
Load(w) == \/ \E h \in table \cup issued : LoadSeek(w, h)
           \/ LoadRead(w) \/ LoadFails(w) \/ Return(w)
Save(w) == SaveBegin(w) \/ SaveEnd(w)

Next == \/ \E w \in Workers : Evict(w) \/ Load(w) \/ Save(w)
        \/ Restart

Spec == Init /\ [][Next]_vars

-----------------------------------------------------------------------------
Phases == {"idle", "write", "register", "read", "loaded", "save"}

TypeOK == /\ capacity \in Capacities
          /\ disk \subseteq Extents
          /\ next \in Nat
          /\ table \subseteq Handles
          /\ issued \subseteq Handles
          /\ saved \subseteq SUBSET Handles
          /\ tableHolder \in Workers \cup {NoWorker}
          /\ reader \in Workers \cup {NoWorker}
          /\ cursor \in Nat
          /\ pc \in [Workers -> Phases]
          /\ job \in [Workers -> Handles \cup {NoJob}]
          /\ \A w \in Workers :
               pc[w] \in {"write", "register", "read", "loaded"}
                 => job[w] \in Handles
          /\ got \in [Workers -> SUBSET Frames]

(* A handle returned in this session reads back what was evicted under it, *)
(* whatever other evictions, failed writes and saves interleave with it.   *)
HandlesReadBack == \A h \in issued : Decoded(h.offset, h.size) = {h.frame}

(* Concurrent loads share one file position; each still gets the bytes of  *)
(* the handle it was called with.                                          *)
LoadsReturnOwnFrame ==
  [][\A w \in Workers :
       (pc[w] = "read" /\ pc'[w] = "loaded" /\ job[w] \in issued)
         => got'[w] = {job[w].frame}]_vars

(* No byte of the file is promised to two evictions of one session, and    *)
(* none lies beyond the file's end.                                        *)
InFlight == {w \in Workers : pc[w] \in {"write", "register"}}
NoSharedBytes ==
  /\ \A h \in issued \cup {job[w] : w \in InFlight} :
       h.offset + h.size <= capacity
  /\ \A g \in issued, h \in issued \cup {job[w] : w \in InFlight} :
       g # h => Disjoint(g, h)
  /\ \A v, w \in InFlight : v # w => Disjoint(job[v], job[w])

(* A layer evicted in this session is never again found through a handle   *)
(* an earlier session left in the persisted table.                         *)
OnePerLayer(t) == \A g, h \in t : g.layer = h.layer => g = h
TableIsFresh ==
  /\ OnePerLayer(table)
  /\ \A h \in issued : \E g \in table : g.layer = h.layer /\ g \in issued

(* The inductive invariant.  Ranges handed out in this session are placed  *)
(* below next_offset and inside the file ...                               *)
PageAligned(x) == x % 4096 = 0
Reserved(w) == pc[w] \in {"write", "register"}
Placed(h) == /\ h.size = FrameSize[h.frame]
             /\ h.offset + h.size <= capacity
             /\ h.offset + h.size <= next
             /\ PageAligned(h.offset)
PlacedInv == /\ PageAligned(next)
             /\ \A h \in issued : Placed(h)
             /\ \A w \in Workers : Reserved(w) => Placed(job[w])
(* ... are pairwise disjoint ...                                           *)
DisjointInv ==
  /\ \A g, h \in issued : g # h => Disjoint(g, h)
  /\ \A h \in issued, w \in Workers : Reserved(w) => Disjoint(h, job[w])
  /\ \A v, w \in Workers :
       (v # w /\ Reserved(v) /\ Reserved(w)) => Disjoint(job[v], job[w])
(* ... and hold their frame once written; extents on disk never overlap.   *)
DiskInv == /\ \A h \in issued : Extent(h) \in disk
           /\ \A w \in Workers : pc[w] = "register" => Extent(job[w]) \in disk
           /\ \A e \in disk : e.size > 0
           /\ \A d, e \in disk : d # e => Disjoint(d, e)
(* The holder of the read handle is the reader, at its handle's offset.    *)
ReaderInv == \A w \in Workers :
               pc[w] = "read" => reader = w /\ cursor = job[w].offset
(* The persisted table, when there is one, has one handle per layer.       *)
SavedInv == /\ \A s, t \in saved : s = t
            /\ \A t \in saved : OnePerLayer(t)

IInv == /\ TypeOK /\ PlacedInv /\ DisjointInv /\ DiskInv /\ ReaderInv
        /\ SavedInv /\ TableIsFresh

(* has_layer: "Check if a layer is stored in the NVMe swap."  Every layer  *)
(* the table names can be read back from the file.                         *)
TableIsStored == \A h \in table : Decoded(h.offset, h.size) = {h.frame}

(* The detailed manager implements the write-once store of PageStore: the  *)
(* session's handles, without the frame, are its tickets.                  *)
Ticket(h) == [layer |-> h.layer, offset |-> h.offset, size |-> h.size]
Reply(w) == IF pc[w] = "loaded" THEN <<Ticket(job[w]), got[w]>> ELSE NoReply
Replies == [w \in Workers |-> Reply(w)]
Store == INSTANCE PageStore WITH
           Tickets  <- [layer : Layers, offset : PageOffsets, size : FrameSizes],
           contents <- {<<Ticket(h), h.frame>> : h \in issued},
           latest   <- {<<h.layer, Ticket(h)>> : h \in table \cap issued},
           reply    <- Replies
ImplementsStore == Store!StoreSpec
=============================================================================
