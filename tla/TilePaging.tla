------------------------------ MODULE TilePaging ------------------------------
(***************************************************************************)
(* python/phantom/instrumentation/nvme_pipeline.py: tiles are prefetched   *)
(* from the swap file into one of two buffers by the threads of a pool,    *)
(* while one consumer submits, awaits, computes and writes tiles.  The tile*)
(* of layer l belongs into slot l of the file.  Where os.pread is missing  *)
(* reads and writes share the position of the descriptor.                  *)
(***************************************************************************)
EXTENDS Naturals, FiniteSets

CONSTANTS Layers, NoLayer,
          Platforms, (* subset of {"pread", "seek"}                        *)
          Pool,      (* threads of the executor                            *)
          MaxReads   (* bound: reads submitted                             *)

ASSUME TilesAssumption ==
  /\ NoLayer \notin Layers /\ Platforms \subseteq {"pread", "seek"}
  /\ Pool \in Nat \ {0} /\ MaxReads \in Nat

VARIABLES platform,
          file,      (* slot -> the tile in it                             *)
          written,   (* layers whose tile write_tile has stored            *)
          pos,       (* the slot the descriptor stands at                  *)
          lock,      (* the read that holds _lock between seek and read    *)
          submitted, (* number of reads submitted; a read has its number   *)
          reads,     (* reads not finished: [id, layer, target]            *)
          failed,    (* reads whose future holds an exception              *)
          pending,   (* _pending_futures: layer -> read, 0 for none        *)
          active,    (* active_buffer_idx                                  *)
          buffer,    (* what the two buffers hold                          *)
          consumer,  (* "idle", "write" or "wait"                          *)
          target,    (* what it writes or waits for: [id, layer]           *)
          view,      (* what await_tile last returned: [layer, index, clean]*)
          closed,
          lone,      (* history: the last read submitted, if no other was  *)
                     (* running or waiting to be awaited; 0 otherwise      *)
          raced      (* history: a write shared the position with a read   *)

shared == <<platform, file, written, pos>>
prefetch == <<submitted, reads, failed, pending>>
staging == <<active, buffer, view>>
vars == <<shared, lock, prefetch, staging, consumer, target, closed, lone, raced>>

Ids == 0..MaxReads
Tiles == Layers \cup {NoLayer}
Reads == [id : Ids \ {0}, layer : Layers, target : 0..1]
NoTarget == [id |-> 0, layer |-> NoLayer]
NoView == [layer |-> NoLayer, index |-> 0, clean |-> FALSE]
Running == {r.id : r \in reads}

TypeOK == /\ platform \in Platforms
          /\ file \in [Layers -> Tiles] /\ written \subseteq Layers
          /\ pos \in Tiles /\ lock \in Ids
          /\ submitted \in Ids /\ reads \subseteq Reads /\ failed \subseteq Ids
          /\ pending \in [Layers -> Ids]
          /\ active \in 0..1 /\ buffer \in [0..1 -> Tiles]
          /\ consumer \in {"idle", "write", "wait"}
          /\ target \in [id : Ids, layer : Tiles]
          /\ view \in [layer : Tiles, index : 0..1, clean : BOOLEAN]
          /\ closed \in BOOLEAN /\ lone \in Ids /\ raced \in BOOLEAN

Init == /\ platform \in Platforms
        /\ file = [l \in Layers |-> NoLayer] /\ written = {} /\ pos = NoLayer
        /\ lock = 0 /\ submitted = 0 /\ reads = {} /\ failed = {}
        /\ pending = [l \in Layers |-> 0]
        /\ active = 0 /\ buffer = [b \in 0..1 |-> NoLayer] /\ view = NoView
        /\ consumer = "idle" /\ target = NoTarget
        /\ closed = FALSE /\ lone = 0 /\ raced = FALSE

-----------------------------------------------------------------------------
(* The consumer.                                                           *)

(* write_tile: seek, then write, without _lock.                            *)
WriteSeek(l) ==
  /\ consumer = "idle" /\ ~ closed
  /\ consumer' = "write" /\ target' = [id |-> 0, layer |-> l]
  /\ pos' = l
  /\ raced' = (raced \/ (platform = "seek" /\ reads # {}))
  /\ UNCHANGED <<platform, file, written, lock, prefetch, staging, closed, lone>>

WriteData ==
  /\ consumer = "write"
  /\ file' = [file EXCEPT ![pos] = target.layer]
  /\ written' = written \cup {target.layer}
  /\ consumer' = "idle" /\ target' = NoTarget
  /\ UNCHANGED <<platform, pos, lock, prefetch, staging, closed, lone, raced>>

SubmitPrefetchTile_Fault(l) ==  (* the target is the active buffer *)
  /\ consumer = "idle" /\ ~ closed /\ l \in written /\ submitted < MaxReads
  /\ submitted' = submitted + 1
  /\ reads' = reads \cup {[id |-> submitted', layer |-> l, target |-> active]}
  /\ pending' = [pending EXCEPT ![l] = submitted']
  /\ lone' = IF reads = {} /\ \A k \in Layers : pending[k] = 0
               THEN submitted' ELSE 0
  /\ UNCHANGED <<shared, lock, failed, staging, consumer, target, closed, raced>>

(* submit_prefetch_tile.  A future of the same layer is forgotten.         *)
SubmitPrefetchTile(l) ==
  /\ consumer = "idle" /\ ~ closed /\ l \in written /\ submitted < MaxReads
  /\ submitted' = submitted + 1
  /\ reads' = reads \cup {[id |-> submitted', layer |-> l, target |-> 1 - active]}
  /\ pending' = [pending EXCEPT ![l] = submitted']
  /\ lone' = IF reads = {} /\ \A k \in Layers : pending[k] = 0
               THEN submitted' ELSE 0
  /\ UNCHANGED <<shared, lock, failed, staging, consumer, target, closed, raced>>

(* await_tile: take the future out (a KeyError changes nothing) ...        *)
AwaitTile(l) ==
  /\ consumer = "idle" /\ pending[l] # 0 /\ lock = 0
  /\ consumer' = "wait" /\ target' = [id |-> pending[l], layer |-> l]
  /\ pending' = [pending EXCEPT ![l] = 0]
  /\ UNCHANGED <<shared, lock, submitted, reads, failed, staging, closed, lone,
                 raced>>

(* ... and block on its result: swap the buffers, or raise.                *)
Swap ==
  /\ consumer = "wait" /\ target.id \notin Running \cup failed
  /\ active' = 1 - active
  /\ view' = [layer |-> target.layer, index |-> active',
              clean |-> target.id = lone]
  /\ consumer' = "idle" /\ target' = NoTarget
  /\ UNCHANGED <<shared, lock, prefetch, buffer, closed, lone, raced>>

Raise ==
  /\ consumer = "wait" /\ target.id \in failed
  /\ consumer' = "idle" /\ target' = NoTarget
  /\ UNCHANGED <<shared, lock, prefetch, staging, closed, lone, raced>>

(* close: reads that have not finished fail or finish.                     *)
Close ==
  /\ consumer = "idle" /\ ~ closed
  /\ closed' = TRUE
  /\ UNCHANGED <<shared, lock, prefetch, staging, consumer, target, lone, raced>>

-----------------------------------------------------------------------------
(* _sync_read_worker, in a thread of the pool; reads start in order.       *)
Started(r) == Cardinality({q \in reads : q.id < r.id}) < Pool

ReadAt_Fault(r) ==  (* lseek and read, without _lock *)
  /\ platform = "pread" /\ Started(r)
  /\ pos' = r.layer
  /\ buffer' = [buffer EXCEPT ![r.target] = file[r.layer]]
  /\ reads' = reads \ {r}
  /\ UNCHANGED <<platform, file, written, lock, submitted, failed, pending, active,
                 view, consumer, target, closed, lone, raced>>

(* With pread, one step.                                                   *)
ReadAt(r) ==
  /\ platform = "pread" /\ Started(r)
  /\ buffer' = [buffer EXCEPT ![r.target] = file[r.layer]]
  /\ reads' = reads \ {r}
  /\ UNCHANGED <<shared, lock, submitted, failed, pending, active, view, consumer,
                 target, closed, lone, raced>>

(* Without, seek and read under _lock.                                     *)
Seek(r) ==
  /\ platform = "seek" /\ Started(r) /\ lock = 0
  /\ lock' = r.id /\ pos' = r.layer
  /\ UNCHANGED <<platform, file, written, prefetch, staging, consumer, target,
                 closed, lone, raced>>

Read(r) ==
  /\ lock = r.id
  /\ buffer' = [buffer EXCEPT ![r.target] = file[pos]]
  /\ reads' = reads \ {r} /\ lock' = 0
  /\ UNCHANGED <<shared, submitted, failed, pending, active, view, consumer,
                 target, closed, lone, raced>>

ReadFails_Fault(r) ==  (* an exception leaves _lock taken *)
  /\ Started(r) /\ (platform = "seek" => lock = r.id)
  /\ failed' = failed \cup {r.id}
  /\ reads' = reads \ {r}
  /\ UNCHANGED <<shared, lock, submitted, pending, staging, consumer, target,
                 closed, lone, raced>>

ReadFails(r) ==
  /\ Started(r) /\ (platform = "seek" => lock = r.id)
  /\ failed' = failed \cup {r.id}
  /\ reads' = reads \ {r} /\ lock' = 0
  /\ UNCHANGED <<shared, submitted, pending, staging, consumer, target, closed,
                 lone, raced>>

Work(r) == ReadAt(r) \/ Seek(r) \/ Read(r) \/ ReadFails(r)
Works == \E r \in reads : Work(r)
Next == \/ \E l \in Layers : WriteSeek(l) \/ SubmitPrefetchTile(l) \/ AwaitTile(l)
        \/ WriteData \/ Swap \/ Raise \/ Close
        \/ Works
(* The threads of the pool run; what the consumer does next is its own,    *)
(* but a call it has begun goes on.                                        *)
Fairness == WF_vars(Works) /\ WF_vars(WriteData \/ Swap \/ Raise)
Spec == Init /\ [][Next]_vars /\ Fairness

-----------------------------------------------------------------------------
(* A tile that was prefetched alone (no other prefetch from its submission *)
(* until it was awaited) is what its view shows, until the next await      *)
(* returns, whatever is submitted, written and read meanwhile.             *)
LoneViewIntact == view.clean /\ ~ raced => buffer[view.index] = view.layer

(* Tiles lie where they were written, unless a write shared the position of*)
(* the descriptor with a read.                                             *)
FileIntact == ~ raced => \A l \in written : file[l] = l

(* The inductive invariant behind both.  Reads have numbers of their own,  *)
(* of tiles that were written ...                                          *)
IdsInv == /\ lock <= submitted /\ lone <= submitted
          /\ \A r \in reads : r.id <= submitted /\ r.layer \in written
          /\ \A q, r \in reads : q.id = r.id => q = r
(* ... the descriptor stands where its user has put it ...                 *)
PositionInv ==
  /\ platform = "pread" => lock = 0
  /\ consumer = "write" => target.layer \in Layers
  /\ consumer = "write" \/ lock # 0 => pos \in Layers
  /\ ~ raced /\ consumer = "write" =>
       pos = target.layer /\ (platform = "seek" => reads = {})
  /\ ~ raced => \A r \in reads : r.id = lock => pos = r.layer
(* ... a lone prefetch is the only one, on its way into the inactive buffer*)
(* or there ...                                                            *)
Due(l) == pending[l] = lone \/ (consumer = "wait" /\ target.layer = l)
LoneInv ==
  /\ consumer = "wait" => /\ target.id # 0 /\ target.layer \in Layers
                          /\ pending[target.layer] = 0
  /\ lone # 0 =>
       /\ \A l \in Layers : pending[l] \in {0, lone}
       /\ consumer = "wait" => target.id = lone
       /\ \A k, l \in Layers : Due(k) /\ Due(l) => k = l
       /\ \A l \in Layers : Due(l) =>
            /\ \A r \in reads : r.id = lone /\ r.layer = l /\ r.target = 1 - active
            /\ ~ raced /\ lone \notin Running \cup failed => buffer[1 - active] = l
(* ... and reads leave the buffer of a clean view alone.                   *)
ViewInv == view.clean =>
  /\ view.index = active
  /\ \A r \in reads : r.target = 1 - active
  /\ ~ raced => buffer[active] = view.layer

IInv == TypeOK /\ FileIntact /\ IdsInv /\ PositionInv /\ LoneInv /\ ViewInv

(* An await returns: the pool finishes every read, and _lock comes free.   *)
AwaitsReturn == consumer = "wait" ~> consumer = "idle"

(* await_tile: "return the active memoryview containing layer weights".    *)
ViewsHoldTheirLayer == view # NoView /\ ~ raced => buffer[view.index] = view.layer
=============================================================================
