------------------------------- MODULE CpuOffload -------------------------------
(***************************************************************************)
(* core/src/memory/cpu_offload.rs: layers staged in system RAM.  The bytes *)
(* used and the map of layers have a mutex each, and store_layer takes     *)
(* them in the opposite order to remove_layer; a step is what a call does  *)
(* between two lock operations.                                            *)
(***************************************************************************)
EXTENDS Naturals, Sequences, FiniteSets, SequencesExt, FiniteSetsExt, Functions

CONSTANTS Layers, Threads,
          Sizes,       (* lengths of the stored data                       *)
          MaxRam,      (* max_ram_bytes                                    *)
          Calls,       (* calls in use: "store", "load", "remove",         *)
                       (* "suggest"                                        *)
          MaxAccesses, (* bound on access_count                            *)
          Nobody

ASSUME OffloadAssumption ==
  /\ Sizes \subseteq Nat \ {0} /\ MaxRam \in Nat /\ MaxAccesses \in Nat
  /\ Nobody \notin Threads
  /\ Calls \subseteq {"store", "load", "remove", "suggest"}

VARIABLES staged,     (* layers: the entry of each that is there           *)
          used,       (* used_bytes                                        *)
          usedLock,   (* holder of the mutex of used_bytes                 *)
          layersLock, (* holder of the mutex of layers                     *)
          call,       (* per thread: the call it is in, or "none"          *)
          arg,        (* per thread: its layer and size                    *)
          advice      (* what suggest_evictions has just returned          *)

vars == <<staged, used, usedLock, layersLock, call, arg, advice>>

Entries == [size : Sizes, accesses : 0..MaxAccesses]
Bytes(S) == SumFunctionOnSet([l \in DOMAIN staged |-> staged[l].size], S)
At(l) == {l} \cap DOMAIN staged
NoArg == [layer |-> Nobody, size |-> 0]
Without(l) == Restrict(staged, DOMAIN staged \ {l})
Staged(l, s) == [k \in DOMAIN staged \cup {l} |->
                   IF k = l THEN [size |-> s, accesses |-> 0] ELSE staged[k]]

TypeOK == /\ DOMAIN staged \subseteq Layers /\ \A l \in DOMAIN staged : staged[l] \in Entries
          /\ used \in Nat
          /\ {usedLock, layersLock} \subseteq Threads \cup {Nobody}
          /\ call \in [Threads -> Calls \cup {"none"}]
          /\ \A t \in Threads :
               IF call[t] = "none" THEN arg[t] = NoArg
                                   ELSE arg[t] \in [layer : Layers, size : Sizes]

Init == /\ staged = [l \in {} |-> {}] /\ used = 0
        /\ usedLock = Nobody /\ layersLock = Nobody
        /\ call = [t \in Threads |-> "none"]
        /\ arg = [t \in Threads |-> NoArg]
        /\ advice = <<>>

Enter(t) ==
  \E c \in Calls, l \in Layers, s \in Sizes :
    /\ call[t] = "none"
    /\ call' = [call EXCEPT ![t] = c]
    /\ arg' = [arg EXCEPT ![t] = [layer |-> l, size |-> s]]
    /\ advice' = <<>>
    /\ UNCHANGED <<staged, used, usedLock, layersLock>>

Leave(t) == /\ call' = [call EXCEPT ![t] = "none"]
            /\ arg' = [arg EXCEPT ![t] = NoArg]

-----------------------------------------------------------------------------
(* store_layer: the mutex of used_bytes, the budget test, then the other.  *)
StoreBegin(t) ==
  /\ call[t] = "store" /\ usedLock = Nobody
  /\ IF used + arg[t].size > MaxRam
       THEN Leave(t) /\ UNCHANGED usedLock
       ELSE usedLock' = t /\ UNCHANGED <<call, arg>>
  /\ UNCHANGED <<staged, used, layersLock, advice>>

StoreEnd_Fault(t) ==  (* the replaced version is not credited *)
  /\ call[t] = "store" /\ usedLock = t /\ layersLock = Nobody
  /\ staged' = Staged(arg[t].layer, arg[t].size)
  /\ used' = used + arg[t].size
  /\ usedLock' = Nobody /\ Leave(t)
  /\ UNCHANGED <<layersLock, advice>>

StoreEnd(t) ==
  /\ call[t] = "store" /\ usedLock = t /\ layersLock = Nobody
  /\ staged' = Staged(arg[t].layer, arg[t].size)
  /\ used' = used - Bytes(At(arg[t].layer)) + arg[t].size
  /\ usedLock' = Nobody /\ Leave(t)
  /\ UNCHANGED <<layersLock, advice>>

(* remove_layer: the mutex of layers, then that of used_bytes.             *)
RemoveBegin(t) ==
  /\ call[t] = "remove" /\ layersLock = Nobody
  /\ layersLock' = t
  /\ UNCHANGED <<staged, used, usedLock, call, arg, advice>>

RemoveEnd_Fault(t) ==  (* credits the caller's size, not the entry's *)
  /\ call[t] = "remove" /\ layersLock = t /\ usedLock = Nobody
  /\ staged' = Without(arg[t].layer)
  /\ used' = IF At(arg[t].layer) = {} THEN used ELSE used - arg[t].size
  /\ layersLock' = Nobody /\ Leave(t)
  /\ UNCHANGED <<usedLock, advice>>

RemoveHolds_Fault(t) ==  (* an absent layer returns with layers locked *)
  /\ call[t] = "remove" /\ layersLock = t /\ usedLock = Nobody
  /\ staged' = Without(arg[t].layer)
  /\ used' = used - Bytes(At(arg[t].layer))
  /\ layersLock' = IF At(arg[t].layer) = {} THEN t ELSE Nobody
  /\ Leave(t)
  /\ UNCHANGED <<usedLock, advice>>

RemoveEnd(t) ==
  /\ call[t] = "remove" /\ layersLock = t /\ usedLock = Nobody
  /\ staged' = Without(arg[t].layer)
  /\ used' = used - Bytes(At(arg[t].layer))
  /\ layersLock' = Nobody /\ Leave(t)
  /\ UNCHANGED <<usedLock, advice>>

(* load_layer: one mutex, taken and given back; a hit is counted (up to    *)
(* MaxAccesses, the bound of the model).                                   *)
LoadLayer(t) ==
  /\ call[t] = "load" /\ layersLock = Nobody
  /\ staged' = [l \in DOMAIN staged |->
       IF l = arg[t].layer
         THEN [staged[l] EXCEPT !.accesses = IF @ < MaxAccesses THEN @ + 1 ELSE @]
         ELSE staged[l]]
  /\ Leave(t)
  /\ UNCHANGED <<used, usedLock, layersLock, advice>>

(* suggest_evictions: a HashMap has no order, and the sort keeps that of   *)
(* entries accessed equally often.                                         *)
Shortest(order, needed) ==
  LET Freed(n) == Bytes({order[i] : i \in 1..n})
      count == Min({n \in 0..Len(order) : Freed(n) >= needed \/ n = Len(order)})
  IN  SubSeq(order, 1, count)

SuggestEvictions(t) ==
  /\ call[t] = "suggest" /\ layersLock = Nobody
  /\ \E order \in SetToSeqs(DOMAIN staged) :
       /\ \A i, j \in DOMAIN order :
            i < j => staged[order[i]].accesses <= staged[order[j]].accesses
       /\ advice' = Shortest(order, arg[t].size)
  /\ Leave(t)
  /\ UNCHANGED <<staged, used, usedLock, layersLock>>

Step(t) == \/ StoreBegin(t) \/ StoreEnd(t) \/ RemoveBegin(t) \/ RemoveEnd(t)
           \/ LoadLayer(t) \/ SuggestEvictions(t)
Next == \E t \in Threads : Enter(t) \/ Step(t)
Spec == Init /\ [][Next]_vars

-----------------------------------------------------------------------------
(* used_bytes is what the staged layers take up, within the budget; the    *)
(* unsigned subtraction never wraps.                                       *)
LedgerExact == used = Bytes(DOMAIN staged) /\ used <= MaxRam

(* Who holds a mutex between two steps.                                    *)
LocksHeld ==
  /\ call \in [Threads -> Calls \cup {"none"}]
  /\ usedLock # Nobody => usedLock \in Threads /\ call[usedLock] = "store"
  /\ layersLock # Nobody => layersLock \in Threads /\ call[layersLock] = "remove"

(* Threads block each other only when one is between the two mutexes of    *)
(* store_layer and another between those of remove_layer.                  *)
Inverted == \E s, r \in Threads :
  /\ call[s] = "store" /\ usedLock = s
  /\ call[r] = "remove" /\ layersLock = r
Busy(t) == call[t] # "none"
CanStep(t) ==
  \/ call[t] = "store" /\ usedLock = Nobody
  \/ call[t] = "store" /\ usedLock = t /\ layersLock = Nobody
  \/ call[t] = "remove" /\ layersLock = Nobody
  \/ call[t] = "remove" /\ layersLock = t /\ usedLock = Nobody
  \/ call[t] \in {"load", "suggest"} /\ layersLock = Nobody
StuckOnlyWhenInverted ==
  (\E t \in Threads : Busy(t)) /\ (\A t \in Threads : Busy(t) => ~ CanStep(t)) => Inverted
=============================================================================
