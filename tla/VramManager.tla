------------------------------ MODULE VramManager ------------------------------
(***************************************************************************)
(* core/src/memory/vram_manager.rs: the table of layers in VRAM and the    *)
(* ledger of allocated bytes.  Each method runs under its mutexes; its     *)
(* callers are outside the module: loaders that ask for room, evict what   *)
(* is suggested and register a layer, and clients that pin and unpin.      *)
(***************************************************************************)
EXTENDS Naturals, Sequences, FiniteSets, SequencesExt, FiniteSetsExt, Functions

CONSTANTS Layers, Loaders,
          Sizes,         (* tensor sizes                                   *)
          Usable,        (* max_usable_bytes                               *)
          MaxLedger,     (* bound: no load starts with more bytes allocated*)
          NoLayer

VramAssumption ==
  /\ Sizes \subseteq Nat \ {0} /\ IsFiniteSet(Sizes) /\ Sizes # {}
  /\ Usable \in Nat /\ MaxLedger \in Nat
  /\ IsFiniteSet(Loaders) /\ Loaders # {}
  /\ NoLayer \notin Layers

VARIABLES resident,   (* allocations, in the order of allocated_at         *)
          allocated,  (* allocated_bytes                                   *)
          pc,         (* loader: "idle", "check", "suggest", "evict" or    *)
                      (* "register"                                        *)
          want,       (* the layer and size the loader is after            *)
          plan,       (* what suggest_evictions told it to evict and it has*)
                      (* not evicted yet, in an order of its own           *)
          replaced    (* history: bytes of the allocations that            *)
                      (* register_layer has replaced                       *)

vars == <<resident, allocated, pc, want, plan, replaced>>

Allocations == [layer : Layers, size : Sizes, pinned : BOOLEAN]
Bytes(S) == SumFunctionOnSet([i \in DOMAIN resident |-> resident[i].size], S)
NoWant == [layer |-> NoLayer, size |-> 0]

TypeOK == /\ resident \in Seq(Allocations)
          /\ \A i, j \in DOMAIN resident :
               resident[i].layer = resident[j].layer => i = j
          /\ allocated \in Nat /\ replaced \in Nat
          /\ pc \in [Loaders -> {"idle", "check", "suggest", "evict", "register"}]
          /\ \A w \in Loaders : plan[w] \subseteq Layers
          /\ \A w \in Loaders : want[w] = NoWant \/ want[w] \in [layer : Layers, size : Sizes]

Init == /\ resident = <<>> /\ allocated = 0 /\ replaced = 0
        /\ pc = [w \in Loaders |-> "idle"]
        /\ want = [w \in Loaders |-> NoWant]
        /\ plan = [w \in Loaders |-> {}]

At(l) == {i \in DOMAIN resident : resident[i].layer = l}
Without(l) == RemoveFirstMatch(resident, LAMBDA a : a.layer = l)

AvailableBytes == IF allocated >= Usable THEN 0 ELSE Usable - allocated
CanAllocate(size) == AvailableBytes >= size

(* The oldest unpinned allocations, as few as reach needed bytes.          *)
Oldest(n) == {i \in 1..n : ~ resident[i].pinned}
SuggestEvictions(needed) ==
  LET count == Min({n \in 0..Len(resident) : Bytes(Oldest(n)) >= needed \/ n = Len(resident)})
  IN  {resident[i].layer : i \in Oldest(count)}

-----------------------------------------------------------------------------
(* A loader.                                                               *)
StartLoad(w, l, s) ==
  /\ pc[w] = "idle" /\ allocated <= MaxLedger
  /\ want' = [want EXCEPT ![w] = [layer |-> l, size |-> s]]
  /\ pc' = [pc EXCEPT ![w] = "check"]
  /\ UNCHANGED <<resident, allocated, plan, replaced>>

Check(w) ==
  /\ pc[w] = "check"
  /\ pc' = [pc EXCEPT ![w] =
              IF CanAllocate(want[w].size) THEN "register" ELSE "suggest"]
  /\ UNCHANGED <<resident, allocated, want, plan, replaced>>

(* An empty suggestion ends the load.                                      *)
Suggest(w) ==
  /\ pc[w] = "suggest"
  /\ plan' = [plan EXCEPT ![w] = SuggestEvictions(want[w].size)]
  /\ pc' = [pc EXCEPT ![w] = IF plan'[w] = {} THEN "idle" ELSE "evict"]
  /\ want' = [want EXCEPT ![w] = IF plan'[w] = {} THEN NoWant ELSE @]
  /\ UNCHANGED <<resident, allocated, replaced>>

UnregisterLayer_Fault(l) ==  (* the bytes are not given back *)
  /\ resident' = Without(l)
  /\ UNCHANGED <<allocated, replaced>>

UnregisterLayer(l) ==
  LET freed == Bytes(At(l))
  IN  /\ resident' = Without(l)
      /\ allocated' = IF freed > allocated THEN 0 ELSE allocated - freed
      /\ UNCHANGED replaced

Evict_Fault(w) ==  (* the plan is not consumed *)
  /\ pc[w] = "evict"
  /\ \E l \in plan[w] : UnregisterLayer(l)
  /\ UNCHANGED <<pc, want, plan>>

Evict(w) ==
  /\ pc[w] = "evict"
  /\ \E l \in plan[w] : UnregisterLayer(l) /\ plan' = [plan EXCEPT ![w] = @ \ {l}]
  /\ pc' = [pc EXCEPT ![w] = IF plan'[w] = {} THEN "check" ELSE "evict"]
  /\ UNCHANGED want

(* The size is added whether or not the layer replaces an older allocation.*)
RegisterLayer(l, s) ==
  /\ resident' = Append(Without(l), [layer |-> l, size |-> s, pinned |-> FALSE])
  /\ allocated' = allocated + s
  /\ replaced' = replaced + Bytes(At(l))

Register(w) ==
  /\ pc[w] = "register"
  /\ RegisterLayer(want[w].layer, want[w].size)
  /\ pc' = [pc EXCEPT ![w] = "idle"] /\ want' = [want EXCEPT ![w] = NoWant]
  /\ UNCHANGED plan

(* pin_layer, unpin_layer: nothing happens to a layer that is not there.   *)
SetPinned(l, p) ==
  /\ \E i \in DOMAIN resident :
       /\ resident[i].layer = l /\ resident[i].pinned # p
       /\ resident' = [resident EXCEPT ![i].pinned = p]
  /\ UNCHANGED <<allocated, pc, want, plan, replaced>>
PinLayer(l) == SetPinned(l, TRUE)
UnpinLayer(l) == SetPinned(l, FALSE)

Load(w) == Check(w) \/ Suggest(w) \/ Evict(w) \/ Register(w)
Next == \/ \E w \in Loaders : Load(w) \/ \E l \in Layers, s \in Sizes : StartLoad(w, l, s)
        \/ \E l \in Layers : PinLayer(l) \/ UnpinLayer(l)
Fairness == \A w \in Loaders : WF_vars(Load(w))
Spec == Init /\ [][Next]_vars /\ Fairness

-----------------------------------------------------------------------------
(* What the ledger counts beyond the resident bytes is exactly what        *)
(* register_layer has replaced without crediting it: no other interleaving *)
(* of loads, evictions of stale suggestions and pins makes it drift, and   *)
(* the saturating subtraction of unregister_layer never bites.             *)
LedgerDrift == allocated = Bytes(DOMAIN resident) + replaced

(* can_allocate reserves nothing and register_layer does not look at the   *)
(* limit, so loaders that find room together overcommit VRAM: by no more   *)
(* than what the others were after.                                        *)
OvercommitBounded ==
  Bytes(DOMAIN resident) <= Usable + (Cardinality(Loaders) - 1) * Max(Sizes)

(* Evicting what is suggested makes progress: a load that never ends is    *)
(* starved by loads that go on registering, never by its own suggestions.  *)
OnlyRegistrationsStarve ==
  \A w \in Loaders : \/ []<>(pc[w] = "idle")
                     \/ []<><<\E v \in Loaders : Register(v)>>_vars
=============================================================================
