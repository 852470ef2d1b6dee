-------------------------------- MODULE MCMemory --------------------------------
(***************************************************************************)
(* The two tiers of memory the core keeps ledgers of and the map of how    *)
(* often layers are used.  None calls another, so a behaviour exercises one*)
(* of them.                                                                *)
(***************************************************************************)
EXTENDS CpuOffload

CONSTANTS VramLayers, Loaders, Usable, MaxLedger, NoLayer,       (* VramManager *)
          NumLayers, Width, LruThreads, Moments, MaxCalls, MaxRestarts  (* LruMap *)

VARIABLES part, resident, allocated, pc, want, plan, replaced,
          records, clock, stamp, saving, poisoned, checked, saved, begun, taken, risk, lost, calls, restarts
vramVars == <<resident, allocated, pc, want, plan, replaced>>
lruVars == <<records, clock, stamp, saving, poisoned, checked, saved, begun, taken, risk, lost,
             calls, restarts>>

(* A layer just above the hot threshold and one just above the warm one,   *)
(* the first used last when the former session was two seconds old.        *)
Past(freq, last, heat) == [count |-> 30, session |-> 30, freq |-> freq, last |-> last,
                           tier |-> "nvme", heat |-> heat]
PastSession == [l \in 0..(NumLayers - 1) |-> IF l = 0 THEN Past(1050, 2000, "hot") ELSE Past(105, 20, "warm")]

V == INSTANCE VramManager WITH Layers <- VramLayers
L == INSTANCE LruMap WITH Threads <- LruThreads, Histories <- {PastSession}
ASSUME MemoryAssumption == V!VramAssumption /\ L!LruAssumption

MCInit == /\ part \in {"vram", "offload", "lru"} /\ Init /\ V!Init /\ L!Init
          /\ part # "lru" => saved.kind = "none" /\ checked
MCNext == \/ part = "vram" /\ V!Next /\ UNCHANGED <<part, vars, lruVars>>
          \/ part = "offload" /\ Next /\ UNCHANGED <<part, vramVars, lruVars>>
          \/ part = "lru" /\ L!Next /\ UNCHANGED <<part, vars, vramVars>>
MCSpec == MCInit /\ [][MCNext]_<<part, vars, vramVars, lruVars>> /\ V!Fairness

(* Each part keeps its types.                                              *)
MemoryTypeOK == TypeOK /\ V!TypeOK /\ L!TypeOK
(* VramManager.tla: the ledger of VRAM is off by what was registered over, *)
(* and VRAM is overcommitted by no more than the other loaders were after. *)
VramAccounted == V!LedgerDrift /\ V!OvercommitBounded
(* VramManager.tla: only other registrations keep a load from ending.      *)
LoadsEnd == V!OnlyRegistrationsStarve
(* LruMap.tla: what the map has learned survives a restart but for the     *)
(* four losses it names, and every layer is placed by it.                  *)
HistoryKept == [](part = "lru" => L!Learned) /\ [][L!CoolsSlowly]_L!vars
=============================================================================
