------------------------------ MODULE MemoryProofs ------------------------------
(***************************************************************************)
(* The ledgers of the two memory tiers, the locks of the RAM tier and what *)
(* the map of uses has learned, for every number of threads, loaders and   *)
(* layers and all sizes.                                                   *)
(***************************************************************************)
EXTENDS MCMemory, DataProofs

-----------------------------------------------------------------------------
(* What a table of entries takes up.                                       *)
SizeOf(f) == [x \in DOMAIN f |-> f[x].size]
Held(f, S) == SumFunctionOnSet(SizeOf(f), S)
Sized(f) == IsFiniteSet(DOMAIN f) /\ \A x \in DOMAIN f : f[x].size \in Nat

LEMMA HeldNat ==
  ASSUME NEW f, Sized(f), NEW S \in SUBSET DOMAIN f
  PROVE IsFiniteSet(S) /\ Valued(SizeOf(f), S) /\ Held(f, S) \in Nat
<1>1. IsFiniteSet(S)
  BY FS_Subset DEF Sized
<1>2. Valued(SizeOf(f), S)
  BY DEF Sized, Valued, SizeOf
<1> QED BY <1>1, <1>2, SumNat DEF Held

LEMMA HeldOne ==
  ASSUME NEW f, Sized(f), NEW x \in DOMAIN f
  PROVE Held(f, {x}) = f[x].size /\ Held(f, DOMAIN f \ {x}) + f[x].size = Held(f, DOMAIN f)
<1>1. SizeOf(f)[x] = f[x].size /\ f[x].size \in Nat
  BY DEF SizeOf, Sized
<1>2. SumFunctionOnSet(SizeOf(f), {x}) = SizeOf(f)[x]
  BY <1>1, SumOne
<1>3. IsFiniteSet(DOMAIN f) /\ Valued(SizeOf(f), DOMAIN f)
  BY HeldNat
<1>4. SumFunctionOnSet(SizeOf(f), DOMAIN f) = SizeOf(f)[x] + SumFunctionOnSet(SizeOf(f), DOMAIN f \ {x})
  BY <1>3, SumRemove
<1>5. SumFunctionOnSet(SizeOf(f), DOMAIN f \ {x}) \in Nat
  BY HeldNat DEF Held
<1> QED BY <1>1, <1>2, <1>4, <1>5 DEF Held

(* An entry that replaces another.                                         *)
LEMMA HeldPut ==
  ASSUME NEW f, Sized(f), NEW x, NEW g, DOMAIN g = DOMAIN f \cup {x}, g[x].size \in Nat,
         \A y \in DOMAIN f \ {x} : g[y].size = f[y].size
  PROVE /\ Sized(g)
        /\ Held(g, DOMAIN g) = Held(f, DOMAIN f \ {x}) + g[x].size
<1> DEFINE rest == DOMAIN f \ {x}
<1>1. Sized(g)
  BY FS_AddElement DEF Sized
<1>2. x \in DOMAIN g /\ DOMAIN g \ {x} = rest
  OBVIOUS
<1>3. Held(g, rest) + g[x].size = Held(g, DOMAIN g)
  BY <1>1, <1>2, HeldOne
<1>4. IsFiniteSet(rest)
  BY HeldNat
<1>5. \A y \in rest : SizeOf(g)[y] = SizeOf(f)[y]
  BY DEF SizeOf
<1>6. Held(g, rest) = Held(f, rest)
  <2> HIDE DEF rest
  <2> QED BY <1>4, <1>5, SumAgree DEF Held
<1> QED BY <1>1, <1>3, <1>6

(* An entry that goes, and entries whose sizes stay.                       *)
LEMMA HeldDrop ==
  ASSUME NEW f, Sized(f), NEW x, NEW g, DOMAIN g = DOMAIN f \ {x},
         \A y \in DOMAIN g : g[y].size = f[y].size
  PROVE Sized(g) /\ Held(g, DOMAIN g) = Held(f, DOMAIN f \ {x})
<1>1. IsFiniteSet(DOMAIN g)
  BY HeldNat
<1>2. Sized(g)
  BY <1>1 DEF Sized
<1>3. \A y \in DOMAIN g : SizeOf(g)[y] = SizeOf(f)[y]
  BY DEF SizeOf
<1>4. SumFunctionOnSet(SizeOf(g), DOMAIN g) = SumFunctionOnSet(SizeOf(f), DOMAIN g)
  BY <1>1, <1>3, SumAgree
<1> QED BY <1>2, <1>4 DEF Held

LEMMA HeldSame ==
  ASSUME NEW f, Sized(f), NEW g, DOMAIN g = DOMAIN f, \A y \in DOMAIN g : g[y].size = f[y].size
  PROVE Sized(g) /\ Held(g, DOMAIN g) = Held(f, DOMAIN f)
<1>1. Sized(g)
  BY DEF Sized
<1>2. \A y \in DOMAIN g : SizeOf(g)[y] = SizeOf(f)[y]
  BY DEF SizeOf
<1>3. SumFunctionOnSet(SizeOf(g), DOMAIN g) = SumFunctionOnSet(SizeOf(f), DOMAIN g)
  BY <1>2, SumAgree DEF Sized
<1> QED BY <1>1, <1>3 DEF Held

LEMMA HeldNone == ASSUME NEW f PROVE Held(f, {}) = 0
BY SumEmpty DEF Held

-----------------------------------------------------------------------------
(* CpuOffload: no two threads are between the two mutexes, and a store     *)
(* that is has found room, which stays while it holds used_bytes.          *)
OffloadTyped == /\ TypeOK /\ LocksHeld
                /\ DOMAIN arg = Threads /\ IsFiniteSet(DOMAIN staged)
RoomKept == usedLock # Nobody => used + arg[usedLock].size <= MaxRam
OInv == OffloadTyped /\ LedgerExact /\ RoomKept

LEMMA OffloadSized ==
  ASSUME OffloadTyped
  PROVE Sized(staged) /\ \A S : Bytes(S) = Held(staged, S)
<1>1. \A l \in DOMAIN staged : staged[l].size \in Nat
  BY OffloadAssumption DEF OffloadTyped, TypeOK, Entries
<1>2. IsFiniteSet(DOMAIN staged)
  BY DEF OffloadTyped
<1>3. \A S : Bytes(S) = Held(staged, S)
  BY DEF Bytes, Held, SizeOf
<1> QED BY <1>1, <1>2, <1>3 DEF Sized

(* What removing a layer credits.                                          *)
LEMMA Credit ==
  ASSUME OffloadTyped, NEW l
  PROVE /\ Bytes(At(l)) \in Nat /\ Held(staged, DOMAIN staged \ {l}) \in Nat
        /\ Held(staged, DOMAIN staged \ {l}) + Bytes(At(l)) = Bytes(DOMAIN staged)
<1>1. Sized(staged) /\ \A S : Bytes(S) = Held(staged, S)
  BY OffloadSized
<1>2. Held(staged, DOMAIN staged \ {l}) \in Nat
  BY <1>1, HeldNat
<1>3. CASE l \in DOMAIN staged
  <2>1. At(l) = {l}
    BY <1>3 DEF At
  <2>2. staged[l].size \in Nat
    BY <1>1, <1>3 DEF Sized
  <2> QED BY <1>1, <1>2, <1>3, <2>1, <2>2, HeldOne
<1>4. CASE l \notin DOMAIN staged
  <2>1. At(l) = {} /\ DOMAIN staged \ {l} = DOMAIN staged
    BY <1>4 DEF At
  <2> QED BY <1>1, <1>2, <2>1, HeldNone
<1> QED BY <1>3, <1>4

LEMMA OffloadInit == Init => OInv
<1> SUFFICES ASSUME Init PROVE OInv
  OBVIOUS
<1>1. DOMAIN staged = {}
  BY DEF Init
<1>2. TypeOK /\ LocksHeld
  BY <1>1, OffloadAssumption DEF Init, TypeOK, LocksHeld
<1>3. OffloadTyped
  BY <1>1, <1>2, FS_EmptySet DEF Init, OffloadTyped
<1>4. Bytes(DOMAIN staged) = 0
  BY <1>1, <1>3, OffloadSized, HeldNone
<1>5. LedgerExact
  BY <1>4, OffloadAssumption DEF Init, LedgerExact
<1>6. RoomKept
  BY DEF Init, RoomKept
<1> QED BY <1>3, <1>5, <1>6 DEF OInv

(* A thread in a call has arguments, and one outside of a call none.       *)
LEMMA InCall ==
  ASSUME OffloadTyped, NEW t \in Threads, call[t] # "none"
  PROVE arg[t] \in [layer : Layers, size : Sizes] /\ arg[t].layer \in Layers
        /\ arg[t].size \in Sizes /\ arg[t].size \in Nat
BY OffloadAssumption DEF OffloadTyped, TypeOK

LEMMA LeaveTyped ==
  ASSUME OffloadTyped, NEW t \in Threads, Leave(t)
  PROVE /\ call' \in [Threads -> Calls \cup {"none"}] /\ DOMAIN arg' = Threads
        /\ \A u \in Threads : IF call'[u] = "none" THEN arg'[u] = NoArg
                              ELSE arg'[u] \in [layer : Layers, size : Sizes]
        /\ \A u \in Threads : u # t => call'[u] = call[u] /\ arg'[u] = arg[u]
<1> USE DEF OffloadTyped, TypeOK, Leave
<1>1. call' \in [Threads -> Calls \cup {"none"}]
  OBVIOUS
<1>2. DOMAIN arg' = Threads
  OBVIOUS
<1>3. \A u \in Threads : u # t => call'[u] = call[u] /\ arg'[u] = arg[u]
  OBVIOUS
<1>4. call'[t] = "none" /\ arg'[t] = NoArg
  OBVIOUS
<1> QED BY <1>1, <1>2, <1>3, <1>4
LEMMA OffloadSteps ==
  ASSUME OInv, NEW t \in Threads, Enter(t) \/ Step(t)
  PROVE OInv'
<1> USE DEF OInv
<1>1. Nobody \notin Threads /\ t # Nobody /\ MaxRam \in Nat /\ used \in Nat
  BY OffloadAssumption DEF OffloadTyped, TypeOK
<1>2. /\ usedLock # Nobody => usedLock \in Threads /\ call[usedLock] = "store"
      /\ layersLock # Nobody => layersLock \in Threads /\ call[layersLock] = "remove"
      /\ {usedLock, layersLock} \subseteq Threads \cup {Nobody}
      /\ call \in [Threads -> Calls \cup {"none"}]
  BY DEF OffloadTyped, TypeOK, LocksHeld
<1>3. CASE Enter(t)
  <2>1. PICK c \in Calls, l \in Layers, s \in Sizes :
          /\ call[t] = "none" /\ call' = [call EXCEPT ![t] = c]
          /\ arg' = [arg EXCEPT ![t] = [layer |-> l, size |-> s]]
          /\ UNCHANGED <<staged, used, usedLock, layersLock>>
    BY <1>3 DEF Enter
  <2>2. c # "none"
    BY <2>1, OffloadAssumption
  <2>3. usedLock # t /\ layersLock # t
    BY <1>2, <1>1, <2>1
  <2>4. call' \in [Threads -> Calls \cup {"none"}] /\ DOMAIN arg' = Threads
        /\ \A u \in Threads : u # t => call'[u] = call[u] /\ arg'[u] = arg[u]
    BY <2>1 DEF OffloadTyped, TypeOK
  <2>5. call'[t] = c /\ arg'[t] = [layer |-> l, size |-> s]
    BY <2>1 DEF OffloadTyped, TypeOK
  <2>6. \A u \in Threads : IF call'[u] = "none" THEN arg'[u] = NoArg
                           ELSE arg'[u] \in [layer : Layers, size : Sizes]
    BY <2>2, <2>4, <2>5 DEF OffloadTyped, TypeOK
  <2>7. TypeOK'
    BY <2>1, <2>4, <2>6 DEF OffloadTyped, TypeOK, NoArg
  <2>8. LocksHeld'
    BY <1>2, <2>1, <2>3, <2>4 DEF LocksHeld
  <2>9. LedgerExact'
    BY <2>1 DEF LedgerExact, Bytes
  <2>10. RoomKept'
    BY <1>2, <2>1, <2>3, <2>4 DEF RoomKept
  <2> QED BY <2>1, <2>4, <2>7, <2>8, <2>9, <2>10 DEF OffloadTyped
<1>4. CASE StoreBegin(t)
  <2>1. call[t] = "store" /\ usedLock = Nobody /\ UNCHANGED <<staged, used, layersLock>>
    BY <1>4 DEF StoreBegin
  <2>2. LedgerExact'
    BY <2>1 DEF LedgerExact, Bytes
  <2>3. layersLock # t
    BY <1>2, <1>1, <2>1
  <2>4. CASE used + arg[t].size > MaxRam
    <3>1. Leave(t) /\ UNCHANGED usedLock
      BY <1>4, <2>4 DEF StoreBegin
    <3>2. TypeOK' /\ DOMAIN arg' = Threads
      BY <2>1, <3>1, LeaveTyped DEF OffloadTyped, TypeOK, NoArg
    <3>3. LocksHeld'
      BY <1>2, <2>1, <2>3, <3>1, LeaveTyped DEF LocksHeld
    <3>4. RoomKept'
      BY <2>1, <3>1 DEF RoomKept
    <3> QED BY <2>1, <2>2, <3>2, <3>3, <3>4 DEF OffloadTyped
  <2>5. CASE ~ (used + arg[t].size > MaxRam)
    <3>1. usedLock' = t /\ UNCHANGED <<call, arg>>
      BY <1>4, <2>5 DEF StoreBegin
    <3>2. TypeOK' /\ LocksHeld'
      BY <1>2, <2>1, <3>1 DEF OffloadTyped, TypeOK, LocksHeld, NoArg
    <3>3. arg[t].size \in Nat
      BY <2>1, InCall
    <3>4. used + arg[t].size <= MaxRam
      BY <1>1, <2>5, <3>3
    <3>5. RoomKept'
      BY <2>1, <3>1, <3>4 DEF RoomKept
    <3> QED BY <2>1, <2>2, <3>1, <3>2, <3>5 DEF OffloadTyped
  <2> QED BY <2>4, <2>5
<1>5. CASE StoreEnd(t)
  <2> DEFINE l == arg[t].layer
             s == arg[t].size
  <2>1. /\ call[t] = "store" /\ usedLock = t /\ layersLock = Nobody
        /\ staged' = Staged(l, s) /\ used' = used - Bytes(At(l)) + s
        /\ usedLock' = Nobody /\ Leave(t) /\ UNCHANGED layersLock
    BY <1>5 DEF StoreEnd
  <2>2. l \in Layers /\ s \in Sizes /\ s \in Nat
    BY <2>1, InCall
  <2> HIDE DEF l, s
  <2>3. /\ DOMAIN staged' = DOMAIN staged \cup {l} /\ staged'[l] = [size |-> s, accesses |-> 0]
        /\ \A k \in DOMAIN staged \ {l} : staged'[k] = staged[k]
    BY <2>1 DEF Staged
  <2>4. DOMAIN staged' \subseteq Layers /\ \A k \in DOMAIN staged' : staged'[k] \in Entries
    BY <2>2, <2>3, OffloadAssumption DEF OffloadTyped, TypeOK, Entries
  <2>5. /\ Sized(staged')
        /\ Held(staged', DOMAIN staged') = Held(staged, DOMAIN staged \ {l}) + s
    <3>1. /\ staged'[l].size = s /\ staged'[l].size \in Nat
          /\ \A k \in DOMAIN staged \ {l} : staged'[k].size = staged[k].size
      BY <2>2, <2>3
    <3> DEFINE now == staged'
    <3>2. Sized(staged) /\ DOMAIN now = DOMAIN staged \cup {l}
      BY <2>3, OffloadSized
    <3>3. now[l].size \in Nat /\ \A k \in DOMAIN staged \ {l} : now[k].size = staged[k].size
      BY <3>1
    <3> HIDE DEF now
    <3>4. Sized(now) /\ Held(now, DOMAIN now) = Held(staged, DOMAIN staged \ {l}) + now[l].size
      BY <3>2, <3>3, HeldPut
    <3>5. /\ Sized(staged')
          /\ Held(staged', DOMAIN staged') = Held(staged, DOMAIN staged \ {l}) + staged'[l].size
      BY <3>4 DEF now
    <3> QED BY <3>1, <3>5
  <2>6. Bytes(DOMAIN staged)' = Held(staged', DOMAIN staged')
    BY DEF Bytes, Held, SizeOf
  <2>7. used' = Bytes(DOMAIN staged)' /\ used' \in Nat /\ used' <= used + s
    <3>1. used = Bytes(DOMAIN staged)
      BY DEF LedgerExact
    <3> QED BY <2>1, <2>2, <2>5, <2>6, <3>1, Credit
  <2>8. used + s <= MaxRam
    BY <2>1, <1>1 DEF RoomKept, s
  <2>9. LedgerExact'
    <3>1. used' <= MaxRam
      BY <1>1, <2>2, <2>7, <2>8
    <3> QED BY <2>7, <3>1 DEF LedgerExact
  <2>10. TypeOK' /\ DOMAIN arg' = Threads
    BY <2>1, <2>4, <2>7, LeaveTyped DEF OffloadTyped, TypeOK, NoArg
  <2>11. LocksHeld'
    BY <2>1, LeaveTyped DEF LocksHeld
  <2>12. RoomKept'
    BY <2>1 DEF RoomKept
  <2> QED BY <2>5, <2>9, <2>10, <2>11, <2>12 DEF OffloadTyped, Sized
<1>6. CASE RemoveBegin(t)
  <2>1. /\ call[t] = "remove" /\ layersLock = Nobody /\ layersLock' = t
        /\ UNCHANGED <<staged, used, usedLock, call, arg>>
    BY <1>6 DEF RemoveBegin
  <2>2. TypeOK' /\ LocksHeld'
    BY <1>2, <2>1 DEF OffloadTyped, TypeOK, LocksHeld, NoArg
  <2>3. LedgerExact' /\ RoomKept'
    BY <2>1 DEF LedgerExact, Bytes, RoomKept
  <2> QED BY <2>1, <2>2, <2>3 DEF OffloadTyped
<1>7. CASE RemoveEnd(t)
  <2> DEFINE l == arg[t].layer
  <2>1. /\ call[t] = "remove" /\ layersLock = t /\ usedLock = Nobody
        /\ staged' = Without(l) /\ used' = used - Bytes(At(l))
        /\ layersLock' = Nobody /\ Leave(t) /\ UNCHANGED usedLock
    BY <1>7 DEF RemoveEnd
  <2> HIDE DEF l
  <2>2. /\ DOMAIN staged' = DOMAIN staged \ {l}
        /\ \A k \in DOMAIN staged' : staged'[k] = staged[k]
    BY <2>1 DEF Without, Restrict
  <2>3. DOMAIN staged' \subseteq Layers /\ \A k \in DOMAIN staged' : staged'[k] \in Entries
    BY <2>2 DEF OffloadTyped, TypeOK
  <2>4. /\ Sized(staged')
        /\ Held(staged', DOMAIN staged') = Held(staged, DOMAIN staged \ {l})
    BY <2>2, OffloadSized, HeldDrop
  <2>5. Bytes(DOMAIN staged)' = Held(staged', DOMAIN staged')
    BY DEF Bytes, Held, SizeOf
  <2>6. used' = Bytes(DOMAIN staged)' /\ used' \in Nat /\ used' <= used
    <3>1. used = Bytes(DOMAIN staged)
      BY DEF LedgerExact
    <3> QED BY <2>1, <2>4, <2>5, <3>1, Credit
  <2>7. LedgerExact'
    <3>1. used <= MaxRam
      BY DEF LedgerExact
    <3> QED BY <1>1, <2>6, <3>1 DEF LedgerExact
  <2>8. TypeOK' /\ DOMAIN arg' = Threads
    BY <2>1, <2>3, <2>6, LeaveTyped DEF OffloadTyped, TypeOK, NoArg
  <2>9. LocksHeld'
    BY <2>1, LeaveTyped DEF LocksHeld
  <2>10. RoomKept'
    BY <2>1 DEF RoomKept
  <2> QED BY <2>4, <2>7, <2>8, <2>9, <2>10 DEF OffloadTyped, Sized
<1>8. CASE LoadLayer(t)
  <2> DEFINE l == arg[t].layer
             Hit(k) == [staged[k] EXCEPT !.accesses = IF @ < MaxAccesses THEN @ + 1 ELSE @]
  <2>1. /\ call[t] = "load" /\ layersLock = Nobody
        /\ staged' = [k \in DOMAIN staged |-> IF k = l THEN Hit(k) ELSE staged[k]]
        /\ Leave(t) /\ UNCHANGED <<used, usedLock, layersLock>>
    BY <1>8 DEF LoadLayer
  <2>2. \A k \in DOMAIN staged : Hit(k) \in Entries /\ Hit(k).size = staged[k].size
    <3> TAKE k \in DOMAIN staged
    <3>1. staged[k] \in [size : Sizes, accesses : 0..MaxAccesses]
      BY DEF OffloadTyped, TypeOK, Entries
    <3>2. (IF staged[k].accesses < MaxAccesses THEN staged[k].accesses + 1
           ELSE staged[k].accesses) \in 0..MaxAccesses
      BY <3>1, OffloadAssumption
    <3> QED BY <3>1, <3>2 DEF Entries
  <2>3. staged[l] \in Entries \/ l \notin DOMAIN staged
    BY DEF OffloadTyped, TypeOK
  <2> HIDE DEF l, Hit
  <2>4. /\ DOMAIN staged' = DOMAIN staged
        /\ \A k \in DOMAIN staged' : staged'[k] \in Entries /\ staged'[k].size = staged[k].size
    BY <2>1, <2>2 DEF OffloadTyped, TypeOK
  <2>5. Sized(staged') /\ Held(staged', DOMAIN staged') = Held(staged, DOMAIN staged)
    BY <2>4, OffloadSized, HeldSame
  <2>6. Bytes(DOMAIN staged)' = Held(staged', DOMAIN staged')
    BY DEF Bytes, Held, SizeOf
  <2>7. LedgerExact'
    BY <2>1, <2>5, <2>6, OffloadSized DEF LedgerExact
  <2>8. TypeOK' /\ DOMAIN arg' = Threads
    BY <2>1, <2>4, LeaveTyped DEF OffloadTyped, TypeOK, NoArg
  <2>9. usedLock # t
    BY <1>2, <1>1, <2>1
  <2>10. LocksHeld'
    BY <1>2, <2>1, <2>9, LeaveTyped DEF LocksHeld
  <2>11. RoomKept'
    BY <1>2, <2>1, <2>9, LeaveTyped DEF RoomKept
  <2> QED BY <2>5, <2>7, <2>8, <2>10, <2>11 DEF OffloadTyped, Sized
<1>9. CASE SuggestEvictions(t)
  <2>1. /\ call[t] = "suggest" /\ layersLock = Nobody
        /\ Leave(t) /\ UNCHANGED <<staged, used, usedLock, layersLock>>
    BY <1>9 DEF SuggestEvictions
  <2>2. usedLock # t
    BY <1>2, <1>1, <2>1
  <2>3. TypeOK' /\ DOMAIN arg' = Threads
    BY <2>1, LeaveTyped DEF OffloadTyped, TypeOK, NoArg
  <2>4. LocksHeld'
    BY <1>2, <2>1, <2>2, LeaveTyped DEF LocksHeld
  <2>5. LedgerExact'
    BY <2>1 DEF LedgerExact, Bytes
  <2>6. RoomKept'
    BY <1>2, <2>1, <2>2, LeaveTyped DEF RoomKept
  <2> QED BY <2>1, <2>3, <2>4, <2>5, <2>6 DEF OffloadTyped
<1> QED BY <1>3, <1>4, <1>5, <1>6, <1>7, <1>8, <1>9 DEF Step

LEMMA OffloadStutters == OInv /\ UNCHANGED vars => OInv'
BY DEF vars, OInv, OffloadTyped, TypeOK, NoArg, LocksHeld, LedgerExact, Bytes, RoomKept

LEMMA OffloadNext == OInv /\ [Next]_vars => OInv'
BY OffloadSteps, OffloadStutters DEF Next

(* A thread that waits for layers waits for a remover, and one that waits  *)
(* for used_bytes waits for a storer.                                      *)
LEMMA Blocked ==
  ASSUME LocksHeld, \A t \in Threads : Busy(t) => ~ CanStep(t),
         NEW t \in Threads, Busy(t)
  PROVE  Inverted
  <1> USE OffloadAssumption DEF LocksHeld, Busy, CanStep
  <1>1. ASSUME layersLock # Nobody PROVE Inverted
    <2>1. layersLock \in Threads /\ call[layersLock] = "remove"
      BY <1>1
    <2>2. usedLock # Nobody
      BY <2>1
    <2>3. usedLock \in Threads /\ call[usedLock] = "store"
      BY <2>2
    <2> QED BY <2>1, <2>3 DEF Inverted
  <1>2. ASSUME usedLock # Nobody PROVE Inverted
    <2>1. usedLock \in Threads /\ call[usedLock] = "store"
      BY <1>2
    <2>2. layersLock # Nobody
      BY <2>1
    <2> QED BY <2>2, <1>1
  <1>3. call[t] \in {"store", "remove", "load", "suggest"}
    BY OffloadAssumption
  <1> QED BY <1>1, <1>2, <1>3
-----------------------------------------------------------------------------
(* VramManager.  Sequences: what appending to one adds and removing from   *)
(* one takes away.                                                         *)
SeqSized(s) == Sized(s) /\ DOMAIN s = 1..Len(s) /\ Len(s) \in Nat

LEMMA SizedSeq ==
  ASSUME NEW E, NEW s \in Seq(E), \A e \in E : e.size \in Nat PROVE SeqSized(s)
<1>1. Len(s) \in Nat /\ DOMAIN s = 1..Len(s) /\ \A i \in 1..Len(s) : s[i] \in E
  OBVIOUS
<1>2. IsFiniteSet(1..Len(s))
  BY <1>1, FS_Interval
<1> QED BY <1>1, <1>2 DEF SeqSized, Sized

LEMMA HeldAppend ==
  ASSUME NEW E, NEW s \in Seq(E), SeqSized(s), NEW e \in E, e.size \in Nat
  PROVE LET r == Append(s, e) IN Held(r, DOMAIN r) = Held(s, DOMAIN s) + e.size
<1> DEFINE r == Append(s, e)
           n == Len(s) + 1
<1>1. DOMAIN r = 1..n /\ r[n] = e /\ \A i \in 1..Len(s) : r[i] = s[i]
  OBVIOUS
<1> HIDE DEF r
<1>2. n \notin DOMAIN s /\ DOMAIN r = DOMAIN s \cup {n}
  BY <1>1 DEF SeqSized
<1> HIDE DEF n
<1>3. DOMAIN s \ {n} = DOMAIN s
  BY <1>2
<1>4. \A y \in DOMAIN s \ {n} : r[y].size = s[y].size
  BY <1>1 DEF SeqSized
<1>5. r[n].size = e.size /\ r[n].size \in Nat
  BY <1>1
<1>6. Sized(s)
  BY DEF SeqSized
<1>7. Held(r, DOMAIN r) = Held(s, DOMAIN s \ {n}) + r[n].size
  BY <1>2, <1>4, <1>5, <1>6, HeldPut
<1> QED BY <1>3, <1>5, <1>7 DEF r

LEMMA HeldRemoveAt ==
  ASSUME NEW E, NEW s \in Seq(E), \A e \in E : e.size \in Nat, NEW i \in 1..Len(s)
  PROVE LET r == RemoveAt(s, i) IN
        SeqSized(r) /\ Held(r, DOMAIN r) + s[i].size = Held(s, DOMAIN s)
<1> DEFINE r == RemoveAt(s, i)
           at == [j \in 1..(Len(s) - 1) |-> IF j < i THEN j ELSE j + 1]
           rest == DOMAIN s \ {i}
<1>1. /\ r \in Seq(E) /\ Len(r) = Len(s) - 1
      /\ \A j \in 1..(Len(s) - 1) : r[j] = s[IF j < i THEN j ELSE j + 1]
  BY Removed
<1>2. SeqSized(r) /\ SeqSized(s)
  BY <1>1, SizedSeq
<1> HIDE DEF r
<1>3. DOMAIN r = 1..(Len(s) - 1) /\ DOMAIN s = 1..Len(s) /\ Len(s) \in Nat
  BY <1>1, <1>2 DEF SeqSized
<1>4. \A j \in DOMAIN r : at[j] \in rest /\ SizeOf(s)[at[j]] = SizeOf(r)[j]
  <2> TAKE j \in DOMAIN r
  <2>1. at[j] = (IF j < i THEN j ELSE j + 1) /\ r[j] = s[at[j]]
    BY <1>1, <1>3
  <2>2. at[j] \in rest
    BY <1>3, <2>1
  <2> HIDE DEF at
  <2> QED BY <2>1, <2>2 DEF SizeOf
<1>5. \A j, k \in DOMAIN r : at[j] = at[k] => j = k
  BY <1>3
<1>6. \A k \in rest : \E j \in DOMAIN r : at[j] = k
  <2> TAKE k \in rest
  <2>1. CASE k < i
    <3>1. k \in DOMAIN r /\ at[k] = k
      BY <1>3, <2>1
    <3> QED BY <3>1
  <2>2. CASE ~ (k < i)
    <3>1. k - 1 \in DOMAIN r /\ ~ (k - 1 < i) /\ (k - 1) + 1 = k
      BY <1>3, <2>2
    <3>2. at[k - 1] = k
      BY <1>3, <3>1
    <3> QED BY <3>1, <3>2
  <2> QED BY <2>1, <2>2
<1> HIDE DEF at
<1>7. IsFiniteSet(DOMAIN r) /\ Valued(SizeOf(r), DOMAIN r)
  BY <1>2, HeldNat DEF SeqSized
<1>8. Held(r, DOMAIN r) = Held(s, rest)
  <2> HIDE DEF rest
  <2> QED BY <1>4, <1>5, <1>6, <1>7, SumRename DEF Held
<1>9. Held(s, rest) + s[i].size = Held(s, DOMAIN s)
  BY <1>2, <1>3, HeldOne DEF SeqSized
<1> QED BY <1>2, <1>8, <1>9 DEF r

LEMMA VramNumbers ==
  /\ Sizes \subseteq Nat \ {0} /\ IsFiniteSet(Sizes) /\ Sizes # {} /\ Usable \in Nat
  /\ IsFiniteSet(Loaders) /\ Loaders # {} /\ NoLayer \notin VramLayers
  /\ \A a \in V!Allocations : a.size \in Nat
<1>1. /\ Sizes \subseteq Nat \ {0} /\ IsFiniteSet(Sizes) /\ Sizes # {} /\ Usable \in Nat
      /\ IsFiniteSet(Loaders) /\ Loaders # {} /\ NoLayer \notin VramLayers
  BY MemoryAssumption DEF V!VramAssumption, V!IsFiniteSet, IsFiniteSet
<1>2. \A a \in V!Allocations : a.size \in Sizes
  BY DEF V!Allocations
<1>3. \A a \in V!Allocations : a.size \in Nat
  BY <1>1, <1>2
<1> QED BY <1>1, <1>3

LEMMA VramBytes == \A S : V!Bytes(S) = Held(resident, S)
BY DEF V!Bytes, Held, SizeOf, V!SumFunctionOnSet, V!FoldFunctionOnSet, V!MapThenFoldSet,
       SumFunctionOnSet, FoldFunctionOnSet, MapThenFoldSet

(* What unregister_layer leaves.                                           *)
LEMMA WithoutOne ==
  ASSUME V!TypeOK, NEW l
  PROVE LET r == V!Without(l) IN
        /\ r \in Seq(V!Allocations) /\ SeqSized(r)
        /\ \A i, j \in DOMAIN r : r[i].layer = r[j].layer => i = j
        /\ \A i \in DOMAIN r : r[i].layer # l
        /\ V!Bytes(V!At(l)) \in Nat
        /\ Held(r, DOMAIN r) \in Nat
        /\ Held(r, DOMAIN r) + V!Bytes(V!At(l)) = Held(resident, DOMAIN resident)
<1> DEFINE r == V!Without(l)
<1>1. /\ resident \in Seq(V!Allocations)
      /\ \A i, j \in DOMAIN resident : resident[i].layer = resident[j].layer => i = j
  BY DEF V!TypeOK
<1>2. SeqSized(resident)
  BY <1>1, VramNumbers, SizedSeq
<1>3. DOMAIN resident = 1..Len(resident) /\ Len(resident) \in Nat /\ Sized(resident)
  BY <1>2 DEF SeqSized
<1>4. CASE \E i \in 1..Len(resident) : resident[i].layer = l
  <2>1. PICK i \in 1..Len(resident) : resident[i].layer = l
    BY <1>4
  <2>2. V!At(l) = {i}
    BY <1>1, <1>3, <2>1 DEF V!At
  <2>3. {k \in 1..Len(resident) : resident[k].layer = l} = {i}
    BY <1>1, <1>3, <2>1
  <2>4. r = RemoveAt(resident, Min({i}))
    BY <1>4, <2>3 DEF V!Without, V!RemoveFirstMatch, V!SelectInSeq, V!RemoveAt, RemoveAt, V!Min, Min
  <2>5. r = RemoveAt(resident, i)
    BY <2>4, LeastOne
  <2> HIDE DEF r
  <2>6. /\ r \in Seq(V!Allocations) /\ Len(r) = Len(resident) - 1
        /\ \A j \in 1..(Len(resident) - 1) : r[j] = resident[IF j < i THEN j ELSE j + 1]
    BY <1>1, <2>5, Removed
  <2>7. SeqSized(r) /\ Held(r, DOMAIN r) + resident[i].size = Held(resident, DOMAIN resident)
    BY <1>1, <2>5, VramNumbers, HeldRemoveAt
  <2>8. DOMAIN r = 1..(Len(resident) - 1)
    BY <2>6, <2>7 DEF SeqSized
  <2> DEFINE at(j) == IF j < i THEN j ELSE j + 1
  <2>9. \A j \in DOMAIN r : at(j) \in 1..Len(resident) /\ at(j) # i /\ r[j] = resident[at(j)]
    BY <1>3, <2>6, <2>8
  <2>10. \A j, k \in DOMAIN r : at(j) = at(k) => j = k
    BY <2>8
  <2> HIDE DEF at
  <2>11. \A j, k \in DOMAIN r : r[j].layer = r[k].layer => j = k
    BY <1>1, <1>3, <2>9, <2>10
  <2>12. \A j \in DOMAIN r : r[j].layer # l
    BY <1>1, <1>3, <2>1, <2>9
  <2>13. V!Bytes(V!At(l)) = resident[i].size /\ resident[i].size \in Nat
    BY <1>3, <2>2, VramBytes, HeldOne DEF Sized
  <2>14. Held(r, DOMAIN r) \in Nat
    BY <2>7, HeldNat DEF SeqSized
  <2> QED BY <2>6, <2>7, <2>11, <2>12, <2>13, <2>14 DEF r
<1>5. CASE ~ \E i \in 1..Len(resident) : resident[i].layer = l
  <2>1. r = resident
    BY <1>5 DEF V!Without, V!RemoveFirstMatch
  <2>2. V!At(l) = {} /\ \A i \in DOMAIN resident : resident[i].layer # l
    BY <1>3, <1>5 DEF V!At
  <2>3. V!Bytes(V!At(l)) = 0
    BY <2>2, VramBytes, HeldNone
  <2>4. Held(resident, DOMAIN resident) \in Nat
    BY <1>3, HeldNat
  <2> QED BY <1>1, <1>2, <2>1, <2>2, <2>3, <2>4
<1> QED BY <1>4, <1>5

(* The loaders that have found room and not registered yet have taken it   *)
(* from each other at most.                                                *)
Coming == {w \in Loaders : pc[w] = "register"}
Asked == [w \in Loaders |-> want[w].size]
Limit == Usable + (Cardinality(Loaders) - 1) * Max(Sizes)
Allowed == Held(resident, DOMAIN resident) + SumFunctionOnSet(Asked, Coming) <= Limit
VramTyped == /\ V!TypeOK /\ DOMAIN want = Loaders /\ DOMAIN plan = Loaders
             /\ \A w \in Loaders : pc[w] # "idle" => want[w] \in [layer : VramLayers, size : Sizes]
VInv == VramTyped /\ V!LedgerDrift /\ Allowed

LEMMA LargestSize == Max(Sizes) \in Sizes /\ Max(Sizes) \in Nat /\ \A s \in Sizes : s <= Max(Sizes)
<1>1. \E x \in Sizes : \A y \in Sizes : y <= x
  BY VramNumbers, LargestNatural
<1>2. Max(Sizes) \in Sizes /\ \A s \in Sizes : Max(Sizes) >= s
  BY <1>1, VramNumbers DEF Max
<1> QED BY <1>2, VramNumbers

LEMMA LoaderCount ==
  /\ Cardinality(Loaders) - 1 \in Nat /\ Limit \in Nat
  /\ \A w \in Loaders : \A S \in SUBSET (Loaders \ {w}) :
       IsFiniteSet(S) /\ Cardinality(S) \in Nat /\ Cardinality(S) <= Cardinality(Loaders) - 1
<1>1. PICK w \in Loaders : TRUE
  BY VramNumbers
<1>2. \A v \in Loaders : /\ IsFiniteSet(Loaders \ {v}) /\ Cardinality(Loaders) \in Nat
                         /\ Cardinality(Loaders \ {v}) \in Nat
                         /\ Cardinality(Loaders \ {v}) + 1 = Cardinality(Loaders)
  BY VramNumbers, OneLess
<1> DEFINE all == Cardinality(Loaders)
<1>3. all - 1 \in Nat
  <2>1. all \in Nat /\ Cardinality(Loaders \ {w}) \in Nat /\ Cardinality(Loaders \ {w}) + 1 = all
    BY <1>1, <1>2
  <2> QED BY <2>1
<1>4. \A m, n, k \in Nat : m + n * k \in Nat
  OBVIOUS
<1>5. Limit \in Nat
  BY <1>3, <1>4, LargestSize, VramNumbers DEF Limit
<1>6. ASSUME NEW v \in Loaders, NEW S \in SUBSET (Loaders \ {v})
      PROVE IsFiniteSet(S) /\ Cardinality(S) \in Nat /\ Cardinality(S) <= Cardinality(Loaders) - 1
  <2>1. IsFiniteSet(S) /\ Cardinality(S) <= Cardinality(Loaders \ {v})
    BY <1>2, FS_Subset
  <2>2. Cardinality(S) \in Nat
    BY <2>1, FS_CardinalityType
  <2>3. /\ Cardinality(Loaders) \in Nat /\ Cardinality(Loaders \ {v}) \in Nat
        /\ Cardinality(Loaders \ {v}) + 1 = Cardinality(Loaders)
    BY <1>2
  <2>4. Cardinality(S) <= Cardinality(Loaders) - 1
    BY <2>1, <2>2, <2>3
  <2> QED BY <2>1, <2>2, <2>4
<1> QED BY <1>3, <1>5, <1>6

LEMMA ComingFinite == IsFiniteSet(Coming)
BY VramNumbers, FS_Subset DEF Coming

LEMMA AskedNat ==
  ASSUME VramTyped
  PROVE /\ \A w \in Loaders : Asked[w] = want[w].size /\ want[w].size \in Nat
        /\ \A w \in Loaders : pc[w] # "idle" => Asked[w] \in Sizes
        /\ Valued(Asked, Coming)
<1>1. \A w \in Loaders : want[w] = V!NoWant \/ want[w] \in [layer : VramLayers, size : Sizes]
  BY DEF VramTyped, V!TypeOK
<1>2. \A w \in Loaders : want[w].size = 0 \/ want[w].size \in Sizes
  BY <1>1 DEF V!NoWant
<1>3. \A w \in Loaders : Asked[w] = want[w].size /\ want[w].size \in Nat
  <2>1. \A s \in Sizes : s \in Nat
    BY VramNumbers
  <2>2. \A w \in Loaders : want[w].size \in Nat
    BY <1>2, <2>1
  <2> QED BY <2>2 DEF Asked
<1>4. \A w \in Loaders : pc[w] # "idle" => Asked[w] \in Sizes
  BY DEF VramTyped, Asked
<1>5. Valued(Asked, Coming)
  BY <1>3 DEF Valued, Coming
<1> QED BY <1>3, <1>4, <1>5

LEMMA ResidentHeld ==
  ASSUME VramTyped
  PROVE SeqSized(resident) /\ Held(resident, DOMAIN resident) \in Nat
<1>1. resident \in Seq(V!Allocations)
  BY DEF VramTyped, V!TypeOK
<1>2. SeqSized(resident)
  BY <1>1, VramNumbers, SizedSeq
<1> QED BY <1>2, HeldNat DEF SeqSized

(* Others that are coming want no more than Limit leaves above Usable.     *)
LEMMA OthersFit ==
  ASSUME VramTyped, NEW w \in Loaders, w \notin Coming
  PROVE /\ SumFunctionOnSet(Asked, Coming) \in Nat
        /\ Usable + SumFunctionOnSet(Asked, Coming) <= Limit
<1> DEFINE b == Max(Sizes)
           k == Cardinality(Coming)
           n == Cardinality(Loaders) - 1
           sum == SumFunctionOnSet(Asked, Coming)
<1>1. Coming \in SUBSET (Loaders \ {w})
  BY DEF Coming
<1>2. IsFiniteSet(Coming) /\ k \in Nat /\ k <= n /\ n \in Nat
  BY <1>1, LoaderCount
<1>3. \A v \in Coming : Asked[v] \in 0..b
  <2> TAKE v \in Coming
  <2>1. Asked[v] \in Sizes
    BY AskedNat DEF Coming
  <2>2. Asked[v] \in Nat /\ Asked[v] <= b /\ b \in Nat
    BY <2>1, LargestSize, VramNumbers
  <2> QED BY <2>2
<1>4. sum <= k * b
  BY <1>2, <1>3, LargestSize, SumBound
<1>5. sum \in Nat
  BY <1>2, AskedNat, SumNat
<1>6. k * b <= n * b /\ k * b \in Nat /\ n * b \in Nat
  <2>1. \A i, j, l \in Nat : i <= j => i * l <= j * l /\ i * l \in Nat /\ j * l \in Nat
    OBVIOUS
  <2>2. b \in Nat
    BY LargestSize
  <2> HIDE DEF b, k, n
  <2> QED BY <1>2, <2>1, <2>2
<1> DEFINE p == k * b
           q == n * b
<1>7. sum <= p /\ p <= q /\ p \in Nat /\ q \in Nat
  BY <1>4, <1>6
<1>8. Limit = Usable + q
  BY DEF Limit
<1> HIDE DEF p, q, sum
<1>9. Usable + sum <= Usable + q
  BY <1>5, <1>7, VramNumbers
<1> QED BY <1>5, <1>8, <1>9 DEF sum

LEMMA VramInit == V!Init => VInv
<1> SUFFICES ASSUME V!Init PROVE VInv
  OBVIOUS
<1>1. resident = <<>> /\ allocated = 0 /\ replaced = 0
  BY DEF V!Init
<1>2. pc = [w \in Loaders |-> "idle"] /\ want = [w \in Loaders |-> V!NoWant]
      /\ plan = [w \in Loaders |-> {}]
  BY DEF V!Init
<1>3. VramTyped
  BY <1>1, <1>2 DEF VramTyped, V!TypeOK
<1>4. DOMAIN resident = {}
  BY <1>1
<1>5. Coming = {}
  BY <1>2 DEF Coming
<1>6. Held(resident, DOMAIN resident) = 0 /\ SumFunctionOnSet(Asked, Coming) = 0
  BY <1>4, <1>5, HeldNone, SumEmpty
<1>7. Allowed
  BY <1>6, LoaderCount DEF Allowed
<1>8. V!LedgerDrift
  BY <1>1, <1>6, VramBytes DEF V!LedgerDrift
<1> QED BY <1>3, <1>7, <1>8 DEF VInv
(* A loader that changes what it is after, and is not coming then or later.*)
LEMMA StaysAway ==
  ASSUME VInv, NEW w \in Loaders, w \notin Coming, w \notin Coming', UNCHANGED resident,
         DOMAIN want' = Loaders, \A v \in Loaders : v # w => pc'[v] = pc[v] /\ want'[v] = want[v]
  PROVE Allowed'
<1>1. Coming' = Coming
  BY DEF Coming
<1>2. \A v \in Coming : Asked'[v] = Asked[v]
  BY DEF Coming, Asked
<1> DEFINE old == Asked
           new == Asked'
<1>3. \A v \in Coming : new[v] = old[v]
  BY <1>2
<1> HIDE DEF old, new
<1>4. SumFunctionOnSet(new, Coming) = SumFunctionOnSet(old, Coming)
  BY <1>3, ComingFinite, SumAgree
<1>5. Held(resident, DOMAIN resident)' = Held(resident, DOMAIN resident)
  BY DEF Held, SizeOf
<1> QED BY <1>1, <1>4, <1>5 DEF VInv, Allowed, Limit, old, new

LEMMA VramStart ==
  ASSUME VInv, NEW w \in Loaders, NEW l \in VramLayers, NEW s \in Sizes, V!StartLoad(w, l, s)
  PROVE VInv'
<1> USE DEF VInv
<1>1. /\ pc[w] = "idle" /\ want' = [want EXCEPT ![w] = [layer |-> l, size |-> s]]
      /\ pc' = [pc EXCEPT ![w] = "check"]
      /\ UNCHANGED <<resident, allocated, plan, replaced>>
  BY DEF V!StartLoad
<1>2. /\ pc' \in [Loaders -> {"idle", "check", "suggest", "evict", "register"}]
      /\ DOMAIN want' = Loaders /\ pc'[w] = "check" /\ want'[w] = [layer |-> l, size |-> s]
      /\ \A v \in Loaders : v # w => pc'[v] = pc[v] /\ want'[v] = want[v]
  BY <1>1 DEF VramTyped, V!TypeOK
<1>3. want'[w] \in [layer : VramLayers, size : Sizes]
  BY <1>2
<1>4. VramTyped'
  BY <1>1, <1>2, <1>3 DEF VramTyped, V!TypeOK, V!NoWant
<1>5. w \notin Coming /\ w \notin Coming'
  BY <1>1, <1>2 DEF Coming
<1>6. Allowed'
  BY <1>1, <1>2, <1>5, StaysAway
<1>7. V!LedgerDrift'
  BY <1>1 DEF V!LedgerDrift, V!Bytes
<1> QED BY <1>4, <1>6, <1>7

LEMMA VramCheck ==
  ASSUME VInv, NEW w \in Loaders, V!Check(w)
  PROVE VInv'
<1> USE DEF VInv
<1>1. /\ pc[w] = "check"
      /\ pc' = [pc EXCEPT ![w] = IF V!CanAllocate(want[w].size) THEN "register" ELSE "suggest"]
      /\ UNCHANGED <<resident, allocated, want, plan, replaced>>
  BY DEF V!Check
<1>2. /\ pc' \in [Loaders -> {"idle", "check", "suggest", "evict", "register"}]
      /\ pc'[w] = IF V!CanAllocate(want[w].size) THEN "register" ELSE "suggest"
      /\ \A v \in Loaders : v # w => pc'[v] = pc[v]
  BY <1>1 DEF VramTyped, V!TypeOK
<1>3. VramTyped'
  BY <1>1, <1>2 DEF VramTyped, V!TypeOK, V!NoWant
<1>4. V!LedgerDrift'
  BY <1>1 DEF V!LedgerDrift, V!Bytes
<1>5. w \notin Coming
  BY <1>1 DEF Coming
<1>6. CASE V!CanAllocate(want[w].size)
  <2> DEFINE sum == SumFunctionOnSet(Asked, Coming)
             held == Held(resident, DOMAIN resident)
             size == want[w].size
  <2>1. pc'[w] = "register"
    BY <1>2, <1>6
  <2>2. Coming' = Coming \cup {w}
    BY <1>2, <2>1 DEF Coming
  <2>3. Asked' = Asked
    BY <1>1 DEF Asked
  <2>4. size \in Sizes /\ size \in Nat /\ size # 0 /\ Asked[w] = size
    BY <1>1, AskedNat, VramNumbers DEF VramTyped
  <2>5. SumFunctionOnSet(Asked, Coming \cup {w}) = size + sum
    BY <1>5, <2>4, ComingFinite, AskedNat, SumAdd
  <2>6. allocated = held + replaced /\ held \in Nat /\ replaced \in Nat
    BY VramBytes, ResidentHeld DEF V!LedgerDrift, VramTyped, V!TypeOK
  <2>7. held + size <= Usable
    <3>1. (IF allocated >= Usable THEN 0 ELSE Usable - allocated) >= size
      BY <1>6 DEF V!CanAllocate, V!AvailableBytes
    <3> HIDE DEF held, size
    <3> QED BY <2>4, <2>6, <3>1, VramNumbers
  <2>8. sum \in Nat /\ Usable + sum <= Limit
    BY <1>5, OthersFit
  <2>9. Held(resident, DOMAIN resident)' = held /\ Limit' = Limit
    BY <1>1 DEF Held, SizeOf, Limit
  <2> HIDE DEF held, size, sum
  <2>10. held + (size + sum) <= Limit
    BY <2>4, <2>6, <2>7, <2>8, LoaderCount, VramNumbers
  <2>11. Allowed'
    BY <2>2, <2>3, <2>5, <2>9, <2>10 DEF Allowed
  <2> QED BY <1>3, <1>4, <2>11
<1>7. CASE ~ V!CanAllocate(want[w].size)
  <2>1. w \notin Coming'
    BY <1>2, <1>7 DEF Coming
  <2>2. DOMAIN want' = Loaders /\ \A v \in Loaders : v # w => pc'[v] = pc[v] /\ want'[v] = want[v]
    BY <1>1, <1>2 DEF VramTyped
  <2>3. Allowed'
    BY <1>1, <1>5, <2>1, <2>2, StaysAway
  <2> QED BY <1>3, <1>4, <2>3
<1> QED BY <1>6, <1>7

LEMMA VramSuggest ==
  ASSUME VInv, NEW w \in Loaders, V!Suggest(w)
  PROVE VInv'
<1> USE DEF VInv
<1> DEFINE S == V!SuggestEvictions(want[w].size)
<1>1. /\ pc[w] = "suggest" /\ plan' = [plan EXCEPT ![w] = S]
      /\ pc' = [pc EXCEPT ![w] = IF plan'[w] = {} THEN "idle" ELSE "evict"]
      /\ want' = [want EXCEPT ![w] = IF plan'[w] = {} THEN V!NoWant ELSE @]
      /\ UNCHANGED <<resident, allocated, replaced>>
  BY DEF V!Suggest
<1>2. S \subseteq VramLayers
  <2>1. PICK m \in Nat : S = {resident[i].layer : i \in V!Oldest(m)} /\ m \in 0..Len(resident)
    <3> DEFINE N == {m \in 0..Len(resident) : \/ V!Bytes(V!Oldest(m)) >= want[w].size
                                              \/ m = Len(resident)}
    <3>1. Len(resident) \in Nat /\ Len(resident) \in N
      BY DEF VramTyped, V!TypeOK
    <3>6. N \in SUBSET Nat /\ N # {}
      BY <3>1
    <3>2. PICK m \in N : \A k \in N : m <= k
      <4> HIDE DEF N
      <4> QED BY <3>6, LeastNatural
    <3> DEFINE chosen == CHOOSE x \in N : \A y \in N : x <= y
    <3>3. chosen \in N
      BY <3>2
    <3>4. chosen \in Nat /\ chosen \in 0..Len(resident)
      BY <3>3
    <3>5. S = {resident[i].layer : i \in V!Oldest(chosen)}
      BY DEF V!SuggestEvictions, V!Min
    <3> QED BY <3>4, <3>5
  <2>2. \A i \in V!Oldest(m) : i \in 1..Len(resident)
    BY <2>1 DEF VramTyped, V!TypeOK, V!Oldest
  <2>3. \A i \in 1..Len(resident) : resident[i].layer \in VramLayers
    <3>1. resident \in Seq(V!Allocations)
      BY DEF VramTyped, V!TypeOK
    <3>2. \A i \in 1..Len(resident) : resident[i] \in V!Allocations
      BY <3>1
    <3> QED BY <3>2 DEF V!Allocations
  <2> QED BY <2>1, <2>2, <2>3
<1> HIDE DEF S
<1>3. /\ DOMAIN plan' = Loaders /\ plan'[w] = S
      /\ \A v \in Loaders : v # w => plan'[v] = plan[v]
  BY <1>1 DEF VramTyped
<1>4. /\ pc' \in [Loaders -> {"idle", "check", "suggest", "evict", "register"}]
      /\ pc'[w] = (IF S = {} THEN "idle" ELSE "evict")
      /\ \A v \in Loaders : v # w => pc'[v] = pc[v]
  BY <1>1, <1>3 DEF VramTyped, V!TypeOK
<1>5. /\ DOMAIN want' = Loaders /\ want'[w] = IF S = {} THEN V!NoWant ELSE want[w]
      /\ \A v \in Loaders : v # w => want'[v] = want[v]
  BY <1>1, <1>3 DEF VramTyped
<1>6. want[w] \in [layer : VramLayers, size : Sizes]
  BY <1>1 DEF VramTyped
<1>7. \A v \in Loaders : plan'[v] \subseteq VramLayers
  BY <1>2, <1>3 DEF VramTyped, V!TypeOK
<1>8. /\ \A v \in Loaders : want'[v] = V!NoWant \/ want'[v] \in [layer : VramLayers, size : Sizes]
      /\ \A v \in Loaders : pc'[v] # "idle" => want'[v] \in [layer : VramLayers, size : Sizes]
  BY <1>4, <1>5, <1>6 DEF VramTyped, V!TypeOK
<1>9. VramTyped'
  BY <1>1, <1>3, <1>4, <1>5, <1>7, <1>8 DEF VramTyped, V!TypeOK, V!NoWant
<1>10. w \notin Coming /\ w \notin Coming'
  BY <1>1, <1>4 DEF Coming
<1>11. Allowed'
  BY <1>1, <1>4, <1>5, <1>10, StaysAway
<1>12. V!LedgerDrift'
  BY <1>1 DEF V!LedgerDrift, V!Bytes
<1> QED BY <1>9, <1>11, <1>12

LEMMA VramEvict ==
  ASSUME VInv, NEW w \in Loaders, V!Evict(w)
  PROVE VInv'
<1> USE DEF VInv
<1>1. PICK l \in plan[w] :
        /\ pc[w] = "evict" /\ V!UnregisterLayer(l) /\ plan' = [plan EXCEPT ![w] = @ \ {l}]
        /\ pc' = [pc EXCEPT ![w] = IF plan'[w] = {} THEN "check" ELSE "evict"]
        /\ UNCHANGED want
  BY DEF V!Evict
<1> DEFINE freed == V!Bytes(V!At(l))
           r == V!Without(l)
<1>2. /\ resident' = r /\ UNCHANGED replaced
      /\ allocated' = IF freed > allocated THEN 0 ELSE allocated - freed
  BY <1>1 DEF V!UnregisterLayer
<1>3. V!TypeOK
  BY DEF VramTyped
<1>4. /\ r \in Seq(V!Allocations) /\ \A i, j \in DOMAIN r : r[i].layer = r[j].layer => i = j
      /\ freed \in Nat /\ Held(r, DOMAIN r) \in Nat
      /\ Held(r, DOMAIN r) + freed = Held(resident, DOMAIN resident)
  BY <1>3, WithoutOne
<1>5. allocated = Held(resident, DOMAIN resident) + replaced /\ replaced \in Nat
  BY VramBytes DEF V!LedgerDrift, VramTyped, V!TypeOK
<1> HIDE DEF freed, r
<1>6. allocated' = Held(r, DOMAIN r) + replaced
  BY <1>2, <1>4, <1>5
<1>7. V!LedgerDrift'
  <2>1. V!Bytes(DOMAIN resident)' = Held(resident, DOMAIN resident)'
    BY VramBytes DEF V!Bytes, Held, SizeOf, V!SumFunctionOnSet, V!FoldFunctionOnSet,
       V!MapThenFoldSet, SumFunctionOnSet, FoldFunctionOnSet, MapThenFoldSet
  <2>2. Held(resident, DOMAIN resident)' = Held(r, DOMAIN r)
    BY <1>2 DEF Held, SizeOf
  <2> QED BY <1>2, <1>6, <2>1, <2>2 DEF V!LedgerDrift
<1>8. /\ pc' \in [Loaders -> {"idle", "check", "suggest", "evict", "register"}]
      /\ pc'[w] \in {"check", "evict"}
      /\ \A v \in Loaders : v # w => pc'[v] = pc[v]
  BY <1>1 DEF VramTyped, V!TypeOK
<1>9. DOMAIN plan' = Loaders /\ \A v \in Loaders : plan'[v] \subseteq VramLayers
  BY <1>1 DEF VramTyped, V!TypeOK
<1>10. allocated' \in Nat
  BY <1>4, <1>5, <1>6
<1>11. \A v \in Loaders : pc'[v] # "idle" => want'[v] \in [layer : VramLayers, size : Sizes]
  BY <1>1, <1>8 DEF VramTyped
<1>12. VramTyped'
  <2>1. /\ resident' \in Seq(V!Allocations)
        /\ \A i, j \in DOMAIN resident' : resident'[i].layer = resident'[j].layer => i = j
    BY <1>2, <1>4
  <2> QED BY <1>1, <1>2, <1>8, <1>9, <1>10, <1>11, <2>1 DEF VramTyped, V!TypeOK, V!NoWant
<1>13. Coming' = Coming
  BY <1>1, <1>8 DEF Coming
<1>14. Asked' = Asked
  BY <1>1 DEF Asked
<1>15. SumFunctionOnSet(Asked, Coming) \in Nat
  BY ComingFinite, AskedNat, SumNat
<1>16. Allowed'
  <2>1. Held(resident, DOMAIN resident)' = Held(r, DOMAIN r)
    BY <1>2 DEF Held, SizeOf
  <2>2. Held(r, DOMAIN r) + SumFunctionOnSet(Asked, Coming) <= Limit
    BY <1>4, <1>15, LoaderCount DEF Allowed
  <2> QED BY <1>13, <1>14, <2>1, <2>2 DEF Allowed, Limit
<1> QED BY <1>7, <1>12, <1>16

LEMMA VramRegister ==
  ASSUME VInv, NEW w \in Loaders, V!Register(w)
  PROVE VInv'
<1> USE DEF VInv
<1> DEFINE l == want[w].layer
           s == want[w].size
           e == [layer |-> l, size |-> s, pinned |-> FALSE]
           freed == V!Bytes(V!At(l))
           r == V!Without(l)
           now == Append(r, e)
<1>1. /\ pc[w] = "register" /\ resident' = now /\ allocated' = allocated + s
      /\ replaced' = replaced + freed
      /\ pc' = [pc EXCEPT ![w] = "idle"] /\ want' = [want EXCEPT ![w] = V!NoWant]
      /\ UNCHANGED plan
  BY DEF V!Register, V!RegisterLayer
<1>2. want[w] \in [layer : VramLayers, size : Sizes]
  BY <1>1 DEF VramTyped
<1>3. l \in VramLayers /\ s \in Sizes /\ s \in Nat
  BY <1>2, VramNumbers
<1>4. e \in V!Allocations /\ e.size = s /\ e.layer = l
  BY <1>3 DEF V!Allocations
<1>5. V!TypeOK
  BY DEF VramTyped
<1> HIDE DEF l, s, e
<1>6. /\ r \in Seq(V!Allocations) /\ SeqSized(r)
      /\ \A i, j \in DOMAIN r : r[i].layer = r[j].layer => i = j
      /\ \A i \in DOMAIN r : r[i].layer # l
      /\ freed \in Nat /\ Held(r, DOMAIN r) \in Nat
      /\ Held(r, DOMAIN r) + freed = Held(resident, DOMAIN resident)
  BY <1>5, WithoutOne
<1> HIDE DEF freed, r
<1>7. Held(now, DOMAIN now) = Held(r, DOMAIN r) + s
  BY <1>3, <1>4, <1>6, HeldAppend
<1>8. /\ now \in Seq(V!Allocations) /\ DOMAIN now = 1..(Len(r) + 1)
      /\ DOMAIN r = 1..Len(r) /\ now[Len(r) + 1] = e /\ \A i \in 1..Len(r) : now[i] = r[i]
  BY <1>4, <1>6
<1>9. \A i, j \in DOMAIN now : now[i].layer = now[j].layer => i = j
  <2>1. \A i \in 1..Len(r) : now[i].layer # now[Len(r) + 1].layer
    BY <1>4, <1>6, <1>8
  <2>2. \A i \in DOMAIN now : i \in 1..Len(r) \/ i = Len(r) + 1
    BY <1>6, <1>8
  <2> HIDE DEF now
  <2> QED BY <1>6, <1>8, <2>1, <2>2
<1> HIDE DEF now
<1>10. allocated = Held(resident, DOMAIN resident) + replaced /\ replaced \in Nat
  BY VramBytes DEF V!LedgerDrift, VramTyped, V!TypeOK
<1>11. allocated' = Held(now, DOMAIN now) + replaced' /\ allocated' \in Nat /\ replaced' \in Nat
  BY <1>1, <1>3, <1>6, <1>7, <1>10
<1>12. Held(resident, DOMAIN resident)' = Held(now, DOMAIN now)
  BY <1>1 DEF Held, SizeOf
<1>13. V!LedgerDrift'
  <2>1. V!Bytes(DOMAIN resident)' = Held(resident, DOMAIN resident)'
    BY VramBytes DEF V!Bytes, Held, SizeOf, V!SumFunctionOnSet, V!FoldFunctionOnSet,
       V!MapThenFoldSet, SumFunctionOnSet, FoldFunctionOnSet, MapThenFoldSet
  <2> QED BY <1>11, <1>12, <2>1 DEF V!LedgerDrift
<1>14. /\ pc' \in [Loaders -> {"idle", "check", "suggest", "evict", "register"}]
       /\ pc'[w] = "idle" /\ DOMAIN want' = Loaders /\ want'[w] = V!NoWant
       /\ \A v \in Loaders : v # w => pc'[v] = pc[v] /\ want'[v] = want[v]
  BY <1>1 DEF VramTyped, V!TypeOK
<1>15. VramTyped'
  <2>1. /\ resident' \in Seq(V!Allocations)
        /\ \A i, j \in DOMAIN resident' : resident'[i].layer = resident'[j].layer => i = j
    BY <1>1, <1>8, <1>9
  <2> QED BY <1>1, <1>11, <1>14, <2>1 DEF VramTyped, V!TypeOK, V!NoWant
<1>16. w \in Coming /\ Coming' = Coming \ {w}
  BY <1>1, <1>14 DEF Coming
<1> DEFINE old == Asked
           new == Asked'
           rest == Coming \ {w}
<1>17. \A v \in rest : new[v] = old[v]
  BY <1>14 DEF Asked, Coming
<1>18. old[w] = s
  BY AskedNat DEF s
<1>19. Valued(old, Coming) /\ IsFiniteSet(Coming)
  BY AskedNat, ComingFinite
<1>20. IsFiniteSet(rest) /\ Valued(old, rest)
  BY <1>19, FS_Subset DEF Valued
<1> HIDE DEF old, new
<1>21. SumFunctionOnSet(old, Coming) = s + SumFunctionOnSet(old, rest)
  BY <1>16, <1>18, <1>19, SumRemove
<1>22. SumFunctionOnSet(old, rest) \in Nat
  <2> HIDE DEF rest
  <2> QED BY <1>20, SumNat
<1>23. SumFunctionOnSet(new, rest) = SumFunctionOnSet(old, rest)
  <2> HIDE DEF rest
  <2> QED BY <1>17, <1>20, SumAgree
<1>24. Held(resident, DOMAIN resident) + SumFunctionOnSet(old, Coming) <= Limit
  BY DEF Allowed, old
<1>25. Held(now, DOMAIN now) + SumFunctionOnSet(new, rest) <= Limit
  BY <1>3, <1>6, <1>7, <1>21, <1>22, <1>23, <1>24, LoaderCount
<1>26. Allowed'
  BY <1>12, <1>16, <1>25 DEF Allowed, Limit, new
<1> QED BY <1>13, <1>15, <1>26

LEMMA VramPin ==
  ASSUME VInv, NEW l \in VramLayers, NEW p \in BOOLEAN, V!SetPinned(l, p)
  PROVE VInv'
<1> USE DEF VInv
<1>1. PICK i \in DOMAIN resident :
        /\ resident' = [resident EXCEPT ![i].pinned = p]
        /\ UNCHANGED <<allocated, pc, want, plan, replaced>>
  BY DEF V!SetPinned
<1>2. resident \in Seq(V!Allocations)
  BY DEF VramTyped, V!TypeOK
<1> DEFINE e == [resident[i] EXCEPT !.pinned = p]
<1>3. resident[i] \in V!Allocations
  BY <1>2
<1>4. e \in V!Allocations /\ e.layer = resident[i].layer /\ e.size = resident[i].size
  BY <1>3 DEF V!Allocations
<1>5. resident' = [resident EXCEPT ![i] = e]
  BY <1>1
<1> HIDE DEF e
<1>6. resident' \in Seq(V!Allocations) /\ DOMAIN resident' = DOMAIN resident
  BY <1>2, <1>4, <1>5
<1>7. \A j \in DOMAIN resident : resident'[j] = IF j = i THEN e ELSE resident[j]
  BY <1>2, <1>5
<1>8. \A j \in DOMAIN resident : /\ resident'[j].layer = resident[j].layer
                                 /\ resident'[j].size = resident[j].size
  BY <1>4, <1>7
<1> DEFINE now == resident'
<1>9. Held(now, DOMAIN now) = Held(resident, DOMAIN resident)
  <2>1. DOMAIN now = DOMAIN resident /\ \A j \in DOMAIN now : now[j].size = resident[j].size
    BY <1>6, <1>8
  <2>2. Sized(resident)
    BY ResidentHeld DEF SeqSized
  <2> HIDE DEF now
  <2> QED BY <2>1, <2>2, HeldSame
<1>10. Held(resident, DOMAIN resident)' = Held(now, DOMAIN now)
  BY DEF Held, SizeOf
<1>11. V!LedgerDrift'
  <2>1. V!Bytes(DOMAIN resident)' = Held(resident, DOMAIN resident)'
    BY VramBytes DEF V!Bytes, Held, SizeOf, V!SumFunctionOnSet, V!FoldFunctionOnSet,
       V!MapThenFoldSet, SumFunctionOnSet, FoldFunctionOnSet, MapThenFoldSet
  <2> QED BY <1>1, <1>9, <1>10, <2>1, VramBytes DEF V!LedgerDrift
<1>12. VramTyped'
  BY <1>1, <1>6, <1>8 DEF VramTyped, V!TypeOK, V!NoWant
<1>13. Allowed'
  <2>1. Coming' = Coming /\ Asked' = Asked /\ Limit' = Limit
    BY <1>1 DEF Coming, Asked, Limit
  <2> QED BY <1>9, <1>10, <2>1 DEF Allowed
<1> QED BY <1>11, <1>12, <1>13

LEMMA VramStutters == VInv /\ UNCHANGED vramVars => VInv'
<1> SUFFICES ASSUME VInv, UNCHANGED vramVars PROVE VInv'
  OBVIOUS
<1>1. UNCHANGED <<resident, allocated, pc, want, plan, replaced>>
  BY DEF vramVars
<1>2. VramTyped'
  BY <1>1 DEF VInv, VramTyped, V!TypeOK, V!NoWant
<1>3. V!LedgerDrift'
  BY <1>1 DEF VInv, V!LedgerDrift, V!Bytes
<1>4. Allowed'
  BY <1>1 DEF VInv, Allowed, Held, SizeOf, Asked, Coming, Limit
<1> QED BY <1>2, <1>3, <1>4 DEF VInv

LEMMA VramNext == VInv /\ V!Next => VInv'
<1> SUFFICES ASSUME VInv, V!Next PROVE VInv'
  OBVIOUS
<1>1. CASE \E w \in Loaders : V!Check(w)
  BY <1>1, VramCheck
<1>2. CASE \E w \in Loaders : V!Suggest(w)
  BY <1>2, VramSuggest
<1>3. CASE \E w \in Loaders : V!Evict(w)
  BY <1>3, VramEvict
<1>4. CASE \E w \in Loaders : V!Register(w)
  BY <1>4, VramRegister
<1>5. CASE \E w \in Loaders : \E l \in VramLayers, s \in Sizes : V!StartLoad(w, l, s)
  BY <1>5, VramStart
<1>6. CASE \E l \in VramLayers : V!PinLayer(l) \/ V!UnpinLayer(l)
  BY <1>6, VramPin DEF V!PinLayer, V!UnpinLayer
<1> QED BY <1>1, <1>2, <1>3, <1>4, <1>5, <1>6 DEF V!Next, V!Load

(* The bound is what Allowed leaves for the layers that are there.         *)
LEMMA VramHolds == VInv => V!TypeOK /\ V!LedgerDrift /\ V!OvercommitBounded
<1> SUFFICES ASSUME VInv PROVE V!TypeOK /\ V!LedgerDrift /\ V!OvercommitBounded
  OBVIOUS
<1>1. VramTyped /\ V!LedgerDrift /\ Allowed
  BY DEF VInv
<1>2. SumFunctionOnSet(Asked, Coming) \in Nat
  BY <1>1, ComingFinite, AskedNat, SumNat
<1>3. Held(resident, DOMAIN resident) <= Limit
  BY <1>1, <1>2, ResidentHeld, LoaderCount DEF Allowed
<1>4. V!Bytes(DOMAIN resident) <= Usable + (Cardinality(Loaders) - 1) * Max(Sizes)
  BY <1>3, VramBytes DEF Limit
<1>5. V!Cardinality(Loaders) = Cardinality(Loaders) /\ V!Max(Sizes) = Max(Sizes)
  BY DEF V!Max, Max, V!Cardinality, Cardinality
<1>6. V!OvercommitBounded
  BY <1>4, <1>5 DEF V!OvercommitBounded
<1> QED BY <1>1, <1>6 DEF VramTyped
-----------------------------------------------------------------------------
(* LruMap: what is recorded, in the map, in the file and at the start of   *)
(* the session; no thread has read a later time than the clock shows.      *)
Judged(r) == \A l \in DOMAIN r : r[l].heat = L!Classify(r[l].freq)
LruTyped == /\ L!TypeOK /\ L!Recorded(saved.records) /\ L!Recorded(begun)
            /\ DOMAIN stamp = LruThreads
LruKept == /\ Judged(records) /\ Judged(saved.records)
           /\ DOMAIN begun \subseteq DOMAIN records
           /\ \A t \in LruThreads : stamp[t] # L!NoStamp => stamp[t].now <= clock
(* What is not lost is in the records, and what is not at risk in the file.*)
Remembered ==
  lost = {} => \A l \in L!Ids :
                 /\ L!Count(records, l) = taken[l]
                 /\ risk = {} => L!Count(saved.records, l) = taken[l]
LInv == LruTyped /\ LruKept /\ L!CountsAddUp

LEMMA LruNumbers ==
  /\ NumLayers \in Nat \ {0} /\ Moments \subseteq Nat \ {0} /\ L!Recorded(PastSession)
  /\ NumLayers \notin L!Ids /\ L!Ids \subseteq Nat /\ Width \in Nat /\ NumLayers < Width
BY MemoryAssumption DEF L!LruAssumption, L!Ids

LEMMA PastJudged == Judged(PastSession)
<1>1. L!Classify(1050) = "hot" /\ L!Classify(105) = "warm"
  BY DEF L!Classify
<1>2. \A l \in DOMAIN PastSession :
        PastSession[l] = IF l = 0 THEN Past(1050, 2000, "hot") ELSE Past(105, 20, "warm")
  BY DEF PastSession
<1>3. /\ Past(1050, 2000, "hot").freq = 1050 /\ Past(1050, 2000, "hot").heat = "hot"
      /\ Past(105, 20, "warm").freq = 105 /\ Past(105, 20, "warm").heat = "warm"
  BY DEF Past
<1> QED BY <1>1, <1>2, <1>3 DEF Judged

(* The average moves up, or down by no more than a tenth.                  *)
LEMMA Averaged ==
  ASSUME NEW f \in Nat, NEW now \in Nat, NEW last \in Nat
  PROVE LET e == L!Ema(f, now, last) IN e \in Nat /\ 10 * e + 10 > 9 * f
<1> DEFINE a == (9 * f) \div 10
           b == IF now < last THEN 0 ELSE 10000 \div (IF now = last THEN 1 ELSE now - last)
<1>1. a \in Nat /\ 10 * a + 10 > 9 * f
  OBVIOUS
<1>2. b \in Nat
  <2>1. CASE now < last
    BY <2>1
  <2>2. CASE now = last
    BY <2>2
  <2>3. CASE now > last
    <3>1. now - last \in Nat \ {0}
      BY <2>3
    <3>2. \A k \in Nat \ {0} : 10000 \div k \in Nat
      OBVIOUS
    <3> QED BY <2>3, <3>1, <3>2
  <2> QED BY <2>1, <2>2, <2>3
<1>3. L!Ema(f, now, last) = a + b
  BY DEF L!Ema
<1> HIDE DEF a, b
<1> QED BY <1>1, <1>2, <1>3

LEMMA ClassTyped == \A f \in Nat : L!Classify(f) \in L!Heats
BY DEF L!Classify, L!Heats

LEMMA LoadedKept ==
  ASSUME NEW f, L!Recorded(f.records), Judged(f.records)
  PROVE LET r == L!Loaded(f) IN
        /\ L!Recorded(r) /\ Judged(r) /\ DOMAIN r = DOMAIN f.records
        /\ \A l \in DOMAIN r : r[l].session = 0 /\ r[l].count \in Nat
<1> DEFINE r == L!Loaded(f)
           e(l) == [f.records[l] EXCEPT !.session = 0]
<1>1. r = [l \in DOMAIN f.records |-> e(l)]
  BY DEF L!Loaded
<1>2. \A l \in DOMAIN f.records :
        /\ e(l) \in L!Record /\ e(l).session = 0 /\ e(l).count \in Nat
        /\ e(l).heat = f.records[l].heat /\ e(l).freq = f.records[l].freq
  <2> TAKE l \in DOMAIN f.records
  <2>1. f.records[l] \in L!Record
    BY DEF L!Recorded
  <2>2. e(l) \in L!Record
    BY <2>1 DEF L!Record
  <2>3. e(l).session = 0 /\ e(l).count \in Nat
    BY <2>1 DEF L!Record
  <2>4. e(l).heat = f.records[l].heat /\ e(l).freq = f.records[l].freq
    BY <2>1 DEF L!Record
  <2> QED BY <2>2, <2>3, <2>4
<1> HIDE DEF e, r
<1>3. DOMAIN r = DOMAIN f.records
  BY <1>1
<1>4. \A l \in DOMAIN r : r[l] = e(l)
  BY <1>1
<1>5. L!Recorded(r)
  BY <1>2, <1>3, <1>4 DEF L!Recorded
<1>6. Judged(r)
  BY <1>2, <1>3, <1>4 DEF Judged
<1> QED BY <1>2, <1>3, <1>4, <1>5, <1>6 DEF r

LEMMA LoadedCounts ==
  ASSUME NEW f, L!Recorded(f.records), NEW l PROVE L!Count(L!Loaded(f), l) = L!Count(f.records, l)
<1>1. ASSUME l \in DOMAIN f.records PROVE [f.records[l] EXCEPT !.session = 0].count = f.records[l].count
  BY <1>1 DEF L!Recorded, L!Record
<1> QED BY <1>1 DEF L!Loaded, L!Count

LEMMA NoneKept == L!Recorded(L!NoRecords) /\ Judged(L!NoRecords) /\ DOMAIN L!NoRecords = {}
BY DEF L!Recorded, Judged, L!NoRecords

LEMMA LruInit == L!Init => LInv
<1> SUFFICES ASSUME L!Init PROVE LInv
  OBVIOUS
<1>1. /\ records = L!Loaded(saved) /\ begun = records
      /\ clock = 0 /\ stamp = [t \in LruThreads |-> L!NoStamp] /\ checked \in BOOLEAN
      /\ saving = FALSE /\ poisoned = FALSE
  BY DEF L!Init
<1>2. \/ saved = L!File("none", L!NoRecords)
      \/ saved = L!File("map", PastSession)
  BY DEF L!Init
<1>3. L!Recorded(saved.records) /\ Judged(saved.records)
  BY <1>2, LruNumbers, PastJudged, NoneKept DEF L!File
<1>4. /\ saved.kind \in {"none", "torn", "pages", "map"}
      /\ saved.kind # "map" => saved.records = L!NoRecords
  BY <1>2 DEF L!File
<1>5. /\ L!Recorded(records) /\ Judged(records)
      /\ \A l \in DOMAIN records : records[l].session = 0 /\ records[l].count \in Nat
  BY <1>1, <1>3, LoadedKept
<1>9. taken \in [L!Ids -> Nat] /\ risk = {} /\ lost = {}
  <2>1. \A l \in L!Ids : L!Count(saved.records, l) \in Nat
    BY <1>3 DEF L!Count, L!Recorded, L!Record
  <2> QED BY <2>1 DEF L!Init
<1>6. LruTyped
  BY <1>1, <1>3, <1>4, <1>5, <1>9 DEF LruTyped, L!TypeOK
<1>7. LruKept
  BY <1>1, <1>3, <1>5 DEF LruKept
<1>8. L!CountsAddUp
  BY <1>1, <1>5 DEF L!CountsAddUp
<1> QED BY <1>6, <1>7, <1>8 DEF LInv

LEMMA LruTick == LInv /\ L!Tick => LInv'
<1> SUFFICES ASSUME LInv, L!Tick PROVE LInv'
  OBVIOUS
<1> USE DEF LInv
<1>1. /\ clock' \in Moments /\ clock' > clock
      /\ UNCHANGED <<records, stamp, saving, poisoned, checked, saved, begun, taken, risk, lost>>
  BY DEF L!Tick
<1>2. LruTyped'
  BY <1>1 DEF LruTyped, L!TypeOK, L!Recorded, L!NoStamp, L!NoRecords, L!Record, L!Ids
<1>3. clock \in Nat /\ clock' \in Nat
  BY <1>1, LruNumbers DEF LruTyped, L!TypeOK
<1>4. \A t \in LruThreads : stamp[t] # L!NoStamp => stamp[t].now \in Nat
  <2>1. \A t \in LruThreads : stamp[t] # L!NoStamp => stamp[t].now \in {0} \cup Moments
    BY DEF LruTyped, L!TypeOK
  <2>2. \A m \in {0} \cup Moments : m \in Nat
    BY LruNumbers
  <2> QED BY <2>1, <2>2
<1>5. LruKept'
  BY <1>1, <1>3, <1>4 DEF LruKept, Judged, L!NoStamp, L!Classify
<1>6. \A l \in DOMAIN records : records[l].last \in Nat
  BY DEF LruTyped, L!TypeOK, L!Recorded, L!Record
<1>7. L!CountsAddUp'
  BY <1>1, <1>3, <1>6 DEF L!CountsAddUp
<1> QED BY <1>2, <1>5, <1>7

LEMMA LruStamp == ASSUME LInv, NEW t \in LruThreads, L!Stamp(t) PROVE LInv'
<1> USE DEF LInv
<1>1. PICK l \in L!Ids :
        /\ stamp' = [stamp EXCEPT ![t] = [layer |-> l, now |-> clock]]
        /\ UNCHANGED <<records, clock, saving, poisoned, checked, saved, begun, taken, risk, lost>>
  BY DEF L!Stamp
<1>2. clock \in {0} \cup Moments /\ clock \in Nat
  BY LruNumbers DEF LruTyped, L!TypeOK
<1>3. [layer |-> l, now |-> clock] \in [layer : L!Ids, now : {0} \cup Moments]
  BY <1>2
<1>4. /\ DOMAIN stamp' = LruThreads
      /\ \A u \in LruThreads : stamp'[u] = IF u = t THEN [layer |-> l, now |-> clock] ELSE stamp[u]
  BY <1>1 DEF LruTyped
<1>5. LruTyped'
  BY <1>1, <1>3, <1>4 DEF LruTyped, L!TypeOK, L!Recorded, L!NoStamp, L!NoRecords, L!Record, L!Ids
<1>6. LruKept'
  BY <1>1, <1>2, <1>4 DEF LruKept, Judged, L!NoStamp, L!Classify
<1>7. L!CountsAddUp'
  BY <1>1 DEF L!CountsAddUp
<1> QED BY <1>5, <1>6, <1>7

(* A record that an access or an update leaves behind.                     *)
LEMMA RecordSet ==
  ASSUME LInv, NEW l \in L!Ids, NEW r \in L!Record, r.heat = L!Classify(r.freq),
         records' = L!Set(l, r), UNCHANGED <<clock, checked, saved, begun>>,
         r.count = r.session + (IF l \in DOMAIN begun THEN begun[l].count ELSE 0),
         r.last > clock => l \in DOMAIN begun /\ r.last = begun[l].last
  PROVE /\ L!Recorded(records') /\ Judged(records') /\ DOMAIN begun \subseteq DOMAIN records'
        /\ L!CountsAddUp'
<1> USE DEF LInv
<1>1. /\ DOMAIN records' = DOMAIN records \cup {l}
      /\ \A k \in DOMAIN records' : records'[k] = IF k = l THEN r ELSE records[k]
  BY DEF L!Set
<1>2. L!Recorded(records')
  BY <1>1 DEF L!Recorded, LruTyped, L!TypeOK
<1>3. Judged(records') /\ DOMAIN begun \subseteq DOMAIN records'
  BY <1>1 DEF Judged, LruKept
<1>4. L!CountsAddUp'
  BY <1>1 DEF L!CountsAddUp
<1> QED BY <1>2, <1>3, <1>4
LEMMA LruAccess == ASSUME LInv, NEW t \in LruThreads, L!Access(t) PROVE LInv'
<1> USE DEF LInv
<1> DEFINE l == stamp[t].layer
           now == stamp[t].now
           seen == L!Seen(l, now)
           r == L!Counted(l, now)
           f == L!Ema(r.freq, now, r.last)
           behind == checked /\ now < r.last
           judged == [r EXCEPT !.freq = f, !.last = now, !.heat = L!Classify(f)]
<1>1. /\ stamp[t] # L!NoStamp /\ stamp' = [stamp EXCEPT ![t] = L!NoStamp]
      /\ poisoned' = (poisoned \/ behind)
      /\ records' = IF poisoned THEN records
                    ELSE IF behind THEN L!Set(l, r) ELSE L!Set(l, judged)
      /\ UNCHANGED <<clock, saving, checked, saved, begun>>
  BY DEF L!Access
<1>2. stamp[t] \in [layer : L!Ids, now : {0} \cup Moments]
  BY <1>1 DEF LruTyped, L!TypeOK
<1>3. l \in L!Ids /\ now \in {0} \cup Moments /\ now \in Nat /\ now <= clock
  BY <1>1, <1>2, LruNumbers DEF LruKept
<1>4. clock \in Nat
  <2>1. clock \in {0} \cup Moments
    BY DEF LruTyped, L!TypeOK
  <2> QED BY <2>1, LruNumbers
<1> HIDE DEF l, now
<1>5. /\ seen \in L!Record /\ seen.heat = L!Classify(seen.freq)
      /\ seen.count = seen.session + (IF l \in DOMAIN begun THEN begun[l].count ELSE 0)
      /\ seen.last > clock => l \in DOMAIN begun /\ seen.last = begun[l].last
  <2>1. CASE l \in DOMAIN records
    <3>1. seen = records[l]
      BY <2>1 DEF L!Seen
    <3>2. records[l] \in L!Record
      BY <2>1 DEF LruTyped, L!TypeOK, L!Recorded
    <3> HIDE DEF seen
    <3> QED BY <2>1, <3>1, <3>2 DEF LruKept, Judged, L!CountsAddUp
  <2>2. CASE l \notin DOMAIN records
    <3>1. seen = [count |-> 0, session |-> 0, freq |-> 0, last |-> now, tier |-> "nvme", heat |-> "cold"]
      BY <2>2 DEF L!Seen
    <3>2. l \notin DOMAIN begun
      BY <2>2 DEF LruKept
    <3>3. L!Classify(0) = "cold"
      BY DEF L!Classify
    <3>4. seen \in L!Record
      BY <1>3, <3>1 DEF L!Record, L!Tiers, L!Heats
    <3> HIDE DEF seen
    <3>5. seen.heat = L!Classify(seen.freq)
      BY <3>1, <3>3
    <3>6. seen.count = 0 /\ seen.session = 0 /\ seen.last = now
      BY <3>1
    <3>7. ~ (seen.last > clock)
      BY <1>3, <1>4, <3>6
    <3> QED BY <3>2, <3>4, <3>5, <3>6, <3>7
  <2> QED BY <2>1, <2>2
<1>6. r = [seen EXCEPT !.count = seen.count + 1, !.session = seen.session + 1]
  BY DEF L!Counted
<1>7. /\ r \in L!Record /\ r.freq = seen.freq /\ r.last = seen.last /\ r.heat = seen.heat
      /\ r.count = seen.count + 1 /\ r.session = seen.session + 1
  <2> HIDE DEF seen, r
  <2>1. seen.count + 1 \in Nat /\ seen.session + 1 \in Nat
    BY <1>5 DEF L!Record
  <2>2. r \in L!Record
    BY <1>5, <1>6, <2>1 DEF L!Record
  <2>3. r.freq = seen.freq /\ r.last = seen.last /\ r.heat = seen.heat
    BY <1>5, <1>6 DEF L!Record
  <2>4. r.count = seen.count + 1 /\ r.session = seen.session + 1
    BY <1>5, <1>6 DEF L!Record
  <2> QED BY <2>2, <2>3, <2>4
<1> HIDE DEF seen
<1>8. r.freq \in Nat /\ r.last \in Nat /\ r.count \in Nat /\ r.session \in Nat
  BY <1>7 DEF L!Record
<1>9. seen.count \in Nat /\ seen.session \in Nat
  BY <1>5 DEF L!Record
<1>10. \A l2 \in DOMAIN begun : begun[l2].count \in Nat
  BY DEF LruTyped, L!Recorded, L!Record
<1>11. r.count = r.session + (IF l \in DOMAIN begun THEN begun[l].count ELSE 0)
  BY <1>5, <1>7, <1>9, <1>10
<1> HIDE DEF r
<1>12. f \in Nat
  BY <1>3, <1>8, Averaged
<1> HIDE DEF f
<1>13. /\ judged \in L!Record /\ judged.freq = f /\ judged.last = now
       /\ judged.heat = L!Classify(f) /\ judged.count = r.count /\ judged.session = r.session
  <2>1. L!Classify(f) \in L!Heats
    BY <1>12, ClassTyped
  <2>2. judged \in L!Record
    BY <1>3, <1>7, <1>12, <2>1 DEF L!Record
  <2>3. judged.freq = f /\ judged.last = now /\ judged.heat = L!Classify(f)
    BY <1>7 DEF L!Record
  <2>4. judged.count = r.count /\ judged.session = r.session
    BY <1>7 DEF L!Record
  <2> QED BY <2>2, <2>3, <2>4
<1> HIDE DEF judged
<1>14. /\ L!Recorded(records') /\ Judged(records') /\ DOMAIN begun \subseteq DOMAIN records'
       /\ L!CountsAddUp'
  <2>1. CASE poisoned
    <3>1. records' = records
      BY <1>1, <2>1
    <3> QED BY <1>1, <3>1 DEF LruTyped, L!TypeOK, LruKept, L!CountsAddUp
  <2>2. CASE ~ poisoned /\ behind
    <3>1. records' = L!Set(l, r)
      BY <1>1, <2>2
    <3>2. r.heat = L!Classify(r.freq)
      BY <1>5, <1>7
    <3>3. r.last > clock => l \in DOMAIN begun /\ r.last = begun[l].last
      BY <1>5, <1>7
    <3> QED BY <1>1, <1>3, <1>7, <1>11, <3>1, <3>2, <3>3, RecordSet
  <2>3. CASE ~ poisoned /\ ~ behind
    <3>1. records' = L!Set(l, judged)
      BY <1>1, <2>3
    <3>2. judged.heat = L!Classify(judged.freq)
      BY <1>13
    <3>3. ~ (judged.last > clock)
      BY <1>3, <1>4, <1>13
    <3>4. judged.count = judged.session + (IF l \in DOMAIN begun THEN begun[l].count ELSE 0)
      BY <1>11, <1>13
    <3> QED BY <1>1, <1>3, <1>13, <3>1, <3>2, <3>3, <3>4, RecordSet
  <2> QED BY <2>1, <2>2, <2>3
<1>15. /\ DOMAIN stamp' = LruThreads
       /\ \A u \in LruThreads : stamp'[u] = IF u = t THEN L!NoStamp ELSE stamp[u]
  BY <1>1 DEF LruTyped
<1>16. poisoned' \in BOOLEAN
  BY <1>1 DEF LruTyped, L!TypeOK
<1>17. L!TypeOK'
  <2>1. L!Recorded(records)'
    BY <1>14 DEF L!Recorded
  <2>2. /\ clock' \in {0} \cup Moments /\ {saving', poisoned', checked'} \subseteq BOOLEAN
    BY <1>1, <1>16 DEF LruTyped, L!TypeOK
  <2>3. \A u \in LruThreads : stamp'[u] = L!NoStamp
                              \/ stamp'[u] \in [layer : L!Ids, now : {0} \cup Moments]
    BY <1>15 DEF LruTyped, L!TypeOK
  <2>4. /\ saved'.kind \in {"none", "torn", "pages", "map"}
        /\ saved'.kind # "map" => saved'.records = L!NoRecords
    BY <1>1 DEF LruTyped, L!TypeOK
  <2>5. taken' \in [L!Ids -> Nat]
    <3>1. taken' = [taken EXCEPT ![l] = @ + 1]
      BY DEF L!Access, l
    <3> QED BY <1>3, <3>1 DEF LruTyped, L!TypeOK
  <2>6. risk' \cup lost' \subseteq {"unsaved", "torn", "shared", "poisoned"}
    BY DEF L!Access, LruTyped, L!TypeOK
  <2> QED BY <2>1, <2>2, <2>3, <2>4, <2>5, <2>6 DEF L!TypeOK, L!NoStamp, L!NoRecords, L!Ids
<1>18. LruTyped'
  BY <1>1, <1>15, <1>17 DEF LruTyped, L!Recorded
<1>19. LruKept'
  BY <1>1, <1>14, <1>15 DEF LruKept, Judged, L!NoStamp, L!Classify
<1> QED BY <1>14, <1>18, <1>19

LEMMA LruUpdate == ASSUME LInv, L!UpdateTier PROVE LInv'
<1> USE DEF LInv
<1>1. PICK l \in DOMAIN records, tier \in L!Tiers :
        /\ records' = [records EXCEPT ![l].tier = tier]
        /\ UNCHANGED <<stamp, clock, saving, poisoned, checked, saved, begun, taken, risk, lost>>
  BY DEF L!UpdateTier
<1> DEFINE r == [records[l] EXCEPT !.tier = tier]
<1>2. records[l] \in L!Record /\ l \in L!Ids
  BY DEF LruTyped, L!TypeOK, L!Recorded
<1>3. r \in L!Record
  BY <1>2 DEF L!Record
<1>4. /\ r.count = records[l].count /\ r.session = records[l].session
      /\ r.last = records[l].last
  BY <1>2 DEF L!Record
<1>5. r.freq = records[l].freq /\ r.heat = records[l].heat
  BY <1>2 DEF L!Record
<1>6. records' = [records EXCEPT ![l] = r]
  BY <1>1
<1> HIDE DEF r
<1>7. /\ DOMAIN records' = DOMAIN records
      /\ \A k \in DOMAIN records : records'[k] = IF k = l THEN r ELSE records[k]
  BY <1>6
<1>8. L!Recorded(records)' /\ Judged(records)'
  <2>1. L!Recorded(records')
    BY <1>3, <1>7 DEF L!Recorded, LruTyped, L!TypeOK
  <2>2. Judged(records')
    BY <1>5, <1>7 DEF Judged, LruKept
  <2> QED BY <2>1, <2>2 DEF L!Recorded, L!Record, L!Ids, Judged, L!Classify
<1>9. L!CountsAddUp'
  BY <1>1, <1>4, <1>7 DEF L!CountsAddUp
<1>10. LruTyped'
  BY <1>1, <1>8 DEF LruTyped, L!TypeOK, L!Recorded, L!NoStamp, L!NoRecords, L!Record, L!Ids
<1>11. LruKept'
  BY <1>1, <1>7, <1>8 DEF LruKept, Judged, L!NoStamp, L!Classify
<1> QED BY <1>9, <1>10, <1>11

(* Only the file changes.                                                  *)
LEMMA LruFiled ==
  ASSUME LInv, UNCHANGED <<records, clock, stamp, poisoned, checked, begun>>,
         saving' \in BOOLEAN, UNCHANGED <<taken, lost>>,
         risk' \in {risk, {}, {"torn"}, risk \cup {"shared"}},
         saved' \in {saved, L!File("torn", L!NoRecords), L!File("pages", L!NoRecords),
                     L!File("map", records)}
  PROVE LInv'
<1> USE DEF LInv
<1>1. /\ L!Recorded(saved'.records) /\ Judged(saved'.records)
      /\ saved'.kind \in {"none", "torn", "pages", "map"}
      /\ saved'.kind # "map" => saved'.records = L!NoRecords
  BY NoneKept DEF LruTyped, LruKept, L!TypeOK, L!File
<1>2. LruTyped'
  BY <1>1 DEF LruTyped, L!TypeOK, L!Recorded, L!NoStamp, L!NoRecords, L!Record, L!Ids
<1>3. LruKept'
  BY <1>1 DEF LruKept, Judged, L!NoStamp, L!Classify
<1>4. L!CountsAddUp'
  BY DEF L!CountsAddUp
<1> QED BY <1>2, <1>3, <1>4

LEMMA LruRestart == ASSUME LInv, L!Restart PROVE LInv'
<1> USE DEF LInv
<1>1. /\ records' = L!Loaded(saved) /\ begun' = records'
      /\ clock' = 0 /\ stamp' = [t \in LruThreads |-> L!NoStamp]
      /\ saving' = FALSE /\ poisoned' = FALSE /\ UNCHANGED <<checked, saved>>
  BY DEF L!Restart
<1>2. /\ L!Recorded(records') /\ Judged(records')
      /\ \A l \in DOMAIN records' : records'[l].session = 0 /\ records'[l].count \in Nat
  BY <1>1, LoadedKept DEF LruTyped, LruKept
<1>3. LruTyped'
  <2>1. taken' = taken /\ risk' = {} /\ lost' = lost \cup risk
    BY DEF L!Restart
  <2> QED BY <1>1, <1>2, <2>1 DEF LruTyped, L!TypeOK, L!Recorded, L!NoStamp, L!NoRecords, L!Record, L!Ids
<1>4. LruKept'
  BY <1>1, <1>2 DEF LruKept, Judged, L!NoStamp, L!Classify
<1>5. L!CountsAddUp'
  BY <1>1, <1>2 DEF L!CountsAddUp
<1> QED BY <1>3, <1>4, <1>5

LEMMA LruPanics == LInv /\ L!PlacePanics => LInv'
BY DEF L!PlacePanics, LInv, LruTyped, LruKept, L!TypeOK, L!Recorded, L!NoStamp, L!NoRecords,
       L!Record, L!Ids, Judged, L!Classify, L!CountsAddUp

LEMMA LruStutters == LInv /\ UNCHANGED lruVars => LInv'
BY DEF lruVars, LInv, LruTyped, LruKept, L!TypeOK, L!Recorded, L!NoStamp, L!NoRecords,
       L!Record, L!Ids, Judged, L!Classify, L!CountsAddUp

LEMMA LruNext == LInv /\ L!Next => LInv'
<1> SUFFICES ASSUME LInv, L!Next PROVE LInv'
  OBVIOUS
<1>1. CASE L!Tick
  BY <1>1, LruTick
<1>2. CASE L!UpdateTier
  BY <1>2, LruUpdate
<1>3. CASE L!SaveBegin
  BY <1>3, LruFiled DEF L!SaveBegin
<1>4. CASE L!SaveEnd
  BY <1>4, LruFiled DEF L!SaveEnd
<1>5. CASE L!PagesSave
  <2>1. saving' \in BOOLEAN
    BY <1>5 DEF L!PagesSave, LInv, LruTyped, L!TypeOK
  <2> QED BY <1>5, <2>1, LruFiled DEF L!PagesSave
<1>6. CASE L!Restart
  BY <1>6, LruRestart
<1>7. CASE \E t \in LruThreads : L!Stamp(t)
  BY <1>7, LruStamp
<1>8. CASE \E t \in LruThreads : L!Access(t)
  BY <1>8, LruAccess
<1>9. CASE L!PlacePanics
  BY <1>9, LruPanics
<1> QED BY <1>1, <1>2, <1>3, <1>4, <1>5, <1>6, <1>7, <1>8, <1>9 DEF L!Next

LEMMA RememberedInit == L!Init => Remembered
<1> SUFFICES ASSUME L!Init, NEW l \in L!Ids
             PROVE L!Count(records, l) = taken[l] /\ L!Count(saved.records, l) = taken[l]
  BY DEF Remembered
<1>1. records = L!Loaded(saved) /\ taken = [k \in L!Ids |-> L!Count(saved.records, k)]
  BY DEF L!Init
<1>2. \/ saved = L!File("none", L!NoRecords)
      \/ saved = L!File("map", PastSession)
  BY DEF L!Init
<1>3. L!Recorded(saved.records)
  BY <1>2, LruNumbers, NoneKept DEF L!File
<1>4. L!Count(records, l) = L!Count(saved.records, l)
  BY <1>1, <1>3, LoadedCounts
<1> QED BY <1>1, <1>4

(* An access that is recorded counts one for its layer.                    *)
LEMMA AccessCounted ==
  ASSUME LInv, NEW t \in LruThreads, L!Access(t), ~ poisoned, NEW k \in L!Ids
  PROVE /\ stamp[t].layer \in L!Ids
        /\ L!Count(records', k) = L!Count(records, k) + (IF k = stamp[t].layer THEN 1 ELSE 0)
<1> DEFINE l == stamp[t].layer
           now == stamp[t].now
           seen == L!Seen(l, now)
           r == L!Counted(l, now)
           f == L!Ema(r.freq, now, r.last)
           judged == [r EXCEPT !.freq = f, !.last = now, !.heat = L!Classify(f)]
<1>1. /\ stamp[t] # L!NoStamp
      /\ records' = L!Set(l, r) \/ records' = L!Set(l, judged)
  BY DEF L!Access
<1>2. stamp[t] \in [layer : L!Ids, now : {0} \cup Moments]
  BY <1>1 DEF LInv, LruTyped, L!TypeOK
<1>3. l \in L!Ids
  BY <1>2
<1>4. \A i \in DOMAIN records : records[i] \in L!Record
  BY DEF LInv, LruTyped, L!TypeOK, L!Recorded
<1>5. /\ DOMAIN seen = {"count", "session", "freq", "last", "tier", "heat"}
      /\ seen.count = L!Count(records, l)
  BY <1>4 DEF L!Seen, L!Count, L!Record
<1>6. r = [seen EXCEPT !.count = seen.count + 1, !.session = seen.session + 1]
  BY DEF L!Counted
<1> HIDE DEF seen, l, now
<1>7. r.count = seen.count + 1 /\ DOMAIN r = DOMAIN seen
  BY <1>5, <1>6
<1> HIDE DEF r, f
<1>8. judged.count = r.count
  BY <1>5, <1>7
<1> HIDE DEF judged
<1>9. PICK x : records' = L!Set(l, x) /\ x.count = L!Count(records, l) + 1
  BY <1>1, <1>5, <1>7, <1>8
<1>10. /\ DOMAIN records' = DOMAIN records \cup {l}
       /\ \A i \in DOMAIN records' : records'[i] = IF i = l THEN x ELSE records[i]
  BY <1>9 DEF L!Set
<1>11. L!Count(records, k) \in Nat
  BY <1>4 DEF L!Count, L!Record
<1>12. L!Count(records', k) = L!Count(records, k) + (IF k = l THEN 1 ELSE 0)
  BY <1>9, <1>10, <1>11 DEF L!Count
<1> QED BY <1>3, <1>12 DEF l

LEMMA RememberedNext == LInv /\ Remembered /\ [L!Next]_lruVars => Remembered'
<1> SUFFICES ASSUME LInv, Remembered, [L!Next]_lruVars, lost' = {}, NEW l \in L!Ids
             PROVE /\ L!Count(records', l) = taken'[l]
                   /\ risk' = {} => L!Count(saved'.records, l) = taken'[l]
  BY DEF Remembered, L!Count, L!Ids
<1>1. CASE L!Tick \/ L!PlacePanics \/ UNCHANGED lruVars \/ \E t \in LruThreads : L!Stamp(t)
  <2>1. UNCHANGED <<records, saved, taken, risk, lost>>
    BY <1>1 DEF L!Tick, L!PlacePanics, lruVars, L!Stamp
  <2>2. /\ L!Count(records, l) = taken[l]
        /\ risk = {} => L!Count(saved.records, l) = taken[l]
    BY <2>1 DEF Remembered
  <2> HIDE DEF Remembered
  <2> QED BY <2>1, <2>2
<1>2. CASE L!UpdateTier
  <2>1. PICK k \in DOMAIN records, tier \in L!Tiers : records' = [records EXCEPT ![k].tier = tier]
    BY <1>2 DEF L!UpdateTier
  <2>2. \A i \in DOMAIN records : records[i] \in L!Record
    BY DEF LInv, LruTyped, L!TypeOK, L!Recorded
  <2>3. \A i \in DOMAIN records : records'[i].count = records[i].count
    BY <2>1, <2>2 DEF L!Record
  <2>4. DOMAIN records' = DOMAIN records
    BY <2>1
  <2>5. L!Count(records', l) = L!Count(records, l)
    BY <2>3, <2>4 DEF L!Count
  <2>6. UNCHANGED <<saved, taken, risk, lost>>
    BY <1>2 DEF L!UpdateTier
  <2>7. /\ L!Count(records, l) = taken[l]
        /\ risk = {} => L!Count(saved.records, l) = taken[l]
    BY <2>6 DEF Remembered
  <2> QED BY <2>5, <2>6, <2>7
<1>3. CASE L!SaveBegin \/ L!SaveEnd \/ L!PagesSave
  <2>1. records' = records /\ lost' = lost /\ taken' = taken
    BY <1>3 DEF L!SaveBegin, L!SaveEnd, L!PagesSave
  <2>2. risk' = {} => saved'.records = records \/ (saved' = saved /\ risk = {})
    BY <1>3 DEF L!SaveBegin, L!SaveEnd, L!PagesSave, L!File
  <2>3. /\ L!Count(records, l) = taken[l]
        /\ risk = {} => L!Count(saved.records, l) = taken[l]
    BY <2>1 DEF Remembered
  <2> QED BY <2>1, <2>2, <2>3
<1>4. CASE L!Restart
  <2>1. /\ records' = L!Loaded(saved) /\ saved' = saved /\ taken' = taken
        /\ lost = {} /\ risk = {}
    BY <1>4 DEF L!Restart
  <2>2. L!Count(records', l) = L!Count(saved.records, l)
    <3>1. L!Recorded(saved.records)
      BY DEF LInv, LruTyped
    <3> QED BY <2>1, <3>1, LoadedCounts
  <2>3. L!Count(saved.records, l) = taken[l]
    BY <2>1 DEF Remembered
  <2> QED BY <2>1, <2>2, <2>3
<1>5. CASE \E t \in LruThreads : L!Access(t)
  <2>1. PICK t \in LruThreads : L!Access(t)
    BY <1>5
  <2>2. ~ poisoned /\ lost = {} /\ risk' # {} /\ taken' = [taken EXCEPT ![stamp[t].layer] = @ + 1]
    BY <2>1 DEF L!Access
  <2>3. /\ stamp[t].layer \in L!Ids
        /\ L!Count(records', l) = L!Count(records, l) + (IF l = stamp[t].layer THEN 1 ELSE 0)
    BY <2>1, <2>2, AccessCounted
  <2>4. taken \in [L!Ids -> Nat] /\ L!Count(records, l) = taken[l]
    <3>1. taken \in [L!Ids -> Nat]
      BY DEF LInv, LruTyped, L!TypeOK
    <3>2. L!Count(records, l) = taken[l]
      BY <2>2 DEF Remembered
    <3> QED BY <3>1, <3>2
  <2> QED BY <2>2, <2>3, <2>4
<1> QED BY <1>1, <1>2, <1>3, <1>4, <1>5 DEF L!Next
-----------------------------------------------------------------------------
(* What the answers of the map rest on: the order of the layers, and that  *)
(* "hot" is a frequency.                                                   *)
LEMMA LruLists ==
  /\ \A S : L!SetToSeqs(S) = SetToSeqs(S) /\ L!Cardinality(S) = Cardinality(S)
  /\ \A s : L!ToSet(s) = ToSet(s)
BY DEF L!SetToSeqs, SetToSeqs, L!Cardinality, Cardinality, L!ToSet, ToSet

LEMMA FreqNat == ASSUME LInv PROVE \A l : L!Freq(l) \in Nat
<1>1. \A l \in DOMAIN records : records[l].freq \in Nat
  BY DEF LInv, LruTyped, L!TypeOK, L!Recorded, L!Record
<1> QED BY <1>1 DEF L!Freq

LEMMA IdsCounted ==
  /\ IsFiniteSet(L!Ids) /\ Cardinality(L!Ids) = NumLayers
  /\ NumLayers \in Nat /\ \A l \in L!Ids : l \in Nat
<1>1. IsFiniteSet(L!Ids) /\ Cardinality(L!Ids) = NumLayers
  BY LruNumbers, FS_Interval DEF L!Ids
<1> QED BY <1>1, LruNumbers

LEMMA OrderListed ==
  ASSUME LInv
  PROVE /\ L!Order \in SetToSeqs(L!Ids)
        /\ \A i, j \in DOMAIN L!Order : i < j => L!Before(L!Order[i], L!Order[j])
<1> DEFINE R == {y \in L!Ids \X L!Ids : L!Before(y[1], y[2])}
<1>1. \A a, b \in L!Ids : <<a, b>> \in R <=> L!Before(a, b)
  OBVIOUS
<1> HIDE DEF R
<1>2. \A a, b \in L!Ids : a # b => L!Before(a, b) \/ L!Before(b, a)
  BY FreqNat, IdsCounted DEF L!Before
<1>3. \A a, b, c \in L!Ids : L!Before(a, b) /\ L!Before(b, c) => L!Before(a, c)
  BY FreqNat, IdsCounted DEF L!Before
<1>4. Orders(R, L!Ids)
  BY <1>1, <1>2, <1>3 DEF Orders
<1>5. PICK s \in SetToSeqs(L!Ids) : \A i, j \in DOMAIN s : i < j => <<s[i], s[j]>> \in R
  BY <1>4, IdsCounted, Sorted
<1>6. \A i, j \in DOMAIN s : i < j => L!Before(s[i], s[j])
  <2>1. DOMAIN s = 1..Cardinality(L!Ids) /\ \A i \in 1..Cardinality(L!Ids) : s[i] \in L!Ids
    BY IdsCounted, Listed
  <2> QED BY <1>1, <1>5, <2>1
<1>7. \E q \in L!SetToSeqs(L!Ids) : \A i, j \in DOMAIN q : i < j => L!Before(q[i], q[j])
  BY <1>5, <1>6, LruLists
<1>8. /\ L!Order \in L!SetToSeqs(L!Ids)
      /\ \A i, j \in DOMAIN L!Order : i < j => L!Before(L!Order[i], L!Order[j])
  BY <1>7 DEF L!Order
<1> QED BY <1>8, LruLists

(* How many positions lie between two bounds.                              *)
LEMMA Between ==
  ASSUME NEW n \in Nat, NEW from \in Nat, NEW to \in Nat
  PROVE LET K == {k \in 1..n : from < k /\ k <= to}
            top == IF to < n THEN to ELSE n
        IN  Cardinality(K) = IF from < top THEN top - from ELSE 0
<1> DEFINE K == {k \in 1..n : from < k /\ k <= to}
           top == IF to < n THEN to ELSE n
<1>1. top \in Nat /\ K = (from + 1)..top
  OBVIOUS
<1> HIDE DEF top, K
<1>2. Cardinality((from + 1)..top) = IF from + 1 > top THEN 0 ELSE top - (from + 1) + 1
  BY <1>1, FS_Interval
<1>3. Cardinality(K) = IF from < top THEN top - from ELSE 0
  BY <1>1, <1>2
<1> QED BY <1>3 DEF K, top

LEMMA Places == LInv => L!PlacementSound
<1> SUFFICES ASSUME LInv PROVE L!PlacementSound
  OBVIOUS
<1> DEFINE s == L!Order
           n == NumLayers
<1>1. n \in Nat
  BY IdsCounted
<1>2. /\ DOMAIN s = 1..n /\ \A i \in 1..n : s[i] \in L!Ids
      /\ \A i, j \in 1..n : s[i] = s[j] => i = j
      /\ \A x \in L!Ids : \E i \in 1..n : s[i] = x
  BY OrderListed, IdsCounted, Listed
<1>3. \A i, j \in 1..n : i < j => L!Before(s[i], s[j])
  BY <1>2, OrderListed
<1>4. \A a, b \in L!Ids : ~ poisoned /\ L!Before(a, b) => L!Freq(a) >= L!Freq(b)
  BY FreqNat DEF L!Before
<1> HIDE DEF s
<1> SUFFICES ASSUME NEW vram \in L!Slots, NEW ram \in L!Slots
             PROVE LET hot == L!Cut(s, 0, vram)
                       warm == L!Cut(s, vram, vram + ram)
                       cold == L!Cut(s, L!ColdFrom(vram, ram), n)
                   IN  /\ hot \cup warm \cup cold = L!Ids
                       /\ L!Fits(vram, ram) \/ poisoned =>
                            L!Cardinality(hot) + L!Cardinality(warm) + L!Cardinality(cold) = n
                       /\ warm # {} => L!Cardinality(hot) = vram
                       /\ L!Ids # hot \cup warm => L!Cardinality(hot) = vram /\ L!Cardinality(warm) = ram
                       /\ ~ poisoned =>
                            /\ \A a \in hot, b \in L!Ids \ hot : L!Freq(a) >= L!Freq(b)
                            /\ \A a \in warm, b \in L!Ids \ (hot \cup warm) : L!Freq(a) >= L!Freq(b)
  BY DEF L!PlacementSound, s
<1> DEFINE both == vram + ram
           rest == L!ColdFrom(vram, ram)
           Part1 == {k \in 1..n : 0 < k /\ k <= vram}
           Part2 == {k \in 1..n : vram < k /\ k <= both}
           Part3 == {k \in 1..n : rest < k /\ k <= n}
           hot == L!Cut(s, 0, vram)
           warm == L!Cut(s, vram, both)
           cold == L!Cut(s, rest, n)
<1>5. /\ vram \in Nat /\ ram \in Nat /\ both \in Nat /\ rest \in Nat
      /\ L!Fits(vram, ram) => rest = both
      /\ ~ L!Fits(vram, ram) => both > n /\ (poisoned => rest >= n)
  <2>1. Width \in Nat \ {0} /\ n < Width /\ vram \in Nat /\ ram \in Nat
    BY <1>1, LruNumbers DEF L!Slots
  <2>2. (vram + ram) % Width \in Nat
    BY <2>1
  <2> QED BY <1>1, <2>1, <2>2 DEF L!ColdFrom, L!Fits
<1>6. hot = {s[i] : i \in Part1} /\ warm = {s[i] : i \in Part2} /\ cold = {s[i] : i \in Part3}
  BY <1>2 DEF L!Cut
<1>7. /\ Cardinality(Part1) = IF 0 < (IF vram < n THEN vram ELSE n)
                              THEN (IF vram < n THEN vram ELSE n) - 0 ELSE 0
      /\ Cardinality(Part2) = IF vram < (IF both < n THEN both ELSE n)
                              THEN (IF both < n THEN both ELSE n) - vram ELSE 0
      /\ Cardinality(Part3) = IF rest < (IF n < n THEN n ELSE n)
                              THEN (IF n < n THEN n ELSE n) - rest ELSE 0
  <2> HIDE DEF both, rest
  <2>1. Cardinality(Part1) = IF 0 < (IF vram < n THEN vram ELSE n)
                             THEN (IF vram < n THEN vram ELSE n) - 0 ELSE 0
    BY <1>1, <1>5, Between
  <2>2. Cardinality(Part2) = IF vram < (IF both < n THEN both ELSE n)
                             THEN (IF both < n THEN both ELSE n) - vram ELSE 0
    BY <1>1, <1>5, Between
  <2>3. Cardinality(Part3) = IF rest < (IF n < n THEN n ELSE n)
                             THEN (IF n < n THEN n ELSE n) - rest ELSE 0
    <3>1. rest \in Nat
      BY <1>5
    <3> QED BY <1>1, <3>1, Between
  <2> QED BY <2>1, <2>2, <2>3
<1>8. /\ L!Cardinality(hot) = Cardinality(Part1) /\ L!Cardinality(warm) = Cardinality(Part2)
      /\ L!Cardinality(cold) = Cardinality(Part3)
  <2>1. Part1 \in SUBSET (1..n) /\ Part2 \in SUBSET (1..n) /\ Part3 \in SUBSET (1..n)
    OBVIOUS
  <2>0. \A i, j \in 1..n : s[i] = s[j] => i = j
    BY <1>2
  <2> HIDE DEF n, Part1, Part2, Part3, hot, warm, cold
  <2>2. Cardinality(hot) = Cardinality(Part1)
    <3>1. (\A i \in Part1 : s[i] \in hot) /\ \A x \in hot : \E i \in Part1 : x = s[i]
      BY <1>6
    <3>2. Numbered(hot, Part1, n, s)
      BY <1>1, <2>0, <2>1, <3>1 DEF Numbered
    <3> QED BY <3>2, Taken
  <2>3. Cardinality(warm) = Cardinality(Part2)
    <3>1. (\A i \in Part2 : s[i] \in warm) /\ \A x \in warm : \E i \in Part2 : x = s[i]
      BY <1>6
    <3>2. Numbered(warm, Part2, n, s)
      BY <1>1, <2>0, <2>1, <3>1 DEF Numbered
    <3> QED BY <3>2, Taken
  <2>4. Cardinality(cold) = Cardinality(Part3)
    <3>1. (\A i \in Part3 : s[i] \in cold) /\ \A x \in cold : \E i \in Part3 : x = s[i]
      BY <1>6
    <3>2. Numbered(cold, Part3, n, s)
      BY <1>1, <2>0, <2>1, <3>1 DEF Numbered
    <3> QED BY <3>2, Taken
  <2> QED BY <2>2, <2>3, <2>4, LruLists
<1> HIDE DEF hot, warm, cold, rest
<1>9. hot \cup warm \cup cold = L!Ids
  <2>1. \A x \in L!Ids : x \in hot \cup warm \cup cold
    <3> TAKE x \in L!Ids
    <3>1. PICK i \in 1..n : s[i] = x
      BY <1>2
    <3>2. i \in Part1 \/ i \in Part2 \/ i \in Part3
      BY <1>1, <1>5 DEF L!Fits
    <3> QED BY <1>6, <3>1, <3>2
  <2>2. \A x \in hot \cup warm \cup cold : x \in L!Ids
    BY <1>2, <1>6
  <2> QED BY <2>1, <2>2
<1> DEFINE h == L!Cardinality(hot)
           w == L!Cardinality(warm)
           c == L!Cardinality(cold)
<1>10. /\ h = IF vram < n THEN vram ELSE n
       /\ w = IF vram < (IF both < n THEN both ELSE n) THEN (IF both < n THEN both ELSE n) - vram ELSE 0
       /\ c = IF rest < n THEN n - rest ELSE 0
  BY <1>1, <1>5, <1>7, <1>8
<1> HIDE DEF h, w, c
<1>11. L!Fits(vram, ram) \/ poisoned => h + w + c = n
  BY <1>1, <1>5, <1>10
<1>12. warm # {} => h = vram
  BY <1>1, <1>5, <1>6, <1>10
<1>13. L!Ids # hot \cup warm => h = vram /\ w = ram
  <2> SUFFICES ASSUME L!Ids # hot \cup warm PROVE both < n
    BY <1>1, <1>5, <1>10
  <2>1. hot \cup warm \subseteq L!Ids
    BY <1>9
  <2>2. PICK x \in L!Ids : x \notin hot \cup warm
    BY <2>1
  <2>3. PICK i \in 1..n : s[i] = x
    BY <1>2
  <2>4. i \notin Part1 /\ i \notin Part2
    BY <1>6, <2>2, <2>3
  <2> QED BY <1>1, <1>5, <2>4
<1>14. ASSUME ~ poisoned, NEW i \in 1..n, NEW j \in 1..n, i < j
       PROVE L!Freq(s[i]) >= L!Freq(s[j])
  BY <1>2, <1>3, <1>4, <1>14
<1>15. ASSUME ~ poisoned, NEW a \in hot, NEW b \in L!Ids \ hot PROVE L!Freq(a) >= L!Freq(b)
  <2>1. PICK i \in Part1 : s[i] = a
    BY <1>6
  <2>2. PICK j \in 1..n : s[j] = b
    BY <1>2
  <2>3. j \notin Part1
    BY <1>6, <2>2
  <2>4. i \in 1..n /\ j \in 1..n /\ i < j
    BY <1>1, <1>5, <2>3
  <2> QED BY <1>14, <1>15, <2>1, <2>2, <2>4
<1>16. ASSUME ~ poisoned, NEW a \in warm, NEW b \in L!Ids \ (hot \cup warm)
       PROVE L!Freq(a) >= L!Freq(b)
  <2>1. PICK i \in Part2 : s[i] = a
    BY <1>6
  <2>2. PICK j \in 1..n : s[j] = b
    BY <1>2
  <2>3. j \notin Part1 /\ j \notin Part2
    BY <1>6, <2>2
  <2>4. i \in 1..n /\ j \in 1..n /\ i < j
    BY <1>1, <1>5, <2>3
  <2> QED BY <1>14, <1>16, <2>1, <2>2, <2>4
<1> QED BY <1>9, <1>11, <1>12, <1>13, <1>15, <1>16 DEF h, w, c, hot, warm, cold, rest

LEMMA Names == LInv => L!ReportNamesTheHot
<1> SUFFICES ASSUME LInv, ~ poisoned
             PROVE L!HotLayers(L!Cardinality(L!WithHeat("hot"))) = {L!WithHeat("hot")}
  BY DEF L!ReportNamesTheHot
<1> DEFINE D == DOMAIN records
           Hot == L!WithHeat("hot")
           k == Cardinality(Hot)
           n == Cardinality(D)
<1>1. IsFiniteSet(D)
  BY IdsCounted, FS_Subset DEF LInv, LruTyped, L!TypeOK, L!Recorded
<1>2. Hot \subseteq D /\ IsFiniteSet(Hot)
  <2>1. Hot \subseteq D
    BY DEF L!WithHeat
  <2> QED BY <1>1, <2>1, FS_Subset
<1>3. k \in Nat /\ n \in Nat /\ k <= n
  BY <1>1, <1>2, FS_Subset, FS_CardinalityType
<1>4. \A l \in D : l \in Hot <=> L!Freq(l) >= 1000
  <2> TAKE l \in D
  <2>1. records[l].heat = L!Classify(records[l].freq) /\ records[l].freq \in Nat
    BY DEF LInv, LruKept, Judged, LruTyped, L!TypeOK, L!Recorded, L!Record
  <2>2. L!Classify(records[l].freq) = "hot" <=> records[l].freq >= 1000
    BY DEF L!Classify
  <2> QED BY <2>1, <2>2 DEF L!WithHeat, L!Freq
<1> HIDE DEF Hot
<1> DEFINE top(s) == L!ToSet(SubSeq(s, 1, IF k < Len(s) THEN k ELSE Len(s)))
<1>5. ASSUME NEW s \in L!HottestFirst PROVE top(s) = Hot
  <2>1. s \in SetToSeqs(D) /\ \A i, j \in DOMAIN s : i < j => L!Freq(s[i]) >= L!Freq(s[j])
    BY LruLists DEF L!HottestFirst
  <2>2. /\ DOMAIN s = 1..n /\ Len(s) = n /\ s \in Seq(D)
        /\ \A i \in 1..n : s[i] \in D
        /\ \A i, j \in 1..n : s[i] = s[j] => i = j
        /\ \A x \in D : \E i \in 1..n : s[i] = x
    <3> HIDE DEF D
    <3> QED BY <1>1, <2>1, Listed
  <2> DEFINE I == {i \in 1..n : s[i] \in Hot}
  <2>3. \A i \in I : \A j \in 1..n : j < i => j \in I
    <3> SUFFICES ASSUME NEW i \in I, NEW j \in 1..n, j < i PROVE s[j] \in Hot
      OBVIOUS
    <3>1. L!Freq(s[j]) >= L!Freq(s[i]) /\ L!Freq(s[i]) >= 1000
      BY <1>4, <2>1, <2>2
    <3>2. L!Freq(s[j]) \in Nat /\ L!Freq(s[i]) \in Nat
      BY FreqNat
    <3>3. L!Freq(s[j]) >= 1000
      BY <3>1, <3>2
    <3> QED BY <1>4, <2>2, <3>3
  <2>4. Hot = {s[i] : i \in I}
    BY <1>2, <2>2
  <2>5. I \in SUBSET (1..n)
    OBVIOUS
  <2> HIDE DEF I, n
  <2>6. I = 1..Cardinality(I)
    BY <1>3, <2>3, <2>5, Beginning
  <2>7. Cardinality(I) = k
    <3>1. \A i, j \in 1..n : s[i] = s[j] => i = j
      BY <2>2
    <3>2. (\A i \in I : s[i] \in Hot) /\ \A x \in Hot : \E i \in I : x = s[i]
      BY <2>4
    <3>3. Numbered(Hot, I, n, s)
      BY <1>3, <2>5, <3>1, <3>2 DEF Numbered
    <3> QED BY <3>3, Taken
  <2>8. (IF k < Len(s) THEN k ELSE Len(s)) = k
    BY <1>3, <2>2
  <2> HIDE DEF k
  <2> DEFINE r == SubSeq(s, 1, k)
  <2>9. DOMAIN r = 1..k /\ \A i \in 1..k : r[i] = s[i]
    BY <1>3, <2>2
  <2> HIDE DEF r
  <2>10. L!ToSet(r) = {s[i] : i \in 1..k}
    BY <2>9 DEF L!ToSet
  <2> QED BY <2>4, <2>6, <2>7, <2>8, <2>10 DEF r
<1>6. L!HottestFirst # {}
  <2> DEFINE R == {y \in D \X D : \/ L!Freq(y[1]) > L!Freq(y[2])
                                  \/ L!Freq(y[1]) = L!Freq(y[2]) /\ y[1] < y[2]}
  <2>1. \A a, b \in D : <<a, b>> \in R <=> \/ L!Freq(a) > L!Freq(b)
                                           \/ L!Freq(a) = L!Freq(b) /\ a < b
    OBVIOUS
  <2> HIDE DEF R
  <2>2. \A a \in D : a \in Nat
    BY IdsCounted DEF LInv, LruTyped, L!TypeOK, L!Recorded
  <2>3. \A a, b \in D : a # b => <<a, b>> \in R \/ <<b, a>> \in R
    BY <2>1, <2>2, FreqNat
  <2>4. \A a, b, c \in D : <<a, b>> \in R /\ <<b, c>> \in R => <<a, c>> \in R
    BY <2>1, <2>2, FreqNat
  <2>5. Orders(R, D)
    BY <2>3, <2>4 DEF Orders
  <2> HIDE DEF D
  <2>6. PICK s \in SetToSeqs(D) : \A i, j \in DOMAIN s : i < j => <<s[i], s[j]>> \in R
    BY <1>1, <2>5, Sorted
  <2>7. DOMAIN s = 1..n /\ \A i \in 1..n : s[i] \in D
    BY <1>1, Listed
  <2>8. \A i, j \in DOMAIN s : i < j => L!Freq(s[i]) >= L!Freq(s[j])
    <3> SUFFICES ASSUME NEW i \in 1..n, NEW j \in 1..n, i < j PROVE L!Freq(s[i]) >= L!Freq(s[j])
      BY <2>7
    <3>1. s[i] \in D /\ s[j] \in D /\ <<s[i], s[j]>> \in R
      BY <2>6, <2>7
    <3> QED BY <2>1, <3>1, FreqNat
  <2>9. s \in L!HottestFirst
    BY <2>6, <2>8, LruLists DEF L!HottestFirst, D
  <2> QED BY <2>9
<1>7. L!HotLayers(k) = {top(s) : s \in L!HottestFirst}
  BY DEF L!HotLayers
<1>8. {top(s) : s \in L!HottestFirst} = {Hot}
  <2> HIDE DEF top
  <2> QED BY <1>5, <1>6
<1>9. L!Cardinality(Hot) = k
  BY LruLists
<1> QED BY <1>7, <1>8, <1>9 DEF Hot
-----------------------------------------------------------------------------
(* An access averages, and what is kept of hot is not cold.                *)
LEMMA AccessCools ==
  ASSUME LInv, NEW t \in LruThreads, L!Access(t) PROVE L!CoolsSlowly
<1> DEFINE l == stamp[t].layer
           now == stamp[t].now
           r == L!Counted(l, now)
           f == L!Ema(r.freq, now, r.last)
           new == [r EXCEPT !.freq = f, !.last = now, !.heat = L!Classify(f)]
<1>1. /\ L!Recorded(records) /\ Judged(records)
      /\ l \in L!Ids /\ now \in Nat
  <2>1. stamp[t] # L!NoStamp /\ L!Recorded(records) /\ Judged(records)
    BY DEF LInv, LruTyped, LruKept, L!TypeOK, L!Access
  <2>2. stamp[t] \in [layer : L!Ids, now : {0} \cup Moments]
    BY <2>1 DEF LInv, LruTyped, L!TypeOK
  <2>3. {0} \cup Moments \subseteq Nat
    BY LruNumbers
  <2> QED BY <2>1, <2>2, <2>3
<1>2. records' \in {records, L!Set(l, r), L!Set(l, new)}
  BY DEF L!Access
<1> SUFFICES ASSUME NEW k \in DOMAIN records
             PROVE /\ k \in DOMAIN records'
                   /\ 10 * records'[k].freq + 10 > 9 * records[k].freq
                   /\ records[k].heat = "hot" => records'[k].heat # "cold"
  BY DEF L!CoolsSlowly
<1> DEFINE was == records[k].freq
<1>3. was \in Nat /\ records[k] \in L!Record /\ records[k].heat = L!Classify(was)
  BY <1>1 DEF L!Recorded, L!Record, Judged
<1>4. ASSUME records'[k].freq = was, records'[k].heat = records[k].heat, k \in DOMAIN records'
      PROVE /\ k \in DOMAIN records'
            /\ 10 * records'[k].freq + 10 > 9 * records[k].freq
            /\ records[k].heat = "hot" => records'[k].heat # "cold"
  BY <1>3, <1>4
<1>5. CASE k # l \/ records' = records
  <2>1. k \in DOMAIN records' /\ records'[k] = records[k]
    BY <1>2, <1>5 DEF L!Set
  <2> QED BY <1>4, <2>1
<1>6. CASE k = l /\ records' = L!Set(l, r)
  <2>1. r = [records[k] EXCEPT !.count = @ + 1, !.session = @ + 1]
    BY <1>6 DEF L!Counted, L!Seen
  <2>2. r.freq = was /\ r.heat = records[k].heat
    BY <1>3, <2>1 DEF L!Record
  <2>3. k \in DOMAIN records' /\ records'[k] = r
    BY <1>6 DEF L!Set
  <2> QED BY <1>4, <2>2, <2>3
<1>7. CASE k = l /\ records' = L!Set(l, new)
  <2>1. r = [records[k] EXCEPT !.count = @ + 1, !.session = @ + 1]
    BY <1>7 DEF L!Counted, L!Seen
  <2>2. r.freq = was /\ r.last \in Nat
    BY <1>3, <2>1 DEF L!Record
  <2>3. k \in DOMAIN records' /\ records'[k] = new
    BY <1>7 DEF L!Set
  <2>4. f \in Nat /\ 10 * f + 10 > 9 * was
    BY <1>1, <1>3, <2>2, Averaged
  <2>5. new.freq = f /\ new.heat = L!Classify(f)
    <3>1. DOMAIN r = {"count", "session", "freq", "last", "tier", "heat"}
      BY <1>3, <2>1 DEF L!Record
    <3> QED BY <3>1
  <2> HIDE DEF new, f
  <2>6. records[k].heat = "hot" => L!Classify(f) # "cold"
    BY <1>3, <2>4 DEF L!Classify
  <2> QED BY <2>3, <2>4, <2>5, <2>6
<1> QED BY <1>2, <1>5, <1>6, <1>7

LEMMA LruCools == LInv /\ restarts \in Nat /\ [L!Next]_lruVars => L!CoolsSlowly
<1> SUFFICES ASSUME LInv, restarts \in Nat, [L!Next]_lruVars PROVE L!CoolsSlowly
  OBVIOUS
<1>1. \A l \in DOMAIN records : records[l].freq \in Nat /\ records[l] \in L!Record
  BY DEF LInv, LruTyped, L!TypeOK, L!Recorded, L!Record
<1>2. ASSUME DOMAIN records \subseteq DOMAIN records',
             \A l \in DOMAIN records : /\ records'[l].freq = records[l].freq
                                       /\ records'[l].heat = records[l].heat
      PROVE L!CoolsSlowly
  BY <1>1, <1>2 DEF L!CoolsSlowly
<1>3. CASE UNCHANGED records
  BY <1>2, <1>3
<1>4. CASE L!UpdateTier
  <2>1. PICK l \in DOMAIN records, tier \in L!Tiers : records' = [records EXCEPT ![l].tier = tier]
    BY <1>4 DEF L!UpdateTier
  <2>2. DOMAIN records' = DOMAIN records
    BY <2>1
  <2>3. \A k \in DOMAIN records : records'[k].freq = records[k].freq /\ records'[k].heat = records[k].heat
    BY <1>1, <2>1 DEF L!Record
  <2> QED BY <1>2, <2>2, <2>3
<1>5. CASE \E t \in LruThreads : L!Access(t)
  BY <1>5, AccessCools
<1>6. CASE L!Restart
  <2>1. restarts' # restarts
    BY <1>6 DEF L!Restart
  <2> QED BY <2>1 DEF L!CoolsSlowly
<1> QED BY <1>3, <1>4, <1>5, <1>6
        DEF L!Next, L!Tick, L!SaveBegin, L!SaveEnd, L!PagesSave, L!Stamp, L!PlacePanics, lruVars
-----------------------------------------------------------------------------
(* The parts together.                                                     *)
MInv == OInv /\ VInv /\ LInv /\ Remembered /\ restarts \in Nat

LEMMA MemoryInit == MCInit => MInv
BY OffloadInit, VramInit, LruInit, RememberedInit DEF MCInit, MInv, L!Init

LEMMA RestartsCounted == restarts \in Nat /\ L!Next => restarts' \in Nat
<1>1. L!Restart => restarts' = restarts + 1
  BY DEF L!Restart
<1>2. (\E t \in LruThreads : L!Access(t)) => restarts' = restarts
  BY DEF L!Access
<1>3. L!Next /\ ~ L!Restart /\ ~ (\E t \in LruThreads : L!Access(t)) => restarts' = restarts
  BY DEF L!Next, L!Tick, L!UpdateTier, L!SaveBegin, L!SaveEnd, L!PagesSave, L!Stamp, L!PlacePanics
<1> QED BY <1>1, <1>2, <1>3 DEF L!Next

LEMMA MemoryNext == MInv /\ [MCNext]_<<part, vars, vramVars, lruVars>> => MInv'
<1> SUFFICES ASSUME MInv, [MCNext]_<<part, vars, vramVars, lruVars>> PROVE MInv'
  OBVIOUS
<1>1. OInv /\ VInv /\ LInv /\ Remembered /\ restarts \in Nat
  BY DEF MInv
<1>2. OInv'
  BY <1>1, OffloadNext, OffloadStutters DEF MCNext
<1>3. VInv'
  BY <1>1, VramNext, VramStutters DEF MCNext
<1>4. LInv'
  BY <1>1, LruNext, LruStutters DEF MCNext
<1>5. restarts' \in Nat
  BY <1>1, RestartsCounted DEF MCNext, lruVars
<1>6. Remembered'
  BY <1>1, RememberedNext DEF MCNext
<1> QED BY <1>2, <1>3, <1>4, <1>5, <1>6 DEF MInv

LEMMA MemoryInvariant == MCSpec => []MInv
BY MemoryInit, MemoryNext, PTL DEF MCSpec

(* Each part keeps its types (cpu_offload.rs, vram_manager.rs and          *)
(* lru_map.rs), with any number of threads, loaders and layers.            *)
THEOREM MemoryTyped == MCSpec => []MemoryTypeOK
<1>1. MInv => MemoryTypeOK
  BY VramHolds DEF MInv, OInv, OffloadTyped, LInv, LruTyped, MemoryTypeOK
<1> QED BY <1>1, MemoryInvariant, PTL

(* The ledger of VRAM counts what is resident and what register_layer has  *)
(* replaced without crediting it, and no more is resident than fits and    *)
(* than the other loaders were after (vram_manager.rs).                    *)
THEOREM VramLedger == MCSpec => []VramAccounted
<1>1. MInv => VramAccounted
  BY VramHolds DEF MInv, VramAccounted
<1> QED BY <1>1, MemoryInvariant, PTL

(* used_bytes of the offload manager is the bytes of its layers and never  *)
(* over its limit, between any two steps of its threads (cpu_offload.rs).  *)
THEOREM OffloadLedger == MCSpec => []LedgerExact
<1>1. MInv => LedgerExact
  BY DEF MInv, OInv
<1> QED BY <1>1, MemoryInvariant, PTL

(* The threads of the offload manager are all blocked only by the inverted *)
(* order of the mutexes in store_layer and remove_layer.                   *)
THEOREM OnlyInversionBlocks == MCSpec => []StuckOnlyWhenInverted
<1>1. MInv => StuckOnlyWhenInverted
  BY Blocked DEF MInv, OInv, OffloadTyped, StuckOnlyWhenInverted
<1> QED BY <1>1, MemoryInvariant, PTL

(* Counts add up across panics, saves and restarts, over all sessions but  *)
(* for the four losses that HistorySurvives names; a placement puts no     *)
(* layer below one that is used less, where the sum of the slots fits it   *)
(* lists every layer once, a report names the hot layers, and no access    *)
(* forgets a layer or cools it from hot to cold (lru_map.rs).              *)
THEOREM HistoryIsKept == MCSpec => HistoryKept
<1>1. MInv => (part = "lru" => L!Learned)
  <2>1. Remembered => L!HistorySurvives
    BY DEF Remembered, L!HistorySurvives
  <2>2. MInv => LInv /\ Remembered /\ L!CountsAddUp
    BY DEF MInv, LInv
  <2> QED BY <2>1, <2>2, Places, Names DEF L!Learned
<1>2. MInv /\ [MCNext]_<<part, vars, vramVars, lruVars>> => [L!CoolsSlowly]_L!vars
  <2> SUFFICES ASSUME MInv, [MCNext]_<<part, vars, vramVars, lruVars>>
               PROVE  L!CoolsSlowly
    OBVIOUS
  <2>1. [L!Next]_lruVars
    BY DEF MCNext
  <2> QED BY <2>1, LruCools DEF MInv
<1> QED BY <1>1, <1>2, MemoryInvariant, PTL DEF MCSpec, HistoryKept
=============================================================================
