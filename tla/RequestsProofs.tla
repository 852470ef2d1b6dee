---------------------------- MODULE RequestsProofs ----------------------------
(***************************************************************************)
(* The parts of MCRequests, for all values of their constants: the         *)
(* scheduler and what it implements; the client of the core, what a request*)
(* reads that has its connection to itself, and why one may not have it to *)
(* itself; the plugins and the byte counter.                               *)
(***************************************************************************)
EXTENDS MCRequests, DataProofs

-----------------------------------------------------------------------------
(* ChronosScheduler, by itself: its invariant, step by step.               *)
LEMMA InitIInv == Init => IInv
  <1> SUFFICES ASSUME Init PROVE IInv
    OBVIOUS
  <1> USE SchedulerAssumption DEF Init
  <1>1. TypeOK
    BY DEF TypeOK, Statuses
  <1>2. OnePlace /\ SlotsCoherent
    BY DEF OnePlace, SlotsCoherent, Queued, Running
  <1>3. FirstComeFirstServed
    BY DEF FirstComeFirstServed, Started
  <1> QED BY <1>1, <1>2, <1>3 DEF IInv

(* A new request joins the end of the queue and of the arrivals.           *)
LEMMA EnqueueStep ==
  ASSUME IInv, NEW r \in Requests, EnqueueRequest(r)
  PROVE  IInv'
  <1> USE DEF EnqueueRequest
  <1>0. TypeOK BY DEF IInv
  <1>1. TypeOK'
    BY <1>0 DEF TypeOK
  <1>2. /\ Len(queue') = Len(queue) + 1
        /\ \A i \in 1..Len(queue) : queue'[i] = queue[i]
        /\ queue'[Len(queue) + 1] = r
        /\ Len(queue) \in Nat
        /\ DOMAIN queue' = 1..(Len(queue) + 1)
        /\ DOMAIN queue = 1..Len(queue)
    BY <1>0 DEF TypeOK
  <1>3. /\ Len(arrivals') = Len(arrivals) + 1
        /\ \A i \in 1..Len(arrivals) : arrivals'[i] = arrivals[i]
        /\ arrivals'[Len(arrivals) + 1] = r
        /\ Len(arrivals) \in Nat
    BY <1>0 DEF TypeOK
  <1>4. Queued' = Queued \cup {r} /\ Running' = Running
    BY <1>2 DEF Queued, Running
  <1>5. OnePlace'
    <2>1. \A i \in DOMAIN queue : queue[i] # r
      BY DEF Queued
    <2>2. \A i, j \in DOMAIN queue' : queue'[i] = queue'[j] => i = j
      BY <1>2, <2>1 DEF IInv, OnePlace
    <2> QED BY <2>2, <1>4 DEF IInv, OnePlace
  <1>6. SlotsCoherent'
    BY DEF IInv, SlotsCoherent
  <1>7. FirstComeFirstServed'
    <2>1. Started' = Started /\ Started \in Nat
      BY <1>2, <1>3 DEF Started, IInv, FirstComeFirstServed
    <2>2. \A i \in 1..Len(queue)' : queue'[i] = arrivals'[Started' + i]
      <3> SUFFICES ASSUME NEW i \in 1..Len(queue)'
                   PROVE  queue'[i] = arrivals'[Started + i]
        BY <2>1
      <3>1. CASE i = Len(queue) + 1
        <4>1. Started + i = Len(arrivals) + 1
          BY <3>1, <1>2, <1>3 DEF Started
        <4>2. arrivals'[Started + i] = r
          BY <4>1, <1>3
        <4>3. queue'[i] = r
          BY <3>1, <1>2
        <4> QED BY <4>2, <4>3
      <3>2. CASE i \in 1..Len(queue)
        <4>1. queue[i] = arrivals[Started + i] /\ Started + i \in 1..Len(arrivals)
          BY <3>2, <1>2, <1>3, <2>1 DEF IInv, FirstComeFirstServed, Started
        <4> QED BY <3>2, <4>1, <1>2, <1>3
      <3>3. i = Len(queue) + 1 \/ i \in 1..Len(queue)
        BY <1>2
      <3> QED BY <3>1, <3>2, <3>3
    <2>3. \A i \in 1..Started' : arrivals'[i] \in Running' \cup finished'
      <3>1. 1..Started \subseteq 1..Len(arrivals)
        BY <1>2, <1>3 DEF Started
      <3> QED BY <2>1, <1>3, <1>4, <3>1 DEF IInv, FirstComeFirstServed
    <2>4. Len(queue)' <= Len(arrivals)'
      BY <1>2, <1>3 DEF IInv, FirstComeFirstServed
    <2> QED BY <2>2, <2>3, <2>4 DEF FirstComeFirstServed
  <1> QED BY <1>1, <1>5, <1>6, <1>7 DEF IInv

(* What tick does, in terms of the requests: the first k of the queue      *)
(* become running, each in one slot, and the rest moves up.                *)
LEMMA TickEffect ==
  ASSUME IInv, NEW k \in 1..Len(queue), NEW chosen \in SUBSET Idle,
         NEW rank \in [chosen -> 1..k], Assign(k, chosen, rank),
         queue' = SubSeq(queue, k + 1, Len(queue)),
         UNCHANGED <<activeModel, finished, arrivals>>
  PROVE  /\ TypeOK'
         /\ Len(queue') = Len(queue) - k
         /\ \A i \in 1..Len(queue') : queue'[i] = queue[k + i]
         /\ Running' = Running \cup {queue[i] : i \in 1..k}
  <1>0. TypeOK BY DEF IInv
  <1>1. /\ Len(queue) \in Nat /\ k \in Nat /\ queue' \in Seq(Requests)
        /\ Len(queue') = Len(queue) - k
        /\ \A i \in 1..Len(queue') : queue'[i] = queue[k + i]
    BY <1>0 DEF TypeOK
  <1>2. chosen \subseteq Slots /\ \A s \in chosen : active[s] = NoRequest
    BY DEF Idle, IInv, SlotsCoherent
  <1>3. \A s \in chosen : queue[rank[s]] \in Requests
    BY <1>0, <1>1 DEF TypeOK
  <1>4. TypeOK'
    BY <1>0, <1>1, <1>3 DEF TypeOK, Assign, Statuses
  <1>5. \A s \in Slots : active'[s] = IF s \in chosen THEN queue[rank[s]] ELSE active[s]
    BY <1>0 DEF TypeOK, Assign
  <1>6. Running' = Running \cup {queue[i] : i \in 1..k}
    <2>1. ASSUME NEW x \in Running' PROVE x \in Running \cup {queue[i] : i \in 1..k}
      BY <2>1, <1>5, <1>2 DEF Running
    <2>2. ASSUME NEW x \in Running PROVE x \in Running'
      BY <2>2, <1>5, <1>2 DEF Running
    <2>3. ASSUME NEW i \in 1..k PROVE queue[i] \in Running'
      <3>1. PICK s \in chosen : rank[s] = i
        BY DEF Assign
      <3>2. active'[s] = queue[i] /\ s \in Slots
        BY <3>1, <1>5, <1>2
      <3>3. queue[i] # NoRequest
        BY <3>1, <1>3, SchedulerAssumption
      <3> QED BY <3>2, <3>3 DEF Running
    <2> QED BY <2>1, <2>2, <2>3
  <1> QED BY <1>1, <1>4, <1>6

(* No two of the chosen slots get the same request.                        *)
LEMMA RankIsOneToOne ==
  ASSUME IInv, NEW k \in 1..Len(queue), NEW chosen \in SUBSET Idle,
         NEW rank \in [chosen -> 1..k], Assign(k, chosen, rank),
         NEW s \in chosen, NEW t \in chosen, queue[rank[s]] = queue[rank[t]]
  PROVE  s = t
  <1>1. rank[s] \in DOMAIN queue /\ rank[t] \in DOMAIN queue
    BY DEF TypeOK, IInv
  <1>2. rank[s] = rank[t]
    BY <1>1 DEF IInv, OnePlace
  <1>3. s \in Int /\ t \in Int /\ rank[s] \in Int
    BY SchedulerAssumption DEF Slots, Idle
  <1> QED BY <1>2, <1>3 DEF Assign

LEMMA TickStep ==
  ASSUME IInv, Tick
  PROVE  IInv'
  <1>1. PICK k \in 1..Len(queue), chosen \in SUBSET Idle :
          /\ k = Len(queue) \/ chosen = Idle
          /\ \A s \in chosen, t \in Idle \ chosen : s < t
          /\ \E rank \in [chosen -> 1..k] : Assign(k, chosen, rank)
          /\ queue' = SubSeq(queue, k + 1, Len(queue))
          /\ UNCHANGED <<activeModel, finished, arrivals>>
    BY DEF Tick
  <1>2. PICK rank \in [chosen -> 1..k] : Assign(k, chosen, rank)
    BY <1>1
  <1>0. TypeOK BY DEF IInv
  <1>3. /\ TypeOK'
        /\ Len(queue') = Len(queue) - k
        /\ \A i \in 1..Len(queue') : queue'[i] = queue[k + i]
        /\ Running' = Running \cup {queue[i] : i \in 1..k}
        /\ \A s, t \in chosen : queue[rank[s]] = queue[rank[t]] => s = t
    <2>1. queue' = SubSeq(queue, k + 1, Len(queue))
          /\ UNCHANGED <<activeModel, finished, arrivals>>
      BY <1>1
    <2>2. TypeOK'
      BY <2>1, <1>2, TickEffect
    <2>3. Len(queue') = Len(queue) - k
      BY <2>1, <1>2, TickEffect
    <2>4. \A i \in 1..Len(queue') : queue'[i] = queue[k + i]
      BY <2>1, <1>2, TickEffect
    <2>5. Running' = Running \cup {queue[i] : i \in 1..k}
      BY <2>1, <1>2, TickEffect
    <2>6. ASSUME NEW s \in chosen, NEW t \in chosen,
                 queue[rank[s]] = queue[rank[t]]
          PROVE  s = t
      BY <2>6, <1>2, RankIsOneToOne
    <2> QED BY <2>2, <2>3, <2>4, <2>5, <2>6
  <1>4. /\ Len(queue) \in Nat /\ k \in 1..Len(queue)
        /\ DOMAIN queue = 1..Len(queue)
        /\ DOMAIN queue' = 1..Len(queue')
    BY <1>0, <1>3 DEF TypeOK
  <1>5. /\ \A s \in Slots : active'[s] = IF s \in chosen THEN queue[rank[s]] ELSE active[s]
        /\ \A s \in Slots : status'[s] = IF s \in chosen THEN "Prefill" ELSE status[s]
    BY <1>0, <1>2 DEF TypeOK, Assign
  <1>6. \A s \in chosen : /\ s \in Slots /\ active[s] = NoRequest
                          /\ rank[s] \in DOMAIN queue
                          /\ queue[rank[s]] # NoRequest
    <2>1. ASSUME NEW s \in chosen
          PROVE  /\ s \in Slots /\ active[s] = NoRequest /\ rank[s] \in DOMAIN queue
      BY <1>4 DEF Idle, IInv, SlotsCoherent
    <2>2. \A i \in DOMAIN queue : queue[i] # NoRequest
      BY <1>0, <1>4, SchedulerAssumption DEF TypeOK
    <2> QED BY <2>1, <2>2
  <1>7. OnePlace'
    <2>1. \A i, j \in DOMAIN queue' : queue'[i] = queue'[j] => i = j
      <3> SUFFICES ASSUME NEW i \in DOMAIN queue', NEW j \in DOMAIN queue',
                          queue'[i] = queue'[j]
                   PROVE  i = j
        OBVIOUS
      <3>1. k + i \in DOMAIN queue /\ k + j \in DOMAIN queue
        BY <1>3, <1>4
      <3>2. queue[k + i] = queue[k + j]
        BY <1>3, <1>4
      <3>3. k + i = k + j
        BY <3>1, <3>2 DEF IInv, OnePlace
      <3> QED BY <3>3, <1>4
    <2>2. \A s, t \in Slots : active'[s] = active'[t] /\ s # t => active'[s] = NoRequest
      <3> SUFFICES ASSUME NEW s \in Slots, NEW t \in Slots, s # t,
                          active'[s] = active'[t], active'[s] # NoRequest
                   PROVE  FALSE
        OBVIOUS
      <3>1. CASE s \in chosen /\ t \in chosen
        BY <3>1, <1>3, <1>5
      <3>2. CASE s \notin chosen /\ t \notin chosen
        BY <3>2, <1>5 DEF IInv, OnePlace
      <3>3. ASSUME NEW u \in chosen, NEW v \in Slots \ chosen,
                   queue[rank[u]] = active[v]
            PROVE  FALSE
        <4>1. queue[rank[u]] \in Queued /\ active[v] \in Running
          BY <3>3, <1>6 DEF Queued, Running
        <4> QED BY <4>1, <3>3 DEF IInv, OnePlace
      <3> QED BY <3>1, <3>2, <3>3, <1>5
    <2>3. ASSUME NEW x \in Queued'
          PROVE  x \notin Running' \cup finished'
      <3>1. PICK i \in DOMAIN queue' : x = queue'[i]
        BY <2>3 DEF Queued
      <3>2. x = queue[k + i] /\ k + i \in DOMAIN queue
        BY <3>1, <1>3, <1>4
      <3>3. x \in Queued
        BY <3>2 DEF Queued
      <3>4. \A j \in 1..k : queue[j] # x
        <4> SUFFICES ASSUME NEW j \in 1..k, queue[j] = queue[k + i]
                     PROVE  FALSE
          BY <3>2
        <4>1. j \in DOMAIN queue
          BY <1>4
        <4>2. j = k + i
          BY <4>1, <3>2 DEF IInv, OnePlace
        <4> QED BY <4>2, <3>1, <1>4
      <3> QED BY <3>3, <3>4, <1>1, <1>3 DEF IInv, OnePlace
    <2>4. Running' \cap finished' = {}
      <3>1. {queue[i] : i \in 1..k} \subseteq Queued
        BY <1>4 DEF Queued
      <3> QED BY <3>1, <1>1, <1>3 DEF IInv, OnePlace
    <2> QED BY <2>1, <2>2, <2>3, <2>4 DEF OnePlace
  <1>8. SlotsCoherent'
    BY <1>5, <1>6 DEF IInv, SlotsCoherent
  <1>9. FirstComeFirstServed'
    <2>1. Started \in Nat /\ Started' = Started + k /\ Len(arrivals) \in Nat
      <3>1. Len(arrivals) \in Nat /\ arrivals' = arrivals
        BY <1>0, <1>1 DEF TypeOK
      <3>2. Len(queue) <= Len(arrivals) /\ Len(queue') = Len(queue) - k
        BY <1>3 DEF IInv, FirstComeFirstServed
      <3> QED BY <3>1, <3>2, <1>4 DEF Started
    <2>2. \A i \in 1..Len(queue') : queue'[i] = arrivals[Started' + i]
      <3> SUFFICES ASSUME NEW i \in 1..Len(queue')
                   PROVE  queue[k + i] = arrivals[Started' + i]
        BY <1>3
      <3>1. k + i \in 1..Len(queue) /\ Started' + i = Started + (k + i)
        BY <1>3, <1>4, <2>1
      <3> QED BY <3>1 DEF IInv, FirstComeFirstServed
    <2>3. ASSUME NEW i \in 1..Started'
          PROVE  arrivals[i] \in Running' \cup finished'
      <3>1. CASE i \in 1..Started
        BY <3>1, <1>1, <1>3 DEF IInv, FirstComeFirstServed
      <3>2. CASE i \notin 1..Started
        <4>1. i - Started \in 1..k /\ i = Started + (i - Started)
          BY <3>2, <2>1, <2>3
        <4>2. queue[i - Started] = arrivals[Started + (i - Started)]
          BY <4>1, <1>4 DEF IInv, FirstComeFirstServed
        <4>3. queue[i - Started] \in Running'
          BY <4>1, <1>3
        <4> QED BY <4>1, <4>2, <4>3
      <3> QED BY <3>1, <3>2
    <2>4. Len(queue') <= Len(arrivals)
      BY <1>3, <1>4, <2>1 DEF IInv, FirstComeFirstServed
    <2>5. arrivals' = arrivals
      BY <1>1
    <2> QED BY <2>2, <2>3, <2>4, <2>5 DEF FirstComeFirstServed
  <1> QED BY <1>3, <1>7, <1>8, <1>9 DEF IInv

(* The request of a slot that is given back is finished and runs nowhere.  *)
LEMMA FinishEffect ==
  ASSUME IInv, NEW s \in Slots, FinishSlot(s)
  PROVE  /\ active[s] \in Running
         /\ Running' = Running \ {active[s]}
         /\ \A t \in Slots : active'[t] = IF t = s THEN NoRequest ELSE active[t]
         /\ \A t \in Slots : status'[t] = IF t = s THEN "Idle" ELSE status[t]
  <1>0. TypeOK BY DEF IInv
  <1>1. /\ \A t \in Slots : active'[t] = IF t = s THEN NoRequest ELSE active[t]
        /\ \A t \in Slots : status'[t] = IF t = s THEN "Idle" ELSE status[t]
    BY <1>0 DEF TypeOK, FinishSlot
  <1>2. active[s] \in Running
    BY DEF IInv, SlotsCoherent, FinishSlot, Running
  <1>3. \A t \in Slots : t # s => active[t] # active[s]
    BY <1>2 DEF IInv, OnePlace, Running
  <1>4. ASSUME NEW x \in Running' PROVE x \in Running \ {active[s]}
    BY <1>4, <1>1, <1>3 DEF Running
  <1>5. ASSUME NEW x \in Running \ {active[s]} PROVE x \in Running'
    BY <1>5, <1>1 DEF Running
  <1> QED BY <1>1, <1>2, <1>4, <1>5

LEMMA FinishStep ==
  ASSUME IInv, NEW s \in Slots, FinishSlot(s)
  PROVE  IInv'
  <1>0. TypeOK BY DEF IInv
  <1>1. /\ active[s] \in Running
        /\ Running' = Running \ {active[s]}
        /\ \A t \in Slots : active'[t] = IF t = s THEN NoRequest ELSE active[t]
        /\ \A t \in Slots : status'[t] = IF t = s THEN "Idle" ELSE status[t]
    BY FinishEffect
  <1>2. active[s] \in Requests
    BY <1>0, <1>1 DEF TypeOK, Running
  <1>3. TypeOK'
    BY <1>0, <1>2 DEF TypeOK, FinishSlot, Statuses
  <1>4. Queued' = Queued /\ queue' = queue /\ arrivals' = arrivals
        /\ finished' = finished \cup {active[s]}
    BY DEF Queued, FinishSlot
  <1>5. OnePlace'
    BY <1>1, <1>4 DEF IInv, OnePlace
  <1>6. SlotsCoherent'
    BY <1>1 DEF IInv, SlotsCoherent
  <1>7. FirstComeFirstServed'
    BY <1>1, <1>4 DEF IInv, FirstComeFirstServed, Started
  <1> QED BY <1>3, <1>5, <1>6, <1>7 DEF IInv

(* Only the requests and where they are matter to the invariants.          *)
LEMMA PlacesUnchanged ==
  ASSUME IInv, UNCHANGED <<active, queue, finished, arrivals>>
  PROVE  /\ OnePlace' /\ FirstComeFirstServed'
         /\ UNCHANGED <<queue, Running, finished>>
  <1>1. Queued' = Queued /\ Running' = Running
    BY DEF Queued, Running
  <1>2. OnePlace'
    BY <1>1 DEF IInv, OnePlace
  <1>3. FirstComeFirstServed'
    <2>1. Started' = Started
      BY DEF Started
    <2> QED BY <1>1, <2>1 DEF IInv, FirstComeFirstServed
  <1> QED BY <1>1, <1>2, <1>3

LEMMA NextIInv == IInv /\ [Next]_vars => IInv'
  <1> SUFFICES ASSUME IInv, [Next]_vars PROVE IInv'
    OBVIOUS
  <1>0. TypeOK BY DEF IInv
  <1>1. ASSUME NEW r \in Requests, EnqueueRequest(r) PROVE IInv'
    BY <1>1, EnqueueStep
  <1>2. CASE Tick
    BY <1>2, TickStep
  <1>3. ASSUME NEW s \in Slots, FinishPrefill(s) PROVE IInv'
    <2>1. TypeOK'
      BY <1>0, <1>3 DEF TypeOK, FinishPrefill, Statuses
    <2>2. OnePlace' /\ FirstComeFirstServed'
      BY <1>3, PlacesUnchanged DEF FinishPrefill
    <2>3. SlotsCoherent'
      BY <1>0, <1>3 DEF FinishPrefill, IInv, SlotsCoherent, TypeOK
    <2> QED BY <2>1, <2>2, <2>3 DEF IInv
  <1>4. ASSUME NEW s \in Slots, Cancel(s) \/ Complete(s) PROVE IInv'
    BY <1>4, FinishStep DEF Cancel, Complete
  <1>5. ASSUME NEW m \in Models, SwitchModelContext(m) PROVE IInv'
    <2>1. TypeOK' /\ SlotsCoherent'
      BY <1>0, <1>5 DEF SwitchModelContext, IInv, TypeOK, SlotsCoherent
    <2> QED BY <2>1, <1>5, PlacesUnchanged DEF SwitchModelContext, IInv
  <1>6. CASE UNCHANGED vars
    <2>1. TypeOK' /\ SlotsCoherent'
      BY <1>0, <1>6 DEF vars, IInv, TypeOK, SlotsCoherent
    <2> QED BY <2>1, <1>6, PlacesUnchanged DEF vars, IInv
  <1> QED BY <1>1, <1>2, <1>3, <1>4, <1>5, <1>6 DEF Next

(* The scheduler's invariant: types, places of requests, slots, order.     *)
THEOREM InductiveInvariant == Spec => []IInv
  BY InitIInv, NextIInv, PTL DEF Spec

(* A request enqueued once is never in two places, however ticks, executors*)
(* and clients interleave.                                                 *)
THEOREM RequestsAreConserved == Spec => []OnePlace
  <1>1. IInv => OnePlace
    BY DEF IInv
  <1> QED BY <1>1, InductiveInvariant, PTL

(* Requests leave the queue in the order in which they entered it, and each*)
(* that left it has a slot or had one.                                     *)
THEOREM ArrivalOrder == Spec => []FirstComeFirstServed
  <1>1. IInv => FirstComeFirstServed
    BY DEF IInv
  <1> QED BY <1>1, InductiveInvariant, PTL

-----------------------------------------------------------------------------
(* The refinement: a step of the scheduler is one of JobService or a       *)
(* stutter.                                                                *)
LEMMA StepRefines == IInv /\ [Next]_vars => [Jobs!JobNext]_(Jobs!jobVars)
  <1> SUFFICES ASSUME IInv, [Next]_vars PROVE [Jobs!JobNext]_(Jobs!jobVars)
    OBVIOUS
  <1>0. TypeOK BY DEF IInv
  <1> USE DEF Jobs!jobVars, Jobs!JobNext
  <1>1. ASSUME NEW r \in Requests, EnqueueRequest(r) PROVE Jobs!Arrive(r)
    BY <1>1 DEF EnqueueRequest, Jobs!Arrive, Jobs!InLine, Queued, Running
  <1>2. CASE Tick
    <2>1. PICK k \in 1..Len(queue), chosen \in SUBSET Idle :
            /\ \E rank \in [chosen -> 1..k] : Assign(k, chosen, rank)
            /\ queue' = SubSeq(queue, k + 1, Len(queue))
            /\ UNCHANGED <<activeModel, finished, arrivals>>
      BY <1>2 DEF Tick
    <2>2. PICK rank \in [chosen -> 1..k] : Assign(k, chosen, rank)
      BY <2>1
    <2>3. Running' = Running \cup {queue[i] : i \in 1..k}
      BY <2>1, <2>2, TickEffect
    <2>4. Jobs!Start(k)
      BY <2>1, <2>3 DEF Jobs!Start
    <2> QED BY <2>4
  <1>3. ASSUME NEW s \in Slots, FinishPrefill(s) PROVE UNCHANGED <<queue, Running, finished>>
    BY <1>3, PlacesUnchanged DEF FinishPrefill
  <1>4. ASSUME NEW s \in Slots, Cancel(s) \/ Complete(s)
        PROVE  active[s] \in Requests /\ Jobs!Finish(active[s])
    <2>1. FinishSlot(s)
      BY <1>4 DEF Cancel, Complete
    <2>2. active[s] \in Running /\ Running' = Running \ {active[s]}
      BY <2>1, FinishEffect
    <2>3. active[s] \in Requests
      BY <1>0, <2>2 DEF TypeOK, Running
    <2> QED BY <2>1, <2>2, <2>3 DEF Jobs!Finish, FinishSlot
  <1>5. ASSUME NEW m \in Models, SwitchModelContext(m)
        PROVE  UNCHANGED <<queue, Running, finished>>
    BY <1>5, PlacesUnchanged DEF SwitchModelContext
  <1>6. CASE UNCHANGED vars
    BY <1>6, PlacesUnchanged DEF vars
  <1> QED BY <1>1, <1>2, <1>3, <1>4, <1>5, <1>6 DEF Next

(* The scheduler implements JobService.                                    *)
THEOREM ImplementsJobs == Spec => ImplementsJobService
  <1>1. Init => Jobs!JobInit
    BY DEF Init, Jobs!JobInit, Running
  <1> QED BY <1>1, StepRefines, InductiveInvariant, PTL
          DEF Spec, ImplementsJobService, Jobs!JobSpec
-----------------------------------------------------------------------------
(* IpcClient.                                                              *)
Conns == I!Conns
Exchanging == {"read", "wait"}
(* Where a request reads, a connection with nothing to read, the n-th frame*)
(* of an answer.                                                           *)
At(t) == IF phase[t] = "wait" THEN on[t] ELSE cur
Silent(c) == wire[c] = <<>> /\ inbox[c] = <<>>
Nth(t, n) == [task |-> t, n |-> n]

(* What is asked on a connection is not past the end of its answer.        *)
Within(asked) == \A i \in DOMAIN asked : asked[i].n <= I!Answer(asked[i].task)
Typed ==
  /\ phase \in [Tasks -> I!Phases]
  /\ outcome \in [Tasks -> {"none", "ok", "mock", "error", "gone"}]
  /\ got \in [Tasks -> Seq(I!Frames)] /\ on \in [Tasks -> 0..MaxConns]
  /\ lock \in Tasks \cup {NoTask} /\ connected \in BOOLEAN /\ up \in BOOLEAN
  /\ inbox \in [Conns -> Seq(I!Frames)] /\ wire \in [Conns -> Seq(I!Frames)]
  /\ \A c \in Conns : Within(inbox[c])
  /\ faulted \subseteq Tasks /\ mixed \subseteq Tasks

(* Connections are numbered as they are opened; cur is the last of them.   *)
Reach ==
  /\ cur \in 0..MaxConns /\ alive \subseteq 1..cur
  /\ connected => cur # 0
  /\ \A c \in Conns : c > cur => Silent(c)
(* A request has a connection from when it may write until it ends.        *)
Stages ==
  \A t \in Tasks :
    /\ phase[t] \in {"lock", "write", "read", "wait"} => cur # 0
    /\ phase[t] = "wait" => on[t] \in 1..cur
    /\ phase[t] \in {"new", "connect", "lock", "write"} => got[t] = <<>>
    /\ outcome[t] # "none" => phase[t] = "done"
Placed == Reach /\ Stages

(* The permits of the semaphore are with the requests in flight.           *)
Holders == I!InFlight \ Metrics
Counted == IsFiniteSet(Holders) /\ permits = Permits - Cardinality(Holders) /\ permits \in Nat

(* Who is not mixed is the only one that reads.                            *)
Alone == \A t \in Tasks \ mixed : phase[t] \in Exchanging =>
           \A r \in Tasks \ {t} : phase[r] \notin Exchanging
(* What t has still to read is on connection c, in order, and the core is  *)
(* at work on the frame after it.                                          *)
Expects(t, c) ==
  LET n == Len(got[t]) + Len(wire[c]) IN
  /\ n <= I!Answer(t)
  /\ \A i \in 1..Len(wire[c]) : wire[c][i] = Nth(t, Len(got[t]) + i)
  /\ inbox[c] # <<>> => n < I!Answer(t) /\ inbox[c] = <<Nth(t, n + 1)>>
(* What it has read is the beginning of its answer, and the answer at its  *)
(* end; a waiter whose connection was replaced has left the new one alone. *)
Gotten(t) ==
  /\ Len(got[t]) <= I!Answer(t)
  /\ \A i \in 1..Len(got[t]) : got[t][i] = Nth(t, i)
  /\ outcome[t] = "ok" => Len(got[t]) = I!Answer(t)
Pending(t) ==
  /\ phase[t] \in Exchanging => Expects(t, At(t))
  /\ phase[t] = "wait" /\ on[t] # cur => Silent(cur)
Own == \A t \in Tasks \ mixed : Gotten(t) /\ Pending(t)
(* The connection of whoever met no fault of the core is open.             *)
Sound == \A t \in Tasks \ faulted : /\ phase[t] \in {"lock", "write", "read", "wait"} => cur \in alive
                                    /\ phase[t] = "wait" => on[t] \in alive
(* One request at a time: a connection that is free to be written to has   *)
(* nothing on its way, until the metrics are read or a stream is given up. *)
Cause == \/ \E m \in Metrics : phase[m] # "new"
         \/ \E s \in Streams : outcome[s] \in {"gone", "error"}
Served == /\ connected \/ \E t \in Tasks : phase[t] \in {"lock", "write"}
          /\ \A t \in Tasks : phase[t] \notin Exchanging
Apart == Permits = 1 /\ ~Cause => mixed = {} /\ (Served => Silent(cur))
(* The inductive invariant.                                                *)
ClientInv == Typed /\ Placed /\ Counted /\ Alone /\ Own /\ Sound /\ Apart /\ I!ErrorsAreOwn

-----------------------------------------------------------------------------
LEMMA Parameters ==
  /\ Streams \subseteq Tasks /\ Metrics \subseteq Tasks /\ Metrics \cap Streams = {}
  /\ Permits \in Nat \ {0} /\ Tokens \in Nat /\ MaxConns \in Nat /\ NoTask \notin Tasks
  BY RequestsAssumption DEF I!ClientAssumption

LEMMA AnswerLength ==
  ASSUME NEW t \in Tasks
  PROVE  /\ I!Answer(t) \in Nat /\ 1 <= I!Answer(t) /\ I!Answer(t) <= Tokens + 1
         /\ t \in Streams => I!Answer(t) = Tokens + 1
         /\ t \notin Streams => I!Answer(t) = 1
  BY Parameters DEF I!Answer

LEMMA NthFrame ==
  ASSUME NEW t \in Tasks, NEW n \in Nat, 1 <= n, n <= I!Answer(t)
  PROVE  Nth(t, n) \in I!Frames /\ Nth(t, n).n = n /\ Nth(t, n).task = t
  BY AnswerLength, Parameters DEF Nth, I!Frames

LEMMA FrameFields ==
  ASSUME NEW f \in I!Frames
  PROVE  /\ f.task \in Tasks /\ f.n \in Nat /\ 1 <= f.n /\ f.n <= Tokens + 1
         /\ f = Nth(f.task, f.n) /\ [f EXCEPT !.n = @ + 1] = Nth(f.task, f.n + 1)
  BY Parameters DEF Nth, I!Frames

LEMMA EmptyQueues == ASSUME NEW D, NEW F PROVE [x \in D |-> <<>>] \in [D -> Seq(F)]
  <1>1. <<>> \in Seq(F)
    OBVIOUS
  <1> QED BY <1>1

LEMMA EmptySequence == ASSUME NEW S, NEW s \in Seq(S), Len(s) = 0 PROVE s = <<>>
  OBVIOUS

LEMMA HeadTail ==
  ASSUME NEW S, NEW s \in Seq(S), s # <<>>
  PROVE  /\ Len(s) \in Nat /\ Len(s) >= 1 /\ Head(s) = s[1] /\ Head(s) \in S
         /\ Tail(s) \in Seq(S) /\ Len(Tail(s)) = Len(s) - 1
         /\ \A i \in 1..Len(s) - 1 : Tail(s)[i] = s[i + 1]
  OBVIOUS

USE DEF Conns, I!Conns   (* an interval *)

LEMMA Somewhere ==
  ASSUME Placed, NEW t \in Tasks
  PROVE  /\ phase[t] \in {"lock", "write", "read", "wait"} => cur \in Conns
         /\ phase[t] = "wait" => on[t] \in Conns
         /\ phase[t] \in Exchanging => At(t) \in Conns
  BY Parameters DEF Placed, Reach, Stages, At, Exchanging

LEMMA TakeEffect ==
  ASSUME NEW t \in Tasks, I!Take(t)
  PROVE  /\ \/ phase' = [phase EXCEPT ![t] = "read"] /\ outcome' = outcome /\ lock' = lock
            \/ /\ phase' = [phase EXCEPT ![t] = "done"]
               /\ outcome' = [outcome EXCEPT ![t] = "ok"]
               /\ lock' = IF lock = t THEN NoTask ELSE lock
         /\ phase[t] \in Exchanging
         /\ UNCHANGED <<on, connected, cur, inbox, alive, up, faulted, mixed>>
  <1>1. PICK c \in {At(t)} :
          /\ phase[t] \in {"read", "wait"}
          /\ \/ phase' = [phase EXCEPT ![t] = "read"] /\ UNCHANGED <<outcome, lock, permits>>
             \/ I!End(t, "ok")
          /\ UNCHANGED <<on, connected, cur, inbox, alive, up, faulted, mixed>>
    BY Zenon DEF I!Take, At
  <1>2. \/ phase' = [phase EXCEPT ![t] = "read"] /\ outcome' = outcome /\ lock' = lock
        \/ /\ phase' = [phase EXCEPT ![t] = "done"]
           /\ outcome' = [outcome EXCEPT ![t] = "ok"]
           /\ lock' = IF lock = t THEN NoTask ELSE lock
    BY <1>1, Zenon DEF I!End
  <1> QED BY <1>1, <1>2 DEF Exchanging

LEMMA TypedStep == ASSUME Typed, Placed, [I!Next]_ipcVars PROVE Typed'
  <1> USE Parameters DEF Typed, I!Phases
  <1>1. ASSUME NEW t \in Tasks, I!Begin(t) PROVE Typed'
    BY <1>1 DEF I!Begin, I!Ready, I!core
  <1>2. ASSUME NEW t \in Tasks, I!Connect(t) PROVE Typed'
    BY <1>2 DEF I!Connect, I!Ready
  <1>3. ASSUME NEW t \in Tasks, I!ConnectFails(t) PROVE Typed'
    BY <1>3 DEF I!ConnectFails, I!End, I!core
  <1>4. ASSUME NEW t \in Tasks, I!Lock(t) PROVE Typed'
    BY <1>4 DEF I!Lock, I!core
  <1>5. ASSUME NEW t \in Tasks, I!Write(t) PROVE Typed'
    <2>1. /\ phase' = [phase EXCEPT ![t] = "read"] /\ mixed' \subseteq Tasks
          /\ inbox' = [inbox EXCEPT ![cur] = Append(@, Nth(t, 1))]
          /\ UNCHANGED <<outcome, got, on, lock, connected, up, wire, faulted>>
      BY <1>5 DEF I!Write, I!Others, Nth
    <2>2. cur \in Conns
      BY <1>5, Somewhere DEF I!Write
    <2>3. Nth(t, 1) \in I!Frames /\ Nth(t, 1).n <= I!Answer(Nth(t, 1).task)
      BY AnswerLength, NthFrame
    <2>4. Append(inbox[cur], Nth(t, 1)) \in Seq(I!Frames)
      BY <2>2, <2>3
    <2>5. Within(Append(inbox[cur], Nth(t, 1)))
      BY <2>2, <2>3, SMTT(30) DEF Within
    <2> QED BY <2>1, <2>2, <2>4, <2>5
  <1>6. ASSUME NEW t \in Tasks, I!Wait(t) PROVE Typed'
    <2>1. cur \in 0..MaxConns
      BY DEF Placed, Reach
    <2> QED BY <1>6, <2>1 DEF I!Wait, I!core
  <1>7. ASSUME NEW t \in Tasks, I!Take(t) PROVE Typed'
    <2>1. PICK c \in {At(t)} :
            /\ phase[t] \in Exchanging /\ wire[c] # <<>>
            /\ got' = [got EXCEPT ![t] = Append(@, Head(wire[c]))]
            /\ wire' = [wire EXCEPT ![c] = Tail(@)]
      BY <1>7 DEF I!Take, At, Exchanging
    <2>2. c \in Conns
      BY <2>1, Somewhere
    <2>3. Head(wire[c]) \in I!Frames /\ Tail(wire[c]) \in Seq(I!Frames)
      BY <2>1, <2>2, HeadTail
    <2>4. got' \in [Tasks -> Seq(I!Frames)] /\ wire' \in [Conns -> Seq(I!Frames)]
      <3>1. Append(got[t], Head(wire[c])) \in Seq(I!Frames)
        BY <2>3
      <3> QED BY <2>1, <2>3, <2>2, <3>1
    <2>5. /\ phase' \in [Tasks -> I!Phases] /\ lock' \in Tasks \cup {NoTask}
          /\ outcome' \in [Tasks -> {"none", "ok", "mock", "error", "gone"}]
          /\ UNCHANGED <<on, connected, inbox, up, faulted, mixed>>
      <3>1. /\ \/ phase' = [phase EXCEPT ![t] = "read"] /\ outcome' = outcome /\ lock' = lock
               \/ /\ phase' = [phase EXCEPT ![t] = "done"]
                  /\ outcome' = [outcome EXCEPT ![t] = "ok"]
                  /\ lock' = IF lock = t THEN NoTask ELSE lock
            /\ UNCHANGED <<on, connected, inbox, up, faulted, mixed>>
        BY <1>7, TakeEffect, Zenon
      <3>2. phase' \in [Tasks -> I!Phases]
        BY <3>1
      <3>3. lock' \in Tasks \cup {NoTask}
        BY <3>1
      <3>4. outcome' \in [Tasks -> {"none", "ok", "mock", "error", "gone"}]
        BY <3>1
      <3> QED BY <3>1, <3>2, <3>3, <3>4
    <2> QED BY <2>4, <2>5
  <1>8. ASSUME NEW t \in Tasks, I!Broken(t) PROVE Typed'
    BY <1>8 DEF I!Broken, I!Fail, I!End, I!core
  <1>9. ASSUME NEW t \in Tasks, I!Timeout(t) PROVE Typed'
    BY <1>9 DEF I!Timeout, I!Fail, I!End, I!core
  <1>10. ASSUME NEW t \in Tasks, I!LeaveStream(t) PROVE Typed'
    BY <1>10 DEF I!LeaveStream, I!End, I!core
  <1>11. ASSUME NEW c \in Conns, I!Serve(c) PROVE Typed'
    <2> DEFINE f == Head(inbox[c])
               g == [f EXCEPT !.n = @ + 1]
    <2>1. /\ inbox[c] # <<>> /\ wire' = [wire EXCEPT ![c] = Append(@, f)]
          /\ inbox' = [inbox EXCEPT ![c] =
               IF f.n = I!Answer(f.task) THEN Tail(@) ELSE <<g>> \o Tail(@)]
          /\ UNCHANGED <<phase, outcome, got, on, lock, connected, up, faulted, mixed>>
      BY <1>11 DEF I!Serve
    <2>2. /\ f \in I!Frames /\ Tail(inbox[c]) \in Seq(I!Frames) /\ f.n <= I!Answer(f.task)
          /\ Within(Tail(inbox[c]))
      <3> DEFINE s == inbox[c]
      <3>1. s \in Seq(I!Frames) /\ s # <<>> /\ \A i \in DOMAIN s : s[i].n <= I!Answer(s[i].task)
        BY <2>1 DEF Within
      <3> HIDE DEF s
      <3>2. /\ Len(s) \in Nat /\ Len(s) >= 1 /\ Head(s) = s[1] /\ Head(s) \in I!Frames
            /\ Tail(s) \in Seq(I!Frames) /\ Len(Tail(s)) = Len(s) - 1
            /\ \A i \in 1..Len(s) - 1 : Tail(s)[i] = s[i + 1]
        BY <3>1, HeadTail
      <3>3. DOMAIN s = 1..Len(s) /\ DOMAIN Tail(s) = 1..(Len(s) - 1)
        BY <3>1, <3>2
      <3>4. ASSUME NEW i \in 1..(Len(s) - 1) PROVE Tail(s)[i].n <= I!Answer(Tail(s)[i].task)
        <4>1. Tail(s)[i] = s[i + 1] /\ i + 1 \in 1..Len(s)
          BY <3>2
        <4> QED BY <3>1, <3>3, <4>1
      <3>5. Within(Tail(s))
        BY <3>3, <3>4 DEF Within
      <3>6. s[1].n <= I!Answer(s[1].task)
        <4>1. 1 \in DOMAIN s
          BY <3>2, <3>3
        <4> QED BY <3>1, <4>1, Zenon
      <3>7. Head(s).n <= I!Answer(Head(s).task)
        BY <3>2, <3>6
      <3> QED BY <3>2, <3>5, <3>7 DEF s
    <2>3. f.n # I!Answer(f.task) => g \in I!Frames /\ g.n <= I!Answer(g.task)
      <3>1. f.task \in Tasks /\ f.n \in Nat /\ 1 <= f.n /\ g = Nth(f.task, f.n + 1)
        BY <2>2, FrameFields
      <3>2. I!Answer(f.task) \in Nat
        BY <3>1, AnswerLength
      <3>3. f.n # I!Answer(f.task) => f.n + 1 <= I!Answer(f.task) /\ f.n + 1 \in Nat /\ 1 <= f.n + 1
        <4>1. ASSUME NEW k \in Nat, NEW m \in Nat, k <= m, k # m
              PROVE  k + 1 <= m /\ k + 1 \in Nat /\ 1 <= k + 1
          BY <4>1
        <4>2. f.n <= I!Answer(f.task)
          BY <2>2
        <4> HIDE DEF f
        <4> QED BY <3>1, <3>2, <4>1, <4>2
      <3>4. ASSUME f.n # I!Answer(f.task)
            PROVE  /\ Nth(f.task, f.n + 1) \in I!Frames
                   /\ Nth(f.task, f.n + 1).n = f.n + 1
                   /\ Nth(f.task, f.n + 1).task = f.task
        BY <3>1, <3>3, <3>4, NthFrame
      <3> HIDE DEF g
      <3> QED BY <3>1, <3>3, <3>4
    <2> HIDE DEF f, g
    <2>4. wire' \in [Conns -> Seq(I!Frames)]
      BY <2>1, <2>2
    <2>5. CASE f.n = I!Answer(f.task)
      BY <2>1, <2>2, <2>4, <2>5
    <2>6. CASE f.n # I!Answer(f.task)
      <3>1. <<g>> \o Tail(inbox[c]) \in Seq(I!Frames)
        BY <2>2, <2>3, <2>6
      <3>2. Within(<<g>> \o Tail(inbox[c]))
        BY <2>2, <2>3, <2>6 DEF Within
      <3>3. inbox' = [inbox EXCEPT ![c] = <<g>> \o Tail(inbox[c])]
        BY <2>1, <2>6
      <3> QED BY <3>1, <3>2, <3>3, <2>1, <2>4
    <2> QED BY <2>5, <2>6
  <1>12. CASE I!Crash \/ I!Recover
    BY <1>12 DEF I!Crash, I!Recover, I!InFlight
  <1>13. CASE UNCHANGED ipcVars
    BY <1>13 DEF ipcVars
  <1> QED
    BY <1>1, <1>2, <1>3, <1>4, <1>5, <1>6, <1>7, <1>8, <1>9, <1>10, <1>11, <1>12, <1>13
       DEF I!Next, I!Step

LEMMA PlacedStep == ASSUME Typed, Placed, [I!Next]_ipcVars PROVE Placed'
  <1>1. /\ phase \in [Tasks -> I!Phases] /\ outcome \in [Tasks -> {"none", "ok", "mock", "error", "gone"}]
        /\ got \in [Tasks -> Seq(I!Frames)] /\ on \in [Tasks -> 0..MaxConns]
        /\ inbox \in [Conns -> Seq(I!Frames)] /\ wire \in [Conns -> Seq(I!Frames)]
    BY DEF Typed
  <1>2. Reach /\ Stages
    BY DEF Placed
  <1>3. ASSUME NEW t \in Tasks, I!Begin(t) PROVE Placed'
    BY <1>3, <1>1, <1>2 DEF Placed, Reach, Stages, Silent, I!Begin, I!Ready, I!core
  <1>4. ASSUME NEW t \in Tasks, I!Connect(t) PROVE Placed'
    <2>1. PICK c \in Conns : /\ \A d \in Conns : (d < c) = (d <= cur \/ d \in alive)
                              /\ cur' = c /\ alive' = alive \cup {c}
      BY <1>4 DEF I!Connect
    <2>2. /\ phase' = [phase EXCEPT ![t] = I!Ready(t)] /\ phase[t] = "connect"
          /\ I!Ready(t) \in {"write", "lock"} /\ UNCHANGED <<outcome, got, on, inbox, wire>>
      BY <1>4 DEF I!Connect, I!Ready
    <2>3. c = cur + 1 /\ cur \in Nat
      BY <2>1, <1>2, Parameters DEF Reach
    <2>4. cur' \in 0..MaxConns /\ alive' \subseteq 1..cur' /\ cur' # 0
      <3>1. alive \subseteq 1..cur /\ c \in Nat /\ c <= MaxConns
        BY <2>1, <1>2, Parameters DEF Reach
      <3>2. 1..cur \subseteq 1..c /\ c \in 1..c /\ c # 0
        BY <2>3, <3>1
      <3>3. c \in 0..MaxConns
        BY <3>1, Parameters
      <3>4. alive \cup {c} \subseteq 1..c
        BY <3>1, <3>2, Zenon
      <3>5. cur' = c /\ alive' = alive \cup {c}
        BY <2>1
      <3> QED BY <3>2, <3>3, <3>4, <3>5, Zenon
    <2>5. Reach'
      BY <2>1, <2>2, <2>3, <2>4, <1>2 DEF Reach, Silent
    <2>6. Stages'
      BY <2>1, <2>2, <2>3, <2>4, <1>2, <1>1 DEF Stages
    <2> QED BY <2>5, <2>6 DEF Placed
  <1>5. ASSUME NEW t \in Tasks, I!ConnectFails(t) PROVE Placed'
    BY <1>5, <1>1, <1>2 DEF Placed, Reach, Stages, Silent, I!ConnectFails, I!End, I!core
  <1>6. ASSUME NEW t \in Tasks, I!Lock(t) PROVE Placed'
    BY <1>6, <1>1, <1>2 DEF Placed, Reach, Stages, Silent, I!Lock, I!core
  <1>7. ASSUME NEW t \in Tasks, I!Write(t) PROVE Placed'
    <2>1. /\ phase' = [phase EXCEPT ![t] = "read"] /\ phase[t] = "write"
          /\ inbox' = [inbox EXCEPT ![cur] = Append(@, [task |-> t, n |-> 1])]
          /\ UNCHANGED <<outcome, got, on, connected, cur, wire, alive>>
      BY <1>7 DEF I!Write
    <2>2. cur # 0 /\ \A c \in Conns : c > cur => c # cur
      BY <2>1, <1>2 DEF Stages, Reach
    <2>3. Reach'
      BY <2>1, <2>2, <1>1, <1>2 DEF Reach, Silent
    <2>4. Stages'
      BY <2>1, <2>2, <1>1, <1>2 DEF Stages
    <2> QED BY <2>3, <2>4 DEF Placed
  <1>8. ASSUME NEW t \in Tasks, I!Wait(t) PROVE Placed'
    BY <1>8, <1>1, <1>2 DEF Placed, Reach, Stages, Silent, I!Wait, I!core
  <1>9. ASSUME NEW t \in Tasks, I!Take(t) PROVE Placed'
    <2>1. PICK c \in {At(t)} :
            /\ phase[t] \in Exchanging /\ wire[c] # <<>>
            /\ got' = [got EXCEPT ![t] = Append(@, Head(wire[c]))]
            /\ wire' = [wire EXCEPT ![c] = Tail(@)]
            /\ UNCHANGED <<on, connected, cur, inbox, alive>>
      BY <1>9 DEF I!Take, At, Exchanging
    <2>2. c \in Conns
      BY <2>1, Somewhere
    <2>3. \/ phase' = [phase EXCEPT ![t] = "read"] /\ outcome' = outcome
          \/ phase' = [phase EXCEPT ![t] = "done"] /\ outcome' = [outcome EXCEPT ![t] = "ok"]
      BY <1>9 DEF I!Take, I!End
    <2>4. Reach'
      BY <2>1, <2>2, <1>1, <1>2 DEF Reach, Silent
    <2>5. Stages'
      BY <2>1, <2>3, <1>1, <1>2 DEF Stages, Exchanging
    <2> QED BY <2>4, <2>5 DEF Placed
  <1>10. ASSUME NEW t \in Tasks, I!Broken(t) PROVE Placed'
    BY <1>10, <1>1, <1>2 DEF Placed, Reach, Stages, Silent, I!Broken, I!Fail, I!End, I!core
  <1>11. ASSUME NEW t \in Tasks, I!Timeout(t) PROVE Placed'
    BY <1>11, <1>1, <1>2 DEF Placed, Reach, Stages, Silent, I!Timeout, I!Fail, I!End, I!core
  <1>12. ASSUME NEW t \in Tasks, I!LeaveStream(t) PROVE Placed'
    BY <1>12, <1>1, <1>2 DEF Placed, Reach, Stages, Silent, I!LeaveStream, I!End, I!core
  <1>13. ASSUME NEW c \in Conns, I!Serve(c) PROVE Placed'
    BY <1>13, <1>1, <1>2 DEF Placed, Reach, Stages, Silent, I!Serve
  <1>14. CASE I!Crash \/ I!Recover
    <2>1. /\ alive' \subseteq alive
          /\ UNCHANGED <<phase, outcome, got, on, connected, cur, inbox, wire>>
      BY <1>14 DEF I!Crash, I!Recover
    <2>2. Reach'
      BY <2>1, <1>2 DEF Reach, Silent
    <2>3. Stages'
      BY <2>1, <1>2 DEF Stages
    <2> QED BY <2>2, <2>3 DEF Placed
  <1>15. CASE UNCHANGED ipcVars
    BY <1>15, <1>1, <1>2 DEF Placed, Reach, Stages, Silent, ipcVars
  <1> QED
    BY <1>3, <1>4, <1>5, <1>6, <1>7, <1>8, <1>9, <1>10, <1>11, <1>12, <1>13, <1>14, <1>15
       DEF I!Next, I!Step

LEMMA EndCounted ==
  ASSUME Typed, Counted, NEW t \in Tasks, NEW o, phase[t] \notin {"new", "done"}, I!End(t, o)
  PROVE  Counted'
  <1>1. t \in I!InFlight
    BY DEF I!InFlight
  <1>2. CASE t \in Metrics
    <2>1. Holders' = Holders
      BY <1>2 DEF Holders, I!InFlight, I!End, Typed
    <2> QED BY <1>2, <2>1 DEF Counted, I!End
  <1>3. CASE t \notin Metrics
    <2>1. t \in Holders /\ Holders' = Holders \ {t}
      BY <1>1, <1>3 DEF Holders, I!InFlight, I!End, Typed
    <2>2. IsFiniteSet(Holders) /\ Cardinality(Holders) \in Nat
      BY FS_CardinalityType DEF Counted
    <2>3. IsFiniteSet(Holders') /\ Cardinality(Holders') = Cardinality(Holders) - 1
      BY <2>1, <2>2, FS_RemoveElement
    <2> QED BY <1>3, <2>2, <2>3, Parameters DEF Counted, I!End
  <1> QED BY <1>2, <1>3

LEMMA KeepCounted ==
  ASSUME Typed, Counted, NEW t \in Tasks, NEW p \in I!Phases \ {"new", "done"},
         phase[t] \notin {"new", "done"}, phase' = [phase EXCEPT ![t] = p], permits' = permits
  PROVE  Counted'
  <1>1. Holders' = Holders
    BY DEF Holders, I!InFlight, Typed
  <1> QED BY <1>1 DEF Counted

LEMMA BeginCounted ==
  ASSUME Typed, Counted, NEW t \in Tasks, I!Begin(t)
  PROVE  Counted'
  <1>1. CASE t \in Metrics
    <2>1. Holders' = Holders
      BY <1>1 DEF Holders, I!InFlight, I!Begin, Typed
    <2> QED BY <1>1, <2>1 DEF Counted, I!Begin
  <1>2. CASE t \notin Metrics
    <2>1. t \notin Holders /\ Holders' = Holders \cup {t}
      BY <1>2 DEF Holders, I!InFlight, I!Begin, I!Ready, Typed
    <2>2. IsFiniteSet(Holders) /\ Cardinality(Holders) \in Nat
      BY FS_CardinalityType DEF Counted
    <2>3. IsFiniteSet(Holders') /\ Cardinality(Holders') = Cardinality(Holders) + 1
      BY <2>1, <2>2, FS_AddElement
    <2> QED BY <1>2, <2>2, <2>3, Parameters DEF Counted, I!Begin
  <1> QED BY <1>1, <1>2

LEMMA CountedStep == ASSUME Typed, Counted, [I!Next]_ipcVars PROVE Counted'
  <1>1. ASSUME NEW t \in Tasks, I!Begin(t) PROVE Counted'
    BY <1>1, BeginCounted
  <1>2. ASSUME NEW t \in Tasks, I!Connect(t) PROVE Counted'
    BY <1>2, KeepCounted DEF I!Connect, I!Ready, I!Phases
  <1>3. ASSUME NEW t \in Tasks, I!ConnectFails(t) PROVE Counted'
    BY <1>3, EndCounted DEF I!ConnectFails
  <1>4. ASSUME NEW t \in Tasks, I!Lock(t) PROVE Counted'
    BY <1>4, KeepCounted DEF I!Lock, I!Phases
  <1>5. ASSUME NEW t \in Tasks, I!Write(t) PROVE Counted'
    BY <1>5, KeepCounted DEF I!Write, I!Phases
  <1>6. ASSUME NEW t \in Tasks, I!Wait(t) PROVE Counted'
    BY <1>6, KeepCounted DEF I!Wait, I!Phases
  <1>7. ASSUME NEW t \in Tasks, I!Take(t) PROVE Counted'
    <2>1. phase[t] \notin {"new", "done"}
      BY <1>7 DEF I!Take
    <2>2. CASE I!End(t, "ok")
      BY <2>1, <2>2, EndCounted
    <2>3. CASE phase' = [phase EXCEPT ![t] = "read"] /\ UNCHANGED permits
      BY <2>1, <2>3, KeepCounted DEF I!Phases
    <2> QED BY <1>7, <2>2, <2>3 DEF I!Take
  <1>8. ASSUME NEW t \in Tasks, I!Broken(t) PROVE Counted'
    BY <1>8, EndCounted DEF I!Broken, I!Fail
  <1>9. ASSUME NEW t \in Tasks, I!Timeout(t) PROVE Counted'
    BY <1>9, EndCounted DEF I!Timeout, I!Fail
  <1>10. ASSUME NEW t \in Tasks, I!LeaveStream(t) PROVE Counted'
    BY <1>10, EndCounted DEF I!LeaveStream
  <1>11. ASSUME NEW c \in Conns, I!Serve(c) PROVE Counted'
    BY <1>11 DEF I!Serve, Counted, Holders, I!InFlight
  <1>12. CASE I!Crash \/ I!Recover
    BY <1>12 DEF I!Crash, I!Recover, Counted, Holders, I!InFlight
  <1>13. CASE UNCHANGED ipcVars
    BY <1>13 DEF ipcVars, Counted, Holders, I!InFlight
  <1> QED
    BY <1>1, <1>2, <1>3, <1>4, <1>5, <1>6, <1>7, <1>8, <1>9, <1>10, <1>11, <1>12, <1>13
       DEF I!Next, I!Step

LEMMA AloneStep == ASSUME Typed, Alone, [I!Next]_ipcVars PROVE Alone'
  <1> USE DEF Typed, Alone, Exchanging
  <1>1. ASSUME NEW t \in Tasks, I!Begin(t) PROVE Alone'
    BY <1>1 DEF I!Begin, I!Ready, I!core
  <1>2. ASSUME NEW t \in Tasks, I!Connect(t) PROVE Alone'
    BY <1>2 DEF I!Connect, I!Ready
  <1>3. ASSUME NEW t \in Tasks, I!ConnectFails(t) PROVE Alone'
    BY <1>3 DEF I!ConnectFails, I!End, I!core
  <1>4. ASSUME NEW t \in Tasks, I!Lock(t) PROVE Alone'
    BY <1>4 DEF I!Lock, I!core
  <1>5. ASSUME NEW t \in Tasks, I!Write(t) PROVE Alone'
    BY <1>5 DEF I!Write, I!Others
  <1>6. ASSUME NEW t \in Tasks, I!Wait(t) PROVE Alone'
    BY <1>6 DEF I!Wait, I!core
  <1>7. ASSUME NEW t \in Tasks, I!Take(t) PROVE Alone'
    <2>1. phase[t] \in Exchanging /\ mixed' = mixed
      BY <1>7, TakeEffect
    <2>2. \E s \in {"read", "done"} : phase' = [phase EXCEPT ![t] = s]
      BY <1>7, TakeEffect
    <2>3. \A u \in Tasks : phase'[u] \in Exchanging => phase[u] \in Exchanging
      BY <2>1, <2>2
    <2> QED BY <2>1, <2>3
  <1>8. ASSUME NEW t \in Tasks, I!Broken(t) PROVE Alone'
    BY <1>8 DEF I!Broken, I!Fail, I!End, I!core
  <1>9. ASSUME NEW t \in Tasks, I!Timeout(t) PROVE Alone'
    BY <1>9 DEF I!Timeout, I!Fail, I!End, I!core
  <1>10. ASSUME NEW t \in Tasks, I!LeaveStream(t) PROVE Alone'
    BY <1>10 DEF I!LeaveStream, I!End, I!core
  <1>11. ASSUME NEW c \in Conns, I!Serve(c) PROVE Alone'
    BY <1>11 DEF I!Serve
  <1>12. CASE I!Crash \/ I!Recover
    BY <1>12 DEF I!Crash, I!Recover, I!InFlight
  <1>13. CASE UNCHANGED ipcVars
    BY <1>13 DEF ipcVars
  <1> QED
    BY <1>1, <1>2, <1>3, <1>4, <1>5, <1>6, <1>7, <1>8, <1>9, <1>10, <1>11, <1>12, <1>13
       DEF I!Next, I!Step

LEMMA SoundStep == ASSUME Typed, Placed, Sound, [I!Next]_ipcVars PROVE Sound'
  <1> USE DEF Typed, Placed, Sound
  <1>1. ASSUME NEW t \in Tasks, I!Begin(t) PROVE Sound'
    BY <1>1 DEF I!Begin, I!Ready, I!core
  <1>2. ASSUME NEW t \in Tasks, I!Connect(t) PROVE Sound'
    BY <1>2 DEF I!Connect, I!Ready
  <1>3. ASSUME NEW t \in Tasks, I!ConnectFails(t) PROVE Sound'
    BY <1>3 DEF I!ConnectFails, I!End, I!core
  <1>4. ASSUME NEW t \in Tasks, I!Lock(t) PROVE Sound'
    BY <1>4 DEF I!Lock, I!core
  <1>5. ASSUME NEW t \in Tasks, I!Write(t) PROVE Sound'
    BY <1>5 DEF I!Write, I!Others
  <1>6. ASSUME NEW t \in Tasks, I!Wait(t) PROVE Sound'
    BY <1>6 DEF I!Wait, I!core
  <1>7. ASSUME NEW t \in Tasks, I!Take(t) PROVE Sound'
    BY <1>7 DEF I!Take, I!End
  <1>8. ASSUME NEW t \in Tasks, I!Broken(t) PROVE Sound'
    BY <1>8 DEF I!Broken, I!Fail, I!End, I!core
  <1>9. ASSUME NEW t \in Tasks, I!Timeout(t) PROVE Sound'
    BY <1>9 DEF I!Timeout, I!Fail, I!End, I!core
  <1>10. ASSUME NEW t \in Tasks, I!LeaveStream(t) PROVE Sound'
    BY <1>10 DEF I!LeaveStream, I!End, I!core
  <1>11. ASSUME NEW c \in Conns, I!Serve(c) PROVE Sound'
    BY <1>11 DEF I!Serve
  <1>12. CASE I!Crash \/ I!Recover
    BY <1>12 DEF I!Crash, I!Recover, I!InFlight
  <1>13. CASE UNCHANGED ipcVars
    BY <1>13 DEF ipcVars
  <1> QED
    BY <1>1, <1>2, <1>3, <1>4, <1>5, <1>6, <1>7, <1>8, <1>9, <1>10, <1>11, <1>12, <1>13
       DEF I!Next, I!Step

(* A step that moves no frame and begins no exchange.                      *)
LEMMA NothingMoves ==
  ASSUME Own, UNCHANGED <<wire, inbox, cur, got, on, mixed>>,
         \A u \in Tasks : \/ phase'[u] = phase[u] /\ outcome'[u] = outcome[u]
                          \/ phase'[u] \notin Exchanging
                             /\ (outcome'[u] = outcome[u] \/ outcome'[u] # "ok")
  PROVE  Own'
  <1> SUFFICES ASSUME NEW u \in Tasks \ mixed PROVE (Gotten(u) /\ Pending(u))'
    BY DEF Own
  <1>1. Gotten(u) /\ Pending(u) /\ got'[u] = got[u]
    BY DEF Own
  <1>2. CASE phase'[u] = phase[u] /\ outcome'[u] = outcome[u]
    BY <1>1, <1>2 DEF Gotten, Pending, Expects, At, Silent
  <1>3. CASE /\ phase'[u] \notin Exchanging
             /\ outcome'[u] = outcome[u] \/ outcome'[u] # "ok"
    <2>1. Gotten(u)'
      BY <1>1, <1>3 DEF Gotten
    <2>2. Pending(u)'
      BY <1>3 DEF Pending, Exchanging
    <2> QED BY <2>1, <2>2
  <1> QED BY <1>2, <1>3

(* A new connection has a number of its own and nothing on it.             *)
LEMMA ConnectOwn ==
  ASSUME Typed, Placed, Own, NEW t \in Tasks, I!Connect(t)
  PROVE  Own'
  <1>1. /\ UNCHANGED <<wire, inbox, got, on, outcome>> /\ cur' \in Conns
        /\ phase' = [phase EXCEPT ![t] = I!Ready(t)] /\ I!Ready(t) \in {"write", "lock"}
        /\ mixed' = mixed \cup {r \in Tasks : phase[r] = "read"}
    BY DEF I!Connect, I!Ready
  <1>2. cur' > cur
    BY DEF I!Connect, Placed, Reach
  <1>3. Silent(cur')
    BY <1>1, <1>2 DEF Placed, Reach
  <1> SUFFICES ASSUME NEW u \in Tasks \ mixed' PROVE (Gotten(u) /\ Pending(u))'
    BY DEF Own
  <1>4. u \notin mixed /\ phase[u] # "read"
    BY <1>1
  <1>5. Gotten(u) /\ Pending(u)
    BY <1>4 DEF Own
  <1>6. Gotten(u)'
    BY <1>1, <1>5 DEF Gotten
  <1>7. CASE phase'[u] # "wait"
    <2>1. phase'[u] = phase[u] \/ phase'[u] \in {"write", "lock"}
      BY <1>1 DEF Typed
    <2>2. phase'[u] # "read"
      BY <2>1, <1>4
    <2> QED BY <1>6, <2>2, <1>7 DEF Pending, Exchanging
  <1>8. CASE phase'[u] = "wait"
    <2>1. phase[u] = "wait" /\ At(u)' = At(u) /\ At(u) = on[u]
      BY <1>1, <1>8 DEF Typed, At
    <2>2. Expects(u, on[u])'
      BY <1>1, <1>5, <2>1 DEF Pending, Exchanging, Expects
    <2>3. Silent(cur)'
      BY <1>1, <1>3 DEF Silent
    <2> QED BY <1>6, <1>8, <2>2, <2>3 DEF Pending, At, Expects
  <1> QED BY <1>6, <1>7, <1>8

(* A request that is not mixed by its write finds the connection silent.   *)
LEMMA WriteOwn ==
  ASSUME Typed, Placed, Own, NEW t \in Tasks, I!Write(t)
  PROVE  Own'
  <1>1. /\ phase[t] = "write" /\ phase' = [phase EXCEPT ![t] = "read"]
        /\ inbox' = [inbox EXCEPT ![cur] = Append(@, Nth(t, 1))]
        /\ UNCHANGED <<wire, got, on, outcome, cur>>
    BY DEF I!Write, Nth
  <1>2. cur \in Conns /\ got[t] = <<>>
    BY <1>1, Somewhere DEF Placed, Stages
  <1> SUFFICES ASSUME NEW u \in Tasks \ mixed' PROVE (Gotten(u) /\ Pending(u))'
    BY DEF Own
  <1>3. u \notin mixed /\ Gotten(u) /\ Pending(u)
    BY DEF I!Write, Own
  <1>4. Gotten(u)'
    BY <1>1, <1>3 DEF Gotten
  <1>5. CASE u = t
    <2>1. inbox[cur] = <<>> /\ wire[cur] = <<>>
      BY <1>5 DEF I!Write
    <2>2. inbox'[cur] = <<Nth(t, 1)>>
      BY <1>1, <1>2, <2>1 DEF Typed
    <2>3. At(u)' = cur /\ phase'[u] = "read"
      BY <1>1, <1>5 DEF At, Typed
    <2>4. I!Answer(t) \in Nat /\ 1 <= I!Answer(t)
      BY AnswerLength
    <2>5. Expects(u, cur)'
      BY <1>1, <1>2, <1>5, <2>1, <2>2, <2>4 DEF Expects
    <2> QED BY <1>4, <1>1, <2>3, <2>5 DEF Pending
  <1>6. CASE u # t
    <2>1. phase'[u] = phase[u] /\ phase[u] \notin Exchanging
      BY <1>1, <1>6 DEF I!Write, I!Others, Typed, Exchanging
    <2> QED BY <1>4, <2>1 DEF Pending, Exchanging
  <1> QED BY <1>5, <1>6

(* The frame that is read is the next one of the reader's own answer.      *)
LEMMA TakeOwn ==
  ASSUME Typed, Placed, Alone, Own, NEW t \in Tasks, I!Take(t)
  PROVE  Own'
  <1> DEFINE c == At(t)
             f == Head(wire[c])
             k == Len(got[t])
             w == Len(wire[c])
  <1>1. /\ phase[t] \in Exchanging /\ wire[c] # <<>>
        /\ got' = [got EXCEPT ![t] = Append(@, f)]
        /\ wire' = [wire EXCEPT ![c] = Tail(@)]
        /\ UNCHANGED <<on, cur, inbox, mixed>>
        /\ IF t \in Streams /\ ~ I!Done(f)
             THEN phase' = [phase EXCEPT ![t] = "read"] /\ outcome' = outcome
             ELSE phase' = [phase EXCEPT ![t] = "done"] /\ outcome' = [outcome EXCEPT ![t] = "ok"]
    BY DEF I!Take, I!End, At, Exchanging
  <1>2. c \in Conns
    BY <1>1, Somewhere
  <1>3. /\ k \in Nat /\ w \in Nat /\ w >= 1 /\ f = wire[c][1]
        /\ Len(Tail(wire[c])) = w - 1 /\ f \in I!Frames
        /\ \A i \in 1..w - 1 : Tail(wire[c])[i] = wire[c][i + 1]
    BY <1>1, <1>2, HeadTail DEF Typed
  <1>4. /\ got'[t] = Append(got[t], f) /\ wire'[c] = Tail(wire[c])
        /\ Len(got'[t]) = k + 1 /\ got'[t][k + 1] = f
        /\ \A i \in 1..k : got'[t][i] = got[t][i]
    BY <1>1, <1>2, <1>3 DEF Typed
  <1> SUFFICES ASSUME NEW u \in Tasks \ mixed PROVE (Gotten(u) /\ Pending(u))'
    BY <1>1 DEF Own
  <1>5. CASE u # t
    <2>1. phase'[u] = phase[u] /\ phase[u] \notin Exchanging /\ got'[u] = got[u]
          /\ outcome'[u] = outcome[u]
      BY <1>1, <1>5 DEF Alone, Typed
    <2> QED BY <2>1 DEF Own, Gotten, Pending, Exchanging
  <1>6. CASE u = t
    <2> DEFINE a == I!Answer(t)
    <2>1. Gotten(t) /\ Pending(t)
      BY <1>6 DEF Own
    <2>2. /\ a \in Nat /\ 1 <= a
          /\ t \in Streams => a = Tokens + 1
          /\ t \notin Streams => a = 1
      BY AnswerLength
    <2>3. /\ k + w <= a /\ \A i \in 1..w : wire[c][i] = Nth(t, k + i)
          /\ inbox[c] # <<>> => k + w < a /\ inbox[c] = <<Nth(t, k + w + 1)>>
      BY <1>1, <2>1 DEF Pending, Expects
    <2>4. f = Nth(t, k + 1)
      BY <1>3, <2>3
    <2>5. f.task = t /\ f.n = k + 1
      BY <2>4 DEF Nth
    <2> HIDE DEF f, c, k, w, a
    <2>6. /\ Len(got'[t]) <= a /\ k + 1 <= a
          /\ \A i \in 1..Len(got'[t]) : got'[t][i] = Nth(t, i)
      <3>1. \A i \in 1..k : got[t][i] = Nth(t, i)
        BY <2>1 DEF Gotten, k
      <3>2. k + 1 <= a
        BY <1>3, <2>2, <2>3
      <3>3. ASSUME NEW i \in 1..k + 1 PROVE got'[t][i] = Nth(t, i)
        <4>1. CASE i \in 1..k
          BY <4>1, <3>1, <1>4
        <4>2. CASE i = k + 1
          BY <4>2, <2>4, <1>4
        <4> QED BY <4>1, <4>2, <1>3
      <3> QED BY <3>2, <3>3, <1>4
    <2>7. CASE t \in Streams /\ ~ I!Done(f)
      <3>1. phase' = [phase EXCEPT ![t] = "read"] /\ outcome' = outcome
        BY <1>1, <2>7
      <3>2. phase[t] # "done"
        BY <1>1 DEF Exchanging
      <3>3. outcome'[t] = "none"
        BY <3>1, <3>2 DEF Placed, Stages
      <3>4. Gotten(t)'
        BY <2>6, <3>3 DEF Gotten, a
      <3>5. At(t)' = cur /\ phase'[t] = "read"
        BY <1>1, <3>1 DEF At, Typed
      <3>6. CASE cur = c
        <4>1. Len(got'[t]) + Len(wire'[c]) = k + w
          <5>1. Len(got'[t]) = k + 1 /\ Len(wire'[c]) = w - 1
            BY <1>3, <1>4, Zenon
          <5>2. k \in Nat /\ w \in Nat
            BY <1>3
          <5> QED BY <5>1, <5>2, SMT
        <4>2. \A i \in 1..Len(wire'[c]) : wire'[c][i] = Nth(t, Len(got'[t]) + i)
          <5> TAKE i \in 1..Len(wire'[c])
          <5>1. i \in 1..w - 1 /\ i + 1 \in 1..w /\ k + (i + 1) = Len(got'[t]) + i
            BY <1>3, <1>4
          <5>2. wire'[c][i] = wire[c][i + 1]
            BY <1>3, <1>4, <5>1
          <5>3. wire[c][i + 1] = Nth(t, k + (i + 1))
            BY <2>3, <5>1
          <5> QED BY <5>1, <5>2, <5>3
        <4>3. Expects(t, cur)'
          BY <1>1, <3>6, <4>1, <4>2, <2>3 DEF Expects, a
        <4>4. Pending(t)'
          BY <1>1, <3>5, <4>3 DEF Pending, Expects
        <4> QED BY <1>6, <3>4, <4>4
      <3>7. CASE cur # c
        <4>1. Silent(cur)
          BY <1>1, <2>1, <3>7 DEF Pending, At, c, Exchanging
        <4>2. wire'[cur] = <<>> /\ inbox'[cur] = <<>>
          BY <1>1, <1>2, <3>7, <4>1 DEF Silent, Typed
        <4>3. Expects(t, cur)'
          <5>1. Len(wire'[cur]) = 0 /\ Len(got'[t]) + 0 = k + 1
            BY <4>2, <1>3, <1>4
          <5>2. cur' = cur /\ Len(got'[t]) + Len(wire'[cur]) <= a
            BY <1>1, <2>6, <5>1
          <5>3. \A i \in 1..Len(wire'[cur]) : FALSE
            BY <5>1
          <5> QED BY <4>2, <5>2, <5>3 DEF Expects, a
        <4>4. Pending(t)'
          BY <1>1, <3>5, <4>3 DEF Pending, Expects
        <4> QED BY <1>6, <3>4, <4>4
      <3> QED BY <3>6, <3>7
    <2>8. CASE ~ (t \in Streams /\ ~ I!Done(f))
      <3>1. phase' = [phase EXCEPT ![t] = "done"] /\ outcome' = [outcome EXCEPT ![t] = "ok"]
        BY <1>1, <2>8
      <3>2. k + 1 = a
        <4>1. CASE t \in Streams
          <5>1. f.n = Tokens + 1
            BY <2>8, <4>1 DEF I!Done
          <5> QED BY <2>2, <2>5, <4>1, <5>1
        <4>2. CASE t \notin Streams
          BY <1>3, <2>2, <2>6, <4>2
        <4> QED BY <4>1, <4>2
      <3>3. Gotten(t)'
        BY <1>4, <2>6, <3>2 DEF Gotten, a
      <3>4. phase'[t] = "done"
        BY <3>1 DEF Typed
      <3> QED BY <1>6, <3>3, <3>4 DEF Pending, Exchanging
    <2> QED BY <2>7, <2>8
  <1> QED BY <1>5, <1>6

(* The core sends the frame that the reader expects after those on the way.*)
LEMMA ServeOwn ==
  ASSUME Typed, Own, NEW c \in Conns, I!Serve(c)
  PROVE  Own'
  <1> DEFINE f == Head(inbox[c])
             g == [f EXCEPT !.n = @ + 1]
  <1>1. /\ inbox[c] # <<>> /\ wire' = [wire EXCEPT ![c] = Append(@, f)]
        /\ inbox' = [inbox EXCEPT ![c] =
             IF f.n = I!Answer(f.task) THEN Tail(@) ELSE <<g>> \o Tail(@)]
        /\ UNCHANGED <<phase, outcome, got, on, cur, mixed>>
    BY DEF I!Serve
  <1> SUFFICES ASSUME NEW u \in Tasks \ mixed PROVE (Gotten(u) /\ Pending(u))'
    BY <1>1 DEF Own
  <1>2. Gotten(u) /\ Pending(u)
    BY DEF Own
  <1>3. Gotten(u)'
    BY <1>1, <1>2 DEF Gotten
  <1>4. phase[u] = "wait" /\ on[u] # cur => Silent(cur)'
    BY <1>1, <1>2 DEF Pending, Silent, Typed
  <1>5. ASSUME phase[u] \in Exchanging PROVE Expects(u, At(u))'
    <2>1. At(u)' = At(u) /\ Expects(u, At(u))
      BY <1>1, <1>2, <1>5 DEF Pending, At
    <2>2. CASE At(u) # c
      BY <1>1, <2>1, <2>2 DEF Expects, Typed
    <2>3. CASE At(u) = c
      <3> DEFINE k == Len(got[u])
                 w == Len(wire[c])
                 a == I!Answer(u)
      <3>1. /\ k \in Nat /\ w \in Nat /\ a \in Nat /\ wire[c] \in Seq(I!Frames)
        BY AnswerLength DEF Typed
      <3>2. /\ k + w < a /\ inbox[c] = <<Nth(u, k + w + 1)>>
            /\ \A i \in 1..w : wire[c][i] = Nth(u, k + i)
        BY <1>1, <2>1, <2>3 DEF Expects
      <3>3. f = Nth(u, k + w + 1) /\ Tail(inbox[c]) = <<>>
        BY <3>2
      <3>4. f.task = u /\ f.n = k + w + 1 /\ g = Nth(u, (k + w + 1) + 1)
        <4> DEFINE m == k + w + 1
        <4>1. Nth(u, m).task = u /\ Nth(u, m).n = m
          BY DEF Nth
        <4>2. [Nth(u, m) EXCEPT !.n = @ + 1] = Nth(u, m + 1)
          <5> HIDE DEF m
          <5> QED BY DEF Nth
        <4> HIDE DEF f
        <4> QED BY <3>3, <4>1, <4>2
      <3> HIDE DEF f, g
      <3>5. /\ wire'[c] = Append(wire[c], f) /\ Len(wire'[c]) = w + 1
            /\ wire'[c][w + 1] = f /\ \A i \in 1..w : wire'[c][i] = wire[c][i]
        BY <1>1, <3>1 DEF Typed
      <3>6. /\ k + w + 1 = a => inbox'[c] = <<>>
            /\ k + w + 1 # a => inbox'[c] = <<g>>
        <4>1. inbox'[c] = IF f.n = a THEN Tail(inbox[c]) ELSE <<g>> \o Tail(inbox[c])
          BY <1>1, <3>4 DEF Typed
        <4>2. <<g>> \o <<>> = <<g>>
          OBVIOUS
        <4> QED BY <4>1, <4>2, <3>3, <3>4
      <3> HIDE DEF k, w, a
      <3>7. \A i \in 1..w + 1 : wire'[c][i] = Nth(u, k + i)
        <4> TAKE i \in 1..w + 1
        <4>1. CASE i \in 1..w
          BY <4>1, <3>2, <3>5
        <4>2. CASE i = w + 1
          BY <4>2, <3>1, <3>3, <3>5
        <4> QED BY <4>1, <4>2, <3>1
      <3>8. k + (w + 1) <= a
        BY <3>1, <3>2
      <3>9. inbox'[c] # <<>> => k + (w + 1) < a /\ inbox'[c] = <<Nth(u, k + (w + 1) + 1)>>
        BY <3>1, <3>2, <3>4, <3>6
      <3>10. got'[u] = got[u]
        BY <1>1
      <3> QED BY <2>1, <2>3, <3>5, <3>7, <3>8, <3>9, <3>10 DEF Expects, k, a
    <2> QED BY <2>2, <2>3
  <1> QED BY <1>1, <1>3, <1>4, <1>5 DEF Pending

LEMMA OwnStep == ASSUME Typed, Placed, Alone, Own, [I!Next]_ipcVars PROVE Own'
  <1>1. ASSUME NEW t \in Tasks, I!Begin(t) PROVE Own'
    <2>1. UNCHANGED <<wire, inbox, cur, got, on, mixed, outcome>>
      BY <1>1 DEF I!Begin, I!core
    <2>2. \A u \in Tasks : phase'[u] = phase[u] \/ phase'[u] \in {"write", "lock", "connect"}
      BY <1>1 DEF I!Begin, I!Ready, Typed
    <2> QED BY <2>1, <2>2, NothingMoves DEF Exchanging
  <1>2. ASSUME NEW t \in Tasks, I!Connect(t) PROVE Own'
    BY <1>2, ConnectOwn
  <1>3. ASSUME NEW t \in Tasks, I!ConnectFails(t) PROVE Own'
    BY <1>3, NothingMoves DEF I!ConnectFails, I!End, I!core, Typed, Exchanging
  <1>4. ASSUME NEW t \in Tasks, I!Lock(t) PROVE Own'
    <2>1. UNCHANGED <<wire, inbox, cur, got, on, mixed, outcome>>
      BY <1>4 DEF I!Lock, I!core
    <2>2. \A u \in Tasks : phase'[u] = phase[u] \/ phase'[u] = "write"
      BY <1>4 DEF I!Lock, Typed
    <2> QED BY <2>1, <2>2, NothingMoves DEF Exchanging
  <1>5. ASSUME NEW t \in Tasks, I!Write(t) PROVE Own'
    BY <1>5, WriteOwn
  <1>6. ASSUME NEW t \in Tasks, I!Wait(t) PROVE Own'
    <2>1. /\ UNCHANGED <<wire, inbox, cur, got, mixed, outcome>>
          /\ phase[t] = "read" /\ phase'[t] = "wait" /\ on'[t] = cur
          /\ \A u \in Tasks \ {t} : phase'[u] = phase[u] /\ on'[u] = on[u]
      BY <1>6 DEF I!Wait, I!core, Typed
    <2>2. ASSUME NEW u \in Tasks \ mixed PROVE (Gotten(u) /\ Pending(u))'
      <3>1. Gotten(u) /\ Pending(u)
        BY DEF Own
      <3>2. Gotten(u)'
        BY <2>1, <3>1 DEF Gotten
      <3>3. CASE u = t
        <4>1. Expects(t, cur)
          BY <2>1, <3>1, <3>3 DEF Pending, At, Exchanging
        <4>2. Pending(t)'
          BY <2>1, <4>1 DEF Pending, At, Exchanging, Expects
        <4> QED BY <3>2, <3>3, <4>2
      <3>4. CASE u # t
        <4>1. phase'[u] = phase[u] /\ on'[u] = on[u] /\ At(u)' = At(u)
          BY <2>1, <3>4 DEF At
        <4>2. Pending(u)'
          BY <2>1, <3>1, <4>1 DEF Pending, Expects, Silent
        <4> QED BY <3>2, <4>2
      <3> QED BY <3>3, <3>4
    <2> QED BY <2>1, <2>2 DEF Own
  <1>7. ASSUME NEW t \in Tasks, I!Take(t) PROVE Own'
    BY <1>7, TakeOwn
  <1>8. ASSUME NEW t \in Tasks, I!Broken(t) PROVE Own'
    BY <1>8, NothingMoves DEF I!Broken, I!Fail, I!End, I!core, Typed, Exchanging
  <1>9. ASSUME NEW t \in Tasks, I!Timeout(t) PROVE Own'
    BY <1>9, NothingMoves DEF I!Timeout, I!Fail, I!End, I!core, Typed, Exchanging
  <1>10. ASSUME NEW t \in Tasks, I!LeaveStream(t) PROVE Own'
    BY <1>10, NothingMoves DEF I!LeaveStream, I!End, I!core, Typed, Exchanging
  <1>11. ASSUME NEW c \in Conns, I!Serve(c) PROVE Own'
    BY <1>11, ServeOwn
  <1>12. CASE I!Crash \/ I!Recover
    BY <1>12, NothingMoves DEF I!Crash, I!Recover
  <1>13. CASE UNCHANGED ipcVars
    BY <1>13, NothingMoves DEF ipcVars
  <1> QED
    BY <1>1, <1>2, <1>3, <1>4, <1>5, <1>6, <1>7, <1>8, <1>9, <1>10, <1>11, <1>12, <1>13
       DEF I!Next, I!Step

(* Metrics that were read, and a stream that was given up, stay so.        *)
LEMMA CauseStays == ASSUME Typed, Placed, [I!Next]_ipcVars, Cause PROVE Cause'
  <1>1. \A t \in Tasks : phase[t] # "new" => phase'[t] # "new"
    <2>1. ASSUME NEW u \in Tasks, I!Begin(u) \/ I!Connect(u) \/ I!Lock(u) \/ I!Write(u)
                                   \/ I!Wait(u)
          PROVE  \E s \in {"connect", "write", "lock", "read", "wait"} :
                   phase' = [phase EXCEPT ![u] = s]
      BY <2>1 DEF I!Begin, I!Connect, I!Lock, I!Write, I!Wait, I!Ready
    <2>2. ASSUME NEW u \in Tasks, I!Take(u)
          PROVE  \E s \in {"read", "done"} : phase' = [phase EXCEPT ![u] = s]
      BY <2>2 DEF I!Take, I!End
    <2>3. ASSUME NEW u \in Tasks,
                 I!ConnectFails(u) \/ I!Broken(u) \/ I!Timeout(u) \/ I!LeaveStream(u)
          PROVE  phase' = [phase EXCEPT ![u] = "done"]
      BY <2>3 DEF I!ConnectFails, I!Broken, I!Timeout, I!LeaveStream, I!Fail, I!End
    <2>4. ASSUME NEW u \in Tasks, I!Step(u) \/ I!LeaveStream(u)
          PROVE  \E s \in {"connect", "write", "lock", "read", "wait", "done"} :
                   phase' = [phase EXCEPT ![u] = s]
      BY <2>1, <2>2, <2>3, <2>4 DEF I!Step
    <2>5. ASSUME \/ \E c \in Conns : I!Serve(c)
                 \/ I!Crash \/ I!Recover \/ UNCHANGED ipcVars
          PROVE  phase' = phase
      BY <2>5 DEF I!Serve, I!Crash, I!Recover, ipcVars
    <2>6. CASE \E u \in Tasks : I!Step(u) \/ I!LeaveStream(u)
      BY <2>4, <2>6 DEF Typed
    <2> QED BY <2>5, <2>6 DEF I!Next
  <1>2. \A t \in Tasks : outcome[t] # "none" => outcome'[t] = outcome[t]
    <2>1. ASSUME NEW u \in Tasks, I!Begin(u) \/ I!Connect(u) \/ I!Lock(u) \/ I!Write(u)
                                   \/ I!Wait(u)
          PROVE  outcome' = outcome
      BY <2>1, Zenon DEF I!Begin, I!Connect, I!Lock, I!Write, I!Wait
    <2>2. ASSUME NEW u \in Tasks, I!Take(u)
          PROVE  outcome' = outcome \/ outcome' = [outcome EXCEPT ![u] = "ok"]
      BY <2>2, TakeEffect, Zenon
    <2>3. ASSUME NEW u \in Tasks, NEW o, I!End(u, o)
          PROVE  outcome' = [outcome EXCEPT ![u] = o]
      BY <2>3, Zenon DEF I!End
    <2>4. ASSUME NEW u \in Tasks,
                 I!ConnectFails(u) \/ I!Broken(u) \/ I!Timeout(u) \/ I!LeaveStream(u)
          PROVE  \E o \in {"mock", "error", "gone"} : I!End(u, o)
      BY <2>4 DEF I!ConnectFails, I!Broken, I!Timeout, I!LeaveStream, I!Fail
    <2>5. ASSUME NEW u \in Tasks, I!Step(u) \/ I!LeaveStream(u)
          PROVE  outcome' = outcome \/ \E o : outcome' = [outcome EXCEPT ![u] = o]
      <3>1. CASE I!Begin(u) \/ I!Connect(u) \/ I!Lock(u) \/ I!Write(u) \/ I!Wait(u)
        BY <2>1, <3>1, Zenon
      <3>2. CASE I!Take(u)
        BY <2>2, <3>2, Zenon
      <3>3. CASE I!ConnectFails(u) \/ I!Broken(u) \/ I!Timeout(u) \/ I!LeaveStream(u)
        BY <2>3, <2>4, <3>3, Zenon
      <3> QED BY <2>5, <3>1, <3>2, <3>3, Zenon DEF I!Step
    <2>6. ASSUME NEW u \in Tasks, I!Step(u) \/ I!LeaveStream(u)
          PROVE  outcome[u] = "none"
      <3>1. phase[u] # "done"
        BY <2>6 DEF I!Step, I!LeaveStream, I!Begin, I!Connect, I!ConnectFails, I!Lock, I!Write,
                    I!Wait, I!Take, I!Broken, I!Timeout
      <3> QED BY <3>1 DEF Placed, Stages, Typed
    <2>7. ASSUME \/ \E c \in Conns : I!Serve(c)
                 \/ I!Crash \/ I!Recover \/ UNCHANGED ipcVars
          PROVE  outcome' = outcome
      BY <2>7, Zenon DEF I!Serve, I!Crash, I!Recover, ipcVars
    <2>8. CASE \E u \in Tasks : I!Step(u) \/ I!LeaveStream(u)
      BY <2>5, <2>6, <2>8 DEF Typed
    <2> QED BY <2>7, <2>8, Zenon DEF I!Next
  <1> QED BY <1>1, <1>2, Parameters DEF Cause

(* With one permit, one generation is in flight.                           *)
LEMMA OneAtATime ==
  ASSUME Typed, Counted, Permits = 1, ~Cause, NEW t \in I!InFlight, NEW u \in I!InFlight
  PROVE  t = u
  <1>1. t \in Holders /\ u \in Holders
    BY Parameters DEF Cause, Holders, I!InFlight
  <1> SUFFICES ASSUME t # u PROVE FALSE
    OBVIOUS
  <1>2. IsFiniteSet(Holders) /\ Cardinality(Holders) \in Nat /\ Cardinality(Holders) <= 1
    BY FS_CardinalityType DEF Counted
  <1>3. /\ IsFiniteSet(Holders \ {t})
        /\ Cardinality(Holders \ {t}) = Cardinality(Holders) - 1
    BY <1>1, <1>2, FS_RemoveElement
  <1>4. u \in Holders \ {t}
    BY <1>1
  <1>5. Cardinality(Holders \ {t}) = 0 /\ Holders \ {t} = {}
    BY <1>2, <1>3, FS_CardinalityType, FS_EmptySet
  <1> QED BY <1>4, <1>5

(* A request that ends has read all of its answer.                         *)
LEMMA TakeLeavesNothing ==
  ASSUME Typed, Placed, Own, Own', NEW t \in Tasks, I!Take(t), t \notin mixed, phase'[t] = "done"
  PROVE  Silent(cur)'
  <1> DEFINE c == At(t)
             k == Len(got[t])
             w == Len(wire[c])
             a == I!Answer(t)
  <1>1. /\ phase[t] \in Exchanging /\ wire[c] # <<>>
        /\ got' = [got EXCEPT ![t] = Append(@, Head(wire[c]))]
        /\ wire' = [wire EXCEPT ![c] = Tail(@)]
        /\ UNCHANGED <<on, cur, inbox, mixed>> /\ outcome'[t] = "ok"
    BY DEF I!Take, I!End, At, Exchanging, Typed
  <1>2. c \in Conns
    BY <1>1, Somewhere
  <1>3. /\ Pending(t) /\ Gotten(t)'
    BY <1>1 DEF Own
  <1>4. /\ k \in Nat /\ w \in Nat /\ w >= 1 /\ a \in Nat
        /\ Tail(wire[c]) \in Seq(I!Frames) /\ Len(Tail(wire[c])) = w - 1
    BY <1>1, <1>2, HeadTail, AnswerLength DEF Typed
  <1>5. k + 1 = a
    <2>1. Head(wire[c]) \in I!Frames
      BY <1>1, <1>2, HeadTail DEF Typed
    <2>2. Len(got'[t]) = k + 1
      BY <1>1, <2>1 DEF Typed
    <2> QED BY <1>1, <1>3, <2>2 DEF Gotten
  <1>6. k + w <= a /\ (inbox[c] # <<>> => k + w < a)
    BY <1>1, <1>3 DEF Pending, Expects
  <1>7. w = 1 /\ inbox[c] = <<>>
    <2> HIDE DEF c, k, w, a
    <2> QED BY <1>4, <1>5, <1>6
  <1>8. wire'[c] = <<>> /\ inbox'[c] = <<>>
    <2>1. wire'[c] = Tail(wire[c]) /\ inbox'[c] = inbox[c]
      BY <1>1, <1>2 DEF Typed
    <2>2. Len(Tail(wire[c])) = 0
      BY <1>4, <1>7
    <2> HIDE DEF c
    <2>3. Tail(wire[c]) = <<>>
      BY <1>4, <2>2, EmptySequence
    <2> QED BY <1>7, <2>1, <2>3
  <1>9. CASE cur = c
    BY <1>1, <1>8, <1>9 DEF Silent
  <1>10. CASE cur # c
    <2>1. Silent(cur)
      BY <1>1, <1>3, <1>10 DEF Pending, At, Exchanging
    <2> QED BY <1>1, <1>2, <1>10, <2>1 DEF Silent, Typed
  <1> QED BY <1>9, <1>10

LEMMA ApartStep ==
  ASSUME Typed, Placed, Counted, Own, Apart, Own', [I!Next]_ipcVars
  PROVE  Apart'
  <1> SUFFICES ASSUME Permits = 1, ~Cause' PROVE (mixed = {} /\ (Served => Silent(cur)))'
    BY DEF Apart
  <1>1. ~Cause /\ mixed = {} /\ (Served => Silent(cur))
    BY CauseStays DEF Apart
  <1>2. \A t, u \in Tasks : /\ phase[t] \in {"connect", "lock", "write", "read", "wait"}
                           /\ phase[u] \in {"connect", "lock", "write", "read", "wait"}
                           => t = u
    BY <1>1, OneAtATime DEF I!InFlight
  <1>3. phase \in [Tasks -> I!Phases] /\ outcome \in [Tasks -> {"none", "ok", "mock", "error", "gone"}]
    BY DEF Typed
  <1>4. ASSUME NEW t \in Tasks, phase[t] \in {"write", "read", "wait"}, I!Fail(t),
               UNCHANGED <<inbox, wire, cur, mixed>>
        PROVE  (mixed = {} /\ (Served => Silent(cur)))'
    <2>1. CASE t \in Streams
      <3>1. outcome'[t] = "error"
        BY <1>4, <1>3, <2>1 DEF I!Fail, I!End
      <3> QED BY <2>1, <3>1 DEF Cause
    <2>2. CASE t \notin Streams
      <3>1. ~connected' /\ phase' = [phase EXCEPT ![t] = "done"]
        BY <1>4, <2>2 DEF I!Fail, I!End
      <3>2. ~Served'
        BY <1>2, <1>4, <1>3, <3>1 DEF Served
      <3> QED BY <1>1, <1>4, <3>2
    <2> QED BY <2>1, <2>2
  <1>5. ASSUME UNCHANGED <<inbox, wire, cur, mixed>>, Served' => Served
        PROVE  (mixed = {} /\ (Served => Silent(cur)))'
    BY <1>1, <1>5 DEF Silent
  <1>6. ASSUME NEW t \in Tasks, I!Begin(t) PROVE (mixed = {} /\ (Served => Silent(cur)))'
    BY <1>6, <1>5, <1>3 DEF I!Begin, I!Ready, I!core, Served, Exchanging
  <1>7. ASSUME NEW t \in Tasks, I!Connect(t) PROVE (mixed = {} /\ (Served => Silent(cur)))'
    <2>1. mixed' = {} /\ UNCHANGED <<inbox, wire>>
      BY <1>7, <1>1, <1>2 DEF I!Connect
    <2>2. cur' \in Conns /\ cur' > cur
      BY <1>7 DEF I!Connect, Placed, Reach
    <2> QED BY <2>1, <2>2 DEF Placed, Reach, Silent
  <1>8. ASSUME NEW t \in Tasks, I!ConnectFails(t) PROVE (mixed = {} /\ (Served => Silent(cur)))'
    BY <1>8, <1>5, <1>3 DEF I!ConnectFails, I!End, I!core, Served, Exchanging
  <1>9. ASSUME NEW t \in Tasks, I!Lock(t) PROVE (mixed = {} /\ (Served => Silent(cur)))'
    BY <1>9, <1>5, <1>3 DEF I!Lock, I!core, Served, Exchanging
  <1>10. ASSUME NEW t \in Tasks, I!Write(t) PROVE (mixed = {} /\ (Served => Silent(cur)))'
    <2>1. phase[t] = "write" /\ phase' = [phase EXCEPT ![t] = "read"]
      BY <1>10 DEF I!Write
    <2>2. \A u \in Tasks : phase[u] \notin Exchanging
      BY <2>1, <1>2 DEF Exchanging
    <2>3. Silent(cur) /\ I!Others(t) = {}
      BY <2>1, <2>2, <1>1 DEF Served, I!Others, Exchanging
    <2>4. mixed' = {}
      BY <1>10, <1>1, <2>3 DEF I!Write, Silent
    <2>5. ~Served'
      BY <2>1, <1>3 DEF Served, Exchanging
    <2> QED BY <2>4, <2>5
  <1>11. ASSUME NEW t \in Tasks, I!Wait(t) PROVE (mixed = {} /\ (Served => Silent(cur)))'
    <2>1. ~Served' /\ mixed' = mixed
      BY <1>11, <1>3 DEF I!Wait, Served, Exchanging
    <2> QED BY <1>1, <2>1
  <1>12. ASSUME NEW t \in Tasks, I!Take(t) PROVE (mixed = {} /\ (Served => Silent(cur)))'
    <2>1. mixed' = {} /\ t \notin mixed
      BY <1>12, <1>1 DEF I!Take
    <2>2. CASE phase'[t] = "done"
      BY <1>12, <2>1, <2>2, TakeLeavesNothing
    <2>3. CASE phase'[t] # "done"
      <3>1. phase'[t] = "read"
        BY <1>12, <1>3, <2>3 DEF I!Take, I!End
      <3> QED BY <2>1, <3>1 DEF Served, Exchanging
    <2> QED BY <2>2, <2>3
  <1>13. ASSUME NEW t \in Tasks, I!Broken(t) PROVE (mixed = {} /\ (Served => Silent(cur)))'
    BY <1>13, <1>4 DEF I!Broken, I!core
  <1>14. ASSUME NEW t \in Tasks, I!Timeout(t) PROVE (mixed = {} /\ (Served => Silent(cur)))'
    BY <1>14, <1>4 DEF I!Timeout, I!core
  <1>15. ASSUME NEW t \in Tasks, I!LeaveStream(t) PROVE (mixed = {} /\ (Served => Silent(cur)))'
    <2>1. t \in Streams /\ outcome'[t] = "gone"
      BY <1>15, <1>3 DEF I!LeaveStream, I!End
    <2> QED BY <2>1 DEF Cause
  <1>16. ASSUME NEW c \in Conns, I!Serve(c) PROVE (mixed = {} /\ (Served => Silent(cur)))'
    <2>1. /\ inbox[c] # <<>> /\ UNCHANGED <<phase, connected, cur, mixed>>
          /\ \A d \in Conns \ {c} : inbox'[d] = inbox[d] /\ wire'[d] = wire[d]
      BY <1>16 DEF I!Serve, Typed
    <2>2. Served' = Served
      BY <2>1 DEF Served
    <2>3. ASSUME Served PROVE Silent(cur)'
      <3>1. Silent(cur) /\ cur # c
        BY <2>1, <2>3, <1>1 DEF Silent
      <3>2. CASE cur \in Conns
        BY <2>1, <3>1, <3>2 DEF Silent
      <3>3. CASE cur \notin Conns
        <4>1. inbox'[cur] = inbox[cur] /\ wire'[cur] = wire[cur]
          BY <1>16, <3>1, <3>3 DEF I!Serve, Typed
        <4> QED BY <2>1, <3>1, <4>1 DEF Silent
      <3> QED BY <3>2, <3>3
    <2> QED BY <1>1, <2>1, <2>2, <2>3
  <1>17. CASE I!Crash \/ I!Recover
    BY <1>17, <1>5 DEF I!Crash, I!Recover, Served
  <1>18. CASE UNCHANGED ipcVars
    BY <1>18, <1>5 DEF ipcVars, Served
  <1> QED
    BY <1>6, <1>7, <1>8, <1>9, <1>10, <1>11, <1>12, <1>13, <1>14, <1>15, <1>16, <1>17, <1>18
       DEF I!Next, I!Step

LEMMA ErrorsStep ==
  ASSUME Typed, Alone, Sound, I!ErrorsAreOwn, [I!Next]_ipcVars
  PROVE  I!ErrorsAreOwn'
  <1> SUFFICES ASSUME NEW t \in Tasks, outcome'[t] = "error" PROVE t \in faulted' \cup mixed'
    BY DEF I!ErrorsAreOwn
  <1>1. faulted \subseteq faulted' /\ mixed \subseteq mixed'
    BY DEF I!Next, I!Step, I!Begin, I!Connect, I!ConnectFails, I!Lock, I!Write, I!Wait, I!Take,
           I!Broken, I!Timeout, I!LeaveStream, I!Serve, I!Crash, I!Recover, ipcVars
  <1>2. CASE outcome[t] = "error"
    BY <1>1, <1>2 DEF I!ErrorsAreOwn
  <1>3. CASE outcome[t] # "error"
    <2>1. I!Broken(t) \/ I!Timeout(t)
      <3>1. ASSUME NEW r \in Tasks,
                   I!Begin(r) \/ I!Connect(r) \/ I!Lock(r) \/ I!Write(r) \/ I!Wait(r)
            PROVE  outcome' = outcome
        BY <3>1 DEF I!Begin, I!Connect, I!Lock, I!Write, I!Wait
      <3>2. ASSUME NEW r \in Tasks, I!ConnectFails(r) \/ I!Take(r) \/ I!LeaveStream(r)
            PROVE  outcome'[t] # "error"
        BY <1>3, <3>2 DEF Typed, I!ConnectFails, I!Take, I!LeaveStream, I!End
      <3>3. ASSUME NEW r \in Tasks \ {t}, I!Broken(r) \/ I!Timeout(r)
            PROVE  outcome'[t] = outcome[t]
        BY <3>3 DEF Typed, I!Broken, I!Timeout, I!Fail, I!End
      <3>4. ASSUME (\E c \in Conns : I!Serve(c)) \/ I!Crash \/ I!Recover \/ UNCHANGED ipcVars
            PROVE  outcome' = outcome
        BY <3>4 DEF I!Serve, I!Crash, I!Recover, ipcVars
      <3> QED BY <1>3, <3>1, <3>2, <3>3, <3>4 DEF I!Next, I!Step
    <2>2. CASE I!Timeout(t)
      BY <2>2 DEF I!Timeout
    <2>3. CASE I!Broken(t)
      <3> SUFFICES ASSUME t \notin faulted, t \notin mixed PROVE FALSE
        BY <1>1
      <3>1. phase[t] = "read" /\ I!Waiters(cur) # {}
        BY <2>3 DEF I!Broken, Sound
      <3>2. PICK r \in Tasks : phase[r] = "wait"
        BY <3>1 DEF I!Waiters
      <3> QED BY <3>1, <3>2 DEF Alone, Exchanging
    <2> QED BY <2>1, <2>2, <2>3
  <1> QED BY <1>2, <1>3

-----------------------------------------------------------------------------
LEMMA ClientStart == ASSUME I!Init \/ Quiet PROVE ClientInv
  <1> USE Parameters DEF I!Init, Quiet
  <1>1. Typed
    <2>1. /\ inbox = [c \in Conns |-> <<>>] /\ wire = [c \in Conns |-> <<>>]
          /\ got = [t \in Tasks |-> <<>>]
      OBVIOUS
    <2>2. inbox \in [Conns -> Seq(I!Frames)] /\ wire \in [Conns -> Seq(I!Frames)]
      BY <2>1, EmptyQueues, Zenon
    <2>3. \A c \in Conns : Within(inbox[c])
      BY DEF Within
    <2>4. got \in [Tasks -> Seq(I!Frames)]
      BY <2>1, EmptyQueues, Zenon
    <2>7. on \in [Tasks -> 0..MaxConns]
      OBVIOUS
    <2>5. /\ phase \in [Tasks -> I!Phases]
          /\ outcome \in [Tasks -> {"none", "ok", "mock", "error", "gone"}]
      BY DEF I!Phases
    <2>6. /\ lock \in Tasks \cup {NoTask} /\ connected \in BOOLEAN /\ up \in BOOLEAN
          /\ faulted \subseteq Tasks /\ mixed \subseteq Tasks
      OBVIOUS
    <2> QED BY <2>2, <2>3, <2>4, <2>5, <2>6, <2>7 DEF Typed
  <1>2. Placed
    BY DEF Placed, Reach, Stages, Silent
  <1>3. Counted
    <2>1. Holders = {}
      BY DEF Holders, I!InFlight
    <2> QED BY <2>1, FS_EmptySet DEF Counted
  <1>4. Alone /\ Sound /\ I!ErrorsAreOwn
    BY DEF Alone, Sound, Exchanging, I!ErrorsAreOwn
  <1>5. Own
    BY AnswerLength DEF Own, Gotten, Pending, Exchanging
  <1>6. Apart
    BY DEF Apart, Served
  <1> QED BY <1>1, <1>2, <1>3, <1>4, <1>5, <1>6 DEF ClientInv

LEMMA ClientStep == ClientInv /\ [I!Next]_ipcVars => ClientInv'
  <1> SUFFICES ASSUME ClientInv, [I!Next]_ipcVars PROVE ClientInv'
    OBVIOUS
  <1>1. Typed' /\ Placed' /\ Counted' /\ Alone' /\ Sound' /\ I!ErrorsAreOwn'
    BY TypedStep, PlacedStep, CountedStep, AloneStep, SoundStep, ErrorsStep DEF ClientInv
  <1>2. Own'
    BY OwnStep DEF ClientInv
  <1>3. Apart'
    BY ApartStep, <1>2 DEF ClientInv
  <1> QED BY <1>1, <1>2, <1>3 DEF ClientInv

LEMMA OwnMatches == ClientInv => AnswersMatch
  <1> SUFFICES ASSUME ClientInv, NEW t \in Tasks \ mixed
               PROVE  /\ I!IsPrefix(got[t], I!Expected(t))
                      /\ outcome[t] = "ok" => got[t] = I!Expected(t)
    BY DEF AnswersMatch, I!AnswersMatch
  <1> DEFINE e == I!Expected(t)
  <1>1. /\ got[t] \in Seq(I!Frames) /\ Len(got[t]) <= I!Answer(t)
        /\ \A i \in 1..Len(got[t]) : got[t][i] = Nth(t, i)
        /\ outcome[t] = "ok" => Len(got[t]) = I!Answer(t)
    BY DEF ClientInv, Typed, Own, Gotten
  <1>2. /\ I!Answer(t) \in Nat /\ Len(e) = I!Answer(t) /\ e \in Seq(I!Frames)
        /\ \A i \in 1..I!Answer(t) : e[i] = Nth(t, i)
    <2>1. I!Answer(t) \in Nat
      BY AnswerLength
    <2>2. \A i \in 1..I!Answer(t) : Nth(t, i) \in I!Frames
      BY <2>1, NthFrame
    <2>3. e = [n \in 1..I!Answer(t) |-> Nth(t, n)]
      BY DEF I!Expected, Nth
    <2> HIDE DEF e
    <2>4. e \in [1..I!Answer(t) -> I!Frames]
      BY <2>2, <2>3
    <2>5. e \in Seq(I!Frames) /\ Len(e) = I!Answer(t)
      BY <2>1, <2>4
    <2> QED BY <2>1, <2>3, <2>5
  <1> HIDE DEF e
  <1>3. I!IsPrefix(got[t], e)
    <2>1. got[t] = SubSeq(e, 1, Len(got[t]))
      BY <1>1, <1>2
    <2> QED BY <2>1, <1>1, <1>2 DEF I!IsPrefix
  <1>4. outcome[t] = "ok" => got[t] = e
    BY <1>1, <1>2
  <1> QED BY <1>3, <1>4 DEF e

-----------------------------------------------------------------------------
(* Plugins.  The tables of the router: tools only grow, and every name that*)
(* was listed is in one of the tables a call is looked up in.              *)
RouterInv ==
  /\ DOMAIN tools \subseteq Tools /\ http \subseteq Tools /\ DOMAIN offers \subseteq Servers
  /\ \A n \in DOMAIN tools : /\ tools[n].kind \in {"local", "mcp"}
                             /\ tools[n].kind = "mcp" => tools[n].server \in DOMAIN offers
  /\ \A s \in DOMAIN offers : ToSet(offers[s]) \subseteq DOMAIN tools \cup {Nameless}
  /\ shown \in [Chats -> SUBSET (DOMAIN tools \cup http \cup {"unknown"})]
  /\ stage \in [Chats -> {"idle", "asked"}]

(* The prefix cache: its entries are the last of uses, in the same order   *)
(* where no two look-ups read the same time.                               *)
Entry == [prefix : Heads, last : Nat]
CacheTyped(c, u, t, m) ==
  /\ c \in Seq(Entry) /\ u \in Seq(Heads) /\ t \in Nat /\ m \in Nat /\ IsInjective(u)
  /\ \A i, j \in 1..Len(c) : c[i].prefix = c[j].prefix => i = j
  /\ \A i \in 1..Len(c) : c[i].last <= t /\ c[i].prefix \in ToSet(u)
CacheFilled(c, u, m) ==
  /\ Len(c) = IF Len(u) < MaxCached THEN Len(u) ELSE MaxCached
  /\ Len(u) <= MaxCached => \A p \in ToSet(u) : \E i \in 1..Len(c) : c[i].prefix = p
  /\ Len(u) <= m
CacheOrdered(c, u) ==
  \A i \in 1..Len(c), a, b \in 1..Len(u) : u[a] = c[i].prefix /\ a < b =>
    \E j \in 1..Len(c) : u[b] = c[j].prefix /\ c[i].last < c[j].last
CacheInv == /\ CacheTyped(cache, uses, time, misses) /\ CacheFilled(cache, uses, misses)
            /\ ~ unsteady => CacheOrdered(cache, uses)
PluginsInv == RouterInv /\ CacheInv /\ unsteady \in BOOLEAN

LEMMA PluginLists ==
  /\ \A s : P!ToSet(s) = ToSet(s) /\ P!Last(s) = Last(s)
  /\ \A s, i : P!RemoveAt(s, i) = RemoveAt(s, i)
  /\ \A s, e : P!RemoveFirst(s, e) = RemoveFirst(s, e)
  /\ \A S : P!Cardinality(S) = Cardinality(S)
BY DEF P!ToSet, ToSet, P!Last, Last, P!RemoveAt, RemoveAt, P!RemoveFirst, RemoveFirst,
       P!SelectInSeq, SelectInSeq, P!Min, Min, P!Cardinality, Cardinality

LEMMA PluginNumbers == MaxCached \in Nat \ {0} /\ NoPrefix \notin Heads
BY RequestsAssumption DEF P!PluginsAssumption

LEMMA RouterInit == P!Init => RouterInv
BY DEF P!Init, RouterInv

(* What register_mcp_server is given.                                      *)
LEMMA OffersTyped == \A o \in P!Offers : ToSet(o) \subseteq Tools \cup {Nameless}
<1> SUFFICES ASSUME NEW o \in P!Offers PROVE ToSet(o) \subseteq Tools \cup {Nameless}
  OBVIOUS
<1>1. PICK m \in 0..2 : o \in [1..m -> Tools \cup {Nameless}]
  BY DEF P!Offers, P!SeqOf
<1> QED BY <1>1 DEF ToSet

LEMMA RouterRegister ==
  ASSUME RouterInv, P!RegisterTool \/ P!RegisterHttpTool \/ P!RegisterMcpServer
  PROVE RouterInv'
<1>1. CASE P!RegisterTool
  <2>1. PICK n \in Tools : tools' = P!With(tools, {n}, P!Local)
    BY <1>1 DEF P!RegisterTool
  <2>2. UNCHANGED <<http, offers, stage, shown>>
    BY <1>1 DEF P!RegisterTool, P!chatVars
  <2>3. /\ DOMAIN tools' = DOMAIN tools \cup {n}
        /\ \A k \in DOMAIN tools' : tools'[k] = IF k \in {n} THEN P!Local(k) ELSE tools[k]
    BY <2>1 DEF P!With
  <2>4. P!Local(n).kind = "local"
    BY DEF P!Local
  <2>5. \A k \in DOMAIN tools' : /\ tools'[k].kind \in {"local", "mcp"}
                                 /\ tools'[k].kind = "mcp" => tools'[k].server \in DOMAIN offers
    BY <2>3, <2>4 DEF RouterInv
  <2>6. shown \in [Chats -> SUBSET (DOMAIN tools' \cup http \cup {"unknown"})]
    BY <2>3 DEF RouterInv
  <2> QED BY <2>2, <2>3, <2>5, <2>6 DEF RouterInv
<1>2. CASE P!RegisterHttpTool
  <2>1. PICK n \in Tools : http' = http \cup {n}
    BY <1>2 DEF P!RegisterHttpTool
  <2>2. UNCHANGED <<tools, offers, stage, shown>>
    BY <1>2 DEF P!RegisterHttpTool, P!chatVars
  <2>3. shown \in [Chats -> SUBSET (DOMAIN tools \cup http' \cup {"unknown"})]
    BY <2>1 DEF RouterInv
  <2> QED BY <2>1, <2>2, <2>3 DEF RouterInv
<1>3. CASE P!RegisterMcpServer
  <2>1. PICK s \in Servers, o \in P!Offers :
          /\ offers' = P!With(offers, {s}, LAMBDA n : o)
          /\ tools' = P!With(tools, P!ToSet(o) \ {Nameless}, LAMBDA n : P!Mcp(s, P!Last(o)))
    BY <1>3 DEF P!RegisterMcpServer
  <2>2. UNCHANGED <<http, stage, shown>>
    BY <1>3 DEF P!RegisterMcpServer, P!chatVars
  <2>3. /\ DOMAIN offers' = DOMAIN offers \cup {s}
        /\ \A k \in DOMAIN offers' : offers'[k] = IF k \in {s} THEN o ELSE offers[k]
    BY <2>1 DEF P!With
  <2>4. /\ DOMAIN tools' = DOMAIN tools \cup (ToSet(o) \ {Nameless})
        /\ \A k \in DOMAIN tools' :
             tools'[k] = IF k \in ToSet(o) \ {Nameless} THEN P!Mcp(s, P!Last(o)) ELSE tools[k]
    BY <2>1, PluginLists DEF P!With
  <2>5. P!Mcp(s, P!Last(o)).kind = "mcp" /\ P!Mcp(s, P!Last(o)).server = s
    BY DEF P!Mcp
  <2>6. ToSet(o) \ {Nameless} \subseteq Tools
    BY OffersTyped
  <2>7. \A k \in DOMAIN tools' : /\ tools'[k].kind \in {"local", "mcp"}
                                 /\ tools'[k].kind = "mcp" => tools'[k].server \in DOMAIN offers'
    BY <2>3, <2>4, <2>5 DEF RouterInv
  <2>8. \A k \in DOMAIN offers' : ToSet(offers'[k]) \subseteq DOMAIN tools' \cup {Nameless}
    BY <2>3, <2>4 DEF RouterInv
  <2>9. shown \in [Chats -> SUBSET (DOMAIN tools' \cup http \cup {"unknown"})]
    BY <2>4 DEF RouterInv
  <2> QED BY <2>2, <2>3, <2>4, <2>6, <2>7, <2>8, <2>9 DEF RouterInv
<1> QED BY <1>1, <1>2, <1>3

LEMMA RouterChat ==
  ASSUME RouterInv, NEW c \in Chats, P!Ask(c) \/ P!PostGenerate(c) PROVE RouterInv'
<1>1. UNCHANGED <<tools, http, offers>>
  BY DEF P!Ask, P!PostGenerate, P!routerVars
<1>2. P!Defined \subseteq DOMAIN tools \cup http \cup {"unknown"}
  BY PluginLists DEF P!Defined, P!Listed, RouterInv
<1>3. PICK list \in SUBSET (DOMAIN tools \cup http \cup {"unknown"}) : shown' = [shown EXCEPT ![c] = list]
  BY <1>2 DEF P!Ask, P!PostGenerate
<1>4. PICK at \in {"idle", "asked"} : stage' = [stage EXCEPT ![c] = at]
  BY DEF P!Ask, P!PostGenerate
<1> QED BY <1>1, <1>3, <1>4 DEF RouterInv

LEMMA RouterHolds == RouterInv => P!ListedIsCallable
<1> SUFFICES ASSUME RouterInv PROVE P!ListedIsCallable
  OBVIOUS
<1>1. ASSUME NEW n \in DOMAIN tools \cup http PROVE P!Handler(n) # P!None
  <2>1. CASE n \in DOMAIN tools
    <3>1. tools[n].kind # "none"
      BY <2>1 DEF RouterInv
    <3>2. P!None.kind = "none"
      BY DEF P!None
    <3> QED BY <2>1, <3>1, <3>2 DEF P!Handler
  <2>2. CASE n \notin DOMAIN tools /\ n \in http
    <3>1. P!None.kind = "none" /\ P!Http(n).kind = "http"
      BY DEF P!None, P!Http
    <3> QED BY <2>2, <3>1 DEF P!Handler
  <2> QED BY <2>1, <2>2
<1>2. \A c \in Chats : shown[c] \ {"unknown"} \subseteq DOMAIN tools \cup http
  BY DEF RouterInv
<1>3. \A n \in DOMAIN tools : tools[n].kind = "mcp" => tools[n].server \in DOMAIN offers
  BY DEF RouterInv
<1> QED BY <1>1, <1>2, <1>3 DEF P!ListedIsCallable

-----------------------------------------------------------------------------
(* A look-up moves its prefix to the end of uses.                          *)
LEMMA UsesMoved ==
  ASSUME CacheInv, NEW p \in Heads, uses' = P!Used(p)
  PROVE uses' \in Seq(Heads) /\ IsInjective(uses') /\ Moved(uses, uses', p)
<1>1. uses \in Seq(Heads) /\ IsInjective(uses)
  BY DEF CacheInv, CacheTyped
<1>2. uses' = Append(RemoveFirst(uses, p), p)
  BY PluginLists DEF P!Used
<1> DEFINE u == uses'
<1>3. u = Append(RemoveFirst(uses, p), p)
  BY <1>2
<1> HIDE DEF u
<1>4. u \in Seq(Heads) /\ IsInjective(u) /\ Moved(uses, u, p)
  BY <1>1, <1>3, MovedToEnd
<1> QED BY <1>4 DEF u

Refreshed(c, p, t) ==
  [i \in DOMAIN c |-> IF c[i].prefix = p THEN [c[i] EXCEPT !.last = t] ELSE c[i]]

LEMMA HitKept ==
  ASSUME CacheInv, NEW p \in Heads, NEW t \in {time, time + 1}, NEW k \in 1..Len(cache),
         cache[k].prefix = p, NEW u \in Seq(Heads), IsInjective(u), Moved(uses, u, p), NEW c,
         c = Refreshed(cache, p, t)
  PROVE /\ CacheTyped(c, u, t, misses) /\ CacheFilled(c, u, misses)
        /\ ~ unsteady /\ t # time => CacheOrdered(c, u)
<1> DEFINE n == Len(cache)
<1>1. /\ cache \in Seq(Entry) /\ uses \in Seq(Heads) /\ time \in Nat /\ misses \in Nat
      /\ \A i, j \in 1..n : cache[i].prefix = cache[j].prefix => i = j
      /\ \A i \in 1..n : cache[i].last <= time /\ cache[i].prefix \in ToSet(uses)
      /\ CacheFilled(cache, uses, misses)
  BY DEF CacheInv, CacheTyped
<1>2. n \in Nat /\ DOMAIN cache = 1..n /\ \A i \in 1..n : cache[i] \in Entry
  BY <1>1
<1>3. t \in Nat /\ time <= t
  BY <1>1
<1> HIDE DEF n
<1>4. \A i \in 1..n : /\ c[i] \in Entry /\ c[i].prefix = cache[i].prefix
                      /\ c[i].last = IF i = k THEN t ELSE cache[i].last
  <2> TAKE i \in 1..n
  <2>1. CASE i = k
    <3>1. c[i] = [cache[i] EXCEPT !.last = t]
      BY <1>2, <2>1 DEF Refreshed
    <3>2. cache[i] \in Entry
      BY <1>2
    <3> QED BY <1>3, <2>1, <3>1, <3>2 DEF Entry
  <2>2. CASE i # k
    <3>1. cache[i].prefix # p
      BY <1>1, <2>2 DEF n
    <3>2. c[i] = cache[i]
      BY <1>2, <3>1 DEF Refreshed
    <3> QED BY <1>2, <2>2, <3>2
  <2> QED BY <2>1, <2>2
<1>5. c \in Seq(Entry) /\ Len(c) = n
  <2>1. DOMAIN c = 1..n
    BY <1>2 DEF Refreshed
  <2>2. c \in [1..n -> Entry]
    <3>1. c = [i \in 1..n |-> c[i]]
      BY <1>2 DEF Refreshed
    <3> QED BY <1>4, <3>1
  <2> QED BY <1>2, <2>2
<1>6. p \in ToSet(uses) /\ ToSet(u) = ToSet(uses) /\ Len(u) = Len(uses) /\ u[Len(u)] = p
  <2>1. p \in ToSet(uses)
    BY <1>1 DEF n
  <2> QED BY <2>1 DEF Moved
<1>7. CacheTyped(c, u, t, misses)
  <2>1. \A i \in 1..n : c[i].last <= t
    <3>1. \A i \in 1..n : cache[i].last \in Nat /\ cache[i].last <= time
      BY <1>1, <1>2 DEF Entry, n
    <3> TAKE i \in 1..n
    <3>2. CASE i = k
      BY <1>3, <1>4, <3>2
    <3>3. CASE i # k
      <4>1. c[i].last = cache[i].last /\ cache[i].last \in Nat /\ cache[i].last <= time
        BY <1>4, <3>1, <3>3
      <4> QED BY <1>1, <1>3, <4>1
    <3> QED BY <3>2, <3>3
  <2>2. \A i, j \in 1..n : c[i].prefix = c[j].prefix => i = j
    BY <1>1, <1>4 DEF n
  <2>3. \A i \in 1..n : c[i].prefix \in ToSet(u)
    BY <1>1, <1>4, <1>6 DEF n
  <2> QED BY <1>1, <1>3, <1>5, <2>1, <2>2, <2>3 DEF CacheTyped
<1>8. CacheFilled(c, u, misses)
  BY <1>1, <1>4, <1>5, <1>6 DEF CacheFilled, n
<1>9. ASSUME ~ unsteady, t # time PROVE CacheOrdered(c, u)
  <2>1. t = time + 1 /\ CacheOrdered(cache, uses)
    BY <1>9 DEF CacheInv
  <2> SUFFICES ASSUME NEW i \in 1..Len(c), NEW a \in 1..Len(u), NEW b \in 1..Len(u),
                      u[a] = c[i].prefix, a < b
               PROVE \E j \in 1..Len(c) : u[b] = c[j].prefix /\ c[i].last < c[j].last
    BY DEF CacheOrdered
  <2>9. i \in 1..n
    BY <1>5
  <2>2. u[a] # p
    BY DEF Moved
  <2>3. PICK a0 \in 1..Len(uses) :
          u[a] = uses[a0] /\ (b = Len(u) \/ \E b0 \in 1..Len(uses) : a0 < b0 /\ u[b] = uses[b0])
    BY DEF Moved
  <2>4. i # k /\ c[i].last = cache[i].last /\ c[i].prefix = cache[i].prefix
    BY <1>4, <2>2, <2>9
  <2>5. cache[i].last \in Nat /\ cache[i].last <= time
    BY <1>1, <1>2, <2>9 DEF Entry, n
  <2>6. c[k].last = t /\ c[k].prefix = p /\ k \in 1..n /\ c[i].last < t
    <3>1. c[k].last = t /\ c[k].prefix = p /\ k \in 1..n
      BY <1>4 DEF n
    <3>2. cache[i].last < t
      <4>1. time \in Nat /\ t = time + 1
        BY <1>1, <2>1
      <4> QED BY <2>5, <4>1
    <3> QED BY <2>4, <3>1, <3>2
  <2>7. CASE b = Len(u)
    BY <1>5, <1>6, <2>6, <2>7
  <2>8. CASE \E b0 \in 1..Len(uses) : a0 < b0 /\ u[b] = uses[b0]
    <3>1. PICK b0 \in 1..Len(uses) : a0 < b0 /\ u[b] = uses[b0]
      BY <2>8
    <3>2. PICK j \in 1..n : uses[b0] = cache[j].prefix /\ cache[i].last < cache[j].last
      BY <2>1, <2>3, <2>4, <2>9, <3>1 DEF CacheOrdered, n
    <3>3. CASE j = k
      BY <1>4, <1>5, <2>6, <3>1, <3>2, <3>3
    <3>4. CASE j # k
      BY <1>4, <1>5, <2>4, <3>1, <3>2, <3>4
    <3> QED BY <3>3, <3>4
  <2> QED BY <2>3, <2>7, <2>8
<1> QED BY <1>7, <1>8, <1>9

(* The entry that is evicted has the smallest last_hit.                    *)
LEMMA OldestEntry ==
  ASSUME CacheInv, Len(cache) # 0
  PROVE P!Oldest \in 1..Len(cache) /\ \A j \in 1..Len(cache) : cache[P!Oldest].last <= cache[j].last
<1> DEFINE n == Len(cache)
           D == 1..n
           R == {y \in D \X D : \/ cache[y[1]].last < cache[y[2]].last
                                \/ cache[y[1]].last = cache[y[2]].last /\ y[1] <= y[2]}
<1>1. n \in Nat /\ n # 0 /\ DOMAIN cache = D /\ \A i \in D : cache[i].last \in Nat
  <2>1. cache \in Seq(Entry)
    BY DEF CacheInv, CacheTyped
  <2>2. n \in Nat /\ n # 0 /\ DOMAIN cache = D
    BY <2>1
  <2>3. \A i \in D : cache[i] \in Entry
    BY <2>1
  <2> QED BY <2>2, <2>3 DEF Entry
<1>2. \A i, j \in D : <<i, j>> \in R <=> \/ cache[i].last < cache[j].last
                                         \/ cache[i].last = cache[j].last /\ i <= j
  OBVIOUS
<1> HIDE DEF R
<1>3. IsFiniteSet(D) /\ D # {} /\ \A i \in D : i \in Nat
  <2>1. 1 \in D /\ \A i \in D : i \in Nat
    BY <1>1
  <2>2. IsFiniteSet(D)
    BY <1>1, FS_Interval
  <2> QED BY <2>1, <2>2
<1>4. Orders(R, D)
  <2>1. \A i, j \in D : i # j => <<i, j>> \in R \/ <<j, i>> \in R
    BY <1>1, <1>2, <1>3
  <2>2. \A i, j, k \in D : <<i, j>> \in R /\ <<j, k>> \in R => <<i, k>> \in R
    BY <1>1, <1>2, <1>3
  <2> QED BY <2>1, <2>2 DEF Orders
<1> HIDE DEF D
<1>5. PICK x \in D : \A y \in D : y # x => <<x, y>> \in R
  BY <1>3, <1>4, FirstOf
<1>6. \A y \in D : cache[x].last < cache[y].last \/ (cache[x].last = cache[y].last /\ x <= y)
  <2> TAKE y \in D
  <2>1. CASE y = x
    BY <1>3, <2>1
  <2>2. CASE y # x
    <3>1. <<x, y>> \in R
      BY <1>5, <2>2
    <3> QED BY <1>2, <3>1
  <2> QED BY <2>1, <2>2
<1>7. /\ P!Oldest \in D
      /\ \A j \in D : \/ cache[P!Oldest].last < cache[j].last
                      \/ cache[P!Oldest].last = cache[j].last /\ P!Oldest <= j
  BY <1>1, <1>6 DEF P!Oldest
<1>8. \A j \in D : cache[P!Oldest].last <= cache[j].last
  BY <1>1, <1>7
<1> QED BY <1>7, <1>8 DEF D

(* What is kept when a prefix is added: with a full cache all but the      *)
(* oldest entry.                                                           *)
Keeps(c, o, kept) ==
  /\ kept \in Seq(Entry) /\ \A i \in 1..Len(kept) : \E j \in 1..Len(c) : j # o /\ kept[i] = c[j]
  /\ \A j \in 1..Len(c) : j # o => \E i \in 1..Len(kept) : kept[i] = c[j]
  /\ \A i, j \in 1..Len(kept) : kept[i].prefix = kept[j].prefix => i = j

LEMMA KeptEntries ==
  ASSUME CacheInv
  PROVE /\ Len(cache) < MaxCached => Keeps(cache, 0, P!Kept) /\ Len(P!Kept) = Len(cache)
        /\ ~ (Len(cache) < MaxCached) => Keeps(cache, P!Oldest, P!Kept) /\ Len(P!Kept) = Len(cache) - 1
<1> DEFINE n == Len(cache)
<1>1. /\ cache \in Seq(Entry) /\ n \in Nat /\ \A i \in 1..n : cache[i] \in Entry
      /\ \A i, j \in 1..n : cache[i].prefix = cache[j].prefix => i = j
  BY DEF CacheInv, CacheTyped
<1>2. MaxCached \in Nat \ {0}
  BY PluginNumbers
<1>3. CASE n < MaxCached
  <2>1. P!Kept = cache
    BY <1>1, <1>2, <1>3 DEF P!Kept
  <2>2. \A j \in 1..n : j # 0
    BY <1>1
  <2>3. Keeps(cache, 0, cache)
    BY <1>1, <2>2 DEF Keeps
  <2> QED BY <1>3, <2>1, <2>3
<1>4. CASE ~ (n < MaxCached)
  <2> DEFINE o == P!Oldest
             r == RemoveAt(cache, o)
             m == n - 1
  <2>1. n # 0 /\ m \in Nat /\ m + 1 = n
    BY <1>1, <1>2, <1>4
  <2>2. o \in 1..n
    BY <2>1, OldestEntry
  <2>3. P!Kept = r
    BY <1>1, <1>2, <1>4, PluginLists DEF P!Kept
  <2> HIDE DEF o
  <2>4. /\ r \in Seq(Entry) /\ Len(r) = m
        /\ \A i \in 1..m : r[i] = cache[IF i < o THEN i ELSE i + 1]
    BY <1>1, <2>2, Removed
  <2> HIDE DEF r
  <2>5. ASSUME NEW i \in 1..m PROVE \E j \in 1..n : j # o /\ r[i] = cache[j]
    <3>1. CASE i < o
      BY <2>1, <2>4, <3>1
    <3>2. CASE ~ (i < o)
      <4>1. i + 1 \in 1..n /\ i + 1 # o
        BY <2>1, <2>2, <3>2
      <4> QED BY <2>4, <3>2, <4>1
    <3> QED BY <3>1, <3>2
  <2>6. ASSUME NEW j \in 1..n, j # o PROVE \E i \in 1..m : r[i] = cache[j]
    <3>1. CASE j < o
      <4>1. j \in 1..m
        BY <2>1, <2>2, <3>1
      <4> QED BY <2>4, <3>1, <4>1
    <3>2. CASE o < j
      <4>1. j - 1 \in 1..m /\ ~ (j - 1 < o) /\ (j - 1) + 1 = j
        BY <2>1, <2>2, <3>2
      <4> QED BY <2>4, <4>1
    <3> QED BY <2>2, <2>6, <3>1, <3>2
  <2>7. ASSUME NEW i \in 1..m, NEW j \in 1..m, r[i].prefix = r[j].prefix PROVE i = j
    <3> DEFINE at(x) == IF x < o THEN x ELSE x + 1
    <3>1. at(i) \in 1..n /\ at(j) \in 1..n /\ r[i] = cache[at(i)] /\ r[j] = cache[at(j)]
      BY <2>1, <2>2, <2>4
    <3>2. at(i) = at(j)
      <4> HIDE DEF at
      <4> QED BY <1>1, <2>7, <3>1
    <3> QED BY <2>1, <2>2, <3>2
  <2>8. Keeps(cache, o, r)
    <3> HIDE DEF m, n
    <3> QED BY <2>4, <2>5, <2>6, <2>7 DEF Keeps, n
  <2> QED BY <1>4, <2>3, <2>4, <2>8 DEF o
<1> QED BY <1>3, <1>4

Added(c, p, t) == Append(c, [prefix |-> p, last |-> t])

LEMMA MissKept ==
  ASSUME CacheInv, NEW p \in Heads, NEW t \in {time, time + 1},
         \A i \in 1..Len(cache) : cache[i].prefix # p,
         NEW u \in Seq(Heads), IsInjective(u), Moved(uses, u, p),
         NEW kept, kept = P!Kept, NEW c, c = Added(kept, p, t)
  PROVE /\ CacheTyped(c, u, t, misses + 1) /\ CacheFilled(c, u, misses + 1)
        /\ ~ unsteady /\ t # time => CacheOrdered(c, u)
<1> DEFINE n == Len(cache)
           z == Len(kept) + 1
<1>1. /\ cache \in Seq(Entry) /\ uses \in Seq(Heads) /\ time \in Nat /\ misses \in Nat
      /\ \A i, j \in 1..n : cache[i].prefix = cache[j].prefix => i = j
      /\ \A i \in 1..n : cache[i].last <= time /\ cache[i].prefix \in ToSet(uses)
      /\ CacheFilled(cache, uses, misses)
  BY DEF CacheInv, CacheTyped
<1>2. n \in Nat /\ Len(uses) \in Nat /\ \A i \in 1..n : cache[i] \in Entry
  BY <1>1
<1>3. t \in Nat /\ time <= t /\ MaxCached \in Nat
  BY <1>1, PluginNumbers
<1>4. \A i \in 1..n : cache[i].last \in Nat /\ cache[i].last <= time
  BY <1>1, <1>2 DEF Entry, n
<1>5. PICK o : /\ Keeps(cache, o, kept)
               /\ n < MaxCached => o = 0 /\ Len(kept) = n
               /\ ~ (n < MaxCached) => o = P!Oldest /\ Len(kept) = n - 1
  BY KeptEntries
<1>6. /\ kept \in Seq(Entry) /\ \A i \in 1..Len(kept) : \E j \in 1..n : j # o /\ kept[i] = cache[j]
      /\ \A j \in 1..n : j # o => \E i \in 1..Len(kept) : kept[i] = cache[j]
      /\ \A i, j \in 1..Len(kept) : kept[i].prefix = kept[j].prefix => i = j
  BY <1>5 DEF Keeps
<1>7. Len(kept) \in Nat /\ z \in Nat /\ [prefix |-> p, last |-> t] \in Entry
  BY <1>3, <1>6 DEF Entry
<1>8. c \in Seq(Entry) /\ Len(c) = z /\ \A i \in 1..Len(kept) : c[i] = kept[i]
  BY <1>6, <1>7 DEF Added
<1>9. c[z].prefix = p /\ c[z].last = t
  <2>1. c[z] = [prefix |-> p, last |-> t]
    BY <1>6, <1>7 DEF Added
  <2> QED BY <2>1
<1>10. \A i \in 1..z : i = z \/ (i \in 1..Len(kept) /\ \E j \in 1..n : j # o /\ c[i] = cache[j])
  <2> TAKE i \in 1..z
  <2>1. CASE i # z
    <3>1. i \in 1..Len(kept)
      BY <1>7, <2>1
    <3>2. PICK j \in 1..n : j # o /\ kept[i] = cache[j]
      BY <1>6, <3>1
    <3>3. c[i] = kept[i]
      BY <1>8, <3>1
    <3>4. c[i] = cache[j]
      BY <3>2, <3>3
    <3> QED BY <3>1, <3>2, <3>4
  <2> QED BY <2>1
<1>11. \A j \in 1..n : j # o => \E i \in 1..z : i # z /\ c[i] = cache[j]
  <2> SUFFICES ASSUME NEW j \in 1..n, j # o PROVE \E i \in 1..z : i # z /\ c[i] = cache[j]
    OBVIOUS
  <2>1. PICK i \in 1..Len(kept) : kept[i] = cache[j]
    BY <1>6
  <2>2. i \in 1..z /\ i # z
    BY <1>7
  <2>3. c[i] = cache[j]
    BY <1>8, <2>1
  <2> QED BY <2>2, <2>3
<1>12. \A i \in 1..z : i # z => c[i].prefix # p /\ c[i].last \in Nat /\ c[i].last <= time
  BY <1>4, <1>10 DEF n
<1>13. ToSet(u) = ToSet(uses) \cup {p} /\ u[Len(u)] = p /\ Len(u) \in Nat
  BY DEF Moved
<1> HIDE DEF n, z
<1>14. CacheTyped(c, u, t, misses + 1)
  <2>1. ASSUME NEW i \in 1..z, NEW j \in 1..z, c[i].prefix = c[j].prefix PROVE i = j
    <3>1. CASE i = z \/ j = z
      BY <1>9, <1>12, <2>1, <3>1
    <3>2. CASE i # z /\ j # z
      <4>1. i \in 1..Len(kept) /\ j \in 1..Len(kept)
        BY <1>10, <3>2
      <4>2. c[i] = kept[i] /\ c[j] = kept[j]
        BY <1>8, <4>1
      <4>3. kept[i].prefix = kept[j].prefix
        BY <2>1, <4>2
      <4>4. \A x, y \in 1..Len(kept) : kept[x].prefix = kept[y].prefix => x = y
        BY <1>6
      <4> QED BY <4>1, <4>3, <4>4
    <3> QED BY <3>1, <3>2
  <2>2. ASSUME NEW i \in 1..z PROVE c[i].last <= t
    <3>1. CASE i = z
      BY <1>3, <1>9, <3>1
    <3>2. CASE i # z
      BY <1>1, <1>3, <1>12, <3>2
    <3> QED BY <3>1, <3>2
  <2>3. ASSUME NEW i \in 1..z PROVE c[i].prefix \in ToSet(u)
    <3>1. CASE i = z
      BY <1>9, <1>13, <3>1
    <3>2. CASE i # z
      BY <1>1, <1>10, <1>13, <3>2
    <3> QED BY <3>1, <3>2
  <2>4. misses + 1 \in Nat
    BY <1>1
  <2> QED BY <1>3, <1>8, <2>1, <2>2, <2>3, <2>4 DEF CacheTyped
<1>15. CacheFilled(c, u, misses + 1)
  <2>1. /\ n = (IF Len(uses) < MaxCached THEN Len(uses) ELSE MaxCached)
        /\ Len(uses) <= MaxCached => \A q \in ToSet(uses) : \E i \in 1..n : cache[i].prefix = q
        /\ Len(uses) <= misses
    BY <1>1 DEF CacheFilled, n
  <2>2. Len(u) = (IF p \in ToSet(uses) THEN Len(uses) ELSE Len(uses) + 1)
    BY DEF Moved
  <2>3. Len(uses) <= MaxCached => p \notin ToSet(uses)
    BY <2>1 DEF n
  <2>4. Len(u) <= misses + 1
    BY <1>1, <1>2, <2>1, <2>2
  <2>5. CASE n < MaxCached
    <3>1. n = Len(uses) /\ Len(u) = n + 1 /\ z = n + 1 /\ o = 0
      BY <1>2, <1>3, <1>5, <2>1, <2>2, <2>3, <2>5 DEF z
    <3>2. Len(c) = IF Len(u) < MaxCached THEN Len(u) ELSE MaxCached
      BY <1>2, <1>3, <1>8, <2>5, <3>1
    <3>3. ASSUME NEW q \in ToSet(u) PROVE \E i \in 1..z : c[i].prefix = q
      <4>1. CASE q = p
        BY <1>7, <1>9, <3>1, <1>2, <4>1
      <4>2. CASE q # p
        <5>1. q \in ToSet(uses)
          BY <1>13, <4>2
        <5>2. PICK j \in 1..n : cache[j].prefix = q
          BY <1>2, <1>3, <2>1, <2>5, <3>1, <5>1
        <5>3. j # o
          BY <1>2, <3>1
        <5> QED BY <1>11, <5>2, <5>3
      <4> QED BY <4>1, <4>2
    <3> QED BY <1>8, <2>4, <3>2, <3>3 DEF CacheFilled
  <2>6. CASE ~ (n < MaxCached)
    <3>1. n = MaxCached /\ z = n /\ Len(uses) >= MaxCached
      BY <1>2, <1>3, <1>5, <2>1, <2>6 DEF z
    <3>2. ~ (Len(u) <= MaxCached)
      BY <1>2, <1>3, <2>2, <2>3, <3>1
    <3> QED BY <1>3, <1>8, <1>13, <2>4, <3>1, <3>2 DEF CacheFilled
  <2> QED BY <2>5, <2>6
<1>16. ASSUME ~ unsteady, t # time PROVE CacheOrdered(c, u)
  <2>1. t = time + 1 /\ CacheOrdered(cache, uses)
    BY <1>16 DEF CacheInv
  <2> SUFFICES ASSUME NEW i \in 1..Len(c), NEW a \in 1..Len(u), NEW b \in 1..Len(u),
                      u[a] = c[i].prefix, a < b
               PROVE \E j \in 1..Len(c) : u[b] = c[j].prefix /\ c[i].last < c[j].last
    BY DEF CacheOrdered
  <2>2. u[a] # p
    BY DEF Moved
  <2>3. PICK a0 \in 1..Len(uses) :
          u[a] = uses[a0] /\ (b = Len(u) \/ \E b0 \in 1..Len(uses) : a0 < b0 /\ u[b] = uses[b0])
    BY DEF Moved
  <2>4. i \in 1..z /\ i # z
    BY <1>8, <1>9, <2>2
  <2>5. PICK i0 \in 1..n : i0 # o /\ c[i] = cache[i0]
    BY <1>10, <2>4
  <2>6. c[i].last < c[z].last /\ z \in 1..Len(c)
    <3>1. c[i].last < t
      <4>1. c[i].last \in Nat /\ c[i].last <= time /\ time \in Nat
        BY <1>1, <1>12, <2>4
      <4> QED BY <2>1, <4>1
    <3> QED BY <1>7, <1>8, <1>9, <3>1 DEF z
  <2>7. CASE b = Len(u)
    BY <1>9, <1>13, <2>6, <2>7
  <2>8. CASE \E b0 \in 1..Len(uses) : a0 < b0 /\ u[b] = uses[b0]
    <3>1. PICK b0 \in 1..Len(uses) : a0 < b0 /\ u[b] = uses[b0]
      BY <2>8
    <3>2. uses[a0] = cache[i0].prefix
      BY <2>3, <2>5
    <3>3. PICK j \in 1..n : uses[b0] = cache[j].prefix /\ cache[i0].last < cache[j].last
      BY <2>1, <3>1, <3>2 DEF CacheOrdered, n
    <3>4. j # o
      <4>1. CASE n < MaxCached
        BY <1>2, <1>5, <4>1
      <4>2. CASE ~ (n < MaxCached)
        <5>1. n # 0
          BY <1>2
        <5>2. cache[P!Oldest].last <= cache[i0].last
          BY <5>1, OldestEntry DEF n
        <5>3. cache[i0].last \in Nat /\ cache[j].last \in Nat
          BY <1>4
        <5>4. P!Oldest \in 1..n
          BY <5>1, OldestEntry DEF n
        <5>5. cache[P!Oldest].last \in Nat
          BY <1>4, <5>4
        <5>6. \A x, y, w \in Nat : x <= y /\ y < w => x # w
          OBVIOUS
        <5>7. cache[P!Oldest].last # cache[j].last
          BY <3>3, <5>2, <5>3, <5>5, <5>6
        <5> QED BY <1>5, <4>2, <5>7
      <4> QED BY <4>1, <4>2
    <3>5. PICK k \in 1..z : c[k] = cache[j]
      BY <1>11, <3>4
    <3> QED BY <1>8, <2>5, <3>1, <3>3, <3>5
  <2> QED BY <2>3, <2>7, <2>8
<1> QED BY <1>14, <1>15, <1>16

LEMMA LookUpKeeps == ASSUME CacheInv, unsteady \in BOOLEAN, NEW chat \in Chats,
                            NEW p \in Heads \cup {NoPrefix}, P!LookUp(chat, p)
  PROVE CacheInv' /\ unsteady' \in BOOLEAN
<1>1. CASE p = NoPrefix
  <2>1. UNCHANGED <<cache, uses, time, misses, unsteady>>
    BY <1>1 DEF P!LookUp, P!cacheVars
  <2> QED BY <2>1 DEF CacheInv, CacheTyped, CacheFilled, CacheOrdered
<1>2. CASE p # NoPrefix
  <2> DEFINE t == time'
             u == uses'
             c == cache'
             hit == \E i \in DOMAIN cache : cache[i].prefix = p
  <2>1. /\ t \in {time, time + 1} /\ unsteady' = (unsteady \/ t = time)
        /\ cache' = IF hit THEN P!Touched(p) ELSE Append(P!Kept, [prefix |-> p, last |-> t])
        /\ misses' = misses + (IF hit THEN 0 ELSE 1)
        /\ uses' = P!Used(p)
    BY <1>2 DEF P!LookUp
  <2>2. DOMAIN cache = 1..Len(cache) /\ misses \in Nat
    BY DEF CacheInv, CacheTyped
  <2>3. p \in Heads
    BY <1>2
  <2>4. u \in Seq(Heads) /\ IsInjective(u) /\ Moved(uses, u, p)
    BY <2>1, <2>3, UsesMoved
  <2>5. unsteady' \in BOOLEAN /\ (~ unsteady' => ~ unsteady /\ t # time)
    BY <2>1
  <2>6. CASE hit
    <3>1. PICK k \in 1..Len(cache) : cache[k].prefix = p
      BY <2>2, <2>6
    <3>2. c = Refreshed(cache, p, t) /\ misses' = misses
      <4>1. cache' = P!Touched(p)
        BY <2>1, <2>6
      <4>2. P!Touched(p) = Refreshed(cache, p, time')
        BY DEF P!Touched, Refreshed
      <4>3. misses' = misses + 0
        BY <2>1, <2>6
      <4>4. misses' = misses
        BY <2>2, <4>3
      <4> QED BY <4>1, <4>2, <4>4
    <3> HIDE DEF t, u, c, hit
    <3>3. /\ CacheTyped(c, u, t, misses) /\ CacheFilled(c, u, misses)
          /\ ~ unsteady /\ t # time => CacheOrdered(c, u)
      BY <2>1, <2>3, <2>4, <3>1, <3>2, HitKept
    <3> QED BY <2>5, <3>2, <3>3 DEF CacheInv, t, u, c
  <2>7. CASE ~ hit
    <3> DEFINE kept == P!Kept
    <3>1. \A i \in 1..Len(cache) : cache[i].prefix # p
      BY <2>2, <2>7
    <3>2. c = Added(kept, p, t) /\ misses' = misses + 1
      BY <2>1, <2>2, <2>7 DEF Added
    <3> HIDE DEF t, u, c, hit, kept
    <3>3. kept = P!Kept
      BY DEF kept
    <3>4. /\ CacheTyped(c, u, t, misses + 1) /\ CacheFilled(c, u, misses + 1)
          /\ ~ unsteady /\ t # time => CacheOrdered(c, u)
      BY <2>1, <2>3, <2>4, <3>1, <3>2, <3>3, MissKept
    <3> QED BY <2>5, <3>2, <3>4 DEF CacheInv, t, u, c
  <2> QED BY <2>6, <2>7
<1> QED BY <1>1, <1>2

LEMMA PluginsInit == P!Init => PluginsInv
<1> SUFFICES ASSUME P!Init PROVE PluginsInv
  OBVIOUS
<1>1. cache = <<>> /\ misses = 0 /\ time = 0 /\ uses = <<>> /\ unsteady = FALSE
  BY DEF P!Init
<1>2. /\ <<>> \in Seq(Entry) /\ <<>> \in Seq(Heads) /\ IsInjective(<<>>) /\ Len(<<>>) = 0
      /\ ToSet(<<>>) = {}
  BY DEF IsInjective, ToSet
<1>3. CacheInv
  BY <1>1, <1>2, PluginNumbers DEF CacheInv, CacheTyped, CacheFilled, CacheOrdered
<1> QED BY <1>1, <1>3, RouterInit DEF PluginsInv

LEMMA PluginsStutters == PluginsInv /\ UNCHANGED pluginVars => PluginsInv'
BY DEF pluginVars, PluginsInv, RouterInv, CacheInv, CacheTyped, CacheFilled, CacheOrdered

LEMMA PluginsNext == PluginsInv /\ P!Next => PluginsInv'
<1> SUFFICES ASSUME PluginsInv, P!Next PROVE PluginsInv'
  OBVIOUS
<1>1. CASE P!RegisterTool \/ P!RegisterHttpTool \/ P!RegisterMcpServer
  <2>1. UNCHANGED <<cache, uses, time, misses, unsteady>>
    BY <1>1 DEF P!RegisterTool, P!RegisterHttpTool, P!RegisterMcpServer, P!cacheVars
  <2>2. CacheInv'
    BY <2>1 DEF PluginsInv, CacheInv
  <2>3. unsteady' \in BOOLEAN
    BY <2>1 DEF PluginsInv
  <2> QED BY <1>1, <2>2, <2>3, RouterRegister DEF PluginsInv
<1>2. CASE \E c \in Chats : P!Ask(c)
  <2>1. PICK c \in Chats : P!Ask(c)
    BY <1>2
  <2>2. PICK p \in Heads \cup {NoPrefix} : P!LookUp(c, p)
    BY <2>1 DEF P!Ask
  <2> QED BY <2>1, <2>2, RouterChat, LookUpKeeps DEF PluginsInv
<1>3. CASE \E c \in Chats : P!PostGenerate(c)
  <2>1. UNCHANGED <<cache, uses, time, misses, unsteady>>
    BY <1>3 DEF P!PostGenerate, P!cacheVars
  <2>2. CacheInv'
    BY <2>1 DEF PluginsInv, CacheInv
  <2>3. unsteady' \in BOOLEAN
    BY <2>1 DEF PluginsInv
  <2> QED BY <1>3, <2>2, <2>3, RouterChat DEF PluginsInv
<1> QED BY <1>1, <1>2, <1>3 DEF P!Next

LEMMA EndOf ==
  ASSUME NEW S, NEW w \in Seq(S), NEW m \in Nat, m <= Len(w)
  PROVE  LET s == SubSeq(w, m + 1, Len(w)) IN
         /\ Len(s) = Len(w) - m /\ DOMAIN s = 1..(Len(w) - m)
         /\ \A i \in 1..(Len(w) - m) : s[i] = w[m + i]
<1> DEFINE l == Len(w)
<1>1. l \in Nat /\ m + 1 \in 1..(l + 1)
  OBVIOUS
<1>2. SubSeq(w, m + 1, l) = [i \in 1..(l - m) |-> w[m + i]]
  <2>1. l - (m + 1) + 1 = l - m /\ \A i \in 1..(l - m) : (m + 1) + i - 1 = m + i
    BY <1>1
  <2> QED BY <1>1, <2>1
<1>3. Len([i \in 1..(l - m) |-> w[m + i]]) = l - m
  BY <1>1
<1> QED BY <1>2, <1>3

(* As many entries as uses has last ones, and each entry is one of them.   *)
LEMMA CacheHolds == CacheInv => P!CacheKeepsTheRecent
<1> SUFFICES ASSUME CacheInv PROVE P!CacheKeepsTheRecent
  OBVIOUS
<1> DEFINE cached == {cache[i].prefix : i \in DOMAIN cache}
           l == Len(uses)
           k == Len(cache)
           n == IF l < MaxCached THEN l ELSE MaxCached
           prefixes == [i \in 1..k |-> cache[i].prefix]
           places == {a \in 1..l : uses[a] \in cached}
           others == (1..l) \ places
<1>1. /\ uses \in Seq(Heads) /\ l \in Nat /\ DOMAIN uses = 1..l
      /\ k \in Nat /\ DOMAIN cache = 1..k /\ k = n /\ l <= misses
      /\ \A i, j \in 1..k : cache[i].prefix = cache[j].prefix => i = j
      /\ \A i \in 1..k : cache[i].prefix \in ToSet(uses)
      /\ IsInjective(uses)
  BY DEF CacheInv, CacheTyped, CacheFilled
<1>2. \A x : x \in cached <=> \E i \in 1..k : cache[i].prefix = x
  BY <1>1
<1> HIDE DEF cached, k, l
<1>3. Cardinality(cached) = k
  <2>1. Numbered(cached, 1..k, k, prefixes)
    BY <1>1, <1>2 DEF Numbered
  <2>2. 1 \in Int /\ k \in Int
    BY <1>1
  <2>3. Cardinality(1..k) = IF 1 > k THEN 0 ELSE k - 1 + 1
    BY <2>2, FS_Interval
  <2>4. Cardinality(1..k) = k
    BY <1>1, <2>3
  <2> QED BY <2>1, <2>4, Taken
<1>4. Cardinality(places) = k
  <2>1. \A x \in cached : \E a \in 1..l : uses[a] = x
    BY <1>1, <1>2 DEF ToSet
  <2>2. Numbered(cached, places, l, uses)
    <3>1. \A a, b \in 1..l : uses[a] = uses[b] => a = b
      BY <1>1 DEF IsInjective
    <3>2. \A a \in places : uses[a] \in cached
      OBVIOUS
    <3>3. \A x \in cached : \E a \in places : x = uses[a]
      BY <2>1
    <3> QED BY <1>1, <3>1, <3>2, <3>3 DEF Numbered
  <2> QED BY <1>3, <2>2, Taken
<1>5. ASSUME ~ unsteady PROVE cached = P!ToSet(SubSeq(uses, l - n + 1, l))
  <2>1. \A a \in places : \A b \in 1..l : a < b => b \in places
    <3> SUFFICES ASSUME NEW a \in places, NEW b \in 1..l, a < b PROVE uses[b] \in cached
      OBVIOUS
    <3>1. PICK i \in 1..k : cache[i].prefix = uses[a]
      BY <1>2
    <3>2. CacheOrdered(cache, uses)
      BY <1>5 DEF CacheInv
    <3>3. \E j \in 1..k : uses[b] = cache[j].prefix
      BY <3>1, <3>2 DEF CacheOrdered, k, l
    <3> QED BY <1>2, <3>3
  <2>2. others \in SUBSET (1..l) /\ \A a \in others : \A b \in 1..l : b < a => b \in others
    BY <2>1
  <2>3. \A a \in 1..l : a \in places <=> a \notin others
    OBVIOUS
  <2>4. places \subseteq 1..l
    OBVIOUS
  <2> HIDE DEF places, others
  <2> DEFINE m == Cardinality(others)
  <2>5. m \in Nat /\ others = 1..m
    BY <1>1, <2>2, Beginning
  <2> HIDE DEF m
  <2>6. m <= l
    <3>1. m = 0 \/ m \in 1..m
      BY <2>5
    <3>2. 1..m \subseteq 1..l
      BY <2>2, <2>5
    <3> QED BY <1>1, <2>5, <3>1, <3>2
  <2>7. places = (m + 1)..l
    <3>1. ASSUME NEW a \in places PROVE a \in (m + 1)..l
      <4>1. a \in 1..l /\ a \notin 1..m
        BY <2>3, <2>4, <2>5
      <4> QED BY <1>1, <2>5, <4>1
    <3>2. ASSUME NEW a \in (m + 1)..l PROVE a \in places
      <4>1. a \in 1..l /\ a \notin 1..m
        BY <1>1, <2>5
      <4> QED BY <2>3, <2>5, <4>1
    <3> QED BY <3>1, <3>2
  <2>8. Cardinality((m + 1)..l) = l - m
    <3>1. m + 1 \in Int /\ l \in Int
      BY <1>1, <2>5
    <3>2. Cardinality((m + 1)..l) = IF m + 1 > l THEN 0 ELSE l - (m + 1) + 1
      BY <3>1, FS_Interval
    <3> QED BY <1>1, <2>5, <2>6, <3>2
  <2>9. m = l - k
    BY <1>1, <1>4, <2>5, <2>7, <2>8
  <2> DEFINE s == SubSeq(uses, m + 1, l)
  <2>10. Len(s) = l - m /\ DOMAIN s = 1..(l - m) /\ \A i \in 1..(l - m) : s[i] = uses[m + i]
    <3>1. uses \in Seq(Heads) /\ Len(uses) = l /\ l \in Nat /\ m \in Nat
      BY <1>1, <2>5
    <3> QED BY <2>6, <3>1, EndOf
  <2> HIDE DEF s
  <2>11. ToSet(s) = cached
    <3>1. ASSUME NEW x \in ToSet(s) PROVE x \in cached
      <4>1. PICK i \in 1..(l - m) : x = uses[m + i]
        BY <2>10 DEF ToSet
      <4>2. m + i \in places
        BY <1>1, <2>5, <2>6, <2>7
      <4> QED BY <4>1, <4>2 DEF places
    <3>2. ASSUME NEW x \in cached PROVE x \in ToSet(s)
      <4>1. PICK a \in 1..l : uses[a] = x
        BY <1>1, <1>2 DEF ToSet
      <4>2. a \in places
        BY <4>1 DEF places
      <4>3. a - m \in 1..(l - m) /\ m + (a - m) = a
        BY <1>1, <2>5, <2>6, <2>7, <4>2
      <4>4. s[a - m] = x
        BY <2>10, <4>1, <4>3
      <4> QED BY <2>10, <4>3, <4>4 DEF ToSet
    <3> QED BY <3>1, <3>2
  <2>12. l - n + 1 = m + 1
    BY <1>1, <2>9
  <2> QED BY <2>11, <2>12, PluginLists DEF s
<1>6. P!Cardinality(cached) = k
  BY <1>3, PluginLists
<1> QED BY <1>1, <1>5, <1>6 DEF P!CacheKeepsTheRecent, cached, k, l

LEMMA PluginsHold == PluginsInv => P!TypeOK /\ P!ListedIsCallable /\ P!CacheKeepsTheRecent
<1> SUFFICES ASSUME PluginsInv PROVE P!TypeOK
  BY RouterHolds, CacheHolds DEF PluginsInv
<1>1. /\ cache \in Seq(Entry) /\ uses \in Seq(Heads) /\ time \in Nat
      /\ \A i \in 1..Len(cache) : cache[i].last <= time
  BY DEF PluginsInv, CacheInv, CacheTyped
<1>2. \A i \in DOMAIN cache : cache[i].prefix \in Heads /\ cache[i].last \in 0..time
  <2>1. DOMAIN cache = 1..Len(cache) /\ \A i \in DOMAIN cache : cache[i] \in Entry
    BY <1>1
  <2>2. \A i \in DOMAIN cache : cache[i].prefix \in Heads /\ cache[i].last \in Nat
    BY <2>1 DEF Entry
  <2> QED BY <1>1, <2>1, <2>2
<1>3. P!ToSet(uses) \subseteq Heads
  BY <1>1, PluginLists DEF ToSet
<1> QED BY <1>2, <1>3 DEF P!TypeOK, PluginsInv, RouterInv

-----------------------------------------------------------------------------
(* ByteCounter.  What was moved, and one column of a list of records.      *)
Moving(S) == SumFunctionOnSet([m \in S |-> m.bytes], S)
Column(rs, k) == SumFunctionOnSet([i \in DOMAIN rs |-> rs[i][k]], DOMAIN rs)
Amounts == [Kinds -> Nat]
Moves == [id : Nat, kind : Kinds, bytes : {1, 2}, token : Nat]
Of(S, k, T) == {m \in S : m.kind = k /\ m.token \in T}

(* Moves are numbered in their order, so that no two are the same.         *)
MovesTyped == /\ IsFiniteSet(moved) /\ moved \subseteq Moves
              /\ \A m \in moved : m.id < Cardinality(moved) /\ m.token <= tokens.count
TokensTyped == /\ tokens \in [count : Nat, open : BOOLEAN]
               /\ tokens.open => tokens.count >= 1
               /\ tokens.open <=> current # <<>>
Ledger(k) == /\ cumulative[k] = Moving(Of(moved, k, 0..tokens.count))
             /\ Column(history, k) + Column(current, k) = Moving(Of(moved, k, 1..tokens.count))
             /\ tokens.open => current[1][k] = Moving(Of(moved, k, {tokens.count}))
BytesInv == B!TypeOK /\ MovesTyped /\ TokensTyped /\ \A k \in Kinds : Ledger(k)

LEMMA CounterSums ==
  /\ \A S : B!Amount(S) = Moving(S)
  /\ \A rs, k : B!Total(rs, k) = Column(rs, k)
  /\ \A S : B!Cardinality(S) = Cardinality(S) /\ B!Max(S) = (CHOOSE x \in S : \A y \in S : x >= y)
<1>1. \A f : B!SumFunction(f) = SumFunctionOnSet(f, DOMAIN f)
  BY DEF B!SumFunction, B!SumFunctionOnSet, B!FoldFunctionOnSet, B!MapThenFoldSet,
         SumFunctionOnSet, FoldFunctionOnSet, MapThenFoldSet
<1>2. ASSUME NEW S PROVE B!Amount(S) = Moving(S)
  <2> DEFINE f == [m \in S |-> m.bytes]
  <2>1. DOMAIN f = S
    OBVIOUS
  <2>2. B!Amount(S) = SumFunctionOnSet(f, DOMAIN f)
    BY <1>1 DEF B!Amount
  <2> QED BY <2>1, <2>2 DEF Moving
<1>3. ASSUME NEW rs, NEW k PROVE B!Total(rs, k) = Column(rs, k)
  <2> DEFINE f == [i \in DOMAIN rs |-> rs[i][k]]
  <2>1. DOMAIN f = DOMAIN rs
    OBVIOUS
  <2>2. B!Total(rs, k) = SumFunctionOnSet(f, DOMAIN f)
    BY <1>1 DEF B!Total
  <2> QED BY <2>1, <2>2 DEF Column
<1>4. \A S : B!Cardinality(S) = Cardinality(S) /\ B!Max(S) = (CHOOSE x \in S : \A y \in S : x >= y)
  BY DEF B!Cardinality, Cardinality, B!Max
<1> QED BY <1>2, <1>3, <1>4

LEMMA MovingNone == Moving({}) = 0
BY SumEmpty DEF Moving

LEMMA MovingNat == ASSUME NEW S \in SUBSET Moves, IsFiniteSet(S) PROVE Moving(S) \in Nat
<1> DEFINE w == [m \in S |-> m.bytes]
<1>1. Valued(w, S)
  BY DEF Valued, Moves
<1> QED BY <1>1, SumNat DEF Moving

LEMMA MovingAdd ==
  ASSUME NEW S \in SUBSET Moves, IsFiniteSet(S), NEW e \in Moves, e \notin S
  PROVE Moving(S \cup {e}) = Moving(S) + e.bytes
<1> DEFINE w == [m \in S |-> m.bytes]
           v == [m \in S \cup {e} |-> m.bytes]
<1>1. Valued(v, S) /\ v[e] = e.bytes /\ e.bytes \in Nat /\ \A m \in S : w[m] = v[m]
  BY DEF Valued, Moves
<1> HIDE DEF w, v
<1>2. SumFunctionOnSet(v, S \cup {e}) = v[e] + SumFunctionOnSet(v, S)
  BY <1>1, SumAdd
<1>3. SumFunctionOnSet(w, S) = SumFunctionOnSet(v, S)
  BY <1>1, SumAgree
<1>4. SumFunctionOnSet(v, S) \in Nat
  BY <1>1, SumNat
<1>5. Moving(S \cup {e}) = SumFunctionOnSet(v, S \cup {e}) /\ Moving(S) = SumFunctionOnSet(w, S)
  BY DEF Moving, w, v
<1> QED BY <1>1, <1>2, <1>3, <1>4, <1>5

LEMMA ColumnEmpty == ASSUME NEW k PROVE Column(<<>>, k) = 0
<1>1. DOMAIN <<>> = {}
  OBVIOUS
<1> QED BY <1>1, SumEmpty DEF Column

LEMMA ColumnNat ==
  ASSUME NEW rs \in Seq(Amounts), NEW k \in Kinds
  PROVE /\ IsFiniteSet(DOMAIN rs) /\ Cardinality(DOMAIN rs) = Len(rs)
        /\ Column(rs, k) \in Nat
<1> DEFINE w == [i \in DOMAIN rs |-> rs[i][k]]
<1>1. DOMAIN rs = 1..Len(rs) /\ Len(rs) \in Nat /\ \A i \in DOMAIN rs : rs[i] \in Amounts
  OBVIOUS
<1>2. IsFiniteSet(DOMAIN rs) /\ Cardinality(DOMAIN rs) = Len(rs)
  <2> DEFINE k0 == Len(rs)
  <2>1. k0 \in Nat /\ DOMAIN rs = 1..k0 /\ 1 \in Int /\ k0 \in Int
    BY <1>1
  <2> HIDE DEF k0
  <2>2. IsFiniteSet(1..k0) /\ Cardinality(1..k0) = IF 1 > k0 THEN 0 ELSE k0 - 1 + 1
    BY <2>1, FS_Interval
  <2>3. Cardinality(1..k0) = k0
    BY <2>1, <2>2
  <2> QED BY <2>1, <2>2, <2>3 DEF k0
<1>3. Valued(w, DOMAIN rs)
  BY <1>1 DEF Valued, Amounts
<1> QED BY <1>2, <1>3, SumNat DEF Column

LEMMA ColumnAppend ==
  ASSUME NEW rs \in Seq(Amounts), NEW k \in Kinds, NEW r \in Amounts
  PROVE Column(rs \o <<r>>, k) = Column(rs, k) + r[k]
<1> DEFINE s == rs \o <<r>>
           n == Len(rs) + 1
           w == [i \in DOMAIN rs |-> rs[i][k]]
           v == [i \in DOMAIN s |-> s[i][k]]
<1>1. /\ Len(rs) \in Nat /\ DOMAIN rs = 1..Len(rs) /\ DOMAIN s = 1..n
      /\ s[n] = r /\ \A i \in 1..Len(rs) : s[i] = rs[i] /\ rs[i] \in Amounts
  OBVIOUS
<1> HIDE DEF s
<1>2. n \notin DOMAIN rs /\ DOMAIN s = DOMAIN rs \cup {n}
  BY <1>1
<1>3. Valued(v, DOMAIN rs) /\ v[n] = r[k] /\ r[k] \in Nat /\ \A i \in DOMAIN rs : w[i] = v[i]
  BY <1>1, <1>2 DEF Valued, Amounts
<1>4. Column(s, k) = SumFunctionOnSet(v, DOMAIN s) /\ Column(rs, k) = SumFunctionOnSet(w, DOMAIN rs)
  BY DEF Column
<1> HIDE DEF w, v, n
<1>5. IsFiniteSet(DOMAIN rs)
  BY ColumnNat
<1>6. SumFunctionOnSet(v, DOMAIN rs \cup {n}) = v[n] + SumFunctionOnSet(v, DOMAIN rs)
  BY <1>2, <1>3, <1>5, SumAdd
<1>7. SumFunctionOnSet(w, DOMAIN rs) = SumFunctionOnSet(v, DOMAIN rs)
  BY <1>3, <1>5, SumAgree
<1>8. SumFunctionOnSet(v, DOMAIN rs) \in Nat
  BY <1>3, <1>5, SumNat
<1>9. SumFunctionOnSet(v, DOMAIN s) = SumFunctionOnSet(v, DOMAIN rs \cup {n})
  BY <1>2
<1>10. Column(s, k) = Column(rs, k) + r[k]
  BY <1>3, <1>4, <1>6, <1>7, <1>8, <1>9
<1> QED BY <1>10 DEF s

LEMMA ColumnOne == ASSUME NEW k \in Kinds, NEW r \in Amounts PROVE Column(<<r>>, k) = r[k]
<1>1. Column(<<>> \o <<r>>, k) = Column(<<>>, k) + r[k]
  <2>1. <<>> \in Seq(Amounts)
    OBVIOUS
  <2> QED BY <2>1, ColumnAppend
<1>2. <<>> \o <<r>> = <<r>> /\ r[k] \in Nat
  BY DEF Amounts
<1> QED BY <1>1, <1>2, ColumnEmpty

LEMMA AtMostOne ==
  ASSUME NEW E, NEW s \in Seq(E), Len(s) <= 1 PROVE s = <<>> \/ \E e \in E : s = <<e>>
<1>1. Len(s) = 0 \/ Len(s) = 1
  <2>1. Len(s) \in Nat
    OBVIOUS
  <2> DEFINE n == Len(s)
  <2>2. n \in Nat /\ n <= 1
    BY <2>1
  <2> HIDE DEF n
  <2>3. n = 0 \/ n = 1
    BY <2>2
  <2> QED BY <2>3 DEF n
<1>2. CASE Len(s) = 0
  BY <1>2
<1>3. CASE Len(s) = 1
  <2>1. s[1] \in E /\ s = <<s[1]>>
    BY <1>3
  <2> QED BY <2>1
<1> QED BY <1>1, <1>2, <1>3

LEMMA ColumnJoin ==
  ASSUME NEW rs \in Seq(Amounts), NEW cs \in Seq(Amounts), Len(cs) <= 1, NEW k \in Kinds
  PROVE /\ rs \o cs \in Seq(Amounts)
        /\ Column(rs \o cs, k) = Column(rs, k) + Column(cs, k)
<1>1. rs \o cs \in Seq(Amounts)
  OBVIOUS
<1>2. CASE cs = <<>>
  <2>1. rs \o cs = rs
    BY <1>2
  <2> QED BY <1>1, <1>2, <2>1, ColumnEmpty, ColumnNat
<1>3. CASE \E e \in Amounts : cs = <<e>>
  BY <1>1, <1>3, ColumnAppend, ColumnOne
<1> QED BY <1>2, <1>3, AtMostOne

-----------------------------------------------------------------------------
(* What a step that moves nothing leaves.                                  *)
LEMMA OfFinite ==
  ASSUME MovesTyped, NEW k, NEW T
  PROVE Of(moved, k, T) \in SUBSET Moves /\ IsFiniteSet(Of(moved, k, T)) /\ Moving(Of(moved, k, T)) \in Nat
<1>1. Of(moved, k, T) \in SUBSET moved
  BY DEF Of
<1>2. Of(moved, k, T) \in SUBSET Moves /\ IsFiniteSet(Of(moved, k, T))
  BY <1>1, FS_Subset DEF MovesTyped
<1> QED BY <1>2, MovingNat

LEMMA BytesInit == B!Init => BytesInv
<1> SUFFICES ASSUME B!Init PROVE BytesInv
  OBVIOUS
<1>1. /\ cumulative = [k \in Kinds |-> 0] /\ current = <<>> /\ history = <<>>
      /\ moved = {} /\ tokens = [count |-> 0, open |-> FALSE]
  BY DEF B!Init, B!Nothing
<1>2. IsFiniteSet(moved)
  BY <1>1, FS_EmptySet
<1>3. B!TypeOK /\ MovesTyped /\ TokensTyped
  <2>1. <<>> \in Seq(Amounts) /\ Len(<<>>) <= 1
    OBVIOUS
  <2> QED BY <1>1, <1>2, <2>1 DEF B!TypeOK, MovesTyped, TokensTyped, Amounts
<1>4. ASSUME NEW k \in Kinds PROVE Ledger(k)
  <2>1. \A T : Of(moved, k, T) = {}
    BY <1>1 DEF Of
  <2>2. Column(history, k) = 0 /\ Column(current, k) = 0
    BY <1>1, ColumnEmpty
  <2>3. cumulative[k] = 0 /\ ~ tokens.open
    BY <1>1
  <2> QED BY <2>1, <2>2, <2>3, MovingNone DEF Ledger
<1> QED BY <1>3, <1>4 DEF BytesInv

LEMMA BytesStart == BytesInv /\ B!StartToken => BytesInv'
<1> SUFFICES ASSUME BytesInv, B!StartToken PROVE BytesInv'
  OBVIOUS
<1> DEFINE new == [k \in Kinds |-> 0]
           n == tokens.count
<1>1. /\ tokens' = [count |-> n + 1, open |-> TRUE] /\ history' = history \o current
      /\ current' = <<new>> /\ UNCHANGED <<cumulative, moved>>
  BY DEF B!StartToken, B!Nothing
<1>2. /\ history \in Seq(Amounts) /\ current \in Seq(Amounts) /\ Len(current) <= 1
      /\ cumulative \in Amounts /\ n \in Nat /\ MovesTyped /\ new \in Amounts
  BY DEF BytesInv, B!TypeOK, TokensTyped, Amounts
<1>3. tokens'.count = n + 1 /\ tokens'.open /\ current'[1] = new
  BY <1>1
<1> HIDE DEF new, n
<1>4. MovesTyped'
  <2>1. \A m \in moved : m.token <= n + 1
    <3>1. \A m \in moved : m.token \in Nat /\ m.token <= n
      BY <1>2 DEF MovesTyped, Moves, n
    <3> QED BY <1>2, <3>1
  <2> QED BY <1>1, <1>2, <1>3, <2>1 DEF MovesTyped
<1>5. TokensTyped'
  BY <1>1, <1>2, <1>3 DEF TokensTyped
<1>6. B!TypeOK'
  <2>1. history' \in Seq(Amounts)
    BY <1>1, <1>2
  <2>2. current' \in Seq(Amounts) /\ Len(current') = 1
    BY <1>1, <1>2
  <2> QED BY <1>1, <1>2, <1>3, <2>1, <2>2 DEF B!TypeOK, Amounts
<1>7. ASSUME NEW k \in Kinds PROVE Ledger(k)'
  <2>1. /\ cumulative[k] = Moving(Of(moved, k, 0..n))
        /\ Column(history, k) + Column(current, k) = Moving(Of(moved, k, 1..n))
    BY DEF BytesInv, Ledger, n
  <2>2. \A m \in moved : m.token \in Nat /\ m.token <= n
    BY <1>2 DEF MovesTyped, Moves, n
  <2>3. /\ Of(moved, k, 0..(n + 1)) = Of(moved, k, 0..n) /\ Of(moved, k, 1..(n + 1)) = Of(moved, k, 1..n)
        /\ Of(moved, k, {n + 1}) = {}
    BY <1>2, <2>2 DEF Of
  <2>4. moved' = moved
    BY <1>1
  <2>5. Column(history', k) = Column(history, k) + Column(current, k)
    BY <1>1, <1>2, ColumnJoin
  <2>6. new \in Amounts /\ new[k] = 0
    BY DEF new, Amounts
  <2>7. Column(current', k) = 0
    BY <1>1, <2>6, ColumnOne
  <2>8. Column(history', k) \in Nat
    BY <1>2, <2>5, ColumnNat
  <2>9. Column(history', k) + Column(current', k) = Moving(Of(moved, k, 1..(n + 1)))
    BY <2>1, <2>3, <2>5, <2>7, <2>8
  <2>10. tokens'.count = n + 1 /\ cumulative' = cumulative
    BY <1>1, <1>3
  <2>11. cumulative'[k] = Moving(Of(moved', k, 0..tokens'.count))
    BY <2>1, <2>3, <2>4, <2>10
  <2>12. Column(history', k) + Column(current', k) = Moving(Of(moved', k, 1..tokens'.count))
    BY <2>4, <2>9, <2>10
  <2>13. current'[1][k] = Moving(Of(moved', k, {tokens'.count}))
    BY <1>3, <2>3, <2>4, <2>6, <2>10, MovingNone
  <2> QED BY <2>11, <2>12, <2>13 DEF Ledger
<1> QED BY <1>4, <1>5, <1>6, <1>7 DEF BytesInv

LEMMA BytesEnd == BytesInv /\ B!EndToken => BytesInv'
<1> SUFFICES ASSUME BytesInv, B!EndToken PROVE BytesInv'
  OBVIOUS
<1>1. /\ tokens' = [tokens EXCEPT !.open = FALSE] /\ history' = history \o current
      /\ current' = <<>> /\ UNCHANGED <<cumulative, moved>>
  BY DEF B!EndToken
<1>2. /\ history \in Seq(Amounts) /\ current \in Seq(Amounts) /\ Len(current) <= 1
      /\ cumulative \in Amounts /\ MovesTyped /\ tokens \in [count : Nat, open : BOOLEAN]
  BY DEF BytesInv, B!TypeOK, TokensTyped, Amounts
<1>3. /\ tokens'.count = tokens.count /\ ~ tokens'.open /\ tokens.count \in Nat
      /\ tokens' \in [count : Nat, open : BOOLEAN]
  BY <1>1, <1>2
<1>4. MovesTyped' /\ TokensTyped'
  BY <1>1, <1>2, <1>3 DEF MovesTyped, TokensTyped
<1>5. B!TypeOK'
  <2>1. history' \in Seq(Amounts)
    BY <1>1, <1>2
  <2>2. current' \in Seq(Amounts) /\ Len(current') <= 1
    BY <1>1
  <2> QED BY <1>1, <1>2, <1>3, <2>1, <2>2 DEF B!TypeOK, Amounts
<1>6. ASSUME NEW k \in Kinds PROVE Ledger(k)'
  <2>1. Column(history', k) = Column(history, k) + Column(current, k)
    BY <1>1, <1>2, ColumnJoin
  <2>2. Column(current', k) = 0 /\ Column(history', k) \in Nat
    <3>1. history' \in Seq(Amounts)
      BY <1>1, <1>2
    <3> QED BY <1>1, <3>1, ColumnEmpty, ColumnNat
  <2>3. Ledger(k)
    BY DEF BytesInv
  <2> QED BY <1>1, <1>3, <2>1, <2>2, <2>3 DEF Ledger
<1> QED BY <1>4, <1>5, <1>6 DEF BytesInv

LEMMA BytesReset == BytesInv /\ B!ResetAll => BytesInv'
<1> SUFFICES ASSUME BytesInv, B!ResetAll PROVE BytesInv'
  OBVIOUS
<1>1. /\ cumulative' = [k \in Kinds |-> 0] /\ current' = <<>> /\ history' = <<>>
      /\ moved' = {} /\ tokens' = [tokens EXCEPT !.open = FALSE]
  BY DEF B!ResetAll, B!Nothing
<1>2. /\ tokens'.count = tokens.count /\ ~ tokens'.open /\ tokens.count \in Nat
      /\ tokens' \in [count : Nat, open : BOOLEAN]
  BY <1>1 DEF BytesInv, TokensTyped
<1>3. IsFiniteSet(moved')
  BY <1>1, FS_EmptySet
<1>4. B!TypeOK' /\ MovesTyped' /\ TokensTyped'
  <2>1. <<>> \in Seq(Amounts) /\ Len(<<>>) <= 1
    OBVIOUS
  <2> QED BY <1>1, <1>2, <1>3, <2>1 DEF B!TypeOK, MovesTyped, TokensTyped, Amounts
<1>5. ASSUME NEW k \in Kinds PROVE Ledger(k)'
  <2>1. \A T : Of(moved', k, T) = {}
    BY <1>1 DEF Of
  <2>2. Column(history', k) = 0 /\ Column(current', k) = 0
    BY <1>1, ColumnEmpty
  <2>3. cumulative'[k] = 0 /\ ~ tokens'.open
    BY <1>1, <1>2
  <2>4. \A T : Moving(Of(moved', k, T)) = 0
    BY <2>1, MovingNone
  <2>5. Column(history', k) + Column(current', k) = 0
    BY <2>2
  <2> QED BY <2>3, <2>4, <2>5 DEF Ledger
<1> QED BY <1>4, <1>5 DEF BytesInv

LEMMA BytesRecord ==
  ASSUME BytesInv, NEW kind \in Kinds, NEW n \in {1, 2}, B!Record(kind, n) PROVE BytesInv'
<1> DEFINE token == IF tokens.open THEN tokens.count ELSE 0
           move == [id |-> Cardinality(moved), kind |-> kind, bytes |-> n, token |-> token]
<1>1. /\ cumulative' = [cumulative EXCEPT ![kind] = @ + n]
      /\ current' = [i \in DOMAIN current |-> [current[i] EXCEPT ![kind] = @ + n]]
      /\ moved' = moved \cup {move} /\ UNCHANGED <<history, tokens>>
  BY CounterSums DEF B!Record
<1>2. /\ history \in Seq(Amounts) /\ current \in Seq(Amounts) /\ Len(current) <= 1
      /\ cumulative \in Amounts /\ MovesTyped /\ TokensTyped
      /\ tokens.count \in Nat /\ tokens.open \in BOOLEAN
  BY DEF BytesInv, B!TypeOK, TokensTyped, Amounts
<1>3. Cardinality(moved) \in Nat /\ IsFiniteSet(moved)
  BY <1>2, FS_CardinalityType DEF MovesTyped
<1>4. move \in Moves /\ move \notin moved /\ token \in Nat /\ token <= tokens.count
  <2>1. token \in Nat /\ token <= tokens.count
    BY <1>2
  <2>2. move \in Moves
    BY <1>3, <2>1 DEF Moves
  <2>3. move.id = Cardinality(moved)
    OBVIOUS
  <2> HIDE DEF move, token
  <2>4. move \notin moved
    BY <1>2, <1>3, <2>3 DEF MovesTyped
  <2> QED BY <2>1, <2>2, <2>4
<1>5. move.id = Cardinality(moved) /\ move.kind = kind /\ move.bytes = n /\ move.token = token
  OBVIOUS
<1> HIDE DEF move
<1>6. MovesTyped'
  <2>1. IsFiniteSet(moved') /\ Cardinality(moved') = Cardinality(moved) + 1
    BY <1>1, <1>3, <1>4, FS_AddElement
  <2>2. \A m \in moved' : m.id < Cardinality(moved') /\ m.token <= tokens'.count
    <3>1. \A m \in moved : m.id \in Nat /\ m.id < Cardinality(moved) /\ m.token <= tokens.count
      BY <1>2 DEF MovesTyped, Moves
    <3> QED BY <1>1, <1>3, <1>4, <1>5, <2>1, <3>1
  <2> QED BY <1>1, <1>2, <1>4, <2>1, <2>2 DEF MovesTyped
<1>7. ASSUME NEW k \in Kinds, NEW T
      PROVE Moving(Of(moved', k, T)) = Moving(Of(moved, k, T)) + (IF k = kind /\ token \in T THEN n ELSE 0)
  <2>1. Of(moved, k, T) \in SUBSET Moves /\ IsFiniteSet(Of(moved, k, T)) /\ Moving(Of(moved, k, T)) \in Nat
    BY <1>2, OfFinite
  <2>2. CASE k = kind /\ token \in T
    <3>1. Of(moved', k, T) = Of(moved, k, T) \cup {move} /\ move \notin Of(moved, k, T)
      BY <1>1, <1>4, <1>5, <2>2 DEF Of
    <3> QED BY <1>4, <1>5, <2>1, <2>2, <3>1, MovingAdd
  <2>3. CASE ~ (k = kind /\ token \in T)
    <3>1. Of(moved', k, T) = Of(moved, k, T)
      BY <1>1, <1>5, <2>3 DEF Of
    <3> QED BY <2>1, <2>3, <3>1
  <2> QED BY <2>2, <2>3
<1>8. /\ current' \in Seq(Amounts) /\ Len(current') = Len(current)
      /\ current' # <<>> <=> current # <<>>
      /\ \A k \in Kinds : Column(current', k) = Column(current, k) + (IF k = kind /\ tokens.open THEN n ELSE 0)
      /\ tokens.open => \A k \in Kinds : current'[1][k] = current[1][k] + (IF k = kind THEN n ELSE 0)
  <2>1. CASE current = <<>>
    <3>1. current' = <<>> /\ ~ tokens.open
      BY <1>1, <1>2, <2>1 DEF TokensTyped
    <3> QED BY <2>1, <3>1, ColumnEmpty
  <2>2. CASE \E e \in Amounts : current = <<e>>
    <3>1. PICK e \in Amounts : current = <<e>>
      BY <2>2
    <3> DEFINE f == [e EXCEPT ![kind] = @ + n]
    <3>2. f \in Amounts /\ \A k \in Kinds : f[k] = e[k] + (IF k = kind THEN n ELSE 0)
      BY DEF Amounts
    <3>3. current' = <<f>> /\ tokens.open
      BY <1>1, <1>2, <3>1 DEF TokensTyped
    <3> HIDE DEF f
    <3>4. \A k \in Kinds : Column(current', k) = f[k] /\ Column(current, k) = e[k]
      BY <3>1, <3>2, <3>3, ColumnOne
    <3>5. current'[1] = f /\ current[1] = e /\ Len(current') = 1 /\ Len(current) = 1
      BY <3>1, <3>3
    <3>6. current' \in Seq(Amounts) /\ current' # <<>> /\ current # <<>>
      BY <3>1, <3>2, <3>3
    <3> QED BY <3>2, <3>3, <3>4, <3>5, <3>6
  <2> QED BY <1>2, <2>1, <2>2, AtMostOne
<1>9. TokensTyped'
  BY <1>1, <1>2, <1>8 DEF TokensTyped
<1>10. cumulative' \in Amounts /\ \A k \in Kinds : cumulative'[k] = cumulative[k] + (IF k = kind THEN n ELSE 0)
  BY <1>1, <1>2 DEF Amounts
<1>11. B!TypeOK'
  BY <1>1, <1>2, <1>8, <1>10 DEF B!TypeOK, Amounts
<1>12. ASSUME NEW k \in Kinds PROVE Ledger(k)'
  <2>1. /\ token \in 0..tokens.count
        /\ token \in 1..tokens.count <=> tokens.open
        /\ tokens.open => token = tokens.count
    BY <1>2 DEF TokensTyped
  <2> DEFINE more == IF k = kind THEN n ELSE 0
             moreOpen == IF k = kind /\ tokens.open THEN n ELSE 0
             all == Moving(Of(moved, k, 0..tokens.count))
             inTokens == Moving(Of(moved, k, 1..tokens.count))
             now == Moving(Of(moved, k, {tokens.count}))
             h == Column(history, k)
             c == Column(current, k)
  <2>2. cumulative[k] = all /\ h + c = inTokens /\ (tokens.open => current[1][k] = now)
    BY DEF BytesInv, Ledger
  <2>3. /\ Moving(Of(moved', k, 0..tokens.count)) = all + more
        /\ Moving(Of(moved', k, 1..tokens.count)) = inTokens + moreOpen
        /\ tokens.open => Moving(Of(moved', k, {tokens.count})) = now + more
    <3> HIDE DEF token
    <3>1. Moving(Of(moved', k, 0..tokens.count)) = all + more
      BY <1>7, <2>1
    <3>2. Moving(Of(moved', k, 1..tokens.count)) = inTokens + moreOpen
      BY <1>7, <2>1
    <3>3. tokens.open => Moving(Of(moved', k, {tokens.count})) = now + more
      BY <1>7, <2>1
    <3> QED BY <3>1, <3>2, <3>3
  <2>4. Column(current', k) = c + moreOpen /\ (tokens.open => current'[1][k] = current[1][k] + more)
    BY <1>8
  <2>5. h \in Nat /\ c \in Nat /\ moreOpen \in Nat
    BY <1>2, ColumnNat
  <2>6. cumulative'[k] = cumulative[k] + more
    BY <1>10
  <2> HIDE DEF more, moreOpen, all, inTokens, now, h, c
  <2>7. h + (c + moreOpen) = inTokens + moreOpen
    BY <2>2, <2>5
  <2>8. cumulative'[k] = Moving(Of(moved', k, 0..tokens'.count))
    BY <1>1, <2>2, <2>3, <2>6
  <2>9. Column(history', k) + Column(current', k) = Moving(Of(moved', k, 1..tokens'.count))
    BY <1>1, <2>3, <2>4, <2>7 DEF h
  <2>10. tokens'.open => current'[1][k] = Moving(Of(moved', k, {tokens'.count}))
    BY <1>1, <2>2, <2>3, <2>4
  <2> QED BY <2>8, <2>9, <2>10 DEF Ledger
<1> QED BY <1>6, <1>9, <1>11, <1>12 DEF BytesInv

LEMMA BytesNext == BytesInv /\ B!Next => BytesInv'
BY BytesStart, BytesEnd, BytesReset, BytesRecord DEF B!Next

LEMMA BytesStutters == BytesInv /\ UNCHANGED counterVars => BytesInv'
BY DEF counterVars, BytesInv, B!TypeOK, MovesTyped, TokensTyped, Ledger

(* An average is at most the largest of the numbers.                       *)
LEMMA DivBound ==
  ASSUME NEW a \in Nat, NEW b \in Nat \ {0}, NEW m \in Nat, a <= b * m PROVE a \div b <= m
<1> DEFINE q == a \div b
           r == a % b
<1>1. q \in Nat /\ r \in Nat /\ a = b * q + r
  OBVIOUS
<1> HIDE DEF q, r
<1> SUFFICES ASSUME m + 1 <= q PROVE FALSE
  BY <1>1 DEF q
<1>2. b * (m + 1) <= b * q
  BY <1>1
<1>3. b * (m + 1) = b * m + b
  OBVIOUS
<1> QED BY <1>1, <1>2, <1>3

LEMMA AverageBelow == ASSUME BytesInv, NEW k \in Kinds
  PROVE B!PerToken(k) <= B!Max({0} \cup {history[i][k] : i \in DOMAIN history})
<1> DEFINE numbers == {0} \cup {history[i][k] : i \in DOMAIN history}
           top == CHOOSE x \in numbers : \A y \in numbers : x >= y
           total == Column(history, k)
           n == Len(history)
<1>1. history \in Seq(Amounts) /\ n \in Nat /\ DOMAIN history = 1..n
  BY DEF BytesInv, B!TypeOK, Amounts
<1>2. /\ IsFiniteSet(DOMAIN history) /\ Cardinality(DOMAIN history) = n /\ total \in Nat
  BY <1>1, ColumnNat
<1>3. \A i \in DOMAIN history : history[i][k] \in Nat
  BY <1>1 DEF Amounts
<1>4. numbers \in SUBSET Nat /\ IsFiniteSet(numbers) /\ numbers # {}
  <2> DEFINE column == {history[i][k] : i \in DOMAIN history}
             w == [i \in DOMAIN history |-> history[i][k]]
  <2>1. w \in Surjection(DOMAIN history, column)
    BY DEF Surjection
  <2>2. numbers = column \cup {0} /\ numbers \in SUBSET Nat
    BY <1>3
  <2> HIDE DEF column, w, numbers
  <2>3. IsFiniteSet(column)
    BY <1>2, <2>1, FS_Surjection
  <2>4. IsFiniteSet(column \cup {0})
    BY <2>3, FS_AddElement
  <2> QED BY <2>2, <2>4
<1>5. top \in Nat /\ \A y \in numbers : y <= top
  <2> HIDE DEF numbers
  <2>1. \E x \in numbers : \A y \in numbers : y <= x
    BY <1>4, LargestNatural
  <2>2. \E x \in numbers : \A y \in numbers : x >= y
    BY <1>4, <2>1
  <2>3. top \in numbers /\ \A y \in numbers : top >= y
    BY <2>2
  <2> QED BY <1>4, <2>3
<1>6. B!Max(numbers) = top
  BY CounterSums
<1> DEFINE v == [i \in DOMAIN history |-> history[i][k]]
<1>7. \A i \in DOMAIN history : v[i] \in 0..top
  <2> HIDE DEF top
  <2> QED BY <1>3, <1>5
<1>8. total = SumFunctionOnSet(v, DOMAIN history)
  BY DEF Column
<1> HIDE DEF top, v, total, numbers
<1>9. total <= n * top
  BY <1>2, <1>5, <1>7, <1>8, SumBound
<1>10. B!PerToken(k) = total \div (IF history = <<>> THEN 1 ELSE n)
  BY CounterSums DEF B!PerToken, total
<1>11. CASE history = <<>>
  <2>1. total = 0
    BY <1>11, ColumnEmpty DEF total
  <2>2. 0 \div 1 = 0
    OBVIOUS
  <2> QED BY <1>5, <1>6, <1>10, <1>11, <2>1, <2>2 DEF numbers
<1>12. CASE history # <<>>
  <2>1. n # 0
    BY <1>1, <1>12
  <2> HIDE DEF n
  <2>2. total \div n <= top
    BY <1>1, <1>2, <1>5, <1>9, <2>1, DivBound
  <2> QED BY <1>6, <1>10, <1>12, <2>2 DEF numbers
<1> QED BY <1>11, <1>12

LEMMA BytesHold == BytesInv => B!BytesAccounted
<1> SUFFICES ASSUME BytesInv, NEW k \in Kinds
             PROVE LET of(T) == B!Amount({m \in moved : m.kind = k /\ m.token \in T})
                   IN  /\ cumulative[k] = of(0..tokens.count)
                       /\ B!Total(history, k) + B!Total(current, k) = of(1..tokens.count)
                       /\ tokens.open <=> current # <<>>
                       /\ tokens.open => current[1][k] = of({tokens.count})
                       /\ B!PerToken(k) <= B!Max({0} \cup {history[i][k] : i \in DOMAIN history})
  BY DEF B!BytesAccounted
<1>1. \A T : B!Amount({m \in moved : m.kind = k /\ m.token \in T}) = Moving(Of(moved, k, T))
  BY CounterSums DEF Of
<1>2. Ledger(k) /\ TokensTyped
  BY DEF BytesInv
<1>3. B!Total(history, k) = Column(history, k) /\ B!Total(current, k) = Column(current, k)
  BY CounterSums
<1>4. B!PerToken(k) <= B!Max({0} \cup {history[i][k] : i \in DOMAIN history})
  BY AverageBelow
<1> QED BY <1>1, <1>2, <1>3, <1>4 DEF Ledger, TokensTyped

-----------------------------------------------------------------------------
(* The parts together.                                                     *)
MiddleInv == PluginsInv /\ BytesInv

LEMMA MiddleStep == MiddleInv /\ [MCNext]_allVars => MiddleInv'
<1> SUFFICES ASSUME MiddleInv, [MCNext]_allVars PROVE MiddleInv'
  OBVIOUS
<1>1. P!Next \/ UNCHANGED pluginVars
  BY DEF MCNext, allVars
<1>2. B!Next \/ UNCHANGED counterVars
  BY DEF MCNext, allVars
<1>3. PluginsInv'
  BY <1>1, PluginsNext, PluginsStutters DEF MiddleInv
<1>4. BytesInv'
  BY <1>2, BytesNext, BytesStutters DEF MiddleInv
<1> QED BY <1>3, <1>4 DEF MiddleInv

(* MCNext moves the client by its own steps.                               *)
LEMMA MCStep == [MCNext]_allVars => [I!Next]_ipcVars
  BY DEF MCNext, allVars, ipcVars, pluginVars, counterVars

LEMMA ClientKinds == ClientInv => I!TypeOK
<1>1. ASSUME ClientInv PROVE permits \in 0..Permits
  <2>1. Cardinality(Holders) \in Nat
    BY <1>1, FS_CardinalityType DEF ClientInv, Counted
  <2> QED BY <1>1, <2>1, Parameters DEF ClientInv, Counted
<1>2. ASSUME ClientInv PROVE alive \subseteq 1..MaxConns /\ cur \in 0..MaxConns
  <2>1. cur \in 0..MaxConns /\ alive \subseteq 1..cur
    BY <1>2 DEF ClientInv, Placed, Reach
  <2>2. 1..cur \subseteq 1..MaxConns
    BY <2>1, Parameters
  <2> QED BY <2>1, <2>2
<1> QED BY <1>1, <1>2 DEF ClientInv, Typed, I!TypeOK

(* PhantomIPCClient: a request that has its connection to itself reads its *)
(* own answer, a stream its tokens in order and, at its end, all of them,  *)
(* whatever fails around it.                                               *)
THEOREM AnswersTheorem == MCSpec => []AnswersMatch
  <1>1. MCInit => ClientInv
    BY ClientStart DEF MCInit
  <1>2. ClientInv /\ [MCNext]_allVars => ClientInv'
    BY ClientStep, MCStep
  <1> QED BY <1>1, <1>2, OwnMatches, PTL DEF MCSpec

(* PhantomIPCClient with one permit, the default of PHANTOM_MAX_CONCURRENT:*)
(* requests share a connection only after the metrics were read or a stream*)
(* was given up, and a stream fails only for one of the causes named there.*)
THEOREM FailuresTheorem == ASSUME Permits = 1 PROVE MCSpec => []FailuresHaveACause
  <1>1. MCInit => ClientInv
    BY ClientStart DEF MCInit
  <1>2. ClientInv /\ [MCNext]_allVars => ClientInv'
    BY ClientStep, MCStep
  <1>3. ClientInv => FailuresHaveACause
    <2>1. ASSUME ClientInv, mixed # {} PROVE Cause
      BY <2>1 DEF ClientInv, Apart
    <2>2. ClientInv => I!ErrorsAreOwn
      BY DEF ClientInv
    <2> QED
      BY <2>1, <2>2 DEF Cause, FailuresHaveACause, I!FailuresHaveACause, I!MixingHasACause
  <1> QED BY <1>1, <1>2, <1>3, PTL DEF MCSpec

(* PhantomIPCClient.stream_generate, for any number of permits: a stream   *)
(* fails only when the core failed or stalled while it ran, or had dropped *)
(* the connection before, or when another request used its connection.     *)
THEOREM ErrorsTheorem == MCSpec => []I!ErrorsAreOwn
  <1>1. MCInit => ClientInv
    BY ClientStart DEF MCInit
  <1>2. ClientInv /\ [MCNext]_allVars => ClientInv'
    BY ClientStep, MCStep
  <1>3. ClientInv => I!ErrorsAreOwn
    BY DEF ClientInv
  <1> QED BY <1>1, <1>2, <1>3, PTL DEF MCSpec

(* ContextCachePlugin, ToolRouterPlugin and BandwidthMonitor, whatever is  *)
(* registered, looked up and moved: a listed tool can be called, the cache *)
(* keeps the prefixes that were used last, every byte is counted in its    *)
(* own token.                                                              *)
THEOREM MiddlewareTheorem == MCSpec => []MiddlewareSound
  <1>1. MCInit => MiddleInv
    BY PluginsInit, BytesInit DEF MCInit, MiddleInv
  <1>2. MiddleInv => MiddlewareSound
    BY PluginsHold, BytesHold DEF MiddleInv, MiddlewareSound
  <1> QED BY <1>1, <1>2, MiddleStep, PTL DEF MCSpec

(* The scheduler, the client, the plugins and the counter keep their types.*)
THEOREM RequestsTyped == MCSpec => []RequestsTypeOK
  <1> DEFINE TypedInv == IInv /\ ClientInv /\ MiddleInv
  <1>1. MCInit => TypedInv
    BY InitIInv, ClientStart, PluginsInit, BytesInit DEF MCInit, MiddleInv
  <1>2. TypedInv /\ [MCNext]_allVars => TypedInv'
    <2> SUFFICES ASSUME TypedInv, [MCNext]_allVars PROVE TypedInv'
      OBVIOUS
    <2>1. [Next]_vars
      BY DEF MCNext, allVars
    <2>2. IInv'
      BY <2>1, NextIInv
    <2>3. ClientInv'
      BY ClientStep, MCStep
    <2>4. MiddleInv'
      BY MiddleStep
    <2> QED BY <2>2, <2>3, <2>4
  <1>3. TypedInv => RequestsTypeOK
    <2>1. IInv => TypeOK
      BY DEF IInv
    <2>2. MiddleInv => P!TypeOK /\ B!TypeOK
      BY PluginsHold DEF MiddleInv, BytesInv
    <2> QED BY <2>1, <2>2, ClientKinds DEF RequestsTypeOK
  <1> QED BY <1>1, <1>2, <1>3, PTL DEF MCSpec
=============================================================================
