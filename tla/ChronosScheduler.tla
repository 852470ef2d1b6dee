---------------------------- MODULE ChronosScheduler ----------------------------
(***************************************************************************)
(* core/src/scheduler/mod.rs: requests wait in a FIFO queue, tick assigns  *)
(* them to idle slots, finish_prefill and finish_slot move a slot on.      *)
(* Every method runs under the mutex of the slots, of the queue or of both *)
(* for its whole body, so each is one step.  The executors that call the   *)
(* last three are outside the module: a slot is finished after it decodes, *)
(* or during prefill when its request is given up.                         *)
(***************************************************************************)
EXTENDS Integers, Sequences

CONSTANTS MaxSlots,   (* max_slots                                         *)
          Requests,   (* requests a client may enqueue, each once          *)
          Models,     (* model names                                       *)
          NoModel,    (* the empty name active_model starts with           *)
          NoRequest   (* active_request = None                             *)

ASSUME SchedulerAssumption == MaxSlots \in Nat /\ NoRequest \notin Requests

VARIABLES status,     (* active_slots: the status of each slot             *)
          active,     (* active_slots: the active_request of each slot     *)
          queue,      (* pending_queue                                     *)
          activeModel,
          finished,   (* requests whose slot was given back                *)
          arrivals    (* every request enqueued so far, in order (history) *)

vars == <<status, active, queue, activeModel, finished, arrivals>>

Slots == 0..(MaxSlots - 1)
Statuses == {"Idle", "Prefill", "Decoding"}   (* nothing suspends a slot   *)
Idle == {s \in Slots : status[s] = "Idle"}
Queued == {queue[i] : i \in DOMAIN queue}
Running == {active[s] : s \in Slots} \ {NoRequest}

TypeOK == /\ status \in [Slots -> Statuses]
          /\ active \in [Slots -> Requests \cup {NoRequest}]
          /\ queue \in Seq(Requests) /\ arrivals \in Seq(Requests)
          /\ activeModel \in Models \cup {NoModel}
          /\ finished \subseteq Requests

Init == /\ status = [s \in Slots |-> "Idle"]
        /\ active = [s \in Slots |-> NoRequest]
        /\ queue = <<>> /\ arrivals = <<>>
        /\ activeModel = NoModel
        /\ finished = {}

EnqueueRequest(r) ==
  /\ r \notin Queued \cup Running \cup finished
  /\ queue' = Append(queue, r) /\ arrivals' = Append(arrivals, r)
  /\ UNCHANGED <<status, active, activeModel, finished>>

(* The slots of chosen take the first k requests, in slot order.           *)
Assign(k, chosen, rank) ==
  /\ \A s, t \in chosen : s < t => rank[s] < rank[t]
  /\ \A i \in 1..k : \E s \in chosen : rank[s] = i
  /\ status' = [s \in Slots |-> IF s \in chosen THEN "Prefill" ELSE status[s]]
  /\ active' = [s \in Slots |->
                  IF s \in chosen THEN queue[rank[s]] ELSE active[s]]

Tick_Fault ==  (* the queue is read, not popped, for the last slot *)
  \E k \in 1..Len(queue), chosen \in SUBSET Idle :
    \E rank \in [chosen -> 1..k] :
      /\ Assign(k, chosen, rank)
      /\ queue' = SubSeq(queue, k, Len(queue))
      /\ UNCHANGED <<activeModel, finished, arrivals>>

TickLifo_Fault ==  (* pop_back *)
  \E s \in Idle :
    /\ queue # <<>>
    /\ status' = [status EXCEPT ![s] = "Prefill"]
    /\ active' = [active EXCEPT ![s] = queue[Len(queue)]]
    /\ queue' = SubSeq(queue, 1, Len(queue) - 1)
    /\ UNCHANGED <<activeModel, finished, arrivals>>

(* Idle slots take the oldest requests until either runs out.              *)
Tick ==
  \E k \in 1..Len(queue), chosen \in SUBSET Idle :
    /\ k = Len(queue) \/ chosen = Idle
    /\ \A s \in chosen, t \in Idle \ chosen : s < t
    /\ \E rank \in [chosen -> 1..k] : Assign(k, chosen, rank)
    /\ queue' = SubSeq(queue, k + 1, Len(queue))
    /\ UNCHANGED <<activeModel, finished, arrivals>>

FinishPrefillSuspends_Fault(s) ==
  /\ status[s] = "Prefill"
  /\ status' = [status EXCEPT ![s] = "Suspended"]
  /\ UNCHANGED <<active, queue, activeModel, finished, arrivals>>

FinishPrefill(s) ==
  /\ status[s] = "Prefill"
  /\ status' = [status EXCEPT ![s] = "Decoding"]
  /\ UNCHANGED <<active, queue, activeModel, finished, arrivals>>

(* finish_slot has no guard: called for an idle slot it changes nothing.   *)
FinishSlot(s) ==
  /\ status[s] # "Idle"
  /\ status' = [status EXCEPT ![s] = "Idle"]
  /\ active' = [active EXCEPT ![s] = NoRequest]
  /\ finished' = finished \cup {active[s]}
  /\ UNCHANGED <<queue, activeModel, arrivals>>

(* A request is given up while it is still being prefilled.                *)
Cancel(s) == status[s] = "Prefill" /\ FinishSlot(s)
Complete(s) == status[s] = "Decoding" /\ FinishSlot(s)

SwitchModelContext(m) ==
  /\ activeModel # m
  /\ activeModel' = m
  /\ UNCHANGED <<status, active, queue, finished, arrivals>>

Next == \/ \E r \in Requests : EnqueueRequest(r)
        \/ Tick
        \/ \E s \in Slots : FinishPrefill(s) \/ Cancel(s) \/ Complete(s)
        \/ \E m \in Models : SwitchModelContext(m)

(* The engine keeps ticking and every executor finishes its slot.          *)
Fairness == /\ WF_vars(Tick)
            /\ \A s \in Slots : WF_vars(FinishPrefill(s)) /\ WF_vars(Complete(s))
Spec == Init /\ [][Next]_vars /\ Fairness

-----------------------------------------------------------------------------
(* tick moves a request from the queue to exactly one slot, and finish_slot*)
(* ends exactly the one its slot holds: a request that was enqueued is     *)
(* queued, running or finished, never two of these and never twice.        *)
OnePlace ==
  /\ \A i, j \in DOMAIN queue : queue[i] = queue[j] => i = j
  /\ \A s, t \in Slots : active[s] = active[t] /\ s # t => active[s] = NoRequest
  /\ Queued \cap (Running \cup finished) = {} /\ Running \cap finished = {}

(* An idle slot holds no request and a busy one does.                      *)
SlotsCoherent == \A s \in Slots : status[s] = "Idle" <=> active[s] = NoRequest

(* The queue is what is left of the arrivals, and every request that came  *)
(* before it has had a slot: nobody is overtaken in the queue.             *)
Started == Len(arrivals) - Len(queue)
FirstComeFirstServed ==
  /\ Len(queue) <= Len(arrivals)
  /\ \A i \in 1..Len(queue) : queue[i] = arrivals[Started + i]
  /\ \A i \in 1..Started : arrivals[i] \in Running \cup finished

IInv == TypeOK /\ OnePlace /\ SlotsCoherent /\ FirstComeFirstServed

Jobs == INSTANCE JobService WITH line <- queue, running <- Running,
                                 done <- finished
(* The scheduler is a JobService: it starts requests in order of arrival   *)
(* and forgets none, whatever slots and models do.                         *)
ImplementsJobService == Jobs!JobSpec

(* With slots that finish and an engine that ticks nobody waits for ever.  *)
EveryoneIsServed == \A r \in Requests : r \in Queued ~> r \in finished
=============================================================================
