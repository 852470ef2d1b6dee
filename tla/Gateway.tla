-------------------------------- MODULE Gateway --------------------------------
(***************************************************************************)
(* python/phantom/api/gateway.py and the endpoints of openai_compat.py and *)
(* ollama_compat.py behind it, in one event loop: a step is what a handler *)
(* does between two awaits.  The middleware admits an HTTP request, counts *)
(* it in queue_depth and hands it on; a generation is counted in           *)
(* active_requests and waits for request_semaphore.  The answer itself is  *)
(* IpcClient.tla's; here a generation succeeds, fails, or its client       *)
(* leaves or stops reading.                                                *)
(***************************************************************************)
EXTENDS Integers, Sequences, FiniteSets, SequencesExt

CONSTANTS Requests, Clients, ClientOf,  (* ClientOf[r]: the host r is from *)
          Kinds,     (* subset of AllKinds                                 *)
          Capacity, Rate,  (* of a token bucket; 30 and 2 per s in the code*)
          MaxDepth,  (* max_queue_depth, 50 in the code                    *)
          Permits,   (* PHANTOM_MAX_CONCURRENT, 1 unless set               *)
          MaxClock   (* bound: the clock is read in 0..MaxClock            *)

ASSUME GatewayAssumption ==
  /\ ClientOf \in [Requests -> Clients]
  /\ Capacity \in Nat \ {0} /\ Rate \in Nat /\ MaxClock \in Nat
  /\ MaxDepth \in Nat /\ Permits \in Nat

(* plain: chat and text completions; stream: chat with stream=true;        *)
(* socket: /v1/stream; page: every route that waits for no semaphore, the  *)
(* metrics and Ollama's API included.                                      *)
AllKinds == {"plain", "stream", "socket", "page"}

VARIABLES clock,    (* time.time(), which may be set back                  *)
          bucket,   (* rate_limiters: [tokens, last]                       *)
          depth,    (* queue_depth                                         *)
          active,   (* active_requests                                     *)
          total,    (* total_requests                                      *)
          permits,  (* of request_semaphore                                *)
          waiting,  (* its waiters, first come first served                *)
          kind, phase,
          held,     (* requests the middleware has counted in depth        *)
          admitted  (* history: per client, the clock at each admission    *)

vars == <<clock, bucket, depth, active, total, permits, waiting, kind, phase,
          held, admitted>>

(* routed: in its handler; begun: the headers of a stream are out, its     *)
(* generator has not started; open: a socket between two prompts; stalled: *)
(* the client does not read; dropped: left while suspended in a yield.     *)
(* closing, slow and gone are running, stalled and dropped without the     *)
(* semaphore: the last of the answer, or its error, is still to be sent.   *)
Phases == {"new", "refused", "routed", "begun", "open", "queued", "running",
           "stalled", "dropped", "closing", "slow", "gone", "ended"}
Counted == {"queued", "running", "stalled", "dropped", "closing", "slow", "gone"}
Holding == {"running", "stalled", "dropped"}
In(S) == {r \in Requests : phase[r] \in S}

TypeOK == /\ clock \in 0..MaxClock
          /\ \A c \in Clients : /\ bucket[c].tokens \in Int
                                /\ bucket[c].tokens <= Capacity
                                /\ bucket[c].last \in 0..MaxClock
                                /\ admitted[c] \in Seq(0..MaxClock)
          /\ depth \in Nat /\ active \in Nat /\ total \in Nat
          /\ permits \in 0..Permits /\ waiting \in Seq(Requests)
          /\ kind \in [Requests -> Kinds] /\ phase \in [Requests -> Phases]
          /\ held \subseteq Requests

Init == /\ clock = 0
        /\ bucket = [c \in Clients |-> [tokens |-> Capacity, last |-> 0]]
        /\ depth = 0 /\ active = 0 /\ total = 0
        /\ permits = Permits /\ waiting = <<>>
        /\ kind \in [Requests -> Kinds]
        /\ phase = [r \in Requests |-> "new"] /\ held = {}
        /\ admitted = [c \in Clients |-> <<>>]

To(r, p) == phase' = [phase EXCEPT ![r] = p]

-----------------------------------------------------------------------------
(* The middleware.                                                         *)

(* The clock the buckets read, set back by an administrator or by NTP too. *)
Tick == /\ clock' \in {clock - 1, clock + 1} \cap 0..MaxClock
        /\ UNCHANGED <<bucket, depth, active, total, permits, waiting, kind,
                       phase, held, admitted>>

Refill_Fault(c) ==  (* the refill is not capped *)
  bucket[c].tokens + (clock - bucket[c].last) * Rate
Refill(c) == LET t == bucket[c].tokens + (clock - bucket[c].last) * Rate
             IN IF t < Capacity THEN t ELSE Capacity

(* consume: the refill is kept whether or not there is a token to take.    *)
Consume(c, ok) ==
  /\ ok = (Refill(c) >= 1)
  /\ bucket' = [bucket EXCEPT
       ![c] = [tokens |-> Refill(c) - (IF ok THEN 1 ELSE 0), last |-> clock]]

(* Too large, or no bearer token: refused before the bucket is asked.      *)
Reject(r) == /\ phase[r] = "new" /\ kind[r] # "socket"
             /\ To(r, "refused")
             /\ UNCHANGED <<clock, bucket, depth, active, total, permits,
                            waiting, kind, held, admitted>>

(* 429 from the bucket, 503 from the queue bound, or counted and routed.   *)
Arrive(r) ==
  /\ phase[r] = "new" /\ kind[r] # "socket"
  /\ \E ok \in BOOLEAN :
       /\ Consume(ClientOf[r], ok)
       /\ IF ok /\ depth < MaxDepth
          THEN /\ To(r, "routed") /\ depth' = depth + 1 /\ held' = held \cup {r}
          ELSE /\ To(r, "refused")
               /\ UNCHANGED <<depth, held>>
       /\ admitted' = IF ok THEN [admitted EXCEPT ![ClientOf[r]] = Append(@, clock)]
                      ELSE admitted
  /\ UNCHANGED <<clock, active, total, permits, waiting, kind>>

(* call_next returns as soon as the response starts: for a stream that is  *)
(* before its generator runs.  The request log is written here.            *)
Release(r) ==
  /\ r \in held
  /\ phase[r] = "ended" \/ (kind[r] = "stream" /\ phase[r] # "routed")
  /\ held' = held \ {r} /\ depth' = depth - 1
  /\ UNCHANGED <<clock, bucket, active, total, permits, waiting, kind, phase,
                 admitted>>

-----------------------------------------------------------------------------
(* The handlers.                                                           *)

(* A route that answers at once, or with 404, or from its own table of     *)
(* chunks, the last of them marked done.                                   *)
Answer(r) == /\ phase[r] = "routed" /\ kind[r] = "page"
             /\ To(r, "ended")
             /\ UNCHANGED <<clock, bucket, depth, active, total, permits,
                            waiting, kind, held, admitted>>

(* A generation is counted and asks for the semaphore: chat and text       *)
(* completions at once, a stream when its generator is first iterated, a   *)
(* socket at each prompt.                                                  *)
Enter(r) == /\ active' = active + 1
            /\ waiting' = Append(waiting, r)
            /\ To(r, "queued")

Plain(r) == /\ phase[r] = "routed" /\ kind[r] = "plain"
            /\ Enter(r) /\ total' = total + 1
            /\ UNCHANGED <<clock, bucket, depth, permits, kind, held, admitted>>

Begin(r) == /\ phase[r] = "routed" /\ kind[r] = "stream"
            /\ To(r, "begun") /\ total' = total + 1
            /\ UNCHANGED <<clock, bucket, depth, active, permits, waiting,
                           kind, held, admitted>>

Iterate(r) == /\ phase[r] = "begun"
              /\ Enter(r)
              /\ UNCHANGED <<clock, bucket, depth, total, permits, kind, held,
                             admitted>>

(* WebSockets do not pass the middleware: no limit, no token, no count.    *)
Accept(r) == /\ phase[r] = "new" /\ kind[r] = "socket"
             /\ To(r, "open")
             /\ UNCHANGED <<clock, bucket, depth, active, total, permits,
                            waiting, kind, held, admitted>>

Prompt(r) == /\ phase[r] = "open" /\ total <= Cardinality(Requests)  (* bound *)
             /\ Enter(r) /\ total' = total + 1
             /\ UNCHANGED <<clock, bucket, depth, permits, kind, held, admitted>>

Acquire(r) == /\ waiting # <<>> /\ r = Head(waiting) /\ permits > 0
              /\ permits' = permits - 1 /\ waiting' = Tail(waiting)
              /\ To(r, "running")
              /\ UNCHANGED <<clock, bucket, depth, active, total, kind, held,
                             admitted>>

(* The generation is over or has failed: the async with releases the       *)
(* semaphore.  A stream or a socket has its end marker or its error still  *)
(* to send; a plain answer is returned after the finally.                  *)
Finish(r) ==
  /\ phase[r] = "running"
  /\ permits' = permits + 1
  /\ IF kind[r] = "plain" THEN To(r, "ended") /\ active' = active - 1
                          ELSE To(r, "closing") /\ UNCHANGED active
  /\ UNCHANGED <<clock, bucket, depth, total, waiting, kind, held, admitted>>

(* That is sent, and the finally takes the count back.                     *)
Close(r) == /\ phase[r] = "closing"
            /\ To(r, IF kind[r] = "socket" THEN "open" ELSE "ended")
            /\ active' = active - 1
            /\ UNCHANGED <<clock, bucket, depth, total, permits, waiting, kind, held,
                           admitted>>

-----------------------------------------------------------------------------
(* Clients.                                                                *)

(* A client stops reading: the handler waits in send, which has no time-   *)
(* out, with the semaphore in its hands until the last token is out, and   *)
(* counted until its last word is; it may read on later.                   *)
Stall(r) == /\ kind[r] # "plain"
            /\ \E p \in {<<"running", "stalled">>, <<"closing", "slow">>} :
                 \/ phase[r] = p[1] /\ To(r, p[2])
                 \/ phase[r] = p[2] /\ To(r, p[1])
            /\ UNCHANGED <<clock, bucket, depth, active, total, permits,
                           waiting, kind, held, admitted>>

(* It leaves.  A stream is cancelled at its await; if that is the send of  *)
(* a chunk its generator is suspended in a yield and finished later.  A    *)
(* socket notices when it receives or sends.                               *)
Leave(r) ==
  /\ \/ /\ kind[r] = "stream" /\ phase[r] \in {"begun", "queued", "running"}
        /\ To(r, "ended")
        /\ active' = IF phase[r] = "begun" THEN active ELSE active - 1
        /\ permits' = IF phase[r] = "running" THEN permits + 1 ELSE permits
        /\ waiting' = RemoveFirst(waiting, r)
     \/ /\ kind[r] = "stream" /\ phase[r] \in {"stalled", "closing", "slow"}
        /\ To(r, IF phase[r] = "stalled" THEN "dropped" ELSE "gone")
        /\ UNCHANGED <<active, permits, waiting>>
     \/ /\ kind[r] = "socket"
        /\ phase[r] \in {"open", "running", "stalled", "closing", "slow"}
        /\ To(r, "ended")
        /\ active' = IF phase[r] = "open" THEN active ELSE active - 1
        /\ permits' = IF phase[r] \in Holding THEN permits + 1 ELSE permits
        /\ UNCHANGED waiting
  /\ UNCHANGED <<clock, bucket, depth, total, kind, held, admitted>>

Finalize_Fault(r) == FALSE  (* the generator is never closed *)
Finalize_Twice(r) ==  (* a bounded semaphore is released once more *)
  /\ phase[r] \in {"dropped", "gone"}
  /\ To(r, "ended") /\ active' = active - 1
  /\ permits' = IF permits < Permits THEN permits + 1 ELSE permits
  /\ UNCHANGED <<clock, bucket, depth, total, waiting, kind, held, admitted>>
(* The event loop closes the generator of a dropped stream, which leaves   *)
(* the async with, if it is in it, and the try.                            *)
Finalize(r) ==
  /\ phase[r] \in {"dropped", "gone"}
  /\ To(r, "ended") /\ active' = active - 1
  /\ permits' = IF phase[r] = "dropped" THEN permits + 1 ELSE permits
  /\ UNCHANGED <<clock, bucket, depth, total, waiting, kind, held, admitted>>

Serve(r) == Answer(r) \/ Plain(r) \/ Begin(r) \/ Iterate(r) \/ Close(r)
              \/ Release(r) \/ Finalize(r)
Generate(r) == Acquire(r) \/ Finish(r)
Client(r) == Reject(r) \/ Arrive(r) \/ Accept(r) \/ Prompt(r) \/ Stall(r) \/ Leave(r)
Next == Tick \/ \E r \in Requests : Serve(r) \/ Generate(r) \/ Client(r)

(* The loop runs what is ready; a generation ends, for IpcClient.tla's     *)
(* time-outs end it.  Nothing makes a client come, read or leave.          *)
Fairness == \A r \in Requests : /\ WF_vars(Serve(r)) /\ WF_vars(Acquire(r))
                                /\ WF_vars(Finish(r))
Spec == Init /\ [][Next]_vars /\ Fairness

-----------------------------------------------------------------------------
(* queue_depth is the number of requests the middleware has handed on and  *)
(* not got back, and never more than it may be.                            *)
DepthExact == depth = Cardinality(held) /\ depth <= MaxDepth

(* Whatever mix of requests fails, ends or is left, in the order the loop  *)
(* picks, the three counters say how many requests are where, also between *)
(* the release of the semaphore and the finally: a drift of queue_depth    *)
(* would refuse every later request, one of the semaphore would stop the   *)
(* server.                                                                 *)
CountersExact ==
  /\ DepthExact
  /\ active = Cardinality(In(Counted))
  /\ permits = Permits - Cardinality(In(Holding))
  /\ ToSet(waiting) = In({"queued"})

(* In any window a client passes its bucket at most Capacity times plus    *)
(* what the clock it reads has refilled, also when that clock is set back. *)
AdmissionBound ==
  \A c \in Clients : \A i, j \in DOMAIN admitted[c] :
    i <= j => j - i + 1 <= Capacity + Rate * (admitted[c][j] - admitted[c][i])

(* Whoever has asked for a generation gets it or has left, unless a client *)
(* that does not read keeps the semaphore: nothing ever times that out.    *)
GenerationsStart ==
  \A r \in Requests : (phase[r] = "queued") ~>
    (phase[r] # "queued" \/ In({"stalled"}) # {})
=============================================================================
