------------------------------- MODULE IpcClient -------------------------------
(***************************************************************************)
(* python/phantom/api/openai_compat.py: PhantomIPCClient, shared by every  *)
(* endpoint of the API server.  A task is one API request: a generation    *)
(* that is answered at once, one that streams, or a read of the metrics,   *)
(* which does not take the request semaphore.  Steps are what a coroutine  *)
(* does between two awaits.  Frames are read whole.  The core on the other *)
(* end is external: it answers the requests of a connection in order, as   *)
(* the client expects it to.                                               *)
(***************************************************************************)
EXTENDS Naturals, Sequences, FiniteSets, SequencesExt

CONSTANTS Tasks, Streams, Metrics,
          Permits,   (* PHANTOM_MAX_CONCURRENT                             *)
          Tokens,    (* tokens of a streamed answer                        *)
          MaxConns,  (* bound: connections opened                          *)
          Faults,    (* a subset of FaultKinds                             *)
          NoTask

(* "slow": an answer later than the time-out of send_request; "stall": a   *)
(* token later than that of stream_generate; "leave": a client drops its   *)
(* stream; "crash": the core dies, and may come back.                      *)
FaultKinds == {"slow", "stall", "leave", "crash"}

ClientAssumption ==
  /\ Streams \subseteq Tasks /\ Metrics \subseteq Tasks \ Streams
  /\ Permits \in Nat \ {0} /\ Tokens \in Nat /\ MaxConns \in Nat
  /\ Faults \subseteq FaultKinds /\ NoTask \notin Tasks

VARIABLES phase,      (* per task, see Phases                              *)
          outcome,    (* per task: "none", "ok", "mock", "error", "gone"   *)
          got,        (* per task: the frames it has read                  *)
          on,         (* per task: the connection it waits on              *)
          permits,    (* request_semaphore                                 *)
          lock,       (* holder of _lock                                   *)
          connected,  (* _connected                                        *)
          cur,        (* the connection of _reader and _writer, 0 for None *)
          inbox,      (* per connection: what the core has to answer       *)
          wire,       (* per connection: frames on their way to the client *)
          alive,      (* connections the core has not dropped              *)
          up,         (* the core is running                               *)
          faulted,    (* tasks that met a fault of the core, or began on a *)
                      (* connection it had dropped (history)               *)
          mixed       (* tasks that shared a connection with an answer to  *)
                      (* another, or had their reader replaced (history)   *)

vars == <<phase, outcome, got, on, permits, lock, connected, cur, inbox, wire,
          alive, up, faulted, mixed>>
core == <<inbox, wire, alive, up>>

Conns == 1..MaxConns
Phases == {"new", "connect", "lock", "write", "read", "wait", "done"}
Frames == [task : Tasks, n : 1..Tokens + 1]
Answer(t) == IF t \in Streams THEN Tokens + 1 ELSE 1   (* frames it takes  *)
Expected(t) == [n \in 1..Answer(t) |-> [task |-> t, n |-> n]]
Open == IF alive = {} THEN 0 ELSE CHOOSE c \in alive : \A d \in alive : d <= c

TypeOK == /\ phase \in [Tasks -> Phases]
          /\ outcome \in [Tasks -> {"none", "ok", "mock", "error", "gone"}]
          /\ \A t \in Tasks : got[t] \in Seq(Frames)
          /\ on \in [Tasks -> 0..MaxConns]
          /\ permits \in 0..Permits
          /\ lock \in Tasks \cup {NoTask}
          /\ connected \in BOOLEAN /\ cur \in 0..MaxConns
          /\ \A c \in Conns : inbox[c] \in Seq(Frames) /\ wire[c] \in Seq(Frames)
          /\ alive \subseteq Conns /\ up \in BOOLEAN
          /\ faulted \subseteq Tasks /\ mixed \subseteq Tasks

Init == /\ phase = [t \in Tasks |-> "new"] /\ outcome = [t \in Tasks |-> "none"]
        /\ got = [t \in Tasks |-> <<>>] /\ on = [t \in Tasks |-> 0]
        /\ permits = Permits /\ lock = NoTask
        /\ connected = FALSE /\ cur = 0
        /\ inbox = [c \in Conns |-> <<>>] /\ wire = [c \in Conns |-> <<>>]
        /\ alive = {} /\ up \in BOOLEAN /\ faulted = {} /\ mixed = {}

(* stream_generate writes at once, send_request takes the lock first.      *)
Ready(t) == IF t \in Streams THEN "write" ELSE "lock"

End_Fault(t, o) ==  (* gives back a permit it never took *)
  /\ phase' = [phase EXCEPT ![t] = "done"]
  /\ outcome' = [outcome EXCEPT ![t] = o]
  /\ lock' = IF lock = t THEN NoTask ELSE lock
  /\ permits' = permits + 1

(* The task ends: lock and permit are given back.                          *)
End(t, o) ==
  /\ phase' = [phase EXCEPT ![t] = "done"]
  /\ outcome' = [outcome EXCEPT ![t] = o]
  /\ lock' = IF lock = t THEN NoTask ELSE lock
  /\ permits' = IF t \in Metrics THEN permits ELSE permits + 1

Begin(t) ==
  /\ phase[t] = "new"
  /\ t \in Metrics \/ permits > 0
  /\ permits' = IF t \in Metrics THEN permits ELSE permits - 1
  /\ phase' = [phase EXCEPT ![t] = IF connected THEN Ready(t) ELSE "connect"]
  /\ faulted' = IF up /\ (connected => cur \in alive) THEN faulted
                                                     ELSE faulted \cup {t}
  /\ UNCHANGED <<outcome, got, on, lock, connected, cur, core, mixed>>

(* connect(): whoever ends last sets _reader and _writer.                  *)
Connect(t) ==
  /\ phase[t] = "connect" /\ up
  /\ \E c \in Conns :
       /\ \A d \in Conns : (d < c) = (d <= cur \/ d \in alive)
       /\ cur' = c /\ alive' = alive \cup {c}
  /\ connected' = TRUE
  /\ phase' = [phase EXCEPT ![t] = Ready(t)]
  /\ mixed' = mixed \cup {r \in Tasks : phase[r] = "read"}
  /\ UNCHANGED <<outcome, got, on, permits, lock, inbox, wire, up, faulted>>

ConnectFails(t) ==
  /\ phase[t] = "connect" /\ ~ up
  /\ connected' = FALSE
  /\ End(t, "mock")
  /\ UNCHANGED <<got, on, cur, core, faulted, mixed>>

Lock(t) ==
  /\ phase[t] = "lock" /\ lock = NoTask
  /\ lock' = t
  /\ phase' = [phase EXCEPT ![t] = "write"]
  /\ UNCHANGED <<outcome, got, on, permits, connected, cur, core, faulted, mixed>>

Others(t) == {r \in Tasks \ {t} : phase[r] \in {"read", "wait"}}
Write(t) ==
  /\ phase[t] = "write" /\ cur \in alive
  /\ inbox' = [inbox EXCEPT ![cur] = Append(@, [task |-> t, n |-> 1])]
  /\ phase' = [phase EXCEPT ![t] = "read"]
  /\ mixed' = IF Others(t) = {} /\ inbox[cur] = <<>> /\ wire[cur] = <<>>
                THEN mixed ELSE mixed \cup {t} \cup Others(t)
  /\ UNCHANGED <<outcome, got, on, permits, lock, connected, cur, wire, alive,
                 up, faulted>>

(* readexactly with an empty buffer: only one coroutine may wait.          *)
Waiters(c) == {t \in Tasks : phase[t] = "wait" /\ on[t] = c}
Wait(t) ==
  /\ phase[t] = "read" /\ wire[cur] = <<>> /\ cur \in alive /\ Waiters(cur) = {}
  /\ phase' = [phase EXCEPT ![t] = "wait"]
  /\ on' = [on EXCEPT ![t] = cur]
  /\ UNCHANGED <<outcome, got, permits, lock, connected, cur, core, faulted, mixed>>

(* A frame ends a send_request, whatever it is; a stream goes on until one *)
(* with "done".                                                            *)
Take_Fault(t) ==  (* the stream stops at its last token *)
  \E c \in {IF phase[t] = "wait" THEN on[t] ELSE cur} :
    /\ phase[t] \in {"read", "wait"} /\ c # 0 /\ wire[c] # <<>>
    /\ got' = [got EXCEPT ![t] = Append(@, Head(wire[c]))]
    /\ wire' = [wire EXCEPT ![c] = Tail(@)]
    /\ IF t \in Streams /\ Head(wire[c]).n < Tokens
         THEN /\ phase' = [phase EXCEPT ![t] = "read"]
              /\ UNCHANGED <<outcome, lock, permits>>
         ELSE End(t, "ok")
    /\ UNCHANGED <<on, connected, cur, inbox, alive, up, faulted, mixed>>

TakeKeepsLock_Fault(t) ==  (* the permit is not given back *)
  \E c \in {IF phase[t] = "wait" THEN on[t] ELSE cur} :
    /\ phase[t] \in {"read", "wait"} /\ c # 0 /\ wire[c] # <<>>
    /\ got' = [got EXCEPT ![t] = Append(@, Head(wire[c]))]
    /\ wire' = [wire EXCEPT ![c] = Tail(@)]
    /\ phase' = [phase EXCEPT ![t] = IF t \in Streams /\ Head(wire[c]).n <= Tokens
                                       THEN "read" ELSE "done"]
    /\ UNCHANGED <<outcome, lock, permits, on, connected, cur, inbox, alive, up,
                   faulted, mixed>>

Done(f) == f.task \in Streams /\ f.n = Tokens + 1
Take(t) ==
  \E c \in {IF phase[t] = "wait" THEN on[t] ELSE cur} :
    /\ phase[t] \in {"read", "wait"} /\ c # 0 /\ wire[c] # <<>>
    /\ got' = [got EXCEPT ![t] = Append(@, Head(wire[c]))]
    /\ wire' = [wire EXCEPT ![c] = Tail(@)]
    /\ IF t \in Streams /\ ~ Done(Head(wire[c]))
         THEN /\ phase' = [phase EXCEPT ![t] = "read"]
              /\ UNCHANGED <<outcome, lock, permits>>
         ELSE End(t, "ok")
    /\ UNCHANGED <<on, connected, cur, inbox, alive, up, faulted, mixed>>

Fail_Fault(t) ==  (* the connection is kept after a failed request *)
  /\ End(t, IF t \in Streams THEN "error" ELSE "mock")
  /\ UNCHANGED connected

(* send_request gives the connection up and answers with a mock response;  *)
(* stream_generate reports the error and keeps the connection.             *)
Fail(t) ==
  /\ End(t, IF t \in Streams THEN "error" ELSE "mock")
  /\ connected' = (connected /\ t \in Streams)

(* A connection the core has dropped, or a second waiter on its reader.    *)
Broken(t) ==
  /\ \/ phase[t] = "write" /\ cur \notin alive
     \/ phase[t] = "read" /\ wire[cur] = <<>> /\ cur \notin alive
     \/ phase[t] = "read" /\ wire[cur] = <<>> /\ Waiters(cur) # {}
     \/ phase[t] = "wait" /\ wire[on[t]] = <<>> /\ on[t] \notin alive
  /\ Fail(t)
  /\ UNCHANGED <<got, on, cur, core, faulted, mixed>>

(* An answer that is slow, or that will never come on this connection.     *)
Timeout(t) ==
  /\ phase[t] = "wait"
  /\ \/ (IF t \in Streams THEN "stall" ELSE "slow") \in Faults
     \/ wire[on[t]] = <<>> /\ inbox[on[t]] = <<>>
  /\ Fail(t)
  /\ faulted' = faulted \cup {t}
  /\ UNCHANGED <<got, on, cur, core, mixed>>

(* The client of a stream disconnects: the generator is closed at a yield. *)
LeaveStream(t) ==
  /\ t \in Streams /\ phase[t] = "read" /\ got[t] # <<>> /\ "leave" \in Faults
  /\ End(t, "gone")
  /\ UNCHANGED <<got, on, connected, cur, core, faulted, mixed>>

-----------------------------------------------------------------------------
(* The core: one answer per request, frame by frame.                       *)
Serve(c) ==
  /\ up /\ c \in alive /\ inbox[c] # <<>>
  /\ wire' = [wire EXCEPT ![c] = Append(@, Head(inbox[c]))]
  /\ LET f == Head(inbox[c])
     IN  inbox' = [inbox EXCEPT ![c] =
           IF f.n = Answer(f.task) THEN Tail(@)
                                   ELSE <<[f EXCEPT !.n = @ + 1]>> \o Tail(@)]
  /\ UNCHANGED <<phase, outcome, got, on, permits, lock, connected, cur, alive,
                 up, faulted, mixed>>

InFlight == {t \in Tasks : phase[t] \notin {"new", "done"}}
Crash ==
  /\ up /\ alive # {} /\ "crash" \in Faults
  /\ up' = FALSE /\ alive' = {}
  /\ faulted' = faulted \cup InFlight
  /\ UNCHANGED <<phase, outcome, got, on, permits, lock, connected, cur, inbox,
                 wire, mixed>>
Recover ==
  /\ ~ up /\ up' = TRUE
  /\ UNCHANGED <<phase, outcome, got, on, permits, lock, connected, cur, inbox,
                 wire, alive, faulted, mixed>>

Step(t) == \/ Begin(t) \/ Connect(t) \/ ConnectFails(t) \/ Lock(t) \/ Write(t)
           \/ Wait(t) \/ Take(t) \/ Broken(t) \/ Timeout(t)
Next == \/ \E t \in Tasks : Step(t) \/ LeaveStream(t)
        \/ \E c \in Conns : Serve(c)
        \/ Crash \/ Recover
(* The event loop runs what is ready, and a core that is up answers.       *)
Fairness == /\ \A t \in Tasks : WF_vars(Step(t))
            /\ \A c \in Conns : WF_vars(Serve(c))
            /\ WF_vars(Recover)
Spec == Init /\ [][Next]_vars /\ Fairness

-----------------------------------------------------------------------------
(* A request that has its connection to itself gets its answer: a stream   *)
(* its tokens in order and, at its end, all of them.                       *)
AnswersMatch ==
  \A t \in Tasks \ mixed : /\ IsPrefix(got[t], Expected(t))
                            /\ outcome[t] = "ok" => got[t] = Expected(t)

(* The semaphore, the lock and the reconnection after a failed request keep*)
(* requests apart on connections, time-outs and restarts of the core       *)
(* included, until the metrics are read or a stream is given up.           *)
MixingHasACause ==
  mixed # {} => \/ \E m \in Metrics : phase[m] # "new"
                \/ \E s \in Streams : outcome[s] \in {"gone", "error"}

(* A stream fails only when the core failed or stalled while it ran, or had*)
(* dropped the connection before (after a restart of the core streams keep *)
(* failing until a send_request notices and reconnects), or when another   *)
(* request used its connection.                                            *)
ErrorsAreOwn == \A t \in Tasks : outcome[t] = "error" => t \in faulted \cup mixed

(* Both: what goes wrong on a connection has one of the causes named above.*)
FailuresHaveACause == MixingHasACause /\ ErrorsAreOwn

(* Every request ends, whatever happens to the core.                       *)
RequestsEnd == <>(\A t \in Tasks : phase[t] = "done")

(* send_request: "Send a request dict and receive a response dict via IPC."*)
(* The response is the one to that request.                                *)
ResponsesMatch == \A t \in Tasks \ Streams : outcome[t] = "ok" => got[t] = Expected(t)
=============================================================================
