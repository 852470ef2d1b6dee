------------------------------ MODULE TokenStream ------------------------------
(***************************************************************************)
(* python/phantom/api/websocket_stream.py: one WebSocket session.  A       *)
(* request runs two coroutines under asyncio.gather: run_generation puts   *)
(* tokens into a bounded asyncio.Queue, stream_to_websocket drains it into *)
(* the socket.  Tokens are numbered in the order the model yields them; a  *)
(* step is what a coroutine does between two awaits.                       *)
(***************************************************************************)
EXTENDS Naturals, Sequences

CONSTANTS QueueSize,  (* maxsize of the asyncio queue (256 in the code)    *)
          MaxTokens,  (* longest response of the generator                 *)
          Faults      (* what may go wrong: a subset of                    *)
                      (* {"disconnect", "error", "timeout", "generator"}   *)

StreamAssumption ==
  /\ QueueSize \in Nat \ {0} /\ MaxTokens \in Nat
  /\ Faults \subseteq {"disconnect", "error", "timeout", "generator"}

VARIABLES session,   (* "receiving", "serving" or "closed"                 *)
          queue,     (* _queue: token numbers, 0 for the None end marker   *)
          cancelled, (* _cancelled                                         *)
          sent,      (* tokens_sent: puts completed                        *)
          gen,       (* run_generation: see GenPhases                      *)
          produced,  (* tokens generate_fn has yielded                     *)
          snd,       (* stream_to_websocket: "get", "send", "ended"        *)
          frame,     (* the token the sender holds                         *)
          delivered  (* what the client has received of this request       *)

vars == <<session, queue, cancelled, sent, gen, produced, snd, frame,
          delivered>>

EndMarker == 0
HasRoom == Len(queue) < QueueSize
(* "run": inside generate_fn; "put", "puterr": blocked in put_token with a *)
(* token or the error text; "end": in put_done; "ended": returned.         *)
GenPhases == {"run", "put", "puterr", "end", "ended"}

TypeOK == /\ session \in {"receiving", "serving", "closed"}
          /\ queue \in Seq(0..MaxTokens + 1) /\ Len(queue) <= QueueSize
          /\ cancelled \in BOOLEAN
          /\ sent \in 0..MaxTokens + 1 /\ produced \in 0..MaxTokens + 1
          /\ gen \in GenPhases /\ snd \in {"get", "send", "ended"}
          /\ frame \in 0..MaxTokens + 1
          /\ delivered \in Seq(0..MaxTokens + 1)

Init == /\ session = "receiving" /\ queue = <<>> /\ cancelled = FALSE
        /\ sent = 0 /\ gen = "ended" /\ produced = 0 /\ snd = "ended"
        /\ frame = EndMarker /\ delivered = <<>>

(* receive_json with a prompt: a fresh streamer, both coroutines start.    *)
Request == /\ session = "receiving"
           /\ session' = "serving"
           /\ queue' = <<>> /\ cancelled' = FALSE /\ sent' = 0
           /\ gen' = "run" /\ produced' = 0
           /\ snd' = "get" /\ frame' = EndMarker /\ delivered' = <<>>

(* receive_json raises WebSocketDisconnect.                                *)
Leave == /\ session = "receiving" /\ "disconnect" \in Faults
         /\ session' = "closed"
         /\ UNCHANGED <<queue, cancelled, sent, gen, produced, snd, frame,
                        delivered>>

-----------------------------------------------------------------------------
(* run_generation.                                                         *)

(* generate_fn yields its next token: put_token drops it when cancelled,   *)
(* queues it when there is room, and blocks otherwise.                     *)
Yield_Fault ==  (* the cancelled test is dropped with its wait: put_nowait *)
  /\ gen = "run" /\ produced < MaxTokens
  /\ produced' = produced + 1
  /\ queue' = Append(queue, produced') /\ sent' = sent + 1
  /\ UNCHANGED <<session, cancelled, gen, snd, frame, delivered>>

Yield == /\ gen = "run" /\ produced < MaxTokens
         /\ produced' = produced + 1
         /\ \/ /\ cancelled
               /\ UNCHANGED <<queue, sent, gen>>
            \/ /\ ~ cancelled /\ HasRoom
               /\ queue' = Append(queue, produced') /\ sent' = sent + 1
               /\ UNCHANGED gen
            \/ /\ ~ cancelled /\ ~ HasRoom
               /\ gen' = "put"
               /\ UNCHANGED <<queue, sent>>
         /\ UNCHANGED <<session, cancelled, snd, frame, delivered>>

PutToken_Fault ==  (* the waiting token is not put again *)
  /\ gen = "put" /\ HasRoom
  /\ sent' = sent + 1
  /\ gen' = "run"
  /\ UNCHANGED <<session, queue, cancelled, produced, snd, frame, delivered>>

(* The blocked put goes through once the queue has room.                   *)
PutToken == /\ gen = "put" /\ HasRoom
            /\ queue' = Append(queue, produced)
            /\ sent' = sent + 1
            /\ gen' = "run"
            /\ UNCHANGED <<session, cancelled, produced, snd, frame, delivered>>

(* The generator ends: put_done follows.                                   *)
Exhausted == /\ gen = "run"
             /\ gen' = "end"
             /\ UNCHANGED <<session, queue, cancelled, sent, produced, snd,
                            frame, delivered>>

(* generate_fn raises: the error text is put as one more token (dropped    *)
(* when cancelled), then put_done.                                         *)
GeneratorFails ==
  /\ gen = "run" /\ "generator" \in Faults
  /\ gen' = IF cancelled THEN "end" ELSE "puterr"
  /\ produced' = IF cancelled THEN produced ELSE produced + 1
  /\ UNCHANGED <<session, queue, cancelled, sent, snd, frame, delivered>>

PutError == /\ gen = "puterr" /\ HasRoom
            /\ queue' = Append(queue, produced)
            /\ sent' = sent + 1
            /\ gen' = "end"
            /\ UNCHANGED <<session, cancelled, produced, snd, frame, delivered>>

PutDone == /\ gen = "end" /\ HasRoom
           /\ queue' = Append(queue, EndMarker)
           /\ gen' = "ended"
           /\ UNCHANGED <<session, cancelled, sent, produced, snd, frame,
                          delivered>>

-----------------------------------------------------------------------------
(* stream_to_websocket.                                                    *)

Get == /\ session = "serving" /\ snd = "get" /\ queue # <<>>
       /\ frame' = Head(queue) /\ queue' = Tail(queue)
       /\ snd' = "send"
       /\ UNCHANGED <<session, cancelled, sent, gen, produced, delivered>>

Send_Fault ==  (* the break after the end marker is lost *)
  /\ session = "serving" /\ snd = "send"
  /\ delivered' = Append(delivered, frame)
  /\ snd' = "get"
  /\ UNCHANGED <<session, queue, cancelled, sent, gen, produced, frame>>

(* send_json succeeds; the end marker breaks the loop.                     *)
Send == /\ session = "serving" /\ snd = "send"
        /\ delivered' = Append(delivered, frame)
        /\ snd' = IF frame = EndMarker THEN "ended" ELSE "get"
        /\ UNCHANGED <<session, queue, cancelled, sent, gen, produced, frame>>

(* No token for 60 s: the sender reports it and stops draining.  When that *)
(* send_json fails too, the exception leaves the function: gather re-raises*)
(* it, the session ends and run_generation stays behind on its own.        *)
Timeout == /\ session = "serving" /\ snd = "get" /\ queue = <<>>
           /\ "timeout" \in Faults /\ gen = "run"
           /\ snd' = "ended"
           /\ \/ UNCHANGED session
              \/ Faults \cap {"error", "disconnect"} # {} /\ session' = "closed"
           /\ UNCHANGED <<queue, cancelled, sent, gen, produced, frame, delivered>>

(* send_json raises WebSocketDisconnect: the stream is cancelled.          *)
Disconnect == /\ session = "serving" /\ snd = "send" /\ "disconnect" \in Faults
              /\ cancelled' = TRUE
              /\ snd' = "ended"
              /\ UNCHANGED <<session, queue, sent, gen, produced, frame,
                             delivered>>

(* send_json raises anything else: logged, never cancelled.                *)
SendFails == /\ session = "serving" /\ snd = "send" /\ "error" \in Faults
             /\ snd' = "ended"
             /\ UNCHANGED <<session, queue, cancelled, sent, gen, produced,
                            frame, delivered>>

(* gather returns when both coroutines have: back to receive_json.         *)
Joined == /\ session = "serving" /\ gen = "ended" /\ snd = "ended"
          /\ session' = "receiving"
          /\ UNCHANGED <<queue, cancelled, sent, gen, produced, snd, frame,
                         delivered>>

Generate == Yield \/ PutToken \/ Exhausted \/ GeneratorFails \/ PutError
              \/ PutDone
Drain == Get \/ Send \/ Timeout \/ Disconnect \/ SendFails
Next == Request \/ Leave \/ Generate \/ Drain \/ Joined

(* The event loop runs every ready coroutine, and generate_fn ends: it     *)
(* stops after max_tokens.  Clients need not ask for anything.             *)
Fairness == WF_vars(Generate) /\ WF_vars(Drain) /\ WF_vars(Joined)
Spec == Init /\ [][Next]_vars /\ Fairness

-----------------------------------------------------------------------------
(* Nothing is lost, repeated or reordered between the generator and the    *)
(* client: what was delivered, what the sender holds, what is queued and   *)
(* what is being put are the tokens 1..produced in order, with the end     *)
(* marker after them once it is put, until the stream is cancelled or its  *)
(* sender has stopped.                                                     *)
Numbers(n) == [i \in 1..n |-> i]
InFlight == (IF snd = "send" THEN <<frame>> ELSE <<>>) \o queue
              \o (IF gen \in {"put", "puterr"} THEN <<produced>> ELSE <<>>)
Expected == IF gen = "ended" THEN Append(Numbers(produced), EndMarker)
                             ELSE Numbers(produced)
InOrder == (session = "serving" /\ ~ cancelled /\ snd # "ended")
             => delivered \o InFlight = Expected

(* The client sees the end of a stream only after every token of it, and   *)
(* nothing after it.                                                       *)
DoneIsLast == \A i \in DOMAIN delivered : delivered[i] = EndMarker =>
                 i = Len(delivered) /\ delivered = Append(Numbers(produced), EndMarker)

(* Every request ends, and no run_generation is left behind, unless the    *)
(* sender has stopped draining while the producer waits for room: cancel() *)
(* does not release it, and a failed send or a timeout does not cancel.    *)
Wedged == snd = "ended" /\ gen \in {"put", "puterr", "end"} /\ ~ HasRoom
RequestsEnd ==
  (session = "serving") ~> ((session # "serving" /\ gen = "ended") \/ Wedged)
=============================================================================
