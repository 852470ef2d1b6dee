------------------------------- MODULE MCServing -------------------------------
(***************************************************************************)
(* The two halves of the API surface that run without the core.  They      *)
(* share no state, so a behaviour exercises one of them and the other      *)
(* stays as it started: the state spaces add up instead of multiplying.    *)
(***************************************************************************)
EXTENDS Gateway, TLC

CONSTANTS r1, r2, r3, c1, c2, QueueSize, MaxTokens, Faults

MCRequests == {r1, r2, r3}
MCClients == {c1, c2}
MCClientOf == r1 :> c1 @@ r2 :> c1 @@ r3 :> c2

VARIABLES part, session, queue, cancelled, sent, gen, produced, snd, frame,
          delivered
streamVars == <<session, queue, cancelled, sent, gen, produced, snd, frame,
                delivered>>
T == INSTANCE TokenStream
ASSUME ServingAssumption == T!StreamAssumption

Parts == {"stream", "gateway"}
MCInit == /\ part \in Parts
          /\ T!Init
          /\ Init
          /\ kind[r1] # "page" /\ kind[r3] \in {"stream", "socket"}
          /\ part = "stream" => \A r \in Requests : kind[r] = "stream"
MCNext == \/ part = "stream" /\ T!Next /\ UNCHANGED <<part, vars>>
          \/ part = "gateway" /\ Next /\ UNCHANGED <<part, streamVars>>
MCSpec == /\ MCInit /\ [][MCNext]_<<part, vars, streamVars>>
          /\ Fairness /\ T!Fairness

(* Both parts keep their types.                                            *)
ServingTypeOK == part \in Parts /\ TypeOK /\ T!TypeOK
(* TokenStream.tla: tokens reach the client in order and unrepeated, and   *)
(* the end marker once, last.                                              *)
TokensArrive == T!InOrder /\ T!DoneIsLast
(* TokenStream.tla: a request ends and leaves no producer behind, unless   *)
(* its sender gave up on a full queue.                                     *)
StreamsEnd == T!RequestsEnd
=============================================================================
