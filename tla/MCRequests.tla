------------------------------ MODULE MCRequests ------------------------------
(***************************************************************************)
(* The way of a request: plugins dress its prompt and read its answer, the *)
(* client carries it to the core, the scheduler gives it a slot, and a     *)
(* counter adds up what moves meanwhile.  In this repository they are not  *)
(* wired to each other, so a behaviour exercises one of them.              *)
(***************************************************************************)
EXTENDS ChronosScheduler

CONSTANTS Parts,                                                  (* of this *)
          Tasks, Streams, Metrics, Permits, Tokens, MaxConns, Faults, NoTask, (* IpcClient *)
          Tools, Servers, Heads, NoPrefix, Nameless, Chats, MaxCached, MaxSteps,  (* Plugins *)
          Kinds, MaxBytes, MaxTokens                          (* ByteCounter *)

VARIABLES part,
          phase, outcome, got, on, permits, lock, connected, cur, inbox, wire, alive, up,
          faulted, mixed,
          tools, http, offers, cache, hits, misses, time, stage, context,
          shown, uses, unsteady, steps,
          cumulative, current, history, moved, tokens
ipcVars == <<phase, outcome, got, on, permits, lock, connected, cur, inbox, wire, alive, up,
             faulted, mixed>>
pluginVars == <<tools, http, offers, cache, hits, misses, time, stage, context,
                shown, uses, unsteady, steps>>
counterVars == <<cumulative, current, history, moved, tokens>>
allVars == <<part, vars, ipcVars, pluginVars, counterVars>>

I == INSTANCE IpcClient
P == INSTANCE Plugins
B == INSTANCE ByteCounter
ASSUME RequestsAssumption == I!ClientAssumption /\ P!PluginsAssumption

(* A client with nothing left to do, where another part is exercised.      *)
Quiet == /\ phase = [t \in Tasks |-> "done"] /\ outcome = [t \in Tasks |-> "none"]
         /\ got = [t \in Tasks |-> <<>>] /\ on = [t \in Tasks |-> 0]
         /\ permits = Permits /\ lock = NoTask /\ connected = FALSE /\ cur = 0
         /\ inbox = [c \in 1..MaxConns |-> <<>>] /\ wire = [c \in 1..MaxConns |-> <<>>]
         /\ alive = {} /\ up = TRUE /\ faulted = {} /\ mixed = {}

MCInit == /\ part \in Parts /\ Init /\ P!Init /\ B!Init
          /\ IF part = "ipc" THEN I!Init ELSE Quiet
MCNext ==
  \/ part = "scheduler" /\ Next /\ UNCHANGED <<part, ipcVars, pluginVars, counterVars>>
  \/ part = "ipc" /\ I!Next /\ UNCHANGED <<part, vars, pluginVars, counterVars>>
  \/ part = "plugins" /\ P!Next /\ UNCHANGED <<part, vars, ipcVars, counterVars>>
  \/ part = "bytes" /\ B!Next /\ UNCHANGED <<part, vars, ipcVars, pluginVars>>
MCSpec == MCInit /\ [][MCNext]_allVars /\ Fairness /\ I!Fairness

(* Each part keeps its types.                                              *)
RequestsTypeOK == TypeOK /\ I!TypeOK /\ P!TypeOK /\ B!TypeOK
(* IpcClient.tla: a request alone on its connection gets its answer.       *)
AnswersMatch == I!AnswersMatch
(* IpcClient.tla: what goes wrong has one of the causes named there.       *)
FailuresHaveACause == I!FailuresHaveACause
(* IpcClient.tla: every request ends.                                      *)
RequestsEnd == I!RequestsEnd
(* Plugins.tla: listed tools can be called, and the cache keeps what was   *)
(* used last.  ByteCounter.tla: every byte is counted, in its own token.   *)
MiddlewareSound == /\ part = "plugins" => P!ListedIsCallable /\ P!CacheKeepsTheRecent
                   /\ part = "bytes" => B!BytesAccounted
(* tool_router/plugin.py:4-6, see Plugins.tla.                             *)
ToolsReachOwn == P!ToolsReachOwn
=============================================================================
