-------------------------------- MODULE Plugins --------------------------------
(***************************************************************************)
(* python/phantom/plugins/: the pipeline of interceptors, the tool router  *)
(* and the prefix cache, shared by all generations of a process.  No       *)
(* built-in interceptor suspends, so the passage of one request through one*)
(* of the intercept points is a step; registrations and the points of other*)
(* requests come between.  pre_request and on_token pass on what they get, *)
(* unless a user's own plugin rejects it, and nothing of it is kept.       *)
(*                                                                         *)
(* Data.  A prefix is a model value, or NoPrefix for a prompt too short to *)
(* have one.  The texts that the plugins put before a prompt are left out. *)
(***************************************************************************)
EXTENDS Naturals, Sequences, FiniteSets, SequencesExt

CONSTANTS Tools, Servers, Heads, NoPrefix,
          Nameless,     (* what t.get("name") is of a tool without a name   *)
          Chats,        (* generations, each with its GenerationContext     *)
          MaxCached,    (* max_cached_prefixes                              *)
          MaxSteps      (* bound: registrations and prompts                *)

PluginsAssumption == MaxCached \in Nat \ {0} /\ NoPrefix \notin Heads
                       /\ Nameless \notin Tools

VARIABLES tools,     (* ToolRouterPlugin.tools: the names and their handlers*)
          http,      (* http_tools                                          *)
          offers,    (* mcp_servers: what each was registered with          *)
          cache,     (* ContextCachePlugin.cache: last_hit, and the order   *)
                     (* of the dictionary                                   *)
          hits, misses, time,
          stage,     (* per chat: "idle" or "asked"                         *)
          context,   (* per chat: metadata["cached_prefix_hit"]             *)
          shown,     (* history: the tools the prompt of a chat has listed  *)
          uses,      (* history: the prefixes in the order of their last use*)
          unsteady,  (* history: two look-ups read the same time            *)
          steps

routerVars == <<tools, http, offers>>
cacheVars == <<cache, hits, misses, time, uses, unsteady>>
chatVars == <<stage, context, shown>>
vars == <<routerVars, cacheVars, chatVars, steps>>

Local(n) == [kind |-> "local", server |-> "none", name |-> n]
Mcp(s, n) == [kind |-> "mcp", server |-> s, name |-> n]
Http(n) == [kind |-> "http", server |-> "none", name |-> n]
None == [kind |-> "none", server |-> "none", name |-> "none"]
Offers == {s \in SeqOf(Tools \cup {Nameless}, 2) : IsInjective(s)}

TypeOK ==
  /\ DOMAIN tools \subseteq Tools /\ http \subseteq Tools
  /\ DOMAIN offers \subseteq Servers /\ ToSet(uses) \subseteq Heads
  /\ \A i \in DOMAIN cache : cache[i].prefix \in Heads /\ cache[i].last \in 0..time
  /\ \A c \in Chats : stage[c] \in {"idle", "asked"}

Init ==
  /\ tools = [n \in {} |-> None] /\ http = {} /\ offers = [s \in {} |-> <<>>]
  /\ cache = <<>> /\ hits = 0 /\ misses = 0 /\ time = 0 /\ uses = <<>> /\ unsteady = FALSE
  /\ steps = 0 /\ shown = [c \in Chats |-> {}]
  /\ stage = [c \in Chats |-> "idle"]
  /\ context = [c \in Chats |-> FALSE]

Within == steps < MaxSteps /\ steps' = steps + 1
With(f, S, v(_)) == [n \in DOMAIN f \cup S |-> IF n \in S THEN v(n) ELSE f[n]]

RegisterTool ==
  /\ Within /\ \E n \in Tools : tools' = With(tools, {n}, Local)
  /\ UNCHANGED <<http, offers, cacheVars, chatVars>>
RegisterHttpTool ==
  /\ Within /\ \E n \in Tools : http' = http \cup {n}
  /\ UNCHANGED <<tools, offers, cacheVars, chatVars>>

(* The handlers of a server are closures over the loop variable tool_name: *)
(* once the loop has ended each of them calls the tool that came last.  A  *)
(* tool without a name stays on the server's list and gets no handler.     *)
RegisterMcpServer_Fault ==  (* the names are registered, no server          *)
  /\ Within /\ \E s \in Servers, o \in Offers : offers' = With(offers, {s}, LAMBDA n : o)
  /\ UNCHANGED <<tools, http, cacheVars, chatVars>>
RegisterMcpServer ==
  /\ Within
  /\ \E s \in Servers, o \in Offers :
       /\ offers' = With(offers, {s}, LAMBDA n : o)
       /\ tools' = With(tools, ToSet(o) \ {Nameless}, LAMBDA n : Mcp(s, Last(o)))
  /\ UNCHANGED <<http, cacheVars, chatVars>>

(* get_tool_definitions lists the three tables.                            *)
Listed(t) == IF t = Nameless THEN "unknown" ELSE t
Defined == DOMAIN tools \cup http
             \cup {Listed(t) : t \in UNION {ToSet(offers[s]) : s \in DOMAIN offers}}

-----------------------------------------------------------------------------
Oldest_Fault == 1  (* first in, first out *)
(* The entry with the smallest last_hit, the first of these in the order of*)
(* the dictionary.                                                         *)
Oldest == CHOOSE i \in DOMAIN cache : \A j \in DOMAIN cache :
            cache[i].last < cache[j].last \/ (cache[i].last = cache[j].last /\ i <= j)
Kept == IF Len(cache) >= MaxCached THEN RemoveAt(cache, Oldest) ELSE cache
Touched(p) == [i \in DOMAIN cache |->
                 IF cache[i].prefix = p THEN [cache[i] EXCEPT !.last = time'] ELSE cache[i]]
Used(p) == Append(RemoveFirst(uses, p), p)

(* ContextCachePlugin.pre_generate.  A prompt without a prefix leaves the  *)
(* metadata of the prompt before it.                                       *)
LookUp(c, p) ==
  LET hit == \E i \in DOMAIN cache : cache[i].prefix = p
  IN  IF p = NoPrefix
      THEN UNCHANGED <<cacheVars, context>>
      ELSE /\ time' \in {time, time + 1}
           /\ cache' = IF hit THEN Touched(p) ELSE Append(Kept, [prefix |-> p, last |-> time'])
           /\ hits' = hits + (IF hit THEN 1 ELSE 0)
           /\ misses' = misses + (IF hit THEN 0 ELSE 1)
           /\ uses' = Used(p) /\ unsteady' = (unsteady \/ time' = time)
           /\ context' = [context EXCEPT ![c] = hit]

Ask(c) ==
  /\ Within /\ stage[c] = "idle" /\ stage' = [stage EXCEPT ![c] = "asked"]
  /\ shown' = [shown EXCEPT ![c] = Defined]
  /\ \E p \in Heads \cup {NoPrefix} : LookUp(c, p)
  /\ UNCHANGED routerVars

(* post_generate: a tool of the process or a server before an HTTP tool of *)
(* the same name; a name that is none of these leaves the reply as it is.  *)
(* What a tool does is its own affair.                                     *)
Handler(n) == IF n \in DOMAIN tools THEN tools[n] ELSE IF n \in http THEN Http(n) ELSE None
PostGenerate(c) ==
  /\ stage[c] = "asked" /\ stage' = [stage EXCEPT ![c] = "idle"]
  /\ shown' = [shown EXCEPT ![c] = {}]
  /\ UNCHANGED <<routerVars, cacheVars, context, steps>>

Next == \/ RegisterTool \/ RegisterHttpTool \/ RegisterMcpServer
        \/ \E c \in Chats : Ask(c) \/ PostGenerate(c)
Spec == Init /\ [][Next]_vars

-----------------------------------------------------------------------------
(* A tool that a prompt has listed is there when the answer calls it, also *)
(* if servers and tools of the same names were registered meanwhile, and   *)
(* a name of a server leads to a server that is registered.  The exception *)
(* is what a prompt calls "unknown": line 118 lists a server's tool without*)
(* a name, and line 95 has registered nothing that answers to it.          *)
ListedIsCallable ==
  /\ \A c \in Chats : stage[c] = "asked" =>
       \A n \in shown[c] \ {"unknown"} : Handler(n) # None
  /\ \A n \in DOMAIN tools : tools[n].kind = "mcp" => tools[n].server \in DOMAIN offers

(* The cache keeps the prefixes that were used last, as many as it may, as *)
(* long as every look-up reads a later time than the one before; it never  *)
(* holds one twice, and a prefix that was used has missed once.            *)
CacheKeepsTheRecent ==
  LET cached == {cache[i].prefix : i \in DOMAIN cache}
      n == IF Len(uses) < MaxCached THEN Len(uses) ELSE MaxCached
  IN  /\ Cardinality(cached) = Len(cache) /\ Len(cache) = n
      /\ ~ unsteady => cached = ToSet(SubSeq(uses, Len(uses) - n + 1, Len(uses)))
      /\ Len(uses) <= misses

(* tool_router/plugin.py:4-6: "Allows Python functions decorated with      *)
(* @phantom_tool, REST endpoints, and MCP tool servers to be invoked by    *)
(* models during generation."  A tool of a server is invoked by its name.  *)
ToolsReachOwn == \A n \in DOMAIN tools : tools[n].name = n
=============================================================================
