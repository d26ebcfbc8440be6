----------------------------- MODULE McpServers -----------------------------
(***************************************************************************)
(* The MCP servers of the JSON-RPC process: who starts them, who replaces   *)
(* them and who shuts them down.  A builder belongs to one `initialize`     *)
(* (its generation g) and owns one MCPManager, which owns one client per    *)
(* configured server.  Four kinds of thread work on them at once:           *)
(*                                                                          *)
(*   the dispatch thread   initialize, mcp/shutdown, mcp/auth/logout        *)
(*   the loader of g       _load_mcp_async: load, then swap the agent       *)
(*   a client's worker     start and handshake                              *)
(*   an authorization      _run_mcp_auth: reload one server, then swap      *)
(*                                                                          *)
(* What an authorization and a client's requests do to the credentials is   *)
(* in McpAuth.                                                              *)
(***************************************************************************)
EXTENDS Naturals, SequencesExt

CONSTANTS
  Servers,       \* names of MCP servers
  GlobalFile,    \* ~/.cluxmate/mcp.json: a function from names to entries
  ProjectFile,   \* <config root>/.cluxmate/mcp.json, likewise
  MaxInits,      \* bound on initialize requests
  MaxClients,    \* bound on the clients ever constructed
  MaxEarly,      \* bound on further requests if the first load is still running
  MaxLate        \* bound on further requests once it is over

ASSUME ServersAssumption ==
  /\ IsFiniteSet(Servers) /\ "dispatch" \notin Servers
  /\ DOMAIN GlobalFile \subseteq Servers /\ DOMAIN ProjectFile \subseteq Servers
  /\ MaxInits \in Nat \ {0}

VARIABLES
  gen,      \* _init_gen
  cur,      \* the server's _builder, by its generation; 0 for None
  trusted,  \* whether the project's own mcp.json is read
  closed,   \* generations whose builder and manager are latched closed
  mgr,      \* manager of each generation
  client,   \* every MCPClient constructed, in order
  agent,    \* self._agent: whose builder built it, over which clients
  loader,   \* the background loader of each generation; at "done" its ready
            \* event is set
  disp,     \* what the dispatch thread is in the middle of
  rel,      \* per thread: an authorization, and its reload of a server
  left,     \* what remains of MaxEarly or MaxLate
  missed,   \* ghost: clients no shutdown will reach any more
  crossed   \* ghost: a rebuild of the agent was overtaken, see below

mcpVars == <<gen, cur, trusted, closed, mgr, client, agent, loader, disp, rel, left,
          missed, crossed>>

Gens == 1..MaxInits
Threads == {"dispatch"} \union Servers

-----------------------------------------------------------------------------
(* mcp.json.  An entry maps the fields it has to values; a project entry    *)
(* overrides the global one field by field.                                 *)

Field(e, f, default) == IF f \in DOMAIN e THEN e[f] ELSE default

MergedEntries ==
  LET files == IF trusted THEN {GlobalFile, ProjectFile} ELSE {GlobalFile}
      names == UNION {DOMAIN f : f \in files}
  IN  [n \in names |->
         IF n \in DOMAIN ProjectFile /\ trusted
           THEN ProjectFile[n] @@ Field(GlobalFile, n, << >>)
           ELSE GlobalFile[n]]

Transport(e) == CASE Field(e, "command", FALSE) -> "stdio"
                  [] ~Field(e, "command", FALSE) /\ Field(e, "url", FALSE) -> "http"
                  [] OTHER -> "none"

(* An oauth object or `true` beats a static Authorization header, which     *)
(* beats latent OAuth; `false` turns it off; on a local server it is an     *)
(* error the client reports instead of starting.                            *)
OAuthOf(e) ==
  LET raw == Field(e, "oauth", "absent")
      asked == raw \in {"object", "true"}
  IN  CASE Transport(e) = "stdio" -> IF asked THEN "error" ELSE "off"
        [] raw = "false" -> "off"
        [] asked -> "on"
        [] OTHER -> IF Field(e, "header", FALSE) THEN "off" ELSE "on"

ReadConfigs ==
  LET m == MergedEntries
  IN  [n \in {k \in DOMAIN m : Transport(m[k]) # "none"} |->
         [transport |-> Transport(m[n]), oauth |-> OAuthOf(m[n]),
          disabled |-> Field(m[n], "disabled", FALSE)]]

-----------------------------------------------------------------------------
(* Clients.  `op` is how far the worker is: "new" before the transport is   *)
(* opened, "hand" during the handshake.  Of the status the lifecycle tells  *)
(* apart: serving tools, connected without tools, anything else ("off").    *)

Clients == DOMAIN client

NewClient(g, s) == [gen |-> g, server |-> s, up |-> FALSE, op |-> "new", status |-> "off"]

(* shutdown() kills the transport without taking the client's lock ...      *)
Killed(cs) == [c \in Clients |->
  IF c \in cs THEN [client[c] EXCEPT !.up = FALSE, !.status = "off"] ELSE client[c]]

(* ... which does nothing to a transport still to be opened; it returns     *)
(* once no request holds the lock.                                          *)
Unopened(cs) == {c \in cs : client[c].op = "new"}
Released(cs) == \A c \in cs : client[c].op # "hand"

Registered(g) == {mgr[g].clients[s] : s \in Servers} \ {0}

(* _rebuild_tools: the wrappers of every enabled, connected client.         *)
RebuiltTools(g) ==
  {c \in Registered(g) :
     /\ ~ReadConfigs[client[c].server].disabled
     /\ client[c].status = "serving"}

(* The servers whose tools these wrappers expose.                           *)
Exposed(tools) == {client[k].server : k \in tools}

(* builder.build: MCP tools come from the manager the builder holds; after  *)
(* mcp_shutdown it makes a fresh, never loaded one, which has none.         *)
BuiltAgent(g) == [gen |-> g, tools |-> IF g \in closed THEN {} ELSE mgr[g].tools]

NoAgent == [gen |-> 0, tools |-> {}]

FreshManager == [loaded |-> FALSE, clients |-> [s \in Servers |-> 0], tools |-> {},
                 stop |-> "no"]

NoLoader == [pc |-> "none", waits |-> {}, had |-> FALSE]

NoReload(t) == [pc |-> "idle", born |-> 0, server |-> t, gen |-> 0, client |-> 0,
                before |-> {}, changed |-> FALSE]

(* The first initialize has returned, and its load has just begun, or is    *)
(* over with every server serving.                                          *)
McpInit ==
  /\ gen = 1 /\ cur = 1
  /\ trusted \in BOOLEAN
  /\ closed = {}
  /\ disp = "idle"
  /\ rel = [t \in Threads |-> NoReload(t)]
  /\ missed = {} /\ crossed = FALSE
  /\ \/ /\ client = << >>
        /\ mgr = [g \in Gens |-> FreshManager]
        /\ agent = [gen |-> 1, tools |-> {}]
        /\ loader = [g \in Gens |-> IF g = 1 THEN [NoLoader EXCEPT !.pc = "lock"] ELSE NoLoader]
        /\ left = MaxEarly
     \/ LET order == SetToSeq(DOMAIN ReadConfigs)
        IN  /\ client = [i \in DOMAIN order |->
                  [NewClient(1, order[i]) EXCEPT !.up = TRUE, !.op = "done", !.status = "serving"]]
            /\ mgr = [g \in Gens |-> IF g # 1 THEN FreshManager ELSE
                  [FreshManager EXCEPT !.loaded = TRUE, !.tools = DOMAIN order,
                     !.clients = [s \in Servers |->
                        IF s \in DOMAIN ReadConfigs
                          THEN CHOOSE i \in DOMAIN order : order[i] = s ELSE 0]]]
            /\ agent = [gen |-> 1, tools |-> DOMAIN order]
            /\ loader = [g \in Gens |-> IF g = 1 THEN [NoLoader EXCEPT !.pc = "done"] ELSE NoLoader]
            /\ left = MaxLate

Spend == left > 0 /\ left' = left - 1
-----------------------------------------------------------------------------
(* A client's worker: start(), the MCP handshake, tools/list.               *)

ClientStarts(c) ==
  /\ client[c].op = "new"
  /\ ReadConfigs[client[c].server].oauth # "error"
  /\ client' = [client EXCEPT ![c].up = TRUE, ![c].op = "hand"]
  /\ UNCHANGED <<gen, cur, trusted, closed, mgr, agent, loader, disp, rel, left, missed, crossed>>

(* Misconfigured, or the spawn raised.                                      *)
ClientCannotStart(c) ==
  /\ client[c].op = "new"
  /\ LET cfg == ReadConfigs[client[c].server]
     IN  cfg.oauth = "error" \/ cfg.transport = "stdio"
  /\ client' = [client EXCEPT ![c].op = "done"]
  /\ UNCHANGED <<gen, cur, trusted, closed, mgr, agent, loader, disp, rel, left, missed, crossed>>

(* A killed transport answers nothing.                                      *)
HandshakeSucceeds(c) ==
  /\ client[c].op = "hand" /\ client[c].up
  /\ client' = [client EXCEPT ![c].op = "done", ![c].status = "serving"]
  /\ UNCHANGED <<gen, cur, trusted, closed, mgr, agent, loader, disp, rel, left, missed, crossed>>

HandshakeWaitsForEver(c) ==
  /\ client[c].op = "hand" /\ ~client[c].up
  /\ client' = [client EXCEPT ![c].op = "done"]
  /\ UNCHANGED <<gen, cur, trusted, closed, mgr, agent, loader, disp, rel, left, missed, crossed>>

(* Refused, unauthorized, timed out, killed: start() cleans the transport   *)
(* up; a remote server that fails only at tools/list keeps it.              *)
HandshakeFails(c) ==
  /\ client[c].op = "hand"
  /\ \E keeps \in {FALSE, ReadConfigs[client[c].server].transport = "http"} :
       client' = [client EXCEPT ![c].op = "done", ![c].up = @ /\ keeps]
  /\ UNCHANGED <<gen, cur, trusted, closed, mgr, agent, loader, disp, rel, left, missed, crossed>>

ClientStep(c) == ClientStarts(c) \/ ClientCannotStart(c) \/ HandshakeFails(c)
-----------------------------------------------------------------------------
(* mcp_shutdown of generation g: latch the builder and its manager, kill a  *)
(* snapshot of the clients, then clear them.                                *)

ShutdownStarts(g) ==
  /\ closed' = closed \union {g}
  /\ mgr' = IF g \in closed THEN mgr ELSE [mgr EXCEPT ![g].stop = "kill"]

ManagerKills(g) ==
  /\ mgr[g].stop = "kill"
  /\ client' = Killed(Registered(g))
  /\ missed' = missed \union Unopened(Registered(g))
  /\ mgr' = [mgr EXCEPT ![g].stop = "clear"]
  /\ UNCHANGED <<gen, cur, trusted, closed, agent, loader, disp, rel, left, crossed>>

ManagerClears(g) ==
  /\ mgr[g].stop = "clear"
  /\ Released(Registered(g))
  /\ mgr' = [mgr EXCEPT ![g].clients = [s \in Servers |-> 0], ![g].tools = {},
                        ![g].stop = "done"]
  /\ UNCHANGED <<gen, cur, trusted, closed, client, agent, loader, disp, rel, left, missed, crossed>>

Stopped(g) == mgr[g].stop \in {"no", "done"}

(* mcp/shutdown, and the first half of initialize.                          *)
DispatchStops(op) ==
  /\ disp = "idle"
  /\ op = "initialize" => gen < MaxInits
  /\ op = "mcp/shutdown" => cur # 0
  /\ Spend
  /\ disp' = op
  /\ IF cur # 0 THEN ShutdownStarts(cur) ELSE UNCHANGED <<closed, mgr>>
  /\ UNCHANGED <<gen, cur, trusted, client, agent, loader, rel, missed, crossed>>

McpIsShutDown ==
  /\ disp = "mcp/shutdown" /\ Stopped(cur)
  /\ disp' = "idle"
  /\ UNCHANGED <<gen, cur, trusted, closed, mgr, client, agent, loader, rel, left, missed, crossed>>

InitializeSupersedes ==
  /\ disp = "initialize"
  /\ cur # 0 => Stopped(cur)
  /\ gen' = gen + 1
  /\ disp' = "building"
  /\ crossed' = (crossed \/ (\E g \in Gens : loader[g].pc = "swap")
                        \/ (\E t \in Threads : rel[t].pc = "swap"))
  /\ UNCHANGED <<cur, trusted, closed, mgr, client, agent, loader, rel, left, missed>>

(* A SessionStart hook blocks: no half-built session is left behind.        *)
InitializeIsBlocked ==
  /\ disp = "building"
  /\ cur' = 0 /\ agent' = NoAgent
  /\ disp' = "idle"
  /\ UNCHANGED <<gen, trusted, closed, mgr, client, loader, rel, left, missed, crossed>>

InitializeBuilds ==
  /\ disp = "building"
  /\ agent' = [gen |-> gen, tools |-> {}]
  /\ cur' = gen
  /\ loader' = [loader EXCEPT ![gen].pc = "lock"]
  /\ disp' = "idle"
  /\ UNCHANGED <<gen, trusted, closed, mgr, client, rel, left, missed, crossed>>
-----------------------------------------------------------------------------
(* The loader of generation g.                                              *)

LoaderAt(g, pc) == loader' = [loader EXCEPT ![g].pc = pc]

(* load_mcp under the builder's lock: a latched builder is not loaded.      *)
LoaderLocks(g) ==
  /\ loader[g].pc = "lock"
  /\ LoaderAt(g, IF g \in closed THEN "check" ELSE "load")
  /\ UNCHANGED <<gen, cur, trusted, closed, mgr, client, agent, disp, rel, left, missed, crossed>>

(* MCPManager.load outside the lock: read mcp.json, make one client per     *)
(* server, hand each to a worker.                                           *)
LoaderStarts(g) ==
  /\ loader[g].pc = "load"
  /\ LET order == SetToSeq(DOMAIN ReadConfigs)
         ids == Len(client) + 1 .. Len(client) + Len(order)
     IN  /\ Len(client) + Len(order) <= MaxClients
         /\ client' = client \o [i \in DOMAIN order |-> NewClient(g, order[i])]
         /\ mgr' = [mgr EXCEPT ![g].loaded = TRUE,
              ![g].clients = [s \in Servers |->
                 IF s \in DOMAIN ReadConfigs
                   THEN CHOOSE c \in ids : client'[c].server = s ELSE @[s]]]
         /\ loader' = [loader EXCEPT ![g].pc = "wait", ![g].waits = ids]
         /\ missed' = IF g \in closed THEN missed \union ids ELSE missed
  /\ UNCHANGED <<gen, cur, trusted, closed, agent, disp, rel, left, crossed>>

(* The handshake takes too long: the client registered under that NAME by   *)
(* now is shut down.  A manager cleared meanwhile has none, and load raises *)
(* out of the loader.                                                       *)
LoaderGivesUp(g) ==
  /\ loader[g].pc = "wait"
  /\ \E c \in loader[g].waits :
       LET named == mgr[g].clients[client[c].server]
       IN  /\ client[c].op # "done"
           /\ IF named = 0
                THEN /\ loader' = [loader EXCEPT ![g] = [NoLoader EXCEPT !.pc = "done"]]
                     /\ UNCHANGED <<client, missed>>
                ELSE /\ loader' = [loader EXCEPT ![g].waits = @ \ {c}]
                     /\ client' = Killed({named})
                     /\ missed' = missed \union Unopened({named})
  /\ UNCHANGED <<gen, cur, trusted, closed, mgr, agent, disp, rel, left, crossed>>

(* Everyone answered, or was given up and has let go: _rebuild_tools, then  *)
(* load_mcp's second look at the builder.                                   *)
LoaderRebuilds(g) ==
  /\ loader[g].pc = "wait"
  /\ \A c \in loader[g].waits : client[c].op = "done"
  /\ Released({c \in Clients : client[c].gen = g /\ ~client[c].up})
  /\ mgr' = [mgr EXCEPT ![g].tools = RebuiltTools(g)]
  /\ loader' = [loader EXCEPT ![g].pc = "check", ![g].waits = {},
                   ![g].had = g \notin closed /\ RebuiltTools(g) # {}]
  /\ UNCHANGED <<gen, cur, trusted, closed, client, agent, disp, rel, left, missed, crossed>>

(* Superseded by a newer initialize: reclaim what this load started.        *)
LoaderChecks(g) ==
  /\ loader[g].pc = "check"
  /\ IF gen # g \/ cur # g
       THEN /\ ShutdownStarts(g)
            /\ LoaderAt(g, "reclaim")
       ELSE /\ LoaderAt(g, IF loader[g].had THEN "swap" ELSE "done")
            /\ UNCHANGED <<closed, mgr>>
  /\ UNCHANGED <<gen, cur, trusted, client, agent, disp, rel, left, missed, crossed>>

LoaderSwaps(g) ==
  /\ loader[g].pc = "swap"
  /\ agent' = BuiltAgent(g)
  /\ LoaderAt(g, "done")
  /\ UNCHANGED <<gen, cur, trusted, closed, mgr, client, disp, rel, left, missed, crossed>>

LoaderReclaimed(g) ==
  /\ loader[g].pc = "reclaim" /\ Stopped(g)
  /\ LoaderAt(g, "done")
  /\ UNCHANGED <<gen, cur, trusted, closed, mgr, client, agent, disp, rel, left, missed, crossed>>
-----------------------------------------------------------------------------
(* An authorization of server s takes the generation it starts in, waits    *)
(* for the user, and on success reloads the server in whatever builder is   *)
(* there by then.  A logout reloads it on the dispatch thread.              *)

ReloadAt(t, r) == rel' = [rel EXCEPT ![t] = r]

AuthStarts(s) ==
  /\ disp = "idle"
  /\ cur \notin {0} \union closed /\ mgr[cur].loaded
  /\ s \in DOMAIN ReadConfigs
  /\ ReadConfigs[s].transport = "http" /\ ReadConfigs[s].oauth = "on"
  /\ rel[s].pc = "idle"
  /\ Spend
  /\ ReloadAt(s, [rel[s] EXCEPT !.pc = "browser", !.born = gen])
  /\ UNCHANGED <<gen, cur, trusted, closed, mgr, client, agent, loader, disp, missed, crossed>>

AuthEnds(s) ==
  /\ rel[s].pc = "browser"
  /\ \/ ReloadAt(s, [rel[s] EXCEPT !.pc = "check"])
     \/ ReloadAt(s, NoReload(s))
  /\ UNCHANGED <<gen, cur, trusted, closed, mgr, client, agent, loader, disp, left, missed, crossed>>

LogoutReloads(s) ==
  /\ disp = "idle"
  /\ Spend
  /\ disp' = "logout"
  /\ ReloadAt("dispatch", [rel["dispatch"] EXCEPT !.pc = "check", !.server = s, !.born = gen])
  /\ UNCHANGED <<gen, cur, trusted, closed, mgr, client, agent, loader, missed, crossed>>

(* reload_mcp_server: shut the old client down.  A manager not loaded or    *)
(* already closed refuses.                                                  *)
ReloadShutsOld(t) ==
  /\ rel[t].pc = "check"
  /\ LET s == rel[t].server
         refused == cur \in {0} \union closed \/ ~mgr[cur].loaded \/ s \notin DOMAIN ReadConfigs
     IN  IF refused
           THEN /\ ReloadAt(t, [rel[t] EXCEPT !.pc = "done", !.changed = FALSE])
                /\ UNCHANGED <<client, missed, crossed>>
           ELSE LET old == mgr[cur].clients[s]
                IN  /\ ReloadAt(t, [rel[t] EXCEPT !.pc = "new", !.gen = cur, !.client = old])
                    /\ client' = Killed({old})
                    /\ missed' = missed \union Unopened({old} \ {0})
                    /\ crossed' = (crossed \/ loader[cur].pc = "wait" \/ rel[t].born # cur)
  /\ UNCHANGED <<gen, cur, trusted, closed, mgr, agent, loader, disp, left>>

(* Note the tools, register a new client, start it on this thread.          *)
ReloadRegisters(t) ==
  /\ rel[t].pc = "new"
  /\ Released({rel[t].client} \ {0})
  /\ Len(client) < MaxClients
  /\ LET g == rel[t].gen
         s == rel[t].server
         c == Len(client) + 1
     IN  /\ client' = Append(client, NewClient(g, s))
         /\ mgr' = [mgr EXCEPT ![g].clients[s] = c]
         /\ ReloadAt(t, [rel[t] EXCEPT !.pc = "start", !.client = c,
                           !.before = Exposed(mgr[g].tools)])
         /\ missed' = missed \union ({mgr[g].clients[s]} \ {0, rel[t].client})
  /\ UNCHANGED <<gen, cur, trusted, closed, agent, loader, disp, left, crossed>>

ReloadComparesNames(t) ==
  /\ rel[t].pc = "start"
  /\ client[rel[t].client].op = "done"
  /\ LET g == rel[t].gen
     IN  /\ g \notin closed
         /\ mgr' = [mgr EXCEPT ![g].tools = RebuiltTools(g)]
         /\ ReloadAt(t, [rel[t] EXCEPT !.pc = "done", !.client = 0, !.before = {},
              !.changed = rel[t].before # Exposed(RebuiltTools(g))])
  /\ UNCHANGED <<gen, cur, trusted, closed, client, agent, loader, disp, left, missed, crossed>>

(* Closed meanwhile: shut the new client down and drop whatever client has  *)
(* its name.  A reconnect                                                   *)
(* counts as a change even when the tool names are the same: the agent's    *)
(* wrappers still point at the client just shut down.                       *)
ReloadFinishes(t) ==
  /\ rel[t].pc = "start"
  /\ client[rel[t].client].op = "done"
  /\ LET g == rel[t].gen
         r == [rel[t] EXCEPT !.pc = "done", !.client = 0, !.before = {}]
     IN  IF g \in closed
           THEN /\ client' = Killed({rel[t].client})
                /\ mgr' = [mgr EXCEPT ![g].clients[rel[t].server] = 0]
                /\ ReloadAt(t, r)
                /\ missed' = missed \union ({mgr[g].clients[rel[t].server]} \ {0, rel[t].client})
                /\ UNCHANGED crossed
           ELSE LET after == Exposed(RebuiltTools(g))
                    differs == client[rel[t].client].status # "off" \/ rel[t].before # after
                IN  /\ mgr' = [mgr EXCEPT ![g].tools = RebuiltTools(g)]
                    /\ ReloadAt(t, [r EXCEPT !.changed = differs])
                    /\ crossed' = (crossed \/ (~differs /\ Exposed(mgr[g].tools) # after))
                    /\ UNCHANGED <<client, missed>>
  /\ UNCHANGED <<gen, cur, trusted, closed, agent, loader, disp, left>>

(* The authorization rebuilds the agent only when the tools changed and no  *)
(* initialize came since it started.                                        *)
AuthChecks(s) ==
  /\ rel[s].pc = "done"
  /\ IF rel[s].changed /\ gen = rel[s].born /\ cur # 0
       THEN ReloadAt(s, [NoReload(s) EXCEPT !.pc = "swap", !.gen = cur])
       ELSE ReloadAt(s, NoReload(s))
  /\ UNCHANGED <<gen, cur, trusted, closed, mgr, client, agent, loader, disp, left, missed, crossed>>

AuthSwaps(s) ==
  /\ rel[s].pc = "swap"
  /\ agent' = BuiltAgent(rel[s].gen)
  /\ ReloadAt(s, NoReload(s))
  /\ UNCHANGED <<gen, cur, trusted, closed, mgr, client, loader, disp, left, missed, crossed>>

LogoutReturns ==
  /\ disp = "logout" /\ rel["dispatch"].pc = "done"
  /\ agent' = IF rel["dispatch"].changed /\ cur # 0 THEN BuiltAgent(cur) ELSE agent
  /\ ReloadAt("dispatch", NoReload("dispatch"))
  /\ disp' = "idle"
  /\ UNCHANGED <<gen, cur, trusted, closed, mgr, client, loader, left, missed, crossed>>
-----------------------------------------------------------------------------
DispatchStep ==
  McpIsShutDown \/ InitializeSupersedes \/ InitializeIsBlocked \/ InitializeBuilds \/ LogoutReturns

ShutdownStep(g) == ManagerKills(g) \/ ManagerClears(g)

LoaderStep(g) ==
  \/ LoaderLocks(g) \/ LoaderStarts(g) \/ LoaderGivesUp(g)
  \/ LoaderRebuilds(g) \/ LoaderChecks(g) \/ LoaderSwaps(g) \/ LoaderReclaimed(g)

ReloadStep(t) == ReloadShutsOld(t) \/ ReloadRegisters(t) \/ ReloadFinishes(t)

AuthStep(s) == AuthEnds(s) \/ AuthChecks(s) \/ AuthSwaps(s)

McpNext ==
  \/ \E op \in {"initialize", "mcp/shutdown"} : DispatchStops(op)
  \/ \E s \in Servers : AuthStarts(s) \/ LogoutReloads(s) \/ AuthStep(s)
  \/ DispatchStep
  \/ \E g \in Gens : ShutdownStep(g) \/ LoaderStep(g)
  \/ \E t \in Threads : ReloadStep(t)
  \/ \E c \in Clients : ClientStep(c) \/ HandshakeSucceeds(c)

(* No thread stops for good.  A server need not answer: what ends a         *)
(* handshake is its timeout, and an authorization the timeout of its        *)
(* callback.                                                                *)
McpFairness ==
  /\ WF_mcpVars(DispatchStep)
  /\ \A g \in Gens : WF_mcpVars(ShutdownStep(g)) /\ WF_mcpVars(LoaderStep(g))
  /\ \A t \in Threads : WF_mcpVars(ReloadStep(t))
  /\ \A s \in Servers : WF_mcpVars(AuthStep(s))
  /\ \A c \in 1..MaxClients : WF_mcpVars(c \in Clients /\ ClientStep(c))

McpSpec == McpInit /\ [][McpNext]_mcpVars /\ McpFairness
-----------------------------------------------------------------------------
(* No thread is in the middle of anything that starts or stops a server.    *)
Quiet ==
  /\ disp = "idle"
  /\ \A g \in Gens : loader[g].pc \in {"none", "done"} /\ Stopped(g)
  /\ \A t \in Threads : rel[t].pc \in {"idle", "browser"}

(* Invariant.  With nothing under way, every live transport belongs to the  *)
(* manager of the current builder, unless it is one of the clients that no  *)
(* teardown reaches (`missed`): one whose process was spawned after it was  *)
(* shut down, one whose load began after the latch, one whose place in the  *)
(* manager another reload took.  So mcp_shutdown, the latch reload_client   *)
(* looks at again after its handshake, and the replacement of a client      *)
(* leave nothing else running behind a re-initialize or an mcp/shutdown.    *)
NothingStray ==
  Quiet => \A c \in Clients :
    client[c].up /\ c \notin missed =>
      cur \notin {0} \union closed /\ c \in Registered(cur)

(* Invariant.  With nothing under way, the agent was built by the current   *)
(* builder and its MCP wrappers point at that builder's present clients, so *)
(* the swap of _load_mcp_async, the one of _run_mcp_auth and the one of a   *)
(* logout leave no wrapper of a client that was shut down.  Excused are the *)
(* four orders in which the code does leave one (`crossed`): an initialize  *)
(* between the check and the swap, a reload that begins during the load, an *)
(* authorization that ends in a later generation than it began in, and a    *)
(* reload that finds the tools unchanged because another one changed them   *)
(* since it noted what they were.                                           *)
AgentIsServed ==
  Quiet /\ cur # 0 /\ ~crossed =>
    /\ agent.gen = cur
    /\ cur \notin closed => agent.tools \subseteq Registered(cur)

(* Invariant.  The servers that run, those that are registered and those    *)
(* the agent calls are the same ones, up to the orders named above.         *)
CalmServersAgree == NothingStray /\ AgentIsServed

(* Liveness.  The dispatch thread, which reads every request of the         *)
(* desktop, comes back from an initialize, an mcp/shutdown and a logout,    *)
(* whatever the servers and the other threads are doing.                    *)
DispatchReturns == disp # "idle" ~> disp = "idle"

(* Liveness.  The ready event of every load is set in the end, also when    *)
(* the load is superseded, gives up on a server or raises: the first turn   *)
(* waits for it.                                                            *)
LoadReleasesTurns == \A g \in Gens : loader[g].pc # "none" ~> loader[g].pc = "done"

(* Liveness.  Neither of the two who wait for servers waits for ever.       *)
NoThreadWaits == DispatchReturns /\ LoadReleasesTurns
=============================================================================
