----------------------------- MODULE SessionGuard -----------------------------
(***************************************************************************)
(* What the agent of a session may touch, and how settings reach it.  The  *)
(* dispatch thread answers requests that change the mode, the granted      *)
(* folders, the hidden paths and the network policy, and rebuilds the      *)
(* agent; a background thread rebuilds it once the MCP servers are loaded; *)
(* subagents are built from the turn's thread.  Every build reads the      *)
(* settings and starts or stops the builder's filtering proxy.  A turn     *)
(* keeps the agent it began with; its shell commands (ShellCommands) run   *)
(* under that agent's sandbox, its file tools behind that agent's fences   *)
(* (PathFences).                                                           *)
(***************************************************************************)
EXTENDS ShellCommands, PathFences

CONSTANTS Grantable, Hideable,   \* the folders the requests name
          AllowList,             \* the allow lists of ssrf.json
          Proxy,                 \* proxy objects, each with the port it opens
          NoProxy, NoCall,
          Scenarios              \* the settings and budgets a behaviour starts with

Modes == {"default", "plan", "yolo"}
EgressModes == {"shared", "off", "proxy"}

\* A project's root is not one of its own worktrees, whose container is no state
\* directory; the stores and the network settings begin with what requests could
\* have put there.
ASSUME GuardAssumption ==
  /\ NoProxy \notin Proxy
  /\ \A s \in Scenarios :
       /\ s.cwd \in Path /\ s.root \in Path
       /\ ~Inside(s.root, WorktreeDir[s.root])
       /\ StateDir[s.cwd] # WorktreeDir[s.root] /\ StateDir[s.root] # WorktreeDir[s.root]
       /\ s.hidden \subseteq Hideable
       /\ s.egress \in EgressModes /\ s.allow \in AllowList

\* The builders whose _get_tools() runs: the session's, and a subagent's.
Holder == {"session", "child"}
Thread == {"dispatch", "loader", "turn"}
HolderOf(t) == IF t = "turn" THEN "child" ELSE "session"

VARIABLES session,   \* [cwd, root] and the platform, with or without a backend
          mode,      \* PermissionPolicy.mode; "acceptEdits" is "default" for a build
          asked,     \* AgentBuilder._mode
          grants,    \* GrantStore._paths
          hidden,    \* ReadDenyStore._paths, in memory and on disk
          protect,   \* ReadDenyStore._protect_sensitive
          egress,    \* EgressConfig's mode
          allow,     \* SsrConfig's allow list
          slot,      \* [Holder -> _egress_proxy and _egress_proxy_allow]
          server,    \* [Proxy -> the object's server: port open, address told]
          job,       \* [Thread -> the request or build it is working on]
          agent,     \* what the server's current agent was built with
          turn,      \* the running turn and its agent
          fresh,     \* the agent was rebuilt since the last turn began
          low,       \* granted folders labelled Low (Windows)
          load,      \* the background load of the MCP servers
          odd,       \* irregularities met so far, for the properties to except
          left       \* stimuli left, per kind

settingVars == <<session, mode, asked, grants, hidden, protect, egress, allow>>
guardVars == <<settingVars, slot, server, job, agent, turn, fresh, low, load, odd, left>>
vars == <<shellVars, guardVars>>

Closed == [up |-> FALSE, told |-> FALSE]
EmptySlot == [proxy |-> NoProxy, allow |-> "none"]
NoAgent == [mode |-> "none", grants |-> {}, hidden |-> {}, protect |-> FALSE,
            egress |-> "shared", allow |-> "none", proxy |-> NoProxy]
Free == [pc |-> "idle", draft |-> NoAgent, want |-> {}]
NoTurn == [pc |-> "idle", agent |-> NoAgent, call |-> NoCall]

Spend(kind) == left[kind] > 0 /\ left' = [left EXCEPT ![kind] = @ - 1]

Init ==
  \E s \in Scenarios :
    /\ session = [cwd |-> s.cwd, root |-> s.root, platform |-> s.platform, backend |-> s.backend]
    /\ mode = "default" /\ asked = "default"
    /\ grants = {} /\ hidden = s.hidden /\ protect = FALSE
    /\ egress = s.egress /\ allow = s.allow
    /\ slot = [h \in Holder |-> EmptySlot]
    /\ server = [q \in Proxy |-> Closed]
    /\ job = [t \in Thread |-> IF t = "dispatch" THEN [Free EXCEPT !.pc = "read"] ELSE Free]
    /\ agent = NoAgent /\ turn = NoTurn /\ fresh = FALSE
    /\ low = {} /\ load = s.load /\ odd = {} /\ left = s.left
    /\ ShellInit

-----------------------------------------------------------------------------
(* Building an agent.                                                      *)

\* The slot is emptied, the port stays open.
ForgetProxy(h) ==
  /\ slot' = [slot EXCEPT ![h] = EmptySlot]
  /\ UNCHANGED server

\* LocalFilteringProxy.stop on whatever the holder has, and the slot emptied:
\* shutdown_egress, and the two stops of _ensure_egress_proxy.
StopProxy(h) ==
  /\ server' = IF slot[h].proxy = NoProxy THEN server
               ELSE [server EXCEPT ![slot[h].proxy] = Closed]
  /\ slot' = [slot EXCEPT ![h] = EmptySlot]

\* Objects nobody refers to, so that their number can stand for a new one.
Unused == {q \in Proxy : /\ ~server[q].up
                         /\ \A h \in Holder : slot[h].proxy # q
                         /\ \A t \in Thread : job[t].draft.proxy # q
                         /\ agent.proxy # q /\ turn.agent.proxy # q}

\* Another build is between the read, or the copy, it began with and its end.
Overlap(t) ==
  IF \E u \in Thread \ {t} :
       \/ job[u].pc \in {"create", "start", "tell", "swap"}
       \/ u = "turn" /\ job[u].pc = "read"
  THEN {"overlap"} ELSE {}

\* What get_tools() reads for the fences, the sandbox and the network; in yolo
\* the boundary is off and the network shared.
Draft == [mode |-> asked, grants |-> grants, hidden |-> hidden, protect |-> protect,
          egress |-> IF asked = "yolo" THEN "shared" ELSE egress,
          allow |-> allow, proxy |-> NoProxy]

\* _get_tools up to the first half of _ensure_egress_proxy.  Plan mode returns
\* before it looks at the network; yolo stops the proxy; so does any network mode
\* but "proxy"; and a proxy started for another allow list is replaced.
BuildReads(t) ==
  LET h == HolderOf(t)
      proxied == asked \notin {"plan", "yolo"} /\ egress = "proxy"
      stale == slot[h].proxy # NoProxy /\ slot[h].allow # allow
      stops == asked # "plan" /\ (~proxied \/ stale)
  IN
  /\ job[t].pc = "read"
  /\ job' = [job EXCEPT ![t].pc = IF proxied THEN "create" ELSE "swap", ![t].draft = Draft]
  /\ IF stops THEN StopProxy(h) ELSE UNCHANGED <<slot, server>>
  /\ odd' = odd \cup Overlap(t)
                \cup (IF h = "child" /\ slot[h] # EmptySlot /\ stops THEN {"child"} ELSE {})
  /\ UNCHANGED <<shellVars, settingVars, agent, turn, fresh, low, load, left>>

\* A new object when the slot is empty by now.
BuildCreates(t) ==
  LET h == HolderOf(t) IN
  /\ job[t].pc = "create"
  /\ job' = [job EXCEPT ![t].pc = "start"]
  /\ IF slot[h].proxy # NoProxy
     THEN UNCHANGED <<slot, odd>>
     ELSE /\ \E q \in Unused :
               /\ \A r \in Unused : q <= r
               /\ slot' = [slot EXCEPT ![h] = [proxy |-> q, allow |-> job[t].draft.allow]]
          /\ odd' = odd \cup (IF h = "child" THEN {"child"} ELSE {})
  /\ UNCHANGED <<shellVars, settingVars, server, agent, turn, fresh, low, load, left>>

\* self._egress_proxy.start(), on the slot as it is now.  An open server is
\* returned with the address known so far, perhaps none; an empty slot raises,
\* and the build is lost.
BuildStarts(t) ==
  LET q == slot[HolderOf(t)].proxy IN
  /\ job[t].pc = "start"
  /\ \/ /\ q = NoProxy
        /\ job' = [job EXCEPT ![t] = Free]
        /\ UNCHANGED server
     \/ /\ q # NoProxy
        /\ server[q].up
        /\ job' = [job EXCEPT ![t].pc = "swap",
                              ![t].draft.proxy = IF server[q].told THEN q ELSE NoProxy]
        /\ UNCHANGED server
     \/ /\ q # NoProxy
        /\ ~server[q].up
        /\ server' = [server EXCEPT ![q].up = TRUE]
        /\ job' = [job EXCEPT ![t].pc = "tell", ![t].draft.proxy = q]
  /\ UNCHANGED <<shellVars, settingVars, slot, agent, turn, fresh, low, load, odd, left>>

\* The rest of start(): the address is set and returned.
BuildTells(t) ==
  /\ job[t].pc = "tell"
  /\ server' = [server EXCEPT ![job[t].draft.proxy].told = server[job[t].draft.proxy].up]
  /\ job' = [job EXCEPT ![t].pc = "swap"]
  /\ UNCHANGED <<shellVars, settingVars, slot, agent, turn, fresh, low, load, odd, left>>

\* self._agent = builder.build(...).  A subagent runs on tools of its own; when
\* it is done nobody stops what its builder started.
BuildSwaps(t) ==
  /\ job[t].pc = "swap"
  /\ job' = [job EXCEPT ![t] = Free]
  /\ IF t = "turn"
     THEN /\ slot' = [slot EXCEPT !["child"] = EmptySlot]
          /\ UNCHANGED <<agent, fresh>>
     ELSE /\ agent' = job[t].draft
          /\ fresh' = TRUE
          /\ UNCHANGED slot
  /\ load' = IF t = "dispatch" /\ load = "due" THEN "running" ELSE load
  /\ UNCHANGED <<shellVars, settingVars, server, turn, low, odd, left>>

BuildStep(t) ==
  BuildReads(t) \/ BuildCreates(t) \/ BuildStarts(t) \/ BuildTells(t) \/ BuildSwaps(t)

-----------------------------------------------------------------------------
(* The requests of the dispatch thread.                                    *)

Dispatch(pc, want) == job' = [job EXCEPT !["dispatch"] = [Free EXCEPT !.pc = pc, !.want = want]]
DispatchIdle == job["dispatch"].pc = "idle"

\* initialize on a running process: the old builder's proxy is stopped, a new
\* builder starts from the same stores.  (Bound: not while the loader rebuilds.)
Initialize(m) ==
  /\ DispatchIdle /\ job["loader"].pc = "idle"
  /\ Spend("mode")
  /\ mode' = m /\ asked' = m
  /\ StopProxy("session")
  /\ load' = "due"
  /\ Dispatch("read", {})
  /\ odd' = odd \cup Overlap("dispatch")
  /\ UNCHANGED <<shellVars, session, grants, hidden, protect, egress, allow,
                 agent, turn, fresh, low>>

\* chat/set_mode: the policy, the builder, a new agent.
SetMode(m) ==
  /\ DispatchIdle
  /\ m # asked \/ m # mode
  /\ Spend("mode")
  /\ mode' = m /\ asked' = m
  /\ Dispatch("read", {})
  /\ UNCHANGED <<shellVars, session, grants, hidden, protect, egress, allow, slot, server,
                 agent, turn, fresh, low, load, odd>>

\* permissions/update with accept_edits: the policy alone, no new agent.
PermissionsUpdate ==
  /\ DispatchIdle
  /\ mode # "default"
  /\ Spend("mode")
  /\ mode' = "default"
  /\ UNCHANGED <<shellVars, session, asked, grants, hidden, protect, egress, allow, slot, server,
                 job, agent, turn, fresh, low, load, odd>>

\* A turn, or a command, that began with a folder the user now takes back.
Late(folders) ==
  IF \/ ~turn.agent.grants \subseteq folders
     \/ \E c \in Call : ~cmd[c].folders \subseteq folders
  THEN {"late"} ELSE {}

\* GrantStore, request by request: what is wanted is added, the rest removed.
Regrant(folders) == folders # grants /\ grants' = folders

\* The folders taken back keep their label.
SetGrantsUnrestored(folders) ==
  /\ DispatchIdle
  /\ Regrant(folders)
  /\ Spend("grants")
  /\ odd' = odd \cup Late(folders)
  /\ Dispatch("read", {})
  /\ UNCHANGED <<shellVars, session, mode, asked, hidden, protect, egress, allow, slot, server,
                 agent, turn, fresh, low, load>>

\* sandbox/grants/set: added, removed, what was removed restored to Medium.
SetGrants(folders) ==
  /\ DispatchIdle
  /\ Regrant(folders)
  /\ Spend("grants")
  /\ low' = low \ (grants \ folders)
  /\ odd' = odd \cup Late(folders)
  /\ Dispatch("read", {})
  /\ UNCHANGED <<shellVars, session, mode, asked, hidden, protect, egress, allow, slot, server,
                 agent, turn, fresh, load>>

\* forbid-read/set, the paths: first each new one is added, then each one no
\* longer wanted removed, a write of the whole file each time.
SetHidden(paths) ==
  /\ DispatchIdle
  /\ paths # hidden
  /\ Spend("hidden")
  /\ Dispatch("hide", paths)
  /\ UNCHANGED <<shellVars, settingVars, slot, server, agent, turn, fresh, low, load, odd>>

Hiding == job["dispatch"].pc = "hide"
Wanted == job["dispatch"].want

HideOne ==
  /\ Hiding
  /\ \E p \in Wanted \ hidden : hidden' = hidden \cup {p}
  /\ UNCHANGED <<shellVars, session, mode, asked, grants, protect, egress, allow, slot, server,
                 job, agent, turn, fresh, low, load, odd, left>>

\* The old list is dropped before the new one is added.
RevealAnyFirst ==
  /\ Hiding
  /\ \E p \in hidden : hidden' = hidden \ {p}
  /\ UNCHANGED <<shellVars, session, mode, asked, grants, protect, egress, allow, slot, server,
                 job, agent, turn, fresh, low, load, odd, left>>

RevealOne ==
  /\ Hiding
  /\ Wanted \subseteq hidden
  /\ \E p \in hidden \ Wanted : hidden' = hidden \ {p}
  /\ UNCHANGED <<shellVars, session, mode, asked, grants, protect, egress, allow, slot, server,
                 job, agent, turn, fresh, low, load, odd, left>>

HidingDone ==
  /\ Hiding
  /\ hidden = Wanted
  /\ Dispatch("read", {})
  /\ UNCHANGED <<shellVars, settingVars, slot, server, agent, turn, fresh, low, load, odd, left>>

\* forbid-read/set, the switch of the built-in rules.
SetProtect ==
  /\ DispatchIdle
  /\ Spend("hidden")
  /\ protect' = ~protect
  /\ Dispatch("read", {})
  /\ UNCHANGED <<shellVars, session, mode, asked, grants, hidden, egress, allow, slot, server,
                 agent, turn, fresh, low, load, odd>>

\* network/set (ssrf.json): the config alone, no new agent.
SetSsrf(list) ==
  /\ DispatchIdle
  /\ list # allow
  /\ Spend("network")
  /\ allow' = list
  /\ UNCHANGED <<shellVars, session, mode, asked, grants, hidden, protect, egress, slot, server,
                 job, agent, turn, fresh, low, load, odd>>

\* egress/set: the config, then a new agent.
SetEgress(m) ==
  /\ DispatchIdle
  /\ m # egress
  /\ Spend("network")
  /\ egress' = m
  /\ Dispatch("read", {})
  /\ UNCHANGED <<shellVars, session, mode, asked, grants, hidden, protect, allow, slot, server,
                 agent, turn, fresh, low, load, odd>>

Request ==
  \/ \E m \in Modes : Initialize(m) \/ SetMode(m)
  \/ PermissionsUpdate
  \/ \E folders \in SUBSET Grantable : SetGrants(folders)
  \/ \E paths \in SUBSET Hideable : SetHidden(paths)
  \/ SetProtect
  \/ \E list \in AllowList : SetSsrf(list)
  \/ \E m \in EgressModes : SetEgress(m)

DispatchStep == HideOne \/ RevealOne \/ HidingDone \/ BuildStep("dispatch")

\* _load_mcp_async: the load found tools and the agent is rebuilt, or found none.
LoadEnds ==
  /\ load = "running"
  /\ load' = "none"
  /\ job' \in {job, [job EXCEPT !["loader"].pc = "read"]}
  /\ UNCHANGED <<shellVars, settingVars, slot, server, agent, turn, fresh, low, odd, left>>

\* The process dies and is started again on the same files.  A write that was
\* under way may have left a file that does not parse, which loads as empty.
Crash ==
  /\ Spend("crashes")
  /\ \/ UNCHANGED <<hidden, protect, odd>>
     \/ Hiding /\ hidden' = {} /\ protect' = FALSE /\ odd' = odd \cup {"torn"}
  /\ mode' = "default" /\ asked' = "default"
  /\ slot' = [h \in Holder |-> EmptySlot]
  /\ server' = [q \in Proxy |-> Closed]
  /\ job' = [t \in Thread |-> IF t = "dispatch" THEN [Free EXCEPT !.pc = "read"] ELSE Free]
  /\ agent' = NoAgent /\ turn' = NoTurn /\ fresh' = FALSE /\ load' = "due"
  /\ cmd' = [c \in Call |-> Resting] /\ hits' = {}
  /\ live' = [t \in Tool |-> NobodyLive]
  /\ UNCHANGED <<tool, reused, session, grants, egress, allow, low>>

-----------------------------------------------------------------------------
(* The turn.                                                               *)

\* A turn binds the server's agent; an agent built since the last turn brings a
\* bash tool of its own.
TurnBegins ==
  /\ turn.pc = "idle" /\ agent # NoAgent
  /\ Spend("turns")
  /\ turn' = [NoTurn EXCEPT !.pc = "run", !.agent = agent]
  /\ IF fresh THEN TakeFreshTool ELSE UNCHANGED shellVars
  /\ fresh' = FALSE
  /\ odd' = IF agent.grants \subseteq grants THEN odd ELSE odd \cup {"late"}
  /\ UNCHANGED <<settingVars, slot, server, job, agent, low, load>>

\* Waiting for nothing: the turn's thread can start a tool call.
TurnReady == turn.pc = "run" /\ turn.call = NoCall /\ job["turn"].pc = "idle"

\* A command of an agent built with g runs in a sandbox: its mode is not yolo and
\* the command was not escalated to danger-full-access.
Boxed(g, escalate) == g.mode # "yolo" /\ ~escalate

\* The two refusals: the network cannot be cut on Windows, and a required sandbox
\* must exist.
Refused(escalate) ==
  \/ turn.agent.egress = "off" /\ session.platform = "windows"
  \/ Boxed(turn.agent, escalate) /\ ~session.backend

\* BashTool.execute; an approved escalation runs bare.  Plan mode has no bash.
CommandStarts(c, escalate) ==
  LET lowil == Boxed(turn.agent, escalate) /\ session.platform = "windows" IN
  /\ TurnReady /\ turn.agent.mode # "plan" /\ ~Refused(escalate)
  /\ Spend("commands")
  /\ Execute(c, IF lowil THEN "lowil" ELSE "bounded", IF lowil THEN turn.agent.grants ELSE {})
  /\ turn' = [turn EXCEPT !.call = c]
  /\ UNCHANGED <<settingVars, slot, server, job, agent, fresh, low, load, odd>>

\* What a step of a command does to the rest.  The Windows backend labels the
\* agent's granted folders once it has read the epoch; the turn takes the result
\* when it still waits for it.
CommandEffects ==
  /\ low' = low \cup UNION {cmd[c].folders : c \in {d \in Call : cmd[d].pc = "thread" /\ cmd'[d].pc = "spawn"}}
  /\ turn' = IF turn.call \in Call /\ cmd'[turn.call].pc = "idle"
             THEN [turn EXCEPT !.call = NoCall] ELSE turn
  /\ UNCHANGED <<settingVars, slot, server, job, agent, fresh, load, odd, left>>

CommandSteps == CommandStep /\ CommandEffects

\* _child_builder copies the session builder's mode, stores and proxy; the child's
\* own _get_tools runs next.  Plan mode has no task tool.
ChildSpawns ==
  /\ TurnReady /\ turn.agent.mode # "plan"
  /\ Spend("children")
  /\ slot' = [slot EXCEPT !["child"] = slot["session"]]
  /\ job' = [job EXCEPT !["turn"].pc = "read"]
  /\ UNCHANGED <<shellVars, settingVars, server, agent, turn, fresh, low, load, odd>>

\* run() ends: completed, cancelled or timed out, the command abandoned or not.
TurnEnds ==
  /\ turn.pc = "run" /\ job["turn"].pc = "idle"
  /\ CancelAll
  /\ turn' = [turn EXCEPT !.pc = "stopping", !.call = NoCall]
  /\ UNCHANGED <<settingVars, slot, server, job, agent, fresh, low, load, odd, left>>

TurnKills ==
  /\ turn.pc = "stopping"
  /\ \E pid \in hits : KillHit(pid)
  /\ UNCHANGED guardVars

TurnIsOver ==
  /\ turn.pc = "stopping" /\ hits = {}
  /\ turn' = NoTurn
  /\ UNCHANGED <<shellVars, settingVars, slot, server, job, agent, fresh, low, load, odd, left>>

-----------------------------------------------------------------------------

Next ==
  \/ Request
  \/ DispatchStep
  \/ LoadEnds
  \/ BuildStep("loader")
  \/ BuildStep("turn")
  \/ Crash
  \/ TurnBegins
  \/ \E c \in Call, escalate \in BOOLEAN : CommandStarts(c, escalate)
  \/ ChildSpawns
  \/ CommandSteps
  \/ TurnEnds
  \/ TurnKills
  \/ TurnIsOver

Spec == Init /\ [][Next]_vars

\* An executor thread runs until its command is returned: every wait of it has a
\* deadline.  Nothing is assumed of the commands, the turns or the user.
LiveSpec == Spec /\ \A c \in Call : WF_vars(ThreadStep(c) /\ CommandEffects)

-----------------------------------------------------------------------------
(* Properties.  Each excepts, by name, the orders of events in which the   *)
(* code does not keep it.                                                  *)

\* Ending a turn stops its commands: once the turn is over, a command whose epoch
\* had been read by then and that is still being waited for has lost its shell
\* and its jobs (cancel_all, or add's stale epoch).  Not so when a pid comes back
\* while somebody still holds it: discard then drops the new holder's entry.
CancelledDie ==
  ~reused =>
    \A c \in Call :
      cmd[c].over /\ cmd[c].early /\ cmd[c].pc = "wait" /\ turn.pc # "stopping"
        => cmd[c].tree \cap Group = {}

\* A command is only ever killed by its own timeout or by the end of its own
\* turn: the cancel of one turn leaves the commands of the next alone.
OnlyOwnTurnKills ==
  ~reused => \A c \in Call : cmd[c].hit => cmd[c].timed \/ cmd[c].over

\* A turn's end kills its commands, no fewer and no more.
CalmKillsAreRight == CancelledDie /\ OnlyOwnTurnKills

\* Every command returns to its tool, whatever its processes do: a stray that
\* holds the pipes delays it by the drain's deadline, no longer.
CommandsReturn == \A c \in Call : cmd[c].pc # "idle" ~> cmd[c].pc = "idle"

\* The dispatch thread and the loader have answered everything, one at a time.
Settled == agent # NoAgent /\ DispatchIdle /\ job["loader"].pc = "idle" /\ "overlap" \notin odd

\* Neither tree's own state, nor a sibling worktree.
Protected(p) ==
  \/ \E tree \in {session.cwd, session.root} : Inside(p, StateDir[tree])
  \/ Inside(p, WorktreeDir[session.root]) /\ ~(session.cwd # session.root /\ Inside(p, session.cwd))

\* What forbid-read.json hides now.
Hidden(p) == \E d \in EffectivePaths(hidden, protect) : Inside(Target[p], Target[d])

\* A command in bubblewrap's or Seatbelt's box reads nothing hidden now, and writes
\* in its tree, the temporary directory and the folders granted now, the tree's own
\* state excepted.  Nothing is said of a bare command (yolo, or an approved
\* escalation) nor of the Low-IL child of Windows, which reads everything: its box
\* is write-only, and CalmLowIsGranted is about what it may write.
ShellFollowsSettings ==
  session.platform = "posix" /\ Boxed(agent, FALSE) => \A p \in Path :
    /\ Hidden(p) => ~BoxReads(agent, p)
    /\ BoxWrites(session, agent, p) =>
         /\ ~Inside(Target[p], StateDir[session.cwd])
         /\ \E r \in {session.cwd, TempDir} \cup {Target[f] : f \in grants} : Inside(Target[p], r)

\* What the requests asked for is what the next turn's file tools and sandboxed
\* commands get: outside yolo no protected path is writable for the file tools,
\* escalated or not, and nothing out of the tree, the temporary and memory paths
\* and the folders granted now, which are writable; what is hidden now the file
\* tools read in no mode and on no platform, and sandboxed commands not on Linux
\* and macOS.  (permissions/update changes the policy without a rebuild, hence
\* mode = asked.)
GuardsFollowSettings ==
  Settled /\ mode = asked =>
    /\ mode = "plan" <=> agent.mode = "plan"
    /\ mode # "yolo" => \A p \in Path, escalate \in BOOLEAN :
         MayWrite(session, agent, p, escalate) =>
           /\ ~Protected(Target[p])
           /\ ~escalate => \E r \in {session.cwd, TempDir, GlobalMemory, MemoryFile[session.root]}
                                       \cup {Target[f] : f \in grants} : Inside(Target[p], r)
    /\ \A p \in Path, f \in grants : Inside(Target[p], Target[f]) =>
         \/ \E d \in DenyRoots(session) : Inside(Target[p], d)
         \/ MayWrite(session, agent, p, FALSE)
    /\ \A p \in Path : Hidden(p) => ReadDenied(agent, p)
    /\ ShellFollowsSettings

\* A path leaves the list of hidden paths only at a request that does not name
\* it, whatever else the request changes and wherever a crash falls (short of a
\* file torn by one).
OnlyUnlistedIsRevealed ==
  [][\A p \in hidden \ hidden' : (Hiding /\ p \notin Wanted) \/ "torn" \in odd']_vars

\* The session's filtering proxy: one port is open exactly when the agent's
\* commands go through the proxy, it is theirs, and its allow list is the one the
\* agent was built with; none lingers from an earlier mode.  (Plan mode does not
\* look at the network.  A subagent built after the settings changed starts a
\* proxy of its own, or stops the session's.)
CalmProxyIsTheAgents ==
  Settled /\ "child" \notin odd /\ job["turn"].pc = "idle" /\ agent.mode # "plan" =>
    LET open == {q \in Proxy : server[q].up} IN
    IF agent.egress = "proxy"
    THEN open = {agent.proxy} /\ server[agent.proxy].told /\ slot["session"].allow = agent.allow
    ELSE open = {}

\* On Windows no folder stays writable for sandboxed commands after its grant is
\* taken back, provided no turn or command that began with it was running then.
CalmLowIsGranted == "late" \notin odd /\ "overlap" \notin odd => low \subseteq grants
=============================================================================
