---------------------------- MODULE ShellCommands ----------------------------
(***************************************************************************)
(* The commands of the bash tools: each runs on an executor thread, spawns *)
(* a process tree, registers it with its tool's LiveProcesses, waits for   *)
(* it at most its timeout and returns.  The turn that asked for a command  *)
(* may end first; its teardown then cancels whatever the tool has running. *)
(* Threads, the operating system's pids and the turn's teardown interleave *)
(* here; SessionGuard decides which agent, hence which tool and sandbox, a *)
(* turn has.                                                               *)
(***************************************************************************)
EXTENDS Naturals, FiniteSets

CONSTANTS Call,      \* executor threads a command can run on
          Pid,       \* process ids the operating system hands out
          NoPid,
          Tool       \* the bash tools that can be in use: one per built agent

ASSUME ShellAssumption == NoPid \notin Pid /\ Tool # {}

VARIABLES cmd,       \* [Call -> what the thread and its command are doing]
          live,      \* [Tool -> its LiveProcesses: the epoch and the tracked pids]
          tool,      \* the tool of the agent the current (or last) turn has
          hits,      \* the pids a cancel_all took and has still to kill
          reused     \* a pid was handed out while somebody still held it

shellVars == <<cmd, live, tool, hits, reused>>

\* A command's process tree is its shell, a job in the shell's process group
\* (it may outlive the shell and holds stdout open) and a stray that left the
\* group for a session of its own.
Member == {"shell", "job", "stray"}
Group == {"shell", "job"}

\* route: "bounded" is run_bounded (bare, bubblewrap and Seatbelt commands),
\* "lowil" is WindowsLowILSandbox.run.  For the properties: over, the turn that
\* asked has ended; early, the epoch was read before that; timed, the timeout
\* fired; hit, a kill struck the live group.  folders: what the Windows backend
\* labels before it spawns.
Resting == [pc |-> "idle", route |-> "bounded", folders |-> {}, tool |-> 0, epoch |-> 0,
            pid |-> NoPid, tree |-> {}, over |-> FALSE, early |-> FALSE, timed |-> FALSE,
            hit |-> FALSE]

NobodyLive == [epoch |-> 0, kills |-> {}]

Busy == {c \in Call : cmd[c].pc # "idle"}

ShellInit ==
  /\ cmd = [c \in Call |-> Resting]
  /\ live = [t \in Tool |-> NobodyLive]
  /\ tool = CHOOSE t \in Tool : TRUE
  /\ hits = {}
  /\ reused = FALSE

\* A child is reaped once communicate() has seen it end; until then, and while a
\* member of its group lives, the system does not hand its pid out again.
Holds(c) == cmd[c].pc \in {"add", "wait", "kill", "drain"} \/ cmd[c].tree \cap Group # {}
FreePids == Pid \ {cmd[c].pid : c \in {d \in Call : Holds(d)}}

\* kill_process_tree: one SIGKILL to the process group, or the walk down the
\* Windows process table; what left the group, or was never seen by the walk,
\* survives.
KillTree(c) == [cmd[c] EXCEPT !.hit = @ \/ cmd[c].tree \cap Group # {},
                              !.tree = @ \ Group]

-----------------------------------------------------------------------------
(* One command, on its executor thread.                                    *)

\* BashTool.execute hands the command to the executor: the thread is running,
\* but nothing of run_bounded or of the backend has been called.
Execute(c, route, folders) ==
  /\ cmd[c].pc = "idle"
  /\ cmd' = [cmd EXCEPT ![c] = [Resting EXCEPT !.pc = "thread", !.route = route, !.tool = tool,
                                               !.folders = folders]]
  /\ UNCHANGED <<live, tool, hits, reused>>

\* The epoch is read before the spawn (run_bounded) and before the labelling of
\* the tree (the Windows backend).
ReadsEpoch(c) ==
  /\ cmd[c].pc = "thread"
  /\ cmd' = [cmd EXCEPT ![c].pc = "spawn", ![c].epoch = live[cmd[c].tool].epoch,
                        ![c].early = ~cmd[c].over]
  /\ UNCHANGED <<live, tool, hits, reused>>

\* subprocess.Popen / CreateProcessAsUserW; `tree` is what the command starts.
\* A pid somebody still means to discard or to kill may come back.
Spawn(c, pid, tree) ==
  /\ cmd[c].pc = "spawn"
  /\ pid \in FreePids
  /\ cmd' = [cmd EXCEPT ![c].pc = "add", ![c].pid = pid, ![c].tree = tree]
  /\ reused' = (reused \/ pid \in hits \cup {cmd[d].pid : d \in Busy}
                              \cup UNION {live[t].kills : t \in Tool})
  /\ UNCHANGED <<live, tool, hits>>

\* Popen raises: FileNotFoundError or another OSError becomes the result.
SpawnFails(c) ==
  /\ cmd[c].pc = "spawn"
  /\ cmd' = [cmd EXCEPT ![c] = Resting]
  /\ UNCHANGED <<live, tool, hits, reused>>

\* No epoch at all: a cancel between the spawn and here is forgotten.
AddAnyway(c) ==
  /\ cmd[c].pc = "add"
  /\ live' = [live EXCEPT ![cmd[c].tool].kills = @ \cup {cmd[c].pid}]
  /\ cmd' = [cmd EXCEPT ![c].pc = "wait"]
  /\ UNCHANGED <<tool, hits, reused>>

\* LiveProcesses.add: a child whose epoch is stale is not tracked; its own
\* thread kills it.
Add(c) ==
  /\ cmd[c].pc = "add"
  /\ LET t == cmd[c].tool IN
     IF cmd[c].epoch = live[t].epoch
     THEN /\ live' = [live EXCEPT ![t].kills = @ \cup {cmd[c].pid}]
          /\ cmd' = [cmd EXCEPT ![c].pc = "wait"]
     ELSE /\ cmd' = [cmd EXCEPT ![c].pc = "kill"]
          /\ UNCHANGED live
  /\ UNCHANGED <<tool, hits, reused>>

\* The programs of the command end by themselves, in any order, or never.  (One
\* that ends earlier or later than this is no different to the thread.)
ProcessEnds(c, member) ==
  /\ cmd[c].pc = "wait"
  /\ member \in cmd[c].tree
  /\ cmd' = [cmd EXCEPT ![c].tree = @ \ {member}]
  /\ UNCHANGED <<live, tool, hits, reused>>

\* communicate() returns when the shell has ended and nobody holds the pipes;
\* the Windows backend redirects to files and waits for the shell alone.
Finishes(c) ==
  /\ cmd[c].pc = "wait"
  /\ cmd[c].tree \cap (IF cmd[c].route = "bounded" THEN Member ELSE {"shell"}) = {}
  /\ cmd' = [cmd EXCEPT ![c].pc = "finally"]
  /\ UNCHANGED <<live, tool, hits, reused>>

TimesOut(c) ==
  /\ cmd[c].pc = "wait"
  /\ cmd' = [cmd EXCEPT ![c].pc = "kill", ![c].timed = TRUE]
  /\ UNCHANGED <<live, tool, hits, reused>>

\* kill_process_tree on the thread's own child, which is not reaped yet.
Kill(c) ==
  /\ cmd[c].pc = "kill"
  /\ cmd' = [cmd EXCEPT ![c] = [KillTree(c) EXCEPT !.pc = "drain"]]
  /\ UNCHANGED <<live, tool, hits, reused>>

\* A second communicate() without a deadline.
DrainUntilClosed(c) ==
  /\ cmd[c].pc = "drain"
  /\ cmd[c].tree = {}
  /\ cmd' = [cmd EXCEPT ![c].pc = "finally"]
  /\ UNCHANGED <<live, tool, hits, reused>>

\* The second communicate() has a deadline of its own: a stray that holds the
\* pipes is given up.  (The Windows backend waits ten seconds for the shell.)
Drain(c) ==
  /\ cmd[c].pc = "drain"
  /\ cmd' = [cmd EXCEPT ![c].pc = "finally"]
  /\ UNCHANGED <<live, tool, hits, reused>>

\* The finally clause: discard by pid; then the result goes back.
Return(c) ==
  /\ cmd[c].pc = "finally"
  /\ live' = [live EXCEPT ![cmd[c].tool].kills = @ \ {cmd[c].pid}]
  /\ cmd' = [cmd EXCEPT ![c] = Resting]
  /\ UNCHANGED <<tool, hits, reused>>

-----------------------------------------------------------------------------
(* The end of a turn, on the turn's thread.                                *)

\* cancel_running -> LiveProcesses.cancel_all, the part under the lock: a new
\* epoch, and the kills are taken.  Whatever runs was asked for by a turn that
\* is over now.
CancelAll ==
  /\ live' = [live EXCEPT ![tool] = [epoch |-> @.epoch + 1, kills |-> {}]]
  /\ hits' = live[tool].kills
  /\ cmd' = [c \in Call |-> IF c \in Busy THEN [cmd[c] EXCEPT !.over = TRUE] ELSE cmd[c]]
  /\ UNCHANGED <<tool, reused>>

\* ... and the part outside it: one kill per tracked pid, whoever has it now.
KillHit(pid) ==
  /\ pid \in hits
  /\ hits' = hits \ {pid}
  /\ cmd' = [c \in Call |-> IF cmd[c].pid = pid /\ Holds(c) THEN KillTree(c) ELSE cmd[c]]
  /\ UNCHANGED <<live, tool, reused>>

\* A turn starts with an agent that was rebuilt since the last one: a new tool,
\* with a registry of its own.
TakeFreshTool ==
  LET used == {cmd[c].tool : c \in Busy}
      spare == Tool \ ({tool} \cup used)
  IN
  \E t \in spare :
    /\ \A u \in spare : t <= u
    /\ tool' = t
    /\ live' = [u \in Tool |-> IF u \in used THEN live[u] ELSE NobodyLive]
    /\ UNCHANGED <<cmd, hits, reused>>

ThreadStep(c) ==
  \/ ReadsEpoch(c)
  \/ \E pid \in Pid, tree \in SUBSET {"job", "stray"} : Spawn(c, pid, {"shell"} \cup tree)
  \/ SpawnFails(c)
  \/ Add(c)
  \/ Finishes(c)
  \/ TimesOut(c)
  \/ Kill(c)
  \/ Drain(c)
  \/ Return(c)

CommandStep ==
  \E c \in Call : ThreadStep(c) \/ \E m \in Member : ProcessEnds(c, m)
=============================================================================
