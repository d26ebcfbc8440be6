# CluxMate: models, checks and proofs

TLA+ modules for CluxMate, a coding agent with a Python core (`src/cluxmate`),
a terminal front end and an Electron desktop (`src/desktop`). They cover the
parts in which several threads, processes, crashes or stops meet shared state:
admission of subagents, the session log on disk, the turns of the engine, the
agent loop with its context management, undo, MCP servers and their credentials,
language servers, trust and permissions, the guards of files and commands,
shell commands, and worktrees. Section 6 has what is left out, and why.

Contents: 1 the system, 2 the modules, 3 the runs, 4 the proofs, 5 where the
code differs from what it says, 6 what is not modelled.

`tlc -config Store.cfg MCSessionStore` checks a run; every `.cfg` belongs to
the `MC` module named in section 3. `tlapm SessionStoreProofs.tla` checks a
proof.

## 1. The system

### Processes and threads

One desktop window talks to one *engine* per session: a Python process that
reads JSON-RPC requests on its main thread (the dispatch thread) and runs each
turn on a thread of its own, with an event loop of its own. Subagents are
tasks on their parent's event loop. MCP servers, language servers, hooks and
shell commands are child processes. All sessions of a directory share one
shadow git repository, one permission file and one trust registry, each from
its own process. The terminal front end has the agent, the store and the
interface on a single event loop.

### Components

| component | state | operations | hard because |
|---|---|---|---|
| Subagent scheduler (`subagent_scheduler.py`, `tools/task.py`) | counters of slots and writers, claims held, queue of futures | acquire, release, pump, cancel | a future may be granted and cancelled before its task resumes; nested calls; three limits at once |
| Session log store (`session_log_store.py`, `session_log.py`) | a JSONL file, the log in memory, the persister's watermark | create, append, load with repair, truncate | crashes inside every one of them; status polls repair the file of a live turn; undo beside an unwinding turn |
| Engine: turns (`jsonrpc_server.py`) | registered task, loop and callbacks; waiters and decisions | chat/send, chat/cancel, tool/approve, tool/deny | dispatch thread against the threads of up to two turns |
| Agent loop (`agent.py`, `completion_audit.py`) | request list, surface of the log, open calls, retries, trace | a turn: prompt, model calls, tools, hooks, audit, end | a stop at any await; four kinds of retry; the request and the log must stay alike |
| Context management (`context.py`) | none of its own | prune, compact, cuts | cuts must not separate calls from results; the surface may move during a summary |
| Checkpoints (`checkpoints.py`) | shadow repository: index, history, shallow boundary | snapshot, restore, cap, gc | several processes, several git commands per operation, one index |
| MCP servers (`mcp.py`, `jsonrpc_server.py`, `builder.py`) | a builder per initialize, its manager and clients, the agent over them | initialize, load, reload, shutdown, swap of the agent | four kinds of thread start, replace and stop servers |
| MCP authorization (`mcp_oauth.py`, `mcp_auth_store.py`) | a credential file, flows, an epoch per server | refresh, authorize, cancel, logout | writers that rewrite one file, each with a lock of its own |
| Language servers (`lsp.py`, `lsp_tool.py`, `_diagnostics.py`) | a client per language: writer, pump, waiters, synchronised text | start, request, synchronise, diagnose, shut down | a starting gate, a pump that breaks the client, a server that stalls |
| Trust (`trust.py`, `project_root.py`) | registry file, cached per process with its stamp; overrides | resolve, set, clear, adopt | a registry shared by processes without a lock |
| Permissions (`permissions.py`) | mode, always-allow lists, their file | verdict, remember, set mode | a policy outlives the initialize that replaced it |
| Fences, grants, read denies (`_fence.py`, `grants.py`, `read_denies.py`) | roots, grants, hidden paths | check a path, change a list | precedence of roots and denies; a rebuild per change |
| Sandbox (`_sandbox.py`) | backend, labels of folders | wrap or run a command | the labels outlive the command |
| Builder (`builder.py`), egress proxy (`_egress_proxy.py`, `_ssrf.py`) | what an agent was built with; the open proxy | build, rebuild, child builders | three threads build, each reads the settings at its own moment |
| Shell and processes (`bash.py`, `_proc.py`) | table of live processes, epoch | run bounded, cancel all | a process started while all are being cancelled; pids that come back |
| Worktrees (`worktree.py`, desktop `worktree*.ts`, `ipc-handlers.ts`) | git's own; rows of the sessions that live in the trees | create, list, remove, move a session | several commands, no lock, a removal beside a move |
| Hooks (`hooks.py`) | hook specs per event | reload, run event | no state between events |
| File and memory tools (`tools/*.py`, `memory.py`, `retrieval_memory.py`) | files | read, write, edit, search | one call, one file at a time |
| Subagent types (`subagents.py`), skills (`skills.py`) | catalogues | discover, get | precedence of roots |
| Session metadata (`session_store.py`) | SQLite rows | CRUD | atomic by SQLite |
| Providers, templates, CLI, TUI | - | translate, print | no shared state beyond the above |
| Desktop main process (`agent-bridge.ts`, `session-store.ts`, ...) | engines, pending requests | spawn, send, restart | one process per session |
| Desktop renderer (`stores/index.ts`) | the view of each session | stream, approve, undo, switch | what order it sends requests in |

### Interactions

The front end sends a message; the dispatch thread cancels what still runs,
derives the history from the log, and starts the turn's thread. The thread
snapshots the directory, then runs the agent loop. The loop appends each event
to the session log, whose observer (the persister) writes it to the file before
`append` returns. A gated tool makes the loop call back into the engine, which
shows a card and blocks an executor thread until the answer arrives on the
dispatch thread. A `task` call asks the scheduler for a slot and runs a child
loop. When the turn returns, the thread snapshots again and answers the
request. Stop sets every waiter and cancels the registered task. Undo truncates
the file, loads it again and, for files, restores from the shadow repository.

An `initialize` makes a builder, which reads the settings and builds the agent:
its policy (by the trust of the project), its fences and sandbox, the wrappers
of its MCP clients, its language servers. The servers load on a thread of their
own, which then builds the agent again and swaps it in; so do reloads,
authorizations and every request that changes a setting. A turn keeps the agent
it began with.

### What must hold

- scheduler: the caps and the disjointness of write regions, of the calls that
  *really* hold a slot; no lost wake-up; a stopped call ends;
- store: what was committed survives any crash; the session opens again, with
  a transcript a provider accepts; loading twice is loading once;
- engine: turns do not interleave in the log; a tool runs only if approved; a
  stopped turn ends and leaves every call answered;
- agent loop: the request is what the log says; both are transcripts; the task
  survives compaction; claims of work without work are reported; a turn ends;
- checkpoints: undo takes back all the session recorded and nothing unannounced;
  what it took can be put back;
- MCP: no server survives the builder it belongs to; the agent's wrappers point
  at live clients; a logout stays a logout; no thread waits for a server for ever;
- language servers: an edit gets its result whatever its server does; no call
  waits for a dead client; the server has the text on disk;
- trust and permissions: what the user answered is what a process goes by; no
  rule works that the user has not consented to; no save loses another's entries;
- guards: the next turn's fences and sandbox are what the settings ask for;
  a turn's end kills its commands and no others;
- worktrees: a tree never shows up in the main tree's changes; a removal takes
  nothing that was not looked at; what is answered is so.

## 2. The modules

Every definition that stands for code has the lines it stands for in
`PROJECT.json` ("map"). Beside some definitions stands a variant with a
telling name (`AcquireQueuedAlsoNested`, `CommitUnwritten`, ...): the same code
with a plausible mistake, used to confirm that a property notices it
("mutants"). No specification uses them.

### SubagentScheduler, AdmissionControl

`SubagentScheduler` is the scheduler and the part of the task tool around it.
`running`, `writers`, `claims`, `waiters` are the code's fields; `fut` is the
state of each waiter's future, `pc` and `cancelled` that of its task. Everything
runs on one event loop, so code between two awaits is one step, except `_pump`,
whose loop takes a step per waiter with `cursor` as its index and nothing else
enabled; that keeps its actions as small as the code's branches. What does
interleave is the delivery of wake-ups. `Acquire` has the three outcomes of
`acquire` (at once, refused because nested, queued), `WakeGranted`,
`WakeGrantedCancelled` and `WakeCancelled` are the ways out of its await,
`Release` is the finally of the task tool, `CancelTurn` the cancellation of all
calls in flight. `PumpRaise` is the `InvalidStateError` of granting to a future
that has been cancelled. Paths are abstract, with `Above` for containment.

`AdmissionControl` is the gate the callers believe in: a set of holders, taken
within the caps and only if disjoint, and given back. The scheduler implements
it with `held <- Held`, the calls that really hold a slot, whatever the
counters say.

### SessionEvents, DurableLog, SessionStore

`SessionEvents` has the events, contiguity, and the closers crash repair adds
to an open turn. `SessionStore` is one session: the file with its header, lines
and possibly a torn last line; the log; the watermark; the agent's turn as far
as it appends; and the load or undo under way. A rewrite opens with mode `w`,
so it takes two steps, and a crash between them finds the file empty. `load` is
read, heal, cut, check, append closers, bind, in the code's order, because a turn
on another thread may append between any two. `Poll` is the terminal's status
line, which loads (and repairs) the file of a running turn. Each behaviour
chooses one of the `Environments` in `Init` and keeps it: whether there are
polls, `overlap` (undo while a stopped turn unwinds), `rewriteCrash`, `ioFaults`
(a write fails, wholly or halfway) and `oddPayloads` (U+2028, U+2029 or U+0085
in a text, written raw and split by `str.splitlines`), with the bounds on events
and crashes. `Calm` environments have none of the four faults; a property whose
name begins with it speaks of those.

`DurableLog` is the promise: one gapless history that grows by commits, loses
whole turns on undo, and gains nothing but closers when the process dies. The
store implements it with `history <- Recorded`.

### RpcTurns

The dispatch thread against the threads of the turns. Turns are numbered in
the order they are sent. `callbacks`, `turnTask`, `turnLoop` are the engine's
registration; `meta` is the agent's table of open calls, which belongs to the
agent and not to the turn; `cancelled` is the callbacks' flag, `taskCancel` the
cancellation of the task, which `call_soon_threadsafe` only schedules. A send is
two steps (`Send`: cancel what runs; `Spawn`: read the history, start the
thread), as is the removal of a registration (`Unregister`, `Clear`). The
approval gate is `Gate`, `RegisterWaiter`, `Wake` with the card shown before the
waiter exists. A turn makes at most one tool call; that is enough for every
ordering of call, card, answer, stop and close.

`calm` is chosen in `Init` and never changes. In a calm environment a message
is sent only after the response to the last one, a card is answered only after
its waiter is registered, and nothing gets between the two lines that clear a
registration. The desktop mostly behaves so; nothing in the engine enforces it.
Three of the properties are stated for calm environments only; section 5 says
what happens in the others.

### ContextCuts, AgentTurn

`ContextCuts` has the messages as kinds (an injection, the human's, a reply,
calls, their results, a summary, ...), the balance of calls and results, where a
compaction may cut (`HeadEnd`, `SnapForward`, `PairingCut`, `Regions`), and
what a provider accepts (`IsTranscript`). Sizes are not modelled: the tail may
begin anywhere.

`AgentTurn` is `run` and `_run_loop`: prompt and marker of a stopped turn,
relief before a step (hook, prune, compaction with its generation guard and
recomputes), the model's reply in all its kinds, the empty, audit and Stop-hook
retries each with their budget, tool calls with malformed arguments, approvals,
hooks, parallel execution and ordered results, and `Abort` at every await.
`messages` is the request list, `surface` the log's surface. Four ghost
variables record what really happened and are read by properties only: `drift`
(the request lacks this turn's marker), `shifted` (a summary was committed over
other messages than it read), `worked`, `claimed`.

### Checkpoints

Sessions of one directory, each a process with two threads that run git (a
turn's and the one that serves restores), over `disk`, `index` and `commits`.
A git command is a step. A content is known by its writer, the number of commits
when it was written, whether it is a removal and whether it is over the size
cap; `git diff` between trees is `Changed`. The order is the code's: `restore`
settles its paths and its conflicts, then `_snapshot_paths` (add, reset
oversized, commit), then checkout or unlink, then the second scoped snapshot.
`AddRefused` is git refusing all named paths because it does not know one of
them; `LockBusy` is another process's index lock. `Restart` is a process that
dies and the next one's `_cap_commits`, which moves the shallow boundary `base`,
and `kept` if gc ran.

`calm` here means that one operation runs at a time and nobody writes during
it. Edits, stops and restarts happen between any two operations.

### McpServers

An `initialize` makes the builder of generation `g`; the builder owns a manager,
which owns a client per server (`client` holds every client ever made, with its
process and its lock). `loader[g]` is `_load_mcp_async`: load, drop what does not
answer in time, build the agent anew if the generation is still the current one,
swap it in, set the ready event. `rel` is a reload of one server, by a finished
authorization or by a logout on the dispatch thread; `disp` is what that thread
is in the middle of. The check of a generation, the build and the swap are steps
of their own, as are the handshake, the latch that is looked at after it, and the
registration. The layered `mcp.json` is merged field by field (`MergedEntries`),
the project's file only if it is trusted.

Two ghosts name what the properties except: `missed` are the clients no
shutdown reaches any more (spawned after their shutdown, loaded after the latch,
or displaced from the manager by another reload); `crossed` says that a rebuild
of the agent was overtaken: by an initialize, by a load or a new generation under
a reload, or by other reloads, after which the tools look unchanged to this one.

### McpAuth

The credentials in `~/.cluxmate/mcp-auth.json` are numbered as they are issued;
`valid` says which are unexpired, accepted by the server, and renewable, and which
had a refresh turned down although they were (`refused`: the authorization server
may answer any 4xx, and the code drops the credential). A
request renews a token that has expired or was rejected, a flow is
`_run_mcp_auth` with its in-flight marker, its callback and its epoch, a logout
raises the epoch, deletes the entry and reloads the server; the terminal
authorizes from another process. Every save is a read of the whole file (`snap`)
and a write of it. `raced` are the servers whose entry two writers worked on at
once: the store's lock belongs to a store object, and each writer has its own.

### LanguageServers

One file, one language. `call` is where each executor thread is between the
starting gate, the installer, the spawn, the handshake, the comparison of the
file's version, the notification and the wait; `server` holds the clients with
their process, writer queue, pump, waiters and the text the server has. A server
may exit, garble a frame, stop reading, answer "content modified" or ask
something itself, and need not answer. `races` records the three races of the
code the properties except: two calls through the gate (`start`), a start that
ends after the shutdown (`closing`), two synchronisations at once (`sync`);
`late` marks a caller that registers after the pump broke the client.

### ProjectTrust

`trust.json` is read, truncated, written and stamped in steps; each process
caches it with the stamp (`store`). `job` is the request a process's dispatch
thread is in (initialize, `trust/set`, `trust/remove`, the adoption from an
approval card) or the command a terminal runs. A session's `policy` is bound at
initialize; a turn keeps the one it began with (`held`). A click that remembers a
rule writes the project's `permissions.json`, which has no lock either. `consent`
is what users answered, in `clicked` what they remembered; `unasked` are the
rules that approved a call with neither, and `strays` the directories one of
the named races reached: an initialize between the card and its click, an adopter
that goes by a stale status, another process's write between one's own write
and its stamp, a write that failed.

### ShellCommands, PathFences, SessionGuard

`ShellCommands` is a command on its executor thread: read the epoch, spawn,
register, wait, kill, drain, discard. A process tree is a shell, a job of its
group and a stray that left the group; pids come back as soon as nobody holds
them (`reused`). `PathFences` has `WriteFence`, `ReadFence` and the rules of
the Linux and macOS sandboxes as predicates over a finite tree of paths with links.
The Low-IL backend of Windows denies a command no reads and writes by label, which
`low` follows; a command in yolo, or after an approved escalation, runs bare
(`Boxed`). `SessionGuard` extends
both: the requests that change the mode, the grants, the hidden paths and the
network settings, and the builds they lead to on the dispatch thread, on the
loader's thread and (for a subagent) on the turn's. A build reads the settings,
decides about the proxy, starts it and yields the agent in separate steps.
`odd` collects the orders the properties except, by name: `overlap` (two builds
at once), `torn` (a crash inside a write of `forbid-read.json`), `late` (on
Windows, a running turn held a grant that was revoked), `child` (a subagent's
build met another egress setting than its parent's).

### Worktrees

A command is a process that runs one git command after the other; nothing locks the
repository in between, so each git command is a step. `create` finds a free slug,
makes sure git ignores the container, looks at the main tree and adds the tree (whose
branch it leaves behind when that fails); `remove` lists, prunes, removes and deletes
the branch. With `slow`, git or the command may run into its limit at any of them,
having done all or half of its work. git locks the entry of a tree until its checkout
is through, so an add that is killed leaves it `locked`: no prune drops it, and no
removal with a single `--force` takes it. The desktop's handlers create or remove a
session's tree, move sessions between trees and delete rows; the removal looks at the
rows twice and tries a failed command once more. A tree has an identity (`id`), so a
tree that took another's place is told from it. `calls`, `moves` and `asides` of an
environment are bounds. `late` are the sessions that came to live in a tree after the
removal's last look.

## 3. The runs

All runs finish within five minutes on two workers. A property whose name
begins with `Calm` excepts, by name, the faults or the orders of events in which
the code does not keep it; section 5 has them.

| run | module, cfg | asks |
|---|---|---|
| `scheduler` | `MCSubagentScheduler`, `Scheduler.cfg` | `SlotsAndRegions`: caps and disjoint regions of the real holders; `ImplementsAdmission`: refinement of the gate; `NoCallWaits`: every queued call is admitted, every stopped one ends |
| `scheduler_leak` | same, `SchedulerLeak.cfg` | `SlotsReturned`, violated: section 5 |
| `store` | `MCSessionStore`, `Store.cfg` | `CalmCommitsSurvive`: nothing committed is lost; `CalmOpensAsTranscript`: the file always loads, as a transcript, and loading twice is loading once; `LogIsNumbered`: no process works on a log with a gap, in any environment; `CalmLogIsDurable`: refinement of `DurableLog`; `CalmOpenEndsBound`: a load ends |
| `rpc` | `MCRpcTurns`, `Rpc.cfg` | `CalmTurnsDoNotInterleave`, `HistoryStillMatches`: turns follow one another, each from the log's own history; `RunsOnlyApproved`: no gated tool runs unapproved, in any environment; `CalmTurnsAreServed`: a stopped turn ends, an answered card goes away |
| `agent` | `MCAgentTurn`, `Agent.cfg` | `RequestIsLogged`: what is sent is what is logged; `HistoryIsSound`: both are transcripts and the task survives; `UnbackedIsReported`: a claim of work without work is reported; `TurnEnds` |
| `checkpoints` | `MCCheckpoints`, `Checkpoints.cfg` | `CalmCommitsAreSmall`; `UndoIsComplete`, `ForeignWorkIsReported`, `RewindIsReversible`: a rewind takes all its session recorded, warns of what it takes from others, can be rewound |
| `mcp` | `MCMcpServers`, `Mcp.cfg` | `CalmServersAgree`: what runs, what is registered and what the agent calls are the same servers; `NoThreadWaits`: the dispatch thread returns, the load releases the turn that waits for it |
| `mcp_auth` | `MCMcpAuth`, `McpAuth.cfg` | `CalmCredentialsFollowTheUser`: a logout stays one, a renewable credential is not thrown away unless its own refresh is turned down; `FlowsAndLogoutsEnd` |
| `lsp` | `MCLanguageServers`, `Lsp.cfg` | `EditsReturn`: an edit gets its result whatever the server does; `CalmNobodyIsStranded`, `CalmTextIsCurrent`, `CalmNoStrayServer` |
| `trust` | `MCProjectTrust`, `Trust.cfg` | `DecisionsAreSeen`: a process goes by the current answer; `CalmNothingRunsUnasked`: no rule works without consent; `CalmFilesAreKept`: a save loses nothing of others |
| `guard` | `MCSessionGuard`, `Guard.cfg` | `CalmKillsAreRight`: a turn's end kills its commands, no fewer, no more; `GuardsFollowSettings`: the agent's file fences, in every mode and on every platform, and its boxed commands on Linux and macOS are as the settings ask; `CalmProxyIsTheAgents`, `CalmLowIsGranted`; `OnlyUnlistedIsRevealed`: hidden paths stay listed through requests and crashes; `CommandsReturn` |
| `worktrees` | `MCWorktrees`, `Worktrees.cfg` | `MainStaysClean`: no tree shows up in the main tree's changes; `RemovalsTakeNoMore`: a removal takes the tree it was asked to, changes only by force, no session it could see; `AnswersAreTrue`: what is answered as created is there on its branch, as removed is nowhere but for the locked remnant of an unfinished add, and the branch deleted with it is the one listed |

Bounds, and why they are enough:

- `scheduler`: three calls of the root (one read-only), one nested, caps of 2
  and 2, a workspace with two directories and a path outside. Two slots and four
  calls give a full house, a queue of two, a blocked head with an admissible
  second, a nested refusal, and a parent holding the slot its child would wait for.
- `store`: the environments `Peace` (five events, two calls, two crashes: a turn
  with two open calls, closers, an undo, and a crash during the repair of a crash),
  `Overlapping` and `Failing` (three events, one crash) and `Faulty` (all faults at
  once, two events, one crash). `maxEvents` stops new work, not results, ends or
  repairs.
- `rpc`: two turns. The second is sent at any moment of the first, so every
  pair of locations occurs; a third adds a queue nobody reads.
- `agent`: two turns, two model calls each, two parallel calls per reply, one
  injection, recall or note that may or may not be there (`MaxAsides`), each
  retry once, pruning after one turn, one recompute. `CallCounts = {2}` because
  with one call order and partial closing cannot go wrong.
- `checkpoints`: two sessions, two files, five commits, a cap of three (so the
  boundary moves twice), two edits, stops or restarts (`MaxAsides`) and, in an
  environment that is not calm, one commit (`MaxRaced`). Sessions and files are
  interchangeable, so the run uses their symmetry; it has no liveness property.
- `mcp`: one server, remote in the user's file and local in the project's, so
  trust changes what it is; two initializes, four clients; one further request
  during the first load and three after it (`MaxEarly`, `MaxLate`), which is
  enough for a reload, a shutdown and an authorization to cross an initialize.
- `mcp_auth`: two servers, because a save rewrites both entries; two calls, three
  credentials, three calls, requests or outside events.
- `lsp`: two callers and two server processes, so a start can meet another and a
  dead client its successor; two versions of the file, three stimuli, one retry
  of "content modified" (five in the code: the loop is the same).
- `trust`: a repository that ships rules and a linked worktree of it, a session, a
  terminal, four stimuli, one failed probe or write. Two processes are enough for
  every overlap of two writers.
- `guard`: seven `Scenarios`, each a few stimuli of the kinds that can meet: two
  turns with two commands and two pids; a shell without a sandbox; two changes of
  the mode in a linked worktree; every kind of setting with a background load and
  a crash; grants on Windows; the proxy with a load; the proxy with a subagent.
- `worktrees`: two commands at a time, two sessions, two slugs, a topic branch, in
  the environments `Quiet` (three commands, one move, one thing the user does),
  `Slow` (two, two, one) and `Restless` (two, one, two, with the exclude line taken
  out). Commands and sessions are interchangeable (symmetry; no liveness property).

Deadlock is checked in `scheduler`, `store` and `rpc`, whose `Quiet` says where the
system may rest. The others stop at their bounds, so theirs is off.

Fairness:

- `scheduler`: weak fairness of the pump, of each wake-up and of each
  call's end. asyncio runs every ready callback, and a child's run is bounded by
  its `max_turns`. Nothing is assumed of new calls or stops.
- `store`: weak fairness of the steps of a load, which is straight-line code.
  `CalmOpenEndsBound` is only asked once the process has stopped dying.
- `rpc`: weak fairness of each turn's thread and of the second half of a send
  on the dispatch thread. Nothing is assumed of the user: a card may stay
  unanswered for ever, and a stop must end the turn even so.
- `agent`: weak fairness of the loop's own steps (`Work`): the provider answers
  or times out, tools and hooks are bounded, the user decides. Aborts, the other
  writer and new prompts are free.
- `mcp`: weak fairness of each thread's own steps: the dispatch thread, a
  shutdown, a loader, a reload, an authorization, and a client's worker, whose
  requests end by their timeout. Nothing is assumed of servers or users.
- `mcp_auth`: the same of requests, flows (a callback has a timeout) and logouts.
- `lsp`: the same of callers, of a client's writer and pump, and of the shutdown;
  every wait with a deadline ends. A server owes nothing.
- `guard`: weak fairness of each executor thread that runs a command. Nothing is
  assumed of the processes it started.
- `checkpoints`, `trust` and `worktrees` check safety only.

## 4. The proofs

`...Proofs` modules extend the modules they prove about: two of them hold the
proofs of several components, whose specifications therefore have names of their
own (`Spec`, `McpSpec`, `LspSpec`, `AuthSpec`). All are for every value
of the constants, under the named assumptions only (finite sets of calls,
natural bounds, well formed settings). Each proof has a lemma per action, or per
group of alike actions, that it preserves each conjunct of the inductive
invariant.

Data is reasoned about by least counterexample: the library's `WFMin` on the
natural numbers gives every set of them that is not empty a least element (the lemma
`LeastNatural`), and what fails somewhere in a list fails somewhere first. That is
how the proofs say what a recursive function or a fold over positions computes: the
balance of calls and answers, the closers of an open turn one after the other, the
first commit that holds a content.

**SubagentSchedulerProofs.** `TypeOK` does not say that a release finds a counter
above zero and `SlotsAndRegions` says nothing of the counters at all, so neither
is inductive. `SchedulerInvariant` (`IInv`) says: the counters lie between the
numbers of holders and writing holders and the caps (after `PumpRaise` they may
be too high, never too low), every claim held is recorded, and the claims of
different holders are disjoint. From it: `SchedulerTypes`,
`SchedulerSafety` (`SlotsAndRegions`) and `SchedulerImplementsAdmission` (each
step maps to a `Take`, a `Give` or a stutter).

**SessionStoreProofs.** Under all faults and for any length: `TypesHold`
(`TypeOK`), and `LogStaysNumbered` (`LogIsNumbered`), for which the file need not
be described at all, since a load binds only what `from_events` adopts.

In a calm environment, for any number of events, calls, polls, undos and crashes:
`CommitsSurvive` (`CalmCommitsSurvive`), `OpensAsTranscript`
(`CalmOpensAsTranscript`) and `LogIsDurable` (`CalmLogIsDurable`, the refinement of
`DurableLog`). All three rest on `CalmInvariant`, which has to say what a file can
look like. A log is `Good` if it is numbered, its calls and answers pair up within their
turns, no turn begins before the last one has ended, and after a repair comes
a new turn or nothing. A file `StandsFor` a good log if it is that
log, or that log with all closers of one of its prefixes in between (`StaleAt`): a
poll repaired the file in the middle of a turn, and the turn went on with the
numbers the closers have used. A load drops exactly that block (`StaleDropped`), so
such a file is healed to its log (`StandsForHeals`); appending to it
(`StandsGrows`) and cutting it at an undone turn (`KeptStands`) lead to such files
again. `FileIs`, `LiveIs` and `OpIs` say, for every step of a load, an undo or a rewrite,
which log the file, the session and the operation stand for; `TurnFits` says that
the turn knows which calls wait. That an undo, which keeps lines by their numbers,
keeps or drops such a block as a whole needs a count (`RoomForClosers`): the turn
went on to answer the calls that waited and to end, so the closers' numbers are
below that of the next turn's start. `ClosersGood` gives
the state after every single closer, since a crash may cut the repair short there;
the next one adds the rest. For the refinement, `RecordingIsDurable` states the
steps of `DurableLog` in this module's operators, and one lemma per group of actions
shows which of them a step is: a load that appends closers is an interruption, and
so is a death in a turn whose file a poll has repaired; the other steps of loads,
polls and undos are stutters but for the one that drops the undone turns.

**ConnectionsProofs**, the turns of `RpcTurns`. `ApprovalsAreKept`
(`RunsOnlyApproved`) in any environment: a decision "approve" was the user's answer to
that turn, since answers go to the callbacks current at the time and a waiter wakes to
`cancelled` first. `CalmTurnsAreSequential`: in a calm environment at most one turn is
between its send and its response, all turns before it have responded and no later one
has begun (`InOrder`); so the log is sorted by turn, which implies that turns do not
interleave, and nobody appends between the reading of a history and its turn's start
(`Fresh`), which is `CalmHistoryMatches` (`HistoryStillMatches`).

**ConnectionsProofs**, `LanguageServers`. Under the assumption that no caller is
called like the pump. `ClientsAreConsistent` is `LspInvariant`: each of its parts
says where one thing is between two threads that pass it on. Frame and client of a
caller fit the point it has reached (`Placed`); a frame in a writer's queue belongs to
the caller that waits for it to be written, and is there once (`Queued`); a caller
whose request is not answered is a waiter of its client, and that client is not
broken, unless it is `late` (`Attended`); a client that is being started is
registered nowhere and nobody else is at it (`Private`); at most one caller
synchronises a client, what it read is no newer than the disk and what a client
records no newer than what its server has (`Dated`, `InStep`); who starts a server
holds the gate and nothing is registered (`Gated`); what a shutdown closes is dead
(`Closing`). The last three are said only while the race that breaks them has not
been lost. `NobodyIsStranded` (`CalmNobodyIsStranded`) follows from `Attended`,
`TextIsCurrent` (`CalmTextIsCurrent`) from `InStep`, and `NoStrayServer`
(`CalmNoStrayServer`) is preserved together with `Private`, `Gated` and `Closing`.

**ConnectionsProofs**, `McpAuth`. For any finite set of servers and any number of
requests, flows and credentials. `CredentialsAreAccountedFor` is `AuthInvariant`: a
request that renews had a credential to renew and what it got is newer, and one that
is about to drop a credential was refused for good (`Renewing`); a flow that still has
the epoch of its server has been overtaken by no logout, finished or about to delete,
and one that has looked at the epoch has lost to none but one it raced (`Heeding`).
`CredentialsFollowTheUser` (`CalmCredentialsFollowTheUser`) is an action property: it
asks of every write of the file that what gets older was dead, logged out, raced, or
itself turned down at its refresh (`Renewable`). A save rewrites the whole file from
an earlier reading, so the proof compares the reading with the file for every server
but the one saved (`raced` has those that differ).

**AgentProofs**, `AgentTurn`. `RequestStaysLogged` (`RequestIsLogged`): the invariant is
that, unless `drift`, request and surface agree throughout a turn, except while
a summary is being made and another writer has appended (`Agree`). Pruning acts on
both alike because it demands that they agree; a summary is dropped if the surface
has moved; the recompute derives the request anew. `ClaimsAreReported`
(`UnbackedIsReported`): a trace with evidence, or a call marked as having worked,
means that a call of *this* turn did some work, which needs the trace to be cleared
and the calls to be gone when a turn starts; and a claim without evidence that
reaches the Stop hook has been recorded as unbacked. `HistoryStaysSound`
(`HistoryIsSound`): between two requests both lists are transcripts, while calls
are answered both are a transcript and those calls (`Transcripts`, `CallsTell`);
the region a summarizer works on was cut between groups (`PlanFits`), and the first
prompt has the same place in both lists, in front of it (`Anchored`). That cuts fall
between groups is a matter of the balance of calls and answers: in a transcript it
is the number of answers still missing (`BalanceCounts`), so where it is zero
nothing is cut off from its call (`BalancedIsCut`), and what is left of a
transcript, before, behind and around a region, is one (`PrefixIsTranscript`,
`SuffixIsTranscript`, `TranscriptsJoin`).

**AgentProofs**, `McpServers`. Under `ServersAssumption` (a finite set of servers,
none called like the dispatch thread; the two `mcp.json` name servers; at least one
generation), for any files, generations, clients and reloads. `ServersAreSeenTo` is
`McpInvariant`. A generation that is neither current nor closed has not begun
(`Superseding`), a manager is being stopped if and only if its builder is closed and
has nothing before its load (`Managing`), and a reload works on the current builder
or on one closed under it (`Reloading`). Then `Attached` says of every client that may
run who will see to it: its manager has it and is open or about to kill it, or the
reload that made it has it in hand; `missed` are the ones of whom this is not true.
`Wrapping` says of every wrapper that its client is in its place, or a reload is about
to build the tools anew. `Served` holds until `crossed`: the agent is the current
builder's, whoever swaps works on the current builder (`Swapping`), nobody
reloads what is still loading (`Loading`), and what the agent calls is among the
tools and in its place unless a swap is due (`Serving`). `ServersAgree`
(`CalmServersAgree`) is what this leaves when nothing is under way.

The first attempt at `Served` failed for a good reason. A reload rebuilds the tools
of all servers but compares them with what it noted before its own handshake. If
the tools came and went in between, it takes away wrappers the agent has and
reports "unchanged". The run has one server and could not show it; TLC finds
it with two. `crossed` names this order since, and section 5 has it.

**CheckpointsProofs.** `CommitsStaySmall` (`CalmCommitsAreSmall`): the index holds an
oversized file only between the add and the reset of one snapshot, and in a calm
environment no other commit falls between. `RewindsAreComplete` (`UndoIsComplete`):
contents are dated by the number of commits when written, so a commit that holds a
content written after the target comes after the target; if it is the first to hold it
and the session's own, the file is among those the session touched, and the job's
paths cover them when `restore` begins and until it applies. `ForeignWorkReported`
(`ForeignWorkIsReported`) rests on the same invariant: somebody else's content that is
written after the target is not in the session's commits unless one of them was the
first to hold it (the first is least, `LeastNatural`), and then the property excepts
it; so `git diff` against the last commit names the file, or the last commit has it
from another session. Trying to prove it without its last exception failed for a good
reason: a file created and removed by others after the target, which the last commit
does not have either, is in no diff, in histories longer than the run's.
`RewindsAreReversible` (`RewindIsReversible`) needs `ReverseInCalm`: between its first
commit and its last step a rewind's paths are staged as they were (`AllStaged`), and
the node it leaves holds what it took away (`Undoable`).

**ProjectTrustProofs.** Under `TrustAssumption` (which says, among others, that a
process is a session or a terminal, not both). `TrustInvariant` says of each
process when its cache is the file's: while its stamp is (`Fresh`), between its
own write and the stamp on it (`Stamping`), between its look at the file and the
answer it goes on to give (`Answering`), and, while it saves, for all directories
but the one it answers about (`Saving`); and of each policy that, while it trusts
and nobody wrote behind it, it has every rule of its file (`Complete`), and that
only a trusting policy is being granted more (`Granting`). `DecisionsSeen`
(`DecisionsAreSeen`) is `Fresh` of idle processes; `FilesAreKept`
(`CalmFilesAreKept`) follows from `Saving` and `Complete` at the step that writes.
`NothingRunsUnasked` (`CalmNothingRunsUnasked`) has two more invariants to itself,
since consent is given long before a rule is used, and often in another process.
`AnswersInvariant` follows the answers: what the registry trusts the user trusted
(`Recorded`), an answer for this run is the user's until a save makes it everyone's
(`OwnAnswers`), an `initialize` goes by the file unless it has such an answer
(`Looking`), a save carries trust only if that is the answer (`Carrying`), and a
click that trusts the project has done so by the time the policy is told
(`Adopting`). `RulesInvariant` follows the rules: each one in a file or in a policy
was clicked for or shipped, and a trusting policy has its user's consent (`Earned`,
`FilesEarned`), and what a click wants remembered was clicked for in the directory of
the very policy that will be granted it (`Aimed`).

**SessionGuardProofs.** Under `GuardAssumption` and `ShellAssumption`.
`GuardsFollowSettings` speaks only of moments when everything is answered, so
`GuardInvariant` has to say where a setting is in between (`OnItsWay`): only the
dispatch thread changes one and it builds afterwards, so its draft has the settings;
with that thread idle the agent has them, and so has the draft of a loader that is
building. `GuardsFollow` is then a matter of paths: the fences of an agent built from
the settings allow and deny what the property lists, for any tree of paths and links.
Of commands it speaks only where the code boxes them with a read deny: on Linux and
macOS, outside yolo, not escalated (`ShellFollowsSettings`). `RevealsAreAsked`
(`OnlyUnlistedIsRevealed`): a step by step look at what shortens the list, no matter
which requests and builds are under way. `KillsAreRight` (`CalmKillsAreRight`) needs
to know where a cancel finds a command at every moment: `KillsInvariant` says that,
while no pid came back early, commands have pids of their own (`Apart`); a command
whose turn is running belongs to that turn's tool, has its epoch until it is
registered and is in its registry while it is waited for (`Current`, `Reached`); one
whose turn has ended before it was registered has a stale epoch, and one that was
registered is killed or about to be; and whoever is killed or about to be has timed
out or outlived its turn (`Deserved`). `LowIsGranted` (`CalmLowIsGranted`) follows
from `LowInvariant`, which keeps the folders of the running turn's agent and of every
command granted as well as those already labelled, for those are the ones a label is
taken from. `ProxyIsTheAgents` (`CalmProxyIsTheAgents`): `ProxyInvariant` follows a
build through the creation, start and announcement of its proxy (`Builds`), while
threads build one at a time (`Alone`), no port is open but the builder's (`Ports`,
`Open`), the agent is served unless a build is due (`AgentIsServed`), and a subagent's
builder shares the proxy and starts none (`ChildShares`).

**WorktreesProofs.** Under `WorktreeAssumption`. `WorktreeInvariant` is `TypeOK`
(`TypeCorrect`) with `Named` (a create that is past its search for a slug has a branch
to make), `Clean` (from the moment a create has made sure, git ignores the container)
and `Owned` (a removal for a session is no create, and past its last look at the rows
the tree is its own, but for late arrivals). `MainClean` (`MainStaysClean`) needs
`Clean` of every command under way, since trees appear steps after the line is
written; `RemovalsTake` (`RemovalsTakeNoMore`) needs `Owned`. `AnswersTrue`
(`AnswersAreTrue`) needs `AnswerInvariant`: a tree's number is its own and was given
out (`Numbered`), and what a removal listed is still at the slug it was asked for,
without a directory when the entry is about to be pruned, or nowhere; once pruned or
removed it is nowhere, or a remnant (`Remnant`: locked, without a directory) (`Told`).
No calm environment is needed, only that the user does not switch a tree's branch
between listing and removal for the clause about that branch.

Only model-checked: all liveness (`NoCallWaits`, `CalmOpenEndsBound`,
`CalmTurnsAreServed`, `TurnEnds`, `NoThreadWaits`, `FlowsAndLogoutsEnd`,
`EditsReturn`, `CommandsReturn`), which is out of the prover's reach. Every other
property of a passing run, invariant or action property or refinement, is stated
by a theorem.

## 5. Where the code differs from what it says

One disagreement has a run of its own; the quotation is in `PROJECT.json`
("findings"). `scheduler_leak`: a turn is stopped while a call is queued. If a
running call ends before the queued one's task resumes, the pump grants the slot
to the cancelled future, `set_result` raises, and the slot is never returned,
against `task.py:360-361`.

Observed while modelling. These behaviours are in the models; the properties
hold elsewhere and except them by name or by environment.

Session log and turns:

- a failed write is neither retried by the end-of-turn flush nor left out of
  `persisted_seq` (`session_log_store.py:507`);
- a crash inside a rewrite leaves the session file empty
  (`session_log_store.py:183`);
- a text with U+2028, U+2029 or U+0085 makes its session unloadable
  (`session_log_store.py:235-245`);
- a message sent over a running turn starts the next one while the old one
  unwinds, since the cancellation is only scheduled (`jsonrpc_server.py:1919`).
  Their events interleave, the old turn's calls are closed by nobody or by the
  other, and a history that no longer matches raises;
- an answer that arrives after the card is shown and before its waiter is
  registered is never noticed (`jsonrpc_server.py:371` against 389-397);
- undo truncates and reloads while a stopped turn's thread may still append
  (`jsonrpc_server.py:1894-1899`).

Agent loop and checkpoints:

- the interruption marker reaches the model a turn late. In that turn the log
  has it and the request has not, so positions differ by one, and a compaction
  with an injection before the prompt replaces the wrong region (`agent.py:581`);
- the audit's verdict outlives the reply it was about: after a Stop-hook
  retry an honest reply still ends the turn as unbacked (`agent.py:906`, 1405);
- a stopped turn takes no post-turn snapshot, so undoing its message leaves what
  it wrote (`jsonrpc_server.py:1457`);
- `git add -- <paths>` refuses all paths if it does not know one (a file the
  session deleted); `restore` goes on without the snapshot that was to keep the
  user's edits recoverable (`checkpoints.py:487`); if the second scoped snapshot
  fails, a rewind cannot be reversed (`checkpoints.py:758-759`);
- another session's edit that `git add -A` picked up during a turn is rewound
  without a conflict, as is a deleted file that someone re-created untracked;
  `ForeignWorkIsReported` names both exceptions, and a third: a removal by somebody
  else of a file the last commit does not have is not reported;
- the size check reads the work-tree after `git add`, so a file that shrinks in
  between is committed large;
- restoring to a checkpoint older than the shallow boundary reverts every file of
  the boundary's tree or, once gc has run, does nothing.

MCP servers and credentials:

- a reload's close path removes the registry entry, and the load's timeout
  handler shuts down the client, *of that name*, whichever client it is by then;
  overlapping reloads of a server lose one of the two clients;
- a client whose process is spawned after its shutdown stays, although
  `builder.py:851-853` says a closed builder leaves none;
- the check of the generation and the swap of the agent are two steps
  (`jsonrpc_server.py:1161`); a load overlapped by a reload, and an authorization
  that ends after an initialize, leave the agent with wrappers of dead clients
  (against the docstring at `mcp.py:835-837`);
- `reload_client` compares the tools with those it noted before it started its own
  client (`mcp.py:886`, 902-908). While a server that will not connect is being
  reloaded, another is authorized, gets into the agent and is logged out: both
  reloads that follow find the tools as they noted them, and the agent keeps the
  wrappers of a client that was shut down;
- a cancel between a flow's registration and its binding is lost, although
  "cancelled" is answered; a redirect that comes after a cancel still counts;
- with a rotating refresh token, the second of two forced refreshes is rejected
  and deletes the new credential. A 4xx to the refresh of a credential that is still
  good, 429 and 408 included, deletes that one (`mcp_oauth.py:782`, `mcp.py:534-541`);
  `CalmCredentialsFollowTheUser` excepts it by name (`refused`);
- `put` and `delete` rewrite the whole file under a lock of one store object, so
  a concurrent save can bring a logged-out server's credential back (against the
  comment at `jsonrpc_server.py:1649-1651`);
- the shutdown of an HTTP client waits for its lock, up to the call timeout.

Language servers:

- the starting gate is looked at and then taken: two first calls may both start
  a server and one of them is lost (`lsp.py:986`);
- `_send` looks at `_broken` and then registers; a caller that registers after
  the pump has woken everybody waits for ever (`lsp.py:559`, docstring 553-557);
- two synchronisations at once may send the older text last and record the newer
  version (`lsp.py:667`); a failed notification is recorded as sent;
- a start that ends after the shutdown leaves a server until the process exits;
- a frame that does not parse breaks the client but leaves its process and its
  registration.

Trust and permissions:

- `trust.json` is truncated and then written: a reader in between sees no answers,
  and its next save loses everybody's (`trust.py:213`); two sessions' saves can
  undo each other's denials;
- the stamp taken after one's own write can cover another process's write, which
  is then not seen (`trust.py:147`);
- a failed probe for the main worktree is remembered for the life of the process;
- an adopter goes by the status of its last initialize (`jsonrpc_server.py:1957`),
  and a card that outlived an initialize adopts the *new* project, against
  1948-1950;
- a `permissions.json` that comes with a repository may list a dangerous MCP tool,
  which a trusting session then approves by itself; `permissions.py:31-33` says
  it never does;
- a rule is reported granted although its save failed (docstring at
  `jsonrpc_server.py:175-176`).

Guards and commands:

- the epoch is read on the executor thread, so a command whose turn ends before
  that runs on to its timeout; the docstrings (`bash.py:372-378`,
  `_proc.py:241-253`) say the epoch closes this race;
- entries of live processes are dropped by pid after the child is reaped; if the pid
  has come back, the drop removes another command's entry, and `cancel_all` may
  strike a process that is not its own;
- `permissions/update` changes the policy without a build; the fences follow at
  the next one;
- a load, an adoption or an authorization that read the settings before a request
  changed them can swap its older agent in after the request's
  (`jsonrpc_server.py:1168`); two overlapping builds can both start a proxy;
- `ssrf/set` does not build: the proxy keeps the old allow list until the next;
- a subagent built after the network settings changed stops its parent's proxy, or
  opens one of its own that nobody closes (`builder.py:415`);
- on Windows a running turn's command labels a folder Low again after its grant was
  revoked, and nobody restores it (`jsonrpc_server.py:1871`, docstring 1855-1858);
- the hidden paths bind a command only in the sandboxes of Linux and macOS: on
  Windows the shell reads them (`_sandbox.py:1315-1317`, `read_denies.py:47-51` say
  so), and in yolo or after an approved escalation a command runs bare;
- a torn `forbid-read.json` loads as empty, and a save that fails is silent.

Worktrees:

- the branch `remove` deletes is the one an earlier listing gave; the user may have
  switched the tree since (`worktree.py:373`);
- a `worktree add` that runs into its limit leaves its branch, and perhaps a tree,
  behind an answer of failure, as does a create that loses the race for a path;
- git has locked the entry of such a tree ("initializing"). `git worktree remove`
  refuses it even with `--force`; and if its directory is deleted, `git worktree
  prune` passes over it and exits 0, so `remove` answers `ok` and `pruned` while git
  still lists the tree (`worktree.py:339-349`). `AnswersAreTrue` excepts this entry
  by name (`Remnant`);
- a `branch -D` that runs into its limit makes `remove` report a failure although
  the tree is gone; the desktop's retry then finds nothing and keeps the row;
- a slug whose entry is registered while its directory is missing counts as free,
  and the add then fails;
- the desktop's second attempt, 1.5 s later, does not look at the rows again
  (`ipc-handlers.ts:154`), nor does anybody while the command runs, though the
  comment calls the look the last statement before the delete; if the slug has been
  made anew meanwhile, the new tree is taken;
- a session that is moved away keeps its engine in the old tree, which the
  guard does not see.

## 6. What is not modelled

Abstractions inside the modules:

- threads are sequentially consistent, as the GIL makes single dictionary and
  attribute operations;
- store, engine, agent loop: byte lengths and token counts (cuts are free instead);
  `callbacks=None`, with which the loop asks nobody; replies of kind tool_use
  with no calls; a child's own log; the list of oversized files shown to the user;
  the wording of what hooks, the audit and the loop guard say (all are notes);
- checkpoints: eviction of other projects' repositories, deletion with the last
  session, the one-time purge of `.worktrees`, git being absent;
- MCP: the frames on the wire, PKCE and metadata discovery beyond their failing,
  what a tool call returns. In `McpAuth` a reload is the shutdown of the old
  client and the two requests of the new one's handshake; the swaps are in
  `McpServers`;
- language servers: `lsp.json`, what answers hold, more than one language;
- trust: the probe for findings and the prompt; a crash in the middle of a write;
- guards: the switch `CLUXMATE_BASH_SANDBOX`, which makes every command run bare; only
  `forbid-read.json` may tear; an initialize does not run beside the loader's rebuild (`McpServers` has
  that race); a turn waits for one command at a time; a subagent's own bash
  registry; the proxy's connections; the token and pipes of the Windows backend;
  the sandboxes and the egress of MCP and language servers, which are fixed when
  they start;
- worktrees: trees the user locks, a group's bulk removal, `info`, arguments that name no
  tree of the container, a git child that outlives a killed command.

Components without a module, with their reasons in `PROJECT.json`:

- pure functions of their input (hooks' matching, subagent types, skills, prompt
  templates, providers' wire formats, searching, ranking): no state and no order
  of events for a model to vary;
- one call, one file (file and memory tools, settings of the engine that answer
  from one field): what surrounds them, the fences, the diagnostics and the
  snapshots, is modelled;
- atomic by their substrate (session metadata in SQLite);
- views (terminal interface, desktop renderer) and the per-session bridge of the
  desktop's main process. What the order of their requests can do is the free
  environment of the engine's modules.
