---------------------------- MODULE SessionStore -----------------------------
(***************************************************************************)
(* One session's JSONL file, the in-memory log of the process that has it  *)
(* open, the persister between the two, and the repairing load             *)
(* (src/cluxmate/core/session_log_store.py, session_log.py), as the two    *)
(* front ends drive them (jsonrpc_server.py, tui/controller.py).           *)
(*                                                                         *)
(* An append writes one line and syncs it.  Everything that rewrites the   *)
(* file (undo, the self-heal, cutting a torn tail) opens it with mode "w", *)
(* which empties it, and writes the lines afterwards: two steps.  A load   *)
(* is a read, a repair of the file, an append of closers and the binding   *)
(* of a new log: each a step, so that the process may die between any two, *)
(* and so that a turn on another thread may append in between.             *)
(***************************************************************************)
EXTENDS SessionEvents

CONSTANT Environments   \* the environments a session may live in

\* What may happen to a session beside its own turns.  Two fields are bounds.
Environment ==
  [polls : BOOLEAN,        \* the TUI's status line loads the session mid-turn
   overlap : BOOLEAN,      \* undo may be asked for while a stopped turn unwinds
   rewriteCrash : BOOLEAN, \* the process may die between "w" and the lines
   ioFaults : BOOLEAN,     \* a write may fail, wholly or halfway
   oddPayloads : BOOLEAN,  \* a payload may hold U+2028, U+2029 or U+0085
   maxEvents : Nat,        \* bound: no new work in a log of this length
   maxCrashes : Nat]       \* bound: the process dies at most this often

ASSUME StoreAssumption == Environments \subseteq Environment

VARIABLES
  env,       \* the environment; it never changes
  file,      \* the file: its header line, its event lines, a torn last line?
  log,       \* the SessionLog the agent appends to
  live,      \* a process has the session open, log and persister bound
  watermark, \* the persister's _next_seq
  turn,      \* the agent's turn: open, calls in flight, stopped by the user,
             \* own: the log it started on is still the bound one
  op,        \* the load or undo under way: its step, events, lines to write
  crashes

vars == <<env, file, log, live, watermark, turn, op, crashes>>

NoFile == [header |-> "absent", lines |-> <<>>, torn |-> FALSE]
Emptied == [header |-> "lost", lines |-> <<>>, torn |-> FALSE]
FileOf(lines) == [header |-> "whole", lines |-> lines, torn |-> FALSE]

NoTurn == [open |-> FALSE, calls |-> {}, stopped |-> FALSE, own |-> TRUE]
NoOp == [pc |-> "idle", events |-> <<>>, fill |-> <<>>, then |-> "idle"]
------------------------------------------------------------------------------
(***************************************************************************)
(* Reading.                                                                *)
(***************************************************************************)
\* json.dumps(ensure_ascii=False) leaves U+2028 as it is and str.splitlines
\* splits there, so neither half parses.
Parses(e) == e.kind \notin {"bad", "odd"}

Readable(f) == f.header = "whole" /\ \A i \in DOMAIN f.lines : Parses(f.lines[i])

\* _drop_premature_interrupted_closers: a synthetic turn end that something
\* other than a turn start follows, and the synthetic results just before it.
Premature(events) ==
  {i \in DOMAIN events : /\ events[i].synthetic /\ events[i].kind = "end"
                         /\ i < Len(events)
                         /\ events[i + 1].kind # "start"}

\* The block of closers that ends at i: position k is in it.
InBlock(events, k, i) ==
  /\ k <= i
  /\ \A m \in k .. i - 1 : events[m].synthetic /\ events[m].kind = "result"

Dropped(events) ==
  {k \in DOMAIN events : \E i \in Premature(events) : InBlock(events, k, i)}

Healed(events) == Chosen(events, DOMAIN events \ Dropped(events))

\* What load returns for a readable file.
Loaded(events) ==
  LET healed == Healed(events) IN healed \o Closers(healed)
------------------------------------------------------------------------------
Init ==
  /\ env \in Environments
  /\ file = NoFile
  /\ log = <<>>
  /\ live = FALSE
  /\ watermark = 0
  /\ turn = NoTurn
  /\ op = NoOp
  /\ crashes = 0

\* _load_or_create_log finds no file; SessionLogStore.create.
Create ==
  /\ ~live /\ op.pc = "idle"
  /\ file.header = "absent"
  /\ file' = FileOf(<<>>)
  /\ log' = <<>>
  /\ live' = TRUE
  /\ watermark' = 0
  /\ turn' = NoTurn
  /\ UNCHANGED <<env, op, crashes>>
------------------------------------------------------------------------------
(***************************************************************************)
(* A turn appends.  SessionLog.append numbers the event and notifies the   *)
(* persister, which writes it before append returns.                       *)
(***************************************************************************)
\* A line written after a torn one is glued to it.
WithLine(f, e) ==
  IF f.torn
  THEN [f EXCEPT !.lines = Append(@, EventOf(e.seq, "bad", NoCall)), !.torn = FALSE]
  ELSE [f EXCEPT !.lines = Append(@, e)]

WriteOutcomes(f, e) ==
  {WithLine(f, e)} \cup (IF env.ioFaults THEN {f, [f EXCEPT !.torn = TRUE]} ELSE {})

\* _on_event: the watermark moves on whether or not the write succeeded.
CommitUnwritten(e) ==
  /\ log' = Append(log, e)
  /\ watermark' = e.seq + 1
  /\ file' = file

Commit(e) ==
  /\ log' = Append(log, e)
  /\ watermark' = e.seq + 1
  /\ IF e.seq = watermark THEN file' \in WriteOutcomes(file, e) ELSE file' = file

Next_seq == Len(log)

StartTurn ==
  /\ live /\ ~turn.open /\ op.pc = "idle"
  /\ Next_seq < env.maxEvents
  /\ Commit(EventOf(Next_seq, "start", NoCall))
  /\ turn' = [NoTurn EXCEPT !.open = TRUE]
  /\ UNCHANGED <<env, live, op, crashes>>

LogNote ==
  /\ live /\ turn.open
  /\ Next_seq < env.maxEvents
  /\ \E kind \in {"note"} \cup (IF env.oddPayloads THEN {"odd"} ELSE {}) :
       Commit(EventOf(Next_seq, kind, NoCall))
  /\ UNCHANGED <<env, live, turn, op, crashes>>

LogCall(c) ==
  /\ live /\ turn.open
  /\ Next_seq < env.maxEvents
  /\ \A i \in DOMAIN log : log[i].call # c
  /\ Commit(EventOf(Next_seq, "call", c))
  /\ turn' = [turn EXCEPT !.calls = @ \cup {c}]
  /\ UNCHANGED <<env, live, op, crashes>>

LogResult(c) ==
  /\ live /\ c \in turn.calls
  /\ Commit(EventOf(Next_seq, "result", c))
  /\ turn' = [turn EXCEPT !.calls = @ \ {c}]
  /\ UNCHANGED <<env, live, op, crashes>>

\* The turn's finally, after _close_orphaned_tools, and the flush that
\* follows it.  The turn end goes to the log the turn started on.
EndTurn ==
  /\ live /\ turn.open
  /\ turn.calls = {}
  /\ \/ /\ turn.own
        /\ Commit(EventOf(Next_seq, "end", NoCall))
     \/ /\ ~turn.own
        /\ UNCHANGED <<file, log, watermark>>
  /\ turn' = NoTurn
  /\ UNCHANGED <<env, live, op, crashes>>

\* The Stop button: the turn's task is cancelled and has yet to unwind.
Stop ==
  /\ live /\ turn.open /\ ~turn.stopped
  /\ turn' = [turn EXCEPT !.stopped = TRUE]
  /\ UNCHANGED <<env, file, log, live, watermark, op, crashes>>
------------------------------------------------------------------------------
(***************************************************************************)
(* load, in a process that opens the session, and after an undo.           *)
(***************************************************************************)
Open ==
  /\ ~live /\ op.pc = "idle"
  /\ file.header # "absent"
  /\ op' = [NoOp EXCEPT !.pc = "read"]
  /\ UNCHANGED <<env, file, log, live, watermark, turn, crashes>>

LoadReadRejectsTorn ==
  /\ op.pc = "read"
  /\ op' = IF Readable(file) /\ ~file.torn
           THEN [NoOp EXCEPT !.pc = "close", !.events = Healed(file.lines)]
           ELSE NoOp
  /\ UNCHANGED <<env, file, log, live, watermark, turn, crashes>>

\* _read and the self-heal; a line that does not parse ends the load.
LoadRead ==
  /\ op.pc = "read"
  /\ \/ /\ Readable(file)
        /\ op' = [NoOp EXCEPT
                    !.pc = IF Dropped(file.lines) # {} THEN "rewrite"
                           ELSE IF file.torn THEN "cut" ELSE "close",
                    !.events = Healed(file.lines)]
     \/ /\ ~Readable(file)
        /\ op' = NoOp
  /\ UNCHANGED <<env, file, log, live, watermark, turn, crashes>>

\* _rewrite and _truncate_torn_tail: open(path, "w").
OpenForWriting ==
  /\ op.pc \in {"rewrite", "cut"}
  /\ op' = [op EXCEPT !.pc = "fill", !.then = "close",
                      !.fill = IF op.pc = "rewrite" THEN op.events ELSE file.lines]
  /\ file' = Emptied
  /\ UNCHANGED <<env, log, live, watermark, turn, crashes>>

\* The lines of the file that has been emptied.  A line appended meanwhile
\* is overwritten, or what sticks out of it is left behind.
Fill ==
  /\ op.pc = "fill"
  /\ file' \in {FileOf(op.fill)} \cup
               {FileOf(Append(op.fill, EventOf(0, "bad", NoCall))) : e \in Range(file.lines)}
  /\ op' = [op EXCEPT !.pc = op.then, !.fill = <<>>, !.then = "idle"]
  /\ UNCHANGED <<env, log, live, watermark, turn, crashes>>

\* append, its check: the file must end where the closers begin.
CheckClosers ==
  /\ op.pc = "close"
  /\ LET closers == Closers(op.events)
         stored == IF file.lines = <<>> THEN 0 ELSE Last(file.lines).seq + 1
     IN  \/ /\ closers = <<>>
            /\ op' = [op EXCEPT !.pc = "bind"]
         \/ /\ closers # <<>>
            /\ Readable(file) /\ ~file.torn /\ Head(closers).seq = stored
            /\ op' = [op EXCEPT !.pc = "append"]
         \/ /\ closers # <<>>
            /\ ~(Readable(file) /\ ~file.torn /\ Head(closers).seq = stored)
            /\ op' = NoOp
  /\ UNCHANGED <<env, file, log, live, watermark, turn, crashes>>

AppendClosers ==
  /\ op.pc = "append"
  /\ file' = [file EXCEPT !.lines = @ \o Closers(op.events)]
  /\ op' = [op EXCEPT !.pc = "bind", !.events = @ \o Closers(op.events)]
  /\ UNCHANGED <<env, log, live, watermark, turn, crashes>>

\* _adopt takes an event that is one and that carries the next number.
Adoptable(events) == events \in Seq(Event) /\ Contiguous(events)

BindUnchecked ==
  /\ op.pc = "bind"
  /\ op' = NoOp
  /\ log' = op.events
  /\ live' = TRUE
  /\ watermark' = Len(op.events)
  /\ turn' = IF live THEN [turn EXCEPT !.own = FALSE] ELSE NoTurn
  /\ UNCHANGED <<env, file, crashes>>

\* from_events, _bind_persister, agent.session_log = log.
Bind ==
  /\ op.pc = "bind"
  /\ op' = NoOp
  /\ \/ /\ Adoptable(op.events)
        /\ log' = op.events
        /\ live' = TRUE
        /\ watermark' = Len(op.events)
        /\ turn' = IF live THEN [turn EXCEPT !.own = FALSE] ELSE NoTurn
     \/ /\ ~Adoptable(op.events)
        /\ UNCHANGED <<log, live, watermark, turn>>
  /\ UNCHANGED <<env, file, crashes>>

\* _update_status: a load whose result is only displayed, between two steps
\* of a turn on the same event loop.
Poll ==
  /\ env.polls
  /\ live /\ op.pc = "idle"
  /\ Readable(file)
  /\ file' = FileOf(Loaded(file.lines))
  /\ UNCHANGED <<env, log, live, watermark, turn, op, crashes>>
------------------------------------------------------------------------------
(***************************************************************************)
(* Undo: truncate to the seq of a turn's start, then load.                 *)
(***************************************************************************)
KeptTooLong(to) ==
  Chosen(file.lines, {i \in DOMAIN file.lines : Parses(file.lines[i]) /\ file.lines[i].seq <= to})

Kept(to) ==
  Chosen(file.lines, {i \in DOMAIN file.lines : Parses(file.lines[i]) /\ file.lines[i].seq < to})

Undo ==
  /\ live /\ op.pc = "idle"
  /\ turn.open => env.overlap /\ turn.stopped
  /\ \E i \in DOMAIN log :
       /\ log[i].kind = "start"
       /\ op' = [NoOp EXCEPT !.pc = "truncate", !.fill = Kept(log[i].seq)]
  /\ UNCHANGED <<env, file, log, live, watermark, turn, crashes>>

TruncateOpen ==
  /\ op.pc = "truncate"
  /\ op' = [op EXCEPT !.pc = "fill", !.then = "read"]
  /\ file' = Emptied
  /\ UNCHANGED <<env, log, live, watermark, turn, crashes>>
------------------------------------------------------------------------------
(***************************************************************************)
(* The process dies.                                                       *)
(***************************************************************************)
Die ==
  /\ env' = env
  /\ crashes < env.maxCrashes
  /\ crashes' = crashes + 1
  /\ live' = FALSE
  /\ log' = <<>>
  /\ watermark' = 0
  /\ turn' = NoTurn
  /\ op' = NoOp

Kill ==
  /\ live \/ op.pc # "idle"
  /\ op.pc # "fill"
  /\ Die
  /\ UNCHANGED file

\* In the middle of a line: of the header, of an event, of the closers.
KillInCreate ==
  /\ ~live /\ op.pc = "idle"
  /\ file.header = "absent"
  /\ Die
  /\ file' = [NoFile EXCEPT !.header = "torn", !.torn = TRUE]

KillInAppend ==
  /\ live /\ turn.open /\ op.pc = "idle"
  /\ Die
  /\ file' = [file EXCEPT !.torn = TRUE]

KillInClosers ==
  /\ op.pc = "append"
  /\ Die
  /\ \E n \in 0 .. Len(Closers(op.events)) - 1 :
       file' = [file EXCEPT !.lines = @ \o SubSeq(Closers(op.events), 1, n), !.torn = TRUE]

KillInRewrite ==
  /\ env.rewriteCrash
  /\ op.pc = "fill"
  /\ Die
  /\ \/ file' = Emptied
     \/ \E n \in 0 .. Len(op.fill) :
          file' = [FileOf(SubSeq(op.fill, 1, n)) EXCEPT !.torn = TRUE]

\* Nothing left to do: every bound is reached, or the header is torn.
Quiet ==
  /\ op.pc = "idle"
  /\ \/ live /\ ~turn.open
     \/ ~live /\ file.header \in {"torn", "lost"}
  /\ UNCHANGED vars
------------------------------------------------------------------------------
LoadStep == LoadRead \/ OpenForWriting \/ Fill \/ CheckClosers \/ AppendClosers \/ Bind

TurnStep ==
  \/ StartTurn \/ LogNote \/ EndTurn \/ Stop
  \/ \E c \in Call : LogCall(c) \/ LogResult(c)

Crash == Kill \/ KillInCreate \/ KillInAppend \/ KillInClosers \/ KillInRewrite

Next ==
  \/ Create \/ Open \/ LoadStep \/ Poll \/ Undo \/ TruncateOpen
  \/ TurnStep \/ Crash \/ Quiet

Spec == Init /\ [][Next]_vars

LiveSpec == Spec /\ WF_vars(LoadStep)
------------------------------------------------------------------------------
Steps == {"idle", "read", "rewrite", "cut", "fill", "close", "append", "bind", "truncate"}

TypeOK ==
  /\ env \in Environment
  /\ file \in [header : {"absent", "torn", "whole", "lost"},
               lines : Seq(Event), torn : BOOLEAN]
  /\ log \in Seq(Event)
  /\ live \in BOOLEAN
  /\ watermark \in Nat
  /\ turn \in [open : BOOLEAN, calls : SUBSET Call, stopped : BOOLEAN, own : BOOLEAN]
  /\ op \in [pc : Steps, events : Seq(Event), fill : Seq(Event),
             then : {"idle", "read", "close"}]
  /\ crashes \in 0 .. env.maxCrashes

\* Writes succeed, a rewrite is not interrupted, texts survive splitlines and
\* undo waits for the turn.  The process still dies, and polls still repair.
Calm == ~(env.overlap \/ env.rewriteCrash \/ env.ioFaults \/ env.oddPayloads)

\* Every committed event is on disk: whatever is in the log the agent works
\* with, a load begun now would return, closers that only look finished
\* included (IncrementalPersister; the self-heal of premature closers).
CalmCommitsSurvive ==
  Calm /\ live /\ op.pc = "idle" =>
    /\ Readable(file)
    /\ IsPrefix(log, Loaded(file.lines))
    /\ Len(Loaded(file.lines)) <= Len(log) + Len(Closers(log))

\* A session whose header was written opens again whatever happened to the
\* process in between: its lines parse and, healed, are numbered 0, 1, 2, ...
AlwaysLoadable ==
  file.header = "whole" /\ op.pc = "idle" =>
    Readable(file) /\ Contiguous(Loaded(file.lines))

\* Under every fault the log in memory is numbered as it is indexed, and the
\* watermark is its length: flush reads log.events[_next_seq], and a file with
\* a gap is refused rather than bound.
LogIsNumbered == Contiguous(log) /\ watermark = Len(log)

\* What load hands to the provider is a transcript: every call is answered
\* once and within its turn, every answer has its call, every turn is closed.
Answers(events, i) ==
  {j \in i + 1 .. Len(events) : events[j].kind = "result" /\ events[j].call = events[i].call}

LoadedIsTranscript ==
  op.pc = "bind" =>
    LET events == op.events IN
    /\ ~TurnOpen(events)
    /\ \A i \in DOMAIN events : events[i].kind = "call" =>
         \E j \in Answers(events, i) :
           /\ Answers(events, i) = {j}
           /\ \A k \in i .. j : events[k].kind # "end"
    /\ \A j \in DOMAIN events : events[j].kind = "result" =>
         \E i \in 1 .. j - 1 : events[i].kind = "call" /\ events[i].call = events[j].call

\* Loading twice is loading once: the repair leaves nothing to repair.
RepairIsStable ==
  Readable(file) /\ op.pc = "idle" =>
    Loaded(Loaded(file.lines)) = Loaded(file.lines)

\* A session opens again whatever happened before: its file can be read, what
\* is read is a transcript, and what was repaired needs no repair (load, as
\* both front ends rely on it).
CalmOpensAsTranscript == Calm => AlwaysLoadable /\ LoadedIsTranscript /\ RepairIsStable

\* Once the process stops dying, a load that has begun ends with the session
\* open (load raises for nothing that a crash can leave behind).
CalmOpenEndsBound ==
  (Calm /\ op.pc = "read" /\ crashes = env.maxCrashes /\ file.header = "whole") ~> live

\* The session as DurableLog describes it; it promises nothing of a session
\* whose environment is not calm.
Recorded ==
  IF ~Calm THEN <<>>
  ELSE IF live THEN log
  ELSE IF op.pc = "fill" THEN Healed(op.fill)
  ELSE Healed(file.lines)

Durable == INSTANCE DurableLog WITH history <- Recorded

\* A calm session is one gapless history that grows by commits, loses whole
\* turns to undo, and gains only closers when the process dies.
CalmLogIsDurable == Durable!Spec
==============================================================================
