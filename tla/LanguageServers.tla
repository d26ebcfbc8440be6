--------------------------- MODULE LanguageServers ---------------------------
(***************************************************************************)
(* The language servers of a session.  One LSPManager serves the agent and  *)
(* its subagents, whose tool calls run on executor threads: an edit asks for *)
(* the errors it left in the file it has just written (auto_diagnostics),    *)
(* the lsp tool asks anything.  The first call starts the server, behind a   *)
(* starting gate; calls then bring the server's copy of the file up to date  *)
(* and wait for what it says.                                                *)
(*                                                                           *)
(* A client has two threads besides its callers: the writer does the         *)
(* blocking writes, the pump reads all frames and wakes the callers.  The    *)
(* server, a separate process, may exit, garble a frame, stop reading, or    *)
(* ask something of its own, and need never answer.                          *)
(*                                                                           *)
(* One language and one file; frames are named by what they carry.           *)
(***************************************************************************)
EXTENDS Naturals, Sequences, FiniteSets

CONSTANTS
  Callers,     \* threads that may be in the manager at once
  MaxServers,  \* bound on the processes started
  MaxEdits,    \* bound on the versions of the file
  MaxStimuli,  \* bound on calls, shutdowns and what servers do on their own
  Retries      \* how often "content modified" is tried again (5 in the code)

(* A thread is neither the pump nor nobody.                                 *)
ASSUME CallersAreThreads == {"pump", "none"} \intersect Callers = {}

VARIABLES
  disk,        \* the version of the file on disk
  installed,   \* shutil.which finds the server's command
  installing,  \* _install_lock
  server,      \* the clients made so far, each with its process
  registered,  \* LSPManager._clients: a client, or 0
  gate,        \* LSPManager._starting: the call that starts the server
  call,        \* where each thread is
  manager,     \* LSPManager.shutdown: its state and the client it is at
  left,        \* what remains of MaxStimuli
  races        \* ghost: which races of the code have been lost

lspVars == <<disk, installed, installing, server, registered, gate, call, manager,
             left, races>>

NoCall == [pc |-> "idle", op |-> "-", on |-> 0, behind |-> "-", frame |-> "-",
           seen |-> 0, text |-> 0, tries |-> 0, got |-> "-", late |-> FALSE]

NewServer == [life |-> "up", stalled |-> FALSE, pump |-> "reads", queue |-> <<>>,
              broken |-> FALSE, shut |-> FALSE, waiters |-> {}, asked |-> {},
              text |-> 0, synced |-> 0]

(* A client whose threads have ended and whose process is killed.           *)
ShutServer == [NewServer EXCEPT !.life = "dead", !.pump = "over", !.broken = TRUE, !.shut = TRUE]

Ids == 1..Len(server)

LspInit ==
  /\ disk = 1
  /\ installed \in BOOLEAN
  /\ installing = "none"
  /\ server = <<>>
  /\ registered = 0
  /\ gate = "none"
  /\ call = [c \in Callers |-> NoCall]
  /\ manager = [pc |-> "open", at |-> 0]
  /\ left = MaxStimuli
  /\ races = {}

Spend == left > 0 /\ left' = left - 1

At(c, pc) == call[c].pc = pc
Goes(c, pc) == [call EXCEPT ![c].pc = pc]
Returns(c) == [call EXCEPT ![c] = NoCall]


(* The process ends, and with it what it knew.                              *)
Dead(s) == [s EXCEPT !.life = "dead", !.stalled = FALSE, !.asked = {}, !.text = 0]

(* The queue without who's frame, of which there is one at most.            *)
Without(q, who) ==
  LET at == CHOOSE i \in DOMAIN q : q[i] = who
  IN  IF \E i \in DOMAIN q : q[i] = who
        THEN [i \in 1..Len(q) - 1 |-> IF i < at THEN q[i] ELSE q[i + 1]]
        ELSE q

(* _mark_broken wakes every registered waiter, with an error.               *)
Broken(s) == [s EXCEPT !.broken = TRUE, !.waiters = {}, !.asked = {}]
Woken(k, calls) ==
  [c \in Callers |-> IF c \in server[k].waiters THEN [calls[c] EXCEPT !.got = "error"]
                                                ELSE calls[c]]

Starting(c) ==
  \/ call[c].pc \in {"takes", "spawns", "installs"}
  \/ call[c].frame \in {"initialize", "initialized"}

(* ensure_synced, from its stat to the record it leaves.                    *)
Syncing(c) == call[c].pc \in {"reads", "records"} \/ call[c].frame = "text"

-----------------------------------------------------------------------------
(* Calls and the starting gate *)

(* A write tool has written the file when it asks what errors that left.    *)
EditBegins(c) ==
  /\ At(c, "idle") /\ Spend
  /\ disk < MaxEdits /\ disk' = disk + 1
  /\ call' = [call EXCEPT ![c] = [NoCall EXCEPT !.pc = "looks", !.op = "edit"]]
  /\ UNCHANGED <<installed, installing, server, registered, gate, manager, races>>

(* The lsp tool: diagnostics, or any operation that sends a request.        *)
QueryBegins(c) ==
  /\ At(c, "idle") /\ Spend
  /\ \E op \in {"query", "diagnostics"} :
       call' = [call EXCEPT ![c] = [NoCall EXCEPT !.pc = "looks", !.op = op]]
  /\ UNCHANGED <<disk, installed, installing, server, registered, gate, manager, races>>

(* An edit never installs a server: it gives up on one that is missing.     *)
Startable(c) == registered # 0 \/ call[c].op # "edit" \/ installed

Looks(c) ==
  /\ At(c, "looks")
  /\ call' =
       IF ~Startable(c) THEN Returns(c)
       ELSE IF registered # 0 THEN [call EXCEPT ![c].pc = "stats", ![c].on = registered]
       ELSE IF gate # "none" THEN [call EXCEPT ![c].pc = "gated", ![c].behind = gate]
       ELSE Goes(c, "takes")
  /\ UNCHANGED <<disk, installed, installing, server, registered, gate, manager, left, races>>

(* No lock is held between the look at the gate and its taking.             *)
TakesGate(c) ==
  /\ At(c, "takes")
  /\ gate' = c
  /\ call' = Goes(c, "spawns")
  /\ races' = IF registered # 0 \/ gate # "none" THEN races \union {"start"} ELSE races
  /\ UNCHANGED <<disk, installed, installing, server, registered, manager, left>>

(* resolve's finally, in calls already updated: whoever waits for the start *)
(* that c made goes on, and whatever gate there is now is removed.          *)
Opened(c, calls) ==
  [d \in Callers |-> IF calls[d].pc = "gated" /\ calls[d].behind = c
                     THEN [calls[d] EXCEPT !.pc = "passes", !.behind = "-"] ELSE calls[d]]

StartFails(c, calls) ==
  /\ call' = Opened(c, [calls EXCEPT ![c] = NoCall])
  /\ gate' = "none"
  /\ UNCHANGED <<registered, races>>

StartSucceeds(c) ==
  /\ call' = Opened(c, [call EXCEPT ![c].pc = "stats", ![c].frame = "-"])
  /\ gate' = "none"
  /\ registered' = call[c].on
  /\ races' = IF manager.pc = "open" THEN races ELSE races \union {"closing"}

Passes(c) ==
  /\ At(c, "passes")
  /\ call' = IF registered = 0 THEN Returns(c)
             ELSE [call EXCEPT ![c].pc = "stats", ![c].on = registered]
  /\ UNCHANGED <<disk, installed, installing, server, registered, gate, manager, left, races>>

-----------------------------------------------------------------------------
(* _spawn, LSPClient.start, _run_install *)

Asks(c, k, what) == [call EXCEPT ![c].pc = "asks", ![c].on = k, ![c].frame = what]

(* Popen, or an OSError of it.                                              *)
Spawns(c) ==
  /\ At(c, "spawns") /\ installed
  /\ \/ /\ Len(server) < MaxServers
        /\ server' = Append(server, NewServer)
        /\ call' = Asks(c, Len(server) + 1, "initialize")
        /\ UNCHANGED <<gate, registered, races>>
     \/ StartFails(c, call) /\ UNCHANGED server
  /\ UNCHANGED <<disk, installed, installing, manager, left>>

(* Whether to install depends on lsp.json and on the mode at this moment.   *)
SpawnsNothing(c) ==
  /\ At(c, "spawns") /\ ~installed
  /\ \/ call' = Goes(c, "installs") /\ UNCHANGED <<gate, registered, races>>
     \/ StartFails(c, call)
  /\ UNCHANGED <<disk, installed, installing, server, manager, left>>

InstallStarts(c) ==
  /\ At(c, "installs") /\ installing = "none"
  /\ IF installed THEN call' = Goes(c, "spawns") /\ UNCHANGED installing
                  ELSE installing' = c /\ UNCHANGED call
  /\ UNCHANGED <<disk, installed, server, registered, gate, manager, left, races>>

(* The installer ends, or is killed when its time is up.                    *)
InstallEnds(c) ==
  /\ installing = c
  /\ installing' = "none"
  /\ \/ /\ installed' = TRUE
        /\ call' = Goes(c, "spawns")
        /\ UNCHANGED <<gate, registered, races>>
     \/ StartFails(c, call) /\ UNCHANGED installed
  /\ UNCHANGED <<disk, server, manager, left>>

StartLeavesItsProcess(c) == UNCHANGED server /\ StartFails(c, call)

(* Any exception in start kills the process and ends the threads.           *)
StartIsUndone(c) ==
  /\ server' = [server EXCEPT ![call[c].on] = ShutServer]
  /\ StartFails(c, call)

-----------------------------------------------------------------------------
(* _send: a request and its waiter *)

Refused(c) ==
  IF call[c].frame = "initialize" THEN StartIsUndone(c)
  ELSE call' = Returns(c) /\ UNCHANGED <<server, gate, registered, races>>

ChecksBroken(c) ==
  /\ At(c, "asks")
  /\ IF server[call[c].on].broken THEN Refused(c)
     ELSE call' = Goes(c, "registers") /\ UNCHANGED <<server, gate, registered, races>>
  /\ UNCHANGED <<disk, installed, installing, manager, left>>

(* The waiter is registered and the frame handed to the writer, which is    *)
(* too late if the client has broken since the check.                       *)
Registers(c) ==
  /\ At(c, "registers")
  /\ LET k == call[c].on
     IN  /\ server' = [server EXCEPT ![k].waiters = @ \union {c}, ![k].queue = Append(@, c)]
         /\ call' = [call EXCEPT ![c].pc = "writes", ![c].got = "-",
                                 ![c].late = server[k].broken]
  /\ UNCHANGED <<disk, installed, installing, registered, gate, manager, left, races>>

(* A caller woken when its frame is written, or later.  "modified" stands   *)
(* for any error response; as ContentModified a query tries it again.       *)
Answered(c) ==
  /\ At(c, "awaits") /\ call[c].got # "-"
  /\ LET k == call[c].on  got == call[c].got
     IN  CASE call[c].frame = "initialize" /\ got = "result" ->
                /\ call' = [call EXCEPT ![c].pc = "writes", ![c].frame = "initialized",
                                        ![c].got = "-", ![c].late = FALSE]
                /\ server' = [server EXCEPT ![k].queue = Append(@, c)]
                /\ UNCHANGED <<gate, registered, races>>
           [] call[c].frame = "query" /\ got = "modified" /\ call[c].tries < Retries ->
                /\ call' = [call EXCEPT ![c].pc = "asks", ![c].tries = @ + 1, ![c].got = "-"]
                /\ UNCHANGED <<server, gate, registered, races>>
           [] OTHER -> Refused(c)
  /\ UNCHANGED <<disk, installed, installing, manager, left>>

HandshakeHasNoDeadline(c) == FALSE

(* Only the handshake has a deadline.                                       *)
HandshakeTimesOut(c) ==
  /\ At(c, "awaits") /\ call[c].frame = "initialize" /\ call[c].got = "-"
  /\ StartIsUndone(c)
  /\ UNCHANGED <<disk, installed, installing, manager, left>>

-----------------------------------------------------------------------------
(* ensure_synced and what follows it *)

Follows(c, calls) ==
  call' = IF call[c].op = "query" THEN [calls EXCEPT ![c].pc = "asks", ![c].frame = "query"]
                                  ELSE [calls EXCEPT ![c].pc = "drains", ![c].frame = "-"]

(* The file's size and time are taken before its text is read.              *)
Stats(c) ==
  /\ At(c, "stats")
  /\ LET k == call[c].on
     IN  IF server[k].synced = disk THEN Follows(c, call) /\ UNCHANGED races
         ELSE /\ call' = [call EXCEPT ![c].pc = "reads", ![c].seen = disk]
              /\ races' = IF \E d \in Callers \ {c} : Syncing(d) /\ call[d].on = k
                          THEN races \union {"sync"} ELSE races
  /\ UNCHANGED <<disk, installed, installing, server, registered, gate, manager, left>>

(* didOpen or didChange, with the whole text.                               *)
Reads(c) ==
  /\ At(c, "reads")
  /\ LET k == call[c].on
     IN  /\ server' = [server EXCEPT ![k].queue = Append(@, c)]
         /\ call' = [call EXCEPT ![c].pc = "writes", ![c].frame = "text", ![c].text = disk]
  /\ UNCHANGED <<disk, installed, installing, registered, gate, manager, left, races>>

RecordsWhatIsThere(c) ==
  /\ At(c, "records")
  /\ server' = [server EXCEPT ![call[c].on].synced = disk]
  /\ Follows(c, [call EXCEPT ![c].seen = 0])
  /\ UNCHANGED <<disk, installed, installing, registered, gate, manager, left, races>>

(* The record is made whether or not the notification went out.             *)
Records(c) ==
  /\ At(c, "records")
  /\ server' = [server EXCEPT ![call[c].on].synced = call[c].seen]
  /\ Follows(c, [call EXCEPT ![c].seen = 0])
  /\ UNCHANGED <<disk, installed, installing, registered, gate, manager, left, races>>

(* drain_pending returns on a push newer than the text, or when its window  *)
(* ends; what diagnostics are cached is reported in either case.            *)
Drains(c) == At(c, "drains") /\ call' = Returns(c)

EditReports(c) ==
  /\ call[c].op = "edit" /\ Drains(c)
  /\ UNCHANGED <<disk, installed, installing, server, registered, gate, manager, left, races>>

DiagnosticsReport(c) ==
  /\ call[c].op = "diagnostics" /\ Drains(c)
  /\ UNCHANGED <<disk, installed, installing, server, registered, gate, manager, left, races>>

-----------------------------------------------------------------------------
(* The writer *)

(* A frame has been written.                                                *)
WriterWrites(k) ==
  /\ server[k].queue # <<>> /\ server[k].life = "up" /\ ~server[k].stalled
  /\ LET c == Head(server[k].queue)
         s == [server[k] EXCEPT !.queue = Tail(@)]
     IN  IF c = "pump"
         THEN /\ server' = [server EXCEPT ![k] = [s EXCEPT !.pump = "reads"]]
              /\ UNCHANGED <<call, gate, registered, races>>
         ELSE CASE call[c].frame \in {"initialize", "query"} ->
                     /\ server' = [server EXCEPT ![k] = [s EXCEPT !.asked = @ \union {c}]]
                     /\ call' = Goes(c, "awaits")
                     /\ UNCHANGED <<gate, registered, races>>
                [] call[c].frame = "text" ->
                     /\ server' = [server EXCEPT ![k] = [s EXCEPT !.text = call[c].text]]
                     /\ call' = [call EXCEPT ![c].pc = "records", ![c].frame = "-", ![c].text = 0]
                     /\ UNCHANGED <<gate, registered, races>>
                [] OTHER ->
                     /\ server' = [server EXCEPT ![k] = s]
                     /\ StartSucceeds(c)
  /\ UNCHANGED <<disk, installed, installing, manager, left>>

(* c's frame is not written, in the client s: a request raises, and takes   *)
(* its waiter back; a notification is lost in silence.                      *)
Unwritten(c, k, s, calls) ==
  CASE calls[c].frame = "initialize" ->
         /\ server' = [server EXCEPT ![k] = ShutServer]
         /\ StartFails(c, calls)
    [] calls[c].frame = "query" ->
         /\ server' = [server EXCEPT ![k] = [s EXCEPT !.waiters = @ \ {c}]]
         /\ call' = [calls EXCEPT ![c] = NoCall]
         /\ UNCHANGED <<gate, registered, races>>
    [] calls[c].frame = "text" ->
         /\ server' = [server EXCEPT ![k] = s]
         /\ call' = [calls EXCEPT ![c].pc = "records", ![c].frame = "-", ![c].text = 0]
         /\ UNCHANGED <<gate, registered, races>>
    [] OTHER ->
         /\ server' = [server EXCEPT ![k] = s]
         /\ StartSucceeds(c)

(* The pipe is broken, or shutdown has let go of the process.               *)
WriterFails(k) ==
  /\ server[k].queue # <<>> /\ server[k].life = "dead" /\ ~server[k].shut
  /\ LET c == Head(server[k].queue)
         s == [server[k] EXCEPT !.queue = Tail(@)]
     IN  IF c = "pump"
         THEN /\ server' = [server EXCEPT ![k] = [s EXCEPT !.pump = "reads"]]
              /\ UNCHANGED <<call, gate, registered, races>>
         ELSE Unwritten(c, k, s, call)
  /\ UNCHANGED <<disk, installed, installing, manager, left>>

(* Nobody takes the frame: the server has stopped reading, or the writer is *)
(* over.  The caller breaks the client and kills the process.               *)
Undrained(k) == server[k].stalled \/ server[k].shut

WriteTimesOut(c) ==
  /\ At(c, "writes") /\ Undrained(call[c].on)
  /\ LET k == call[c].on
     IN  Unwritten(c, k, [Dead(Broken(server[k])) EXCEPT !.queue = Without(@, c)], Woken(k, call))
  /\ UNCHANGED <<disk, installed, installing, manager, left>>

-----------------------------------------------------------------------------
(* The pump, and the server as the pump sees it *)

(* The answer to a request; one nobody waits for any more is dropped.       *)
PumpDelivers(c, got) ==
  LET k == call[c].on
  IN  /\ k # 0 /\ c \in server[k].asked
      /\ server[k].pump = "reads" /\ server[k].life = "up"
      /\ server' = [server EXCEPT ![k].asked = @ \ {c}, ![k].waiters = @ \ {c}]
      /\ call' = IF c \in server[k].waiters THEN [call EXCEPT ![c].got = got] ELSE call
      /\ UNCHANGED <<disk, installed, installing, registered, gate, manager, left,
                     races>>

PumpLeavesTheWaiters(k) ==
  /\ server' = [server EXCEPT ![k].broken = TRUE, ![k].pump = "over"]
  /\ UNCHANGED <<call, disk, installed, installing, registered, gate, manager, races>>

PumpEnds(k) ==
  /\ server' = [server EXCEPT ![k] = [Broken(server[k]) EXCEPT !.pump = "over"]]
  /\ call' = Woken(k, call)
  /\ UNCHANGED <<disk, installed, installing, registered, gate, manager, races>>

PumpSeesTheEnd(k) ==
  /\ server[k].life = "dead" /\ server[k].pump = "reads"
  /\ PumpEnds(k) /\ UNCHANGED left

(* An unparseable frame ends the pump; the process lives on.                *)
ServerGarbles(k) ==
  /\ server[k].life = "up" /\ server[k].pump = "reads" /\ Spend
  /\ PumpEnds(k)

(* The server's own request is answered by the pump, through the writer.    *)
ServerAsks(k) ==
  /\ server[k].life = "up" /\ server[k].pump = "reads" /\ Spend
  /\ server' = [server EXCEPT ![k].pump = "replies", ![k].queue = Append(@, "pump")]
  /\ UNCHANGED <<disk, installed, installing, registered, gate, call, manager, races>>

ReplyTimesOut(k) ==
  /\ server[k].pump = "replies" /\ Undrained(k)
  /\ server' = [server EXCEPT ![k] = [Dead(Broken(server[k])) EXCEPT !.pump = "reads", !.queue = Without(@, "pump")]]
  /\ call' = Woken(k, call)
  /\ UNCHANGED <<disk, installed, installing, registered, gate, manager, left, races>>

ServerStopsReading(k) ==
  /\ server[k].life = "up" /\ ~server[k].stalled /\ Spend
  /\ server' = [server EXCEPT ![k].stalled = TRUE]
  /\ UNCHANGED <<disk, installed, installing, registered, gate, call, manager, races>>

ServerExits(k) ==
  /\ server[k].life = "up" /\ Spend
  /\ server' = [server EXCEPT ![k] = Dead(@)]
  /\ UNCHANGED <<disk, installed, installing, registered, gate, call, manager, races>>

-----------------------------------------------------------------------------
(* LSPManager.shutdown, on the dispatch thread, while calls go on *)

ShutdownStarts ==
  /\ manager.pc = "open" /\ Spend
  /\ manager' = IF registered = 0 THEN [pc |-> "shut", at |-> 0]
                ELSE [pc |-> "closes", at |-> registered]
  /\ server' = IF registered = 0 THEN server
               ELSE [server EXCEPT ![registered] = Dead(@)]
  /\ UNCHANGED <<disk, installed, installing, registered, gate, call, races>>

(* The writer has failed what was left; then the sentinel stops it.         *)
ShutdownEnds ==
  LET k == manager.at
  IN  /\ manager.pc = "closes" /\ server[k].queue = <<>>
      /\ server' = [server EXCEPT ![k] = [Broken(server[k]) EXCEPT !.pump = "over", !.shut = TRUE]]
      /\ call' = Woken(k, call)
      /\ registered' = 0
      /\ manager' = [pc |-> "shut", at |-> 0]
      /\ UNCHANGED <<disk, installed, installing, gate, left, races>>

-----------------------------------------------------------------------------
CallerSteps(c) ==
  \/ Looks(c) \/ TakesGate(c) \/ Passes(c)
  \/ Spawns(c) \/ SpawnsNothing(c) \/ InstallStarts(c) \/ InstallEnds(c)
  \/ ChecksBroken(c) \/ Registers(c) \/ Answered(c) \/ HandshakeTimesOut(c)
  \/ Stats(c) \/ Reads(c) \/ Records(c) \/ WriteTimesOut(c)
  \/ EditReports(c) \/ DiagnosticsReport(c)

ClientSteps(k) ==
  WriterWrites(k) \/ WriterFails(k) \/ PumpSeesTheEnd(k) \/ ReplyTimesOut(k)

LspNext ==
  \/ \E c \in Callers : \/ EditBegins(c) \/ QueryBegins(c)
                        \/ CallerSteps(c)
                        \/ \E got \in {"result", "modified"} : PumpDelivers(c, got)
  \/ \E k \in Ids : \/ ClientSteps(k)
                    \/ ServerGarbles(k) \/ ServerAsks(k)
                    \/ ServerStopsReading(k) \/ ServerExits(k)
  \/ ShutdownStarts \/ ShutdownEnds

(* Threads run, waits with a deadline end and installers are killed; what a *)
(* server answers, or whether it does, is its own affair.                   *)
Fairness ==
  /\ \A c \in Callers : WF_lspVars(CallerSteps(c))
  /\ \A k \in 1..MaxServers : WF_lspVars(k \in Ids /\ ClientSteps(k))
  /\ WF_lspVars(ShutdownEnds)

LspSpec == LspInit /\ [][LspNext]_lspVars /\ Fairness

-----------------------------------------------------------------------------
(* The report an edit waits for always comes: no silent, stalled, dead or   *)
(* babbling server, installer or failed start of another call holds up the  *)
(* result of a write tool.                                                  *)
EditsReturn == \A c \in Callers : (call[c].op = "edit") ~> At(c, "idle")

(* A caller that waits for a broken client has been woken, unless the       *)
(* client broke between its look at _broken and its registration: that      *)
(* caller waits for ever.                                                   *)
CalmNobodyIsStranded ==
  \A c \in Callers :
    At(c, "awaits") /\ ~call[c].late /\ server[call[c].on].broken => call[c].got # "-"

(* The server of a working client has the text on disk whenever the client  *)
(* believes so, unless two calls synchronised it at the same time: then the *)
(* older text may be sent last and the newer version recorded.              *)
CalmTextIsCurrent ==
  \A k \in Ids :
    LET s == server[k]
    IN  /\ s.life = "up" /\ ~s.broken /\ s.synced = disk /\ "sync" \notin races
        /\ ~\E c \in Callers : Syncing(c) /\ call[c].on = k
        => s.text = disk

(* A process nobody is starting is the registered one, or is dead: starts   *)
(* that fail and managers that shut down leave none behind, unless two      *)
(* calls passed the gate at once or a start ended after the shutdown began. *)
CalmNoStrayServer ==
  \A k \in Ids :
    server[k].life = "up" /\ races \intersect {"start", "closing"} = {} =>
      k = registered \/ \E c \in Callers : Starting(c) /\ call[c].on = k
=============================================================================
