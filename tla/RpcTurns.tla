------------------------------ MODULE RpcTurns -------------------------------
(***************************************************************************)
(* The desktop's engine process (src/cluxmate/core/jsonrpc_server.py): one *)
(* dispatch thread that handles chat/send, chat/cancel, tool/approve and   *)
(* tool/deny, and one thread per turn that runs the agent loop             *)
(* (src/cluxmate/core/agent.py) on an event loop of its own.  The threads  *)
(* share the registration of the running turn, the callbacks the answers   *)
(* go to, the session log and the agent's table of open tool calls.        *)
(*                                                                         *)
(* A step is what a thread does between two points where the other can get *)
(* in between and tell the difference.  A turn makes at most one call.     *)
(*                                                                         *)
(* In a calm environment a message is sent only after the response to the  *)
(* last one, a card is answered only once its waiter is registered, and    *)
(* nothing runs between the two lines that remove a registration.  Nothing *)
(* in the code enforces this, and in any other environment none of it      *)
(* need be so.                                                             *)
(***************************************************************************)
EXTENDS Integers, Sequences, FiniteSets

CONSTANTS NumTurns,   \* bound: turns are numbered in the order they are sent
          NoTurn      \* None, in _turn_task, _turn_loop and _callbacks

ASSUME RpcAssumption ==
  /\ NumTurns \in Nat
  /\ NoTurn \notin 1 .. NumTurns

Turn == 1 .. NumTurns

VARIABLES
  calm,       \* the environment is a calm one; chosen once and for all
  pc,         \* where each turn is
  log,        \* the session log: whose event, of what kind
  derived,    \* the length of the log when the turn's history was derived
  meta,       \* _log_tool_meta of the one agent: the calls without a result
  callbacks,  \* _callbacks: the turn that answers and Stop go to
  turnTask,   \* _turn_task
  turnLoop,   \* _turn_loop
  cancelled,  \* the turns whose callbacks have _cancelled set
  taskCancel, \* the turns whose task has been cancelled
  answer,     \* what the user answered to the turn's card
  decision,   \* _tool_decisions
  woken,      \* the waiters whose event is set
  ran         \* the calls whose tool has run

vars == <<calm, pc, log, derived, meta, callbacks, turnTask, turnLoop,
          cancelled, taskCancel, answer, decision, woken, ran>>

registration == <<callbacks, turnTask, turnLoop>>
approval == <<answer, decision, woken, ran>>

\* The turn's response has been written: the front end may send again.
RespondedEarly == {"close", "respond", "unregister", "clear", "ended"}

Responded == {"unregister", "clear", "ended"}

Waiting(t) == pc[t] = "wait"
CardShown(t) == pc[t] \in {"register", "wait"}

Event == [turn : Turn, kind : {"start", "call", "result", "end"}]
Entry(t, kind) == [turn |-> t, kind |-> kind]
Logged(t, kind) == \E i \in DOMAIN log : log[i] = Entry(t, kind)
------------------------------------------------------------------------------
Init ==
  /\ calm \in BOOLEAN
  /\ pc = [t \in Turn |-> "unsent"]
  /\ log = <<>>
  /\ derived = [t \in Turn |-> 0]
  /\ meta = {}
  /\ callbacks = NoTurn
  /\ turnTask = NoTurn
  /\ turnLoop = NoTurn
  /\ cancelled = {}
  /\ taskCancel = {}
  /\ answer = [t \in Turn |-> "none"]
  /\ decision = [t \in Turn |-> "none"]
  /\ woken = {}
  /\ ran = {}
------------------------------------------------------------------------------
(***************************************************************************)
(* The dispatch thread.                                                    *)
(***************************************************************************)
Dispatching == \E t \in Turn : pc[t] = "sending"

\* _cancel_chat: the callbacks' flag and events, then the registered task.
\* call_soon_threadsafe needs the loop the task runs on.
CancelChatFlagOnly ==
  /\ callbacks' = NoTurn
  /\ cancelled' = cancelled \cup ({callbacks} \cap Turn)
  /\ woken' = woken \cup {t \in {callbacks} \cap Turn : Waiting(t)}
  /\ taskCancel' = taskCancel

CancelChat ==
  /\ callbacks' = NoTurn
  /\ cancelled' = cancelled \cup ({callbacks} \cap Turn)
  /\ woken' = woken \cup {t \in {callbacks} \cap Turn : Waiting(t)}
  /\ taskCancel' = taskCancel \cup
       {t \in {turnTask} \cap {turnLoop} \cap Turn :
          pc[t] \notin Responded \cup {"respond"}}

\* chat/send, up to _cancel_chat.
Send(t) ==
  /\ pc[t] = "unsent"
  /\ ~Dispatching
  /\ \A u \in 1 .. t - 1 :
       /\ pc[u] # "unsent"
       /\ calm => pc[u] \in Responded
  /\ CancelChat
  /\ pc' = [pc EXCEPT ![t] = "sending"]
  /\ UNCHANGED <<calm, log, derived, meta, turnTask, turnLoop, answer, decision, ran>>

\* The rest of it: history from the log, fresh callbacks, the turn's thread.
Spawn(t) ==
  /\ pc[t] = "sending"
  /\ derived' = [derived EXCEPT ![t] = Len(log)]
  /\ callbacks' = t
  /\ pc' = [pc EXCEPT ![t] = "setup"]
  /\ UNCHANGED <<calm, log, meta, turnTask, turnLoop, cancelled, taskCancel, approval>>

Stop ==
  /\ ~Dispatching
  /\ callbacks # NoTurn
  /\ CancelChat
  /\ UNCHANGED <<calm, pc, log, derived, meta, turnTask, turnLoop, answer, decision, ran>>

\* resolve_tool.  An answer for a turn that is no longer the current one is
\* filed with the wrong callbacks, where nobody looks for it.
Resolve(t, approved) ==
  /\ decision' = [decision EXCEPT ![t] = IF callbacks = t THEN approved ELSE @]
  /\ woken' = IF callbacks = t /\ Waiting(t) THEN woken \cup {t} ELSE woken

Answer(t, approved) ==
  /\ ~Dispatching
  /\ answer[t] = "none"
  /\ IF calm THEN Waiting(t) ELSE CardShown(t)
  /\ answer' = [answer EXCEPT ![t] = approved]
  /\ Resolve(t, approved)
  /\ UNCHANGED <<calm, pc, log, derived, meta, registration, cancelled, taskCancel, ran>>
------------------------------------------------------------------------------
(***************************************************************************)
(* The thread of a turn: registration.                                     *)
(***************************************************************************)
RegisterTask(t) ==
  /\ pc[t] = "setup"
  /\ turnTask' = t
  /\ pc' = [pc EXCEPT ![t] = "task"]
  /\ UNCHANGED <<calm, log, derived, meta, callbacks, turnLoop, cancelled, taskCancel, approval>>

RegisterLoop(t) ==
  /\ pc[t] = "task"
  /\ turnLoop' = t
  /\ pc' = [pc EXCEPT ![t] = "loop"]
  /\ UNCHANGED <<calm, log, derived, meta, callbacks, turnTask, cancelled, taskCancel, approval>>

\* A Stop that came before the registration cancels the task here, before
\* its first step: agent.run never begins.
CheckCancelled(t) ==
  /\ pc[t] = "loop"
  /\ pc' = [pc EXCEPT ![t] = IF t \in cancelled THEN "respond" ELSE "start"]
  /\ UNCHANGED <<calm, log, derived, meta, registration, cancelled, taskCancel, approval>>

Respond(t) ==
  /\ pc[t] = "respond"
  /\ pc' = [pc EXCEPT ![t] = "unregister"]
  /\ UNCHANGED <<calm, log, derived, meta, registration, cancelled, taskCancel, approval>>

ClearRegistration ==
  /\ turnTask' = NoTurn
  /\ turnLoop' = NoTurn
  /\ UNCHANGED callbacks

\* "if self._turn_task is main_task", then the two assignments.
Unregister(t) ==
  /\ pc[t] = "unregister"
  /\ \/ /\ turnTask # t
        /\ pc' = [pc EXCEPT ![t] = "ended"]
        /\ UNCHANGED registration
     \/ /\ turnTask = t /\ calm
        /\ pc' = [pc EXCEPT ![t] = "ended"]
        /\ ClearRegistration
     \/ /\ turnTask = t /\ ~calm
        /\ pc' = [pc EXCEPT ![t] = "clear"]
        /\ UNCHANGED registration
  /\ UNCHANGED <<calm, log, derived, meta, cancelled, taskCancel, approval>>

Clear(t) ==
  /\ pc[t] = "clear"
  /\ ClearRegistration
  /\ pc' = [pc EXCEPT ![t] = "ended"]
  /\ UNCHANGED <<calm, log, derived, meta, cancelled, taskCancel, approval>>
------------------------------------------------------------------------------
(***************************************************************************)
(* The thread of a turn: agent.run.                                        *)
(***************************************************************************)
\* The table of calls is reset first, then the history is compared.
Start(t) ==
  /\ pc[t] = "start"
  /\ meta' = {}
  /\ \/ /\ derived[t] = Len(log)
        /\ log' = Append(log, Entry(t, "start"))
        /\ pc' = [pc EXCEPT ![t] = "model"]
     \/ /\ derived[t] # Len(log)  \* ValueError: history does not match
        /\ log' = log
        /\ pc' = [pc EXCEPT ![t] = "respond"]
  /\ UNCHANGED <<calm, derived, registration, cancelled, taskCancel, approval>>

\* Awaiting the model: the turn ends, calls its tool, or is cancelled here.
Reply(t) ==
  /\ pc[t] = "model"
  /\ pc' = [pc EXCEPT ![t] = "close"]
  /\ UNCHANGED <<calm, log, derived, meta, registration, cancelled, taskCancel, approval>>

CallTool(t) ==
  /\ pc[t] = "model"
  /\ t \notin taskCancel
  /\ ~Logged(t, "call")
  /\ log' = Append(log, Entry(t, "call"))
  /\ meta' = meta \cup {t}
  /\ pc' = [pc EXCEPT ![t] = "gate"]
  /\ UNCHANGED <<calm, derived, registration, cancelled, taskCancel, approval>>

\* on_tool_start: cancelled already, approved without asking, or the card is
\* shown before the waiter exists.
Gate(t) ==
  /\ pc[t] = "gate"
  /\ pc' = [pc EXCEPT ![t] = IF t \in cancelled THEN "close" ELSE "register"]
  /\ UNCHANGED <<calm, log, derived, meta, registration, cancelled, taskCancel, approval>>

AutoApproved(t) ==
  /\ pc[t] = "gate"
  /\ t \notin cancelled
  /\ pc' = [pc EXCEPT ![t] = "running"]
  /\ UNCHANGED <<calm, log, derived, meta, registration, cancelled, taskCancel, approval>>

\* self._tool_events[call_id] = evt, then the wait.
RegisterWaiter(t) ==
  /\ pc[t] = "register"
  /\ pc' = [pc EXCEPT ![t] = "wait"]
  /\ UNCHANGED <<calm, log, derived, meta, registration, cancelled, taskCancel, approval>>

\* The event was set, by cancel or by an answer: _CancelledError, or the tool
\* runs, or it is denied and the refusal becomes its result.
Denied(t) ==
  /\ log' = Append(log, Entry(t, "result"))
  /\ meta' = meta \ {t}
  /\ pc' = [pc EXCEPT ![t] = "model"]

WakeUnchecked(t) ==
  /\ pc[t] = "wait"
  /\ t \in woken
  /\ ran' = ran \cup {t}
  /\ pc' = [pc EXCEPT ![t] = "running"]
  /\ UNCHANGED <<calm, log, derived, meta, registration, cancelled, taskCancel, answer, decision, woken>>

Wake(t) ==
  /\ pc[t] = "wait"
  /\ t \in woken
  /\ \/ /\ t \in cancelled
        /\ pc' = [pc EXCEPT ![t] = "close"]
        /\ UNCHANGED <<log, meta, ran>>
     \/ /\ t \notin cancelled /\ decision[t] = "approve"
        /\ pc' = [pc EXCEPT ![t] = "running"]
        /\ ran' = ran \cup {t}
        /\ UNCHANGED <<log, meta>>
     \/ /\ t \notin cancelled /\ decision[t] # "approve"
        /\ Denied(t)
        /\ ran' = ran
  /\ UNCHANGED <<calm, derived, registration, cancelled, taskCancel, answer, decision, woken>>

\* _log_tool_result once the tool returned.
FinishTool(t) ==
  /\ pc[t] = "running"
  /\ t \notin taskCancel
  /\ log' = Append(log, Entry(t, "result"))
  /\ meta' = meta \ {t}
  /\ pc' = [pc EXCEPT ![t] = "model"]
  /\ UNCHANGED <<calm, derived, registration, cancelled, taskCancel, approval>>

\* CancelledError out of the await: the model, the card or the tool.
Interrupted(t) ==
  /\ pc[t] \in {"model", "wait", "running"}
  /\ t \in taskCancel
  /\ pc' = [pc EXCEPT ![t] = "close"]
  /\ UNCHANGED <<calm, log, derived, meta, registration, cancelled, taskCancel, approval>>

\* The results of the calls left in the table, in any order.
Results(calls) ==
  {s \in [1 .. Cardinality(calls) -> {Entry(u, "result") : u \in calls}] :
     \A i, j \in DOMAIN s : s[i] = s[j] => i = j}

\* run's finally: a result for every call in the table, then turn/end.
Close(t) ==
  /\ pc[t] = "close"
  /\ \E results \in Results(meta) : log' = log \o results \o <<Entry(t, "end")>>
  /\ meta' = {}
  /\ pc' = [pc EXCEPT ![t] = "respond"]
  /\ UNCHANGED <<calm, derived, registration, cancelled, taskCancel, approval>>
------------------------------------------------------------------------------
TurnThread(t) ==
  \/ RegisterTask(t) \/ RegisterLoop(t) \/ CheckCancelled(t)
  \/ Start(t) \/ Reply(t) \/ CallTool(t) \/ Gate(t) \/ AutoApproved(t)
  \/ RegisterWaiter(t) \/ Wake(t) \/ FinishTool(t) \/ Interrupted(t) \/ Close(t)
  \/ Respond(t) \/ Unregister(t) \/ Clear(t)

Dispatch ==
  \/ Stop
  \/ \E t \in Turn : \/ Send(t) \/ Spawn(t)
                     \/ \E approved \in {"approve", "deny"} : Answer(t, approved)

\* Every message has been sent and dealt with, or the user takes his time.
Quiet ==
  /\ \A t \in Turn : pc[t] \in {"ended", "wait"}
  /\ UNCHANGED vars

Next == Dispatch \/ Quiet \/ \E t \in Turn : TurnThread(t)

Spec == Init /\ [][Next]_vars

\* Threads are scheduled, a provider's reply ends, dispatch finishes a send.
\* Nothing obliges the user.
LiveSpec ==
  /\ Spec
  /\ \A t \in Turn : WF_vars(TurnThread(t)) /\ WF_vars(Spawn(t))
------------------------------------------------------------------------------
Locations == {"unsent", "sending", "setup", "task", "loop", "start", "model", "gate",
              "register", "wait", "running", "close", "respond", "unregister", "clear", "ended"}

Answers == {"none", "approve", "deny"}

TypeOK ==
  /\ calm \in BOOLEAN
  /\ pc \in [Turn -> Locations]
  /\ log \in Seq(Event)
  /\ derived \in [Turn -> Nat]
  /\ meta \subseteq Turn
  /\ {callbacks, turnTask, turnLoop} \subseteq Turn \cup {NoTurn}
  /\ cancelled \subseteq Turn /\ taskCancel \subseteq Turn
  /\ answer \in [Turn -> Answers] /\ decision \in [Turn -> Answers]
  /\ woken \subseteq Turn /\ ran \subseteq Turn

\* One turn at a time writes the log: no event of another turn lies between
\* two events of a turn (_cancel_chat exists to keep turns from overlapping).
TurnsDoNotInterleave ==
  \A i, k \in DOMAIN log : i < k /\ log[i].turn = log[k].turn =>
    \A j \in i .. k : log[j].turn = log[i].turn

\* A Stop alone does not make turns overlap, wherever it finds the turn.
CalmTurnsDoNotInterleave == calm => TurnsDoNotInterleave

\* The history a turn was given is still the log's when it starts.
HistoryStillMatches ==
  calm => \A t \in Turn : pc[t] = "start" => derived[t] = Len(log)

\* A gated tool runs only if the user said yes to that call, in whatever
\* order the clicks, the Stop that sets every event and the waiter run.
RunsOnlyApproved == \A t \in ran : answer[t] = "approve"

\* A turn the user stopped ends, wherever Stop found it.
StoppedTurnEnds ==
  \A t \in Turn : (calm /\ t \in cancelled) ~> (pc[t] = "ended")

\* A card the user answers does not stay unanswered for the turn, provided
\* the answer comes after the waiter's registration (which the card precedes).
CalmAnswerSettles ==
  \A t \in Turn : (calm /\ answer[t] # "none" /\ CardShown(t)) ~> ~CardShown(t)

\* In a calm environment what the user asks of a turn happens: Stop ends it, an
\* answer settles its card.
CalmTurnsAreServed == StoppedTurnEnds /\ CalmAnswerSettles
==============================================================================
