--------------------------- MODULE ConnectionsProofs ---------------------------
(***************************************************************************)
(* What holds of three components that talk to other processes.            *)
(*                                                                         *)
(* The engine's two threads, for any number of turns: a gated tool runs    *)
(* only if the user approved its call, whatever the threads do; and in a   *)
(* calm environment turns do not interleave in the session log, wherever   *)
(* Stop finds them.                                                        *)
(*                                                                         *)
(* The clients of the language servers, for any number of threads, servers *)
(* and versions of the file: nobody waits for a broken client, the text is *)
(* current, and no process is left behind, but for the races named.        *)
(*                                                                         *)
(* The credentials of the MCP servers, for any number of servers, calls    *)
(* and events: a logout stays one, and a credential that can be renewed is *)
(* not thrown away, but for writers that overlap.                          *)
(***************************************************************************)
EXTENDS RpcTurns, LanguageServers, McpAuth, FiniteSetTheorems, SequenceTheorems, TLAPS

-----------------------------------------------------------------------------
(* The turns of the engine *)

\* decision holds nothing but answers, ran nothing but approvals.
Approvals ==
  /\ \A t \in Turn : decision[t] = "approve" => answer[t] = "approve"
  /\ RunsOnlyApproved

ApprovalInvariant == TypeOK /\ Approvals

\* An entry is an event of its turn.
LEMMA EntryType ==
  ASSUME NEW t \in Turn, NEW kind \in {"start", "call", "result", "end"}
  PROVE  Entry(t, kind) \in Event /\ Entry(t, kind).turn = t
BY DEF Entry, Event

\* And a log with one more entry is a log.
LEMMA AppendEntry ==
  ASSUME NEW t \in Turn, NEW kind \in {"start", "call", "result", "end"},
         log \in Seq(Event)
  PROVE  Append(log, Entry(t, kind)) \in Seq(Event)
BY EntryType

\* The results Close may write are entries of the calls in the table.
LEMMA ResultsType ==
  ASSUME NEW calls \in SUBSET Turn, NEW s \in Results(calls)
  PROVE  /\ s \in Seq(Event)
         /\ \A i \in 1 .. Len(s) : s[i].turn \in calls
<1>0. Cardinality(calls) \in Nat
  <2>1. IsFiniteSet(Turn)
    BY RpcAssumption, FS_Interval DEF Turn
  <2>2. IsFiniteSet(calls)
    BY <2>1, FS_Subset
  <2> QED
    BY <2>2, FS_CardinalityType
<1>1. s \in [1 .. Cardinality(calls) -> {Entry(u, "result") : u \in calls}]
  BY DEF Results
<1>2. {Entry(u, "result") : u \in calls} \subseteq Event
  BY EntryType
<1>3. s \in Seq(Event)
  BY <1>0, <1>1, <1>2
<1>4. DOMAIN s = 1 .. Len(s)
  BY <1>3
<1>5. \A i \in 1 .. Len(s) : \E u \in calls : s[i] = Entry(u, "result")
  BY <1>1, <1>4
<1>6. \A u \in calls : Entry(u, "result").turn = u
  BY EntryType
<1>7. \A i \in 1 .. Len(s) : s[i].turn \in calls
  BY <1>5, <1>6
<1> QED
  BY <1>3, <1>7

\* What the actions of a turn's thread do to the variables the types and the
\* approvals speak of.
LEMMA ApprovalStep == ApprovalInvariant /\ [Next]_vars => ApprovalInvariant'
<1> SUFFICES ASSUME ApprovalInvariant, [Next]_vars
             PROVE  ApprovalInvariant'
  OBVIOUS
<1> USE DEF ApprovalInvariant, TypeOK, Approvals, RunsOnlyApproved
<1>u. CASE UNCHANGED vars
  BY <1>u DEF vars
<1>q. CASE Quiet
  BY <1>q DEF Quiet, vars
<1>s. CASE Stop
  <2>1. /\ cancelled' \subseteq Turn /\ taskCancel' \subseteq Turn
        /\ woken' \subseteq Turn /\ callbacks' \in Turn \cup {NoTurn}
    BY <1>s DEF Stop, CancelChat
  <2> QED
    BY <1>s, <2>1 DEF Stop
<1>d. ASSUME NEW t \in Turn, Send(t) PROVE ApprovalInvariant'
  <2>1. /\ cancelled' \subseteq Turn /\ taskCancel' \subseteq Turn
        /\ woken' \subseteq Turn /\ callbacks' \in Turn \cup {NoTurn}
    BY <1>d DEF Send, CancelChat
  <2> QED
    BY <1>d, <2>1 DEF Send, Locations
<1>p. ASSUME NEW t \in Turn, Spawn(t) PROVE ApprovalInvariant'
  BY <1>p DEF Spawn, approval, Locations
<1>a. ASSUME NEW t \in Turn, NEW approved \in {"approve", "deny"}, Answer(t, approved)
      PROVE  ApprovalInvariant'
  BY <1>a DEF Answer, Resolve, registration, Answers
<1>w. ASSUME NEW t \in Turn, Wake(t) PROVE ApprovalInvariant'
  <2>1. CASE log' = log
    BY <1>w, <2>1 DEF Wake, Denied, registration, Locations
  <2>2. CASE Denied(t) /\ ran' = ran
    <3>1. log' \in Seq(Event)
      BY <2>2, AppendEntry DEF Denied
    <3> QED
      BY <1>w, <2>2, <3>1 DEF Wake, Denied, registration, Locations
  <2> QED
    BY <1>w, <2>1, <2>2 DEF Wake
<1>c. ASSUME NEW t \in Turn, Close(t) PROVE ApprovalInvariant'
  <2>1. PICK results \in Results(meta) : log' = log \o results \o <<Entry(t, "end")>>
    BY <1>c DEF Close
  <2>2. /\ log \in Seq(Event)
        /\ results \in Seq(Event)
        /\ <<Entry(t, "end")>> \in Seq(Event)
    <3>1. results \in Seq(Event)
      BY <2>1, ResultsType
    <3> QED
      BY <3>1, EntryType
  <2>3. log' \in Seq(Event)
    BY <2>1, <2>2
  <2> QED
    BY <1>c, <2>3 DEF Close, registration, approval, Locations
<1>r. ASSUME NEW t \in Turn, Start(t) PROVE ApprovalInvariant'
  <2>1. log' \in Seq(Event)
    BY <1>r, AppendEntry DEF Start
  <2> QED
    BY <1>r, <2>1 DEF Start, registration, approval, Locations
<1>l. ASSUME NEW t \in Turn, CallTool(t) PROVE ApprovalInvariant'
  <2>1. log' \in Seq(Event)
    BY <1>l, AppendEntry DEF CallTool
  <2> QED
    BY <1>l, <2>1 DEF CallTool, registration, approval, Locations
<1>f. ASSUME NEW t \in Turn, FinishTool(t) PROVE ApprovalInvariant'
  <2>1. log' \in Seq(Event)
    BY <1>f, AppendEntry DEF FinishTool
  <2> QED
    BY <1>f, <2>1 DEF FinishTool, registration, approval, Locations
<1>g. ASSUME NEW t \in Turn, RegisterTask(t) \/ RegisterLoop(t) PROVE ApprovalInvariant'
  <2>1. CASE RegisterTask(t)
    BY <2>1 DEF RegisterTask, approval, Locations
  <2>2. CASE RegisterLoop(t)
    BY <2>2 DEF RegisterLoop, approval, Locations
  <2> QED
    BY <1>g, <2>1, <2>2
<1>m. ASSUME NEW t \in Turn, NEW next \in Locations, pc' = [pc EXCEPT ![t] = next],
             UNCHANGED <<calm, log, derived, meta, registration, cancelled, taskCancel, approval>>
      PROVE  ApprovalInvariant'
  BY <1>m DEF registration, approval
<1>k. ASSUME NEW t \in Turn, CheckCancelled(t) \/ Reply(t) \/ Gate(t) PROVE ApprovalInvariant'
  BY <1>k, <1>m DEF CheckCancelled, Reply, Gate, Locations
<1>h. ASSUME NEW t \in Turn, AutoApproved(t) \/ RegisterWaiter(t) PROVE ApprovalInvariant'
  BY <1>h, <1>m DEF AutoApproved, RegisterWaiter, Locations
<1>i. ASSUME NEW t \in Turn, Interrupted(t) \/ Respond(t) PROVE ApprovalInvariant'
  BY <1>i, <1>m DEF Interrupted, Respond, Locations
<1>e. ASSUME NEW t \in Turn, Unregister(t) \/ Clear(t) PROVE ApprovalInvariant'
  <2>1. /\ {callbacks, turnTask, turnLoop}' \subseteq Turn \cup {NoTurn}
        /\ pc' \in [Turn -> Locations]
    BY <1>e DEF Unregister, Clear, ClearRegistration, registration, Locations
  <2> QED
    BY <1>e, <2>1 DEF Unregister, Clear, approval
<1> QED
  BY <1>u, <1>q, <1>s, <1>d, <1>p, <1>a, <1>w, <1>c, <1>r, <1>l, <1>f, <1>g, <1>k, <1>h, <1>i, <1>e
  DEF Next, Dispatch, TurnThread

\* A gated tool runs only if the user approved that call: no order of the
\* clicks, the Stop and the waiting turn runs anything else.
THEOREM ApprovalsAreKept == Spec => []RunsOnlyApproved
<1>1. Init => ApprovalInvariant
  BY RpcAssumption DEF Init, ApprovalInvariant, TypeOK, Approvals, RunsOnlyApproved, Locations, Answers
<1>2. ApprovalInvariant => RunsOnlyApproved
  BY DEF ApprovalInvariant, Approvals
<1> QED
  BY <1>1, <1>2, ApprovalStep, PTL DEF Spec
------------------------------------------------------------------------------
\* Turns one after the other.  Only the last turn sent can still be at work.
InOrder ==
  \A t \in Turn : pc[t] # "unsent" => \A u \in Turn : u < t => pc[u] \in Responded

Unstarted == {"unsent", "sending", "setup", "task", "loop", "start"}
Calling == {"gate", "register", "wait", "running", "close"}

LogSorted == \A i, j \in 1 .. Len(log) : i < j => log[i].turn <= log[j].turn
WritersStarted == \A i \in 1 .. Len(log) : pc[log[i].turn] \notin Unstarted
OwnCalls == \A t \in meta : pc[t] \in Calling
Fresh == \A t \in Turn : pc[t] \in Unstarted \ {"unsent", "sending"} => derived[t] = Len(log)

TurnInvariant ==
  /\ TypeOK
  /\ InOrder
  /\ LogSorted
  /\ WritersStarted
  /\ OwnCalls
  /\ Fresh

\* What every step of a turn's thread amounts to: it moves on to next and
\* appends events of its own, none before it has started.
Moves(t, next, events) ==
  /\ next \in Locations \ {"unsent", "sending", "setup"}
  /\ pc' = [pc EXCEPT ![t] = next]
  /\ pc[t] \notin {"unsent", "sending"}
  /\ pc[t] \in Responded => next \in Responded
  /\ pc[t] \notin Unstarted => next \notin Unstarted
  /\ log' = log \o events
  /\ events \in Seq(Event)
  /\ \A i \in 1 .. Len(events) : events[i].turn = t
  /\ events = <<>> \/ (pc[t] \notin Responded /\ next \notin Unstarted)
  /\ meta' \subseteq (meta \ {t}) \cup (IF next \in Calling THEN {t} ELSE {})
  /\ derived' = derived

\* A turn at work is alone: the ones before it responded, the ones after it
\* have not been sent.
LEMMA Alone ==
  ASSUME InOrder, NEW t \in Turn, pc[t] \notin Responded, pc[t] # "unsent",
         NEW u \in Turn, u # t
  PROVE  /\ u < t => pc[u] \in Responded
         /\ u > t => pc[u] = "unsent"
  BY RpcAssumption DEF InOrder, Turn

LEMMA MovesKeepOrder ==
  ASSUME TurnInvariant, TypeOK', NEW t \in Turn, NEW next, NEW events, Moves(t, next, events)
  PROVE  TurnInvariant'
<1> USE DEF TurnInvariant, Moves
<1>0. pc \in [Turn -> Locations] /\ log \in Seq(Event) /\ Turn \subseteq Int
  BY RpcAssumption DEF TypeOK, Turn
<1>1. InOrder'
  BY <1>0 DEF InOrder
<1>2. /\ Len(log') = Len(log) + Len(events)
      /\ \A i \in 1 .. Len(log) : log'[i] = log[i]
      /\ \A i \in Len(log) + 1 .. Len(log') : log'[i] = events[i - Len(log)]
  BY <1>0
<1>3. \A i \in 1 .. Len(log) : log[i].turn \in Turn
  <2>1. \A i \in 1 .. Len(log) : log[i] \in Event
    BY <1>0
  <2> QED
    BY <2>1 DEF Event
<1>4. \A i \in Len(log) + 1 .. Len(log') : log'[i].turn = t
  BY <1>0, <1>2
<1>5. LogSorted'
  <2>1. CASE events = <<>>
    BY <1>0, <2>1 DEF LogSorted
  <2>2. CASE pc[t] \notin Responded /\ next \notin Unstarted
    <3>1. \A i \in 1 .. Len(log) : log[i].turn <= t
      <4>1. \A u \in Turn : u > t => pc[u] \in Unstarted
        BY <1>0, <2>2, Alone DEF Unstarted
      <4>2. ASSUME NEW i \in 1 .. Len(log) PROVE log[i].turn <= t
        <5>1. log[i].turn \in Turn /\ pc[log[i].turn] \notin Unstarted
          BY <1>3 DEF WritersStarted
        <5>2. log[i].turn \in Int /\ t \in Int
          BY <1>0, <5>1
        <5> QED
          BY <4>1, <5>1, <5>2
      <4> QED
        BY <4>2
    <3>2. \A i \in 1 .. Len(log') : log'[i].turn <= t
      BY <1>0, <1>2, <1>4, <3>1
    <3>3. ASSUME NEW i \in 1 .. Len(log'), NEW j \in 1 .. Len(log'), i < j
          PROVE  log'[i].turn <= log'[j].turn
      <4>1. CASE j \in 1 .. Len(log)
        BY <1>0, <1>2, <3>3, <4>1 DEF LogSorted
      <4>2. CASE j \in Len(log) + 1 .. Len(log')
        BY <1>4, <3>2, <4>2
      <4> QED
        BY <1>0, <1>2, <4>1, <4>2
    <3> QED
      BY <3>3 DEF LogSorted
  <2> QED
    BY <2>1, <2>2
<1>6. WritersStarted'
  <2>1. \A i \in 1 .. Len(log) : pc'[log'[i].turn] \notin Unstarted
    BY <1>0, <1>2, <1>3 DEF WritersStarted
  <2>2. \A i \in Len(log) + 1 .. Len(log') : pc'[log'[i].turn] \notin Unstarted
    BY <1>0, <1>2, <1>4
  <2> QED
    BY <1>0, <1>2, <2>1, <2>2 DEF WritersStarted
<1>7. OwnCalls'
  <2>1. meta \subseteq Turn
    BY DEF TypeOK
  <2> QED
    BY <1>0, <2>1 DEF OwnCalls
<1>8. Fresh'
  <2>1. CASE events = <<>>
    BY <1>0, <2>1 DEF Fresh, Unstarted
  <2>2. CASE pc[t] \notin Responded /\ next \notin Unstarted
    BY <1>0, <2>2, Alone DEF Fresh, Unstarted, Responded
  <2> QED
    BY <2>1, <2>2
<1> QED
  BY <1>1, <1>5, <1>6, <1>7, <1>8

\* Each action of the thread is such a move.
LEMMA ThreadMoves ==
  ASSUME TypeOK, InOrder, OwnCalls, NEW t \in Turn, TurnThread(t)
  PROVE  \E next, events : Moves(t, next, events)
<1> USE DEF Locations, Responded, Unstarted, Calling
<1>0. log = log \o <<>> /\ <<>> \in Seq(Event) /\ Len(<<>>) = 0
  BY DEF TypeOK
<1>1. ASSUME NEW kind \in {"start", "call", "result", "end"}
      PROVE  /\ Append(log, Entry(t, kind)) = log \o <<Entry(t, kind)>>
             /\ <<Entry(t, kind)>> \in Seq(Event)
             /\ \A i \in 1 .. Len(<<Entry(t, kind)>>) : <<Entry(t, kind)>>[i].turn = t
  BY EntryType DEF TypeOK
<1>2. meta \subseteq Turn /\ \A u \in meta : pc[u] \in Calling
  BY DEF TypeOK, OwnCalls
<1>3. ASSUME NEW next, log' = log, derived' = derived, meta' = meta,
             pc' = [pc EXCEPT ![t] = next],
             pc[t] \notin {"unsent", "sending"},
             next \in Locations \ {"unsent", "sending", "setup"},
             pc[t] \in Responded => next \in Responded,
             pc[t] \notin Unstarted => next \notin Unstarted,
             pc[t] \in Calling => next \in Calling
      PROVE  Moves(t, next, <<>>)
  <2>1. meta \subseteq (meta \ {t}) \cup (IF next \in Calling THEN {t} ELSE {})
    BY <1>2, <1>3
  <2> QED
    BY <1>0, <1>3, <2>1 DEF Moves
<1>4. ASSUME NEW next, NEW kind \in {"start", "call", "result", "end"},
             log' = Append(log, Entry(t, kind)), derived' = derived,
             pc' = [pc EXCEPT ![t] = next],
             pc[t] \notin {"unsent", "sending"} \cup Responded,
             next \in Locations \ Unstarted,
             meta' \subseteq (meta \ {t}) \cup (IF next \in Calling THEN {t} ELSE {})
      PROVE  Moves(t, next, <<Entry(t, kind)>>)
  BY <1>1, <1>4 DEF Moves
<1>5. CASE RegisterTask(t)
  BY <1>3, <1>5 DEF RegisterTask
<1>6. CASE RegisterLoop(t)
  BY <1>3, <1>6 DEF RegisterLoop
<1>7. CASE CheckCancelled(t)
  BY <1>3, <1>7 DEF CheckCancelled
<1>8. CASE Respond(t)
  BY <1>3, <1>8 DEF Respond
<1>9. CASE Unregister(t)
  BY <1>3, <1>9 DEF Unregister
<1>10. CASE Clear(t)
  BY <1>3, <1>10 DEF Clear
<1>11. CASE Start(t)
  <2>1. CASE derived[t] = Len(log)
    BY <1>4, <1>11, <2>1 DEF Start
  <2>2. CASE derived[t] # Len(log)
    <3>1. Moves(t, "respond", <<>>)
      BY <1>0, <1>11, <2>2 DEF Start, Moves
    <3> QED
      BY <3>1
  <2> QED
    BY <2>1, <2>2
<1>12. CASE Reply(t)
  BY <1>3, <1>12 DEF Reply
<1>13. CASE CallTool(t)
  BY <1>4, <1>13 DEF CallTool
<1>14. CASE Gate(t)
  BY <1>3, <1>14 DEF Gate
<1>15. CASE AutoApproved(t)
  BY <1>3, <1>15 DEF AutoApproved
<1>16. CASE RegisterWaiter(t)
  BY <1>3, <1>16 DEF RegisterWaiter
<1>17. CASE Wake(t)
  <2>1. ASSUME NEW next \in {"close", "running"}, pc' = [pc EXCEPT ![t] = next],
               log' = log, meta' = meta
        PROVE  Moves(t, next, <<>>)
    BY <1>3, <1>17, <2>1 DEF Wake
  <2>2. CASE Denied(t)
    BY <1>4, <1>17, <2>2 DEF Wake, Denied
  <2> QED
    BY <1>17, <2>1, <2>2 DEF Wake, Denied
<1>18. CASE FinishTool(t)
  BY <1>4, <1>18 DEF FinishTool
<1>19. CASE Interrupted(t)
  BY <1>3, <1>19 DEF Interrupted
<1>20. CASE Close(t)
  <2>1. PICK results \in Results(meta) : log' = log \o results \o <<Entry(t, "end")>>
    BY <1>20 DEF Close
  <2> DEFINE events == results \o <<Entry(t, "end")>>
  <2>2. meta \subseteq {t}
    <3>1. \A u \in Turn \ {t} : pc[u] \in Responded \cup {"unsent"}
      BY RpcAssumption, <1>20, Alone DEF Close, Turn
    <3> QED
      BY <1>2, <3>1
  <2>3. results \in Seq(Event) /\ \A i \in 1 .. Len(results) : results[i].turn = t
    BY <1>2, <2>1, <2>2, ResultsType
  <2>4. events \in Seq(Event) /\ log' = log \o events
    BY <1>1, <2>1, <2>3 DEF TypeOK
  <2>5. \A i \in 1 .. Len(events) : events[i].turn = t
    BY <1>1, <2>3
  <2>6. Moves(t, "respond", events)
    BY <1>20, <2>4, <2>5 DEF Close, Moves
  <2> QED
    BY <2>6
<1> QED
  BY <1>5, <1>6, <1>7, <1>8, <1>9, <1>10, <1>11, <1>12, <1>13, <1>14, <1>15, <1>16, <1>17,
     <1>18, <1>19, <1>20 DEF TurnThread

\* The dispatch thread, when a message waits for the response to the last.
LEMMA DispatchKeepsOrder ==
  ASSUME calm, TurnInvariant, TypeOK', Dispatch
  PROVE  TurnInvariant'
<1> USE DEF TurnInvariant
<1>0. pc \in [Turn -> Locations] /\ Turn \subseteq Int
  BY RpcAssumption DEF TypeOK, Turn
<1>1. CASE Stop
  BY <1>1 DEF Stop, InOrder, LogSorted, WritersStarted, OwnCalls, Fresh
<1>2. ASSUME NEW t \in Turn, NEW approved \in {"approve", "deny"}, Answer(t, approved)
      PROVE  TurnInvariant'
  BY <1>2 DEF Answer, InOrder, LogSorted, WritersStarted, OwnCalls, Fresh
<1>3. ASSUME NEW t \in Turn, Send(t) PROVE TurnInvariant'
  <2>1. \A u \in Turn : u < t => pc[u] \in Responded
    BY RpcAssumption, <1>3 DEF Send, Turn
  <2>2. InOrder'
    <3>1. \A u \in Turn : u > t => pc[u] = "unsent"
      BY <1>3 DEF Send, InOrder, Responded
    <3> QED
      BY <1>0, <1>3, <2>1, <3>1 DEF Send, InOrder
  <2>3. WritersStarted'
    <3>1. \A i \in 1 .. Len(log) : log[i].turn \in Turn \ {t}
      <4>1. \A i \in 1 .. Len(log) : log[i] \in Event
        BY DEF TypeOK
      <4> QED
        BY <1>3, <4>1 DEF Event, WritersStarted, Send, Unstarted
    <3> QED
      BY <1>0, <1>3, <3>1 DEF Send, WritersStarted
  <2>4. OwnCalls' /\ Fresh' /\ LogSorted'
    BY <1>0, <1>3 DEF TypeOK, Send, OwnCalls, Fresh, LogSorted, Calling, Unstarted
  <2> QED
    BY <2>2, <2>3, <2>4
<1>4. ASSUME NEW t \in Turn, Spawn(t) PROVE TurnInvariant'
  <2>1. InOrder' /\ LogSorted'
    BY <1>0, <1>4 DEF Spawn, InOrder, LogSorted, Responded
  <2>2. WritersStarted' /\ OwnCalls'
    <3>1. \A i \in 1 .. Len(log) : log[i].turn \in Turn \ {t}
      <4>1. \A i \in 1 .. Len(log) : log[i] \in Event
        BY DEF TypeOK
      <4> QED
        BY <1>4, <4>1 DEF Event, WritersStarted, Spawn, Unstarted
    <3> QED
      BY <1>0, <1>4, <3>1 DEF TypeOK, Spawn, WritersStarted, OwnCalls, Calling
  <2>3. Fresh'
    BY <1>0, <1>4 DEF TypeOK, Spawn, Fresh
  <2> QED
    BY <2>1, <2>2, <2>3
<1> QED
  BY <1>1, <1>2, <1>3, <1>4 DEF Dispatch

LEMMA TurnStep == calm /\ TurnInvariant /\ TypeOK' /\ [Next]_vars => TurnInvariant'
<1> SUFFICES ASSUME calm, TurnInvariant, TypeOK', [Next]_vars PROVE TurnInvariant'
  OBVIOUS
<1>1. ASSUME NEW t \in Turn, TurnThread(t) PROVE TurnInvariant'
  <2>1. PICK next, events : Moves(t, next, events)
    BY <1>1, ThreadMoves DEF TurnInvariant
  <2> QED
    BY <2>1, MovesKeepOrder
<1>2. CASE UNCHANGED vars
  BY <1>2 DEF vars, TurnInvariant, InOrder, LogSorted, WritersStarted, OwnCalls, Fresh
<1> QED
  BY <1>1, <1>2, DispatchKeepsOrder DEF Next, Quiet

\* The environment does not change its character.
LEMMA CalmStays == [Next]_vars => calm' = calm
<1> SUFFICES ASSUME [Next]_vars PROVE calm' = calm
  OBVIOUS
<1>1. ASSUME NEW t \in Turn, TurnThread(t) PROVE calm' = calm
  BY <1>1 DEF TurnThread, RegisterTask, RegisterLoop, CheckCancelled, Start, Reply, CallTool,
    Gate, AutoApproved, RegisterWaiter, Wake, FinishTool, Interrupted, Close, Respond, Unregister,
    Clear
<1>2. CASE Dispatch
  BY <1>2 DEF Dispatch, Stop, Send, Spawn, Answer
<1> QED
  BY <1>1, <1>2 DEF Next, Quiet, vars

\* In a calm environment the events of a turn are contiguous in the log and a
\* turn's history is the log's when it starts, wherever Stop finds the turns
\* and however their threads run.
THEOREM CalmTurnsAreSequential ==
  Spec => [](CalmTurnsDoNotInterleave /\ HistoryStillMatches)
<1> DEFINE Inv == ApprovalInvariant /\ (calm => TurnInvariant)
<1>1. Init => Inv
  BY RpcAssumption DEF Init, TurnInvariant, InOrder, LogSorted, WritersStarted, OwnCalls, Fresh,
    ApprovalInvariant, TypeOK, Approvals, RunsOnlyApproved, Locations, Answers
<1>2. Inv /\ [Next]_vars => Inv'
  BY TurnStep, CalmStays, ApprovalStep DEF ApprovalInvariant
<1>3. TurnInvariant => TurnsDoNotInterleave
  <2> SUFFICES ASSUME TurnInvariant, NEW i \in DOMAIN log, NEW k \in DOMAIN log,
                      i < k, log[i].turn = log[k].turn, NEW j \in i .. k
               PROVE  log[j].turn = log[i].turn
    BY DEF TurnsDoNotInterleave
  <2>1. DOMAIN log = 1 .. Len(log) /\ \A n \in 1 .. Len(log) : log[n].turn \in Int
    <3>1. \A n \in 1 .. Len(log) : log[n] \in Event
      BY DEF TurnInvariant, TypeOK
    <3> QED
      BY RpcAssumption, <3>1 DEF TurnInvariant, TypeOK, Event, Turn
  <2>2. log[i].turn <= log[j].turn /\ log[j].turn <= log[k].turn
    BY <2>1 DEF TurnInvariant, LogSorted
  <2> QED
    BY <2>1, <2>2
<1>4. Inv => CalmTurnsDoNotInterleave /\ HistoryStillMatches
  BY <1>3 DEF TurnInvariant, Fresh, CalmTurnsDoNotInterleave, HistoryStillMatches, Unstarted
<1> QED
  BY <1>1, <1>2, <1>4, PTL DEF Spec

\* A turn never fails because its history does not match: between chat/send's
\* reading of the log and the turn's first event nobody appends.
THEOREM CalmHistoryMatches == Spec => []HistoryStillMatches
BY CalmTurnsAreSequential, PTL

-----------------------------------------------------------------------------
(* The clients of the language servers *)

\* The points of a call, and the frames.
Pcs == {"idle", "looks", "takes", "gated", "spawns", "installs", "passes", "stats", "reads",
        "records", "asks", "registers", "writes", "awaits", "drains"}
Frames == {"-", "initialize", "initialized", "query", "text"}

CallState == [pc : Pcs, op : {"-", "edit", "query", "diagnostics"}, on : Nat, behind : Callers \cup {"-"},
              frame : Frames, seen : Nat, text : Nat, tries : Nat,
              got : {"-", "result", "modified", "error"}, late : BOOLEAN]

ServerState == [life : {"up", "dead"}, stalled : BOOLEAN, pump : {"reads", "replies", "over"},
                queue : Seq(Callers \cup {"pump"}), broken : BOOLEAN, shut : BOOLEAN,
                waiters : SUBSET Callers, asked : SUBSET Callers, text : Nat, synced : Nat]

Typed ==
  /\ disk \in Nat
  /\ server \in Seq(ServerState)
  /\ registered \in 0..Len(server)
  /\ gate \in Callers \cup {"none"}
  /\ call \in [Callers -> CallState]
  /\ manager \in [pc : {"open", "closes", "shut"}, at : 0..Len(server)]

\* which frame, and which client, a thread has at each point
PlacedAt(r) ==
  /\ r.on <= Len(server)
  /\ r.on = 0 <=> r.pc \in {"idle", "looks", "takes", "gated", "spawns", "installs", "passes"}
  /\ r.pc \in {"asks", "registers", "awaits"} => r.frame \in {"initialize", "query"}
  /\ r.pc = "writes" => r.frame # "-"
  /\ r.pc \notin {"asks", "registers", "awaits", "writes"} => r.frame = "-"

Placed == \A c \in Callers : PlacedAt(call[c])

Queued ==
  \A k \in Ids :
    LET q == server[k].queue
    IN  /\ \A i \in 1..Len(q) : q[i] # "pump" => At(q[i], "writes") /\ call[q[i]].on = k
        /\ \A i, j \in 1..Len(q) : q[i] = q[j] /\ q[i] # "pump" => i = j

Attended ==
  \A c \in Callers :
    /\ call[c].pc \in {"writes", "awaits"} /\ call[c].frame \in {"initialize", "query"}
    /\ ~call[c].late /\ call[c].got = "-"
    => c \in server[call[c].on].waiters /\ ~server[call[c].on].broken

\* c has taken the gate
Holding(c) == Starting(c) /\ call[c].pc # "takes"

Private ==
  \A c \in Callers :
    Starting(c) /\ call[c].on # 0 =>
      /\ registered # call[c].on
      /\ \A d \in Callers \ {c} : call[d].on # call[c].on

Dated ==
  /\ \A k \in Ids : server[k].text <= disk /\ server[k].synced <= disk
  /\ \A c \in Callers : call[c].seen <= disk /\ call[c].text <= disk

InStep ==
  "sync" \notin races =>
    /\ \A c, d \in Callers : Syncing(c) /\ Syncing(d) /\ call[c].on = call[d].on => c = d
    /\ \A c \in Callers : call[c].frame = "text" => call[c].seen <= call[c].text
    /\ \A c \in Callers :
         call[c].pc = "records" /\ server[call[c].on].life = "up" => call[c].seen <= server[call[c].on].text
    /\ \A k \in Ids :
         server[k].life = "up" /\ (\A c \in Callers : ~(Syncing(c) /\ call[c].on = k)) => server[k].synced <= server[k].text

Gated ==
  "start" \notin races => \A c \in Callers : Holding(c) => gate = c /\ registered = 0

Closing ==
  manager.pc = "closes" =>
    /\ manager.at \in Ids /\ server[manager.at].life = "dead"
    /\ "closing" \notin races => registered = manager.at

\* the installer's lock is held by a thread that waits for the installer
Installing == \A c \in Callers : installing = c => At(c, "installs")

LspInvariant ==
  /\ Installing /\ Typed /\ Placed /\ Queued /\ Attended /\ Private /\ Dated /\ InStep /\ Gated /\ Closing
  /\ CalmNoStrayServer


\* Facts about the data.  The points of a call, and the frames.
LEMMA PcsAre ==
  /\ "idle" \in Pcs /\ "looks" \in Pcs /\ "takes" \in Pcs /\ "gated" \in Pcs
  /\ "spawns" \in Pcs /\ "installs" \in Pcs /\ "passes" \in Pcs /\ "stats" \in Pcs
  /\ "reads" \in Pcs /\ "records" \in Pcs /\ "asks" \in Pcs /\ "registers" \in Pcs
  /\ "writes" \in Pcs /\ "awaits" \in Pcs /\ "drains" \in Pcs
  /\ "-" \in Frames /\ "initialize" \in Frames /\ "initialized" \in Frames
  /\ "query" \in Frames /\ "text" \in Frames
BY DEF Pcs, Frames

\* A call that has ended is a call.
LEMMA NoCallTyped == NoCall \in CallState
BY DEF NoCall, CallState, Pcs, Frames

\* A new client, and one that was shut down, are clients.
LEMMA NewServerTyped ==
  /\ NewServer \in ServerState
  /\ ShutServer \in ServerState
<1>1. <<>> \in Seq(Callers \cup {"pump"})
  OBVIOUS
<1>2. NewServer \in ServerState
  BY <1>1 DEF NewServer, ServerState
<1>3. ShutServer \in ServerState
  BY <1>2 DEF ShutServer, ServerState
<1> QED
  BY <1>2, <1>3

\* What the end of a process and of a client leave of it.
LEMMA EndTyped ==
  ASSUME NEW s \in ServerState
  PROVE  /\ Dead(s) \in ServerState /\ Broken(s) \in ServerState
         /\ Dead(s).queue = s.queue /\ Dead(s).waiters = s.waiters
         /\ Dead(s).broken = s.broken /\ Dead(s).synced = s.synced
         /\ Dead(s).life = "dead" /\ Dead(s).text = 0
         /\ Broken(s).queue = s.queue /\ Broken(s).waiters = {}
         /\ Broken(s).broken /\ Broken(s).synced = s.synced
         /\ Broken(s).life = s.life /\ Broken(s).text = s.text
BY DEF Dead, Broken, ServerState

\* One client of the sequence is replaced.
LEMMA ServerReplaced ==
  ASSUME server \in Seq(ServerState), NEW k \in Ids, NEW s \in ServerState
  PROVE  LET t == [server EXCEPT ![k] = s]
         IN  /\ t \in Seq(ServerState) /\ Len(t) = Len(server)
             /\ t[k] = s /\ \A j \in Ids \ {k} : t[j] = server[j]
<1>1. DOMAIN server = 1..Len(server)
  OBVIOUS
<1> QED
  BY <1>1, ExceptSeq DEF Ids

\* The queue without a frame: the others stay, in their order.
LEMMA WithoutTyped ==
  ASSUME NEW q \in Seq(Callers \cup {"pump"}), NEW who
  PROVE  /\ Without(q, who) \in Seq(Callers \cup {"pump"})
         /\ \A i \in 1..Len(Without(q, who)) : \E j \in 1..Len(q) : Without(q, who)[i] = q[j]
<1> DEFINE at == CHOOSE i \in DOMAIN q : q[i] = who
           t == [i \in 1..Len(q) - 1 |-> IF i < at THEN q[i] ELSE q[i + 1]]
<1>1. DOMAIN q = 1..Len(q) /\ Len(q) \in Nat
  OBVIOUS
<1>2. CASE ~\E i \in DOMAIN q : q[i] = who
  <2>1. Without(q, who) = q
    BY <1>2 DEF Without
  <2> QED
    BY <2>1
<1>3. CASE \E i \in DOMAIN q : q[i] = who
  <2>1. Without(q, who) = t
    BY <1>3 DEF Without
  <2>2. at \in 1..Len(q)
    BY <1>1, <1>3
  <2>3. Len(q) - 1 \in Nat
    BY <1>1, <2>2
  <2>4. \A i \in 1..Len(q) - 1 : i \in 1..Len(q) /\ i + 1 \in 1..Len(q)
    BY <1>1
  <2> HIDE DEF at
  <2>5. \A i \in 1..Len(q) - 1 : t[i] \in Callers \cup {"pump"} /\ (t[i] = q[i] \/ t[i] = q[i + 1])
    BY <2>4
  <2>6. t \in [1..Len(q) - 1 -> Callers \cup {"pump"}]
    BY <2>5
  <2>7. t \in Seq(Callers \cup {"pump"}) /\ Len(t) = Len(q) - 1
    BY <2>3, <2>6
  <2> HIDE DEF t
  <2> QED
    BY <2>1, <2>4, <2>5, <2>7
<1> QED
  BY <1>2, <1>3

\* Of a queue that has each thread once at most.
LEMMA WithoutOnce ==
  ASSUME NEW q \in Seq(Callers \cup {"pump"}), NEW who,
         \A i, j \in 1..Len(q) : q[i] = q[j] /\ q[i] # "pump" => i = j
  PROVE  LET r == Without(q, who)
         IN  /\ \A i, j \in 1..Len(r) : r[i] = r[j] /\ r[i] # "pump" => i = j
             /\ who # "pump" => \A i \in 1..Len(r) : r[i] # who
<1> DEFINE at == CHOOSE i \in DOMAIN q : q[i] = who
           t == [i \in 1..Len(q) - 1 |-> IF i < at THEN q[i] ELSE q[i + 1]]
<1>1. DOMAIN q = 1..Len(q) /\ Len(q) \in Nat
  OBVIOUS
<1>2. CASE ~\E i \in DOMAIN q : q[i] = who
  <2>1. Without(q, who) = q
    BY <1>2 DEF Without
  <2> QED
    BY <1>1, <1>2, <2>1
<1>3. CASE \E i \in DOMAIN q : q[i] = who
  <2>1. Without(q, who) = t
    BY <1>3 DEF Without
  <2>2. at \in 1..Len(q) /\ q[at] = who
    BY <1>1, <1>3
  <2>3. Len(q) - 1 \in Nat
    BY <1>1, <2>2
  <2> DEFINE from(i) == IF i < at THEN i ELSE i + 1
  <2> HIDE DEF at
  <2>4. \A i \in 1..Len(q) - 1 : from(i) \in 1..Len(q) /\ from(i) # at
    BY <1>1, <2>2
  <2>5. \A i, j \in 1..Len(q) - 1 : from(i) = from(j) => i = j
    BY <1>1, <2>2
  <2>6. \A i \in 1..Len(q) - 1 : t[i] = q[from(i)]
    OBVIOUS
  <2>7. t \in [1..Len(q) - 1 -> Callers \cup {"pump"}]
    BY <2>4, <2>6
  <2>8. Len(t) = Len(q) - 1
    BY <2>3, <2>7
  <2> HIDE DEF t, from
  <2>9. \A i, j \in 1..Len(t) : t[i] = t[j] /\ t[i] # "pump" => i = j
    BY <2>4, <2>5, <2>6, <2>8
  <2>10. who # "pump" => \A i \in 1..Len(t) : t[i] # who
    BY <2>2, <2>4, <2>6, <2>8
  <2> QED
    BY <2>1, <2>9, <2>10
<1> QED
  BY <1>2, <1>3

\* Calls that differ at most in that some have heard something.
Rung(before, after) ==
  /\ after \in [Callers -> CallState]
  /\ \A c \in Callers :
       /\ after[c].pc = before[c].pc /\ after[c].on = before[c].on
       /\ after[c].frame = before[c].frame /\ after[c].seen = before[c].seen
       /\ after[c].text = before[c].text /\ after[c].late = before[c].late
       /\ after[c].got # before[c].got => after[c].got # "-"

\* Calls that differ at most in that waiters for a start go on.
Freed(before, after) ==
  /\ after \in [Callers -> CallState]
  /\ \A c \in Callers :
       /\ after[c].pc = before[c].pc \/ (before[c].pc = "gated" /\ after[c].pc = "passes")
       /\ after[c].on = before[c].on
       /\ after[c].frame = before[c].frame /\ after[c].seen = before[c].seen
       /\ after[c].text = before[c].text /\ after[c].late = before[c].late
       /\ after[c].got = before[c].got

\* The waiters of a broken client are woken, and no call moves.
LEMMA WokenCalls ==
  ASSUME NEW k, NEW calls \in [Callers -> CallState]
  PROVE  /\ Rung(calls, Woken(k, calls))
         /\ \A c \in Callers : c \in server[k].waiters => Woken(k, calls)[c].got = "error"
BY DEF Woken, Rung, CallState

\* The gate that c held opens, and no other call moves.
LEMMA OpenedCalls ==
  ASSUME NEW c, NEW calls \in [Callers -> CallState]
  PROVE  Freed(calls, Opened(c, calls))
<1>1. \A d \in Callers : calls[d] \in CallState
  OBVIOUS
<1>p. "passes" \in Pcs
  BY DEF Pcs
<1>2. ASSUME NEW b \in CallState
      PROVE  [b EXCEPT !.pc = "passes", !.behind = "-"] \in CallState
  BY <1>p DEF CallState
<1>3. \A d \in Callers : Opened(c, calls)[d] =
         IF calls[d].pc = "gated" /\ calls[d].behind = c
           THEN [calls[d] EXCEPT !.pc = "passes", !.behind = "-"] ELSE calls[d]
  BY DEF Opened
<1>4. Opened(c, calls) \in [Callers -> CallState]
  BY <1>1, <1>2, Zenon DEF Opened
<1>5. \A d \in Callers :
        LET o == Opened(c, calls)[d]  b == calls[d]
        IN  /\ o.pc = b.pc \/ (b.pc = "gated" /\ o.pc = "passes")
            /\ o.on = b.on /\ o.frame = b.frame /\ o.seen = b.seen
            /\ o.text = b.text /\ o.late = b.late /\ o.got = b.got
  <2> SUFFICES ASSUME NEW d \in Callers
               PROVE  LET o == Opened(c, calls)[d]  b == calls[d]
                      IN  /\ o.pc = b.pc \/ (b.pc = "gated" /\ o.pc = "passes")
                          /\ o.on = b.on /\ o.frame = b.frame /\ o.seen = b.seen
                          /\ o.text = b.text /\ o.late = b.late /\ o.got = b.got
    OBVIOUS
  <2> DEFINE b == calls[d]
             p == [b EXCEPT !.pc = "passes", !.behind = "-"]
  <2>1. b \in CallState
    BY <1>1
  <2>2. /\ p.pc = "passes" /\ p.on = b.on /\ p.frame = b.frame /\ p.seen = b.seen
        /\ p.text = b.text /\ p.late = b.late /\ p.got = b.got
    BY <2>1 DEF CallState
  <2>3. Opened(c, calls)[d] = IF b.pc = "gated" /\ b.behind = c THEN p ELSE b
    BY <1>3
  <2> HIDE DEF b, p
  <2>4. CASE b.pc = "gated" /\ b.behind = c
    <3>1. Opened(c, calls)[d] = p
      BY <2>3, <2>4
    <3> QED
      BY <3>1, <2>2, <2>4 DEF b
  <2>5. CASE ~(b.pc = "gated" /\ b.behind = c)
    <3>1. Opened(c, calls)[d] = b
      BY <2>3, <2>5
    <3> QED
      BY <3>1 DEF b
  <2> QED
    BY <2>4, <2>5
<1> QED
  BY <1>4, <1>5 DEF Freed

\* The fields of the clients and of the calls.
Fields ==
  /\ disk \in Nat /\ Len(server) \in Nat /\ DOMAIN server = Ids /\ DOMAIN call = Callers
  /\ \A k \in Ids : /\ server[k] \in ServerState
                   /\ server[k].text \in Nat /\ server[k].synced \in Nat
                   /\ server[k].queue \in Seq(Callers \cup {"pump"})
                   /\ server[k].waiters \subseteq Callers
                   /\ \A i \in 1..Len(server[k].queue) :
                        server[k].queue[i] \in Callers \cup {"pump"}
  /\ \A c \in Callers : /\ call[c] \in CallState
                       /\ call[c].on \in Nat /\ call[c].seen \in Nat /\ call[c].text \in Nat

\* They have their types.
LEMMA FieldsTyped == Typed => Fields
<1> SUFFICES ASSUME Typed PROVE Fields
  OBVIOUS
<1>1. /\ disk \in Nat /\ Len(server) \in Nat /\ DOMAIN server = Ids /\ DOMAIN call = Callers
  BY DEF Typed, Ids
<1>2. ASSUME NEW k \in Ids
      PROVE  /\ server[k] \in ServerState
             /\ server[k].text \in Nat /\ server[k].synced \in Nat
             /\ server[k].queue \in Seq(Callers \cup {"pump"})
             /\ server[k].waiters \subseteq Callers
  <2>1. server[k] \in ServerState
    BY DEF Typed, Ids
  <2> QED
    BY <2>1 DEF ServerState
<1>3. ASSUME NEW k \in Ids, NEW i \in 1..Len(server[k].queue)
      PROVE  server[k].queue[i] \in Callers \cup {"pump"}
  BY <1>2
<1>4. ASSUME NEW c \in Callers
      PROVE  /\ call[c] \in CallState
             /\ call[c].on \in Nat /\ call[c].seen \in Nat /\ call[c].text \in Nat
  <2>1. call[c] \in CallState
    BY DEF Typed
  <2> QED
    BY <2>1 DEF CallState
<1> QED
  BY <1>1, <1>2, <1>3, <1>4 DEF Fields

\* CALM: the three properties follow from the invariant.
LEMMA CalmFollows ==
  ASSUME LspInvariant
  PROVE  CalmNobodyIsStranded /\ CalmTextIsCurrent /\ CalmNoStrayServer
<1> USE DEF LspInvariant
<1>1. CalmNobodyIsStranded
  BY DEF CalmNobodyIsStranded, Attended, Placed, PlacedAt, At
<1>2. ASSUME NEW k \in Ids, server[k].life = "up", server[k].synced = disk, "sync" \notin races,
             ~\E c \in Callers : Syncing(c) /\ call[c].on = k
      PROVE  server[k].text = disk
  <2>1. server[k].synced <= server[k].text
    BY <1>2 DEF InStep
  <2>2. server[k].text <= disk
    BY <1>2 DEF Dated
  <2>3. server[k].text \in Nat /\ disk \in Nat
    <3>1. server[k] \in ServerState
      BY <1>2 DEF Typed, Ids
    <3> QED
      BY <3>1 DEF ServerState, Typed
  <2> QED
    BY <1>2, <2>1, <2>2, <2>3
<1>3. CalmTextIsCurrent
  BY <1>2 DEF CalmTextIsCurrent
<1> QED
  BY <1>1, <1>3

\* What a step may do to the calls and the clients and keep a part of the
\* invariant.  First the queues.
LEMMA QueuedKept ==
  ASSUME Typed, Queued, Typed',
         \A k \in Ids' :
           \/ server'[k].queue = <<>>
           \/ /\ k \in Ids /\ server'[k].queue = server[k].queue
              /\ \A d \in Callers : call[d].pc = "writes" /\ call[d].on = k =>
                                     call'[d].pc = "writes" /\ call'[d].on = k
  PROVE  Queued'
<1> SUFFICES ASSUME NEW k \in Ids'
             PROVE  LET q == server'[k].queue
                    IN  /\ \A i \in 1..Len(q) : q[i] # "pump" => call'[q[i]].pc = "writes" /\ call'[q[i]].on = k
                        /\ \A i, j \in 1..Len(q) : q[i] = q[j] /\ q[i] # "pump" => i = j
  BY DEF Queued, At
<1>1. CASE server'[k].queue = <<>>
  <2>1. 1..Len(server'[k].queue) = {}
    BY <1>1
  <2> QED
    BY <2>1
<1>2. CASE server'[k].queue # <<>>
  <2>1. /\ k \in Ids /\ server'[k].queue = server[k].queue
        /\ \A d \in Callers : call[d].pc = "writes" /\ call[d].on = k =>
                               call'[d].pc = "writes" /\ call'[d].on = k
    BY <1>2
  <2>2. \A i \in 1..Len(server[k].queue) : server[k].queue[i] # "pump" =>
          /\ server[k].queue[i] \in Callers
          /\ call[server[k].queue[i]].pc = "writes" /\ call[server[k].queue[i]].on = k
    BY <2>1, FieldsTyped DEF Fields, Queued, At
  <2> QED
    BY <2>1, <2>2 DEF Queued
<1> QED
  BY <1>1, <1>2

\* The waiters.
LEMMA AttendedKept ==
  ASSUME Typed, Attended,
         \A d \in Callers :
           /\ call'[d].pc \in {"writes", "awaits"} /\ call'[d].frame \in {"initialize", "query"}
           /\ ~call'[d].late /\ call'[d].got = "-"
           => /\ call[d].pc \in {"writes", "awaits"} /\ call[d].frame \in {"initialize", "query"}
              /\ ~call[d].late /\ call[d].got = "-" /\ call'[d].on = call[d].on
              /\ d \in server[call[d].on].waiters => d \in server'[call[d].on].waiters
              /\ ~server[call[d].on].broken => ~server'[call[d].on].broken
  PROVE  Attended'
BY DEF Attended

\* The clients that are being started.
LEMMA PrivateKept ==
  ASSUME Private, registered' \in {registered, 0},
         \A d \in Callers : /\ call'[d].on \in {call[d].on, registered, 0}
                            /\ (Starting(d))' /\ call'[d].on # 0 => Starting(d) /\ call'[d].on = call[d].on
  PROVE  Private'
BY DEF Private

\* The gate.
LEMMA GatedKept ==
  ASSUME Gated, registered' \in {registered, 0}, gate' = gate, races \subseteq races',
         \A d \in Callers : (Holding(d))' => Holding(d)
  PROVE  Gated'
BY DEF Gated

\* The processes.
LEMMA StrayKept ==
  ASSUME Typed, CalmNoStrayServer, registered' = registered, races \subseteq races',
         \A k \in Ids' : server'[k].life = "up" =>
           /\ k \in Ids /\ server[k].life = "up"
           /\ \A d \in Callers : Starting(d) /\ call[d].on = k => (Starting(d))' /\ call'[d].on = k
  PROVE  CalmNoStrayServer'
<1> SUFFICES ASSUME NEW k \in Ids', server'[k].life = "up", races' \intersect {"start", "closing"} = {}
             PROVE  k = registered' \/ \E c \in Callers : (Starting(c))' /\ call'[c].on = k
  BY DEF CalmNoStrayServer
<1>1. /\ k \in Ids /\ server[k].life = "up"
      /\ \A d \in Callers : Starting(d) /\ call[d].on = k => (Starting(d))' /\ call'[d].on = k
  OBVIOUS
<1>2. races \intersect {"start", "closing"} = {}
  OBVIOUS
<1>3. k = registered \/ \E c \in Callers : Starting(c) /\ call[c].on = k
  BY <1>1, <1>2 DEF CalmNoStrayServer
<1> QED
  BY <1>1, <1>3

\* What d's call has to do with the synchronisation of the text.
SyncSame(d) ==
  /\ (Syncing(d))' <=> Syncing(d)
  /\ Syncing(d) => /\ call'[d].pc = call[d].pc /\ call'[d].on = call[d].on
                   /\ call'[d].frame = call[d].frame /\ call'[d].seen = call[d].seen
                   /\ call'[d].text = call[d].text

\* The texts, by a step that synchronises nothing.
LEMMA InStepKept ==
  ASSUME Typed, Placed, InStep, races \subseteq races', Typed', Placed',
         \A d \in Callers : SyncSame(d),
         \A k \in Ids' : server'[k].life = "up" =>
           \/ /\ k \in Ids /\ server[k].life = "up"
              /\ server'[k].text = server[k].text /\ server'[k].synced = server[k].synced
           \/ server'[k].text = 0 /\ server'[k].synced = 0 /\ \A d \in Callers : call[d].on # k
  PROVE  InStep'
<1> SUFFICES ASSUME "sync" \notin races' PROVE InStep'
  BY DEF InStep
<1>0. "sync" \notin races
  OBVIOUS
<1>1. \A c, d \in Callers : (Syncing(c))' /\ (Syncing(d))' /\ call'[c].on = call'[d].on => c = d
  BY <1>0 DEF InStep, SyncSame
<1>2. \A c \in Callers : call'[c].frame = "text" => call'[c].seen <= call'[c].text
  BY <1>0 DEF InStep, SyncSame, Syncing
<1>3. ASSUME NEW c \in Callers, call'[c].pc = "records", server'[call'[c].on].life = "up"
      PROVE  call'[c].seen <= server'[call'[c].on].text
  <2>1. /\ call[c].pc = "records" /\ call'[c].on = call[c].on /\ call'[c].seen = call[c].seen
    BY <1>3 DEF SyncSame, Syncing
  <2>2. call'[c].on \in Ids'
    <3>1. call[c].on # 0
      BY <2>1 DEF Placed, PlacedAt
    <3>2. call'[c].on \in Nat /\ call'[c].on <= Len(server')
      <4>1. call'[c] \in CallState
        BY DEF Typed
      <4> QED
        BY <4>1 DEF Placed, PlacedAt, CallState
    <3>3. Len(server') \in Nat
      BY DEF Typed
    <3> QED
      BY <2>1, <3>1, <3>2, <3>3 DEF Ids
  <2>3. server[call[c].on].life = "up" /\ server'[call[c].on].text = server[call[c].on].text
    BY <1>3, <2>1, <2>2
  <2> QED
    BY <1>0, <2>1, <2>3 DEF InStep
<1>4. ASSUME NEW k \in Ids', server'[k].life = "up", \A c \in Callers : ~((Syncing(c))' /\ call'[c].on = k)
      PROVE  server'[k].synced <= server'[k].text
  <2>1. CASE /\ k \in Ids /\ server[k].life = "up"
             /\ server'[k].text = server[k].text /\ server'[k].synced = server[k].synced
    <3>1. \A c \in Callers : ~(Syncing(c) /\ call[c].on = k)
      BY <1>4 DEF SyncSame
    <3> QED
      BY <1>0, <2>1, <3>1 DEF InStep
  <2>2. CASE server'[k].text = 0 /\ server'[k].synced = 0
    BY <2>2
  <2> QED
    BY <1>4, <2>1, <2>2
<1> QED
  BY <1>1, <1>2, <1>3, <1>4 DEF InStep

\* The client that is being shut down.
LEMMA ClosingKept ==
  ASSUME Typed, Closing, manager' = manager, registered' = registered, races \subseteq races',
         Len(server') >= Len(server), Len(server') \in Nat,
         \A k \in Ids : server[k].life = "dead" => server'[k].life = "dead"
  PROVE  Closing'
BY FieldsTyped DEF Closing, Fields, Ids

\* The versions of the text.
LEMMA DatedKept ==
  ASSUME Typed, Dated, Typed', disk <= disk',
         \A k \in Ids' : \/ k \in Ids /\ server'[k].text \in {server[k].text, 0}
                            /\ server'[k].synced \in {server[k].synced, 0}
                         \/ server'[k].text = 0 /\ server'[k].synced = 0,
         \A d \in Callers : call'[d].seen \in {call[d].seen, 0} /\ call'[d].text \in {call[d].text, 0}
  PROVE  Dated'
<1>1. disk \in Nat /\ disk' \in Nat
  BY DEF Typed
<1>2. ASSUME NEW k \in Ids' PROVE server'[k].text <= disk' /\ server'[k].synced <= disk'
  <2>1. CASE /\ k \in Ids /\ server'[k].text \in {server[k].text, 0}
             /\ server'[k].synced \in {server[k].synced, 0}
    BY <1>1, <2>1, FieldsTyped DEF Fields, Dated
  <2>2. CASE server'[k].text = 0 /\ server'[k].synced = 0
    BY <1>1, <2>2
  <2> QED
    BY <2>1, <2>2
<1>3. ASSUME NEW d \in Callers PROVE call'[d].seen <= disk' /\ call'[d].text <= disk'
  BY <1>1, FieldsTyped DEF Fields, Dated
<1> QED
  BY <1>2, <1>3 DEF Dated

\* How a step may move a call among the clients.
CallMoves(d) ==
  /\ call'[d].on \in {call[d].on, registered, 0}
  /\ (Starting(d))' /\ call'[d].on # 0 => Starting(d) /\ call'[d].on = call[d].on
  /\ Starting(d) /\ call[d].on # 0 => (Starting(d))' /\ call'[d].on = call[d].on

CallStays(d) ==
  call'[d].pc = call[d].pc /\ call'[d].on = call[d].on /\ call'[d].frame = call[d].frame

\* A call that stays where it is moves none of the starts.
LEMMA StayingMoves ==
  ASSUME NEW d, CallStays(d)
  PROVE  CallMoves(d) /\ (Holding(d) <=> (Holding(d))') /\ (Starting(d) <=> (Starting(d))')
BY DEF CallStays, CallMoves, Starting, Holding

\* What such a step keeps by itself: who starts which client, which client
\* is closed, and that no process is astray.
LEMMA StepKeeps ==
  ASSUME LspInvariant, Typed', Placed', Queued', Attended', InStep', Dated', Gated', Installing',
         registered' = registered, manager' = manager, races \subseteq races',
         Len(server') = Len(server),
         \A k \in Ids : server'[k].life = "up" => server[k].life = "up",
         \A k \in Ids : server[k].life = "dead" => server'[k].life = "dead",
         \A d \in Callers : CallMoves(d)
  PROVE  LspInvariant'
<1>a. Typed /\ Private /\ Closing /\ CalmNoStrayServer /\ Fields
  BY FieldsTyped DEF LspInvariant
<1>i. Ids' = Ids
  BY DEF Ids
<1>1. Private'
  BY <1>a, PrivateKept DEF CallMoves
<1>2. Closing'
  BY <1>a, ClosingKept DEF Fields
<1>3. CalmNoStrayServer'
  <2>1. \A k \in Ids' : server'[k].life = "up" =>
           /\ k \in Ids /\ server[k].life = "up"
           /\ \A d \in Callers : Starting(d) /\ call[d].on = k => (Starting(d))' /\ call'[d].on = k
    <3>1. \A k \in Ids : k # 0
      BY <1>a DEF Ids, Fields
    <3> QED
      BY <1>i, <3>1 DEF CallMoves
  <2> QED
    BY <1>a, <2>1, StrayKept
<1> QED
  BY <1>1, <1>2, <1>3 DEF LspInvariant

\* What a thread's step does to its own call when it neither writes, waits nor
\* synchronises, and touches no client.
LEMMA OwnMove ==
  ASSUME LspInvariant, NEW c \in Callers,
         UNCHANGED <<server, registered, gate, manager>>, races' = races,
         disk <= disk', disk' \in Nat, Installing',
         call' \in [Callers -> CallState],
         \A d \in Callers \ {c} : call'[d] = call[d],
         PlacedAt(call'[c]),
         call[c].pc # "writes", call'[c].pc \notin {"writes", "awaits"},
         call'[c].on \in {call[c].on, registered, 0},
         (Starting(c))' /\ call'[c].on # 0 => Starting(c) /\ call'[c].on = call[c].on,
         (Holding(c))' => Holding(c),
         Starting(c) /\ call[c].on # 0 => (Starting(c))' /\ call'[c].on = call[c].on,
         ~Syncing(c), ~(Syncing(c))',
         call'[c].seen \in {call[c].seen, 0}, call'[c].text \in {call[c].text, 0}
  PROVE  LspInvariant'
<1>a. /\ Typed /\ Placed /\ Queued /\ Attended /\ Private /\ Dated /\ InStep /\ Gated
      /\ Closing /\ CalmNoStrayServer
  BY DEF LspInvariant
<1>f. Fields
  BY <1>a, FieldsTyped
<1>1. Typed'
  BY <1>a DEF Typed
<1>2. Placed'
  BY <1>a DEF Placed, PlacedAt
<1>3. Queued'
  <2>1. \A k \in Ids' :
           /\ k \in Ids /\ server'[k].queue = server[k].queue
           /\ \A d \in Callers : call[d].pc = "writes" /\ call[d].on = k =>
                                     call'[d].pc = "writes" /\ call'[d].on = k
    BY DEF Ids
  <2> QED
    BY <1>a, <1>1, <2>1, QueuedKept
<1>4. Attended'
  <2>1. \A d \in Callers :
           /\ call'[d].pc \in {"writes", "awaits"} /\ call'[d].frame \in {"initialize", "query"}
           /\ ~call'[d].late /\ call'[d].got = "-"
           => /\ call[d].pc \in {"writes", "awaits"} /\ call[d].frame \in {"initialize", "query"}
              /\ ~call[d].late /\ call[d].got = "-" /\ call'[d].on = call[d].on
              /\ d \in server[call[d].on].waiters => d \in server'[call[d].on].waiters
              /\ ~server[call[d].on].broken => ~server'[call[d].on].broken
    OBVIOUS
  <2> QED
    BY <1>a, <2>1, AttendedKept
<1>5. \A d \in Callers : CallMoves(d)
  BY DEF Starting, CallMoves
<1>6. Dated'
  <2>1. \A k \in Ids' : /\ k \in Ids /\ server'[k].text \in {server[k].text, 0}
                        /\ server'[k].synced \in {server[k].synced, 0}
    BY DEF Ids
  <2>2. \A d \in Callers : call'[d].seen \in {call[d].seen, 0} /\ call'[d].text \in {call[d].text, 0}
    OBVIOUS
  <2> QED
    BY <1>a, <1>1, <2>1, <2>2, DatedKept
<1>7. InStep'
  <2>1. \A d \in Callers : SyncSame(d)
    BY DEF SyncSame, Syncing
  <2>2. \A k \in Ids' : server'[k].life = "up" =>
           /\ k \in Ids /\ server[k].life = "up"
           /\ server'[k].text = server[k].text /\ server'[k].synced = server[k].synced
    BY DEF Ids
  <2> QED
    BY <1>a, <1>1, <1>2, <2>1, <2>2, InStepKept
<1>8. Gated'
  <2>1. \A d \in Callers : (Holding(d))' => Holding(d)
    BY DEF Holding, Starting
  <2> QED
    BY <1>a, <2>1, GatedKept
<1> QED
  BY <1>1, <1>2, <1>3, <1>4, <1>5, <1>6, <1>7, <1>8, StepKeeps

StartingAt(r) == r.pc \in {"takes", "spawns", "installs"} \/ r.frame \in {"initialize", "initialized"}

\* Whether a thread starts a client shows in its call.
LEMMA StartingIs == \A c : Starting(c) <=> StartingAt(call[c])
BY DEF Starting, StartingAt

\* The same, with the call the step leaves.
LEMMA OwnRecord ==
  ASSUME LspInvariant, NEW c \in Callers, NEW r \in CallState, PlacedAt(r),
         call' = [call EXCEPT ![c] = r],
         UNCHANGED <<server, registered, gate, manager, races>>,
         disk' \in {disk, disk + 1}, Installing',
         call[c].pc \notin {"writes", "reads", "records"},
         r.pc \notin {"writes", "awaits", "reads", "records"},
         r.on \in {call[c].on, registered, 0}, r.seen \in {call[c].seen, 0}, r.text \in {call[c].text, 0},
         StartingAt(r) /\ r.on # 0 => StartingAt(call[c]) /\ r.on = call[c].on,
         StartingAt(r) /\ r.pc # "takes" => StartingAt(call[c]) /\ call[c].pc # "takes",
         StartingAt(call[c]) /\ call[c].on # 0 => StartingAt(r) /\ r.on = call[c].on
  PROVE  LspInvariant'
<1>a. Typed /\ PlacedAt(call[c]) /\ Fields
  BY FieldsTyped DEF LspInvariant, Placed
<1>1. call'[c] = r /\ \A d \in Callers \ {c} : call'[d] = call[d]
  BY <1>a DEF Fields
<1>2. call' \in [Callers -> CallState] /\ disk <= disk' /\ disk' \in Nat /\ call[c] \in CallState
  BY <1>a DEF Typed
<1>3. call[c].frame # "text" /\ r.frame # "text"
  BY <1>a DEF PlacedAt
<1>4. ~Syncing(c) /\ ~(Syncing(c))'
  BY <1>1, <1>3 DEF Syncing
<1>5. (Starting(c))' = StartingAt(r) /\ Starting(c) = StartingAt(call[c])
  BY <1>1 DEF Starting, StartingAt
<1>6. (Holding(c))' => Holding(c)
  BY <1>1, <1>5 DEF Holding
<1> QED
  BY <1>1, <1>2, <1>4, <1>5, <1>6, OwnMove

\* An edit begins.
LEMMA EditBeginsKeeps ==
  ASSUME LspInvariant, NEW c \in Callers, EditBegins(c)
  PROVE  LspInvariant'
<1>a. Typed /\ PlacedAt(call[c]) /\ Installing /\ Fields /\ call[c] \in CallState
  BY FieldsTyped DEF LspInvariant, Placed, Fields
<1>r. registered \in Nat /\ gate \in Callers \cup {"none"}
  BY <1>a DEF Typed, Fields
<1>b. call[c].pc = "idle" /\ UNCHANGED <<server, registered, gate, manager, races>> /\ disk' \in {disk, disk + 1}
  BY DEF EditBegins, At
<1> DEFINE r == [NoCall EXCEPT !.pc = "looks", !.op = "edit"]
<1>1. r \in CallState
  BY <1>a, <1>r, PcsAre, NoCallTyped DEF CallState
<1>2. call' = [call EXCEPT ![c] = r]
  BY <1>a, <1>b DEF EditBegins, Returns, Goes, At, Typed
<1>3. PlacedAt(r)
  BY <1>a, <1>b DEF PlacedAt, NoCall, Fields, Typed, CallState
<1>4. Installing'
  BY <1>a, <1>b, <1>2, CallersAreThreads DEF Installing, At, Fields, EditBegins
<1>5. /\ call[c].pc \notin {"writes", "reads", "records"}
      /\ r.pc \notin {"writes", "awaits", "reads", "records"}
      /\ r.on \in {call[c].on, registered, 0}
      /\ r.seen \in {call[c].seen, 0} /\ r.text \in {call[c].text, 0}
  BY <1>a, <1>b DEF NoCall, CallState
<1>6. /\ StartingAt(r) /\ r.on # 0 => StartingAt(call[c]) /\ r.on = call[c].on
      /\ StartingAt(r) /\ r.pc # "takes" => StartingAt(call[c]) /\ call[c].pc # "takes"
      /\ StartingAt(call[c]) /\ call[c].on # 0 => StartingAt(r) /\ r.on = call[c].on
  BY <1>a, <1>b DEF StartingAt, PlacedAt, NoCall, CallState
<1> HIDE DEF r
<1> QED
  BY <1>b, <1>1, <1>2, <1>3, <1>4, <1>5, <1>6, OwnRecord

\* A query or a request for diagnostics begins.
LEMMA QueryBeginsKeeps ==
  ASSUME LspInvariant, NEW c \in Callers, QueryBegins(c)
  PROVE  LspInvariant'
<1>a. Typed /\ PlacedAt(call[c]) /\ Installing /\ Fields /\ call[c] \in CallState
  BY FieldsTyped DEF LspInvariant, Placed, Fields
<1>r. registered \in Nat /\ gate \in Callers \cup {"none"}
  BY <1>a DEF Typed, Fields
<1>b. call[c].pc = "idle" /\ UNCHANGED <<server, registered, gate, manager, races>> /\ disk' \in {disk, disk + 1}
  BY DEF QueryBegins, At
<1>1. CASE call' = [call EXCEPT ![c] = [NoCall EXCEPT !.pc = "looks", !.op = "query"]]
  <2> DEFINE r == [NoCall EXCEPT !.pc = "looks", !.op = "query"]
  <2>1. r \in CallState
    BY <1>a, <1>r, PcsAre, NoCallTyped DEF CallState
  <2>2. call' = [call EXCEPT ![c] = r]
    BY <1>a, <1>1, <1>b DEF QueryBegins, Returns, Goes, At, Typed
  <2>3. PlacedAt(r)
    BY <1>a, <1>b, <1>1 DEF PlacedAt, NoCall, Fields, Typed, CallState
  <2>4. Installing'
    BY <1>a, <1>b, <2>2, CallersAreThreads DEF Installing, At, Fields, QueryBegins
  <2>5. /\ call[c].pc \notin {"writes", "reads", "records"}
        /\ r.pc \notin {"writes", "awaits", "reads", "records"}
        /\ r.on \in {call[c].on, registered, 0}
        /\ r.seen \in {call[c].seen, 0} /\ r.text \in {call[c].text, 0}
    BY <1>a, <1>b DEF NoCall, CallState
  <2>6. /\ StartingAt(r) /\ r.on # 0 => StartingAt(call[c]) /\ r.on = call[c].on
        /\ StartingAt(r) /\ r.pc # "takes" => StartingAt(call[c]) /\ call[c].pc # "takes"
        /\ StartingAt(call[c]) /\ call[c].on # 0 => StartingAt(r) /\ r.on = call[c].on
    BY <1>a, <1>b DEF StartingAt, PlacedAt, NoCall, CallState
  <2> HIDE DEF r
  <2> QED
    BY <1>b, <2>1, <2>2, <2>3, <2>4, <2>5, <2>6, OwnRecord
<1>2. CASE call' = [call EXCEPT ![c] = [NoCall EXCEPT !.pc = "looks", !.op = "diagnostics"]]
  <2> DEFINE r == [NoCall EXCEPT !.pc = "looks", !.op = "diagnostics"]
  <2>1. r \in CallState
    BY <1>a, <1>r, PcsAre, NoCallTyped DEF CallState
  <2>2. call' = [call EXCEPT ![c] = r]
    BY <1>a, <1>2, <1>b DEF QueryBegins, Returns, Goes, At, Typed
  <2>3. PlacedAt(r)
    BY <1>a, <1>b, <1>2 DEF PlacedAt, NoCall, Fields, Typed, CallState
  <2>4. Installing'
    BY <1>a, <1>b, <2>2, CallersAreThreads DEF Installing, At, Fields, QueryBegins
  <2>5. /\ call[c].pc \notin {"writes", "reads", "records"}
        /\ r.pc \notin {"writes", "awaits", "reads", "records"}
        /\ r.on \in {call[c].on, registered, 0}
        /\ r.seen \in {call[c].seen, 0} /\ r.text \in {call[c].text, 0}
    BY <1>a, <1>b DEF NoCall, CallState
  <2>6. /\ StartingAt(r) /\ r.on # 0 => StartingAt(call[c]) /\ r.on = call[c].on
        /\ StartingAt(r) /\ r.pc # "takes" => StartingAt(call[c]) /\ call[c].pc # "takes"
        /\ StartingAt(call[c]) /\ call[c].on # 0 => StartingAt(r) /\ r.on = call[c].on
    BY <1>a, <1>b DEF StartingAt, PlacedAt, NoCall, CallState
  <2> HIDE DEF r
  <2> QED
    BY <1>b, <2>1, <2>2, <2>3, <2>4, <2>5, <2>6, OwnRecord
<1> QED
  BY <1>1, <1>2 DEF QueryBegins

\* A call looks at the registered client and at the gate.
LEMMA LooksKeeps ==
  ASSUME LspInvariant, NEW c \in Callers, Looks(c)
  PROVE  LspInvariant'
<1>a. Typed /\ PlacedAt(call[c]) /\ Installing /\ Fields /\ call[c] \in CallState
  BY FieldsTyped DEF LspInvariant, Placed, Fields
<1>r. registered \in Nat /\ gate \in Callers \cup {"none"}
  BY <1>a DEF Typed, Fields
<1>b. call[c].pc = "looks" /\ UNCHANGED <<server, registered, gate, manager, races>> /\ disk' \in {disk, disk + 1}
  BY DEF Looks, At
<1>1. CASE ~Startable(c)
  <2> DEFINE r == NoCall
  <2>1. r \in CallState
    BY NoCallTyped
  <2>2. call' = [call EXCEPT ![c] = r]
    BY <1>a, <1>1, <1>b DEF Looks, Returns, Goes, At, Typed
  <2>3. PlacedAt(r)
    BY <1>a, <1>b, <1>1 DEF PlacedAt, NoCall, Fields, Typed, CallState
  <2>4. Installing'
    BY <1>a, <1>b, <2>2, CallersAreThreads DEF Installing, At, Fields, Looks
  <2>5. /\ call[c].pc \notin {"writes", "reads", "records"}
        /\ r.pc \notin {"writes", "awaits", "reads", "records"}
        /\ r.on \in {call[c].on, registered, 0}
        /\ r.seen \in {call[c].seen, 0} /\ r.text \in {call[c].text, 0}
    BY <1>a, <1>b DEF NoCall, CallState
  <2>6. /\ StartingAt(r) /\ r.on # 0 => StartingAt(call[c]) /\ r.on = call[c].on
        /\ StartingAt(r) /\ r.pc # "takes" => StartingAt(call[c]) /\ call[c].pc # "takes"
        /\ StartingAt(call[c]) /\ call[c].on # 0 => StartingAt(r) /\ r.on = call[c].on
    BY <1>a, <1>b DEF StartingAt, PlacedAt, NoCall, CallState
  <2> HIDE DEF r
  <2> QED
    BY <1>b, <2>1, <2>2, <2>3, <2>4, <2>5, <2>6, OwnRecord
<1>2. CASE Startable(c) /\ registered # 0
  <2> DEFINE r == [call[c] EXCEPT !.pc = "stats", !.on = registered]
  <2>1. r \in CallState
    BY <1>a, <1>r, PcsAre, NoCallTyped DEF CallState
  <2>2. call' = [call EXCEPT ![c] = r]
    BY <1>a, <1>2, <1>b DEF Looks, Returns, Goes, At, Typed
  <2>3. PlacedAt(r)
    BY <1>a, <1>b, <1>2 DEF PlacedAt, NoCall, Fields, Typed, CallState
  <2>4. Installing'
    BY <1>a, <1>b, <2>2, CallersAreThreads DEF Installing, At, Fields, Looks
  <2>5. /\ call[c].pc \notin {"writes", "reads", "records"}
        /\ r.pc \notin {"writes", "awaits", "reads", "records"}
        /\ r.on \in {call[c].on, registered, 0}
        /\ r.seen \in {call[c].seen, 0} /\ r.text \in {call[c].text, 0}
    BY <1>a, <1>b DEF NoCall, CallState
  <2>6. /\ StartingAt(r) /\ r.on # 0 => StartingAt(call[c]) /\ r.on = call[c].on
        /\ StartingAt(r) /\ r.pc # "takes" => StartingAt(call[c]) /\ call[c].pc # "takes"
        /\ StartingAt(call[c]) /\ call[c].on # 0 => StartingAt(r) /\ r.on = call[c].on
    BY <1>a, <1>b DEF StartingAt, PlacedAt, NoCall, CallState
  <2> HIDE DEF r
  <2> QED
    BY <1>b, <2>1, <2>2, <2>3, <2>4, <2>5, <2>6, OwnRecord
<1>3. CASE Startable(c) /\ registered = 0 /\ gate # "none"
  <2> DEFINE r == [call[c] EXCEPT !.pc = "gated", !.behind = gate]
  <2>1. r \in CallState
    BY <1>3, <1>a, <1>r, PcsAre, NoCallTyped DEF CallState
  <2>2. call' = [call EXCEPT ![c] = r]
    BY <1>a, <1>3, <1>b DEF Looks, Returns, Goes, At, Typed
  <2>3. PlacedAt(r)
    BY <1>a, <1>b, <1>3 DEF PlacedAt, NoCall, Fields, Typed, CallState
  <2>4. Installing'
    BY <1>a, <1>b, <2>2, CallersAreThreads DEF Installing, At, Fields, Looks
  <2>5. /\ call[c].pc \notin {"writes", "reads", "records"}
        /\ r.pc \notin {"writes", "awaits", "reads", "records"}
        /\ r.on \in {call[c].on, registered, 0}
        /\ r.seen \in {call[c].seen, 0} /\ r.text \in {call[c].text, 0}
    BY <1>a, <1>b DEF NoCall, CallState
  <2>6. /\ StartingAt(r) /\ r.on # 0 => StartingAt(call[c]) /\ r.on = call[c].on
        /\ StartingAt(r) /\ r.pc # "takes" => StartingAt(call[c]) /\ call[c].pc # "takes"
        /\ StartingAt(call[c]) /\ call[c].on # 0 => StartingAt(r) /\ r.on = call[c].on
    BY <1>a, <1>b DEF StartingAt, PlacedAt, NoCall, CallState
  <2> HIDE DEF r
  <2> QED
    BY <1>b, <2>1, <2>2, <2>3, <2>4, <2>5, <2>6, OwnRecord
<1>4. CASE Startable(c) /\ registered = 0 /\ gate = "none"
  <2> DEFINE r == [call[c] EXCEPT !.pc = "takes"]
  <2>1. r \in CallState
    BY <1>a, <1>r, PcsAre, NoCallTyped DEF CallState
  <2>2. call' = [call EXCEPT ![c] = r]
    BY <1>a, <1>4, <1>b DEF Looks, Returns, Goes, At, Typed
  <2>3. PlacedAt(r)
    BY <1>a, <1>b, <1>4 DEF PlacedAt, NoCall, Fields, Typed, CallState
  <2>4. Installing'
    BY <1>a, <1>b, <2>2, CallersAreThreads DEF Installing, At, Fields, Looks
  <2>5. /\ call[c].pc \notin {"writes", "reads", "records"}
        /\ r.pc \notin {"writes", "awaits", "reads", "records"}
        /\ r.on \in {call[c].on, registered, 0}
        /\ r.seen \in {call[c].seen, 0} /\ r.text \in {call[c].text, 0}
    BY <1>a, <1>b DEF NoCall, CallState
  <2>6. /\ StartingAt(r) /\ r.on # 0 => StartingAt(call[c]) /\ r.on = call[c].on
        /\ StartingAt(r) /\ r.pc # "takes" => StartingAt(call[c]) /\ call[c].pc # "takes"
        /\ StartingAt(call[c]) /\ call[c].on # 0 => StartingAt(r) /\ r.on = call[c].on
    BY <1>a, <1>b DEF StartingAt, PlacedAt, NoCall, CallState
  <2> HIDE DEF r
  <2> QED
    BY <1>b, <2>1, <2>2, <2>3, <2>4, <2>5, <2>6, OwnRecord
<1> QED
  BY <1>1, <1>2, <1>3, <1>4 DEF Looks

\* A call behind the gate goes on.
LEMMA PassesKeeps ==
  ASSUME LspInvariant, NEW c \in Callers, Passes(c)
  PROVE  LspInvariant'
<1>a. Typed /\ PlacedAt(call[c]) /\ Installing /\ Fields /\ call[c] \in CallState
  BY FieldsTyped DEF LspInvariant, Placed, Fields
<1>r. registered \in Nat /\ gate \in Callers \cup {"none"}
  BY <1>a DEF Typed, Fields
<1>b. call[c].pc = "passes" /\ UNCHANGED <<server, registered, gate, manager, races>> /\ disk' \in {disk, disk + 1}
  BY DEF Passes, At
<1>1. CASE registered = 0
  <2> DEFINE r == NoCall
  <2>1. r \in CallState
    BY NoCallTyped
  <2>2. call' = [call EXCEPT ![c] = r]
    BY <1>a, <1>1, <1>b DEF Passes, Returns, Goes, At, Typed
  <2>3. PlacedAt(r)
    BY <1>a, <1>b, <1>1 DEF PlacedAt, NoCall, Fields, Typed, CallState
  <2>4. Installing'
    BY <1>a, <1>b, <2>2, CallersAreThreads DEF Installing, At, Fields, Passes
  <2>5. /\ call[c].pc \notin {"writes", "reads", "records"}
        /\ r.pc \notin {"writes", "awaits", "reads", "records"}
        /\ r.on \in {call[c].on, registered, 0}
        /\ r.seen \in {call[c].seen, 0} /\ r.text \in {call[c].text, 0}
    BY <1>a, <1>b DEF NoCall, CallState
  <2>6. /\ StartingAt(r) /\ r.on # 0 => StartingAt(call[c]) /\ r.on = call[c].on
        /\ StartingAt(r) /\ r.pc # "takes" => StartingAt(call[c]) /\ call[c].pc # "takes"
        /\ StartingAt(call[c]) /\ call[c].on # 0 => StartingAt(r) /\ r.on = call[c].on
    BY <1>a, <1>b DEF StartingAt, PlacedAt, NoCall, CallState
  <2> HIDE DEF r
  <2> QED
    BY <1>b, <2>1, <2>2, <2>3, <2>4, <2>5, <2>6, OwnRecord
<1>2. CASE registered # 0
  <2> DEFINE r == [call[c] EXCEPT !.pc = "stats", !.on = registered]
  <2>1. r \in CallState
    BY <1>a, <1>r, PcsAre, NoCallTyped DEF CallState
  <2>2. call' = [call EXCEPT ![c] = r]
    BY <1>a, <1>2, <1>b DEF Passes, Returns, Goes, At, Typed
  <2>3. PlacedAt(r)
    BY <1>a, <1>b, <1>2 DEF PlacedAt, NoCall, Fields, Typed, CallState
  <2>4. Installing'
    BY <1>a, <1>b, <2>2, CallersAreThreads DEF Installing, At, Fields, Passes
  <2>5. /\ call[c].pc \notin {"writes", "reads", "records"}
        /\ r.pc \notin {"writes", "awaits", "reads", "records"}
        /\ r.on \in {call[c].on, registered, 0}
        /\ r.seen \in {call[c].seen, 0} /\ r.text \in {call[c].text, 0}
    BY <1>a, <1>b DEF NoCall, CallState
  <2>6. /\ StartingAt(r) /\ r.on # 0 => StartingAt(call[c]) /\ r.on = call[c].on
        /\ StartingAt(r) /\ r.pc # "takes" => StartingAt(call[c]) /\ call[c].pc # "takes"
        /\ StartingAt(call[c]) /\ call[c].on # 0 => StartingAt(r) /\ r.on = call[c].on
    BY <1>a, <1>b DEF StartingAt, PlacedAt, NoCall, CallState
  <2> HIDE DEF r
  <2> QED
    BY <1>b, <2>1, <2>2, <2>3, <2>4, <2>5, <2>6, OwnRecord
<1> QED
  BY <1>1, <1>2 DEF Passes

\* An edit returns what is cached.
LEMMA EditReportsKeeps ==
  ASSUME LspInvariant, NEW c \in Callers, EditReports(c)
  PROVE  LspInvariant'
<1>a. Typed /\ PlacedAt(call[c]) /\ Installing /\ Fields /\ call[c] \in CallState
  BY FieldsTyped DEF LspInvariant, Placed, Fields
<1>r. registered \in Nat /\ gate \in Callers \cup {"none"}
  BY <1>a DEF Typed, Fields
<1>b. call[c].pc = "drains" /\ UNCHANGED <<server, registered, gate, manager, races>> /\ disk' \in {disk, disk + 1}
  BY DEF EditReports, Drains, At
<1> DEFINE r == NoCall
<1>1. r \in CallState
  BY NoCallTyped
<1>2. call' = [call EXCEPT ![c] = r]
  BY <1>a, <1>b DEF EditReports, Drains, Returns, Goes, At, Typed
<1>3. PlacedAt(r)
  BY <1>a, <1>b DEF PlacedAt, NoCall, Fields, Typed, CallState
<1>4. Installing'
  BY <1>a, <1>b, <1>2, CallersAreThreads DEF Installing, At, Fields, EditReports, Drains
<1>5. /\ call[c].pc \notin {"writes", "reads", "records"}
      /\ r.pc \notin {"writes", "awaits", "reads", "records"}
      /\ r.on \in {call[c].on, registered, 0}
      /\ r.seen \in {call[c].seen, 0} /\ r.text \in {call[c].text, 0}
  BY <1>a, <1>b DEF NoCall, CallState
<1>6. /\ StartingAt(r) /\ r.on # 0 => StartingAt(call[c]) /\ r.on = call[c].on
      /\ StartingAt(r) /\ r.pc # "takes" => StartingAt(call[c]) /\ call[c].pc # "takes"
      /\ StartingAt(call[c]) /\ call[c].on # 0 => StartingAt(r) /\ r.on = call[c].on
  BY <1>a, <1>b DEF StartingAt, PlacedAt, NoCall, CallState
<1> HIDE DEF r
<1> QED
  BY <1>b, <1>1, <1>2, <1>3, <1>4, <1>5, <1>6, OwnRecord

\* The lsp tool returns what is cached.
LEMMA DiagnosticsReportKeeps ==
  ASSUME LspInvariant, NEW c \in Callers, DiagnosticsReport(c)
  PROVE  LspInvariant'
<1>a. Typed /\ PlacedAt(call[c]) /\ Installing /\ Fields /\ call[c] \in CallState
  BY FieldsTyped DEF LspInvariant, Placed, Fields
<1>r. registered \in Nat /\ gate \in Callers \cup {"none"}
  BY <1>a DEF Typed, Fields
<1>b. call[c].pc = "drains" /\ UNCHANGED <<server, registered, gate, manager, races>> /\ disk' \in {disk, disk + 1}
  BY DEF DiagnosticsReport, Drains, At
<1> DEFINE r == NoCall
<1>1. r \in CallState
  BY NoCallTyped
<1>2. call' = [call EXCEPT ![c] = r]
  BY <1>a, <1>b DEF DiagnosticsReport, Drains, Returns, Goes, At, Typed
<1>3. PlacedAt(r)
  BY <1>a, <1>b DEF PlacedAt, NoCall, Fields, Typed, CallState
<1>4. Installing'
  BY <1>a, <1>b, <1>2, CallersAreThreads DEF Installing, At, Fields, DiagnosticsReport, Drains
<1>5. /\ call[c].pc \notin {"writes", "reads", "records"}
      /\ r.pc \notin {"writes", "awaits", "reads", "records"}
      /\ r.on \in {call[c].on, registered, 0}
      /\ r.seen \in {call[c].seen, 0} /\ r.text \in {call[c].text, 0}
  BY <1>a, <1>b DEF NoCall, CallState
<1>6. /\ StartingAt(r) /\ r.on # 0 => StartingAt(call[c]) /\ r.on = call[c].on
      /\ StartingAt(r) /\ r.pc # "takes" => StartingAt(call[c]) /\ call[c].pc # "takes"
      /\ StartingAt(call[c]) /\ call[c].on # 0 => StartingAt(r) /\ r.on = call[c].on
  BY <1>a, <1>b DEF StartingAt, PlacedAt, NoCall, CallState
<1> HIDE DEF r
<1> QED
  BY <1>b, <1>1, <1>2, <1>3, <1>4, <1>5, <1>6, OwnRecord

\* A call takes the installer's lock, or finds the server installed.
LEMMA InstallStartsKeeps ==
  ASSUME LspInvariant, NEW c \in Callers, InstallStarts(c)
  PROVE  LspInvariant'
<1>a. Typed /\ PlacedAt(call[c]) /\ Installing /\ Fields /\ call[c] \in CallState
  BY FieldsTyped DEF LspInvariant, Placed, Fields
<1>r. registered \in Nat /\ gate \in Callers \cup {"none"}
  BY <1>a DEF Typed, Fields
<1>b. call[c].pc = "installs" /\ UNCHANGED <<server, registered, gate, manager, races>> /\ disk' \in {disk, disk + 1}
  BY DEF InstallStarts, At
<1>1. CASE installed
  <2> DEFINE r == [call[c] EXCEPT !.pc = "spawns"]
  <2>1. r \in CallState
    BY <1>a, <1>r, PcsAre, NoCallTyped DEF CallState
  <2>2. call' = [call EXCEPT ![c] = r]
    BY <1>a, <1>1, <1>b DEF InstallStarts, Returns, Goes, At, Typed
  <2>3. PlacedAt(r)
    BY <1>a, <1>b, <1>1 DEF PlacedAt, NoCall, Fields, Typed, CallState
  <2>4. Installing'
    BY <1>a, <1>b, <2>2, CallersAreThreads DEF Installing, At, Fields, InstallStarts
  <2>5. /\ call[c].pc \notin {"writes", "reads", "records"}
        /\ r.pc \notin {"writes", "awaits", "reads", "records"}
        /\ r.on \in {call[c].on, registered, 0}
        /\ r.seen \in {call[c].seen, 0} /\ r.text \in {call[c].text, 0}
    BY <1>a, <1>b DEF NoCall, CallState
  <2>6. /\ StartingAt(r) /\ r.on # 0 => StartingAt(call[c]) /\ r.on = call[c].on
        /\ StartingAt(r) /\ r.pc # "takes" => StartingAt(call[c]) /\ call[c].pc # "takes"
        /\ StartingAt(call[c]) /\ call[c].on # 0 => StartingAt(r) /\ r.on = call[c].on
    BY <1>a, <1>b DEF StartingAt, PlacedAt, NoCall, CallState
  <2> HIDE DEF r
  <2> QED
    BY <1>b, <2>1, <2>2, <2>3, <2>4, <2>5, <2>6, OwnRecord
<1>2. CASE ~installed
  <2> DEFINE r == call[c]
  <2>1. r \in CallState
    BY <1>a, <1>r, PcsAre, NoCallTyped DEF CallState
  <2>2. call' = [call EXCEPT ![c] = r]
    BY <1>a, <1>2, <1>b DEF InstallStarts, Returns, Goes, At, Typed
  <2>3. PlacedAt(r)
    BY <1>a, <1>b, <1>2 DEF PlacedAt, NoCall, Fields, Typed, CallState
  <2>4. Installing'
    BY <1>a, <1>b, <2>2, CallersAreThreads DEF Installing, At, Fields, InstallStarts
  <2>5. /\ call[c].pc \notin {"writes", "reads", "records"}
        /\ r.pc \notin {"writes", "awaits", "reads", "records"}
        /\ r.on \in {call[c].on, registered, 0}
        /\ r.seen \in {call[c].seen, 0} /\ r.text \in {call[c].text, 0}
    BY <1>a, <1>b DEF NoCall, CallState
  <2>6. /\ StartingAt(r) /\ r.on # 0 => StartingAt(call[c]) /\ r.on = call[c].on
        /\ StartingAt(r) /\ r.pc # "takes" => StartingAt(call[c]) /\ call[c].pc # "takes"
        /\ StartingAt(call[c]) /\ call[c].on # 0 => StartingAt(r) /\ r.on = call[c].on
    BY <1>a, <1>b DEF StartingAt, PlacedAt, NoCall, CallState
  <2> HIDE DEF r
  <2> QED
    BY <1>b, <2>1, <2>2, <2>3, <2>4, <2>5, <2>6, OwnRecord
<1> QED
  BY <1>1, <1>2 DEF InstallStarts

\* A start that fails, its client, if it has one, shut down: nobody else is at
\* that client.
LEMMA StartFailed ==
  ASSUME LspInvariant, NEW c \in Callers, Holding(c), NEW calls, Rung(call, calls), StartFails(c, calls),
         UNCHANGED <<manager, disk>>, Installing', call[c].pc # "records", call[c].frame # "text",
         call[c].pc = "writes" => call[c].on # 0,
         server' \in Seq(ServerState), Len(server') = Len(server),
         \A k \in Ids : k # call[c].on => server'[k] = server[k],
         call[c].on # 0 => server'[call[c].on] = ShutServer
  PROVE  LspInvariant'
<1>a. /\ Typed /\ Placed /\ Queued /\ Attended /\ Private /\ Dated /\ InStep /\ Gated
      /\ Closing /\ CalmNoStrayServer
  BY DEF LspInvariant
<1>f. Fields
  BY <1>a, FieldsTyped
<1>i. Ids' = Ids
  BY DEF Ids
<1> DEFINE k == call[c].on
<1>k. /\ k \in Nat /\ (k # 0 => k \in Ids)
      /\ \A d \in Callers \ {c} : k # 0 => call[d].on # k
      /\ k # 0 => registered # k
  <2>1. PlacedAt(call[c]) /\ k \in Nat
    BY <1>a, <1>f DEF Placed, Fields
  <2>2. k # 0 => k \in Ids
    BY <1>f, <2>1 DEF PlacedAt, Ids, Fields
  <2> QED
    BY <1>a, <2>1, <2>2 DEF Private, Holding
<1>n. /\ NoCall.pc = "idle" /\ NoCall.on = 0 /\ NoCall.frame = "-" /\ NoCall.seen = 0
      /\ NoCall.text = 0 /\ NoCall \in CallState
  BY NoCallTyped DEF NoCall
<1>1. Freed([calls EXCEPT ![c] = NoCall], call')
  BY <1>n, OpenedCalls DEF StartFails, Rung
<1>2. /\ call' \in [Callers -> CallState]
      /\ call'[c].pc = "idle" /\ call'[c].on = 0 /\ call'[c].frame = "-"
      /\ call'[c].seen = 0 /\ call'[c].text = 0
  BY <1>1, <1>n DEF Freed, Rung
<1>3. \A d \in Callers \ {c} :
        /\ call'[d].pc = call[d].pc \/ (call[d].pc = "gated" /\ call'[d].pc = "passes")
        /\ call'[d].on = call[d].on /\ call'[d].frame = call[d].frame
        /\ call'[d].seen = call[d].seen /\ call'[d].text = call[d].text /\ call'[d].late = call[d].late
        /\ call'[d].got # call[d].got => call'[d].got # "-"
  BY <1>1 DEF Freed, Rung
<1>4. gate' = "none" /\ registered' = registered /\ races' = races
  BY DEF StartFails
<1>s. /\ ShutServer.queue = <<>> /\ ShutServer.life = "dead" /\ ShutServer.text = 0
      /\ ShutServer.synced = 0
  BY DEF ShutServer, NewServer
<1>5. Typed'
  BY <1>a, <1>2, <1>4 DEF Typed
<1>6. Placed'
  <2>1. PlacedAt(call[c])'
    BY <1>2, <1>f DEF PlacedAt, Fields
  <2>2. ASSUME NEW d \in Callers \ {c} PROVE PlacedAt(call[d])'
    <3>1. PlacedAt(call[d])
      BY <1>a DEF Placed
    <3> QED
      BY <1>3, <3>1 DEF PlacedAt
  <2> QED
    BY <2>1, <2>2 DEF Placed, PlacedAt
<1>7. Queued'
  <2>1. ASSUME NEW j \in Ids'
        PROVE  \/ server'[j].queue = <<>>
               \/ /\ j \in Ids /\ server'[j].queue = server[j].queue
                  /\ \A d \in Callers : call[d].pc = "writes" /\ call[d].on = j =>
                                         call'[d].pc = "writes" /\ call'[d].on = j
    <3>1. CASE j = k
      <4>1. k # 0
        BY <1>f, <1>i, <3>1 DEF Ids, Fields
      <4> QED
        BY <1>s, <3>1, <4>1
    <3>2. CASE j # k
      BY <1>i, <1>3, <3>2
    <3> QED
      BY <3>1, <3>2
  <2> QED
    BY <1>a, <1>5, <2>1, QueuedKept
<1>8. Attended'
  <2>1. ASSUME NEW d \in Callers, call'[d].pc \in {"writes", "awaits"},
               call'[d].frame \in {"initialize", "query"}, ~call'[d].late, call'[d].got = "-"
        PROVE  /\ call[d].pc \in {"writes", "awaits"} /\ call[d].frame \in {"initialize", "query"}
               /\ ~call[d].late /\ call[d].got = "-" /\ call'[d].on = call[d].on
               /\ server'[call[d].on] = server[call[d].on]
    <3>1. d # c
      BY <1>2, <2>1
    <3>2. /\ call[d].pc \in {"writes", "awaits"} /\ call[d].frame \in {"initialize", "query"}
          /\ ~call[d].late /\ call[d].got = "-" /\ call'[d].on = call[d].on
      BY <1>3, <2>1, <3>1
    <3>3. PlacedAt(call[d]) /\ call[d].on \in Nat
      BY <1>a, <1>f DEF Placed, Fields
    <3>4. call[d].on \in Ids
      BY <1>f, <3>2, <3>3 DEF PlacedAt, Ids, Fields
    <3>5. call[d].on # k
      BY <1>f, <1>k, <3>1, <3>4 DEF Ids, Fields
    <3> QED
      BY <3>2, <3>4, <3>5
  <2> QED
    BY <1>a, <2>1, AttendedKept
<1>9. Private'
  <2>1. \A d \in Callers : /\ call'[d].on \in {call[d].on, registered, 0}
                           /\ (Starting(d))' /\ call'[d].on # 0 => Starting(d) /\ call'[d].on = call[d].on
    BY <1>2, <1>3 DEF Starting
  <2> QED
    BY <1>a, <1>4, <2>1, PrivateKept
<1>10. Dated'
  <2>1. \A j \in Ids' : /\ j \in Ids /\ server'[j].text \in {server[j].text, 0}
                        /\ server'[j].synced \in {server[j].synced, 0}
    <3>1. ASSUME NEW j \in Ids, j = k
          PROVE  server'[j].text = 0 /\ server'[j].synced = 0
      <4>1. k # 0
        BY <1>f, <3>1 DEF Ids, Fields
      <4> QED
        BY <1>s, <3>1, <4>1
    <3> QED
      BY <1>i, <3>1
  <2>2. \A d \in Callers : call'[d].seen \in {call[d].seen, 0} /\ call'[d].text \in {call[d].text, 0}
    BY <1>2, <1>3
  <2>3. disk <= disk'
    BY <1>f DEF Fields
  <2> QED
    BY <1>a, <1>5, <2>1, <2>2, <2>3, DatedKept
<1>11. InStep'
  <2>0. call[c].pc # "reads"
    BY <1>a DEF Holding, Starting, Placed, PlacedAt
  <2>1. ~Syncing(c) /\ ~(Syncing(c))'
    BY <1>2, <2>0 DEF Syncing
  <2>3. ASSUME NEW d \in Callers \ {c} PROVE SyncSame(d)
    <3>1. CASE call'[d].pc = call[d].pc
      BY <1>3, <3>1 DEF SyncSame, Syncing
    <3>2. CASE call[d].pc = "gated" /\ call'[d].pc = "passes"
      <4>1. PlacedAt(call[d])
        BY <1>a DEF Placed
      <4> QED
        BY <1>3, <3>2, <4>1 DEF SyncSame, Syncing, PlacedAt
    <3> QED
      BY <1>3, <3>1, <3>2
  <2>4. \A d \in Callers : SyncSame(d)
    BY <2>1, <2>3 DEF SyncSame
  <2>2. \A j \in Ids' : server'[j].life = "up" =>
           /\ j \in Ids /\ server[j].life = "up"
           /\ server'[j].text = server[j].text /\ server'[j].synced = server[j].synced
    <3>1. ASSUME NEW j \in Ids, j = k
          PROVE  server'[j].life # "up"
      <4>1. k # 0
        BY <1>f, <3>1 DEF Ids, Fields
      <4> QED
        BY <1>s, <3>1, <4>1
    <3> QED
      BY <1>i, <3>1
  <2> QED
    BY <1>a, <1>4, <1>5, <1>6, <2>2, <2>4, InStepKept
<1>12. Gated'
  <2>1. \A d \in Callers : (Holding(d))' => d # c /\ Holding(d)
    BY <1>2, <1>3 DEF Holding, Starting
  <2> QED
    BY <1>a, <1>4, <2>1 DEF Gated
<1>13. Closing'
  <2>1. \A j \in Ids : server[j].life = "dead" => server'[j].life = "dead"
    <3>1. ASSUME NEW j \in Ids, j = k
          PROVE  server'[j].life = "dead"
      <4>1. k # 0
        BY <1>f, <3>1 DEF Ids, Fields
      <4> QED
        BY <1>s, <3>1, <4>1
    <3> QED
      BY <3>1
  <2> QED
    BY <1>a, <1>f, <1>4, <2>1, ClosingKept DEF Fields
<1>14. CalmNoStrayServer'
  <2>1. ASSUME NEW j \in Ids', server'[j].life = "up"
        PROVE  /\ j \in Ids /\ server[j].life = "up"
               /\ \A d \in Callers : Starting(d) /\ call[d].on = j => (Starting(d))' /\ call'[d].on = j
    <3>1. j # k
      <4>1. ASSUME j = k PROVE FALSE
        <5>1. k # 0
          BY <1>f, <1>i, <4>1 DEF Ids, Fields
        <5> QED
          BY <1>s, <2>1, <4>1, <5>1
      <4> QED
        BY <4>1
    <3> QED
      BY <1>i, <1>3, <2>1, <3>1 DEF Starting
  <2> QED
    BY <1>a, <1>4, <2>1, StrayKept
<1> QED
  BY <1>5, <1>6, <1>7, <1>8, <1>9, <1>10, <1>11, <1>12, <1>13, <1>14 DEF LspInvariant

\* r is q without who's frame.
Shorter(q, r, who) ==
  /\ r \in Seq(Callers \cup {"pump"})
  /\ \A i \in 1..Len(r) : (\E j \in 1..Len(q) : r[i] = q[j]) /\ (who # "pump" => r[i] # who)
  /\ \A i, j \in 1..Len(r) : r[i] = r[j] /\ r[i] # "pump" => i = j

\* The queue without its head, and whose frame that is.
LEMMA TailIsShorter ==
  ASSUME Typed, Queued, NEW k \in Ids, server[k].queue # <<>>
  PROVE  /\ Shorter(server[k].queue, Tail(server[k].queue), Head(server[k].queue))
         /\ Head(server[k].queue) \in Callers \cup {"pump"}
         /\ Head(server[k].queue) # "pump" =>
              /\ Head(server[k].queue) \in Callers
              /\ call[Head(server[k].queue)].pc = "writes" /\ call[Head(server[k].queue)].on = k
<1> DEFINE q == server[k].queue
           r == Tail(q)
<1>1. /\ q \in Seq(Callers \cup {"pump"}) /\ q # <<>>
      /\ \A i \in 1..Len(q) : q[i] \in Callers \cup {"pump"}
  BY FieldsTyped DEF Fields
<1>2. /\ \A i \in 1..Len(q) : q[i] # "pump" => call[q[i]].pc = "writes" /\ call[q[i]].on = k
      /\ \A i, j \in 1..Len(q) : q[i] = q[j] /\ q[i] # "pump" => i = j
  BY DEF Queued, At
<1> HIDE DEF q
<1>3. /\ r \in Seq(Callers \cup {"pump"}) /\ Len(r) = Len(q) - 1 /\ Len(q) \in Nat /\ Len(q) >= 1
      /\ \A i \in 1..Len(r) : i + 1 \in 1..Len(q) /\ r[i] = q[i + 1]
      /\ Head(q) = q[1]
  BY <1>1
<1> HIDE DEF r
<1>4. Shorter(q, r, Head(q))
  BY <1>1, <1>2, <1>3 DEF Shorter
<1>5. 1 \in 1..Len(q)
  BY <1>3
<1> QED
  BY <1>1, <1>2, <1>3, <1>4, <1>5 DEF q, r

\* The queue without a frame that is withdrawn.
LEMMA WithoutIsShorter ==
  ASSUME Typed, Queued, NEW k \in Ids, NEW who
  PROVE  Shorter(server[k].queue, Without(server[k].queue, who), who)
<1> DEFINE q == server[k].queue
<1>1. q \in Seq(Callers \cup {"pump"})
  BY FieldsTyped DEF Fields
<1>2. \A i, j \in 1..Len(q) : q[i] = q[j] /\ q[i] # "pump" => i = j
  BY DEF Queued
<1> HIDE DEF q
<1> DEFINE r == Without(q, who)
<1>3. /\ r \in Seq(Callers \cup {"pump"})
      /\ \A i \in 1..Len(r) : \E j \in 1..Len(q) : r[i] = q[j]
  BY <1>1, WithoutTyped
<1>4. /\ \A i, j \in 1..Len(r) : r[i] = r[j] /\ r[i] # "pump" => i = j
      /\ who # "pump" => \A i \in 1..Len(r) : r[i] # who
  BY <1>1, <1>2, WithoutOnce
<1> HIDE DEF r
<1>5. Shorter(q, r, who)
  BY <1>3, <1>4 DEF Shorter
<1> QED
  BY <1>5 DEF q, r

\* A frame leaves a queue and its thread goes on: every frame left is that of a
\* thread that still writes.
LEMMA QueueShortened ==
  ASSUME Typed, Queued, Typed', NEW k \in Ids, NEW who, Len(server') = Len(server),
         \A j \in Ids \ {k} : server'[j] = server[j],
         Shorter(server[k].queue, server'[k].queue, who),
         who # "pump" => call[who].on = k,
         \A d \in Callers : d # who /\ call[d].pc = "writes" =>
                              call'[d].pc = "writes" /\ call'[d].on = call[d].on
  PROVE  Queued'
<1> SUFFICES ASSUME NEW h \in Ids
             PROVE  LET q == server'[h].queue
                    IN  /\ \A i \in 1..Len(q) : q[i] # "pump" => call'[q[i]].pc = "writes" /\ call'[q[i]].on = h
                        /\ \A i, j \in 1..Len(q) : q[i] = q[j] /\ q[i] # "pump" => i = j
  BY DEF Queued, At, Ids
<1>1. /\ \A i \in 1..Len(server[h].queue) : server[h].queue[i] # "pump" =>
          /\ server[h].queue[i] \in Callers
          /\ call[server[h].queue[i]].pc = "writes" /\ call[server[h].queue[i]].on = h
      /\ \A i, j \in 1..Len(server[h].queue) :
           server[h].queue[i] = server[h].queue[j] /\ server[h].queue[i] # "pump" => i = j
  BY FieldsTyped DEF Fields, Queued, At
<1>2. CASE h # k
  <2>1. server'[h] = server[h]
    BY <1>2
  <2>2. \A i \in 1..Len(server[h].queue) : server[h].queue[i] # "pump" => server[h].queue[i] # who
    <3>1. ASSUME NEW i \in 1..Len(server[h].queue), server[h].queue[i] # "pump",
                 server[h].queue[i] = who
          PROVE  FALSE
      BY <1>1, <1>2, <3>1
    <3> QED
      BY <3>1
  <2> QED
    BY <1>1, <2>1, <2>2
<1>3. CASE h = k
  <2> DEFINE q == server[k].queue
             r == server'[k].queue
  <2>1. /\ \A i \in 1..Len(r) : (\E j \in 1..Len(q) : r[i] = q[j]) /\ (who # "pump" => r[i] # who)
        /\ \A i, j \in 1..Len(r) : r[i] = r[j] /\ r[i] # "pump" => i = j
    BY DEF Shorter
  <2>2. ASSUME NEW i \in 1..Len(r), r[i] # "pump"
        PROVE  call'[r[i]].pc = "writes" /\ call'[r[i]].on = k
    <3>1. PICK j \in 1..Len(q) : r[i] = q[j]
      BY <2>1
    <3>2. /\ q[j] \in Callers /\ q[j] # "pump" /\ call[q[j]].pc = "writes" /\ call[q[j]].on = k
      BY <1>1, <1>3, <2>2, <3>1
    <3>3. q[j] # who
      BY <2>1, <2>2, <3>1
    <3> QED
      BY <3>1, <3>2, <3>3
  <2> QED
    BY <1>3, <2>1, <2>2
<1> QED
  BY <1>2, <1>3

\* A start that succeeds, its last frame written or lost.
LEMMA StartSucceeded ==
  ASSUME LspInvariant, NEW c \in Callers, call[c].pc = "writes", call[c].frame = "initialized",
         StartSucceeds(c), UNCHANGED <<manager, disk>>, Installing',
         NEW k, k = call[c].on,
         server' \in Seq(ServerState), Len(server') = Len(server),
         \A j \in Ids \ {k} : server'[j] = server[j],
         Shorter(server[k].queue, server'[k].queue, c),
         server'[k].life = "up" => server[k].life = "up" /\ server'[k].text = server[k].text,
         server'[k].life \in {"up", "dead"},
         server'[k].text \in {server[k].text, 0}, server'[k].synced = server[k].synced
  PROVE  LspInvariant'
<1>a. /\ Typed /\ Placed /\ Queued /\ Attended /\ Private /\ Dated /\ InStep /\ Gated
      /\ Closing /\ CalmNoStrayServer
  BY DEF LspInvariant
<1>f. Fields
  BY <1>a, FieldsTyped
<1>i. Ids' = Ids
  BY DEF Ids
<1>k. /\ k \in Ids /\ k # 0
      /\ \A d \in Callers \ {c} : call[d].on # k
      /\ registered # k
      /\ Holding(c)
  <2>1. PlacedAt(call[c]) /\ k \in Nat
    BY <1>a, <1>f DEF Placed, Fields
  <2>2. k # 0 /\ k \in Ids
    BY <1>f, <2>1 DEF PlacedAt, Ids, Fields
  <2>3. Starting(c) /\ Holding(c)
    BY DEF Holding, Starting
  <2> QED
    BY <1>a, <2>2, <2>3 DEF Private
<1>s. /\ \A j \in Ids : server'[j].life = "up" => server[j].life = "up" /\ server'[j].text = server[j].text
      /\ \A j \in Ids : server'[j].text \in {server[j].text, 0} /\ server'[j].synced = server[j].synced
      /\ \A j \in Ids : server[j].life = "dead" => server'[j].life = "dead"
  <2>1. \A j \in Ids : j = k \/ server'[j] = server[j]
    OBVIOUS
  <2>2. \A j \in Ids : server'[j].life \in {"up", "dead"}
    <3>1. \A j \in Ids : server[j].life \in {"up", "dead"}
      BY <1>f DEF Fields, ServerState
    <3> QED
      BY <2>1, <3>1
  <2> QED
    BY <2>1, <2>2
<1>0. /\ [call EXCEPT ![c].pc = "stats", ![c].frame = "-"] \in [Callers -> CallState]
      /\ call' = Opened(c, [call EXCEPT ![c].pc = "stats", ![c].frame = "-"])
      /\ gate' = "none" /\ registered' = k
      /\ races' = IF manager.pc = "open" THEN races ELSE races \union {"closing"}
  <2>1. [call[c] EXCEPT !.pc = "stats", !.frame = "-"] \in CallState
    <3>1. call[c] \in CallState
      BY <1>f DEF Fields
    <3> QED
      BY <3>1, PcsAre DEF CallState
  <2>2. [call EXCEPT ![c] = [call[c] EXCEPT !.pc = "stats", !.frame = "-"]] \in [Callers -> CallState]
    BY <1>a, <2>1 DEF Typed
  <2>3. [call EXCEPT ![c].pc = "stats", ![c].frame = "-"] =
          [call EXCEPT ![c] = [call[c] EXCEPT !.pc = "stats", !.frame = "-"]]
    BY <1>f DEF Fields
  <2>4. [call EXCEPT ![c].pc = "stats", ![c].frame = "-"] \in [Callers -> CallState]
    BY <2>2, <2>3
  <2>5. /\ call' = Opened(c, [call EXCEPT ![c].pc = "stats", ![c].frame = "-"])
        /\ gate' = "none" /\ registered' = k
        /\ races' = IF manager.pc = "open" THEN races ELSE races \union {"closing"}
    BY DEF StartSucceeds
  <2> QED
    BY <2>4, <2>5
<1>1. Freed([call EXCEPT ![c].pc = "stats", ![c].frame = "-"], call')
  BY <1>0, OpenedCalls
<1>2. /\ call' \in [Callers -> CallState]
      /\ call'[c].pc = "stats" /\ call'[c].on = k /\ call'[c].frame = "-"
      /\ call'[c].seen = call[c].seen /\ call'[c].text = call[c].text
  BY <1>1, <1>f DEF Freed, Fields
<1>3. \A d \in Callers \ {c} :
        /\ call'[d].pc = call[d].pc \/ (call[d].pc = "gated" /\ call'[d].pc = "passes")
        /\ call'[d].on = call[d].on /\ call'[d].frame = call[d].frame
        /\ call'[d].seen = call[d].seen /\ call'[d].text = call[d].text /\ call'[d].late = call[d].late
        /\ call'[d].got = call[d].got
  BY <1>1, <1>f DEF Freed, Fields
<1>5. Typed'
  <2>1. registered' \in 0..Len(server')
    BY <1>0, <1>f, <1>k DEF Ids, Fields
  <2> QED
    BY <1>a, <1>0, <1>2, <2>1 DEF Typed
<1>6. Placed'
  <2>1. PlacedAt(call[c])'
    BY <1>2, <1>f, <1>k DEF PlacedAt, Fields, Ids
  <2>2. ASSUME NEW d \in Callers \ {c} PROVE PlacedAt(call[d])'
    <3>1. PlacedAt(call[d])
      BY <1>a DEF Placed
    <3> QED
      BY <1>3, <3>1 DEF PlacedAt
  <2> QED
    BY <2>1, <2>2 DEF Placed, PlacedAt
<1>7. Queued'
  <2>1. \A d \in Callers : d # c /\ call[d].pc = "writes" =>
                              call'[d].pc = "writes" /\ call'[d].on = call[d].on
    BY <1>3
  <2> QED
    BY <1>a, <1>5, <1>k, <2>1, QueueShortened
<1>8. Attended'
  <2>1. ASSUME NEW d \in Callers, call'[d].pc \in {"writes", "awaits"},
               call'[d].frame \in {"initialize", "query"}, ~call'[d].late, call'[d].got = "-"
        PROVE  /\ call[d].pc \in {"writes", "awaits"} /\ call[d].frame \in {"initialize", "query"}
               /\ ~call[d].late /\ call[d].got = "-" /\ call'[d].on = call[d].on
               /\ server'[call[d].on] = server[call[d].on]
    <3>1. d # c
      BY <1>2, <2>1
    <3>2. /\ call[d].pc \in {"writes", "awaits"} /\ call[d].frame \in {"initialize", "query"}
          /\ ~call[d].late /\ call[d].got = "-" /\ call'[d].on = call[d].on
      BY <1>3, <2>1, <3>1
    <3>3. PlacedAt(call[d]) /\ call[d].on \in Nat
      BY <1>a, <1>f DEF Placed, Fields
    <3>4. call[d].on \in Ids
      BY <1>f, <3>2, <3>3 DEF PlacedAt, Ids, Fields
    <3>5. call[d].on # k
      BY <1>k, <3>1
    <3> QED
      BY <3>2, <3>4, <3>5
  <2> QED
    BY <1>a, <2>1, AttendedKept
<1>9. Private'
  <2>1. ASSUME NEW d \in Callers, (Starting(d))', call'[d].on # 0
        PROVE  /\ registered' # call'[d].on
               /\ \A e \in Callers \ {d} : call'[e].on # call'[d].on
    <3>1. d # c /\ Starting(d)
      BY <1>2, <1>3, <2>1 DEF Starting
    <3>2. /\ call'[d].on = call[d].on /\ call[d].on # k
      BY <1>3, <1>k, <3>1
    <3>3. \A e \in Callers : call'[e].on = call[e].on
      BY <1>2, <1>3
    <3>4. \A e \in Callers \ {d} : call[e].on # call[d].on
      BY <1>a, <2>1, <3>1, <3>2 DEF Private
    <3> QED
      BY <1>0, <3>2, <3>3, <3>4
  <2> QED
    BY <2>1 DEF Private
<1>10. Dated'
  <2>1. \A j \in Ids' : /\ j \in Ids /\ server'[j].text \in {server[j].text, 0}
                        /\ server'[j].synced \in {server[j].synced, 0}
    BY <1>i, <1>s
  <2>2. \A d \in Callers : call'[d].seen \in {call[d].seen, 0} /\ call'[d].text \in {call[d].text, 0}
    BY <1>2, <1>3
  <2>3. disk <= disk'
    BY <1>f DEF Fields
  <2> QED
    BY <1>a, <1>5, <2>1, <2>2, <2>3, DatedKept
<1>11. InStep'
  <2>1. ~Syncing(c) /\ ~(Syncing(c))'
    BY <1>2 DEF Syncing
  <2>3. ASSUME NEW d \in Callers \ {c} PROVE SyncSame(d)
    <3>1. CASE call'[d].pc = call[d].pc
      BY <1>3, <3>1 DEF SyncSame, Syncing
    <3>2. CASE call[d].pc = "gated" /\ call'[d].pc = "passes"
      <4>1. PlacedAt(call[d])
        BY <1>a DEF Placed
      <4> QED
        BY <1>3, <3>2, <4>1 DEF SyncSame, Syncing, PlacedAt
    <3> QED
      BY <1>3, <3>1, <3>2
  <2>4. \A d \in Callers : SyncSame(d)
    BY <2>1, <2>3 DEF SyncSame
  <2>2. \A j \in Ids' : server'[j].life = "up" =>
           /\ j \in Ids /\ server[j].life = "up"
           /\ server'[j].text = server[j].text /\ server'[j].synced = server[j].synced
    BY <1>i, <1>s
  <2>5. races \subseteq races'
    BY <1>0
  <2> QED
    BY <1>a, <1>5, <1>6, <2>2, <2>4, <2>5, InStepKept
<1>12. Gated'
  <2>1. \A d \in Callers : (Holding(d))' => d # c /\ Holding(d)
    BY <1>2, <1>3 DEF Holding, Starting
  <2> QED
    BY <1>0, <1>a, <1>k, <2>1 DEF Gated
<1>13. Closing'
  <2>1. manager.pc = "closes" => "closing" \in races'
    BY <1>0
  <2>2. manager.pc = "closes" => manager.at \in Ids' /\ server'[manager.at].life = "dead"
    BY <1>a, <1>i, <1>s DEF Closing
  <2> QED
    BY <2>1, <2>2 DEF Closing
<1>14. CalmNoStrayServer'
  <2>1. ASSUME NEW j \in Ids, server'[j].life = "up", races' \intersect {"start", "closing"} = {}, j # k
        PROVE  \E d \in Callers : (Starting(d))' /\ call'[d].on = j
    <3>1. races \intersect {"start", "closing"} = {} /\ "start" \notin races
      BY <1>0, <2>1
    <3>2. registered = 0
      BY <1>a, <1>k, <3>1 DEF Gated
    <3>3. j # 0
      BY <1>f DEF Ids, Fields
    <3>4. PICK d \in Callers : Starting(d) /\ call[d].on = j
      BY <1>a, <1>s, <2>1, <3>1, <3>2, <3>3 DEF CalmNoStrayServer
    <3>5. d # c
      BY <2>1, <3>4
    <3>6. (Starting(d))' /\ call'[d].on = j
      BY <1>3, <3>4, <3>5 DEF Starting
    <3> QED
      BY <3>6
  <2> QED
    BY <1>0, <1>i, <2>1 DEF CalmNoStrayServer
<1> QED
  BY <1>5, <1>6, <1>7, <1>8, <1>9, <1>10, <1>11, <1>12, <1>13, <1>14 DEF LspInvariant

\* The parts of the invariant, together.
LEMMA Parts ==
  ASSUME LspInvariant
  PROVE  /\ Typed /\ Placed /\ Queued /\ Attended /\ Private /\ Dated /\ InStep /\ Gated
         /\ Closing /\ CalmNoStrayServer /\ Installing /\ Fields
BY FieldsTyped DEF LspInvariant

\* A call beyond the gate and the looks is at a client.
LEMMA AtAClient ==
  ASSUME LspInvariant, NEW c \in Callers,
         call[c].pc \notin {"idle", "looks", "takes", "gated", "spawns", "installs", "passes"}
  PROVE  call[c].on \in Ids /\ call[c].on # 0 /\ call[c] \in CallState /\ server[call[c].on] \in ServerState
<1>1. PlacedAt(call[c]) /\ call[c].on \in Nat /\ call[c] \in CallState /\ Len(server) \in Nat
  BY Parts DEF Placed, Fields
<1>2. call[c].on \in Ids
  BY <1>1 DEF PlacedAt, Ids
<1> QED
  BY <1>1, <1>2, Parts DEF PlacedAt, Fields

\* The gate is taken, or taken over.
LEMMA TakesGateKeeps ==
  ASSUME LspInvariant, NEW c \in Callers, TakesGate(c)
  PROVE  LspInvariant'
<1>a. Typed /\ Placed /\ Queued /\ Attended /\ Dated /\ InStep /\ Gated /\ Installing /\ Fields
  BY Parts
<1> DEFINE r == [call[c] EXCEPT !.pc = "spawns"]
<1>0. call[c] \in CallState /\ PlacedAt(call[c])
  BY <1>a DEF Fields, Placed
<1>1. /\ call[c].pc = "takes" /\ call' = [call EXCEPT ![c] = r] /\ gate' = c
      /\ races' = IF registered # 0 \/ gate # "none" THEN races \union {"start"} ELSE races
      /\ UNCHANGED <<disk, installed, installing, server, registered, manager>>
  BY <1>a DEF TakesGate, At, Goes, Fields
<1>2. /\ r \in CallState /\ r.pc = "spawns" /\ r.on = call[c].on /\ r.frame = call[c].frame
      /\ r.seen = call[c].seen /\ r.text = call[c].text
  BY <1>0, PcsAre DEF CallState
<1>3. call[c].on = 0 /\ call[c].frame = "-"
  BY <1>0, <1>1 DEF PlacedAt
<1> HIDE DEF r
<1>4. /\ call'[c] = r /\ \A d \in Callers \ {c} : call'[d] = call[d]
      /\ call' \in [Callers -> CallState]
  BY <1>a, <1>1, <1>2 DEF Fields, Typed
<1>5. Typed'
  BY <1>a, <1>1, <1>4 DEF Typed
<1>6. Placed'
  <2>1. PlacedAt(call'[c])
    BY <1>2, <1>3, <1>4, <1>a DEF PlacedAt, Fields
  <2> QED
    BY <1>1, <1>4, <1>a, <2>1 DEF Placed, PlacedAt
<1>i. Ids' = Ids
  BY <1>1 DEF Ids
<1>7. Queued'
  BY <1>1, <1>4, <1>a, <1>5, <1>i, QueuedKept
<1>8. Attended'
  BY <1>1, <1>2, <1>4, <1>a, AttendedKept
<1>9. Dated'
  <2>1. disk <= disk'
    BY <1>1, <1>a DEF Fields
  <2> QED
    BY <1>1, <1>2, <1>4, <1>a, <1>5, <1>i, <2>1, DatedKept
<1>10. InStep'
  <2>1. \A d \in Callers : SyncSame(d)
    BY <1>1, <1>2, <1>3, <1>4 DEF SyncSame, Syncing
  <2> QED
    BY <1>1, <1>a, <1>5, <1>6, <1>i, <2>1, InStepKept
<1>11. Gated'
  <2> SUFFICES ASSUME "start" \notin races', NEW d \in Callers, (Holding(d))'
               PROVE  gate' = d /\ registered' = 0
    BY DEF Gated
  <2>1. registered = 0 /\ gate = "none" /\ "start" \notin races
    BY <1>1
  <2>2. ASSUME d # c PROVE FALSE
    <3>1. Holding(d)
      BY <1>4, <2>2 DEF Holding, Starting
    <3> QED
      BY <1>a, <2>1, <3>1, CallersAreThreads DEF Gated
  <2> QED
    BY <1>1, <2>1, <2>2
<1>12. Installing'
  BY <1>1, <1>4, <1>a DEF Installing, At
<1>13. \A d \in Callers : CallMoves(d)
  <2>1. CallMoves(c)
    BY <1>2, <1>3, <1>4 DEF CallMoves, Starting
  <2> QED
    BY <1>4, <2>1, StayingMoves DEF CallStays
<1> QED
  BY <1>1, <1>5, <1>6, <1>7, <1>8, <1>9, <1>10, <1>11, <1>12, <1>13, StepKeeps

\* The look at the file, when the client's copy is of another version: the
\* only step that begins a synchronisation.
LEMMA StatsKeeps ==
  ASSUME LspInvariant, NEW c \in Callers, Stats(c), server[call[c].on].synced # disk
  PROVE  LspInvariant'
<1>a. Typed /\ Placed /\ Queued /\ Attended /\ Dated /\ InStep /\ Gated /\ Installing /\ Fields
  BY Parts
<1> DEFINE r == [call[c] EXCEPT !.pc = "reads", !.seen = disk]
           k == call[c].on
<1>0. call[c] \in CallState /\ PlacedAt(call[c]) /\ disk \in Nat
  BY <1>a DEF Fields, Placed
<1>1. /\ call[c].pc = "stats" /\ call' = [call EXCEPT ![c] = r]
      /\ races' = IF \E d \in Callers \ {c} : Syncing(d) /\ call[d].on = k
                    THEN races \union {"sync"} ELSE races
      /\ UNCHANGED <<disk, installed, installing, server, registered, gate, manager>>
  BY <1>a DEF Stats, At, Fields
<1>2. /\ r \in CallState /\ r.pc = "reads" /\ r.on = call[c].on /\ r.frame = call[c].frame
      /\ r.seen = disk /\ r.text = call[c].text
  BY <1>0, PcsAre DEF CallState
<1>3. call[c].on # 0 /\ call[c].frame = "-"
  BY <1>0, <1>1 DEF PlacedAt
<1> HIDE DEF r
<1>4. /\ call'[c] = r /\ \A d \in Callers \ {c} : call'[d] = call[d]
      /\ call' \in [Callers -> CallState]
  BY <1>a, <1>1, <1>2 DEF Fields, Typed
<1>5. Typed'
  BY <1>a, <1>1, <1>4 DEF Typed
<1>6. Placed'
  <2>1. PlacedAt(call'[c])
    BY <1>0, <1>2, <1>3, <1>4 DEF PlacedAt
  <2> QED
    BY <1>1, <1>4, <1>a, <2>1 DEF Placed, PlacedAt
<1>i. Ids' = Ids
  BY <1>1 DEF Ids
<1>7. Queued'
  BY <1>1, <1>4, <1>a, <1>5, <1>i, QueuedKept
<1>8. Attended'
  BY <1>1, <1>2, <1>4, <1>a, AttendedKept
<1>9. Dated'
  <2>1. \A d \in Callers : call'[d].seen <= disk /\ call'[d].text <= disk
    <3>1. \A d \in Callers : call[d].seen <= disk /\ call[d].text <= disk
      BY <1>a DEF Dated
    <3> QED
      BY <1>0, <1>2, <1>4, <3>1
  <2> QED
    BY <1>1, <1>a, <1>i, <2>1 DEF Dated
<1>10. InStep'
  <2> SUFFICES ASSUME "sync" \notin races' PROVE InStep'
    BY DEF InStep
  <2>1. "sync" \notin races /\ \A d \in Callers \ {c} : Syncing(d) => call[d].on # k
    BY <1>1
  <2>2. (Syncing(c))' /\ ~Syncing(c) /\ call'[c].frame # "text" /\ call'[c].pc # "records" /\ call'[c].on = k
    BY <1>1, <1>2, <1>3, <1>4 DEF Syncing
  <2>3. \A d \in Callers \ {c} : Syncing(d) <=> (Syncing(d))'
    BY <1>4 DEF Syncing
  <2>4. \A d, e \in Callers : (Syncing(d))' /\ (Syncing(e))' /\ call'[d].on = call'[e].on => d = e
    BY <1>4, <1>a, <2>1, <2>2, <2>3 DEF InStep
  <2>5. \A d \in Callers : call'[d].frame = "text" => call'[d].seen <= call'[d].text
    BY <1>4, <1>a, <2>1, <2>2 DEF InStep
  <2>6. \A d \in Callers :
          call'[d].pc = "records" /\ server'[call'[d].on].life = "up" =>
            call'[d].seen <= server'[call'[d].on].text
    BY <1>1, <1>4, <1>a, <2>1, <2>2 DEF InStep
  <2>7. \A j \in Ids' :
          server'[j].life = "up" /\ (\A d \in Callers : ~((Syncing(d))' /\ call'[d].on = j)) =>
            server'[j].synced <= server'[j].text
    <3>1. ASSUME NEW j \in Ids, server[j].life = "up",
                 \A d \in Callers : ~((Syncing(d))' /\ call'[d].on = j)
          PROVE  server[j].synced <= server[j].text
      <4>1. \A d \in Callers : ~(Syncing(d) /\ call[d].on = j)
        BY <1>4, <2>2, <2>3, <3>1
      <4> QED
        BY <1>a, <2>1, <3>1, <4>1 DEF InStep
    <3> QED
      BY <1>1, <1>i, <3>1
  <2> QED
    BY <2>4, <2>5, <2>6, <2>7 DEF InStep
<1>11. Gated'
  <2>1. \A d \in Callers : (Holding(d))' => Holding(d)
    BY <1>2, <1>3, <1>4 DEF Holding, Starting
  <2>2. races \subseteq races'
    BY <1>1
  <2> QED
    BY <1>1, <1>a, <2>1, <2>2, GatedKept
<1>12. Installing'
  BY <1>1, <1>4, <1>a DEF Installing, At
<1>13. \A d \in Callers : CallMoves(d)
  <2>1. CallMoves(c)
    BY <1>1, <1>2, <1>3, <1>4 DEF CallMoves, Starting
  <2> QED
    BY <1>4, <2>1, StayingMoves DEF CallStays
<1>14. races \subseteq races'
  BY <1>1
<1> QED
  BY <1>1, <1>5, <1>6, <1>7, <1>8, <1>9, <1>10, <1>11, <1>12, <1>13, <1>14, StepKeeps

\* A frame is handed to the writer.
LEMMA QueueAppended ==
  ASSUME Typed, Queued, Typed', NEW c \in Callers, NEW k \in Ids, Len(server') = Len(server),
         \A j \in Ids \ {k} : server'[j] = server[j],
         server'[k].queue = Append(server[k].queue, c),
         call[c].pc # "writes", call'[c].pc = "writes", call'[c].on = k,
         \A d \in Callers \ {c} : CallStays(d)
  PROVE  Queued'
<1> SUFFICES ASSUME NEW h \in Ids
             PROVE  LET q == server'[h].queue
                    IN  /\ \A i \in 1..Len(q) : q[i] # "pump" => call'[q[i]].pc = "writes" /\ call'[q[i]].on = h
                        /\ \A i, j \in 1..Len(q) : q[i] = q[j] /\ q[i] # "pump" => i = j
  BY DEF Queued, At, Ids
<1> DEFINE q == server[h].queue
           r == server'[h].queue
<1>1. /\ q \in Seq(Callers \cup {"pump"}) /\ Len(q) \in Nat
      /\ \A i \in 1..Len(q) : q[i] # "pump" =>
          /\ q[i] \in Callers /\ q[i] # c
          /\ call[q[i]].pc = "writes" /\ call[q[i]].on = h
      /\ \A i, j \in 1..Len(q) : q[i] = q[j] /\ q[i] # "pump" => i = j
  BY FieldsTyped DEF Fields, Queued, At
<1>2. \A i \in 1..Len(q) : q[i] # "pump" => call'[q[i]].pc = "writes" /\ call'[q[i]].on = h
  BY <1>1 DEF CallStays
<1>3. CASE h # k
  <2>1. r = q
    BY <1>3
  <2> QED
    BY <1>1, <1>2, <2>1
<1>4. CASE h = k
  <2>1. r = Append(q, c)
    BY <1>4
  <2>2. Len(r) = Len(q) + 1 /\ r[Len(q) + 1] = c /\ \A i \in 1..Len(q) : r[i] = q[i]
    BY <1>1, <2>1
  <2>3. \A i \in 1..Len(r) : i \in 1..Len(q) \/ i = Len(q) + 1
    BY <1>1, <2>2
  <2> HIDE DEF q, r
  <2>4. \A i \in 1..Len(r) : r[i] # "pump" => call'[r[i]].pc = "writes" /\ call'[r[i]].on = h
    BY <1>2, <1>4, <2>2, <2>3
  <2>5. \A i, j \in 1..Len(r) : r[i] = r[j] /\ r[i] # "pump" => i = j
    BY <1>1, <2>2, <2>3
  <2> QED
    BY <2>4, <2>5 DEF r
<1> QED
  BY <1>3, <1>4

\* The same, with what the thread has done before.
LEMMA Enqueues ==
  ASSUME LspInvariant, NEW c \in Callers, NEW k \in Ids, k = call[c].on,
         call[c].pc \in {"reads", "registers", "awaits"},
         NEW r \in CallState, call' = [call EXCEPT ![c] = r],
         NEW s \in ServerState, server' = [server EXCEPT ![k] = s],
         UNCHANGED <<disk, installing, registered, gate, manager, races>>,
         r.pc = "writes", r.on = k, r.frame # "-", r.seen = call[c].seen,
         s.queue = Append(server[k].queue, c), s.life = server[k].life, s.broken = server[k].broken,
         s.text = server[k].text, s.synced = server[k].synced, server[k].waiters \subseteq s.waiters,
         call[c].pc = "reads" => r.frame = "text" /\ r.text = disk,
         call[c].pc # "reads" => /\ r.frame # "text" /\ r.text = call[c].text
                                 /\ call[c].frame = "initialize" <=> r.frame \in {"initialize", "initialized"},
         r.frame \in {"initialize", "query"} /\ ~r.late => c \in s.waiters /\ ~s.broken
  PROVE  LspInvariant'
<1>a. Typed /\ Placed /\ Queued /\ Attended /\ Dated /\ InStep /\ Gated /\ Installing /\ Fields
  BY Parts
<1>0. call[c] \in CallState /\ PlacedAt(call[c])
  BY <1>a DEF Fields, Placed
<1>1. /\ call'[c] = r /\ \A d \in Callers \ {c} : call'[d] = call[d]
      /\ call' \in [Callers -> CallState]
  BY <1>a DEF Fields, Typed
<1>2. /\ server' \in Seq(ServerState) /\ Len(server') = Len(server)
      /\ server'[k] = s /\ \A j \in Ids \ {k} : server'[j] = server[j]
  BY <1>a, ServerReplaced DEF Typed
<1>3. call[c].frame \in {"-", "initialize", "query"}
  BY <1>0 DEF PlacedAt
<1>4. \A d \in Callers \ {c} : CallStays(d)
  BY <1>1 DEF CallStays
<1>5. Typed'
  BY <1>a, <1>1, <1>2 DEF Typed
<1>i. Ids' = Ids
  BY <1>2 DEF Ids
<1>6. Placed'
  <2>1. PlacedAt(call[c])'
    BY <1>0, <1>1, <1>2 DEF PlacedAt
  <2> QED
    BY <1>1, <1>2, <1>a, <2>1 DEF Placed, PlacedAt
<1>7. Queued'
  BY <1>1, <1>2, <1>4, <1>5, <1>a, QueueAppended
<1>8. Attended'
  <2> SUFFICES ASSUME NEW d \in Callers,
                      call'[d].pc \in {"writes", "awaits"}, call'[d].frame \in {"initialize", "query"},
                      ~call'[d].late, call'[d].got = "-"
               PROVE  d \in server'[call'[d].on].waiters /\ ~server'[call'[d].on].broken
    BY DEF Attended
  <2>1. CASE d = c
    BY <1>1, <1>2, <2>1
  <2>2. CASE d # c
    <3>1. d \in server[call[d].on].waiters /\ ~server[call[d].on].broken /\ call'[d] = call[d]
      BY <1>1, <1>a, <2>2 DEF Attended
    <3>2. call[d].on \in Ids
      BY <1>1, <2>2, AtAClient
    <3> QED
      BY <1>2, <3>1, <3>2
  <2> QED
    BY <2>1, <2>2
<1>9. Dated'
  <2>1. \A j \in Ids : server'[j].text <= disk /\ server'[j].synced <= disk
    BY <1>2, <1>a DEF Dated
  <2>2. \A d \in Callers : call'[d].seen <= disk /\ call'[d].text <= disk
    <3>1. disk <= disk
      BY <1>a DEF Fields
    <3> QED
      BY <1>0, <1>1, <1>a, <3>1 DEF Dated
  <2> QED
    BY <1>i, <2>1, <2>2 DEF Dated
<1>10. InStep'
  <2>0. \A j \in Ids : /\ server'[j].life = server[j].life
                       /\ server'[j].text = server[j].text /\ server'[j].synced = server[j].synced
    BY <1>2
  <2>1. CASE call[c].pc # "reads"
    <3>1. ~Syncing(c) /\ ~(Syncing(c))'
      BY <1>1, <1>3, <2>1 DEF Syncing
    <3>2. \A d \in Callers : SyncSame(d)
      BY <1>1, <3>1 DEF SyncSame, Syncing
    <3> QED
      BY <1>a, <1>5, <1>6, <1>i, <2>0, <3>2, InStepKept
  <2>2. CASE call[c].pc = "reads"
    <3> SUFFICES ASSUME "sync" \notin races' PROVE InStep'
      BY DEF InStep
    <3>1. "sync" \notin races
      OBVIOUS
    <3>2. Syncing(c) /\ (Syncing(c))' /\ call'[c].pc # "records" /\ call'[c].on = call[c].on
      BY <1>1, <2>2 DEF Syncing
    <3>3. \A d \in Callers : (Syncing(d) <=> (Syncing(d))') /\ call'[d].on = call[d].on
      BY <1>1, <3>2 DEF Syncing
    <3>4. \A d, e \in Callers : (Syncing(d))' /\ (Syncing(e))' /\ call'[d].on = call'[e].on => d = e
      BY <1>a, <3>1, <3>3 DEF InStep
    <3>5. \A d \in Callers : call'[d].frame = "text" => call'[d].seen <= call'[d].text
      <4>1. call'[c].seen <= call'[c].text
        BY <1>1, <1>a, <2>2 DEF Dated
      <4> QED
        BY <1>1, <1>a, <3>1, <4>1 DEF InStep
    <3>6. ASSUME NEW d \in Callers, call'[d].pc = "records", server'[call'[d].on].life = "up"
          PROVE  call'[d].seen <= server'[call'[d].on].text
      <4>1. d # c /\ call'[d] = call[d]
        BY <1>1, <3>2, <3>6
      <4>2. call[d].on \in Ids
        BY <3>6, <4>1, AtAClient
      <4> QED
        BY <1>a, <2>0, <3>1, <3>6, <4>1, <4>2 DEF InStep
    <3>7. \A j \in Ids' :
            server'[j].life = "up" /\ (\A d \in Callers : ~((Syncing(d))' /\ call'[d].on = j)) =>
              server'[j].synced <= server'[j].text
      BY <1>a, <1>i, <2>0, <3>1, <3>3 DEF InStep
    <3> QED
      BY <3>4, <3>5, <3>6, <3>7 DEF InStep
  <2> QED
    BY <2>1, <2>2
<1>s. (Starting(c))' <=> Starting(c)
  BY <1>1, <1>3, <1>0 DEF Starting, PlacedAt
<1>11. Gated'
  <2>1. \A d \in Callers : (Holding(d))' => Holding(d)
    BY <1>1, <1>s DEF Holding, Starting
  <2> QED
    BY <1>a, <2>1, GatedKept
<1>12. Installing'
  <2>1. installing # c
    BY <1>a DEF Installing, At
  <2> QED
    BY <1>1, <1>a, <2>1 DEF Installing, At
<1>13. \A d \in Callers : CallMoves(d)
  <2>1. CallMoves(c)
    BY <1>1, <1>s DEF CallMoves
  <2> QED
    BY <1>4, <2>1, StayingMoves
<1>14. \A j \in Ids : server'[j].life = server[j].life
  BY <1>2
<1> QED
  BY <1>2, <1>5, <1>6, <1>7, <1>8, <1>9, <1>10, <1>11, <1>12, <1>13, <1>14, StepKeeps

\* A server that is missing is to be installed.
LEMMA GoesToInstallKeeps ==
  ASSUME LspInvariant, NEW c \in Callers,
         SpawnsNothing(c), call' = Goes(c, "installs"), UNCHANGED <<gate, registered, races>>
  PROVE  LspInvariant'
<1>a. Typed /\ PlacedAt(call[c]) /\ Installing /\ Fields /\ call[c] \in CallState
  BY FieldsTyped DEF LspInvariant, Placed, Fields
<1>r. registered \in Nat /\ call[c].tries + 1 \in Nat
  BY <1>a DEF Typed, Fields, CallState
<1>b. /\ call[c].pc = "spawns"
      /\ UNCHANGED <<disk, installing, server, registered, gate, manager, races>>
  BY <1>a DEF SpawnsNothing, At
<1> DEFINE r == [call[c] EXCEPT !.pc = "installs"]
<1>1. r \in CallState
  BY <1>a, <1>r, PcsAre, NoCallTyped DEF CallState
<1>2. call' = [call EXCEPT ![c] = r]
  BY <1>a, <1>b DEF Goes, Typed
<1>3. PlacedAt(r)
  BY <1>a, <1>b DEF PlacedAt, NoCall, Fields, Typed, CallState
<1>4. Installing'
  BY <1>a, <1>b, <1>2, CallersAreThreads DEF Installing, At, Fields
<1>5. /\ call[c].pc \notin {"writes", "reads", "records"}
      /\ r.pc \notin {"writes", "awaits", "reads", "records"}
      /\ r.on \in {call[c].on, registered, 0}
      /\ r.seen \in {call[c].seen, 0} /\ r.text \in {call[c].text, 0}
  BY <1>a, <1>b DEF NoCall, CallState
<1>6. /\ StartingAt(r) /\ r.on # 0 => StartingAt(call[c]) /\ r.on = call[c].on
      /\ StartingAt(r) /\ r.pc # "takes" => StartingAt(call[c]) /\ call[c].pc # "takes"
      /\ StartingAt(call[c]) /\ call[c].on # 0 => StartingAt(r) /\ r.on = call[c].on
  BY <1>a, <1>b DEF StartingAt, PlacedAt, NoCall, CallState
<1> HIDE DEF r
<1> QED
  BY <1>b, <1>1, <1>2, <1>3, <1>4, <1>5, <1>6, OwnRecord

\* A request is sent to a client that is not broken.
LEMMA ChecksKeep ==
  ASSUME LspInvariant, NEW c \in Callers,
         ChecksBroken(c), ~server[call[c].on].broken
  PROVE  LspInvariant'
<1>a. Typed /\ PlacedAt(call[c]) /\ Installing /\ Fields /\ call[c] \in CallState
  BY FieldsTyped DEF LspInvariant, Placed, Fields
<1>r. registered \in Nat /\ call[c].tries + 1 \in Nat
  BY <1>a DEF Typed, Fields, CallState
<1>b. /\ call[c].pc = "asks"
      /\ UNCHANGED <<disk, installing, server, registered, gate, manager, races>>
  BY <1>a DEF ChecksBroken, At
<1> DEFINE r == [call[c] EXCEPT !.pc = "registers"]
<1>1. r \in CallState
  BY <1>a, <1>r, PcsAre, NoCallTyped DEF CallState
<1>2. call' = [call EXCEPT ![c] = r]
  BY <1>a, <1>b DEF ChecksBroken, Goes, Typed
<1>3. PlacedAt(r)
  BY <1>a, <1>b DEF PlacedAt, NoCall, Fields, Typed, CallState
<1>4. Installing'
  BY <1>a, <1>b, <1>2, CallersAreThreads DEF Installing, At, Fields
<1>5. /\ call[c].pc \notin {"writes", "reads", "records"}
      /\ r.pc \notin {"writes", "awaits", "reads", "records"}
      /\ r.on \in {call[c].on, registered, 0}
      /\ r.seen \in {call[c].seen, 0} /\ r.text \in {call[c].text, 0}
  BY <1>a, <1>b DEF NoCall, CallState
<1>6. /\ StartingAt(r) /\ r.on # 0 => StartingAt(call[c]) /\ r.on = call[c].on
      /\ StartingAt(r) /\ r.pc # "takes" => StartingAt(call[c]) /\ call[c].pc # "takes"
      /\ StartingAt(call[c]) /\ call[c].on # 0 => StartingAt(r) /\ r.on = call[c].on
  BY <1>a, <1>b DEF StartingAt, PlacedAt, NoCall, CallState
<1> HIDE DEF r
<1> QED
  BY <1>b, <1>1, <1>2, <1>3, <1>4, <1>5, <1>6, OwnRecord

\* A query that fails, at its check or with its answer, ends the call.
LEMMA RefusedKeeps ==
  ASSUME LspInvariant, NEW c \in Callers,
         call[c].frame # "initialize", call[c].pc \in {"asks", "awaits"}, Refused(c),
         UNCHANGED <<disk, installed, installing, manager>>
  PROVE  LspInvariant'
<1>a. Typed /\ PlacedAt(call[c]) /\ Installing /\ Fields /\ call[c] \in CallState
  BY FieldsTyped DEF LspInvariant, Placed, Fields
<1>r. registered \in Nat /\ call[c].tries + 1 \in Nat
  BY <1>a DEF Typed, Fields, CallState
<1>b. /\ call[c].pc \in {"asks", "awaits"} /\ call[c].frame # "initialize"
      /\ UNCHANGED <<disk, installing, server, registered, gate, manager, races>>
  BY <1>a DEF Refused
<1> DEFINE r == NoCall
<1>1. r \in CallState
  BY <1>a, <1>r, PcsAre, NoCallTyped DEF CallState
<1>2. call' = [call EXCEPT ![c] = r]
  BY <1>a, <1>b DEF Refused, Returns, Typed
<1>3. PlacedAt(r)
  BY <1>a, <1>b DEF PlacedAt, NoCall, Fields, Typed, CallState
<1>4. Installing'
  BY <1>a, <1>b, <1>2, CallersAreThreads DEF Installing, At, Fields
<1>5. /\ call[c].pc \notin {"writes", "reads", "records"}
      /\ r.pc \notin {"writes", "awaits", "reads", "records"}
      /\ r.on \in {call[c].on, registered, 0}
      /\ r.seen \in {call[c].seen, 0} /\ r.text \in {call[c].text, 0}
  BY <1>a, <1>b DEF NoCall, CallState
<1>6. /\ StartingAt(r) /\ r.on # 0 => StartingAt(call[c]) /\ r.on = call[c].on
      /\ StartingAt(r) /\ r.pc # "takes" => StartingAt(call[c]) /\ call[c].pc # "takes"
      /\ StartingAt(call[c]) /\ call[c].on # 0 => StartingAt(r) /\ r.on = call[c].on
  BY <1>a, <1>b DEF StartingAt, PlacedAt, NoCall, CallState
<1> HIDE DEF r
<1> QED
  BY <1>b, <1>1, <1>2, <1>3, <1>4, <1>5, <1>6, OwnRecord

\* A query is tried again.
LEMMA RetryKeeps ==
  ASSUME LspInvariant, NEW c \in Callers,
         call[c].pc = "awaits", call[c].frame = "query", UNCHANGED <<disk, installed, installing, manager>>,
         call' = [call EXCEPT ![c].pc = "asks", ![c].tries = @ + 1, ![c].got = "-"],
         UNCHANGED <<server, gate, registered, races>>
  PROVE  LspInvariant'
<1>a. Typed /\ PlacedAt(call[c]) /\ Installing /\ Fields /\ call[c] \in CallState
  BY FieldsTyped DEF LspInvariant, Placed, Fields
<1>r. registered \in Nat /\ call[c].tries + 1 \in Nat
  BY <1>a DEF Typed, Fields, CallState
<1>b. /\ call[c].pc = "awaits" /\ call[c].frame = "query"
      /\ UNCHANGED <<disk, installing, server, registered, gate, manager, races>>
  BY <1>a DEF At
<1> DEFINE r == [call[c] EXCEPT !.pc = "asks", !.tries = @ + 1, !.got = "-"]
<1>1. r \in CallState
  BY <1>a, <1>r, PcsAre, NoCallTyped DEF CallState
<1>2. call' = [call EXCEPT ![c] = r]
  BY <1>a, <1>b DEF Typed
<1>3. PlacedAt(r)
  BY <1>a, <1>b DEF PlacedAt, NoCall, Fields, Typed, CallState
<1>4. Installing'
  BY <1>a, <1>b, <1>2, CallersAreThreads DEF Installing, At, Fields
<1>5. /\ call[c].pc \notin {"writes", "reads", "records"}
      /\ r.pc \notin {"writes", "awaits", "reads", "records"}
      /\ r.on \in {call[c].on, registered, 0}
      /\ r.seen \in {call[c].seen, 0} /\ r.text \in {call[c].text, 0}
  BY <1>a, <1>b DEF NoCall, CallState
<1>6. /\ StartingAt(r) /\ r.on # 0 => StartingAt(call[c]) /\ r.on = call[c].on
      /\ StartingAt(r) /\ r.pc # "takes" => StartingAt(call[c]) /\ call[c].pc # "takes"
      /\ StartingAt(call[c]) /\ call[c].on # 0 => StartingAt(r) /\ r.on = call[c].on
  BY <1>a, <1>b DEF StartingAt, PlacedAt, NoCall, CallState
<1> HIDE DEF r
<1> QED
  BY <1>b, <1>1, <1>2, <1>3, <1>4, <1>5, <1>6, OwnRecord

\* The client's copy is current: a query is sent.
LEMMA InSyncQueryKeeps ==
  ASSUME LspInvariant, NEW c \in Callers,
         Stats(c), server[call[c].on].synced = disk, call[c].op = "query"
  PROVE  LspInvariant'
<1>a. Typed /\ PlacedAt(call[c]) /\ Installing /\ Fields /\ call[c] \in CallState
  BY FieldsTyped DEF LspInvariant, Placed, Fields
<1>r. registered \in Nat /\ call[c].tries + 1 \in Nat
  BY <1>a DEF Typed, Fields, CallState
<1>b. /\ call[c].pc = "stats" /\ call[c].op = "query"
      /\ UNCHANGED <<disk, installing, server, registered, gate, manager, races>>
  BY <1>a DEF Stats, At
<1> DEFINE r == [call[c] EXCEPT !.pc = "asks", !.frame = "query"]
<1>1. r \in CallState
  BY <1>a, <1>r, PcsAre, NoCallTyped DEF CallState
<1>2. call' = [call EXCEPT ![c] = r]
  BY <1>a, <1>b DEF Stats, Follows, Typed
<1>3. PlacedAt(r)
  BY <1>a, <1>b DEF PlacedAt, NoCall, Fields, Typed, CallState
<1>4. Installing'
  BY <1>a, <1>b, <1>2, CallersAreThreads DEF Installing, At, Fields
<1>5. /\ call[c].pc \notin {"writes", "reads", "records"}
      /\ r.pc \notin {"writes", "awaits", "reads", "records"}
      /\ r.on \in {call[c].on, registered, 0}
      /\ r.seen \in {call[c].seen, 0} /\ r.text \in {call[c].text, 0}
  BY <1>a, <1>b DEF NoCall, CallState
<1>6. /\ StartingAt(r) /\ r.on # 0 => StartingAt(call[c]) /\ r.on = call[c].on
      /\ StartingAt(r) /\ r.pc # "takes" => StartingAt(call[c]) /\ call[c].pc # "takes"
      /\ StartingAt(call[c]) /\ call[c].on # 0 => StartingAt(r) /\ r.on = call[c].on
  BY <1>a, <1>b DEF StartingAt, PlacedAt, NoCall, CallState
<1> HIDE DEF r
<1> QED
  BY <1>b, <1>1, <1>2, <1>3, <1>4, <1>5, <1>6, OwnRecord

\* The client's copy is current: the diagnostics are waited for.
LEMMA InSyncDrainKeeps ==
  ASSUME LspInvariant, NEW c \in Callers,
         Stats(c), server[call[c].on].synced = disk, call[c].op # "query"
  PROVE  LspInvariant'
<1>a. Typed /\ PlacedAt(call[c]) /\ Installing /\ Fields /\ call[c] \in CallState
  BY FieldsTyped DEF LspInvariant, Placed, Fields
<1>r. registered \in Nat /\ call[c].tries + 1 \in Nat
  BY <1>a DEF Typed, Fields, CallState
<1>b. /\ call[c].pc = "stats" /\ call[c].op # "query"
      /\ UNCHANGED <<disk, installing, server, registered, gate, manager, races>>
  BY <1>a DEF Stats, At
<1> DEFINE r == [call[c] EXCEPT !.pc = "drains", !.frame = "-"]
<1>1. r \in CallState
  BY <1>a, <1>r, PcsAre, NoCallTyped DEF CallState
<1>2. call' = [call EXCEPT ![c] = r]
  BY <1>a, <1>b DEF Stats, Follows, Typed
<1>3. PlacedAt(r)
  BY <1>a, <1>b DEF PlacedAt, NoCall, Fields, Typed, CallState
<1>4. Installing'
  BY <1>a, <1>b, <1>2, CallersAreThreads DEF Installing, At, Fields
<1>5. /\ call[c].pc \notin {"writes", "reads", "records"}
      /\ r.pc \notin {"writes", "awaits", "reads", "records"}
      /\ r.on \in {call[c].on, registered, 0}
      /\ r.seen \in {call[c].seen, 0} /\ r.text \in {call[c].text, 0}
  BY <1>a, <1>b DEF NoCall, CallState
<1>6. /\ StartingAt(r) /\ r.on # 0 => StartingAt(call[c]) /\ r.on = call[c].on
      /\ StartingAt(r) /\ r.pc # "takes" => StartingAt(call[c]) /\ call[c].pc # "takes"
      /\ StartingAt(call[c]) /\ call[c].on # 0 => StartingAt(r) /\ r.on = call[c].on
  BY <1>a, <1>b DEF StartingAt, PlacedAt, NoCall, CallState
<1> HIDE DEF r
<1> QED
  BY <1>b, <1>1, <1>2, <1>3, <1>4, <1>5, <1>6, OwnRecord

\* A request is registered and handed to the writer.
LEMMA RegistersKeeps ==
  ASSUME LspInvariant, NEW c \in Callers, Registers(c)
  PROVE  LspInvariant'
<1> DEFINE k == call[c].on
           r == [call[c] EXCEPT !.pc = "writes", !.got = "-", !.late = server[k].broken]
           s == [server[k] EXCEPT !.waiters = @ \union {c}, !.queue = Append(@, c)]
<1>a. Fields /\ PlacedAt(call[c])
  BY Parts DEF Placed
<1>0. /\ call[c].pc = "registers"
      /\ UNCHANGED <<disk, installing, registered, gate, manager, races>>
  BY DEF Registers, At
<1>1. k \in Ids /\ call[c] \in CallState /\ server[k] \in ServerState
  BY <1>0, AtAClient
<1>2. r \in CallState
  <2>1. server[k].broken \in BOOLEAN
    BY <1>1 DEF ServerState
  <2> QED
    BY <1>1, <2>1, PcsAre DEF CallState
<1>3. s \in ServerState
  <2>1. Append(server[k].queue, c) \in Seq(Callers \cup {"pump"})
    BY <1>1 DEF ServerState
  <2> QED
    BY <1>1, <2>1 DEF ServerState
<1>4. call' = [call EXCEPT ![c] = r] /\ server' = [server EXCEPT ![k] = s]
  BY <1>1, <1>a DEF Registers, Fields
<1>5. call[c].frame \in {"initialize", "query"}
  BY <1>0, <1>a DEF PlacedAt
<1>6. /\ r.pc = "writes" /\ r.on = k /\ r.frame = call[c].frame /\ r.seen = call[c].seen
      /\ r.text = call[c].text /\ r.late = server[k].broken
  BY <1>1 DEF CallState
<1>7. /\ s.queue = Append(server[k].queue, c) /\ s.life = server[k].life /\ s.broken = server[k].broken
      /\ s.text = server[k].text /\ s.synced = server[k].synced /\ s.waiters = server[k].waiters \cup {c}
  BY <1>1 DEF ServerState
<1>8. /\ r.frame # "-" /\ r.frame # "text"
      /\ call[c].frame = "initialize" <=> r.frame \in {"initialize", "initialized"}
      /\ ~r.late => ~s.broken
      /\ c \in s.waiters /\ server[k].waiters \subseteq s.waiters
  BY <1>5, <1>6, <1>7
<1> HIDE DEF r, s, k
<1>9. r.frame \in {"initialize", "query"} /\ ~r.late => c \in s.waiters /\ ~s.broken
  BY <1>8
<1> QED
  BY <1>0, <1>1, <1>2, <1>3, <1>4, <1>6, <1>7, <1>8, <1>9, Enqueues DEF k

\* The text is read and handed to the writer.
LEMMA ReadsKeeps ==
  ASSUME LspInvariant, NEW c \in Callers, Reads(c)
  PROVE  LspInvariant'
<1> DEFINE k == call[c].on
           r == [call[c] EXCEPT !.pc = "writes", !.frame = "text", !.text = disk]
           s == [server[k] EXCEPT !.queue = Append(@, c)]
<1>a. Fields /\ PlacedAt(call[c])
  BY Parts DEF Placed
<1>0. /\ call[c].pc = "reads"
      /\ UNCHANGED <<disk, installing, registered, gate, manager, races>>
  BY DEF Reads, At
<1>1. k \in Ids /\ call[c] \in CallState /\ server[k] \in ServerState
  BY <1>0, AtAClient
<1>2. r \in CallState
  BY <1>1, <1>a, PcsAre DEF CallState, Fields
<1>3. s \in ServerState
  <2>1. Append(server[k].queue, c) \in Seq(Callers \cup {"pump"})
    BY <1>1 DEF ServerState
  <2> QED
    BY <1>1, <2>1 DEF ServerState
<1>4. call' = [call EXCEPT ![c] = r] /\ server' = [server EXCEPT ![k] = s]
  BY <1>1, <1>a DEF Reads, Fields
<1>6. /\ r.pc = "writes" /\ r.on = k /\ r.frame = "text" /\ r.seen = call[c].seen
      /\ r.text = disk
  BY <1>1 DEF CallState
<1>7. /\ s.queue = Append(server[k].queue, c) /\ s.life = server[k].life /\ s.broken = server[k].broken
      /\ s.text = server[k].text /\ s.synced = server[k].synced /\ s.waiters = server[k].waiters
  BY <1>1 DEF ServerState
<1> HIDE DEF r, s
<1> QED
  BY <1>0, <1>1, <1>2, <1>3, <1>4, <1>6, <1>7, Enqueues

\* The handshake's second frame is handed to the writer.
LEMMA InitializedKeeps ==
  ASSUME LspInvariant, NEW c \in Callers, call[c].pc = "awaits", call[c].frame = "initialize",
         call' = [call EXCEPT ![c].pc = "writes", ![c].frame = "initialized",
                              ![c].got = "-", ![c].late = FALSE],
         server' = [server EXCEPT ![call[c].on].queue = Append(@, c)],
         UNCHANGED <<disk, installing, registered, gate, manager, races>>
  PROVE  LspInvariant'
<1> DEFINE k == call[c].on
           r == [call[c] EXCEPT !.pc = "writes", !.frame = "initialized", !.got = "-", !.late = FALSE]
           s == [server[k] EXCEPT !.queue = Append(@, c)]
<1>a. Fields /\ PlacedAt(call[c])
  BY Parts DEF Placed
<1>1. k \in Ids /\ call[c] \in CallState /\ server[k] \in ServerState
  BY AtAClient
<1>2. r \in CallState
  BY <1>1, PcsAre DEF CallState
<1>3. s \in ServerState
  <2>1. Append(server[k].queue, c) \in Seq(Callers \cup {"pump"})
    BY <1>1 DEF ServerState
  <2> QED
    BY <1>1, <2>1 DEF ServerState
<1>4. call' = [call EXCEPT ![c] = r] /\ server' = [server EXCEPT ![k] = s]
  BY <1>1, <1>a DEF Fields
<1>6. /\ r.pc = "writes" /\ r.on = k /\ r.frame = "initialized" /\ r.seen = call[c].seen
      /\ r.text = call[c].text
  BY <1>1 DEF CallState
<1>7. /\ s.queue = Append(server[k].queue, c) /\ s.life = server[k].life /\ s.broken = server[k].broken
      /\ s.text = server[k].text /\ s.synced = server[k].synced /\ s.waiters = server[k].waiters
  BY <1>1 DEF ServerState
<1>8. /\ r.frame # "-" /\ r.frame # "text" /\ r.frame \notin {"initialize", "query"}
      /\ call[c].frame = "initialize" <=> r.frame \in {"initialize", "initialized"}
      /\ server[k].waiters \subseteq s.waiters
  BY <1>6, <1>7
<1> HIDE DEF r, s, k
<1> QED
  BY <1>1, <1>2, <1>3, <1>4, <1>6, <1>7, <1>8, Enqueues DEF k

\* The installer has put the server in place.
LEMMA InstalledKeeps ==
  ASSUME LspInvariant, NEW c \in Callers,
         InstallEnds(c), installed' = TRUE, call' = Goes(c, "spawns"), UNCHANGED <<gate, registered, races>>
  PROVE  LspInvariant'
<1>a. Typed /\ PlacedAt(call[c]) /\ Installing /\ Fields /\ call[c] \in CallState
  BY FieldsTyped DEF LspInvariant, Placed, Fields
<1>r. registered \in Nat /\ call[c].tries + 1 \in Nat
  BY <1>a DEF Typed, Fields, CallState
<1>b. /\ call[c].pc = "installs" /\ installing' = "none"
      /\ UNCHANGED <<disk, server, registered, gate, manager, races>>
  BY <1>a DEF InstallEnds, Installing, At
<1> DEFINE r == [call[c] EXCEPT !.pc = "spawns"]
<1>1. r \in CallState
  BY <1>a, <1>r, PcsAre, NoCallTyped DEF CallState
<1>2. call' = [call EXCEPT ![c] = r]
  BY <1>a, <1>b DEF Goes, Typed
<1>3. PlacedAt(r)
  BY <1>a, <1>b DEF PlacedAt, NoCall, Fields, Typed, CallState
<1>4. Installing'
  BY <1>a, <1>b, <1>2, CallersAreThreads DEF Installing, At, Fields
<1>5. /\ call[c].pc \notin {"writes", "reads", "records"}
      /\ r.pc \notin {"writes", "awaits", "reads", "records"}
      /\ r.on \in {call[c].on, registered, 0}
      /\ r.seen \in {call[c].seen, 0} /\ r.text \in {call[c].text, 0}
  BY <1>a, <1>b DEF NoCall, CallState
<1>6. /\ StartingAt(r) /\ r.on # 0 => StartingAt(call[c]) /\ r.on = call[c].on
      /\ StartingAt(r) /\ r.pc # "takes" => StartingAt(call[c]) /\ call[c].pc # "takes"
      /\ StartingAt(call[c]) /\ call[c].on # 0 => StartingAt(r) /\ r.on = call[c].on
  BY <1>a, <1>b DEF StartingAt, PlacedAt, NoCall, CallState
<1> HIDE DEF r
<1> QED
  BY <1>b, <1>1, <1>2, <1>3, <1>4, <1>5, <1>6, OwnRecord

\* Calls are what they are.
LEMMA RungByNothing ==
  ASSUME call \in [Callers -> CallState]
  PROVE  Rung(call, call)
BY DEF Rung

\* Nobody else's wait for the installer ends with a start that fails.
LEMMA FailureInstalls ==
  ASSUME Fields, Installing, NEW c \in Callers, NEW calls, Rung(call, calls), StartFails(c, calls),
         installing' = "none" \/ (installing' = installing /\ installing # c)
  PROVE  Installing'
<1>1. NoCall \in CallState /\ [calls EXCEPT ![c] = NoCall] \in [Callers -> CallState]
  BY NoCallTyped DEF Rung
<1>2. Freed([calls EXCEPT ![c] = NoCall], call')
  BY <1>1, OpenedCalls DEF StartFails
<1> SUFFICES ASSUME NEW d \in Callers, installing' = d PROVE call'[d].pc = "installs"
  BY DEF Installing, At
<1>3. d # c /\ call[d].pc = "installs"
  BY CallersAreThreads DEF Installing, At
<1>4. calls[d].pc = "installs" /\ [calls EXCEPT ![c] = NoCall][d] = calls[d]
  BY <1>3 DEF Rung
<1> QED
  BY <1>2, <1>4 DEF Freed

\* A start that fails before there is a client.
LEMMA NoClientKeeps ==
  ASSUME LspInvariant, NEW c \in Callers, call[c].pc \in {"spawns", "installs"}, StartFails(c, call),
         UNCHANGED <<server, manager, disk>>,
         installing' = "none" \/ (installing' = installing /\ call[c].pc = "spawns")
  PROVE  LspInvariant'
<1>a. Fields /\ Typed /\ Installing /\ PlacedAt(call[c])
  BY Parts DEF Placed
<1>1. Rung(call, call)
  BY <1>a, RungByNothing DEF Typed
<1>2. Holding(c) /\ call[c].on = 0 /\ call[c].frame # "text"
  BY <1>a DEF Holding, Starting, PlacedAt
<1>3. Installing'
  <2>1. call[c].pc = "spawns" => installing # c
    BY <1>a DEF Installing, At
  <2> QED
    BY <1>1, <1>a, <2>1, FailureInstalls
<1>4. server' \in Seq(ServerState) /\ Len(server') = Len(server)
  BY <1>a DEF Typed
<1> QED
  BY <1>1, <1>2, <1>3, <1>4, StartFailed

\* A start that fails when it has a client, which it shuts down.
LEMMA UndoneKeeps ==
  ASSUME LspInvariant, NEW c \in Callers, call[c].frame = "initialize",
         call[c].pc \in {"asks", "awaits", "writes"},
         NEW calls, Rung(call, calls), StartFails(c, calls),
         server' = [server EXCEPT ![call[c].on] = ShutServer],
         UNCHANGED <<disk, installing, manager>>
  PROVE  LspInvariant'
<1>a. Fields /\ Typed /\ Installing
  BY Parts
<1> DEFINE k == call[c].on
<1>1. Holding(c) /\ k # 0 /\ k \in Ids
  BY AtAClient DEF Holding, Starting
<1>2. Installing'
  <2>1. installing # c
    BY <1>a DEF Installing, At
  <2> QED
    BY <1>a, <2>1, FailureInstalls
<1>3. /\ server' \in Seq(ServerState) /\ Len(server') = Len(server)
      /\ server'[k] = ShutServer /\ \A j \in Ids \ {k} : server'[j] = server[j]
  BY <1>a, <1>1, NewServerTyped, ServerReplaced DEF Typed
<1> QED
  BY <1>1, <1>2, <1>3, StartFailed

\* The thread that waits for the server to be installed.
LEMMA SpawnsNothingKeeps ==
  ASSUME LspInvariant, NEW c \in Callers, SpawnsNothing(c)
  PROVE  LspInvariant'
<1>0. call[c].pc = "spawns" /\ UNCHANGED <<server, manager, disk, installing>>
  BY DEF SpawnsNothing, At
<1>1. CASE call' = Goes(c, "installs") /\ UNCHANGED <<gate, registered, races>>
  BY <1>1, GoesToInstallKeeps
<1>2. CASE StartFails(c, call)
  BY <1>0, <1>2, NoClientKeeps
<1> QED
  BY <1>1, <1>2 DEF SpawnsNothing

\* The installer ends, or is killed.
LEMMA InstallEndsKeeps ==
  ASSUME LspInvariant, NEW c \in Callers, InstallEnds(c)
  PROVE  LspInvariant'
<1>0. call[c].pc = "installs" /\ UNCHANGED <<server, manager, disk>> /\ installing' = "none"
  BY Parts DEF InstallEnds, Installing, At
<1>1. CASE installed' = TRUE /\ call' = Goes(c, "spawns") /\ UNCHANGED <<gate, registered, races>>
  BY <1>1, InstalledKeeps
<1>2. CASE StartFails(c, call)
  BY <1>0, <1>2, NoClientKeeps
<1> QED
  BY <1>1, <1>2 DEF InstallEnds

\* A request that is refused or fails with its answer.
LEMMA RefusalKeeps ==
  ASSUME LspInvariant, NEW c \in Callers, call[c].pc \in {"asks", "awaits"}, Refused(c),
         UNCHANGED <<disk, installed, installing, manager>>
  PROVE  LspInvariant'
<1>1. CASE call[c].frame = "initialize"
  <2>1. Rung(call, call)
    BY Parts, RungByNothing DEF Typed
  <2>2. StartFails(c, call) /\ server' = [server EXCEPT ![call[c].on] = ShutServer]
    BY <1>1 DEF Refused, StartIsUndone
  <2> QED
    BY <1>1, <2>1, <2>2, UndoneKeeps
<1>2. CASE call[c].frame # "initialize"
  BY <1>2, RefusedKeeps
<1> QED
  BY <1>1, <1>2

\* A request finds its client broken, or not.
LEMMA ChecksBrokenKeeps ==
  ASSUME LspInvariant, NEW c \in Callers, ChecksBroken(c)
  PROVE  LspInvariant'
<1>1. CASE server[call[c].on].broken
  BY <1>1, RefusalKeeps DEF ChecksBroken, At
<1>2. CASE ~server[call[c].on].broken
  BY <1>2, ChecksKeep
<1> QED
  BY <1>1, <1>2

\* A request has been answered, or its client has broken.
LEMMA AnsweredKeeps ==
  ASSUME LspInvariant, NEW c \in Callers, Answered(c)
  PROVE  LspInvariant'
<1>0. call[c].pc = "awaits" /\ UNCHANGED <<disk, installed, installing, manager>>
  BY DEF Answered, At
<1>1. CASE call[c].frame = "initialize" /\ call[c].got = "result"
  <2>1. /\ call' = [call EXCEPT ![c].pc = "writes", ![c].frame = "initialized",
                                ![c].got = "-", ![c].late = FALSE]
        /\ server' = [server EXCEPT ![call[c].on].queue = Append(@, c)]
        /\ UNCHANGED <<gate, registered, races>>
    BY <1>1 DEF Answered
  <2> QED
    BY <1>0, <1>1, <2>1, InitializedKeeps
<1>2. CASE call[c].frame = "query" /\ call[c].got = "modified" /\ call[c].tries < Retries
  <2>1. /\ call' = [call EXCEPT ![c].pc = "asks", ![c].tries = @ + 1, ![c].got = "-"]
        /\ UNCHANGED <<server, gate, registered, races>>
    BY <1>2 DEF Answered
  <2> QED
    BY <1>0, <1>2, <2>1, RetryKeeps
<1>3. CASE /\ ~(call[c].frame = "initialize" /\ call[c].got = "result")
           /\ ~(call[c].frame = "query" /\ call[c].got = "modified" /\ call[c].tries < Retries)
  <2>1. Refused(c)
    BY <1>3 DEF Answered
  <2> QED
    BY <1>0, <2>1, RefusalKeeps
<1> QED
  BY <1>1, <1>2, <1>3

\* The handshake's deadline passes.
LEMMA HandshakeTimesOutKeeps ==
  ASSUME LspInvariant, NEW c \in Callers, HandshakeTimesOut(c)
  PROVE  LspInvariant'
<1>1. /\ call[c].pc = "awaits" /\ call[c].frame = "initialize"
      /\ UNCHANGED <<disk, installed, installing, manager>> /\ StartIsUndone(c)
  BY DEF HandshakeTimesOut, At
<1>2. Rung(call, call)
  BY Parts, RungByNothing DEF Typed
<1>3. StartFails(c, call) /\ server' = [server EXCEPT ![call[c].on] = ShutServer]
  BY <1>1 DEF StartIsUndone
<1> QED
  BY <1>1, <1>2, <1>3, UndoneKeeps

\* A server's process has started: its client is the newest one.
LEMMA SpawnedKeeps ==
  ASSUME LspInvariant, NEW c \in Callers, call[c].pc = "spawns",
         server' = Append(server, NewServer), call' = Asks(c, Len(server) + 1, "initialize"),
         UNCHANGED <<disk, installing, registered, gate, manager, races>>
  PROVE  LspInvariant'
<1>a. Typed /\ Placed /\ Queued /\ Attended /\ Private /\ Dated /\ InStep /\ Gated /\ Closing
      /\ CalmNoStrayServer /\ Installing /\ Fields
  BY Parts
<1> DEFINE n == Len(server) + 1
           r == [call[c] EXCEPT !.pc = "asks", !.on = n, !.frame = "initialize"]
<1>0. call[c] \in CallState /\ PlacedAt(call[c]) /\ call[c].on = 0 /\ call[c].frame = "-"
  BY <1>a DEF Fields, Placed, PlacedAt
<1>n. n \in Nat /\ n # 0 /\ n \notin Ids /\ Len(server) \in Nat
  BY <1>a DEF Fields, Ids
<1>1. r \in CallState
  BY <1>0, <1>n, PcsAre DEF CallState
<1>2. call' = [call EXCEPT ![c] = r]
  BY <1>a DEF Asks, Fields
<1>3. /\ r.pc = "asks" /\ r.on = n /\ r.frame = "initialize"
      /\ r.seen = call[c].seen /\ r.text = call[c].text
  BY <1>0 DEF CallState
<1> HIDE DEF r
<1>4. /\ call'[c] = r /\ \A d \in Callers \ {c} : call'[d] = call[d]
      /\ call' \in [Callers -> CallState]
  BY <1>a, <1>1, <1>2 DEF Fields, Typed
<1>5. /\ server' \in Seq(ServerState) /\ Len(server') = n
      /\ server'[n] = NewServer /\ \A j \in Ids : server'[j] = server[j]
  <2>1. server \in Seq(ServerState) /\ NewServer \in ServerState
    BY <1>a, NewServerTyped DEF Typed
  <2> QED
    BY <2>1 DEF Ids
<1>6. /\ NewServer.queue = <<>> /\ NewServer.text = 0 /\ NewServer.synced = 0
  BY DEF NewServer
<1>i. Ids' = Ids \cup {n} /\ \A j \in Ids' : j \in Ids \/ j = n
  BY <1>5, <1>n DEF Ids
<1>o. \A d \in Callers : call[d].on # n /\ (call[d].on # 0 => call[d].on \in Ids)
  <2> SUFFICES ASSUME NEW d \in Callers PROVE call[d].on # n /\ (call[d].on # 0 => call[d].on \in Ids)
    OBVIOUS
  <2>1. call[d].on \in Nat /\ call[d].on <= Len(server)
    BY <1>a DEF Fields, Placed, PlacedAt
  <2> QED
    BY <1>n, <2>1 DEF Ids
<1> HIDE DEF n
<1>7. Typed'
  <2>1. registered' \in 0..Len(server') /\ manager' \in [pc : {"open", "closes", "shut"}, at : 0..Len(server')]
    <3>1. 0..Len(server) \subseteq 0..n
      BY <1>n DEF n
    <3> QED
      BY <1>5, <1>a, <3>1 DEF Typed
  <2> QED
    BY <1>a, <1>4, <1>5, <2>1 DEF Typed
<1>8. Placed'
  <2>1. PlacedAt(call[c])'
    BY <1>3, <1>4, <1>5, <1>n DEF PlacedAt
  <2>2. ASSUME NEW d \in Callers \ {c} PROVE PlacedAt(call[d])'
    <3>1. PlacedAt(call[d]) /\ call[d].on \in Nat
      BY <1>a DEF Placed, Fields
    <3>2. call'[d].on <= Len(server')
      BY <1>4, <1>5, <1>n, <3>1 DEF PlacedAt, n
    <3> QED
      BY <1>4, <3>1, <3>2 DEF PlacedAt
  <2> QED
    BY <2>1, <2>2 DEF Placed, PlacedAt
<1>9. Queued'
  <2>1. \A d \in Callers : call[d].pc = "writes" => call'[d] = call[d]
    BY <1>4
  <2>2. \A k \in Ids' :
           \/ server'[k].queue = <<>>
           \/ /\ k \in Ids /\ server'[k].queue = server[k].queue
              /\ \A d \in Callers : call[d].pc = "writes" /\ call[d].on = k =>
                                     call'[d].pc = "writes" /\ call'[d].on = k
    BY <1>5, <1>6, <1>i, <2>1
  <2> QED
    BY <1>7, <1>a, <2>2, QueuedKept
<1>10. Attended'
  <2>1. ASSUME NEW d \in Callers, call'[d].pc \in {"writes", "awaits"}
        PROVE  call'[d] = call[d] /\ server'[call[d].on] = server[call[d].on]
    <3>1. d # c
      BY <1>3, <1>4, <2>1
    <3>2. call'[d] = call[d]
      BY <1>4, <3>1
    <3>3. call[d].on \in Ids
      BY <2>1, <3>2, AtAClient
    <3> QED
      BY <1>5, <3>2, <3>3
  <2> QED
    BY <1>a, <2>1, AttendedKept
<1>s. Starting(c) /\ (Starting(c))' /\ Holding(c)
  BY <1>3, <1>4 DEF Starting, Holding
<1>t. \A d \in Callers \ {c} : CallStays(d)
  BY <1>4 DEF CallStays
<1>11. Private'
  <2> SUFFICES ASSUME NEW d \in Callers, (Starting(d))', call'[d].on # 0
               PROVE  /\ registered # call'[d].on
                      /\ \A e \in Callers \ {d} : call'[e].on # call'[d].on
    BY DEF Private
  <2>1. CASE d = c
    <3>1. registered # n
      BY <1>a, <1>n DEF Typed, n
    <3> QED
      BY <1>3, <1>4, <1>o, <2>1, <3>1
  <2>2. CASE d # c
    <3>1. Starting(d) /\ call'[d].on = call[d].on
      BY <1>4, <2>2 DEF Starting
    <3>2. registered # call[d].on /\ \A e \in Callers \ {d} : call[e].on # call[d].on
      BY <1>a, <3>1 DEF Private
    <3>3. \A e \in Callers : call'[e].on \in {call[e].on, n}
      BY <1>3, <1>4
    <3> QED
      BY <1>o, <3>1, <3>2, <3>3
  <2> QED
    BY <2>1, <2>2
<1>12. Dated'
  <2>1. disk <= disk'
    BY <1>a DEF Fields
  <2>2. \A j \in Ids' : \/ j \in Ids /\ server'[j].text \in {server[j].text, 0}
                            /\ server'[j].synced \in {server[j].synced, 0}
                        \/ server'[j].text = 0 /\ server'[j].synced = 0
    BY <1>5, <1>6, <1>i
  <2>3. \A d \in Callers : call'[d].seen \in {call[d].seen, 0} /\ call'[d].text \in {call[d].text, 0}
    BY <1>3, <1>4
  <2> QED
    BY <1>7, <1>a, <2>1, <2>2, <2>3, DatedKept
<1>13. InStep'
  <2>1. \A d \in Callers : SyncSame(d)
    BY <1>0, <1>3, <1>4 DEF SyncSame, Syncing
  <2>2. \A k \in Ids' : server'[k].life = "up" =>
           \/ /\ k \in Ids /\ server[k].life = "up"
              /\ server'[k].text = server[k].text /\ server'[k].synced = server[k].synced
           \/ server'[k].text = 0 /\ server'[k].synced = 0 /\ \A d \in Callers : call[d].on # k
    BY <1>5, <1>6, <1>i, <1>o
  <2> QED
    BY <1>7, <1>8, <1>a, <2>1, <2>2, InStepKept
<1>14. Gated'
  <2>1. \A d \in Callers : (Holding(d))' => Holding(d)
    BY <1>4, <1>s DEF Holding, Starting
  <2> QED
    BY <1>a, <2>1, GatedKept
<1>15. Installing'
  <2>1. installing # c
    BY <1>a DEF Installing, At
  <2> QED
    BY <1>4, <1>a, <2>1 DEF Installing, At
<1>16. Closing'
  <2>1. Len(server') >= Len(server) /\ Len(server') \in Nat
    BY <1>5, <1>n DEF n
  <2> QED
    BY <1>5, <1>a, <2>1, ClosingKept
<1>17. CalmNoStrayServer'
  <2> SUFFICES ASSUME NEW k \in Ids', server'[k].life = "up", races' \intersect {"start", "closing"} = {}
               PROVE  k = registered' \/ \E d \in Callers : (Starting(d))' /\ call'[d].on = k
    BY DEF CalmNoStrayServer
  <2>1. CASE k = n
    BY <1>3, <1>4, <1>s, <2>1
  <2>2. CASE k # n /\ k # registered
    <3>1. k \in Ids /\ server[k].life = "up" /\ k # 0
      BY <1>5, <1>a, <1>i, <2>2 DEF Ids, Fields
    <3>2. PICK d \in Callers : Starting(d) /\ call[d].on = k
      BY <1>a, <2>2, <3>1 DEF CalmNoStrayServer
    <3>3. d # c
      BY <1>0, <3>1, <3>2
    <3>4. (Starting(d))' /\ call'[d].on = k
      BY <1>4, <3>2, <3>3 DEF Starting
    <3> QED
      BY <3>4
  <2> QED
    BY <2>1, <2>2
<1> QED
  BY <1>7, <1>8, <1>9, <1>10, <1>11, <1>12, <1>13, <1>14, <1>15, <1>16, <1>17 DEF LspInvariant

\* A process starts, or does not.
LEMMA SpawnsKeeps ==
  ASSUME LspInvariant, NEW c \in Callers, Spawns(c)
  PROVE  LspInvariant'
<1>0. call[c].pc = "spawns" /\ UNCHANGED <<disk, installed, installing, manager, left>>
  BY DEF Spawns, At
<1>1. CASE /\ server' = Append(server, NewServer) /\ call' = Asks(c, Len(server) + 1, "initialize")
           /\ UNCHANGED <<gate, registered, races>>
  BY <1>0, <1>1, SpawnedKeeps
<1>2. CASE StartFails(c, call) /\ UNCHANGED server
  BY <1>0, <1>2, NoClientKeeps
<1> QED
  BY <1>1, <1>2 DEF Spawns

\* The pump hands a frame of its own to the writer.
LEMMA PumpAppended ==
  ASSUME Typed, Queued, Typed', NEW k \in Ids, Len(server') = Len(server),
         \A j \in Ids \ {k} : server'[j] = server[j],
         server'[k].queue = Append(server[k].queue, "pump"),
         \A d \in Callers : call'[d].pc = call[d].pc /\ call'[d].on = call[d].on
  PROVE  Queued'
<1> SUFFICES ASSUME NEW h \in Ids
             PROVE  LET q == server'[h].queue
                    IN  /\ \A i \in 1..Len(q) : q[i] # "pump" => call'[q[i]].pc = "writes" /\ call'[q[i]].on = h
                        /\ \A i, j \in 1..Len(q) : q[i] = q[j] /\ q[i] # "pump" => i = j
  BY DEF Queued, At, Ids
<1> DEFINE q == server[h].queue
           r == server'[h].queue
<1>0. /\ q \in Seq(Callers \cup {"pump"}) /\ Len(q) \in Nat
      /\ \A i \in 1..Len(q) : q[i] # "pump" =>
          /\ q[i] \in Callers
          /\ call[q[i]].pc = "writes" /\ call[q[i]].on = h
      /\ \A i, j \in 1..Len(q) : q[i] = q[j] /\ q[i] # "pump" => i = j
  BY FieldsTyped DEF Fields, Queued, At
<1>1. \A i \in 1..Len(q) : q[i] # "pump" => call'[q[i]].pc = "writes" /\ call'[q[i]].on = h
  BY <1>0
<1>3. CASE h # k
  <2>1. r = q
    BY <1>3
  <2> QED
    BY <1>0, <1>1, <2>1
<1>4. CASE h = k
  <2>1. r = Append(q, "pump")
    BY <1>4
  <2>2. Len(r) = Len(q) + 1 /\ r[Len(q) + 1] = "pump" /\ \A i \in 1..Len(q) : r[i] = q[i]
    BY <1>0, <2>1
  <2>3. \A i \in 1..Len(r) : i \in 1..Len(q) \/ i = Len(q) + 1
    BY <1>0, <2>2
  <2> HIDE DEF q, r
  <2>4. \A i \in 1..Len(r) : r[i] # "pump" => call'[r[i]].pc = "writes" /\ call'[r[i]].on = h
    BY <1>1, <1>4, <2>2, <2>3
  <2>5. \A i, j \in 1..Len(r) : r[i] = r[j] /\ r[i] # "pump" => i = j
    BY <1>0, <2>2, <2>3
  <2> QED
    BY <2>4, <2>5 DEF r
<1> QED
  BY <1>3, <1>4

\* Who hears nothing is still waited for, and the client of a waiter is not
\* broken by the step.
Heard(k, s) ==
  \A d \in Callers : call'[d].got = "-" =>
    /\ call[d].got = "-"
    /\ call[d].on = k /\ d \in server[k].waiters =>
         d \in s.waiters /\ (~server[k].broken => ~s.broken)

\* The client s is what k was, but for a frame of its pump, a process that has
\* ended, and what no property tells apart.
Worn(k, s) ==
  /\ \/ s.queue = server[k].queue
     \/ Shorter(server[k].queue, s.queue, "pump")
     \/ s.queue = Append(server[k].queue, "pump")
  /\ s.life = "up" => server[k].life = "up" /\ s.text = server[k].text
  /\ s.text \in {server[k].text, 0} /\ s.synced = server[k].synced

\* The calls differ at most in what they hear, and one client changes: what
\* the pump, the server and the shutdown do.
LEMMA ClientChanges ==
  ASSUME LspInvariant, NEW k \in Ids, NEW s \in ServerState, server' = [server EXCEPT ![k] = s],
         UNCHANGED <<disk, installing, gate, races>>, registered' \in {registered, 0},
         manager' \in [pc : {"open", "closes", "shut"}, at : 0..Len(server)],
         Closing', CalmNoStrayServer',
         Rung(call, call'), Heard(k, s), Worn(k, s)
  PROVE  LspInvariant'
<1>a. Typed /\ Placed /\ Queued /\ Attended /\ Private /\ Dated /\ InStep /\ Gated
      /\ Installing /\ Fields
  BY Parts
<1>1. /\ server' \in Seq(ServerState) /\ Len(server') = Len(server)
      /\ server'[k] = s /\ \A j \in Ids \ {k} : server'[j] = server[j]
  BY <1>a, ServerReplaced DEF Typed
<1>w. /\ s.life = "up" => server[k].life = "up" /\ s.text = server[k].text
      /\ s.text \in {server[k].text, 0} /\ s.synced = server[k].synced
  BY DEF Worn
<1>2. /\ call' \in [Callers -> CallState]
      /\ \A d \in Callers :
           /\ call'[d].pc = call[d].pc /\ call'[d].on = call[d].on /\ call'[d].frame = call[d].frame
           /\ call'[d].seen = call[d].seen /\ call'[d].text = call[d].text /\ call'[d].late = call[d].late
  BY DEF Rung
<1>i. Ids' = Ids
  BY <1>1 DEF Ids
<1>s. \A d \in Callers : (Starting(d) <=> (Starting(d))') /\ (Holding(d) <=> (Holding(d))')
  BY <1>2 DEF Starting, Holding
<1>3. Typed'
  <2>1. registered' \in 0..Len(server')
    BY <1>1, <1>a DEF Typed
  <2> QED
    BY <1>1, <1>2, <1>a, <2>1 DEF Typed
<1>4. Placed'
  <2>1. ASSUME NEW d \in Callers PROVE PlacedAt(call[d])'
    <3>1. PlacedAt(call[d])
      BY <1>a DEF Placed
    <3> QED
      BY <1>1, <1>2, <3>1 DEF PlacedAt
  <2> QED
    BY <2>1 DEF Placed, PlacedAt
<1>5. Queued'
  <2>1. CASE s.queue = server[k].queue
    <3>1. \A j \in Ids' : j \in Ids /\ server'[j].queue = server[j].queue
      BY <1>1, <1>i, <2>1
    <3> QED
      BY <1>2, <1>3, <1>a, <3>1, QueuedKept
  <2>2. CASE Shorter(server[k].queue, s.queue, "pump")
    BY <1>1, <1>2, <1>3, <1>a, <2>2, QueueShortened
  <2>3. CASE s.queue = Append(server[k].queue, "pump")
    BY <1>1, <1>2, <1>3, <1>a, <2>3, PumpAppended
  <2> QED
    BY <2>1, <2>2, <2>3 DEF Worn
<1>6. Attended'
  <2> SUFFICES ASSUME NEW d \in Callers,
                      call'[d].pc \in {"writes", "awaits"}, call'[d].frame \in {"initialize", "query"},
                      ~call'[d].late, call'[d].got = "-"
               PROVE  d \in server'[call'[d].on].waiters /\ ~server'[call'[d].on].broken
    BY DEF Attended
  <2>1. /\ call[d].pc \in {"writes", "awaits"} /\ call[d].frame \in {"initialize", "query"}
        /\ ~call[d].late /\ call[d].got = "-" /\ call'[d].on = call[d].on
    BY <1>2 DEF Heard
  <2>2. d \in server[call[d].on].waiters /\ ~server[call[d].on].broken
    BY <1>a, <2>1 DEF Attended
  <2>3. call[d].on \in Ids
    BY <2>1, AtAClient
  <2>4. CASE call[d].on = k
    BY <1>1, <2>1, <2>2, <2>4 DEF Heard
  <2>5. CASE call[d].on # k
    BY <1>1, <2>1, <2>2, <2>3, <2>5
  <2> QED
    BY <2>4, <2>5
<1>7. Private'
  BY <1>2, <1>a, <1>s, PrivateKept
<1>8. Dated'
  <2>1. disk <= disk'
    BY <1>a DEF Fields
  <2>2. \A j \in Ids' : /\ j \in Ids /\ server'[j].text \in {server[j].text, 0}
                        /\ server'[j].synced \in {server[j].synced, 0}
    BY <1>1, <1>i, <1>w
  <2>3. \A d \in Callers : call'[d].seen \in {call[d].seen, 0} /\ call'[d].text \in {call[d].text, 0}
    BY <1>2
  <2> QED
    BY <1>3, <1>a, <2>1, <2>2, <2>3, DatedKept
<1>9. InStep'
  <2>1. \A d \in Callers : SyncSame(d)
    BY <1>2 DEF SyncSame, Syncing
  <2>2. \A j \in Ids' : server'[j].life = "up" =>
           /\ j \in Ids /\ server[j].life = "up"
           /\ server'[j].text = server[j].text /\ server'[j].synced = server[j].synced
    BY <1>1, <1>i, <1>w
  <2> QED
    BY <1>3, <1>4, <1>a, <2>1, <2>2, InStepKept
<1>10. Gated'
  BY <1>a, <1>s, GatedKept
<1>11. Installing'
  BY <1>2, <1>a DEF Installing, At
<1> QED
  BY <1>3, <1>4, <1>5, <1>6, <1>7, <1>8, <1>9, <1>10, <1>11 DEF LspInvariant

\* The same, while the manager is what it was.
LEMMA ClientMoves ==
  ASSUME LspInvariant, NEW k \in Ids, NEW s \in ServerState, server' = [server EXCEPT ![k] = s],
         UNCHANGED <<disk, installing, gate, races, registered, manager>>,
         Rung(call, call'), Heard(k, s), Worn(k, s)
  PROVE  LspInvariant'
<1>a. Typed /\ Closing /\ CalmNoStrayServer /\ Fields
  BY Parts
<1>1. /\ server' \in Seq(ServerState) /\ Len(server') = Len(server)
      /\ server'[k] = s /\ \A j \in Ids \ {k} : server'[j] = server[j]
  BY <1>a, ServerReplaced DEF Typed
<1>w. /\ s.life = "up" => server[k].life = "up" /\ s.text = server[k].text
      /\ s.text \in {server[k].text, 0} /\ s.synced = server[k].synced
  BY DEF Worn
<1>2. \A j \in Ids : /\ server[j].life = "dead" => server'[j].life = "dead"
                     /\ server'[j].life = "up" => server[j].life = "up"
  <2>1. s.life \in {"up", "dead"}
    BY DEF ServerState
  <2> QED
    BY <1>1, <1>w, <2>1
<1>i. Ids' = Ids
  BY <1>1 DEF Ids
<1>3. Closing'
  BY <1>1, <1>2, <1>a, ClosingKept DEF Fields
<1>4. CalmNoStrayServer'
  <2>1. \A d \in Callers : call'[d].on = call[d].on /\ (Starting(d) <=> (Starting(d))')
    BY DEF Rung, Starting
  <2> QED
    BY <1>2, <1>a, <1>i, <2>1, StrayKept
<1>5. manager' \in [pc : {"open", "closes", "shut"}, at : 0..Len(server)]
  BY <1>a DEF Typed
<1> QED
  BY <1>3, <1>4, <1>5, ClientChanges

\* The pump's frame has been written, or could not be.
LEMMA ReplyGoneKeeps ==
  ASSUME LspInvariant, NEW k \in Ids, server[k].queue # <<>>, Head(server[k].queue) = "pump",
         server' = [server EXCEPT ![k] = [[server[k] EXCEPT !.queue = Tail(@)] EXCEPT !.pump = "reads"]],
         UNCHANGED <<disk, installing, gate, races, registered, manager, call>>
  PROVE  LspInvariant'
<1> DEFINE s == [[server[k] EXCEPT !.queue = Tail(@)] EXCEPT !.pump = "reads"]
<1>a. Typed /\ Queued /\ server[k] \in ServerState
  BY Parts DEF Fields
<1>1. Shorter(server[k].queue, Tail(server[k].queue), "pump")
  BY <1>a, TailIsShorter
<1>2. Tail(server[k].queue) \in Seq(Callers \cup {"pump"})
  BY <1>1 DEF Shorter
<1>3. s \in ServerState
  BY <1>2, <1>a DEF ServerState
<1>4. /\ s.queue = Tail(server[k].queue) /\ s.waiters = server[k].waiters /\ s.broken = server[k].broken
      /\ s.life = server[k].life /\ s.text = server[k].text /\ s.synced = server[k].synced
  BY <1>a DEF ServerState
<1>5. Rung(call, call')
  BY <1>a, RungByNothing DEF Typed
<1> HIDE DEF s
<1>6. server' = [server EXCEPT ![k] = s]
  BY DEF s
<1>h. Heard(k, s)
  BY <1>1, <1>3, <1>4, <1>5, <1>6 DEF Heard
<1>w. Worn(k, s)
  BY <1>1, <1>3, <1>4, <1>5, <1>6 DEF Worn
<1> QED
  BY <1>1, <1>3, <1>4, <1>5, <1>6, <1>h, <1>w, ClientMoves

\* An answer reaches its waiter, or finds none.
LEMMA PumpDeliversKeeps ==
  ASSUME LspInvariant, NEW c \in Callers, NEW got \in {"result", "modified"}, PumpDelivers(c, got)
  PROVE  LspInvariant'
<1> DEFINE k == call[c].on
           s == [server[k] EXCEPT !.asked = @ \ {c}, !.waiters = @ \ {c}]
<1>a. Typed /\ Fields /\ PlacedAt(call[c])
  BY Parts DEF Placed
<1>k. k \in Ids /\ server[k] \in ServerState
  BY <1>a DEF PumpDelivers, PlacedAt, Ids, Fields
<1>1. s \in ServerState
  BY <1>k DEF ServerState
<1>2. /\ s.queue = server[k].queue /\ s.waiters = server[k].waiters \ {c} /\ s.broken = server[k].broken
      /\ s.life = server[k].life /\ s.text = server[k].text /\ s.synced = server[k].synced
  BY <1>k DEF ServerState
<1>3. server' = [server EXCEPT ![k] = s]
  BY <1>k, <1>a DEF PumpDelivers, Fields
<1>4. Rung(call, call') /\ \A d \in Callers : call'[d].got = "-" =>
           /\ call[d].got = "-"
           /\ call[d].on = k /\ d \in server[k].waiters => d # c
  <2>1. CASE c \notin server[k].waiters
    <3>1. call' = call
      BY <2>1 DEF PumpDelivers
    <3> QED
      BY <1>a, <2>1, <3>1, RungByNothing DEF Typed
  <2>2. CASE c \in server[k].waiters
    <3> DEFINE r == [call[c] EXCEPT !.got = got]
    <3>1. call[c] \in CallState
      BY <1>a DEF Fields
    <3>2. /\ r \in CallState /\ r.got = got /\ r.pc = call[c].pc /\ r.on = call[c].on
          /\ r.frame = call[c].frame /\ r.seen = call[c].seen /\ r.text = call[c].text /\ r.late = call[c].late
      BY <3>1 DEF CallState
    <3>3. call' = [call EXCEPT ![c] = r]
      BY <2>2, <1>a DEF PumpDelivers, Fields
    <3> HIDE DEF r
    <3>4. /\ call'[c] = r /\ \A d \in Callers \ {c} : call'[d] = call[d]
          /\ call' \in [Callers -> CallState]
      BY <1>a, <3>2, <3>3 DEF Fields, Typed
    <3>5. got # "-"
      OBVIOUS
    <3>6. Rung(call, call')
      BY <3>2, <3>4, <3>5 DEF Rung
    <3> QED
      BY <3>2, <3>4, <3>5, <3>6
  <2> QED
    BY <2>1, <2>2
<1> HIDE DEF s, k
<1>5. \A d \in Callers : call'[d].got = "-" =>
           /\ call[d].got = "-"
           /\ call[d].on = k /\ d \in server[k].waiters =>
                d \in s.waiters /\ (~server[k].broken => ~s.broken)
  BY <1>2, <1>4
<1>h. Heard(k, s)
  BY <1>k, <1>1, <1>2, <1>3, <1>4, <1>5 DEF Heard
<1>w. Worn(k, s)
  BY <1>k, <1>1, <1>2, <1>3, <1>4, <1>5 DEF Worn
<1> QED
  BY <1>k, <1>1, <1>2, <1>3, <1>4, <1>5, <1>h, <1>w, ClientMoves DEF PumpDelivers

\* The pump ends.
LEMMA PumpEndsKeeps ==
  ASSUME LspInvariant, NEW k \in Ids, PumpEnds(k)
  PROVE  LspInvariant'
<1> DEFINE s == [Broken(server[k]) EXCEPT !.pump = "over"]
<1>a. Typed /\ Fields /\ server[k] \in ServerState
  BY Parts DEF Fields
<1>1. /\ Broken(server[k]) \in ServerState
      /\ Broken(server[k]).queue = server[k].queue /\ Broken(server[k]).synced = server[k].synced
      /\ Broken(server[k]).life = server[k].life /\ Broken(server[k]).text = server[k].text
  BY <1>a, EndTyped
<1>2. s \in ServerState
  BY <1>1 DEF ServerState
<1>3. /\ s.queue = server[k].queue /\ s.life = server[k].life /\ s.text = server[k].text
      /\ s.synced = server[k].synced
  BY <1>1 DEF ServerState
<1>4. server' = [server EXCEPT ![k] = s] /\ call' = Woken(k, call)
  BY DEF PumpEnds
<1>5. Rung(call, call') /\ \A d \in server[k].waiters : call'[d].got = "error"
  BY <1>4, <1>a, WokenCalls DEF Typed, Fields
<1>6. \A d \in Callers : call'[d].got = "-" => call[d].got = "-" /\ d \notin server[k].waiters
  BY <1>5 DEF Rung
<1> HIDE DEF s
<1>h. Heard(k, s)
  BY <1>2, <1>3, <1>4, <1>5, <1>6 DEF Heard
<1>w. Worn(k, s)
  BY <1>2, <1>3, <1>4, <1>5, <1>6 DEF Worn
<1> QED
  BY <1>2, <1>3, <1>4, <1>5, <1>6, <1>h, <1>w, ClientMoves DEF PumpEnds

\* The pump's reply is not written in time.
LEMMA ReplyTimesOutKeeps ==
  ASSUME LspInvariant, NEW k \in Ids, ReplyTimesOut(k)
  PROVE  LspInvariant'
<1> DEFINE b == Dead(Broken(server[k]))
           s == [b EXCEPT !.pump = "reads", !.queue = Without(@, "pump")]
<1>a. Typed /\ Queued /\ Fields /\ server[k] \in ServerState
  BY Parts DEF Fields
<1>1. /\ b \in ServerState /\ b.queue = server[k].queue /\ b.synced = server[k].synced
      /\ b.life = "dead" /\ b.text = 0
  <2>1. Broken(server[k]) \in ServerState
    BY <1>a, EndTyped
  <2> QED
    BY <1>a, <2>1, EndTyped
<1>2. Shorter(server[k].queue, Without(server[k].queue, "pump"), "pump")
  BY <1>a, WithoutIsShorter
<1> HIDE DEF b
<1>3. Without(b.queue, "pump") \in Seq(Callers \cup {"pump"})
  BY <1>1, <1>2 DEF Shorter
<1>4. s \in ServerState
  BY <1>1, <1>3 DEF ServerState
<1>5. /\ s.queue = Without(server[k].queue, "pump") /\ s.life = "dead" /\ s.text = 0
      /\ s.synced = server[k].synced
  BY <1>1 DEF ServerState
<1>6. server' = [server EXCEPT ![k] = s] /\ call' = Woken(k, call)
  BY DEF ReplyTimesOut, b
<1>7. Rung(call, call') /\ \A d \in server[k].waiters : call'[d].got = "error"
  BY <1>6, <1>a, WokenCalls DEF Typed, Fields
<1>8. \A d \in Callers : call'[d].got = "-" => call[d].got = "-" /\ d \notin server[k].waiters
  BY <1>7 DEF Rung
<1>9. UNCHANGED <<disk, installing, gate, races, registered, manager>>
  BY DEF ReplyTimesOut
<1> HIDE DEF s
<1>h. Heard(k, s)
  BY <1>2, <1>4, <1>5, <1>6, <1>7, <1>8, <1>9 DEF Heard
<1>w. Worn(k, s)
  BY <1>2, <1>4, <1>5, <1>6, <1>7, <1>8, <1>9 DEF Worn
<1> QED
  BY <1>2, <1>4, <1>5, <1>6, <1>7, <1>8, <1>9, <1>h, <1>w, ClientMoves

\* The server asks something of its own.
LEMMA ServerAsksKeeps ==
  ASSUME LspInvariant, NEW k \in Ids, ServerAsks(k)
  PROVE  LspInvariant'
<1> DEFINE s == [server[k] EXCEPT !.pump = "replies", !.queue = Append(@, "pump")]
<1>a. Typed /\ Fields /\ server[k] \in ServerState
  BY Parts DEF Fields
<1>1. s \in ServerState
  <2>1. Append(server[k].queue, "pump") \in Seq(Callers \cup {"pump"})
    BY <1>a DEF ServerState
  <2> QED
    BY <1>a, <2>1 DEF ServerState
<1>2. /\ s.queue = Append(server[k].queue, "pump") /\ s.waiters = server[k].waiters
      /\ s.broken = server[k].broken
      /\ s.life = server[k].life /\ s.text = server[k].text /\ s.synced = server[k].synced
  BY <1>a DEF ServerState
<1>3. server' = [server EXCEPT ![k] = s]
  BY <1>a DEF ServerAsks, Fields
<1>4. Rung(call, call') /\ call' = call
  BY <1>a, RungByNothing DEF Typed, ServerAsks
<1>5. UNCHANGED <<disk, installing, gate, races, registered, manager>>
  BY DEF ServerAsks
<1> HIDE DEF s
<1>h. Heard(k, s)
  BY <1>1, <1>2, <1>3, <1>4, <1>5 DEF Heard
<1>w. Worn(k, s)
  BY <1>1, <1>2, <1>3, <1>4, <1>5 DEF Worn
<1> QED
  BY <1>1, <1>2, <1>3, <1>4, <1>5, <1>h, <1>w, ClientMoves

\* The server stops reading.
LEMMA ServerStopsKeeps ==
  ASSUME LspInvariant, NEW k \in Ids, ServerStopsReading(k)
  PROVE  LspInvariant'
<1> DEFINE s == [server[k] EXCEPT !.stalled = TRUE]
<1>a. Typed /\ Fields /\ server[k] \in ServerState
  BY Parts DEF Fields
<1>1. s \in ServerState
  BY <1>a DEF ServerState
<1>2. /\ s.queue = server[k].queue /\ s.waiters = server[k].waiters /\ s.broken = server[k].broken
      /\ s.life = server[k].life /\ s.text = server[k].text /\ s.synced = server[k].synced
  BY <1>a DEF ServerState
<1>3. server' = [server EXCEPT ![k] = s]
  BY <1>a DEF ServerStopsReading, Fields
<1>4. Rung(call, call') /\ call' = call
  BY <1>a, RungByNothing DEF Typed, ServerStopsReading
<1>5. UNCHANGED <<disk, installing, gate, races, registered, manager>>
  BY DEF ServerStopsReading
<1> HIDE DEF s
<1>h. Heard(k, s)
  BY <1>1, <1>2, <1>3, <1>4, <1>5 DEF Heard
<1>w. Worn(k, s)
  BY <1>1, <1>2, <1>3, <1>4, <1>5 DEF Worn
<1> QED
  BY <1>1, <1>2, <1>3, <1>4, <1>5, <1>h, <1>w, ClientMoves

\* The server's process ends.
LEMMA ServerExitsKeeps ==
  ASSUME LspInvariant, NEW k \in Ids, ServerExits(k)
  PROVE  LspInvariant'
<1> DEFINE s == Dead(server[k])
<1>a. Typed /\ Fields /\ server[k] \in ServerState
  BY Parts DEF Fields
<1>1. /\ s \in ServerState
      /\ s.queue = server[k].queue /\ s.waiters = server[k].waiters /\ s.broken = server[k].broken
      /\ s.life = "dead" /\ s.text = 0 /\ s.synced = server[k].synced
  BY <1>a, EndTyped
<1>3. server' = [server EXCEPT ![k] = s]
  BY <1>a DEF ServerExits, Fields
<1>4. Rung(call, call') /\ call' = call
  BY <1>a, RungByNothing DEF Typed, ServerExits
<1>5. UNCHANGED <<disk, installing, gate, races, registered, manager>>
  BY DEF ServerExits
<1> HIDE DEF s
<1>h. Heard(k, s)
  BY <1>1, <1>3, <1>4, <1>5 DEF Heard
<1>w. Worn(k, s)
  BY <1>1, <1>3, <1>4, <1>5 DEF Worn
<1> QED
  BY <1>1, <1>3, <1>4, <1>5, <1>h, <1>w, ClientMoves

\* The manager shuts down: the registered client's process is killed first.
LEMMA ShutdownStartsKeeps ==
  ASSUME LspInvariant, ShutdownStarts
  PROVE  LspInvariant'
<1>a. Typed /\ Placed /\ Queued /\ Attended /\ Private /\ Dated /\ InStep /\ Gated
      /\ CalmNoStrayServer /\ Installing /\ Fields
  BY Parts
<1>0. UNCHANGED <<disk, installed, installing, registered, gate, call, races>>
  BY DEF ShutdownStarts
<1>1. CASE registered = 0
  <2>1. server' = server /\ manager' = [pc |-> "shut", at |-> 0]
    BY <1>1 DEF ShutdownStarts
  <2>2. Closing'
    BY <2>1 DEF Closing
  <2>3. Typed'
    <3>1. 0 \in 0..Len(server)
      BY <1>a DEF Fields
    <3> QED
      BY <1>0, <1>a, <2>1, <3>1 DEF Typed
  <2>4. /\ Placed' /\ Queued' /\ Attended' /\ Private'
    BY <1>0, <1>a, <2>1 DEF Placed, PlacedAt, Queued, Attended, Private, Ids, At, Starting
  <2>5. Dated' /\ InStep' /\ Gated' /\ CalmNoStrayServer' /\ Installing'
    BY <1>0, <1>a, <2>1 DEF Dated, InStep, Gated, CalmNoStrayServer, Installing, Ids, At, Starting, Syncing, Holding
  <2> QED
    BY <2>2, <2>3, <2>4, <2>5 DEF LspInvariant
<1>2. CASE registered # 0
  <2> DEFINE k == registered
             s == Dead(server[k])
  <2>0. k \in Ids /\ server[k] \in ServerState
    BY <1>2, <1>a DEF Typed, Ids, Fields
  <2>1. /\ s \in ServerState
        /\ s.queue = server[k].queue /\ s.waiters = server[k].waiters /\ s.broken = server[k].broken
        /\ s.life = "dead" /\ s.text = 0 /\ s.synced = server[k].synced
    BY <2>0, EndTyped
  <2>2. server' = [server EXCEPT ![k] = s] /\ manager' = [pc |-> "closes", at |-> k]
    BY <1>2, <1>a, <2>0 DEF ShutdownStarts, Fields
  <2> HIDE DEF s
  <2>3. /\ server' \in Seq(ServerState) /\ Len(server') = Len(server)
        /\ server'[k] = s /\ \A j \in Ids \ {k} : server'[j] = server[j]
    BY <1>a, <2>0, <2>1, <2>2, ServerReplaced DEF Typed
  <2>4. Closing'
    BY <1>0, <2>0, <2>1, <2>2, <2>3 DEF Closing, Ids
  <2>5. CalmNoStrayServer'
    <3>1. \A j \in Ids' : server'[j].life = "up" => j \in Ids /\ server[j].life = "up"
      BY <2>1, <2>3 DEF Ids
    <3>2. \A d \in Callers : Starting(d) <=> (Starting(d))'
      BY <1>0 DEF Starting
    <3> QED
      BY <1>0, <1>a, <3>1, <3>2, StrayKept
  <2>6. manager' \in [pc : {"open", "closes", "shut"}, at : 0..Len(server)]
    BY <1>a, <2>2 DEF Typed
  <2>7. Rung(call, call')
    BY <1>0, <1>a, RungByNothing DEF Typed
  <2>h. Heard(k, s)
    BY <1>0, <2>0, <2>1, <2>2, <2>4, <2>5, <2>6, <2>7 DEF Heard
  <2>w. Worn(k, s)
    BY <1>0, <2>0, <2>1, <2>2, <2>4, <2>5, <2>6, <2>7 DEF Worn
  <2> QED
    BY <1>0, <2>0, <2>1, <2>2, <2>4, <2>5, <2>6, <2>7, <2>h, <2>w, ClientChanges
<1> QED
  BY <1>1, <1>2

\* The manager has shut down.
LEMMA ShutdownEndsKeeps ==
  ASSUME LspInvariant, ShutdownEnds
  PROVE  LspInvariant'
<1> DEFINE k == manager.at
           s == [Broken(server[k]) EXCEPT !.pump = "over", !.shut = TRUE]
<1>a. Typed /\ Closing /\ CalmNoStrayServer /\ Fields
  BY Parts
<1>0. /\ manager.pc = "closes" /\ registered' = 0 /\ manager' = [pc |-> "shut", at |-> 0]
      /\ UNCHANGED <<disk, installed, installing, gate, left, races>>
      /\ server' = [server EXCEPT ![k] = s] /\ call' = Woken(k, call)
  BY DEF ShutdownEnds
<1>1. /\ k \in Ids /\ server[k].life = "dead" /\ server[k] \in ServerState
      /\ "closing" \notin races => registered = k
  BY <1>0, <1>a DEF Closing, Fields
<1>2. /\ Broken(server[k]) \in ServerState
      /\ Broken(server[k]).queue = server[k].queue /\ Broken(server[k]).synced = server[k].synced
      /\ Broken(server[k]).life = server[k].life /\ Broken(server[k]).text = server[k].text
  BY <1>1, EndTyped
<1>3. s \in ServerState
  BY <1>2 DEF ServerState
<1>4. /\ s.queue = server[k].queue /\ s.life = "dead" /\ s.text = server[k].text
      /\ s.synced = server[k].synced
  BY <1>1, <1>2 DEF ServerState
<1>5. Rung(call, call') /\ \A d \in server[k].waiters : call'[d].got = "error"
  BY <1>0, <1>1, <1>a, WokenCalls DEF Typed, Fields
<1>6. \A d \in Callers : call'[d].got = "-" => call[d].got = "-" /\ d \notin server[k].waiters
  BY <1>5 DEF Rung
<1> HIDE DEF s
<1>7. Closing'
  BY <1>0 DEF Closing
<1>8. CalmNoStrayServer'
  <2> SUFFICES ASSUME NEW j \in Ids', server'[j].life = "up", races' \intersect {"start", "closing"} = {}
               PROVE  \E d \in Callers : (Starting(d))' /\ call'[d].on = j
    BY DEF CalmNoStrayServer
  <2>1. /\ Len(server') = Len(server) /\ server'[k] = s /\ \A i \in Ids \ {k} : server'[i] = server[i]
    BY <1>0, <1>1, <1>3, <1>a, ServerReplaced DEF Typed
  <2>2. j \in Ids /\ j # k /\ server[j].life = "up"
    BY <1>4, <2>1 DEF Ids
  <2>3. races \intersect {"start", "closing"} = {} /\ j # registered
    BY <1>0, <1>1, <2>2
  <2>4. PICK d \in Callers : Starting(d) /\ call[d].on = j
    BY <1>a, <2>2, <2>3 DEF CalmNoStrayServer
  <2>5. (Starting(d))' /\ call'[d].on = j
    BY <1>5, <2>4 DEF Rung, Starting
  <2> QED
    BY <2>5
<1>9. manager' \in [pc : {"open", "closes", "shut"}, at : 0..Len(server)]
  BY <1>0, <1>a DEF Fields
<1>h. Heard(k, s)
  BY <1>0, <1>1, <1>3, <1>4, <1>5, <1>6, <1>7, <1>8, <1>9 DEF Heard
<1>w. Worn(k, s)
  BY <1>0, <1>1, <1>3, <1>4, <1>5, <1>6, <1>7, <1>8, <1>9 DEF Worn
<1> QED
  BY <1>0, <1>1, <1>3, <1>4, <1>5, <1>6, <1>7, <1>8, <1>9, <1>h, <1>w, ClientChanges

\* c's frame leaves k's queue, written or not, and leaves c's call at r and the
\* client at s.
Gone(c, k, s, r) ==
  /\ call[c].pc = "writes" /\ call[c].frame \in {"initialize", "query", "text"}
  /\ Shorter(server[k].queue, s.queue, c)
  /\ s.life = "up" => server[k].life = "up"
  /\ r.pc \in {"awaits", "records", "idle"} /\ PlacedAt(r)
  /\ StartingAt(r) <=> call[c].frame = "initialize"
  /\ r.on \in {k, 0} /\ (call[c].frame = "initialize" => r.on = k)
  /\ r.pc = "awaits" => /\ r.on = k /\ r.frame = call[c].frame
                        /\ r.got = call[c].got /\ (r.late <=> call[c].late)
                        /\ s.waiters = server[k].waiters /\ (server[k].broken <=> s.broken)

\* The others hear, or are still waited for.
HeardBut(c, k, s, calls) ==
  \A d \in Callers \ {c} : calls[d].got = "-" =>
    /\ call[d].got = "-"
    /\ call[d].on = k /\ d \in server[k].waiters =>
         d \in s.waiters /\ (~server[k].broken => ~s.broken)

\* What such a step leaves, whatever the frame.
GoneLeaves(c) ==
  /\ Typed' /\ Placed' /\ Queued' /\ Attended' /\ Gated' /\ Installing'
  /\ \A d \in Callers : CallMoves(d)
  /\ \A d \in Callers \ {c} :
       /\ call'[d].pc = call[d].pc /\ call'[d].on = call[d].on /\ call'[d].frame = call[d].frame
       /\ call'[d].seen = call[d].seen /\ call'[d].text = call[d].text

\* Whatever the frame, the queues, the waiters, the gate and the installer are in
\* order after it has gone.
LEMMA FrameGone ==
  ASSUME LspInvariant, NEW c \in Callers, NEW k \in Ids, k = call[c].on,
         NEW s \in ServerState, server' = [server EXCEPT ![k] = s],
         NEW r \in CallState, NEW calls, Rung(call, calls), call' = [calls EXCEPT ![c] = r],
         UNCHANGED <<disk, installing, gate, registered, manager, races>>,
         Gone(c, k, s, r), HeardBut(c, k, s, calls)
  PROVE  GoneLeaves(c)
<1>a. Typed /\ Placed /\ Queued /\ Attended /\ Gated /\ Installing /\ Fields
  BY Parts
<1>1. /\ server' \in Seq(ServerState) /\ Len(server') = Len(server)
      /\ server'[k] = s /\ \A j \in Ids \ {k} : server'[j] = server[j]
  BY <1>a, ServerReplaced DEF Typed
<1>2. /\ call' \in [Callers -> CallState] /\ call'[c] = r
      /\ \A d \in Callers \ {c} : call'[d] = calls[d]
  BY DEF Rung
<1>3. \A d \in Callers \ {c} :
        /\ call'[d].pc = call[d].pc /\ call'[d].on = call[d].on /\ call'[d].frame = call[d].frame
        /\ call'[d].seen = call[d].seen /\ call'[d].text = call[d].text /\ call'[d].late = call[d].late
  BY <1>2 DEF Rung
<1>4. Typed'
  BY <1>1, <1>2, <1>a DEF Typed
<1>5. Placed'
  <2>1. PlacedAt(call[c])'
    <3>1. PlacedAt(r)
      BY DEF Gone
    <3> QED
      BY <1>1, <1>2, <3>1 DEF PlacedAt
  <2>2. ASSUME NEW d \in Callers \ {c} PROVE PlacedAt(call[d])'
    <3>1. PlacedAt(call[d])
      BY <1>a DEF Placed
    <3> QED
      BY <1>1, <1>3, <3>1 DEF PlacedAt
  <2> QED
    BY <2>1, <2>2 DEF Placed, PlacedAt
<1>6. Queued'
  <2>1. Shorter(server[k].queue, server'[k].queue, c)
    BY <1>1 DEF Gone
  <2>2. \A d \in Callers : d # c /\ call[d].pc = "writes" =>
                              call'[d].pc = "writes" /\ call'[d].on = call[d].on
    BY <1>3
  <2> QED
    BY <1>1, <1>4, <1>a, <2>1, <2>2, QueueShortened
<1>7. Attended'
  <2> SUFFICES ASSUME NEW d \in Callers,
                      call'[d].pc \in {"writes", "awaits"}, call'[d].frame \in {"initialize", "query"},
                      ~call'[d].late, call'[d].got = "-"
               PROVE  d \in server'[call'[d].on].waiters /\ ~server'[call'[d].on].broken
    BY DEF Attended
  <2>1. CASE d = c
    <3>1. r.pc = "awaits"
      BY <1>2, <2>1 DEF Gone
    <3>2. /\ r.on = k /\ r.frame = call[c].frame
          /\ r.got = call[c].got /\ (r.late <=> call[c].late)
          /\ s.waiters = server[k].waiters /\ (server[k].broken <=> s.broken)
          /\ call[c].pc = "writes"
      BY <3>1 DEF Gone
    <3>3. c \in server[k].waiters /\ ~server[k].broken
      BY <1>2, <1>a, <2>1, <3>2 DEF Attended
    <3> QED
      BY <1>1, <1>2, <2>1, <3>2, <3>3
  <2>2. CASE d # c
    <3>1. /\ call[d].pc \in {"writes", "awaits"} /\ call[d].frame \in {"initialize", "query"}
          /\ ~call[d].late /\ call'[d].on = call[d].on
      BY <1>3, <2>2
    <3>2. /\ call[d].got = "-"
          /\ call[d].on = k /\ d \in server[k].waiters =>
               d \in s.waiters /\ (~server[k].broken => ~s.broken)
      BY <1>2, <2>2 DEF HeardBut
    <3>3. d \in server[call[d].on].waiters /\ ~server[call[d].on].broken
      BY <1>a, <3>1, <3>2 DEF Attended
    <3>4. call[d].on \in Ids
      BY <3>1, AtAClient
    <3>5. CASE call[d].on = k
      BY <1>1, <3>1, <3>2, <3>3, <3>5
    <3>6. CASE call[d].on # k
      BY <1>1, <3>1, <3>3, <3>4, <3>6
    <3> QED
      BY <3>5, <3>6
  <2> QED
    BY <2>1, <2>2
<1>8. (Starting(c) <=> call[c].frame = "initialize") /\ ((Starting(c))' <=> call[c].frame = "initialize")
  BY <1>2 DEF Gone, Starting, StartingAt
<1>9. \A d \in Callers \ {c} : CallStays(d)
  BY <1>3 DEF CallStays
<1>10. Gated'
  <2>1. (Holding(c))' => Holding(c)
    BY <1>8 DEF Gone, Holding
  <2>2. \A d \in Callers : (Holding(d))' => Holding(d)
    BY <1>9, <2>1, StayingMoves
  <2> QED
    BY <1>a, <2>2, GatedKept
<1>11. Installing'
  <2>1. installing # c
    BY <1>a DEF Installing, At, Gone
  <2> QED
    BY <1>3, <1>a, <2>1 DEF Installing, At
<1>12. \A d \in Callers : CallMoves(d)
  <2>1. CallMoves(c)
    BY <1>2, <1>8 DEF CallMoves, Gone
  <2> QED
    BY <1>9, <2>1, StayingMoves
<1> QED
  BY <1>3, <1>4, <1>5, <1>6, <1>7, <1>10, <1>11, <1>12 DEF GoneLeaves

\* A request.
LEMMA RequestGone ==
  ASSUME LspInvariant, NEW c \in Callers, NEW k \in Ids, k = call[c].on,
         NEW s \in ServerState, server' = [server EXCEPT ![k] = s],
         NEW r \in CallState, NEW calls, Rung(call, calls), call' = [calls EXCEPT ![c] = r],
         UNCHANGED <<disk, installing, gate, registered, manager, races>>,
         Gone(c, k, s, r), HeardBut(c, k, s, calls),
         call[c].frame # "text", r.pc # "records", r.frame # "text",
         r.seen \in {call[c].seen, 0}, r.text \in {call[c].text, 0},
         s.life = "up" => s.text = server[k].text,
         s.text \in {server[k].text, 0}, s.synced = server[k].synced
  PROVE  LspInvariant'
<1>a. Typed /\ Placed /\ Dated /\ InStep /\ Fields
  BY Parts
<1>1. /\ Len(server') = Len(server)
      /\ server'[k] = s /\ \A j \in Ids \ {k} : server'[j] = server[j]
  BY <1>a, ServerReplaced DEF Typed
<1>2. GoneLeaves(c)
  BY FrameGone
<1>3. Typed' /\ Placed' /\ Queued' /\ Attended' /\ Gated' /\ Installing' /\ \A d \in Callers : CallMoves(d)
  BY <1>2 DEF GoneLeaves
<1>4. \A d \in Callers \ {c} :
       /\ call'[d].pc = call[d].pc /\ call'[d].on = call[d].on /\ call'[d].frame = call[d].frame
       /\ call'[d].seen = call[d].seen /\ call'[d].text = call[d].text
  BY <1>2 DEF GoneLeaves
<1>5. call'[c] = r
  BY DEF Rung
<1>i. Ids' = Ids
  BY <1>1 DEF Ids
<1>l. /\ s.life \in {"up", "dead"} /\ (s.life = "up" => server[k].life = "up")
      /\ r.pc # "reads" /\ call[c].pc = "writes"
  BY DEF ServerState, Gone
<1>6. Dated'
  <2>1. disk <= disk'
    BY <1>a DEF Fields
  <2>2. \A j \in Ids' : /\ j \in Ids /\ server'[j].text \in {server[j].text, 0}
                        /\ server'[j].synced \in {server[j].synced, 0}
    BY <1>1, <1>i
  <2>3. \A d \in Callers : call'[d].seen \in {call[d].seen, 0} /\ call'[d].text \in {call[d].text, 0}
    BY <1>4, <1>5
  <2> QED
    BY <1>3, <1>a, <2>1, <2>2, <2>3, DatedKept
<1>7. InStep'
  <2>1. SyncSame(c)
    BY <1>5, <1>l DEF SyncSame, Syncing
  <2>2. \A d \in Callers : SyncSame(d)
    BY <1>4, <2>1 DEF SyncSame, Syncing
  <2>3. \A j \in Ids' : server'[j].life = "up" =>
           /\ j \in Ids /\ server[j].life = "up"
           /\ server'[j].text = server[j].text /\ server'[j].synced = server[j].synced
    BY <1>1, <1>i, <1>l
  <2> QED
    BY <1>3, <1>a, <2>2, <2>3, InStepKept
<1>8. \A j \in Ids : /\ server[j].life = "dead" => server'[j].life = "dead"
                     /\ server'[j].life = "up" => server[j].life = "up"
  BY <1>1, <1>l
<1> QED
  BY <1>1, <1>3, <1>6, <1>7, <1>8, StepKeeps

\* The text.
LEMMA TextGone ==
  ASSUME LspInvariant, NEW c \in Callers, NEW k \in Ids, k = call[c].on,
         NEW s \in ServerState, server' = [server EXCEPT ![k] = s],
         NEW r \in CallState, NEW calls, Rung(call, calls), call' = [calls EXCEPT ![c] = r],
         UNCHANGED <<disk, installing, gate, registered, manager, races>>,
         Gone(c, k, s, r), HeardBut(c, k, s, calls),
         call[c].frame = "text", r.pc = "records", r.on = k, r.seen = call[c].seen, r.text = 0,
         s.life = "up" => s.text = call[c].text,
         s.text \in {call[c].text, server[k].text, 0}, s.synced = server[k].synced
  PROVE  LspInvariant'
<1>a. Typed /\ Placed /\ Dated /\ InStep /\ Fields
  BY Parts
<1>1. /\ Len(server') = Len(server)
      /\ server'[k] = s /\ \A j \in Ids \ {k} : server'[j] = server[j]
  BY <1>a, ServerReplaced DEF Typed
<1>2. GoneLeaves(c)
  BY FrameGone
<1>3. Typed' /\ Placed' /\ Queued' /\ Attended' /\ Gated' /\ Installing' /\ \A d \in Callers : CallMoves(d)
  BY <1>2 DEF GoneLeaves
<1>4. \A d \in Callers \ {c} :
       /\ call'[d].pc = call[d].pc /\ call'[d].on = call[d].on /\ call'[d].frame = call[d].frame
       /\ call'[d].seen = call[d].seen /\ call'[d].text = call[d].text
  BY <1>2 DEF GoneLeaves
<1>5. call'[c] = r
  BY DEF Rung
<1>i. Ids' = Ids
  BY <1>1 DEF Ids
<1>l. /\ s.life \in {"up", "dead"} /\ (s.life = "up" => server[k].life = "up")
      /\ r.frame # "text"
  BY DEF ServerState, Gone, PlacedAt
<1>6. Dated'
  <2>1. \A j \in Ids : server'[j].text <= disk /\ server'[j].synced <= disk
    BY <1>1, <1>a DEF Dated, Fields
  <2>2. \A d \in Callers : call'[d].seen <= disk /\ call'[d].text <= disk
    BY <1>4, <1>5, <1>a DEF Dated, Fields
  <2> QED
    BY <1>i, <2>1, <2>2 DEF Dated
<1>7. InStep'
  <2> SUFFICES ASSUME "sync" \notin races PROVE InStep'
    BY DEF InStep
  <2>1. Syncing(c) /\ (Syncing(c))' /\ call'[c].on = k
    BY <1>5 DEF Syncing
  <2>2. \A d \in Callers : (Syncing(d) <=> (Syncing(d))') /\ call'[d].on = call[d].on
    BY <1>4, <1>5, <2>1 DEF Syncing
  <2>3. \A d, e \in Callers : (Syncing(d))' /\ (Syncing(e))' /\ call'[d].on = call'[e].on => d = e
    BY <1>a, <2>2 DEF InStep
  <2>4. \A d \in Callers : call'[d].frame = "text" => call'[d].seen <= call'[d].text
    BY <1>4, <1>5, <1>a, <1>l DEF InStep
  <2>5. ASSUME NEW d \in Callers, call'[d].pc = "records", server'[call'[d].on].life = "up"
        PROVE  call'[d].seen <= server'[call'[d].on].text
    <3>1. CASE d = c
      BY <1>1, <1>5, <1>a, <2>5, <3>1 DEF InStep
    <3>2. CASE d # c
      <4>1. call[d].pc = "records" /\ call'[d].on = call[d].on /\ call'[d].seen = call[d].seen
        BY <1>4, <2>5, <3>2
      <4>2. call[d].on \in Ids
        BY <4>1, AtAClient
      <4>3. call[d].on # k
        BY <1>a, <2>1, <3>2, <4>1 DEF InStep, Syncing
      <4> QED
        BY <1>1, <1>a, <2>5, <4>1, <4>2, <4>3 DEF InStep
    <3> QED
      BY <3>1, <3>2
  <2>6. \A j \in Ids' :
          server'[j].life = "up" /\ (\A d \in Callers : ~((Syncing(d))' /\ call'[d].on = j)) =>
            server'[j].synced <= server'[j].text
    <3>1. ASSUME NEW j \in Ids, server'[j].life = "up",
                 \A d \in Callers : ~((Syncing(d))' /\ call'[d].on = j)
          PROVE  server'[j].synced <= server'[j].text
      <4>1. j # k
        BY <2>1, <3>1
      <4>2. \A d \in Callers : ~(Syncing(d) /\ call[d].on = j)
        BY <2>2, <3>1
      <4> QED
        BY <1>1, <1>a, <3>1, <4>1, <4>2 DEF InStep
    <3> QED
      BY <1>i, <3>1
  <2> QED
    BY <2>3, <2>4, <2>5, <2>6 DEF InStep
<1>8. \A j \in Ids : /\ server[j].life = "dead" => server'[j].life = "dead"
                     /\ server'[j].life = "up" => server[j].life = "up"
  BY <1>1, <1>l
<1> QED
  BY <1>1, <1>3, <1>6, <1>7, <1>8, StepKeeps

\* The frames there are.
LEMMA FrameIs ==
  ASSUME LspInvariant, NEW c \in Callers, call[c].pc = "writes"
  PROVE  /\ call[c].frame \in {"initialize", "initialized", "query", "text"}
         /\ call[c].on \in Ids /\ call[c] \in CallState
         /\ server[call[c].on] \in ServerState /\ call[c].on # 0 /\ call[c].on <= Len(server)
<1>1. call[c] \in CallState /\ PlacedAt(call[c])
  BY Parts DEF Placed, Fields
<1>2. call[c].frame \in Frames /\ call[c].frame # "-"
  BY <1>1 DEF PlacedAt, CallState
<1> QED
  BY <1>1, <1>2, AtAClient DEF Frames, PlacedAt

\* Where the call is when its text has gone.
LEMMA TextRecord ==
  ASSUME NEW b \in CallState, b.frame = "text", b.on # 0, b.on <= Len(server)
  PROVE  LET r == [b EXCEPT !.pc = "records", !.frame = "-", !.text = 0]
         IN  /\ r \in CallState /\ PlacedAt(r) /\ ~StartingAt(r)
             /\ r.pc = "records" /\ r.on = b.on /\ r.seen = b.seen /\ r.text = 0
<1> DEFINE r == [b EXCEPT !.pc = "records", !.frame = "-", !.text = 0]
<1>1. r \in CallState
  BY PcsAre DEF CallState
<1>2. r.pc = "records" /\ r.on = b.on /\ r.seen = b.seen /\ r.text = 0 /\ r.frame = "-"
  BY DEF CallState
<1> HIDE DEF r
<1>3. PlacedAt(r) /\ ~StartingAt(r)
  BY <1>2 DEF PlacedAt, StartingAt
<1> QED
  BY <1>1, <1>2, <1>3 DEF r

\* Where a call is that has ended.
LEMMA NoCallRecord ==
  ASSUME Len(server) \in Nat
  PROVE  /\ NoCall \in CallState /\ PlacedAt(NoCall) /\ ~StartingAt(NoCall)
         /\ NoCall.pc = "idle" /\ NoCall.on = 0 /\ NoCall.seen = 0 /\ NoCall.text = 0 /\ NoCall.frame = "-"
<1>1. /\ NoCall.pc = "idle" /\ NoCall.on = 0 /\ NoCall.seen = 0 /\ NoCall.text = 0 /\ NoCall.frame = "-"
  BY DEF NoCall
<1> QED
  BY <1>1, NoCallTyped DEF PlacedAt, StartingAt

\* Nor with a start that succeeds.
LEMMA SuccessInstalls ==
  ASSUME LspInvariant, NEW c \in Callers, call[c].pc = "writes", StartSucceeds(c), installing' = installing
  PROVE  Installing'
<1>a. Typed /\ Installing /\ Fields
  BY Parts
<1> DEFINE b == [call EXCEPT ![c].pc = "stats", ![c].frame = "-"]
<1>1. b \in [Callers -> CallState] /\ \A d \in Callers \ {c} : b[d] = call[d]
  <2> DEFINE r == [call[c] EXCEPT !.pc = "stats", !.frame = "-"]
  <2>1. r \in CallState
    <3>1. call[c] \in CallState
      BY <1>a DEF Fields
    <3> QED
      BY <3>1, PcsAre DEF CallState
  <2>2. b = [call EXCEPT ![c] = r]
    BY <1>a DEF Fields
  <2> HIDE DEF r, b
  <2> QED
    BY <1>a, <2>1, <2>2 DEF Typed
<1> HIDE DEF b
<1>2. Freed(b, call')
  BY <1>1, OpenedCalls DEF StartSucceeds, b
<1> SUFFICES ASSUME NEW d \in Callers, installing = d PROVE call'[d].pc = "installs"
  BY DEF Installing, At
<1>3. call[d].pc = "installs" /\ d # c
  BY <1>a DEF Installing, At
<1> QED
  BY <1>1, <1>2, <1>3 DEF Freed

\* A frame that is not written, in the client s whose process is gone.
LEMMA UnwrittenKeeps ==
  ASSUME LspInvariant, NEW c \in Callers, call[c].pc = "writes", NEW k \in Ids, k = call[c].on,
         NEW s \in ServerState, NEW calls, Rung(call, calls), HeardBut(c, k, s, calls),
         Shorter(server[k].queue, s.queue, c),
         s.life = "dead", s.text \in {server[k].text, 0}, s.synced = server[k].synced,
         Unwritten(c, k, s, calls), UNCHANGED <<disk, installed, installing, manager>>
  PROVE  LspInvariant'
<1>a. Typed /\ Fields /\ Installing
  BY Parts
<1>1. /\ call[c].frame \in {"initialize", "initialized", "query", "text"}
      /\ call[c] \in CallState /\ k # 0 /\ k <= Len(server)
  BY FrameIs
<1>2. /\ calls[c] \in CallState /\ calls \in [Callers -> CallState]
      /\ calls[c].frame = call[c].frame /\ calls[c].on = call[c].on
      /\ calls[c].seen = call[c].seen /\ calls[c].text = call[c].text /\ calls[c].pc = call[c].pc
  BY DEF Rung
<1>3. CASE call[c].frame = "initialize"
  <2>1. server' = [server EXCEPT ![k] = ShutServer] /\ StartFails(c, calls)
    BY <1>2, <1>3 DEF Unwritten
  <2> QED
    BY <1>3, <2>1, UndoneKeeps
<1>4. CASE call[c].frame = "query"
  <2> DEFINE t == [s EXCEPT !.waiters = @ \ {c}]
  <2>1. /\ server' = [server EXCEPT ![k] = t] /\ call' = [calls EXCEPT ![c] = NoCall]
        /\ UNCHANGED <<gate, registered, races>>
    BY <1>2, <1>4 DEF Unwritten
  <2>2. /\ t \in ServerState /\ t.queue = s.queue /\ t.life = "dead" /\ t.text = s.text
        /\ t.synced = s.synced /\ t.waiters = s.waiters \ {c} /\ (t.broken <=> s.broken)
    BY DEF ServerState
  <2> HIDE DEF t
  <2>3. HeardBut(c, k, t, calls)
    BY <2>2 DEF HeardBut
  <2>4. /\ NoCall \in CallState /\ PlacedAt(NoCall) /\ ~StartingAt(NoCall)
        /\ NoCall.pc = "idle" /\ NoCall.on = 0 /\ NoCall.seen = 0 /\ NoCall.text = 0 /\ NoCall.frame = "-"
    BY <1>a, NoCallRecord DEF Fields
  <2>5. Gone(c, k, t, NoCall)
    BY <1>4, <2>2, <2>4 DEF Gone
  <2> QED
    BY <1>4, <2>1, <2>2, <2>3, <2>4, <2>5, RequestGone
<1>5. CASE call[c].frame = "text"
  <2> DEFINE r == [calls[c] EXCEPT !.pc = "records", !.frame = "-", !.text = 0]
  <2>1. /\ server' = [server EXCEPT ![k] = s] /\ call' = [calls EXCEPT ![c] = r]
        /\ UNCHANGED <<gate, registered, races>>
    BY <1>2, <1>5 DEF Unwritten
  <2>2. /\ r \in CallState /\ PlacedAt(r) /\ ~StartingAt(r)
        /\ r.pc = "records" /\ r.on = k /\ r.seen = call[c].seen /\ r.text = 0
    BY <1>1, <1>2, <1>5, TextRecord
  <2> HIDE DEF r
  <2>3. Gone(c, k, s, r)
    BY <1>5, <2>2 DEF Gone
  <2> QED
    BY <1>5, <2>1, <2>2, <2>3, TextGone
<1>6. CASE call[c].frame = "initialized"
  <2>1. server' = [server EXCEPT ![k] = s] /\ StartSucceeds(c)
    BY <1>2, <1>6 DEF Unwritten
  <2>2. /\ server' \in Seq(ServerState) /\ Len(server') = Len(server)
        /\ server'[k] = s /\ \A j \in Ids \ {k} : server'[j] = server[j]
    BY <1>a, <2>1, ServerReplaced DEF Typed
  <2>3. Installing'
    BY <1>6, <2>1, SuccessInstalls
  <2> QED
    BY <1>6, <2>1, <2>2, <2>3, StartSucceeded
<1> QED
  BY <1>1, <1>3, <1>4, <1>5, <1>6

\* The writer cannot write.
LEMMA WriterFailsKeeps ==
  ASSUME LspInvariant, NEW k \in Ids, WriterFails(k)
  PROVE  LspInvariant'
<1> DEFINE c == Head(server[k].queue)
           s == [server[k] EXCEPT !.queue = Tail(@)]
<1>a. Typed /\ Queued /\ server[k] \in ServerState
  BY Parts DEF Fields
<1>0. /\ server[k].queue # <<>> /\ server[k].life = "dead"
      /\ UNCHANGED <<disk, installed, installing, manager, left>>
  BY DEF WriterFails
<1>1. /\ Shorter(server[k].queue, Tail(server[k].queue), c)
      /\ c # "pump" => c \in Callers /\ call[c].pc = "writes" /\ call[c].on = k
  BY <1>0, <1>a, TailIsShorter
<1>2. Tail(server[k].queue) \in Seq(Callers \cup {"pump"})
  BY <1>1 DEF Shorter
<1>3. /\ s \in ServerState /\ s.queue = Tail(server[k].queue) /\ s.waiters = server[k].waiters
      /\ (s.broken <=> server[k].broken)
      /\ s.life = server[k].life /\ s.text = server[k].text /\ s.synced = server[k].synced
  BY <1>2, <1>a DEF ServerState
<1>4. CASE c = "pump"
  BY <1>0, <1>4, ReplyGoneKeeps DEF WriterFails
<1>5. CASE c # "pump"
  <2>1. Unwritten(c, k, s, call)
    BY <1>5 DEF WriterFails
  <2>2. Rung(call, call)
    BY <1>a, RungByNothing DEF Typed
  <2> HIDE DEF s
  <2>3. HeardBut(c, k, s, call)
    BY <1>3 DEF HeardBut
  <2> QED
    BY <1>0, <1>1, <1>3, <1>5, <2>1, <2>2, <2>3, UnwrittenKeeps
<1> QED
  BY <1>4, <1>5

\* A frame is not taken in time: the caller breaks the client.
LEMMA WriteTimesOutKeeps ==
  ASSUME LspInvariant, NEW c \in Callers, WriteTimesOut(c)
  PROVE  LspInvariant'
<1> DEFINE k == call[c].on
           b == Dead(Broken(server[k]))
           s == [b EXCEPT !.queue = Without(@, c)]
<1>a. Typed /\ Queued /\ Fields
  BY Parts
<1>0. /\ call[c].pc = "writes" /\ Unwritten(c, k, s, Woken(k, call))
      /\ UNCHANGED <<disk, installed, installing, manager, left>>
  BY DEF WriteTimesOut, At
<1>k. k \in Ids /\ server[k] \in ServerState
  BY <1>0, FrameIs
<1>1. /\ b \in ServerState /\ b.queue = server[k].queue /\ b.synced = server[k].synced
      /\ b.life = "dead" /\ b.text = 0
  <2>1. Broken(server[k]) \in ServerState
    BY <1>k, EndTyped
  <2> QED
    BY <1>k, <2>1, EndTyped
<1>p. c # "pump"
  BY CallersAreThreads
<1>2. Shorter(server[k].queue, Without(server[k].queue, c), c)
  BY <1>a, <1>k, WithoutIsShorter
<1> HIDE DEF b
<1>3. Without(b.queue, c) \in Seq(Callers \cup {"pump"})
  BY <1>1, <1>2 DEF Shorter
<1>4. /\ s \in ServerState /\ s.queue = Without(server[k].queue, c) /\ s.life = "dead" /\ s.text = 0
      /\ s.synced = server[k].synced
  BY <1>1, <1>3 DEF ServerState
<1>5. Rung(call, Woken(k, call)) /\ \A d \in server[k].waiters : Woken(k, call)[d].got = "error"
  BY <1>a, <1>k, WokenCalls DEF Typed, Fields
<1> DEFINE calls == Woken(k, call)
<1> HIDE DEF s, calls
<1>6. HeardBut(c, k, s, calls)
  <2>1. \A d \in Callers : calls[d].got = "-" => call[d].got = "-" /\ d \notin server[k].waiters
    BY <1>5 DEF Rung, calls
  <2> QED
    BY <2>1 DEF HeardBut
<1>7. Rung(call, calls) /\ Unwritten(c, k, s, calls)
  BY <1>0, <1>5 DEF calls
<1> QED
  BY <1>0, <1>2, <1>4, <1>6, <1>7, <1>k, UnwrittenKeeps

\* The writer writes.
LEMMA WriterWritesKeeps ==
  ASSUME LspInvariant, NEW k \in Ids, WriterWrites(k)
  PROVE  LspInvariant'
<1> DEFINE c == Head(server[k].queue)
           s == [server[k] EXCEPT !.queue = Tail(@)]
<1>a. Typed /\ Queued /\ Fields /\ server[k] \in ServerState
  BY Parts DEF Fields
<1>0. /\ server[k].queue # <<>> /\ server[k].life = "up"
      /\ UNCHANGED <<disk, installed, installing, manager, left>>
  BY DEF WriterWrites
<1>1. /\ Shorter(server[k].queue, Tail(server[k].queue), c)
      /\ c # "pump" => c \in Callers /\ call[c].pc = "writes" /\ call[c].on = k
  BY <1>0, <1>a, TailIsShorter
<1>2. Tail(server[k].queue) \in Seq(Callers \cup {"pump"})
  BY <1>1 DEF Shorter
<1>3. /\ s \in ServerState /\ s.queue = Tail(server[k].queue) /\ s.waiters = server[k].waiters
      /\ (s.broken <=> server[k].broken) /\ s.asked = server[k].asked
      /\ s.life = server[k].life /\ s.text = server[k].text /\ s.synced = server[k].synced
  BY <1>2, <1>a DEF ServerState
<1>4. CASE c = "pump"
  BY <1>0, <1>4, ReplyGoneKeeps DEF WriterWrites
<1>5. CASE c # "pump"
  <2>0. /\ c \in Callers /\ call[c].pc = "writes" /\ call[c].on = k /\ call[c] \in CallState
        /\ call[c].frame \in {"initialize", "initialized", "query", "text"}
        /\ k # 0 /\ k <= Len(server)
    BY <1>1, <1>5, FrameIs
  <2>r. Rung(call, call)
    BY <1>a, RungByNothing DEF Typed
  <2>p. PlacedAt(call[c]) /\ DOMAIN call = Callers
    BY <1>a, <2>0, Parts DEF Placed, Fields
  <2>1. CASE call[c].frame \in {"initialize", "query"}
    <3> DEFINE t == [s EXCEPT !.asked = @ \union {c}]
               r == [call[c] EXCEPT !.pc = "awaits"]
    <3>1. /\ server' = [server EXCEPT ![k] = t] /\ call' = [call EXCEPT ![c] = r]
          /\ UNCHANGED <<gate, registered, races>>
      <4>1. server' = [server EXCEPT ![k] = t] /\ call' = Goes(c, "awaits") /\ UNCHANGED <<gate, registered, races>>
        BY <1>5, <2>1 DEF WriterWrites
      <4> QED
        BY <4>1, <2>0, <2>p DEF Goes
    <3>2. /\ t \in ServerState /\ t.queue = s.queue /\ t.waiters = s.waiters
          /\ (t.broken <=> s.broken)
          /\ t.life = s.life /\ t.text = s.text /\ t.synced = s.synced
      BY <1>3, <2>0 DEF ServerState
    <3>3. r \in CallState
      BY <2>0, PcsAre DEF CallState
    <3>4. /\ r.pc = "awaits" /\ r.on = k /\ r.frame = call[c].frame /\ r.seen = call[c].seen
          /\ r.text = call[c].text /\ r.got = call[c].got /\ (r.late <=> call[c].late)
      BY <2>0 DEF CallState
    <3> HIDE DEF s, t, r
    <3>5. HeardBut(c, k, t, call)
      BY <1>3, <3>2 DEF HeardBut
    <3>6. PlacedAt(r)
      BY <2>1, <2>p, <2>0, <3>4 DEF PlacedAt
    <3>7. StartingAt(r) <=> call[c].frame = "initialize"
      BY <2>1, <3>4 DEF StartingAt
    <3>t. t.queue = Tail(server[k].queue) /\ t.waiters = server[k].waiters /\ (server[k].broken <=> t.broken)
      BY <1>3, <3>2
    <3>8. Gone(c, k, t, r)
      BY <1>0, <1>1, <2>0, <2>1, <3>4, <3>6, <3>7, <3>t DEF Gone
    <3>9. /\ t.life = "up" => t.text = server[k].text
          /\ t.text \in {server[k].text, 0} /\ t.synced = server[k].synced
          /\ call[c].frame # "text" /\ r.pc # "records" /\ r.frame # "text"
          /\ r.seen \in {call[c].seen, 0} /\ r.text \in {call[c].text, 0}
      BY <1>3, <2>1, <3>2, <3>4
    <3> QED
      BY <1>0, <2>0, <2>r, <3>1, <3>2, <3>3, <3>5, <3>8, <3>9, RequestGone
  <2>2. CASE call[c].frame = "text"
    <3> DEFINE t == [s EXCEPT !.text = call[c].text]
               r == [call[c] EXCEPT !.pc = "records", !.frame = "-", !.text = 0]
    <3>1. /\ server' = [server EXCEPT ![k] = t] /\ call' = [call EXCEPT ![c] = r]
          /\ UNCHANGED <<gate, registered, races>>
      <4>1. /\ server' = [server EXCEPT ![k] = t]
            /\ call' = [call EXCEPT ![c].pc = "records", ![c].frame = "-", ![c].text = 0]
            /\ UNCHANGED <<gate, registered, races>>
        BY <1>5, <2>2 DEF WriterWrites
      <4> QED
        BY <4>1, <2>0, <2>p
    <3>2. /\ t \in ServerState /\ t.queue = s.queue /\ t.waiters = s.waiters
          /\ (t.broken <=> s.broken)
          /\ t.life = s.life /\ t.text = call[c].text /\ t.synced = s.synced
      <4>1. call[c].text \in Nat
        BY <2>0 DEF CallState
      <4> QED
        BY <1>3, <4>1 DEF ServerState
    <3>3. /\ r \in CallState /\ PlacedAt(r) /\ ~StartingAt(r)
          /\ r.pc = "records" /\ r.on = k /\ r.seen = call[c].seen /\ r.text = 0
      BY <2>0, <2>2, TextRecord
    <3> HIDE DEF s, t, r
    <3>5. HeardBut(c, k, t, call)
      BY <1>3, <3>2 DEF HeardBut
    <3>t. t.queue = Tail(server[k].queue)
      BY <1>3, <3>2
    <3>8. Gone(c, k, t, r)
      BY <1>0, <1>1, <2>0, <2>2, <3>3, <3>t DEF Gone
    <3>9. t.text \in {call[c].text, server[k].text, 0} /\ t.synced = server[k].synced
      BY <1>3, <3>2
    <3> QED
      BY <1>0, <2>0, <2>2, <2>r, <3>1, <3>2, <3>3, <3>5, <3>8, <3>9, TextGone
  <2>3. CASE call[c].frame = "initialized"
    <3>1. server' = [server EXCEPT ![k] = s] /\ StartSucceeds(c)
      BY <1>5, <2>3 DEF WriterWrites
    <3> HIDE DEF s
    <3>2. /\ server' \in Seq(ServerState) /\ Len(server') = Len(server)
          /\ server'[k] = s /\ \A j \in Ids \ {k} : server'[j] = server[j]
      BY <1>3, <1>a, <3>1, ServerReplaced DEF Typed
    <3>3. Installing'
      BY <1>0, <2>0, <2>3, <3>1, SuccessInstalls
    <3>4. /\ Shorter(server[k].queue, server'[k].queue, c)
          /\ server'[k].life = "up" => server[k].life = "up" /\ server'[k].text = server[k].text
          /\ server'[k].life \in {"up", "dead"}
          /\ server'[k].text \in {server[k].text, 0} /\ server'[k].synced = server[k].synced
      BY <1>0, <1>1, <1>3, <3>2
    <3> QED
      BY <1>0, <2>0, <2>3, <3>1, <3>2, <3>3, <3>4, StartSucceeded
  <2> QED
    BY <2>0, <2>1, <2>2, <2>3
<1> QED
  BY <1>4, <1>5

\* The client records the version it has sent, and the call goes on.
LEMMA RecordsKeeps ==
  ASSUME LspInvariant, NEW c \in Callers, Records(c)
  PROVE  LspInvariant'
<1>a. Typed /\ Placed /\ Queued /\ Attended /\ Dated /\ InStep /\ Gated /\ Installing /\ Fields
  BY Parts
<1> DEFINE k == call[c].on
           s == [server[k] EXCEPT !.synced = call[c].seen]
           r == IF call[c].op = "query"
                  THEN [call[c] EXCEPT !.seen = 0, !.pc = "asks", !.frame = "query"]
                  ELSE [call[c] EXCEPT !.seen = 0, !.pc = "drains", !.frame = "-"]
<1>0. /\ call[c].pc = "records"
      /\ UNCHANGED <<disk, installed, installing, registered, gate, manager, left, races>>
  BY DEF Records, At
<1>k. k \in Ids /\ k # 0 /\ call[c] \in CallState /\ server[k] \in ServerState /\ call[c].seen \in Nat
  BY <1>0, <1>a, AtAClient DEF Fields
<1>p. k <= Len(server) /\ call[c].frame = "-"
  BY <1>0, <1>a DEF Placed, PlacedAt
<1>1. /\ s \in ServerState /\ s.synced = call[c].seen /\ s.queue = server[k].queue
      /\ s.waiters = server[k].waiters /\ (s.broken <=> server[k].broken)
      /\ s.life = server[k].life /\ s.text = server[k].text
  BY <1>k DEF ServerState
<1>2. r \in CallState
  BY <1>k, PcsAre DEF CallState
<1>3. /\ r.on = k /\ r.seen = 0 /\ r.text = call[c].text
      /\ \/ r.pc = "asks" /\ r.frame = "query"
         \/ r.pc = "drains" /\ r.frame = "-"
  BY <1>k DEF CallState
<1>4. server' = [server EXCEPT ![k] = s] /\ call' = [call EXCEPT ![c] = r]
  <2>1. server' = [server EXCEPT ![k] = s]
    BY <1>a, <1>k DEF Records, Fields
  <2>2. call' = [call EXCEPT ![c] = r]
    BY <1>a, <1>k DEF Records, Follows, Fields
  <2> QED
    BY <2>1, <2>2
<1> HIDE DEF s, r
<1>5. /\ server' \in Seq(ServerState) /\ Len(server') = Len(server)
      /\ server'[k] = s /\ \A j \in Ids \ {k} : server'[j] = server[j]
  BY <1>1, <1>4, <1>a, <1>k, ServerReplaced DEF Typed
<1>6. /\ call'[c] = r /\ \A d \in Callers \ {c} : call'[d] = call[d]
      /\ call' \in [Callers -> CallState]
  BY <1>2, <1>4, <1>a DEF Fields, Typed
<1>i. Ids' = Ids
  BY <1>5 DEF Ids
<1>7. Typed'
  BY <1>0, <1>5, <1>6, <1>a DEF Typed
<1>8. Placed'
  <2>1. PlacedAt(call[c])'
    BY <1>3, <1>5, <1>6, <1>k, <1>p DEF PlacedAt
  <2>2. ASSUME NEW d \in Callers \ {c} PROVE PlacedAt(call[d])'
    <3>1. PlacedAt(call[d])
      BY <1>a DEF Placed
    <3> QED
      BY <1>5, <1>6, <3>1 DEF PlacedAt
  <2> QED
    BY <2>1, <2>2 DEF Placed, PlacedAt
<1>9. Queued'
  <2>1. \A j \in Ids' : j \in Ids /\ server'[j].queue = server[j].queue
    BY <1>1, <1>5, <1>i
  <2>2. \A d \in Callers : call[d].pc = "writes" => call'[d] = call[d]
    BY <1>0, <1>6
  <2> QED
    BY <1>7, <1>a, <2>1, <2>2, QueuedKept
<1>10. Attended'
  <2>1. \A j \in Ids : /\ server'[j].waiters = server[j].waiters
                       /\ (server'[j].broken <=> server[j].broken)
    BY <1>1, <1>5
  <2>2. ASSUME NEW d \in Callers, call'[d].pc \in {"writes", "awaits"}
        PROVE  call'[d] = call[d] /\ call[d].on \in Ids
    <3>1. d # c
      BY <1>3, <1>6, <2>2
    <3>2. call'[d] = call[d]
      BY <1>6, <3>1
    <3> QED
      BY <2>2, <3>2, AtAClient
  <2>3. ASSUME NEW d \in Callers, call'[d].pc \in {"writes", "awaits"}
        PROVE  /\ call'[d] = call[d]
               /\ d \in server[call[d].on].waiters => d \in server'[call[d].on].waiters
               /\ ~server[call[d].on].broken => ~server'[call[d].on].broken
    BY <2>1, <2>2, <2>3
  <2> QED
    BY <1>a, <2>3, AttendedKept
<1>11. Dated'
  <2>1. call[c].seen <= disk /\ 0 <= disk
    BY <1>a DEF Dated, Fields
  <2>2. \A j \in Ids : server'[j].text <= disk /\ server'[j].synced <= disk
    BY <1>1, <1>5, <1>a, <2>1 DEF Dated
  <2>3. \A d \in Callers : call'[d].seen <= disk /\ call'[d].text <= disk
    BY <1>3, <1>6, <1>a, <2>1 DEF Dated
  <2> QED
    BY <1>0, <1>i, <2>2, <2>3 DEF Dated
<1>12. InStep'
  <2> SUFFICES ASSUME "sync" \notin races PROVE InStep'
    BY <1>0 DEF InStep
  <2>1. Syncing(c) /\ ~(Syncing(c))'
    BY <1>0, <1>3, <1>6 DEF Syncing
  <2>2. \A d \in Callers \ {c} : (Syncing(d) <=> (Syncing(d))') /\ (Syncing(d) => call[d].on # k)
    <3>1. \A d \in Callers \ {c} : Syncing(d) <=> (Syncing(d))'
      BY <1>6 DEF Syncing
    <3>2. \A d \in Callers \ {c} : Syncing(d) => call[d].on # k
      BY <1>a, <2>1 DEF InStep
    <3> QED
      BY <3>1, <3>2
  <2>3. \A d, e \in Callers : (Syncing(d))' /\ (Syncing(e))' /\ call'[d].on = call'[e].on => d = e
    BY <1>6, <1>a, <2>1, <2>2 DEF InStep
  <2>4. \A d \in Callers : call'[d].frame = "text" => call'[d].seen <= call'[d].text
    BY <1>3, <1>6, <1>a DEF InStep
  <2>5. ASSUME NEW d \in Callers, call'[d].pc = "records", server'[call'[d].on].life = "up"
        PROVE  call'[d].seen <= server'[call'[d].on].text
    <3>1. d # c
      BY <1>3, <1>6, <2>5
    <3>2. call'[d] = call[d]
      BY <1>6, <3>1
    <3>3. call[d].on \in Ids
      BY <2>5, <3>2, AtAClient
    <3>4. server'[call[d].on].life = server[call[d].on].life /\ server'[call[d].on].text = server[call[d].on].text
      BY <1>1, <1>5, <3>3
    <3> QED
      BY <1>a, <2>5, <3>2, <3>4 DEF InStep
  <2>6. ASSUME NEW j \in Ids, server'[j].life = "up",
               \A d \in Callers : ~((Syncing(d))' /\ call'[d].on = j)
        PROVE  server'[j].synced <= server'[j].text
    <3>1. CASE j = k
      <4>1. call[c].seen <= server[k].text
        BY <1>0, <1>1, <1>5, <1>a, <2>6, <3>1 DEF InStep
      <4> QED
        BY <1>1, <1>5, <3>1, <4>1
    <3>2. CASE j # k
      <4>1. \A d \in Callers : ~(Syncing(d) /\ call[d].on = j)
        BY <1>6, <2>2, <2>6, <3>2
      <4> QED
        BY <1>5, <1>a, <2>6, <3>2, <4>1 DEF InStep
    <3> QED
      BY <3>1, <3>2
  <2> QED
    BY <1>i, <2>3, <2>4, <2>5, <2>6 DEF InStep
<1>s. ~Starting(c) /\ ~(Starting(c))'
  BY <1>0, <1>3, <1>6, <1>p DEF Starting
<1>13. Gated'
  <2>1. \A d \in Callers : (Holding(d))' => Holding(d)
    BY <1>6, <1>s DEF Holding, Starting
  <2> QED
    BY <1>0, <1>a, <2>1, GatedKept
<1>14. Installing'
  <2>1. installing # c
    BY <1>0, <1>a DEF Installing, At
  <2> QED
    BY <1>0, <1>6, <1>a, <2>1 DEF Installing, At
<1>15. \A d \in Callers : CallMoves(d)
  <2>1. CallMoves(c)
    BY <1>3, <1>6, <1>s DEF CallMoves
  <2> QED
    BY <1>6, <2>1, StayingMoves DEF CallStays
<1>16. \A j \in Ids : server'[j].life = server[j].life
  BY <1>1, <1>5
<1> QED
  BY <1>0, <1>5, <1>7, <1>8, <1>9, <1>10, <1>11, <1>12, <1>13, <1>14, <1>15, <1>16, StepKeeps

\* The look at the file, whatever it finds.
LEMMA StatsAllKeeps ==
  ASSUME LspInvariant, NEW c \in Callers, Stats(c)
  PROVE  LspInvariant'
BY StatsKeeps, InSyncQueryKeeps, InSyncDrainKeeps

\* A step of a thread.
LEMMA CallerStepsKeep ==
  ASSUME LspInvariant, NEW c \in Callers, CallerSteps(c)
  PROVE  LspInvariant'
<1>1. CASE Looks(c) \/ TakesGate(c) \/ Passes(c)
  BY <1>1, LooksKeeps, TakesGateKeeps, PassesKeeps
<1>2. CASE Spawns(c) \/ SpawnsNothing(c) \/ InstallStarts(c) \/ InstallEnds(c)
  BY <1>2, SpawnsKeeps, SpawnsNothingKeeps, InstallStartsKeeps, InstallEndsKeeps
<1>3. CASE ChecksBroken(c) \/ Registers(c) \/ Answered(c) \/ HandshakeTimesOut(c)
  BY <1>3, ChecksBrokenKeeps, RegistersKeeps, AnsweredKeeps, HandshakeTimesOutKeeps
<1>4. CASE Stats(c) \/ Reads(c) \/ Records(c) \/ WriteTimesOut(c)
  BY <1>4, StatsAllKeeps, ReadsKeeps, RecordsKeeps, WriteTimesOutKeeps
<1>5. CASE EditReports(c) \/ DiagnosticsReport(c)
  BY <1>5, EditReportsKeeps, DiagnosticsReportKeeps
<1> QED
  BY <1>1, <1>2, <1>3, <1>4, <1>5 DEF CallerSteps

\* A step of a client's writer or pump, or of its server.
LEMMA ClientStepsKeep ==
  ASSUME LspInvariant, NEW k \in Ids,
         \/ ClientSteps(k)
         \/ ServerGarbles(k) \/ ServerAsks(k)
         \/ ServerStopsReading(k) \/ ServerExits(k)
  PROVE  LspInvariant'
<1>1. CASE WriterWrites(k) \/ WriterFails(k)
  BY <1>1, WriterWritesKeeps, WriterFailsKeeps
<1>2. CASE PumpSeesTheEnd(k) \/ ServerGarbles(k)
  <2>1. PumpEnds(k)
    BY <1>2 DEF PumpSeesTheEnd, ServerGarbles
  <2> QED
    BY <2>1, PumpEndsKeeps
<1>3. CASE ReplyTimesOut(k) \/ ServerAsks(k) \/ ServerStopsReading(k) \/ ServerExits(k)
  BY <1>3, ReplyTimesOutKeeps, ServerAsksKeeps, ServerStopsKeeps, ServerExitsKeeps
<1> QED
  BY <1>1, <1>2, <1>3 DEF ClientSteps

\* Nothing happens.
LEMMA LspStutterKeeps ==
  ASSUME LspInvariant, UNCHANGED lspVars
  PROVE  LspInvariant'
<1>1. UNCHANGED <<disk, installed, installing, server, registered, gate, call, manager, left, races>>
  BY DEF lspVars
<1>2. Installing' /\ Typed' /\ Placed' /\ Queued' /\ Attended'
  BY <1>1 DEF LspInvariant, Installing, At, Typed, Placed, PlacedAt, Queued, Ids, Attended
<1>3. Private' /\ Dated' /\ InStep' /\ Gated' /\ Closing' /\ CalmNoStrayServer'
  BY <1>1 DEF LspInvariant, Private, Starting, Dated, Ids, InStep, Syncing, Gated, Holding, Closing, CalmNoStrayServer
<1> QED
  BY <1>2, <1>3 DEF LspInvariant

\* THE STEP.
LEMMA LspStepKeeps == LspInvariant /\ [LspNext]_lspVars => LspInvariant'
<1> SUFFICES ASSUME LspInvariant, [LspNext]_lspVars PROVE LspInvariant'
  OBVIOUS
<1>1. ASSUME NEW c \in Callers, EditBegins(c) \/ QueryBegins(c) PROVE LspInvariant'
  BY <1>1, EditBeginsKeeps, QueryBeginsKeeps
<1>2. ASSUME NEW c \in Callers, CallerSteps(c) PROVE LspInvariant'
  BY <1>2, CallerStepsKeep
<1>3. ASSUME NEW c \in Callers, NEW got \in {"result", "modified"}, PumpDelivers(c, got) PROVE LspInvariant'
  BY <1>3, PumpDeliversKeeps
<1>4. ASSUME NEW k \in Ids,
             \/ ClientSteps(k)
             \/ ServerGarbles(k) \/ ServerAsks(k)
             \/ ServerStopsReading(k) \/ ServerExits(k)
      PROVE  LspInvariant'
  BY <1>4, ClientStepsKeep
<1>5. CASE ShutdownStarts \/ ShutdownEnds
  BY <1>5, ShutdownStartsKeeps, ShutdownEndsKeeps
<1>6. CASE UNCHANGED lspVars
  BY <1>6, LspStutterKeeps
<1> QED
  BY <1>1, <1>2, <1>3, <1>4, <1>5, <1>6 DEF LspNext

\* THE BEGINNING: no client, no call.
LEMMA LspStarts == LspInit => LspInvariant
<1> SUFFICES ASSUME LspInit PROVE LspInvariant
  OBVIOUS
<1>1. /\ Len(server) = 0 /\ server \in Seq(ServerState) /\ Ids = {}
      /\ \A c \in Callers : call[c] = NoCall
  BY DEF LspInit, Ids
<1>2. /\ NoCall.pc = "idle" /\ NoCall.frame = "-" /\ NoCall.on = 0 /\ NoCall.seen = 0 /\ NoCall.text = 0
  BY DEF NoCall
<1>3. Typed
  BY <1>1, NoCallTyped DEF LspInit, Typed
<1>4. Placed /\ Queued /\ Attended /\ Private /\ Dated
  BY <1>1, <1>2 DEF LspInit, Placed, PlacedAt, Queued, Attended, Private, Starting, Dated
<1>5. InStep /\ Gated /\ Closing /\ CalmNoStrayServer /\ Installing
  BY <1>1, <1>2, CallersAreThreads DEF LspInit, InStep, Syncing, Gated, Holding, Starting, Closing, CalmNoStrayServer, Installing, At
<1> QED
  BY <1>3, <1>4, <1>5 DEF LspInvariant

\* At every step of every run each caller, client, queued frame and process of
\* the language servers is accounted for (LSPClient, LSPManager).
THEOREM ClientsAreConsistent == LspSpec => []LspInvariant
BY LspStarts, LspStepKeeps, PTL DEF LspSpec

\* A caller that waits for a broken client has been woken, whatever order the
\* writer, the pump and the callers run in, unless the client broke between its
\* look at _broken and its registration.
THEOREM NobodyIsStranded == LspSpec => []CalmNobodyIsStranded
BY ClientsAreConsistent, CalmFollows, PTL

\* The server has the text on disk whenever its client believes so, unless two
\* calls synchronised it at once.
THEOREM TextIsCurrent == LspSpec => []CalmTextIsCurrent
BY ClientsAreConsistent, CalmFollows, PTL

\* No process is left behind by starts that fail, time out or are shut down, for
\* any number of threads, unless two calls passed the gate at once or a start
\* ended after the shutdown began.
THEOREM NoStrayServer == LspSpec => []CalmNoStrayServer
BY ClientsAreConsistent, CalmFollows, PTL


-----------------------------------------------------------------------------
(* The credentials of the MCP servers *)

Numbers == 0..issued

Readings == [Servers -> Numbers]

Stages == {"idle", "shut", "lock", "ask", "refresh", "put", "drop", "frefresh", "fput", "fdrop"}

RequestRecords ==
  [pc : Stages, server : Servers \union {"-"}, op : {"-", "call", "init", "list"}, rec : Numbers, new : Numbers,
   forced : BOOLEAN, dead : BOOLEAN, snap : Readings]

FlowRecords == [pc : {"idle", "thread", "wait", "put", "reload", "end", "dead"}, epoch : Nat,
                cb : {"none", "open", "cancelled", "code"}, new : Numbers, snap : Readings]

LogoutRecords ==
  [server : Servers \union {"-"}, pc : {"idle", "drop", "reload"}, snap : Readings]

Standing ==
  [fresh : SUBSET Nat, accepted : SUBSET Nat, live : SUBSET Numbers, refused : SUBSET Nat]

(* What the steps of the credentials read is of the shape they take it for. *)
Shaped ==
  /\ issued \in Nat
  /\ file \in Readings
  /\ valid \in Standing
  /\ req \in [Requests -> RequestRecords]
  /\ flow \in [Servers -> FlowRecords]
  /\ epoch \in [Servers -> Nat] /\ out \subseteq Servers
  /\ logout \in LogoutRecords

(* A request that renews a credential had one to renew, what it got is      *)
(* newer, and a request that is about to drop one was refused for good.     *)
Renewing(r) ==
  /\ r.pc # "idle" => r.server \in Servers
  /\ r.pc \in {"refresh", "frefresh", "put", "fput", "drop", "fdrop"} => r.rec # 0
  /\ r.pc \in {"put", "fput"} => r.rec < r.new
  /\ r.pc \in {"drop", "fdrop"} => r.rec \notin Renewable

(* A flow that still has the epoch of its server has not been overtaken by  *)
(* a logout, neither by one that has deleted the credential nor by one that *)
(* is about to; past its look at the epoch it has not, or has raced it.     *)
Heeding(s) ==
  /\ flow[s].epoch <= epoch[s]
  /\ flow[s].pc \in {"thread", "wait"} /\ flow[s].epoch = epoch[s] =>
       s \notin out /\ ~(logout.pc = "drop" /\ logout.server = s)
  /\ flow[s].pc = "put" => s \notin out \ raced /\ flow[s].snap[s] < flow[s].new

(* A logout that is about to delete is one of a server.                     *)
Deleting == logout.pc = "drop" => logout.server \in Servers

AuthInvariant ==
  /\ Shaped
  /\ \A i \in Requests : Renewing(req[i])
  /\ \A s \in Servers : Heeding(s)
  /\ Deleting
  /\ LogoutHolds

(* What a step does to the file, in the property's words.                   *)
FollowsTheUser ==
  \A s \in Servers :
    file[s] \in Renewable /\ file'[s] < file[s] => s \in out' \union raced'

(* What a request or a flow has read stays a reading when credentials are   *)
(* issued.                                                                  *)
LEMMA ReadingsGrow ==
  ASSUME issued \in Nat, issued' \in {issued, issued + 1}
  PROVE  /\ Numbers \subseteq Numbers'
         /\ Readings \subseteq Readings'
         /\ RequestRecords \subseteq RequestRecords'
         /\ FlowRecords \subseteq FlowRecords'
         /\ LogoutRecords \subseteq LogoutRecords'
         /\ NoFile \in Readings
         /\ NoRequest \in RequestRecords
         /\ NoFlow \in FlowRecords
         /\ NoLogout \in LogoutRecords
<1>1. Numbers \subseteq Numbers' BY SMT DEF Numbers
<1>2. 0 \in Numbers BY SMT DEF Numbers
<1>3. Readings \subseteq Readings' BY <1>1 DEF Readings
<1>4. NoFile \in Readings BY <1>2 DEF Readings, NoFile
<1>5. RequestRecords \subseteq RequestRecords' BY <1>1, <1>3 DEF RequestRecords
<1>6. FlowRecords \subseteq FlowRecords' BY <1>1, <1>3 DEF FlowRecords
<1>7. NoRequest \in RequestRecords BY <1>2, <1>4 DEF NoRequest, RequestRecords, Stages
<1>8. NoFlow \in FlowRecords BY <1>2, <1>4 DEF NoFlow, FlowRecords
<1>9. NoLogout \in LogoutRecords
  BY <1>4 DEF NoLogout, LogoutRecords
<1>10. LogoutRecords \subseteq LogoutRecords' BY <1>3 DEF LogoutRecords
<1>. QED BY <1>1, <1>3, <1>4, <1>5, <1>6, <1>7, <1>8, <1>9, <1>10

(* A credential that is issued is a new number, and the only new one.       *)
LEMMA IssuedIsNew ==
  ASSUME NEW retired, Issued(retired), issued \in Nat,
         valid \in Standing
  PROVE  /\ issued' = issued + 1
         /\ issued + 1 \in Numbers'
         /\ \A k \in Numbers : k < issued + 1
         /\ Renewable' \subseteq Renewable \union {issued + 1}
         /\ (valid \in Standing)'
<1>1. issued' = issued + 1 BY DEF Issued
<1>2. issued + 1 \in Numbers' BY <1>1, SMT DEF Numbers
<1>3. \A k \in Numbers : k < issued + 1 BY SMT DEF Numbers
<1>4. Numbers \subseteq Numbers' BY <1>1, SMT DEF Numbers
<1>5. valid' = [fresh |-> valid.fresh \union {issued + 1},
                accepted |-> valid.accepted \union {issued + 1},
                live |-> (valid.live \ retired) \union {issued + 1},
                refused |-> valid.refused]
  BY DEF Issued
<1>6. Renewable' \subseteq Renewable \union {issued + 1} BY <1>5 DEF Renewable
<1>7. (valid \in Standing)' BY <1>1, <1>2, <1>4, <1>5 DEF Standing
<1>. QED BY <1>1, <1>2, <1>3, <1>6, <1>7

(* A save changes the entry of its own server and, but for those it races,  *)
(* no other; and its own was what the writer took it for.                   *)
LEMMA SaveIsLocal ==
  ASSUME NEW snap \in Readings, NEW s \in Servers, NEW k \in Numbers, NEW was,
         file \in Readings, Saved(snap, s, k, was)
  PROVE  /\ file' \in Readings
         /\ raced \subseteq raced'
         /\ \A x \in Servers : x \notin raced' =>
              /\ x # s => file'[x] = file[x]
              /\ x = s => file[x] = was /\ file'[x] = k
<1>1. file' = [snap EXCEPT ![s] = k] BY DEF Saved
<1>2. raced' = raced \union Overtaken(snap, s, was) BY DEF Saved
<1>3. file' \in Readings BY <1>1 DEF Readings
<1>4. ASSUME NEW x \in Servers, x \notin raced', x # s PROVE file'[x] = file[x]
  BY <1>1, <1>2, <1>4 DEF Overtaken, Readings
<1>5. ASSUME s \notin raced' PROVE file[s] = was /\ file'[s] = k
  BY <1>1, <1>2, <1>5 DEF Overtaken, Readings
<1>. QED BY <1>2, <1>3, <1>4, <1>5

(* Most steps change requests and nothing the logouts and flows go by.      *)
LEMMA RequestMoves ==
  ASSUME AuthInvariant, NEW i \in Requests, NEW r \in RequestRecords,
         RequestAt(i, r), Renewing(r),
         UNCHANGED <<file, issued, valid, flow, epoch, logout, out, raced>>
  PROVE  AuthInvariant' /\ FollowsTheUser
<1>1. Shaped'
  BY DEF AuthInvariant, Shaped, Standing, RequestAt, Readings, Numbers, RequestRecords, FlowRecords, LogoutRecords
<1>2. ASSUME NEW j \in Requests PROVE Renewing(req[j])'
  BY DEF AuthInvariant, Shaped, RequestAt, Renewing, Renewable
<1>3. ASSUME NEW s \in Servers PROVE Heeding(s)'
  BY DEF AuthInvariant, Heeding
<1>4. Deleting' /\ LogoutHolds' BY DEF AuthInvariant, Deleting, LogoutHolds
<1>5. FollowsTheUser BY SMT DEF FollowsTheUser, AuthInvariant, Shaped, Readings, Numbers
<1>. QED BY <1>1, <1>2, <1>3, <1>4, <1>5 DEF AuthInvariant

(* A request that has ended keeps nothing.                                  *)
LEMMA EndingIsAMove ==
  ASSUME AuthInvariant
  PROVE  NoRequest \in RequestRecords /\ Renewing(NoRequest)
<1>1. issued \in Nat BY DEF AuthInvariant, Shaped
<1>2. 0 \in Numbers BY <1>1, SMT DEF Numbers
<1>3. NoFile \in Readings BY <1>2 DEF Readings, NoFile
<1>4. NoRequest \in RequestRecords BY <1>2, <1>3 DEF NoRequest, RequestRecords, Stages
<1>5. Renewing(NoRequest) BY DEF NoRequest, Renewing
<1>. QED BY <1>4, <1>5

(* What the invariant says of a request at a point where it does something. *)
LEMMA RequestIs ==
  ASSUME AuthInvariant, NEW i \in Requests
  PROVE  /\ issued \in Nat /\ 0 \in Numbers /\ NoFile \in Readings /\ file \in Readings
         /\ DOMAIN req = Requests
         /\ req[i] \in RequestRecords /\ Renewing(req[i])
         /\ req[i].pc # "idle" => req[i].server \in Servers /\ file[req[i].server] \in Numbers
         /\ req[i].rec \in Numbers /\ req[i].new \in Numbers /\ req[i].snap \in Readings
<1>1. Shaped /\ Renewing(req[i]) BY DEF AuthInvariant
<1>2. issued \in Nat /\ file \in Readings /\ req[i] \in RequestRecords /\ DOMAIN req = Requests
  BY <1>1 DEF Shaped
<1>3. 0 \in Numbers BY <1>2, SMT DEF Numbers
<1>4. NoFile \in Readings BY <1>3 DEF Readings, NoFile
<1>5. req[i].pc # "idle" => req[i].server \in Servers BY <1>1 DEF Renewing, Renewable
<1>6. req[i].pc # "idle" => file[req[i].server] \in Numbers BY <1>2, <1>5 DEF Readings
<1>7. req[i].rec \in Numbers /\ req[i].new \in Numbers /\ req[i].snap \in Readings
  BY <1>2 DEF RequestRecords
<1>. QED BY <1>1, <1>2, <1>3, <1>4, <1>5, <1>6, <1>7

(* A request that has ended keeps the invariant.                            *)
LEMMA EndedKeeps ==
  ASSUME AuthInvariant, NEW i \in Requests, Ended(i),
         UNCHANGED <<file, issued, valid, flow, epoch, logout, out, raced>>
  PROVE  AuthInvariant' /\ FollowsTheUser
BY EndingIsAMove, RequestMoves DEF Ended

(* A tool is called.                                                        *)
LEMMA ToolIsCalledKeeps ==
  ASSUME AuthInvariant, NEW c \in Calls, NEW s \in Servers, ToolIsCalled(c, s)
  PROVE  AuthInvariant' /\ FollowsTheUser
<1>. DEFINE r == [NoRequest EXCEPT !.pc = "lock", !.server = s, !.op = "call"]
<1>1. c \in Requests BY DEF Requests
<1>2. r \in RequestRecords /\ Renewing(r)
  BY <1>1, RequestIs DEF NoRequest, RequestRecords, Stages, Renewing
<1>3. RequestAt(c, r) BY DEF ToolIsCalled
<1>. HIDE DEF r
<1>. QED BY <1>1, <1>2, <1>3, RequestMoves DEF ToolIsCalled

(* A request takes the lock of its client.                                  *)
LEMMA RequestLocksKeeps ==
  ASSUME AuthInvariant, NEW i \in Requests, RequestLocks(i)
  PROVE  AuthInvariant' /\ FollowsTheUser
<1>1. UNCHANGED <<file, issued, valid, flow, epoch, logout, out, raced>> BY DEF RequestLocks
<1>2. CASE req[i].dead BY <1>1, <1>2, EndedKeeps DEF RequestLocks
<1>3. CASE ~req[i].dead
  <2>. DEFINE k == file[req[i].server]
  <2>. DEFINE r == [req[i] EXCEPT !.rec = k,
                  !.pc = IF k = 0 \/ k \in valid.fresh THEN "ask" ELSE "refresh"]
  <2>1. req[i].pc = "lock" /\ RequestAt(i, r) BY <1>3 DEF RequestLocks
  <2>2. k \in Numbers /\ req[i] \in RequestRecords /\ req[i].server \in Servers
    BY <2>1, RequestIs
  <2>. HIDE DEF k
  <2>3. r \in RequestRecords BY <2>2 DEF RequestRecords, Stages
  <2>4. Renewing(r) BY <2>2 DEF Renewing, RequestRecords
  <2>. HIDE DEF r
  <2>. QED BY <1>1, <2>1, <2>3, <2>4, RequestMoves
<1>. QED BY <1>2, <1>3

(* A request is answered.                                                   *)
LEMMA RequestIsAnsweredKeeps ==
  ASSUME AuthInvariant, NEW i \in Requests, RequestIsAnswered(i)
  PROVE  AuthInvariant' /\ FollowsTheUser
<1>1. UNCHANGED <<file, issued, valid, flow, epoch, logout, out, raced>> BY DEF RequestIsAnswered
<1>2. CASE req[i].op # "init" BY <1>1, <1>2, EndedKeeps DEF RequestIsAnswered
<1>3. CASE req[i].op = "init"
  <2>. DEFINE r == [req[i] EXCEPT !.op = "list", !.pc = "lock", !.rec = 0]
  <2>1. req[i].pc = "ask" /\ RequestAt(i, r) BY <1>3 DEF RequestIsAnswered
  <2>2. 0 \in Numbers /\ req[i] \in RequestRecords /\ req[i].server \in Servers
    BY <2>1, RequestIs
  <2>3. r \in RequestRecords BY <2>2 DEF RequestRecords, Stages
  <2>4. Renewing(r) BY <2>2 DEF Renewing, RequestRecords
  <2>. HIDE DEF r
  <2>. QED BY <1>1, <2>1, <2>3, <2>4, RequestMoves
<1>. QED BY <1>2, <1>3

(* A request is refused: renew once, then give up.                          *)
LEMMA RequestIsUnauthorizedKeeps ==
  ASSUME AuthInvariant, NEW i \in Requests, RequestIsUnauthorized(i)
  PROVE  AuthInvariant' /\ FollowsTheUser
<1>1. UNCHANGED <<file, issued, valid, flow, epoch, logout, out, raced>>
  BY DEF RequestIsUnauthorized
<1>. DEFINE k == file[req[i].server]
<1>. DEFINE again == req[i].op # "init" /\ ~req[i].forced /\ k # 0
<1>2. CASE ~again BY <1>1, <1>2, EndedKeeps DEF RequestIsUnauthorized
<1>3. CASE again
  <2>. DEFINE r == [req[i] EXCEPT !.pc = "frefresh", !.forced = TRUE, !.rec = k]
  <2>1. req[i].pc = "ask" /\ RequestAt(i, r) BY <1>3 DEF RequestIsUnauthorized
  <2>2. k \in Numbers /\ k # 0 /\ req[i] \in RequestRecords /\ req[i].server \in Servers
    BY <1>3, <2>1, RequestIs
  <2>. HIDE DEF k
  <2>3. r \in RequestRecords BY <2>2 DEF RequestRecords, Stages
  <2>4. Renewing(r) BY <2>2 DEF Renewing, RequestRecords
  <2>. HIDE DEF r
  <2>. QED BY <1>1, <2>1, <2>3, <2>4, RequestMoves
<1>. QED BY <1>2, <1>3

(* What is refused is not among the renewable credentials: it was dead, or  *)
(* it is turned down here, which makes nothing renewable that was not.      *)
LEMMA RefreshIsRejectedKeeps ==
  ASSUME AuthInvariant, NEW i \in Requests, RefreshIsRejected(i)
  PROVE  AuthInvariant' /\ FollowsTheUser
<1>. DEFINE r == [req[i] EXCEPT !.pc = IF @ = "refresh" THEN "drop" ELSE "fdrop", !.snap = file]
<1>1. /\ UNCHANGED <<file, issued, flow, epoch, logout, out, raced>>
      /\ req[i].pc \in {"refresh", "frefresh"}
      /\ RequestAt(i, r)
  BY DEF RefreshIsRejected
<1>2. /\ Shaped /\ file \in Readings /\ req[i] \in RequestRecords
      /\ req[i].server \in Servers /\ req[i].rec # 0 /\ req[i].rec \in Numbers
  BY <1>1, RequestIs DEF AuthInvariant, Renewing, Renewable
<1>3. valid' \in Standing /\ Renewable' \subseteq Renewable /\ req[i].rec \notin Renewable'
  <2>1. CASE req[i].rec \notin valid.live /\ valid' = valid
    BY <1>2, <2>1 DEF Shaped, Renewable
  <2>2. CASE valid' = [valid EXCEPT !.refused = @ \union {req[i].rec}]
    <3>1. req[i].rec \in Nat BY <1>2, SMT DEF Shaped, Numbers
    <3>. QED BY <1>2, <2>2, <3>1 DEF Shaped, Standing, Renewable
  <2>. QED BY <2>1, <2>2 DEF RefreshIsRejected
<1>4. r \in RequestRecords /\ r.pc \in {"drop", "fdrop"} /\ r.server = req[i].server /\ r.rec = req[i].rec
  BY <1>1, <1>2 DEF RequestRecords, Stages
<1>. HIDE DEF r
<1>5. Shaped'
  <2>1. req' \in [Requests -> RequestRecords] BY <1>1, <1>2, <1>4 DEF Shaped, RequestAt
  <2>. QED
    BY <1>1, <1>2, <1>3, <2>1
       DEF Shaped, Standing, Readings, Numbers, RequestRecords, FlowRecords, LogoutRecords
<1>6. ASSUME NEW j \in Requests PROVE Renewing(req[j])'
  <2>1. Renewing(req[j]) BY RequestIs
  <2>2. req'[j] = IF j = i THEN r ELSE req[j] BY <1>1, <1>2 DEF Shaped, RequestAt
  <2>. QED BY <1>2, <1>3, <1>4, <2>1, <2>2 DEF Renewing, Renewable
<1>7. ASSUME NEW s \in Servers PROVE Heeding(s)' BY <1>1 DEF AuthInvariant, Heeding
<1>8. Deleting' /\ LogoutHolds' BY <1>1 DEF AuthInvariant, Deleting, LogoutHolds
<1>9. FollowsTheUser BY <1>1, <1>2, SMT DEF FollowsTheUser, Shaped, Readings, Numbers
<1>. QED BY <1>5, <1>6, <1>7, <1>8, <1>9 DEF AuthInvariant

(* A reload marks the requests of the old client and makes one of its own.  *)
LEMMA OldClientIsShutKeeps ==
  ASSUME AuthInvariant, NEW i \in Requests, OldClientIsShut(i)
  PROVE  AuthInvariant' /\ FollowsTheUser
<1>1. UNCHANGED <<file, issued, valid, flow, epoch, logout, out, raced>> BY DEF OldClientIsShut
<1>2. ASSUME NEW j \in Requests
      PROVE  /\ req'[j] \in RequestRecords /\ Renewing(req'[j])
             /\ \/ req'[j] = [req[j] EXCEPT !.pc = "lock", !.op = "init"] /\ j = i
                \/ req'[j] = [req[j] EXCEPT !.dead = TRUE]
                \/ req'[j] = req[j]
  <2>1. \/ req'[j] = [req[j] EXCEPT !.pc = "lock", !.op = "init"] /\ j = i
        \/ req'[j] = [req[j] EXCEPT !.dead = TRUE]
        \/ req'[j] = req[j]
    BY DEF OldClientIsShut
  <2>2. req[j] \in RequestRecords /\ Renewing(req[j]) BY RequestIs
  <2>3. j = i => req[j].server \in Servers BY RequestIs DEF OldClientIsShut
  <2>4. req'[j] \in RequestRecords BY <2>1, <2>2 DEF RequestRecords, Stages
  <2>5. Renewing(req'[j]) BY <2>1, <2>2, <2>3 DEF Renewing, RequestRecords
  <2>. QED BY <2>1, <2>4, <2>5
<1>3. DOMAIN req' = Requests /\ req' = [j \in Requests |-> req'[j]] BY DEF OldClientIsShut
<1>4. req' \in [Requests -> RequestRecords] BY <1>2, <1>3
<1>5. Shaped'
  BY <1>1, <1>4 DEF AuthInvariant, Shaped, Standing, Readings, Numbers, RequestRecords, FlowRecords, LogoutRecords
<1>6. ASSUME NEW j \in Requests PROVE Renewing(req[j])'
  BY <1>1, <1>2 DEF Renewing, Renewable
<1>7. ASSUME NEW s \in Servers PROVE Heeding(s)'
  BY <1>1 DEF AuthInvariant, Heeding
<1>8. Deleting' /\ LogoutHolds' BY <1>1 DEF AuthInvariant, Deleting, LogoutHolds
<1>9. FollowsTheUser BY <1>1, SMT DEF FollowsTheUser, AuthInvariant, Shaped, Readings, Numbers
<1>. QED BY <1>5, <1>6, <1>7, <1>8, <1>9 DEF AuthInvariant

(* Whoever refreshes gets a credential newer than the one it had; what it   *)
(* had may be retired, which makes nothing live that was not.               *)
LEMMA RefreshSucceedsKeeps ==
  ASSUME AuthInvariant, NEW i \in Requests, RefreshSucceeds(i)
  PROVE  AuthInvariant' /\ FollowsTheUser
<1>. DEFINE r == [req[i] EXCEPT !.pc = IF @ = "refresh" THEN "put" ELSE "fput",
                           !.new = issued + 1, !.snap = file]
<1>1. /\ UNCHANGED <<file, flow, epoch, logout, out, raced>>
      /\ req[i].pc \in {"refresh", "frefresh"} /\ Issued({req[i].rec})
      /\ req' = [req EXCEPT ![i] = r]
  BY DEF RefreshSucceeds, RequestAt
<1>2. Shaped BY DEF AuthInvariant
<1>3. /\ issued' = issued + 1 /\ issued + 1 \in Numbers' /\ \A k \in Numbers : k < issued + 1
      /\ Renewable' \subseteq Renewable \union {issued + 1}
      /\ (valid \in Standing)'
  BY <1>1, <1>2, IssuedIsNew DEF Shaped
<1>4. /\ Numbers \subseteq Numbers' /\ Readings \subseteq Readings'
      /\ RequestRecords \subseteq RequestRecords' /\ FlowRecords \subseteq FlowRecords'
      /\ LogoutRecords \subseteq LogoutRecords'
  BY <1>2, <1>3, ReadingsGrow DEF Shaped
<1>5. /\ req[i] \in RequestRecords' /\ req[i].server \in Servers /\ req[i].rec # 0
      /\ req[i].rec \in Numbers /\ file \in Readings'
  BY <1>1, <1>4, RequestIs DEF Renewing, Renewable
<1>6. r \in RequestRecords' BY <1>3, <1>5 DEF RequestRecords, Stages
<1>7. r.pc \in {"put", "fput"} /\ r.server \in Servers /\ r.rec # 0 /\ r.rec < r.new
  BY <1>1, <1>3, <1>5 DEF RequestRecords
<1>. HIDE DEF r
<1>8. Shaped'
  <2>1. req' \in [Requests -> RequestRecords'] BY <1>1, <1>2, <1>4, <1>6 DEF Shaped
  <2>2. flow' \in [Servers -> FlowRecords'] BY <1>1, <1>2, <1>4 DEF Shaped
  <2>3. issued' \in Nat /\ file' \in Readings' /\ epoch' \in [Servers -> Nat]
        /\ out' \subseteq Servers /\ logout' \in LogoutRecords'
    BY <1>1, <1>2, <1>3, <1>4 DEF Shaped
  <2>. QED BY <1>3, <2>1, <2>2, <2>3 DEF Shaped
<1>9. ASSUME NEW j \in Requests PROVE Renewing(req[j])'
  <2>1. Renewing(req[j]) /\ req[j].rec \in Numbers BY RequestIs
  <2>2. req[j].rec # issued + 1 BY <1>3, <2>1, <1>2 DEF Shaped, Numbers
  <2>3. req'[j] = IF j = i THEN r ELSE req[j] BY <1>1, <1>2 DEF Shaped
  <2>. QED BY <1>3, <1>7, <2>1, <2>2, <2>3 DEF Renewing, Renewable
<1>10. ASSUME NEW s \in Servers PROVE Heeding(s)' BY <1>1 DEF AuthInvariant, Heeding
<1>11. Deleting' /\ LogoutHolds' BY <1>1 DEF AuthInvariant, Deleting, LogoutHolds
<1>12. FollowsTheUser BY <1>1, <1>2, SMT DEF FollowsTheUser, Shaped, Readings, Numbers
<1>. QED BY <1>8, <1>9, <1>10, <1>11, <1>12 DEF AuthInvariant

(* A refresh saves a newer credential over the one it refreshed, and        *)
(* brings none back: there was one.                                         *)
LEMMA RefreshIsSavedKeeps ==
  ASSUME AuthInvariant, NEW i \in Requests, RefreshIsSaved(i)
  PROVE  AuthInvariant' /\ FollowsTheUser
<1>. DEFINE s == req[i].server
<1>. DEFINE r == [req[i] EXCEPT !.pc = IF @ = "put" THEN "ask" ELSE "lock",
                               !.rec = IF req[i].pc = "put" THEN req[i].new ELSE 0,
                               !.new = 0, !.snap = NoFile]
<1>1. /\ UNCHANGED <<issued, valid, flow, epoch, logout, out>>
      /\ req[i].pc \in {"put", "fput"}
      /\ Saved(req[i].snap, s, req[i].new, req[i].rec)
      /\ req' = [req EXCEPT ![i] = r]
  BY DEF RefreshIsSaved, RequestAt
<1>2. Shaped BY DEF AuthInvariant
<1>3. /\ 0 \in Numbers /\ NoFile \in Readings /\ file \in Readings
      /\ req[i] \in RequestRecords /\ s \in Servers /\ req[i].rec # 0
      /\ req[i].rec < req[i].new
      /\ req[i].rec \in Numbers /\ req[i].new \in Numbers /\ req[i].snap \in Readings
  BY <1>1, RequestIs DEF Renewing, Renewable
<1>4. r \in RequestRecords BY <1>3 DEF RequestRecords, Stages
<1>5. Renewing(r) BY <1>1, <1>3 DEF RequestRecords, Renewing, Renewable
<1>. HIDE DEF r
<1>6. /\ file' \in Readings /\ raced \subseteq raced'
      /\ \A x \in Servers : x \notin raced' =>
              /\ x # s => file'[x] = file[x]
              /\ x = s => file[x] = req[i].rec /\ file'[x] = req[i].new
  BY <1>1, <1>3, SaveIsLocal
<1>. HIDE DEF s
<1>7. Shaped'
  BY <1>1, <1>2, <1>4, <1>6 DEF Shaped, Standing, Readings, Numbers, RequestRecords, FlowRecords, LogoutRecords
<1>8. ASSUME NEW j \in Requests PROVE Renewing(req[j])'
  <2>1. Renewing(req[j]) BY RequestIs
  <2>2. req'[j] = IF j = i THEN r ELSE req[j] BY <1>1, <1>2 DEF Shaped
  <2>. QED BY <1>1, <1>5, <2>1, <2>2 DEF Renewing, Renewable
<1>9. ASSUME NEW x \in Servers PROVE Heeding(x)' BY <1>1, <1>6 DEF AuthInvariant, Heeding
<1>10. Deleting' BY <1>1 DEF AuthInvariant, Deleting
<1>11. LogoutHolds' BY <1>1, <1>2, <1>3, <1>6 DEF AuthInvariant, LogoutHolds, Shaped
<1>12. FollowsTheUser
  <2>1. \A x \in Servers : x \notin raced' => ~(file'[x] < file[x])
    BY <1>3, <1>6, SMT DEF Readings, Numbers
  <2>. QED BY <2>1 DEF FollowsTheUser
<1>. QED BY <1>7, <1>8, <1>9, <1>10, <1>11, <1>12 DEF AuthInvariant

(* What is dropped, unless the entry was raced, is what was refused.        *)
LEMMA CredentialIsDroppedKeeps ==
  ASSUME AuthInvariant, NEW i \in Requests, CredentialIsDropped(i)
  PROVE  AuthInvariant' /\ FollowsTheUser
<1>1. /\ UNCHANGED <<issued, valid, flow, epoch, logout, out>>
      /\ req[i].pc \in {"drop", "fdrop"} /\ req' = [req EXCEPT ![i] = NoRequest]
  BY DEF CredentialIsDropped, RequestAt, Ended
<1>2. CASE req[i].snap[req[i].server] = 0
  BY <1>1, <1>2, EndedKeeps DEF CredentialIsDropped
<1>3. CASE req[i].snap[req[i].server] # 0
  <2>. DEFINE s == req[i].server
  <2>1. Saved(req[i].snap, s, 0, req[i].rec) BY <1>3 DEF CredentialIsDropped
  <2>2. Shaped BY DEF AuthInvariant
  <2>3. /\ 0 \in Numbers /\ file \in Readings
        /\ req[i] \in RequestRecords /\ s \in Servers /\ req[i].rec \notin Renewable
        /\ req[i].rec \in Numbers /\ req[i].snap \in Readings
    BY <1>1, RequestIs DEF Renewing, Renewable
  <2>4. NoRequest \in RequestRecords /\ Renewing(NoRequest) BY EndingIsAMove
  <2>5. /\ file' \in Readings /\ raced \subseteq raced'
        /\ \A x \in Servers : x \notin raced' =>
              /\ x # s => file'[x] = file[x]
              /\ x = s => file[x] = req[i].rec /\ file'[x] = 0
    BY <2>1, <2>3, SaveIsLocal
  <2>. HIDE DEF s
  <2>6. Shaped'
    BY <1>1, <2>2, <2>4, <2>5
       DEF Shaped, Standing, Readings, Numbers, RequestRecords, FlowRecords, LogoutRecords
  <2>7. ASSUME NEW j \in Requests PROVE Renewing(req[j])'
    <3>1. Renewing(req[j]) BY RequestIs
    <3>2. req'[j] = IF j = i THEN NoRequest ELSE req[j] BY <1>1, <2>2 DEF Shaped
    <3>. QED BY <1>1, <2>4, <3>1, <3>2 DEF Renewing, Renewable
  <2>8. ASSUME NEW x \in Servers PROVE Heeding(x)' BY <1>1, <2>5 DEF AuthInvariant, Heeding
  <2>9. Deleting' BY <1>1 DEF AuthInvariant, Deleting
  <2>10. LogoutHolds' BY <1>1, <2>2, <2>5 DEF AuthInvariant, LogoutHolds, Shaped
  <2>11. FollowsTheUser
    <3>1. \A x \in Servers : x \notin raced' /\ x # s => ~(file'[x] < file[x])
      BY <2>3, <2>5, SMT DEF Readings, Numbers
    <3>2. s \notin raced' => file[s] \notin Renewable BY <2>3, <2>5
    <3>. QED BY <3>1, <3>2 DEF FollowsTheUser
  <2>. QED BY <2>6, <2>7, <2>8, <2>9, <2>10, <2>11 DEF AuthInvariant
<1>. QED BY <1>2, <1>3

(* What the terminal saves is newer than anything, and what it authorizes   *)
(* is no longer logged out.                                                 *)
LEMMA TerminalAuthorizesKeeps ==
  ASSUME AuthInvariant, NEW s \in Servers, TerminalAuthorizes(s)
  PROVE  AuthInvariant' /\ FollowsTheUser
<1>1. /\ UNCHANGED <<req, flow, epoch, logout, raced>> /\ Issued({})
      /\ file' = [file EXCEPT ![s] = issued + 1] /\ out' = out \ {s}
  BY DEF TerminalAuthorizes
<1>2. Shaped BY DEF AuthInvariant
<1>3. /\ issued' = issued + 1 /\ issued + 1 \in Numbers' /\ \A k \in Numbers : k < issued + 1
      /\ Renewable' \subseteq Renewable \union {issued + 1}
      /\ (valid \in Standing)'
  BY <1>1, <1>2, IssuedIsNew DEF Shaped
<1>4. /\ Numbers \subseteq Numbers' /\ Readings \subseteq Readings'
      /\ RequestRecords \subseteq RequestRecords' /\ FlowRecords \subseteq FlowRecords'
      /\ LogoutRecords \subseteq LogoutRecords'
  BY <1>2, <1>3, ReadingsGrow DEF Shaped
<1>5. file' \in Readings' BY <1>1, <1>2, <1>3, <1>4 DEF Shaped, Readings
<1>6. Shaped'
  <2>1. req' \in [Requests -> RequestRecords'] BY <1>1, <1>2, <1>4 DEF Shaped
  <2>2. flow' \in [Servers -> FlowRecords'] BY <1>1, <1>2, <1>4 DEF Shaped
  <2>3. /\ issued' \in Nat /\ epoch' \in [Servers -> Nat] /\ logout' \in LogoutRecords'
        /\ out' \subseteq Servers
    BY <1>1, <1>2, <1>3, <1>4 DEF Shaped
  <2>. QED BY <1>3, <1>5, <2>1, <2>2, <2>3 DEF Shaped
<1>7. ASSUME NEW j \in Requests PROVE Renewing(req[j])'
  <2>1. Renewing(req[j]) /\ req[j].rec \in Numbers BY RequestIs
  <2>2. req[j].rec # issued + 1 BY <1>3, <2>1, <1>2 DEF Shaped, Numbers
  <2>. QED BY <1>1, <1>3, <2>1, <2>2 DEF Renewing, Renewable
<1>8. ASSUME NEW x \in Servers PROVE Heeding(x)' BY <1>1 DEF AuthInvariant, Heeding
<1>9. Deleting' BY <1>1 DEF AuthInvariant, Deleting
<1>10. LogoutHolds' BY <1>1, <1>2 DEF AuthInvariant, LogoutHolds, Shaped, Readings
<1>11. FollowsTheUser BY <1>1, <1>2, <1>3, SMT DEF FollowsTheUser, Shaped, Readings, Numbers
<1>. QED BY <1>6, <1>7, <1>8, <1>9, <1>10, <1>11 DEF AuthInvariant

(* A token that expires is still renewable.                                 *)
LEMMA TokenExpiresKeeps ==
  ASSUME AuthInvariant, NEW k, TokenExpires(k) \/ TokenIsRevoked(k)
  PROVE  AuthInvariant' /\ FollowsTheUser
<1>1. UNCHANGED <<file, issued, req, flow, epoch, logout, out, raced>>
  BY DEF TokenExpires, TokenIsRevoked
<1>2. Shaped BY DEF AuthInvariant
<1>3. /\ valid' \in Standing
      /\ Renewable' \subseteq Renewable
  BY <1>2 DEF Shaped, Standing, Renewable, TokenExpires, TokenIsRevoked
<1>4. Shaped'
  BY <1>1, <1>2, <1>3 DEF Shaped, Standing, Readings, Numbers, RequestRecords, FlowRecords, LogoutRecords
<1>5. ASSUME NEW j \in Requests PROVE Renewing(req[j])'
  BY <1>1, <1>3, RequestIs DEF Renewing, Renewable
<1>6. ASSUME NEW x \in Servers PROVE Heeding(x)' BY <1>1 DEF AuthInvariant, Heeding
<1>7. Deleting' /\ LogoutHolds' BY <1>1 DEF AuthInvariant, Deleting, LogoutHolds
<1>8. FollowsTheUser BY <1>1, <1>2, SMT DEF FollowsTheUser, Shaped, Readings, Numbers
<1>. QED BY <1>4, <1>5, <1>6, <1>7, <1>8 DEF AuthInvariant

(* Steps of the flows that write no credential: those of one flow, ...      *)
LEMMA FlowMoves ==
  ASSUME AuthInvariant, NEW s \in Servers, NEW f \in FlowRecords, FlowAt(s, f),
         UNCHANGED <<file, issued, valid, req, epoch, logout, raced>>,
         out' \in {out, out \ {s}},
         f.epoch = flow[s].epoch \/ f.epoch <= epoch[s],
         f.pc \in {"thread", "wait"} =>
           \/ f.epoch = flow[s].epoch /\ flow[s].pc \in {"thread", "wait"}
           \/ logout.pc = "idle" /\ s \notin out',
         f.pc # "put"
  PROVE  AuthInvariant' /\ FollowsTheUser
<1>1. Shaped BY DEF AuthInvariant
<1>2. flow' = [flow EXCEPT ![s] = f] BY DEF FlowAt
<1>3. Shaped'
  BY <1>1, <1>2 DEF Shaped, Standing, Readings, Numbers, RequestRecords, FlowRecords, LogoutRecords
<1>4. ASSUME NEW j \in Requests PROVE Renewing(req[j])' BY DEF AuthInvariant, Renewing, Renewable
<1>5. ASSUME NEW x \in Servers PROVE Heeding(x)'
  <2>1. Heeding(x) BY DEF AuthInvariant
  <2>2. flow'[x] = IF x = s THEN f ELSE flow[x] BY <1>1, <1>2 DEF Shaped
  <2>. QED BY <2>1, <2>2 DEF Heeding
<1>6. Deleting' /\ LogoutHolds' BY DEF AuthInvariant, Deleting, LogoutHolds
<1>7. FollowsTheUser BY <1>1, SMT DEF FollowsTheUser, Shaped, Readings, Numbers
<1>. QED BY <1>3, <1>4, <1>5, <1>6, <1>7 DEF AuthInvariant

(* ... and what the invariant says of it before.                            *)
LEMMA FlowIs ==
  ASSUME AuthInvariant, NEW s \in Servers
  PROVE  /\ issued \in Nat /\ 0 \in Numbers /\ NoFile \in Readings /\ file \in Readings
         /\ flow[s] \in FlowRecords /\ Heeding(s) /\ epoch[s] \in Nat
         /\ NoFlow \in FlowRecords
         /\ flow[s].epoch \in Nat /\ flow[s].new \in Numbers /\ flow[s].snap \in Readings
<1>1. Shaped /\ Heeding(s) BY DEF AuthInvariant
<1>2. issued \in Nat /\ file \in Readings /\ flow[s] \in FlowRecords /\ epoch[s] \in Nat
  BY <1>1 DEF Shaped
<1>3. 0 \in Numbers BY <1>2, SMT DEF Numbers
<1>4. NoFile \in Readings BY <1>3 DEF Readings, NoFile
<1>5. NoFlow \in FlowRecords BY <1>3, <1>4 DEF NoFlow, FlowRecords
<1>6. flow[s].epoch \in Nat /\ flow[s].new \in Numbers /\ flow[s].snap \in Readings
  BY <1>2 DEF FlowRecords
<1>. QED BY <1>1, <1>2, <1>3, <1>4, <1>5, <1>6

(* A flow takes the epoch of its start, at which no logout is under way.    *)
LEMMA AuthStartsKeeps ==
  ASSUME AuthInvariant, NEW s \in Servers, AuthStarts(s)
  PROVE  AuthInvariant' /\ FollowsTheUser
<1>. DEFINE f == [NoFlow EXCEPT !.pc = "thread", !.epoch = epoch[s]]
<1>1. /\ UNCHANGED <<file, issued, valid, req, epoch, logout, raced>>
      /\ out' = out \ {s} /\ logout.pc = "idle" /\ FlowAt(s, f)
  BY DEF AuthStarts
<1>2. f \in FlowRecords BY FlowIs DEF NoFlow, FlowRecords
<1>3. f.pc = "thread" /\ f.epoch = epoch[s] /\ f.epoch <= epoch[s]
  BY FlowIs DEF NoFlow, FlowRecords
<1>. HIDE DEF f
<1>. QED BY <1>1, <1>2, <1>3, FlowMoves

(* A flow moves without touching a credential.                              *)
LEMMA FlowStageKeeps ==
  ASSUME AuthInvariant, NEW s \in Servers,
         FlowListens(s) \/ UserAnswers(s) \/ FlowFails(s)
  PROVE  AuthInvariant' /\ FollowsTheUser
<1>1. /\ UNCHANGED <<file, issued, valid, req, epoch, logout, raced, out>>
      /\ flow[s].pc \in {"thread", "wait"}
  BY DEF FlowListens, UserAnswers, FlowFails
<1>2. PICK stage \in {"wait", "end"}, cb \in {"open", "code", "none"} :
        FlowAt(s, [flow[s] EXCEPT !.pc = stage, !.cb = cb])
  <2>1. CASE FlowListens(s) BY <2>1 DEF FlowListens
  <2>2. CASE UserAnswers(s)
    <3>1. flow[s].pc = "wait" /\ FlowAt(s, [flow[s] EXCEPT !.cb = "code"])
      BY <2>2 DEF UserAnswers
    <3>2. [flow[s] EXCEPT !.cb = "code"] = [flow[s] EXCEPT !.pc = "wait", !.cb = "code"]
      BY <3>1, FlowIs DEF FlowRecords
    <3>. QED BY <3>1, <3>2
  <2>3. CASE FlowFails(s) BY <2>3 DEF FlowFails
  <2>. QED BY <2>1, <2>2, <2>3
<1>. DEFINE f == [flow[s] EXCEPT !.pc = stage, !.cb = cb]
<1>3. f \in FlowRecords BY FlowIs DEF FlowRecords
<1>4. f.pc # "put" /\ f.epoch = flow[s].epoch BY FlowIs DEF FlowRecords
<1>5. FlowAt(s, f) BY <1>2
<1>. HIDE DEF f
<1>. QED BY <1>1, <1>3, <1>4, <1>5, FlowMoves

(* A flow ends, with its token kept or not.                                 *)
LEMMA FlowEndsKeeps ==
  ASSUME AuthInvariant, NEW s \in Servers, FlowEnds(s)
  PROVE  AuthInvariant' /\ FollowsTheUser
<1>1. /\ UNCHANGED <<file, issued, valid, req, epoch, logout, raced, out>>
      /\ FlowAt(s, NoFlow)
  BY DEF FlowEnds
<1>2. NoFlow.pc = "idle" /\ NoFlow.epoch <= epoch[s] BY FlowIs DEF NoFlow
<1>. QED BY <1>1, <1>2, FlowIs, FlowMoves

(* A cancel changes what the flow's waiter will see, and no more.           *)
LEMMA CancelledIs ==
  ASSUME AuthInvariant, NEW s \in Servers
  PROVE  /\ FlowCancelled(s) \in [Servers -> FlowRecords]
         /\ \A x \in Servers : /\ FlowCancelled(s)[x].pc = flow[x].pc
                               /\ FlowCancelled(s)[x].epoch = flow[x].epoch
                               /\ FlowCancelled(s)[x].new = flow[x].new
                               /\ FlowCancelled(s)[x].snap = flow[x].snap
<1>1. flow \in [Servers -> FlowRecords] BY DEF AuthInvariant, Shaped
<1>2. CASE s \notin listed BY <1>1, <1>2 DEF FlowCancelled
<1>3. CASE s \in listed
  <2>. DEFINE f == [flow[s] EXCEPT !.cb = IF flow[s].cb = "open" THEN "cancelled" ELSE flow[s].cb]
  <2>1. FlowCancelled(s) = [flow EXCEPT ![s] = f] BY <1>1, <1>3 DEF FlowCancelled
  <2>2. f \in FlowRecords BY <1>1 DEF FlowRecords
  <2>3. f.pc = flow[s].pc /\ f.epoch = flow[s].epoch /\ f.new = flow[s].new /\ f.snap = flow[s].snap
    BY <1>1 DEF FlowRecords
  <2>. HIDE DEF f
  <2>. QED BY <1>1, <2>1, <2>2, <2>3
<1>. QED BY <1>2, <1>3

(* The user cancels a flow.                                                 *)
LEMMA AuthIsCancelledKeeps ==
  ASSUME AuthInvariant, NEW s \in Servers, AuthIsCancelled(s)
  PROVE  AuthInvariant' /\ FollowsTheUser
<1>1. /\ UNCHANGED <<file, issued, valid, req, epoch, logout, out, raced>>
      /\ flow' = FlowCancelled(s)
  BY DEF AuthIsCancelled
<1>2. Shaped BY DEF AuthInvariant
<1>3. Shaped'
  BY <1>1, <1>2, CancelledIs DEF Shaped, Standing, Readings, Numbers, RequestRecords, FlowRecords, LogoutRecords
<1>4. ASSUME NEW j \in Requests PROVE Renewing(req[j])' BY <1>1 DEF AuthInvariant, Renewing, Renewable
<1>5. ASSUME NEW x \in Servers PROVE Heeding(x)'
  <2>1. Heeding(x) BY DEF AuthInvariant
  <2>2. /\ flow'[x].pc = flow[x].pc /\ flow'[x].epoch = flow[x].epoch
        /\ flow'[x].new = flow[x].new /\ flow'[x].snap = flow[x].snap
    BY <1>1, CancelledIs
  <2>. QED BY <1>1, <2>1, <2>2 DEF Heeding
<1>6. Deleting' /\ LogoutHolds' BY <1>1 DEF AuthInvariant, Deleting, LogoutHolds
<1>7. FollowsTheUser BY <1>1, <1>2, SMT DEF FollowsTheUser, Shaped, Readings, Numbers
<1>. QED BY <1>3, <1>4, <1>5, <1>6, <1>7 DEF AuthInvariant

(* The exchange looks at the epoch: a flow that a logout has overtaken ends, *)
(* one that has not reads a file from which its server was not logged out.  *)
LEMMA FlowExchangesKeeps ==
  ASSUME AuthInvariant, NEW s \in Servers, FlowExchanges(s)
  PROVE  AuthInvariant' /\ FollowsTheUser
<1>. DEFINE f == IF epoch[s] = flow[s].epoch
                 THEN [flow[s] EXCEPT !.pc = "put", !.cb = "none", !.new = issued + 1,
                                      !.snap = file]
                 ELSE [flow[s] EXCEPT !.pc = "end", !.cb = "none"]
<1>1. /\ UNCHANGED <<file, req, epoch, logout, out, raced>> /\ Issued({})
      /\ flow[s].pc = "wait" /\ flow' = [flow EXCEPT ![s] = f]
  BY DEF FlowExchanges, FlowAt
<1>2. Shaped BY DEF AuthInvariant
<1>3. /\ issued' = issued + 1 /\ issued + 1 \in Numbers' /\ \A k \in Numbers : k < issued + 1
      /\ Renewable' \subseteq Renewable \union {issued + 1}
      /\ (valid \in Standing)'
  BY <1>1, <1>2, IssuedIsNew DEF Shaped
<1>4. /\ Numbers \subseteq Numbers' /\ Readings \subseteq Readings'
      /\ RequestRecords \subseteq RequestRecords' /\ FlowRecords \subseteq FlowRecords'
      /\ LogoutRecords \subseteq LogoutRecords'
  BY <1>2, <1>3, ReadingsGrow DEF Shaped
<1>5. flow[s] \in FlowRecords' /\ file \in Readings' /\ file[s] \in Numbers
  BY <1>4, FlowIs DEF Readings
<1>6. f \in FlowRecords' BY <1>3, <1>5 DEF FlowRecords
<1>7. /\ f.epoch = flow[s].epoch /\ f.pc \in {"put", "end"}
      /\ f.pc = "put" => epoch[s] = flow[s].epoch /\ f.new = issued + 1 /\ f.snap = file
  BY <1>5 DEF FlowRecords
<1>. HIDE DEF f
<1>8. Shaped'
  <2>1. req' \in [Requests -> RequestRecords'] BY <1>1, <1>2, <1>4 DEF Shaped
  <2>2. flow' \in [Servers -> FlowRecords'] BY <1>1, <1>2, <1>4, <1>6 DEF Shaped
  <2>3. /\ issued' \in Nat /\ file' \in Readings' /\ epoch' \in [Servers -> Nat]
        /\ out' \subseteq Servers /\ logout' \in LogoutRecords'
    BY <1>1, <1>2, <1>3, <1>4 DEF Shaped
  <2>. QED BY <1>3, <2>1, <2>2, <2>3 DEF Shaped
<1>9. ASSUME NEW j \in Requests PROVE Renewing(req[j])'
  <2>1. Renewing(req[j]) /\ req[j].rec \in Numbers BY RequestIs
  <2>2. req[j].rec # issued + 1 BY <1>3, <2>1, <1>2 DEF Shaped, Numbers
  <2>. QED BY <1>1, <1>3, <2>1, <2>2 DEF Renewing, Renewable
<1>10. ASSUME NEW x \in Servers PROVE Heeding(x)'
  <2>1. Heeding(x) /\ Heeding(s) BY DEF AuthInvariant
  <2>2. flow'[x] = IF x = s THEN f ELSE flow[x] BY <1>1, <1>2 DEF Shaped
  <2>. QED BY <1>1, <1>3, <1>5, <1>7, <2>1, <2>2 DEF Heeding
<1>11. Deleting' /\ LogoutHolds' BY <1>1 DEF AuthInvariant, Deleting, LogoutHolds
<1>12. FollowsTheUser BY <1>1, <1>2, SMT DEF FollowsTheUser, Shaped, Readings, Numbers
<1>. QED BY <1>8, <1>9, <1>10, <1>11, <1>12 DEF AuthInvariant

(* What a flow stores is newer than what it read.                           *)
LEMMA FlowStoresKeeps ==
  ASSUME AuthInvariant, NEW s \in Servers, FlowStores(s)
  PROVE  AuthInvariant' /\ FollowsTheUser
<1>. DEFINE f == [NoFlow EXCEPT !.pc = "reload"]
<1>. DEFINE r == [NoRequest EXCEPT !.pc = "shut", !.server = s]
<1>1. /\ UNCHANGED <<issued, valid, epoch, logout, out>>
      /\ flow[s].pc = "put"
      /\ Saved(flow[s].snap, s, flow[s].new, flow[s].snap[s])
      /\ flow' = [flow EXCEPT ![s] = f] /\ req' = [req EXCEPT ![s] = r]
  BY DEF FlowStores, FlowAt, RequestAt
<1>2. Shaped /\ s \in Requests BY DEF AuthInvariant, Requests, Reloaders
<1>3. /\ file \in Readings /\ flow[s].new \in Numbers /\ flow[s].snap \in Readings
      /\ flow[s].snap[s] < flow[s].new /\ s \notin out \ raced
  BY <1>1, FlowIs DEF Heeding
<1>4. f \in FlowRecords /\ f.pc = "reload" /\ f.epoch = 0 BY FlowIs DEF NoFlow, FlowRecords
<1>5. r \in RequestRecords /\ Renewing(r)
  BY <1>2, RequestIs DEF NoRequest, RequestRecords, Stages, Renewing
<1>. HIDE DEF f, r
<1>6. /\ file' \in Readings /\ raced \subseteq raced'
      /\ \A x \in Servers : x \notin raced' =>
              /\ x # s => file'[x] = file[x]
              /\ x = s => file[x] = flow[s].snap[s] /\ file'[x] = flow[s].new
  BY <1>1, <1>3, SaveIsLocal
<1>7. Shaped'
  BY <1>1, <1>2, <1>4, <1>5, <1>6
     DEF Shaped, Standing, Readings, Numbers, RequestRecords, FlowRecords, LogoutRecords
<1>8. ASSUME NEW j \in Requests PROVE Renewing(req[j])'
  <2>1. Renewing(req[j]) BY RequestIs
  <2>2. req'[j] = IF j = s THEN r ELSE req[j] BY <1>1, <1>2 DEF Shaped
  <2>. QED BY <1>1, <1>5, <2>1, <2>2 DEF Renewing, Renewable
<1>9. ASSUME NEW x \in Servers PROVE Heeding(x)'
  <2>1. Heeding(x) /\ epoch[s] \in Nat BY FlowIs
  <2>2. flow'[x] = IF x = s THEN f ELSE flow[x] BY <1>1, <1>2 DEF Shaped
  <2>. QED BY <1>1, <1>4, <1>6, <2>1, <2>2 DEF Heeding
<1>10. Deleting' BY <1>1 DEF AuthInvariant, Deleting
<1>11. LogoutHolds' BY <1>1, <1>2, <1>3, <1>6 DEF AuthInvariant, LogoutHolds, Shaped
<1>12. FollowsTheUser
  <2>1. \A x \in Servers : x \notin raced' => ~(file'[x] < file[x])
    BY <1>3, <1>6, SMT DEF Readings, Numbers
  <2>. QED BY <2>1 DEF FollowsTheUser
<1>. QED BY <1>7, <1>8, <1>9, <1>10, <1>11, <1>12 DEF AuthInvariant

(* With its first step a logout has overtaken every flow of its server.     *)
LEMMA LogoutBumpsKeeps ==
  ASSUME AuthInvariant, NEW s \in Servers, LogoutBumps(s)
  PROVE  AuthInvariant' /\ FollowsTheUser
<1>1. /\ UNCHANGED <<file, issued, valid, req, out, raced>>
      /\ epoch' = [epoch EXCEPT ![s] = @ + 1]
      /\ flow' = FlowCancelled(s) /\ logout' = [server |-> s, pc |-> "drop", snap |-> file]
      /\ logout.pc = "idle"
  BY DEF LogoutBumps
<1>2. Shaped BY DEF AuthInvariant
<1>3. epoch' \in [Servers -> Nat] BY <1>1, <1>2 DEF Shaped
<1>4. logout' \in LogoutRecords BY <1>1, <1>2 DEF Shaped, LogoutRecords
<1>5. Shaped'
  BY <1>1, <1>2, <1>3, <1>4, CancelledIs
     DEF Shaped, Standing, Readings, Numbers, RequestRecords, FlowRecords, LogoutRecords
<1>6. ASSUME NEW j \in Requests PROVE Renewing(req[j])' BY <1>1 DEF AuthInvariant, Renewing, Renewable
<1>7. ASSUME NEW x \in Servers PROVE Heeding(x)'
  <2>1. Heeding(x) /\ flow[x].epoch \in Nat /\ epoch[x] \in Nat BY FlowIs
  <2>2. /\ flow'[x].pc = flow[x].pc /\ flow'[x].epoch = flow[x].epoch
        /\ flow'[x].new = flow[x].new /\ flow'[x].snap = flow[x].snap
    BY <1>1, CancelledIs
  <2>3. epoch'[x] = IF x = s THEN epoch[x] + 1 ELSE epoch[x] BY <1>1, <1>2 DEF Shaped
  <2>4. logout'.server = s BY <1>1
  <2>5. flow'[x].epoch <= epoch'[x] BY <2>1, <2>2, <2>3 DEF Heeding
  <2>6. flow'[x].epoch = epoch'[x] => x # s /\ flow[x].epoch = epoch[x]
    BY <2>1, <2>2, <2>3 DEF Heeding
  <2>. QED BY <1>1, <2>1, <2>2, <2>4, <2>5, <2>6 DEF Heeding
<1>8. Deleting' /\ LogoutHolds' BY <1>1 DEF AuthInvariant, Deleting, LogoutHolds
<1>9. FollowsTheUser BY <1>1, <1>2, SMT DEF FollowsTheUser, Shaped, Readings, Numbers
<1>. QED BY <1>5, <1>6, <1>7, <1>8, <1>9 DEF AuthInvariant

(* The delete: what is logged out is gone, or somebody wrote behind the     *)
(* reading; and whoever is past the check of the epoch has raced it.        *)
LEMMA LogoutDeletesKeeps ==
  ASSUME AuthInvariant, LogoutDeletes
  PROVE  AuthInvariant' /\ FollowsTheUser
<1>. DEFINE s == logout.server
<1>. DEFINE r == [NoRequest EXCEPT !.pc = "shut", !.server = s]
<1>. DEFINE overtaken == IF logout.snap[s] = 0
                           THEN (IF file[s] = 0 THEN {} ELSE {s})
                           ELSE {x \in Servers \ {s} : logout.snap[x] # file[x]}
<1>1. /\ UNCHANGED <<issued, valid, flow, epoch>>
      /\ logout.pc = "drop"
      /\ file' = IF logout.snap[s] = 0 THEN file ELSE [logout.snap EXCEPT ![s] = 0]
      /\ out' = out \union {s}
      /\ raced' = raced \union (IF WriterPastCheck(s) THEN {s} ELSE {}) \union overtaken
      /\ req' = [req EXCEPT !["dispatch"] = r]
      /\ logout' = [NoLogout EXCEPT !.pc = "reload"]
  BY DEF LogoutDeletes, RequestAt
<1>2. Shaped /\ "dispatch" \in Requests BY DEF AuthInvariant, Requests, Reloaders
<1>3. s \in Servers BY <1>1 DEF AuthInvariant, Deleting
<1>4. /\ issued \in Nat /\ 0 \in Numbers /\ NoFile \in Readings /\ file \in Readings
      /\ logout.snap \in Readings
  BY <1>2, RequestIs DEF Shaped, LogoutRecords
<1>5. r \in RequestRecords /\ Renewing(r)
  BY <1>2, <1>3, RequestIs DEF NoRequest, RequestRecords, Stages, Renewing
<1>6. logout' \in LogoutRecords /\ logout'.pc = "reload"
  BY <1>1, <1>4 DEF NoLogout, LogoutRecords
<1>7. file' \in Readings BY <1>1, <1>3, <1>4 DEF Readings
<1>8. raced \subseteq raced' /\ (WriterPastCheck(s) => s \in raced') /\ overtaken \subseteq raced'
  BY <1>1
<1>9. \A x \in Servers : x \notin raced' =>
        (x # s => file'[x] = file[x]) /\ (x = s => file'[x] = 0)
  BY <1>1, <1>3, <1>4, <1>8 DEF Readings
<1>. HIDE DEF r, overtaken, s
<1>10. Shaped'
  BY <1>1, <1>2, <1>3, <1>5, <1>6, <1>7
     DEF Shaped, Standing, Readings, Numbers, RequestRecords, FlowRecords, LogoutRecords
<1>11. ASSUME NEW j \in Requests PROVE Renewing(req[j])'
  <2>1. Renewing(req[j]) BY RequestIs
  <2>2. req'[j] = IF j = "dispatch" THEN r ELSE req[j] BY <1>1, <1>2 DEF Shaped
  <2>. QED BY <1>1, <1>5, <2>1, <2>2 DEF Renewing, Renewable
<1>12. ASSUME NEW x \in Servers PROVE Heeding(x)'
  <2>1. Heeding(x) BY DEF AuthInvariant
  <2>2. flow[x].pc \in {"thread", "wait"} /\ flow[x].epoch = epoch[x] => x # s
    BY <1>1, <2>1 DEF Heeding, s
  <2>3. flow[x].pc = "put" /\ x = s => x \in raced' BY <1>8 DEF WriterPastCheck
  <2>. QED BY <1>1, <1>6, <1>8, <2>1, <2>2, <2>3 DEF Heeding
<1>13. Deleting' BY <1>6 DEF Deleting
<1>14. LogoutHolds' BY <1>1, <1>2, <1>3, <1>8, <1>9 DEF AuthInvariant, LogoutHolds, Shaped
<1>15. FollowsTheUser
  <2>1. \A x \in Servers : x \notin raced' /\ x # s => ~(file'[x] < file[x])
    BY <1>4, <1>9, SMT DEF Readings, Numbers
  <2>. QED BY <1>1, <2>1 DEF FollowsTheUser
<1>. QED BY <1>10, <1>11, <1>12, <1>13, <1>14, <1>15 DEF AuthInvariant

(* A logout returns.                                                        *)
LEMMA LogoutReturnsKeeps ==
  ASSUME AuthInvariant, LogoutReturns
  PROVE  AuthInvariant' /\ FollowsTheUser
<1>1. /\ UNCHANGED <<file, issued, valid, req, flow, epoch, out, raced>>
      /\ logout' = NoLogout
  BY DEF LogoutReturns
<1>2. Shaped BY DEF AuthInvariant
<1>3. NoLogout \in LogoutRecords BY <1>1, <1>2, ReadingsGrow DEF Shaped
<1>4. Shaped'
  BY <1>1, <1>2, <1>3 DEF Shaped, Standing, Readings, Numbers, RequestRecords, FlowRecords, LogoutRecords
<1>5. ASSUME NEW j \in Requests PROVE Renewing(req[j])' BY <1>1 DEF AuthInvariant, Renewing, Renewable
<1>6. ASSUME NEW x \in Servers PROVE Heeding(x)'
  BY <1>1 DEF AuthInvariant, Heeding, NoLogout
<1>7. Deleting' /\ LogoutHolds' BY <1>1 DEF AuthInvariant, Deleting, LogoutHolds, NoLogout
<1>8. FollowsTheUser BY <1>1, <1>2, SMT DEF FollowsTheUser, Shaped, Readings, Numbers
<1>. QED BY <1>4, <1>5, <1>6, <1>7, <1>8 DEF AuthInvariant

(* Every step keeps the invariant and follows the user.                     *)
LEMMA AuthStepKeeps ==
  ASSUME AuthInvariant, [AuthNext]_authVars
  PROVE  AuthInvariant' /\ (UNCHANGED authVars \/ FollowsTheUser)
<1>1. ASSUME NEW i \in Requests, RequestStep(i) \/ RequestIsAnswered(i) \/ RefreshSucceeds(i)
      PROVE  AuthInvariant' /\ FollowsTheUser
  <2>1. CASE RequestLocks(i) BY <2>1, RequestLocksKeeps
  <2>2. CASE RequestIsUnauthorized(i) BY <2>2, RequestIsUnauthorizedKeeps
  <2>3. CASE RequestFails(i) BY <2>3, EndedKeeps DEF RequestFails
  <2>4. CASE RefreshIsRejected(i) BY <2>4, RefreshIsRejectedKeeps
  <2>5. CASE RefreshIsTransient(i) BY <2>5, EndedKeeps DEF RefreshIsTransient
  <2>6. CASE RefreshIsSaved(i) BY <2>6, RefreshIsSavedKeeps
  <2>7. CASE CredentialIsDropped(i) BY <2>7, CredentialIsDroppedKeeps
  <2>8. CASE OldClientIsShut(i) BY <2>8, OldClientIsShutKeeps
  <2>9. CASE RequestIsAnswered(i) BY <2>9, RequestIsAnsweredKeeps
  <2>10. CASE RefreshSucceeds(i) BY <2>10, RefreshSucceedsKeeps
  <2>. QED
    BY <1>1, <2>1, <2>2, <2>3, <2>4, <2>5, <2>6, <2>7, <2>8, <2>9, <2>10 DEF RequestStep
<1>2. ASSUME NEW c \in Calls, NEW s \in Servers, ToolIsCalled(c, s) PROVE AuthInvariant' /\ FollowsTheUser
  BY <1>2, ToolIsCalledKeeps
<1>3. ASSUME NEW s \in Servers,
             \/ AuthStarts(s) \/ FlowStep(s) \/ UserAnswers(s) \/ AuthIsCancelled(s)
             \/ LogoutBumps(s) \/ TerminalAuthorizes(s)
      PROVE  AuthInvariant' /\ FollowsTheUser
  <2>1. CASE AuthStarts(s) BY <2>1, AuthStartsKeeps
  <2>2. CASE FlowListens(s) \/ FlowFails(s) \/ UserAnswers(s) BY <2>2, FlowStageKeeps
  <2>3. CASE FlowExchanges(s) BY <2>3, FlowExchangesKeeps
  <2>4. CASE FlowStores(s) BY <2>4, FlowStoresKeeps
  <2>5. CASE FlowEnds(s) BY <2>5, FlowEndsKeeps
  <2>6. CASE AuthIsCancelled(s) BY <2>6, AuthIsCancelledKeeps
  <2>7. CASE LogoutBumps(s) BY <2>7, LogoutBumpsKeeps
  <2>8. CASE TerminalAuthorizes(s) BY <2>8, TerminalAuthorizesKeeps
  <2>. QED BY <1>3, <2>1, <2>2, <2>3, <2>4, <2>5, <2>6, <2>7, <2>8 DEF FlowStep
<1>4. CASE LogoutDeletes BY <1>4, LogoutDeletesKeeps
<1>5. CASE LogoutReturns BY <1>5, LogoutReturnsKeeps
<1>6. ASSUME NEW k \in 1..issued, TokenExpires(k) \/ TokenIsRevoked(k)
      PROVE  AuthInvariant' /\ FollowsTheUser
  BY <1>6, TokenExpiresKeeps
<1>7. CASE UNCHANGED authVars
  <2>1. UNCHANGED <<file, issued, valid, req, flow, epoch, logout, out, raced>>
    BY <1>7 DEF authVars
  <2>2. Shaped'
    BY <2>1 DEF AuthInvariant, Shaped, Standing, Readings, Numbers, RequestRecords, FlowRecords, LogoutRecords
  <2>3. ASSUME NEW j \in Requests PROVE Renewing(req[j])' BY <2>1 DEF AuthInvariant, Renewing, Renewable
  <2>4. ASSUME NEW x \in Servers PROVE Heeding(x)' BY <2>1 DEF AuthInvariant, Heeding
  <2>5. Deleting' /\ LogoutHolds' BY <2>1 DEF AuthInvariant, Deleting, LogoutHolds
  <2>. QED BY <1>7, <2>2, <2>3, <2>4, <2>5 DEF AuthInvariant
<1>. QED BY <1>1, <1>2, <1>3, <1>4, <1>5, <1>6, <1>7 DEF AuthNext

(* In the beginning nobody is under way, and nothing is logged out.         *)
LEMMA AuthInitHolds ==
  ASSUME AuthInit
  PROVE  AuthInvariant
<1>1. issued = Cardinality(Servers) BY DEF AuthInit
<1>2. issued \in Nat BY <1>1, ServersAreFinite, FS_CardinalityType
<1>3. \E f \in [Servers -> 1..issued] : \A s, t \in Servers : f[s] = f[t] => s = t
  <2>1. PICK b : b \in Bijection(1..Cardinality(Servers), Servers)
    BY ServersAreFinite, FS_CardinalityType DEF ExistsBijection
  <2>2. /\ b \in [1..issued -> Servers]
        /\ \A s \in Servers : \E k \in 1..issued : b[k] = s
    BY <1>1, <2>1 DEF Bijection, Surjection, Injection
  <2>. DEFINE f == [s \in Servers |-> CHOOSE k \in 1..issued : b[k] = s]
  <2>3. \A s \in Servers : f[s] \in 1..issued /\ b[f[s]] = s BY <2>2
  <2>4. f \in [Servers -> 1..issued] BY <2>3
  <2>. HIDE DEF f
  <2>. QED BY <2>3, <2>4
<1>4. file \in [Servers -> 1..issued] BY <1>3 DEF AuthInit
<1>5. file \in Readings BY <1>2, <1>4, SMT DEF Readings, Numbers
<1>6. /\ NoRequest \in RequestRecords /\ NoFlow \in FlowRecords /\ NoLogout \in LogoutRecords
  <2>1. 0 \in Numbers BY <1>2, SMT DEF Numbers
  <2>2. NoFile \in Readings BY <2>1 DEF Readings, NoFile
  <2>. QED BY <2>1, <2>2
    DEF NoRequest, RequestRecords, Stages, NoFlow, FlowRecords, NoLogout, LogoutRecords
<1>7. valid \in Standing
  <2>1. PICK fresh \in {{}, {1}} :
          valid = [fresh |-> fresh, accepted |-> fresh, live |-> 1..issued, refused |-> {}]
    BY DEF AuthInit
  <2>2. 1..issued \subseteq Numbers /\ fresh \subseteq Nat BY <1>2, SMT DEF Numbers
  <2>. QED BY <2>1, <2>2 DEF Standing
<1>8. /\ req = [i \in Requests |-> NoRequest] /\ flow = [s \in Servers |-> NoFlow]
      /\ out = {} /\ epoch = [s \in Servers |-> 0] /\ logout = NoLogout
  BY DEF AuthInit
<1>9. Shaped BY <1>2, <1>5, <1>6, <1>7, <1>8 DEF Shaped
<1>10. \A i \in Requests : Renewing(req[i]) BY <1>8 DEF NoRequest, Renewing
<1>11. \A s \in Servers : Heeding(s)
  <2>1. NoFlow.pc = "idle" /\ NoFlow.epoch = 0 BY DEF NoFlow
  <2>. QED BY <1>8, <2>1 DEF Heeding
<1>12. Deleting /\ LogoutHolds BY <1>8 DEF Deleting, LogoutHolds, NoLogout
<1>. QED BY <1>9, <1>10, <1>11, <1>12 DEF AuthInvariant

(* McpAuth, in any environment: what runs on the credentials is where the   *)
(* invariant says, and in particular a logout holds.                        *)
THEOREM CredentialsAreAccountedFor == AuthSpec => []AuthInvariant
<1>1. AuthInit => AuthInvariant BY AuthInitHolds
<1>2. AuthInvariant /\ [AuthNext]_authVars => AuthInvariant' BY AuthStepKeeps
<1>. QED BY <1>1, <1>2, PTL DEF AuthSpec

(* Action property.  The credential file follows the user: a logout stays   *)
(* one (_run_mcp_auth's look at the epoch), and what can still be renewed   *)
(* is neither dropped nor replaced by something older but by a logout.      *)
THEOREM CredentialsFollowTheUser == AuthSpec => CalmCredentialsFollowTheUser
<1>1. AuthInvariant /\ [AuthNext]_authVars /\ AuthInvariant' =>
        [/\ LogoutHolds /\ LogoutHolds'
         /\ \A s \in Servers :
              file[s] \in Renewable /\ file'[s] < file[s] => s \in out' \union raced']_authVars
  BY AuthStepKeeps DEF AuthInvariant, FollowsTheUser
<1>. QED
  BY <1>1, CredentialsAreAccountedFor, PTL DEF AuthSpec, CalmCredentialsFollowTheUser
=============================================================================
