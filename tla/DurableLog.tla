----------------------------- MODULE DurableLog ------------------------------
(***************************************************************************)
(* What a session's storage promises: one history, numbered without gaps,  *)
(* that grows by the events the agent commits, loses events only when the  *)
(* user undoes whole turns, and, when the process dies with a turn open,   *)
(* gains the closers of that turn and nothing else.                        *)
(***************************************************************************)
EXTENDS SessionEvents

VARIABLE history

Init == history = <<>>

Commit ==
  history' \in {Append(history, EventOf(Len(history), kind, call)) :
                 kind \in Kind, call \in Call \cup {NoCall}}

\* All the closers, or the first of them when the repair is itself cut short.
Interrupt ==
  LET closers == Closers(history)
  IN  history' \in {history \o SubSeq(closers, 1, n) : n \in DOMAIN closers}

UndoTurnsFrom(i) == SubSeq(history, 1, i - 1)

Undo ==
  history' \in {UndoTurnsFrom(i) : i \in {j \in DOMAIN history : history[j].kind = "start"}}

Next == Commit \/ Interrupt \/ Undo

Spec == Init /\ [][Next]_history
==============================================================================
