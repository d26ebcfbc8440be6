---------------------------- MODULE SessionEvents ----------------------------
(***************************************************************************)
(* The events of a session log (src/cluxmate/core/session_log.py) as far   *)
(* as storage tells them apart, and the crash repair that closes a turn    *)
(* left open (src/cluxmate/core/session_log_store.py).                     *)
(***************************************************************************)
EXTENDS Integers, Sequences, SequencesExt

CONSTANTS Call,    \* tool call ids
          NoCall   \* what an event that names no call carries

ASSUME EventAssumption == NoCall \notin Call

\* start, end: turn/start, turn/end; call, result: tool/call, tool/result;
\* note: any other type.  odd: a note whose text holds a Unicode line
\* separator; bad: a line that is not JSON.
Kind == {"start", "end", "call", "result", "note", "odd", "bad"}

Event == [seq : Nat, kind : Kind, call : Call \cup {NoCall}, synthetic : BOOLEAN]

EventOf(seq, kind, call) ==
  [seq |-> seq, kind |-> kind, call |-> call, synthetic |-> FALSE]

Closer(seq, kind, call) ==
  [seq |-> seq, kind |-> kind, call |-> call, synthetic |-> TRUE]

\* The events at some positions, in their order.
Nth(S, k) == CHOOSE i \in S : Cardinality({j \in S : j <= i}) = k

Chosen(events, S) == [k \in 1 .. Cardinality(S) |-> events[Nth(S, k)]]

\* from_events adopts exactly the lists numbered 0, 1, 2, ...
Contiguous(events) == \A i \in DOMAIN events : events[i].seq = i - 1

TurnOpen(events) ==
  \E i \in DOMAIN events :
    /\ events[i].kind = "start"
    /\ \A j \in i + 1 .. Len(events) : events[j].kind # "end"

\* The positions of the calls still waiting for a result.
OpenCalls(events) ==
  {i \in DOMAIN events :
     /\ events[i].kind = "call"
     /\ \A j \in i + 1 .. Len(events) :
          /\ events[j].kind # "end"
          /\ events[j].kind = "result" => events[j].call # events[i].call}

\* _open_turn_closers: a result for every open call, then the turn's end.
ClosersWithoutResults(events) ==
  IF ~TurnOpen(events) THEN <<>>
  ELSE <<Closer(Last(events).seq + 1, "end", NoCall)>>

Closers(events) ==
  IF ~TurnOpen(events) THEN <<>>
  ELSE LET open == OpenCalls(events)
           n == Cardinality(open)
           next == Last(events).seq + 1
       IN  [k \in 1 .. n + 1 |->
              IF k <= n
              THEN Closer(next + k - 1, "result", events[Nth(open, k)].call)
              ELSE Closer(next + n, "end", NoCall)]
==============================================================================
