----------------------------- MODULE ContextCuts -----------------------------
(***************************************************************************)
(* Where a compaction may cut a conversation (src/cluxmate/core/           *)
(* context.py).  A conversation is the list of messages after the system   *)
(* prompt, so position i here is index i of the code's message list.       *)
(***************************************************************************)
EXTENDS Integers, Sequences, FiniteSets, SequencesExt

\* env: an injection in front of the prompt (memory, skill, mode, a hook's
\* feedback on the prompt); marker: the note that the last turn was
\* interrupted; recall: recalled memories; note: what a hook, the completion
\* audit or the loop guard says; reply: an assistant message without calls;
\* calls: one with n calls; result, pruned: the answer to the n-th of them;
\* summary: what stands for a compacted region.
UserKind == {"env", "marker", "human", "recall", "note", "summary"}
EnvKind  == {"env", "marker", "recall", "summary"}
Kind     == UserKind \cup {"reply", "calls", "result", "pruned"}

Message == [kind : Kind, turn : Nat, step : Nat, n : Nat]

IsResult(m) == m.kind \in {"result", "pruned"}

Delta(m) == IF m.kind = "calls" THEN m.n ELSE IF IsResult(m) THEN -1 ELSE 0

\* BalancePrefix(ms)[i]: the calls still unanswered right before message i.
BalancePrefix(ms) ==
  LET balance[i \in 1 .. Len(ms) + 1] ==
        IF i = 1 THEN 0 ELSE balance[i - 1] + Delta(ms[i - 1])
  IN  balance

SnapForward(balance, i) ==
  LET cuts == {j \in DOMAIN balance : j >= i /\ balance[j] = 0}
  IN  IF cuts = {} THEN i ELSE Min(cuts)

\* The first position after the leading injections and the first human
\* message.  The sources come from the surface, by position.
HeadEndBeforeAnchor(ms, surface) ==
  Min({i \in DOMAIN ms : \/ ms[i].kind \notin UserKind
                         \/ i > Len(surface)
                         \/ surface[i].kind \notin EnvKind} \cup {Len(ms) + 1})

HeadEnd(ms, surface) ==
  Min({i \in DOMAIN ms : ms[i].kind \notin UserKind}
      \cup {i + 1 : i \in {j \in DOMAIN ms : \/ j > Len(surface)
                                             \/ surface[j].kind \notin EnvKind}}
      \cup {Len(ms) + 1})

\* Where the kept tail may begin, depending on how large the messages are.
TailTargets(ms, head) == IF head > Len(ms) THEN {head} ELSE head .. Len(ms)

\* The nearest balanced cut, before the target if that leaves something to cut.
PairingCut(head, target, balance) ==
  LET cuts == {i \in DOMAIN balance : balance[i] = 0}
      back == {i \in cuts : head < i /\ i <= target}
      fwd  == {i \in cuts : i >= target} \cup {Max(DOMAIN balance)}
  IN  IF balance[target] = 0 THEN target
      ELSE IF back # {} THEN Max(back) ELSE Min(fwd)

\* Every region the summarizer may be given; empty ones are not compacted.
Regions(ms, surface) ==
  LET balance == BalancePrefix(ms)
      head    == SnapForward(balance, HeadEnd(ms, surface))
  IN  {r \in {[from |-> head, to |-> PairingCut(head, t, balance) - 1] :
                t \in TailTargets(ms, head)} : r.from <= r.to}

\* A region replaced by one message, as ReplaceOp does on the surface.
Replaced(ms, from, to, m) ==
  SubSeq(ms, 1, from - 1) \o <<m>> \o SubSeq(ms, to + 1, Len(ms))

(***************************************************************************)
(* What a provider accepts: right behind the calls of a message come their *)
(* answers, one each and in the order of the calls, and no answer stands   *)
(* anywhere else.                                                          *)
(***************************************************************************)
Answers(m, calls, n) ==
  IsResult(m) /\ m.turn = calls.turn /\ m.step = calls.step /\ m.n = n

IsTranscript(ms) ==
  /\ \A i \in DOMAIN ms : ms[i].kind = "calls" =>
       /\ i + ms[i].n <= Len(ms)
       /\ \A k \in 1 .. ms[i].n : Answers(ms[i + k], ms[i], k)
  /\ \A i \in DOMAIN ms : IsResult(ms[i]) =>
       /\ i > ms[i].n
       /\ ms[i - ms[i].n].kind = "calls"
       /\ ms[i].n <= ms[i - ms[i].n].n
       /\ Answers(ms[i], ms[i - ms[i].n], ms[i].n)
=============================================================================
