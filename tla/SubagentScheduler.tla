-------------------------- MODULE SubagentScheduler --------------------------
(***************************************************************************)
(* src/cluxmate/core/subagent_scheduler.py and the task tool that drives   *)
(* it (src/cluxmate/tools/task.py): a slot and a write claim per running   *)
(* subagent, a queue for the spawns that do not fit, cancellation of a     *)
(* whole turn.                                                             *)
(*                                                                         *)
(* Everything runs on one event loop, so a stretch of code without an      *)
(* await is atomic: `release` frees the slot and then `_pump` walks the    *)
(* queue in the same stretch.  The walk is modelled one iteration of its   *)
(* while loop per step; `cursor` is its index and, while it is not 0,      *)
(* nothing else runs.  What does interleave is the delivery of wake-ups:   *)
(* a granted or cancelled future resumes its task one or more ticks later. *)
(***************************************************************************)
EXTENDS Integers, Sequences, FiniteSets, SequencesExt

CONSTANTS Spawn,          \* the task calls of the behaviour
          Parent,         \* the spawn whose agent issues the call, or Root
          Root,           \* the agent at depth 0
          ReadOnly,       \* the spawns whose agent type never writes
          Path,           \* paths inside the workspace, Workspace among them
          Workspace,      \* the root directory of the workspace
          Outside,        \* a declared path that resolves outside of it
          Above,          \* <<x, y>> \in Above: x is a parent directory of y
          MaxConcurrent,  \* MAX_CONCURRENT
          MaxWriters      \* MAX_WRITERS

ASSUME SchedulerAssumption ==
  /\ IsFiniteSet(Spawn)
  /\ Root \notin Spawn
  /\ Parent \in [Spawn -> Spawn \cup {Root}]
  /\ ReadOnly \subseteq Spawn
  /\ Workspace \in Path
  /\ Outside \notin Path
  /\ MaxConcurrent \in Nat
  /\ MaxWriters \in Nat

VARIABLES
  pc,        \* where each call is: idle, waiting, running, done
  claim,     \* the claim each call asked for
  fut,       \* its waiter's future: none, pending, set, cancelled
  cancelled, \* the calls whose task has been cancelled
  running,   \* _running
  writers,   \* _writers
  claims,    \* _running_claims (no two are equal, so a set)
  waiters,   \* _waiters, in arrival order
  cursor     \* i of _pump, counted from 1; 0 when _pump is not running

vars == <<pc, claim, fut, cancelled, running, writers, claims, waiters, cursor>>

Nested(s) == Parent[s] # Root
------------------------------------------------------------------------------
(***************************************************************************)
(* Claims.                                                                 *)
(***************************************************************************)
ClaimsOverlapEqualOnly(a, b) == a \cap b # {}

ClaimsOverlap(a, b) ==
  \E x \in a, y \in b : x = y \/ <<x, y>> \in Above \/ <<y, x>> \in Above

\* normalize_claim and _claim_for: entries outside the workspace are dropped,
\* and a writing spawn left with nothing claims the whole workspace.
ClaimFor(s, declared) ==
  LET inside == declared \ {Outside}
  IN  CASE s \in ReadOnly -> {}
        [] s \notin ReadOnly /\ inside = {} -> {Workspace}
        [] OTHER -> inside
------------------------------------------------------------------------------
AdmissibleIgnoringSlots(c) ==
  /\ c # {} => writers < MaxWriters
  /\ \A held \in claims : ~ClaimsOverlap(c, held)

Admissible(c) ==
  /\ running < MaxConcurrent
  /\ c # {} => /\ writers < MaxWriters
               /\ \A held \in claims : ~ClaimsOverlap(c, held)

\* What _grant adds to the counters and to the claims held.
Grant(c) ==
  /\ running' = running + 1
  /\ writers' = IF c # {} THEN writers + 1 ELSE writers
  /\ claims' = IF c # {} THEN claims \cup {c} ELSE claims

\* The part of release before _pump, which then starts at the first waiter.
FreeSlot(c) ==
  /\ running' = running - 1
  /\ writers' = IF c # {} THEN writers - 1 ELSE writers
  /\ claims' = claims \ {c}
  /\ cursor' = 1
------------------------------------------------------------------------------
Init ==
  /\ pc = [s \in Spawn |-> "idle"]
  /\ claim = [s \in Spawn |-> {}]
  /\ fut = [s \in Spawn |-> "none"]
  /\ cancelled = {}
  /\ running = 0
  /\ writers = 0
  /\ claims = {}
  /\ waiters = <<>>
  /\ cursor = 0

\* The agent that issues the call is in its turn.
CanCall(s) == Nested(s) => pc[Parent[s]] = "running" /\ Parent[s] \notin cancelled

\* acquire, the fast path: a slot is free and the claim is clear.
AcquireNow(s, c) ==
  /\ Admissible(c)
  /\ Grant(c)
  /\ pc' = [pc EXCEPT ![s] = "running"]
  /\ UNCHANGED <<fut, waiters>>

\* acquire, a nested spawn that found no slot: refused, never queued.
AcquireRefused(s, c) ==
  /\ ~Admissible(c)
  /\ Nested(s)
  /\ pc' = [pc EXCEPT ![s] = "done"]
  /\ UNCHANGED <<fut, waiters, running, writers, claims>>

\* acquire, the slow path: queue a waiter and await its future.
AcquireQueuedAlsoNested(s, c) ==
  /\ ~Admissible(c)
  /\ pc' = [pc EXCEPT ![s] = "waiting"]
  /\ fut' = [fut EXCEPT ![s] = "pending"]
  /\ waiters' = Append(waiters, s)
  /\ UNCHANGED <<running, writers, claims>>

AcquireQueued(s, c) ==
  /\ ~Admissible(c)
  /\ ~Nested(s)
  /\ pc' = [pc EXCEPT ![s] = "waiting"]
  /\ fut' = [fut EXCEPT ![s] = "pending"]
  /\ waiters' = Append(waiters, s)
  /\ UNCHANGED <<running, writers, claims>>

Acquire(s) ==
  /\ cursor = 0
  /\ pc[s] = "idle"
  /\ CanCall(s)
  /\ \E declared \in SUBSET (Path \cup {Outside}) :
       LET c == ClaimFor(s, declared) IN
       /\ claim' = [claim EXCEPT ![s] = c]
       /\ AcquireNow(s, c) \/ AcquireRefused(s, c) \/ AcquireQueued(s, c)
  /\ UNCHANGED <<cancelled, cursor>>

\* The future was set: acquire returns the ticket and the child starts.
WakeGranted(s) ==
  /\ cursor = 0
  /\ pc[s] = "waiting"
  /\ fut[s] = "set"
  /\ s \notin cancelled
  /\ pc' = [pc EXCEPT ![s] = "running"]
  /\ UNCHANGED <<claim, fut, cancelled, running, writers, claims, waiters, cursor>>

\* The future was set and the task was cancelled before it resumed: acquire
\* hands the slot back.
WakeGrantedCancelled(s) ==
  /\ cursor = 0
  /\ pc[s] = "waiting"
  /\ fut[s] = "set"
  /\ s \in cancelled
  /\ pc' = [pc EXCEPT ![s] = "done"]
  /\ FreeSlot(claim[s])
  /\ UNCHANGED <<claim, fut, cancelled, waiters>>

\* The future itself was cancelled: acquire leaves the queue if still in it.
LeaveQueue(s) ==
  \/ \E i \in 1 .. Len(waiters) : waiters[i] = s /\ waiters' = RemoveAt(waiters, i)
  \/ /\ \A i \in 1 .. Len(waiters) : waiters[i] # s
     /\ UNCHANGED waiters

WakeCancelled(s) ==
  /\ cursor = 0
  /\ pc[s] = "waiting"
  /\ fut[s] = "cancelled"
  /\ pc' = [pc EXCEPT ![s] = "done"]
  /\ LeaveQueue(s)
  /\ UNCHANGED <<claim, fut, cancelled, running, writers, claims, cursor>>

\* The child's run ends, normally or by cancellation: the finally of the task
\* tool releases the ticket.  The calls it made itself have ended before.
Release(s) ==
  /\ cursor = 0
  /\ pc[s] = "running"
  /\ \A t \in Spawn : Parent[t] = s => pc[t] \in {"idle", "done"}
  /\ pc' = [pc EXCEPT ![s] = "done"]
  /\ FreeSlot(claim[s])
  /\ UNCHANGED <<claim, fut, cancelled, waiters>>

\* The turn is stopped: gather cancels every call in flight, at every depth.
\* Cancelling a task cancels the future it waits for; one already set stays.
CancelTurn ==
  LET live == {s \in Spawn : pc[s] \in {"waiting", "running"}}
  IN  /\ cursor = 0
      /\ live \ cancelled # {}
      /\ cancelled' = cancelled \cup live
      /\ fut' = [s \in Spawn |-> IF fut[s] = "pending" THEN "cancelled" ELSE fut[s]]
      /\ UNCHANGED <<pc, claim, running, writers, claims, waiters, cursor>>
------------------------------------------------------------------------------
(***************************************************************************)
(* _pump: one action per way through the body of its loop.                 *)
(***************************************************************************)
Pumping == cursor # 0 /\ cursor <= Len(waiters)
Candidate == waiters[cursor]

PumpSkip ==
  /\ Pumping
  /\ ~Admissible(claim[Candidate])
  /\ cursor' = cursor + 1
  /\ UNCHANGED <<pc, claim, fut, cancelled, running, writers, claims, waiters>>

PumpGrant ==
  /\ Pumping
  /\ Admissible(claim[Candidate])
  /\ fut[Candidate] = "pending"
  /\ Grant(claim[Candidate])
  /\ fut' = [fut EXCEPT ![Candidate] = "set"]
  /\ waiters' = RemoveAt(waiters, cursor)
  /\ UNCHANGED <<pc, claim, cancelled, cursor>>

\* The waiter's future is cancelled but its task has not resumed yet: the slot
\* is granted, and then set_result raises InvalidStateError out of _pump.
PumpRaise ==
  /\ Pumping
  /\ Admissible(claim[Candidate])
  /\ fut[Candidate] = "cancelled"
  /\ Grant(claim[Candidate])
  /\ waiters' = RemoveAt(waiters, cursor)
  /\ cursor' = 0
  /\ UNCHANGED <<pc, claim, fut, cancelled>>

PumpEnd ==
  /\ cursor # 0
  /\ cursor > Len(waiters)
  /\ cursor' = 0
  /\ UNCHANGED <<pc, claim, fut, cancelled, running, writers, claims, waiters>>

Pump == PumpSkip \/ PumpGrant \/ PumpRaise \/ PumpEnd

\* Every call that was made has ended: the loop has nothing left to run.
Quiet ==
  /\ cursor = 0
  /\ \A s \in Spawn : pc[s] \in {"idle", "done"}
  /\ UNCHANGED vars

Resume(s) == WakeGranted(s) \/ WakeGrantedCancelled(s) \/ WakeCancelled(s)

Next == Pump \/ Quiet \/ CancelTurn
          \/ \E s \in Spawn : Acquire(s) \/ Resume(s) \/ Release(s)

Spec == Init /\ [][Next]_vars

\* asyncio runs every ready callback, and a child's run is bounded by its
\* max_turns, so it ends.
Fairness ==
  /\ WF_vars(Pump)
  /\ \A s \in Spawn : WF_vars(Resume(s)) /\ WF_vars(Release(s))

FairSpec == Spec /\ Fairness
------------------------------------------------------------------------------
(***************************************************************************)
(* Properties.                                                             *)
(***************************************************************************)
TypeOK ==
  /\ pc \in [Spawn -> {"idle", "waiting", "running", "done"}]
  /\ claim \in [Spawn -> SUBSET Path]
  /\ fut \in [Spawn -> {"none", "pending", "set", "cancelled"}]
  /\ cancelled \subseteq Spawn
  /\ running \in Nat
  /\ writers \in Nat
  /\ claims \subseteq SUBSET Path
  /\ waiters \in Seq(Spawn)
  /\ cursor \in Nat

\* The calls that hold a slot: running, or granted and not resumed yet.
Holds(s) == pc[s] = "running" \/ (pc[s] = "waiting" /\ fut[s] = "set")
Holders == {s \in Spawn : Holds(s)}
WritingHolders == {s \in Holders : claim[s] # {}}

\* What the callers see of the scheduler: who holds a slot, with which claim.
Held == {[spawn |-> s, claim |-> claim[s]] : s \in Holders}

Admission == INSTANCE AdmissionControl WITH held <- Held

\* However grants, releases, refusals and cancellations interleave, the calls
\* that really hold a slot stay within both caps and never write the same
\* region: the counters of the scheduler may be wrong, never too low.
SlotsAndRegions ==
  /\ Cardinality(Holders) <= MaxConcurrent
  /\ Cardinality(WritingHolders) <= MaxWriters
  /\ \A s, t \in Holders : s # t => ~Admission!Overlap(claim[s], claim[t])

\* Every step of the scheduler is a step of the gate its callers rely on: a
\* slot is taken once, given back once, and every other step changes nothing
\* the callers can see.
ImplementsAdmission == Admission!Spec

\* task.py:360-361 says of the release in its finally: "Free the scheduler
\* slot on every path -- success, tool error, cancel -- so a cancelled task
\* call never leaks a claim."  Between two stretches of code, the slots
\* counted are the slots held.
SlotsReturned == cursor = 0 => running = Cardinality(Holders)

\* No turn was stopped yet.
Undisturbed == cancelled = {}

\* In a turn nobody stops, a queued call is admitted in the end: no call waits
\* for a slot that a call waiting for it holds.
QueuedIsAdmitted ==
  \A s \in Spawn : pc[s] = "waiting" ~> (pc[s] = "running" \/ ~Undisturbed)

\* A stopped turn leaves no call behind: each one in flight ends, whether it
\* ran, was queued, or had just been granted a slot.
StoppedCallsEnd == \A s \in Spawn : s \in cancelled ~> pc[s] = "done"

\* No call waits for ever: it is admitted, or its turn was stopped and it ends.
NoCallWaits == QueuedIsAdmitted /\ StoppedCallsEnd
==============================================================================
