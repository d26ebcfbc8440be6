--------------------------- MODULE AdmissionControl ---------------------------
(***************************************************************************)
(* What the admission gate for subagents promises its callers, with no     *)
(* queue, no futures and no cancellation: a spawn holds a slot and a write *)
(* claim, or it does not.  At most MaxConcurrent spawns hold a slot, at    *)
(* most MaxWriters of them hold a non-empty claim, and the claims held at  *)
(* the same time never overlap.  SubagentScheduler implements it.          *)
(***************************************************************************)
EXTENDS Naturals, FiniteSets

CONSTANTS Spawn,          \* the task calls
          Path,           \* the paths of the workspace that claims name
          Above,          \* <<x, y>> \in Above: x is a parent directory of y
          MaxConcurrent,  \* slots
          MaxWriters      \* slots for spawns with a non-empty claim

VARIABLE held             \* the set of [spawn, claim] pairs holding a slot

\* Two claims overlap when a path of one equals, contains or is contained by a
\* path of the other.
Overlap(a, b) ==
  \E x \in a, y \in b : x = y \/ <<x, y>> \in Above \/ <<y, x>> \in Above

Init == held = {}

Take(s, c) ==
  /\ \A h \in held : h.spawn # s
  /\ held' = held \cup {[spawn |-> s, claim |-> c]}
  /\ Cardinality(held') <= MaxConcurrent
  /\ Cardinality({h \in held' : h.claim # {}}) <= MaxWriters
  /\ \A h \in held : ~Overlap(h.claim, c)

Give(s) ==
  /\ \E h \in held : h.spawn = s
  /\ held' = {h \in held : h.spawn # s}

Next ==
  \E s \in Spawn : Give(s) \/ \E c \in SUBSET Path : Take(s, c)

Spec == Init /\ [][Next]_held

==============================================================================
