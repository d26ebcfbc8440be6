----------------------------- MODULE MCWorktrees ------------------------------
\* Instances of Worktrees for TLC.  Commands are alike, and so are sessions.
EXTENDS Worktrees, TLC

Quiet == [slow |-> FALSE, restless |-> FALSE, rules |-> FALSE,
          calls |-> 3, moves |-> 1, asides |-> 1]
Slow == [Quiet EXCEPT !.slow = TRUE, !.calls = 2, !.moves = 2]
Restless == [Quiet EXCEPT !.restless = TRUE, !.rules = TRUE, !.calls = 2, !.asides = 2]

MCEnvironments == {Quiet, Slow, Restless}

Alike == Permutations(Call) \cup Permutations(Session)
===============================================================================
