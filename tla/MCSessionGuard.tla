--------------------------- MODULE MCSessionGuard ---------------------------
EXTENDS SessionGuard

\* A main worktree with a linked one (the session's tree) and its sibling, the
\* places the fences name, a folder to grant, one to hide, and a link inside the
\* tree that leads to it.
MCPath == {"/", "main", "main/state", "main/trees", "main/memory", "main/src",
           "linked", "linked/state", "linked/src", "linked/link", "sibling",
           "tmp", "memory", "out", "secret", "auth", "ssh", "linked/env"}

MCUp == [p \in MCPath |->
  CASE p \in {"main/state", "main/trees", "main/memory", "main/src"} -> "main"
    [] p \in {"linked", "sibling"} -> "main/trees"
    [] p \in {"linked/state", "linked/src", "linked/link", "linked/env"} -> "linked"
    [] OTHER -> "/"]

MCTarget == [p \in MCPath |-> IF p = "linked/link" THEN "secret" ELSE p]
MCStateDir == [p \in MCPath |-> IF p = "linked" THEN "linked/state" ELSE "main/state"]
MCWorktreeDir == [p \in MCPath |-> "main/trees"]
MCMemoryFile == [p \in MCPath |-> "main/memory"]

\* Few stimuli of several kinds: commands of two turns; a shell without a
\* sandbox; two changes of the mode; every kind of setting around a turn and a crash, in a linked worktree;
\* grants on Windows; the filtering proxy with a subagent and a background load.
Scenario(cwd, platform, backend, network, loading, budget) ==
  [cwd |-> cwd, root |-> "main", platform |-> platform, backend |-> backend,
   hidden |-> {"secret"}, allow |-> "few", egress |-> network, load |-> loading,
   left |-> [k \in {"mode", "grants", "hidden", "network", "turns", "commands",
                    "children", "crashes"} |-> IF k \in DOMAIN budget THEN budget[k] ELSE 0]]

MCScenarios ==
  {Scenario("main", "posix", TRUE, "shared", "none", [turns |-> 2, commands |-> 2]),
   Scenario("main", "posix", FALSE, "shared", "none", [mode |-> 1, turns |-> 1, commands |-> 1]),
   Scenario("linked", "posix", TRUE, "shared", "none", [mode |-> 2, turns |-> 1]),
   Scenario("linked", "posix", TRUE, "shared", "due",
            [mode |-> 1, grants |-> 1, hidden |-> 1, turns |-> 1, crashes |-> 1]),
   Scenario("main", "windows", TRUE, "shared", "none", [grants |-> 2, turns |-> 1, commands |-> 1]),
   Scenario("main", "posix", TRUE, "proxy", "due",
            [mode |-> 1, network |-> 2, turns |-> 1]),
   Scenario("main", "posix", TRUE, "proxy", "none",
            [mode |-> 1, network |-> 1, turns |-> 1, children |-> 1])}
=============================================================================
