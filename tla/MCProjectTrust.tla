---------------------------- MODULE MCProjectTrust ----------------------------
(* A repository that comes with rules, a linked worktree of it, a session   *)
(* and a terminal.                                                          *)
EXTENDS ProjectTrust

CONSTANTS a, b, t

MCDirs == {"repo", "tree"}
MCMainOf == [d \in MCDirs |-> "repo"]
MCShipped == [d \in MCDirs |-> IF d = "repo" THEN {"bash:a", "edit"} ELSE {}]
=============================================================================
