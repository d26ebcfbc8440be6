------------------------- MODULE MCSubagentScheduler -------------------------
(***************************************************************************)
(* Instances of SubagentScheduler for TLC: three calls of the root agent,  *)
(* one of them of a read-only type, and a call made by the first of them;  *)
(* a workspace with two directories, so that two writers may run at once.  *)
(***************************************************************************)
EXTENDS SubagentScheduler

CONSTANTS s1, s2, s3, n1, root, workspace, src, docs, elsewhere

MCSpawn == {s1, s2, s3, n1}
MCParent == (s1 :> root) @@ (s2 :> root) @@ (s3 :> root) @@ (n1 :> s1)
MCReadOnly == {s3}
MCPath == {workspace, src, docs}
MCAbove == {<<workspace, src>>, <<workspace, docs>>}
==============================================================================
