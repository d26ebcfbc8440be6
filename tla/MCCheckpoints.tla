--------------------------- MODULE MCCheckpoints ----------------------------
\* Instances of Checkpoints for TLC.  Sessions are alike, and so are files.
EXTENDS Checkpoints, TLC

Alike == Permutations(Session) \cup Permutations(File)
=============================================================================
