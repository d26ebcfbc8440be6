SPECIFICATION Spec
CONSTANTS
  s1 = s1
  s2 = s2
  f1 = f1
  f2 = f2
  user = user
  Session = {s1, s2}
  File = {f1, f2}
  User = user
  Cap = 3
  MaxAsides = 2
  MaxCommits = 5
  MaxRaced = 1
SYMMETRY Alike
CHECK_DEADLOCK FALSE
INVARIANTS
  CalmCommitsAreSmall
PROPERTIES
  UndoIsComplete
  ForeignWorkIsReported
  RewindIsReversible
