SPECIFICATION Spec
CONSTANTS
  a = a
  b = b
  t = t
  Servers = {a}
  Terminals = {t}
  Dirs <- MCDirs
  MainOf <- MCMainOf
  Shipped <- MCShipped
  Asked = {"edit", "shell"}
  MaxStimuli = 4
  MaxFaults = 1
CHECK_DEADLOCK FALSE
INVARIANTS
  DecisionsAreSeen
  CalmNothingRunsUnasked
PROPERTIES
  CalmFilesAreKept
