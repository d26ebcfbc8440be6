SPECIFICATION LiveSpec
CONSTANTS
  NumTurns = 2
  NoTurn = NoTurn
INVARIANTS
  CalmTurnsDoNotInterleave
  HistoryStillMatches
  RunsOnlyApproved
PROPERTIES
  CalmTurnsAreServed
