SPECIFICATION FairSpec
CONSTANTS
  MaxTurn = 2
  MaxSteps = 2
  CallCounts = {2}
  MaxAsides = 1
  PruneMinAge = 1
  MaxRecomputes = 1
  MaxEmpty = 1
  MaxAudit = 1
  MaxStop = 1
CHECK_DEADLOCK FALSE
INVARIANTS
  RequestIsLogged
  HistoryIsSound
  UnbackedIsReported
PROPERTIES
  TurnEnds
