SPECIFICATION LspSpec
CONSTANTS
  Callers <- SomeCallers
  MaxServers = 2
  MaxEdits = 2
  MaxStimuli = 3
  Retries = 1
CHECK_DEADLOCK FALSE
INVARIANTS
  CalmNobodyIsStranded
  CalmTextIsCurrent
  CalmNoStrayServer
PROPERTIES
  EditsReturn
