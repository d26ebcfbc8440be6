SPECIFICATION LiveSpec
CONSTANTS
  c1 = c1
  c2 = c2
  Call = {c1, c2}
  NoCall = NoCall
  Environments <- MCEnvironments
INVARIANTS
  CalmCommitsSurvive
  CalmOpensAsTranscript
  LogIsNumbered
PROPERTIES
  CalmLogIsDurable
  CalmOpenEndsBound
