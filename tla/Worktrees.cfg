SPECIFICATION Spec
CONSTANTS
  c1 = c1
  c2 = c2
  x1 = x1
  x2 = x2
  topic = topic
  Detached = Detached
  Call = {c1, c2}
  Session = {x1, x2}
  Topic = {topic}
  MaxSlug = 2
  Environments <- MCEnvironments
SYMMETRY Alike
CHECK_DEADLOCK FALSE
INVARIANTS
  MainStaysClean
PROPERTIES
  RemovalsTakeNoMore
  AnswersAreTrue
