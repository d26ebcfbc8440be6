SPECIFICATION McpSpec
CONSTANTS
  Servers = {"s"}
  GlobalFile <- MCGlobal
  ProjectFile <- MCProject
  MaxInits = 2
  MaxClients = 4
  MaxEarly = 1
  MaxLate = 3
CHECK_DEADLOCK FALSE
INVARIANTS
  CalmServersAgree
PROPERTIES
  NoThreadWaits
