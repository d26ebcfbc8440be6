SPECIFICATION LiveSpec
CONSTANTS
  NoCall = NoCall
  NoPid = NoPid
  NoProxy = NoProxy
  Call = {c1, c2}
  Pid = {1, 2}
  Tool = {1, 2, 3}
  Path <- MCPath
  Up <- MCUp
  Target <- MCTarget
  StateDir <- MCStateDir
  WorktreeDir <- MCWorktreeDir
  MemoryFile <- MCMemoryFile
  TempDir = "tmp"
  GlobalMemory = "memory"
  AlwaysHidden = "auth"
  SensitiveDirs = {"ssh"}
  SensitiveFiles = {"linked/env"}
  Grantable = {"out"}
  Hideable = {"secret", "out"}
  AllowList = {"few", "many"}
  Proxy = {1, 2, 3, 4}
  Scenarios <- MCScenarios
CHECK_DEADLOCK FALSE
INVARIANTS
  CalmKillsAreRight
  GuardsFollowSettings
  CalmProxyIsTheAgents
  CalmLowIsGranted
PROPERTIES
  OnlyUnlistedIsRevealed
  CommandsReturn
