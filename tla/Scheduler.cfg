SPECIFICATION FairSpec
CONSTANTS
  s1 = s1
  s2 = s2
  s3 = s3
  n1 = n1
  root = root
  workspace = workspace
  src = src
  docs = docs
  elsewhere = elsewhere
  Spawn <- MCSpawn
  Parent <- MCParent
  Root <- root
  ReadOnly <- MCReadOnly
  Path <- MCPath
  Workspace <- workspace
  Outside <- elsewhere
  Above <- MCAbove
  MaxConcurrent = 2
  MaxWriters = 2
INVARIANTS SlotsAndRegions
PROPERTIES ImplementsAdmission NoCallWaits
