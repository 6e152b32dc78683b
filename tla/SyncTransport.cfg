SPECIFICATION FairSpec
CHECK_DEADLOCK FALSE \* the jobs are done, or a host does not answer
CONSTANTS
  Impls = {i1, i2}
  NoIdentifier = NoIdentifier
  Identifier <- SameDatabase
  Hosts <- AllHosts
INVARIANTS
  LocksExclude
  SettledLeavesNothing
  BodyReadOnce
PROPERTIES
  AbortFreesLock
