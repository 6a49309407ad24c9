SPECIFICATION FairSpec
CONSTANTS
  None = none
  UserOps = {"commit", "dirty", "merge", "remove", "switch"}
  MaxGens = 2
  MaxTurns = 2
  MaxCommits = 2
  MaxTroubles = 1
CHECK_DEADLOCK FALSE
INVARIANTS TypeOK NothingLost ReviewIsOwnWork
PROPERTIES RemovalIsSafe OwnerCompletes Settles
