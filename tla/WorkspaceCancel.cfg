SPECIFICATION Spec
CONSTANTS
  None = none
  UserOps = {}
  MaxGens = 1
  MaxTurns = 1
  MaxCommits = 1
  MaxTroubles = 1
CHECK_DEADLOCK FALSE
PROPERTY StoppedMergesNothing
