SPECIFICATION FairSpec
CONSTANTS
  Permissions = {p1}
  Questions = {q1}
  None = none
  MaxTurns = 2
  MaxStops = 1
CHECK_DEADLOCK FALSE
INVARIANTS TypeOK ToldTheDecision
PROPERTY NobodyWaits
