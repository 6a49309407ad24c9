SPECIFICATION FairSpec
CONSTANTS
  Routines = {r1,r2}
  None = none
  Skips = {r2}
  Kinds = {"mcp"}
  Limit = 1
  MaxArrivals = 2
  MaxManual = 1
  MaxEdits = 1
  MaxTroubles = 1
CHECK_DEADLOCK FALSE
INVARIANTS TypeOK OneRunPerOccurrence LaneLeavesRoom
PROPERTIES RunsOfExistingOnly NoneForgotten
