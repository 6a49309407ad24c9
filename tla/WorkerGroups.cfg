SPECIFICATION GroupFairSpec
CONSTANTS
  N = 2
  Accesses = {"read", "write"}
  Ops = {"cancel", "interrupt", "delete"}
  MaxOps = 2
CHECK_DEADLOCK FALSE
INVARIANTS NothingLeft WavesHold
PROPERTY CancelStops
