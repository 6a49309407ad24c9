SPECIFICATION FairSpec
CONSTANTS
  Tasks = {t1,t2}
  None = none
  MaxRetries = 2
  MaxFaults = 2
  MaxCrashes = 2
CHECK_DEADLOCK FALSE
INVARIANTS TypeOK HistoryHolds
PROPERTIES Undone StartsFresh ComesUp
