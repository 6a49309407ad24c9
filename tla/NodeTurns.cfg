SPECIFICATION FairSpec
CONSTANTS
  Turns = {t1}
  MaxConns = 2
  MaxEvents = 2
  Room = 1
  LateAttach = FALSE
CHECK_DEADLOCK FALSE
INVARIANTS TypeOK TranscriptHolds
PROPERTY BothSidesEnd
