SPECIFICATION FairSpec
CONSTANTS
  Workers = {w1,w2}
  Finishers = {f1}
  Api = api
  None = none
  Ops = {"wait","continue","switch","dismiss","followup","cancel"}
  MaxTurns = 2
  MaxOps = 1
  MaxErrors = 1
  MaxRestarts = 1
CHECK_DEADLOCK FALSE
INVARIANTS TypeOK WaitIsTended
PROPERTIES WaitEnds
