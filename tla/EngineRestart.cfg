SPECIFICATION FairSpec
CONSTANTS
  Tasks = {t1}
  Msgs = {m1,m2}
  Runs = {r1,r2}
  Api = api
  Recovery = recovery
  None = none
  MaxConcurrent = 1
  Ops = {"followup"}
  MaxCancels = 0
  MaxRestarts = 1
CHECK_DEADLOCK FALSE
INVARIANT NoSilentLoss
PROPERTIES OldestFirst TasksMove
