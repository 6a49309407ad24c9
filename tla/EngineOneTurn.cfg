SPECIFICATION Spec
CONSTANTS
  Tasks = {t1}
  Msgs = {m1}
  Runs = {r1,r2}
  Api = api
  Recovery = recovery
  None = none
  MaxConcurrent = 2
  Ops = {"interrupt"}
  MaxCancels = 0
  MaxRestarts = 0

CHECK_DEADLOCK FALSE
INVARIANT OneTurnAtATime

