SPECIFICATION Spec
CONSTANTS
  Tasks = {t1}
  Msgs = {m1,m2}
  Runs = {r1,r2}
  Api = api
  Recovery = recovery
  None = none
  MaxConcurrent = 2
  Ops = {"cancel","followup","interrupt"}
  MaxCancels = 1
  MaxRestarts = 0
SYMMETRY Symmetry
CHECK_DEADLOCK FALSE
INVARIANTS TypeOK SlotAccounting OwnedRowLive
PROPERTIES CancelSticks ImplementsLifecycle
