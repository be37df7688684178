SPECIFICATION Spec
CONSTANTS
  Jobs = {j1}
  Targets = {t1}
  Contents = {a, b}
  Nothing = Nothing
  MaxTime = 1
  MaxEvents = 1
  MaxChanges = 3
  Batch = 1
INVARIANTS
  ChangesAreRun
CHECK_DEADLOCK FALSE
