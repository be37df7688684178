SPECIFICATION Spec
CONSTANTS
  Runs = {r1, r2}
  Tools = {t1, t2}
  MaxRetries = 1
  MaxCrashes = 1
INVARIANTS
  NoReplayAfterEffect
  RowsTellWhatHappened
  SlotsAreLive
PROPERTIES
  ImplementsAtMostOnce
SYMMETRY Symmetry
CHECK_DEADLOCK FALSE
