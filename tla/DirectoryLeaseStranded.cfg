SPECIFICATION Spec
CONSTANTS
  Calls = {c1, c2}
  Roots = {r1}
  NoLease = NoLease
INVARIANTS
  CancelledCallHoldsNothing
CHECK_DEADLOCK FALSE
