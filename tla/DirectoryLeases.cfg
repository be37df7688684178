SPECIFICATION FairSpec
CONSTANTS
  Calls = {c1, c2, c3}
  Roots = {r1, r2}
  NoLease = NoLease
INVARIANTS
  CancelWaitersStrandsNothing
PROPERTIES
  FirstComeFirstServed
  NoWaiterStarves
  ImplementsOccupancy
CHECK_DEADLOCK FALSE
