SPECIFICATION FairSpec
CONSTANTS
  r1 = r1
  r2 = r2
  s1 = s1
  s2 = s2
  Runs = {r1, r2}
  Sessions = {s1, s2}
  SessionOf <- MCSessionOf
  MaxHosts = 2
  Free = Free
  Turn = Turn
  NoRun = NoRun
INVARIANTS
  WorkIsExclusive
PROPERTIES
  ClaimedRunIsServed
  CloseFinishes
CHECK_DEADLOCK FALSE
