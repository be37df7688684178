SPECIFICATION CleanSpec
CONSTANTS
  r1 = r1
  r2 = r2
  s1 = s1
  s2 = s2
  Runs = {r1}
  Sessions = {s1}
  SessionOf <- MCOneSession
  MaxHosts = 1
  Free = Free
  Turn = Turn
  NoRun = NoRun
INVARIANT LeaseHasUser
CHECK_DEADLOCK FALSE
