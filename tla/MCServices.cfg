SPECIFICATION SuiteSpec
CONSTANTS
  Procs = {"p1", "p2"}
  Files = {"f1", "f2"}
  Values = {0, 1}
  None = None
  Jobs = {j1}
  Targets = {t1, t2}
  Contents = {a, b}
  FirstTarget = t1
  FirstContent = a
  NoContent = NoContent
  MaxTime = 2
  MaxJobEvents = 3
  MaxChanges = 1
  Batch = 2
  MaxEvents = 2
  SubscriberMax = 1
  MaxSeq = 6
  MaxTurns = 2
  MaxDrops = 1
  QueueMax = 1
  LogMax = 1
  MaxKids = 1
  MaxForks = 1
  MaxWritten = 2
  MaxTerminates = 1
  LoopIds = {l, m}
  WatchedLoop = l
  MaxLoops = 2
  MaxInputs = 1
INVARIANTS
  
  ViewIsTrue
PROPERTIES
  ImplementsAtomicFiles
  OnlyActiveWorkBegins
  DueWorkIsTakenUp
  ClientCatchesUp
CHECK_DEADLOCK FALSE
