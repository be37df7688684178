SPECIFICATION SuiteSpec
CONSTANTS
  Turns = {"a", "b"}
  Stops = {}
  StopAlls = {"x"}
  Cancels = {"y"}
  TargetOf <- MCTargetOf
  Callers = {"h1", "h2"}
  MaxCalls = 3
  MaxDeaths = 1
  Exit = "exit"
  NoTurn = "none"
  None = None
  Questions = {"r1"}
  Answerers = {"h1", "h2"}
  Cancellers = {"k1", "k2"}
  OpenCalls = {"o1", "o2"}
  Enders = {"e1"}
  SavedBefore = {}
  RequestOf <- MCRequestOf
  Capacity = 1
  Project = "project"
  Uses = {"a", "b"}
  Conversations = {"root", "child"}
  Root = "root"
  SessionOf <- MCSessionOf
  Ops <- MCOps
  Place <- MCPlace
  DirOf <- MCDirOf
  MaxEdits = 1
  Commands = {"c1"}
  Bound = {"c1"}
  Last = 3
  Workers = 2
INVARIANTS
  BeganAtMostOnce
  DirectoryIsSound
  
  ToldOnceAndReleased
  BatchesAreSound
  RequestsAreWhole
  WholeCheckpointLoads
PROPERTIES
  StopHitsItsTurn
  AcceptedIsSettled
  NobodyWaitsAfterClose
CHECK_DEADLOCK FALSE
