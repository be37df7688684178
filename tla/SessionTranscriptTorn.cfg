SPECIFICATION Spec
CONSTANTS
  None = None
  CallSets = {{"a"}, {"b", "c"}}
  MaxTurns = 1
  MaxSteps = 2
  MaxStrikes = 1
  MaxFaults = 1
INVARIANTS
  CheckpointLoads
CHECK_DEADLOCK FALSE
