SPECIFICATION FairSpec
CONSTANTS
  MaxIds = 3
  MaxBatch = 1
  MaxFaults = 1
  Configs <- MCConfigs
  MaxWorkers = 1
INVARIANTS
  BudgetsHold
  SnapshotLoads
PROPERTIES
  
  TasksEndAndTell
CHECK_DEADLOCK FALSE
