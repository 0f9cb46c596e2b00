\* Step 7 of the README.
SPECIFICATION Spec
CONSTANTS
  MaxTasks = 3
  MaxBatch = 2
  MaxRetries = 2
  Disk = "sound"
  NumRanges = 2
  MaxRuns = 1
INVARIANTS
  RunDeletesDeployment
CHECK_DEADLOCK FALSE
