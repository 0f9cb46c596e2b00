\* The state file as its comments describe it.
SPECIFICATION Spec
CONSTANTS
  MaxTasks = 3
  MaxBatch = 2
  MaxRetries = 2
  Disk = "sound"
  NumRanges = 2
  MaxRuns = 2
INVARIANTS
  ResumeAsDocumented
CHECK_DEADLOCK FALSE
