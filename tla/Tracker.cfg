\* Run with the progress loggers of its ranges, restarts, signals, crashes and failing calls.
SPECIFICATION LiveTrackedSpec
CONSTANTS
  MaxTasks = 4
  MaxBatch = 2
  MaxRetries = 2
  Disk = "sound"
  NumRanges = 2
  MaxRuns = 2
INVARIANTS
  TrackerTypeOK
  OkMeansMigrated
  CleansUpAfterReport
  NoLoggerLeaks
PROPERTIES
  ImplementsExecution
  DryRunTouchesNothing
  EveryRunEnds
CHECK_DEADLOCK FALSE
