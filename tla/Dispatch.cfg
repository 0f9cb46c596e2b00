\* executeTasks with its workers: retries, splits, lost calls, orphans, refusals,
\* cancellation; its contract, and liveness under fair scheduling.  The run may end
\* between ranges.
SPECIFICATION LiveSpec
CONSTANTS
  MaxTasks = 3
  MaxBatch = 2
  MaxRetries = 2
  Disk = "off"
  NumWorkers = 2
  ResultCap = 1
INVARIANTS
  DispatchTypeOK
  OneOwner
  NoWorkerLeak
  WorkConserving
  SucceededWasMigrated
  QuietBetweenRanges
  NoRefusal
  SuccessConserved
PROPERTIES
  WorkRunsOut
  ImplementsExecution
  ExecuteTasksReturns
CHECK_DEADLOCK FALSE
