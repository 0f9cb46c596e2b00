\* Any client, any call, failing disk.
SPECIFICATION QueueSpec
CONSTANTS
  MaxTasks = 3
  MaxBatch = 2
  MaxRetries = 2
  Disk = "faulty"
INVARIANTS
  OnePlace
  RetryDiscipline
  FileNeverAhead
  FinishedIsPersisted
PROPERTIES
  FirstInFirstOut
  ImplementsLifecycle
