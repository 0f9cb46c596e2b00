\* The number of retries as the README documents it.
SPECIFICATION QueueSpec
CONSTANTS
  MaxTasks = 2
  MaxBatch = 2
  MaxRetries = 3
  Disk = "off"
INVARIANTS
  RetriesAsDocumented
