\* ReplaceTasks as its comment describes it.
SPECIFICATION QueueSpec
CONSTANTS
  MaxTasks = 3
  MaxBatch = 2
  MaxRetries = 2
  Disk = "off"
PROPERTIES
  ReplacedAsDocumented
