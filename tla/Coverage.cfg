\* A process and its restart, two ranges, up to three series each, one split and retries.
SPECIFICATION CoverageSpec
CONSTANTS
  MaxTasks = 5
  MaxBatch = 2
  MaxRetries = 2
  Disk = "off"
  NumRanges = 2
  MaxRuns = 2
  Series = {a, b, c}
SYMMETRY AnySeries
INVARIANTS
  NoSeriesTwice
  SeriesAccountedFor
  OkMeansSeriesMigrated
CHECK_DEADLOCK FALSE
