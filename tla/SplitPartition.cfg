\* The splitter as its package comment describes it; no request fails.
SPECIFICATION Spec
CONSTANTS
  Label <- MCLabel
  Values <- MCValues
  Excluded = {"uid"}
  MaxSeries = 3
  MaxValues = 2
  TopN = 3
  Tasks <- MCTasks
  ApiFaults = FALSE
INVARIANTS
  SplitIsPartition
CHECK_DEADLOCK FALSE
