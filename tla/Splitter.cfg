\* Every task of up to five series, with requests that fail.
SPECIFICATION LiveSpec
CONSTANTS
  Label <- MCLabel
  Values <- MCValues
  Excluded = {"uid"}
  MaxSeries = 3
  MaxValues = 2
  TopN = 3
  Tasks <- MCTasks
  ApiFaults = TRUE
INVARIANTS
  BinsWithinLimits
  KeepsSplitContract
PROPERTIES
  EveryStepCountsDown
  SplitTerminates
CHECK_DEADLOCK FALSE
