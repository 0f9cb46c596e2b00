\* Every step, order and pair of dates with up to ten ranges.
SPECIFICATION Spec
CONSTANTS
  Horizon <- MCHorizon
  Zones <- MCZones
  MonthHours <- MCMonthHours
  Dates <- MCDates
  Limits <- MCLimits
  MaxRanges = 10
INVARIANTS
  PlanTypeOK
  RangesTile
  UtcPlanIsCopied
CHECK_DEADLOCK FALSE
