-------------------------------- MODULE MCPlan --------------------------------
(* Values for model checking Plan: two months of a common year, the second   *)
(* one short, then a long one; dates at midnight and within a day, on the    *)
(* last days of a month, in UTC and with offsets to either side.             *)
EXTENDS Plan

MCHorizon == 90 * 24
MCZones == {-5, 0, 2}

\* January, February and March, with what the offsets reach of the months around.
MCMonthHours(h) ==
  IF h < 31 * 24 THEN 31 * 24
  ELSE IF h < (31 + 28) * 24 THEN 28 * 24
  ELSE 31 * 24

Day(d) == d * 24
MCDates ==
  {NoDate} \union
  [at : {Day(0), Day(30), Day(30) + 22, Day(31), Day(31) + 5, Day(33), Day(62), Day(89) + 3},
   zone : MCZones]

Defaults == [max |-> 0, margin |-> 0, override |-> 0]
MCLimits ==
  {Defaults, [max |-> 99, margin |-> 10, override |-> 0],
   [max |-> 100, margin |-> 99, override |-> 0],
   [max |-> 1000, margin |-> 100, override |-> 7],
   [max |-> 1000, margin |-> 130, override |-> 0],
   [max |-> 1000, margin |-> 90, override |-> 7],
   [max |-> -1, margin |-> -10, override |-> 0]}
=============================================================================
