-------------------------------- MODULE Plan --------------------------------
(***************************************************************************)
(* From the configuration file to the intervals that vmselect and vmctl    *)
(* are asked for: LoadConfig with applyDefaults and validateConfig         *)
(* (internal/config/config.go), SplitTimeRange (internal/scheduler/        *)
(* timerange.go), the bounds DiscoverMetrics sends (internal/discovery/    *)
(* client.go) and those buildVmctlArgs writes (internal/worker/manager.go).*)
(*                                                                         *)
(* A time is an instant, in hours, and the UTC offset of the text it was   *)
(* read from.  The calendar is a parameter.                                *)
(***************************************************************************)
EXTENDS Integers, Sequences

CONSTANTS
  Horizon,        \* the last instant an end date may name
  Zones,          \* the UTC offsets of RFC 3339 dates
  MonthHours(_),  \* MonthHours(h): the length of the month of local hour h
  Dates,          \* the texts of dates considered, NoDate among them or not
  Limits,         \* the splitting settings considered: [max, margin, override]
  MaxRanges       \* bound on the ranges of a plan

ASSUME PlanAssumption ==
  /\ Horizon \in Nat
  /\ Zones \subseteq Int
  /\ \A t \in 0..Horizon, z \in Zones : MonthHours(t + z) \in Nat \ {0}
  /\ MaxRanges \in Nat

\* A date that is missing or in none of the three formats.
NoDate == [at |-> -1, zone |-> 0]
Time == [at : 0..Horizon, zone : Zones]
TimeRange == [start : Time, end : Time]
Splitting == [max : Int, margin : Int, override : Int]

ASSUME DatesAssumption == Dates \subseteq Time \union {NoDate}

ASSUME LimitsAssumption == Limits \subseteq Splitting

VARIABLES
  cfg,      \* the configuration
  pc,       \* "load", "rejected", "split", "run", "done"
  limit,    \* EffectiveMaxSeriesForMetric, once the configuration is accepted
  current,  \* SplitTimeRange's loop variable
  ranges,   \* the time ranges
  asked,    \* the intervals DiscoverMetrics has asked vmselect for, as instants
  told      \* the intervals vmctl has been told, as instants

vars == <<cfg, pc, limit, current, ranges, asked, told>>

Text == [start : Dates, end : Dates, step : {"", "hour", "day", "month", "week"},
         reverse : BOOLEAN, splitting : Limits]

\* The shortest a step can be, which bounds the plans considered.
ShortestStep(step) == CASE step = "hour" -> 1 [] step = "month" -> 28 * 24 [] OTHER -> 24

Init ==
  /\ cfg \in {c \in Text : c.end.at - c.start.at <= MaxRanges * ShortestStep(c.step)}
  /\ pc = "load"
  /\ limit = 0
  /\ current = NoDate
  /\ ranges = <<>>
  /\ asked = <<>>
  /\ told = <<>>

-----------------------------------------------------------------------------
(* LoadConfig.                                                              *)

\* applyDefaults: a setting that is 0 is taken for one that is not there.
Or(setting, default) == IF setting = 0 THEN default ELSE setting
SplittingDefaults(s) == [s EXCEPT !.max = Or(s.max, 100000), !.margin = Or(s.margin, 20)]
WithDefaults(c) ==
  [c EXCEPT !.step = IF @ = "" THEN "day" ELSE @, !.splitting = SplittingDefaults(@)]

\* Mutant: a margin of 1 and more is accepted.
ValidWithAnyMargin(c) ==
  /\ c.step \in {"hour", "day", "month"}
  /\ NoDate \notin {c.start, c.end}
  /\ c.start.at < c.end.at
  /\ c.splitting.max >= 100
  /\ c.splitting.margin >= 0

\* validateConfig, margins in per cent.  Overrides are not validated.
Valid(c) ==
  /\ c.step \in {"hour", "day", "month"}
  /\ NoDate \notin {c.start, c.end}
  /\ c.start.at < c.end.at
  /\ c.splitting.max >= 100
  /\ c.splitting.margin \in 0..99

\* A product in floating point may fall just short of a whole number, which the
\* conversion to int cuts off.
Effective(max, margin) ==
  LET p == max * (100 - margin) IN
    {p \div 100} \union (IF p % 100 = 0 THEN {p \div 100 - 1} ELSE {})
EffectiveMaxSeriesForMetric(s) ==
  Effective(IF s.override > 0 THEN s.override ELSE s.max, s.margin)

LoadConfig ==
  /\ pc = "load"
  /\ cfg' = WithDefaults(cfg)
  /\ IF Valid(cfg')
       THEN /\ pc' = "split"
            /\ current' = cfg'.start
            /\ limit' \in EffectiveMaxSeriesForMetric(cfg'.splitting)
       ELSE /\ pc' = "rejected"
            /\ UNCHANGED <<current, limit>>
  /\ UNCHANGED <<ranges, asked, told>>

-----------------------------------------------------------------------------
(* SplitTimeRange.                                                          *)

Local(t) == t.at + t.zone

\* AddDate works on the local calendar and normalises the 31st of a short month
\* into the next one: adding a month adds the length of the month begun.
StepHours(t, step) ==
  CASE step = "hour" -> 1
    [] step = "month" -> MonthHours(Local(t))
    [] OTHER -> 24
AdvanceByStep(t, step) == [t EXCEPT !.at = @ + StepHours(t, step)]

Range(from, to) == [start |-> from, end |-> to]

\* Mutant: the last range is a whole step, too.
NextRangeUncut ==
  LET next == AdvanceByStep(current, cfg.step) IN
    /\ pc = "split"
    /\ current.at < cfg.end.at
    /\ ranges' = Append(ranges, Range(current, next))
    /\ current' = next
    /\ UNCHANGED <<cfg, pc, limit, asked, told>>

NextRange ==
  LET step == AdvanceByStep(current, cfg.step)
      next == IF step.at > cfg.end.at THEN cfg.end ELSE step
  IN  /\ pc = "split"
      /\ current.at < cfg.end.at
      /\ ranges' = Append(ranges, Range(current, next))
      /\ current' = next
      /\ UNCHANGED <<cfg, pc, limit, asked, told>>

Reversed(s) == [i \in DOMAIN s |-> s[Len(s) + 1 - i]]

RangesDone ==
  /\ pc = "split"
  /\ current.at >= cfg.end.at
  /\ pc' = "run"
  /\ ranges' = IF cfg.reverse THEN Reversed(ranges) ELSE ranges
  /\ UNCHANGED <<cfg, limit, current, asked, told>>

-----------------------------------------------------------------------------
(* The loop over the ranges: what is asked of others in each.               *)

\* DiscoverMetrics sends Unix times.
Discover(range) == [from |-> range.start.at, to |-> range.end.at]

\* Mutant: only the date is written, as the log messages do.
VmctlArgsByDay(range) ==
  [from |-> 24 * (Local(range.start) \div 24),
   to |-> 24 * (Local(range.end) \div 24)]

\* buildVmctlArgs writes the local clock and a literal Z, which vmctl reads as
\* UTC: with dates in another offset it is told other instants than were meant.
VmctlArgs(range) == [from |-> Local(range.start), to |-> Local(range.end)]

ProcessRange ==
  /\ pc = "run"
  /\ Len(asked) < Len(ranges)
  /\ asked' = Append(asked, Discover(ranges[Len(asked) + 1]))
  /\ told' = Append(told, VmctlArgs(ranges[Len(asked) + 1]))
  /\ UNCHANGED <<cfg, pc, limit, current, ranges>>

AllProcessed ==
  /\ pc = "run"
  /\ Len(asked) = Len(ranges)
  /\ pc' = "done"
  /\ UNCHANGED <<cfg, limit, current, ranges, asked, told>>

Next == LoadConfig \/ NextRange \/ RangesDone \/ ProcessRange \/ AllProcessed

Spec == Init /\ [][Next]_vars

-----------------------------------------------------------------------------
(* Properties.                                                              *)

Interval == [from : Int, to : Int]

\* Type invariant; the series limit is one the splitter can work with.
PlanTypeOK ==
  /\ cfg.start \in Dates /\ cfg.end \in Dates
  /\ cfg.splitting \in Splitting
  /\ cfg.reverse \in BOOLEAN
  /\ pc \in {"load", "rejected", "split", "run", "done"}
  /\ limit \in Nat
  /\ current \in Time \union {NoDate}
  /\ ranges \in Seq(TimeRange)
  /\ asked \in Seq(Interval)
  /\ told \in Seq(Interval)

\* The instants of the ranges made so far, oldest first.
InOrder == IF pc \in {"run", "done"} /\ cfg.reverse THEN Reversed(ranges) ELSE ranges

\* A range, where its predecessor ends at instant `from`.
FitsIn(r, from) ==
  /\ r.start.at = from
  /\ r.start.at < r.end.at
  /\ \/ r.end = AdvanceByStep(r.start, cfg.step)
     \/ r.end = cfg.end /\ r.end.at < AdvanceByStep(r.start, cfg.step).at

\* Where the first n ranges of s end.
EndOf(s, n) == IF n = 0 THEN cfg.start.at ELSE s[n].end.at

\* SplitTimeRange "divides the [start, end) interval": whatever the step, the
\* calendar, the offsets and the order, no range is empty, each begins where the
\* one before it ends, each is one step long or ends at the end date, and at
\* every moment they make up the interval from the start date to the loop
\* variable.
RangesTile ==
  pc \in {"split", "run", "done"} =>
    /\ \A i \in 1..Len(ranges) : FitsIn(InOrder[i], EndOf(InOrder, i - 1))
    /\ current.at = EndOf(InOrder, Len(ranges))
    /\ pc # "split" => current.at = cfg.end.at

\* Of the i-th interval that vmctl has been told: the end that faces the ranges
\* already processed, and the other one.
Near(i) == IF cfg.reverse THEN told[i].to ELSE told[i].from
Far(i)  == IF cfg.reverse THEN told[i].from ELSE told[i].to

\* With dates in UTC, what the workers' vmctl is told is, range by range, what
\* vmselect was asked about, and when the run is over it was every instant from
\* the start date to the end date, once, in either order.  Nothing is said of
\* dates with another offset: buildVmctlArgs shifts their ranges by it.
UtcPlanIsCopied ==
  cfg.start.zone = 0 /\ cfg.end.zone = 0 =>
    /\ told = asked
    /\ \A i \in 1..Len(told) :
         /\ told[i].from < told[i].to
         /\ Near(i) = IF i > 1 THEN Far(i - 1)
                     ELSE IF cfg.reverse THEN cfg.end.at ELSE cfg.start.at
    /\ pc = "done" =>
         /\ told # <<>>
         /\ Far(Len(told)) = IF cfg.reverse THEN cfg.start.at ELSE cfg.end.at
=============================================================================
