----------------------------- MODULE PlanProofs -----------------------------
(* Proofs about Plan: the ranges tile the interval of the configuration, and  *)
(* with dates in UTC vmctl is told to copy it, once, for every calendar and   *)
(* every pair of dates.                                                       *)
EXTENDS Plan, TLAPS

Begun == pc \in {"split", "run", "done"}

\* What validateConfig establishes and SplitTimeRange keeps.
DatesInv ==
  Begun =>
    /\ cfg.start \in Time /\ cfg.end \in Time
    /\ cfg.start.at < cfg.end.at
    /\ cfg.splitting.max >= 100 /\ cfg.splitting.margin \in 0..99
    /\ current \in Time
    /\ current.at <= cfg.end.at

\* Only the two dates' offsets occur.
ZonesInv ==
  Begun =>
    /\ current.zone \in {cfg.start.zone, cfg.end.zone}
    /\ \A i \in 1..Len(ranges) :
         /\ ranges[i].start.zone \in {cfg.start.zone, cfg.end.zone}
         /\ ranges[i].end.zone \in {cfg.start.zone, cfg.end.zone}

LoopInv ==
  /\ Len(told) = Len(asked)
  /\ Len(asked) <= Len(ranges)
  /\ pc \in {"load", "rejected"} => ranges = <<>>
  /\ pc \in {"load", "rejected", "split"} => asked = <<>>

CfgTypeOK ==
  cfg \in [start : Dates, end : Dates, step : {"", "hour", "day", "month", "week"},
           reverse : BOOLEAN, splitting : Splitting]

PlanInv == CfgTypeOK /\ PlanTypeOK /\ DatesInv /\ ZonesInv /\ LoopInv

-----------------------------------------------------------------------------
\* The limit handed to the splitter is a number of series, 0 at the least.
LEMMA EffectiveLemma ==
  ASSUME NEW max \in Int, NEW margin \in 0..99, max >= 1
  PROVE  Effective(max, margin) \subseteq Nat
<1> DEFINE k == 100 - margin
           p == max * k
<1>1. k \in Int /\ k >= 1
  OBVIOUS
<1>2. p \in Int /\ p >= 1
  <2>1. \A a, b \in Int : a >= 1 /\ b >= 1 => a * b >= 1
    BY Z3T(30)
  <2> QED
    BY <1>1, <2>1
<1> HIDE DEF p
<1>3. p \div 100 \in Nat
  BY <1>2
<1>4. p % 100 = 0 => p \div 100 - 1 \in Nat
  BY <1>2
<1>5. Effective(max, margin) = {p \div 100} \union (IF p % 100 = 0 THEN {p \div 100 - 1} ELSE {})
  BY DEF Effective, p
<1> QED
  BY <1>3, <1>4, <1>5

\* A step moves the clock forward and keeps the offset.
LEMMA StepLemma ==
  ASSUME NEW t \in Time, NEW step
  PROVE  /\ StepHours(t, step) \in Nat \ {0}
         /\ AdvanceByStep(t, step) = [at |-> t.at + StepHours(t, step), zone |-> t.zone]
<1>1. t.at \in 0..Horizon /\ t.zone \in Zones
  BY DEF Time
<1>2. MonthHours(Local(t)) \in Nat \ {0}
  BY <1>1, PlanAssumption DEF Local
<1>3. StepHours(t, step) \in Nat \ {0}
  BY <1>2 DEF StepHours
<1>4. AdvanceByStep(t, step) = [at |-> t.at + StepHours(t, step), zone |-> t.zone]
  BY DEF AdvanceByStep, Time
<1> QED
  BY <1>3, <1>4

\* Reversing a list twice gives it back.
LEMMA ReversedLemma ==
  ASSUME NEW S, NEW s \in Seq(S)
  PROVE  /\ Reversed(s) \in Seq(S)
         /\ Len(Reversed(s)) = Len(s)
         /\ \A i \in 1..Len(s) : Reversed(s)[i] = s[Len(s) + 1 - i]
         /\ Reversed(Reversed(s)) = s
<1> DEFINE n == Len(s)
<1>1. n \in Nat /\ DOMAIN s = 1..n /\ s \in [1..n -> S]
  OBVIOUS
<1>2. Reversed(s) = [i \in 1..n |-> s[n + 1 - i]]
  BY <1>1 DEF Reversed
<1>3. Reversed(s) \in [1..n -> S]
  BY <1>1, <1>2
<1>4. Reversed(s) \in Seq(S) /\ Len(Reversed(s)) = n
  BY <1>1, <1>3
<1>5. Reversed(Reversed(s)) = [i \in 1..n |-> Reversed(s)[n + 1 - i]]
  BY <1>3, <1>4 DEF Reversed
<1>6. \A i \in 1..n : Reversed(Reversed(s))[i] = s[i]
  <2> SUFFICES ASSUME NEW i \in 1..n
               PROVE  Reversed(Reversed(s))[i] = s[i]
    OBVIOUS
  <2>1. n + 1 - i \in 1..n /\ n + 1 - (n + 1 - i) = i
    BY <1>1
  <2> QED
    BY <1>2, <1>5, <2>1
<1>7. Reversed(Reversed(s)) \in [1..n -> S]
  BY <1>1, <1>2, <1>5, <1>6
<1> QED
  BY <1>1, <1>2, <1>4, <1>6, <1>7

-----------------------------------------------------------------------------
LEMMA InitInv == Init => PlanInv
<1> SUFFICES ASSUME Init
             PROVE  PlanInv
  OBVIOUS
<1>1. CfgTypeOK
  BY LimitsAssumption DEF Init, CfgTypeOK, Text
<1>2. PlanTypeOK
  <2>1. cfg.start \in Dates /\ cfg.end \in Dates /\ cfg.reverse \in BOOLEAN
        /\ cfg.splitting \in Splitting
    BY <1>1 DEF CfgTypeOK
  <2> QED
    BY <2>1 DEF Init, PlanTypeOK
<1> QED
  BY <1>1, <1>2 DEF Init, PlanInv, DatesInv, ZonesInv, LoopInv, Begun

\* Defaults keep a configuration a configuration.
LEMMA DefaultsLemma == CfgTypeOK /\ LoadConfig => CfgTypeOK'
<1> SUFFICES ASSUME CfgTypeOK, LoadConfig
             PROVE  CfgTypeOK'
  OBVIOUS
<1>1. SplittingDefaults(cfg.splitting) \in Splitting
  <2>1. cfg.splitting \in Splitting
    BY DEF CfgTypeOK
  <2>2. Or(cfg.splitting.max, 100000) \in Int /\ Or(cfg.splitting.margin, 20) \in Int
    BY <2>1 DEF Or, Splitting
  <2> QED
    <3> DEFINE a == Or(cfg.splitting.max, 100000)
               b == Or(cfg.splitting.margin, 20)
    <3>1. a \in Int /\ b \in Int
      BY <2>2
    <3>2. SplittingDefaults(cfg.splitting) = [cfg.splitting EXCEPT !.max = a, !.margin = b]
      BY DEF SplittingDefaults
    <3> HIDE DEF a, b
    <3> QED
      BY <2>1, <3>1, <3>2 DEF Splitting
<1> QED
  BY <1>1 DEF CfgTypeOK, LoadConfig, WithDefaults

LEMMA LoadStep == PlanInv /\ LoadConfig => PlanInv'
<1> SUFFICES ASSUME PlanInv, LoadConfig
             PROVE  PlanInv'
  OBVIOUS
<1> USE DEF PlanInv, LoadConfig
<1>1. CfgTypeOK'
  BY DefaultsLemma
<1>2. CASE Valid(cfg')
  <2>1. cfg'.start \in Time /\ cfg'.end \in Time /\ cfg'.start.at < cfg'.end.at
    <3>1. cfg'.start \in Dates /\ cfg'.end \in Dates
      BY <1>1 DEF CfgTypeOK
    <3> QED
      BY <1>2, <3>1, DatesAssumption DEF Valid
  <2>2. DatesInv'
    <3>1. current' = cfg'.start
      BY <1>2
    <3>2. cfg'.splitting.max >= 100 /\ cfg'.splitting.margin \in 0..99
      BY <1>2 DEF Valid
    <3>3. cfg'.start.at <= cfg'.end.at
      BY <2>1 DEF Time
    <3> QED
      BY <2>1, <3>1, <3>2, <3>3 DEF DatesInv
  <2>3. limit' \in Nat
    <3>1. cfg'.splitting \in Splitting
      BY <1>1 DEF CfgTypeOK
    <3>2. cfg'.splitting.max >= 100 /\ cfg'.splitting.margin \in 0..99
      BY <1>2 DEF Valid
    <3> DEFINE m == IF cfg'.splitting.override > 0 THEN cfg'.splitting.override ELSE cfg'.splitting.max
    <3>3. m \in Int /\ m >= 1
      BY <3>1, <3>2 DEF Splitting
    <3>4. limit' \in Effective(m, cfg'.splitting.margin)
      BY <1>2 DEF EffectiveMaxSeriesForMetric
    <3> HIDE DEF m
    <3> QED
      BY <3>2, <3>3, <3>4, EffectiveLemma
  <2>4. PlanTypeOK'
    BY <1>1, <1>2, <2>1, <2>3 DEF PlanTypeOK, CfgTypeOK
  <2>5. ZonesInv' /\ LoopInv'
    BY <1>2, <2>1 DEF ZonesInv, LoopInv, Begun
  <2> QED
    BY <1>1, <2>2, <2>4, <2>5
<1>3. CASE ~Valid(cfg')
  <2>1. PlanTypeOK'
    BY <1>1, <1>3 DEF PlanTypeOK, CfgTypeOK
  <2> QED
    BY <1>1, <1>3, <2>1 DEF DatesInv, ZonesInv, LoopInv, Begun
<1> QED
  BY <1>2, <1>3

\* What one turn of SplitTimeRange's loop appends.
LEMMA NextLemma ==
  ASSUME PlanInv, NextRange
  PROVE  \E next \in Time :
           /\ current.at < next.at /\ next.at <= cfg.end.at
           /\ next.zone \in {cfg.start.zone, cfg.end.zone}
           /\ \/ next = AdvanceByStep(current, cfg.step)
              \/ next = cfg.end /\ next.at < AdvanceByStep(current, cfg.step).at
           /\ ranges' = Append(ranges, Range(current, next))
           /\ current' = next
<1> DEFINE step == AdvanceByStep(current, cfg.step)
           next == IF step.at > cfg.end.at THEN cfg.end ELSE step
<1>1. current \in Time /\ cfg.end \in Time /\ current.at < cfg.end.at
  BY DEF PlanInv, DatesInv, Begun, NextRange
<1>2. step = [at |-> current.at + StepHours(current, cfg.step), zone |-> current.zone]
      /\ StepHours(current, cfg.step) \in Nat \ {0}
  BY <1>1, StepLemma
<1>3. current.zone \in {cfg.start.zone, cfg.end.zone}
  BY DEF PlanInv, ZonesInv, Begun, NextRange
<1>4. ranges' = Append(ranges, Range(current, next)) /\ current' = next
  BY DEF NextRange
<1>5. step.at = current.at + StepHours(current, cfg.step) /\ step.zone = current.zone
  BY <1>2
<1>6. CASE step.at > cfg.end.at
  <2>1. next = cfg.end
    BY <1>6
  <2> QED
    BY <1>1, <1>4, <1>6, <2>1 DEF Time
<1>7. CASE ~(step.at > cfg.end.at)
  <2>1. next = step
    BY <1>7
  <2>2. step.at \in 0..Horizon /\ step \in Time
    BY <1>1, <1>2, <1>5, <1>7, PlanAssumption DEF Time
  <2> QED
    BY <1>1, <1>2, <1>3, <1>4, <1>5, <1>7, <2>1, <2>2, PlanAssumption DEF Time
<1> QED
  BY <1>6, <1>7

LEMMA NextStep == PlanInv /\ NextRange => PlanInv'
<1> SUFFICES ASSUME PlanInv, NextRange
             PROVE  PlanInv'
  OBVIOUS
<1>1. PICK next \in Time :
        /\ current.at < next.at /\ next.at <= cfg.end.at
        /\ next.zone \in {cfg.start.zone, cfg.end.zone}
        /\ ranges' = Append(ranges, Range(current, next))
        /\ current' = next
  BY NextLemma
<1>2. UNCHANGED <<cfg, pc, limit, asked, told>> /\ pc = "split"
  BY DEF NextRange
<1>3. current \in Time /\ ranges \in Seq(TimeRange)
  BY <1>2 DEF PlanInv, DatesInv, PlanTypeOK, Begun
<1>4. Range(current, next) \in TimeRange
  BY <1>3 DEF Range, TimeRange
<1>5. ranges' \in Seq(TimeRange) /\ Len(ranges') = Len(ranges) + 1
  BY <1>1, <1>3, <1>4
<1>6. PlanTypeOK' /\ CfgTypeOK' /\ DatesInv'
  BY <1>1, <1>2, <1>5 DEF PlanInv, PlanTypeOK, CfgTypeOK, DatesInv, Begun
<1>7. LoopInv'
  BY <1>2, <1>3, <1>5 DEF PlanInv, LoopInv, PlanTypeOK
<1>8. ZonesInv'
  <2> SUFFICES ASSUME NEW i \in 1..Len(ranges')
               PROVE  /\ ranges'[i].start.zone \in {cfg.start.zone, cfg.end.zone}
                      /\ ranges'[i].end.zone \in {cfg.start.zone, cfg.end.zone}
    BY <1>1, <1>2 DEF ZonesInv, Begun
  <2>1. current.zone \in {cfg.start.zone, cfg.end.zone}
    BY <1>2 DEF PlanInv, ZonesInv, Begun
  <2>2. CASE i \in 1..Len(ranges)
    <3>1. ranges'[i] = ranges[i]
      BY <1>1, <1>3, <1>4, <2>2
    <3> QED
      BY <1>2, <2>2, <3>1 DEF PlanInv, ZonesInv, Begun
  <2>3. CASE i = Len(ranges) + 1
    <3>1. ranges'[i] = Range(current, next)
      BY <1>1, <1>3, <1>4, <2>3
    <3> QED
      BY <1>1, <2>1, <3>1 DEF Range
  <2> QED
    BY <1>3, <1>5, <2>2, <2>3
<1> QED
  BY <1>6, <1>7, <1>8 DEF PlanInv

LEMMA DoneStep == PlanInv /\ RangesDone => PlanInv'
<1> SUFFICES ASSUME PlanInv, RangesDone
             PROVE  PlanInv'
  OBVIOUS
<1>1. pc = "split" /\ pc' = "run" /\ UNCHANGED <<cfg, limit, current, asked, told>>
  BY DEF RangesDone
<1>2. ranges \in Seq(TimeRange) /\ asked = <<>> /\ Len(told) = Len(asked)
  BY <1>1 DEF PlanInv, PlanTypeOK, LoopInv
<1>3. /\ ranges' \in Seq(TimeRange)
      /\ Len(ranges') = Len(ranges)
      /\ \A i \in 1..Len(ranges) : \E j \in 1..Len(ranges) : ranges'[i] = ranges[j]
  <2>1. CASE cfg.reverse
    <3>1. \A i \in 1..Len(ranges) : Len(ranges) + 1 - i \in 1..Len(ranges)
      BY <1>2
    <3> QED
      BY <1>2, <2>1, <3>1, ReversedLemma DEF RangesDone
  <2> QED
    BY <1>2, <2>1 DEF RangesDone
<1>4. ZonesInv'
  BY <1>1, <1>3 DEF PlanInv, ZonesInv, Begun
<1>5. PlanTypeOK' /\ CfgTypeOK' /\ DatesInv' /\ LoopInv'
  BY <1>1, <1>2, <1>3 DEF PlanInv, PlanTypeOK, CfgTypeOK, DatesInv, LoopInv, Begun
<1> QED
  BY <1>4, <1>5 DEF PlanInv

\* The intervals of one range, as they are asked for.
LEMMA AskedLemma ==
  ASSUME NEW r \in TimeRange
  PROVE  /\ Discover(r) = [from |-> r.start.at, to |-> r.end.at]
         /\ VmctlArgs(r) = [from |-> r.start.at + r.start.zone, to |-> r.end.at + r.end.zone]
         /\ Discover(r) \in Interval
         /\ VmctlArgs(r) \in Interval
<1>1. r.start.at \in Int /\ r.end.at \in Int /\ r.start.zone \in Int /\ r.end.zone \in Int
  <2>1. r.start \in Time /\ r.end \in Time
    BY DEF TimeRange
  <2>2. \A t \in Time : t.at \in 0..Horizon /\ t.zone \in Zones
    BY DEF Time
  <2> QED
    <3>1. \A t \in 0..Horizon : t \in Int
      BY PlanAssumption
    <3> QED
      BY <2>1, <2>2, <3>1, PlanAssumption, Zenon
<1> QED
  BY <1>1 DEF Discover, VmctlArgs, Local, Interval

LEMMA ProcessStep == PlanInv /\ ProcessRange => PlanInv'
<1> SUFFICES ASSUME PlanInv, ProcessRange
             PROVE  PlanInv'
  OBVIOUS
<1> DEFINE r == ranges[Len(asked) + 1]
<1>1. /\ pc = "run" /\ Len(asked) < Len(ranges)
      /\ UNCHANGED <<cfg, pc, limit, current, ranges>>
      /\ asked' = Append(asked, Discover(r)) /\ told' = Append(told, VmctlArgs(r))
  BY DEF ProcessRange
<1>2. /\ ranges \in Seq(TimeRange)
      /\ asked \in Seq(Interval) /\ told \in Seq(Interval)
      /\ Len(told) = Len(asked)
  BY DEF PlanInv, PlanTypeOK, LoopInv
<1>3. r \in TimeRange
  <2>1. Len(asked) + 1 \in 1..Len(ranges)
    BY <1>1, <1>2
  <2> QED
    BY <1>2, <2>1
<1>4. /\ asked' \in Seq(Interval) /\ told' \in Seq(Interval)
      /\ Len(asked') = Len(asked) + 1 /\ Len(told') = Len(told) + 1
  BY <1>1, <1>2, <1>3, AskedLemma
<1>5. PlanTypeOK' /\ CfgTypeOK' /\ DatesInv' /\ ZonesInv'
  BY <1>1, <1>4 DEF PlanInv, PlanTypeOK, CfgTypeOK, DatesInv, ZonesInv, Begun
<1>6. LoopInv'
  BY <1>1, <1>2, <1>4 DEF PlanInv, LoopInv
<1> QED
  BY <1>5, <1>6 DEF PlanInv

LEMMA StepInv == PlanInv /\ [Next]_vars => PlanInv'
<1> SUFFICES ASSUME PlanInv, [Next]_vars
             PROVE  PlanInv'
  OBVIOUS
<1>1. CASE AllProcessed
  BY <1>1 DEF AllProcessed, PlanInv, PlanTypeOK, CfgTypeOK, DatesInv, ZonesInv, LoopInv, Begun
<1>2. CASE UNCHANGED vars
  <2>1. CfgTypeOK' /\ PlanTypeOK'
    BY <1>2 DEF vars, PlanInv, PlanTypeOK, CfgTypeOK
  <2>2. DatesInv' /\ ZonesInv' /\ LoopInv'
    BY <1>2 DEF vars, PlanInv, DatesInv, ZonesInv, LoopInv, Begun
  <2> QED
    BY <2>1, <2>2 DEF PlanInv
<1> QED
  BY <1>1, <1>2, LoadStep, NextStep, DoneStep, ProcessStep DEF Next

LEMMA SpecInv == Spec => []PlanInv
  BY InitInv, StepInv, PTL DEF Spec

\* Type correctness; whatever configuration is accepted, the splitter gets a
\* limit it can work with (LoadConfig, EffectiveMaxSeriesForMetric).
THEOREM PlanTypeCorrect == Spec => []PlanTypeOK
<1>1. PlanInv => PlanTypeOK
  BY DEF PlanInv
<1> QED
  BY <1>1, SpecInv, PTL

-----------------------------------------------------------------------------
LEMMA TileNext == PlanInv /\ RangesTile /\ NextRange => RangesTile'
<1> SUFFICES ASSUME PlanInv, RangesTile, NextRange
             PROVE  RangesTile'
  OBVIOUS
<1> DEFINE n == Len(ranges)
<1>1. PICK next \in Time :
        /\ current.at < next.at /\ next.at <= cfg.end.at
        /\ \/ next = AdvanceByStep(current, cfg.step)
           \/ next = cfg.end /\ next.at < AdvanceByStep(current, cfg.step).at
        /\ ranges' = Append(ranges, Range(current, next))
        /\ current' = next
  BY NextLemma
<1>2. pc = "split" /\ pc' = "split" /\ cfg' = cfg
  BY DEF NextRange
<1>3. ranges \in Seq(TimeRange) /\ current \in Time
  BY <1>2 DEF PlanInv, PlanTypeOK, DatesInv, Begun
<1>4. InOrder = ranges /\ InOrder' = ranges'
  BY <1>2 DEF InOrder
<1>5. Range(current, next) \in TimeRange
  BY <1>3 DEF Range, TimeRange
<1>6. /\ n \in Nat /\ Len(ranges') = n + 1 /\ ranges'[n + 1] = Range(current, next)
      /\ \A i \in 1..n : ranges'[i] = ranges[i]
  BY <1>1, <1>3, <1>5
<1>7. /\ \A i \in 1..n : FitsIn(ranges[i], EndOf(ranges, i - 1))
      /\ current.at = EndOf(ranges, n)
  BY <1>2, <1>4 DEF RangesTile
<1>8. \A i \in 0..n : EndOf(ranges', i) = EndOf(ranges, i)
  BY <1>6 DEF EndOf
<1>9. \A i \in 1..(n + 1) : FitsIn(ranges'[i], EndOf(ranges', i - 1))
  <2> SUFFICES ASSUME NEW i \in 1..(n + 1)
               PROVE  FitsIn(ranges'[i], EndOf(ranges, i - 1))
    BY <1>6, <1>8
  <2>1. CASE i \in 1..n
    BY <1>6, <1>7, <2>1
  <2>2. CASE i = n + 1
    <3>1. ranges'[i] = Range(current, next) /\ EndOf(ranges, i - 1) = current.at
      BY <1>6, <1>7, <2>2
    <3> QED
      BY <1>1, <3>1 DEF FitsIn, Range
  <2> QED
    BY <1>6, <2>1, <2>2
<1>10. current'.at = EndOf(ranges', n + 1)
  BY <1>1, <1>6 DEF EndOf, Range
<1> QED
  BY <1>2, <1>4, <1>6, <1>9, <1>10 DEF RangesTile, FitsIn, EndOf

LEMMA TileDone == PlanInv /\ RangesTile /\ RangesDone => RangesTile'
<1> SUFFICES ASSUME PlanInv, RangesTile, RangesDone
             PROVE  RangesTile'
  OBVIOUS
<1>1. /\ pc = "split" /\ pc' = "run" /\ cfg' = cfg /\ current' = current
      /\ current.at >= cfg.end.at
      /\ ranges' = IF cfg.reverse THEN Reversed(ranges) ELSE ranges
  BY DEF RangesDone
<1>2. ranges \in Seq(TimeRange)
  BY DEF PlanInv, PlanTypeOK
<1>3. InOrder = ranges /\ InOrder' = ranges /\ Len(ranges') = Len(ranges)
  BY <1>1, <1>2, ReversedLemma DEF InOrder
<1>4. current.at = cfg.end.at
  <2>1. current \in Time /\ cfg.end \in Time /\ current.at <= cfg.end.at
    BY <1>1 DEF PlanInv, DatesInv, Begun
  <2> QED
    BY <1>1, <2>1, PlanAssumption DEF Time
<1> QED
  BY <1>1, <1>3, <1>4 DEF RangesTile, FitsIn, EndOf

LEMMA TileStep == PlanInv /\ RangesTile /\ [Next]_vars => RangesTile'
<1> SUFFICES ASSUME PlanInv, RangesTile, [Next]_vars
             PROVE  RangesTile'
  OBVIOUS
<1>1. CASE LoadConfig
  <2>1. ranges = <<>> /\ ranges' = <<>>
    BY <1>1 DEF LoadConfig, PlanInv, LoopInv
  <2>2. pc' \in {"rejected", "split"} /\ (pc' = "split" => current' = cfg'.start)
    BY <1>1 DEF LoadConfig
  <2> QED
    BY <2>1, <2>2 DEF RangesTile, EndOf
<1>2. CASE ProcessRange \/ AllProcessed \/ UNCHANGED vars
  <2>1. /\ UNCHANGED <<cfg, current, ranges>>
        /\ pc' = pc \/ {pc, pc'} = {"run", "done"}
    <3>1. CASE ProcessRange
      BY <3>1 DEF ProcessRange
    <3>2. CASE AllProcessed
      BY <3>2 DEF AllProcessed
    <3>3. CASE UNCHANGED vars
      BY <3>3 DEF vars
    <3> QED
      BY <1>2, <3>1, <3>2, <3>3
  <2>2. InOrder' = InOrder
    BY <2>1 DEF InOrder
  <2> QED
    BY <2>1, <2>2 DEF RangesTile, FitsIn, EndOf
<1> QED
  BY <1>1, <1>2, TileNext, TileDone DEF Next

\* SplitTimeRange divides [start, end) into adjacent steps, for every calendar,
\* every pair of dates and offsets, both orders and all steps.
THEOREM RangesTileTheInterval == Spec => []RangesTile
<1>1. Init => RangesTile
  BY DEF Init, RangesTile
<1> QED
  BY <1>1, SpecInv, TileStep, PTL DEF Spec

-----------------------------------------------------------------------------
\* What was asked for and told is what the ranges say, in the end all of them.
ToldInv ==
  /\ \A i \in 1..Len(told) : told[i] = VmctlArgs(ranges[i]) /\ asked[i] = Discover(ranges[i])
  /\ pc = "done" => Len(told) = Len(ranges)

LEMMA ToldStep == PlanInv /\ ToldInv /\ [Next]_vars => ToldInv'
<1> SUFFICES ASSUME PlanInv, ToldInv, [Next]_vars
             PROVE  ToldInv'
  OBVIOUS
<1>0. (pc = "done" => Len(told) = Len(ranges))'
  <2>1. CASE LoadConfig \/ NextRange \/ RangesDone \/ ProcessRange
    <3>1. pc' # "done"
      BY <2>1 DEF LoadConfig, NextRange, RangesDone, ProcessRange
    <3> QED
      BY <3>1
  <2>2. CASE AllProcessed
    BY <2>2 DEF AllProcessed, PlanInv, LoopInv
  <2>3. CASE UNCHANGED vars
    BY <2>3 DEF vars, ToldInv
  <2> QED
    BY <2>1, <2>2, <2>3 DEF Next
<1> SUFFICES ASSUME NEW i \in 1..Len(told')
             PROVE  /\ told'[i] = VmctlArgs(ranges'[i])
                    /\ asked'[i] = Discover(ranges'[i])
  BY <1>0 DEF ToldInv, VmctlArgs, Discover, Local
<1>1. /\ ranges \in Seq(TimeRange) /\ asked \in Seq(Interval) /\ told \in Seq(Interval)
      /\ Len(told) = Len(asked)
  BY DEF PlanInv, PlanTypeOK, LoopInv
<1>2. CASE LoadConfig \/ NextRange \/ RangesDone
  <2>1. asked = <<>> /\ told' = told
    BY <1>2 DEF LoadConfig, NextRange, RangesDone, PlanInv, LoopInv
  <2>2. Len(told') = 0
    BY <1>1, <2>1
  <2> QED
    BY <2>2
<1>3. CASE ProcessRange
  <2> DEFINE n == Len(asked)
             r == ranges[n + 1]
  <2>1. /\ n < Len(ranges) /\ ranges' = ranges
        /\ asked' = Append(asked, Discover(r)) /\ told' = Append(told, VmctlArgs(r))
    BY <1>3 DEF ProcessRange
  <2>2. n + 1 \in 1..Len(ranges)
    BY <1>1, <2>1
  <2>3. Discover(r) \in Interval /\ VmctlArgs(r) \in Interval
    BY <1>1, <2>2, AskedLemma
  <2>4. CASE i \in 1..n
    <3>1. told'[i] = told[i] /\ asked'[i] = asked[i] /\ i \in 1..Len(told)
      BY <1>1, <2>1, <2>3, <2>4
    <3> QED
      BY <2>1, <3>1 DEF ToldInv
  <2>5. CASE i = n + 1
    <3>1. told'[i] = VmctlArgs(r) /\ asked'[i] = Discover(r)
      BY <1>1, <2>1, <2>3, <2>5
    <3> QED
      BY <2>1, <2>5, <3>1
  <2>6. Len(told') = n + 1
    BY <1>1, <2>1, <2>3
  <2> QED
    BY <1>1, <2>4, <2>5, <2>6
<1>4. CASE AllProcessed \/ UNCHANGED vars
  <2>1. UNCHANGED <<ranges, asked, told>>
    BY <1>4 DEF AllProcessed, vars
  <2> QED
    BY <2>1 DEF ToldInv
<1> QED
  BY <1>2, <1>3, <1>4 DEF Next

LEMMA ToldAsPlanned == PlanInv /\ RangesTile /\ ToldInv => UtcPlanIsCopied
<1> SUFFICES ASSUME PlanInv, RangesTile, ToldInv, cfg.start.zone = 0, cfg.end.zone = 0
             PROVE  /\ told = asked
                    /\ \A i \in 1..Len(told) :
                         /\ told[i].from < told[i].to
                         /\ Near(i) = IF i > 1 THEN Far(i - 1)
                                     ELSE IF cfg.reverse THEN cfg.end.at ELSE cfg.start.at
                    /\ pc = "done" =>
                         /\ told # <<>>
                         /\ Far(Len(told)) = IF cfg.reverse THEN cfg.start.at ELSE cfg.end.at
  BY DEF UtcPlanIsCopied
<1> DEFINE n == Len(ranges)
           k == Len(told)
<1>1. /\ ranges \in Seq(TimeRange) /\ told \in Seq(Interval) /\ asked \in Seq(Interval)
      /\ n \in Nat /\ k \in Nat /\ k = Len(asked) /\ k <= n
      /\ k > 0 => pc \in {"run", "done"}
      /\ cfg.reverse \in BOOLEAN
  BY DEF PlanInv, PlanTypeOK, LoopInv
<1>2. ASSUME NEW i \in 1..k
      PROVE  /\ told[i] = [from |-> ranges[i].start.at, to |-> ranges[i].end.at]
             /\ asked[i] = told[i]
             /\ i \in 1..n /\ ranges[i] \in TimeRange
  <2>1. i \in 1..n /\ ranges[i] \in TimeRange /\ pc \in {"run", "done"}
    BY <1>1
  <2>2. ranges[i].start.zone = 0 /\ ranges[i].end.zone = 0
    BY <2>1 DEF PlanInv, ZonesInv, Begun
  <2>3. ranges[i].start.at \in Int /\ ranges[i].end.at \in Int
    BY <2>1, PlanAssumption DEF TimeRange, Time
  <2> QED
    BY <2>1, <2>2, <2>3 DEF ToldInv, VmctlArgs, Discover, Local
<1>3. told = asked
  <2>1. told \in [1..k -> Interval] /\ asked \in [1..k -> Interval]
    BY <1>1
  <2> QED
    BY <1>2, <2>1
<1>4. ASSUME pc \in {"run", "done"}
      PROVE  /\ Len(InOrder) = n
             /\ \A i \in 1..n : InOrder[i] = IF cfg.reverse THEN ranges[n + 1 - i] ELSE ranges[i]
             /\ \A i \in 1..n : /\ InOrder[i].start.at < InOrder[i].end.at
                               /\ InOrder[i].start.at = EndOf(InOrder, i - 1)
             /\ cfg.end.at = EndOf(InOrder, n)
  <2>1. /\ Len(InOrder) = n
        /\ \A i \in 1..n : InOrder[i] = IF cfg.reverse THEN ranges[n + 1 - i] ELSE ranges[i]
    BY <1>1, <1>4, ReversedLemma DEF InOrder
  <2> QED
    BY <1>4, <2>1 DEF RangesTile, FitsIn
<1>5. ASSUME NEW i \in 1..k
      PROVE  /\ told[i].from < told[i].to
             /\ Near(i) = IF i > 1 THEN Far(i - 1)
                         ELSE IF cfg.reverse THEN cfg.end.at ELSE cfg.start.at
  <2>1. pc \in {"run", "done"} /\ i \in 1..n /\ (i > 1 => i - 1 \in 1..k)
    BY <1>1
  <2>2. /\ told[i] = [from |-> ranges[i].start.at, to |-> ranges[i].end.at]
        /\ i > 1 => told[i - 1] = [from |-> ranges[i - 1].start.at, to |-> ranges[i - 1].end.at]
    BY <1>2, <2>1
  <2>3. CASE cfg.reverse
    <3> DEFINE j == n + 1 - i
    <3>1. j \in 1..n /\ n + 1 - j = i /\ (i > 1 => j + 1 \in 1..n /\ n + 1 - (j + 1) = i - 1)
          /\ (i = 1 => j = n) /\ j \in Nat /\ j # 0
      <4>1. PICK m \in Nat : m = n
        BY <1>1
      <4>2. i \in 1..m
        BY <2>1, <4>1
      <4> QED
        BY ONLY <4>1, <4>2
    <3>2. InOrder[j] = ranges[i] /\ InOrder[j].start.at < InOrder[j].end.at
      BY <1>4, <2>1, <2>3, <3>1
    <3>3. ASSUME i > 1
          PROVE  ranges[i - 1].start.at = ranges[i].end.at
      <4>1. j + 1 \in 1..n /\ InOrder[j + 1] = ranges[i - 1]
        BY <1>4, <2>1, <2>3, <3>1, <3>3
      <4>2. InOrder[j + 1].start.at = EndOf(InOrder, j)
        <5>1. (j + 1) - 1 = j
          BY <3>1
        <5> QED
          BY <1>4, <2>1, <4>1, <5>1
      <4> QED
        BY <3>1, <3>2, <4>1, <4>2 DEF EndOf
    <3>4. i = 1 => cfg.end.at = ranges[i].end.at
      BY <1>4, <2>1, <3>1, <3>2 DEF EndOf
    <3> QED
      BY <2>1, <2>3, <2>2, <3>2, <3>3, <3>4 DEF Near, Far
  <2>4. CASE ~cfg.reverse
    <3>1. /\ ranges[i].start.at < ranges[i].end.at
          /\ ranges[i].start.at = EndOf(InOrder, i - 1)
          /\ i > 1 => InOrder[i - 1] = ranges[i - 1]
      BY <1>1, <1>4, <2>1, <2>4
    <3> QED
      BY <2>1, <2>4, <2>2, <3>1 DEF Near, Far, EndOf
  <2> QED
    BY <2>3, <2>4
<1>6. ASSUME pc = "done"
      PROVE  /\ told # <<>>
             /\ Far(k) = IF cfg.reverse THEN cfg.start.at ELSE cfg.end.at
  <2>1. k = n
    BY <1>6 DEF ToldInv
  <2>2. n # 0
    <3>1. cfg.start.at < cfg.end.at /\ cfg.start.at \in Int
      BY <1>6, PlanAssumption DEF PlanInv, DatesInv, Begun, Time
    <3> QED
      BY <1>4, <1>6, <3>1 DEF EndOf
  <2>3. n \in 1..k /\ 1 \in 1..n /\ told # <<>>
    BY <1>1, <2>1, <2>2
  <2>4. told[k] = [from |-> ranges[n].start.at, to |-> ranges[n].end.at]
    BY <1>2, <2>1, <2>3
  <2>5. CASE cfg.reverse
    <3>1. InOrder[1] = ranges[n] /\ InOrder[1].start.at = cfg.start.at
      BY <1>1, <1>4, <1>6, <2>3, <2>5 DEF EndOf
    <3> QED
      BY <2>3, <2>5, <2>4, <3>1 DEF Far
  <2>6. CASE ~cfg.reverse
    <3>1. InOrder[n] = ranges[n] /\ cfg.end.at = InOrder[n].end.at
      BY <1>1, <1>4, <1>6, <2>2, <2>3, <2>6 DEF EndOf
    <3> QED
      BY <1>4, <1>6, <2>3, <2>6, <2>4, <3>1 DEF Far
  <2> QED
    BY <2>3, <2>5, <2>6
<1> QED
  BY <1>3, <1>5, <1>6

\* With dates in UTC the workers' vmctl is told what DiscoverMetrics asked about,
\* and in the end every instant of the configured interval, once.
THEOREM UtcIntervalIsCopied == Spec => []UtcPlanIsCopied
<1>1. Init => ToldInv /\ RangesTile
  BY DEF Init, ToldInv, RangesTile
<1> QED
  BY <1>1, SpecInv, ToldStep, TileStep, ToldAsPlanned, PTL DEF Spec
=============================================================================
