------------------------------ MODULE RunProofs ------------------------------
(* Proofs about a migration run seen with its loggers (Tracker) and with its  *)
(* data (Coverage).  Both are migration runs, so the theorems of              *)
(* MigrationProofs hold of them; no logger is left behind, and no series is   *)
(* forgotten or migrated by two tasks.                                        *)
EXTENDS Tracker, Coverage, MigrationProofs

\* The loggers share nothing with the run.
THEOREM TrackedRunsAreRuns == TrackedSpec => Spec
<1>1. TrackedInit => Init
  BY DEF TrackedInit
<1>2. [TrackedNext]_<<vars, trackerVars>> => [Next]_vars
  BY DEF TrackedNext
<1> QED
  BY <1>1, <1>2, PTL DEF TrackedSpec, Spec

-----------------------------------------------------------------------------
\* Where a step takes the process, and what it does to the count of ranges.
LEMMA ProcMoves ==
  ASSUME MigrationTypeOK, [Next]_vars
  PROVE  /\ range' \in Nat
         /\ \/ proc' = "off"
            \/ proc' = proc /\ range' = range
            \/ proc = "off" /\ proc' \notin {"off", "discover", "exec"} /\ range' = 0
            \/ proc = "ranges" /\ proc' = "discover" /\ range' = range + 1
            \/ proc = "discover" /\ proc' \in {"ranges", "exec"} /\ range' = range
            \/ proc = "exec" /\ proc' = "ranges" /\ range' = range
            \/ {proc, proc'} \intersect {"off", "discover", "exec"} = {} /\ range' = range
<1>1. range \in Nat
  BY DEF MigrationTypeOK, Ranges
<1>2. ASSUME NEW dry \in BOOLEAN, StartProcess(dry)
      PROVE  proc = "off" /\ proc' \notin {"off", "discover", "exec"} /\ range' = 0
  BY <1>2 DEF StartProcess
<1>3. CASE CreateFails \/ StartupFails \/ ReturnCancelled \/ ExecutionCancelled \/ DryRunEnds
           \/ Finish \/ Crash
  BY <1>1, <1>3 DEF CreateFails, StartupFails, ReturnCancelled, ExecutionCancelled, DryRunEnds,
    Finish, Crash, Return
<1>4. CASE Signal \/ TaskStep \/ OperatorDeletes
  BY <1>1, <1>4 DEF Signal, TaskStep, OperatorDeletes
<1>5. CASE CreateDeployment \/ WorkersReady \/ GenerateReport
  BY <1>1, <1>5 DEF CreateDeployment, WorkersReady, GenerateReport
<1>6. CASE NextRange
  BY <1>1, <1>6 DEF NextRange
<1>7. CASE DiscoveryFails \/ NothingDiscovered \/ RangeEnds
  BY <1>1, <1>7 DEF DiscoveryFails, NothingDiscovered, RangeEnds
<1>8. ASSUME NEW n \in 1..MaxBatch, Discovered(n)
      PROVE  proc = "discover" /\ proc' \in {"ranges", "exec"} /\ range' = range
  BY <1>8 DEF Discovered
<1>9. CASE UNCHANGED vars
  BY <1>1, <1>9 DEF vars
<1> QED
  BY <1>1, <1>2, <1>3, <1>4, <1>5, <1>6, <1>7, <1>8, <1>9, MigrationStepCases

\* The channel in hand is open while a range is executed and closed otherwise;
\* all the earlier ones are closed.
LoggerInv ==
  /\ stopCh \in Nat
  /\ at \in [Ranges -> LoggerPC]
  /\ on \in [Ranges -> 0..stopCh]
  /\ closed = 1..(IF proc = "exec" THEN stopCh - 1 ELSE stopCh)
  /\ stopCh <= range
  /\ proc = "off" => stopCh = 0 /\ \A g \in Ranges : at[g] = "none"
  /\ proc = "discover" => stopCh < range
  /\ proc = "exec" => stopCh >= 1
  /\ \A g \in Ranges :
       /\ at[g] # "none" => stopCh >= 1
       /\ at[g] = "waiting" => on[g] >= 1

LEMMA LoggerInit == TrackedInit => LoggerInv
  BY MigrationAssumption DEF TrackedInit, Init, NewTracker, LoggerInv, LoggerPC, Ranges

LEMMA CallsStep ==
  ASSUME MigrationTypeOK, LoggerInv, Next, Calls
  PROVE  LoggerInv'
<1>1. range \in Nat /\ range' \in Nat
  BY ProcMoves DEF MigrationTypeOK, Ranges
<1>2. CASE proc' = "off" /\ NoTracker
  BY <1>1, <1>2 DEF NoTracker, LoggerInv, LoggerPC
<1>3. CASE proc # "exec" /\ proc' = "exec" /\ Start
  <2>1. proc = "discover" /\ range' = range
    BY <1>3, ProcMoves
  <2>2. stopCh' = stopCh + 1 /\ stopCh' <= range' /\ stopCh \in Nat
    BY <1>1, <1>3, <2>1 DEF LoggerInv, Start
  <2>3. at' \in [Ranges -> LoggerPC] /\ on' = on /\ closed' = closed
    BY <1>3 DEF LoggerInv, LoggerPC, Start
  <2>4. on' \in [Ranges -> 0..stopCh']
    BY <2>2, <2>3 DEF LoggerInv
  <2>5. \A g \in Ranges : at'[g] = "waiting" => at[g] = "waiting"
    BY <1>3 DEF LoggerInv, Start
  <2>6. closed' = 1..(stopCh' - 1)
    BY <1>3, <2>2, <2>3 DEF LoggerInv
  <2> QED
    BY <1>3, <2>2, <2>3, <2>4, <2>5, <2>6 DEF LoggerInv
<1>4. CASE proc = "exec" /\ proc' = "ranges" /\ Stop
  <2>1. range' = range
    BY <1>4, ProcMoves
  <2>2. closed' = 1..stopCh'
    BY <1>4 DEF LoggerInv, Stop
  <2> QED
    BY <1>4, <2>1, <2>2 DEF LoggerInv, Stop
<1>5. CASE proc' # "off" /\ (proc = proc' \/ "exec" \notin {proc, proc'}) /\ UNCHANGED trackerVars
  <2>1. \/ proc' = proc /\ range' = range
        \/ proc = "off" /\ proc' \notin {"off", "discover", "exec"} /\ range' = 0
        \/ proc = "ranges" /\ proc' = "discover" /\ range' = range + 1
        \/ proc = "discover" /\ proc' = "ranges" /\ range' = range
        \/ {proc, proc'} \intersect {"off", "discover", "exec"} = {} /\ range' = range
    BY <1>5, ProcMoves
  <2>2. UNCHANGED <<stopCh, closed, at, on>>
    BY <1>5 DEF trackerVars
  <2>3. stopCh' <= range' /\ (proc' = "discover" => stopCh' < range')
    <3>1. stopCh \in Nat /\ stopCh' = stopCh /\ stopCh <= range
      BY <2>2 DEF LoggerInv
    <3>2. CASE proc = "off" /\ proc' \notin {"off", "discover", "exec"} /\ range' = 0
      BY <3>1, <3>2 DEF LoggerInv
    <3>3. CASE proc = "ranges" /\ proc' = "discover" /\ range' = range + 1
      BY <1>1, <3>1, <3>3
    <3>4. CASE proc' = proc /\ range' = range
      BY <3>1, <3>4 DEF LoggerInv
    <3>5. CASE proc = "discover" /\ proc' = "ranges" /\ range' = range
      BY <3>1, <3>5
    <3>6. CASE {proc, proc'} \intersect {"off", "discover", "exec"} = {} /\ range' = range
      BY <3>1, <3>6
    <3> QED
      BY <2>1, <3>2, <3>3, <3>4, <3>5, <3>6
  <2>4. proc' # "off" /\ (proc' = "exec" <=> proc = "exec")
    BY <1>5
  <2> QED
    BY <2>2, <2>3, <2>4 DEF LoggerInv
<1> QED
  BY <1>2, <1>3, <1>4, <1>5 DEF Calls

LEMMA LoggerStepInv ==
  ASSUME LoggerInv, LoggerStep, UNCHANGED vars
  PROVE  LoggerInv'
<1>1. PICK g \in Ranges : LoggerWaits(g) \/ LoggerTicks(g) \/ LoggerReturns(g)
  BY DEF LoggerStep
<1>2. UNCHANGED <<proc, range, stopCh, closed>>
  BY <1>1 DEF vars, LoggerWaits, LoggerTicks, LoggerReturns
<1>3. at[g] \in {"busy", "waiting"}
  BY <1>1 DEF LoggerWaits, LoggerTicks, LoggerReturns
<1>4. stopCh >= 1 /\ proc # "off"
  BY <1>3 DEF LoggerInv
<1>5. at' \in [Ranges -> LoggerPC] /\ on' \in [Ranges -> 0..stopCh]
  BY <1>1, <1>4 DEF LoggerInv, LoggerPC, LoggerWaits, LoggerTicks, LoggerReturns
<1>6. \A h \in Ranges : at'[h] = "waiting" => on'[h] >= 1
  BY <1>1, <1>4 DEF LoggerInv, LoggerWaits, LoggerTicks, LoggerReturns
<1> QED
  BY <1>2, <1>4, <1>5, <1>6 DEF LoggerInv

LEMMA LoggerInvStep ==
  MigrationTypeOK /\ LoggerInv /\ [TrackedNext]_<<vars, trackerVars>> => LoggerInv'
<1>1. CASE UNCHANGED <<vars, trackerVars>>
  BY <1>1 DEF vars, trackerVars, LoggerInv
<1> QED
  BY <1>1, CallsStep, LoggerStepInv DEF TrackedNext

LEMMA LoggerInvHolds == TrackedSpec => [](MigrationTypeOK /\ LoggerInv)
  BY TrackedRunsAreRuns, MigrationTypes, LoggerInit, LoggerInvStep, PTL DEF TrackedSpec

\* Type correctness of a run with its loggers.
THEOREM TrackerTypes == TrackedSpec => []TrackerTypeOK
<1>1. MigrationTypeOK /\ LoggerInv => TrackerTypeOK
  <2> SUFFICES ASSUME MigrationTypeOK, LoggerInv
               PROVE  TrackerTypeOK
    OBVIOUS
  <2>1. stopCh \in 0..range
    BY DEF LoggerInv, MigrationTypeOK, Ranges
  <2>2. closed \in SUBSET (1..stopCh)
    BY DEF LoggerInv
  <2> QED
    BY <2>1, <2>2 DEF TrackerTypeOK, LoggerInv
<1> QED
  BY <1>1, LoggerInvHolds, PTL

\* Every logger that waits can be told to stop or has been told, for any number
\* of ranges and processes (Tracker.Start, Tracker.Stop).
THEOREM NoLoggerIsLeftBehind == TrackedSpec => []NoLoggerLeaks
<1>1. MigrationTypeOK /\ LoggerInv => NoLoggerLeaks
  <2> SUFFICES ASSUME LoggerInv, NEW g \in Ranges, at[g] = "waiting"
               PROVE  on[g] \in closed \/ (proc = "exec" /\ on[g] = stopCh)
    BY DEF NoLoggerLeaks
  <2> QED
    BY DEF LoggerInv
<1> QED
  BY <1>1, LoggerInvHolds, PTL

\* With its loggers, too, a run that exits with 0 has migrated what it
\* discovered, and nothing of a range is left when the next one begins.
COROLLARY TrackedRunsMigrate == TrackedSpec => [](OkMeansMigrated /\ RangeBarrier)
  BY TrackedRunsAreRuns, SuccessIsComplete, RangesAreSequential, PTL

-----------------------------------------------------------------------------
(* The data of a run.                                                        *)

\* The data share nothing with the run that they are seen in.
THEOREM CoveredRunsAreRuns == CoverageSpec => Spec
<1>1. CoverageInit => Init
  BY DEF CoverageInit
<1>2. [CoverageNext]_<<vars, dataVars>> => [Next]_vars
  BY DEF CoverageNext
<1> QED
  BY <1>1, <1>2, PTL DEF CoverageSpec, Spec

DataTypes ==
  /\ sel \in [TaskIds -> SUBSET Series]
  /\ found \in [Ranges -> SUBSET Series]
  /\ lost \in [Ranges -> SUBSET Series]

\* Nothing is known yet of a range that is not discovered.
NothingAhead ==
  /\ \A t \in 1..created : unit[t][1] \in 1..range /\ (proc = "discover" => unit[t][1] # range)
  /\ \A r \in Ranges : r > range \/ (proc = "discover" /\ r = range) =>
       found[r] = {} /\ lost[r] = {}

\* A metric of a range was given one task that is not a part.
OneMetricTask ==
  \A x, y \in 1..created :
    unit[x] = unit[y] /\ ~splitAttempted[x] /\ ~splitAttempted[y] => x = y

CoverageInv ==
  /\ DataTypes
  /\ NothingAhead
  /\ OneMetricTask
  /\ NoSeriesTwice
  /\ SeriesAccountedFor

\* A step that creates no task replaces none: it leaves every task the part it
\* has in Split.
LEMMA SplitUnchanged ==
  ASSUME QueueTypeOK, OnePlace, created' = created,
         TaskStep \/ UNCHANGED queueVars, NEW t \in TaskIds
  PROVE  Split(t)' = Split(t)
<1>1. ASSUME NEW u \in TaskIds, NextTask(u) PROVE Split(t)' = Split(t)
  <2>1. status[u] \in {"pending", "retrying"}
    BY <1>1, NextTaskEffect
  <2> QED
    BY <1>1, <2>1 DEF NextTask, QueueTypeOK, Split
<1>2. ASSUME NEW u \in TaskIds, CompleteRunning(u) PROVE Split(t)' = Split(t)
  BY <1>2 DEF CompleteRunning, QueueTypeOK, OnePlace, Split
<1>3. ASSUME NEW u \in TaskIds, FailRunning(u) PROVE Split(t)' = Split(t)
  BY <1>3 DEF FailRunning, RetryTask, AbandonTask, QueueTypeOK, OnePlace, Split
<1>4. CASE UNCHANGED queueVars
  BY <1>4 DEF queueVars, Split
<1>5. ASSUME NEW u, NEW n \in 2..MaxBatch, ReplaceTasks(u, n) PROVE FALSE
  BY <1>5 DEF ReplaceTasks, AppendTasks, QueueTypeOK
<1> QED
  BY <1>1, <1>2, <1>3, <1>4, <1>5 DEF TaskStep, CompleteTask, FailTask, NotRunning, QueueTypeOK

\* The tasks a step creates, and what becomes of the others.
LEMMA AppendedTasks ==
  ASSUME QueueTypeOK, OnePlace, NEW n, NEW isSplit \in BOOLEAN, AppendTasks(n, isSplit),
         running' \subseteq running
  PROVE  /\ n \in Nat \ {0} /\ created \in Nat /\ created' = created + n /\ created' <= MaxTasks
         /\ NewTasks(n) = (created + 1)..created'
         /\ NewTasks(n) \subseteq TaskIds
         /\ \A t \in 1..created : t \in TaskIds /\ t \notin NewTasks(n)
         /\ 1..created' = (1..created) \union NewTasks(n)
         /\ \A t \in NewTasks(n) : ~Split(t)' /\ splitAttempted'[t] = isSplit
         /\ \A t \in 1..created : splitAttempted'[t] = splitAttempted[t]
         /\ \A t \in 1..created : t \notin running \ running' => Split(t)' = Split(t)
         /\ \A t \in running \ running' : t \in 1..created /\ ~Split(t) /\ Split(t)'
<1>1. /\ n \in 1..MaxBatch /\ created + n <= MaxTasks
      /\ \A t \in NewTasks(n) : t \in TaskIds /\ status[t] = "none"
  BY AppendPending
<1>2. n \in Nat \ {0} /\ created \in Nat /\ created' = created + n /\ created' <= MaxTasks
  BY <1>1 DEF AppendTasks, QueueTypeOK
<1>3. NewTasks(n) = (created + 1)..created'
  BY <1>2 DEF NewTasks
<1>4. \A t \in 1..created : t \in TaskIds /\ t \notin NewTasks(n)
  BY <1>2, <1>3, QueueAssumption DEF TaskIds
<1>5. 1..created' = (1..created) \union NewTasks(n)
  BY <1>2, <1>3
<1>6. \A t \in TaskIds : /\ status'[t] = IF t \in NewTasks(n) THEN "pending" ELSE status[t]
                        /\ splitAttempted'[t] = IF t \in NewTasks(n) THEN isSplit
                                                                    ELSE splitAttempted[t]
  BY DEF AppendTasks
<1>7. \A t \in NewTasks(n) : ~Split(t)' /\ splitAttempted'[t] = isSplit
  BY <1>1, <1>6 DEF Split
<1>8. \A t \in 1..created : status'[t] = status[t] /\ splitAttempted'[t] = splitAttempted[t]
  BY <1>4, <1>6
<1>9. \A t \in running : t \in 1..created /\ status[t] = "running"
  BY <1>2 DEF QueueTypeOK, OnePlace, TaskIds
<1> QED
  BY <1>1, <1>2, <1>3, <1>4, <1>5, <1>7, <1>8, <1>9 DEF Split

\* A step that creates no task and starts no process.
LEMMA KeepStep ==
  ASSUME MigrationInv, CoverageInv, UNCHANGED dataVars, created' = created,
         ~(proc = "off" /\ proc' # "off"), [Next]_vars
  PROVE  CoverageInv'
<1>q. QueueTypeOK /\ OnePlace /\ range \in Nat /\ created \in Nat /\ created <= MaxTasks
  BY QueueAssumption, MigrationAssumption DEF MigrationInv, MigrationTypeOK, QueueTypeOK, Ranges
<1>1. \A t \in 1..created : t \in TaskIds
  BY <1>q, QueueAssumption DEF TaskIds
<1>2. ASSUME NEW dry \in BOOLEAN, StartProcess(dry) PROVE FALSE
  BY <1>2 DEF StartProcess
<1>3. ASSUME NEW n \in 1..MaxBatch, Discovered(n) PROVE FALSE
  BY <1>q, <1>3 DEF Discovered, AddTasks, AppendTasks
<1>4. /\ TaskStep \/ UNCHANGED queueVars
      /\ unit' = unit /\ splitAttempted' = splitAttempted
  <2>1. CASE TaskStep
    <3>1. ASSUME NEW u, NEW n \in 2..MaxBatch, ReplaceTasks(u, n) PROVE FALSE
      BY <1>q, <3>1 DEF ReplaceTasks, AppendTasks
    <3> QED
      BY <2>1, <3>1 DEF TaskStep, NextTask, CompleteTask, FailTask, CompleteRunning, FailRunning,
        NotRunning, queueVars
  <2>2. CASE UNCHANGED queueVars
    <3>1. unit' = unit
      BY <1>2, <1>3, <2>1, <2>2, MigrationStepCases DEF CreateDeployment, WorkersReady, CreateFails,
        StartupFails, NextRange, ReturnCancelled, DiscoveryFails, NothingDiscovered, RangeEnds,
        ExecutionCancelled, DryRunEnds, GenerateReport, Finish, Signal, Crash, OperatorDeletes,
        Return, vars
    <3> QED
      BY <2>2, <3>1 DEF queueVars
  <2> QED
    BY <1>2, <1>3, <2>1, <2>2, RunStepCases
<1>5. \A t \in 1..created : Split(t)' = Split(t)
  BY <1>q, <1>1, <1>4, SplitUnchanged
<1>6. \/ range' = range /\ (proc' = "discover" => proc = "discover")
      \/ range' = range + 1 /\ proc = "ranges"
  <2>1. CASE NextRange
    BY <2>1 DEF NextRange
  <2>2. CASE \/ CreateDeployment \/ WorkersReady \/ CreateFails \/ StartupFails
             \/ ReturnCancelled \/ DiscoveryFails \/ NothingDiscovered \/ TaskStep \/ RangeEnds
             \/ ExecutionCancelled \/ DryRunEnds \/ GenerateReport \/ Finish
             \/ Signal \/ Crash \/ OperatorDeletes \/ UNCHANGED vars
    BY <2>2 DEF CreateDeployment, WorkersReady, CreateFails,
      StartupFails, ReturnCancelled, DiscoveryFails, NothingDiscovered, TaskStep, RangeEnds,
      ExecutionCancelled, DryRunEnds, GenerateReport, Finish, Signal, Crash, OperatorDeletes,
      Return, vars
  <2> QED
    BY <1>2, <1>3, <2>1, <2>2, MigrationStepCases
<1>7. UNCHANGED <<sel, found, lost>>
  BY DEF dataVars
<1>8. DataTypes'
  BY <1>7 DEF CoverageInv, DataTypes
<1>9. OneMetricTask'
  BY <1>4 DEF CoverageInv, OneMetricTask
<1>10. NothingAhead'
  BY <1>q, <1>4, <1>6, <1>7 DEF CoverageInv, NothingAhead, Ranges
<1>11. \A r : Holders(r)' = Holders(r)
  BY <1>4, <1>5 DEF Holders
<1>12. \A r : Held(r)' = Held(r)
  BY <1>7, <1>11 DEF Held
<1>13. NoSeriesTwice'
  BY <1>7, <1>11 DEF CoverageInv, NoSeriesTwice
<1>14. SeriesAccountedFor'
  BY <1>7, <1>12 DEF CoverageInv, SeriesAccountedFor
<1> QED
  BY <1>8, <1>9, <1>10, <1>13, <1>14 DEF CoverageInv

LEMMA ForgetStep ==
  ASSUME NEW dry \in BOOLEAN, StartProcess(dry), Forget
  PROVE  CoverageInv'
<1>1. created' = 0 /\ range' = 0 /\ 1..created' = {} /\ proc' # "discover"
  BY DEF StartProcess, FreshQueue
<1>2. sel' = NoSeries(TaskIds) /\ found' = NoSeries(Ranges) /\ lost' = NoSeries(Ranges)
  BY DEF Forget
<1>3. DataTypes'
  BY <1>2 DEF DataTypes, NoSeries
<1>4. NothingAhead' /\ OneMetricTask'
  BY <1>1, <1>2 DEF NothingAhead, OneMetricTask, NoSeries
<1>5. \A r : Holders(r)' = {}
  BY <1>1 DEF Holders
<1>6. NoSeriesTwice'
  BY <1>5 DEF NoSeriesTwice
<1>7. \A r \in Ranges : Held(r)' = {} /\ found'[r] = {} /\ lost'[r] = {}
  BY <1>2, <1>5 DEF Held, NoSeries
<1>8. SeriesAccountedFor'
  BY <1>7 DEF SeriesAccountedFor
<1> QED
  BY <1>3, <1>4, <1>6, <1>8 DEF CoverageInv

\* The metrics of a range become its first tasks.
LEMMA DiscoverStep ==
  ASSUME MigrationInv, CoverageInv, NEW n \in 1..MaxBatch, Discovered(n), SelectMetrics
  PROVE  CoverageInv'
<1>q. /\ QueueTypeOK /\ OnePlace /\ AppendTasks(n, FALSE) /\ running' = running
      /\ proc = "discover" /\ proc' # "discover" /\ range' = range /\ range \in Ranges
      /\ unit \in [TaskIds -> Unit \union {NoUnit}]
  BY DEF Discovered, AddTasks, MigrationInv, MigrationTypeOK
<1>1. /\ n \in Nat \ {0} /\ created \in Nat /\ created' = created + n
      /\ NewTasks(n) = (created + 1)..created'
      /\ NewTasks(n) \subseteq TaskIds
      /\ \A t \in 1..created : t \in TaskIds /\ t \notin NewTasks(n)
      /\ 1..created' = (1..created) \union NewTasks(n)
      /\ \A t \in NewTasks(n) : ~Split(t)' /\ splitAttempted'[t] = FALSE
      /\ \A t \in 1..created : splitAttempted'[t] = splitAttempted[t] /\ Split(t)' = Split(t)
  BY <1>q, AppendedTasks
<1>2. PICK R \in Ranges : R = range
  BY <1>q
<1>3. PICK N : N = NewTasks(n)
  OBVIOUS
<1>4. PICK new \in [N -> SUBSET Series] :
        /\ sel' = [t \in TaskIds |-> IF t \in N THEN new[t] ELSE sel[t]]
        /\ found' = [found EXCEPT ![R] = UNION {new[t] : t \in N}]
        /\ \A i, j \in N : i # j => new[i] \intersect new[j] = {}
  <2>1. N = (created + 1)..created'
    BY <1>1, <1>3
  <2>2. PICK new \in [N -> SUBSET Series] :
          /\ Create(new)
          /\ found' = [found EXCEPT ![R] = UNION {new[t] : t \in DOMAIN new}]
          /\ IsSplit(found'[range], new, {})
    BY <1>2, <2>1 DEF SelectMetrics
  <2>3. DOMAIN new = N
    OBVIOUS
  <2>4. sel' = [t \in TaskIds |-> IF t \in N THEN new[t] ELSE sel[t]]
    BY <2>2, <2>3 DEF Create
  <2>5. \A i, j \in N : i # j => new[i] \intersect new[j] = {}
    BY <2>2, <2>3 DEF IsSplit
  <2> QED
    BY <2>2, <2>3, <2>4, <2>5
<1>5. lost' = lost
  BY DEF SelectMetrics
<1>6. /\ \A t \in N : t \in TaskIds /\ sel'[t] = new[t]
      /\ \A t \in 1..created : sel'[t] = sel[t]
  BY <1>1, <1>3, <1>4
<1>7. /\ \A t \in N : unit'[t] = <<R, t - created>>
      /\ \A t \in 1..created : unit'[t] = unit[t]
  BY <1>1, <1>2, <1>3 DEF Discovered
<1>8. /\ found[R] = {} /\ lost[R] = {}
      /\ \A t \in 1..created : unit[t][1] # R
  BY <1>q, <1>2 DEF CoverageInv, NothingAhead
<1>9. DataTypes'
  <2>1. UNION {new[t] : t \in N} \in SUBSET Series
    BY <1>4
  <2> QED
    BY <1>4, <1>5, <2>1 DEF CoverageInv, DataTypes
<1>10. found'[R] = UNION {new[t] : t \in N}
  BY <1>4 DEF CoverageInv, DataTypes
<1>11. \A r \in Ranges : r # R => found'[r] = found[r]
  BY <1>4 DEF CoverageInv, DataTypes
<1>12. Holders(R)' = N
  BY <1>1, <1>3, <1>7, <1>8 DEF Holders
<1>13. \A r \in Ranges : r # R => Holders(r)' = Holders(r)
  <2> TAKE r \in Ranges
  <2>1. \A t \in 1..created' : t \in N \/ t \in 1..created
    BY <1>1, <1>3
  <2>2. \A t \in 1..created : t \in 1..created'
    BY <1>1
  <2>3. \A t \in N : unit'[t][1] = R
    BY <1>7
  <2> QED
    BY <1>1, <1>7, <2>1, <2>2, <2>3 DEF Holders
<1>14. Held(R)' = found'[R] /\ Held(R)' \intersect lost'[R] = {}
  BY <1>5, <1>6, <1>8, <1>10, <1>12 DEF Held
<1>15. \A r \in Ranges : r # R => Held(r)' = Held(r)
  BY <1>6, <1>13 DEF Held, Holders
<1>16. NothingAhead'
  <2>1. \A t \in 1..created' : unit'[t][1] \in 1..range'
    BY <1>q, <1>1, <1>2, <1>3, <1>7 DEF CoverageInv, NothingAhead, Ranges
  <2>2. \A r \in Ranges : r > range' => found'[r] = {} /\ lost'[r] = {}
    BY <1>q, <1>2, <1>5, <1>11 DEF CoverageInv, NothingAhead, Ranges
  <2> QED
    BY <1>q, <2>1, <2>2 DEF NothingAhead
<1>17. OneMetricTask'
  <2> SUFFICES ASSUME NEW x \in 1..created', NEW y \in 1..created', unit'[x] = unit'[y],
                      ~splitAttempted'[x], ~splitAttempted'[y]
               PROVE  x = y
    BY DEF OneMetricTask
  <2>1. CASE x \in N /\ y \in N
    <3>1. x \in Nat /\ y \in Nat /\ x - created = y - created
      BY <1>1, <1>3, <1>7, <2>1
    <3> QED
      BY <1>1, <3>1
  <2>2. CASE x \in 1..created /\ y \in 1..created
    BY <1>1, <1>7, <2>2 DEF CoverageInv, OneMetricTask
  <2>3. CASE \/ x \in N /\ y \in 1..created
             \/ y \in N /\ x \in 1..created
    BY <1>7, <1>8, <2>3
  <2> QED
    BY <1>1, <1>3, <2>1, <2>2, <2>3
<1>18. NoSeriesTwice'
  <2> SUFFICES ASSUME NEW r \in Ranges, NEW s \in Holders(r)', NEW t \in Holders(r)', s # t
               PROVE  sel'[s] \intersect sel'[t] = {}
    BY DEF NoSeriesTwice
  <2>1. CASE r = R
    BY <1>4, <1>6, <1>12, <2>1
  <2>2. CASE r # R
    BY <1>6, <1>13, <2>2 DEF CoverageInv, NoSeriesTwice, Holders
  <2> QED
    BY <2>1, <2>2
<1>19. SeriesAccountedFor'
  BY <1>5, <1>8, <1>11, <1>14, <1>15 DEF CoverageInv, SeriesAccountedFor
<1> QED
  BY <1>9, <1>16, <1>17, <1>18, <1>19 DEF CoverageInv

\* The step that hands the series of a task to its parts replaces that very task.
LEMMA SplitIsReplace ==
  ASSUME MigrationInv, CoverageInv, [Next]_vars, SelectParts
  PROVE  \E t \in running, n \in 2..MaxBatch,
            new \in [(created + 1)..created' -> SUBSET Series], gone \in SUBSET Series :
           /\ ReplaceTasks(t, n)
           /\ unit' = [x \in TaskIds |-> IF x \in NewTasks(n) THEN unit[t] ELSE unit[x]]
           /\ MetricTask(t) = t
           /\ Create(new)
           /\ IsSplit(sel[t], new, gone)
           /\ lost' = [lost EXCEPT ![range] = @ \union gone]
<1>q. /\ QueueTypeOK /\ OnePlace /\ proc = "exec" /\ created' # created /\ created \in Nat
      /\ MaxTasks \in Nat /\ created <= MaxTasks
  BY QueueAssumption DEF SelectParts, MigrationInv, MigrationTypeOK, QueueTypeOK
<1>1. TaskStep
  <2>1. ASSUME NEW dry \in BOOLEAN, StartProcess(dry) PROVE FALSE
    BY <1>q, <2>1 DEF StartProcess
  <2>2. ASSUME NEW n \in 1..MaxBatch, Discovered(n) PROVE FALSE
    BY <1>q, <2>2 DEF Discovered
  <2>3. CASE UNCHANGED queueVars
    BY <1>q, <2>3 DEF queueVars
  <2> QED
    BY <2>1, <2>2, <2>3, RunStepCases
<1>2. PICK t \in running, n \in 2..MaxBatch :
        /\ ~splitAttempted[t]
        /\ ReplaceTasks(t, n)
        /\ unit' = [x \in TaskIds |-> IF x \in NewTasks(n) THEN unit[t] ELSE unit[x]]
  BY <1>q, <1>1 DEF TaskStep, MaySplit, NextTask, CompleteTask, FailTask, CompleteRunning,
    FailRunning, NotRunning, queueVars
<1>3. PICK s \in running :
        /\ running' = running \ {s}
        /\ \E new \in [(created + 1)..created' -> SUBSET Series], gone \in SUBSET Series :
             /\ Create(new)
             /\ IsSplit(sel[MetricTask(s)], new, gone)
             /\ lost' = [lost EXCEPT ![range] = @ \union gone]
  BY DEF SelectParts, ReplaceTasks
<1>4. s = t
  BY <1>2, <1>3 DEF ReplaceTasks
<1>5. t \in 1..created
  BY <1>q DEF QueueTypeOK, OnePlace, TaskIds
<1>6. MetricTask(t) = t
  BY <1>2, <1>5 DEF MetricTask, CoverageInv, OneMetricTask
<1> QED
  BY <1>2, <1>3, <1>4, <1>6

\* A task gives its series to the tasks that replace it.
LEMMA SplitStep ==
  ASSUME MigrationInv, CoverageInv, [Next]_vars, SelectParts
  PROVE  CoverageInv'
<1>p. PICK t \in running, n \in 2..MaxBatch,
           new \in [(created + 1)..created' -> SUBSET Series], gone \in SUBSET Series :
        /\ ReplaceTasks(t, n)
        /\ unit' = [x \in TaskIds |-> IF x \in NewTasks(n) THEN unit[t] ELSE unit[x]]
        /\ MetricTask(t) = t
        /\ Create(new)
        /\ IsSplit(sel[t], new, gone)
        /\ lost' = [lost EXCEPT ![range] = @ \union gone]
  BY SplitIsReplace
<1>q. /\ QueueTypeOK /\ OnePlace /\ AppendTasks(n, TRUE) /\ running' = running \ {t}
      /\ proc = "exec" /\ ~dryRun /\ range \in Ranges /\ found' = found
  BY <1>p DEF ReplaceTasks, SelectParts, MigrationInv, MigrationTypeOK, RunProgress
<1>m. proc' = "exec" /\ range' = range
  <2>1. ASSUME NEW dry \in BOOLEAN, StartProcess(dry) PROVE FALSE
    BY <1>q, <2>1 DEF StartProcess
  <2>2. ASSUME NEW k \in 1..MaxBatch, Discovered(k) PROVE FALSE
    BY <1>q, <2>2 DEF Discovered
  <2>3. CASE UNCHANGED queueVars
    BY <2>3 DEF queueVars, SelectParts
  <2>4. CASE TaskStep
    BY <1>q, <2>4 DEF TaskStep
  <2> QED
    BY <2>1, <2>2, <2>3, <2>4, RunStepCases
<1>1. /\ n \in Nat \ {0} /\ created \in Nat /\ created' = created + n
      /\ NewTasks(n) = (created + 1)..created'
      /\ NewTasks(n) \subseteq TaskIds
      /\ \A x \in 1..created : x \in TaskIds /\ x \notin NewTasks(n)
      /\ 1..created' = (1..created) \union NewTasks(n)
      /\ \A x \in NewTasks(n) : ~Split(x)' /\ splitAttempted'[x] = TRUE
      /\ \A x \in 1..created : splitAttempted'[x] = splitAttempted[x]
      /\ \A x \in 1..created : x # t => Split(x)' = Split(x)
      /\ t \in 1..created /\ ~Split(t) /\ Split(t)'
  <2>1. \A x : x \in running \ running' <=> x = t
    BY <1>q
  <2> QED
    BY <1>q, <2>1, AppendedTasks
<1>2. PICK R \in Ranges : R = range
  BY <1>q
<1>3. PICK N : N = NewTasks(n) /\ N = (created + 1)..created' /\ N = DOMAIN new
  BY <1>1
<1>4. /\ new \in [N -> SUBSET Series]
      /\ sel' = [x \in TaskIds |-> IF x \in N THEN new[x] ELSE sel[x]]
      /\ lost' = [lost EXCEPT ![R] = @ \union gone]
  BY <1>p, <1>2, <1>3 DEF Create
<1>5. /\ sel[t] = gone \union (UNION {new[x] : x \in N})
      /\ \A x \in N : new[x] # {} /\ new[x] \intersect gone = {}
      /\ \A x, y \in N : x # y => new[x] \intersect new[y] = {}
  BY <1>p, <1>3 DEF IsSplit
<1>6. /\ \A x \in N : x \in TaskIds /\ sel'[x] = new[x]
      /\ \A x \in 1..created : sel'[x] = sel[x]
  BY <1>1, <1>3, <1>4
<1>7. /\ \A x \in N : unit'[x] = unit[t]
      /\ \A x \in 1..created : unit'[x] = unit[x]
  BY <1>p, <1>1, <1>3
<1>8. unit[t][1] = R
  <2>1. status[t] \notin Finished
    BY <1>q DEF OnePlace, QueueTypeOK, Finished
  <2> QED
    BY <1>q, <1>1, <1>2, <2>1 DEF MigrationInv, UnitsOfRange, Settled
<1>9. /\ lost'[R] = lost[R] \union gone
      /\ \A r \in Ranges : r # R => lost'[r] = lost[r]
  BY <1>4 DEF CoverageInv, DataTypes
<1>10. t \in Holders(R) /\ \A r : r # R => t \notin Holders(r)
  BY <1>1, <1>8 DEF Holders
<1>11. DataTypes'
  BY <1>q, <1>4 DEF CoverageInv, DataTypes
<1>12. Holders(R)' = (Holders(R) \ {t}) \union N
  <2>1. \A x \in N : x \in 1..created' /\ unit'[x][1] = R /\ ~Split(x)'
    BY <1>1, <1>3, <1>7, <1>8
  <2>2. \A x \in 1..created' : x \in N \/ x \in 1..created
    BY <1>1, <1>3
  <2>3. \A x \in 1..created : x # t =>
          (x \in 1..created' /\ unit'[x][1] = unit[x][1] /\ Split(x)' = Split(x))
    BY <1>1, <1>7
  <2> QED
    BY <1>1, <2>1, <2>2, <2>3 DEF Holders
<1>13. \A r \in Ranges : r # R => Holders(r)' = Holders(r)
  <2> TAKE r \in Ranges
  <2> HAVE r # R
  <2>1. \A x \in N : unit'[x][1] # r
    BY <1>7, <1>8
  <2>2. \A x \in 1..created' : x \in N \/ x \in 1..created
    BY <1>1, <1>3
  <2>3. \A x \in 1..created : x # t =>
          (x \in 1..created' /\ unit'[x][1] = unit[x][1] /\ Split(x)' = Split(x))
    BY <1>1, <1>7
  <2> QED
    BY <1>1, <1>8, <2>1, <2>2, <2>3 DEF Holders
<1>14. \A r \in Ranges : r # R => Held(r)' = Held(r)
  BY <1>6, <1>13 DEF Held, Holders
<1>15. \A x \in Holders(R) : x \in 1..created /\ sel'[x] = sel[x]
  BY <1>6 DEF Holders
<1>16. \A x \in Holders(R) : x # t => sel[x] \intersect sel[t] = {}
  BY <1>10 DEF CoverageInv, NoSeriesTwice
<1>17. Held(R)' \union gone = Held(R) /\ Held(R)' \intersect gone = {}
  <2>1. Held(R)' = (UNION {sel[x] : x \in Holders(R) \ {t}}) \union (UNION {new[x] : x \in N})
    BY <1>6, <1>12, <1>15 DEF Held
  <2>2. Held(R) = (UNION {sel[x] : x \in Holders(R) \ {t}}) \union sel[t]
    BY <1>10 DEF Held
  <2> QED
    BY <1>5, <1>16, <2>1, <2>2
<1>18. NothingAhead'
  <2>1. \A x \in 1..created' : unit'[x][1] \in 1..range'
    BY <1>m, <1>1, <1>3, <1>7 DEF CoverageInv, NothingAhead
  <2>2. \A r \in Ranges : r > range' => found'[r] = {} /\ lost'[r] = {}
    BY <1>q, <1>m, <1>2, <1>9 DEF CoverageInv, NothingAhead, Ranges
  <2> QED
    BY <1>m, <2>1, <2>2 DEF NothingAhead
<1>19. OneMetricTask'
  <2>1. \A x \in 1..created' : ~splitAttempted'[x] => x \in 1..created /\ ~splitAttempted[x]
    BY <1>1
  <2> QED
    BY <1>7, <2>1 DEF CoverageInv, OneMetricTask
<1>20. NoSeriesTwice'
  <2> SUFFICES ASSUME NEW r \in Ranges, NEW x \in Holders(r)', NEW y \in Holders(r)', x # y
               PROVE  sel'[x] \intersect sel'[y] = {}
    BY DEF NoSeriesTwice
  <2>1. CASE r = R
    <3>1. CASE x \in N /\ y \in N
      BY <1>5, <1>6, <3>1
    <3>2. CASE x \in Holders(R) \ {t} /\ y \in Holders(R) \ {t}
      BY <1>15, <3>2 DEF CoverageInv, NoSeriesTwice
    <3>3. CASE x \in Holders(R) \ {t} /\ y \in N
      BY <1>5, <1>6, <1>15, <1>16, <3>3
    <3>4. CASE x \in N /\ y \in Holders(R) \ {t}
      BY <1>5, <1>6, <1>15, <1>16, <3>4
    <3> QED
      BY <1>12, <2>1, <3>1, <3>2, <3>3, <3>4
  <2>2. CASE r # R
    BY <1>6, <1>13, <2>2 DEF CoverageInv, NoSeriesTwice, Holders
  <2> QED
    BY <2>1, <2>2
<1>21. SeriesAccountedFor'
  <2>1. found[R] = Held(R) \union lost[R] /\ Held(R) \intersect lost[R] = {}
    BY DEF CoverageInv, SeriesAccountedFor
  <2>2. found'[R] = Held(R)' \union lost'[R] /\ Held(R)' \intersect lost'[R] = {}
    BY <1>q, <1>9, <1>17, <2>1
  <2> QED
    BY <1>q, <1>9, <1>14, <2>2 DEF CoverageInv, SeriesAccountedFor
<1> QED
  BY <1>11, <1>18, <1>19, <1>20, <1>21 DEF CoverageInv

LEMMA CoverageInvInit == CoverageInit => CoverageInv
<1> SUFFICES ASSUME CoverageInit PROVE CoverageInv
  OBVIOUS
<1>1. created = 0 /\ 1..created = {} /\ proc = "off"
  BY DEF CoverageInit, Init, QueueInit
<1>2. sel = NoSeries(TaskIds) /\ found = NoSeries(Ranges) /\ lost = NoSeries(Ranges)
  BY DEF CoverageInit
<1>3. DataTypes /\ NothingAhead /\ OneMetricTask
  BY <1>1, <1>2 DEF DataTypes, NothingAhead, OneMetricTask, NoSeries
<1>4. \A r : Holders(r) = {} /\ Held(r) = {}
  BY <1>1 DEF Holders, Held
<1>5. NoSeriesTwice /\ SeriesAccountedFor
  BY <1>2, <1>4 DEF NoSeriesTwice, SeriesAccountedFor, NoSeries
<1> QED
  BY <1>3, <1>5 DEF CoverageInv

LEMMA CoverageInvStep ==
  MigrationInv /\ CoverageInv /\ [CoverageNext]_<<vars, dataVars>> => CoverageInv'
<1> SUFFICES ASSUME MigrationInv, CoverageInv, [CoverageNext]_<<vars, dataVars>>
             PROVE  CoverageInv'
  OBVIOUS
<1>1. [Next]_vars
  BY DEF CoverageNext
<1>2. CASE SelectMetrics
  <2>1. PICK n \in 1..MaxBatch : Discovered(n)
    BY <1>1, <1>2, RunStepCases DEF SelectMetrics, StartProcess, TaskStep, queueVars
  <2> QED
    BY <1>2, <2>1, DiscoverStep
<1>3. CASE SelectParts
  BY <1>1, <1>3, SplitStep
<1>4. CASE Forget
  <2>1. PICK dry \in BOOLEAN : StartProcess(dry)
    BY <1>1, <1>4, MigrationStepCases DEF Forget, CreateDeployment, WorkersReady, CreateFails,
      StartupFails, NextRange, ReturnCancelled, DiscoveryFails, NothingDiscovered, Discovered,
      TaskStep, RangeEnds, ExecutionCancelled, DryRunEnds, GenerateReport, Finish, Signal, Crash,
      OperatorDeletes, vars
  <2> QED
    BY <1>4, <2>1, ForgetStep
<1>5. CASE KeepSelections
  BY <1>1, <1>5, KeepStep DEF KeepSelections
<1>6. CASE UNCHANGED <<vars, dataVars>>
  BY <1>1, <1>6, KeepStep DEF vars
<1> QED
  BY <1>2, <1>3, <1>4, <1>5, <1>6 DEF CoverageNext

LEMMA CoverageInvHolds == CoverageSpec => [](MigrationInv /\ CoverageInv)
<1>1. CoverageSpec => []MigrationInv
  BY CoveredRunsAreRuns, MigrationInvHolds, PTL
<1> QED
  BY <1>1, CoverageInvInit, CoverageInvStep, PTL DEF CoverageSpec

\* The fields of the run and the data of its tasks keep their types.
THEOREM CoverageTypes == CoverageSpec => []CoverageTypeOK
<1>1. MigrationInv /\ CoverageInv => CoverageTypeOK
  BY DEF MigrationInv, CoverageInv, DataTypes, CoverageTypeOK
<1> QED
  BY <1>1, CoverageInvHolds, PTL

\* No two tasks of a range ever match the same series, unless one of them was
\* replaced: splitting the whole metric, and not what was left of it, is harmless
\* because a part is never split.
THEOREM SeriesMigrateOnce == CoverageSpec => []NoSeriesTwice
<1>1. CoverageInv => NoSeriesTwice
  BY DEF CoverageInv
<1> QED
  BY <1>1, CoverageInvHolds, PTL

\* Each discovered series is with a task that was not replaced, or was left out
\* by a split, and never both.
THEOREM NoSeriesForgotten == CoverageSpec => []SeriesAccountedFor
<1>1. CoverageInv => SeriesAccountedFor
  BY DEF CoverageInv
<1> QED
  BY <1>1, CoverageInvHolds, PTL

\* Exit status 0 means that every discovered series is matched by a task that
\* succeeded, but for those that a split left out.
THEOREM SuccessMigratesSeries == CoverageSpec => []OkMeansSeriesMigrated
<1>1. ASSUME OkMeansMigrated, SeriesAccountedFor, proc = "off", exit = "ok", ~dryRun,
             NEW r \in Ranges
      PROVE  found[r] \ lost[r] \subseteq
               UNION {sel[t] : t \in {x \in Holders(r) : status[x] = "succeeded"}}
  <2>1. \A t \in Holders(r) : status[t] = "succeeded"
    BY <1>1 DEF OkMeansMigrated, Holders
  <2>2. found[r] \ lost[r] \subseteq Held(r)
    BY <1>1 DEF SeriesAccountedFor
  <2> QED
    BY <2>1, <2>2 DEF Held
<1>2. MigrationInv /\ CoverageInv => OkMeansSeriesMigrated
  BY <1>1 DEF MigrationInv, CoverageInv, OkMeansSeriesMigrated
<1> QED
  BY <1>2, CoverageInvHolds, PTL
=============================================================================
