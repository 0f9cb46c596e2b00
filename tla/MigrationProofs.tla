--------------------------- MODULE MigrationProofs ---------------------------
(***************************************************************************)
(* Theorems about Orchestrator.Run, for any number of time ranges, tasks   *)
(* and processes, and any of the three disks.                              *)
(*                                                                         *)
(* Each process uses its queue through the queue's methods and begins with *)
(* an empty one, so the types and OnePlace of TaskQueueProofs carry over.  *)
(* The rest follows from MigrationInv: between two ranges the queue has    *)
(* nothing left to do, within one its unfinished tasks are all of that     *)
(* range, and every range begun before is covered or skipped.              *)
(***************************************************************************)
EXTENDS Migration, TaskQueueProofs, FiniteSetTheorems

USE QueueAssumption, MigrationAssumption

-----------------------------------------------------------------------------
(* The steps, by what they do to the queue.                                 *)

LEMMA MigrationStepCases ==
  ASSUME [Next]_vars
  PROVE  \/ \E dry \in BOOLEAN : StartProcess(dry)
         \/ CreateDeployment
         \/ WorkersReady
         \/ CreateFails
         \/ StartupFails
         \/ NextRange
         \/ ReturnCancelled
         \/ DiscoveryFails
         \/ NothingDiscovered
         \/ \E n \in 1..MaxBatch : Discovered(n)
         \/ TaskStep
         \/ RangeEnds
         \/ ExecutionCancelled
         \/ DryRunEnds
         \/ GenerateReport
         \/ Finish
         \/ Signal
         \/ Crash
         \/ OperatorDeletes
         \/ UNCHANGED vars
BY DEF Next, RunStep

\* A step of executeTasks is a call on the queue.
LEMMA TaskStepIsCall ==
  ASSUME QueueTypeOK, TaskStep
  PROVE  QueueNext
<1>1. \A n \in 2..MaxBatch : n \in 1..MaxBatch
  OBVIOUS
<1>2. running \subseteq TaskIds
  BY DEF QueueTypeOK
<1>3. CASE \E t \in TaskIds : NextTask(t)
  BY <1>3 DEF QueueNext
<1>4. CASE \E t \in TaskIds : CompleteTask(t) \/ FailTask(t)
  BY <1>4 DEF QueueNext
<1>5. CASE \E t \in TaskIds, n \in 2..MaxBatch : ReplaceTasks(t, n)
  BY <1>1, <1>5 DEF QueueNext
<1> QED
  BY <1>2, <1>3, <1>4, <1>5 DEF TaskStep

\* Every step but the start of a process is a call on the queue, or leaves it alone.
LEMMA MigrationQueueStep ==
  ASSUME QueueTypeOK, [Next]_vars
  PROVE  FreshQueue \/ [QueueNext]_queueVars
<1>1. ASSUME NEW dry \in BOOLEAN, StartProcess(dry) PROVE FreshQueue
  BY <1>1 DEF StartProcess
<1>2. ASSUME NEW n \in 1..MaxBatch, Discovered(n) PROVE QueueNext
  BY <1>2 DEF Discovered, QueueNext
<1>3. ASSUME TaskStep PROVE QueueNext
  BY <1>3, TaskStepIsCall
<1>4. CASE UNCHANGED queueVars
  BY <1>4
<1>5. CASE UNCHANGED vars
  BY <1>5 DEF vars, queueVars
<1>6. CASE \/ CreateDeployment \/ WorkersReady \/ CreateFails \/ StartupFails
           \/ NextRange \/ ReturnCancelled \/ DiscoveryFails \/ NothingDiscovered
           \/ RangeEnds \/ ExecutionCancelled \/ DryRunEnds \/ GenerateReport
           \/ Finish \/ Signal \/ Crash \/ OperatorDeletes
  BY <1>6, <1>4 DEF CreateDeployment, WorkersReady, CreateFails, StartupFails,
    NextRange, ReturnCancelled, DiscoveryFails, NothingDiscovered, RangeEnds,
    ExecutionCancelled, DryRunEnds, GenerateReport, Finish, Signal, Crash,
    OperatorDeletes, Return
<1> QED
  BY <1>1, <1>2, <1>3, <1>5, <1>6, MigrationStepCases

\* The steps that touch nothing of the queue.
LEMMA RunStepCases ==
  ASSUME [Next]_vars
  PROVE  \/ \E dry \in BOOLEAN : StartProcess(dry)
         \/ \E n \in 1..MaxBatch : Discovered(n)
         \/ TaskStep
         \/ UNCHANGED queueVars
BY MigrationStepCases DEF CreateDeployment, WorkersReady, CreateFails, StartupFails,
  NextRange, ReturnCancelled, DiscoveryFails, NothingDiscovered, RangeEnds,
  ExecutionCancelled, DryRunEnds, GenerateReport, Finish, Signal, Crash,
  OperatorDeletes, Return, vars, queueVars

-----------------------------------------------------------------------------
(* Types, and every task in one place.                                      *)

LEMMA FreshQueueTypes ==
  ASSUME QueueTypeOK, FreshQueue
  PROVE  QueueTypeOK' /\ OnePlace'
<1>1. pending' = <<>> /\ IsInjective(pending') /\ ToSet(pending') = {}
  BY DEF FreshQueue, IsInjective, ToSet
<1>2. QueueTypeOK'
  <2>1. /\ created' \in 0..MaxTasks
        /\ status' \in [TaskIds -> Status]
        /\ attempts' \in [TaskIds -> Nat]
        /\ splitAttempted' \in [TaskIds -> BOOLEAN]
    BY DEF FreshQueue, Status
  <2>2. /\ pending' \in Seq(TaskIds)
        /\ running' \in SUBSET TaskIds
        /\ done' \in [TaskIds -> Nat]
        /\ failed' \in [TaskIds -> Nat]
        /\ lastWriteOk' \in BOOLEAN
    BY DEF FreshQueue, NoneDone
  <2>3. stateFile' = stateFile
    BY DEF FreshQueue
  <2> QED
    BY <2>1, <2>2, <2>3 DEF QueueTypeOK
<1>3. \A t \in TaskIds : t > 0
  BY DEF TaskIds
<1>4. OnePlace'
  BY <1>1, <1>3 DEF FreshQueue, OnePlace, NoneDone
<1> QED
  BY <1>2, <1>4

\* The report's counters are counts of tasks.
LEMMA CountTypes ==
  /\ IsFiniteSet(Succeeded) /\ Cardinality(Succeeded) \in 0..MaxTasks
  /\ IsFiniteSet(Abandoned) /\ Cardinality(Abandoned) \in 0..MaxTasks
<1>1. IsFiniteSet(TaskIds) /\ Cardinality(TaskIds) = MaxTasks
  BY FS_Interval DEF TaskIds
<1>2. Succeeded \subseteq TaskIds /\ Abandoned \subseteq TaskIds
  BY DEF Succeeded, Abandoned
<1>3. /\ IsFiniteSet(Succeeded) /\ Cardinality(Succeeded) <= MaxTasks
      /\ IsFiniteSet(Abandoned) /\ Cardinality(Abandoned) <= MaxTasks
  BY <1>1, <1>2, FS_Subset
<1>4. Cardinality(Succeeded) \in Nat /\ Cardinality(Abandoned) \in Nat
  BY <1>3, FS_CardinalityType
<1> QED
  BY <1>3, <1>4

LEMMA MigrationTypeInit == Init => MigrationTypeOK
<1> SUFFICES ASSUME Init PROVE MigrationTypeOK
  OBVIOUS
<1>1. QueueTypeOK
  BY QueueTypeInit DEF Init
<1>2. NoReport \in [total : 0..MaxTasks, succeeded : 0..MaxTasks,
                      abandoned : 0..MaxTasks, rangesDone : 0..NumRanges]
  BY DEF NoReport
<1>3. unit \in [TaskIds -> Unit \union {NoUnit}]
  BY DEF Init
<1>4. range = 0 /\ 0 \in 0..NumRanges /\ proc \in PC \ {"discover", "exec"}
  BY DEF Init, PC
<1>5. runs \in 0..MaxRuns
  BY DEF Init
<1> QED
  BY <1>1, <1>2, <1>3, <1>4, <1>5 DEF Init, MigrationTypeOK

LEMMA MigrationTypeStep == MigrationTypeOK /\ [Next]_vars => MigrationTypeOK'
<1> SUFFICES ASSUME MigrationTypeOK, [Next]_vars PROVE MigrationTypeOK'
  OBVIOUS
<1> USE DEF MigrationTypeOK
<1>1. QueueTypeOK'
  BY MigrationQueueStep, FreshQueueTypes, QueueTypeStep
<1>2. ASSUME NEW dry \in BOOLEAN, StartProcess(dry) PROVE MigrationTypeOK'
  <2>1. NoReport \in [total : 0..MaxTasks, succeeded : 0..MaxTasks,
                        abandoned : 0..MaxTasks, rangesDone : 0..NumRanges]
    BY DEF NoReport
  <2>2. unit' \in [TaskIds -> Unit \union {NoUnit}]
    BY <1>2 DEF StartProcess
  <2>3. range' = 0 /\ 0 \in 0..NumRanges /\ proc' \in PC \ {"discover", "exec"}
    BY <1>2 DEF StartProcess, PC
  <2>4. runs' \in 0..MaxRuns
    BY <1>2 DEF StartProcess
  <2> QED
    BY <1>1, <1>2, <2>1, <2>2, <2>3, <2>4 DEF StartProcess
<1>3. ASSUME NEW n \in 1..MaxBatch, Discovered(n) PROVE MigrationTypeOK'
  <2>1. range \in Ranges /\ created \in Nat
    BY <1>3 DEF Discovered, QueueTypeOK
  <2>2. \A t \in NewTasks(n) : t - created \in 1..MaxBatch
    BY <2>1 DEF NewTasks
  <2>3. unit' \in [TaskIds -> Unit \union {NoUnit}]
    BY <1>3, <2>1, <2>2 DEF Discovered, Unit
  <2> QED
    BY <1>1, <1>3, <2>1, <2>3 DEF Discovered, PC, Ranges
<1>4. CASE TaskStep
  <2>1. unit' \in [TaskIds -> Unit \union {NoUnit}]
    BY <1>4 DEF TaskStep, QueueTypeOK
  <2>2. recorded' \in SUBSET (Unit \union {NoUnit})
    BY <1>4, <2>1 DEF TaskStep, Record
  <2> QED
    BY <1>1, <1>4, <2>1, <2>2 DEF TaskStep
<1>5. CASE CreateDeployment \/ WorkersReady
  BY <1>1, <1>5 DEF CreateDeployment, WorkersReady, PC
<1>6. CASE Signal \/ OperatorDeletes
  BY <1>1, <1>6 DEF Signal, OperatorDeletes
<1>7. CASE Crash
  BY <1>1, <1>7 DEF Crash, PC, Ranges
<1>8. CASE \/ CreateFails \/ StartupFails \/ ReturnCancelled \/ ExecutionCancelled
           \/ DryRunEnds \/ Finish
  <2>1. /\ proc' = "off" /\ exit' \in {"ok", "error"}
        /\ UNCHANGED <<dryRun, range, unit, covered, skipped, cancelled, report, recorded, runs>>
    BY <1>8 DEF CreateFails, StartupFails, ReturnCancelled, ExecutionCancelled,
      DryRunEnds, Finish, Return, ExitStatus
  <2>2. apiOk' \in BOOLEAN
    BY <1>8 DEF CreateFails, StartupFails, ReturnCancelled, ExecutionCancelled,
      DryRunEnds, Finish, CleanupFails, CleanupSucceeds
  <2>3. deployment' \in BOOLEAN
    BY <1>8 DEF CreateFails, StartupFails, ReturnCancelled, ExecutionCancelled,
      DryRunEnds, Finish, CleanupFails, CleanupSucceeds
  <2>4. range' \in 0..NumRanges
    BY <2>1 DEF Ranges
  <2> QED
    BY <1>1, <2>1, <2>2, <2>3, <2>4 DEF PC
<1>9. CASE NextRange
  BY <1>1, <1>9 DEF NextRange, PC, Ranges
<1>10. CASE DiscoveryFails \/ NothingDiscovered \/ RangeEnds
  <2>1. range \in Ranges /\ range \in 0..NumRanges
    BY <1>10 DEF DiscoveryFails, NothingDiscovered, RangeEnds, Ranges
  <2> QED
    BY <1>1, <1>10, <2>1 DEF DiscoveryFails, NothingDiscovered, RangeEnds, PC
<1>11. CASE GenerateReport
  BY <1>1, <1>11, CountTypes DEF GenerateReport, PC, QueueTypeOK
<1>12. CASE UNCHANGED vars
  BY <1>1, <1>12 DEF vars
<1> QED
  BY <1>2, <1>3, <1>4, <1>5, <1>6, <1>7, <1>8, <1>9, <1>10, <1>11, <1>12,
     MigrationStepCases

\* Every field of the run keeps its type.
THEOREM MigrationTypes == Spec => []MigrationTypeOK
BY MigrationTypeInit, MigrationTypeStep, PTL DEF Spec

LEMMA MigrationOnePlaceStep ==
  MigrationTypeOK /\ OnePlace /\ [Next]_vars => OnePlace'
BY MigrationQueueStep, FreshQueueTypes, OnePlaceStep DEF MigrationTypeOK

\* The queue of Run keeps every task in one place, across processes.
THEOREM MigrationTasksInOnePlace == Spec => []OnePlace
<1>1. Init => OnePlace
  BY OnePlaceInit DEF Init
<1> QED
  BY <1>1, MigrationTypes, MigrationOnePlaceStep, PTL DEF Spec

-----------------------------------------------------------------------------
(* The invariant.                                                           *)

Settled(t) == status[t] \in Finished \/ Split(t)

\* Outside executeTasks the queue of a real run has nothing left to do.
IdleBetweenRanges ==
  proc \notin {"off", "exec"} /\ ~dryRun => IsComplete

\* What is not finished belongs to the range in hand.
UnitsOfRange ==
  ~dryRun => \A t \in 1..created : Settled(t) \/ unit[t][1] = range

\* How far the run has come, and with which report.
RunProgress ==
  /\ proc = "ranges" => 1..range \subseteq covered \union skipped
  /\ proc \in {"discover", "exec"} => 1..(range - 1) \subseteq covered \union skipped
  /\ proc \in {"deploy", "wait", "connect", "exec", "cleanup"} => ~dryRun
  /\ proc \in {"deploy", "wait", "connect"} => range = 0
  /\ proc \notin {"off", "cleanup"} => report = NoReport
  /\ proc = "cleanup" => /\ Ranges \subseteq covered \union skipped
                         /\ report.abandoned = Cardinality(Abandoned)

MigrationInv ==
  /\ MigrationTypeOK
  /\ OnePlace
  /\ IdleBetweenRanges
  /\ UnitsOfRange
  /\ RunProgress
  /\ OkMeansMigrated
  /\ CleansUpAfterReport

-----------------------------------------------------------------------------
(* The invariant is preserved, part by part.                                *)

\* A finished or split task stays so under any call on the queue.
LEMMA SettledStays ==
  ASSUME QueueTypeOK, OnePlace, [QueueNext]_queueVars, NEW t \in TaskIds, Settled(t)
  PROVE  Settled(t)'
<1> USE DEF Settled, Split, Finished
<1>1. ASSUME NEW n \in 1..MaxBatch, NEW isSplit \in BOOLEAN, AppendTasks(n, isSplit),
             running' \subseteq running
      PROVE  Settled(t)'
  <2>1. t \notin NewTasks(n)
    BY <1>1, AppendPending
  <2> QED
    BY <1>1, <2>1 DEF AppendTasks
<1>2. ASSUME NEW n \in 1..MaxBatch, AddTasks(n) PROVE Settled(t)'
  BY <1>1, <1>2 DEF AddTasks
<1>3. ASSUME NEW u \in TaskIds, NextTask(u) PROVE Settled(t)'
  <2>1. status[u] \in {"pending", "retrying"}
    BY <1>3, NextTaskEffect
  <2> QED
    BY <1>3, <2>1 DEF NextTask, QueueTypeOK
<1>4. ASSUME NEW u \in TaskIds, CompleteRunning(u) PROVE Settled(t)'
  BY <1>4 DEF CompleteRunning, QueueTypeOK, OnePlace
<1>5. ASSUME NEW u \in TaskIds, FailRunning(u) PROVE Settled(t)'
  BY <1>5 DEF FailRunning, RetryTask, AbandonTask, QueueTypeOK, OnePlace
<1>6. ASSUME NEW u \in TaskIds, NEW n \in 1..MaxBatch, ReplaceTasks(u, n) PROVE Settled(t)'
  BY <1>1, <1>6 DEF ReplaceTasks
<1>7. CASE UNCHANGED queueVars
  BY <1>7 DEF queueVars
<1> QED
  BY <1>2, <1>3, <1>4, <1>5, <1>6, <1>7, QueueStepCases

LEMMA IdleBetweenRangesStep ==
  MigrationInv /\ [Next]_vars => IdleBetweenRanges'
<1> SUFFICES ASSUME MigrationInv, [Next]_vars PROVE IdleBetweenRanges'
  OBVIOUS
<1> USE DEF IdleBetweenRanges, IsComplete
<1>1. ASSUME NEW dry \in BOOLEAN, StartProcess(dry) PROVE IdleBetweenRanges'
  BY <1>1 DEF StartProcess, FreshQueue
<1>2. ASSUME NEW n \in 1..MaxBatch, Discovered(n) PROVE IdleBetweenRanges'
  BY <1>2 DEF Discovered
<1>3. CASE TaskStep
  BY <1>3 DEF TaskStep
<1>4. CASE RangeEnds
  BY <1>4 DEF RangeEnds, queueVars
<1>5. CASE \/ CreateDeployment \/ WorkersReady \/ CreateFails \/ StartupFails
           \/ NextRange \/ ReturnCancelled \/ DiscoveryFails \/ NothingDiscovered
           \/ ExecutionCancelled \/ DryRunEnds \/ GenerateReport \/ Finish
           \/ Signal \/ Crash \/ OperatorDeletes \/ UNCHANGED vars
  <2>1. /\ UNCHANGED <<pending, running, dryRun>>
        /\ proc' \notin {"off", "exec"} => proc \notin {"off", "exec"}
    BY <1>5 DEF CreateDeployment, WorkersReady, CreateFails, StartupFails,
      NextRange, ReturnCancelled, DiscoveryFails, NothingDiscovered,
      ExecutionCancelled, DryRunEnds, GenerateReport, Finish, Signal, Crash,
      OperatorDeletes, Return, queueVars, vars
  <2> QED
    BY <2>1 DEF MigrationInv
<1> QED
  BY <1>1, <1>2, <1>3, <1>4, <1>5, MigrationStepCases

LEMMA SettledWhenIdle ==
  ASSUME QueueTypeOK, OnePlace, IsComplete, NEW t \in 1..created
  PROVE  t \in TaskIds /\ Settled(t)
<1>1. t \in TaskIds /\ ~(t > created)
  BY DEF QueueTypeOK, TaskIds
<1>2. ToSet(pending) = {} /\ running = {}
  BY DEF IsComplete, ToSet
<1> QED
  BY <1>1, <1>2 DEF OnePlace, QueueTypeOK, Status, Settled, Split, Finished

LEMMA UnitsOfRangeStep ==
  MigrationInv /\ [Next]_vars => UnitsOfRange'
<1> SUFFICES ASSUME MigrationInv, [Next]_vars PROVE UnitsOfRange'
  OBVIOUS
<1>1. QueueTypeOK /\ OnePlace /\ UnitsOfRange
  BY DEF MigrationInv, MigrationTypeOK
<1>2. \A t \in 1..created : t \in TaskIds
  BY <1>1 DEF QueueTypeOK, TaskIds
<1>3. ASSUME NEW dry \in BOOLEAN, StartProcess(dry) PROVE UnitsOfRange'
  BY <1>3 DEF StartProcess, FreshQueue, UnitsOfRange
\* A task that was there before is settled still, or of the range still.
<1>4. ASSUME [QueueNext]_queueVars, UNCHANGED <<range, dryRun>>, ~dryRun,
             NEW t \in 1..created, unit'[t] = unit[t]
      PROVE  Settled(t)' \/ unit'[t][1] = range'
  BY <1>1, <1>2, <1>4, SettledStays DEF UnitsOfRange
<1>5. ASSUME NEW n \in 1..MaxBatch, Discovered(n) PROVE UnitsOfRange'
  <2>1. [QueueNext]_queueVars
    BY <1>5 DEF Discovered, QueueNext
  <2>2. /\ created' = created + n /\ created + n <= MaxTasks /\ created \in Nat
        /\ unit' = [t \in TaskIds |-> IF t \in NewTasks(n) THEN <<range, t - created>> ELSE unit[t]]
        /\ UNCHANGED <<range, dryRun>>
    BY <1>1, <1>5 DEF Discovered, AddTasks, AppendTasks, QueueTypeOK
  <2>3. \A t \in 1..created' : t \in TaskIds /\ (t \in NewTasks(n) \/ t \in 1..created)
    BY <2>2 DEF NewTasks, TaskIds
  <2>4. \A t \in 1..created' : t \in NewTasks(n) => unit'[t][1] = range'
    BY <2>2, <2>3
  <2>5. \A t \in 1..created' : t \notin NewTasks(n) => unit'[t] = unit[t]
    BY <2>2, <2>3
  <2> QED
    BY <1>4, <2>1, <2>2, <2>3, <2>4, <2>5 DEF UnitsOfRange
<1>6. CASE TaskStep
  <2> SUFFICES ASSUME ~dryRun PROVE UnitsOfRange'
    BY <1>6 DEF TaskStep, UnitsOfRange
  <2>1. [QueueNext]_queueVars /\ UNCHANGED <<range, dryRun>>
    BY <1>1, <1>6, TaskStepIsCall DEF TaskStep
  <2>2. CASE UNCHANGED <<created, unit>>
    BY <1>4, <2>1, <2>2 DEF UnitsOfRange
  <2>3. ASSUME NEW t \in running, NEW n \in 2..MaxBatch, ReplaceTasks(t, n),
               unit' = [x \in TaskIds |-> IF x \in NewTasks(n) THEN unit[t] ELSE unit[x]]
        PROVE  UnitsOfRange'
    <3>1. created' = created + n /\ created + n <= MaxTasks /\ created \in Nat
      BY <1>1, <2>3 DEF ReplaceTasks, AppendTasks, QueueTypeOK
    <3>2. \A x \in 1..created' : x \in TaskIds /\ (x \in NewTasks(n) \/ x \in 1..created)
      BY <3>1 DEF NewTasks, TaskIds
    \* The parent is running, so it is of the range in hand, and so are the parts.
    <3>3. t \in 1..created /\ ~Settled(t)
      BY <1>1, <2>3 DEF QueueTypeOK, OnePlace, Settled, Split, Finished, TaskIds
    <3>4. unit[t][1] = range
      BY <1>1, <3>3 DEF UnitsOfRange
    <3>5. \A x \in 1..created' : x \in NewTasks(n) => unit'[x][1] = range'
      BY <2>1, <2>3, <3>2, <3>4
    <3>6. \A x \in 1..created' : x \notin NewTasks(n) => unit'[x] = unit[x]
      BY <2>3, <3>2
    <3> QED
      BY <1>4, <2>1, <3>2, <3>5, <3>6 DEF UnitsOfRange
  <2>4. \/ UNCHANGED <<created, unit>>
        \/ \E t \in running, n \in 2..MaxBatch :
             /\ ReplaceTasks(t, n)
             /\ unit' = [x \in TaskIds |-> IF x \in NewTasks(n) THEN unit[t] ELSE unit[x]]
    BY <1>6 DEF TaskStep, NextTask, CompleteTask, FailTask, CompleteRunning, FailRunning,
      RetryTask, AbandonTask, NotRunning, queueVars
  <2> QED
    BY <2>2, <2>3, <2>4
<1>7. CASE NextRange
  <2> SUFFICES ASSUME ~dryRun PROVE UnitsOfRange'
    BY <1>7 DEF NextRange, UnitsOfRange
  <2>1. IsComplete /\ UNCHANGED queueVars
    BY <1>7 DEF NextRange, MigrationInv, IdleBetweenRanges
  <2>2. \A t \in 1..created : Settled(t)
    BY <1>1, <2>1, SettledWhenIdle
  <2>3. \A t \in 1..created : Settled(t)'
    BY <2>1, <2>2 DEF queueVars, Settled, Split
  <2> QED
    BY <2>1, <2>3 DEF UnitsOfRange, queueVars
<1>8. CASE \/ CreateDeployment \/ WorkersReady \/ CreateFails \/ StartupFails
           \/ ReturnCancelled \/ DiscoveryFails \/ NothingDiscovered \/ RangeEnds
           \/ ExecutionCancelled \/ DryRunEnds \/ GenerateReport \/ Finish
           \/ Signal \/ Crash \/ OperatorDeletes \/ UNCHANGED vars
  BY <1>1, <1>8 DEF CreateDeployment, WorkersReady, CreateFails, StartupFails,
    ReturnCancelled, DiscoveryFails, NothingDiscovered, RangeEnds,
    ExecutionCancelled, DryRunEnds, GenerateReport, Finish, Signal, Crash,
    OperatorDeletes, Return, queueVars, vars, UnitsOfRange, Settled, Split
<1> QED
  BY <1>3, <1>5, <1>6, <1>7, <1>8, MigrationStepCases

LEMMA RunProgressStep ==
  MigrationInv /\ [Next]_vars => RunProgress'
<1> SUFFICES ASSUME MigrationInv, [Next]_vars PROVE RunProgress'
  OBVIOUS
<1>1. RunProgress /\ range \in 0..NumRanges
  BY DEF MigrationInv, MigrationTypeOK, Ranges
<1>2. ASSUME NEW dry \in BOOLEAN, StartProcess(dry) PROVE RunProgress'
  BY <1>2 DEF StartProcess, RunProgress
<1>3. CASE CreateDeployment \/ WorkersReady
  BY <1>1, <1>3 DEF CreateDeployment, WorkersReady, RunProgress
<1>4. CASE \/ CreateFails \/ StartupFails \/ ReturnCancelled \/ ExecutionCancelled
           \/ DryRunEnds \/ Finish \/ Crash
  BY <1>4 DEF CreateFails, StartupFails, ReturnCancelled, ExecutionCancelled,
    DryRunEnds, Finish, Crash, Return, RunProgress
<1>5. CASE NextRange
  BY <1>1, <1>5 DEF NextRange, RunProgress
<1>6. CASE DiscoveryFails \/ NothingDiscovered \/ RangeEnds
  BY <1>1, <1>6 DEF DiscoveryFails, NothingDiscovered, RangeEnds, RunProgress
<1>7. ASSUME NEW n \in 1..MaxBatch, Discovered(n) PROVE RunProgress'
  BY <1>1, <1>7 DEF Discovered, RunProgress
<1>8. CASE TaskStep
  BY <1>1, <1>8 DEF TaskStep, RunProgress
<1>9. CASE GenerateReport
  <2>1. Abandoned' = Abandoned
    BY <1>9 DEF GenerateReport, Abandoned, queueVars
  <2>2. report'.abandoned = Cardinality(Abandoned)
    BY <1>9 DEF GenerateReport
  <2> QED
    BY <1>1, <1>9, <2>1, <2>2 DEF GenerateReport, RunProgress, Ranges
<1>10. CASE Signal \/ OperatorDeletes \/ UNCHANGED vars
  <2>1. Abandoned' = Abandoned
    BY <1>10 DEF Signal, OperatorDeletes, vars, queueVars, Abandoned
  <2> QED
    BY <1>1, <1>10, <2>1 DEF Signal, OperatorDeletes, vars, RunProgress
<1> QED
  BY <1>2, <1>3, <1>4, <1>5, <1>6, <1>7, <1>8, <1>9, <1>10, MigrationStepCases

LEMMA OkMeansMigratedStep ==
  MigrationInv /\ [Next]_vars => OkMeansMigrated'
<1> SUFFICES ASSUME MigrationInv, [Next]_vars,
                    proc' = "off", exit' = "ok", ~dryRun'
             PROVE  /\ covered' \union skipped' = Ranges
                    /\ \A t \in 1..created' : status'[t] = "succeeded" \/ Split(t)'
  BY DEF OkMeansMigrated
\* Of the steps that leave a process off, only Finish can set the status "ok".
<1>1. CASE Finish
  <2>1. /\ proc = "cleanup" /\ ~dryRun /\ report.abandoned <= 0
        /\ UNCHANGED queueVars /\ UNCHANGED <<covered, skipped>>
    BY <1>1 DEF Finish, Return, ExitStatus, MigrationInv, MigrationTypeOK
  <2>2. /\ QueueTypeOK /\ OnePlace /\ IsComplete
        /\ Ranges \subseteq covered \union skipped
        /\ covered \subseteq Ranges /\ skipped \subseteq Ranges
        /\ report.abandoned = Cardinality(Abandoned)
    BY <2>1 DEF MigrationInv, MigrationTypeOK, IdleBetweenRanges, RunProgress
  <2>3. Abandoned = {}
    BY <2>1, <2>2, CountTypes, FS_EmptySet
  <2>4. ASSUME NEW t \in 1..created PROVE status[t] = "succeeded" \/ Split(t)
    <3>1. t \in TaskIds /\ Settled(t)
      BY <2>2, SettledWhenIdle
    <3>2. status[t] # "abandoned"
      BY <2>2, <2>3, <3>1 DEF Abandoned, OnePlace
    <3> QED
      BY <3>1, <3>2 DEF Settled, Finished
  <2> QED
    BY <2>1, <2>2, <2>4 DEF queueVars, Split
<1>2. CASE OperatorDeletes \/ UNCHANGED vars
  BY <1>2 DEF OperatorDeletes, vars, queueVars, MigrationInv, OkMeansMigrated, Split
<1>3. CASE DryRunEnds
  BY <1>3 DEF DryRunEnds, Return
<1>4. ASSUME NEW dry \in BOOLEAN, StartProcess(dry) PROVE FALSE
  BY <1>4 DEF StartProcess
<1>5. ASSUME NEW n \in 1..MaxBatch, Discovered(n) PROVE FALSE
  BY <1>5 DEF Discovered
<1>6. ASSUME \/ CreateDeployment \/ WorkersReady \/ CreateFails \/ StartupFails
             \/ NextRange \/ ReturnCancelled \/ DiscoveryFails \/ NothingDiscovered
             \/ TaskStep \/ RangeEnds \/ ExecutionCancelled \/ GenerateReport
             \/ Signal \/ Crash
      PROVE  FALSE
  BY <1>6 DEF CreateDeployment, WorkersReady, CreateFails, StartupFails, NextRange,
    ReturnCancelled, DiscoveryFails, NothingDiscovered, TaskStep, RangeEnds,
    ExecutionCancelled, GenerateReport, Signal, Crash, Return
<1> QED
  BY <1>1, <1>2, <1>3, <1>4, <1>5, <1>6, MigrationStepCases

LEMMA CleansUpAfterReportStep ==
  MigrationInv /\ [Next]_vars => CleansUpAfterReport'
<1> SUFFICES ASSUME MigrationInv, [Next]_vars,
                    proc' = "off", exit' \in {"ok", "error"}, report' # NoReport,
                    apiOk', ~cancelled'
             PROVE  ~deployment'
  BY DEF CleansUpAfterReport
<1>1. CASE Finish
  BY <1>1 DEF Finish, CleanupFails, CleanupSucceeds, Return
<1>2. CASE OperatorDeletes \/ UNCHANGED vars
  BY <1>2 DEF OperatorDeletes, vars, MigrationInv, CleansUpAfterReport
\* The other steps that end a process do so before its report.
<1>3. ASSUME \/ CreateFails \/ StartupFails \/ ReturnCancelled \/ ExecutionCancelled
             \/ DryRunEnds
      PROVE  FALSE
  BY <1>3 DEF CreateFails, StartupFails, ReturnCancelled, ExecutionCancelled,
    DryRunEnds, Return, MigrationInv, RunProgress
<1>4. ASSUME NEW dry \in BOOLEAN, StartProcess(dry) PROVE FALSE
  BY <1>4 DEF StartProcess
<1>5. ASSUME NEW n \in 1..MaxBatch, Discovered(n) PROVE FALSE
  BY <1>5 DEF Discovered
<1>6. ASSUME \/ CreateDeployment \/ WorkersReady \/ NextRange \/ DiscoveryFails
             \/ NothingDiscovered \/ TaskStep \/ RangeEnds \/ GenerateReport
             \/ Signal \/ Crash
      PROVE  FALSE
  BY <1>6 DEF CreateDeployment, WorkersReady, NextRange, DiscoveryFails,
    NothingDiscovered, TaskStep, RangeEnds, GenerateReport, Signal, Crash
<1> QED
  BY <1>1, <1>2, <1>3, <1>4, <1>5, <1>6, MigrationStepCases

-----------------------------------------------------------------------------
(* The theorems.                                                            *)

LEMMA MigrationInvInit == Init => MigrationInv
<1> SUFFICES ASSUME Init PROVE MigrationInv
  OBVIOUS
<1>1. MigrationTypeOK /\ OnePlace
  BY MigrationTypeInit, OnePlaceInit DEF Init
<1>2. IdleBetweenRanges /\ RunProgress /\ OkMeansMigrated /\ CleansUpAfterReport
  BY DEF Init, IdleBetweenRanges, RunProgress, OkMeansMigrated, CleansUpAfterReport
<1>3. UnitsOfRange
  BY DEF Init, QueueInit, UnitsOfRange
<1> QED
  BY <1>1, <1>2, <1>3 DEF MigrationInv

LEMMA MigrationInvStep == MigrationInv /\ [Next]_vars => MigrationInv'
<1> SUFFICES ASSUME MigrationInv, [Next]_vars PROVE MigrationInv'
  OBVIOUS
<1>1. MigrationTypeOK' /\ OnePlace'
  BY MigrationTypeStep, MigrationOnePlaceStep DEF MigrationInv
<1> QED
  BY <1>1, IdleBetweenRangesStep, UnitsOfRangeStep, RunProgressStep,
     OkMeansMigratedStep, CleansUpAfterReportStep DEF MigrationInv

LEMMA MigrationInvHolds == Spec => []MigrationInv
BY MigrationInvInit, MigrationInvStep, PTL DEF Spec

\* Time ranges are strictly sequential: nothing of a range is left when the
\* next one is discovered, however its tasks were retried and split.
THEOREM RangesAreSequential == Spec => []RangeBarrier
<1>1. MigrationInv => RangeBarrier
  <2> SUFFICES ASSUME MigrationInv, ~dryRun, NEW t \in 1..created,
                      unit[t][1] # range \/ proc \in {"ranges", "discover"}
               PROVE  Settled(t)
    BY DEF RangeBarrier, Settled
  <2>1. CASE unit[t][1] # range
    BY <2>1 DEF MigrationInv, UnitsOfRange
  <2>2. CASE proc \in {"ranges", "discover"}
    BY <2>2, SettledWhenIdle DEF MigrationInv, MigrationTypeOK, IdleBetweenRanges
  <2> QED
    BY <2>1, <2>2
<1> QED
  BY <1>1, MigrationInvHolds, PTL

\* Exit status 0 means that each discovered task was migrated or split, and that
\* each range was executed unless its discovery failed.
THEOREM SuccessIsComplete == Spec => []OkMeansMigrated
<1>1. MigrationInv => OkMeansMigrated
  BY DEF MigrationInv
<1> QED
  BY <1>1, MigrationInvHolds, PTL

\* A run that made its report has deleted its Deployment, if Kubernetes and the
\* signals let it.
THEOREM ReportedRunsCleanUp == Spec => []CleansUpAfterReport
<1>1. MigrationInv => CleansUpAfterReport
  BY DEF MigrationInv
<1> QED
  BY <1>1, MigrationInvHolds, PTL

\* A dry run leaves the Deployment, the workers and the state file alone.
THEOREM DryRunsAreDry == Spec => DryRunTouchesNothing
<1>1. ASSUME MigrationInv, [Next]_vars, dryRun, proc # "off"
      PROVE  UNCHANGED <<deployment, running, stateFile>>
  <2>1. proc \in {"ranges", "discover"}
    BY <1>1 DEF MigrationInv, MigrationTypeOK, RunProgress, PC
  <2>2. ASSUME NEW dry \in BOOLEAN, StartProcess(dry) PROVE FALSE
    BY <1>1, <2>2 DEF StartProcess
  <2>3. ASSUME NEW n \in 1..MaxBatch, Discovered(n)
        PROVE  UNCHANGED <<deployment, running, stateFile>>
    BY <2>3 DEF Discovered, AddTasks, fileVars
  <2>4. CASE UNCHANGED vars
    BY <2>4 DEF vars
  <2>5. ASSUME CreateDeployment \/ CreateFails \/ TaskStep \/ Finish \/ OperatorDeletes
        PROVE  FALSE
    BY <1>1, <2>1, <2>5 DEF CreateDeployment, CreateFails, TaskStep, Finish, OperatorDeletes
  <2>6. CASE \/ WorkersReady \/ StartupFails \/ NextRange \/ ReturnCancelled
             \/ DiscoveryFails \/ NothingDiscovered \/ RangeEnds \/ ExecutionCancelled
             \/ DryRunEnds \/ GenerateReport \/ Signal \/ Crash
    BY <2>6 DEF WorkersReady, StartupFails, NextRange, ReturnCancelled, DiscoveryFails,
      NothingDiscovered, RangeEnds, ExecutionCancelled, DryRunEnds, GenerateReport,
      Signal, Crash, Return, queueVars
  <2> QED
    BY <1>1, <2>2, <2>3, <2>4, <2>5, <2>6, MigrationStepCases
<1>2. MigrationInv /\ [Next]_vars
        => [dryRun /\ proc # "off" => UNCHANGED <<deployment, running, stateFile>>]_vars
  BY <1>1
<1> QED
  BY <1>2, MigrationInvHolds, PTL DEF Spec, DryRunTouchesNothing

-----------------------------------------------------------------------------
(* Run keeps to Execution.                                                  *)

LEMMA RunRetryStep ==
  MigrationInv /\ RetryDiscipline /\ [Next]_vars => RetryDiscipline'
<1> SUFFICES ASSUME MigrationInv, RetryDiscipline, [Next]_vars PROVE RetryDiscipline'
  OBVIOUS
<1>1. QueueTypeOK /\ OnePlace
  BY DEF MigrationInv, MigrationTypeOK
<1>2. CASE FreshQueue
  BY <1>2 DEF FreshQueue, RetryDiscipline
<1> QED
  BY <1>1, <1>2, RetryStep, MigrationQueueStep

\* Retries are counted anew in each process, and never exceed max_retries.
LEMMA RunRetries == Spec => [](MigrationInv /\ RetryDiscipline)
<1>1. Init => RetryDiscipline
  BY DEF Init, QueueInit, RetryDiscipline
<1> QED
  BY <1>1, MigrationInvHolds, RunRetryStep, PTL DEF Spec

\* Execution's mode, by name.
RunMode == IF proc = "off" THEN "stopped" ELSE IF dryRun THEN "planning"
           ELSE IF proc = "exec" THEN "executing" ELSE "idle"

LEMMA RunInitRefined == Init => Exec!ExecInit
BY LifeInitRefined DEF Init, QueueInit, Exec!ExecInit, Exec!LifeInit, Life!LifeInit, IsPart

LEMMA TaskStepRefined ==
  ASSUME MigrationInv, RetryDiscipline, TaskStep
  PROVE  [Exec!ExecNext]_(Exec!execVars)
<1>q. QueueTypeOK /\ OnePlace /\ running \subseteq TaskIds
  BY DEF MigrationInv, MigrationTypeOK, QueueTypeOK
<1>m. proc = "exec" /\ ~dryRun /\ UNCHANGED <<proc, dryRun>>
  BY DEF TaskStep, MigrationInv, RunProgress
<1>1. ASSUME NEW t \in TaskIds, NextTask(t) \/ CompleteRunning(t) \/ FailRunning(t)
      PROVE  Exec!ExecNext
  <2>1. Exec!Start(t) \/ Exec!Succeed(t) \/ Exec!Retry(t) \/ Exec!GiveUp(t)
    BY <1>q, <1>1, NextIsStart, CompleteIsSucceed, FailIsRetryOrGiveUp
       DEF Exec!Start, Life!Start, Exec!Succeed, Life!Succeed, Exec!Retry, Life!Retry,
           Exec!GiveUp, Life!GiveUp, Exec!End, Life!End, Exec!Allowed, Life!Allowed
  <2>2. \A s \in TaskIds : IsPart(s)' = IsPart(s)
    BY <1>q, <1>1, RunKeepsParts
  <2>3. Exec!RunTask(t)
    BY <1>m, <2>1, <2>2 DEF Exec!RunTask
  <2> QED
    BY <2>3 DEF Exec!ExecNext
<1>2. ASSUME NEW t \in running, NEW n \in 2..MaxBatch, ~splitAttempted[t], ReplaceTasks(t, n)
      PROVE  Exec!ExecNext
  <2>1. AppendTasks(n, TRUE) /\ t \in TaskIds
    BY <1>q, <1>2 DEF ReplaceTasks
  <2>2. \A s \in TaskIds : IsPart(s)' = (s \in NewTasks(n) \/ IsPart(s))
    BY <1>q, <2>1, AppendParts
  <2>3. Exec!Split(t, NewTasks(n)) /\ NewTasks(n) \in SUBSET TaskIds
    BY <1>q, <1>2, <2>1, ReplaceIsSplit, AppendIsBirth DEF Exec!Split, Life!Split
  <2>4. created + 1 \in NewTasks(n) /\ created + 2 \in NewTasks(n) /\ created + 1 # created + 2
    BY <1>q DEF NewTasks, QueueTypeOK
  <2>5. ~IsPart(t)
    BY <1>2 DEF IsPart
  <2>6. Exec!SplitTask(t, NewTasks(n))
    BY <1>m, <2>1, <2>2, <2>3, <2>4, <2>5 DEF Exec!SplitTask
  <2> QED
    BY <2>1, <2>3, <2>6 DEF Exec!ExecNext
<1> QED
  BY <1>q, <1>m, <1>1, <1>2 DEF TaskStep, MaySplit, CompleteTask, FailTask, NotRunning

LEMMA RunStepRefined ==
  ASSUME MigrationInv, RetryDiscipline, [Next]_vars
  PROVE  [Exec!ExecNext]_(Exec!execVars)
<1>q. QueueTypeOK /\ OnePlace
  BY DEF MigrationInv, MigrationTypeOK
<1>1. ASSUME NEW dry \in BOOLEAN, StartProcess(dry) PROVE Exec!ExecNext
  <2>1. \A t \in TaskIds : /\ TaskPhase(t)' = "unborn" /\ TaskStarts(t)' = 0
                           /\ IsPart(t)' = FALSE
    BY <1>1 DEF StartProcess, FreshQueue, TaskPhase, TaskStarts, IsPart
  <2>2. Exec!Boot
    BY <1>1, <2>1 DEF StartProcess, Exec!Boot
  <2> QED
    BY <2>2 DEF Exec!ExecNext
<1>2. ASSUME NEW n \in 1..MaxBatch, Discovered(n) PROVE Exec!ExecNext
  <2>1. /\ AppendTasks(n, FALSE) /\ running' = running /\ proc = "discover" /\ dryRun' = dryRun
        /\ dryRun => proc' = "ranges"
        /\ ~dryRun => proc' = "exec" /\ IsComplete
    BY <1>2 DEF Discovered, AddTasks, MigrationInv, IdleBetweenRanges
  <2>2. \A t \in TaskIds : IsPart(t)' = IsPart(t)
    BY <1>q, <2>1, AppendParts DEF IsPart
  <2>3. Exec!Create(NewTasks(n)) /\ NewTasks(n) \in SUBSET TaskIds
    BY <1>q, <2>1, AppendIsCreate, AppendIsBirth DEF Exec!Create, Life!Create
  <2>4. CASE dryRun
    <3>1. Exec!List(NewTasks(n))
      BY <2>1, <2>2, <2>3, <2>4 DEF Exec!List
    <3> QED
      BY <2>3, <3>1 DEF Exec!ExecNext
  <2>5. CASE ~dryRun
    <3>1. Exec!Resolved
      BY <1>q, <2>1, <2>5, IdleIsResolved DEF Exec!Resolved
    <3>2. Exec!BeginRange(NewTasks(n))
      BY <2>1, <2>2, <2>3, <2>5, <3>1 DEF Exec!BeginRange
    <3> QED
      BY <2>3, <3>2 DEF Exec!ExecNext
  <2> QED
    BY <2>4, <2>5
<1>3. CASE UNCHANGED queueVars
  <2>1. \A t \in TaskIds : /\ TaskPhase(t)' = TaskPhase(t)
                           /\ TaskStarts(t)' = TaskStarts(t)
                           /\ IsPart(t)' = IsPart(t)
    BY <1>3, SamePhase, SameStarts DEF queueVars, IsPart
  <2>2. CASE RunMode' = RunMode
    BY <2>1, <2>2 DEF Exec!execVars, RunMode
  <2>3. CASE RangeEnds
    <3>1. /\ proc = "exec" /\ proc' = "ranges" /\ ~dryRun /\ dryRun' = dryRun
          /\ IsComplete
      BY <2>3 DEF RangeEnds, MigrationInv, RunProgress
    <3>2. Exec!Resolved
      BY <1>q, <3>1, IdleIsResolved DEF Exec!Resolved
    <3>3. Exec!EndRange
      BY <2>1, <3>1, <3>2 DEF Exec!EndRange
    <3> QED
      BY <3>3 DEF Exec!ExecNext
  <2>4. CASE proc # "off" /\ proc' = "off"
    <3>1. Exec!Stop
      BY <2>1, <2>4 DEF Exec!Stop
    <3> QED
      BY <3>1 DEF Exec!ExecNext
  <2>5. ASSUME NEW dry \in BOOLEAN, StartProcess(dry) PROVE Exec!ExecNext
    BY <1>1, <2>5
  <2>6. ASSUME NEW n \in 1..MaxBatch, Discovered(n) PROVE Exec!ExecNext
    BY <1>2, <2>6
  <2>7. CASE CreateDeployment \/ WorkersReady \/ NextRange \/ DiscoveryFails \/ NothingDiscovered
             \/ GenerateReport \/ Signal \/ OperatorDeletes \/ TaskStep \/ UNCHANGED vars
    <3>1. RunMode' = RunMode
      BY <2>7 DEF CreateDeployment, WorkersReady, NextRange, DiscoveryFails, NothingDiscovered,
        GenerateReport, Signal, OperatorDeletes, TaskStep, vars, RunMode
    <3> QED
      BY <2>2, <3>1
  <2>8. CASE CreateFails \/ StartupFails \/ ReturnCancelled \/ ExecutionCancelled \/ DryRunEnds
             \/ Finish \/ Crash
    BY <2>4, <2>8 DEF CreateFails, StartupFails, ReturnCancelled, ExecutionCancelled, DryRunEnds,
      Finish, Crash, Return
  <2> QED
    BY <2>3, <2>5, <2>6, <2>7, <2>8, MigrationStepCases
<1> QED
  BY <1>1, <1>2, <1>3, TaskStepRefined, RunStepCases

\* Run executes the tasks of its ranges as Execution allows, and assumes of
\* executeTasks no more than Execution promises.
THEOREM RunImplementsExecution == Spec => ImplementsExecution
<1>1. MigrationInv /\ RetryDiscipline /\ [Next]_vars => [Exec!ExecNext]_(Exec!execVars)
  BY RunStepRefined
<1> QED
  BY <1>1, RunInitRefined, RunRetries, PTL DEF Spec, ImplementsExecution, Exec!ExecSpec
=============================================================================
