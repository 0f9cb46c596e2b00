------------------------------ MODULE Migration ------------------------------
(***************************************************************************)
(* Orchestrator.Run (internal/orchestrator/orchestrator.go) and the life   *)
(* of the coordinator process around it: start, deployment of the workers, *)
(* one time range after the other, report, cleanup and exit status, with   *)
(* discovery errors, Kubernetes errors, signals, crashes and restarts.     *)
(*                                                                         *)
(* executeTasks is seen from outside: it makes the calls on the TaskQueue  *)
(* that the results of the tasks call for, returns nil when IsComplete     *)
(* holds and ctx.Err() when the context is cancelled.  (Dispatch models it *)
(* from inside.)  The state file and the Deployment outlive the process.   *)
(***************************************************************************)
EXTENDS TaskQueue

CONSTANTS
  NumRanges,  \* len(timeRanges): at least 1, start_date is before end_date
  MaxRuns     \* bound on the number of processes

ASSUME MigrationAssumption ==
  /\ NumRanges \in Nat \ {0}
  /\ MaxRuns \in Nat

Ranges == 1..NumRanges

\* What a task migrates: the n-th metric discovered in a range.  The sub-tasks
\* of a resplit task migrate parts of its unit.
Unit == Ranges \X (1..MaxBatch)
NoUnit == <<0, 0>>

VARIABLES
  proc,        \* where the process is: see PC
  dryRun,      \* flag --dry-run
  range,       \* the time ranges begun so far; tracker.currentRange + 1
  unit,        \* unit[t]: the range and metric of task t
  covered,     \* the ranges that were processed (metric TimeRangesProcessed)
  skipped,     \* the ranges whose discovery failed
  cancelled,   \* ctx.Done()
  report,      \* the MigrationReport
  exit,        \* how the latest process ended
  apiOk,       \* no Kubernetes call of this process has failed
  deployment,  \* the worker Deployment of this configuration exists
  recorded,    \* the units the state file shows as succeeded
  runs         \* processes started

runVars == <<proc, dryRun, range, unit, covered, skipped, cancelled, report,
             exit, apiOk, deployment, recorded, runs>>
vars == <<created, status, attempts, splitAttempted, pending, running, done,
          failed, stateFile, lastWriteOk, proc, dryRun, range, unit, covered,
          skipped, cancelled, report, exit, apiOk, deployment, recorded, runs>>

\* "off": there is no process; "deploy": in New or before the Deployment is created;
\* "wait": waitForWorkers; "connect": connectToWorkers; "ranges": at the head of
\* the loop over the ranges; "discover": DiscoverMetrics; "exec": executeTasks;
\* "cleanup": after the report.
PC == {"off", "deploy", "wait", "connect", "ranges", "discover", "exec", "cleanup"}

NoReport == [total |-> 0, succeeded |-> 0, abandoned |-> 0, rangesDone |-> 0]

Init ==
  /\ QueueInit
  /\ proc = "off"
  /\ dryRun = FALSE
  /\ range = 0
  /\ unit = [t \in TaskIds |-> NoUnit]
  /\ covered = {}
  /\ skipped = {}
  /\ cancelled = FALSE
  /\ report = NoReport
  /\ exit = "none"
  /\ apiOk = TRUE
  /\ deployment = FALSE
  /\ recorded = {}
  /\ runs = 0

-----------------------------------------------------------------------------
(* New and DeployWorkers.                                                   *)

\* Nothing is loaded: the queue of a new process is empty, and the state file
\* keeps what an earlier process wrote until this one writes.
FreshQueue ==
  /\ created' = 0
  /\ status' = [t \in TaskIds |-> "none"]
  /\ attempts' = [t \in TaskIds |-> 0]
  /\ splitAttempted' = [t \in TaskIds |-> FALSE]
  /\ pending' = <<>>
  /\ running' = {}
  /\ done' = NoneDone
  /\ failed' = NoneDone
  /\ lastWriteOk' = TRUE
  /\ UNCHANGED stateFile

StartProcess(dry) ==
  /\ proc = "off"
  /\ runs < MaxRuns
  /\ runs' = runs + 1
  /\ FreshQueue
  /\ dryRun' = dry
  /\ proc' = IF dry THEN "ranges" ELSE "deploy"
  /\ range' = 0
  /\ unit' = [t \in TaskIds |-> NoUnit]
  /\ covered' = {}
  /\ skipped' = {}
  /\ cancelled' = FALSE
  /\ report' = NoReport
  /\ exit' = "none"
  /\ apiOk' = TRUE
  /\ UNCHANGED <<deployment, recorded>>

\* The Deployment's name is derived from the configuration: Create fails with
\* AlreadyExists when an earlier run has left one.
CreateDeployment ==
  /\ proc = "deploy"
  /\ ~deployment
  /\ deployment' = TRUE
  /\ proc' = "wait"
  /\ UNCHANGED <<dryRun, range, unit, covered, skipped, cancelled, report, exit,
                 apiOk, recorded, runs, queueVars>>

\* waitForWorkers sees enough ready replicas, then connectToWorkers reaches at
\* least one of them.
WorkersReady ==
  /\ \/ proc = "wait" /\ proc' = "connect"
     \/ proc = "connect" /\ proc' = "ranges"
  /\ UNCHANGED <<dryRun, range, unit, covered, skipped, cancelled, report, exit,
                 apiOk, deployment, recorded, runs, queueVars>>

\* Run returns result; the process ends.
Return(result) ==
  /\ proc' = "off"
  /\ exit' = result
  /\ UNCHANGED <<dryRun, range, unit, covered, skipped, cancelled, recorded, runs, queueVars>>

\* Create fails: the Deployment is there already, or the call failed, perhaps
\* only on its way back.
CreateFails ==
  /\ proc = "deploy"
  /\ apiOk' = FALSE
  /\ deployment' \in {deployment, TRUE}
  /\ Return("error")
  /\ UNCHANGED report

\* New finds no Kubernetes configuration; the deadline of waitForWorkers, a
\* signal, a pod list that fails, no pod that answers; or, with the workers up,
\* an exclude_metrics pattern that does not compile.  Nothing undoes the
\* Deployment.
StartupFails ==
  /\ \/ proc \in {"deploy", "wait", "connect"}
     \/ proc = "ranges" /\ range = 0
  /\ Return("error")
  /\ UNCHANGED <<apiOk, deployment, report>>

-----------------------------------------------------------------------------
(* The loop over the time ranges.                                           *)

\* Mutant: one range too many.
NextRangeOffByOne ==
  /\ proc = "ranges"
  /\ range <= NumRanges
  /\ ~cancelled
  /\ range' = range + 1
  /\ proc' = "discover"
  /\ UNCHANGED <<dryRun, unit, covered, skipped, cancelled, report, exit, apiOk,
                 deployment, recorded, runs, queueVars>>

NextRange ==
  /\ proc = "ranges"
  /\ range < NumRanges
  /\ ~cancelled
  /\ range' = range + 1
  /\ proc' = "discover"
  /\ UNCHANGED <<dryRun, unit, covered, skipped, cancelled, report, exit, apiOk,
                 deployment, recorded, runs, queueVars>>

ReturnCancelled ==
  /\ proc = "ranges"
  /\ range < NumRanges
  /\ cancelled
  /\ Return("error")
  /\ UNCHANGED <<apiOk, deployment, report>>

\* Mutant: a failed discovery is repeated until it succeeds.
DiscoveryRetried ==
  /\ proc = "discover"
  /\ range' = range - 1
  /\ proc' = "ranges"
  /\ UNCHANGED <<dryRun, unit, covered, skipped, cancelled, report, exit, apiOk,
                 deployment, recorded, runs, queueVars>>

\* The error is logged and the loop goes on with the next range.
DiscoveryFails ==
  /\ proc = "discover"
  /\ skipped' = skipped \union {range}
  /\ proc' = "ranges"
  /\ UNCHANGED <<dryRun, range, unit, covered, cancelled, report, exit, apiOk,
                 deployment, recorded, runs, queueVars>>

\* No metric, or none that is not excluded.
NothingDiscovered ==
  /\ proc = "discover"
  /\ covered' = covered \union {range}
  /\ proc' = "ranges"
  /\ UNCHANGED <<dryRun, range, unit, skipped, cancelled, report, exit, apiOk,
                 deployment, recorded, runs, queueVars>>

\* Mutant: a dry run executes its tasks.
DiscoveredAlwaysExecuted(n) ==
  /\ proc = "discover"
  /\ AddTasks(n)
  /\ unit' = [t \in TaskIds |-> IF t \in NewTasks(n) THEN <<range, t - created>> ELSE unit[t]]
  /\ proc' = "exec"
  /\ UNCHANGED <<dryRun, range, covered, skipped, cancelled, report, exit, apiOk,
                 deployment, recorded, runs>>

\* One task per metric; a dry run only lists them.
Discovered(n) ==
  /\ proc = "discover"
  /\ AddTasks(n)
  /\ unit' = [t \in TaskIds |-> IF t \in NewTasks(n) THEN <<range, t - created>> ELSE unit[t]]
  /\ proc' = IF dryRun THEN "ranges" ELSE "exec"
  /\ covered' = IF dryRun THEN covered \union {range} ELSE covered
  /\ UNCHANGED <<dryRun, range, skipped, cancelled, report, exit, apiOk,
                 deployment, recorded, runs>>

-----------------------------------------------------------------------------
(* executeTasks.                                                            *)

\* What the state file shows after a step: the whole tasks that succeeded, if
\* the step wrote it; nothing, if the write tore it.
Record ==
  recorded' =
    CASE stateFile'.kind # "state" -> {}
      [] lastWriteOk' -> {unit'[t] : t \in {x \in TaskIds : stateFile'.status[x] = "succeeded"
                                                         /\ ~splitAttempted'[x]}}
      [] OTHER -> recorded

\* Mutant: a part of a task is split again.
MayAlwaysSplit(t) == t \in running

MaySplit(t) == t \in running /\ ~splitAttempted[t]

TaskStep ==
  /\ proc = "exec"
  /\ \/ \E t \in TaskIds :
          /\ NextTask(t)
          /\ UNCHANGED <<unit, recorded>>
     \/ \E t \in running :
          /\ CompleteTask(t) \/ FailTask(t)
          /\ UNCHANGED unit
          /\ Record
     \/ \E t \in running, n \in 2..MaxBatch :
          /\ MaySplit(t)
          /\ ReplaceTasks(t, n)
          /\ unit' = [x \in TaskIds |-> IF x \in NewTasks(n) THEN unit[t] ELSE unit[x]]
          /\ Record
  /\ UNCHANGED <<proc, dryRun, range, covered, skipped, cancelled, report, exit,
                 apiOk, deployment, runs>>

\* Mutant: the range ends when its last task has been handed out.
RangeEndsEarly ==
  /\ proc = "exec"
  /\ pending = <<>>
  /\ covered' = covered \union {range}
  /\ proc' = "ranges"
  /\ UNCHANGED <<dryRun, range, unit, skipped, cancelled, report, exit, apiOk,
                 deployment, recorded, runs, queueVars>>

RangeEnds ==
  /\ proc = "exec"
  /\ IsComplete
  /\ covered' = covered \union {range}
  /\ proc' = "ranges"
  /\ UNCHANGED <<dryRun, range, unit, skipped, cancelled, report, exit, apiOk,
                 deployment, recorded, runs, queueVars>>

\* Run returns the error at once: no report, no cleanup.
ExecutionCancelled ==
  /\ proc = "exec"
  /\ ~IsComplete
  /\ cancelled
  /\ Return("error")
  /\ UNCHANGED <<apiOk, deployment, report>>

-----------------------------------------------------------------------------
(* Report, cleanup and exit status.                                         *)

\* Stats counts the entries of q.done, and of q.failed the abandoned ones; no
\* task has two entries (OnePlace).
Succeeded == {t \in TaskIds : done[t] > 0}
Abandoned == {t \in TaskIds : failed[t] > 0 /\ status[t] = "abandoned"}

DryRunEnds ==
  /\ proc = "ranges"
  /\ range = NumRanges
  /\ dryRun
  /\ Return("ok")
  /\ UNCHANGED <<apiOk, deployment, report>>

\* The loop ended on its own; the context is not looked at again.
GenerateReport ==
  /\ proc = "ranges"
  /\ range = NumRanges
  /\ ~dryRun
  /\ report' = [total      |-> created,
                succeeded  |-> Cardinality(Succeeded),
                abandoned  |-> Cardinality(Abandoned),
                rangesDone |-> range]
  /\ proc' = "cleanup"
  /\ UNCHANGED <<dryRun, range, unit, covered, skipped, cancelled, exit, apiOk,
                 deployment, recorded, runs, queueVars>>

ExitStatus == IF report.abandoned > 0 THEN "error" ELSE "ok"

\* Delete fails, as it does with a cancelled context; that is only logged.
CleanupFails ==
  /\ apiOk' = (apiOk /\ cancelled)
  /\ deployment' \in {deployment, FALSE}

CleanupSucceeds ==
  /\ ~cancelled
  /\ deployment' = FALSE
  /\ UNCHANGED apiOk

\* Mutants: the status ignores abandoned tasks; a failed migration keeps its workers.
FinishAlwaysOk ==
  /\ proc = "cleanup"
  /\ CleanupFails \/ CleanupSucceeds
  /\ Return("ok")
  /\ UNCHANGED report

FinishCleansUpSuccess ==
  /\ proc = "cleanup"
  /\ \/ CleanupFails \/ CleanupSucceeds
     \/ ExitStatus = "error" /\ UNCHANGED <<apiOk, deployment>>
  /\ Return(ExitStatus)
  /\ UNCHANGED report

Finish ==
  /\ proc = "cleanup"
  /\ CleanupFails \/ CleanupSucceeds
  /\ Return(ExitStatus)
  /\ UNCHANGED report

-----------------------------------------------------------------------------
(* The environment.                                                         *)

\* SIGINT or SIGTERM.
Signal ==
  /\ proc # "off"
  /\ ~cancelled
  /\ cancelled' = TRUE
  /\ UNCHANGED <<proc, dryRun, range, unit, covered, skipped, report, exit, apiOk,
                 deployment, recorded, runs, queueVars>>

\* The process is killed: it runs no more code.
Crash ==
  /\ proc # "off"
  /\ proc' = "off"
  /\ exit' = "killed"
  /\ UNCHANGED <<dryRun, range, unit, covered, skipped, cancelled, report, apiOk,
                 deployment, recorded, runs, queueVars>>

\* Somebody deletes a Deployment that was left behind.
OperatorDeletes ==
  /\ proc = "off"
  /\ deployment
  /\ deployment' = FALSE
  /\ UNCHANGED <<proc, dryRun, range, unit, covered, skipped, cancelled, report,
                 exit, apiOk, recorded, runs, queueVars>>

RunStep ==
  \/ CreateDeployment
  \/ WorkersReady
  \/ CreateFails
  \/ StartupFails
  \/ NextRange
  \/ ReturnCancelled
  \/ DiscoveryFails
  \/ NothingDiscovered
  \/ \E n \in 1..MaxBatch : Discovered(n)
  \/ TaskStep
  \/ RangeEnds
  \/ ExecutionCancelled
  \/ DryRunEnds
  \/ GenerateReport
  \/ Finish

Next ==
  \/ \E dry \in BOOLEAN : StartProcess(dry)
  \/ RunStep
  \/ Signal
  \/ Crash
  \/ OperatorDeletes

Spec == Init /\ [][Next]_vars

\* The process is scheduled, its requests have deadlines, and tasks end (see
\* Dispatch). Nothing obliges anyone to send a signal or start a process.
LiveSpec == Spec /\ WF_vars(RunStep)

-----------------------------------------------------------------------------
(* Properties.                                                              *)

\* Type invariant.
MigrationTypeOK ==
  /\ QueueTypeOK
  /\ proc \in PC
  /\ dryRun \in BOOLEAN
  /\ range \in IF proc \in {"discover", "exec"} THEN Ranges ELSE 0..NumRanges
  /\ unit \in [TaskIds -> Unit \union {NoUnit}]
  /\ covered \in SUBSET Ranges
  /\ skipped \in SUBSET Ranges
  /\ cancelled \in BOOLEAN
  /\ report \in [total : 0..MaxTasks, succeeded : 0..MaxTasks,
                 abandoned : 0..MaxTasks, rangesDone : 0..NumRanges]
  /\ exit \in {"none", "ok", "error", "killed"}
  /\ apiOk \in BOOLEAN
  /\ deployment \in BOOLEAN
  /\ recorded \in SUBSET (Unit \union {NoUnit})
  /\ runs \in 0..MaxRuns

Split(t) == status[t] = "running" /\ t \notin running

\* Time ranges are strictly sequential: whatever is still queued or running
\* belongs to the range in hand, and every earlier range was either skipped or
\* left no task behind ("newest data first" is a guarantee).
RangeBarrier ==
  ~dryRun =>
    \A t \in 1..created :
      unit[t][1] # range \/ proc \in {"ranges", "discover"} =>
        status[t] \in Finished \/ Split(t)

\* A migration that exits with 0 has migrated everything it discovered: every
\* range was processed or its discovery failed, and no task of it was abandoned
\* or forgotten, whenever the signal came and however often tasks were retried.
OkMeansMigrated ==
  proc = "off" /\ exit = "ok" /\ ~dryRun =>
    /\ covered \union skipped = Ranges
    /\ \A t \in 1..created : status[t] = "succeeded" \/ Split(t)

\* A run that got as far as its report takes its Deployment down, abandoned
\* tasks or not, unless Kubernetes fails or a signal came before the end.
CleansUpAfterReport ==
  proc = "off" /\ exit \in {"ok", "error"} /\ report # NoReport
    /\ apiOk /\ ~cancelled => ~deployment

\* --dry-run, "discover and plan without executing migration": a dry run
\* neither deploys, nor runs a task, nor touches the state file of a real one.
DryRunTouchesNothing ==
  [][dryRun /\ proc # "off" => UNCHANGED <<deployment, running, stateFile>>]_vars

\* Run, with its restarts and crashes, keeps to Execution too: it executes tasks
\* range by range, and takes from executeTasks only what Dispatch provides.
Exec == INSTANCE Execution WITH
          Task   <- TaskIds,
          phase  <- [t \in TaskIds |-> TaskPhase(t)],
          starts <- [t \in TaskIds |-> TaskStarts(t)],
          part   <- [t \in TaskIds |-> IsPart(t)],
          mode   <- IF proc = "off" THEN "stopped" ELSE IF dryRun THEN "planning"
                    ELSE IF proc = "exec" THEN "executing" ELSE "idle"

ImplementsExecution == Exec!ExecSpec

\* Every process ends, cancelled or not, however many discoveries and tasks fail.
EveryRunEnds == proc # "off" ~> proc = "off"

\* task.go, comment of persistState: the state is written "for crash recovery";
\* types.go calls it state "for resume support".  Nothing that the file shows as
\* migrated would then be migrated again.
ResumeAsDocumented ==
  \A t \in running : unit[t] \in recorded => splitAttempted[t]

\* README.md, How It Works, step 7: "Delete worker Deployment".  A run that
\* returned, with a sound Kubernetes API, leaves none.
RunDeletesDeployment ==
  proc = "off" /\ exit \in {"ok", "error"} /\ apiOk => ~deployment
=============================================================================
