# TLA+ models of victoriametrics-data-migrator

The migrator moves metrics between two VictoriaMetrics clusters. A coordinator
splits the time interval into ranges, makes one task per metric and range, and
hands the tasks over gRPC to worker pods, which run `vmctl`. A task that fails on
a series limit is split by label values. This directory models the coordination:
what may be lost, repeated, forgotten or left waiting when calls fail, workers
die, disks fill up and signals arrive.

Paths below are relative to the repository's `src/`.

## 1. Inventory

| Component | State it keeps | Operations | Hard behaviour | What makes it correct |
|---|---|---|---|---|
| Task queue, `internal/scheduler/task.go` | tasks with status, attempts, split mark; slices `pending`, `done`, `failed`, map `running`; the state file | AddTasks, NextTask, GetTask, CompleteTask, FailTask, ReplaceTasks, IsComplete, persistState | calls by id arrive late or twice; a write of the file fails or is torn | a task is in one list; attempts are bounded; a finished task stays so; FIFO; the file is truthful |
| Dispatch loop, `executeTasks` in `internal/orchestrator/orchestrator.go` | a channel of results, one goroutine per dispatched task | dispatchNext, receive, handle success / failure / resplit, cancel | interleaving of goroutines with the loop, full channel, lost wake-up | no result, worker or wake-up is lost; every task is resolved |
| Worker pool, `internal/worker/manager.go` | the Deployment; a busy flag per connection | DeployWorkers, AcquireWorker, ReleaseWorker, DispatchTask, Cleanup | lost calls; polling with a deadline; a Deployment left behind | a worker serves one task; the Deployment goes with the run |
| Worker server, `internal/workerserver/server.go` | a busy flag | ExecuteTask | an orphaned `vmctl` beside the retry of its task | one `vmctl` at a time; no needless refusal |
| vmctl runner, `internal/workerserver/vmctl.go` | a process, two pipes, the log lines | RunVmctl, parseVmctlBytes | a pipe nobody drains; a kill at any moment; map iteration order | the call ends when `vmctl` does; the log is complete; a complaint about a limit is noticed; the byte count is what was printed |
| Migration run, `Run` in `orchestrator.go`, `runMigrate` in `cmd/vm-migrator/main.go` | the current range, counters, context | New, Run | discovery errors, cancellation, crash and restart | a run that reports success migrated every range |
| Splitter, `internal/splitter/` | none between calls | SplitMetric, BinPack | API errors in the middle of a recursion | the selectors partition the series (up to the gaps of section 5) |
| Time ranges, `internal/scheduler/timerange.go`, and what is asked for in each (`DiscoverMetrics`, `buildVmctlArgs`) | none | SplitTimeRange | month overflow; UTC offsets; the last, short range | the ranges tile the interval; `vmctl` copies what was discovered (it does for dates in UTC only, section 5) |
| Configuration, `internal/config/config.go` | read-only | LoadConfig, applyDefaults, validateConfig, EffectiveMaxSeriesForMetric | rounding and degenerate limits | what is accepted can be worked with |
| Tracker, `internal/progress/tracker.go` | stop channel, current range | Start, Stop, GenerateReport | a goroutine that re-reads a replaced channel | every logger is stopped |
| Discovery client, `internal/discovery/client.go` | none | one HTTP request per call | failing and truncated answers | see the modules that call it |
| Prometheus metrics, gRPC stubs, test data generator | none | | | see "Not modelled" |

How they interact: `Run` calls `SplitTimeRange`, then for each range the discovery
client, `AddTasks` and `executeTasks`. The loop of `executeTasks` takes a worker from
the pool, a task from the queue, and starts a goroutine that calls the worker, gives
it back and sends the result into a channel; the loop receives it and calls
`CompleteTask`, `FailTask`, or the splitter and `ReplaceTasks`. Queue and pool are
shared under one mutex each. The tracker's goroutine only reads.

The hazards of this code, each at its line with the properties that would catch it
going wrong, are listed in `PROJECT.json` under `hazards`.

## 2. The modules and the code

| Module | What it models |
|---|---|
| `TaskLifecycle` | abstract: what the queue promises about the life of one task |
| `Execution` | abstract: what `Run` and `executeTasks` promise each other about the tasks of a run; extends `TaskLifecycle` |
| `SplitContract` | abstract: what `resplitFailedTask` promises the run that replaces a task by its parts |
| `TaskQueue` | `scheduler.TaskQueue` and its state file; implements `TaskLifecycle` |
| `WorkerPool` | the busy flags of coordinator and workers and the RPCs between them |
| `Dispatch` | `executeTasks`: the loop, its goroutines and `resultCh`, composed with `TaskQueue` and `WorkerPool`; implements `Execution` |
| `Migration` | `Run` and the process around it, composed with `TaskQueue`; implements `Execution` |
| `Tracker` | the progress loggers of the ranges, composed with `Migration` |
| `Coverage`, `MCCoverage` | the series that the tasks of a run stand for, composed with `Migration`; the symmetry it is checked with |
| `Vmctl` | one call of `RunVmctl`: process, pipes, scanners, kill, result |
| `Splitter`, `MCSplitter` | `resplitFailedTask`, `SplitMetric`, `BinPack`, keeping `SplitContract`; the values it is checked with |
| `Plan`, `MCPlan` | from the configuration to the intervals that vmselect and `vmctl` are asked for; the values it is checked with |
| `SequenceLemmas` | facts about Go slices and channels as sequences |
| `TaskQueueProofs`, `DispatchProofs`, `MigrationProofs`, `RunProofs` (`Tracker` and `Coverage`), `SplitterProofs`, `VmctlProofs`, `PlanProofs` | the theorems |

**TaskQueue.** One action per method; each method holds `q.mu` for its whole body, so
it is one step. Task `"tN"` is the number N. `q.done` and `q.failed` are bags,
because they are only appended to and counted. `persistState` is part of
`CompleteTask`, `FailTask` and `ReplaceTasks` and may fail, or tear the file, when
`Disk = "faulty"`. `FailTask` compares the attempt just counted with `MaxRetries`,
as the code does; the README's count is `RetriesAsDocumented`. A running task that is replaced
leaves `q.running` and keeps the status "running" for ever; the abstract `TaskLifecycle`
calls this phase "split". `ReplaceTasks` of a task that is not running leaves that task
alone, as the code does, and is no more than a birth of tasks to `TaskLifecycle`; what its comment
promises is `ReplacedAsDocumented`. Under `QueueSpec` any client may make any call in any order.

**WorkerPool.** `AcquireWorker` takes the first idle worker of the list. A call is a
record that moves from "sent" through "running" to "replied"; the worker's flag is
`server[w]`. `DispatchTaskReturns` covers a call that returns with its answer and one
that is lost at any point: a broken connection, a dead pod, an answer over gRPC's
message limit, a cancelled context; the history variable `lost` remembers it. A request that is
given up before the worker has read it is never read (section 6). The `vmctl` of a lost call goes on as an orphan
until `OrphanExits`, and the worker refuses other tasks meanwhile. `exitedOK` counts,
as history, the runs of `vmctl` that exited with 0.

**Dispatch.** `pc` is the position of the loop's goroutine: acquiring a worker, asking
for a task, waiting in the select, or handling a result. Goroutines release their
worker and send their result in two steps; `resultCh` has `ResultCap` places.
`HandleSuccess`, `HandleFailure` and `HandleResplit` are the three paths of the
handler, each with its whole effect on the queue and the `dispatchNext` that
follows. What the splitter answers is a choice here. `Cancel` is the signal.

**Migration.** `proc` is the position of `Run`. `StartProcess` is `runMigrate` and `New`:
an empty queue, and a state file left over from the last process. `CreateDeployment`,
`WorkersReady`, `CreateFails` and `StartupFails` are `DeployWorkers`, the error of `New` before it
and the checks after it; `deployment` survives the process. `executeTasks` is seen from outside:
in "exec" the queue's methods are called for its tasks until `RangeEnds` or
`ExecutionCancelled`. (What the queue does under `executeTasks` itself is in
`Dispatch`; that the two views fit together is what `Execution` is for.) `Crash` may come at any moment. `recorded`, `covered`, `skipped` and
`apiOk` are history variables: what the state file shows, which ranges were
processed, and whether a Kubernetes call failed.

**Execution.** The seam between the two views of `executeTasks`. A process is "stopped",
"planning" (a dry run), "idle" between ranges or "executing" one. A range begins and
ends only when nothing is waiting or active, tasks run and split only in between,
a task is split at most once and into two parts at least, and a part is never
split. `Dispatch` implements it from inside, with its goroutines, lost calls and late
results, and `Migration` from outside, with restarts, signals and crashes: so `Migration`
allows `executeTasks` no less than it does, and what `Run` may do next rests only on
what was shown of `executeTasks`. One `queueVars` step maps to one step of a task's life, the end of a
range to `EndRange`, and the steps of the goroutines to stutters.

**Coverage.** `Migration` moves tasks and does not say what they migrate. `CoverageNext`
takes each of its steps together with what happens to the data: `SelectMetrics`
when a range is discovered (each metric gets a set of series, and no two share
one), `SelectParts` when a task is replaced, `Forget` when a process starts. What a
split returns is any answer that `SplitContract` allows, and `Splitter` is proved to
give no other. `SplitMetric` is handed the metric and not the selector
of the failed task (orchestrator.go:359), so a split always covers the series of
`MetricTask`: two tasks would migrate the same series if a part were split again. Which
series a selector matches does not change during a run: the ranges lie in the past.

**Tracker.** `TrackedNext` takes each step of `Run` together with the call of the tracker
that `Run` makes with it: `Start` when it begins to execute a range, `Stop` when
that ends. The goroutine of each `Start` reads `t.stopCh` when it enters its select
(`LoggerWaits`), not when it is spawned, so one that was slow waits on the channel of
a later range. That is harmless only because every channel that is replaced was
closed, or is closed by the `Stop` that follows: `NoLoggerLeaks`. (Two loggers can
be at work at once, for a moment or, with a slow one, for a range.)

**Vmctl.** Text travels in chunks; `PipeSize` and `BufSize` are the capacities of a pipe
and of a scanner's buffer. `vmctl` commits itself to a line, writes it chunk by chunk
and blocks on a full pipe. `ScannerReads` moves a chunk, `ScannerGivesUp` is the
scanner's `ErrTooLong`, `ScannerEnds` the end of file, which turns the rest of a line
into a line. `ReadersDone` is `wg.Wait`, `WaitReturns` is `cmd.Wait` and what follows it.
`ContextDone` may come at any time and `KillVmctl` is the watcher of
`exec.CommandContext`, which may be late and meet a process that has exited.

**Plan.** A time is an instant in hours and the UTC offset of the text it was read from;
`MonthHours` is the calendar. `LoadConfig` applies the defaults, validates, and
computes the splitting limit with the rounding of a floating-point product.
`NextRange` is one turn of the loop of `SplitTimeRange`; `ProcessRange` is what `Run` then
asks vmselect for (`Discover`, Unix time) and what the workers' `vmctl` is told
(`VmctlArgs`, the local clock with a literal `Z`).

**Splitter.** A series is a function from labels to values and a selector the values it
admits for some labels. The recursion of `recursiveSplit` is a stack: bins become
selectors at once, oversized values are split first and the remainder is counted
after them, as in the code. `BinPack` places one value at a time. `Distributions`
is the list of values that one response of the API holds, at most `TopN`.
`dropped` is a history variable: the series lost on the way, and how.

## 3. The runs

| Run | Shows | Bounds | States |
|---|---|---|---|
| `taskqueue` | one place per task, the attempts the code allows, a truthful state file, FIFO, and that `TaskQueue` implements `TaskLifecycle` | 3 tasks, batches of 2, 2 attempts, failing disk | 61 thousand |
| `dispatch` | ownership of tasks and workers, no missed idle worker, real successes, conserved successes, no refusal before a call is lost, nothing left between ranges; `executeTasks` from inside implements `Execution`, its work runs out, and it returns | 3 tasks, batches of 2, 2 workers, 2 attempts, channel of 1, lost calls | 0.6 million |
| `migration` | the meaning of exit status 0, cleanup, dry runs, no logger left behind, that `Run` implements `Execution` (ranges are sequential), and that every run ends | 4 tasks, 2 ranges, 2 processes | 0.5 million |
| `coverage` | each discovered series is with exactly one task or was left out by a split; exit status 0 means it was migrated | 5 tasks, 2 ranges, 2 processes, 3 interchangeable series | 2.5 million |
| `splitter` | `SplitContract` (sub-tasks are apart, no series is lost but in two known ways), limits kept, termination | tasks of up to 5 series over 3 labels, limit 3, 2 values per regex, 3 values per response | 0.2 million |
| `vmctl` | complete logs, noticed limits, and when a call returns | 3 lines of up to 3 chunks, buffers of 2, pipes of 1 | 0.9 million |
| `plan` | the ranges tile the interval, limits are usable, and with dates in UTC `vmctl` is told each instant of it once | 25 dates in 3 offsets over three months, 5 steps, 7 settings of the limits, up to 10 ranges | 81 thousand |

The runs expected to fail each confront one sentence of the repository with the code:

| Run | Sentence | What happens |
|---|---|---|
| `resume_documented` | task.go:218, "for crash recovery" | nothing reads the state file; a new process migrates everything again |
| `deployment_deleted` | README.md:34, "Delete worker Deployment" | errors before the report return without `Cleanup`; the next run then fails to create its Deployment |
| `retries_documented` | README.md:132, "Retries per failed task" | `max_retries` counts the first attempt: a failed task is given up one retry early |
| `replace_documented` | task.go:147, "removes a task from pending/running" | a pending task stays queued beside the tasks that replace it |
| `split_partition` | splitter.go:2, "partitioning" | values beyond the longest list of a response match no selector |

**Bounds.** Two workers and two tasks with two attempts are the least with which a worker is
idle while another's result is on its way and a failed task waits again. A channel of one
makes a second sender wait; the code's capacity is the configured number of workers,
which may be less than the number connected. Two attempts give a task that is
retried and one that is given up. Three tasks let `dispatch` split one; a split beside
another task takes four, which `migration` has, against the same `Execution` (and `coverage`
five), and the theorems have every number. Three series and five tasks give a range of two metrics of which one is split, with a series left
out, and a second range; the series are interchangeable, so `coverage` uses their
permutations as a symmetry, which is sound because its properties are invariants and no
constant singles a series out. Two ranges and four tasks give a range whose
predecessor left split tasks behind; two processes give a restart. Five series
over a limit of three give bins with two values, oversized values, remainders above
and below the limit, and, with one label excluded, a selector without labels left; four
values of `pod` against three per response give a truncated list. Lines of three chunks
against a buffer of two are too long for a scanner, and against a pipe of one they
block their writer; three lines give each pipe one and one of them another. The
dates of `plan` lie at both ends of months of 31 and of 28 days, at midnight and
within a day, so that steps overflow a month and the last range is cut. `MaxTasks`,
`MaxBatch` and `MaxRuns` bound what the program leaves unbounded; the theorems hold for
every value of them.

**Deadlock** is checked for the queue. The other runs may stop: a loop that
returned, a process that ended when `MaxRuns` is used up, a split that is over.
A wrong stop is what `ExecuteTasksReturns`, `EveryRunEnds` and
`SplitTerminates` are for. They need fairness, and TLC finds them on small
instances only. What they rest on is stated as two action properties that need
none and are proved: `WorkRunsOut`, each step of `executeTasks` on the queue lowers
the first that it changes of the tasks that may still be split, the attempts left and
the length of the queue; and `EveryStepCountsDown`, each step of a split lowers the phase,
the labels that series may still be split by, the values to be packed or the
nodes on the stack.

**Fairness.** `Dispatch`: the loop's goroutine, the dispatch goroutines and the
workers take steps when they can; the Go scheduler and the network stack
give that. It assumes that `vmctl` ends. The code gives it no deadline, and `vmctl`
checks what that assumption rests on: `CallReturns` holds but for a scanner that gave
up on a line of more than 64 KB while `vmctl` goes on writing. `Vmctl`: the goroutines
are scheduled, `vmctl` goes on when it can write, and a kill that is due happens;
nothing obliges `vmctl` to crash or the context to be done. `Migration`: `Run` goes on, its requests have
deadlines, and its tasks end because of `ExecuteTasksReturns`; the loggers of `Tracker`
need not be scheduled at all. `Splitter`: a plain call
that does not count on a request failing. No fairness is assumed of signals,
crashes, lost calls, failing requests or operators.

## 4. The proofs

The theorems hold for every number of tasks, workers, ranges and processes, every
`MaxRetries`, every channel capacity and each of the disks; the assumptions are those
named in the modules (`QueueAssumption`, `PoolAssumption`, `DispatchAssumption`,
`MigrationAssumption`, `SplitterAssumption`, `TasksAssumption`, `PlanAssumption`,
`DatesAssumption`, `LimitsAssumption`, `VmctlAssumption`): finite sets, limits that are numbers.

- **TaskQueueProofs.** `OnePlace` is inductive over the types: the mutual exclusion of
  the slices needs that a task in `q.running` has the status "running" and that one in
  `q.pending` has not. `RetryDiscipline`, `FinishedForever`, `FileNeverAhead`,
  `FinishedIsPersisted` and `FirstInFirstOut` use it. The refinement of
  `TaskLifecycle` maps each action to one abstract step, and a late call to a stutter.
- **DispatchProofs.** `DispatchUsesQueue` shows that every step of the composition is a
  step of `QueueSpec`, so the theorems about the queue hold of it. `NoWorkerLeak` and
  `OneOwner` are the inductive core: a busy worker is in one call, a running task
  with one owner. `WorkConserving` is inductive because a goroutine releases before
  it sends, so that a freed worker always has a sender behind it. `NoStall` follows
  from these three. `SucceededWasMigrated` needs that an "ok" on its way was
  an exit status, and `NoRefusal` that the server runs a task only for its call.
  `WorkRunsOut` counts with cardinalities of finite sets: with `RetryDiscipline` a task
  that is in the queue has attempts left to lose, and a part adds nothing that could be
  split. `ImplementsExecution` goes by the three kinds of steps: a call on the queue, the
  return of `executeTasks`, and the rest, which it does not see.
- **MigrationProofs.** `RangeBarrier` is not inductive: that `RangeEnds` waits for
  `IsComplete` has to be remembered. `MigrationInv` says that outside "exec" the queue
  is idle (`IdleBetweenRanges`), that unfinished tasks are of the range in hand
  (`UnitsOfRange`, which a split hands on to its parts), and how far the run has come
  (`RunProgress`). With `OnePlace` an idle queue means that every task is finished or
  split, which gives `RangeBarrier` and `OkMeansMigrated`. The same invariant gives
  `ImplementsExecution`: nothing is waiting or active when a range begins or ends.
- **RunProofs.** Each tracked step is a step of `Migration`, so its theorems carry over
  (`TrackedRunsAreRuns`, and `CoveredRunsAreRuns` for `Coverage`). `NoLoggerLeaks` needs
  that all channels before `stopCh` are closed, and `stopCh` too unless a range is being executed.
  The invariant of the data is `CoverageInv`. `NoSeriesTwice` and `SeriesAccountedFor` need
  each other: the parts of a split are apart from the other tasks because they come from
  the task they replace. They also need that nothing is known of a range that is
  not discovered yet (`NothingAhead`), and that the task of a metric is unique
  (`OneMetricTask`), so that the whole metric that is split is what the replaced task
  held; this is where the guard on `SplitAttempted` is used. `OkMeansSeriesMigrated` then
  follows from `OkMeansMigrated`.
- **SplitterProofs.** At any moment a split consists of pieces: the selectors made, the
  nodes on the stack, the bins and values in `BinPack`'s hands, the remainder, and what
  was dropped. The invariant `SplitInv` says that the pieces are pairwise apart and
  together cover the task, and what is known in each phase. Pieces made from one
  node differ in one label, which keeps them apart; the counts of `BinsWithinLimits`
  are cardinalities of disjoint unions. `KeepsSplitContract` adds that a series that
  was dropped is in no piece any more (`LostForGood`): a remainder that could not be
  counted does not come back. `EveryStepCountsDown` compares sets of pairs of a series
  and a label that are still open, so it needs no bound on labels, values or depth.
- **PlanProofs.** `RangesTile` is nearly inductive; the reversal is undone by reading the
  ranges backwards. That the limit is not negative follows from the margin being at
  most 99 per cent. `UtcPlanIsCopied` carries `RangesTile` over to what is told: for UTC dates
  only, because only their local clock is the instant itself (`ZonesInv`).
- **VmctlProofs.** Of each stream every chunk that was written is in the log, in the
  scanner's buffer or in the pipe, in this order (`ReadingInv`): so the chunk at the head
  of the pipe continues the line in the buffer (`NextChunk`), and what a scanner knows when
  it ends or gives up (`EofInv`, `TooLongInv`) is `LogsAreComplete`, for any number and
  size of lines and any capacity of pipes and buffers. `LimitIsNoticed` follows from it.

Some properties are proved but in no run, because others that a run checks imply
them: `NoStall` from ownership and
`WorkConserving`, `FinishedForever` from `ImplementsLifecycle`, `RangeBarrier` from the
same invariant as `ImplementsExecution`, and `SelectorsDisjoint` and `NothingForgotten`, which
`KeepsSplitContract` states of the result. Proved only are also the types of splitter and
data, `BinsAreFull`, the first fit of `BinPack`, and `OverLimitOnlyWithoutLabels`, which says in which
case a selector is larger than the splitter promises (section 5).

Only model-checked: the liveness properties (`ExecuteTasksReturns`, `EveryRunEnds`,
`SplitTerminates`, `CallReturns`, `CancelledCallReturns`), which are out of the prover's
reach.

## 5. What the code does otherwise than one may expect

Two disagreements with the documentation that bear on properties which hold, each with its own
run in section 3:

- `retry.max_retries` counts attempts, the first included (`task.go:127`); README.md:132
  calls it the retries per failed task. With 1 a task is never retried. `RetryDiscipline`,
  `TaskLifecycle` and the measure of `WorkRunsOut` use the code's count; `retries_documented` is
  the README's.
- `ReplaceTasks` deletes from `q.running` only (`task.go:153`); its comment (`task.go:147`) has it
  remove a pending task, too. `ImplementsLifecycle` holds because it asks of such a call no more
  than that it creates tasks; `replace_documented` is the comment. `executeTasks` replaces only
  tasks that are running.

Met while modelling and not given a run of their own:

- A range whose `DiscoverMetrics` fails is skipped with a log line (`orchestrator.go:162`);
  the report counts it as done and the exit status is 0. `OkMeansMigrated` therefore
  has "covered or skipped".
- The selectors of a split are to "each match at most maxSeries time series"
  (`splitter.go:18-19`, `56-57`). When no label is left, the code returns a selector over the limit
  (`splitter.go:110-116`). Its sub-task is not split again. That it happens in no other case
  is the theorem `OverLimitIsUnsplittable`.
- A resplit task keeps the status "running" for ever (`task.go:153`): the state file and the totals
  of the report show it as work in progress.
- After a lost call its worker may refuse tasks, because the orphaned `vmctl` is still there
  (`server.go:44`). A refusal costs an attempt like any failure, so a task may be abandoned
  without having run. `NoRefusal` says that no worker refuses while no call was lost, and
  `ExecuteTasksReturns` counts such a task as dealt with.
- `parseHumanBytes` (`vmctl.go:167`) tries the suffixes in the order of a map, and `B` fits "7.8 MB": the
  total is 7 bytes or 8178892, as the order has it. `ParseHumanBytes` of `Vmctl` has both values.
- `report.Retried` counts succeeded tasks with more than one attempt, not retries, and
  none of the abandoned (`tracker.go:153`).
- `reverse_order` is false when it is not set; README.md:126 shows it as true.
- Dates with an offset shift what `vmctl` copies by that offset (`manager.go:454`), while
  discovery uses the instants: the local clock is written with a literal `Z`. `UtcPlanIsCopied` says
  nothing of them. Dates without an offset are UTC and unaffected. The end
  date is exclusive: its own day is not migrated.
- `splitting.safety_margin: 0` becomes 0.2 (`config.go:185`), as does every other 0 that
  stands for itself.
- The limits in `metric_overrides` are not validated: with a large margin the effective
  limit may be 0. `progress_interval: 0s` is accepted and ends in a panic
  (`tracker.go:50`).
- The migration's name does not depend on `filter_match` (`orchestrator.go:659`), so two
  migrations of one interval and cluster share Deployment and state file.

## 6. Not modelled

- The configuration beyond dates, step, order and splitting limits: each setting is
  defaulted or checked by itself. Several are parsed and have no effect
  (`retry.auto_resplit`, `retry.resplit_factor`, the labels of `metric_overrides`).
- The discovery client beyond the bounds it sends: one HTTP request per call, without
  state. Its answers and errors are choices of the modules that call it.
- Requests that arrive after they were given up. When a connection breaks while a request is
  on its way, the worker may still read it and start its `vmctl`: an orphan that begins
  late. The model has the orphans that had begun. Both meet the coordinator only as a worker that
  refuses or a task migrated once more, after a lost call, of which `NoRefusal` and
  `SuccessConserved` say nothing.
- Local time zones. Days have 24 hours and a date keeps its offset; `time.Parse` uses the process's
  zone when the offset is that zone's, and `AddDate` then makes days of 23 or 25 hours where the clock
  changes.
- How exact the counts are. The splitter takes the counts of `/api/v1/status/tsdb` for those of the
  series its selectors match in the range, and so does `SeriesCount`.
- The text of selectors (values are not escaped for quotes, and regular expressions with
  single backslashes; the model's selectors match what they are meant to), of the other `vmctl` arguments, reports, logs and manifests, and the
  commands of the CLI that only read and print.
- Prometheus metrics, which nothing reads back, generated gRPC stubs, and the
  generator of end-to-end test data.
- Kubernetes, as far as the code's own reactions do not depend on it, and what `vmctl`
  does with the data.
