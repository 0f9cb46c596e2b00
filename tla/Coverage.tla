------------------------------- MODULE Coverage -------------------------------
(***************************************************************************)
(* A migration run (Migration) with the data its tasks stand for: which    *)
(* series of a time range the Selector of each task matches.  A task       *)
(* begins with the series of one metric (createTasksForMetric) and passes  *)
(* them on when it is replaced by sub-tasks, the way SplitContract says    *)
(* and Splitter is shown to do (resplitFailedTask, both in                 *)
(* internal/orchestrator/orchestrator.go).                                 *)
(*                                                                         *)
(* The series that a selector matches in a range do not change in a run.   *)
(***************************************************************************)
EXTENDS Migration, SplitContract

CONSTANT Series  \* the series a time range may have

VARIABLES
  sel,    \* sel[t]: the series of its range that the Selector of task t matches
  found,  \* found[r]: the series of the metrics discovered in range r
  lost    \* lost[r]: the series of range r that a split left out

dataVars == <<sel, found, lost>>

NoSeries(S) == [x \in S |-> {}]

CoverageInit ==
  /\ Init
  /\ sel = NoSeries(TaskIds)
  /\ found = NoSeries(Ranges)
  /\ lost = NoSeries(Ranges)

-----------------------------------------------------------------------------
\* The Selectors of the tasks that the step creates.
Create(new) ==
  /\ new \in [(created + 1)..created' -> SUBSET Series]
  /\ sel' = [t \in TaskIds |-> IF t \in DOMAIN new THEN new[t] ELSE sel[t]]

\* A metric has series, and a series one metric.
SelectMetrics ==
  /\ proc = "discover"
  /\ created' # created
  /\ \E new \in [(created + 1)..created' -> SUBSET Series] :
       /\ Create(new)
       /\ found' = [found EXCEPT ![range] = UNION {new[t] : t \in DOMAIN new}]
       /\ IsSplit(found'[range], new, {})
  /\ UNCHANGED lost

\* The task that was created for the metric of t.
MetricTask(t) == CHOOSE x \in 1..created : unit[x] = unit[t] /\ ~splitAttempted[x]

\* SplitMetric is given the metric, not the Selector, of the task that failed: it
\* splits all the series of the metric, whichever of them the task was to migrate.
SelectParts ==
  /\ proc = "exec"
  /\ created' # created
  /\ \E t \in running :
       /\ ReplaceTasks(t, created' - created)
       /\ \E new \in [(created + 1)..created' -> SUBSET Series], gone \in SUBSET Series :
            /\ Create(new)
            /\ IsSplit(sel[MetricTask(t)], new, gone)
            /\ lost' = [lost EXCEPT ![range] = @ \union gone]
  /\ UNCHANGED found

\* A new process knows nothing of the tasks of an earlier one.
Forget ==
  /\ proc = "off" /\ proc' # "off"
  /\ sel' = NoSeries(TaskIds)
  /\ found' = NoSeries(Ranges)
  /\ lost' = NoSeries(Ranges)

KeepSelections ==
  /\ proc # "off" \/ proc' = "off"
  /\ created' = created
  /\ UNCHANGED dataVars

CoverageNext == Next /\ (SelectMetrics \/ SelectParts \/ Forget \/ KeepSelections)

CoverageSpec == CoverageInit /\ [][CoverageNext]_<<vars, dataVars>>

-----------------------------------------------------------------------------
(* Properties.                                                              *)

\* Type invariant.
CoverageTypeOK ==
  /\ MigrationTypeOK
  /\ sel \in [TaskIds -> SUBSET Series]
  /\ found \in [Ranges -> SUBSET Series]
  /\ lost \in [Ranges -> SUBSET Series]

\* The tasks of a range that were not replaced by sub-tasks.
Holders(r) == {t \in 1..created : unit[t][1] = r /\ ~Split(t)}
Held(r) == UNION {sel[t] : t \in Holders(r)}

\* No series is migrated for a range by two tasks, retries aside: the sub-tasks
\* share none with each other, with the other metrics, or with the task they
\* replace, which is never run again.
NoSeriesTwice ==
  \A r \in Ranges : \A s, t \in Holders(r) : s # t => sel[s] \intersect sel[t] = {}

\* At every moment each series that was discovered for a range is with a task
\* that waits, runs or is finished, or was left out by a split; no call on the
\* queue, and no late or failed split, lets a series slip out otherwise.
SeriesAccountedFor ==
  \A r \in Ranges : found[r] = Held(r) \union lost[r] /\ Held(r) \intersect lost[r] = {}

\* The promise of a run: when it exits with 0, a task that succeeded has matched
\* every series discovered in the time ranges, except what a split left out.
OkMeansSeriesMigrated ==
  proc = "off" /\ exit = "ok" /\ ~dryRun =>
    \A r \in Ranges :
      found[r] \ lost[r] \subseteq
        UNION {sel[t] : t \in {x \in Holders(r) : status[x] = "succeeded"}}
=============================================================================
