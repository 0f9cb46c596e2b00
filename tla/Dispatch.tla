------------------------------- MODULE Dispatch -------------------------------
(***************************************************************************)
(* Orchestrator.executeTasks (internal/orchestrator/orchestrator.go): the  *)
(* loop that hands the tasks of a time range to the workers and handles    *)
(* their results, composed with the TaskQueue and the WorkerPool.          *)
(*                                                                         *)
(* The goroutine of Run executes the loop.  Each dispatched task has a     *)
(* goroutine of its own, which waits in DispatchTask (its record in        *)
(* `calls`), releases the worker, and then waits for room in resultCh (its *)
(* record in `senders`).  Run calls executeTasks once per time range, on   *)
(* the same queue and workers, with a new channel (StartRange).            *)
(***************************************************************************)
EXTENDS WorkerPool

CONSTANT ResultCap  \* config workers.count, the capacity of resultCh

ASSUME DispatchAssumption == ResultCap \in Nat \ {0}

VARIABLES
  pc,         \* where Run's goroutine is
  held,       \* the worker dispatchNext has acquired, 0 when there is none
  senders,    \* results of the goroutines that are sending to resultCh
  resultCh,   \* the channel's buffer
  current     \* the result that is being handled

loopVars == <<pc, held, senders, resultCh, current>>
vars == <<queueVars, poolVars, loopVars>>

TaskResult == [task : TaskIds, res : Result]
NoResult == [task |-> 0, res |-> "err"]

\* "between": in Run, between two ranges; "acquire", "next": in dispatchNext,
\* before AcquireWorker and before NextTask; "loop": at the loop's condition or
\* in its select; "handle": a result was received; "failed": returned ctx.Err().
PC == {"between", "acquire", "next", "loop", "handle", "failed"}

Init ==
  /\ QueueInit
  /\ PoolInit
  /\ pc = "between"
  /\ held = 0
  /\ senders = {}
  /\ resultCh = <<>>
  /\ current = NoResult

-----------------------------------------------------------------------------
(* Run's goroutine.                                                         *)

\* Run enqueues the tasks of the next range and calls executeTasks.
StartRange(n) ==
  /\ pc = "between"
  /\ ~cancelled
  /\ AddTasks(n)
  /\ resultCh' = <<>>
  /\ pc' = "acquire"
  /\ UNCHANGED <<held, senders, current, poolVars>>

DispatchAcquire(w) ==
  /\ pc = "acquire"
  /\ AcquireWorker(w)
  /\ held' = w
  /\ pc' = "next"
  /\ UNCHANGED <<senders, resultCh, current, queueVars, calls, server, exitedOK, cancelled, lost>>

NoIdleWorker ==
  /\ pc = "acquire"
  /\ busy = Worker
  /\ pc' = "loop"
  /\ UNCHANGED <<held, senders, resultCh, current, queueVars, poolVars>>

\* NextTask, and the goroutine for its task.
DispatchTo(t) ==
  /\ pc = "next"
  /\ NextTask(t)
  /\ DispatchTask(held, t)
  /\ held' = 0
  /\ pc' = "acquire"
  /\ UNCHANGED <<senders, resultCh, current, busy, server, exitedOK, cancelled, lost>>

\* Mutant: the worker is not given back when there is no task for it.
NothingToDispatchKeepsWorker ==
  /\ pc = "next"
  /\ pending = <<>>
  /\ held' = 0
  /\ pc' = "loop"
  /\ UNCHANGED <<senders, resultCh, current, queueVars, poolVars>>

NothingToDispatch ==
  /\ pc = "next"
  /\ pending = <<>>
  /\ ReleaseWorker(held)
  /\ held' = 0
  /\ pc' = "loop"
  /\ UNCHANGED <<senders, resultCh, current, queueVars, calls, server, exitedOK, cancelled, lost>>

\* Mutant: the range is over once every task has been dispatched.
RangeDoneEarly ==
  /\ pc = "loop"
  /\ pending = <<>>
  /\ pc' = "between"
  /\ UNCHANGED <<held, senders, resultCh, current, queueVars, poolVars>>

RangeDone ==
  /\ pc = "loop"
  /\ IsComplete
  /\ pc' = "between"
  /\ UNCHANGED <<held, senders, resultCh, current, queueVars, poolVars>>

\* select takes either branch when both are ready.
ReturnCancelled ==
  /\ pc = "loop"
  /\ ~IsComplete
  /\ cancelled
  /\ pc' = "failed"
  /\ UNCHANGED <<held, senders, resultCh, current, queueVars, poolVars>>

Receive ==
  /\ pc = "loop"
  /\ ~IsComplete
  /\ resultCh # <<>>
  /\ current' = Head(resultCh)
  /\ resultCh' = Tail(resultCh)
  /\ pc' = "handle"
  /\ UNCHANGED <<held, senders, queueVars, poolVars>>

Handled(next) ==
  /\ pc' = next
  /\ current' = NoResult
  /\ UNCHANGED <<held, senders, resultCh, poolVars>>

HandleSuccess ==
  /\ pc = "handle"
  /\ current.res = "ok"
  /\ CompleteTask(current.task)
  /\ Handled("acquire")

\* Mutant: a lost call is taken to have done its work.
HandleFailureOptimist ==
  /\ pc = "handle"
  /\ current.res # "ok"
  /\ IF current.res = "err" THEN CompleteTask(current.task) ELSE FailTask(current.task)
  /\ Handled("acquire")

\* A dispatch error, a failed vmctl, or a cardinality failure that resplitting
\* does not help: within the limit after all, no split found, or an error.
HandleFailure ==
  /\ pc = "handle"
  /\ current.res # "ok"
  /\ FailTask(current.task)
  /\ Handled("acquire")

\* GetTask finds the task in q.running, q.pending, q.done or q.failed.
GetTaskFinds(t) ==
  t \in running \/ t \in ToSet(pending) \/ done[t] > 0 \/ failed[t] > 0

\* resplitFailedTask returns n >= 2 sub-tasks: over the limit (or the fast
\* count failed) and the splitter found that many selectors.
HandleResplit(n) ==
  /\ pc = "handle"
  /\ current.res = "cardinality"
  /\ GetTaskFinds(current.task)
  /\ ~splitAttempted[current.task]
  /\ n >= 2
  /\ ReplaceTasks(current.task, n)
  /\ Handled("acquire")

MainStep ==
  \/ \E w \in Worker : DispatchAcquire(w)
  \/ NoIdleWorker
  \/ \E t \in TaskIds : DispatchTo(t)
  \/ NothingToDispatch
  \/ RangeDone
  \/ ReturnCancelled
  \/ Receive
  \/ HandleSuccess
  \/ HandleFailure
  \/ \E n \in 2..MaxBatch : HandleResplit(n)

-----------------------------------------------------------------------------
(* The goroutine of a dispatched task.                                      *)

\* Mutant: the result is sent before the worker is released.
GoroutineSendsFirst(c, r) ==
  /\ \/ /\ c.pc # "releasing"
        /\ \/ c.pc = "replied" /\ r = c.res
           \/ r = "err"
        /\ Len(resultCh) < ResultCap
        /\ resultCh' = Append(resultCh, [task |-> c.task, res |-> r])
        /\ Advance(c, "releasing", r)
        /\ UNCHANGED busy
     \/ /\ c.pc = "releasing" /\ r = c.res
        /\ calls' = calls \ {c}
        /\ ReleaseWorker(c.worker)
        /\ UNCHANGED resultCh
  /\ UNCHANGED <<pc, held, senders, current, queueVars, server, exitedOK, cancelled, lost>>

GoroutineReleases(c, r) ==
  /\ DispatchTaskReturns(c, r)
  /\ ReleaseWorker(c.worker)
  /\ senders' = senders \union {[task |-> c.task, res |-> r]}
  /\ UNCHANGED <<pc, held, resultCh, current, queueVars, server, exitedOK, cancelled>>

\* Mutant: a result that finds the channel full is dropped.
GoroutineSendsOrDrops(s) ==
  /\ s \in senders
  /\ senders' = senders \ {s}
  /\ resultCh' = IF Len(resultCh) < ResultCap THEN Append(resultCh, s) ELSE resultCh
  /\ UNCHANGED <<pc, held, current, queueVars, poolVars>>

GoroutineSends(s) ==
  /\ s \in senders
  /\ Len(resultCh) < ResultCap
  /\ resultCh' = Append(resultCh, s)
  /\ senders' = senders \ {s}
  /\ UNCHANGED <<pc, held, current, queueVars, poolVars>>

GoroutineStep ==
  \/ \E c \in calls, r \in Result : GoroutineReleases(c, r)
  \/ \E s \in senders : GoroutineSends(s)

-----------------------------------------------------------------------------
Cancel ==
  /\ ~cancelled
  /\ cancelled' = TRUE
  /\ UNCHANGED <<busy, calls, server, exitedOK, lost, queueVars, loopVars>>

Next ==
  \/ \E n \in 1..MaxBatch : StartRange(n)
  \/ MainStep
  \/ GoroutineStep
  \/ WorkerStep /\ UNCHANGED <<queueVars, loopVars>>
  \/ Cancel

Spec == Init /\ [][Next]_vars

\* Run's goroutine and the dispatch goroutines are scheduled, and a worker that
\* is called answers: vmctl ends.  Nothing obliges a connection to break, a
\* signal to come, or Run to find another range.
Fairness ==
  /\ WF_vars(MainStep)
  /\ WF_vars(GoroutineStep)
  /\ WF_vars(WorkerStep /\ UNCHANGED <<queueVars, loopVars>>)

LiveSpec == Spec /\ Fairness

-----------------------------------------------------------------------------
(* Properties.                                                              *)

\* Type invariant of the composed system.
DispatchTypeOK ==
  /\ QueueTypeOK
  /\ busy \in SUBSET Worker
  /\ calls \in SUBSET Call
  /\ server \in [Worker -> TaskIds \union {Idle}]
  /\ exitedOK \in [TaskIds -> Nat]
  /\ cancelled \in BOOLEAN
  /\ lost \in BOOLEAN
  /\ pc \in PC
  /\ held \in IF pc = "next" THEN Worker ELSE {0}
  /\ senders \in SUBSET TaskResult
  /\ resultCh \in Seq(TaskResult)
  /\ current \in IF pc = "handle" THEN TaskResult ELSE {NoResult}

\* The results on their way to Run's goroutine, and the tasks they are for.
Handling == IF pc = "handle" THEN {current.task} ELSE {}
Called   == {c.task : c \in calls}
Sending  == {s.task : s \in senders}
Buffered == {r.task : r \in ToSet(resultCh)}

\* Every running task is in exactly one place on its way through dispatch: in
\* one call, or with one goroutine that sends its result, or once in resultCh,
\* or being handled.  No result is lost, duplicated or handled for a task that
\* is not running, whatever calls are lost and however full the channel is.
OneOwner ==
  /\ running = Handling \union Called \union Sending \union Buffered
  /\ Handling \intersect (Called \union Sending \union Buffered) = {}
  /\ Called \intersect (Sending \union Buffered) = {}
  /\ Sending \intersect Buffered = {}
  /\ \A c, d \in calls : c.task = d.task => c = d
  /\ \A s, t \in senders : s.task = t.task => s = t
  /\ \A r, s \in ToSet(resultCh) : r.task = s.task => r = s
  /\ IsInjective(resultCh)

\* A worker the coordinator holds busy is in exactly one call, or is the one
\* dispatchNext has just acquired: no path through dispatchNext or a goroutine
\* leaks a worker or gives it to two tasks.
NoWorkerLeak ==
  /\ busy = {c.worker : c \in calls} \union ({held} \ {0})
  /\ \A c, d \in calls : c.worker = d.worker => c = d
  /\ \A c \in calls : c.worker # held

\* When the loop waits in its select with tasks unfinished, a call, a sending
\* goroutine or a buffered result will wake it: dispatch never stalls.
NoStall ==
  pc = "loop" /\ ~IsComplete => calls # {} \/ senders # {} \/ resultCh # <<>>

\* An idle worker beside a waiting task is never missed: when the loop waits
\* with both, the result of the task that freed the worker is on its way and
\* its handling dispatches again.  This is why a goroutine releases its worker
\* before it sends the result.
WorkConserving ==
  pc = "loop" /\ pending # <<>> /\ busy # Worker => senders # {} \/ resultCh # <<>>

\* A task is reported as succeeded only if a vmctl run of it exited with 0,
\* however often it was lost, refused, orphaned and retried in between.
SucceededWasMigrated ==
  \A t \in TaskIds : status[t] = "succeeded" => exitedOK[t] > 0

\* When executeTasks returns nil nothing of it is left behind: no goroutine, no
\* result, no busy worker meets the next range (so that wg is never waited on
\* does no harm).
QuietBetweenRanges ==
  pc = "between" => busy = {} /\ calls = {} /\ senders = {} /\ resultCh = <<>>

\* While no call is lost no task is ever refused by a busy worker: the worker
\* clears its flag before it answers, the coordinator clears its own after.
\* (Once a call is lost, its worker may refuse tasks, each refusal costs an
\* attempt, and a task may be abandoned without having run.)
NoRefusal ==
  ~lost => \A c \in calls : c.pc = "sent" => server[c.worker] = Idle

\* While no call is lost each task is migrated at most once and no success is
\* dropped: every vmctl run that exited with 0 is one completed task, or one
\* result on its way to become one.
OKResults(t) ==
  {c \in calls : c.task = t /\ c.res = "ok"} \union
  {s \in senders : s = [task |-> t, res |-> "ok"]} \union
  {r \in ToSet(resultCh) : r = [task |-> t, res |-> "ok"]} \union
  {x \in {current} : x = [task |-> t, res |-> "ok"]}

SuccessConserved ==
  ~lost =>
    \A t \in TaskIds :
      /\ exitedOK[t] <= 1
      /\ exitedOK[t] = 1 <=> status[t] = "succeeded" \/ OKResults(t) # {}

\* Every call of executeTasks returns: with nil, which it does only when each
\* task of the range is finished or split (RangeDone, ImplementsExecution), or
\* because the run is cancelled.  Retries run out, and no worker, result or
\* wake-up is lost on the way, whatever calls are lost and refused.
ExecuteTasksReturns == pc \notin {"between", "failed"} ~> pc \in {"between", "failed"}

\* The work of executeTasks runs out: whatever it does to the queue hands out a
\* task, uses up an attempt or splits a task that was not split before; nothing
\* it does, late results included, gives it more to do for ever.
WorkRunsOut == [][pc # "between" => LessWork]_queueVars

\* The loop with its workers and goroutines does to the tasks what Execution
\* allows, and returns nil only when every task is finished or split.
Exec == INSTANCE Execution WITH
          Task   <- TaskIds,
          phase  <- [t \in TaskIds |-> TaskPhase(t)],
          starts <- [t \in TaskIds |-> TaskStarts(t)],
          part   <- [t \in TaskIds |-> IsPart(t)],
          mode   <- IF pc = "between" THEN "idle" ELSE IF pc = "failed" THEN "stopped"
                    ELSE "executing"

ImplementsExecution == Exec!ExecSpec
=============================================================================
