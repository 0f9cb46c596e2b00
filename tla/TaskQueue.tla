------------------------------ MODULE TaskQueue ------------------------------
(***************************************************************************)
(* scheduler.TaskQueue (internal/scheduler/task.go): the mutex-protected   *)
(* queue of migration tasks and the state file it rewrites on every        *)
(* finished task.  Every method takes q.mu for its whole body, so each     *)
(* method is one action.                                                   *)
(*                                                                         *)
(* Task "tN" of the code is the number N: the orchestrator numbers tasks   *)
(* with taskCounter and enqueues every task it creates in that order, so   *)
(* q.tasks[N-1] is task N and `created` is both taskCounter and            *)
(* len(q.tasks).  The slices done and failed are only appended to, counted *)
(* and reported, so they are kept as bags: done[t] is the number of times  *)
(* t occurs in q.done.                                                     *)
(***************************************************************************)
EXTENDS Integers, SequencesExt

CONSTANTS
  MaxTasks,    \* bound on the number of tasks ever created
  MaxBatch,    \* bound on the tasks of one AddTasks or ReplaceTasks call
  MaxRetries,  \* config retry.max_retries (applyDefaults turns 0 into 3)
  Disk         \* the state file: "off" (no path given), "sound", or "faulty"
               \* when os.WriteFile may fail

ASSUME QueueAssumption ==
  /\ MaxTasks \in Nat
  /\ MaxBatch \in Nat
  /\ MaxRetries \in Int
  /\ Disk \in {"off", "sound", "faulty"}

TaskIds == 1..MaxTasks
Status == {"none", "pending", "running", "succeeded", "retrying", "abandoned"}
Finished == {"succeeded", "abandoned"}

VARIABLES
  created,         \* taskCounter = len(q.tasks)
  status,          \* task.Status ("none" until the task is created)
  attempts,        \* task.Attempts
  splitAttempted,  \* task.SplitAttempted
  pending,         \* q.pending, a FIFO slice
  running,         \* q.running, the key set of the map
  done,            \* q.done, as a bag
  failed,          \* q.failed, as a bag
  stateFile,       \* content of migration-state-<id>.json
  lastWriteOk      \* whether the latest persistState reached the disk

tasksVars == <<created, status, attempts, splitAttempted>>
listsVars == <<pending, running, done, failed>>
fileVars  == <<stateFile, lastWriteOk>>
queueVars == <<created, status, attempts, splitAttempted,
               pending, running, done, failed, stateFile, lastWriteOk>>

NoneDone == [t \in TaskIds |-> 0]

\* A state file without readable content: absent, or truncated by a write
\* that failed half way.
Unreadable(kind) ==
  [kind |-> kind, status |-> [t \in TaskIds |-> "none"],
   done |-> NoneDone, failed |-> NoneDone]

StateFile == [kind : {"absent", "torn", "state"}, status : [TaskIds -> Status],
              done : [TaskIds -> Nat], failed : [TaskIds -> Nat]]

QueueInit ==
  /\ created = 0
  /\ status = [t \in TaskIds |-> "none"]
  /\ attempts = [t \in TaskIds |-> 0]
  /\ splitAttempted = [t \in TaskIds |-> FALSE]
  /\ pending = <<>>
  /\ running = {}
  /\ done = NoneDone
  /\ failed = NoneDone
  /\ stateFile = Unreadable("absent")
  /\ lastWriteOk = TRUE

-----------------------------------------------------------------------------
(* persistState: the whole of q.tasks and the two counters, written over    *)
(* the previous file.  A failed write is only logged; os.WriteFile has      *)
(* then left the old file alone (open failed) or truncated it.              *)

WriteState(doneNow) ==
  /\ stateFile' = [kind |-> "state", status |-> status',
                   done |-> doneNow, failed |-> failed']
  /\ lastWriteOk' = TRUE

PersistState ==
  \/ /\ Disk # "off"
     /\ WriteState(done')
  \/ /\ Disk = "faulty"
     /\ stateFile' \in {stateFile, Unreadable("torn")}
     /\ lastWriteOk' = FALSE
  \/ /\ Disk = "off"
     /\ stateFile' = stateFile
     /\ lastWriteOk' = FALSE

-----------------------------------------------------------------------------
(* The methods.                                                             *)

NewTasks(n) == (created + 1) .. (created + n)

\* n fresh pending tasks, at the end of q.tasks and of q.pending.
AppendTasks(n, isSplit) ==
  /\ n \in 1..MaxBatch
  /\ created + n <= MaxTasks
  /\ created' = created + n
  /\ status' = [t \in TaskIds |-> IF t \in NewTasks(n) THEN "pending" ELSE status[t]]
  /\ splitAttempted' = [t \in TaskIds |-> IF t \in NewTasks(n) THEN isSplit
                                                               ELSE splitAttempted[t]]
  /\ pending' = pending \o [i \in 1..n |-> created + i]
  /\ UNCHANGED attempts

AddTasks(n) ==
  /\ AppendTasks(n, FALSE)
  /\ UNCHANGED <<running, done, failed, fileVars>>

\* Mutant: hands out the head of q.pending without taking it off.
NextTaskPeeks(t) ==
  /\ pending # <<>>
  /\ t = Head(pending)
  /\ status' = [status EXCEPT ![t] = "running"]
  /\ running' = running \union {t}
  /\ UNCHANGED <<created, attempts, splitAttempted, pending, done, failed, fileVars>>

NextTask(t) ==
  /\ pending # <<>>
  /\ t = Head(pending)
  /\ pending' = Tail(pending)
  /\ status' = [status EXCEPT ![t] = "running"]
  /\ running' = running \union {t}
  /\ UNCHANGED <<created, attempts, splitAttempted, done, failed, fileVars>>

\* Mutant: saves before the task is appended to q.done.
CompleteSavesEarly(t) ==
  /\ t \in running
  /\ status' = [status EXCEPT ![t] = "succeeded"]
  /\ running' = running \ {t}
  /\ done' = [done EXCEPT ![t] = @ + 1]
  /\ UNCHANGED <<created, attempts, splitAttempted, pending, failed>>
  /\ WriteState(done)

CompleteRunning(t) ==
  /\ t \in running
  /\ status' = [status EXCEPT ![t] = "succeeded"]
  /\ running' = running \ {t}
  /\ done' = [done EXCEPT ![t] = @ + 1]
  /\ UNCHANGED <<created, attempts, splitAttempted, pending, failed>>
  /\ PersistState

\* CompleteTask and FailTask only log a warning about a task that is not running.
NotRunning(t) == t \notin running /\ UNCHANGED queueVars

CompleteTask(t) == CompleteRunning(t) \/ NotRunning(t)

\* Attempts was just incremented when FailTask compares it with MaxRetries: the
\* first attempt counts against the limit.
RetriesLeft(t) == attempts[t] + 1 < MaxRetries

\* Mutant: the failed task is retried first.
RetryTaskFirst(t) ==
  /\ RetriesLeft(t)
  /\ status' = [status EXCEPT ![t] = "retrying"]
  /\ pending' = <<t>> \o pending
  /\ UNCHANGED failed

RetryTask(t) ==
  /\ RetriesLeft(t)
  /\ status' = [status EXCEPT ![t] = "retrying"]
  /\ pending' = Append(pending, t)
  /\ UNCHANGED failed

AbandonTask(t) ==
  /\ ~RetriesLeft(t)
  /\ status' = [status EXCEPT ![t] = "abandoned"]
  /\ failed' = [failed EXCEPT ![t] = @ + 1]
  /\ UNCHANGED pending

\* Mutants: the task stays in q.running; Attempts counts what is left; only a
\* task that is retried has its attempt counted; an abandoned task is not saved.
FailKeepsRunning(t) ==
  /\ t \in running
  /\ attempts' = [attempts EXCEPT ![t] = @ + 1]
  /\ RetryTask(t) \/ AbandonTask(t)
  /\ UNCHANGED <<created, splitAttempted, running, done>>
  /\ PersistState

FailCountsDown(t) ==
  /\ t \in running
  /\ running' = running \ {t}
  /\ attempts' = [attempts EXCEPT ![t] = @ - 1]
  /\ RetryTask(t) \/ AbandonTask(t)
  /\ UNCHANGED <<created, splitAttempted, done>>
  /\ PersistState

FailCountsRetriesOnly(t) ==
  /\ t \in running
  /\ running' = running \ {t}
  /\ attempts' = IF RetriesLeft(t) THEN [attempts EXCEPT ![t] = @ + 1] ELSE attempts
  /\ RetryTask(t) \/ AbandonTask(t)
  /\ UNCHANGED <<created, splitAttempted, done>>
  /\ PersistState

FailSavesRetriesOnly(t) ==
  /\ t \in running
  /\ running' = running \ {t}
  /\ attempts' = [attempts EXCEPT ![t] = @ + 1]
  /\ UNCHANGED <<created, splitAttempted, done>>
  /\ \/ RetryTask(t) /\ PersistState
     \/ AbandonTask(t) /\ UNCHANGED fileVars

FailRunning(t) ==
  /\ t \in running
  /\ running' = running \ {t}
  /\ attempts' = [attempts EXCEPT ![t] = @ + 1]
  /\ RetryTask(t) \/ AbandonTask(t)
  /\ UNCHANGED <<created, splitAttempted, done>>
  /\ PersistState

FailTask(t) == FailRunning(t) \/ NotRunning(t)

\* Mutant: q.running is made anew where the one task should leave it.
ReplaceClearsRunning(old, n) ==
  /\ AppendTasks(n, TRUE)
  /\ running' = {}
  /\ UNCHANGED <<done, failed>>
  /\ PersistState

\* The replaced task leaves q.running and no other slice, and its Status is
\* not touched: one that was pending stays queued beside its sub-tasks.
ReplaceTasks(old, n) ==
  /\ AppendTasks(n, TRUE)
  /\ running' = running \ {old}
  /\ UNCHANGED <<done, failed>>
  /\ PersistState

IsComplete == pending = <<>> /\ running = {}

\* Any client may call any method at any time, with any known or unknown id.
QueueNext ==
  \/ \E n \in 1..MaxBatch : AddTasks(n)
  \/ \E t \in TaskIds : NextTask(t)
  \/ \E t \in TaskIds : CompleteTask(t)
  \/ \E t \in TaskIds : FailTask(t)
  \/ \E t \in TaskIds, n \in 1..MaxBatch : ReplaceTasks(t, n)

QueueSpec == QueueInit /\ [][QueueNext]_queueVars

-----------------------------------------------------------------------------
(* Properties.                                                              *)

\* Type invariant of the queue's fields.
QueueTypeOK ==
  /\ created \in 0..MaxTasks
  /\ status \in [TaskIds -> Status]
  /\ attempts \in [TaskIds -> Nat]
  /\ splitAttempted \in [TaskIds -> BOOLEAN]
  /\ pending \in Seq(TaskIds)
  /\ running \in SUBSET TaskIds
  /\ done \in [TaskIds -> Nat]
  /\ failed \in [TaskIds -> Nat]
  /\ stateFile \in StateFile
  /\ lastWriteOk \in BOOLEAN

\* A task is at any time in exactly the one list its Status names, once: no
\* sequence of calls, late and repeated ones included, puts it in two lists,
\* twice in one, or drops it.  (A running task that is replaced is in no list
\* and stays "running"; one that is not running stays where it was.)
OnePlace ==
  /\ IsInjective(pending)
  /\ \A t \in TaskIds :
       /\ status[t] = "none" <=> t > created
       /\ t \in ToSet(pending) <=> status[t] \in {"pending", "retrying"}
       /\ t \in running => status[t] = "running"
       /\ done[t] = IF status[t] = "succeeded" THEN 1 ELSE 0
       /\ failed[t] = IF status[t] = "abandoned" THEN 1 ELSE 0

\* The attempts that the code makes: max_retries of them, the first included,
\* and one even when max_retries is 1 or negative.
AttemptsAllowed == IF MaxRetries >= 1 THEN MaxRetries ELSE 1

\* FailTask gives up exactly when AttemptsAllowed are used up: a task still in
\* the queue has an attempt left, an abandoned one has none, and only a task
\* that failed before is "retrying".  (This is the code's count.  README.md:132
\* documents another, one attempt more: see RetriesAsDocumented.)
RetryDiscipline ==
  \A t \in TaskIds :
    /\ status[t] \in {"none", "pending"} => attempts[t] = 0
    /\ status[t] = "retrying" => attempts[t] \in 1..(MaxRetries - 1)
    /\ status[t] \in {"running", "succeeded"} =>
         attempts[t] = 0 \/ attempts[t] < MaxRetries
    /\ status[t] = "abandoned" =>
         attempts[t] = AttemptsAllowed

\* README.md:132, of retry.max_retries: "Retries per failed task".  A task that
\* is given up was tried once and then retried max_retries times.  FailTask
\* (task.go:126-127) gives up one attempt earlier.
RetriesAsDocumented ==
  \A t \in TaskIds : status[t] = "abandoned" => attempts[t] - 1 >= MaxRetries

\* The state file never claims more than happened: a task it shows finished
\* is finished, the same way, and is counted in its counters.
FileNeverAhead ==
  stateFile.kind = "state" =>
    \A t \in TaskIds : stateFile.status[t] \in Finished =>
      /\ status[t] = stateFile.status[t]
      /\ stateFile.done[t] = done[t]
      /\ stateFile.failed[t] = failed[t]

\* Once a write has succeeded the file shows every finished task, those whose
\* own write failed included: a crash loses the record of no finished task.
FinishedIsPersisted ==
  lastWriteOk =>
    \A t \in TaskIds : status[t] \in Finished =>
      stateFile.kind = "state" /\ stateFile.status[t] = status[t]

\* A finished task stays finished: no late or repeated CompleteTask, FailTask
\* or ReplaceTasks call revives it or changes its outcome or its attempts.
FinishedForever ==
  [][\A t \in TaskIds : status[t] \in Finished =>
       status'[t] = status[t] /\ attempts'[t] = attempts[t]]_queueVars

\* Tasks leave the queue in the order they entered it; a retried task goes
\* behind everything that is waiting, so a failing task cannot starve others.
FirstInFirstOut ==
  [][IsPrefix(pending, pending') \/
     (pending # <<>> /\ IsPrefix(Tail(pending), pending'))]_queueVars

\* task.go:147: "ReplaceTasks removes a task from pending/running and replaces it
\* with new sub-tasks."  After the call it is in neither list.  The code
\* (task.go:153) deletes from q.running only.
ReplacedAsDocumented ==
  [][\A t \in ToSet(pending) \union running, n \in 1..MaxBatch :
       ReplaceTasks(t, n) => t \notin ToSet(pending') \union running']_queueVars

\* What is left to do: the queued and running tasks that may still be split,
\* the attempts that the queued and running tasks have left, and the length of
\* the queue.  LessWork: a step lowers the first of the three that it changes.
Live == ToSet(pending) \union running
Splittable == {t \in Live : ~splitAttempted[t]}
AttemptsLeft == {a \in TaskIds \X (1..AttemptsAllowed) : a[1] \in Live /\ a[2] > attempts[a[1]]}

LessWork ==
  \/ Cardinality(Splittable') < Cardinality(Splittable)
  \/ /\ Cardinality(Splittable') = Cardinality(Splittable)
     /\ \/ Cardinality(AttemptsLeft') < Cardinality(AttemptsLeft)
        \/ /\ Cardinality(AttemptsLeft') = Cardinality(AttemptsLeft)
           /\ Len(pending') < Len(pending)

-----------------------------------------------------------------------------
(* The queue implements the abstract life of a task.  A replaced task is    *)
(* the one whose Status is still "running" although q.running dropped it.   *)

TaskPhase(t) ==
  CASE status[t] = "none" -> "unborn"
    [] status[t] \in {"pending", "retrying"} -> "waiting"
    [] status[t] = "running" /\ t \in running -> "active"
    [] status[t] = "running" /\ t \notin running -> "split"
    [] OTHER -> status[t]

TaskStarts(t) ==
  attempts[t] + (IF status[t] \in {"running", "succeeded"} THEN 1 ELSE 0)

IsPart(t) == status[t] # "none" /\ splitAttempted[t]

Life == INSTANCE TaskLifecycle WITH
          Task   <- TaskIds,
          phase  <- [t \in TaskIds |-> TaskPhase(t)],
          starts <- [t \in TaskIds |-> TaskStarts(t)]

\* Every call on the queue is a legal step of every task's life: no late or
\* repeated call revives, loses or repeats a task.  Only a running task is ever
\* replaced: ReplaceTasks of any other creates tasks beside it, a birth and not
\* a split, which is not what its comment promises (ReplacedAsDocumented).
ImplementsLifecycle == Life!LifeSpec
=============================================================================
