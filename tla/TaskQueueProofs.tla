---------------------------- MODULE TaskQueueProofs ----------------------------
(***************************************************************************)
(* Theorems about TaskQueue, for any number of tasks, any max_retries and  *)
(* any of the three disks.  OnePlace is inductive given the types; what    *)
(* the other invariants need besides themselves is OnePlace, which says    *)
(* that q.running holds only tasks whose Status is "running".              *)
(***************************************************************************)
EXTENDS TaskQueue, SequenceLemmas, FiniteSetTheorems

USE QueueAssumption DEF AttemptsAllowed

-----------------------------------------------------------------------------
(* Facts about the actions that the step proofs share.                      *)

\* A step of the queue changes it through one of five operations.
LEMMA QueueStepCases ==
  ASSUME [QueueNext]_queueVars
  PROVE  \/ \E n \in 1..MaxBatch : AddTasks(n)
         \/ \E t \in TaskIds : NextTask(t)
         \/ \E t \in TaskIds : CompleteRunning(t)
         \/ \E t \in TaskIds : FailRunning(t)
         \/ \E t \in TaskIds, n \in 1..MaxBatch : ReplaceTasks(t, n)
         \/ UNCHANGED queueVars
BY DEF QueueNext, CompleteTask, FailTask, NotRunning

\* The new tasks of AddTasks and ReplaceTasks: fresh numbers, no duplicates.
LEMMA NewTasksLemma ==
  ASSUME QueueTypeOK, NEW n \in 1..MaxBatch, created + n <= MaxTasks
  PROVE  /\ NewTasks(n) \subseteq TaskIds
         /\ [i \in 1..n |-> created + i] \in Seq(TaskIds)
         /\ ToSet([i \in 1..n |-> created + i]) = NewTasks(n)
         /\ IsInjective([i \in 1..n |-> created + i])
         /\ \A t \in NewTasks(n) : t > created
         /\ \A t \in TaskIds : t > created + n <=> t > created /\ t \notin NewTasks(n)
<1> DEFINE new == [i \in 1..n |-> created + i]
<1>1. created \in Nat /\ n \in Nat /\ n >= 1
  BY DEF QueueTypeOK
<1>2. NewTasks(n) \subseteq TaskIds
  BY <1>1 DEF NewTasks, TaskIds
<1>3. \A i \in 1..n : created + i \in NewTasks(n)
  BY <1>1 DEF NewTasks
<1>4. new \in [1..n -> TaskIds]
  BY <1>2, <1>3
<1>5. new \in Seq(TaskIds)
  BY <1>1, <1>4, SeqDef
<1>6. \A t \in NewTasks(n) : t - created \in 1..n /\ t = created + (t - created)
  BY <1>1 DEF NewTasks
<1>7. ToSet(new) = NewTasks(n)
  BY <1>3, <1>6 DEF ToSet
<1>8. IsInjective(new)
  BY <1>1 DEF IsInjective
<1>9. /\ \A t \in NewTasks(n) : t > created
      /\ \A t \in TaskIds : t > created + n <=> t > created /\ t \notin NewTasks(n)
  BY <1>1 DEF NewTasks, TaskIds
<1> QED
  BY <1>2, <1>5, <1>7, <1>8, <1>9

\* PersistState writes the new state or leaves a file that was there before,
\* or an unreadable one.
LEMMA PersistLemma ==
  ASSUME PersistState
  PROVE  \/ /\ stateFile' = [kind |-> "state", status |-> status',
                             done |-> done', failed |-> failed']
            /\ lastWriteOk' = TRUE
         \/ /\ stateFile' \in {stateFile, Unreadable("torn")}
            /\ lastWriteOk' = FALSE
BY DEF PersistState, WriteState

LEMMA PersistTypes ==
  ASSUME QueueTypeOK, PersistState,
         status' \in [TaskIds -> Status],
         done' \in [TaskIds -> Nat],
         failed' \in [TaskIds -> Nat]
  PROVE  stateFile' \in StateFile /\ lastWriteOk' \in BOOLEAN
<1>1. Unreadable("torn") \in StateFile
  BY DEF Unreadable, NoneDone, StateFile, Status
<1>2. [kind |-> "state", status |-> status', done |-> done', failed |-> failed']
        \in StateFile
  BY DEF StateFile
<1>3. stateFile \in StateFile
  BY DEF QueueTypeOK
<1> QED
  BY <1>1, <1>2, <1>3, PersistLemma

-----------------------------------------------------------------------------
(* Types.                                                                   *)

LEMMA QueueTypeInit == QueueInit => QueueTypeOK
BY DEF QueueInit, QueueTypeOK, StateFile, Unreadable, NoneDone, Status, TaskIds

\* AppendTasks keeps the types of what it changes.
LEMMA AppendTypes ==
  ASSUME QueueTypeOK, NEW n, NEW isSplit \in BOOLEAN, AppendTasks(n, isSplit)
  PROVE  /\ created' \in 0..MaxTasks
         /\ status' \in [TaskIds -> Status]
         /\ attempts' \in [TaskIds -> Nat]
         /\ splitAttempted' \in [TaskIds -> BOOLEAN]
         /\ pending' \in Seq(TaskIds)
<1>1. n \in 1..MaxBatch /\ created + n <= MaxTasks
  BY DEF AppendTasks
<1>2. [i \in 1..n |-> created + i] \in Seq(TaskIds)
  BY <1>1, NewTasksLemma
<1>3. pending' \in Seq(TaskIds)
  BY <1>2, ConcatProperties DEF AppendTasks, QueueTypeOK
<1>4. created' \in 0..MaxTasks
  BY <1>1 DEF AppendTasks, QueueTypeOK
<1> QED
  BY <1>3, <1>4 DEF AppendTasks, QueueTypeOK, Status

LEMMA QueueTypeStep == QueueTypeOK /\ [QueueNext]_queueVars => QueueTypeOK'
<1> SUFFICES ASSUME QueueTypeOK, [QueueNext]_queueVars PROVE QueueTypeOK'
  OBVIOUS
<1>1. ASSUME NEW n \in 1..MaxBatch, AddTasks(n) PROVE QueueTypeOK'
  <2>1. AppendTasks(n, FALSE)
    BY <1>1 DEF AddTasks
  <2> QED
    BY <1>1, <2>1, AppendTypes DEF AddTasks, QueueTypeOK, fileVars
<1>2. ASSUME NEW t \in TaskIds, NextTask(t) PROVE QueueTypeOK'
  <2>1. Tail(pending) \in Seq(TaskIds)
    BY <1>2, HeadTailProperties DEF NextTask, QueueTypeOK
  <2> QED
    BY <1>2, <2>1 DEF NextTask, QueueTypeOK, fileVars, Status
<1>3. ASSUME NEW t \in TaskIds, CompleteRunning(t) PROVE QueueTypeOK'
  <2>1. status' \in [TaskIds -> Status] /\ done' \in [TaskIds -> Nat]
    BY <1>3 DEF CompleteRunning, QueueTypeOK, Status
  <2>2. failed' \in [TaskIds -> Nat] /\ PersistState
    BY <1>3 DEF CompleteRunning, QueueTypeOK
  <2>3. stateFile' \in StateFile /\ lastWriteOk' \in BOOLEAN
    BY <2>1, <2>2, PersistTypes
  <2> QED
    BY <1>3, <2>1, <2>2, <2>3 DEF CompleteRunning, QueueTypeOK
<1>4. ASSUME NEW t \in TaskIds, FailRunning(t) PROVE QueueTypeOK'
  <2>1. /\ running' = running \ {t}
        /\ attempts' = [attempts EXCEPT ![t] = @ + 1]
        /\ UNCHANGED <<created, splitAttempted, done>>
        /\ PersistState
    BY <1>4 DEF FailRunning
  <2>2. /\ status' \in [TaskIds -> Status]
        /\ failed' \in [TaskIds -> Nat]
        /\ pending' \in Seq(TaskIds)
    <3>1. CASE RetryTask(t)
      <4>1. Append(pending, t) \in Seq(TaskIds)
        BY AppendLemma DEF QueueTypeOK
      <4> QED
        BY <3>1, <4>1 DEF RetryTask, QueueTypeOK, Status
    <3>2. CASE AbandonTask(t)
      BY <3>2 DEF AbandonTask, QueueTypeOK, Status
    <3> QED
      BY <1>4, <3>1, <3>2 DEF FailRunning
  <2>3. stateFile' \in StateFile /\ lastWriteOk' \in BOOLEAN
    BY <2>1, <2>2, PersistTypes DEF QueueTypeOK
  <2>4. attempts' \in [TaskIds -> Nat] /\ running' \in SUBSET TaskIds
    BY <2>1 DEF QueueTypeOK
  <2>5. /\ created' \in 0..MaxTasks
        /\ splitAttempted' \in [TaskIds -> BOOLEAN]
        /\ done' \in [TaskIds -> Nat]
    BY <2>1 DEF QueueTypeOK
  <2> QED
    BY <2>2, <2>3, <2>4, <2>5 DEF QueueTypeOK
<1>5. ASSUME NEW t \in TaskIds, NEW n \in 1..MaxBatch, ReplaceTasks(t, n)
      PROVE  QueueTypeOK'
  <2>1. AppendTasks(n, TRUE) /\ PersistState
    BY <1>5 DEF ReplaceTasks
  <2>2. stateFile' \in StateFile /\ lastWriteOk' \in BOOLEAN
    BY <1>5, <2>1, AppendTypes, PersistTypes DEF ReplaceTasks, QueueTypeOK
  <2> QED
    BY <1>5, <2>1, <2>2, AppendTypes DEF ReplaceTasks, QueueTypeOK
<1>6. CASE UNCHANGED queueVars
  BY <1>6 DEF QueueTypeOK, queueVars
<1> QED
  BY <1>1, <1>2, <1>3, <1>4, <1>5, <1>6, QueueStepCases

\* Every field of the queue keeps its type.
THEOREM QueueTypes == QueueSpec => []QueueTypeOK
BY QueueTypeInit, QueueTypeStep, PTL DEF QueueSpec

-----------------------------------------------------------------------------
(* Every task is in one place.                                              *)

LEMMA OnePlaceInit == QueueInit => OnePlace
<1> SUFFICES ASSUME QueueInit PROVE OnePlace
  OBVIOUS
<1>1. IsInjective(pending) /\ ToSet(pending) = {}
  BY DEF QueueInit, IsInjective, ToSet
<1> QED
  BY <1>1 DEF QueueInit, OnePlace, NoneDone, TaskIds

\* What AppendTasks does to q.pending.
LEMMA AppendPending ==
  ASSUME QueueTypeOK, OnePlace, NEW n, NEW isSplit \in BOOLEAN, AppendTasks(n, isSplit)
  PROVE  /\ n \in 1..MaxBatch /\ created + n <= MaxTasks
         /\ ToSet(pending') = ToSet(pending) \union NewTasks(n)
         /\ IsInjective(pending')
         /\ \A t \in NewTasks(n) : t \in TaskIds /\ status[t] = "none"
         /\ \A t \in TaskIds : t > created' <=> status[t] = "none" /\ t \notin NewTasks(n)
<1> DEFINE new == [i \in 1..n |-> created + i]
<1>1. n \in 1..MaxBatch /\ created + n <= MaxTasks /\ pending' = pending \o new
  BY DEF AppendTasks
<1>2. /\ NewTasks(n) \subseteq TaskIds
      /\ new \in Seq(TaskIds)
      /\ ToSet(new) = NewTasks(n)
      /\ IsInjective(new)
      /\ \A t \in NewTasks(n) : t > created
      /\ \A t \in TaskIds : t > created + n <=> t > created /\ t \notin NewTasks(n)
  BY <1>1, NewTasksLemma
<1> HIDE DEF new
<1>3. /\ ToSet(pending \o new) = ToSet(pending) \union NewTasks(n)
      /\ IsInjective(pending) /\ ToSet(pending) \intersect NewTasks(n) = {}
           => IsInjective(pending \o new)
  BY <1>2, ConcatLemma DEF QueueTypeOK
<1>4. \A t \in NewTasks(n) : t \in TaskIds /\ status[t] = "none" /\ t \notin ToSet(pending)
  BY <1>2 DEF OnePlace
<1>5. \A t \in TaskIds : t > created' <=> status[t] = "none" /\ t \notin NewTasks(n)
  BY <1>2 DEF OnePlace, AppendTasks
<1>6. IsInjective(pending')
  BY <1>1, <1>3, <1>4 DEF OnePlace
<1> QED
  BY <1>1, <1>3, <1>4, <1>5, <1>6

\* What NextTask does: the head, a waiting task, starts running.
LEMMA NextTaskEffect ==
  ASSUME QueueTypeOK, OnePlace, NEW t \in TaskIds, NextTask(t)
  PROVE  /\ status[t] \in {"pending", "retrying"}
         /\ ToSet(pending') = ToSet(pending) \ {t}
         /\ IsInjective(pending')
<1>1. /\ Head(pending) \in ToSet(pending)
      /\ IsInjective(Tail(pending))
      /\ ToSet(Tail(pending)) = ToSet(pending) \ {Head(pending)}
  BY TailLemma DEF NextTask, QueueTypeOK, OnePlace
<1> QED
  BY <1>1 DEF NextTask, OnePlace

LEMMA OnePlaceStep ==
  QueueTypeOK /\ OnePlace /\ [QueueNext]_queueVars => OnePlace'
<1> SUFFICES ASSUME QueueTypeOK, OnePlace, [QueueNext]_queueVars PROVE OnePlace'
  OBVIOUS
<1>1. ASSUME NEW n \in 1..MaxBatch, NEW isSplit \in BOOLEAN, AppendTasks(n, isSplit),
             running' \subseteq running, UNCHANGED <<done, failed>>
      PROVE  OnePlace'
  <2>1. /\ ToSet(pending') = ToSet(pending) \union NewTasks(n)
        /\ IsInjective(pending')
        /\ \A t \in NewTasks(n) : t \in TaskIds /\ status[t] = "none"
        /\ \A t \in TaskIds : t > created' <=> status[t] = "none" /\ t \notin NewTasks(n)
    BY <1>1, AppendPending
  <2>2. \A t \in TaskIds : status'[t] = IF t \in NewTasks(n) THEN "pending" ELSE status[t]
    BY <1>1 DEF AppendTasks
  <2> QED
    BY <1>1, <2>1, <2>2 DEF OnePlace
<1>2. ASSUME NEW n \in 1..MaxBatch, AddTasks(n) PROVE OnePlace'
  BY <1>1, <1>2 DEF AddTasks
<1>3. ASSUME NEW t \in TaskIds, NextTask(t) PROVE OnePlace'
  <2>1. /\ status[t] \in {"pending", "retrying"}
        /\ ToSet(pending') = ToSet(pending) \ {t}
        /\ IsInjective(pending')
    BY <1>3, NextTaskEffect
  <2>2. status' = [status EXCEPT ![t] = "running"] /\ status \in [TaskIds -> Status]
    BY <1>3 DEF NextTask, QueueTypeOK
  <2> QED
    BY <1>3, <2>1, <2>2 DEF OnePlace, NextTask
<1>4. ASSUME NEW t \in TaskIds, CompleteRunning(t) PROVE OnePlace'
  BY <1>4 DEF OnePlace, CompleteRunning, QueueTypeOK
<1>5. ASSUME NEW t \in TaskIds, FailRunning(t) PROVE OnePlace'
  <2>1. /\ t \in running /\ status[t] = "running" /\ t \notin ToSet(pending)
        /\ running' = running \ {t}
        /\ UNCHANGED <<created, done>>
        /\ status \in [TaskIds -> Status] /\ failed \in [TaskIds -> Nat]
    BY <1>5 DEF OnePlace, FailRunning, QueueTypeOK
  <2>2. CASE RetryTask(t)
    <3>1. /\ ToSet(pending') = ToSet(pending) \union {t}
          /\ IsInjective(pending')
      BY <2>1, <2>2, AppendLemma DEF RetryTask, QueueTypeOK, OnePlace
    <3>2. status' = [status EXCEPT ![t] = "retrying"] /\ failed' = failed
      BY <2>2 DEF RetryTask
    <3> QED
      BY <2>1, <3>1, <3>2 DEF OnePlace
  <2>3. CASE AbandonTask(t)
    BY <2>1, <2>3 DEF AbandonTask, OnePlace
  <2> QED
    BY <1>5, <2>2, <2>3 DEF FailRunning
<1>6. ASSUME NEW t \in TaskIds, NEW n \in 1..MaxBatch, ReplaceTasks(t, n) PROVE OnePlace'
  BY <1>1, <1>6 DEF ReplaceTasks
<1>7. CASE UNCHANGED queueVars
  BY <1>7 DEF OnePlace, queueVars
<1> QED
  BY <1>2, <1>3, <1>4, <1>5, <1>6, <1>7, QueueStepCases

\* Whatever calls are made, a task is in exactly the one list its Status names.
THEOREM TaskInOnePlace == QueueSpec => []OnePlace
<1>1. QueueSpec => []QueueTypeOK
  BY QueueTypes
<1> QED
  BY <1>1, OnePlaceInit, OnePlaceStep, PTL DEF QueueSpec

-----------------------------------------------------------------------------
(* Attempts and retries.                                                    *)

\* The status a step gives to a task, read off the action.
LEMMA FailOutcome ==
  ASSUME QueueTypeOK, OnePlace, NEW t \in TaskIds, FailRunning(t)
  PROVE  /\ status[t] = "running"
         /\ attempts' = [attempts EXCEPT ![t] = @ + 1]
         /\ attempts[t] \in Nat
         /\ \/ attempts[t] + 1 < MaxRetries /\ status' = [status EXCEPT ![t] = "retrying"]
            \/ ~(attempts[t] + 1 < MaxRetries) /\ status' = [status EXCEPT ![t] = "abandoned"]
<1>1. status[t] = "running" /\ attempts[t] \in Nat
  BY DEF FailRunning, OnePlace, QueueTypeOK
<1>2. CASE RetryTask(t)
  BY <1>1, <1>2 DEF RetryTask, RetriesLeft, FailRunning
<1>3. CASE AbandonTask(t)
  BY <1>1, <1>3 DEF AbandonTask, RetriesLeft, FailRunning
<1> QED
  BY <1>2, <1>3 DEF FailRunning

LEMMA RetryStep ==
  QueueTypeOK /\ OnePlace /\ RetryDiscipline /\ [QueueNext]_queueVars => RetryDiscipline'
<1> SUFFICES ASSUME QueueTypeOK, OnePlace, RetryDiscipline, [QueueNext]_queueVars
             PROVE  RetryDiscipline'
  OBVIOUS
<1>1. ASSUME NEW n, NEW isSplit \in BOOLEAN, AppendTasks(n, isSplit) PROVE RetryDiscipline'
  <2>1. /\ \A t \in NewTasks(n) : t \in TaskIds /\ status[t] = "none"
        /\ \A t \in TaskIds : status'[t] = IF t \in NewTasks(n) THEN "pending" ELSE status[t]
        /\ attempts' = attempts
    BY <1>1, AppendPending DEF AppendTasks
  <2> QED
    BY <2>1 DEF RetryDiscipline
<1>2. ASSUME NEW n \in 1..MaxBatch, AddTasks(n) PROVE RetryDiscipline'
  BY <1>1, <1>2 DEF AddTasks
<1>3. ASSUME NEW t \in TaskIds, NextTask(t) PROVE RetryDiscipline'
  <2>1. /\ status[t] \in {"pending", "retrying"}
        /\ status' = [status EXCEPT ![t] = "running"]
        /\ attempts' = attempts
        /\ status \in [TaskIds -> Status]
        /\ attempts[t] \in Nat
    BY <1>3, NextTaskEffect DEF NextTask, QueueTypeOK
  <2> QED
    BY <2>1 DEF RetryDiscipline
<1>4. ASSUME NEW t \in TaskIds, CompleteRunning(t) PROVE RetryDiscipline'
  <2>1. /\ status[t] = "running"
        /\ status' = [status EXCEPT ![t] = "succeeded"]
        /\ attempts' = attempts
        /\ status \in [TaskIds -> Status]
    BY <1>4 DEF CompleteRunning, QueueTypeOK, OnePlace
  <2> QED
    BY <2>1 DEF RetryDiscipline
<1>5. ASSUME NEW t \in TaskIds, FailRunning(t) PROVE RetryDiscipline'
  <2>1. /\ status[t] = "running"
        /\ attempts' = [attempts EXCEPT ![t] = @ + 1]
        /\ attempts[t] \in Nat
        /\ \/ attempts[t] + 1 < MaxRetries /\ status' = [status EXCEPT ![t] = "retrying"]
           \/ ~(attempts[t] + 1 < MaxRetries) /\ status' = [status EXCEPT ![t] = "abandoned"]
        /\ attempts[t] = 0 \/ attempts[t] < MaxRetries
        /\ status \in [TaskIds -> Status]
        /\ attempts \in [TaskIds -> Nat]
    BY <1>5, FailOutcome DEF RetryDiscipline, QueueTypeOK
  <2> QED
    BY <2>1 DEF RetryDiscipline, QueueAssumption
<1>6. ASSUME NEW t \in TaskIds, NEW n \in 1..MaxBatch, ReplaceTasks(t, n)
      PROVE  RetryDiscipline'
  BY <1>1, <1>6 DEF ReplaceTasks
<1>7. CASE UNCHANGED queueVars
  BY <1>7 DEF RetryDiscipline, queueVars
<1> QED
  BY <1>2, <1>3, <1>4, <1>5, <1>6, <1>7, QueueStepCases

\* A task is given up exactly when max_retries attempts (one, when max_retries
\* is less than one) have failed.
THEOREM RetriesAreCounted == QueueSpec => []RetryDiscipline
<1>1. QueueInit => RetryDiscipline
  BY DEF QueueInit, RetryDiscipline
<1> QED
  BY <1>1, QueueTypes, TaskInOnePlace, RetryStep, PTL DEF QueueSpec

-----------------------------------------------------------------------------
(* Finished tasks and the state file.                                       *)

\* What a step does to finished tasks and the state file: nothing is revived,
\* and a task that finishes is offered to the file in the same step.
LEMMA FinishedStep ==
  ASSUME QueueTypeOK, OnePlace, [QueueNext]_queueVars
  PROVE  /\ \A t \in TaskIds : status[t] \in Finished =>
               /\ status'[t] = status[t]
               /\ attempts'[t] = attempts[t]
               /\ done'[t] = done[t]
               /\ failed'[t] = failed[t]
         /\ \/ PersistState
            \/ /\ UNCHANGED fileVars
               /\ \A t \in TaskIds : status'[t] \in Finished => status[t] = status'[t]
<1>1. ASSUME NEW n, NEW isSplit \in BOOLEAN, AppendTasks(n, isSplit)
      PROVE  \A t \in TaskIds :
               /\ attempts'[t] = attempts[t]
               /\ status[t] \in Finished => status'[t] = status[t]
               /\ status'[t] \in Finished => status[t] = status'[t]
  <2>1. /\ \A t \in NewTasks(n) : t \in TaskIds /\ status[t] = "none"
        /\ \A t \in TaskIds : status'[t] = IF t \in NewTasks(n) THEN "pending" ELSE status[t]
        /\ attempts' = attempts
    BY <1>1, AppendPending DEF AppendTasks
  <2> QED
    BY <2>1 DEF Finished
<1>2. ASSUME NEW n \in 1..MaxBatch, AddTasks(n)
      PROVE  /\ done' = done /\ failed' = failed /\ UNCHANGED fileVars
             /\ AppendTasks(n, FALSE)
  BY <1>2 DEF AddTasks
<1>3. CASE \E t \in TaskIds : NextTask(t)
  <2>1. PICK t \in TaskIds : NextTask(t)
    BY <1>3
  <2>2. /\ status[t] \in {"pending", "retrying"}
        /\ status' = [status EXCEPT ![t] = "running"]
        /\ status \in [TaskIds -> Status]
        /\ UNCHANGED <<attempts, done, failed, fileVars>>
    BY <2>1, NextTaskEffect DEF NextTask, QueueTypeOK
  <2> QED
    BY <2>2 DEF Finished
<1>4. CASE \E t \in TaskIds : CompleteRunning(t)
  <2>1. PICK t \in TaskIds : CompleteRunning(t)
    BY <1>4
  <2>2. status[t] = "running" /\ PersistState
    BY <2>1 DEF CompleteRunning, OnePlace
  <2> QED
    BY <2>1, <2>2 DEF CompleteRunning, QueueTypeOK, Finished
<1>5. CASE \E t \in TaskIds : FailRunning(t)
  <2>1. PICK t \in TaskIds : FailRunning(t)
    BY <1>5
  <2>2. /\ status[t] = "running"
        /\ attempts' = [attempts EXCEPT ![t] = @ + 1]
        /\ \/ status' = [status EXCEPT ![t] = "retrying"]
           \/ status' = [status EXCEPT ![t] = "abandoned"]
    BY <2>1, FailOutcome
  <2>3. /\ PersistState /\ done' = done
        /\ failed' = failed \/ failed' = [failed EXCEPT ![t] = @ + 1]
    BY <2>1 DEF FailRunning, RetryTask, AbandonTask
  <2>4. \A s \in TaskIds : status[s] \in Finished => s # t
    BY <2>2 DEF Finished
  <2> QED
    BY <2>2, <2>3, <2>4 DEF QueueTypeOK
<1>6. ASSUME NEW t \in TaskIds, NEW n \in 1..MaxBatch, ReplaceTasks(t, n)
      PROVE  done' = done /\ failed' = failed /\ PersistState /\ AppendTasks(n, TRUE)
  BY <1>6 DEF ReplaceTasks
<1>7. CASE UNCHANGED queueVars
  BY <1>7 DEF queueVars, fileVars
<1> QED
  BY <1>1, <1>2, <1>3, <1>4, <1>5, <1>6, <1>7, QueueStepCases

\* No call revives a finished task or changes its outcome or its attempts.
THEOREM FinishedStaysFinished == QueueSpec => FinishedForever
<1>1. QueueTypeOK /\ OnePlace /\ [QueueNext]_queueVars
        => [\A t \in TaskIds : status[t] \in Finished =>
              status'[t] = status[t] /\ attempts'[t] = attempts[t]]_queueVars
  BY FinishedStep
<1> QED
  BY <1>1, QueueTypes, TaskInOnePlace, PTL DEF QueueSpec, FinishedForever

\* The state file shows no outcome that did not happen.
THEOREM FileIsNeverAhead == QueueSpec => []FileNeverAhead
<1>1. QueueInit => FileNeverAhead
  BY DEF QueueInit, FileNeverAhead, Unreadable
<1>2. QueueTypeOK /\ OnePlace /\ FileNeverAhead /\ [QueueNext]_queueVars => FileNeverAhead'
  <2> SUFFICES ASSUME QueueTypeOK, OnePlace, FileNeverAhead, [QueueNext]_queueVars
               PROVE  FileNeverAhead'
    OBVIOUS
  <2>1. CASE stateFile' = stateFile
    BY <2>1, FinishedStep DEF FileNeverAhead
  <2>2. CASE stateFile' = [kind |-> "state", status |-> status',
                           done |-> done', failed |-> failed']
    BY <2>2 DEF FileNeverAhead
  <2>3. CASE stateFile' = Unreadable("torn")
    BY <2>3 DEF FileNeverAhead, Unreadable
  <2> QED
    BY <2>1, <2>2, <2>3, FinishedStep, PersistLemma DEF fileVars
<1> QED
  BY <1>1, <1>2, QueueTypes, TaskInOnePlace, PTL DEF QueueSpec

\* After a successful write the state file shows every finished task.
THEOREM FinishedTasksArePersisted == QueueSpec => []FinishedIsPersisted
<1>1. QueueInit => FinishedIsPersisted
  BY DEF QueueInit, FinishedIsPersisted, Finished
<1>2. QueueTypeOK /\ OnePlace /\ FinishedIsPersisted /\ [QueueNext]_queueVars
        => FinishedIsPersisted'
  <2> SUFFICES ASSUME QueueTypeOK, OnePlace, FinishedIsPersisted, [QueueNext]_queueVars
               PROVE  FinishedIsPersisted'
    OBVIOUS
  <2>1. CASE PersistState
    BY <2>1, PersistLemma DEF FinishedIsPersisted
  <2>2. CASE /\ UNCHANGED fileVars
             /\ \A t \in TaskIds : status'[t] \in Finished => status[t] = status'[t]
    BY <2>2 DEF FinishedIsPersisted, fileVars
  <2> QED
    BY <2>1, <2>2, FinishedStep
<1> QED
  BY <1>1, <1>2, QueueTypes, TaskInOnePlace, PTL DEF QueueSpec

-----------------------------------------------------------------------------
(* Order.                                                                   *)

\* Tasks leave q.pending in the order they entered it, retried ones last.
THEOREM QueueIsFIFO == QueueSpec => FirstInFirstOut
<1> DEFINE Fifo == \/ IsPrefix(pending, pending')
                   \/ pending # <<>> /\ IsPrefix(Tail(pending), pending')
<1>1. QueueTypeOK /\ [QueueNext]_queueVars => Fifo
  <2> SUFFICES ASSUME QueueTypeOK, [QueueNext]_queueVars PROVE Fifo
    OBVIOUS
  <2>1. ASSUME NEW n, NEW isSplit, AppendTasks(n, isSplit) PROVE Fifo
    <3>1. [i \in 1..n |-> created + i] \in Seq(TaskIds)
      BY <2>1, NewTasksLemma DEF AppendTasks
    <3> QED
      BY <2>1, <3>1, PrefixLemma DEF AppendTasks, QueueTypeOK
  <2>2. CASE pending' = pending
    BY <2>2, LenProperties DEF QueueTypeOK, IsPrefix
  <2>3. ASSUME NEW t \in TaskIds, NextTask(t) PROVE Fifo
    <3>1. Tail(pending) \in Seq(TaskIds)
      BY <2>3, HeadTailProperties DEF NextTask, QueueTypeOK
    <3> QED
      BY <2>3, <3>1, LenProperties DEF NextTask, IsPrefix
  <2>4. ASSUME NEW t \in TaskIds, FailRunning(t) PROVE Fifo
    <3>1. pending' = pending \/ pending' = Append(pending, t)
      BY <2>4 DEF FailRunning, RetryTask, AbandonTask
    <3> QED
      BY <2>2, <3>1, PrefixAppendLemma DEF QueueTypeOK
  <2> QED
    BY <2>1, <2>2, <2>3, <2>4, QueueStepCases
       DEF AddTasks, CompleteRunning, ReplaceTasks, queueVars
<1>2. QueueTypeOK /\ [QueueNext]_queueVars => [Fifo]_queueVars
  BY <1>1
<1> QED
  BY <1>2, QueueTypes, PTL DEF QueueSpec, FirstInFirstOut

-----------------------------------------------------------------------------
(* The work that is left.                                                   *)

LEMMA WorkIsFinite ==
  ASSUME QueueTypeOK
  PROVE  /\ IsFiniteSet(Splittable) /\ Cardinality(Splittable) \in Nat
         /\ IsFiniteSet(AttemptsLeft) /\ Cardinality(AttemptsLeft) \in Nat
<1>1. IsFiniteSet(TaskIds) /\ IsFiniteSet(1..AttemptsAllowed)
  BY FS_Interval DEF TaskIds, QueueAssumption
<1>2. IsFiniteSet(TaskIds \X (1..AttemptsAllowed))
  BY <1>1, FS_Product
<1>3. Splittable \subseteq TaskIds /\ AttemptsLeft \subseteq TaskIds \X (1..AttemptsAllowed)
  BY EmptyToSet DEF QueueTypeOK, Splittable, Live, AttemptsLeft
<1> QED
  BY <1>1, <1>2, <1>3, FS_Subset, FS_CardinalityType

\* With the types of two states, each way to have less work as a statement on sets.
LEMMA LessWorkLemma ==
  ASSUME QueueTypeOK, QueueTypeOK',
         \/ Splittable' \subseteq Splittable /\ Splittable' # Splittable
         \/ /\ Splittable' \subseteq Splittable
            /\ AttemptsLeft' \subseteq AttemptsLeft /\ AttemptsLeft' # AttemptsLeft
         \/ /\ Splittable' = Splittable /\ AttemptsLeft' = AttemptsLeft
            /\ Len(pending') < Len(pending)
  PROVE  LessWork
<1>1. ASSUME NEW S, NEW T, IsFiniteSet(T), S \subseteq T, S # T
      PROVE  Cardinality(S) < Cardinality(T)
  BY <1>1, FS_Subset, FS_CardinalityType
<1> QED
  BY <1>1, WorkIsFinite DEF LessWork

LEMMA NextTaskLessWork ==
  ASSUME QueueTypeOK, QueueTypeOK', OnePlace, NEW t \in TaskIds, NextTask(t)
  PROVE  LessWork
<1>1. t \in ToSet(pending) /\ ToSet(pending') = ToSet(pending) \ {t}
  BY NextTaskEffect DEF OnePlace
<1>2. Live' = Live
  BY <1>1 DEF NextTask, Live
<1>3. Splittable' = Splittable /\ AttemptsLeft' = AttemptsLeft
  BY <1>2 DEF NextTask, Splittable, AttemptsLeft
<1>4. Len(pending') < Len(pending)
  BY HeadTailProperties, LenProperties DEF NextTask, QueueTypeOK
<1> QED
  BY <1>3, <1>4, LessWorkLemma

\* A running task has an attempt left, which its end uses up.
LEMMA RunningHasAttempts ==
  ASSUME QueueTypeOK, OnePlace, RetryDiscipline, NEW t \in running
  PROVE  t \in TaskIds /\ <<t, attempts[t] + 1>> \in AttemptsLeft
<1>1. t \in TaskIds /\ status[t] = "running" /\ attempts[t] \in Nat
  BY DEF QueueTypeOK, OnePlace
<1>2. attempts[t] = 0 \/ attempts[t] < MaxRetries
  BY <1>1 DEF RetryDiscipline
<1>3. attempts[t] + 1 \in 1..AttemptsAllowed /\ attempts[t] + 1 > attempts[t]
  BY <1>1, <1>2 DEF QueueAssumption
<1> DEFINE a == <<t, attempts[t] + 1>>
<1>4. a \in TaskIds \X (1..AttemptsAllowed) /\ a[1] = t /\ a[2] = attempts[t] + 1
  BY <1>1, <1>3
<1>5. a[1] \in Live
  BY <1>4 DEF Live
<1> QED
  BY <1>1, <1>3, <1>4, <1>5 DEF AttemptsLeft

LEMMA CompleteLessWork ==
  ASSUME QueueTypeOK, QueueTypeOK', OnePlace, RetryDiscipline,
         NEW t \in TaskIds, CompleteRunning(t)
  PROVE  LessWork
<1>1. t \in running /\ t \notin ToSet(pending)
  BY DEF CompleteRunning, OnePlace
<1>2. Live' = Live \ {t} /\ splitAttempted' = splitAttempted /\ attempts' = attempts
  BY <1>1 DEF CompleteRunning, Live
<1>3. Splittable' \subseteq Splittable
  BY <1>2 DEF Splittable
<1>4. AttemptsLeft' \subseteq AttemptsLeft /\ <<t, attempts[t] + 1>> \notin AttemptsLeft'
  BY <1>2 DEF AttemptsLeft
<1> QED
  BY <1>1, <1>3, <1>4, RunningHasAttempts, LessWorkLemma

LEMMA FailLessWork ==
  ASSUME QueueTypeOK, QueueTypeOK', OnePlace, RetryDiscipline,
         NEW t \in TaskIds, FailRunning(t)
  PROVE  LessWork
<1>1. t \in running /\ running' = running \ {t} /\ splitAttempted' = splitAttempted
  BY DEF FailRunning
<1>2. ToSet(pending') \subseteq ToSet(pending) \union {t}
  <2>1. pending' = pending \/ pending' = Append(pending, t)
    BY DEF FailRunning, RetryTask, AbandonTask
  <2>2. ToSet(Append(pending, t)) = ToSet(pending) \union {t}
    BY AppendLemma DEF QueueTypeOK
  <2> QED
    BY <2>1, <2>2
<1>3. Live' \subseteq Live
  BY <1>1, <1>2 DEF Live
<1>4. /\ \A s \in TaskIds \ {t} : attempts'[s] = attempts[s]
      /\ attempts'[t] = attempts[t] + 1 /\ attempts[t] \in Nat
  BY FailOutcome DEF QueueTypeOK
<1>5. Splittable' \subseteq Splittable
  BY <1>1, <1>3 DEF Splittable
<1>6. ASSUME NEW a \in AttemptsLeft' PROVE a \in AttemptsLeft /\ a # <<t, attempts[t] + 1>>
  <2>1. a \in TaskIds \X (1..AttemptsAllowed) /\ a[1] \in Live /\ a[2] > attempts'[a[1]]
    BY <1>3 DEF AttemptsLeft
  <2>2. CASE a[1] = t
    <3>1. a[2] > attempts[t] /\ a[2] # attempts[t] + 1
      BY <1>4, <2>1, <2>2 DEF QueueAssumption
    <3> QED
      BY <2>1, <2>2, <3>1 DEF AttemptsLeft
  <2>3. CASE a[1] # t
    BY <1>4, <2>1, <2>3 DEF AttemptsLeft
  <2> QED
    BY <2>2, <2>3
<1> QED
  BY <1>1, <1>5, <1>6, RunningHasAttempts, LessWorkLemma

LEMMA ReplaceLessWork ==
  ASSUME QueueTypeOK, QueueTypeOK', OnePlace, NEW t \in running, ~splitAttempted[t],
         NEW n \in 1..MaxBatch, ReplaceTasks(t, n)
  PROVE  LessWork
<1>1. AppendTasks(n, TRUE) /\ running' = running \ {t}
  BY DEF ReplaceTasks
<1>2. t \in TaskIds /\ t \notin ToSet(pending) /\ t \notin NewTasks(n)
  BY <1>1, AppendPending DEF OnePlace, QueueTypeOK
<1>3. Live' = (Live \ {t}) \union NewTasks(n)
  BY <1>1, <1>2, AppendPending DEF Live
<1>4. \A s \in TaskIds : splitAttempted'[s] = IF s \in NewTasks(n) THEN TRUE ELSE splitAttempted[s]
  BY <1>1 DEF AppendTasks
<1>5. Live' \subseteq TaskIds
  BY EmptyToSet DEF QueueTypeOK, Live
<1>6. Splittable' \subseteq Splittable \ {t}
  BY <1>3, <1>4, <1>5 DEF Splittable
<1>7. t \in Splittable
  BY <1>2 DEF Splittable, Live
<1> QED
  BY <1>6, <1>7, LessWorkLemma

-----------------------------------------------------------------------------
(* The queue implements the abstract life of a task.                        *)

\* Where the actions read and write the refinement mapping.
LEMMA PhaseOf ==
  ASSUME QueueTypeOK, OnePlace, NEW t \in TaskIds
  PROVE  /\ TaskPhase(t) = "unborn" <=> status[t] = "none"
         /\ TaskPhase(t) = "waiting" <=> status[t] \in {"pending", "retrying"}
         /\ t \in running => TaskPhase(t) = "active"
BY DEF TaskPhase, QueueTypeOK, OnePlace, Status

\* A task whose status, membership of q.running and attempts do not change
\* keeps its abstract phase and starts.
LEMMA SamePhase ==
  ASSUME NEW t \in TaskIds,
         status'[t] = status[t], t \in running' <=> t \in running
  PROVE  TaskPhase(t)' = TaskPhase(t)
BY DEF TaskPhase

LEMMA SameStarts ==
  ASSUME NEW t \in TaskIds, status'[t] = status[t], attempts'[t] = attempts[t]
  PROVE  TaskStarts(t)' = TaskStarts(t)
BY DEF TaskStarts

\* Each operation on the queue is one action of TaskLifecycle.
LEMMA AppendIsBirth ==
  ASSUME QueueTypeOK, OnePlace, NEW n, NEW isSplit \in BOOLEAN, AppendTasks(n, isSplit)
  PROVE  /\ n \in 1..MaxBatch /\ NewTasks(n) # {} /\ NewTasks(n) \in SUBSET TaskIds
         /\ \A t \in NewTasks(n) : TaskPhase(t) = "unborn" /\ TaskPhase(t)' = "waiting"
         /\ \A t \in TaskIds : TaskStarts(t)' = TaskStarts(t)
         /\ \A t \in TaskIds \ NewTasks(n) : status'[t] = status[t]
<1>1. /\ n \in 1..MaxBatch
      /\ \A t \in NewTasks(n) : t \in TaskIds /\ status[t] = "none"
      /\ \A t \in TaskIds : status'[t] = IF t \in NewTasks(n) THEN "pending" ELSE status[t]
      /\ attempts' = attempts
  BY AppendPending DEF AppendTasks
<1>2. created + 1 \in NewTasks(n)
  BY <1>1 DEF NewTasks, QueueTypeOK
<1> QED
  BY <1>1, <1>2 DEF TaskPhase, TaskStarts

LEMMA AppendIsCreate ==
  ASSUME QueueTypeOK, OnePlace, NEW n, NEW isSplit \in BOOLEAN, AppendTasks(n, isSplit),
         \A t \in TaskIds : t \in running' <=> t \in running
  PROVE  Life!Create(NewTasks(n))
<1>1. \A t \in TaskIds \ NewTasks(n) : TaskPhase(t)' = TaskPhase(t)
  BY AppendIsBirth, SamePhase
<1> QED
  BY <1>1, AppendIsBirth DEF Life!Create

LEMMA NextIsStart ==
  ASSUME QueueTypeOK, OnePlace, RetryDiscipline, NEW t \in TaskIds, NextTask(t)
  PROVE  Life!Start(t)
<1>1. /\ status[t] \in {"pending", "retrying"}
      /\ status' = [status EXCEPT ![t] = "running"]
      /\ running' = running \union {t}
      /\ attempts' = attempts
      /\ status \in [TaskIds -> Status] /\ attempts[t] \in Nat
  BY NextTaskEffect DEF NextTask, QueueTypeOK
<1>2. \A s \in TaskIds \ {t} : TaskPhase(s)' = TaskPhase(s) /\ TaskStarts(s)' = TaskStarts(s)
  BY <1>1, SamePhase, SameStarts
<1>3. /\ TaskPhase(t) = "waiting" /\ TaskPhase(t)' = "active"
      /\ TaskStarts(t) = attempts[t] /\ TaskStarts(t)' = attempts[t] + 1
  BY <1>1 DEF TaskPhase, TaskStarts
<1>4. attempts[t] < Life!Allowed
  BY <1>1 DEF RetryDiscipline, Life!Allowed, QueueAssumption
<1> QED
  BY <1>2, <1>3, <1>4 DEF Life!Start

LEMMA CompleteIsSucceed ==
  ASSUME QueueTypeOK, OnePlace, NEW t \in TaskIds, CompleteRunning(t)
  PROVE  Life!Succeed(t)
<1>1. /\ t \in running /\ status[t] = "running"
      /\ status' = [status EXCEPT ![t] = "succeeded"]
      /\ running' = running \ {t}
      /\ attempts' = attempts
      /\ status \in [TaskIds -> Status]
  BY DEF CompleteRunning, QueueTypeOK, OnePlace
<1>2. \A s \in TaskIds \ {t} : TaskPhase(s)' = TaskPhase(s) /\ TaskStarts(s)' = TaskStarts(s)
  BY <1>1, SamePhase, SameStarts
<1>3. /\ TaskPhase(t) = "active" /\ TaskPhase(t)' = "succeeded"
      /\ TaskStarts(t)' = TaskStarts(t)
  BY <1>1 DEF TaskPhase, TaskStarts
<1> QED
  BY <1>2, <1>3 DEF Life!Succeed, Life!End

LEMMA FailIsRetryOrGiveUp ==
  ASSUME QueueTypeOK, OnePlace, RetryDiscipline, NEW t \in TaskIds, FailRunning(t)
  PROVE  Life!Retry(t) \/ Life!GiveUp(t)
<1>1. /\ t \in running /\ status[t] = "running"
      /\ running' = running \ {t}
      /\ attempts' = [attempts EXCEPT ![t] = @ + 1]
      /\ attempts[t] \in Nat
      /\ \/ attempts[t] + 1 < MaxRetries /\ status' = [status EXCEPT ![t] = "retrying"]
         \/ ~(attempts[t] + 1 < MaxRetries) /\ status' = [status EXCEPT ![t] = "abandoned"]
      /\ status \in [TaskIds -> Status] /\ attempts \in [TaskIds -> Nat]
  BY FailOutcome DEF FailRunning, QueueTypeOK
<1>2. \A s \in TaskIds \ {t} : TaskPhase(s)' = TaskPhase(s) /\ TaskStarts(s)' = TaskStarts(s)
  BY <1>1, SamePhase, SameStarts
<1>3. /\ TaskPhase(t) = "active"
      /\ TaskStarts(t) = attempts[t] + 1 /\ TaskStarts(t)' = attempts[t] + 1
  BY <1>1 DEF TaskPhase, TaskStarts
<1>4. CASE attempts[t] + 1 < MaxRetries /\ status' = [status EXCEPT ![t] = "retrying"]
  <2>1. TaskPhase(t)' = "waiting" /\ attempts[t] + 1 < Life!Allowed
    BY <1>1, <1>4 DEF TaskPhase, Life!Allowed, QueueAssumption
  <2> QED
    BY <1>2, <1>3, <2>1 DEF Life!Retry, Life!End
<1>5. CASE ~(attempts[t] + 1 < MaxRetries) /\ status' = [status EXCEPT ![t] = "abandoned"]
  <2>1. TaskPhase(t)' = "abandoned" /\ attempts[t] + 1 = Life!Allowed
    BY <1>1, <1>5 DEF TaskPhase, Life!Allowed, RetryDiscipline, QueueAssumption
  <2> QED
    BY <1>2, <1>3, <2>1 DEF Life!GiveUp, Life!End
<1> QED
  BY <1>1, <1>4, <1>5

LEMMA ReplaceIsSplit ==
  ASSUME QueueTypeOK, OnePlace, NEW t \in running, NEW n, ReplaceTasks(t, n)
  PROVE  Life!Split(t, NewTasks(n))
<1>1. AppendTasks(n, TRUE) /\ running' = running \ {t} /\ t \in TaskIds
  BY DEF ReplaceTasks, QueueTypeOK
<1>2. status[t] = "running" /\ t \notin NewTasks(n)
  BY <1>1, AppendPending DEF OnePlace
<1>3. \A s \in TaskIds \ (NewTasks(n) \union {t}) : TaskPhase(s)' = TaskPhase(s)
  BY <1>1, AppendIsBirth, SamePhase
<1>4. TaskPhase(t) = "active" /\ TaskPhase(t)' = "split"
  BY <1>1, <1>2, AppendIsBirth DEF TaskPhase
<1> QED
  BY <1>1, <1>2, <1>3, <1>4, AppendIsBirth DEF Life!Split

LEMMA LifeInitRefined == QueueInit => Life!LifeInit
BY DEF QueueInit, Life!LifeInit, TaskPhase, TaskStarts

LEMMA LifeStepRefined ==
  QueueTypeOK /\ OnePlace /\ RetryDiscipline /\ [QueueNext]_queueVars
    => [Life!LifeNext]_(Life!lifeVars)
<1> SUFFICES ASSUME QueueTypeOK, OnePlace, RetryDiscipline, [QueueNext]_queueVars
             PROVE  [Life!LifeNext]_(Life!lifeVars)
  OBVIOUS
<1>1. ASSUME NEW n \in 1..MaxBatch, AddTasks(n) PROVE Life!LifeNext
  BY <1>1, AppendIsBirth, AppendIsCreate DEF AddTasks, Life!LifeNext
<1>2. ASSUME NEW t \in TaskIds, NextTask(t) PROVE Life!LifeNext
  BY <1>2, NextIsStart DEF Life!LifeNext
<1>3. ASSUME NEW t \in TaskIds, CompleteRunning(t) PROVE Life!LifeNext
  BY <1>3, CompleteIsSucceed DEF Life!LifeNext
<1>4. ASSUME NEW t \in TaskIds, FailRunning(t) PROVE Life!LifeNext
  BY <1>4, FailIsRetryOrGiveUp DEF Life!LifeNext
<1>5. ASSUME NEW t \in TaskIds, NEW n \in 1..MaxBatch, ReplaceTasks(t, n) PROVE Life!LifeNext
  <2>1. AppendTasks(n, TRUE) /\ running' = running \ {t}
    BY <1>5 DEF ReplaceTasks
  <2>2. NewTasks(n) \in SUBSET TaskIds
    BY <2>1, AppendIsBirth
  <2>3. CASE t \in running
    BY <1>5, <2>2, <2>3, ReplaceIsSplit DEF Life!LifeNext
  <2>4. CASE t \notin running
    BY <2>1, <2>2, <2>4, AppendIsCreate DEF Life!LifeNext
  <2> QED
    BY <2>3, <2>4
<1>6. CASE UNCHANGED queueVars
  <2>1. \A s \in TaskIds : TaskPhase(s)' = TaskPhase(s) /\ TaskStarts(s)' = TaskStarts(s)
    BY <1>6, SamePhase, SameStarts DEF queueVars
  <2> QED
    BY <2>1 DEF Life!lifeVars
<1> QED
  BY <1>1, <1>2, <1>3, <1>4, <1>5, <1>6, QueueStepCases

\* Every call on the queue is a legal step of every task's life.
THEOREM QueueImplementsLifecycle == QueueSpec => ImplementsLifecycle
BY LifeInitRefined, LifeStepRefined, QueueTypes, TaskInOnePlace, RetriesAreCounted, PTL
   DEF QueueSpec, ImplementsLifecycle, Life!LifeSpec

-----------------------------------------------------------------------------
(* What both users of Execution need: which tasks are parts, and that an    *)
(* idle queue has no unresolved task.                                       *)

LEMMA AppendParts ==
  ASSUME QueueTypeOK, OnePlace, NEW n, NEW isSplit \in BOOLEAN, AppendTasks(n, isSplit),
         NEW t \in TaskIds
  PROVE  IsPart(t)' = ((t \in NewTasks(n) /\ isSplit) \/ IsPart(t))
BY AppendPending DEF AppendTasks, IsPart

LEMMA RunKeepsParts ==
  ASSUME QueueTypeOK, OnePlace, NEW u \in TaskIds,
         NextTask(u) \/ CompleteRunning(u) \/ FailRunning(u), NEW t \in TaskIds
  PROVE  IsPart(t)' = IsPart(t)
<1>1. status[u] # "none" /\ status'[u] # "none" /\ splitAttempted' = splitAttempted
  <2>1. CASE NextTask(u)
    BY <2>1, NextTaskEffect DEF NextTask, QueueTypeOK
  <2>2. CASE CompleteRunning(u)
    BY <2>2 DEF CompleteRunning, OnePlace, QueueTypeOK
  <2>3. CASE FailRunning(u)
    BY <2>3, FailOutcome DEF FailRunning, QueueTypeOK
  <2> QED
    BY <2>1, <2>2, <2>3
<1>2. t # u => status'[t] = status[t]
  BY DEF NextTask, CompleteRunning, FailRunning, RetryTask, AbandonTask, QueueTypeOK
<1> QED
  BY <1>1, <1>2 DEF IsPart

LEMMA IdleIsResolved ==
  ASSUME QueueTypeOK, OnePlace, IsComplete, NEW t \in TaskIds
  PROVE  TaskPhase(t) \notin {"waiting", "active"}
<1>1. ToSet(pending) = {} /\ running = {}
  BY DEF IsComplete, ToSet
<1> QED
  BY <1>1 DEF OnePlace, TaskPhase, QueueTypeOK, Status
=============================================================================
