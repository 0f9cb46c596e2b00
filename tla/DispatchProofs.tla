---------------------------- MODULE DispatchProofs ----------------------------
(***************************************************************************)
(* Theorems about the dispatch loop, for any number of tasks and workers,  *)
(* any capacity of the result channel, and calls that may be lost.         *)
(*                                                                         *)
(* The loop only uses the queue through its methods, so what               *)
(* TaskQueueProofs shows of the queue holds here (DispatchUsesQueue).  The *)
(* safety of dispatch then rests on two ownership invariants, NoWorkerLeak *)
(* (each busy worker is in one call) and OneOwner (each running task is in *)
(* one place between DispatchTask and the handling of its result).         *)
(***************************************************************************)
EXTENDS Dispatch, TaskQueueProofs

USE PoolAssumption, DispatchAssumption

-----------------------------------------------------------------------------
(* The steps, one by one.                                                   *)

\* A worker's step changes nothing else.
PoolStep(A) == A /\ UNCHANGED <<busy, cancelled, lost, queueVars, loopVars>>

LEMMA StepCases ==
  ASSUME [Next]_vars
  PROVE  \/ \E n \in 1..MaxBatch : StartRange(n)
         \/ \E w \in Worker : DispatchAcquire(w)
         \/ NoIdleWorker
         \/ \E t \in TaskIds : DispatchTo(t)
         \/ NothingToDispatch
         \/ RangeDone
         \/ ReturnCancelled
         \/ Receive
         \/ HandleSuccess
         \/ HandleFailure
         \/ \E n \in 2..MaxBatch : HandleResplit(n)
         \/ \E c \in calls, r \in Result : GoroutineReleases(c, r)
         \/ \E s \in senders : GoroutineSends(s)
         \/ \E c \in calls : PoolStep(Admit(c))
         \/ \E c \in calls : PoolStep(RejectBusy(c))
         \/ \E c \in calls, r \in ExitResult : PoolStep(ExecuteReturns(c, r))
         \/ \E w \in Worker, r \in {"ok", "fail"} : PoolStep(OrphanExits(w, r))
         \/ Cancel
         \/ UNCHANGED vars
<1>1. CASE WorkerStep /\ UNCHANGED <<queueVars, loopVars>>
  BY <1>1 DEF WorkerStep, PoolStep
<1>2. CASE MainStep
  BY <1>2 DEF MainStep
<1>3. CASE GoroutineStep
  BY <1>3 DEF GoroutineStep
<1> QED
  BY <1>1, <1>2, <1>3 DEF Next

-----------------------------------------------------------------------------
(* The queue is used through its methods only.                              *)

LEMMA QueueStep ==
  ASSUME DispatchTypeOK, [Next]_vars
  PROVE  [QueueNext]_queueVars
<1>1. ASSUME pc = "handle" PROVE current.task \in TaskIds
  BY <1>1 DEF DispatchTypeOK, TaskResult
<1>2. CASE HandleSuccess
  BY <1>1, <1>2 DEF HandleSuccess, QueueNext
<1>3. CASE HandleFailure
  BY <1>1, <1>3 DEF HandleFailure, QueueNext
<1>4. ASSUME NEW n \in 2..MaxBatch, HandleResplit(n) PROVE QueueNext
  <2>1. n \in 1..MaxBatch /\ ReplaceTasks(current.task, n) /\ current.task \in TaskIds
    BY <1>1, <1>4 DEF HandleResplit
  <2> QED
    BY <2>1 DEF QueueNext
<1>5. ASSUME NEW n \in 1..MaxBatch, StartRange(n) PROVE QueueNext
  BY <1>5 DEF StartRange, QueueNext
<1>6. ASSUME NEW t \in TaskIds, DispatchTo(t) PROVE QueueNext
  BY <1>6 DEF DispatchTo, QueueNext
<1>7. CASE UNCHANGED queueVars
  BY <1>7
<1> QED
  BY <1>2, <1>3, <1>4, <1>5, <1>6, <1>7, StepCases
     DEF DispatchAcquire, NoIdleWorker, NothingToDispatch, RangeDone, ReturnCancelled,
         Receive, GoroutineReleases, GoroutineSends, PoolStep, Cancel, vars

-----------------------------------------------------------------------------
(* Types.                                                                   *)

LEMMA TypeInit == Init => DispatchTypeOK
<1> SUFFICES ASSUME Init PROVE DispatchTypeOK
  OBVIOUS
<1>1. QueueTypeOK
  BY QueueTypeInit DEF Init
<1> QED
  BY <1>1, EmptySeq DEF Init, PoolInit, DispatchTypeOK, PC, Idle

\* Moving a call forward keeps calls a set of calls.
LEMMA AdvanceTypes ==
  ASSUME calls \in SUBSET Call, NEW c \in calls,
         NEW q \in {"sent", "running", "replied"}, NEW r \in Result \union {"none"},
         Advance(c, q, r)
  PROVE  calls' \in SUBSET Call
BY DEF Advance, Call

LEMMA TypeStep == DispatchTypeOK /\ [Next]_vars => DispatchTypeOK'
<1> SUFFICES ASSUME DispatchTypeOK, [Next]_vars PROVE DispatchTypeOK'
  OBVIOUS
<1>q. QueueTypeOK /\ QueueTypeOK'
  BY QueueStep, QueueTypeStep DEF DispatchTypeOK
<1> USE DEF PC
<1>1. ASSUME NEW n \in 1..MaxBatch, StartRange(n) PROVE DispatchTypeOK'
  BY <1>q, <1>1 DEF StartRange, DispatchTypeOK, poolVars
<1>2. ASSUME NEW w \in Worker, DispatchAcquire(w) PROVE DispatchTypeOK'
  BY <1>q, <1>2 DEF DispatchAcquire, AcquireWorker, DispatchTypeOK
<1>3. CASE NoIdleWorker \/ RangeDone \/ ReturnCancelled
  BY <1>q, <1>3 DEF NoIdleWorker, RangeDone, ReturnCancelled, DispatchTypeOK, poolVars
<1>4. ASSUME NEW t \in TaskIds, DispatchTo(t) PROVE DispatchTypeOK'
  <2>1. held \in Worker
    BY <1>4 DEF DispatchTo, DispatchTypeOK
  <2>2. calls' \in SUBSET Call
    BY <1>4, <2>1 DEF DispatchTo, DispatchTask, DispatchTypeOK, Call
  <2> QED
    BY <1>q, <1>4, <2>2 DEF DispatchTo, DispatchTypeOK
<1>5. CASE NothingToDispatch
  BY <1>q, <1>5 DEF NothingToDispatch, ReleaseWorker, DispatchTypeOK
<1>6. CASE Receive
  <2>1. Head(resultCh) \in TaskResult /\ Tail(resultCh) \in Seq(TaskResult)
    BY <1>6, HeadTailProperties DEF Receive, DispatchTypeOK
  <2> QED
    BY <1>q, <1>6, <2>1 DEF Receive, DispatchTypeOK, poolVars
<1>7. ASSUME pc = "handle", Handled("acquire") PROVE DispatchTypeOK'
  BY <1>q, <1>7 DEF Handled, DispatchTypeOK, poolVars
<1>8. ASSUME NEW c \in calls, NEW r \in Result, GoroutineReleases(c, r) PROVE DispatchTypeOK'
  <2>1. [task |-> c.task, res |-> r] \in TaskResult
    BY DEF DispatchTypeOK, Call, TaskResult
  <2> QED
    BY <1>q, <1>8, <2>1
       DEF GoroutineReleases, DispatchTaskReturns, ReleaseWorker, DispatchTypeOK
<1>9. ASSUME NEW s \in senders, GoroutineSends(s) PROVE DispatchTypeOK'
  <2>1. Append(resultCh, s) \in Seq(TaskResult)
    BY AppendLemma DEF DispatchTypeOK
  <2> QED
    BY <1>q, <1>9, <2>1 DEF GoroutineSends, DispatchTypeOK, poolVars
<1>10. ASSUME calls' \in SUBSET Call,
              server' \in [Worker -> TaskIds \union {Idle}],
              exitedOK' \in [TaskIds -> Nat],
              UNCHANGED <<busy, cancelled, lost, queueVars, loopVars>>
       PROVE  DispatchTypeOK'
  BY <1>q, <1>10 DEF DispatchTypeOK, loopVars
<1>11. ASSUME NEW c \in calls, PoolStep(Admit(c)) PROVE DispatchTypeOK'
  <2>1. calls' \in SUBSET Call
    BY <1>11, AdvanceTypes DEF PoolStep, Admit, DispatchTypeOK
  <2>2. c.task \in TaskIds
    BY DEF DispatchTypeOK, Call
  <2>3. server' \in [Worker -> TaskIds \union {Idle}]
    BY <1>11, <2>2 DEF PoolStep, Admit, DispatchTypeOK
  <2>4. exitedOK' \in [TaskIds -> Nat]
    BY <1>11 DEF PoolStep, Admit, DispatchTypeOK
  <2>5. UNCHANGED <<busy, cancelled, lost, queueVars, loopVars>>
    BY <1>11 DEF PoolStep
  <2> QED
    BY <1>10, <2>1, <2>3, <2>4, <2>5
<1>12. ASSUME NEW c \in calls, PoolStep(RejectBusy(c)) PROVE DispatchTypeOK'
  <2>1. calls' \in SUBSET Call
    BY <1>12, AdvanceTypes DEF PoolStep, RejectBusy, DispatchTypeOK, Result
  <2> QED
    BY <1>10, <1>12, <2>1 DEF PoolStep, RejectBusy, DispatchTypeOK
<1>13. ASSUME NEW c \in calls, NEW r \in ExitResult, PoolStep(ExecuteReturns(c, r))
       PROVE  DispatchTypeOK'
  <2>1. calls' \in SUBSET Call
    BY <1>13, AdvanceTypes DEF PoolStep, ExecuteReturns, DispatchTypeOK, Result
  <2>2. c.task \in TaskIds
    BY DEF DispatchTypeOK, Call
  <2>3. exitedOK' \in [TaskIds -> Nat]
    BY <1>13, <2>2 DEF PoolStep, ExecuteReturns, CountExit, DispatchTypeOK
  <2> QED
    BY <1>10, <1>13, <2>1, <2>3 DEF PoolStep, ExecuteReturns, DispatchTypeOK
<1>14. ASSUME NEW w \in Worker, NEW r \in {"ok", "fail"}, PoolStep(OrphanExits(w, r))
       PROVE  DispatchTypeOK'
  <2>1. exitedOK' \in [TaskIds -> Nat]
    BY <1>14 DEF PoolStep, OrphanExits, CountExit, DispatchTypeOK
  <2> QED
    BY <1>10, <1>14, <2>1 DEF PoolStep, OrphanExits, DispatchTypeOK
<1>15. CASE Cancel
  BY <1>q, <1>15 DEF Cancel, DispatchTypeOK, loopVars
<1>16. CASE UNCHANGED vars
  BY <1>q, <1>16 DEF vars, poolVars, loopVars, DispatchTypeOK
<1> QED
  BY <1>1, <1>2, <1>3, <1>4, <1>5, <1>6, <1>7, <1>8, <1>9, <1>11, <1>12, <1>13, <1>14,
     <1>15, <1>16, StepCases
     DEF HandleSuccess, HandleFailure, HandleResplit

\* The types of the composed system.
THEOREM DispatchTypes == Spec => []DispatchTypeOK
BY TypeInit, TypeStep, PTL DEF Spec

\* The dispatch loop, its goroutines and Run together are a legal client of the
\* queue: whatever holds of TaskQueue for every client holds here.
THEOREM DispatchUsesQueue == Spec => QueueSpec
<1>1. Init => QueueInit
  BY DEF Init
<1>2. DispatchTypeOK /\ [Next]_vars => [QueueNext]_queueVars
  BY QueueStep
<1> QED
  BY <1>1, <1>2, DispatchTypes, PTL DEF Spec, QueueSpec

-----------------------------------------------------------------------------
(* Workers.                                                                 *)

\* A worker's step moves at most one call forward: the calls keep their tasks
\* and workers.
LEMMA AdvanceKeeps ==
  ASSUME calls \in SUBSET Call, NEW c \in calls, NEW q, NEW x, Advance(c, q, x)
  PROVE  /\ {d.worker : d \in calls'} = {d.worker : d \in calls}
         /\ {d.task : d \in calls'} = {d.task : d \in calls}
         /\ (\A d, e \in calls : d.worker = e.worker => d = e)
              => \A d, e \in calls' : d.worker = e.worker => d = e
         /\ (\A d, e \in calls : d.task = e.task => d = e)
              => \A d, e \in calls' : d.task = e.task => d = e
<1> DEFINE new == [c EXCEPT !.pc = q, !.res = x]
<1>1. calls' = (calls \ {c}) \union {new}
  BY DEF Advance
<1>2. new.worker = c.worker /\ new.task = c.task
  BY DEF Call
<1> HIDE DEF new
<1> QED
  BY <1>1, <1>2

LEMMA PoolStepKeeps ==
  ASSUME DispatchTypeOK,
         \/ \E c \in calls : PoolStep(Admit(c))
         \/ \E c \in calls : PoolStep(RejectBusy(c))
         \/ \E c \in calls, r \in ExitResult : PoolStep(ExecuteReturns(c, r))
         \/ \E w \in Worker, r \in {"ok", "fail"} : PoolStep(OrphanExits(w, r))
  PROVE  /\ UNCHANGED <<busy, cancelled, lost, queueVars, loopVars>>
         /\ Called' = Called
         /\ {d.worker : d \in calls'} = {d.worker : d \in calls}
         /\ (\A d, e \in calls : d.worker = e.worker => d = e)
              => \A d, e \in calls' : d.worker = e.worker => d = e
         /\ (\A d, e \in calls : d.task = e.task => d = e)
              => \A d, e \in calls' : d.task = e.task => d = e
<1>1. UNCHANGED <<busy, cancelled, lost, queueVars, loopVars>>
  BY DEF PoolStep
<1>2. CASE \E c \in calls : \E q, x : Advance(c, q, x)
  <2>1. PICK c \in calls : \E q, x : Advance(c, q, x)
    BY <1>2
  <2>2. PICK q, x : Advance(c, q, x)
    BY <2>1
  <2> QED
    BY <1>1, <2>2, AdvanceKeeps DEF DispatchTypeOK, Called
<1>3. CASE calls' = calls
  BY <1>1, <1>3 DEF Called
<1> QED
  BY <1>1, <1>2, <1>3 DEF PoolStep, Admit, RejectBusy, ExecuteReturns, OrphanExits

LEMMA NoWorkerLeakStep ==
  DispatchTypeOK /\ NoWorkerLeak /\ [Next]_vars => NoWorkerLeak'
<1> SUFFICES ASSUME DispatchTypeOK, NoWorkerLeak, [Next]_vars PROVE NoWorkerLeak'
  OBVIOUS
<1>1. CASE UNCHANGED <<busy, calls, held>>
  BY <1>1 DEF NoWorkerLeak
<1>2. ASSUME NEW w \in Worker, DispatchAcquire(w) PROVE NoWorkerLeak'
  <2>1. /\ held = 0 /\ held' = w /\ w \notin busy
        /\ busy' = busy \union {w} /\ calls' = calls /\ w # 0
    BY <1>2 DEF DispatchAcquire, AcquireWorker, DispatchTypeOK, Worker
  <2> QED
    BY <2>1 DEF NoWorkerLeak
<1>3. ASSUME NEW t \in TaskIds, DispatchTo(t) PROVE NoWorkerLeak'
  <2> DEFINE new == [task |-> t, worker |-> held, pc |-> "sent", res |-> "none"]
  <2>1. /\ held \in Worker /\ held # 0 /\ held' = 0 /\ busy' = busy
        /\ calls' = calls \union {new} /\ new.worker = held
    BY <1>3 DEF DispatchTo, DispatchTask, DispatchTypeOK, Worker
  <2> HIDE DEF new
  <2>2. {c.worker : c \in calls'} = {c.worker : c \in calls} \union {held}
    BY <2>1
  <2>3. \A c, d \in calls' : c.worker = d.worker => c = d
    BY <2>1 DEF NoWorkerLeak
  <2>4. \A c \in calls' : c.worker # 0
    BY <2>1 DEF NoWorkerLeak, DispatchTypeOK, Call, Worker
  <2> QED
    BY <2>1, <2>2, <2>3, <2>4 DEF NoWorkerLeak
<1>4. CASE NothingToDispatch
  <2>1. held # 0 /\ held' = 0 /\ busy' = busy \ {held} /\ calls' = calls
    BY <1>4 DEF NothingToDispatch, ReleaseWorker, DispatchTypeOK, Worker
  <2>2. \A c \in calls : c.worker # 0
    BY DEF DispatchTypeOK, Call, Worker
  <2>3. \A w \in {c.worker : c \in calls} : w # held
    BY DEF NoWorkerLeak
  <2> QED
    BY <2>1, <2>2, <2>3 DEF NoWorkerLeak
<1>5. ASSUME NEW c \in calls, NEW r \in Result, GoroutineReleases(c, r) PROVE NoWorkerLeak'
  <2>1. busy' = busy \ {c.worker} /\ calls' = calls \ {c} /\ held' = held
    BY <1>5 DEF GoroutineReleases, DispatchTaskReturns, ReleaseWorker
  <2> QED
    BY <2>1 DEF NoWorkerLeak
<1>6. ASSUME UNCHANGED <<busy, loopVars>>,
             {d.worker : d \in calls'} = {d.worker : d \in calls},
             (\A d, e \in calls : d.worker = e.worker => d = e)
               => \A d, e \in calls' : d.worker = e.worker => d = e
      PROVE  NoWorkerLeak'
  <2>1. \A d \in calls' : d.worker # held
    BY <1>6 DEF NoWorkerLeak
  <2> QED
    BY <1>6, <2>1 DEF NoWorkerLeak, loopVars
<1> QED
  BY <1>1, <1>2, <1>3, <1>4, <1>5, <1>6, StepCases, PoolStepKeeps
     DEF StartRange, NoIdleWorker, RangeDone, ReturnCancelled, Receive, HandleSuccess,
         HandleFailure, HandleResplit, Handled, GoroutineSends, Cancel, vars, poolVars, loopVars

\* No worker is leaked or given to two tasks.
THEOREM WorkersAreAccountedFor == Spec => []NoWorkerLeak
<1>1. Init => NoWorkerLeak
  BY DEF Init, PoolInit, NoWorkerLeak
<1> QED
  BY <1>1, NoWorkerLeakStep, DispatchTypes, PTL DEF Spec

-----------------------------------------------------------------------------
(* Tasks and results.                                                       *)

LEMMA OneOwnerStep ==
  DispatchTypeOK /\ OnePlace /\ OneOwner /\ QuietBetweenRanges /\ [Next]_vars => OneOwner'
<1> SUFFICES ASSUME DispatchTypeOK, OnePlace, OneOwner, QuietBetweenRanges, [Next]_vars
             PROVE  OneOwner'
  OBVIOUS
<1> USE DEF Called, Sending, Buffered
<1>1. ASSUME UNCHANGED <<running, calls, senders, resultCh>>, Handling' = Handling
      PROVE  OneOwner'
  BY <1>1 DEF OneOwner
<1>2. ASSUME NEW n \in 1..MaxBatch, StartRange(n) PROVE OneOwner'
  <2>1. /\ resultCh = <<>> /\ resultCh' = <<>> /\ UNCHANGED <<running, calls, senders>>
        /\ Handling = {} /\ Handling' = {}
    BY <1>2 DEF StartRange, AddTasks, poolVars, QuietBetweenRanges, Handling
  <2> QED
    BY <1>1, <2>1
<1>3. ASSUME NEW t \in TaskIds, DispatchTo(t) PROVE OneOwner'
  <2> DEFINE new == [task |-> t, worker |-> held, pc |-> "sent", res |-> "none"]
  <2>1. /\ running' = running \union {t} /\ calls' = calls \union {new} /\ new.task = t
        /\ UNCHANGED <<senders, resultCh>>
        /\ Handling = {} /\ Handling' = {}
    BY <1>3 DEF DispatchTo, DispatchTask, NextTask, Handling
  <2>2. t \notin running
    BY <1>3, NextTaskEffect DEF DispatchTo, DispatchTypeOK, OnePlace
  <2> HIDE DEF new
  <2>3. /\ Called' = Called \union {t} /\ Sending' = Sending /\ Buffered' = Buffered
    BY <2>1
  <2>4. \A c, d \in calls' : c.task = d.task => c = d
    BY <2>1, <2>2 DEF OneOwner
  <2> HIDE DEF Called, Sending, Buffered
  <2> QED
    BY <2>1, <2>2, <2>3, <2>4 DEF OneOwner
<1>4. CASE Receive
  <2>1. /\ Head(resultCh) \in ToSet(resultCh)
        /\ IsInjective(Tail(resultCh))
        /\ ToSet(Tail(resultCh)) = ToSet(resultCh) \ {Head(resultCh)}
    BY <1>4, TailLemma DEF Receive, DispatchTypeOK, OneOwner
  <2>2. /\ resultCh' = Tail(resultCh) /\ UNCHANGED <<running, calls, senders>>
        /\ Handling = {} /\ Handling' = {Head(resultCh).task}
    BY <1>4 DEF Receive, Handling, queueVars, poolVars
  <2>3. Buffered' = Buffered \ {Head(resultCh).task}
    BY <2>1, <2>2 DEF OneOwner
  <2>4. Head(resultCh).task \in Buffered
    BY <2>1
  <2> HIDE DEF Called, Sending, Buffered
  <2>5. Called' = Called /\ Sending' = Sending
    BY <2>2 DEF Called, Sending
  <2> QED
    BY <2>1, <2>2, <2>3, <2>4, <2>5 DEF OneOwner
<1>5. ASSUME pc = "handle", Handled("acquire"), running' = running \ {current.task}
      PROVE  OneOwner'
  <2>1. /\ Handling = {current.task} /\ Handling' = {}
        /\ UNCHANGED <<calls, senders, resultCh>>
    BY <1>5 DEF Handling, Handled, poolVars
  <2> QED
    BY <1>5, <2>1 DEF OneOwner
<1>6. ASSUME NEW c \in calls, NEW r \in Result, GoroutineReleases(c, r) PROVE OneOwner'
  <2> DEFINE new == [task |-> c.task, res |-> r]
  <2>1. /\ calls' = calls \ {c} /\ senders' = senders \union {new} /\ new.task = c.task
        /\ UNCHANGED <<running, resultCh>> /\ Handling' = Handling
    BY <1>6 DEF GoroutineReleases, DispatchTaskReturns, queueVars, Handling
  <2> HIDE DEF new
  <2>2. /\ c.task \in Called /\ Called' = Called \ {c.task}
        /\ Sending' = Sending \union {c.task} /\ Buffered' = Buffered
    BY <2>1 DEF OneOwner
  <2>3. \A s, t \in senders' : s.task = t.task => s = t
    BY <2>1 DEF OneOwner
  <2>4. \A d, e \in calls' : d.task = e.task => d = e
    BY <2>1 DEF OneOwner
  <2> HIDE DEF Called, Sending, Buffered
  <2> QED
    BY <2>1, <2>2, <2>3, <2>4 DEF OneOwner
<1>7. ASSUME NEW s \in senders, GoroutineSends(s) PROVE OneOwner'
  <2>1. s \notin ToSet(resultCh)
    BY DEF OneOwner
  <2>2. /\ ToSet(Append(resultCh, s)) = ToSet(resultCh) \union {s}
        /\ IsInjective(Append(resultCh, s))
    BY <2>1, AppendLemma DEF DispatchTypeOK, OneOwner
  <2>3. /\ resultCh' = Append(resultCh, s) /\ senders' = senders \ {s}
        /\ UNCHANGED <<running, calls>> /\ Handling' = Handling
    BY <1>7 DEF GoroutineSends, queueVars, poolVars, Handling
  <2>4. /\ s.task \in Sending /\ Sending' = Sending \ {s.task}
        /\ Buffered' = Buffered \union {s.task} /\ Called' = Called
    BY <2>2, <2>3 DEF OneOwner
  <2>5. \A q, r \in ToSet(resultCh') : q.task = r.task => q = r
    BY <2>2, <2>3 DEF OneOwner
  <2>6. \A q, r \in senders' : q.task = r.task => q = r
    BY <2>3 DEF OneOwner
  <2> HIDE DEF Called, Sending, Buffered
  <2> QED
    BY <2>2, <2>3, <2>4, <2>5, <2>6 DEF OneOwner
<1>8. ASSUME UNCHANGED <<queueVars, loopVars>>, Called' = Called,
             (\A d, e \in calls : d.task = e.task => d = e)
               => \A d, e \in calls' : d.task = e.task => d = e
      PROVE  OneOwner'
  <2>1. UNCHANGED <<running, senders, resultCh>> /\ Handling' = Handling
    BY <1>8 DEF queueVars, loopVars, Handling
  <2> QED
    BY <1>8, <2>1 DEF OneOwner
<1>9. ASSUME pc = "handle" PROVE current.task \in running
  BY <1>9 DEF OneOwner, Handling
<1>10. CASE HandleSuccess
  BY <1>5, <1>9, <1>10 DEF HandleSuccess, CompleteTask, CompleteRunning, NotRunning
<1>11. CASE HandleFailure
  BY <1>5, <1>9, <1>11 DEF HandleFailure, FailTask, FailRunning, NotRunning
<1>12. ASSUME NEW n \in 2..MaxBatch, HandleResplit(n) PROVE OneOwner'
  BY <1>5, <1>12 DEF HandleResplit, ReplaceTasks
<1>13. CASE \/ \E w \in Worker : DispatchAcquire(w)
            \/ NoIdleWorker \/ NothingToDispatch \/ RangeDone \/ ReturnCancelled
            \/ Cancel \/ UNCHANGED vars
  BY <1>1, <1>13 DEF DispatchAcquire, NoIdleWorker, NothingToDispatch, RangeDone,
     ReturnCancelled, Cancel, vars, queueVars, poolVars, loopVars, Handling
<1> QED
  BY <1>2, <1>3, <1>4, <1>6, <1>7, <1>8, <1>10, <1>11, <1>12, <1>13, StepCases, PoolStepKeeps

\* executeTasks returns nil when the queue is complete, and Run leaves the queue
\* alone until it calls it again.
IdleBetween == pc = "between" => IsComplete

LEMMA IdleBetweenStep == IdleBetween /\ [Next]_vars => IdleBetween'
<1> SUFFICES ASSUME IdleBetween, [Next]_vars PROVE IdleBetween'
  OBVIOUS
<1>1. CASE UNCHANGED <<pc, queueVars>>
  BY <1>1 DEF IdleBetween, IsComplete, queueVars
<1>2. CASE pc' # "between"
  BY <1>2 DEF IdleBetween
<1>3. CASE RangeDone
  BY <1>3 DEF RangeDone, IdleBetween, IsComplete, queueVars
<1> QED
  BY <1>1, <1>2, <1>3, StepCases
     DEF StartRange, DispatchAcquire, NoIdleWorker, DispatchTo, NothingToDispatch,
         ReturnCancelled, Receive, HandleSuccess, HandleFailure, HandleResplit, Handled,
         GoroutineReleases, GoroutineSends, PoolStep, Cancel, vars, loopVars

\* With no running task there is no owner, hence no call, result or busy worker.
LEMMA IdleIsQuiet ==
  ASSUME DispatchTypeOK, OneOwner, NoWorkerLeak, IdleBetween
  PROVE  QuietBetweenRanges
<1> SUFFICES ASSUME pc = "between"
             PROVE  busy = {} /\ calls = {} /\ senders = {} /\ resultCh = <<>>
  BY DEF QuietBetweenRanges
<1>1. Called = {} /\ Sending = {} /\ Buffered = {}
  BY DEF IdleBetween, IsComplete, OneOwner
<1>2. calls = {} /\ senders = {} /\ ToSet(resultCh) = {}
  BY <1>1 DEF Called, Sending, Buffered
<1>3. resultCh = <<>>
  BY <1>2, EmptyToSet DEF DispatchTypeOK
<1>4. held = 0
  BY DEF DispatchTypeOK
<1>5. busy = {}
  BY <1>2, <1>4 DEF NoWorkerLeak
<1> QED
  BY <1>2, <1>3, <1>5

OwnerInv == OneOwner /\ NoWorkerLeak /\ IdleBetween

LEMMA OwnerInvHolds == Spec => []OwnerInv
<1>1. Init => OwnerInv
  <2> SUFFICES ASSUME Init PROVE OwnerInv
    OBVIOUS
  <2>1. ToSet(resultCh) = {} /\ IsInjective(resultCh)
    BY DEF Init, ToSet, IsInjective
  <2>2. OneOwner
    BY <2>1 DEF Init, QueueInit, PoolInit, OneOwner, Handling, Called, Sending, Buffered
  <2> QED
    BY <2>2 DEF Init, QueueInit, PoolInit, OwnerInv, NoWorkerLeak, IdleBetween, IsComplete
<1>2. DispatchTypeOK /\ OnePlace /\ OwnerInv /\ [Next]_vars => OwnerInv'
  BY OneOwnerStep, NoWorkerLeakStep, IdleBetweenStep, IdleIsQuiet DEF OwnerInv
<1>3. Spec => []OnePlace
  BY DispatchUsesQueue, TaskInOnePlace, PTL
<1> QED
  BY <1>1, <1>2, <1>3, DispatchTypes, PTL DEF Spec

\* Every running task has exactly one owner; no result is lost or duplicated.
THEOREM RunningTasksAreOwned == Spec => []OneOwner
<1>1. OwnerInv => OneOwner
  BY DEF OwnerInv
<1> QED
  BY <1>1, OwnerInvHolds, PTL

\* executeTasks leaves nothing behind when it returns nil.
THEOREM NothingLeftBetweenRanges == Spec => []QuietBetweenRanges
<1>1. DispatchTypeOK /\ OwnerInv => QuietBetweenRanges
  BY IdleIsQuiet DEF OwnerInv
<1> QED
  BY <1>1, OwnerInvHolds, DispatchTypes, PTL

-----------------------------------------------------------------------------
(* Progress of the loop, as safety.                                         *)

LEMMA WorkConservingStep ==
  DispatchTypeOK /\ WorkConserving /\ [Next]_vars => WorkConserving'
<1> SUFFICES ASSUME DispatchTypeOK, WorkConserving, [Next]_vars PROVE WorkConserving'
  OBVIOUS
<1>1. CASE UNCHANGED <<pc, pending, busy, senders, resultCh>>
  BY <1>1 DEF WorkConserving
<1>2. CASE pc' # "loop"
  BY <1>2 DEF WorkConserving
<1>3. CASE NoIdleWorker
  BY <1>3 DEF NoIdleWorker, poolVars, WorkConserving
<1>4. CASE NothingToDispatch
  BY <1>4 DEF NothingToDispatch, queueVars, WorkConserving
<1>5. ASSUME NEW c \in calls, NEW r \in Result, GoroutineReleases(c, r)
      PROVE  WorkConserving'
  BY <1>5 DEF GoroutineReleases, WorkConserving
<1>6. ASSUME NEW s \in senders, GoroutineSends(s) PROVE WorkConserving'
  <2>1. /\ resultCh' \in Seq(TaskResult)
        /\ ToSet(resultCh') = ToSet(resultCh) \union {s}
    BY <1>6, AppendLemma DEF GoroutineSends, DispatchTypeOK
  <2>2. resultCh' # <<>>
    BY <2>1 DEF ToSet
  <2> QED
    BY <2>2 DEF WorkConserving
<1> QED
  BY <1>1, <1>2, <1>3, <1>4, <1>5, <1>6, StepCases
     DEF StartRange, DispatchAcquire, DispatchTo, RangeDone, ReturnCancelled, Receive,
         HandleSuccess, HandleFailure, HandleResplit, Handled, PoolStep, Cancel,
         vars, queueVars, poolVars, loopVars

\* No idle worker is left beside a waiting task without a result on its way.
THEOREM IdleWorkersAreUsed == Spec => []WorkConserving
<1>1. Init => WorkConserving
  BY DEF Init, WorkConserving
<1> QED
  BY <1>1, WorkConservingStep, DispatchTypes, PTL DEF Spec

\* The loop never waits for a result that nobody will send.
THEOREM DispatchNeverStalls == Spec => []NoStall
<1>1. DispatchTypeOK /\ OwnerInv /\ WorkConserving => NoStall
  <2> SUFFICES ASSUME DispatchTypeOK, OwnerInv, WorkConserving, pc = "loop", ~IsComplete,
                      senders = {}, resultCh = <<>>
               PROVE  calls # {}
    BY DEF NoStall
  <2>1. CASE running # {}
    <3>1. Handling = {} /\ Sending = {} /\ Buffered = {}
      BY DEF Handling, Sending, Buffered, ToSet
    <3>2. Called # {}
      BY <2>1, <3>1 DEF OwnerInv, OneOwner
    <3> QED
      BY <3>2 DEF Called
  <2>2. CASE running = {}
    <3>1. busy = Worker
      BY <2>2 DEF WorkConserving, IsComplete
    <3>2. held = 0 /\ 1 \in Worker /\ 1 # 0
      BY DEF DispatchTypeOK, Worker
    <3> QED
      BY <3>1, <3>2 DEF OwnerInv, NoWorkerLeak
  <2> QED
    BY <2>1, <2>2
<1> QED
  BY <1>1, OwnerInvHolds, IdleWorkersAreUsed, DispatchTypes, PTL

-----------------------------------------------------------------------------
(* Successes.                                                               *)

\* Every result "ok" on its way to the loop comes from a vmctl that exited with 0.
ResultsAreTrue ==
  /\ \A c \in calls : c.res = "ok" => exitedOK[c.task] > 0
  /\ \A s \in senders : s.res = "ok" => exitedOK[s.task] > 0
  /\ \A r \in ToSet(resultCh) : r.res = "ok" => exitedOK[r.task] > 0
  /\ current.res = "ok" => exitedOK[current.task] > 0

\* A worker's step counts vmctl's exits, and answers "ok" only after counting one.
LEMMA PoolStepCounts ==
  ASSUME DispatchTypeOK,
         \/ \E c \in calls : PoolStep(Admit(c))
         \/ \E c \in calls : PoolStep(RejectBusy(c))
         \/ \E c \in calls, r \in ExitResult : PoolStep(ExecuteReturns(c, r))
         \/ \E w \in Worker, r \in {"ok", "fail"} : PoolStep(OrphanExits(w, r))
  PROVE  /\ \A t \in TaskIds : exitedOK'[t] >= exitedOK[t]
         /\ \A c \in calls' : c.res = "ok" => c \in calls \/ exitedOK'[c.task] > 0
<1>1. ASSUME NEW c \in calls, NEW q, NEW x, Advance(c, q, x), NEW d \in calls',
             d \notin calls
      PROVE  d.task = c.task /\ d.res = x
  <2>1. d = [c EXCEPT !.pc = q, !.res = x] /\ c \in Call
    BY <1>1 DEF Advance, DispatchTypeOK
  <2> QED
    BY <2>1 DEF Call
<1>2. CASE \E c \in calls : PoolStep(Admit(c))
  <2>1. PICK c \in calls : PoolStep(Admit(c))
    BY <1>2
  <2> QED
    BY <1>1, <2>1 DEF PoolStep, Admit, DispatchTypeOK
<1>3. CASE \E c \in calls : PoolStep(RejectBusy(c))
  <2>1. PICK c \in calls : PoolStep(RejectBusy(c))
    BY <1>3
  <2> QED
    BY <1>1, <2>1 DEF PoolStep, RejectBusy, DispatchTypeOK
<1>4. ASSUME NEW t \in TaskIds, NEW r, CountExit(t, r)
      PROVE  /\ \A u \in TaskIds : exitedOK'[u] >= exitedOK[u]
             /\ r = "ok" => exitedOK'[t] > 0
  <2>1. exitedOK \in [TaskIds -> Nat]
    BY DEF DispatchTypeOK
  <2>2. exitedOK' = exitedOK \/ exitedOK' = [exitedOK EXCEPT ![t] = exitedOK[t] + 1]
    BY <1>4 DEF CountExit
  <2>3. r = "ok" => exitedOK' = [exitedOK EXCEPT ![t] = exitedOK[t] + 1]
    BY <1>4 DEF CountExit
  <2> QED
    BY <2>1, <2>2, <2>3
<1>5. CASE \E c \in calls, r \in ExitResult : PoolStep(ExecuteReturns(c, r))
  <2>1. PICK c \in calls, r \in ExitResult : PoolStep(ExecuteReturns(c, r))
    BY <1>5
  <2>2. c.task \in TaskIds /\ CountExit(c.task, r) /\ Advance(c, "replied", r)
    BY <2>1 DEF PoolStep, ExecuteReturns, DispatchTypeOK, Call
  <2> QED
    BY <1>1, <1>4, <2>2
<1>6. CASE \E w \in Worker, r \in {"ok", "fail"} : PoolStep(OrphanExits(w, r))
  <2>1. PICK w \in Worker, r \in {"ok", "fail"} : PoolStep(OrphanExits(w, r))
    BY <1>6
  <2>2. server[w] \in TaskIds /\ CountExit(server[w], r) /\ calls' = calls
    BY <2>1 DEF PoolStep, OrphanExits, DispatchTypeOK
  <2> QED
    BY <1>4, <2>2
<1> QED
  BY <1>2, <1>3, <1>5, <1>6

LEMMA ResultsAreTrueStep ==
  DispatchTypeOK /\ OneOwner /\ ResultsAreTrue /\ [Next]_vars => ResultsAreTrue'
<1> SUFFICES ASSUME DispatchTypeOK, OneOwner, ResultsAreTrue, [Next]_vars
             PROVE  ResultsAreTrue'
  OBVIOUS
<1>1. CASE UNCHANGED <<calls, senders, resultCh, current, exitedOK>>
  BY <1>1 DEF ResultsAreTrue
<1>2. ASSUME NEW n \in 1..MaxBatch, StartRange(n) PROVE ResultsAreTrue'
  BY <1>2 DEF StartRange, poolVars, ResultsAreTrue, ToSet
<1>3. ASSUME NEW t \in TaskIds, DispatchTo(t) PROVE ResultsAreTrue'
  BY <1>3 DEF DispatchTo, DispatchTask, ResultsAreTrue
<1>4. CASE Receive
  <2>1. /\ Head(resultCh) \in ToSet(resultCh)
        /\ ToSet(Tail(resultCh)) \subseteq ToSet(resultCh)
    BY <1>4, TailLemma DEF Receive, DispatchTypeOK, OneOwner
  <2> QED
    BY <1>4, <2>1 DEF Receive, poolVars, ResultsAreTrue
<1>5. ASSUME Handled("acquire") PROVE ResultsAreTrue'
  BY <1>5 DEF Handled, poolVars, ResultsAreTrue, NoResult
<1>6. ASSUME NEW c \in calls, NEW r \in Result, GoroutineReleases(c, r)
      PROVE  ResultsAreTrue'
  <2>1. r = "ok" => c.res = "ok"
    BY <1>6 DEF GoroutineReleases, DispatchTaskReturns
  <2>2. /\ calls' = calls \ {c}
        /\ senders' = senders \union {[task |-> c.task, res |-> r]}
        /\ UNCHANGED <<resultCh, current, exitedOK>>
    BY <1>6 DEF GoroutineReleases, DispatchTaskReturns
  <2> QED
    BY <2>1, <2>2 DEF ResultsAreTrue
<1>7. ASSUME NEW s \in senders, GoroutineSends(s) PROVE ResultsAreTrue'
  <2>1. ToSet(resultCh') = ToSet(resultCh) \union {s}
    BY <1>7, AppendLemma DEF GoroutineSends, DispatchTypeOK
  <2> QED
    BY <1>7, <2>1 DEF GoroutineSends, poolVars, ResultsAreTrue
<1>8. ASSUME UNCHANGED loopVars,
             \A t \in TaskIds : exitedOK'[t] >= exitedOK[t],
             \A c \in calls' : c.res = "ok" => c \in calls \/ exitedOK'[c.task] > 0,
             DispatchTypeOK'
      PROVE  ResultsAreTrue'
  <2>1. exitedOK \in [TaskIds -> Nat] /\ exitedOK' \in [TaskIds -> Nat]
    BY <1>8 DEF DispatchTypeOK
  <2>2. \A t \in TaskIds : exitedOK[t] > 0 => exitedOK'[t] > 0
    BY <1>8, <2>1
  <2>3. /\ \A c \in calls : c.task \in TaskIds
        /\ \A s \in senders : s.task \in TaskIds
        /\ \A r \in ToSet(resultCh) : r.task \in TaskIds
        /\ current.res = "ok" => current.task \in TaskIds
    <3>1. \A r \in ToSet(resultCh) : r \in TaskResult
      BY EmptyToSet DEF DispatchTypeOK
    <3>2. current.res = "ok" => current \in TaskResult
      BY DEF DispatchTypeOK, NoResult
    <3> QED
      BY <3>1, <3>2 DEF DispatchTypeOK, Call, TaskResult
  <2> QED
    BY <1>8, <2>2, <2>3 DEF ResultsAreTrue, loopVars
<1>9. DispatchTypeOK'
  BY TypeStep
<1> QED
  BY <1>1, <1>2, <1>3, <1>4, <1>5, <1>6, <1>7, <1>8, <1>9, StepCases, PoolStepCounts, PoolStepKeeps
     DEF DispatchAcquire, NoIdleWorker, NothingToDispatch, RangeDone, ReturnCancelled,
         HandleSuccess, HandleFailure, HandleResplit, Cancel, vars, queueVars, poolVars, loopVars

\* Only the handling of a result "ok" makes a task succeed.
LEMMA SuccessStep ==
  ASSUME DispatchTypeOK, OnePlace, OneOwner, [Next]_vars,
         NEW t \in TaskIds, status'[t] = "succeeded"
  PROVE  status[t] = "succeeded" \/ (t = current.task /\ current.res = "ok")
<1> QueueTypeOK /\ status \in [TaskIds -> Status]
  BY DEF DispatchTypeOK, QueueTypeOK
<1>1. CASE status' = status
  BY <1>1
<1>2. ASSUME NEW n, NEW isSplit \in BOOLEAN, AppendTasks(n, isSplit) PROVE status'[t] = status[t]
  BY <1>2 DEF AppendTasks
<1>3. ASSUME NEW s \in TaskIds, DispatchTo(s) PROVE status'[t] = status[t]
  BY <1>3 DEF DispatchTo, NextTask
<1>4. CASE HandleSuccess
  BY <1>4 DEF HandleSuccess, CompleteTask, CompleteRunning, NotRunning, queueVars
<1>5. CASE HandleFailure
  <2>1. current.task \in TaskIds /\ FailTask(current.task)
    BY <1>5 DEF HandleFailure, DispatchTypeOK, TaskResult
  <2>2. CASE FailRunning(current.task)
    BY <2>1, <2>2, FailOutcome
  <2> QED
    BY <1>1, <2>1, <2>2 DEF FailTask, NotRunning, queueVars
<1> QED
  BY <1>1, <1>2, <1>3, <1>4, <1>5, StepCases
     DEF StartRange, AddTasks, DispatchAcquire, NoIdleWorker, NothingToDispatch, RangeDone,
         ReturnCancelled, Receive, HandleResplit, ReplaceTasks, GoroutineReleases,
         GoroutineSends, PoolStep, Cancel, vars, queueVars

\* No task is reported as succeeded unless a vmctl run of it exited with 0.
THEOREM SuccessIsReal == Spec => []SucceededWasMigrated
<1>1. Init => ResultsAreTrue /\ SucceededWasMigrated
  <2> SUFFICES ASSUME Init PROVE ResultsAreTrue /\ SucceededWasMigrated
    OBVIOUS
  <2>1. ToSet(resultCh) = {}
    BY DEF Init, ToSet
  <2> QED
    BY <2>1 DEF Init, QueueInit, PoolInit, ResultsAreTrue, SucceededWasMigrated, NoResult
<1>2. DispatchTypeOK /\ OnePlace /\ OneOwner /\ ResultsAreTrue /\ SucceededWasMigrated
        /\ [Next]_vars => ResultsAreTrue' /\ SucceededWasMigrated'
  <2> SUFFICES ASSUME DispatchTypeOK, OnePlace, OneOwner, ResultsAreTrue,
                      SucceededWasMigrated, [Next]_vars
               PROVE  ResultsAreTrue' /\ SucceededWasMigrated'
    OBVIOUS
  <2>1. \A t \in TaskIds : exitedOK[t] > 0 => exitedOK'[t] > 0
    <3>1. exitedOK' = exitedOK \/ \A t \in TaskIds : exitedOK'[t] >= exitedOK[t]
      BY StepCases, PoolStepCounts
         DEF StartRange, DispatchAcquire, NoIdleWorker, DispatchTo, NothingToDispatch,
             RangeDone, ReturnCancelled, Receive, HandleSuccess, HandleFailure,
             HandleResplit, Handled, GoroutineReleases, GoroutineSends, Cancel, vars, poolVars
    <3>2. exitedOK \in [TaskIds -> Nat] /\ exitedOK' \in [TaskIds -> Nat]
      BY TypeStep DEF DispatchTypeOK
    <3> QED
      BY <3>1, <3>2
  <2>2. \A t \in TaskIds : status'[t] = "succeeded" => exitedOK[t] > 0
    BY SuccessStep DEF SucceededWasMigrated, ResultsAreTrue
  <2>3. SucceededWasMigrated'
    BY <2>1, <2>2 DEF SucceededWasMigrated
  <2> QED
    BY <2>3, ResultsAreTrueStep
<1>3. Spec => []OnePlace
  BY DispatchUsesQueue, TaskInOnePlace, PTL
<1> QED
  BY <1>1, <1>2, <1>3, DispatchTypes, RunningTasksAreOwned, PTL DEF Spec

-----------------------------------------------------------------------------
(* The two busy flags.                                                      *)

\* While no call is lost a worker is busy only for a call that still waits.
ServesItsCall ==
  ~lost =>
    \A w \in Worker : server[w] # Idle => \E c \in calls : c.worker = w /\ c.pc = "running"

LEMMA ServesItsCallStep ==
  DispatchTypeOK /\ NoWorkerLeak /\ ServesItsCall /\ [Next]_vars => ServesItsCall'
<1> SUFFICES ASSUME DispatchTypeOK, NoWorkerLeak, ServesItsCall, [Next]_vars,
                    ~lost'
             PROVE  \A w \in Worker : server'[w] # Idle =>
                      \E c \in calls' : c.worker = w /\ c.pc = "running"
  BY DEF ServesItsCall
<1> DEFINE Served(w) == \E c \in calls : c.worker = w /\ c.pc = "running"
<1>1. CASE UNCHANGED <<calls, server, lost>>
  BY <1>1 DEF ServesItsCall
<1>2. ASSUME ~lost PROVE \A w \in Worker : server[w] # Idle => Served(w)
  BY <1>2 DEF ServesItsCall
<1>3. ASSUME NEW t \in TaskIds, DispatchTo(t) PROVE ServesItsCall'
  BY <1>2, <1>3 DEF DispatchTo, DispatchTask, ServesItsCall
<1>4. ASSUME NEW c \in calls, NEW r \in Result, GoroutineReleases(c, r) PROVE ServesItsCall'
  <2>1. /\ ~lost /\ c.pc = "replied" /\ calls' = calls \ {c} /\ server' = server
    BY <1>4 DEF GoroutineReleases, DispatchTaskReturns
  <2> QED
    BY <1>2, <2>1 DEF ServesItsCall
<1>5. ASSUME NEW c \in calls, NEW q, NEW x, Advance(c, q, x), ~lost,
             server' = [server EXCEPT ![c.worker] = IF q = "running" THEN c.task ELSE Idle]
             \/ (server' = server /\ c.pc # "running")
      PROVE  ServesItsCall'
  <2> DEFINE new == [c EXCEPT !.pc = q, !.res = x]
  <2>1. calls' = (calls \ {c}) \union {new}
    BY <1>5 DEF Advance
  <2>2. new.worker = c.worker /\ new.pc = q
    BY DEF DispatchTypeOK, Call
  <2> HIDE DEF new
  <2>3. SUFFICES ASSUME NEW w \in Worker, server'[w] # Idle
                 PROVE  \E d \in calls' : d.worker = w /\ d.pc = "running"
    BY DEF ServesItsCall
  <2>4. CASE w = c.worker /\ server' # server
    <3>1. q = "running"
      BY <1>5, <2>3, <2>4 DEF DispatchTypeOK
    <3> QED
      BY <2>1, <2>2, <2>4, <3>1
  <2>5. CASE server'[w] = server[w]
    <3>1. PICK d \in calls : d.worker = w /\ d.pc = "running"
      BY <1>2, <1>5, <2>3, <2>5
    <3>2. CASE d # c
      BY <2>1, <3>1, <3>2
    <3>3. CASE d = c
      <4>1. q = "running"
        BY <1>5, <2>3, <3>1, <3>3 DEF DispatchTypeOK
      <4> QED
        BY <2>1, <2>2, <3>1, <3>3, <4>1
    <3> QED
      BY <3>2, <3>3
  <2> QED
    BY <1>5, <2>4, <2>5 DEF DispatchTypeOK
<1>6. ASSUME NEW c \in calls, PoolStep(Admit(c)) PROVE ServesItsCall'
  BY <1>5, <1>6 DEF PoolStep, Admit
<1>7. ASSUME NEW c \in calls, PoolStep(RejectBusy(c)) PROVE ServesItsCall'
  BY <1>5, <1>7 DEF PoolStep, RejectBusy
<1>8. ASSUME NEW c \in calls, NEW r \in ExitResult, PoolStep(ExecuteReturns(c, r))
      PROVE  ServesItsCall'
  BY <1>5, <1>8 DEF PoolStep, ExecuteReturns
<1>9. ASSUME NEW w \in Worker, NEW r \in {"ok", "fail"}, PoolStep(OrphanExits(w, r))
      PROVE  FALSE
  BY <1>2, <1>9 DEF PoolStep, OrphanExits
<1> QED
  BY <1>1, <1>3, <1>4, <1>6, <1>7, <1>8, <1>9, StepCases
     DEF ServesItsCall, StartRange, DispatchAcquire, NoIdleWorker, NothingToDispatch,
         RangeDone, ReturnCancelled, Receive, HandleSuccess, HandleFailure, HandleResplit,
         Handled, GoroutineSends, Cancel, vars, poolVars

\* While no call is lost the coordinator never sends a task to a busy worker.
THEOREM NoTaskIsRefused == Spec => []NoRefusal
<1>1. Init => ServesItsCall
  BY DEF Init, PoolInit, ServesItsCall
<1>2. NoWorkerLeak /\ ServesItsCall /\ DispatchTypeOK => NoRefusal
  BY DEF NoWorkerLeak, ServesItsCall, NoRefusal, DispatchTypeOK, Call
<1> QED
  BY <1>1, <1>2, ServesItsCallStep, DispatchTypes, WorkersAreAccountedFor, PTL DEF Spec

-----------------------------------------------------------------------------
(* No success is dropped or earned twice.                                   *)

\* A result "ok" for t is on its way to the loop.
OkAt(t) ==
  \/ \E c \in calls : c.task = t /\ c.res = "ok"
  \/ \E s \in senders : s.task = t /\ s.res = "ok"
  \/ \E r \in ToSet(resultCh) : r.task = t /\ r.res = "ok"
  \/ current.task = t /\ current.res = "ok"

Unanswered == \A c \in calls : c.pc # "replied" => c.res = "none"

Conserved ==
  ~lost => \A t \in TaskIds :
             /\ exitedOK[t] <= 1
             /\ exitedOK[t] = 1 <=> status[t] = "succeeded" \/ OkAt(t)

LEMMA OkAtLemma ==
  ASSUME DispatchTypeOK, NEW t \in TaskIds
  PROVE  OkAt(t) <=> OKResults(t) # {}
<1> DEFINE ok == [task |-> t, res |-> "ok"]
<1>1. \A x \in TaskResult : x = ok <=> x.task = t /\ x.res = "ok"
  BY DEF TaskResult
<1>2. \A s \in senders : s \in TaskResult
  BY DEF DispatchTypeOK
<1>3. \A r \in ToSet(resultCh) : r \in TaskResult
  BY EmptyToSet DEF DispatchTypeOK
<1>4. current = ok <=> current.task = t /\ current.res = "ok"
  BY <1>1 DEF DispatchTypeOK, NoResult
<1> QED
  BY <1>1, <1>2, <1>3, <1>4 DEF OkAt, OKResults

LEMMA UnansweredStep == DispatchTypeOK /\ Unanswered /\ [Next]_vars => Unanswered'
<1> SUFFICES ASSUME DispatchTypeOK, Unanswered, [Next]_vars PROVE Unanswered'
  OBVIOUS
<1>1. CASE \E c \in calls, r \in Result : GoroutineReleases(c, r)
  BY <1>1 DEF GoroutineReleases, DispatchTaskReturns, Unanswered
<1>2. CASE \E t \in TaskIds : DispatchTo(t)
  BY <1>2 DEF DispatchTo, DispatchTask, Unanswered
<1>3. ASSUME NEW c \in calls, NEW q, NEW x, Advance(c, q, x), q = "replied" \/ x = "none"
      PROVE  Unanswered'
  <2>1. c \in Call
    BY DEF DispatchTypeOK
  <2> QED
    BY <1>3, <2>1 DEF Advance, Unanswered, Call
<1>4. CASE calls' = calls
  BY <1>4 DEF Unanswered
<1> QED
  BY <1>1, <1>2, <1>3, <1>4, StepCases
     DEF StartRange, DispatchAcquire, NoIdleWorker, NothingToDispatch, RangeDone,
         ReturnCancelled, Receive, HandleSuccess, HandleFailure, HandleResplit, Handled,
         GoroutineSends, PoolStep, Admit, RejectBusy, ExecuteReturns, OrphanExits, Cancel,
         vars, poolVars

\* A step that neither ends a task well nor touches a result keeps the balance.
LEMMA SameBalance ==
  ASSUME Conserved, lost' = lost, exitedOK' = exitedOK,
         \A t \in TaskIds : status'[t] = "succeeded" <=> status[t] = "succeeded",
         \A t \in TaskIds : OkAt(t)' <=> OkAt(t)
  PROVE  Conserved'
BY DEF Conserved

\* An answer moves to the next place on its way to the loop.
LEMMA ConservedStep ==
  DispatchTypeOK /\ OnePlace /\ OneOwner /\ QuietBetweenRanges /\ ServesItsCall
    /\ Unanswered /\ Conserved /\ [Next]_vars => Conserved'
<1> SUFFICES ASSUME DispatchTypeOK, OnePlace, OneOwner, QuietBetweenRanges, ServesItsCall,
                    Unanswered, Conserved, [Next]_vars, ~lost'
             PROVE  Conserved'
  BY DEF Conserved
<1>t. /\ QueueTypeOK /\ status \in [TaskIds -> Status] /\ exitedOK \in [TaskIds -> Nat]
      /\ \A c \in calls : c \in Call /\ c.task \in TaskIds
  BY DEF DispatchTypeOK, QueueTypeOK, Call
<1>s. \A t \in TaskIds : status[t] = "succeeded" => status'[t] = "succeeded"
  BY <1>t, QueueStep, FinishedStep DEF Finished
<1>u. \A t \in TaskIds : status'[t] = "succeeded" =>
        status[t] = "succeeded" \/ (t = current.task /\ current.res = "ok")
  BY SuccessStep
<1>1. CASE UNCHANGED <<calls, senders, resultCh, current, exitedOK, status, lost>>
  BY <1>1 DEF Conserved, OkAt
<1>2. ASSUME NEW n \in 1..MaxBatch, StartRange(n) PROVE Conserved'
  <2>1. resultCh = <<>> /\ resultCh' = <<>> /\ current.res # "ok"
    BY <1>2 DEF StartRange, QuietBetweenRanges, DispatchTypeOK, NoResult
  <2> QED
    BY <1>2, <1>s, <1>u, <2>1, SameBalance DEF StartRange, poolVars, OkAt
<1>3. ASSUME NEW t \in TaskIds, DispatchTo(t) PROVE Conserved'
  <2>1. current.res # "ok"
    BY <1>3 DEF DispatchTo, DispatchTypeOK, NoResult
  <2> DEFINE new == [task |-> t, worker |-> held, pc |-> "sent", res |-> "none"]
  <2>2. new.res # "ok" /\ calls' = calls \union {new}
    BY <1>3 DEF DispatchTo, DispatchTask
  <2> HIDE DEF new
  <2> QED
    BY <1>3, <1>s, <1>u, <2>1, <2>2, SameBalance DEF DispatchTo, OkAt
<1>4. CASE Receive
  <2>1. ToSet(resultCh) = {Head(resultCh)} \union ToSet(Tail(resultCh))
    BY <1>4, TailLemma DEF Receive, DispatchTypeOK, OneOwner
  <2>2. current.res # "ok" /\ status' = status
    BY <1>4 DEF Receive, DispatchTypeOK, NoResult, queueVars
  <2> QED
    BY <1>4, <2>1, <2>2, SameBalance DEF Receive, poolVars, OkAt
<1>5. CASE HandleSuccess
  <2>1. /\ current.task \in running /\ current.task \in TaskIds /\ current.res = "ok"
        /\ status' = [status EXCEPT ![current.task] = "succeeded"]
    BY <1>5 DEF HandleSuccess, CompleteTask, CompleteRunning, NotRunning, OneOwner, Handling,
                DispatchTypeOK, TaskResult
  <2>2. /\ current'.res # "ok"
        /\ UNCHANGED <<calls, senders, resultCh, exitedOK, lost>>
    BY <1>5 DEF HandleSuccess, Handled, NoResult, poolVars
  <2>3. ASSUME NEW t \in TaskIds PROVE exitedOK[t] = 1 <=> status'[t] = "succeeded" \/ OkAt(t)'
    <3>1. CASE t = current.task
      BY <1>t, <2>1, <2>2, <3>1 DEF Conserved, OkAt
    <3>2. CASE t # current.task
      BY <1>t, <2>1, <2>2, <3>2 DEF Conserved, OkAt
    <3> QED
      BY <3>1, <3>2
  <2> QED
    BY <2>2, <2>3 DEF Conserved
<1>6. ASSUME pc = "handle", current.res # "ok", Handled("acquire") PROVE Conserved'
  <2>1. current.res # "ok" /\ current'.res # "ok"
    BY <1>6 DEF Handled, NoResult
  <2> QED
    BY <1>6, <1>s, <1>u, <2>1, SameBalance DEF Handled, poolVars, OkAt
<1>7. ASSUME NEW c \in calls, NEW r \in Result, GoroutineReleases(c, r) PROVE Conserved'
  <2>1. r = c.res
    BY <1>7 DEF GoroutineReleases, DispatchTaskReturns
  <2> DEFINE new == [task |-> c.task, res |-> c.res]
  <2>2. /\ calls' = calls \ {c} /\ senders' = senders \union {new}
        /\ new.task = c.task /\ new.res = c.res
        /\ UNCHANGED <<resultCh, current, exitedOK, status, lost>>
    BY <1>7, <2>1 DEF GoroutineReleases, DispatchTaskReturns, queueVars
  <2> HIDE DEF new
  <2>3. \A t \in TaskIds : OkAt(t)' <=> OkAt(t)
    BY <2>2 DEF OkAt
  <2> QED
    BY <2>2, <2>3, SameBalance
<1>8. ASSUME NEW s \in senders, GoroutineSends(s) PROVE Conserved'
  <2>1. ToSet(resultCh') = ToSet(resultCh) \union {s}
    BY <1>8, AppendLemma DEF GoroutineSends, DispatchTypeOK
  <2>2. /\ senders' = senders \ {s}
        /\ UNCHANGED <<calls, current, exitedOK, status, lost>>
    BY <1>8 DEF GoroutineSends, queueVars, poolVars
  <2>3. \A t \in TaskIds : OkAt(t)' <=> OkAt(t)
    BY <2>1, <2>2 DEF OkAt
  <2> QED
    BY <2>2, <2>3, SameBalance
<1>9. ASSUME NEW c \in calls, NEW q, NEW x, Advance(c, q, x), c.pc # "replied",
             UNCHANGED <<lost, queueVars, loopVars>>
      PROVE  /\ UNCHANGED <<senders, resultCh, current, status, lost>>
             /\ x # "ok" => \A t \in TaskIds : OkAt(t)' <=> OkAt(t)
             /\ x = "ok" => /\ OkAt(c.task)'
                            /\ \A t \in TaskIds \ {c.task} : OkAt(t)' <=> OkAt(t)
  <2> DEFINE new == [c EXCEPT !.pc = q, !.res = x]
  <2>1. calls' = (calls \ {c}) \union {new} /\ new.task = c.task /\ new.res = x
    BY <1>9, <1>t DEF Advance, Call
  <2>2. c.res # "ok"
    BY <1>9 DEF Unanswered
  <2>3. UNCHANGED <<senders, resultCh, current, status, lost>>
    BY <1>9 DEF queueVars, loopVars
  <2> HIDE DEF new
  <2> QED
    BY <2>1, <2>2, <2>3 DEF OkAt
<1>10. CASE (\E c \in calls : PoolStep(Admit(c))) \/ (\E c \in calls : PoolStep(RejectBusy(c)))
  <2>1. PICK c \in calls : /\ c.pc # "replied"
                          /\ \E x \in {"none", "err"}, q \in {"running", "replied"} :
                               Advance(c, q, x)
    BY <1>10 DEF PoolStep, Admit, RejectBusy
  <2>2. UNCHANGED <<lost, exitedOK, queueVars, loopVars>>
    BY <1>10 DEF PoolStep, Admit, RejectBusy
  <2> QED
    BY <1>9, <2>1, <2>2, SameBalance
<1>11. ASSUME NEW c \in calls, NEW r \in ExitResult, PoolStep(ExecuteReturns(c, r))
       PROVE  Conserved'
  <2>1. /\ Advance(c, "replied", r) /\ c.pc # "replied" /\ CountExit(c.task, r)
        /\ UNCHANGED <<lost, queueVars, loopVars>>
    BY <1>11 DEF PoolStep, ExecuteReturns
  <2>2. CASE r # "ok"
    BY <1>9, <2>1, <2>2, SameBalance DEF CountExit
  <2>3. CASE r = "ok"
    <3>1. exitedOK' = [exitedOK EXCEPT ![c.task] = exitedOK[c.task] + 1]
      BY <2>1, <2>3 DEF CountExit
    <3>2. status[c.task] # "succeeded"
      <4>1. c.task \in running
        BY DEF OneOwner, Called
      <4> QED
        BY <1>t, <4>1 DEF OnePlace
    <3>3. ~OkAt(c.task)
      <4>1. c.task \notin Handling \union Sending \union Buffered
        BY DEF OneOwner, Called
      <4>2. \A d \in calls : d.task = c.task => d.res # "ok"
        BY <2>1 DEF OneOwner, Unanswered
      <4>3. current.res = "ok" => pc = "handle"
        BY DEF DispatchTypeOK, NoResult
      <4> QED
        BY <4>1, <4>2, <4>3 DEF OkAt, Handling, Sending, Buffered
    <3>4. exitedOK[c.task] = 0
      BY <1>t, <2>1, <3>2, <3>3 DEF Conserved
    <3>5. OkAt(c.task)' /\ \A t \in TaskIds \ {c.task} : OkAt(t)' <=> OkAt(t)
      BY <1>9, <2>1, <2>3
    <3>6. status' = status /\ lost' = lost
      BY <2>1 DEF queueVars
    <3> QED
      BY <1>t, <3>1, <3>4, <3>5, <3>6 DEF Conserved
  <2> QED
    BY <2>2, <2>3
<1>12. ASSUME NEW w \in Worker, NEW r \in {"ok", "fail"}, PoolStep(OrphanExits(w, r))
       PROVE  FALSE
  BY <1>12 DEF PoolStep, OrphanExits, ServesItsCall
<1> QED
  BY <1>1, <1>2, <1>3, <1>4, <1>5, <1>6, <1>7, <1>8, <1>10, <1>11, <1>12, StepCases
     DEF DispatchAcquire, NoIdleWorker, NothingToDispatch, RangeDone, ReturnCancelled,
         HandleFailure, HandleResplit, Cancel, vars, queueVars, poolVars, loopVars

\* While no call is lost, every vmctl run that exited with 0 is one completed
\* task or one result on its way to become one, and no task is migrated twice.
THEOREM SuccessIsConserved == Spec => []SuccessConserved
<1>1. Init => Unanswered /\ Conserved /\ ServesItsCall
  <2> SUFFICES ASSUME Init PROVE Unanswered /\ Conserved /\ ServesItsCall
    OBVIOUS
  <2>1. ToSet(resultCh) = {}
    BY DEF Init, ToSet
  <2> QED
    BY <2>1 DEF Init, QueueInit, PoolInit, Unanswered, Conserved, OkAt, ServesItsCall, NoResult
<1>2. DispatchTypeOK /\ Conserved => SuccessConserved
  BY OkAtLemma DEF Conserved, SuccessConserved
<1>3. Spec => []OnePlace
  BY DispatchUsesQueue, TaskInOnePlace, PTL
<1> QED
  BY <1>1, <1>2, <1>3, UnansweredStep, ConservedStep, ServesItsCallStep, DispatchTypes,
     WorkersAreAccountedFor, RunningTasksAreOwned, NothingLeftBetweenRanges, PTL DEF Spec

-----------------------------------------------------------------------------
(* Work runs out, and executeTasks implements Execution.                    *)

\* While a range is executed the queue is only used for running tasks, and only
\* a task that was not split is replaced.
LEMMA QueueWork ==
  ASSUME DispatchTypeOK, OneOwner, [Next]_vars, pc # "between"
  PROVE  \/ UNCHANGED queueVars
         \/ /\ {pc, pc'} \intersect {"between", "failed"} = {}
            /\ \/ \E t \in TaskIds : NextTask(t) \/ CompleteRunning(t) \/ FailRunning(t)
               \/ \E t \in running, n \in 2..MaxBatch :
                    ~splitAttempted[t] /\ ReplaceTasks(t, n)
<1>1. pc = "handle" => current.task \in TaskIds /\ current.task \in running
  BY DEF OneOwner, Handling, DispatchTypeOK, TaskResult
<1>2. CASE HandleSuccess
  BY <1>1, <1>2 DEF HandleSuccess, CompleteTask, NotRunning, Handled
<1>3. CASE HandleFailure
  BY <1>1, <1>3 DEF HandleFailure, FailTask, NotRunning, Handled
<1>4. ASSUME NEW n \in 2..MaxBatch, HandleResplit(n)
      PROVE  /\ pc = "handle" /\ pc' = "acquire"
             /\ ~splitAttempted[current.task] /\ ReplaceTasks(current.task, n)
  BY <1>4 DEF HandleResplit, Handled
<1>5. ASSUME NEW t \in TaskIds, DispatchTo(t)
      PROVE  pc = "next" /\ pc' = "acquire" /\ NextTask(t)
  BY <1>5 DEF DispatchTo
<1>6. CASE UNCHANGED queueVars
  BY <1>6
<1> QED
  BY <1>1, <1>2, <1>3, <1>4, <1>5, <1>6, StepCases
     DEF StartRange, DispatchAcquire, NoIdleWorker, NothingToDispatch, RangeDone, ReturnCancelled,
         Receive, GoroutineReleases, GoroutineSends, PoolStep, Cancel, vars

\* The invariants that the two theorems rest on.
LEMMA UseOfQueue ==
  Spec => [](DispatchTypeOK /\ OnePlace /\ RetryDiscipline /\ OwnerInv)
BY DispatchTypes, DispatchUsesQueue, TaskInOnePlace, RetriesAreCounted, OwnerInvHolds, PTL

\* Whatever executeTasks does to the queue leaves it less to do.
THEOREM WorkAlwaysRunsOut == Spec => WorkRunsOut
<1>1. ASSUME DispatchTypeOK, DispatchTypeOK', OnePlace, RetryDiscipline, OwnerInv, [Next]_vars
      PROVE  [pc # "between" => LessWork]_queueVars
  <2> SUFFICES ASSUME pc # "between", ~UNCHANGED queueVars PROVE LessWork
    OBVIOUS
  <2>1. QueueTypeOK /\ QueueTypeOK' /\ OneOwner
    BY <1>1 DEF DispatchTypeOK, OwnerInv
  <2>2. ASSUME NEW t \in TaskIds, NextTask(t) \/ CompleteRunning(t) \/ FailRunning(t)
        PROVE  LessWork
    BY <1>1, <2>1, <2>2, NextTaskLessWork, CompleteLessWork, FailLessWork
  <2>3. ASSUME NEW t \in running, NEW n \in 2..MaxBatch, ~splitAttempted[t], ReplaceTasks(t, n)
        PROVE  LessWork
    <3>1. n \in 1..MaxBatch
      OBVIOUS
    <3> QED
      BY <1>1, <2>1, <2>3, <3>1, ReplaceLessWork
  <2> QED
    BY <1>1, <2>1, <2>2, <2>3, QueueWork
<1> QED
  BY <1>1, UseOfQueue, DispatchTypes, PTL DEF Spec, WorkRunsOut

LEMMA ExecutionInitRefined == Init => Exec!ExecInit
BY LifeInitRefined DEF Init, QueueInit, Exec!ExecInit, Exec!LifeInit, Life!LifeInit, IsPart

LEMMA ExecutionStepRefined ==
  ASSUME DispatchTypeOK, OnePlace, RetryDiscipline, OwnerInv, [Next]_vars
  PROVE  [Exec!ExecNext]_(Exec!execVars)
<1>q. QueueTypeOK /\ OneOwner /\ IdleBetween
  BY DEF DispatchTypeOK, OwnerInv
<1>1. ASSUME NEW n \in 1..MaxBatch, StartRange(n) PROVE Exec!ExecNext
  <2>1. /\ AppendTasks(n, FALSE) /\ running' = running
        /\ pc = "between" /\ pc' = "acquire" /\ IsComplete
    BY <1>q, <1>1 DEF StartRange, AddTasks, IdleBetween
  <2>2. \A t \in TaskIds : IsPart(t)' = IsPart(t)
    BY <1>q, <2>1, AppendParts DEF IsPart
  <2>3. Exec!Resolved
    BY <1>q, <2>1, IdleIsResolved DEF Exec!Resolved
  <2>4. Exec!Create(NewTasks(n)) /\ NewTasks(n) \in SUBSET TaskIds
    BY <1>q, <2>1, AppendIsCreate, AppendIsBirth DEF Exec!Create, Life!Create
  <2>5. Exec!BeginRange(NewTasks(n))
    BY <2>1, <2>2, <2>3, <2>4 DEF Exec!BeginRange
  <2> QED
    BY <2>4, <2>5 DEF Exec!ExecNext
<1>2. CASE UNCHANGED queueVars
  <2>1. \A t \in TaskIds : /\ TaskPhase(t)' = TaskPhase(t)
                           /\ TaskStarts(t)' = TaskStarts(t)
                           /\ IsPart(t)' = IsPart(t)
    BY <1>2, SamePhase, SameStarts DEF queueVars, IsPart
  <2>2. CASE pc' = pc
    BY <2>1, <2>2 DEF Exec!execVars
  <2>3. CASE RangeDone
    <3>1. IsComplete /\ pc = "loop" /\ pc' = "between"
      BY <2>3 DEF RangeDone
    <3>2. Exec!Resolved
      BY <1>q, <3>1, IdleIsResolved DEF Exec!Resolved
    <3>3. Exec!EndRange
      BY <2>1, <3>1, <3>2 DEF Exec!EndRange
    <3> QED
      BY <3>3 DEF Exec!ExecNext
  <2>4. CASE ReturnCancelled
    <3>1. Exec!Stop
      BY <2>1, <2>4 DEF ReturnCancelled, Exec!Stop
    <3> QED
      BY <3>1 DEF Exec!ExecNext
  <2>5. CASE pc \notin {"between", "failed"} /\ pc' \notin {"between", "failed"}
    BY <2>1, <2>5 DEF Exec!execVars
  <2>6. ASSUME NEW n \in 1..MaxBatch, StartRange(n) PROVE Exec!ExecNext
    BY <1>1, <2>6
  <2> QED
    BY <2>2, <2>3, <2>4, <2>5, <2>6, StepCases
       DEF DispatchAcquire, NoIdleWorker, DispatchTo, NothingToDispatch, Receive, HandleSuccess,
           HandleFailure, HandleResplit, Handled, GoroutineReleases, GoroutineSends, PoolStep,
           Cancel, loopVars, vars
<1>3. ASSUME NEW t \in TaskIds, NextTask(t) \/ CompleteRunning(t) \/ FailRunning(t),
             {pc, pc'} \intersect {"between", "failed"} = {}
      PROVE  Exec!ExecNext
  <2>1. Exec!Start(t) \/ Exec!Succeed(t) \/ Exec!Retry(t) \/ Exec!GiveUp(t)
    BY <1>q, <1>3, NextIsStart, CompleteIsSucceed, FailIsRetryOrGiveUp
       DEF Exec!Start, Life!Start, Exec!Succeed, Life!Succeed, Exec!Retry, Life!Retry,
           Exec!GiveUp, Life!GiveUp, Exec!End, Life!End, Exec!Allowed, Life!Allowed
  <2>2. \A s \in TaskIds : IsPart(s)' = IsPart(s)
    BY <1>q, <1>3, RunKeepsParts
  <2>3. Exec!RunTask(t)
    BY <1>3, <2>1, <2>2 DEF Exec!RunTask
  <2> QED
    BY <2>3 DEF Exec!ExecNext
<1>4. ASSUME NEW t \in running, NEW n \in 2..MaxBatch, ~splitAttempted[t], ReplaceTasks(t, n),
             {pc, pc'} \intersect {"between", "failed"} = {}
      PROVE  Exec!ExecNext
  <2>1. AppendTasks(n, TRUE) /\ t \in TaskIds
    BY <1>q, <1>4 DEF ReplaceTasks, QueueTypeOK
  <2>2. \A s \in TaskIds : IsPart(s)' = (s \in NewTasks(n) \/ IsPart(s))
    BY <1>q, <2>1, AppendParts
  <2>3. Exec!Split(t, NewTasks(n)) /\ NewTasks(n) \in SUBSET TaskIds
    BY <1>q, <1>4, <2>1, ReplaceIsSplit, AppendIsBirth DEF Exec!Split, Life!Split
  <2>4. created + 1 \in NewTasks(n) /\ created + 2 \in NewTasks(n) /\ created + 1 # created + 2
    BY <1>q DEF NewTasks, QueueTypeOK
  <2>5. ~IsPart(t)
    BY <1>4 DEF IsPart
  <2>6. Exec!SplitTask(t, NewTasks(n))
    BY <1>4, <2>1, <2>2, <2>3, <2>4, <2>5 DEF Exec!SplitTask
  <2> QED
    BY <2>1, <2>3, <2>6 DEF Exec!ExecNext
<1>5. CASE pc = "between"
  BY <1>1, <1>2, <1>5, StepCases
     DEF DispatchAcquire, NoIdleWorker, DispatchTo, NothingToDispatch, RangeDone, ReturnCancelled,
         Receive, HandleSuccess, HandleFailure, HandleResplit, GoroutineReleases, GoroutineSends,
         PoolStep, Cancel, vars
<1> QED
  BY <1>q, <1>2, <1>3, <1>4, <1>5, QueueWork

\* executeTasks does to tasks what Execution allows: nothing before a range
\* begins, and nil is returned only when every task is resolved.
THEOREM DispatchImplementsExecution == Spec => ImplementsExecution
<1>1. DispatchTypeOK /\ OnePlace /\ RetryDiscipline /\ OwnerInv /\ [Next]_vars
        => [Exec!ExecNext]_(Exec!execVars)
  BY ExecutionStepRefined
<1> QED
  BY <1>1, ExecutionInitRefined, UseOfQueue, PTL DEF Spec, ImplementsExecution, Exec!ExecSpec
=============================================================================
