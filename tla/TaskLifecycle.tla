---------------------------- MODULE TaskLifecycle ----------------------------
(***************************************************************************)
(* What the migrator promises about one migration task, whatever the       *)
(* queue, the dispatch loop and the workers do: a task is born once, is    *)
(* started at most Allowed times, and ends in exactly one of three ways -  *)
(* it succeeds, it is abandoned after its last allowed start, or it is     *)
(* split and its sub-tasks take over.  An ended task never moves again.    *)
(*                                                                         *)
(* TaskQueue (internal/scheduler/task.go) is shown to implement it.        *)
(***************************************************************************)
EXTENDS Integers

CONSTANTS
  Task,        \* task identities
  MaxRetries   \* config retry.max_retries

VARIABLES
  phase,       \* phase[t]: "unborn", "waiting", "active", "succeeded", "abandoned", "split"
  starts       \* starts[t]: how many times t was handed to a worker

lifeVars == <<phase, starts>>

\* The starts that FailTask allows: the first counts against max_retries, and a
\* task is always started once, even when max_retries is 1 or negative.
Allowed == IF MaxRetries >= 1 THEN MaxRetries ELSE 1

LifeInit ==
  /\ phase = [t \in Task |-> "unborn"]
  /\ starts = [t \in Task |-> 0]

\* A non-empty set S of unborn tasks becomes runnable.
Create(S) ==
  /\ S # {}
  /\ \A t \in S : phase[t] = "unborn"
  /\ phase' = [t \in Task |-> IF t \in S THEN "waiting" ELSE phase[t]]
  /\ UNCHANGED starts

Start(t) ==
  /\ phase[t] = "waiting"
  /\ starts[t] < Allowed
  /\ phase' = [phase EXCEPT ![t] = "active"]
  /\ starts' = [starts EXCEPT ![t] = @ + 1]

End(t, outcome) ==
  /\ phase[t] = "active"
  /\ phase' = [phase EXCEPT ![t] = outcome]
  /\ UNCHANGED starts

Succeed(t) == End(t, "succeeded")
Retry(t)   == starts[t] < Allowed /\ End(t, "waiting")
GiveUp(t)  == starts[t] = Allowed /\ End(t, "abandoned")

\* t ends and the sub-tasks S are born in the same step: the work of a split
\* task is never without an owner.
Split(t, S) ==
  /\ phase[t] = "active"
  /\ S # {}
  /\ \A s \in S : phase[s] = "unborn"
  /\ phase' = [s \in Task |-> IF s = t THEN "split"
                              ELSE IF s \in S THEN "waiting" ELSE phase[s]]
  /\ UNCHANGED starts

LifeNext ==
  \/ \E S \in SUBSET Task : Create(S)
  \/ \E t \in Task : Start(t) \/ Succeed(t) \/ Retry(t) \/ GiveUp(t)
  \/ \E t \in Task, S \in SUBSET Task : Split(t, S)

LifeSpec == LifeInit /\ [][LifeNext]_lifeVars
=============================================================================
