------------------------------ MODULE Execution ------------------------------
(***************************************************************************)
(* What Run and executeTasks (internal/orchestrator/orchestrator.go)       *)
(* promise each other about the tasks of a migration: a range begins when  *)
(* nothing is left to do, and ends when nothing is; only in between do     *)
(* tasks run, and a task is split at most once, into at least two tasks    *)
(* that are not split again.                                               *)
(*                                                                         *)
(* Dispatch, which shows executeTasks from inside, is shown to implement   *)
(* it, and so is Migration, which sees executeTasks from outside.          *)
(***************************************************************************)
EXTENDS TaskLifecycle

VARIABLES
  part,  \* part[t]: t is a part of a task that was split
  mode   \* what the process does, see Mode

execVars == <<phase, starts, part, mode>>

\* "stopped": there is no process, or it executes no further task; "planning":
\* a dry run; "idle": between two ranges.
Mode == {"stopped", "planning", "idle", "executing"}

Resolved == \A t \in Task : phase[t] \notin {"waiting", "active"}

ExecInit ==
  /\ LifeInit
  /\ part = [t \in Task |-> FALSE]
  /\ mode \in {"stopped", "idle"}

\* A process starts, without a task.
Boot ==
  /\ mode = "stopped"
  /\ phase' = [t \in Task |-> "unborn"]
  /\ starts' = [t \in Task |-> 0]
  /\ part' = [t \in Task |-> FALSE]
  /\ mode' \in {"planning", "idle"}

\* A dry run lists the tasks of a range.
List(S) ==
  /\ mode = "planning"
  /\ Create(S)
  /\ UNCHANGED <<part, mode>>

BeginRange(S) ==
  /\ mode = "idle"
  /\ Resolved
  /\ Create(S)
  /\ mode' = "executing"
  /\ UNCHANGED part

RunTask(t) ==
  /\ mode = "executing"
  /\ Start(t) \/ Succeed(t) \/ Retry(t) \/ GiveUp(t)
  /\ UNCHANGED <<part, mode>>

SplitTask(t, S) ==
  /\ mode = "executing"
  /\ ~part[t]
  /\ \E r, s \in S : r # s
  /\ Split(t, S)
  /\ part' = [s \in Task |-> s \in S \/ part[s]]
  /\ UNCHANGED mode

EndRange ==
  /\ mode = "executing"
  /\ Resolved
  /\ mode' = "idle"
  /\ UNCHANGED <<phase, starts, part>>

\* The process is cancelled, fails, crashes or is done.
Stop ==
  /\ mode # "stopped"
  /\ mode' = "stopped"
  /\ UNCHANGED <<phase, starts, part>>

ExecNext ==
  \/ Boot
  \/ \E S \in SUBSET Task : List(S) \/ BeginRange(S)
  \/ \E t \in Task : RunTask(t)
  \/ \E t \in Task, S \in SUBSET Task : SplitTask(t, S)
  \/ EndRange
  \/ Stop

ExecSpec == ExecInit /\ [][ExecNext]_execVars
=============================================================================
