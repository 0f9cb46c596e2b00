------------------------------ MODULE WorkerPool ------------------------------
(***************************************************************************)
(* The coordinator's view of its workers (worker.Manager,                  *)
(* internal/worker/manager.go), the workers' gRPC servers                  *)
(* (workerserver.Server, internal/workerserver/server.go) and the RPCs     *)
(* between them.  The two sides keep a busy flag each, and only the RPCs   *)
(* keep them in step: the coordinator's flag is set before a request is    *)
(* sent and cleared when the call returns, the worker's covers the time    *)
(* vmctl runs.  A call that is lost returns at once on the coordinator     *)
(* while its vmctl, an orphan now, may run on for a while.                 *)
(*                                                                         *)
(* The module defines the operations; Dispatch composes them with the      *)
(* task queue and the dispatch loop, whose task numbers TaskIds are.       *)
(***************************************************************************)
EXTENDS TaskQueue

CONSTANT NumWorkers  \* len(m.workers): connectToWorkers fails when it is 0

ASSUME PoolAssumption == NumWorkers \in Nat \ {0}

Worker == 1..NumWorkers

\* What a call returns: vmctl exited 0, exited otherwise, exited otherwise
\* with a series limit in its output (isCardinalityRelatedError), or err # nil.
ExitResult == {"ok", "fail", "cardinality"}
Result == ExitResult \union {"err"}

Idle == 0  \* server[w] when no vmctl runs on w

VARIABLES
  busy,       \* {w : workerConn.busy}
  calls,      \* the DispatchTask calls that have not returned
  server,     \* server[w]: the task whose vmctl runs on w (s.busy iff # Idle)
  exitedOK,   \* exitedOK[t]: how many vmctl runs of t have exited with 0
  cancelled,  \* ctx.Done(): SIGINT or SIGTERM reached the coordinator
  lost        \* some call was lost (only for the properties)

poolVars == <<busy, calls, server, exitedOK, cancelled, lost>>

\* pc: the request is on its way, its vmctl runs, or its answer res is on its way.
Call == [task : TaskIds, worker : Worker,
         pc : {"sent", "running", "replied"}, res : Result \union {"none"}]

PoolInit ==
  /\ busy = {}
  /\ calls = {}
  /\ server = [w \in Worker |-> Idle]
  /\ exitedOK = [t \in TaskIds |-> 0]
  /\ cancelled = FALSE
  /\ lost = FALSE

-----------------------------------------------------------------------------
(* Manager: list order decides which idle worker is taken.                  *)

AcquireWorker(w) ==
  /\ w \in Worker \ busy
  /\ \A v \in Worker \ busy : w <= v
  /\ busy' = busy \union {w}

ReleaseWorker(w) == busy' = busy \ {w}

\* DispatchTask sends the request ...
DispatchTask(w, t) ==
  calls' = calls \union {[task |-> t, worker |-> w, pc |-> "sent", res |-> "none"]}

\* ... and returns r, with the worker's answer, or because the call was lost: a
\* broken connection, a dead pod, an answer over gRPC's limit of 4 MB, a signal.
\* A request that is given up before the worker reads it is never read.
DispatchTaskReturns(c, r) ==
  /\ c \in calls
  /\ \/ c.pc = "replied" /\ r = c.res /\ UNCHANGED lost
     \/ r = "err" /\ lost' = TRUE
  /\ calls' = calls \ {c}

-----------------------------------------------------------------------------
(* Server.ExecuteTask: one vmctl at a time, a second request is refused.    *)

Advance(c, pc, res) ==
  calls' = (calls \ {c}) \union {[c EXCEPT !.pc = pc, !.res = res]}

Admit(c) ==
  /\ c \in calls /\ c.pc = "sent"
  /\ server[c.worker] = Idle
  /\ server' = [server EXCEPT ![c.worker] = c.task]
  /\ Advance(c, "running", "none")
  /\ UNCHANGED exitedOK

RejectBusy(c) ==
  /\ c \in calls /\ c.pc = "sent"
  /\ server[c.worker] # Idle
  /\ Advance(c, "replied", "err")
  /\ UNCHANGED <<server, exitedOK>>

CountExit(t, r) ==
  exitedOK' = IF r = "ok" THEN [exitedOK EXCEPT ![t] = @ + 1] ELSE exitedOK

\* Mutants: busy is not cleared when vmctl fails; any exit is taken for a success.
ExecuteReturnsLeaky(c, r) ==
  /\ c \in calls /\ c.pc = "running"
  /\ r \in ExitResult
  /\ server' = IF r = "ok" THEN [server EXCEPT ![c.worker] = Idle] ELSE server
  /\ CountExit(c.task, r)
  /\ Advance(c, "replied", r)

ExecuteReturnsOK(c, r) ==
  /\ c \in calls /\ c.pc = "running"
  /\ r \in ExitResult
  /\ server' = [server EXCEPT ![c.worker] = Idle]
  /\ CountExit(c.task, r)
  /\ Advance(c, "replied", "ok")

\* vmctl exits; the deferred function clears busy before the answer is sent.
ExecuteReturns(c, r) ==
  /\ c \in calls /\ c.pc = "running"
  /\ r \in ExitResult
  /\ server' = [server EXCEPT ![c.worker] = Idle]
  /\ CountExit(c.task, r)
  /\ Advance(c, "replied", r)

\* The vmctl of a lost call is killed through its context, unless it exits
\* first; either way nobody reads the answer.
OrphanExits(w, r) ==
  /\ server[w] # Idle
  /\ ~\E c \in calls : c.worker = w /\ c.pc = "running"
  /\ r \in {"ok", "fail"}
  /\ server' = [server EXCEPT ![w] = Idle]
  /\ CountExit(server[w], r)
  /\ UNCHANGED calls

\* The steps of the workers.
WorkerStep ==
  /\ \/ \E c \in calls : Admit(c) \/ RejectBusy(c)
     \/ \E c \in calls, r \in ExitResult : ExecuteReturns(c, r)
     \/ \E w \in Worker, r \in {"ok", "fail"} : OrphanExits(w, r)
  /\ UNCHANGED <<busy, cancelled, lost>>
=============================================================================
