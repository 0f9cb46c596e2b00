------------------------------- MODULE Tracker -------------------------------
(***************************************************************************)
(* A migration run (Migration) with the progress logger of each range:     *)
(* Tracker.Start and Tracker.Stop (internal/progress/tracker.go), the      *)
(* goroutine Start spawns, and their calls in Orchestrator.Run.            *)
(*                                                                         *)
(* Start replaces t.stopCh and Stop closes it.  The goroutine reads        *)
(* t.stopCh anew on every turn, without the mutex: one that was still      *)
(* logging when the next range began waits on that range's channel.        *)
(***************************************************************************)
EXTENDS Migration

VARIABLES
  stopCh,  \* t.stopCh, as the number of the Start that made it; NewTracker's is 0
  closed,  \* the channels that are closed
  at,      \* at[g]: the goroutine of the g-th Start: see LoggerPC
  on       \* on[g]: the channel its select waits on

trackerVars == <<stopCh, closed, at, on>>

\* "busy": before the select, or in logProgress.
LoggerPC == {"none", "busy", "waiting", "gone"}

NewTracker ==
  /\ stopCh = 0
  /\ closed = {}
  /\ at = [g \in Ranges |-> "none"]
  /\ on = [g \in Ranges |-> 0]

TrackedInit == Init /\ NewTracker

-----------------------------------------------------------------------------
Start ==
  /\ stopCh' = stopCh + 1
  /\ at' = [at EXCEPT ![stopCh'] = "busy"]
  /\ UNCHANGED <<closed, on>>

\* Mutant: the range ends and its logger is not stopped.
StopForgotten == UNCHANGED trackerVars

Stop ==
  /\ closed' = closed \union {stopCh}
  /\ UNCHANGED <<stopCh, at, on>>

\* The end of the process is the end of its goroutines.
NoTracker ==
  /\ stopCh' = 0
  /\ closed' = {}
  /\ at' = [g \in Ranges |-> "none"]
  /\ on' = [g \in Ranges |-> 0]

\* The calls in Run.
Calls ==
  \/ proc' = "off" /\ NoTracker
  \/ proc # "exec" /\ proc' = "exec" /\ Start
  \/ proc = "exec" /\ proc' = "ranges" /\ Stop
  \/ proc' # "off" /\ (proc = proc' \/ "exec" \notin {proc, proc'}) /\ UNCHANGED trackerVars

-----------------------------------------------------------------------------
(* The goroutine.                                                           *)

LoggerWaits(g) ==
  /\ at[g] = "busy"
  /\ at' = [at EXCEPT ![g] = "waiting"]
  /\ on' = [on EXCEPT ![g] = stopCh]
  /\ UNCHANGED <<stopCh, closed>>

\* A tick, which a select may prefer to a closed channel.
LoggerTicks(g) ==
  /\ at[g] = "waiting"
  /\ at' = [at EXCEPT ![g] = "busy"]
  /\ UNCHANGED <<stopCh, closed, on>>

LoggerReturns(g) ==
  /\ at[g] = "waiting"
  /\ on[g] \in closed
  /\ at' = [at EXCEPT ![g] = "gone"]
  /\ UNCHANGED <<stopCh, closed, on>>

LoggerStep == \E g \in Ranges : LoggerWaits(g) \/ LoggerTicks(g) \/ LoggerReturns(g)

TrackedNext ==
  \/ Next /\ Calls
  \/ LoggerStep /\ UNCHANGED vars

TrackedSpec == TrackedInit /\ [][TrackedNext]_<<vars, trackerVars>>

\* As LiveSpec of Migration; the loggers owe no progress to anyone.
LiveTrackedSpec == TrackedSpec /\ WF_vars(RunStep /\ Calls)

-----------------------------------------------------------------------------
(* Properties.                                                              *)

\* Type invariant.
TrackerTypeOK ==
  /\ MigrationTypeOK
  /\ stopCh \in 0..range
  /\ closed \in SUBSET (1..stopCh)
  /\ at \in [Ranges -> LoggerPC]
  /\ on \in [Ranges -> 0..stopCh]

\* No logger is left behind: each waits on the channel the next Stop closes or
\* on one that is closed, although Start replaces the channel under loggers that
\* read it without a lock; between ranges, each has been told to stop.
NoLoggerLeaks ==
  \A g \in Ranges :
    at[g] = "waiting" => \/ on[g] \in closed
                         \/ proc = "exec" /\ on[g] = stopCh
=============================================================================
