---------------------------- MODULE SplitContract ----------------------------
(***************************************************************************)
(* What resplitFailedTask (internal/orchestrator/orchestrator.go) promises *)
(* the run that replaces a task by its sub-tasks: Splitter keeps it, and   *)
(* Coverage relies on it.                                                  *)
(***************************************************************************)

\* The sub-tasks match the series parts[i] of the task's series whole, and the
\* series gone are matched by none of them.
IsSplit(whole, parts, gone) ==
  /\ whole = gone \union (UNION {parts[i] : i \in DOMAIN parts})
  /\ \A i \in DOMAIN parts : parts[i] # {} /\ parts[i] \intersect gone = {}
  /\ \A i, j \in DOMAIN parts : i # j => parts[i] \intersect parts[j] = {}
=============================================================================
