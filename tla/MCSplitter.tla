----------------------------- MODULE MCSplitter -----------------------------
(* Values for model checking Splitter: a label with few values, one with     *)
(* more values than a response lists, and one that is excluded, so that      *)
(* splitting can run out of labels.                                          *)
EXTENDS Splitter

MCLabel == {"job", "pod", "uid"}
MCValues == [job |-> {"x", "y"}, pod |-> {"w", "x", "y", "z"}, uid |-> {"x", "y", "z"}]

UpTo(n, S) == UNION {kSubset(k, S) : k \in 1..n}

\* Up to five series that differ in job and pod, or in job and the excluded uid.
MCTasks == UpTo(5, {s \in Series : s.uid = Missing})
           \union UpTo(5, {s \in Series : s.pod = Missing /\ s.job \in {"x", Missing}})
=============================================================================
