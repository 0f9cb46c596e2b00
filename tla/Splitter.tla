------------------------------- MODULE Splitter -------------------------------
(***************************************************************************)
(* resplitFailedTask (internal/orchestrator/orchestrator.go) and what it   *)
(* calls: Splitter.SplitMetric, recursiveSplit, findBestSplitLabel         *)
(* (internal/splitter/splitter.go) and BinPack (internal/splitter/         *)
(* binpack.go).  A task that hit the series limit is split by the values   *)
(* of its best label; values that are too large, and the series without    *)
(* the label, are split again.                                             *)
(*                                                                         *)
(* A series is a function from labels to values; the task is the set of    *)
(* series its selector matches, which does not change while it is split.   *)
(* A selector is a function from the labels it constrains to the values it *)
(* lets pass.  The recursion is a stack of nodes that are still to be      *)
(* split, BinPack a loop that places one label value at a time.            *)
(***************************************************************************)
EXTENDS Integers, FiniteSetsExt, SequencesExt, SplitContract

CONSTANTS
  Label,      \* the labels a series may have
  Values,     \* Values[l]: the values of label l, without ""
  Excluded,   \* splitting.exclude_split_labels
  MaxSeries,  \* EffectiveMaxSeriesForMetric: may be 0 with a high safety_margin
  MaxValues,  \* splitting.max_regex_values
  TopN,       \* the values one TSDB status response lists (100000 in the code)
  Tasks,      \* the tasks considered: sets of series
  ApiFaults   \* whether requests to vmselect may fail

Missing == ""  \* what label="" matches

ASSUME SplitterAssumption ==
  /\ \A l \in Label : Missing \notin Values[l]
  /\ Excluded \subseteq Label
  /\ MaxSeries \in Nat
  /\ MaxValues \in Int
  /\ TopN \in Nat \ {0}
  /\ ApiFaults \in BOOLEAN

VARIABLES
  task,       \* the series of the task that failed
  pc,         \* see PC
  todo,       \* the stack of the recursion
  out,        \* the selectors made so far
  node,       \* the selector that is being split ...
  label,      \* ... by this label
  rest,       \* the values BinPack has not placed yet
  bins,       \* BinPack's bins
  oversized,  \* BinPack's oversized values
  dropped     \* series that no selector will match, with the reason

vars == <<task, pc, todo, out, node, label, rest, bins, oversized, dropped>>

Value == UNION {Values[l] : l \in Label}
Series == {s \in [Label -> Value \union {Missing}] :
             \A l \in Label : s[l] \in Values[l] \union {Missing}}

\* The metric of a task was discovered: it has series.
ASSUME TasksAssumption == \A T \in Tasks : T \subseteq Series /\ T # {} /\ IsFiniteSet(T)

\* "check": fast count; "count": first step of SplitMetric; "next": take a node
\* from the stack; "pack": BinPack.  Then the outcome: "kept", the task fails as
\* it is; "error", SplitMetric failed and the task fails too; "split", the task
\* is replaced by one task per selector.
PC == {"check", "count", "next", "pack", "kept", "error", "split"}

Everything == <<>>  \* the task's own selector: no constraint added

Init ==
  /\ task \in Tasks
  /\ pc = "check"
  /\ todo = <<>>
  /\ out = <<>>
  /\ node = Everything
  /\ label = Missing
  /\ rest = {}
  /\ bins = <<>>
  /\ oversized = <<>>
  /\ dropped = {}

-----------------------------------------------------------------------------
(* Selectors and what vmselect says about them.                             *)

Matching(sel) == {s \in task : \A l \in DOMAIN sel : s[l] \in sel[l]}
SeriesCount(sel) == Cardinality(Matching(sel))

\* appendRegexSelector, appendExactSelector, appendEmptyLabelSelector.
Constrain(sel, l, values) ==
  [k \in DOMAIN sel \union {l} |-> IF k = l THEN values ELSE sel[k]]

\* filterLabels: the labels of the matching series that may be split by.
Candidates(sel) ==
  {l \in Label : \E s \in Matching(sel) : s[l] # Missing}
    \ (Excluded \union DOMAIN sel)

ValueCount(sel, l, v) == SeriesCount(Constrain(sel, l, {v}))

\* GetSeriesDistribution: at most TopN values, the most frequent ones.
Distributions(sel, l) ==
  LET values == {s[l] : s \in Matching(sel)} \ {Missing} IN
  {D \in kSubset(Min({TopN, Cardinality(values)}), values) :
       \A v \in D, w \in values \ D : ValueCount(sel, l, v) >= ValueCount(sel, l, w)}

\* scoreLabelDistribution is n * (1 + avg / max) / 2, where avg = total / n:
\* labels compare like n + total / max.
BetterLabel(sel, k, l) ==
  LET counts(x) == LET D == CHOOSE D \in Distributions(sel, x) : TRUE
                   IN  [v \in D |-> ValueCount(sel, x, v)]
      max(c)    == Max({c[v] : v \in DOMAIN c})
      score(c)  == Cardinality(DOMAIN c) * max(c) + SumFunction(c)
      better(c, d) == score(c) * max(d) > score(d) * max(c)
  IN  better(counts(k), counts(l))

-----------------------------------------------------------------------------
(* resplitFailedTask and SplitMetric.                                       *)

\* count(selector) at the end of the range: it sees the series alive then.
FastCountWithinLimit ==
  /\ pc = "check"
  /\ pc' = "kept"
  /\ UNCHANGED <<task, todo, out, node, label, rest, bins, oversized, dropped>>

FastCountOverLimit ==
  /\ pc = "check"
  /\ SeriesCount(Everything) > MaxSeries \/ ApiFaults
  /\ pc' = "count"
  /\ UNCHANGED <<task, todo, out, node, label, rest, bins, oversized, dropped>>

Node(kind, sel) == [kind |-> kind, sel |-> sel]

CountTotal ==
  /\ pc = "count"
  /\ IF SeriesCount(Everything) <= MaxSeries
     THEN /\ out' = <<[sel |-> Everything, est |-> SeriesCount(Everything)]>>
          /\ UNCHANGED todo
     ELSE /\ todo' = <<Node("split", Everything)>>
          /\ UNCHANGED out
  /\ pc' = "next"
  /\ UNCHANGED <<task, node, label, rest, bins, oversized, dropped>>

\* A request of SplitMetric, recursiveSplit or findBestSplitLabel fails, and
\* with it the whole split.
SplitFails ==
  /\ ApiFaults
  /\ \/ pc = "count"
     \/ pc = "next" /\ todo # <<>> /\ Head(todo).kind = "split"
  /\ pc' = "error"
  /\ UNCHANGED <<task, todo, out, node, label, rest, bins, oversized, dropped>>

\* A single selector would be the same task again.
SplitEnds ==
  /\ pc = "next"
  /\ todo = <<>>
  /\ pc' = IF Len(out) <= 1 THEN "kept" ELSE "split"
  /\ UNCHANGED <<task, todo, out, node, label, rest, bins, oversized, dropped>>

-----------------------------------------------------------------------------
(* recursiveSplit.                                                          *)

\* Mutant: a selector no label can split is put back for later.
OutOfLabelsDeferred ==
  /\ pc = "next" /\ todo # <<>> /\ Head(todo).kind = "split"
  /\ Candidates(Head(todo).sel) = {}
  /\ todo' = Append(Tail(todo), Head(todo))
  /\ UNCHANGED <<task, pc, out, node, label, rest, bins, oversized, dropped>>

\* No label is left: the selector is used although it is over the limit.
OutOfLabels ==
  /\ pc = "next" /\ todo # <<>> /\ Head(todo).kind = "split"
  /\ Candidates(Head(todo).sel) = {}
  /\ \E est \in {SeriesCount(Head(todo).sel)} \union (IF ApiFaults THEN {0} ELSE {}) :
       out' = Append(out, [sel |-> Head(todo).sel, est |-> est])
  /\ todo' = Tail(todo)
  /\ UNCHANGED <<task, pc, node, label, rest, bins, oversized, dropped>>

\* The best of the candidate labels, by a sort that may order equal scores
\* either way; any candidate, when the distributions of the better ones did not
\* arrive.  What a truncated distribution leaves out is matched by no bin, no
\* oversized value, and not by label="" either.
ChooseLabel(l) ==
  /\ pc = "next" /\ todo # <<>> /\ Head(todo).kind = "split"
  /\ l \in Candidates(Head(todo).sel)
  /\ ApiFaults \/ \A k \in Candidates(Head(todo).sel) : ~BetterLabel(Head(todo).sel, k, l)
  /\ pc' = "pack"
  /\ node' = Head(todo).sel
  /\ todo' = Tail(todo)
  /\ label' = l
  /\ bins' = <<>>
  /\ oversized' = <<>>
  /\ \E D \in Distributions(Head(todo).sel, l) :
       /\ rest' = D
       /\ dropped' = dropped \union
            {[series |-> s, why |-> "topN"] :
               s \in {x \in Matching(Head(todo).sel) : x[l] \notin D \union {Missing}}}
  /\ UNCHANGED <<task, out>>

-----------------------------------------------------------------------------
(* BinPack: first fit, in descending order of the series counts; the sort   *)
(* may order equal counts either way.                                       *)

Fits(bin, n) ==
  /\ bin.count + n <= MaxSeries
  /\ Cardinality(bin.values) < MaxValues

Largest(v) == v \in rest /\ \A w \in rest : ValueCount(node, label, v) >= ValueCount(node, label, w)

PackOversized(v) ==
  /\ pc = "pack"
  /\ Largest(v)
  /\ ValueCount(node, label, v) > MaxSeries
  /\ oversized' = Append(oversized, v)
  /\ rest' = rest \ {v}
  /\ UNCHANGED <<task, pc, todo, out, node, label, bins, dropped>>

\* Mutant: a bin takes one value too many.
PackInBinUnchecked(v, i) ==
  /\ pc = "pack"
  /\ Largest(v)
  /\ ValueCount(node, label, v) <= MaxSeries
  /\ bins[i].count + ValueCount(node, label, v) <= MaxSeries
  /\ Cardinality(bins[i].values) <= MaxValues
  /\ bins' = [bins EXCEPT ![i] = [values |-> @.values \union {v},
                                  count  |-> @.count + ValueCount(node, label, v)]]
  /\ rest' = rest \ {v}
  /\ UNCHANGED <<task, pc, todo, out, node, label, oversized, dropped>>

PackInBin(v, i) ==
  /\ pc = "pack"
  /\ Largest(v)
  /\ ValueCount(node, label, v) <= MaxSeries
  /\ Fits(bins[i], ValueCount(node, label, v))
  /\ \A j \in 1..(i - 1) : ~Fits(bins[j], ValueCount(node, label, v))
  /\ bins' = [bins EXCEPT ![i] = [values |-> @.values \union {v},
                                  count  |-> @.count + ValueCount(node, label, v)]]
  /\ rest' = rest \ {v}
  /\ UNCHANGED <<task, pc, todo, out, node, label, oversized, dropped>>

PackInNewBin(v) ==
  /\ pc = "pack"
  /\ Largest(v)
  /\ ValueCount(node, label, v) <= MaxSeries
  /\ \A j \in DOMAIN bins : ~Fits(bins[j], ValueCount(node, label, v))
  /\ bins' = Append(bins, [values |-> {v}, count |-> ValueCount(node, label, v)])
  /\ rest' = rest \ {v}
  /\ UNCHANGED <<task, pc, todo, out, node, label, oversized, dropped>>

\* A selector per bin; the oversized values, one after the other, and then the
\* series without the label are left for the recursion.
BinSelectors ==
  [i \in DOMAIN bins |-> [sel |-> Constrain(node, label, bins[i].values), est |-> bins[i].count]]
OversizedNodes == [i \in DOMAIN oversized |-> Node("split", Constrain(node, label, {oversized[i]}))]
RemainderNode == Node("remainder", Constrain(node, label, {Missing}))

\* Mutants: the series without the label are forgotten; the remainder node
\* keeps no trace of the label.
PackedNoRemainder ==
  /\ pc = "pack"
  /\ rest = {}
  /\ out' = out \o BinSelectors
  /\ todo' = OversizedNodes \o todo
  /\ pc' = "next"
  /\ UNCHANGED <<task, node, label, rest, bins, oversized, dropped>>

PackedWholeRemainder ==
  /\ pc = "pack"
  /\ rest = {}
  /\ out' = out \o BinSelectors
  /\ todo' = OversizedNodes \o <<Node("remainder", node)>> \o todo
  /\ pc' = "next"
  /\ UNCHANGED <<task, node, label, rest, bins, oversized, dropped>>

Packed ==
  /\ pc = "pack"
  /\ rest = {}
  /\ out' = out \o BinSelectors
  /\ todo' = OversizedNodes \o <<RemainderNode>> \o todo
  /\ pc' = "next"
  /\ UNCHANGED <<task, node, label, rest, bins, oversized, dropped>>

RemainderCounted(sel) ==
  \/ /\ SeriesCount(sel) = 0
     /\ todo' = Tail(todo)
     /\ UNCHANGED <<out, dropped>>
  \/ /\ SeriesCount(sel) \in 1..MaxSeries
     /\ out' = Append(out, [sel |-> sel, est |-> SeriesCount(sel)])
     /\ todo' = Tail(todo)
     /\ UNCHANGED dropped
  \/ /\ SeriesCount(sel) > MaxSeries
     /\ todo' = <<Node("split", sel)>> \o Tail(todo)
     /\ UNCHANGED <<out, dropped>>

\* A failed count is a warning; its series go to no selector.
RemainderCountFails(sel) ==
  /\ ApiFaults
  /\ todo' = Tail(todo)
  /\ dropped' = dropped \union {[series |-> s, why |-> "remainder"] : s \in Matching(sel)}
  /\ UNCHANGED out

Remainder ==
  /\ pc = "next" /\ todo # <<>> /\ Head(todo).kind = "remainder"
  /\ RemainderCounted(Head(todo).sel) \/ RemainderCountFails(Head(todo).sel)
  /\ UNCHANGED <<task, pc, node, label, rest, bins, oversized>>

SplitStep ==
  \/ FastCountWithinLimit
  \/ FastCountOverLimit
  \/ CountTotal
  \/ SplitEnds
  \/ OutOfLabels
  \/ \E l \in Label : ChooseLabel(l)
  \/ \E v \in Value : PackOversized(v)
  \/ \E v \in Value, i \in DOMAIN bins : PackInBin(v, i)
  \/ \E v \in Value : PackInNewBin(v)
  \/ Packed
  \/ Remainder

Next == SplitStep \/ SplitFails

Spec == Init /\ [][Next]_vars

\* The splitter is a plain call of the loop's goroutine: it runs on, and does
\* not count on a request that fails.
LiveSpec == Spec /\ WF_vars(SplitStep)

-----------------------------------------------------------------------------
(* Properties.                                                              *)

Selectors == {out[i].sel : i \in DOMAIN out}
Waiting == {todo[i].sel : i \in DOMAIN todo}

\* The values BinPack holds: not placed, in a bin, or oversized.
Packing == rest \union (UNION {bins[i].values : i \in DOMAIN bins}) \union ToSet(oversized)

Outcome == {"kept", "error", "split"}

\* Type invariant.
SplitterTypeOK ==
  /\ task \subseteq Series
  /\ pc \in PC
  /\ \A i \in DOMAIN todo : todo[i].kind \in {"split", "remainder"}
  /\ \A sel \in Selectors \union Waiting \union {node} :
       /\ DOMAIN sel \subseteq Label
       /\ \A l \in DOMAIN sel : sel[l] \subseteq Value \union {Missing}
  /\ \A i \in DOMAIN out : out[i].est \in 0..Cardinality(task)
  /\ label \in Label \union {Missing}
  /\ Packing \subseteq Value
  /\ {d.series : d \in dropped} \subseteq task

\* No series is matched by two selectors: sub-tasks never migrate the same data
\* twice, whatever labels are chosen and whichever requests fail.
SelectorsDisjoint ==
  \A i, j \in DOMAIN out :
    i # j => Matching(out[i].sel) \intersect Matching(out[j].sel) = {}

\* The pieces that a split consists of at any moment account for every series
\* of the task: it is in a selector, in a node still to be split, under a value
\* in BinPack's hands, or in one of the two ways of losing it.
NothingForgotten ==
  pc \in {"next", "pack", "split"} =>
    task = (UNION {Matching(sel) : sel \in Selectors \union Waiting})
           \union {d.series : d \in dropped}
           \union (IF pc = "pack"
                   THEN Matching(Constrain(node, label, Packing \union {Missing}))
                   ELSE {})

\* What BinPack promises: no bin exceeds the series limit or, beyond its first
\* value, the limit on the values of one regular expression, and a bin's count
\* is the number of series that its selector matches.
BinsWithinLimits ==
  pc = "pack" =>
    \A i \in DOMAIN bins :
      /\ bins[i].count <= MaxSeries
      /\ Cardinality(bins[i].values) <= Max({1, MaxValues})
      /\ bins[i].count = SeriesCount(Constrain(node, label, bins[i].values))

\* First fit: no value of a later bin would still go into an earlier one; a bin,
\* and with it a sub-task, is made only for a value that no other has room for.
BinsAreFull ==
  pc = "pack" =>
    \A i, j \in DOMAIN bins : i < j =>
      \A v \in bins[j].values : ~Fits(bins[i], ValueCount(node, label, v))

\* The labels a series may still be split by, while it waits in a node.
Open ==
  {p \in task \X Label :
     \/ \E i \in DOMAIN todo : p[1] \in Matching(todo[i].sel) /\ p[2] \notin DOMAIN todo[i].sel
     \/ pc = "pack" /\ p[1] \in Matching(node) /\ p[2] \notin DOMAIN node \union {label}}

Stage == CASE pc = "check" -> 3 [] pc = "count" -> 2 [] pc \in Outcome -> 0 [] OTHER -> 1

\* A remainder at the top of the stack may come back once, as a node to split.
StackRank ==
  2 * Len(todo) + (IF todo # <<>> /\ Head(todo).kind = "remainder" THEN 1 ELSE 0)

LessToSplit ==
  \/ Stage' < Stage
  \/ /\ Stage' = Stage
     /\ Open' \subseteq Open
     /\ \/ Open' # Open
        \/ pc = "pack" /\ pc' = "next"
        \/ pc = "pack" /\ pc' = "pack" /\ rest' \subseteq rest /\ rest' # rest
        \/ pc = "next" /\ pc' = "next" /\ StackRank' < StackRank

\* Why the recursion of recursiveSplit ends, without counting on fairness: every
\* step leaves strictly less to split, whatever the labels and the failures.
EveryStepCountsDown == [][LessToSplit]_vars

\* splitter.go:18-19 and 56-57: the selectors "each match at most maxSeries time
\* series".  The code breaks this in one case (110-116): a selector over the limit
\* is one that has no label left to split by.  (No sub-task is ever empty.)
OverLimitOnlyWithoutLabels ==
  \A sel \in Selectors :
    /\ SeriesCount(sel) > MaxSeries => Candidates(sel) = {}
    /\ SeriesCount(sel) > 0

\* The recursion ends: every level of it uses up a label.
SplitTerminates == <>(pc \in Outcome)

\* What the run relies on when it replaces a task: at least two sub-tasks, apart
\* and none of them empty, that match what the split has not lost for good.
KeepsSplitContract ==
  pc = "split" =>
    /\ Len(out) >= 2
    /\ IsSplit(task, [i \in DOMAIN out |-> Matching(out[i].sel)], {d.series : d \in dropped})

\* splitter.go, package comment: the algorithm is one "for partitioning
\* high-cardinality metrics into manageable chunks".  A partition leaves nothing
\* out; the values beyond the TopN of a response are left out.
SplitIsPartition ==
  pc = "split" => task = UNION {Matching(sel) : sel \in Selectors}
=============================================================================
