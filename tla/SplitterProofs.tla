--------------------------- MODULE SplitterProofs ---------------------------
(* Proofs about Splitter, for every set of labels, values and tasks, all      *)
(* limits and any requests that fail: the selectors of a split overlap in no  *)
(* series, no series is lost on the way but the two that the code drops, bins *)
(* keep their limits, and only what no label can split stays over the limit.  *)
(*                                                                            *)
(* A split is a set of pieces - selectors made, nodes on the stack and, while *)
(* BinPack runs, the values in its hands - and the invariant says that the    *)
(* pieces are pairwise disjoint and cover the task.                           *)
EXTENDS Splitter, FiniteSetTheorems, SequenceTheorems, TLAPS

USE SplitterAssumption

-----------------------------------------------------------------------------
(* Selectors, for a given set T of series.                                   *)

Part(T, sel) == {s \in T : \A l \in DOMAIN sel : s[l] \in sel[l]}
Size(T, sel) == Cardinality(Part(T, sel))
Splittable(T, sel) ==
  {l \in Label : \E s \in Part(T, sel) : s[l] # Missing} \ (Excluded \union DOMAIN sel)

Sel == UNION {[D -> SUBSET (Value \union {Missing})] : D \in SUBSET Label}
\* Selectors that are made, nodes that wait, bins and oversized values of a
\* label, with what the code knows of each of them.
Made(T) ==
  {x \in [sel : Sel, est : 0..Cardinality(T)] :
     /\ Size(T, x.sel) > 0
     /\ Size(T, x.sel) > MaxSeries => Splittable(T, x.sel) = {}}
Todo(T) ==
  {x \in [kind : {"split", "remainder"}, sel : Sel] :
     x.kind = "split" => Size(T, x.sel) > MaxSeries}
Present(T, sel, l) == {v \in Value : Size(T, Constrain(sel, l, {v})) > 0}
TooLarge(T, sel, l) == {v \in Value : Size(T, Constrain(sel, l, {v})) > MaxSeries}
Bin(T, sel, l) ==
  {b \in [values : SUBSET Value, count : 1..MaxSeries] :
     /\ IsFiniteSet(b.values)
     /\ Cardinality(b.values) <= Max({1, MaxValues})
     /\ b.count = Size(T, Constrain(sel, l, b.values))}

\* The pieces of a sequence of selectors or nodes: all they match, and that no
\* two of them match the same series.
AllOf(T, q) == UNION {Part(T, q[i].sel) : i \in DOMAIN q}
Apart(T, q) ==
  \A i, j \in DOMAIN q : i # j => Part(T, q[i].sel) \intersect Part(T, q[j].sel) = {}

LEMMA Translate ==
  /\ \A sel : Matching(sel) = Part(task, sel)
  /\ \A sel : SeriesCount(sel) = Size(task, sel)
  /\ \A sel : Candidates(sel) = Splittable(task, sel)
  /\ \A sel, l, v : ValueCount(sel, l, v) = Size(task, Constrain(sel, l, {v}))
  BY DEF Matching, SeriesCount, Candidates, ValueCount, Part, Size, Splittable

\* A label with one more value to match: the series with such a value.
LEMMA PartConstrain ==
  ASSUME NEW T, NEW c, NEW k, NEW W, k \notin DOMAIN c
  PROVE  Part(T, Constrain(c, k, W)) = {s \in Part(T, c) : s[k] \in W}
<1>1. DOMAIN Constrain(c, k, W) = DOMAIN c \union {k}
  BY DEF Constrain
<1>2. Constrain(c, k, W)[k] = W /\ \A m \in DOMAIN c : Constrain(c, k, W)[m] = c[m]
  BY DEF Constrain
<1> QED
  BY <1>1, <1>2 DEF Part

LEMMA ConstrainType ==
  ASSUME NEW sel \in Sel, NEW l \in Label, NEW V \in SUBSET (Value \union {Missing})
  PROVE  Constrain(sel, l, V) \in Sel /\ DOMAIN sel \subseteq Label
<1>1. PICK D \in SUBSET Label : sel \in [D -> SUBSET (Value \union {Missing})]
  BY DEF Sel
<1>2. Constrain(sel, l, V) \in [D \union {l} -> SUBSET (Value \union {Missing})]
  BY <1>1 DEF Constrain
<1>3. D \union {l} \in SUBSET Label
  OBVIOUS
<1> QED
  BY <1>1, <1>2, <1>3 DEF Sel

LEMMA EverythingMatches ==
  /\ Everything \in Sel
  /\ \A T : Part(T, Everything) = T
<1>1. DOMAIN Everything = {}
  BY DEF Everything
<1>2. Everything \in [{} -> SUBSET (Value \union {Missing})]
  BY DEF Everything
<1> QED
  BY <1>1, <1>2 DEF Part, Sel

LEMMA NoValueIsMissing == Missing \notin Value
  BY DEF Value

LEMMA SizeLemma ==
  ASSUME NEW T, IsFiniteSet(T), NEW sel
  PROVE  /\ IsFiniteSet(Part(T, sel))
         /\ Size(T, sel) \in 0..Cardinality(T)
         /\ Size(T, sel) \in Nat
         /\ Size(T, sel) > 0 <=> Part(T, sel) # {}
<1>1. Part(T, sel) \in SUBSET T
  BY DEF Part
<1>2. IsFiniteSet(Part(T, sel)) /\ Cardinality(Part(T, sel)) <= Cardinality(T)
  BY <1>1, FS_Subset
<1>3. Cardinality(Part(T, sel)) \in Nat /\ Cardinality(T) \in Nat
  BY <1>2, FS_CardinalityType
<1>4. Cardinality(Part(T, sel)) = 0 <=> Part(T, sel) = {}
  BY <1>2, FS_EmptySet
<1> QED
  BY <1>1, <1>2, <1>3, <1>4 DEF Size

LEMMA DisjointUnion ==
  ASSUME NEW A, NEW B, IsFiniteSet(A), IsFiniteSet(B), A \intersect B = {}
  PROVE  Cardinality(A \union B) = Cardinality(A) + Cardinality(B)
<1>1. Cardinality(A \union B) = Cardinality(A) + Cardinality(B) - Cardinality(A \intersect B)
  BY FS_Union
<1>2. Cardinality(A \intersect B) = 0 /\ Cardinality(A) \in Nat /\ Cardinality(B) \in Nat
  BY FS_EmptySet, FS_CardinalityType
<1> QED
  BY <1>1, <1>2

\* What a value adds to a bin that does not hold it.
LEMMA SizeAdds ==
  ASSUME NEW T, NEW c, NEW k, NEW W, NEW w,
         IsFiniteSet(T), k \notin DOMAIN c, w \notin W
  PROVE  Size(T, Constrain(c, k, W \union {w}))
           = Size(T, Constrain(c, k, W)) + Size(T, Constrain(c, k, {w}))
<1>1. /\ IsFiniteSet(Part(T, Constrain(c, k, W)))
      /\ IsFiniteSet(Part(T, Constrain(c, k, {w})))
  BY SizeLemma
<1>2. /\ Part(T, Constrain(c, k, W)) = {s \in Part(T, c) : s[k] \in W}
      /\ Part(T, Constrain(c, k, {w})) = {s \in Part(T, c) : s[k] \in {w}}
      /\ Part(T, Constrain(c, k, W \union {w})) = {s \in Part(T, c) : s[k] \in W \union {w}}
  BY PartConstrain
<1>3. /\ Part(T, Constrain(c, k, W \union {w}))
          = Part(T, Constrain(c, k, W)) \union Part(T, Constrain(c, k, {w}))
      /\ Part(T, Constrain(c, k, W)) \intersect Part(T, Constrain(c, k, {w})) = {}
  BY <1>2
<1> QED
  BY <1>1, <1>3, DisjointUnion DEF Size

-----------------------------------------------------------------------------
(* Sequences of pieces.                                                      *)

LEMMA NoPieces ==
  ASSUME NEW T
  PROVE  AllOf(T, <<>>) = {} /\ Apart(T, <<>>)
  BY DEF AllOf, Apart

LEMMA OnePiece ==
  ASSUME NEW T, NEW x
  PROVE  AllOf(T, <<x>>) = Part(T, x.sel) /\ Apart(T, <<x>>)
<1>1. DOMAIN <<x>> = {1} /\ <<x>>[1] = x
  OBVIOUS
<1> HIDE DEF Part
<1> QED
  BY <1>1 DEF AllOf, Apart

LEMMA JoinPieces ==
  ASSUME NEW T, NEW S, NEW p \in Seq(S), NEW q \in Seq(S)
  PROVE  /\ p \o q \in Seq(S)
         /\ AllOf(T, p \o q) = AllOf(T, p) \union AllOf(T, q)
         /\ Apart(T, p) /\ Apart(T, q) /\ AllOf(T, p) \intersect AllOf(T, q) = {}
              => Apart(T, p \o q)
<1> DEFINE m == Len(p)
           n == Len(q)
           r == p \o q
<1>1. /\ m \in Nat /\ n \in Nat
      /\ DOMAIN p = 1..m /\ DOMAIN q = 1..n
  BY LenProperties
<1>2. /\ r \in Seq(S)
      /\ Len(r) = m + n
      /\ \A i \in 1..m + n : r[i] = IF i <= m THEN p[i] ELSE q[i - m]
  BY ConcatProperties
<1>3. DOMAIN r = 1..m + n
  BY <1>2, LenProperties
<1> HIDE DEF m, n, r
<1>4. \A i \in 1..m : i \in 1..m + n /\ r[i] = p[i]
  BY <1>1, <1>2
<1>5. \A i \in 1..n : m + i \in 1..m + n /\ r[m + i] = q[i]
  BY <1>1, <1>2
<1>6. \A i \in 1..m + n : i \in 1..m \/ (i - m \in 1..n /\ r[i] = q[i - m])
  BY <1>1, <1>2
<1>7. \A s : s \in AllOf(T, r) <=> \E i \in 1..m + n : s \in Part(T, r[i].sel)
  BY <1>3 DEF AllOf
<1>8. \A s : /\ s \in AllOf(T, p) <=> \E i \in 1..m : s \in Part(T, p[i].sel)
             /\ s \in AllOf(T, q) <=> \E i \in 1..n : s \in Part(T, q[i].sel)
  BY <1>1 DEF AllOf
<1>9. ASSUME NEW s \in AllOf(T, r) PROVE s \in AllOf(T, p) \union AllOf(T, q)
  <2>1. PICK i \in 1..m + n : s \in Part(T, r[i].sel)
    BY <1>7, <1>9
  <2> QED
    BY <2>1, <1>4, <1>6, <1>8
<1>10. ASSUME NEW s \in AllOf(T, p) \union AllOf(T, q) PROVE s \in AllOf(T, r)
  BY <1>4, <1>5, <1>7, <1>8, <1>10
<1>11. ASSUME Apart(T, p), Apart(T, q), AllOf(T, p) \intersect AllOf(T, q) = {},
              NEW i \in 1..m + n, NEW j \in 1..m + n, i # j
       PROVE  Part(T, r[i].sel) \intersect Part(T, r[j].sel) = {}
  <2>1. CASE i \in 1..m /\ j \in 1..m
    BY <1>1, <1>4, <1>11, <2>1 DEF Apart
  <2>2. CASE i \in 1..m /\ j \notin 1..m
    BY <1>4, <1>6, <1>8, <1>11, <2>2
  <2>3. CASE i \notin 1..m /\ j \in 1..m
    BY <1>4, <1>6, <1>8, <1>11, <2>3
  <2>4. CASE i \notin 1..m /\ j \notin 1..m
    <3>1. i - m \in 1..n /\ j - m \in 1..n /\ i - m # j - m
      BY <1>1, <1>6, <1>11, <2>4
    <3> QED
      BY <1>1, <1>6, <1>11, <2>4, <3>1 DEF Apart
  <2> QED
    BY <2>1, <2>2, <2>3, <2>4
<1>12. AllOf(T, r) = AllOf(T, p) \union AllOf(T, q)
  BY <1>9, <1>10
<1>13. Apart(T, p) /\ Apart(T, q) /\ AllOf(T, p) \intersect AllOf(T, q) = {} => Apart(T, r)
  BY <1>3, <1>11 DEF Apart
<1> QED
  BY <1>2, <1>12, <1>13 DEF r

LEMMA PutPiece ==
  ASSUME NEW T, NEW S, NEW q \in Seq(S), NEW x \in S
  PROVE  /\ Append(q, x) \in Seq(S)
         /\ AllOf(T, Append(q, x)) = AllOf(T, q) \union Part(T, x.sel)
         /\ Apart(T, q) /\ AllOf(T, q) \intersect Part(T, x.sel) = {}
              => Apart(T, Append(q, x))
<1>1. <<x>> \in Seq(S) /\ Append(q, x) = q \o <<x>>
  BY AppendIsConcat
<1>2. AllOf(T, <<x>>) = Part(T, x.sel) /\ Apart(T, <<x>>)
  BY OnePiece
<1>3. /\ q \o <<x>> \in Seq(S)
      /\ AllOf(T, q \o <<x>>) = AllOf(T, q) \union AllOf(T, <<x>>)
      /\ Apart(T, q) /\ Apart(T, <<x>>) /\ AllOf(T, q) \intersect AllOf(T, <<x>>) = {}
           => Apart(T, q \o <<x>>)
  BY <1>1, JoinPieces
<1> QED
  BY <1>1, <1>2, <1>3

LEMMA TakePiece ==
  ASSUME NEW T, NEW S, NEW q \in Seq(S), q # <<>>
  PROVE  /\ Head(q) \in S
         /\ Tail(q) \in Seq(S)
         /\ AllOf(T, q) = Part(T, Head(q).sel) \union AllOf(T, Tail(q))
         /\ Apart(T, q) => /\ Apart(T, Tail(q))
                           /\ Part(T, Head(q).sel) \intersect AllOf(T, Tail(q)) = {}
<1> DEFINE n == Len(q)
           t == Tail(q)
<1>1. /\ n \in Nat \ {0} /\ DOMAIN q = 1..n /\ Head(q) = q[1] /\ Head(q) \in S
  BY EmptySeq, LenProperties, HeadTailProperties
<1>2. /\ t \in Seq(S) /\ Len(t) = n - 1 /\ \A i \in 1..n - 1 : t[i] = q[i + 1]
      /\ DOMAIN t = 1..n - 1
  BY <1>1, HeadTailProperties, LenProperties
<1> HIDE DEF n, t
<1>3. \A i \in 1..n - 1 : i + 1 \in 1..n /\ i + 1 # 1 /\ t[i] = q[i + 1]
  BY <1>1, <1>2
<1>4. \A i \in 1..n : i = 1 \/ (i - 1 \in 1..n - 1 /\ q[i] = t[i - 1])
  BY <1>1, <1>2
<1>5. \A s : /\ s \in AllOf(T, q) <=> \E i \in 1..n : s \in Part(T, q[i].sel)
             /\ s \in AllOf(T, t) <=> \E i \in 1..n - 1 : s \in Part(T, t[i].sel)
  BY <1>1, <1>2 DEF AllOf
<1>6. 1 \in 1..n
  BY <1>1
<1>7. ASSUME NEW s \in AllOf(T, q) PROVE s \in Part(T, q[1].sel) \union AllOf(T, t)
  BY <1>4, <1>5, <1>7
<1>8. ASSUME NEW s \in Part(T, q[1].sel) \union AllOf(T, t) PROVE s \in AllOf(T, q)
  BY <1>3, <1>5, <1>6, <1>8
<1>9. ASSUME Apart(T, q), NEW i \in 1..n - 1, NEW j \in 1..n - 1, i # j
      PROVE  Part(T, t[i].sel) \intersect Part(T, t[j].sel) = {}
  <2>1. i + 1 \in 1..n /\ j + 1 \in 1..n /\ i + 1 # j + 1
    BY <1>3, <1>9
  <2> QED
    BY <1>1, <1>3, <1>9, <2>1 DEF Apart
<1>10. ASSUME Apart(T, q), NEW i \in 1..n - 1
       PROVE  Part(T, q[1].sel) \intersect Part(T, t[i].sel) = {}
  BY <1>1, <1>3, <1>6, <1>10 DEF Apart
<1>11. AllOf(T, q) = Part(T, q[1].sel) \union AllOf(T, t)
  BY <1>7, <1>8
<1>12. Apart(T, q) => Apart(T, t)
  BY <1>2, <1>9 DEF Apart
<1>13. Apart(T, q) => Part(T, q[1].sel) \intersect AllOf(T, t) = {}
  BY <1>5, <1>10
<1> QED
  BY <1>1, <1>2, <1>11, <1>12, <1>13 DEF t

LEMMA ValueLimit ==
  /\ Max({1, MaxValues}) \in Int
  /\ 1 <= Max({1, MaxValues})
  /\ MaxValues <= Max({1, MaxValues})
<1>1. \E x \in {1, MaxValues} : \A y \in {1, MaxValues} : x >= y
  <2>1. CASE MaxValues >= 1
    BY <2>1
  <2>2. CASE ~(MaxValues >= 1)
    BY <2>2
  <2> QED
    BY <2>1, <2>2
<1>2. /\ Max({1, MaxValues}) \in {1, MaxValues}
      /\ \A y \in {1, MaxValues} : Max({1, MaxValues}) >= y
  BY <1>1 DEF Max
<1> QED
  BY <1>2

-----------------------------------------------------------------------------
(* The inductive invariant.                                                  *)

Gone == {d.series : d \in dropped}

\* The series BinPack has in its hands.
InHand == {s \in Part(task, node) : s[label] \in Packing \union {Missing}}

Types ==
  /\ task \subseteq Series /\ IsFiniteSet(task) /\ task # {}
  /\ pc \in PC
  /\ out \in Seq(Made(task))
  /\ todo \in Seq(Todo(task))
  /\ node \in Sel
  /\ label \in Label \union {Missing}
  /\ rest \subseteq Present(task, node, label)
  /\ bins \in Seq(Bin(task, node, label))
  /\ oversized \in Seq(TooLarge(task, node, label))
  /\ Gone \subseteq task

Phases ==
  /\ pc \in {"check", "count"} => out = <<>> /\ todo = <<>> /\ dropped = {}
  /\ pc = "pack" => label \in Label \ DOMAIN node
  /\ pc = "split" => todo = <<>> /\ Len(out) >= 2

\* A value is held once: waiting, in one bin, or oversized.
HeldOnce ==
  /\ \A i, j \in DOMAIN bins : i # j => bins[i].values \intersect bins[j].values = {}
  /\ \A i, j \in DOMAIN oversized : i # j => oversized[i] # oversized[j]
  /\ \A i \in DOMAIN bins : bins[i].values \intersect (rest \union ToSet(oversized)) = {}
  /\ rest \intersect ToSet(oversized) = {}

Disjoint ==
  /\ Apart(task, out)
  /\ Apart(task, todo)
  /\ AllOf(task, out) \intersect AllOf(task, todo) = {}
  /\ pc = "pack" => Part(task, node) \intersect (AllOf(task, out) \union AllOf(task, todo)) = {}

Covered ==
  pc \in {"next", "pack", "split"} =>
    task = AllOf(task, out) \union AllOf(task, todo) \union Gone
           \union (IF pc = "pack" THEN InHand ELSE {})

\* What was dropped is in none of the pieces: it is lost for good.
LostForGood ==
  Gone \intersect (AllOf(task, out) \union AllOf(task, todo)
                   \union (IF pc = "pack" THEN InHand ELSE {})) = {}

SplitInv == Types /\ Phases /\ HeldOnce /\ Disjoint /\ Covered /\ LostForGood

LEMMA InitEstablishes == Init => SplitInv
<1> SUFFICES ASSUME Init PROVE SplitInv
  OBVIOUS
<1> USE DEF Init
<1>1. task \subseteq Series /\ IsFiniteSet(task) /\ task # {}
  BY TasksAssumption
<1>2. \A S : <<>> \in Seq(S)
  BY EmptySeq
<1>3. Types
  BY <1>1, <1>2, EverythingMatches DEF Types, PC, Gone
<1>4. ToSet(oversized) = {}
  BY DEF ToSet
<1>5. HeldOnce
  BY <1>4 DEF HeldOnce
<1>6. Disjoint
  BY NoPieces DEF Disjoint
<1> QED
  BY <1>3, <1>5, <1>6 DEF SplitInv, Phases, Covered, LostForGood, Gone

\* Steps that only move the program counter.
LEMMA MovesPreserve ==
  ASSUME SplitInv,
         FastCountWithinLimit \/ FastCountOverLimit \/ SplitEnds \/ SplitFails
  PROVE  SplitInv'
<1> USE DEF SplitInv
<1>1. UNCHANGED <<task, todo, out, node, label, rest, bins, oversized, dropped>>
  BY DEF FastCountWithinLimit, FastCountOverLimit, SplitEnds, SplitFails
<1>2. /\ pc' \in PC \ {"pack"}
      /\ pc' \in {"check", "count"} => pc \in {"check", "count"}
      /\ pc # "pack"
      /\ pc' \in {"next", "pack", "split"} => pc = "next"
      /\ pc' = "split" => todo = <<>> /\ ~(Len(out) <= 1)
  BY DEF FastCountWithinLimit, FastCountOverLimit, SplitEnds, SplitFails, PC
<1>3. Types'
  BY <1>1, <1>2 DEF Types, Gone
<1>4. HeldOnce'
  BY <1>1 DEF HeldOnce
<1>5. Disjoint' /\ Phases'
  <2>1. Len(out) \in Nat
    BY LenProperties DEF Types
  <2> QED
    BY <1>1, <1>2, <2>1 DEF Disjoint, Phases
<1>6. Covered' /\ LostForGood'
  BY <1>1, <1>2 DEF Covered, LostForGood, Gone
<1> QED
  BY <1>3, <1>4, <1>5, <1>6

LEMMA CountTotalPreserves ==
  ASSUME SplitInv, CountTotal
  PROVE  SplitInv'
<1> DEFINE x == [sel |-> Everything, est |-> SeriesCount(Everything)]
           y == Node("split", Everything)
<1> USE DEF SplitInv
<1>1. /\ UNCHANGED <<task, node, label, rest, bins, oversized, dropped>>
      /\ pc = "count" /\ pc' = "next" /\ out = <<>> /\ todo = <<>>
  BY DEF CountTotal, Phases
<1>2. /\ Part(task, Everything) = task
      /\ Everything \in Sel
      /\ SeriesCount(Everything) = Size(task, Everything)
      /\ Size(task, Everything) \in 0..Cardinality(task)
      /\ Size(task, Everything) > 0
  BY EverythingMatches, Translate, SizeLemma DEF Types
<1>3. HeldOnce'
  BY <1>1 DEF HeldOnce
<1>4. Gone' = Gone /\ Gone \subseteq task
  BY <1>1 DEF Gone, Types
<1>7. Gone = {}
  BY <1>1 DEF Gone, Phases
<1>5. CASE SeriesCount(Everything) <= MaxSeries
  <2>1. out' = <<x>> /\ todo' = <<>>
    BY <1>1, <1>5 DEF CountTotal
  <2>2. x \in Made(task) /\ x.sel = Everything
    BY <1>2, <1>5 DEF Made
  <2> HIDE DEF x
  <2>3. AllOf(task, <<x>>) = task /\ Apart(task, <<x>>)
    BY <1>2, <2>2, OnePiece
  <2>4. AllOf(task, <<>>) = {} /\ Apart(task, <<>>)
    BY NoPieces
  <2>5. Types'
    BY <1>1, <1>4, <2>1, <2>2 DEF Types, PC
  <2>6. Disjoint' /\ Phases' /\ Covered' /\ LostForGood'
    BY <1>1, <1>4, <1>7, <2>1, <2>3, <2>4 DEF Disjoint, Phases, Covered, LostForGood
  <2> QED
    BY <1>3, <2>5, <2>6
<1>6. CASE ~(SeriesCount(Everything) <= MaxSeries)
  <2>1. todo' = <<y>> /\ out' = <<>>
    BY <1>1, <1>6 DEF CountTotal
  <2>2. y \in Todo(task) /\ y.sel = Everything
    BY <1>2, <1>6 DEF Todo, Node
  <2> HIDE DEF y
  <2>3. AllOf(task, <<y>>) = task /\ Apart(task, <<y>>)
    BY <1>2, <2>2, OnePiece
  <2>4. AllOf(task, <<>>) = {} /\ Apart(task, <<>>)
    BY NoPieces
  <2>5. Types'
    BY <1>1, <1>4, <2>1, <2>2 DEF Types, PC
  <2>6. Disjoint' /\ Phases' /\ Covered' /\ LostForGood'
    BY <1>1, <1>4, <1>7, <2>1, <2>3, <2>4 DEF Disjoint, Phases, Covered, LostForGood
  <2> QED
    BY <1>3, <2>5, <2>6
<1> QED
  BY <1>5, <1>6

LEMMA OutOfLabelsPreserves ==
  ASSUME SplitInv, OutOfLabels
  PROVE  SplitInv'
<1> USE DEF SplitInv
<1>1. /\ UNCHANGED <<task, pc, node, label, rest, bins, oversized, dropped>>
      /\ pc = "next" /\ todo # <<>> /\ todo' = Tail(todo)
      /\ Head(todo).kind = "split" /\ Candidates(Head(todo).sel) = {}
  BY DEF OutOfLabels
<1>2. /\ Head(todo) \in Todo(task)
      /\ Tail(todo) \in Seq(Todo(task))
      /\ AllOf(task, todo) = Part(task, Head(todo).sel) \union AllOf(task, Tail(todo))
      /\ Apart(task, Tail(todo))
      /\ Part(task, Head(todo).sel) \intersect AllOf(task, Tail(todo)) = {}
  BY <1>1, TakePiece DEF Types, Disjoint
<1>3. Head(todo).sel \in Sel /\ Size(task, Head(todo).sel) > MaxSeries
  BY <1>1, <1>2 DEF Todo
<1>4. /\ SeriesCount(Head(todo).sel) = Size(task, Head(todo).sel)
      /\ Size(task, Head(todo).sel) \in 0..Cardinality(task)
      /\ Cardinality(task) \in Nat
      /\ Splittable(task, Head(todo).sel) = {}
  BY <1>1, Translate, SizeLemma, FS_CardinalityType DEF Types
<1>5. PICK est \in 0..Cardinality(task) : out' = Append(out, [sel |-> Head(todo).sel, est |-> est])
  BY <1>4 DEF OutOfLabels
<1> DEFINE x == [sel |-> Head(todo).sel, est |-> est]
<1>6. x \in Made(task) /\ x.sel = Head(todo).sel
  BY <1>3, <1>4 DEF Made
<1>7. out' = Append(out, x)
  BY <1>5
<1> HIDE DEF x
<1>8. /\ Append(out, x) \in Seq(Made(task))
      /\ AllOf(task, Append(out, x)) = AllOf(task, out) \union Part(task, Head(todo).sel)
      /\ Apart(task, Append(out, x))
  <2>1. out \in Seq(Made(task)) /\ Apart(task, out)
    BY DEF Types, Disjoint
  <2>2. AllOf(task, out) \intersect Part(task, Head(todo).sel) = {}
    BY <1>2 DEF Disjoint
  <2> QED
    BY <1>6, <2>1, <2>2, PutPiece
<1>9. Types'
  BY <1>1, <1>2, <1>7, <1>8 DEF Types, Gone
<1>10. Disjoint'
  BY <1>1, <1>2, <1>7, <1>8 DEF Disjoint
<1>11. HeldOnce' /\ Phases'
  BY <1>1 DEF HeldOnce, Phases
<1>12. Covered' /\ LostForGood'
  BY <1>1, <1>2, <1>7, <1>8 DEF Covered, LostForGood, Gone
<1> QED
  BY <1>9, <1>10, <1>11, <1>12

\* What the recursion does with the head of its stack.
LEMMA HeadOfStack ==
  ASSUME SplitInv, todo # <<>>
  PROVE  /\ Head(todo) \in Todo(task)
         /\ Tail(todo) \in Seq(Todo(task))
         /\ AllOf(task, todo) = Part(task, Head(todo).sel) \union AllOf(task, Tail(todo))
         /\ Apart(task, Tail(todo))
         /\ Part(task, Head(todo).sel) \intersect AllOf(task, Tail(todo)) = {}
  BY TakePiece DEF SplitInv, Types, Disjoint

LEMMA ChooseLabelPreserves ==
  ASSUME SplitInv, NEW l \in Label, ChooseLabel(l)
  PROVE  SplitInv'
<1> USE DEF SplitInv
<1> PICK sel : sel = Head(todo).sel
  OBVIOUS
<1>1. /\ UNCHANGED <<task, out>>
      /\ pc = "next" /\ pc' = "pack" /\ todo # <<>> /\ todo' = Tail(todo)
      /\ Head(todo).kind = "split" /\ l \in Candidates(sel)
      /\ node' = sel /\ label' = l /\ bins' = <<>> /\ oversized' = <<>>
  BY DEF ChooseLabel
<1>2. /\ Head(todo) \in Todo(task)
      /\ Tail(todo) \in Seq(Todo(task))
      /\ AllOf(task, todo) = Part(task, sel) \union AllOf(task, Tail(todo))
      /\ Apart(task, Tail(todo))
      /\ Part(task, sel) \intersect AllOf(task, Tail(todo)) = {}
  BY <1>1, HeadOfStack
<1>3. PICK D \in Distributions(sel, l) :
        /\ rest' = D
        /\ dropped' = dropped \union
             {[series |-> s, why |-> "topN"] :
                s \in {x \in Matching(sel) : x[l] \notin D \union {Missing}}}
  BY DEF ChooseLabel
<1>4. sel \in Sel /\ l \notin DOMAIN sel
  BY <1>1, <1>2 DEF Todo, Candidates
<1>5. Matching(sel) = Part(task, sel)
  BY Translate
<1>6. \A v \in D : v # Missing /\ \E s \in Part(task, sel) : s[l] = v
  BY <1>3, <1>5 DEF Distributions, kSubset
<1>7. \A s \in Part(task, sel) : s \in task /\ s[l] \in Value \union {Missing}
  BY DEF Part, Types, Series, Value
<1>8. ASSUME NEW v \in D PROVE v \in Present(task, sel, l)
  <2>1. v \in Value
    BY <1>6, <1>7
  <2>2. Part(task, Constrain(sel, l, {v})) = {s \in Part(task, sel) : s[l] \in {v}}
    BY <1>4, PartConstrain
  <2>3. Part(task, Constrain(sel, l, {v})) # {}
    BY <1>6, <2>2
  <2> QED
    BY <2>1, <2>3, SizeLemma DEF Present, Types
<1>9. D \subseteq Present(task, sel, l)
  BY <1>8
<1> DEFINE X == {s \in Part(task, sel) : s[l] \notin D \union {Missing}}
<1>10. Gone' = Gone \union X
  <2>1. dropped' = dropped \union {[series |-> s, why |-> "topN"] : s \in X}
    BY <1>3, <1>5
  <2> HIDE DEF X
  <2>2. \A d \in dropped' : d \in dropped \/ d.series \in X
    BY <2>1
  <2>3. \A s \in X : [series |-> s, why |-> "topN"] \in dropped'
    BY <2>1
  <2>4. dropped \subseteq dropped'
    BY <2>1
  <2>5. \A s \in X : s \in Gone'
    <3>1. \A s : [series |-> s, why |-> "topN"].series = s
      OBVIOUS
    <3> QED
      BY <2>3, <3>1, Zenon DEF Gone
  <2>6. Gone' \subseteq Gone \union X
    BY <2>2 DEF Gone
  <2>7. Gone \subseteq Gone'
    BY <2>4 DEF Gone
  <2> QED
    BY <2>5, <2>6, <2>7
<1>11. \A S : <<>> \in Seq(S)
  BY EmptySeq
<1>12. Types'
  BY <1>1, <1>2, <1>3, <1>4, <1>7, <1>9, <1>10, <1>11 DEF Types, PC
<1>13. ToSet(oversized') = {} /\ DOMAIN bins' = {} /\ DOMAIN oversized' = {}
  BY <1>1 DEF ToSet
<1>14. HeldOnce'
  BY <1>13 DEF HeldOnce
<1>15. Disjoint' /\ Phases'
  BY <1>1, <1>2, <1>4 DEF Disjoint, Phases
<1>16. Packing' = D
  BY <1>3, <1>13 DEF Packing
<1>17. InHand' = {s \in Part(task, sel) : s[l] \in D \union {Missing}}
  BY <1>1, <1>16 DEF InHand
<1>18. task = AllOf(task, out) \union AllOf(task, todo) \union Gone
  BY <1>1 DEF Covered
<1>19. Part(task, sel) = InHand' \union {s \in Part(task, sel) : s[l] \notin D \union {Missing}}
  BY <1>17
<1>20. Covered'
  BY <1>1, <1>2, <1>10, <1>18, <1>19 DEF Covered
<1>21. LostForGood'
  <2>1. Gone \intersect (AllOf(task, out) \union AllOf(task, todo)) = {}
    BY <1>1 DEF LostForGood
  <2>2. InHand' \subseteq Part(task, sel) /\ InHand' \intersect X = {}
    BY <1>17
  <2>3. X \subseteq Part(task, sel)
    OBVIOUS
  <2>4. Part(task, sel) \intersect AllOf(task, out) = {}
    BY <1>2 DEF Disjoint
  <2> HIDE DEF X
  <2> QED
    BY <1>1, <1>2, <1>10, <2>1, <2>2, <2>3, <2>4 DEF LostForGood
<1> QED
  BY <1>12, <1>14, <1>15, <1>20, <1>21

\* BinPack moves a value from rest to a bin or to oversized: what is in its
\* hands stays the same.
LEMMA PackingFrame ==
  ASSUME SplitInv, pc = "pack",
         UNCHANGED <<task, pc, todo, out, node, label, dropped>>, Packing' = Packing
  PROVE  Disjoint' /\ Phases' /\ Covered' /\ LostForGood'
<1> USE DEF SplitInv
<1>1. InHand' = InHand /\ Gone' = Gone
  BY DEF InHand, Gone
<1> QED
  BY <1>1 DEF Disjoint, Phases, Covered, LostForGood

LEMMA PackOversizedPreserves ==
  ASSUME SplitInv, NEW v \in Value, PackOversized(v)
  PROVE  SplitInv'
<1> USE DEF SplitInv
<1>1. /\ UNCHANGED <<task, pc, todo, out, node, label, bins, dropped>>
      /\ pc = "pack" /\ v \in rest /\ rest' = rest \ {v}
      /\ oversized' = Append(oversized, v)
      /\ ValueCount(node, label, v) > MaxSeries
  BY DEF PackOversized, Largest
<1>2. v \in TooLarge(task, node, label)
  BY <1>1, Translate DEF TooLarge
<1> DEFINE n == Len(oversized)
<1>3. /\ n \in Nat /\ DOMAIN oversized = 1..n
      /\ oversized' \in Seq(TooLarge(task, node, label))
      /\ DOMAIN oversized' = 1..n + 1
      /\ \A i \in 1..n : oversized'[i] = oversized[i]
      /\ oversized'[n + 1] = v
  BY <1>1, <1>2, AppendProperties, LenProperties DEF Types
<1> HIDE DEF n
<1>4. ToSet(oversized') = ToSet(oversized) \union {v}
  <2>1. \A i \in 1..n + 1 : i \in 1..n \/ i = n + 1
    BY <1>3
  <2>2. \A i \in 1..n : i \in 1..n + 1
    BY <1>3
  <2>3. n + 1 \in 1..n + 1
    BY <1>3
  <2> QED
    BY <1>3, <2>1, <2>2, <2>3 DEF ToSet
<1>5. \A i \in 1..n : oversized[i] # v
  BY <1>1, <1>3 DEF HeldOnce, ToSet
<1>6. HeldOnce'
  <2>1. \A i, j \in DOMAIN oversized' : i # j => oversized'[i] # oversized'[j]
    <3>1. \A i \in 1..n + 1 : i \in 1..n \/ i = n + 1
      BY <1>3
    <3> QED
      BY <1>3, <1>5, <3>1 DEF HeldOnce
  <2>2. rest' \union ToSet(oversized') \subseteq rest \union ToSet(oversized)
    BY <1>1, <1>4
  <2>3. rest' \intersect ToSet(oversized') = {}
    BY <1>1, <1>4 DEF HeldOnce
  <2>4. \A i \in DOMAIN bins' : bins'[i].values \intersect (rest' \union ToSet(oversized')) = {}
    BY <1>1, <2>2 DEF HeldOnce
  <2>5. \A i, j \in DOMAIN bins' : i # j => bins'[i].values \intersect bins'[j].values = {}
    BY <1>1 DEF HeldOnce
  <2> QED
    BY <2>1, <2>3, <2>4, <2>5 DEF HeldOnce
<1>7. Packing' = Packing
  BY <1>1, <1>4 DEF Packing
<1>8. Types'
  BY <1>1, <1>3 DEF Types, Gone
<1> QED
  BY <1>1, <1>6, <1>7, <1>8, PackingFrame

LEMMA PackInBinPreserves ==
  ASSUME SplitInv, NEW v \in Value, NEW i \in DOMAIN bins, PackInBin(v, i)
  PROVE  SplitInv'
<1> USE DEF SplitInv
<1> DEFINE b == [values |-> bins[i].values \union {v},
                 count  |-> bins[i].count + ValueCount(node, label, v)]
<1>1. /\ UNCHANGED <<task, pc, todo, out, node, label, oversized, dropped>>
      /\ pc = "pack" /\ v \in rest /\ rest' = rest \ {v}
      /\ Fits(bins[i], ValueCount(node, label, v))
      /\ bins' = [bins EXCEPT ![i] = b]
  BY DEF PackInBin, Largest
<1>2. /\ Len(bins) \in Nat /\ DOMAIN bins = 1..Len(bins)
      /\ bins[i] \in Bin(task, node, label)
  BY LenProperties, ElementOfSeq DEF Types
<1>3. v \notin bins[i].values /\ label \notin DOMAIN node
  BY <1>1 DEF HeldOnce, Phases
<1>4. /\ ValueCount(node, label, v) = Size(task, Constrain(node, label, {v}))
      /\ Size(task, Constrain(node, label, {v})) \in Nat
      /\ Size(task, Constrain(node, label, {v})) > 0
  BY <1>1, Translate, SizeLemma DEF Types, Present
<1>5. Size(task, Constrain(node, label, bins[i].values \union {v}))
        = Size(task, Constrain(node, label, bins[i].values))
          + Size(task, Constrain(node, label, {v}))
  <2>1. IsFiniteSet(task)
    BY DEF Types
  <2> QED
    BY <1>3, <2>1, SizeAdds
<1>6. /\ bins[i].values \subseteq Value /\ bins[i].count \in 1..MaxSeries
      /\ IsFiniteSet(bins[i].values)
      /\ bins[i].count = Size(task, Constrain(node, label, bins[i].values))
  BY <1>2 DEF Bin
<1>7. /\ IsFiniteSet(bins[i].values \union {v})
      /\ Cardinality(bins[i].values \union {v}) = Cardinality(bins[i].values) + 1
      /\ Cardinality(bins[i].values) \in Nat
  BY <1>3, <1>6, FS_AddElement, FS_CardinalityType
<1>8. Cardinality(bins[i].values \union {v}) <= Max({1, MaxValues})
  BY <1>1, <1>7, ValueLimit DEF Fits
<1>9. bins[i].count + ValueCount(node, label, v) \in 1..MaxSeries
  BY <1>1, <1>4, <1>6 DEF Fits
<1>10. b \in Bin(task, node, label) /\ b.values = bins[i].values \union {v}
  BY <1>4, <1>5, <1>6, <1>7, <1>8, <1>9 DEF Bin
<1> HIDE DEF b
<1>11. /\ bins' \in Seq(Bin(task, node, label))
       /\ DOMAIN bins' = DOMAIN bins
       /\ bins'[i] = b
       /\ \A j \in DOMAIN bins : j # i => bins'[j] = bins[j]
  BY <1>1, <1>2, <1>10, ExceptSeq DEF Types
<1>12. Types'
  BY <1>1, <1>11 DEF Types, Gone
<1>13. v \notin ToSet(oversized) /\ \A j \in DOMAIN bins : v \notin bins[j].values
  BY <1>1 DEF HeldOnce
<1>14. HeldOnce'
  <2>1. \A j, k \in DOMAIN bins' : j # k => bins'[j].values \intersect bins'[k].values = {}
    BY <1>10, <1>11, <1>13 DEF HeldOnce
  <2>2. \A j \in DOMAIN bins' : bins'[j].values \intersect (rest' \union ToSet(oversized')) = {}
    BY <1>1, <1>10, <1>11, <1>13 DEF HeldOnce
  <2>3. rest' \intersect ToSet(oversized') = {}
    BY <1>1 DEF HeldOnce
  <2>4. \A j, k \in DOMAIN oversized' : j # k => oversized'[j] # oversized'[k]
    BY <1>1 DEF HeldOnce
  <2> QED
    BY <2>1, <2>2, <2>3, <2>4 DEF HeldOnce
<1>15. UNION {bins'[j].values : j \in DOMAIN bins'}
         = (UNION {bins[j].values : j \in DOMAIN bins}) \union {v}
  <2>1. ASSUME NEW x, NEW j \in DOMAIN bins', x \in bins'[j].values
        PROVE  x \in (UNION {bins[k].values : k \in DOMAIN bins}) \union {v}
    <3>1. x \in bins[j].values \union {v} /\ j \in DOMAIN bins
      BY <1>10, <1>11, <2>1
    <3> QED
      BY <3>1
  <2>2. ASSUME NEW x, NEW j \in DOMAIN bins, x \in bins[j].values
        PROVE  x \in UNION {bins'[k].values : k \in DOMAIN bins'}
    <3>1. x \in bins'[j].values /\ j \in DOMAIN bins'
      BY <1>10, <1>11, <2>2
    <3> QED
      BY <3>1
  <2>3. v \in UNION {bins'[k].values : k \in DOMAIN bins'}
    BY <1>10, <1>11
  <2> QED
    BY <2>1, <2>2, <2>3
<1>16. Packing' = Packing
  BY <1>1, <1>15 DEF Packing
<1> QED
  BY <1>1, <1>12, <1>14, <1>16, PackingFrame

LEMMA PackInNewBinPreserves ==
  ASSUME SplitInv, NEW v \in Value, PackInNewBin(v)
  PROVE  SplitInv'
<1> USE DEF SplitInv
<1> DEFINE b == [values |-> {v}, count |-> ValueCount(node, label, v)]
           n == Len(bins)
<1>1. /\ UNCHANGED <<task, pc, todo, out, node, label, oversized, dropped>>
      /\ pc = "pack" /\ v \in rest /\ rest' = rest \ {v}
      /\ ValueCount(node, label, v) <= MaxSeries
      /\ bins' = Append(bins, b)
  BY DEF PackInNewBin, Largest
<1>2. /\ ValueCount(node, label, v) = Size(task, Constrain(node, label, {v}))
      /\ Size(task, Constrain(node, label, {v})) \in Nat
      /\ Size(task, Constrain(node, label, {v})) > 0
  BY <1>1, Translate, SizeLemma DEF Types, Present
<1>3. IsFiniteSet({v}) /\ Cardinality({v}) <= Max({1, MaxValues})
  BY FS_Singleton, ValueLimit
<1>4. b \in Bin(task, node, label) /\ b.values = {v}
  <2>1. /\ b.values = {v} /\ b.count = ValueCount(node, label, v)
        /\ b \in [values : SUBSET Value, count : 1..MaxSeries]
    BY <1>1, <1>2
  <2> HIDE DEF b
  <2>2. b.count = Size(task, Constrain(node, label, b.values))
    BY <1>2, <2>1
  <2>3. IsFiniteSet(b.values) /\ Cardinality(b.values) <= Max({1, MaxValues})
    BY <1>3, <2>1
  <2> QED
    BY <2>1, <2>2, <2>3 DEF Bin
<1> HIDE DEF b
<1>5. /\ n \in Nat /\ DOMAIN bins = 1..n
      /\ bins' \in Seq(Bin(task, node, label))
      /\ DOMAIN bins' = 1..n + 1
      /\ \A i \in 1..n : bins'[i] = bins[i]
      /\ bins'[n + 1] = b
  BY <1>1, <1>4, AppendProperties, LenProperties DEF Types
<1> HIDE DEF n
<1>6. /\ \A i \in 1..n + 1 : i \in 1..n \/ i = n + 1
      /\ \A i \in 1..n : i \in 1..n + 1
      /\ n + 1 \in 1..n + 1
  BY <1>5
<1>7. v \notin ToSet(oversized) /\ \A i \in DOMAIN bins : v \notin bins[i].values
  BY <1>1 DEF HeldOnce
<1>8. HeldOnce'
  <2>1. \A j, k \in DOMAIN bins' : j # k => bins'[j].values \intersect bins'[k].values = {}
    BY <1>4, <1>5, <1>6, <1>7 DEF HeldOnce
  <2>2. \A j \in DOMAIN bins' : bins'[j].values \intersect (rest' \union ToSet(oversized')) = {}
    BY <1>1, <1>4, <1>5, <1>6, <1>7 DEF HeldOnce
  <2>3. rest' \intersect ToSet(oversized') = {}
    BY <1>1 DEF HeldOnce
  <2>4. \A j, k \in DOMAIN oversized' : j # k => oversized'[j] # oversized'[k]
    BY <1>1 DEF HeldOnce
  <2> QED
    BY <2>1, <2>2, <2>3, <2>4 DEF HeldOnce
<1>9. UNION {bins'[j].values : j \in DOMAIN bins'}
        = (UNION {bins[j].values : j \in DOMAIN bins}) \union {v}
  <2>1. ASSUME NEW x, NEW j \in DOMAIN bins', x \in bins'[j].values
        PROVE  x \in (UNION {bins[k].values : k \in DOMAIN bins}) \union {v}
    <3>1. CASE j \in 1..n
      BY <1>5, <2>1, <3>1
    <3>2. CASE j = n + 1
      BY <1>4, <1>5, <2>1, <3>2
    <3> QED
      BY <1>5, <1>6, <3>1, <3>2
  <2>2. ASSUME NEW x, NEW j \in DOMAIN bins, x \in bins[j].values
        PROVE  x \in UNION {bins'[k].values : k \in DOMAIN bins'}
    <3>1. x \in bins'[j].values /\ j \in DOMAIN bins'
      BY <1>5, <1>6, <2>2
    <3> QED
      BY <3>1
  <2>3. v \in UNION {bins'[k].values : k \in DOMAIN bins'}
    BY <1>4, <1>5, <1>6
  <2> QED
    BY <2>1, <2>2, <2>3
<1>10. Packing' = Packing
  BY <1>1, <1>9 DEF Packing
<1>11. Types'
  BY <1>1, <1>5 DEF Types, Gone
<1> QED
  BY <1>1, <1>8, <1>10, <1>11, PackingFrame

\* The pieces BinPack leaves: one per bin, one per oversized value, and the
\* series without the label.  They are apart, and all that was in its hands.
LEMMA PackedPieces ==
  ASSUME SplitInv, pc = "pack", rest = {}
  PROVE  /\ BinSelectors \in Seq(Made(task))
         /\ OversizedNodes \in Seq(Todo(task))
         /\ RemainderNode \in Todo(task)
         /\ Apart(task, BinSelectors) /\ Apart(task, OversizedNodes)
         /\ AllOf(task, BinSelectors) \intersect AllOf(task, OversizedNodes) = {}
         /\ AllOf(task, BinSelectors) \intersect Part(task, RemainderNode.sel) = {}
         /\ AllOf(task, OversizedNodes) \intersect Part(task, RemainderNode.sel) = {}
         /\ InHand = AllOf(task, BinSelectors) \union AllOf(task, OversizedNodes)
                       \union Part(task, RemainderNode.sel)
         /\ InHand \subseteq Part(task, node)
<1> USE DEF SplitInv
<1> DEFINE m == Len(bins)
           n == Len(oversized)
           P == Part(task, node)
<1>1. label \in Label /\ label \notin DOMAIN node /\ node \in Sel
  BY DEF Phases, Types
<1>2. /\ m \in Nat /\ DOMAIN bins = 1..m /\ \A i \in 1..m : bins[i] \in Bin(task, node, label)
      /\ n \in Nat /\ DOMAIN oversized = 1..n
      /\ \A i \in 1..n : oversized[i] \in TooLarge(task, node, label)
  BY LenProperties, ElementOfSeq DEF Types
<1> HIDE DEF m, n
<1>3. \A W : Part(task, Constrain(node, label, W)) = {s \in P : s[label] \in W}
  BY <1>1, PartConstrain
<1>4. \A W \in SUBSET (Value \union {Missing}) : Constrain(node, label, W) \in Sel
  BY <1>1, ConstrainType
<1>5. \A W : Size(task, Constrain(node, label, W)) \in 0..Cardinality(task)
  BY SizeLemma DEF Types
<1>6. ASSUME NEW i \in 1..m
      PROVE  /\ BinSelectors[i] \in Made(task)
             /\ BinSelectors[i].sel = Constrain(node, label, bins[i].values)
             /\ bins[i].values \subseteq Value
  <2>1. /\ bins[i].values \subseteq Value /\ bins[i].count \in 1..MaxSeries
        /\ bins[i].count = Size(task, Constrain(node, label, bins[i].values))
    BY <1>2 DEF Bin
  <2>2. BinSelectors[i] = [sel |-> Constrain(node, label, bins[i].values), est |-> bins[i].count]
    BY <1>2 DEF BinSelectors
  <2>3. Constrain(node, label, bins[i].values) \in Sel
    BY <1>4, <2>1
  <2>4. bins[i].count \in 0..Cardinality(task)
    BY <1>5, <2>1
  <2> QED
    BY <2>1, <2>2, <2>3, <2>4 DEF Made
<1>7. ASSUME NEW i \in 1..n
      PROVE  /\ OversizedNodes[i] \in Todo(task)
             /\ OversizedNodes[i].sel = Constrain(node, label, {oversized[i]})
             /\ oversized[i] \in Value
  <2>1. oversized[i] \in Value /\ Size(task, Constrain(node, label, {oversized[i]})) > MaxSeries
    BY <1>2 DEF TooLarge
  <2>2. OversizedNodes[i] = [kind |-> "split", sel |-> Constrain(node, label, {oversized[i]})]
    BY <1>2 DEF OversizedNodes, Node
  <2>3. Constrain(node, label, {oversized[i]}) \in Sel
    BY <1>4, <2>1
  <2> DEFINE c == Constrain(node, label, {oversized[i]})
  <2>4. c \in Sel /\ Size(task, c) > MaxSeries /\ OversizedNodes[i] = [kind |-> "split", sel |-> c]
    BY <2>1, <2>2, <2>3
  <2> HIDE DEF c
  <2>5. OversizedNodes[i] \in Todo(task) /\ OversizedNodes[i].sel = c
    BY <2>4 DEF Todo
  <2> QED
    BY <2>1, <2>5 DEF c
<1>8. /\ RemainderNode \in Todo(task)
      /\ RemainderNode.sel = Constrain(node, label, {Missing})
  BY <1>4 DEF RemainderNode, Node, Todo
<1>9. DOMAIN BinSelectors = 1..m /\ DOMAIN OversizedNodes = 1..n
  BY <1>2 DEF BinSelectors, OversizedNodes
<1>10. BinSelectors \in Seq(Made(task)) /\ OversizedNodes \in Seq(Todo(task))
  <2>1. /\ BinSelectors = [i \in 1..m |-> BinSelectors[i]]
        /\ OversizedNodes = [i \in 1..n |-> OversizedNodes[i]]
    BY <1>2 DEF BinSelectors, OversizedNodes
  <2>2. BinSelectors \in [1..m -> Made(task)] /\ OversizedNodes \in [1..n -> Todo(task)]
    BY <1>6, <1>7, <2>1
  <2> QED
    BY <1>2, <2>2, SeqDef
<1>11. \A s : s \in AllOf(task, BinSelectors)
                <=> s \in P /\ \E i \in 1..m : s[label] \in bins[i].values
  BY <1>3, <1>6, <1>9 DEF AllOf
<1>12. \A i \in 1..n : Part(task, OversizedNodes[i].sel) = {s \in P : s[label] = oversized[i]}
  <2> TAKE i \in 1..n
  <2>1. Part(task, Constrain(node, label, {oversized[i]})) = {s \in P : s[label] \in {oversized[i]}}
    BY <1>3
  <2> HIDE DEF P
  <2> QED
    BY <1>7, <2>1
<1>13. \A s : s \in AllOf(task, OversizedNodes)
                <=> s \in P /\ \E i \in 1..n : s[label] = oversized[i]
  BY <1>9, <1>12 DEF AllOf
<1>14. \A s : s \in Part(task, RemainderNode.sel) <=> s \in P /\ s[label] = Missing
  BY <1>3, <1>8
<1>15. \A s : s \in InHand
         <=> /\ s \in P
             /\ \/ \E i \in 1..m : s[label] \in bins[i].values
                \/ \E i \in 1..n : s[label] = oversized[i]
                \/ s[label] = Missing
  <2>1. \A x : x \in Packing <=> \/ \E i \in 1..m : x \in bins[i].values
                                 \/ \E i \in 1..n : x = oversized[i]
    BY <1>2 DEF Packing, ToSet
  <2> HIDE DEF P
  <2>2. InHand = {s \in P : s[label] \in Packing \union {Missing}}
    BY DEF InHand, P
  <2> QED
    BY <2>1, <2>2
<1> HIDE DEF P
<1>16. /\ \A i \in 1..m : Missing \notin bins[i].values
       /\ \A i \in 1..n : oversized[i] # Missing
  BY <1>6, <1>7, NoValueIsMissing
<1>17. Apart(task, BinSelectors)
  <2>1. ASSUME NEW i \in 1..m, NEW j \in 1..m, i # j
        PROVE  Part(task, BinSelectors[i].sel) \intersect Part(task, BinSelectors[j].sel) = {}
    <3>1. bins[i].values \intersect bins[j].values = {}
      BY <1>2, <2>1 DEF HeldOnce
    <3> QED
      BY <1>3, <1>6, <3>1
  <2> QED
    BY <1>9, <2>1 DEF Apart
<1>18. Apart(task, OversizedNodes)
  <2>1. ASSUME NEW i \in 1..n, NEW j \in 1..n, i # j
        PROVE  Part(task, OversizedNodes[i].sel) \intersect Part(task, OversizedNodes[j].sel) = {}
    <3>1. oversized[i] # oversized[j]
      BY <1>2, <2>1 DEF HeldOnce
    <3> QED
      BY <1>12, <3>1
  <2> QED
    BY <1>9, <2>1 DEF Apart
<1>19. \A i \in 1..m, j \in 1..n : oversized[j] \notin bins[i].values
  BY <1>2 DEF HeldOnce, ToSet
<1>20. AllOf(task, BinSelectors) \intersect AllOf(task, OversizedNodes) = {}
  BY <1>11, <1>13, <1>19
<1>21. AllOf(task, BinSelectors) \intersect Part(task, RemainderNode.sel) = {}
  BY <1>11, <1>14, <1>16
<1>22. AllOf(task, OversizedNodes) \intersect Part(task, RemainderNode.sel) = {}
  BY <1>13, <1>14, <1>16
<1>23. InHand = AllOf(task, BinSelectors) \union AllOf(task, OversizedNodes)
                  \union Part(task, RemainderNode.sel)
  BY <1>11, <1>13, <1>14, <1>15
<1>24. InHand \subseteq Part(task, node)
  BY DEF InHand
<1> QED
  BY <1>8, <1>10, <1>17, <1>18, <1>20, <1>21, <1>22, <1>23, <1>24

LEMMA PackedPreserves ==
  ASSUME SplitInv, Packed
  PROVE  SplitInv'
<1> USE DEF SplitInv
<1> DEFINE R == <<RemainderNode>>
           N == OversizedNodes \o R
<1>1. /\ UNCHANGED <<task, node, label, rest, bins, oversized, dropped>>
      /\ pc = "pack" /\ pc' = "next" /\ rest = {}
      /\ out' = out \o BinSelectors
      /\ todo' = N \o todo
  BY DEF Packed
<1>2. /\ BinSelectors \in Seq(Made(task))
      /\ OversizedNodes \in Seq(Todo(task))
      /\ RemainderNode \in Todo(task)
      /\ Apart(task, BinSelectors) /\ Apart(task, OversizedNodes)
      /\ AllOf(task, BinSelectors) \intersect AllOf(task, OversizedNodes) = {}
      /\ AllOf(task, BinSelectors) \intersect Part(task, RemainderNode.sel) = {}
      /\ AllOf(task, OversizedNodes) \intersect Part(task, RemainderNode.sel) = {}
      /\ InHand = AllOf(task, BinSelectors) \union AllOf(task, OversizedNodes)
                    \union Part(task, RemainderNode.sel)
      /\ InHand \subseteq Part(task, node)
  BY <1>1, PackedPieces
<1>3. /\ out \in Seq(Made(task)) /\ todo \in Seq(Todo(task))
      /\ Apart(task, out) /\ Apart(task, todo)
      /\ AllOf(task, out) \intersect AllOf(task, todo) = {}
      /\ InHand \intersect (AllOf(task, out) \union AllOf(task, todo)) = {}
  BY <1>1, <1>2 DEF Types, Disjoint
<1>4. /\ R \in Seq(Todo(task))
      /\ AllOf(task, R) = Part(task, RemainderNode.sel)
      /\ Apart(task, R)
  BY <1>2, OnePiece
<1> HIDE DEF R
<1>5. /\ N \in Seq(Todo(task))
      /\ AllOf(task, N) = AllOf(task, OversizedNodes) \union Part(task, RemainderNode.sel)
      /\ Apart(task, N)
  BY <1>2, <1>4, JoinPieces
<1> HIDE DEF N
<1>6. /\ todo' \in Seq(Todo(task))
      /\ AllOf(task, todo') = AllOf(task, N) \union AllOf(task, todo)
      /\ Apart(task, todo')
  <2>1. AllOf(task, N) \intersect AllOf(task, todo) = {}
    BY <1>2, <1>3, <1>5
  <2>2. /\ N \o todo \in Seq(Todo(task))
        /\ AllOf(task, N \o todo) = AllOf(task, N) \union AllOf(task, todo)
        /\ Apart(task, N \o todo)
    <3>1. /\ N \in Seq(Todo(task)) /\ todo \in Seq(Todo(task))
          /\ Apart(task, N) /\ Apart(task, todo)
      BY <1>3, <1>5
    <3> QED
      BY <2>1, <3>1, JoinPieces
  <2> QED
    BY <1>1, <2>2
<1>7. /\ out' \in Seq(Made(task))
      /\ AllOf(task, out') = AllOf(task, out) \union AllOf(task, BinSelectors)
      /\ Apart(task, out')
  <2>1. AllOf(task, out) \intersect AllOf(task, BinSelectors) = {}
    BY <1>2, <1>3
  <2>2. /\ out \o BinSelectors \in Seq(Made(task))
        /\ AllOf(task, out \o BinSelectors) = AllOf(task, out) \union AllOf(task, BinSelectors)
        /\ Apart(task, out \o BinSelectors)
    <3>1. /\ out \in Seq(Made(task)) /\ BinSelectors \in Seq(Made(task))
          /\ Apart(task, out) /\ Apart(task, BinSelectors)
      BY <1>2, <1>3
    <3> QED
      BY <2>1, <3>1, JoinPieces
  <2> QED
    BY <1>1, <2>2
<1>8. AllOf(task, out') \intersect AllOf(task, todo') = {}
  BY <1>2, <1>3, <1>5, <1>6, <1>7
<1>9. Gone' = Gone
  BY <1>1 DEF Gone
<1>10. Types'
  BY <1>1, <1>6, <1>7, <1>9 DEF Types, PC
<1>11. HeldOnce' /\ Phases'
  BY <1>1 DEF HeldOnce, Phases
<1>12. Disjoint'
  BY <1>1, <1>6, <1>7, <1>8 DEF Disjoint
<1>13. Covered' /\ LostForGood'
  BY <1>1, <1>2, <1>5, <1>6, <1>7, <1>9 DEF Covered, LostForGood
<1> QED
  BY <1>10, <1>11, <1>12, <1>13

LEMMA RemainderPreserves ==
  ASSUME SplitInv, Remainder
  PROVE  SplitInv'
<1> USE DEF SplitInv
<1> PICK sel : sel = Head(todo).sel
  OBVIOUS
<1>1. /\ UNCHANGED <<task, pc, node, label, rest, bins, oversized>>
      /\ pc = "next" /\ todo # <<>>
      /\ RemainderCounted(sel) \/ RemainderCountFails(sel)
  BY DEF Remainder
<1>2. /\ Head(todo) \in Todo(task)
      /\ Tail(todo) \in Seq(Todo(task))
      /\ AllOf(task, todo) = Part(task, sel) \union AllOf(task, Tail(todo))
      /\ Apart(task, Tail(todo))
      /\ Part(task, sel) \intersect AllOf(task, Tail(todo)) = {}
  BY <1>1, HeadOfStack
<1>3. /\ sel \in Sel
      /\ SeriesCount(sel) = Size(task, sel)
      /\ Size(task, sel) \in 0..Cardinality(task)
      /\ Size(task, sel) > 0 <=> Part(task, sel) # {}
      /\ Cardinality(task) \in Nat
  BY <1>2, Translate, SizeLemma, FS_CardinalityType DEF Types, Todo
<1>4. /\ out \in Seq(Made(task)) /\ Apart(task, out) /\ Apart(task, todo)
      /\ AllOf(task, out) \intersect AllOf(task, todo) = {}
      /\ task = AllOf(task, out) \union AllOf(task, todo) \union Gone
      /\ Gone \intersect (AllOf(task, out) \union AllOf(task, todo)) = {}
      /\ Gone \subseteq task
  BY <1>1 DEF Types, Disjoint, Covered, LostForGood
<1>5. HeldOnce' /\ Phases'
  BY <1>1 DEF HeldOnce, Phases
\* Every outcome moves the piece to out, back to todo, or among the lost.
<1>6. ASSUME out' \in Seq(Made(task)), todo' \in Seq(Todo(task)),
             Apart(task, out'), Apart(task, todo'),
             AllOf(task, out') \intersect AllOf(task, todo') = {},
             Gone' \subseteq task,
             task = AllOf(task, out') \union AllOf(task, todo') \union Gone',
             Gone' \intersect (AllOf(task, out') \union AllOf(task, todo')) = {}
      PROVE  SplitInv'
  <2>1. Types'
    BY <1>1, <1>6 DEF Types
  <2>2. Disjoint' /\ Covered' /\ LostForGood'
    BY <1>1, <1>6 DEF Disjoint, Covered, LostForGood
  <2> QED
    BY <1>5, <2>1, <2>2
<1>7. CASE SeriesCount(sel) = 0 /\ todo' = Tail(todo) /\ UNCHANGED <<out, dropped>>
  <2>1. Part(task, sel) = {}
    BY <1>3, <1>7
  <2>2. Gone' = Gone
    BY <1>7 DEF Gone
  <2> QED
    BY <1>2, <1>4, <1>6, <1>7, <2>1, <2>2
<1>8. CASE /\ SeriesCount(sel) \in 1..MaxSeries
           /\ out' = Append(out, [sel |-> sel, est |-> SeriesCount(sel)])
           /\ todo' = Tail(todo)
           /\ UNCHANGED dropped
  <2> DEFINE x == [sel |-> sel, est |-> SeriesCount(sel)]
  <2>1. x \in Made(task) /\ x.sel = sel
    BY <1>3, <1>8 DEF Made
  <2>2. out' = Append(out, x)
    BY <1>8
  <2> HIDE DEF x
  <2>3. AllOf(task, out) \intersect Part(task, x.sel) = {}
    BY <1>2, <1>4, <2>1
  <2>4. /\ out' \in Seq(Made(task))
        /\ AllOf(task, out') = AllOf(task, out) \union Part(task, sel)
        /\ Apart(task, out')
    BY <1>4, <2>1, <2>2, <2>3, PutPiece
  <2>5. Gone' = Gone
    BY <1>8 DEF Gone
  <2> QED
    BY <1>2, <1>4, <1>6, <1>8, <2>4, <2>5
<1>9. CASE /\ SeriesCount(sel) > MaxSeries
           /\ todo' = <<Node("split", sel)>> \o Tail(todo)
           /\ UNCHANGED <<out, dropped>>
  <2>1. PICK y, t, Y : y = Node("split", sel) /\ t = Tail(todo) /\ Y = <<y>>
    OBVIOUS
  <2>2. y \in Todo(task) /\ y.sel = sel
    BY <1>3, <1>9, <2>1 DEF Todo, Node
  <2>3. todo' = Y \o t
    BY <1>9, <2>1
  <2>4. AllOf(task, <<y>>) = Part(task, sel) /\ Apart(task, <<y>>)
    BY <2>2, OnePiece
  <2>5. Y \in Seq(Todo(task)) /\ AllOf(task, Y) = Part(task, sel) /\ Apart(task, Y)
    BY <2>1, <2>2, <2>4
  <2>6. t \in Seq(Todo(task)) /\ Apart(task, t) /\ AllOf(task, Y) \intersect AllOf(task, t) = {}
    BY <1>2, <2>1, <2>5
  <2>7. /\ Y \o t \in Seq(Todo(task))
        /\ AllOf(task, Y \o t) = AllOf(task, Y) \union AllOf(task, t)
        /\ Apart(task, Y \o t)
    BY <2>5, <2>6, JoinPieces
  <2>8. /\ todo' \in Seq(Todo(task))
        /\ AllOf(task, todo') = Part(task, sel) \union AllOf(task, Tail(todo))
        /\ Apart(task, todo')
    BY <2>1, <2>3, <2>5, <2>7
  <2>9. Gone' = Gone
    BY <1>9 DEF Gone
  <2> QED
    BY <1>2, <1>4, <1>6, <1>9, <2>8, <2>9
<1>10. CASE RemainderCountFails(sel)
  <2>1. todo' = Tail(todo) /\ out' = out
    BY <1>10 DEF RemainderCountFails
  <2>2. Gone' = Gone \union Part(task, sel)
    <3>1. dropped' = dropped \union {[series |-> s, why |-> "remainder"] : s \in Part(task, sel)}
      BY <1>10, Translate DEF RemainderCountFails
    <3>2. \A d \in dropped' : d \in dropped \/ d.series \in Part(task, sel)
      BY <3>1
    <3>3. \A s \in Part(task, sel) : [series |-> s, why |-> "remainder"] \in dropped'
      BY <3>1
    <3>4. dropped \subseteq dropped'
      BY <3>1
    <3>5. \A s : [series |-> s, why |-> "remainder"].series = s
      OBVIOUS
    <3>6. \A s \in Part(task, sel) : s \in Gone'
      BY <3>3, <3>5, Zenon DEF Gone
    <3>7. Gone' \subseteq Gone \union Part(task, sel)
      BY <3>2 DEF Gone
    <3>8. Gone \subseteq Gone'
      BY <3>4 DEF Gone
    <3> QED
      BY <3>6, <3>7, <3>8
  <2>3. Part(task, sel) \subseteq task
    BY DEF Part
  <2> QED
    BY <1>2, <1>4, <1>6, <2>1, <2>2, <2>3
<1> QED
  BY <1>1, <1>7, <1>8, <1>9, <1>10 DEF RemainderCounted

-----------------------------------------------------------------------------
(* First fit.                                                                *)

\* A bin that grows takes nothing that it did not take before.
LEMMA FullStaysFull ==
  ASSUME NEW b, NEW c, NEW n \in Nat,
         b.count \in Nat, c.count \in Nat, b.count <= c.count,
         IsFiniteSet(c.values), b.values \subseteq c.values, ~Fits(b, n)
  PROVE  ~Fits(c, n)
<1>1. Cardinality(b.values) <= Cardinality(c.values) /\ IsFiniteSet(b.values)
  BY FS_Subset
<1>2. Cardinality(b.values) \in Nat /\ Cardinality(c.values) \in Nat
  BY <1>1, FS_CardinalityType
<1> QED
  BY <1>1, <1>2 DEF Fits

LEMMA BinsAreFullStep ==
  ASSUME SplitInv, BinsAreFull, [Next]_vars
  PROVE  BinsAreFull'
<1> SUFFICES ASSUME pc' = "pack" PROVE BinsAreFull'
  BY DEF BinsAreFull
<1>1. CASE UNCHANGED vars
  BY <1>1 DEF vars, BinsAreFull, Fits, ValueCount, SeriesCount, Matching
<1>2. ASSUME NEW l \in Label, ChooseLabel(l)
      PROVE  BinsAreFull'
  <2>1. DOMAIN bins' = {}
    BY <1>2 DEF ChooseLabel
  <2> QED
    BY <2>1 DEF BinsAreFull
\* What does not change keeps the counts of the values.
<1>3. UNCHANGED <<task, node, label>> =>
        \A v : ValueCount(node, label, v)' = ValueCount(node, label, v)
  BY DEF ValueCount, SeriesCount, Matching
<1>4. \A v : ValueCount(node, label, v) \in Nat
  BY Translate, SizeLemma DEF SplitInv, Types
<1>5. /\ Len(bins) \in Nat /\ DOMAIN bins = 1..Len(bins)
      /\ \A i \in DOMAIN bins : bins[i] \in Bin(task, node, label)
      /\ bins \in Seq(Bin(task, node, label))
  BY LenProperties, ElementOfSeq DEF SplitInv, Types
<1>6. ASSUME NEW v \in Value, PackOversized(v)
      PROVE  BinsAreFull'
  <2>1. pc = "pack" /\ UNCHANGED <<task, node, label, bins>>
    BY <1>6 DEF PackOversized
  <2> QED
    BY <1>3, <2>1 DEF BinsAreFull, Fits
<1>7. ASSUME NEW v \in Value, NEW b \in DOMAIN bins, PackInBin(v, b)
      PROVE  BinsAreFull'
  <2>1. /\ pc = "pack" /\ UNCHANGED <<task, node, label>>
        /\ bins' = [bins EXCEPT ![b] = [values |-> bins[b].values \union {v},
                                       count  |-> bins[b].count + ValueCount(node, label, v)]]
        /\ \A j \in 1..(b - 1) : ~Fits(bins[j], ValueCount(node, label, v))
    BY <1>7 DEF PackInBin
  <2>2. /\ DOMAIN bins' = DOMAIN bins
        /\ bins'[b].values = bins[b].values \union {v}
        /\ bins'[b].count = bins[b].count + ValueCount(node, label, v)
        /\ \A j \in DOMAIN bins : j # b => bins'[j] = bins[j]
    BY <1>5, <2>1
  <2>3. SUFFICES ASSUME NEW i \in DOMAIN bins, NEW j \in DOMAIN bins, i < j,
                        NEW w \in bins'[j].values
                 PROVE  ~Fits(bins'[i], ValueCount(node, label, w))
    <3>1. DOMAIN bins' = DOMAIN bins /\ UNCHANGED <<task, node, label>>
      BY <2>1, <2>2
    <3> QED
      BY <1>3, <3>1 DEF BinsAreFull, Fits
  <2>4. ~Fits(bins[i], ValueCount(node, label, w))
    <3>1. CASE w \in bins[j].values
      BY <2>1, <2>3, <3>1 DEF BinsAreFull
    <3>2. CASE w \notin bins[j].values
      <4>1. j = b /\ w = v
        BY <2>2, <2>3, <3>2
      <4>2. i \in 1..(b - 1)
        BY <1>5, <2>3, <4>1
      <4> QED
        BY <2>1, <4>1, <4>2
    <3> QED
      BY <3>1, <3>2
  <2>5. CASE i # b
    BY <2>2, <2>4, <2>5
  <2>6. CASE i = b
    <3>1. /\ bins[i].count \in Nat /\ IsFiniteSet(bins[i].values)
      BY <1>5 DEF Bin
    <3>2. /\ bins'[i].values = bins[i].values \union {v}
          /\ bins'[i].count = bins[i].count + ValueCount(node, label, v)
      BY <2>2, <2>6
    <3>3. /\ bins'[i].count \in Nat /\ bins[i].count <= bins'[i].count
          /\ bins[i].values \subseteq bins'[i].values
      BY <1>4, <3>1, <3>2
    <3>4. IsFiniteSet(bins'[i].values)
      BY <3>1, <3>2, FS_AddElement
    <3>5. ValueCount(node, label, w) \in Nat
      BY <1>4
    <3> QED
      BY <2>4, <3>1, <3>3, <3>4, <3>5, FullStaysFull
  <2> QED
    BY <2>5, <2>6
<1>8. ASSUME NEW v \in Value, PackInNewBin(v)
      PROVE  BinsAreFull'
  <2> DEFINE b == [values |-> {v}, count |-> ValueCount(node, label, v)]
             n == Len(bins)
  <2>1. /\ pc = "pack" /\ UNCHANGED <<task, node, label>>
        /\ bins' = Append(bins, b)
        /\ \A j \in DOMAIN bins : ~Fits(bins[j], ValueCount(node, label, v))
    BY <1>8 DEF PackInNewBin
  <2>2. b.values = {v}
    OBVIOUS
  <2> HIDE DEF b
  <2>3. /\ DOMAIN bins' = 1..(n + 1)
        /\ \A i \in 1..n : bins'[i] = bins[i]
        /\ bins'[n + 1] = b
    BY <1>5, <2>1
  <2>4. n \in Nat /\ DOMAIN bins = 1..n
    BY <1>5
  <2> HIDE DEF n
  <2>5. SUFFICES ASSUME NEW i \in 1..(n + 1), NEW j \in 1..(n + 1), i < j,
                        NEW w \in bins'[j].values
                 PROVE  ~Fits(bins'[i], ValueCount(node, label, w))
    BY <1>3, <2>1, <2>3 DEF BinsAreFull, Fits
  <2>6. i \in 1..n /\ bins'[i] = bins[i]
    BY <2>3, <2>4, <2>5
  <2>7. CASE j \in 1..n
    BY <2>1, <2>3, <2>4, <2>5, <2>6, <2>7 DEF BinsAreFull
  <2>8. CASE j = n + 1
    BY <2>1, <2>2, <2>3, <2>4, <2>5, <2>6, <2>8
  <2> QED
    BY <2>4, <2>7, <2>8
<1>9. ASSUME \/ FastCountWithinLimit \/ FastCountOverLimit \/ CountTotal \/ SplitEnds
             \/ OutOfLabels \/ Packed \/ Remainder \/ SplitFails
      PROVE  FALSE
  BY <1>9 DEF FastCountWithinLimit, FastCountOverLimit, CountTotal, SplitEnds, OutOfLabels,
    Packed, Remainder, SplitFails
<1> QED
  BY <1>1, <1>2, <1>6, <1>7, <1>8, <1>9 DEF Next, SplitStep

-----------------------------------------------------------------------------
(* The ranking.                                                              *)

LEMMA OpenPairs ==
  ASSUME NEW s, NEW l
  PROVE  <<s, l>> \in Open
           <=> /\ s \in task /\ l \in Label
               /\ \/ \E i \in DOMAIN todo : s \in Part(task, todo[i].sel) /\ l \notin DOMAIN todo[i].sel
                  \/ pc = "pack" /\ s \in Part(task, node) /\ l \notin DOMAIN node \union {label}
  BY Translate DEF Open

\* Every pair of Open' has a pair of Open, when the nodes on the stack only
\* lose series or gain labels.
LEMMA OpenShrinks ==
  ASSUME task' = task, pc' # "pack",
         \A i \in DOMAIN todo' :
           \/ \E j \in DOMAIN todo : todo'[i].sel = todo[j].sel
           \/ /\ pc = "pack"
              /\ Part(task, todo'[i].sel) \subseteq Part(task, node)
              /\ DOMAIN node \union {label} \subseteq DOMAIN todo'[i].sel
  PROVE  Open' \subseteq Open
<1> SUFFICES ASSUME NEW p \in Open' PROVE p \in Open
  OBVIOUS
<1>1. p \in task \X Label
  BY DEF Open
<1>2. PICK s \in task, l \in Label : p = <<s, l>>
  BY <1>1
<1>3. PICK i \in DOMAIN todo' : s \in Part(task, todo'[i].sel) /\ l \notin DOMAIN todo'[i].sel
  BY <1>2 DEF Open, Matching, Part
<1>4. CASE \E j \in DOMAIN todo : todo'[i].sel = todo[j].sel
  BY <1>2, <1>3, <1>4, OpenPairs
<1>5. CASE /\ pc = "pack"
           /\ Part(task, todo'[i].sel) \subseteq Part(task, node)
           /\ DOMAIN node \union {label} \subseteq DOMAIN todo'[i].sel
  BY <1>2, <1>3, <1>5, OpenPairs
<1> QED
  BY <1>4, <1>5

LEMMA StepsOfTail ==
  ASSUME NEW S, NEW q \in Seq(S), q # <<>>
  PROVE  /\ Len(q) \in Nat \ {0} /\ Len(Tail(q)) = Len(q) - 1
         /\ 1 \in DOMAIN q /\ Head(q) = q[1]
         /\ \A i \in DOMAIN Tail(q) : \E j \in DOMAIN q : j # 1 /\ Tail(q)[i] = q[j]
<1>1. /\ Len(q) \in Nat \ {0} /\ DOMAIN q = 1..Len(q) /\ Head(q) = q[1]
  BY EmptySeq, LenProperties, HeadTailProperties
<1>2. /\ Tail(q) \in Seq(S) /\ Len(Tail(q)) = Len(q) - 1
      /\ \A i \in 1..Len(q) - 1 : Tail(q)[i] = q[i + 1]
      /\ DOMAIN Tail(q) = 1..Len(q) - 1
  BY <1>1, HeadTailProperties, LenProperties
<1>3. \A i \in 1..Len(q) - 1 : i + 1 \in 1..Len(q) /\ i + 1 # 1
  BY <1>1
<1> QED
  BY <1>1, <1>2, <1>3

LEMMA MembersOfConcat ==
  ASSUME NEW S, NEW p \in Seq(S), NEW q \in Seq(S)
  PROVE  /\ Len(p \o q) = Len(p) + Len(q)
         /\ \A i \in DOMAIN (p \o q) : \/ \E j \in DOMAIN p : (p \o q)[i] = p[j]
                                     \/ \E j \in DOMAIN q : (p \o q)[i] = q[j]
<1>1. /\ Len(p) \in Nat /\ DOMAIN p = 1..Len(p)
      /\ Len(q) \in Nat /\ DOMAIN q = 1..Len(q)
  BY LenProperties
<1>2. /\ p \o q \in Seq(S)
      /\ Len(p \o q) = Len(p) + Len(q)
      /\ \A i \in 1..Len(p) + Len(q) : (p \o q)[i] = IF i <= Len(p) THEN p[i] ELSE q[i - Len(p)]
  BY ConcatProperties
<1>3. DOMAIN (p \o q) = 1..Len(p) + Len(q)
  BY <1>2, LenProperties
<1>4. \A i \in 1..Len(p) + Len(q) : i \in 1..Len(p) \/ (~(i <= Len(p)) /\ i - Len(p) \in 1..Len(q))
  BY <1>1
<1> QED
  BY <1>1, <1>2, <1>3, <1>4

LEMMA StagesCountDown ==
  ASSUME \/ FastCountWithinLimit \/ FastCountOverLimit \/ CountTotal \/ SplitEnds \/ SplitFails
  PROVE  Stage' < Stage
<1>1. \/ pc = "check" /\ pc' \in {"kept", "count"}
      \/ pc = "count" /\ pc' \in {"next", "error"}
      \/ pc = "next" /\ pc' \in {"kept", "split", "error"}
  BY DEF FastCountWithinLimit, FastCountOverLimit, CountTotal, SplitEnds, SplitFails
<1> QED
  BY <1>1 DEF Stage, Outcome

\* A node leaves the stack, or comes back once as one to split.
LEMMA StackCountsDown ==
  ASSUME SplitInv, task' = task, pc = "next", pc' = "next", todo # <<>>,
         \/ todo' = Tail(todo)
         \/ /\ Head(todo).kind = "remainder"
            /\ todo' = <<Node("split", Head(todo).sel)>> \o Tail(todo)
  PROVE  LessToSplit
<1>1. todo \in Seq(Todo(task))
  BY DEF SplitInv, Types
<1>2. /\ Len(todo) \in Nat \ {0} /\ Len(Tail(todo)) = Len(todo) - 1
      /\ 1 \in DOMAIN todo /\ Head(todo) = todo[1]
      /\ \A i \in DOMAIN Tail(todo) : \E j \in DOMAIN todo : Tail(todo)[i] = todo[j]
  BY <1>1, StepsOfTail
<1>3. Stage' = Stage
  BY DEF Stage, Outcome
<1>4. CASE todo' = Tail(todo)
  <2>1. Open' \subseteq Open
    BY <1>2, <1>4, OpenShrinks
  <2>2. StackRank' < StackRank
    BY <1>2, <1>4 DEF StackRank
  <2> QED
    BY <1>3, <2>1, <2>2 DEF LessToSplit
<1>5. CASE /\ Head(todo).kind = "remainder"
           /\ todo' = <<Node("split", Head(todo).sel)>> \o Tail(todo)
  <2> PICK y, t, Y : y = Node("split", Head(todo).sel) /\ t = Tail(todo) /\ Y = <<y>>
    OBVIOUS
  <2>1. y.kind = "split" /\ y.sel = todo[1].sel
    BY <1>2 DEF Node
  <2> DEFINE S == {y} \union Todo(task)
  <2>2. /\ Y \in Seq(S) /\ Len(Y) = 1 /\ DOMAIN Y = {1} /\ Y[1] = y
    OBVIOUS
  <2>3. t \in Seq(S)
    <3>1. Tail(todo) \in Seq(Todo(task))
      BY HeadOfStack
    <3> QED
      BY <3>1, SeqMonotonic
  <2> HIDE DEF S
  <2>4. todo' = Y \o t
    BY <1>5
  <2>5. /\ Len(Y \o t) = Len(Y) + Len(t)
        /\ \A i \in DOMAIN (Y \o t) : \/ \E j \in DOMAIN Y : (Y \o t)[i] = Y[j]
                                    \/ \E j \in DOMAIN t : (Y \o t)[i] = t[j]
    BY <2>2, <2>3, MembersOfConcat
  <2>6. \A i \in DOMAIN todo' : \E j \in DOMAIN todo : todo'[i].sel = todo[j].sel
    <3>1. \A j \in DOMAIN t : \E k \in DOMAIN todo : t[j] = todo[k]
      BY <1>2
    <3>2. PICK q : q = Y \o t
      OBVIOUS
    <3>3. \A i \in DOMAIN q : q[i] = y \/ \E j \in DOMAIN t : q[i] = t[j]
      BY <2>2, <2>5, <3>2
    <3>4. \A i \in DOMAIN q : \E j \in DOMAIN todo : q[i].sel = todo[j].sel
      BY <1>2, <2>1, <3>1, <3>3
    <3> QED
      BY <2>4, <3>2, <3>4
  <2>7. Open' \subseteq Open
    BY <2>6, OpenShrinks
  <2>8. Len(todo') = Len(todo) /\ Head(todo') = y
    <3>1. Len(todo') = 1 + Len(t)
      BY <2>2, <2>4, <2>5
    <3>2. Len(t) = Len(todo) - 1
      BY <1>2
    <3>3. (Y \o t)[1] = y /\ Head(Y \o t) = (Y \o t)[1]
      BY <2>2, <2>3
    <3>4. Len(todo') = Len(todo)
      <4>1. PICK n \in Nat : n = Len(todo)
        BY <1>2
      <4>2. Len(t) = n - 1
        BY <3>2, <4>1
      <4> QED
        BY <3>1, <4>1, <4>2
    <3>5. Head(todo') = y
      BY <2>4, <3>3
    <3> QED
      BY <3>4, <3>5
  <2>9. StackRank' < StackRank
    <3>1. StackRank' = 2 * Len(todo)
      <4>1. ~(todo' # <<>> /\ Head(todo').kind = "remainder")
        BY ONLY <2>1, <2>8
      <4>2. StackRank' = 2 * Len(todo') + 0
        BY ONLY <4>1, Zenon DEF StackRank
      <4>3. PICK n \in Nat : n = Len(todo) /\ n = Len(todo')
        BY ONLY <1>2, <2>8
      <4> QED
        BY ONLY <4>2, <4>3
    <3>2. StackRank = 2 * Len(todo) + 1
      BY <1>5 DEF StackRank
    <3> QED
      BY <1>2, <3>1, <3>2
  <2> QED
    BY <1>3, <2>7, <2>9 DEF LessToSplit
<1> QED
  BY <1>4, <1>5

LEMMA RemainderCountsDown ==
  ASSUME SplitInv, Remainder
  PROVE  LessToSplit
<1>1. /\ UNCHANGED <<task, pc>> /\ pc = "next" /\ todo # <<>> /\ Head(todo).kind = "remainder"
      /\ RemainderCounted(Head(todo).sel) \/ RemainderCountFails(Head(todo).sel)
  BY DEF Remainder
<1>2. \/ todo' = Tail(todo)
      \/ todo' = <<Node("split", Head(todo).sel)>> \o Tail(todo)
  BY <1>1 DEF RemainderCounted, RemainderCountFails
<1> QED
  BY <1>1, <1>2, StackCountsDown

LEMMA PackingCountsDown ==
  ASSUME SplitInv, pc = "pack", UNCHANGED <<task, pc, todo, node, label>>,
         NEW v \in rest, rest' = rest \ {v}
  PROVE  LessToSplit
<1>1. Stage' = Stage
  BY DEF Stage, Outcome
<1>2. Open' = Open
  BY DEF Open, Matching
<1> QED
  BY <1>1, <1>2 DEF LessToSplit

LEMMA PackedCountsDown ==
  ASSUME SplitInv, Packed
  PROVE  LessToSplit
<1> DEFINE R == <<RemainderNode>>
           N == OversizedNodes \o R
<1>1. /\ UNCHANGED <<task, node, label>>
      /\ pc = "pack" /\ pc' = "next" /\ rest = {}
      /\ todo' = N \o todo
  BY DEF Packed
<1>2. OversizedNodes \in Seq(Todo(task)) /\ RemainderNode \in Todo(task)
  BY <1>1, PackedPieces
<1>3. R \in Seq(Todo(task)) /\ DOMAIN R = {1} /\ R[1] = RemainderNode
  BY <1>2
<1> HIDE DEF R
<1>4. N \in Seq(Todo(task))
  BY <1>2, <1>3, ConcatProperties
<1>5. \A i \in DOMAIN N : N[i] = RemainderNode \/ \E j \in DOMAIN OversizedNodes : N[i] = OversizedNodes[j]
  BY <1>2, <1>3, MembersOfConcat
<1> HIDE DEF N
<1>6. todo \in Seq(Todo(task))
  BY DEF SplitInv, Types
<1>7. \A i \in DOMAIN todo' : \/ \E j \in DOMAIN N : todo'[i] = N[j]
                             \/ \E j \in DOMAIN todo : todo'[i] = todo[j]
  BY <1>1, <1>4, <1>6, MembersOfConcat
<1>8. label \notin DOMAIN node
  BY <1>1 DEF SplitInv, Phases
<1>9. \A W : /\ Part(task, Constrain(node, label, W)) \subseteq Part(task, node)
             /\ DOMAIN node \union {label} \subseteq DOMAIN Constrain(node, label, W)
  <2> TAKE W
  <2>1. Part(task, Constrain(node, label, W)) = {s \in Part(task, node) : s[label] \in W}
    BY <1>8, PartConstrain
  <2>2. DOMAIN Constrain(node, label, W) = DOMAIN node \union {label}
    BY DEF Constrain
  <2> HIDE DEF Part
  <2> QED
    BY <2>1, <2>2
<1>10. \A i \in DOMAIN N : \E W : N[i].sel = Constrain(node, label, W)
  <2>1. RemainderNode.sel = Constrain(node, label, {Missing})
    BY DEF RemainderNode, Node
  <2>2. \A j \in DOMAIN OversizedNodes :
          OversizedNodes[j].sel = Constrain(node, label, {oversized[j]})
    BY DEF OversizedNodes, Node
  <2> QED
    BY <1>5, <2>1, <2>2
<1>11. Open' \subseteq Open
  <2>1. ASSUME NEW i \in DOMAIN todo'
        PROVE  \/ \E j \in DOMAIN todo : todo'[i].sel = todo[j].sel
               \/ /\ pc = "pack"
                  /\ Part(task, todo'[i].sel) \subseteq Part(task, node)
                  /\ DOMAIN node \union {label} \subseteq DOMAIN todo'[i].sel
    BY <1>1, <1>7, <1>9, <1>10
  <2> QED
    BY <1>1, <2>1, OpenShrinks
<1>12. Stage' = Stage
  BY <1>1 DEF Stage, Outcome
<1> QED
  BY <1>1, <1>11, <1>12 DEF LessToSplit

\* The label is used up for the series that have it, and one has.
LEMMA ChooseLabelCountsDown ==
  ASSUME SplitInv, NEW l \in Label, ChooseLabel(l)
  PROVE  LessToSplit
<1> PICK sel : sel = Head(todo).sel
  OBVIOUS
<1>1. /\ task' = task
      /\ pc = "next" /\ pc' = "pack" /\ todo # <<>> /\ todo' = Tail(todo)
      /\ l \in Candidates(sel) /\ node' = sel /\ label' = l
  BY DEF ChooseLabel
<1>2. todo \in Seq(Todo(task)) /\ Part(task, sel) \intersect AllOf(task, Tail(todo)) = {}
  BY <1>1, HeadOfStack DEF SplitInv, Types
<1>3. /\ 1 \in DOMAIN todo /\ sel = todo[1].sel
      /\ \A i \in DOMAIN Tail(todo) : \E j \in DOMAIN todo : Tail(todo)[i] = todo[j]
  BY <1>1, <1>2, StepsOfTail
<1>4. \A s, k : <<s, k>> \in Open'
               <=> /\ s \in task /\ k \in Label
                   /\ \/ \E i \in DOMAIN Tail(todo) : /\ s \in Part(task, Tail(todo)[i].sel)
                                                    /\ k \notin DOMAIN Tail(todo)[i].sel
                      \/ s \in Part(task, sel) /\ k \notin DOMAIN sel \union {l}
  BY <1>1 DEF Open, Matching, Part
<1>5. Open' \subseteq Open
  <2> SUFFICES ASSUME NEW p \in Open' PROVE p \in Open
    OBVIOUS
  <2>1. PICK s \in task, k \in Label : p = <<s, k>>
    BY <1>1 DEF Open
  <2> QED
    BY <1>3, <1>4, <2>1, OpenPairs
<1>6. PICK s \in Part(task, sel) : l \notin DOMAIN sel
  BY <1>1, Translate DEF Splittable
<1>7. s \in task
  BY DEF Part
<1>8. <<s, l>> \in Open
  BY <1>3, <1>6, <1>7, OpenPairs
<1>9. <<s, l>> \notin Open'
  <2>1. \A i \in DOMAIN Tail(todo) : s \notin Part(task, Tail(todo)[i].sel)
    BY <1>2 DEF AllOf
  <2> QED
    BY <1>4, <2>1
<1>10. Stage' = Stage
  BY <1>1 DEF Stage, Outcome
<1> QED
  BY <1>5, <1>8, <1>9, <1>10 DEF LessToSplit

-----------------------------------------------------------------------------
(* Theorems.                                                                 *)

\* The invariant holds in every reachable state, whichever labels are chosen,
\* however equal scores and counts are sorted, and whichever requests fail.
THEOREM SplitterInvariant == Spec => []SplitInv
<1>1. Init => SplitInv
  BY InitEstablishes
<1>2. SplitInv /\ [Next]_vars => SplitInv'
  <2> SUFFICES ASSUME SplitInv, [Next]_vars PROVE SplitInv'
    OBVIOUS
  <2>1. CASE FastCountWithinLimit \/ FastCountOverLimit \/ SplitEnds \/ SplitFails
    BY <2>1, MovesPreserve
  <2>2. CASE CountTotal
    BY <2>2, CountTotalPreserves
  <2>3. CASE OutOfLabels
    BY <2>3, OutOfLabelsPreserves
  <2>4. CASE \E l \in Label : ChooseLabel(l)
    BY <2>4, ChooseLabelPreserves
  <2>5. CASE \E v \in Value : PackOversized(v)
    BY <2>5, PackOversizedPreserves
  <2>6. CASE \E v \in Value, i \in DOMAIN bins : PackInBin(v, i)
    BY <2>6, PackInBinPreserves
  <2>7. CASE \E v \in Value : PackInNewBin(v)
    BY <2>7, PackInNewBinPreserves
  <2>8. CASE Packed
    BY <2>8, PackedPreserves
  <2>9. CASE Remainder
    BY <2>9, RemainderPreserves
  <2>10. CASE UNCHANGED vars
    BY <2>10 DEF vars, SplitInv, Types, Phases, HeldOnce, Disjoint, Covered, LostForGood,
      Gone, InHand, Packing
  <2> QED
    BY <2>1, <2>2, <2>3, <2>4, <2>5, <2>6, <2>7, <2>8, <2>9, <2>10 DEF Next, SplitStep
<1> QED
  BY <1>1, <1>2, PTL DEF Spec

LEMMA SequencesOfSelectors ==
  ASSUME SplitInv
  PROVE  /\ \A i \in DOMAIN out : out[i] \in Made(task)
         /\ \A i \in DOMAIN todo : todo[i] \in Todo(task)
         /\ \A i \in DOMAIN bins : bins[i] \in Bin(task, node, label)
         /\ ToSet(oversized) \subseteq Value /\ rest \subseteq Value
<1>1. /\ out \in Seq(Made(task)) /\ todo \in Seq(Todo(task))
      /\ bins \in Seq(Bin(task, node, label))
      /\ oversized \in Seq(TooLarge(task, node, label))
      /\ rest \subseteq Present(task, node, label)
  BY DEF SplitInv, Types
<1>2. \A i \in DOMAIN oversized : oversized[i] \in TooLarge(task, node, label)
  BY <1>1, LenProperties, ElementOfSeq
<1>3. ToSet(oversized) \subseteq Value
  BY <1>2 DEF ToSet, TooLarge
<1> QED
  BY <1>1, <1>3, LenProperties, ElementOfSeq DEF Present

LEMMA SelectorType ==
  ASSUME NEW c \in Sel
  PROVE  /\ DOMAIN c \subseteq Label
         /\ \A k \in DOMAIN c : c[k] \subseteq Value \union {Missing}
  BY DEF Sel

\* Type correctness: what BinPack holds are values, selectors constrain labels
\* to values, an estimate never exceeds the task, and what is dropped was in it.
THEOREM SplitterTypes == Spec => []SplitterTypeOK
<1>1. SplitInv => SplitterTypeOK
  <2> SUFFICES ASSUME SplitInv PROVE SplitterTypeOK
    OBVIOUS
  <2>1. /\ \A i \in DOMAIN out : out[i] \in Made(task)
        /\ \A i \in DOMAIN todo : todo[i] \in Todo(task)
        /\ \A i \in DOMAIN bins : bins[i] \in Bin(task, node, label)
        /\ ToSet(oversized) \subseteq Value /\ rest \subseteq Value
    BY SequencesOfSelectors
  <2>2. task \subseteq Series /\ pc \in PC /\ label \in Label \union {Missing}
    BY DEF SplitInv, Types
  <2>3. {d.series : d \in dropped} \subseteq task
    BY DEF SplitInv, Types, Gone
  <2>4. \A i \in DOMAIN todo : todo[i].kind \in {"split", "remainder"}
    BY <2>1 DEF Todo
  <2>5. \A i \in DOMAIN out : out[i].est \in 0..Cardinality(task)
    BY <2>1 DEF Made
  <2>6. \A sel \in Selectors \union Waiting \union {node} : sel \in Sel
    BY <2>1 DEF Selectors, Waiting, Made, Todo, SplitInv, Types
  <2>7. \A sel \in Selectors \union Waiting \union {node} :
          /\ DOMAIN sel \subseteq Label
          /\ \A l \in DOMAIN sel : sel[l] \subseteq Value \union {Missing}
    BY <2>6, SelectorType
  <2>8. \A i \in DOMAIN bins : bins[i].values \subseteq Value
    BY <2>1 DEF Bin
  <2>9. Packing \subseteq Value
    BY <2>1, <2>8 DEF Packing
  <2> QED
    BY <2>2, <2>3, <2>4, <2>5, <2>7, <2>9 DEF SplitterTypeOK
<1> QED
  BY <1>1, SplitterInvariant, PTL

\* No two sub-tasks match the same series.
THEOREM SubTasksAreDisjoint == Spec => []SelectorsDisjoint
<1>1. SplitInv => SelectorsDisjoint
  BY Translate DEF SplitInv, Disjoint, Apart, SelectorsDisjoint
<1> QED
  BY <1>1, SplitterInvariant, PTL

\* Every series of the task is in a sub-task, in a piece still to be split, or
\* was dropped by a truncated response or a failed count of the remainder.
THEOREM NoSeriesIsForgotten == Spec => []NothingForgotten
<1>1. SplitInv => NothingForgotten
  <2> SUFFICES ASSUME SplitInv, pc \in {"next", "pack", "split"}
      PROVE  task = (UNION {Matching(sel) : sel \in Selectors \union Waiting})
                    \union {d.series : d \in dropped}
                    \union (IF pc = "pack"
                            THEN Matching(Constrain(node, label, Packing \union {Missing}))
                            ELSE {})
    BY DEF NothingForgotten
  <2>1. UNION {Matching(sel) : sel \in Selectors \union Waiting}
          = AllOf(task, out) \union AllOf(task, todo)
    <3>1. \A s : s \in AllOf(task, out) \union AllOf(task, todo)
             <=> \/ \E i \in DOMAIN out : s \in Part(task, out[i].sel)
                 \/ \E i \in DOMAIN todo : s \in Part(task, todo[i].sel)
      BY DEF AllOf
    <3>2. \A s : s \in UNION {Matching(sel) : sel \in Selectors \union Waiting}
             <=> \E sel \in Selectors \union Waiting : s \in Part(task, sel)
      BY Translate
    <3>3. \A s : (\E sel \in Selectors \union Waiting : s \in Part(task, sel))
             <=> \/ \E i \in DOMAIN out : s \in Part(task, out[i].sel)
                 \/ \E i \in DOMAIN todo : s \in Part(task, todo[i].sel)
      BY Zenon DEF Selectors, Waiting
    <3> QED
      BY <3>1, <3>2, <3>3
  <2>2. pc = "pack" => Matching(Constrain(node, label, Packing \union {Missing})) = InHand
    BY Translate, PartConstrain DEF InHand, SplitInv, Phases
  <2>3. task = AllOf(task, out) \union AllOf(task, todo) \union Gone
               \union (IF pc = "pack" THEN InHand ELSE {})
    BY DEF SplitInv, Covered
  <2> QED
    BY <2>1, <2>2, <2>3 DEF Gone
<1> QED
  BY <1>1, SplitterInvariant, PTL

\* Bins keep both limits and count what they match.
THEOREM BinsKeepTheirLimits == Spec => []BinsWithinLimits
<1>1. SplitInv => BinsWithinLimits
  <2> SUFFICES ASSUME SplitInv, NEW i \in DOMAIN bins
      PROVE  /\ bins[i].count <= MaxSeries
             /\ Cardinality(bins[i].values) <= Max({1, MaxValues})
             /\ bins[i].count = SeriesCount(Constrain(node, label, bins[i].values))
    BY DEF BinsWithinLimits
  <2>1. bins[i] \in Bin(task, node, label)
    BY SequencesOfSelectors
  <2>2. /\ bins[i].count \in 1..MaxSeries
        /\ Cardinality(bins[i].values) <= Max({1, MaxValues})
        /\ bins[i].count = Size(task, Constrain(node, label, bins[i].values))
    BY <2>1 DEF Bin
  <2> QED
    BY <2>2, Translate
<1> QED
  BY <1>1, SplitterInvariant, PTL

\* The promise that selectors match at most maxSeries series (splitter.go:18-19)
\* is broken in one case only: no label is left to split by.  No sub-task is empty.
THEOREM OverLimitIsUnsplittable == Spec => []OverLimitOnlyWithoutLabels
<1>1. SplitInv => OverLimitOnlyWithoutLabels
  <2> SUFFICES ASSUME SplitInv, NEW i \in DOMAIN out
      PROVE  /\ SeriesCount(out[i].sel) > MaxSeries => Candidates(out[i].sel) = {}
             /\ SeriesCount(out[i].sel) > 0
    BY DEF OverLimitOnlyWithoutLabels, Selectors
  <2> QED
    BY SequencesOfSelectors, Translate DEF Made
<1> QED
  BY <1>1, SplitterInvariant, PTL

\* First fit: no bin is opened, and none filled, with a value that an earlier
\* one would take (BinPack).
THEOREM PackingIsFirstFit == Spec => []BinsAreFull
<1>1. Init => BinsAreFull
  BY DEF Init, BinsAreFull
<1>2. SplitInv /\ BinsAreFull /\ [Next]_vars => BinsAreFull'
  BY BinsAreFullStep
<1> QED
  BY <1>1, <1>2, SplitterInvariant, PTL DEF Spec

\* A split that resplitFailedTask hands to the run keeps the contract that
\* Coverage assumes of it.
THEOREM SplitKeepsContract == Spec => []KeepsSplitContract
<1>1. SplitInv => KeepsSplitContract
  <2> SUFFICES ASSUME SplitInv, pc = "split"
               PROVE  /\ Len(out) >= 2
                      /\ IsSplit(task, [i \in DOMAIN out |-> Matching(out[i].sel)], Gone)
    BY DEF KeepsSplitContract, Gone
  <2>1. todo = <<>> /\ Len(out) >= 2
    BY DEF SplitInv, Phases
  <2>2. AllOf(task, todo) = {}
    BY <2>1, NoPieces
  <2>3. task = AllOf(task, out) \union Gone /\ Gone \intersect AllOf(task, out) = {}
    BY <2>2 DEF SplitInv, Covered, LostForGood
  <2> DEFINE parts == [i \in DOMAIN out |-> Matching(out[i].sel)]
  <2>4. DOMAIN parts = DOMAIN out /\ \A i \in DOMAIN out : parts[i] = Part(task, out[i].sel)
    BY Translate
  <2> HIDE DEF parts
  <2>5. UNION {parts[i] : i \in DOMAIN parts} = AllOf(task, out)
    BY <2>4 DEF AllOf
  <2>6. \A i \in DOMAIN out : parts[i] # {} /\ parts[i] \subseteq AllOf(task, out)
    BY <2>4, SequencesOfSelectors, SizeLemma DEF AllOf, Made, SplitInv, Types
  <2>7. \A i, j \in DOMAIN out : i # j => parts[i] \intersect parts[j] = {}
    BY <2>4 DEF SplitInv, Disjoint, Apart
  <2>8. IsSplit(task, parts, Gone)
    BY <2>3, <2>4, <2>5, <2>6, <2>7 DEF IsSplit
  <2> QED
    BY <2>1, <2>8 DEF parts
<1> QED
  BY <1>1, SplitterInvariant, PTL

\* Every step of a split leaves less to split: a stage is over, a series has a
\* label less, a value is placed, or a node is off the stack.
THEOREM SplitsRunOut == Spec => EveryStepCountsDown
<1>1. SplitInv /\ Next => LessToSplit
  <2> SUFFICES ASSUME SplitInv, Next PROVE LessToSplit
    OBVIOUS
  <2>1. CASE FastCountWithinLimit \/ FastCountOverLimit \/ CountTotal \/ SplitEnds \/ SplitFails
    BY <2>1, StagesCountDown DEF LessToSplit
  <2>2. CASE OutOfLabels
    BY <2>2, StackCountsDown DEF OutOfLabels
  <2>3. CASE \E l \in Label : ChooseLabel(l)
    BY <2>3, ChooseLabelCountsDown
  <2>4. CASE \/ \E v \in Value : PackOversized(v)
             \/ \E v \in Value, i \in DOMAIN bins : PackInBin(v, i)
             \/ \E v \in Value : PackInNewBin(v)
    <3>1. PICK v \in rest : rest' = rest \ {v} /\ pc = "pack" /\ UNCHANGED <<task, pc, todo, node, label>>
      BY <2>4 DEF PackOversized, PackInBin, PackInNewBin, Largest
    <3> QED
      BY <3>1, PackingCountsDown
  <2>5. CASE Packed
    BY <2>5, PackedCountsDown
  <2>6. CASE Remainder
    BY <2>6, RemainderCountsDown
  <2> QED
    BY <2>1, <2>2, <2>3, <2>4, <2>5, <2>6 DEF Next, SplitStep
<1>2. SplitInv /\ [Next]_vars => [LessToSplit]_vars
  BY <1>1
<1> QED
  BY <1>2, SplitterInvariant, PTL DEF Spec, EveryStepCountsDown

=============================================================================
