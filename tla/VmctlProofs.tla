---------------------------- MODULE VmctlProofs ----------------------------
(* Proofs about Vmctl: the logs of a call are complete and a complaint about a *)
(* series limit is noticed, for any number and size of lines and any capacity  *)
(* of pipes and scanners.                                                      *)
EXTENDS Vmctl, SequenceLemmas, TLAPS

\* The chunks of line n that were written.
Written(n) == IF n < Len(printed) THEN printed[n].size ELSE part
Chunks(s) == {c \in Chunk : printed[c.line].to = s /\ c.pos <= Written(c.line)}
Before(c, d) == c.line < d.line \/ (c.line = d.line /\ c.pos < d.pos)

\* Where the processes can be with respect to each other.
Stages ==
  /\ vmctl = "none" => printed = <<>> /\ logLines = <<>>
  /\ call = "start" => vmctl = "none"
  /\ call \in {"read", "wait"} => vmctl # "none"
  /\ printed = <<>> => part = 0
  /\ printed # <<>> => part <= printed[Len(printed)].size
  /\ call \in {"wait", "done"} /\ vmctl # "none" => \A s \in Stream : scanner[s] # "reading"
  /\ \A s \in Stream : scanner[s] = "eof" => vmctl = "exited"

\* While a scanner reads, every chunk written is in the log, in the buffer or in
\* the pipe; the buffer holds the beginning of one line.
ReadingInv(s) ==
  scanner[s] = "reading" =>
    /\ \A c \in Chunks(s) : \/ c.line \in Logged(s)
                            \/ c \in ToSet(buf[s])
                            \/ c \in ToSet(pipe[s])
    /\ ToSet(pipe[s]) \subseteq Chunks(s)
    /\ \A n \in Logged(s) : printed[n].size <= BufSize /\ Written(n) = printed[n].size
    /\ \A n \in Logged(s), c \in ToSet(buf[s]) \union ToSet(pipe[s]) : n < c.line
    /\ \A i \in 1..Len(buf[s]) : /\ buf[s][i] \in Chunks(s)
                                 /\ buf[s][i] = [line |-> buf[s][1].line, pos |-> i]
                                 /\ i < printed[buf[s][1].line].size
    /\ \A c \in ToSet(buf[s]), d \in ToSet(pipe[s]) : Before(c, d)
    /\ \A i, j \in 1..Len(pipe[s]) : i < j => Before(pipe[s][i], pipe[s][j])

\* A scanner that gave up did so at a line that is too long, after all before it.
TooLongInv(s) ==
  scanner[s] = "tooLong" =>
    \E L \in LinesOf(s) :
      /\ TooLong(L)
      /\ Logged(s) = {n \in LinesOf(s) : n < L}
      /\ \A n \in Logged(s) : printed[n].size <= BufSize

EofInv(s) ==
  scanner[s] = "eof" => Logged(s) = LinesOf(s) /\ \A n \in LinesOf(s) : ~TooLong(n)

InOrder ==
  \A i, j \in DOMAIN logLines :
    i < j /\ printed[logLines[i]].to = printed[logLines[j]].to => logLines[i] < logLines[j]

ScanInv == \A s \in Stream : ReadingInv(s) /\ TooLongInv(s) /\ EofInv(s)
VmctlInv == VmctlTypeOK /\ Stages /\ ScanInv /\ InOrder

-----------------------------------------------------------------------------
(* Facts about one state.                                                   *)

LEMMA StreamFacts == Stream = {"stdout", "stderr"}
  BY DEF Stream

\* What is written of the lines.
LEMMA WrittenFacts ==
  ASSUME VmctlTypeOK, Stages
  PROVE  /\ Len(printed) \in Nat
         /\ part \in Nat
         /\ \A n \in 1..Len(printed) :
              /\ printed[n] \in Line
              /\ printed[n].to \in Stream
              /\ printed[n].size \in 1..MaxSize
              /\ printed[n].size \in Nat
              /\ Written(n) \in 0..printed[n].size
              /\ Written(n) \in Nat
              /\ TooLong(n) <=> printed[n].size > BufSize /\ Written(n) >= BufSize
         /\ \A s \in Stream : \A n :
              n \in LinesOf(s) <=> n \in 1..Len(printed) /\ printed[n].to = s /\ Written(n) >= 1
<1>1. /\ Len(printed) \in Nat /\ part \in Nat /\ MaxSize \in Nat /\ BufSize \in Nat \ {0}
      /\ \A n \in 1..Len(printed) : printed[n] \in Line
  BY VmctlAssumption, LenProperties, ElementOfSeq DEF VmctlTypeOK
<1>2. ASSUME NEW n \in 1..Len(printed)
      PROVE  printed[n].to \in Stream /\ printed[n].size \in 1..MaxSize
  <2>1. printed[n] \in Line
    BY <1>1
  <2> QED
    BY <2>1 DEF Line
<1>3. ASSUME NEW n \in 1..Len(printed) PROVE Written(n) \in 0..printed[n].size
  <2>1. CASE n < Len(printed)
    BY <1>1, <1>2, <2>1 DEF Written
  <2>2. CASE n = Len(printed)
    <3>1. printed # <<>>
      BY <1>1, <2>2, EmptySeq DEF VmctlTypeOK
    <3> QED
      BY <1>1, <1>2, <2>2, <3>1 DEF Written, Stages
  <2> QED
    BY <1>1, <2>1, <2>2
<1>4. ASSUME NEW n \in 1..Len(printed)
      PROVE  TooLong(n) <=> printed[n].size > BufSize /\ Written(n) >= BufSize
  BY <1>1, <1>2, <1>4 DEF Written, TooLong
<1>5. ASSUME NEW s \in Stream, NEW n
      PROVE  n \in LinesOf(s) <=> n \in 1..Len(printed) /\ printed[n].to = s /\ Written(n) >= 1
  <2>1. CASE n \in 1..Len(printed)
    BY <1>1, <1>2, <2>1 DEF Written, LinesOf
  <2>2. CASE n \notin 1..Len(printed)
    BY <2>2 DEF LinesOf
  <2> QED
    BY <2>1, <2>2
<1>6. ASSUME NEW n \in 1..Len(printed) PROVE printed[n].size \in Nat /\ Written(n) \in Nat
  BY <1>1, <1>2, <1>3
<1> QED
  BY <1>1, <1>2, <1>3, <1>4, <1>5, <1>6

\* The chunks written on a stream.
LEMMA ChunkFacts ==
  ASSUME VmctlTypeOK, Stages, NEW s \in Stream
  PROVE  /\ \A c \in Chunks(s) :
              /\ c \in Chunk
              /\ c.line \in 1..Len(printed) /\ c.line \in Nat
              /\ c.pos \in 1..Written(c.line) /\ c.pos \in Nat
              /\ printed[c.line].to = s
              /\ c.line \in LinesOf(s)
              /\ c = [line |-> c.line, pos |-> c.pos]
         /\ \A n \in LinesOf(s) : \A p \in 1..Written(n) : [line |-> n, pos |-> p] \in Chunks(s)
<1>1. ASSUME NEW c \in Chunks(s)
      PROVE  /\ c \in Chunk
             /\ c.line \in 1..Len(printed) /\ c.line \in Nat
             /\ c.pos \in 1..Written(c.line) /\ c.pos \in Nat
             /\ printed[c.line].to = s
             /\ c.line \in LinesOf(s)
             /\ c = [line |-> c.line, pos |-> c.pos]
  <2>1. c \in Chunk /\ printed[c.line].to = s /\ c.pos <= Written(c.line)
    BY DEF Chunks
  <2>2. /\ c.line \in 1..Len(printed)
        /\ c.pos \in 1..MaxSize
        /\ c = [line |-> c.line, pos |-> c.pos]
    BY <2>1 DEF Chunk
  <2>3. c.pos \in Nat /\ c.pos >= 1 /\ c.line \in Nat
    BY <2>2, VmctlAssumption, WrittenFacts
  <2> QED
    BY <2>1, <2>2, <2>3, WrittenFacts
<1>2. ASSUME NEW n \in LinesOf(s), NEW p \in 1..Written(n)
      PROVE  [line |-> n, pos |-> p] \in Chunks(s)
  <2>1. n \in 1..Len(printed) /\ printed[n].to = s
    BY WrittenFacts
  <2>2. p \in 1..MaxSize /\ p <= Written(n)
    BY <2>1, WrittenFacts, VmctlAssumption
  <2> QED
    BY <2>1, <2>2 DEF Chunks, Chunk
<1> QED
  BY <1>1, <1>2

\* What a reading scanner finds at the head of its pipe continues the line it
\* has begun, or begins one.
LEMMA NextChunk ==
  ASSUME VmctlTypeOK, Stages, NEW s \in Stream, ReadingInv(s),
         scanner[s] = "reading", pipe[s] # <<>>
  PROVE  LET h == Head(pipe[s]) IN
         /\ h = pipe[s][1]
         /\ h \in Chunks(s) /\ h \in ToSet(pipe[s])
         /\ h.pos = Len(buf[s]) + 1
         /\ buf[s] # <<>> => h.line = buf[s][1].line
<1> DEFINE h == Head(pipe[s])
           k == Len(buf[s])
<1>1. /\ pipe[s] \in Seq(Chunk) /\ buf[s] \in Seq(Chunk)
      /\ k \in Nat
      /\ DOMAIN buf[s] = 1..k
      /\ Len(pipe[s]) \in Nat \ {0}
      /\ DOMAIN pipe[s] = 1..Len(pipe[s])
      /\ h = pipe[s][1]
  BY LenProperties, EmptySeq, HeadTailProperties DEF VmctlTypeOK
<1>2. h \in ToSet(pipe[s])
  BY <1>1 DEF ToSet
<1>3. /\ \A c \in Chunks(s) : c.line \in Logged(s) \/ c \in ToSet(buf[s]) \/ c \in ToSet(pipe[s])
      /\ ToSet(pipe[s]) \subseteq Chunks(s)
      /\ \A n \in Logged(s), c \in ToSet(buf[s]) \union ToSet(pipe[s]) : n < c.line
      /\ \A i \in 1..k : /\ buf[s][i] \in Chunks(s)
                         /\ buf[s][i] = [line |-> buf[s][1].line, pos |-> i]
                         /\ i < printed[buf[s][1].line].size
      /\ \A c \in ToSet(buf[s]), d \in ToSet(pipe[s]) : Before(c, d)
      /\ \A i, j \in 1..Len(pipe[s]) : i < j => Before(pipe[s][i], pipe[s][j])
  BY DEF ReadingInv
<1>4. h \in Chunks(s)
  BY <1>2, <1>3
<1>5. /\ h.line \in LinesOf(s) /\ h.line \in Nat
      /\ h.pos \in 1..Written(h.line) /\ h.pos \in Nat
      /\ h.line \in 1..Len(printed)
  BY <1>4, ChunkFacts
<1>6. \A c \in ToSet(pipe[s]) : c = h \/ Before(h, c)
  <2>1. TAKE c \in ToSet(pipe[s])
  <2>2. PICK j \in 1..Len(pipe[s]) : c = pipe[s][j]
    BY <1>1 DEF ToSet
  <2>3. CASE j = 1
    BY <1>1, <2>2, <2>3
  <2>4. CASE j # 1
    <3>1. 1 \in 1..Len(pipe[s]) /\ 1 < j
      BY <1>1, <2>4
    <3>2. Before(pipe[s][1], pipe[s][j])
      BY <1>3, <3>1
    <3> QED
      BY <1>1, <2>2, <3>2
  <2> QED
    BY <2>3, <2>4
<1> HIDE DEF h, k
<1>7. ASSUME buf[s] # <<>> PROVE h.pos = k + 1 /\ h.line = buf[s][1].line
  <2> DEFINE L == buf[s][1].line
             next == [line |-> L, pos |-> k + 1]
             last == [line |-> L, pos |-> k]
  <2>1. k \in 1..k /\ 1 \in 1..k
    BY <1>1, <1>7, EmptySeq DEF k
  <2>2. buf[s][k] = last /\ last \in Chunks(s) /\ k < printed[L].size
    BY <1>3, <2>1
  <2>3. last \in ToSet(buf[s])
    BY <1>1, <2>1, <2>2 DEF ToSet
  <2>4. Before(last, h)
    BY <1>2, <1>3, <2>3
  <2>5. /\ last.line = L /\ last.pos = k /\ next.line = L /\ next.pos = k + 1
    OBVIOUS
  <2>6. L \in LinesOf(s) /\ L \in Nat /\ L \in 1..Len(printed)
    BY <2>2, <2>5, ChunkFacts
  <2> HIDE DEF L
  <2>7. h.line > L \/ (h.line = L /\ h.pos > k)
    BY <2>4, <2>5, <1>5, <1>1, <2>6 DEF Before
  <2>8. k + 1 <= Written(L)
    <3>1. CASE h.line = L
      BY <2>7, <3>1, <1>1, <1>5, <2>6, WrittenFacts
    <3>2. CASE h.line > L
      <4>1. L < Len(printed)
        BY <3>2, <1>5, <2>6, WrittenFacts
      <4>2. Written(L) = printed[L].size /\ printed[L].size \in Nat
        BY <4>1, <2>6, WrittenFacts DEF Written
      <4> QED
        BY <4>2, <2>2, <1>1
    <3> QED
      BY <3>1, <3>2, <2>7
  <2>9. next \in Chunks(s)
    <3>1. k + 1 \in 1..Written(L)
      BY <1>1, <2>6, <2>8, WrittenFacts
    <3> QED
      BY <3>1, <2>6, ChunkFacts
  <2>10. next.line \notin Logged(s)
    <3>1. \A n \in Logged(s) : n < last.line
      BY <1>3, <2>3
    <3> QED
      BY <3>1, <2>5, <2>6
  <2>11. next \notin ToSet(buf[s])
    <3>1. SUFFICES ASSUME next \in ToSet(buf[s]) PROVE FALSE
      OBVIOUS
    <3>2. PICK i \in 1..k : next = buf[s][i]
      BY <3>1, <1>1 DEF ToSet
    <3>3. buf[s][i] = [line |-> buf[s][1].line, pos |-> i]
      BY <1>3
    <3>4. next.pos = i
      BY <3>2, <3>3
    <3> QED
      BY <3>4, <2>5, <1>1
  <2>12. next \in ToSet(pipe[s])
    BY <1>3, <2>9, <2>10, <2>11
  <2>13. next = h \/ Before(h, next)
    BY <1>6, <2>12
  <2>14. next = h \/ h.line < L \/ (h.line = L /\ h.pos < k + 1)
    BY <2>13, <2>5 DEF Before
  <2>15. next = h
    BY <2>14, <2>7, <1>5, <2>6, <1>1
  <2> QED
    BY <2>15, <2>5 DEF L
<1>8. ASSUME buf[s] = <<>> PROVE h.pos = k + 1
  <2>1. k = 0 /\ ToSet(buf[s]) = {}
    BY <1>8, <1>1, EmptyToSet DEF k
  <2> DEFINE first == [line |-> h.line, pos |-> 1]
  <2>2. first.line = h.line /\ first.pos = 1
    OBVIOUS
  <2>3. first \in Chunks(s)
    <3>1. 1 \in 1..Written(h.line)
      BY <1>5, WrittenFacts
    <3> QED
      BY <3>1, <1>5, ChunkFacts
  <2>4. first.line \notin Logged(s)
    BY <1>2, <1>3, <1>5, <2>2
  <2>5. first \in ToSet(pipe[s])
    BY <1>3, <2>1, <2>3, <2>4
  <2>6. first = h \/ h.line < first.line \/ (h.line = first.line /\ h.pos < first.pos)
    BY <1>6, <2>5 DEF Before
  <2>7. first = h
    BY <2>6, <2>2, <1>5, WrittenFacts
  <2> QED
    BY <2>7, <2>2, <2>1
<1> QED
  BY <1>1, <1>2, <1>4, <1>7, <1>8 DEF h, k

-----------------------------------------------------------------------------
(* The types, and where the processes are.                                  *)

LEMMA InitInv == Init => VmctlInv
<1> SUFFICES ASSUME Init PROVE VmctlInv
  OBVIOUS
<1>1. /\ printed = <<>> /\ logLines = <<>> /\ Len(printed) = 0 /\ Len(logLines) = 0
      /\ part = 0
      /\ \A s \in Stream : pipe[s] = <<>> /\ buf[s] = <<>> /\ scanner[s] = "reading"
  BY DEF Init
<1>2. VmctlTypeOK
  <2>1. /\ printed \in Seq(Line) /\ Len(printed) <= MaxLines
        /\ part \in 0..MaxSize
        /\ logLines \in Seq(1..Len(printed))
    BY <1>1, VmctlAssumption
  <2>2. /\ pipe \in [Stream -> Seq(Chunk)] /\ \A s \in Stream : Len(pipe[s]) <= PipeSize
        /\ buf \in [Stream -> Seq(Chunk)] /\ \A s \in Stream : Len(buf[s]) <= BufSize
    BY <1>1, VmctlAssumption DEF Init
  <2>3. result \in [exit : {-1, 0, 1}, error : 0..Len(printed), bytes : Nat]
    BY <1>1 DEF Init, NoResult
  <2> QED
    BY <2>1, <2>2, <2>3 DEF Init, VmctlTypeOK, PC
<1>3. Stages
  BY <1>1 DEF Init, Stages
<1>4. ScanInv
  <2>1. ASSUME NEW s \in Stream PROVE ReadingInv(s) /\ TooLongInv(s) /\ EofInv(s)
    <3>1. Chunks(s) = {}
      BY <1>1 DEF Chunks, Chunk
    <3>2. ToSet(pipe[s]) = {} /\ ToSet(buf[s]) = {} /\ Logged(s) = {}
      BY <1>1 DEF ToSet, Logged
    <3>3. Len(buf[s]) = 0 /\ Len(pipe[s]) = 0
      BY <1>1
    <3> QED
      BY <1>1, <3>1, <3>2, <3>3 DEF ReadingInv, TooLongInv, EofInv
  <2> QED
    BY <2>1 DEF ScanInv
<1>5. InOrder
  BY <1>1 DEF InOrder
<1> QED
  BY <1>2, <1>3, <1>4, <1>5 DEF VmctlInv

\* The error message of a failed run is one of the lines read, or none.
LEMMA ResultType ==
  ASSUME VmctlTypeOK
  PROVE  /\ \A e \in LastMeaningful : e \in 0..Len(printed)
         /\ \A b \in ParseVmctlBytes : b \in Nat
<1>1. Len(printed) \in Nat /\ \A i \in DOMAIN logLines : logLines[i] \in 1..Len(printed)
  BY LenProperties, ElementOfSeq DEF VmctlTypeOK
<1>2. \A e \in LastMeaningful : e = 0 \/ \E i \in DOMAIN logLines : e = logLines[i]
  BY DEF LastMeaningful, Meaningful
<1>3. ASSUME NEW b \in ParseHumanBytes PROVE b \in Nat
  <2>1. PICK unit \in {Unit, "B"} : b = (Tenths * Multiplier(unit)) \div 10
    BY <1>3 DEF ParseHumanBytes
  <2>2. Multiplier(unit) \in Nat
    BY <2>1, VmctlAssumption DEF Multiplier
  <2> DEFINE m == Multiplier(unit)
             p == Tenths * m
  <2> HIDE DEF m
  <2>3. p \in Nat
    BY <2>2, VmctlAssumption DEF m
  <2> HIDE DEF p
  <2>4. b = p \div 10
    BY <2>1 DEF p, m
  <2> QED
    BY <2>3, <2>4
<1> QED
  BY <1>1, <1>2, <1>3 DEF ParseVmctlBytes

\* One of several bounded sequences is replaced by another.
LEMMA UpdateLemma ==
  ASSUME NEW S, NEW D, NEW n \in Nat, NEW f \in [D -> Seq(S)], NEW d \in D, NEW e \in Seq(S),
         \A t \in D : Len(f[t]) <= n, Len(e) <= n, NEW g, g = [f EXCEPT ![d] = e]
  PROVE  g \in [D -> Seq(S)] /\ \A t \in D : Len(g[t]) <= n
  OBVIOUS

LEMMA TypeStep ==
  ASSUME VmctlTypeOK, Stages, [Next]_vars
  PROVE  VmctlTypeOK'
<1> USE DEF vars, callVars, vmctlVars, readVars
<1>1. /\ printed \in Seq(Line) /\ Len(printed) \in Nat /\ part \in Nat
      /\ MaxLines \in Nat /\ MaxSize \in Nat /\ BufSize \in Nat /\ PipeSize \in Nat
      /\ logLines \in Seq(1..Len(printed))
      /\ \A s \in Stream : pipe[s] \in Seq(Chunk) /\ buf[s] \in Seq(Chunk)
  BY VmctlAssumption, WrittenFacts DEF VmctlTypeOK
<1>2. printed' = printed => Chunk' = Chunk
  BY DEF Chunk
<1>3. CASE UNCHANGED vars
  BY <1>2, <1>3 DEF VmctlTypeOK
<1>4. ASSUME NEW line \in Line, VmctlBegins(line) PROVE VmctlTypeOK'
  <2>1. /\ printed' \in Seq(Line)
        /\ Len(printed') = Len(printed) + 1
        /\ Len(printed') <= MaxLines
    BY <1>1, <1>4, AppendProperties DEF VmctlBegins
  <2>2. 1..Len(printed) \subseteq 1..Len(printed') /\ 0..Len(printed) \subseteq 0..Len(printed')
    BY <1>1, <2>1
  <2>3. Chunk \subseteq Chunk'
    BY <2>2 DEF Chunk
  <2>4. Seq(Chunk) \subseteq Seq(Chunk') /\ Seq(1..Len(printed)) \subseteq Seq(1..Len(printed'))
    BY <2>2, <2>3, SeqMonotonic
  <2>5. /\ pipe' \in [Stream -> Seq(Chunk')] /\ \A s \in Stream : Len(pipe'[s]) <= PipeSize
        /\ buf' \in [Stream -> Seq(Chunk')] /\ \A s \in Stream : Len(buf'[s]) <= BufSize
    BY <1>4, <2>4 DEF VmctlBegins, VmctlTypeOK
  <2>6. logLines' \in Seq(1..Len(printed'))
    BY <1>1, <1>4, <2>4 DEF VmctlBegins
  <2>7. result' \in [exit : {-1, 0, 1}, error : 0..Len(printed'), bytes : Nat]
    <3>1. /\ result' = result
          /\ result \in [exit : {-1, 0, 1}, error : 0..Len(printed), bytes : Nat]
      BY <1>4 DEF VmctlBegins, VmctlTypeOK
    <3> DEFINE S == 0..Len(printed)
               T == 0..Len(printed')
    <3>2. S \subseteq T
      BY <2>2
    <3> HIDE DEF S, T
    <3>3. [exit : {-1, 0, 1}, error : S, bytes : Nat] \subseteq [exit : {-1, 0, 1}, error : T, bytes : Nat]
      BY <3>2
    <3> QED
      BY <3>1, <3>3 DEF S, T
  <2>8. part' \in 0..MaxSize
    BY <1>1, <1>4 DEF VmctlBegins
  <2> QED
    BY <1>4, <2>1, <2>5, <2>6, <2>7, <2>8 DEF VmctlBegins, VmctlTypeOK
<1>5. ASSUME NEW s \in Stream, VmctlWrites(s) PROVE VmctlTypeOK'
  <2> DEFINE new == [line |-> Len(printed), pos |-> part + 1]
  <2>1. /\ printed # <<>> /\ Len(printed) \in 1..Len(printed)
        /\ part # printed[Len(printed)].size
        /\ part <= printed[Len(printed)].size
    BY <1>1, <1>5, EmptySeq DEF VmctlWrites, LineEnded, Last, Stages
  <2>2. part + 1 \in 1..MaxSize
    BY <1>1, <2>1, WrittenFacts
  <2>3. new \in Chunk
    BY <2>1, <2>2 DEF Chunk
  <2>4. part' = part + 1 /\ pipe' = [pipe EXCEPT ![s] = Append(pipe[s], new)] /\ Len(pipe[s]) < PipeSize
    BY <1>5 DEF VmctlWrites
  <2> HIDE DEF new
  <2>5. /\ Append(pipe[s], new) \in Seq(Chunk)
        /\ Len(Append(pipe[s], new)) = Len(pipe[s]) + 1
        /\ Len(pipe[s]) \in Nat
    BY <1>1, <2>3, AppendProperties, LenProperties
  <2>6. pipe' \in [Stream -> Seq(Chunk)] /\ \A t \in Stream : Len(pipe'[t]) <= PipeSize
    <3>1. Len(Append(pipe[s], new)) <= PipeSize
      BY <1>1, <2>4, <2>5
    <3> QED
      BY <1>1, <2>4, <2>5, <3>1, UpdateLemma DEF VmctlTypeOK
  <2>7. part' \in 0..MaxSize
    BY <1>1, <2>2, <2>4
  <2> QED
    BY <1>2, <1>5, <2>6, <2>7 DEF VmctlWrites, VmctlTypeOK
<1>6. CASE VmctlExits \/ VmctlCrashes
  BY <1>2, <1>6 DEF VmctlExits, VmctlCrashes, Exit, VmctlTypeOK
<1>7. CASE ContextDone \/ KillVmctl
  BY <1>2, <1>7 DEF ContextDone, KillVmctl, Exit, VmctlTypeOK
<1>8. CASE StartFails
  <2>1. result' \in [exit : {-1, 0, 1}, error : 0..Len(printed), bytes : Nat]
    BY <1>1, <1>8 DEF StartFails, NoResult
  <2> QED
    BY <1>2, <1>8, <2>1 DEF StartFails, VmctlTypeOK, PC
<1>9. CASE Start \/ ReadersDone
  BY <1>2, <1>9 DEF Start, ReadersDone, VmctlTypeOK, PC
<1>10. CASE WaitReturns
  <2> DEFINE exit == IF code = 0 /\ killed THEN -1 ELSE code
  <2>1. exit \in {-1, 0, 1}
    BY DEF VmctlTypeOK
  <2>2. PICK bytes \in ParseVmctlBytes, error \in (IF exit = 0 THEN {0} ELSE LastMeaningful) :
          result' = [exit |-> exit, error |-> error, bytes |-> bytes]
    BY <1>10 DEF WaitReturns
  <2> HIDE DEF exit
  <2>3. result' \in [exit : {-1, 0, 1}, error : 0..Len(printed), bytes : Nat]
    <3>1. error \in 0..Len(printed) /\ bytes \in Nat
      BY <1>1, <2>2, ResultType
    <3> QED
      BY <2>1, <2>2, <3>1
  <2> QED
    BY <1>2, <1>10, <2>3 DEF WaitReturns, VmctlTypeOK, PC
<1>11. ASSUME NEW s \in Stream, Reader(s) PROVE VmctlTypeOK'
  <2>1. CASE ScannerReads(s)
    <3> DEFINE h == Head(pipe[s])
    <3>1. /\ h \in Chunk
          /\ Tail(pipe[s]) \in Seq(Chunk)
          /\ Len(Tail(pipe[s])) = Len(pipe[s]) - 1
          /\ Len(pipe[s]) \in Nat /\ Len(buf[s]) \in Nat
      BY <1>1, <2>1, HeadTailProperties, LenProperties DEF ScannerReads
    <3>2. h.line \in 1..Len(printed)
      BY <3>1 DEF Chunk
    <3>3. /\ pipe' = [pipe EXCEPT ![s] = Tail(pipe[s])]
          /\ Len(buf[s]) < BufSize
          /\ \/ logLines' = Append(logLines, h.line) /\ buf' = [buf EXCEPT ![s] = <<>>]
             \/ logLines' = logLines /\ buf' = [buf EXCEPT ![s] = Append(buf[s], h)]
      BY <2>1 DEF ScannerReads
    <3> HIDE DEF h
    <3>4. pipe' \in [Stream -> Seq(Chunk)] /\ \A t \in Stream : Len(pipe'[t]) <= PipeSize
      <4>1. Len(Tail(pipe[s])) <= PipeSize
        BY <1>1, <3>1 DEF VmctlTypeOK
      <4> QED
        BY <1>1, <3>1, <3>3, <4>1, UpdateLemma DEF VmctlTypeOK
    <3>5. /\ Append(buf[s], h) \in Seq(Chunk)
          /\ Len(Append(buf[s], h)) = Len(buf[s]) + 1
          /\ <<>> \in Seq(Chunk) /\ Len(<<>>) = 0
          /\ Append(logLines, h.line) \in Seq(1..Len(printed))
      BY <1>1, <3>1, <3>2, AppendProperties
    <3>6. buf' \in [Stream -> Seq(Chunk)] /\ \A t \in Stream : Len(buf'[t]) <= BufSize
      <4>1. CASE buf' = [buf EXCEPT ![s] = <<>>]
        <5>1. Len(<<>>) <= BufSize
          BY <1>1, <3>5
        <5> QED
          BY <1>1, <3>5, <4>1, <5>1, UpdateLemma DEF VmctlTypeOK
      <4>2. CASE buf' = [buf EXCEPT ![s] = Append(buf[s], h)]
        <5>1. Len(Append(buf[s], h)) <= BufSize
          BY <1>1, <3>1, <3>3, <3>5
        <5> QED
          BY <1>1, <3>5, <4>2, <5>1, UpdateLemma DEF VmctlTypeOK
      <4> QED
        BY <3>3, <4>1, <4>2
    <3>7. logLines' \in Seq(1..Len(printed))
      BY <1>1, <3>3, <3>5
    <3> QED
      BY <1>2, <2>1, <3>4, <3>6, <3>7 DEF ScannerReads, VmctlTypeOK
  <2>2. CASE ScannerGivesUp(s)
    BY <1>2, <2>2 DEF ScannerGivesUp, VmctlTypeOK
  <2>3. CASE ScannerEnds(s)
    <3>1. logLines' \in Seq(1..Len(printed))
      <4>1. CASE buf[s] = <<>>
        BY <1>1, <2>3, <4>1 DEF ScannerEnds
      <4>2. CASE buf[s] # <<>>
        <5>1. buf[s][1] \in Chunk
          BY <1>1, <4>2, EmptySeq, ElementOfSeq, LenProperties
        <5>2. buf[s][1].line \in 1..Len(printed)
          BY <5>1 DEF Chunk
        <5> QED
          BY <1>1, <2>3, <4>2, <5>2, AppendProperties DEF ScannerEnds
      <4> QED
        BY <4>1, <4>2
    <3> QED
      BY <1>2, <2>3, <3>1 DEF ScannerEnds, VmctlTypeOK
  <2> QED
    BY <1>11, <2>1, <2>2, <2>3 DEF Reader
<1> QED
  BY <1>3, <1>4, <1>5, <1>6, <1>7, <1>8, <1>9, <1>10, <1>11 DEF Next, VmctlStep, CallStep

LEMMA StagesStep ==
  ASSUME VmctlTypeOK, Stages, [Next]_vars
  PROVE  Stages'
<1> USE DEF vars, callVars, vmctlVars, readVars
<1>1. CASE UNCHANGED vars
  BY <1>1 DEF Stages
<1>2. ASSUME NEW line \in Line, VmctlBegins(line) PROVE Stages'
  <2>1. /\ printed \in Seq(Line) /\ Len(printed) \in Nat
        /\ printed' = Append(printed, line) /\ part' = 0
    BY <1>2, LenProperties DEF VmctlBegins, VmctlTypeOK
  <2>2. printed'[Len(printed')] = line /\ printed' # <<>>
    BY <2>1, AppendProperties
  <2>3. line.size \in Nat
    BY VmctlAssumption DEF Line
  <2>4. part' <= printed'[Len(printed')].size
    BY <2>1, <2>2, <2>3
  <2> QED
    BY <1>2, <2>2, <2>4 DEF VmctlBegins, Stages
<1>3. ASSUME NEW s \in Stream, VmctlWrites(s) PROVE Stages'
  <2>1. /\ printed # <<>> /\ Len(printed) \in 1..Len(printed)
        /\ part # printed[Len(printed)].size
        /\ part <= printed[Len(printed)].size
    BY <1>3, WrittenFacts, EmptySeq DEF VmctlWrites, LineEnded, Last, Stages, VmctlTypeOK
  <2>2. part + 1 <= printed[Len(printed)].size
    BY <2>1, WrittenFacts
  <2> QED
    BY <1>3, <2>1, <2>2 DEF VmctlWrites, Stages
<1>4. CASE VmctlExits \/ VmctlCrashes
  BY <1>4 DEF VmctlExits, VmctlCrashes, Exit, Stages
<1>5. CASE ContextDone \/ KillVmctl
  BY <1>5 DEF ContextDone, KillVmctl, Exit, Stages
<1>6. CASE CallStep
  BY <1>6 DEF CallStep, StartFails, Start, ReadersDone, WaitReturns, Stages
<1>7. ASSUME NEW s \in Stream, Reader(s) PROVE Stages'
  <2>1. CASE ScannerReads(s)
    <3>1. vmctl # "none"
      <4>1. pipe[s] \in Seq(Chunk) /\ pipe[s] # <<>>
        BY <2>1 DEF ScannerReads, VmctlTypeOK
      <4>2. Head(pipe[s]) \in Chunk
        BY <4>1, HeadTailProperties
      <4>3. Len(printed) # 0
        BY <4>2 DEF Chunk
      <4> QED
        BY <4>3 DEF Stages
    <3>2. UNCHANGED <<call, vmctl, printed, part, scanner>>
      BY <2>1 DEF ScannerReads
    <3> QED
      BY <3>1, <3>2 DEF Stages
  <2>2. CASE ScannerGivesUp(s)
    <3>1. /\ scanner' = [scanner EXCEPT ![s] = "tooLong"] /\ scanner[s] = "reading"
          /\ UNCHANGED <<call, vmctl, printed, part, logLines>>
      BY <2>2 DEF ScannerGivesUp
    <3>2. scanner' \in [Stream -> {"reading", "tooLong", "eof"}] /\ scanner \in [Stream -> {"reading", "tooLong", "eof"}]
      BY <3>1 DEF VmctlTypeOK
    <3>3. \A t \in Stream : /\ scanner'[t] = "eof" => scanner[t] = "eof"
                            /\ scanner[t] # "reading" => scanner'[t] # "reading"
      BY <3>1, <3>2
    <3> QED
      BY <3>1, <3>3 DEF Stages
  <2>3. CASE ScannerEnds(s)
    <3>1. /\ scanner' = [scanner EXCEPT ![s] = "eof"] /\ scanner[s] = "reading" /\ vmctl = "exited"
          /\ UNCHANGED <<call, vmctl, printed, part>>
      BY <2>3 DEF ScannerEnds
    <3>2. scanner \in [Stream -> {"reading", "tooLong", "eof"}]
      BY DEF VmctlTypeOK
    <3>3. \A t \in Stream : scanner[t] # "reading" => scanner'[t] # "reading"
      BY <3>1, <3>2
    <3> QED
      BY <3>1, <3>3 DEF Stages
  <2> QED
    BY <1>7, <2>1, <2>2, <2>3 DEF Reader
<1> QED
  BY <1>1, <1>2, <1>3, <1>4, <1>5, <1>6, <1>7 DEF Next, VmctlStep

-----------------------------------------------------------------------------
(* The scanners.                                                            *)

\* What happens elsewhere leaves a scanner's invariant alone.
LEMMA Frame ==
  ASSUME VmctlTypeOK, Stages, NEW s \in Stream, ReadingInv(s), TooLongInv(s), EofInv(s),
         buf'[s] = buf[s], pipe'[s] = pipe[s], scanner'[s] = scanner[s],
         Chunks(s)' = Chunks(s), LinesOf(s)' = LinesOf(s), Logged(s)' = Logged(s),
         \A n \in LinesOf(s) : /\ printed'[n] = printed[n]
                               /\ TooLong(n)' <=> TooLong(n)
                               /\ Written(n)' = Written(n)
  PROVE  ReadingInv(s)' /\ TooLongInv(s)' /\ EofInv(s)'
<1>1. ASSUME scanner[s] = "reading" PROVE ReadingInv(s)'
  <2>1. \A n \in Logged(s) : n \in LinesOf(s)
    <3>1. Len(printed) \in Nat /\ \A i \in DOMAIN logLines : logLines[i] \in 1..Len(printed)
      BY LenProperties, ElementOfSeq DEF VmctlTypeOK
    <3>2. \A n \in Logged(s) : n \in 1..Len(printed) /\ printed[n].to = s
      BY <3>1 DEF Logged, ToSet
    <3>3. \A n \in Logged(s) : Written(n) = printed[n].size
      BY <1>1 DEF ReadingInv
    <3> QED
      BY <3>2, <3>3, WrittenFacts
  <2>2. \A i \in 1..Len(buf[s]) : buf[s][1].line \in LinesOf(s)
    <3>1. TAKE i \in 1..Len(buf[s])
    <3>2. 1 \in 1..Len(buf[s])
      BY LenProperties DEF VmctlTypeOK
    <3>3. buf[s][1] \in Chunks(s)
      BY <1>1, <3>2 DEF ReadingInv
    <3> QED
      BY <3>3, ChunkFacts
  <2> QED
    BY <1>1, <2>1, <2>2 DEF ReadingInv, Before
<1>2. TooLongInv(s)'
  BY DEF TooLongInv
<1>3. EofInv(s)'
  BY DEF EofInv
<1>4. ASSUME scanner[s] # "reading" PROVE ReadingInv(s)'
  BY <1>4 DEF ReadingInv
<1> QED
  BY <1>1, <1>2, <1>3, <1>4

LEMMA SameScan ==
  ASSUME VmctlInv, UNCHANGED <<printed, part, pipe, buf, scanner, logLines>>
  PROVE  ScanInv' /\ InOrder'
<1>1. ASSUME NEW s \in Stream PROVE ReadingInv(s)' /\ TooLongInv(s)' /\ EofInv(s)'
  <2>1. Chunks(s)' = Chunks(s) /\ LinesOf(s)' = LinesOf(s) /\ Logged(s)' = Logged(s)
    BY DEF Chunks, Chunk, Written, LinesOf, Logged
  <2>2. \A n : Written(n)' = Written(n) /\ (TooLong(n)' <=> TooLong(n))
    BY DEF Written, TooLong
  <2> QED
    BY <2>1, <2>2, Frame DEF VmctlInv, ScanInv
<1> QED
  BY <1>1 DEF VmctlInv, ScanInv, InOrder

\* A line that was begun is nothing that can be read.
LEMMA BeginsStep ==
  ASSUME VmctlInv, NEW line \in Line, VmctlBegins(line)
  PROVE  ScanInv' /\ InOrder'
<1>1. VmctlTypeOK /\ Stages
  BY DEF VmctlInv
<1>0. PICK N \in Nat : N = Len(printed)
  BY <1>1, WrittenFacts
<1>2. /\ N \in Nat
      /\ Len(printed') = N + 1
      /\ \A n \in 1..N : printed'[n] = printed[n]
      /\ part' = 0
      /\ UNCHANGED <<pipe, buf, scanner, logLines>>
  BY <1>0, <1>1, LenProperties, AppendProperties DEF VmctlBegins, readVars, VmctlTypeOK
<1>3. N \in 1..N => part = printed[N].size /\ part >= 1
  <2>1. SUFFICES ASSUME N \in 1..N PROVE part = printed[N].size /\ part >= 1
    OBVIOUS
  <2>2. printed # <<>>
    BY <2>1, <1>0, <1>1, EmptySeq DEF VmctlTypeOK
  <2> QED
    BY <1>0, <1>1, <2>1, <2>2, WrittenFacts DEF VmctlBegins, LineEnded, Last
<1>4. /\ N + 1 \in Nat
      /\ \A n \in 1..N : n \in 1..N + 1 /\ n \in Nat /\ n <= N
      /\ \A n \in 1..N + 1 : n \in 1..N \/ n = N + 1
  BY <1>2
<1>5. \A n \in 1..N : Written(n)' = Written(n)
  BY <1>2, <1>3, <1>4, <1>0 DEF Written
<1>6. Written(N + 1)' = 0
  BY <1>2 DEF Written
<1>7. \A n \in 1..N : TooLong(n)' <=> TooLong(n)
  BY <1>2, <1>3, <1>4, VmctlAssumption, WrittenFacts, <1>1, <1>0 DEF TooLong
<1>8. ASSUME NEW s \in Stream PROVE Chunks(s)' = Chunks(s)
  <2>1. ASSUME NEW c \in Chunks(s) PROVE c \in Chunks(s)'
    <3>1. c \in Chunk /\ c.line \in 1..N /\ printed[c.line].to = s /\ c.pos <= Written(c.line)
      BY <1>1, ChunkFacts, <1>0 DEF Chunks
    <3>2. c \in Chunk'
      BY <3>1, <1>2, <1>4, <1>0 DEF Chunk
    <3> QED
      BY <3>1, <3>2, <1>2, <1>5 DEF Chunks
  <2>2. ASSUME NEW c \in Chunks(s)' PROVE c \in Chunks(s)
    <3>1. /\ c \in [line : 1..N + 1, pos : 1..MaxSize]
          /\ printed'[c.line].to = s /\ c.pos <= Written(c.line)'
      BY <1>2 DEF Chunks, Chunk
    <3>2. c.line \in 1..N
      <4>1. c.line \in 1..N + 1 /\ c.pos \in 1..MaxSize
        BY <3>1
      <4>2. c.line # N + 1
        BY <3>1, <4>1, <1>6, VmctlAssumption
      <4> QED
        BY <4>1, <4>2, <1>4
    <3>3. c \in Chunk
      BY <3>1, <3>2, <1>0 DEF Chunk
    <3> QED
      BY <3>1, <3>2, <3>3, <1>2, <1>5 DEF Chunks
  <2> QED
    BY <2>1, <2>2
<1>9. ASSUME NEW s \in Stream PROVE LinesOf(s)' = LinesOf(s)
  <2>1. LinesOf(s) = {n \in 1..N : printed[n].to = s}
    BY <1>2, <1>3, <1>0 DEF LinesOf
  <2>2. LinesOf(s)' = {n \in 1..N + 1 : printed'[n].to = s /\ n # N + 1}
    BY <1>2 DEF LinesOf
  <2> QED
    BY <2>1, <2>2, <1>2, <1>4
<1>10. \A i \in DOMAIN logLines : logLines[i] \in 1..N
  BY <1>1, LenProperties, ElementOfSeq, <1>0 DEF VmctlTypeOK
<1>11. ASSUME NEW s \in Stream PROVE Logged(s)' = Logged(s)
  BY <1>2, <1>10 DEF Logged, ToSet
<1>12. ASSUME NEW s \in Stream PROVE ReadingInv(s)' /\ TooLongInv(s)' /\ EofInv(s)'
  <2>1. \A n \in LinesOf(s) : n \in 1..N
    BY <1>0 DEF LinesOf
  <2>2. /\ buf'[s] = buf[s] /\ pipe'[s] = pipe[s] /\ scanner'[s] = scanner[s]
        /\ ReadingInv(s) /\ TooLongInv(s) /\ EofInv(s)
    BY <1>2 DEF VmctlInv, ScanInv
  <2> QED
    BY <1>1, <1>2, <1>5, <1>7, <1>8, <1>9, <1>11, <2>1, <2>2, Frame
<1>13. InOrder'
  BY <1>2, <1>10 DEF VmctlInv, InOrder
<1> QED
  BY <1>12, <1>13 DEF ScanInv

\* A new chunk stands behind all others.
LEMMA WritesStep ==
  ASSUME VmctlInv, NEW s \in Stream, VmctlWrites(s)
  PROVE  ScanInv' /\ InOrder'
<1>1. VmctlTypeOK /\ Stages /\ ScanInv /\ InOrder
  BY DEF VmctlInv
<1>0. PICK N \in Nat : N = Len(printed)
  BY <1>1, WrittenFacts
<1>e. PICK e : e = [line |-> N, pos |-> part + 1]
  OBVIOUS
<1>2. /\ N \in Nat /\ N \in 1..N
      /\ part \in Nat
      /\ printed[N].to = s
      /\ part < printed[N].size
      /\ printed[N].size \in 1..MaxSize
  BY <1>0, <1>1, WrittenFacts, EmptySeq DEF VmctlWrites, LineEnded, Last, Stages, VmctlTypeOK
<1>3. /\ vmctl = "running" /\ part' = part + 1
      /\ pipe' = [pipe EXCEPT ![s] = Append(pipe[s], e)]
      /\ UNCHANGED <<printed, buf, scanner, logLines>>
  BY <1>0, <1>e DEF VmctlWrites
<1>4. e.line = N /\ e.pos = part + 1
  BY <1>e
<1>5. e \in Chunk
  BY <1>0, <1>e, <1>2, VmctlAssumption DEF Chunk
<1>6. /\ Len(printed') = N
      /\ Written(N) = part /\ Written(N)' = part + 1
      /\ \A n \in 1..N : n # N => Written(n)' = Written(n)
  BY <1>0, <1>2, <1>3 DEF Written
<1>7. \A n \in 1..N : /\ n # N => (TooLong(n)' <=> TooLong(n))
                      /\ TooLong(n) => TooLong(n)'
  BY <1>0, <1>2, <1>3, VmctlAssumption DEF TooLong
<1>8. \A t \in Stream : Logged(t)' = Logged(t)
  BY <1>3 DEF Logged
<1>9. InOrder'
  BY <1>1, <1>3 DEF InOrder
<1>10. Chunk' = Chunk
  BY <1>3 DEF Chunk
<1>11. pipe[s] \in Seq(Chunk) /\ pipe \in [Stream -> Seq(Chunk)]
  BY <1>1 DEF VmctlTypeOK
<1>12. pipe'[s] = Append(pipe[s], e)
  BY <1>3, <1>11
<1>13. ASSUME NEW t \in Stream, t # s PROVE ReadingInv(t)' /\ TooLongInv(t)' /\ EofInv(t)'
  <2>1. Chunks(t)' = Chunks(t)
    <3>1. \A c \in Chunk : c.line \in 1..N
      BY <1>0 DEF Chunk
    <3>2. \A c \in Chunk : printed[c.line].to = t => c.line # N
      BY <1>2, <1>13
    <3> QED
      BY <1>3, <1>6, <1>10, <3>1, <3>2 DEF Chunks
  <2>2. LinesOf(t)' = LinesOf(t) /\ \A n \in LinesOf(t) : n \in 1..N /\ n # N
    BY <1>2, <1>3, <1>13, <1>0 DEF LinesOf
  <2>3. pipe'[t] = pipe[t]
    BY <1>3, <1>11, <1>13
  <2> QED
    BY <1>1, <1>3, <1>6, <1>7, <1>8, <2>1, <2>2, <2>3, Frame DEF ScanInv
<1>14. LinesOf(s)' = LinesOf(s) \union {N} /\ \A n \in LinesOf(s) : n \in 1..N
  BY <1>2, <1>3, <1>0 DEF LinesOf
<1>15. EofInv(s)'
  BY <1>1, <1>3 DEF EofInv, Stages
<1>16. TooLongInv(s)'
  <2>1. SUFFICES ASSUME scanner[s] = "tooLong" PROVE TooLongInv(s)'
    BY <1>3 DEF TooLongInv
  <2>2. PICK L \in LinesOf(s) :
          /\ TooLong(L)
          /\ Logged(s) = {n \in LinesOf(s) : n < L}
          /\ \A n \in Logged(s) : printed[n].size <= BufSize
    BY <1>1, <2>1 DEF ScanInv, TooLongInv
  <2>3. L \in LinesOf(s)' /\ TooLong(L)'
    BY <1>7, <1>14, <2>2
  <2>4. Logged(s)' = {n \in LinesOf(s)' : n < L}
    BY <1>2, <1>8, <1>14, <2>2
  <2> QED
    BY <1>3, <1>8, <2>2, <2>3, <2>4 DEF TooLongInv
<1>17. ReadingInv(s)'
  <2>1. SUFFICES ASSUME scanner[s] = "reading" PROVE ReadingInv(s)'
    BY <1>3 DEF ReadingInv
  <2>2. /\ \A c \in Chunks(s) : c.line \in Logged(s) \/ c \in ToSet(buf[s]) \/ c \in ToSet(pipe[s])
        /\ ToSet(pipe[s]) \subseteq Chunks(s)
        /\ \A n \in Logged(s) : printed[n].size <= BufSize /\ Written(n) = printed[n].size
        /\ \A n \in Logged(s), c \in ToSet(buf[s]) \union ToSet(pipe[s]) : n < c.line
        /\ \A i \in 1..Len(buf[s]) : /\ buf[s][i] \in Chunks(s)
                                     /\ buf[s][i] = [line |-> buf[s][1].line, pos |-> i]
                                     /\ i < printed[buf[s][1].line].size
        /\ \A c \in ToSet(buf[s]), d \in ToSet(pipe[s]) : Before(c, d)
        /\ \A i, j \in 1..Len(pipe[s]) : i < j => Before(pipe[s][i], pipe[s][j])
    BY <1>1, <2>1 DEF ScanInv, ReadingInv
  <2>3. Chunks(s)' = Chunks(s) \union {e}
    <3>1. ASSUME NEW c \in Chunk, c.line = N, c.pos <= part + 1 PROVE c.pos <= part \/ c = e
      <4>1. c = [line |-> c.line, pos |-> c.pos] /\ c.pos \in 1..MaxSize
        BY DEF Chunk
      <4>2. c.pos <= part \/ c.pos = part + 1
        BY <1>2, <3>1, <4>1, VmctlAssumption
      <4> QED
        BY <3>1, <4>1, <4>2, <1>e
    <3>2. \A c \in Chunk : c.line \in 1..N /\ c.pos \in Nat
      BY VmctlAssumption, <1>0 DEF Chunk
    <3>3. ASSUME NEW c \in Chunks(s)' PROVE c \in Chunks(s) \union {e}
      <4>1. c \in Chunk /\ printed[c.line].to = s /\ c.pos <= Written(c.line)'
        BY <1>3, <1>10 DEF Chunks
      <4> QED
        BY <4>1, <3>1, <3>2, <1>6 DEF Chunks
    <3>4. ASSUME NEW c \in Chunks(s) PROVE c \in Chunks(s)'
      <4>1. c \in Chunk /\ printed[c.line].to = s /\ c.pos <= Written(c.line)
        BY DEF Chunks
      <4>2. c.pos <= Written(c.line)'
        BY <4>1, <3>2, <1>2, <1>6
      <4> QED
        BY <4>1, <4>2, <1>3, <1>10 DEF Chunks
    <3>5. e \in Chunks(s)'
      <4>1. e.pos <= Written(e.line)' /\ printed[e.line].to = s
        BY <1>2, <1>4, <1>6
      <4> QED
        BY <4>1, <1>3, <1>5, <1>10 DEF Chunks
    <3> QED
      BY <3>3, <3>4, <3>5
  <2>4. ToSet(pipe'[s]) = ToSet(pipe[s]) \union {e}
    BY <1>5, <1>11, <1>12, AppendLemma
  <2>5. \A n \in Logged(s) : n \in 1..N /\ n # N /\ n < N
    <3>1. \A i \in DOMAIN logLines : logLines[i] \in 1..N
      BY <1>1, LenProperties, ElementOfSeq, <1>0 DEF VmctlTypeOK
    <3>2. \A n \in Logged(s) : n \in 1..N
      BY <3>1 DEF Logged, ToSet
    <3>3. \A n \in Logged(s) : n # N
      BY <2>2, <1>2, <1>6
    <3> QED
      BY <1>2, <3>2, <3>3
  <2>6. \A c \in Chunks(s) : Before(c, e)
    <3>1. TAKE c \in Chunks(s)
    <3>2. c.line \in 1..N /\ c.pos <= Written(c.line) /\ c.pos \in Nat
      BY <1>1, ChunkFacts, <1>0 DEF Chunks
    <3>3. c.line < N \/ (c.line = N /\ c.pos < part + 1)
      BY <1>2, <1>6, <3>2
    <3> QED
      BY <1>4, <3>3 DEF Before
  <2>7. \A c \in ToSet(buf[s]) : c \in Chunks(s)
    <3>1. DOMAIN buf[s] = 1..Len(buf[s])
      BY <1>1, LenProperties DEF VmctlTypeOK
    <3> QED
      BY <2>2, <3>1 DEF ToSet
  <2>8. \A n \in Logged(s)' : printed'[n].size <= BufSize /\ Written(n)' = printed'[n].size
    BY <1>3, <1>6, <1>8, <2>2, <2>5
  <2>9. \A n \in Logged(s)', c \in ToSet(buf'[s]) \union ToSet(pipe'[s]) : n < c.line
    BY <1>3, <1>4, <1>8, <2>2, <2>4, <2>5
  <2>10. \A c \in ToSet(buf'[s]), d \in ToSet(pipe'[s]) : Before(c, d)
    BY <1>3, <2>2, <2>4, <2>6, <2>7
  <2>11. \A i, j \in 1..Len(pipe'[s]) : i < j => Before(pipe'[s][i], pipe'[s][j])
    <3>1. /\ Len(pipe[s]) \in Nat
          /\ Len(pipe'[s]) = Len(pipe[s]) + 1
          /\ \A i \in 1..Len(pipe[s]) : pipe'[s][i] = pipe[s][i] /\ pipe[s][i] \in ToSet(pipe[s])
          /\ pipe'[s][Len(pipe[s]) + 1] = e
      BY <1>5, <1>11, <1>12, AppendProperties, LenProperties DEF ToSet
    <3>2. \A i \in 1..Len(pipe[s]) : Before(pipe[s][i], e)
      BY <2>2, <2>6, <3>1
    <3>3. TAKE i, j \in 1..Len(pipe'[s])
    <3>4. HAVE i < j
    <3>5. i \in 1..Len(pipe[s]) /\ (j \in 1..Len(pipe[s]) \/ j = Len(pipe[s]) + 1)
      BY <3>1, <3>3, <3>4
    <3> QED
      BY <2>2, <3>1, <3>2, <3>4, <3>5
  <2>12. \A c \in Chunks(s)' : c.line \in Logged(s)' \/ c \in ToSet(buf'[s]) \/ c \in ToSet(pipe'[s])
    BY <1>3, <1>8, <2>2, <2>3, <2>4
  <2> QED
    BY <1>3, <2>1, <2>2, <2>3, <2>4, <2>8, <2>9, <2>10, <2>11, <2>12 DEF ReadingInv
<1> QED
  BY <1>9, <1>13, <1>15, <1>16, <1>17 DEF ScanInv

\* Logging a line of stream s, behind all lines of s.
LEMMA LogLemma ==
  ASSUME VmctlTypeOK, InOrder, NEW s \in Stream, NEW L \in 1..Len(printed), printed[L].to = s,
         printed' = printed, logLines' = Append(logLines, L),
         \A n \in Logged(s) : n < L
  PROVE  /\ InOrder'
         /\ Logged(s)' = Logged(s) \union {L}
         /\ \A t \in Stream : t # s => Logged(t)' = Logged(t)
<1>1. /\ logLines \in Seq(1..Len(printed)) /\ Len(logLines) \in Nat
      /\ DOMAIN logLines = 1..Len(logLines)
  BY LenProperties DEF VmctlTypeOK
<1>2. /\ DOMAIN logLines' = 1..Len(logLines) + 1
      /\ \A i \in 1..Len(logLines) : logLines'[i] = logLines[i]
      /\ logLines'[Len(logLines) + 1] = L
  BY <1>1, AppendProperties, LenProperties
<1>3. ToSet(logLines') = ToSet(logLines) \union {L}
  BY <1>1, AppendLemma
<1>4. Logged(s)' = Logged(s) \union {L} /\ \A t \in Stream : t # s => Logged(t)' = Logged(t)
  BY <1>3 DEF Logged
<1>5. ASSUME NEW i \in DOMAIN logLines', NEW j \in DOMAIN logLines',
             i < j, printed[logLines'[i]].to = printed[logLines'[j]].to
      PROVE  logLines'[i] < logLines'[j]
  <2>1. i \in 1..Len(logLines) /\ (j \in 1..Len(logLines) \/ j = Len(logLines) + 1)
    BY <1>1, <1>2, <1>5
  <2>2. CASE j \in 1..Len(logLines)
    BY <1>1, <1>2, <1>5, <2>1, <2>2 DEF InOrder
  <2>3. CASE j = Len(logLines) + 1
    <3>1. logLines[i] \in Logged(s)
      BY <1>1, <1>2, <1>5, <2>1, <2>3 DEF Logged, ToSet
    <3> QED
      BY <1>2, <2>1, <2>3, <3>1
  <2> QED
    BY <2>1, <2>2, <2>3
<1>6. InOrder'
  BY <1>5 DEF InOrder
<1> QED
  BY <1>4, <1>6

\* A chunk is read: the line grows, or is complete and logged.
LEMMA ReadsStep ==
  ASSUME VmctlInv, NEW s \in Stream, ScannerReads(s)
  PROVE  ScanInv' /\ InOrder'
<1>1. VmctlTypeOK /\ Stages /\ ScanInv /\ InOrder
  BY DEF VmctlInv
<1>2. PICK h : h = Head(pipe[s])
  OBVIOUS
<1>3. PICK L : L = h.line
  OBVIOUS
<1>4. /\ scanner[s] = "reading" /\ pipe[s] # <<>> /\ Len(buf[s]) < BufSize
      /\ pipe' = [pipe EXCEPT ![s] = Tail(pipe[s])]
      /\ UNCHANGED <<printed, part, vmctl, scanner>>
  BY DEF ScannerReads, vmctlVars
<1>5. \/ /\ h.pos = printed[L].size
         /\ logLines' = Append(logLines, L)
         /\ buf' = [buf EXCEPT ![s] = <<>>]
      \/ /\ h.pos # printed[L].size
         /\ logLines' = logLines
         /\ buf' = [buf EXCEPT ![s] = Append(buf[s], h)]
  BY <1>2, <1>3 DEF ScannerReads
<1>6. /\ \A c \in Chunks(s) : c.line \in Logged(s) \/ c \in ToSet(buf[s]) \/ c \in ToSet(pipe[s])
      /\ ToSet(pipe[s]) \subseteq Chunks(s)
      /\ \A n \in Logged(s) : printed[n].size <= BufSize /\ Written(n) = printed[n].size
      /\ \A n \in Logged(s), c \in ToSet(buf[s]) \union ToSet(pipe[s]) : n < c.line
      /\ \A i \in 1..Len(buf[s]) : /\ buf[s][i] \in Chunks(s)
                                   /\ buf[s][i] = [line |-> buf[s][1].line, pos |-> i]
                                   /\ i < printed[buf[s][1].line].size
      /\ \A c \in ToSet(buf[s]), d \in ToSet(pipe[s]) : Before(c, d)
      /\ \A i, j \in 1..Len(pipe[s]) : i < j => Before(pipe[s][i], pipe[s][j])
  BY <1>1, <1>4 DEF ScanInv, ReadingInv
<1>7. /\ h = pipe[s][1] /\ h \in Chunks(s) /\ h \in ToSet(pipe[s])
      /\ h.pos = Len(buf[s]) + 1
      /\ buf[s] # <<>> => L = buf[s][1].line
  BY <1>1, <1>2, <1>3, <1>4, NextChunk DEF ScanInv
<1>8. /\ L \in 1..Len(printed) /\ L \in Nat /\ L \in LinesOf(s) /\ printed[L].to = s
      /\ h.pos \in 1..Written(L) /\ h.pos \in Nat
      /\ printed[L].size \in Nat /\ Written(L) \in Nat /\ Written(L) <= printed[L].size
      /\ h = [line |-> L, pos |-> h.pos]
  BY <1>1, <1>3, <1>7, ChunkFacts, WrittenFacts
<1>9. /\ pipe \in [Stream -> Seq(Chunk)] /\ pipe[s] \in Seq(Chunk)
      /\ buf \in [Stream -> Seq(Chunk)] /\ buf[s] \in Seq(Chunk)
      /\ Len(buf[s]) \in Nat /\ DOMAIN buf[s] = 1..Len(buf[s])
      /\ h \in Chunk
  BY <1>1, <1>7, LenProperties DEF VmctlTypeOK, Chunks
<1>10. pipe'[s] = Tail(pipe[s])
  BY <1>4, <1>9
<1>11. /\ Len(pipe[s]) \in Nat \ {0}
       /\ Len(pipe'[s]) = Len(pipe[s]) - 1
       /\ DOMAIN pipe[s] = 1..Len(pipe[s])
       /\ DOMAIN pipe'[s] = 1..Len(pipe[s]) - 1
       /\ \A i \in 1..Len(pipe[s]) - 1 : pipe'[s][i] = pipe[s][i + 1]
  BY <1>4, <1>9, <1>10, EmptySeq, LenProperties, HeadTailProperties
<1>12. /\ ToSet(pipe[s]) = ToSet(pipe'[s]) \union {h}
       /\ \A c \in ToSet(pipe'[s]) : Before(h, c)
       /\ \A i, j \in 1..Len(pipe'[s]) : i < j => Before(pipe'[s][i], pipe'[s][j])
  <2>1. \A i \in 1..Len(pipe[s]) : i = 1 \/ (i - 1 \in 1..Len(pipe[s]) - 1 /\ pipe[s][i] = pipe'[s][i - 1])
    <3>1. TAKE i \in 1..Len(pipe[s])
    <3>2. i = 1 \/ i - 1 \in 1..Len(pipe[s]) - 1
      BY <1>11
    <3>3. (i - 1) + 1 = i
      OBVIOUS
    <3> QED
      BY <1>11, <3>2, <3>3
  <2>2. \A i \in 1..Len(pipe[s]) - 1 :
          1 \in 1..Len(pipe[s]) /\ i + 1 \in 1..Len(pipe[s]) /\ 1 < i + 1
    BY <1>11
  <2>3. ToSet(pipe[s]) \subseteq ToSet(pipe'[s]) \union {h}
    <3>1. SUFFICES ASSUME NEW c \in ToSet(pipe[s]), c # h PROVE c \in ToSet(pipe'[s])
      OBVIOUS
    <3>2. PICK i \in 1..Len(pipe[s]) : c = pipe[s][i]
      BY <1>11 DEF ToSet
    <3>3. i - 1 \in 1..Len(pipe[s]) - 1 /\ c = pipe'[s][i - 1]
      BY <1>7, <2>1, <3>1, <3>2
    <3> QED
      BY <1>11, <3>3 DEF ToSet
  <2>4. ToSet(pipe'[s]) \subseteq ToSet(pipe[s])
    BY <1>11, <2>2 DEF ToSet
  <2>5. \A c \in ToSet(pipe'[s]) : Before(h, c)
    BY <1>6, <1>7, <1>11, <2>2 DEF ToSet
  <2>6. \A i, j \in 1..Len(pipe'[s]) : i < j => Before(pipe'[s][i], pipe'[s][j])
    <3>1. TAKE i, j \in 1..Len(pipe'[s])
    <3>2. HAVE i < j
    <3>3. /\ i \in 1..Len(pipe[s]) - 1 /\ j \in 1..Len(pipe[s]) - 1 /\ i + 1 < j + 1
      BY <1>11, <3>1, <3>2
    <3>4. Before(pipe[s][i + 1], pipe[s][j + 1])
      BY <1>6, <2>2, <3>3
    <3>5. pipe'[s][i] = pipe[s][i + 1] /\ pipe'[s][j] = pipe[s][j + 1]
      BY <1>11, <3>3
    <3> QED
      BY <3>4, <3>5
  <2> QED
    BY <1>7, <2>3, <2>4, <2>5, <2>6
<1>13. /\ \A n : Written(n)' = Written(n) /\ (TooLong(n)' <=> TooLong(n))
       /\ \A t \in Stream : Chunks(t)' = Chunks(t) /\ LinesOf(t)' = LinesOf(t)
  BY <1>4 DEF Chunks, Chunk, Written, LinesOf, TooLong
<1>14. \A n \in Logged(s) : n < L
  BY <1>3, <1>6, <1>7
<1>15. \A c \in ToSet(buf[s]) : c.line = L
  <2>1. TAKE c \in ToSet(buf[s])
  <2>2. PICK i \in 1..Len(buf[s]) : c = buf[s][i]
    BY <1>9 DEF ToSet
  <2>3. PICK M : M = buf[s][1].line
    OBVIOUS
  <2>4. c = [line |-> M, pos |-> i]
    BY <1>6, <2>2, <2>3
  <2>5. M = L
    BY <1>7, <1>9, <2>2, <2>3, EmptySeq
  <2> QED
    BY <2>4, <2>5
<1>16. ASSUME NEW t \in Stream, t # s, Logged(t)' = Logged(t)
       PROVE  ReadingInv(t)' /\ TooLongInv(t)' /\ EofInv(t)'
  <2>1. pipe'[t] = pipe[t] /\ buf'[t] = buf[t] /\ scanner'[t] = scanner[t]
    BY <1>4, <1>5, <1>9, <1>16
  <2> QED
    BY <1>1, <1>4, <1>13, <1>16, <2>1, Frame DEF ScanInv
<1>17. TooLongInv(s)' /\ EofInv(s)'
  BY <1>4 DEF TooLongInv, EofInv
<1>18. CASE h.pos = printed[L].size
  <2>1. logLines' = Append(logLines, L) /\ buf'[s] = <<>> /\ ToSet(buf'[s]) = {} /\ Len(buf'[s]) = 0
    BY <1>5, <1>9, <1>18 DEF ToSet
  <2>2. /\ InOrder'
        /\ Logged(s)' = Logged(s) \union {L}
        /\ \A t \in Stream : t # s => Logged(t)' = Logged(t)
    BY <1>1, <1>4, <1>8, <1>14, <2>1, LogLemma
  <2>3. \A c \in Chunks(s) : c.line \in Logged(s)' \/ c \in ToSet(pipe'[s])
    BY <1>3, <1>6, <1>12, <1>15, <2>2
  <2>4. printed[L].size <= BufSize /\ Written(L) = printed[L].size
    BY <1>4, <1>7, <1>8, <1>9, <1>18, VmctlAssumption
  <2>5. \A n \in Logged(s)', c \in ToSet(pipe'[s]) : n < c.line
    <3>1. TAKE n \in Logged(s)', c \in ToSet(pipe'[s])
    <3>2. CASE n \in Logged(s)
      BY <1>6, <1>12, <3>2
    <3>3. CASE n = L
      <4>1. c \in Chunks(s) /\ Before(h, c)
        BY <1>6, <1>12
      <4>2. c.pos <= printed[c.line].size /\ c.line \in Nat /\ c.pos \in Nat
        BY <1>1, <4>1, ChunkFacts, WrittenFacts
      <4>3. c.line > L \/ (c.line = L /\ c.pos > h.pos)
        BY <1>3, <1>8, <4>1, <4>2 DEF Before
      <4> QED
        BY <1>8, <1>18, <3>3, <4>2, <4>3
    <3> QED
      BY <2>2, <3>2, <3>3
  <2>6. ReadingInv(s)'
    <3>1. ToSet(pipe'[s]) \subseteq Chunks(s)'
      BY <1>6, <1>12, <1>13
    <3>2. \A n \in Logged(s)' : printed'[n].size <= BufSize /\ Written(n)' = printed'[n].size
      BY <1>4, <1>6, <1>13, <2>2, <2>4
    <3> QED
      BY <1>12, <1>13, <2>1, <2>3, <2>5, <3>1, <3>2 DEF ReadingInv
  <2> QED
    BY <1>16, <1>17, <2>2, <2>6 DEF ScanInv
<1>19. CASE h.pos # printed[L].size
  <2>1. logLines' = logLines /\ buf'[s] = Append(buf[s], h)
    BY <1>5, <1>9, <1>19
  <2>2. Logged(s)' = Logged(s) /\ InOrder' /\ \A t \in Stream : Logged(t)' = Logged(t)
    BY <1>1, <1>4, <2>1 DEF Logged, InOrder
  <2>3. /\ ToSet(buf'[s]) = ToSet(buf[s]) \union {h}
        /\ Len(buf'[s]) = Len(buf[s]) + 1
        /\ \A i \in 1..Len(buf[s]) : buf'[s][i] = buf[s][i]
        /\ buf'[s][Len(buf[s]) + 1] = h
    BY <1>9, <2>1, AppendLemma, AppendProperties
  <2>4. buf'[s][1].line = L
    <3>1. CASE buf[s] = <<>>
      BY <1>3, <2>3, <3>1
    <3>2. CASE buf[s] # <<>>
      <4>1. 1 \in 1..Len(buf[s])
        BY <1>9, <3>2, EmptySeq
      <4> QED
        BY <1>7, <2>3, <3>2, <4>1
    <3> QED
      BY <3>1, <3>2
  <2>5. ASSUME NEW i \in 1..Len(buf'[s])
        PROVE  /\ buf'[s][i] \in Chunks(s)
               /\ buf'[s][i] = [line |-> buf'[s][1].line, pos |-> i]
               /\ i < printed[buf'[s][1].line].size
    <3>1. i \in 1..Len(buf[s]) \/ i = Len(buf[s]) + 1
      BY <1>9, <2>3
    <3>2. CASE i \in 1..Len(buf[s])
      <4>1. buf[s][1].line = L
        BY <1>7, <1>9, <3>2, EmptySeq
      <4> QED
        BY <1>6, <2>3, <2>4, <3>2, <4>1
    <3>3. CASE i = Len(buf[s]) + 1
      <4>1. h.pos < printed[L].size
        BY <1>8, <1>19
      <4> QED
        BY <1>7, <1>8, <2>3, <2>4, <3>3, <4>1
    <3> QED
      BY <3>1, <3>2, <3>3
  <2>6. \A c \in ToSet(buf'[s]), d \in ToSet(pipe'[s]) : Before(c, d)
    BY <1>6, <1>12, <2>3
  <2>7. \A n \in Logged(s)', c \in ToSet(buf'[s]) \union ToSet(pipe'[s]) : n < c.line
    BY <1>6, <1>7, <1>12, <2>2, <2>3
  <2>8. \A c \in Chunks(s)' : c.line \in Logged(s)' \/ c \in ToSet(buf'[s]) \/ c \in ToSet(pipe'[s])
    BY <1>6, <1>12, <1>13, <2>2, <2>3
  <2>9. ToSet(pipe'[s]) \subseteq Chunks(s)'
    BY <1>6, <1>12, <1>13
  <2>10. \A n \in Logged(s)' : printed'[n].size <= BufSize /\ Written(n)' = printed'[n].size
    BY <1>4, <1>6, <1>13, <2>2
  <2>11. ReadingInv(s)'
    BY <1>4, <1>12, <1>13, <2>5, <2>6, <2>7, <2>8, <2>9, <2>10 DEF ReadingInv
  <2> QED
    BY <1>16, <1>17, <2>2, <2>11 DEF ScanInv
<1> QED
  BY <1>18, <1>19

\* The scanner meets a line that fills its buffer: nothing after it is read.
LEMMA GivesUpStep ==
  ASSUME VmctlInv, NEW s \in Stream, ScannerGivesUp(s)
  PROVE  ScanInv' /\ InOrder'
<1>1. VmctlTypeOK /\ Stages /\ ScanInv /\ InOrder
  BY DEF VmctlInv
<1>2. /\ scanner[s] = "reading" /\ Len(buf[s]) = BufSize
      /\ scanner' = [scanner EXCEPT ![s] = "tooLong"]
      /\ scanner \in [Stream -> {"reading", "tooLong", "eof"}]
      /\ UNCHANGED <<pipe, buf, logLines, printed, part>>
  BY <1>1 DEF ScannerGivesUp, vmctlVars, VmctlTypeOK
<1>3. /\ \A c \in Chunks(s) : c.line \in Logged(s) \/ c \in ToSet(buf[s]) \/ c \in ToSet(pipe[s])
      /\ \A n \in Logged(s) : printed[n].size <= BufSize /\ Written(n) = printed[n].size
      /\ \A n \in Logged(s), c \in ToSet(buf[s]) \union ToSet(pipe[s]) : n < c.line
      /\ \A i \in 1..Len(buf[s]) : /\ buf[s][i] \in Chunks(s)
                                   /\ buf[s][i] = [line |-> buf[s][1].line, pos |-> i]
                                   /\ i < printed[buf[s][1].line].size
      /\ \A c \in ToSet(buf[s]), d \in ToSet(pipe[s]) : Before(c, d)
  BY <1>1, <1>2 DEF ScanInv, ReadingInv
<1>4. PICK L : L = buf[s][1].line
  OBVIOUS
<1>5. BufSize \in Nat /\ BufSize \in 1..Len(buf[s]) /\ 1 \in 1..Len(buf[s])
      /\ DOMAIN buf[s] = 1..Len(buf[s])
  BY <1>1, <1>2, VmctlAssumption, LenProperties DEF VmctlTypeOK
<1>6. PICK b : b = buf[s][1]
  OBVIOUS
<1>7. b \in Chunks(s) /\ b \in ToSet(buf[s]) /\ b.line = L
  BY <1>3, <1>4, <1>5, <1>6 DEF ToSet
<1>8. /\ L \in LinesOf(s) /\ L \in Nat /\ L \in 1..Len(printed)
      /\ printed[L].size > BufSize /\ Written(L) >= BufSize
  <2>1. PICK c : c = buf[s][BufSize]
    OBVIOUS
  <2>2. c \in Chunks(s) /\ c = [line |-> L, pos |-> BufSize] /\ BufSize < printed[L].size
    BY <1>3, <1>4, <1>5, <2>1
  <2>3. c.line = L /\ c.pos = BufSize
    BY <2>2
  <2>4. L \in LinesOf(s) /\ L \in Nat /\ L \in 1..Len(printed) /\ BufSize \in 1..Written(L)
    BY <1>1, <2>2, <2>3, ChunkFacts
  <2> QED
    BY <1>1, <1>5, <2>2, <2>4, WrittenFacts
<1>9. TooLong(L)
  BY <1>1, <1>8, WrittenFacts
<1>10. \A n \in Logged(s) : n \in 1..Len(printed) /\ printed[n].to = s /\ n \in LinesOf(s)
  <2>1. \A i \in DOMAIN logLines : logLines[i] \in 1..Len(printed)
    BY <1>1, LenProperties, ElementOfSeq DEF VmctlTypeOK
  <2>2. \A n \in Logged(s) : n \in 1..Len(printed) /\ printed[n].to = s
    BY <2>1 DEF Logged, ToSet
  <2>3. \A n \in Logged(s) : Written(n) >= 1
    BY <1>1, <1>3, <2>2, WrittenFacts
  <2> QED
    BY <1>1, <2>2, <2>3, WrittenFacts
<1>11. ASSUME NEW n \in LinesOf(s), n < L PROVE n \in Logged(s)
  <2>1. PICK c : c = [line |-> n, pos |-> 1]
    OBVIOUS
  <2>2. c.line = n /\ c.pos = 1 /\ n \in Nat /\ n \in 1..Len(printed)
    BY <1>1, <2>1, WrittenFacts
  <2>3. c \in Chunks(s)
    <3>1. 1 \in 1..Written(n)
      BY <1>1, <2>2, WrittenFacts
    <3> QED
      BY <1>1, <2>1, <3>1, ChunkFacts
  <2>4. c \notin ToSet(buf[s])
    <3>1. SUFFICES ASSUME c \in ToSet(buf[s]) PROVE FALSE
      OBVIOUS
    <3>2. PICK i \in 1..Len(buf[s]) : c = buf[s][i]
      BY <1>5, <3>1 DEF ToSet
    <3>3. c = [line |-> L, pos |-> i]
      BY <1>3, <1>4, <3>2
    <3>4. c.line = L
      BY <3>3
    <3> QED
      BY <1>8, <1>11, <2>2, <3>4
  <2>5. c \notin ToSet(pipe[s])
    <3>1. c \in ToSet(pipe[s]) => Before(b, c)
      BY <1>3, <1>7
    <3> QED
      BY <1>7, <1>8, <1>11, <2>2, <3>1 DEF Before
  <2> QED
    BY <1>3, <2>2, <2>3, <2>4, <2>5
<1>12. Logged(s) = {n \in LinesOf(s) : n < L}
  BY <1>3, <1>7, <1>10, <1>11
<1>13. /\ \A n : Written(n)' = Written(n) /\ (TooLong(n)' <=> TooLong(n))
       /\ \A t \in Stream : Chunks(t)' = Chunks(t) /\ LinesOf(t)' = LinesOf(t) /\ Logged(t)' = Logged(t)
  BY <1>2 DEF Chunks, Chunk, Written, LinesOf, TooLong, Logged
<1>14. ReadingInv(s)' /\ TooLongInv(s)' /\ EofInv(s)'
  <2>1. scanner'[s] = "tooLong"
    BY <1>2
  <2>2. TooLongInv(s)'
    BY <1>2, <1>3, <1>8, <1>9, <1>12, <1>13 DEF TooLongInv
  <2> QED
    BY <2>1, <2>2 DEF ReadingInv, EofInv
<1>15. ASSUME NEW t \in Stream, t # s PROVE ReadingInv(t)' /\ TooLongInv(t)' /\ EofInv(t)'
  <2>1. scanner'[t] = scanner[t]
    BY <1>2, <1>15
  <2> QED
    BY <1>1, <1>2, <1>13, <2>1, Frame DEF ScanInv
<1> QED
  BY <1>1, <1>2, <1>14, <1>15 DEF ScanInv, InOrder

\* The end of a stream: everything is in the log, the rest of a line included.
LEMMA EndsStep ==
  ASSUME VmctlInv, NEW s \in Stream, ScannerEnds(s)
  PROVE  ScanInv' /\ InOrder'
<1>1. VmctlTypeOK /\ Stages /\ ScanInv /\ InOrder
  BY DEF VmctlInv
<1>2. /\ scanner[s] = "reading" /\ pipe[s] = <<>> /\ Len(buf[s]) < BufSize
      /\ scanner' = [scanner EXCEPT ![s] = "eof"]
      /\ scanner \in [Stream -> {"reading", "tooLong", "eof"}]
      /\ buf[s] = <<>> => logLines' = logLines
      /\ buf[s] # <<>> => logLines' = Append(logLines, buf[s][1].line)
      /\ UNCHANGED <<pipe, buf, printed, part>>
  BY <1>1 DEF ScannerEnds, vmctlVars, VmctlTypeOK
<1>3. /\ \A c \in Chunks(s) : c.line \in Logged(s) \/ c \in ToSet(buf[s])
      /\ \A n \in Logged(s) : printed[n].size <= BufSize /\ Written(n) = printed[n].size
      /\ \A n \in Logged(s), c \in ToSet(buf[s]) : n < c.line
      /\ \A i \in 1..Len(buf[s]) : /\ buf[s][i] \in Chunks(s)
                                   /\ buf[s][i] = [line |-> buf[s][1].line, pos |-> i]
  <2>1. ToSet(pipe[s]) = {}
    BY <1>2 DEF ToSet
  <2> QED
    BY <1>1, <1>2, <2>1 DEF ScanInv, ReadingInv
<1>4. /\ BufSize \in Nat /\ Len(buf[s]) \in Nat
      /\ DOMAIN buf[s] = 1..Len(buf[s])
      /\ buf[s] \in Seq(Chunk)
  BY <1>1, VmctlAssumption, LenProperties DEF VmctlTypeOK
<1>5. /\ \A n : Written(n)' = Written(n) /\ (TooLong(n)' <=> TooLong(n))
      /\ \A t \in Stream : Chunks(t)' = Chunks(t) /\ LinesOf(t)' = LinesOf(t)
  BY <1>2 DEF Chunks, Chunk, Written, LinesOf, TooLong
<1>6. \A n \in Logged(s) : n \in LinesOf(s) /\ ~TooLong(n)
  <2>1. \A i \in DOMAIN logLines : logLines[i] \in 1..Len(printed)
    BY <1>1, LenProperties, ElementOfSeq DEF VmctlTypeOK
  <2>2. \A n \in Logged(s) : n \in 1..Len(printed) /\ printed[n].to = s
    BY <2>1 DEF Logged, ToSet
  <2>3. \A n \in Logged(s) : Written(n) >= 1 /\ ~TooLong(n)
    BY <1>1, <1>3, <1>4, <2>2, WrittenFacts
  <2> QED
    BY <1>1, <2>2, <2>3, WrittenFacts
<1>7. ASSUME NEW n \in LinesOf(s)
      PROVE  n \in Logged(s) \/ [line |-> n, pos |-> 1] \in ToSet(buf[s])
  <2>1. PICK c : c = [line |-> n, pos |-> 1]
    OBVIOUS
  <2>2. 1 \in 1..Written(n)
    BY <1>1, WrittenFacts
  <2>3. c \in Chunks(s) /\ c.line = n
    BY <1>1, <2>1, <2>2, ChunkFacts
  <2> QED
    BY <1>3, <2>1, <2>3
<1>8. /\ InOrder'
      /\ Logged(s)' = LinesOf(s)
      /\ \A n \in LinesOf(s) : ~TooLong(n)
      /\ \A t \in Stream : t # s => Logged(t)' = Logged(t)
  <2>1. CASE buf[s] = <<>>
    <3>1. ToSet(buf[s]) = {}
      BY <2>1 DEF ToSet
    <3>2. Logged(s) = LinesOf(s)
      BY <1>6, <1>7, <3>1
    <3>3. \A t \in Stream : Logged(t)' = Logged(t)
      BY <1>2, <2>1 DEF Logged
    <3> QED
      BY <1>1, <1>2, <1>6, <2>1, <3>2, <3>3 DEF InOrder
  <2>2. CASE buf[s] # <<>>
    <3>1. PICK L : L = buf[s][1].line
      OBVIOUS
    <3>2. PICK b : b = buf[s][1]
      OBVIOUS
    <3>3. 1 \in 1..Len(buf[s])
      BY <1>4, <2>2, EmptySeq
    <3>4. b \in Chunks(s) /\ b \in ToSet(buf[s]) /\ b.line = L
      BY <1>3, <1>4, <3>1, <3>2, <3>3 DEF ToSet
    <3>5. L \in LinesOf(s) /\ L \in 1..Len(printed) /\ L \in Nat /\ printed[L].to = s
      BY <1>1, <3>4, ChunkFacts
    <3>6. \A n \in Logged(s) : n < L
      BY <1>3, <3>4
    <3>7. /\ InOrder'
          /\ Logged(s)' = Logged(s) \union {L}
          /\ \A t \in Stream : t # s => Logged(t)' = Logged(t)
      BY <1>1, <1>2, <2>2, <3>1, <3>5, <3>6, LogLemma
    <3>8. ASSUME NEW c \in ToSet(buf[s]) PROVE c.line = L /\ c.pos \in 1..Len(buf[s])
      <4>1. PICK i \in 1..Len(buf[s]) : c = buf[s][i]
        BY <1>4 DEF ToSet
      <4>2. c = [line |-> L, pos |-> i]
        BY <1>3, <3>1, <4>1
      <4> QED
        BY <4>2
    <3>9. \A n \in LinesOf(s) : n \in Logged(s) \/ n = L
      <4>1. TAKE n \in LinesOf(s)
      <4>2. PICK c : c = [line |-> n, pos |-> 1]
        OBVIOUS
      <4>3. c \in ToSet(buf[s]) => n = L
        BY <3>8, <4>2
      <4> QED
        BY <1>7, <4>2, <4>3
    <3>10. ~TooLong(L)
      <4>1. SUFFICES ASSUME TooLong(L) PROVE FALSE
        OBVIOUS
      <4>2. BufSize <= Written(L) /\ Written(L) \in Nat
        BY <1>1, <3>5, <4>1, WrittenFacts
      <4>3. PICK p \in 1..Written(L) : p = Len(buf[s]) + 1
        BY <1>2, <1>4, <4>2
      <4>4. PICK c : c = [line |-> L, pos |-> p]
        OBVIOUS
      <4>5. c \in Chunks(s) /\ c.line = L /\ c.pos = p
        BY <1>1, <3>5, <4>3, <4>4, ChunkFacts
      <4>6. c.line \notin Logged(s)
        BY <3>5, <3>6, <4>5
      <4>7. c \notin ToSet(buf[s])
        BY <1>4, <3>8, <4>3, <4>5
      <4> QED
        BY <1>3, <4>5, <4>6, <4>7
    <3> QED
      BY <1>6, <3>5, <3>7, <3>9, <3>10
  <2> QED
    BY <2>1, <2>2
<1>9. ReadingInv(s)' /\ TooLongInv(s)' /\ EofInv(s)'
  <2>1. scanner'[s] = "eof"
    BY <1>2
  <2>2. EofInv(s)'
    BY <1>5, <1>8 DEF EofInv
  <2> QED
    BY <2>1, <2>2 DEF ReadingInv, TooLongInv
<1>10. ASSUME NEW t \in Stream, t # s PROVE ReadingInv(t)' /\ TooLongInv(t)' /\ EofInv(t)'
  <2>1. scanner'[t] = scanner[t] /\ Logged(t)' = Logged(t)
    BY <1>2, <1>8, <1>10
  <2> QED
    BY <1>1, <1>2, <1>5, <1>10, <2>1, Frame DEF ScanInv
<1> QED
  BY <1>8, <1>9, <1>10 DEF ScanInv

-----------------------------------------------------------------------------
(* The theorems.                                                            *)

LEMMA InvStep == VmctlInv /\ [Next]_vars => VmctlInv'
<1> SUFFICES ASSUME VmctlInv, [Next]_vars PROVE VmctlInv'
  OBVIOUS
<1>1. VmctlTypeOK' /\ Stages'
  BY TypeStep, StagesStep DEF VmctlInv
<1> SUFFICES ScanInv' /\ InOrder'
  BY <1>1 DEF VmctlInv
<1>2. ASSUME UNCHANGED <<printed, part, pipe, buf, scanner, logLines>> PROVE ScanInv' /\ InOrder'
  BY <1>2, SameScan
<1>3. CASE UNCHANGED vars
  BY <1>2, <1>3 DEF vars, vmctlVars, readVars
<1>4. ASSUME NEW line \in Line, VmctlBegins(line) PROVE ScanInv' /\ InOrder'
  BY <1>4, BeginsStep
<1>5. ASSUME NEW s \in Stream, VmctlWrites(s) PROVE ScanInv' /\ InOrder'
  BY <1>5, WritesStep
<1>6. CASE VmctlExits \/ VmctlCrashes
  BY <1>2, <1>6 DEF VmctlExits, VmctlCrashes, Exit, readVars
<1>7. CASE ContextDone \/ KillVmctl
  BY <1>2, <1>7 DEF ContextDone, KillVmctl, Exit, vmctlVars, readVars
<1>8. ASSUME NEW s \in Stream, Reader(s) PROVE ScanInv' /\ InOrder'
  BY <1>8, ReadsStep, GivesUpStep, EndsStep DEF Reader
<1>9. CASE CallStep
  BY <1>2, <1>9 DEF CallStep, StartFails, Start, ReadersDone, WaitReturns, vmctlVars, readVars
<1> QED
  BY <1>3, <1>4, <1>5, <1>6, <1>7, <1>8, <1>9 DEF Next, VmctlStep

\* The inductive invariant holds.
THEOREM VmctlInvariance == Spec => []VmctlInv
  BY InitInv, InvStep, PTL DEF Spec

\* Type correctness: in particular the error message of a failed run, when it
\* is not the text of a Go error, is a line vmctl printed.
THEOREM VmctlTypes == Spec => []VmctlTypeOK
<1>1. VmctlInv => VmctlTypeOK
  BY DEF VmctlInv
<1> QED
  BY <1>1, VmctlInvariance, PTL

\* When the call ends, the log holds what the two scanners could read.
LEMMA LogIsComplete == VmctlInv => LogsAreComplete
<1> SUFFICES ASSUME VmctlInv, call = "done" PROVE LogsAreComplete
  BY DEF LogsAreComplete
<1>1. VmctlTypeOK /\ Stages /\ ScanInv /\ InOrder
  BY DEF VmctlInv
<1>2. ASSUME NEW s \in Stream
      PROVE  Logged(s) = {n \in LinesOf(s) : \A m \in LinesOf(s) : m <= n => ~TooLong(m)}
  <2>1. \A n \in LinesOf(s) : n \in Nat /\ n \in 1..Len(printed)
    BY <1>1, WrittenFacts
  <2>2. CASE vmctl = "none"
    <3>1. Len(printed) = 0 /\ Logged(s) = {}
      BY <1>1, <2>2 DEF Stages, Logged, ToSet
    <3>2. LinesOf(s) = {}
      BY <3>1 DEF LinesOf
    <3> QED
      BY <3>1, <3>2
  <2>3. CASE scanner[s] = "eof"
    BY <1>1, <2>3 DEF ScanInv, EofInv
  <2>4. CASE scanner[s] = "tooLong"
    <3>1. PICK L \in LinesOf(s) :
            /\ TooLong(L)
            /\ Logged(s) = {n \in LinesOf(s) : n < L}
            /\ \A n \in Logged(s) : printed[n].size <= BufSize
      BY <1>1, <2>4 DEF ScanInv, TooLongInv
    <3>2. \A m \in LinesOf(s) : m < L => ~TooLong(m)
      BY <1>1, <2>1, <3>1, VmctlAssumption, WrittenFacts
    <3>3. \A n \in LinesOf(s) : n < L <=> \A m \in LinesOf(s) : m <= n => ~TooLong(m)
      BY <2>1, <3>1, <3>2
    <3> QED
      BY <3>1, <3>3
  <2>5. vmctl # "none" => scanner[s] = "eof" \/ scanner[s] = "tooLong"
    BY <1>1 DEF Stages, VmctlTypeOK
  <2> QED
    BY <2>2, <2>3, <2>4, <2>5
<1> QED
  BY <1>1, <1>2 DEF LogsAreComplete, InOrder

\* The logs of a call are complete, whatever vmctl prints and however the
\* goroutines are scheduled.
THEOREM CompleteLogs == Spec => []LogsAreComplete
  BY LogIsComplete, VmctlInvariance, PTL

\* So no complaint about a series limit is lost on the way to the coordinator.
THEOREM LimitsAreNoticed == Spec => []LimitIsNoticed
<1>1. LogsAreComplete => LimitIsNoticed
  <2>1. SUFFICES ASSUME LogsAreComplete, call = "done",
                        NEW s \in Stream, NEW n \in LinesOf(s),
                        printed[n].kind = "limit",
                        \A m \in LinesOf(s) : m <= n => ~TooLong(m)
                 PROVE  CardinalityIssue
    BY DEF LimitIsNoticed
  <2>2. n \in Logged(s)
    BY <2>1 DEF LogsAreComplete
  <2> QED
    BY <2>1, <2>2 DEF Logged, LogKinds, CardinalityIssue
<1> QED
  BY <1>1, CompleteLogs, PTL
=============================================================================
