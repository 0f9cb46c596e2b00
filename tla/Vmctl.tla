-------------------------------- MODULE Vmctl --------------------------------
(***************************************************************************)
(* RunVmctl (internal/workerserver/vmctl.go): one run of vmctl by a        *)
(* worker, between the acceptance of a request and its answer.             *)
(*                                                                         *)
(* The goroutine of the call starts vmctl and waits for two goroutines,    *)
(* each of which reads the lines of one pipe with a bufio.Scanner and      *)
(* appends them to logLines.  vmctl writes to the pipes and blocks when    *)
(* one is full; a scanner gives up at a line longer than its buffer and    *)
(* then reads no more.  exec.CommandContext kills vmctl when the context   *)
(* of the call is done.  Text travels in chunks, the last one of a line    *)
(* carries its newline.                                                    *)
(***************************************************************************)
EXTENDS Integers, SequencesExt

CONSTANTS
  MaxLines,  \* bound on the lines vmctl prints
  MaxSize,   \* bound on the chunks of a line
  BufSize,   \* chunks in a scanner's buffer (bufio.MaxScanTokenSize, 64 KB)
  PipeSize,  \* chunks in a pipe (64 KB on Linux)
  Tenths,    \* the amount vmctl prints as its total, in tenths of Unit
  Unit       \* "TB", "GB", "MB", "KB" or "B"

ASSUME VmctlAssumption ==
  /\ MaxLines \in Nat
  /\ MaxSize \in Nat \ {0}
  /\ BufSize \in Nat \ {0}
  /\ PipeSize \in Nat \ {0}
  /\ Tenths \in Nat
  /\ Unit \in {"TB", "GB", "MB", "KB", "B"}

Stream == {"stdout", "stderr"}

\* What the code tells apart in a line: empty or the greeting "VictoriaMetrics",
\* a complaint about a series limit, the total of bytes.
\* What makes a line of its kind stands in its first chunk.
Kind == {"blank", "limit", "total"}
Line == [to : Stream, kind : Kind, size : 1..MaxSize]

VARIABLES
  call,      \* where the goroutine of the call is: see PC
  vmctl,     \* "none", "running", "exited"
  code,      \* vmctl's exit code; -1 when a signal killed it
  printed,   \* the lines vmctl has begun to print
  part,      \* chunks of the last of them that are in its pipe
  pipe,      \* pipe[s]: the chunks in the pipe of stream s
  buf,       \* buf[s]: the chunks of an unfinished line in the scanner's buffer
  scanner,   \* scanner[s]: "reading", "tooLong", "eof"
  logLines,  \* the lines read, as indices of printed
  ctxDone,   \* the context of the call is done
  killed,    \* the watcher of exec.CommandContext has killed vmctl
  result     \* the VmctlResult

callVars == <<call, result>>
vmctlVars == <<vmctl, code, printed, part>>
readVars == <<pipe, buf, scanner, logLines>>
vars == <<callVars, vmctlVars, readVars, ctxDone, killed>>

\* "start": before cmd.Start; "read": in wg.Wait; "wait": in cmd.Wait.
PC == {"start", "read", "wait", "done"}

\* error: the line that became ErrorMessage, 0 when it is the text of a Go error.
NoResult == [exit |-> 0, error |-> 0, bytes |-> 0]

Init ==
  /\ call = "start"
  /\ vmctl = "none"
  /\ code = 0
  /\ printed = <<>>
  /\ part = 0
  /\ pipe = [s \in Stream |-> <<>>]
  /\ buf = [s \in Stream |-> <<>>]
  /\ scanner = [s \in Stream |-> "reading"]
  /\ logLines = <<>>
  /\ ctxDone = FALSE
  /\ killed = FALSE
  /\ result = NoResult

-----------------------------------------------------------------------------
(* vmctl.                                                                   *)

LineEnded == printed # <<>> => part = Last(printed).size

\* vmctl commits itself to a line before it has room for it.
VmctlBegins(line) ==
  /\ vmctl = "running"
  /\ LineEnded
  /\ Len(printed) < MaxLines
  /\ printed' = Append(printed, line)
  /\ part' = 0
  /\ UNCHANGED <<vmctl, code, callVars, readVars, ctxDone, killed>>

VmctlWrites(s) ==
  /\ vmctl = "running"
  /\ ~LineEnded
  /\ s = Last(printed).to
  /\ Len(pipe[s]) < PipeSize
  /\ part' = part + 1
  /\ pipe' = [pipe EXCEPT ![s] = Append(@, [line |-> Len(printed), pos |-> part + 1])]
  /\ UNCHANGED <<vmctl, code, printed, buf, scanner, logLines, callVars, ctxDone, killed>>

Exit(c) ==
  /\ vmctl = "running"
  /\ vmctl' = "exited"
  /\ code' = c
  /\ UNCHANGED <<printed, part, callVars, readVars, ctxDone>>

VmctlExits ==
  /\ LineEnded
  /\ \E c \in {0, 1} : Exit(c)
  /\ UNCHANGED killed

\* Out of memory, say.
VmctlCrashes ==
  /\ Exit(-1)
  /\ UNCHANGED killed

-----------------------------------------------------------------------------
(* The context.                                                             *)

\* The coordinator gave up the call, or its connection broke.
ContextDone ==
  /\ call # "done"
  /\ ~ctxDone
  /\ ctxDone' = TRUE
  /\ UNCHANGED <<callVars, vmctlVars, readVars, killed>>

\* Mutant: the command is made without the context.
KillNothing ==
  /\ ctxDone
  /\ call \in {"read", "wait"}
  /\ ~killed
  /\ killed' = TRUE
  /\ UNCHANGED <<callVars, vmctlVars, readVars, ctxDone>>

\* The watcher's signal reaches vmctl, or what is left of it before cmd.Wait.
KillVmctl ==
  /\ ctxDone
  /\ call \in {"read", "wait"}
  /\ ~killed
  /\ killed' = TRUE
  /\ \/ Exit(-1)
     \/ vmctl = "exited" /\ UNCHANGED <<callVars, vmctlVars, readVars, ctxDone>>

-----------------------------------------------------------------------------
(* The two reading goroutines.                                              *)

\* One chunk moves to the buffer; with the newline the line is complete.
ScannerReads(s) ==
  LET chunk == Head(pipe[s]) IN
    /\ call # "start"
    /\ scanner[s] = "reading"
    /\ pipe[s] # <<>>
    /\ Len(buf[s]) < BufSize
    /\ pipe' = [pipe EXCEPT ![s] = Tail(@)]
    /\ IF chunk.pos = printed[chunk.line].size
         THEN /\ logLines' = Append(logLines, chunk.line)
              /\ buf' = [buf EXCEPT ![s] = <<>>]
         ELSE /\ buf' = [buf EXCEPT ![s] = Append(@, chunk)]
              /\ UNCHANGED logLines
    /\ UNCHANGED <<scanner, callVars, vmctlVars, ctxDone, killed>>

\* ErrTooLong: the buffer is full and holds no newline.
ScannerGivesUp(s) ==
  /\ call # "start"
  /\ scanner[s] = "reading"
  /\ Len(buf[s]) = BufSize
  /\ scanner' = [scanner EXCEPT ![s] = "tooLong"]
  /\ UNCHANGED <<pipe, buf, logLines, callVars, vmctlVars, ctxDone, killed>>

\* End of file: what is left of a line without its newline is a line, too.
ScannerEnds(s) ==
  /\ scanner[s] = "reading"
  /\ pipe[s] = <<>>
  /\ vmctl = "exited"
  /\ Len(buf[s]) < BufSize
  /\ scanner' = [scanner EXCEPT ![s] = "eof"]
  /\ logLines' = IF buf[s] = <<>> THEN logLines ELSE Append(logLines, buf[s][1].line)
  /\ UNCHANGED <<pipe, buf, callVars, vmctlVars, ctxDone, killed>>

\* Mutant: one goroutine reads the two pipes, one after the other.
ReaderInTurn(s) ==
  /\ s = "stderr" => scanner["stdout"] # "reading"
  /\ ScannerReads(s) \/ ScannerGivesUp(s) \/ ScannerEnds(s)

Reader(s) == ScannerReads(s) \/ ScannerGivesUp(s) \/ ScannerEnds(s)

-----------------------------------------------------------------------------
(* The goroutine of the call.                                               *)

\* A pipe cannot be made, or cmd.Start fails, as it does with a context that is done.
StartFails ==
  /\ call = "start"
  /\ call' = "done"
  /\ result' = [NoResult EXCEPT !.exit = -1]
  /\ UNCHANGED <<vmctlVars, readVars, ctxDone, killed>>

Start ==
  /\ call = "start"
  /\ ~ctxDone
  /\ call' = "read"
  /\ vmctl' = "running"
  /\ UNCHANGED <<result, code, printed, part, readVars, ctxDone, killed>>

\* Mutant: cmd.Wait is called while the pipes are being read; it closes them.
ReadersNotAwaited ==
  /\ call = "read"
  /\ call' = "wait"
  /\ UNCHANGED <<result, vmctlVars, readVars, ctxDone, killed>>

ReadersDone ==
  /\ call = "read"
  /\ \A s \in Stream : scanner[s] # "reading"
  /\ call' = "wait"
  /\ UNCHANGED <<result, vmctlVars, readVars, ctxDone, killed>>

LogKinds == {printed[n].kind : n \in ToSet(logLines)}

Meaningful == {i \in DOMAIN logLines : printed[logLines[i]].kind # "blank"}

\* Mutant: the search goes one line past the first.
LastMeaningfulOffByOne ==
  IF Meaningful = {} THEN {-1}
  ELSE {logLines[i] : i \in {i \in Meaningful : \A j \in Meaningful : j <= i}}

\* The last line that says something becomes the ErrorMessage of a failed run.
LastMeaningful ==
  IF Meaningful = {} THEN {0}
  ELSE {logLines[i] : i \in {i \in Meaningful : \A j \in Meaningful : j <= i}}

\* parseHumanBytes takes the suffixes in the order of a map and keeps the first
\* that fits; Sscanf reads the number and leaves what follows it.
Multiplier(unit) ==
  CASE unit = "TB" -> 1024 * 1024 * 1024 * 1024
    [] unit = "GB" -> 1024 * 1024 * 1024
    [] unit = "MB" -> 1024 * 1024
    [] unit = "KB" -> 1024
    [] unit = "B" -> 1
ParseHumanBytes == {(Tenths * Multiplier(unit)) \div 10 : unit \in {Unit, "B"}}
ParseVmctlBytes == IF "total" \in LogKinds THEN ParseHumanBytes ELSE {0}

\* cmd.Wait: an exit code other than 0, or the context's error.
WaitReturns ==
  /\ call = "wait"
  /\ vmctl = "exited"
  /\ call' = "done"
  /\ LET exit == IF code = 0 /\ killed THEN -1 ELSE code IN
       \E bytes \in ParseVmctlBytes, error \in IF exit = 0 THEN {0} ELSE LastMeaningful :
         result' = [exit |-> exit, error |-> error, bytes |-> bytes]
  /\ UNCHANGED <<vmctlVars, readVars, ctxDone, killed>>

\* Mutant: the coordinator looks at the error message only.
CardinalityIssueByMessage == result.error # 0 /\ printed[result.error].kind = "limit"

\* What the coordinator makes of a failed run: isCardinalityRelatedError of the
\* logs and of the error message.
CardinalityIssue ==
  \/ "limit" \in LogKinds
  \/ result.error # 0 /\ printed[result.error].kind = "limit"

-----------------------------------------------------------------------------
VmctlStep ==
  \/ \E line \in Line : VmctlBegins(line)
  \/ \E s \in Stream : VmctlWrites(s)
  \/ VmctlExits

CallStep == StartFails \/ Start \/ ReadersDone \/ WaitReturns

Next ==
  \/ VmctlStep
  \/ VmctlCrashes
  \/ ContextDone
  \/ KillVmctl
  \/ \E s \in Stream : Reader(s)
  \/ CallStep

Spec == Init /\ [][Next]_vars

\* The goroutines are scheduled, and vmctl, whose requests have deadlines, goes
\* on to its end when it can write.  Nothing obliges it to crash or the context
\* to be done.
LiveSpec ==
  /\ Spec
  /\ WF_vars(VmctlStep)
  /\ WF_vars(KillVmctl)
  /\ \A s \in Stream : WF_vars(Reader(s))
  /\ WF_vars(CallStep)

-----------------------------------------------------------------------------
(* Properties.                                                              *)

Chunk == [line : 1..Len(printed), pos : 1..MaxSize]

\* Type invariant.
VmctlTypeOK ==
  /\ call \in PC
  /\ vmctl \in {"none", "running", "exited"}
  /\ code \in {-1, 0, 1}
  /\ printed \in Seq(Line) /\ Len(printed) <= MaxLines
  /\ part \in 0..MaxSize
  /\ pipe \in [Stream -> Seq(Chunk)] /\ \A s \in Stream : Len(pipe[s]) <= PipeSize
  /\ buf \in [Stream -> Seq(Chunk)] /\ \A s \in Stream : Len(buf[s]) <= BufSize
  /\ scanner \in [Stream -> {"reading", "tooLong", "eof"}]
  /\ logLines \in Seq(1..Len(printed))
  /\ ctxDone \in BOOLEAN
  /\ killed \in BOOLEAN
  /\ result \in [exit : {-1, 0, 1}, error : 0..Len(printed), bytes : Nat]

\* The lines of stream s of which something was written, and those of them that
\* a scanner cannot hold.
LinesOf(s) ==
  {n \in 1..Len(printed) : printed[n].to = s /\ ~(n = Len(printed) /\ part = 0)}
TooLong(n) ==
  printed[n].size > BufSize /\ (n = Len(printed) => part >= BufSize)

Logged(s) == {n \in ToSet(logLines) : printed[n].to = s}

\* The logs of a call hold everything vmctl printed on a pipe, in order, up to
\* the first line that is longer than the scanner's buffer - whether vmctl ended
\* by itself, crashed in the middle of a line or was killed, and however the
\* readers were scheduled.
LogsAreComplete ==
  call = "done" =>
    /\ \A s \in Stream : Logged(s) = {n \in LinesOf(s) : \A m \in LinesOf(s) : m <= n => ~TooLong(m)}
    /\ \A i, j \in DOMAIN logLines :
         i < j /\ printed[logLines[i]].to = printed[logLines[j]].to => logLines[i] < logLines[j]

\* A failed run that complained about a series limit is resplit and not just
\* retried, wherever the complaint stands among the lines of the two pipes,
\* unless a line that was too long came before it on its pipe.
LimitIsNoticed ==
  call = "done" /\ result.exit # 0 =>
    \A s \in Stream : \A n \in LinesOf(s) :
      printed[n].kind = "limit" /\ (\A m \in LinesOf(s) : m <= n => ~TooLong(m))
        => CardinalityIssue

\* vmctl can write no more: its pipe is full and the scanner has given up.
Abandoned(s) ==
  /\ scanner[s] = "tooLong"
  /\ vmctl = "running"
  /\ ~LineEnded /\ Last(printed).to = s
  /\ Len(pipe[s]) = PipeSize

\* A call ends when vmctl ends, with one exception: a scanner that gave up on a
\* line longer than 64 KB leaves vmctl blocked on the pipe it no longer drains,
\* and no deadline bounds the call.
CallReturns == call = "read" ~> call = "done" \/ \E s \in Stream : Abandoned(s)

\* A call whose context is done returns, even that one: the kill closes both
\* pipes.  So the worker of a lost call is free again, which the coordinator
\* relies on.
CancelledCallReturns == ctxDone ~> call = "done"
=============================================================================
