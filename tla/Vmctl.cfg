\* Up to three lines on two pipes, some longer than a scanner's buffer.
SPECIFICATION LiveSpec
CONSTANTS
  MaxLines = 3
  MaxSize = 3
  BufSize = 2
  PipeSize = 1
  Tenths = 78
  Unit = "MB"
INVARIANTS
  VmctlTypeOK
  LogsAreComplete
  LimitIsNoticed
PROPERTIES
  CallReturns
  CancelledCallReturns
CHECK_DEADLOCK FALSE
