SPECIFICATION SFairSpec
CONSTANTS
  Conns = {c1, c2}
  Flushers = {f1, f2}
  BufferSize = 1
  Objects = {o1, o2}
  NoLine = NoLine
  MaxLines = 2
INVARIANTS STypeOK CompleteIsQuiet NoSendOnClosed LinesAccounted BufferedUntouched
PROPERTY ShutdownEnds
CHECK_DEADLOCK FALSE
