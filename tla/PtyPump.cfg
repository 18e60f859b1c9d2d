SPECIFICATION FairSpec
CONSTANTS
  MaxBytes = 3
  ReadBuf = 2
  FlushBytes = 3
  FlushInterval = 1
  MaxSyncHold = 2
CHECK_DEADLOCK FALSE
INVARIANTS Verbatim ExitIsLast
PROPERTIES EverythingDrawn ExitReported
