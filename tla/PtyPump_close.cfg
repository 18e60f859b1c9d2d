SPECIFICATION FairSpec
CONSTANTS
  MaxBytes = 1
  ReadBuf = 2
  FlushBytes = 3
  FlushInterval = 1
  MaxSyncHold = 2
CHECK_DEADLOCK FALSE
PROPERTY CloseTerminates
