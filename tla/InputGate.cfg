SPECIFICATION FairSpec
CONSTANTS
  Call = {c1, c2, c3}
  Pieces = 2
  KernelBuf = 3
CHECK_DEADLOCK FALSE
INVARIANTS NoOvertaking Contiguous AckedAccounted TakeOverDestroysNothing
PROPERTY AckedDelivered
