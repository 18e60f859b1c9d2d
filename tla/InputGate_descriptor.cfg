SPECIFICATION Spec
CONSTANTS
  Call = {c1}
  Pieces = 1
  KernelBuf = 1
CHECK_DEADLOCK FALSE
INVARIANT WatcherDescriptorOpen
