SPECIFICATION SpillSpec
CONSTANTS
  MaxInline = 3
  MaxSpill = 6
  MaxChunk = 3
  MaxWritten = 10
CHECK_DEADLOCK FALSE
INVARIANTS ReadsBack DiskBounded
