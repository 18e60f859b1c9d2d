SPECIFICATION Spec
CONSTANTS
  MaxPayload = 2
  Streams <- MCStreams
CHECK_DEADLOCK FALSE
INVARIANTS BlocksAsMarked InItsOwnBlock OutputExact
