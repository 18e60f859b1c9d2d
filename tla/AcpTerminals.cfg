CONSTANTS
    Commands = {c1, c2}
    Waited = {c1}
    MaxOutput = 0
    ExitCodes = {"1"}
SPECIFICATION Spec
PROPERTIES WaitAnswered ReleasedDies EndReported
CHECK_DEADLOCK FALSE
