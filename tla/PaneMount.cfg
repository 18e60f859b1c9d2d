SPECIFICATION MountFairSpec
CONSTANTS
    Shells = {s1, s2}
    NoShell = none
    MaxBlocks = 1
INVARIANTS BlocksAccounted
PROPERTIES ClosedShellEnds SpawnGetsThrough CutBlockAnnounced
CHECK_DEADLOCK FALSE
