SPECIFICATION MountFairSpec
CONSTANTS
    Shells = {s1, s2}
    NoShell = none
    MaxBlocks = 1
PROPERTY CleanupClosesPty
CHECK_DEADLOCK FALSE
