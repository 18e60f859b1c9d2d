SPECIFICATION Spec
CONSTANTS
    Prompts = {p1, p2}
    ModeSets = {m1}
    PipeBound = 1
    CallBound = 2
CHECK_DEADLOCK FALSE
INVARIANTS NoLostWaiter OneTurn
PROPERTIES StopKills Implements
