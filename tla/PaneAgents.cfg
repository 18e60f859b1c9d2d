CONSTANTS
    s1 = s1
    s2 = s2
    c1 = c1
    c2 = c2
    Sessions = {s1, s2}
    Panes = {p1}
    Kinds = {"promptSubmit", "stop"}
    Commands = {c1, c2}
    Shell = {c1, c2}
    Outcomes = {"1"}
    Script <- TwoCalls
    NoticeBound = 3
    AtOnce = 2
    FaultBound = 1
    MaxRead = 2
    MaxCalls = 1
    MaxOutput = 1
SPECIFICATION Spec
INVARIANTS NeverMerged LandsBack TranscriptExact NoBlockVanishes
CHECK_DEADLOCK FALSE
