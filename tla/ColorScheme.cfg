SPECIFICATION SchemeSpec
CONSTANTS
    Panes = {p1, p2}
    MaxChanges = 2
SYMMETRY PaneSymmetry
INVARIANTS NobodyLeftOut
PROPERTY OnlyAskersTold
CHECK_DEADLOCK FALSE
