SPECIFICATION SchemeSpec
CONSTANTS
    Panes = {p1, p2}
    MaxChanges = 2
PROPERTY NewsIsNotTakenBack
CHECK_DEADLOCK FALSE
