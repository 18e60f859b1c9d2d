SPECIFICATION SessionSpec
CONSTANTS
    MaxPanes = 4
    Events = 2
    Slots = {s1, s2}
SYMMETRY SlotSymmetry
INVARIANTS LayoutSound HistoryIsOwn SavedWhenQuiet
CHECK_DEADLOCK FALSE
