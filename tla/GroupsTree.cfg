\* Every edit of a tree of up to four groups, no events.
CONSTANTS
    Group = {r, g1, g2, g3}
    Root = r
    Machine = {m1}
    Channel = {c1}
    UI = UI
    None = None
    Quiet = TRUE
    MayMoveGroup = TRUE
    MayDeleteGroup = TRUE
    MayAlarm = FALSE
    MaxEvents = 0
    MaxEdits = 4
SPECIFICATION Spec
SYMMETRY Symmetry
INVARIANTS Rooted
