\* One network thread, edits of machines, undisturbed.
CONSTANTS
    Group = {r, g1, g2}
    Root = r
    Machine = {m1, m2}
    Channel = {c1}
    UI = UI
    None = None
    Quiet = TRUE
    MayMoveGroup = FALSE
    MayDeleteGroup = FALSE
    MayAlarm = FALSE
    MaxEvents = 4
    MaxEdits = 3
SPECIFICATION Spec
SYMMETRY Symmetry
INVARIANTS OnlineRight
