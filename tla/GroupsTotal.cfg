\* Edits other than the move of a group, with events in between.
CONSTANTS
    Group = {r, g1, g2}
    Root = r
    Machine = {m1, m2}
    Channel = {c1}
    UI = UI
    None = None
    Quiet = FALSE
    MayMoveGroup = FALSE
    MayDeleteGroup = TRUE
    MayAlarm = TRUE
    MaxEvents = 2
    MaxEdits = 3
SPECIFICATION Spec
SYMMETRY Symmetry
INVARIANTS TypeOK TotalRight Homed
