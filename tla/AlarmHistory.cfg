\* The record of a submachine is left hanging and edited from the history.
CONSTANTS
    Top = Top
    Sub = {s1}
    None = None
    Overlap = FALSE
    MaxRecord = 3
    CheckCounter = 2
    MaxAlarms = 1
    MaxTexts = 1
    MaxEdits = 1
    MaxRestarts = 0
SPECIFICATION Spec
INVARIANTS OwnRecord
CHECK_DEADLOCK FALSE
