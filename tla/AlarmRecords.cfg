\* A machine and a submachine; the table is full with three records.
CONSTANTS
    Top = Top
    Sub = {s1}
    None = None
    Overlap = FALSE
    MaxRecord = 3
    CheckCounter = 2
    MaxAlarms = 3
    MaxTexts = 3
    MaxEdits = 1
    MaxRestarts = 1
SPECIFICATION Spec
INVARIANTS TypeOK LinksRight CacheAgrees LookupHits TextsJoin LimitSeen
PROPERTIES ClosedStays OldestGo
\* The bounds end every behaviour.
CHECK_DEADLOCK FALSE
