\* One submachine is cleared while its machine handles an event.
CONSTANTS
    Sub = {s1}
    Channel = {d1}
    UI = UI
    Worker = Worker
    Top = Top
    None = None
    Torn = FALSE
    MayDrop = TRUE
    MaxEvents = 3
SPECIFICATION FairSpec
PROPERTIES SubsClearMachine
CHECK_DEADLOCK FALSE
