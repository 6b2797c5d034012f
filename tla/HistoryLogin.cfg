\* A user logs in while a thread inserts a record.
CONSTANTS
    Writer = {w}
    UI = UI
    Worker = Worker
    Machine = {m1}
    User = {u1, u2}
    None = None
    MaxHistory = 4
    CheckPoint = 2
    MaxRecords = 4
    MaxLogins = 1
    MaxStops = 0
    MaxDialogs = 2
SPECIFICATION FairSpec
PROPERTIES LoginReturns
CHECK_DEADLOCK FALSE
