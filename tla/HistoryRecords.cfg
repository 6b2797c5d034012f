\* One other thread, one machine and two users; the limit is near from the start.
\* Two stops let a rebuild be cut short and the next one fail.
CONSTANTS
    Writer = {w}
    UI = UI
    Worker = Worker
    Machine = {m1}
    User = {u1, u2}
    None = None
    MaxHistory = 4
    CheckPoint = 2
    MaxRecords = 5
    MaxLogins = 1
    MaxStops = 2
    MaxDialogs = 2
SPECIFICATION FairSpec
INVARIANTS TypeOK TotalRight
PROPERTIES ExportedGoFirst ImplementsHistoryLog BufferFlushed
\* A login and an insert may wait for each other.
CHECK_DEADLOCK FALSE
