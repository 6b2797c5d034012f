\* Two channels and three submachines; the user clears alarms of the machine and
\* of submachines, one count at a time and none while events are buffered.  Without
\* symmetry, for the liveness of the buffer.
CONSTANTS
    Sub = {s1, s2, s3}
    Channel = {d1, d2}
    UI = UI
    Worker = Worker
    Top = Top
    None = None
    Torn = FALSE
    MayDrop = FALSE
    MaxEvents = 4
SPECIFICATION FairSpec
INVARIANTS TypeOK NothingLost SubsFollow AlarmAgrees
PROPERTIES BufferHandled
\* A submachine's clearing and an event handler may wait for each other.
CHECK_DEADLOCK FALSE
