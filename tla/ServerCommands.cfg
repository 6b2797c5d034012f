\* Three connections of two hosts and a stranger, with a command for the hosts.
CONSTANTS
    Client = {c1, c2, c3}
    Id = {a, b, x}
    Valid = {a, b}
    Sender = {u1}
    None = None
    MaxClients = 2
    MaxRetry = 0
    SeqLimit = 3
    MayReaddress = FALSE
    MaxTasks = 1
    MaxDeletes = 0
SPECIFICATION Spec
SYMMETRY Symmetry
INVARIANTS TypeOK OnePlace MapConsistent DirectShown SeqConsecutive TaskHome
\* Links that were hung up and then broke never time out; when they fill the
\* table the server refuses everybody and stops.
CHECK_DEADLOCK FALSE
