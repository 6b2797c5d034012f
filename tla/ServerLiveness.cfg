\* Two connections of one host whose machine is deleted once, one command, under
\* the fairness of the receive thread.
CONSTANTS
    Client = {c1, c2}
    Id = {a}
    Valid = {a}
    Sender = {u1}
    None = None
    MaxClients = 2
    MaxRetry = 0
    SeqLimit = 3
    MayReaddress = FALSE
    MaxTasks = 1
    MaxDeletes = 1
SPECIFICATION FairSpec
PROPERTIES ImplementsCommandQueue BrokenLeaves CommandsSettle
CHECK_DEADLOCK FALSE
