--------------------------- MODULE ServerService ---------------------------
(***************************************************************************)
(* The direct-connection server of the alarm centre (ServerService.cpp and *)
(* the packet handler of Server.cpp): alarm hosts connect over TCP, the    *)
(* accept thread puts each connection in a pooled CClientData object, the  *)
(* receive thread moves the object to the map of living clients when the   *)
(* host's first event names its ademco id, and user interface threads put  *)
(* commands ("tasks") for a machine into the queue of its connection.      *)
(*                                                                         *)
(* A host is identified by its ademco id; a socket is the id of the host   *)
(* at its other end.  Time is abstracted: a timer may expire whenever it   *)
(* is running.  Sends to a socket may fail without effect, so a transmitted*)
(* packet is only recorded by the flags the sender keeps.                  *)
(***************************************************************************)
EXTENDS Naturals, Sequences, FiniteSets, Subsequences

CONSTANTS
    Client,        \* the CClientData objects of the pool
    Id,            \* the ademco ids hosts may send
    Valid,         \* the ids that CheckIsValidMachine accepts
    Sender,        \* the threads that send commands to machines
    None,          \* CONNID_IDLE, INVALID_SOCKET, the null pointer
    MaxClients,    \* m_nMaxClients
    MaxRetry,      \* 10: the resends of a task before it is dropped
    SeqLimit,      \* 10000: the sequence number that wraps to 1
    MayReaddress,  \* whether a host may change its id on an open connection
    MaxTasks,      \* bound on the commands sent in a behaviour
    MaxDeletes     \* bound on the machines deleted in a behaviour

ASSUME NoneAssumption  == None \notin Client \cup Id
ASSUME ValidAssumption == Valid \subseteq Id
ASSUME LimitAssumption == /\ MaxClients \in Nat
                          /\ MaxRetry \in Nat
                          /\ SeqLimit \in Nat \ {0, 1, 2}
                          /\ MaxTasks \in Nat
                          /\ MaxDeletes \in Nat
ASSUME ModeAssumption  == MayReaddress \in BOOLEAN

VARIABLES
    client,       \* the fields of each CClientData object
    pooled,       \* how often each object is in m_bufferedClients
    outstanding,  \* the objects in m_outstandingClients
    living,       \* m_livingClients: from ids to objects
    resolving,    \* the object whose reconnect is under way, or None
    direct,       \* _online_by_direct_mode of each machine
    rccc,         \* _rcccObj of each machine: the object its callbacks act on
    pend,         \* the call of SendToClient each sender is inside of
    issued,       \* the commands sent so far
    deletes       \* the machines deleted so far

vars == <<client, pooled, outstanding, living, resolving, direct, rccc, pend,
          issued, deletes>>

Seq1 == 1 .. SeqLimit - 1   \* the sequence numbers that cur_seq takes

\* A queued command: `n' numbers the commands (0 is the type query the server
\* itself sends) and `late' marks one queued on an object that was no longer
\* the connection of its machine; both are history, the code keeps neither.
Task == [n : Nat, id : Id, seq : Seq1, sent : BOOLEAN, retry : Nat,
         late : BOOLEAN]

ClientData == [dev : Id \cup {None}, online : BOOLEAN, hangup : BOOLEAN,
               wait_to_kill : BOOLEAN, disconnectd : BOOLEAN,
               ademco_id : Id \cup {None}, taskList : Seq(Task),
               cur_seq : Seq1, has_data_to_send : BOOLEAN]

\* CClientData after Clear().
Cleared == [dev |-> None, online |-> FALSE, hangup |-> FALSE,
            wait_to_kill |-> FALSE, disconnectd |-> FALSE, ademco_id |-> None,
            taskList |-> <<>>, cur_seq |-> 1, has_data_to_send |-> FALSE]

Init == /\ client = [c \in Client |-> Cleared]
        /\ pooled = [c \in Client |-> 1]
        /\ outstanding = {}
        /\ living = [m \in Id |-> None]
        /\ resolving = None
        /\ direct = [m \in Id |-> FALSE]
        /\ rccc = [m \in Id |-> None]
        /\ pend = [u \in Sender |-> None]
        /\ issued = 0
        /\ deletes = 0

-----------------------------------------------------------------------------
(* The task queue of a CClientData object. *)

\* mutant: the sequence number does not wrap
NextSeqForever(s) == s + 1

NextSeq(s) == IF s + 1 = SeqLimit THEN 1 ELSE s + 1

\* AddTask
Enqueue(r, n, m, late) ==
    [r EXCEPT !.taskList = Append(@, [n |-> n, id |-> m, seq |-> r.cur_seq,
                                      sent |-> FALSE, retry |-> 0,
                                      late |-> late]),
              !.cur_seq = NextSeq(@),
              !.has_data_to_send = TRUE]

\* GetFirstTask returns a task
HasFirst(r) == r.has_data_to_send /\ r.taskList # <<>>

\* RemoveFirstTask, for a queue that HasFirst
DropFirst(r) == [r EXCEPT !.taskList = Tail(@),
                          !.has_data_to_send = Len(r.taskList) > 1]

\* An event whose sequence number is that of the first task removes the task,
\* whether or not it was ever sent.
Confirm(r, s) ==
    IF HasFirst(r) /\ Head(r.taskList).seq = s THEN DropFirst(r) ELSE r

\* mutants: the new object keeps its own sequence number, leaves the flag down,
\* or does not get the tasks
MoveKeepsSeq(r, q) == [r EXCEPT !.has_data_to_send = q.has_data_to_send,
                                !.taskList = @ \o q.taskList]
MoveKeepsFlag(r, q) == [r EXCEPT !.cur_seq = q.cur_seq,
                                 !.taskList = @ \o q.taskList]
MoveKeepsList(r, q) == [r EXCEPT !.cur_seq = q.cur_seq,
                                 !.has_data_to_send = q.has_data_to_send]

\* MoveTaskListToNewObj: what the new object r gets from q ...
MoveTaskListToNewObj(r, q) ==
    [r EXCEPT !.cur_seq = q.cur_seq,
              !.has_data_to_send = q.has_data_to_send,
              !.taskList = @ \o q.taskList]

\* ... and what is left of q.
MovedAway(q) == [q EXCEPT !.taskList = <<>>, !.has_data_to_send = FALSE]

\* mutant: a resend is not counted
SentUncounted(t) == [t EXCEPT !.sent = TRUE]

\* A task that is sent; the resends are counted.
Sent(t) == [t EXCEPT !.sent = TRUE, !.retry = IF t.sent THEN @ + 1 ELSE @]

SendFirst(r) == [r EXCEPT !.taskList[1] = Sent(r.taskList[1])]

-----------------------------------------------------------------------------
(* What the machine does on the events of a connection.  A machine that is *)
(* not in buffer mode and not banned handles each event at once.           *)

\* mutant: the entry stays
EraseNothing(f, k) == f

\* std::map::erase
Erase(f, k) == [m \in Id |-> IF m = k THEN None ELSE f[m]]

MachineOnline(m, c) == /\ direct' = [direct EXCEPT ![m] = TRUE]
                       /\ rccc' = [rccc EXCEPT ![m] = c]

\* mutant: the machine's callback is reset, its online flag is not
MachineStaysOnline(m) == UNCHANGED direct /\ rccc' = Erase(rccc, m)

\* Without a machine for the id (the idle id, an invalid id) nothing happens.
MachineOffline(m) == /\ direct' = [x \in Id |-> direct[x] /\ x # m]
                     /\ rccc' = Erase(rccc, m)

Signals == {"status", "hangup", "resume"}

\* EVENT_CONN_HANGUP and EVENT_CONN_RESUME call OnConnHangup on the object the
\* machine's callback refers to, if any.
Signal(cl, target, ev) ==
    IF ev = "status" THEN cl
    ELSE [c \in Client |-> IF c = target
                           THEN [cl[c] EXCEPT !.hangup = (ev = "hangup")]
                           ELSE cl[c]]

-----------------------------------------------------------------------------
(* The accept thread. *)

Living == {m \in Id : living[m] # None}

Accept(c, a) ==
    /\ resolving = None                 \* m_cs4outstandingClients is free
    /\ Cardinality(Living) < MaxClients
    /\ pooled[c] > 0
    /\ pooled' = [pooled EXCEPT ![c] = @ - 1]
    /\ client' = [client EXCEPT ![c].dev = a]
    /\ outstanding' = outstanding \cup {c}
    /\ UNCHANGED <<living, resolving, direct, rccc, pend, issued, deletes>>

-----------------------------------------------------------------------------
(* The receive thread.  It visits the outstanding and the living clients.  *)

Polled(c) == c \in outstanding \/ \E m \in Id : living[m] = c

\* HandleClientEvents gets as far as its call of select, with an open socket.
Ready(c) == /\ resolving = None
            /\ Polled(c)
            /\ client[c].dev # None
            /\ ~client[c].wait_to_kill
            /\ ~client[c].disconnectd

\* The ids the host at the other end of the socket may put into a packet.
Sends(c) == IF MayReaddress THEN Id ELSE {client[c].dev}

\* recv returned 0 or an error: only noted, the timer will remove the client.
Disconnect(c) ==
    /\ Ready(c)
    /\ client' = [client EXCEPT ![c].disconnectd = TRUE]
    /\ UNCHANGED <<pooled, outstanding, living, resolving, direct, rccc, pend,
                   issued, deletes>>

\* RecycleClient: close the socket, clear the object, return it to the pool.
Recycle(c) == [client EXCEPT ![c] = Cleared]
Pooled(c)  == [pooled EXCEPT ![c] = @ + 1]

\* mutant: every id passes
AnyMachine(a) == a \in Id

\* Ids and zones in range; a dummy machine is made for an id without one.
CheckIsValidMachine(a) == a \in Valid

\* What an event with id a and sequence number s does to the fields of c.
Addressed(c, a, s) == [Confirm(client[c], s) EXCEPT !.ademco_id = a]

\* An event from a client that is online; a new id takes the old machine
\* offline, but the client keeps its key in m_livingClients.
EventOnline(c, a, s, ev) ==
    LET old == client[c].ademco_id
    IN  /\ Ready(c) /\ client[c].online
        /\ client' = Signal([client EXCEPT ![c] = Addressed(c, a, s)],
                            rccc[a], ev)
        /\ IF old # a THEN MachineOffline(old) ELSE UNCHANGED <<direct, rccc>>
        /\ UNCHANGED <<pooled, outstanding, living, resolving, pend, issued,
                       deletes>>

\* The first event of a client whose machine has no connection: the client
\* becomes living, the machine online, and its type is queried.
EventFirst(c, a, s, ev) ==
    LET r == [Addressed(c, a, s) EXCEPT !.online = TRUE]
    IN  /\ Ready(c) /\ ~client[c].online
        /\ CheckIsValidMachine(a) /\ living[a] = None
        /\ living' = [living EXCEPT ![a] = c]
        /\ outstanding' = outstanding \ {c}
        /\ MachineOnline(a, c)
        /\ client' = Signal([client EXCEPT ![c] = Enqueue(r, 0, a, FALSE)],
                            c, ev)
        /\ UNCHANGED <<pooled, resolving, pend, issued, deletes>>

\* The first event of a client whose machine has a connection already:
\* ResolveOutstandingClient moves the old connection's tasks to the new one.
\* (An object that reconnects to itself copies its list behind itself, which
\* ends only if the list is empty.)
EventReconnect(c, a, s) ==
    LET o == living[a]
        r == [Addressed(c, a, s) EXCEPT !.online = TRUE]
    IN  /\ Ready(c) /\ ~client[c].online
        /\ CheckIsValidMachine(a) /\ o # None
        /\ o = c => r.taskList = <<>>
        /\ client' = [client EXCEPT ![c] = MoveTaskListToNewObj(r, client[o]),
                                    ![o] = MovedAway(@)]
        /\ resolving' = c
        /\ UNCHANGED <<pooled, outstanding, living, direct, rccc, pend, issued,
                       deletes>>

\* ... then the old connection is recycled without a word to its machine, the
\* new one takes its entry, and the event is handled.
FinishReconnect(ev) ==
    LET c == resolving
        a == client[c].ademco_id
        o == living[a]
    IN  /\ resolving # None
        /\ client' = Signal(Recycle(o), rccc[a], ev)
        /\ pooled' = Pooled(o)
        /\ living' = [Erase(living, client[o].ademco_id) EXCEPT ![a] = c]
        /\ outstanding' = outstanding \ {c}
        /\ resolving' = None
        /\ UNCHANGED <<direct, rccc, pend, issued, deletes>>

\* The first event of a client whose id is not valid: kicked out at once.
EventInvalid(c, a) ==
    /\ Ready(c) /\ ~client[c].online
    /\ ~CheckIsValidMachine(a)
    /\ client' = Recycle(c)
    /\ pooled' = Pooled(c)
    /\ outstanding' = outstanding \ {c}
    /\ UNCHANGED <<living, resolving, direct, rccc, pend, issued, deletes>>

DeviceEvent(c) ==
    \E a \in Sends(c), s \in Seq1 :
        \/ \E ev \in Signals : EventOnline(c, a, s, ev) \/ EventFirst(c, a, s, ev)
        \/ EventReconnect(c, a, s)
        \/ EventInvalid(c, a)

\* The acknowledgement of the first task; any other one changes nothing.
Ack(c) ==
    /\ Ready(c)
    /\ HasFirst(client[c]) /\ Head(client[c].taskList).sent
    /\ client' = [client EXCEPT ![c] = DropFirst(@)]
    /\ UNCHANGED <<pooled, outstanding, living, resolving, direct, rccc, pend,
                   issued, deletes>>

\* The socket is writable and the first task is due: it is sent, sent again, or
\* after MaxRetry resends dropped.
Send(c) ==
    /\ Ready(c) /\ HasFirst(client[c])
    /\ client' = [client EXCEPT ![c] =
                    IF Head(@.taskList).retry > MaxRetry THEN DropFirst(@)
                    ELSE SendFirst(@)]
    /\ UNCHANGED <<pooled, outstanding, living, resolving, direct, rccc, pend,
                   issued, deletes>>

\* mutant: a broken link is skipped before its timer is looked at
TimedOutOpen(c) == /\ resolving = None
                   /\ client[c].dev # None /\ ~client[c].hangup
                   /\ ~client[c].disconnectd

\* Nothing was received for m_nTimeoutVal; a hung up link has no timeout.
TimedOut(c) == resolving = None /\ client[c].dev # None /\ ~client[c].hangup

TimeoutOutstanding(c) ==
    /\ TimedOut(c) /\ c \in outstanding
    /\ client' = Recycle(c)
    /\ pooled' = Pooled(c)
    /\ outstanding' = outstanding \ {c}
    /\ UNCHANGED <<living, resolving, direct, rccc, pend, issued, deletes>>

TimeoutLiving(c) ==
    /\ TimedOut(c) /\ \E m \in Id : living[m] = c
    /\ MachineOffline(client[c].ademco_id)      \* OnConnectionLost
    /\ client' = Recycle(c)
    /\ pooled' = Pooled(c)
    /\ living' = Erase(living, client[c].ademco_id)
    /\ UNCHANGED <<outstanding, resolving, pend, issued, deletes>>

-----------------------------------------------------------------------------
(* The user interface threads. *)

\* SendToClient finds the connection under the lock of m_livingClients (without
\* one it fails and nothing changes) ...
FindClient(u, m) ==
    /\ pend[u] = None /\ living[m] # None
    /\ issued < MaxTasks
    /\ issued' = issued + 1
    /\ pend' = [pend EXCEPT ![u] = [client |-> living[m], id |-> m,
                                    n |-> issued']]
    /\ UNCHANGED <<client, pooled, outstanding, living, resolving, direct, rccc,
                   deletes>>

\* The object that holds the commands of machine m.
Holder(m) ==
    IF resolving # None /\ client[resolving].ademco_id = m THEN resolving
    ELSE living[m]

\* ... and queues the task after releasing it.
AddTask(u) ==
    LET p == pend[u]
    IN  /\ p # None
        /\ client' = [client EXCEPT ![p.client] =
                        Enqueue(@, p.n, p.id, p.client # Holder(p.id))]
        /\ pend' = [pend EXCEPT ![u] = None]
        /\ UNCHANGED <<pooled, outstanding, living, resolving, direct, rccc,
                       issued, deletes>>

\* DeleteMachine asks the machine's connection to be killed and forgets the
\* machine; a later connection with its id makes a new one.
DeleteMachine(m) ==
    /\ deletes < MaxDeletes
    /\ deletes' = deletes + 1
    /\ client' = [c \in Client |-> IF c = rccc[m]
                                   THEN [client[c] EXCEPT !.wait_to_kill = TRUE]
                                   ELSE client[c]]
    /\ MachineOffline(m)
    /\ UNCHANGED <<pooled, outstanding, living, resolving, pend, issued>>

-----------------------------------------------------------------------------
RecvThread == \/ \E c \in Client : \/ Disconnect(c) \/ DeviceEvent(c) \/ Ack(c)
                                   \/ Send(c) \/ TimeoutOutstanding(c)
                                   \/ TimeoutLiving(c)
              \/ \E ev \in Signals : FinishReconnect(ev)

UserThreads == \/ \E u \in Sender : AddTask(u) \/ \E m \in Id : FindClient(u, m)
               \/ \E m \in Valid : DeleteMachine(m)

Next == \/ \E c \in Client, a \in Id : Accept(c, a)
        \/ RecvThread
        \/ UserThreads

Spec == Init /\ [][Next]_vars

\* The receive thread keeps polling: a reconnect finishes.  Its two passes
\* alternate, so between any two reconnects it visits the living connection of
\* each machine, sends what is due there and looks at its timer; a pass over the
\* outstanding ones ends at a reconnect, but new ones join their list at the end,
\* so each comes to the front: hence strong fairness for the sends to a machine
\* and for the timers of silent (broken or kicked) links.  No host owes us
\* anything: events, acknowledgements and disconnections are not fair.
Silent(c) == client[c].disconnectd \/ client[c].wait_to_kill

SendTo(m) == living[m] # None /\ Send(living[m])

Fairness == /\ \A m \in Id : SF_vars(SendTo(m))
            /\ \A c \in Client :
                 /\ SF_vars(Silent(c) /\ TimeoutOutstanding(c))
                 /\ SF_vars(Silent(c) /\ TimeoutLiving(c))
            /\ WF_vars(\E ev \in Signals : FinishReconnect(ev))

FairSpec == Spec /\ Fairness

-----------------------------------------------------------------------------
(* Properties *)

\* Every variable has its type (the members declared in ServerService.h).
TypeOK == /\ client \in [Client -> ClientData]
          /\ pooled \in [Client -> Nat]
          /\ outstanding \subseteq Client
          /\ living \in [Id -> Client \cup {None}]
          /\ resolving \in Client \cup {None}
          /\ direct \in [Id -> BOOLEAN]
          /\ rccc \in [Id -> Client \cup {None}]
          /\ pend \in [Sender -> [client : Client, id : Id, n : Nat] \cup {None}]
          /\ issued \in Nat
          /\ deletes \in Nat

\* An object is in one place: accepted once, recycled once, never in the pool
\* while a list still refers to it, and the connection of one machine only.
OnePlace ==
    /\ \A c \in Client : \/ pooled[c] = 0 /\ Polled(c)
                         \/ pooled[c] = 1 /\ ~Polled(c)
    /\ \A m \in Id : living[m] \notin outstanding
    /\ \A m, k \in Id : living[m] = living[k] /\ living[m] # None => m = k

\* The map agrees with the objects: the entry of an id is an online connection
\* to the host of that id, and the id is one that CheckIsValidMachine accepts.
MapConsistent ==
    \A m \in Living : /\ m \in Valid
                      /\ client[living[m]].ademco_id = m
                      /\ client[living[m]].online
                      /\ client[living[m]].dev = m

\* A machine is shown online exactly while it has a living connection, over
\* reconnects (where the machine is told nothing) and timeouts.
DirectShown == \A m \in Id : direct[m] <=> living[m] # None

\* A command is on the connection of the machine it is for, also in the middle
\* of a reconnect, and the flag that lets the sender look at it is up.
TaskHome ==
    \A c \in Client : \A i \in DOMAIN client[c].taskList :
        LET t == client[c].taskList[i]
        IN  ~t.late => c = Holder(t.id) /\ client[c].has_data_to_send

\* The commands of a queue have consecutive sequence numbers, the next of which
\* is cur_seq: a reconnect does not reuse a number that is still in the queue.
Orderly(r) ==
    LET q == r.taskList
    IN  /\ \A i \in 1 .. Len(q) - 1 : q[i + 1].seq = NextSeq(q[i].seq)
        /\ q # <<>> => r.cur_seq = NextSeq(q[Len(q)].seq)

SeqConsecutive ==
    \A c \in Client :
        \/ Orderly(client[c])
        \/ \E i \in DOMAIN client[c].taskList : client[c].taskList[i].late

\* The commands of a queue, without the late ones left there for someone else.
InTime(q) == Picked([i \in DOMAIN q |-> [n |-> q[i].n, sent |-> q[i].sent]],
                    {i \in DOMAIN q : ~q[i].late})

\* The commands for machine m that a caller was promised: those on its connection.
Promised(m) == IF Holder(m) = None THEN <<>> ELSE InTime(client[Holder(m)].taskList)

Taken == (1 .. issued) \ {pend[u].n : u \in {v \in Sender : pend[v] # None}}

\* ServerService implements CommandQueue.
CQ == INSTANCE CommandQueue WITH Command <- 1 .. MaxTasks,
                                 online <- [m \in Id |-> living[m] # None],
                                 queue <- [m \in Id |-> Promised(m)],
                                 given <- Taken
ImplementsCommandQueue == CQ!Spec

\* A link that broke or was kicked leaves the tables, unless it was hung up.
BrokenLeaves ==
    \A c \in Client : Polled(c) /\ Silent(c) ~> ~Polled(c) \/ client[c].hangup

\* A command queued on a working connection is settled in the end, over
\* reconnects, unless the link breaks: acknowledged, or given up after the
\* retries.
Queued(m, n) == \E i \in DOMAIN Promised(m) : Promised(m)[i].n = n

CommandsSettle ==
    \A m \in Id, n \in 1 .. MaxTasks :
        Queued(m, n) ~> ~Queued(m, n) \/ (m \in Living /\ Silent(living[m]))

=============================================================================
