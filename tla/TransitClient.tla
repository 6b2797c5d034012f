--------------------------- MODULE TransitClient ---------------------------
(***************************************************************************)
(* A client of a transit server (Client.cpp): it connects, reconnects and  *)
(* notices a loss by its timers, learns from the server which connection   *)
(* speaks for which machine, shows machines online by what it has learnt,  *)
(* and sends them commands over the connection it noted for each.          *)
(*                                                                         *)
(* One loop of the client's thread is cut into its parts, which nothing    *)
(* else of the client runs between; the user interface issues commands and *)
(* throws the client away to start another.  The transit server and the    *)
(* hosts behind it are modelled as far as the client hears of them.  Time  *)
(* is counted in units; a timer that nobody reads is left at zero.  Events *)
(* are taken up by the machine at once: its buffer mode is AlarmMachine's. *)
(***************************************************************************)
EXTENDS Integers, Sequences, FiniteSets

CONSTANTS
    Machine,       \* the machines
    Elsewhere,     \* those of them that are online by another channel throughout
    Conn,          \* the connection ids the server gives to hosts
    Stranger,      \* an ademco id that no machine may have
    None,
    ReconnectGap,  \* RECONNECT_SERVER_GAP, CHECK_RECVD_DATA_GAP and
    ReceiveGap,    \* SUPPRESS_DISCONN_TIME, in units of time
    SuppressGap,
    MaxIn,         \* bound on the packets on their way to the client
    MaxOut,        \* bound on the packets of buffer_
    MaxRestarts    \* bound on the restarts of the client

ASSUME NameAssumption == /\ None \notin Machine \cup Conn
                         /\ Stranger \notin Machine \cup {None}
                         /\ Elsewhere \subseteq Machine
ASSUME GapAssumption  == {ReconnectGap, ReceiveGap, SuppressGap} \subseteq Nat
ASSUME BoundAssumption == MaxIn \in Nat \ {0} /\ {MaxOut, MaxRestarts} \subseteq Nat

VARIABLES
    established, \* connection_established_
    conn_id,     \* m_conn_id is an id, perhaps that of an earlier connection
    entry,       \* m_clientsMap: the machine of each online entry, or None
    buffer,      \* buffer_
    showed,      \* showed_disconnected_info_to_user_
    age,         \* the time since last_conn_time_, disconnected_time_, last_recv_time_
    shown,       \* the machines whose flag of this channel is set
    packet,      \* the connection in the private packet of each machine
    stopping,    \* whether the user interface is stopping the client
    restarts,    \* the restarts so far
    serving,     \* the server accepts connections
    link,        \* the server's end of the connection is alive
    host,        \* who is at each connection of the server
    inbox,       \* packets from the server
    old,         \* history: entries that outlived their connection
    left         \* history: machines shown when the client was thrown away

machines == <<shown, packet>>
timers   == <<showed, age>>
server   == <<serving, link, host>>
control  == <<stopping, restarts>>
vars == <<established, conn_id, entry, buffer, timers, machines, control, server,
          inbox, old, left>>

Answer == [kind |-> "answer"]

Who == Machine \cup {Stranger}

\* An event of a host, its return to factory settings or its loss; the id of the
\* client's own connection; packets that teach nothing, answered or not.
Notice == [kind : {"event"}, conn : Conn, id : Who]
          \cup [kind : {"factory", "lost"}, conn : Conn]
          \cup [kind : {"id", "status"}]

\* A command, the question for a machine's type being one, or the answer to a
\* packet (ACK, DUH or the login), which goes where the packet came from.
Outgoing == [kind : {"command"}, conn : Conn, id : Machine] \cup {Answer}

\* The time since an event is counted to the first value that exceeds its gap.
Ages == [conn : 0..ReconnectGap + 1, disc : 0..SuppressGap + 1,
         recv : 0..ReceiveGap + 1]

Never == [conn |-> ReconnectGap + 1, disc |-> SuppressGap + 1, recv |-> 0]
Zero  == [conn |-> 0, disc |-> 0, recv |-> 0]

NoEntries == [c \in Conn |-> None]

Init == /\ established = FALSE /\ conn_id = FALSE
        /\ entry = NoEntries /\ buffer = <<>>
        /\ showed = TRUE /\ age = Never
        /\ shown = {} /\ packet = [m \in Machine |-> None]
        /\ stopping = FALSE /\ restarts = 0
        /\ serving = TRUE /\ link = FALSE
        /\ host = NoEntries /\ inbox = <<>>
        /\ old = {} /\ left = {}

-----------------------------------------------------------------------------
(* What a machine learns from the client.                                  *)

\* The machines of the entries in S.
Gone(S) == {entry[c] : c \in S} \ {None}

\* mutant: the private packet is kept
HandleOfflineKeep(S) ==
    /\ entry' = [c \in Conn |-> IF c \in S THEN None ELSE entry[c]]
    /\ shown' = shown \ Gone(S)
    /\ packet' = packet
    /\ old' = old \ S
    /\ left' = left \ Gone(S)

\* HandleOffline of every entry in S.
HandleOffline(S) ==
    /\ entry' = [c \in Conn |-> IF c \in S THEN None ELSE entry[c]]
    /\ shown' = shown \ Gone(S)
    /\ packet' = [m \in Machine |-> IF m \in Gone(S) THEN None ELSE packet[m]]
    /\ old' = old \ S
    /\ left' = left \ Gone(S)

OnConnectionLost == HandleOffline(Conn) /\ conn_id' = FALSE

NothingLearnt == UNCHANGED <<entry, shown, packet, old, left>>

\* The first event of a machine on a connection: its private packet is noted,
\* the entry made, the flag set and the type asked for, by this channel too
\* when no other has it.
Online(c, m) ==
    LET gone == Gone({c}) \ {m}
    IN  /\ entry' = [entry EXCEPT ![c] = m]
        /\ shown' = (shown \ gone) \cup {m}
        /\ packet' = [n \in Machine |-> IF n = m THEN c
                                       ELSE IF n \in gone THEN None ELSE packet[n]]
        /\ old' = old \ {c}
        /\ left' = left \ (gone \cup {m})

Put(p) == buffer' = Append(buffer, p)

CommandTo(c, m) == [kind |-> "command", conn |-> c, id |-> m]

\* mutant: an entry of another id stays
HandleEventKeep(c, id) ==
    IF id = Stranger
    THEN HandleOffline({c}) /\ Put(Answer)
    ELSE IF entry[c] = None \/ id \notin shown \cup Elsewhere
         THEN /\ Online(c, id)
              /\ \/ id \in Elsewhere /\ Put(Answer)
                 \/ buffer' = buffer \o <<CommandTo(c, id), Answer>>
         ELSE NothingLearnt /\ Put(Answer)

\* handle_cmd_05 00 and handle_cmd_0d 00.  An entry of another id goes first.
HandleEvent(c, id) ==
    IF id = Stranger
    THEN HandleOffline({c}) /\ Put(Answer)
    ELSE IF entry[c] # id \/ id \notin shown \cup Elsewhere
         THEN /\ Online(c, id)
              /\ \/ id \in Elsewhere /\ Put(Answer)
                 \/ buffer' = buffer \o <<CommandTo(c, id), Answer>>
         ELSE NothingLearnt /\ Put(Answer)

\* handle_cmd and OnRecv2.
Handle(p) ==
    \/ p.kind = "event" /\ HandleEvent(p.conn, p.id) /\ UNCHANGED conn_id
    \/ /\ p.kind \in {"factory", "lost"}
       /\ HandleOffline({p.conn}) /\ UNCHANGED <<buffer, conn_id>>
    \/ p.kind = "id" /\ conn_id' = TRUE /\ Put(Answer) /\ NothingLearnt
    \/ /\ p.kind = "status"
       /\ Put(Answer) \/ UNCHANGED buffer
       /\ NothingLearnt /\ UNCHANGED conn_id

-----------------------------------------------------------------------------
(* The client's thread.                                                    *)

\* mutant: the socket stays open
HangUpOpen == /\ established' = FALSE /\ inbox' = <<>>
              /\ age' = Zero /\ UNCHANGED link

HangUp == /\ established' = FALSE /\ link' = FALSE /\ inbox' = <<>>
          /\ age' = Zero

\* Connect, when the server is there; the server gives the connection its id.
Reconnected ==
    /\ established' = TRUE /\ link' = TRUE
    /\ inbox' = <<[kind |-> "id"]>>
    /\ age' = Zero
    /\ showed' = FALSE
    /\ old' = {c \in Conn : entry[c] # None}
    /\ UNCHANGED <<conn_id, entry, shown, packet, left>>

\* mutant: the moment to connect must be met exactly
ConnectDueAt == ~established /\ age.conn = ReconnectGap

ConnectDue == ~established /\ age.conn > ReconnectGap

\* mutant: the loss is declared when it has been
LossDueAgain == ~established /\ age.disc > SuppressGap /\ showed

LossDue == ~established /\ age.disc > SuppressGap /\ ~showed

\* The timers are looked at: first the attempt to connect, then the loss.
Visit ==
    /\ ConnectDue \/ LossDue
    /\ IF ConnectDue /\ serving
       THEN Reconnected
       ELSE /\ age' = IF ConnectDue THEN [age EXCEPT !.conn = 0] ELSE age
            /\ IF LossDue THEN OnConnectionLost /\ showed' = TRUE
               ELSE NothingLearnt /\ UNCHANGED <<conn_id, showed>>
            /\ UNCHANGED <<established, link, inbox>>
    /\ UNCHANGED <<buffer, control, serving, host>>

\* No data for too long, or an error of recv or of send.
GiveUp ==
    /\ established
    /\ \/ age.recv > ReceiveGap
       \/ ~link /\ (inbox = <<>> \/ conn_id)
    /\ HangUp
    /\ NothingLearnt
    /\ UNCHANGED <<conn_id, buffer, showed, control, serving, host>>

\* OnRecv.  A packet may be answered by up to two.
Receive ==
    /\ established /\ inbox # <<>> /\ Len(buffer) + 2 <= MaxOut
    /\ inbox' = Tail(inbox)
    /\ age' = [age EXCEPT !.recv = 0]
    /\ Handle(Head(inbox))
    /\ UNCHANGED <<established, showed, control, server>>

\* The first packet of buffer_ leaves it, sent or not.
Send ==
    /\ established /\ buffer # <<>>
    /\ buffer' = Tail(buffer)
    /\ \/ UNCHANGED <<established, link, inbox, age>>
       \/ ~link /\ HangUp
    /\ NothingLearnt
    /\ UNCHANGED <<conn_id, showed, control, serving, host>>

-----------------------------------------------------------------------------
(* The user interface.                                                     *)

\* SendToTransmitServer, for a machine with a private packet, from any thread and
\* without a connection too: IsConnectionEstablished says that the client is started,
\* which it is until Stop has returned.
Command(m) ==
    /\ packet[m] # None /\ Len(buffer) < MaxOut
    /\ Put(CommandTo(packet[m], m))
    /\ NothingLearnt
    /\ UNCHANGED <<established, conn_id, timers, control, server, inbox>>

\* CClient::Stop declares a loss only when the connection is established...
Stop ==
    /\ ~stopping /\ restarts < MaxRestarts
    /\ stopping' = TRUE
    /\ IF established THEN OnConnectionLost ELSE NothingLearnt /\ UNCHANGED conn_id
    /\ UNCHANGED <<established, buffer, timers, restarts, server, inbox>>

\* ... then joins the thread; RestartClient makes a new client.
Restart ==
    /\ stopping
    /\ stopping' = FALSE /\ restarts' = restarts + 1
    /\ established' = FALSE /\ conn_id' = FALSE /\ entry' = NoEntries
    /\ buffer' = <<>> /\ showed' = TRUE /\ age' = Never
    /\ link' = FALSE /\ inbox' = <<>>
    /\ old' = {} /\ left' = shown
    /\ UNCHANGED <<machines, serving, host>>

-----------------------------------------------------------------------------
(* The transit server and the hosts behind it (external).                  *)

ClientSame == UNCHANGED <<established, conn_id, entry, buffer, timers, machines,
                          control, old, left>>

Tell(p) == IF link THEN Len(inbox) < MaxIn /\ inbox' = Append(inbox, p)
           ELSE UNCHANGED inbox

HostComes(c, id) == /\ serving /\ host[c] = None
                    /\ host' = [host EXCEPT ![c] = id]
                    /\ ClientSame /\ UNCHANGED <<serving, link, inbox>>

\* A host reports an event, under its id or under a new one.
HostEvent(c, id) == /\ host[c] # None
                    /\ host' = [host EXCEPT ![c] = id]
                    /\ Tell([kind |-> "event", conn |-> c, id |-> id])
                    /\ ClientSame /\ UNCHANGED <<serving, link>>

HostResets(c) == /\ link /\ host[c] # None
                 /\ Tell([kind |-> "factory", conn |-> c])
                 /\ ClientSame /\ UNCHANGED server

HostGoes(c) == /\ host[c] # None
               /\ host' = [host EXCEPT ![c] = None]
               /\ Tell([kind |-> "lost", conn |-> c])
               /\ ClientSame /\ UNCHANGED <<serving, link>>

\* A host's status or the answer to a link test.
Status == /\ link
          /\ Tell([kind |-> "status"])
          /\ ClientSame /\ UNCHANGED server

\* The connection breaks, with some of what is on its way.
LinkBreaks == /\ link /\ link' = FALSE
              /\ \E n \in 0..Len(inbox) : inbox' = SubSeq(inbox, 1, n)
              /\ ClientSame /\ UNCHANGED <<serving, host>>

ServerStops == /\ serving /\ serving' = FALSE
               /\ link' = FALSE /\ host' = NoEntries
               /\ ClientSame /\ UNCHANGED inbox

ServerStarts == /\ ~serving /\ serving' = TRUE
                /\ ClientSame /\ UNCHANGED <<link, host, inbox>>

Tick == /\ age' = IF established
                  THEN [age EXCEPT !.recv = IF @ > ReceiveGap THEN @ ELSE @ + 1]
                  ELSE [age EXCEPT !.conn = IF @ > ReconnectGap THEN @ ELSE @ + 1,
                                   !.disc = IF @ > SuppressGap THEN @ ELSE @ + 1]
        /\ age' # age
        /\ UNCHANGED <<established, conn_id, entry, buffer, showed, machines,
                       control, server, inbox, old, left>>

-----------------------------------------------------------------------------

ThreadWorker == Visit \/ GiveUp \/ Receive \/ Send

UserInterface == Stop \/ Restart \/ \E m \in Machine : Command(m)

Outside == \/ \E c \in Conn : \/ HostResets(c) \/ HostGoes(c)
                             \/ \E id \in Who : HostComes(c, id) \/ HostEvent(c, id)
           \/ Status \/ LinkBreaks \/ ServerStops \/ ServerStarts

Next == ThreadWorker \/ UserInterface \/ Outside \/ Tick

Spec == Init /\ [][Next]_vars

\* The thread's loop never waits for anyone: it comes to its timers and to the
\* errors of its socket.  Time passes.
FairSpec == /\ Spec
            /\ WF_vars(Visit) /\ WF_vars(GiveUp)
            /\ WF_vars(Restart) /\ WF_vars(Tick)

-----------------------------------------------------------------------------
(* Properties.                                                             *)

\* Type invariant; a link that is alive has an established client.
TypeOK ==
    /\ {established, conn_id, showed, stopping, serving, link} \subseteq BOOLEAN
    /\ entry \in [Conn -> Machine \cup {None}]
    /\ buffer \in Seq(Outgoing) /\ Len(buffer) <= MaxOut
    /\ age \in Ages
    /\ shown \subseteq Machine
    /\ packet \in [Machine -> Conn \cup {None}]
    /\ restarts \in 0..MaxRestarts
    /\ host \in [Conn -> Who \cup {None}]
    /\ inbox \in Seq(Notice) /\ Len(inbox) <= MaxIn
    /\ old \subseteq Conn /\ left \subseteq Machine
    /\ link => established

\* A machine is shown online by the transit server exactly while it has a
\* private packet, and commands for it go out on a connection whose entry is
\* online for that very machine, whatever ids hosts take and in whatever order
\* their connections come and go (HandleOffline, handle_cmd_05); only machines
\* that a thrown-away client left behind have no entry.
RoutesLive == \A m \in Machine :
    /\ m \in shown <=> packet[m] # None
    /\ m \in shown \ left => entry[packet[m]] = m

\* While the connection stands, an entry made on it is the machine the server
\* has there, unless a packet that corrects it is on its way (handle_cmd): what
\* a status packet is put down to is the machine it comes from.
Accounted == \A c \in Conn :
    /\ link /\ entry[c] # None /\ c \notin old
    /\ \A i \in 1..Len(inbox) : inbox[i].kind \in {"event", "lost"} => inbox[i].conn # c
    => entry[c] = host[c]

\* A connection that stays away is declared lost: in the end no machine is shown
\* online by it, no entry is left for the next connection and the client has
\* forgotten its id (ThreadWorker, SUPPRESS_DISCONN_TIME), the second time as the
\* first; only machines that a thrown-away client left behind stay shown.
LossShown == []<>(established \/ /\ entry = NoEntries /\ ~conn_id
                                 /\ shown \subseteq left)

\* While the server accepts connections the client gets one, however often
\* it was refused or broke before (RECONNECT_SERVER_GAP).
Reconnects == <>[]serving => []<>established

=============================================================================
