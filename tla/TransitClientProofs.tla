------------------------ MODULE TransitClientProofs ------------------------
(***************************************************************************)
(* What TLAPS proves about TransitClient: types, that the route of a        *)
(* machine that is shown online is a connection that speaks for it, and    *)
(* that what the client has noted of a connection is who is there.         *)
(***************************************************************************)
EXTENDS TransitClient, SequenceTheorems, TLAPS

-----------------------------------------------------------------------------
(* The parts of the type invariant that a few steps touch.                 *)

Learnt == /\ entry \in [Conn -> Machine \cup {None}]
          /\ shown \subseteq Machine
          /\ packet \in [Machine -> Conn \cup {None}]
          /\ old \subseteq Conn /\ left \subseteq Machine

Queued == /\ buffer \in Seq(Outgoing) /\ Len(buffer) <= MaxOut
          /\ inbox \in Seq(Notice) /\ Len(inbox) <= MaxIn

Flags == /\ {established, conn_id, showed, stopping, serving, link} \subseteq BOOLEAN
         /\ link => established

Counts == /\ age \in Ages
          /\ restarts \in 0..MaxRestarts
          /\ stopping => restarts < MaxRestarts
          /\ host \in [Conn -> Who \cup {None}]

Types == Learnt /\ Queued /\ Flags /\ Counts

LEMMA TypeParts == Types => TypeOK
  BY DEF Types, TypeOK, Learnt, Queued, Flags, Counts

LEMMA GoneMachines ==
    ASSUME Learnt, NEW S \in SUBSET Conn PROVE Gone(S) \subseteq Machine
  BY DEF Learnt, Gone

LEMMA HandleOfflineLearnt ==
    ASSUME Learnt, NEW S \in SUBSET Conn, HandleOffline(S) PROVE Learnt'
  <1>1. Gone(S) \subseteq Machine BY GoneMachines
  <1>2. entry' \in [Conn -> Machine \cup {None}] BY DEF Learnt, HandleOffline
  <1>3. packet' \in [Machine -> Conn \cup {None}] BY DEF Learnt, HandleOffline
  <1>4. shown' \subseteq Machine /\ old' \subseteq Conn /\ left' \subseteq Machine
    BY DEF Learnt, HandleOffline
  <1> QED BY <1>2, <1>3, <1>4 DEF Learnt

LEMMA OnlineLearnt ==
    ASSUME Learnt, NEW c \in Conn, NEW m \in Machine, Online(c, m) PROVE Learnt'
  <1>1. entry' \in [Conn -> Machine \cup {None}] BY DEF Learnt, Online
  <1>2. packet' \in [Machine -> Conn \cup {None}] BY DEF Learnt, Online
  <1>3. shown' \subseteq Machine /\ old' \subseteq Conn /\ left' \subseteq Machine
    BY DEF Learnt, Online
  <1> QED BY <1>1, <1>2, <1>3 DEF Learnt

\* What a packet teaches is one of four things.
LEMMA HandleCases ==
    ASSUME NEW p \in Notice, Handle(p)
    PROVE  \/ NothingLearnt
           \/ \E c \in Conn : HandleOffline({c})
           \/ \E c \in Conn, m \in Machine : Online(c, m)
  <1>1. CASE p \in [kind : {"event"}, conn : Conn, id : Who]
    <2>1. p.kind = "event" /\ p.conn \in Conn /\ p.id \in Who BY <1>1
    <2>2. HandleEvent(p.conn, p.id) BY <2>1 DEF Handle
    <2>3. p.id # Stranger => p.id \in Machine BY <2>1 DEF Who
    <2> QED BY <2>1, <2>2, <2>3 DEF HandleEvent
  <1>2. CASE p \in [kind : {"factory", "lost"}, conn : Conn]
    <2>1. p.kind \in {"factory", "lost"} /\ p.conn \in Conn BY <1>2
    <2> QED BY <2>1 DEF Handle
  <1>3. CASE p \in [kind : {"id", "status"}]
    <2>1. p.kind \in {"id", "status"} BY <1>3
    <2> QED BY <2>1 DEF Handle
  <1> QED BY <1>1, <1>2, <1>3 DEF Notice

\* What a step teaches.
LEMMA StepCases ==
    ASSUME Queued, [Next]_vars
    PROVE  \/ NothingLearnt
           \/ \E S \in SUBSET Conn : HandleOffline(S)
           \/ \E c \in Conn, m \in Machine : Online(c, m)
           \/ Reconnected
           \/ Restart
  <1>1. CASE Visit BY <1>1 DEF Visit, OnConnectionLost
  <1>2. CASE GiveUp BY <1>2 DEF GiveUp
  <1>3. CASE Receive
    <2>1. Head(inbox) \in Notice BY <1>3 DEF Queued, Receive
    <2>2. Handle(Head(inbox)) BY <1>3 DEF Receive
    <2>3. \A c \in Conn : {c} \in SUBSET Conn OBVIOUS
    <2> QED BY <2>1, <2>2, <2>3, HandleCases
  <1>4. CASE Send BY <1>4 DEF Send
  <1>5. CASE Stop BY <1>5 DEF Stop, OnConnectionLost
  <1>6. CASE Restart BY <1>6
  <1>7. CASE \E m \in Machine : Command(m) BY <1>7 DEF Command
  <1>8. CASE Outside
    BY <1>8 DEF Outside, HostComes, HostEvent, HostResets, HostGoes, Status, LinkBreaks,
                ServerStops, ServerStarts, ClientSame, NothingLearnt, machines
  <1>9. CASE Tick BY <1>9 DEF Tick, NothingLearnt, machines
  <1>10. CASE UNCHANGED vars BY <1>10 DEF vars, NothingLearnt, machines
  <1> QED BY <1>1, <1>2, <1>3, <1>4, <1>5, <1>6, <1>7, <1>8, <1>9, <1>10
          DEF Next, ThreadWorker, UserInterface

LEMMA LearntKept == ASSUME Learnt, Queued, [Next]_vars PROVE Learnt'
  <1>1. CASE NothingLearnt BY <1>1 DEF NothingLearnt, Learnt
  <1>2. CASE \E S \in SUBSET Conn : HandleOffline(S) BY <1>2, HandleOfflineLearnt
  <1>3. CASE \E c \in Conn, m \in Machine : Online(c, m) BY <1>3, OnlineLearnt
  <1>4. CASE Reconnected BY <1>4 DEF Reconnected, Learnt
  <1>5. CASE Restart BY <1>5 DEF Restart, Learnt, NoEntries, machines
  <1> QED BY <1>1, <1>2, <1>3, <1>4, <1>5, StepCases

-----------------------------------------------------------------------------
(* Routes.                                                                 *)

\* The machines that a loss leaves alone have their routes elsewhere.
LEMMA HandleOfflineRoutes ==
    ASSUME Learnt, RoutesLive, NEW S \in SUBSET Conn, HandleOffline(S)
    PROVE  RoutesLive'
  <1> SUFFICES ASSUME NEW m \in Machine
               PROVE  /\ m \in shown' <=> packet'[m] # None
                      /\ m \in shown' \ left' => entry'[packet'[m]] = m
    BY DEF RoutesLive
  <1>1. packet'[m] = IF m \in Gone(S) THEN None ELSE packet[m]
    BY DEF HandleOffline
  <1>2. m \in shown' <=> m \in shown /\ m \notin Gone(S)
    BY DEF HandleOffline
  <1>3. m \in shown <=> packet[m] # None
    BY DEF RoutesLive
  <1>4. ASSUME m \in shown' \ left' PROVE entry'[packet'[m]] = m
    <2>1. m \in shown \ left /\ m \notin Gone(S)
      BY <1>2, <1>4 DEF HandleOffline
    <2>2. entry[packet[m]] = m /\ packet[m] \in Conn
      BY <2>1, <1>3 DEF RoutesLive, Learnt
    <2>3. packet[m] \notin S
      BY <2>1, <2>2, NameAssumption DEF Gone
    <2> QED BY <1>1, <2>1, <2>2, <2>3 DEF HandleOffline
  <1> QED BY <1>1, <1>2, <1>3, <1>4

\* A machine that comes online takes the route of the one that was there.
LEMMA OnlineRoutes ==
    ASSUME Learnt, RoutesLive, NEW c \in Conn, NEW m \in Machine, Online(c, m)
    PROVE  RoutesLive'
  <1> DEFINE gone == Gone({c}) \ {m}
  <1> SUFFICES ASSUME NEW n \in Machine
               PROVE  /\ n \in shown' <=> packet'[n] # None
                      /\ n \in shown' \ left' => entry'[packet'[n]] = n
    BY DEF RoutesLive
  <1>1. packet'[n] = IF n = m THEN c ELSE IF n \in gone THEN None ELSE packet[n]
    BY DEF Online
  <1>2. n \in shown' <=> n = m \/ (n \in shown /\ n \notin gone)
    BY DEF Online
  <1>3. n \in shown <=> packet[n] # None
    BY DEF RoutesLive
  <1>4. c # None
    BY NameAssumption
  <1>5. ASSUME n \in shown' \ left' PROVE entry'[packet'[n]] = n
    <2>1. CASE n = m BY <1>1, <2>1 DEF Online, Learnt
    <2>2. CASE n # m
      <3>1. n \in shown \ left /\ n \notin gone
        BY <1>2, <1>5, <2>2 DEF Online
      <3>2. entry[packet[n]] = n /\ packet[n] \in Conn
        BY <3>1, <1>3 DEF RoutesLive, Learnt
      <3>3. packet[n] # c
        BY <3>1, <3>2, <2>2, NameAssumption DEF Gone
      <3> QED BY <1>1, <2>2, <3>1, <3>2, <3>3 DEF Online
    <2> QED BY <2>1, <2>2
  <1> QED BY <1>1, <1>2, <1>3, <1>4, <1>5

LEMMA RoutesKept == ASSUME Learnt, Queued, RoutesLive, [Next]_vars PROVE RoutesLive'
  <1>1. CASE NothingLearnt BY <1>1 DEF NothingLearnt, RoutesLive
  <1>2. CASE \E S \in SUBSET Conn : HandleOffline(S) BY <1>2, HandleOfflineRoutes
  <1>3. CASE \E c \in Conn, m \in Machine : Online(c, m) BY <1>3, OnlineRoutes
  <1>4. CASE Reconnected BY <1>4 DEF Reconnected, RoutesLive
  <1>5. CASE Restart BY <1>5 DEF Restart, RoutesLive, machines
  <1> QED BY <1>1, <1>2, <1>3, <1>4, <1>5, StepCases

-----------------------------------------------------------------------------
(* Queues, timers and the rest.                                            *)

LEMMA Gaps == ReconnectGap \in Nat /\ ReceiveGap \in Nat /\ SuppressGap \in Nat
  BY GapAssumption

LEMMA InitTypes == Init => Types /\ RoutesLive
  <1> SUFFICES ASSUME Init PROVE Types /\ RoutesLive
    OBVIOUS
  <1>1. Learnt BY DEF Init, Learnt, NoEntries
  <1>2. Queued BY BoundAssumption DEF Init, Queued
  <1>3. Flags BY DEF Init, Flags
  <1>4. Never \in Ages BY Gaps DEF Ages, Never
  <1>5. 0 \in 0..MaxRestarts BY BoundAssumption
  <1>6. Counts BY <1>4, <1>5 DEF Init, Counts, NoEntries
  <1>7. RoutesLive BY DEF Init, RoutesLive
  <1> QED BY <1>1, <1>2, <1>3, <1>6, <1>7 DEF Types

\* The answers and questions that a packet gives rise to.
LEMMA HandleQueued ==
    ASSUME Queued, NEW p \in Notice, Handle(p)
    PROVE  buffer' \in Seq(Outgoing) /\ Len(buffer') <= Len(buffer) + 2
  <1>1. Answer \in Outgoing BY DEF Answer, Outgoing
  <1>2. ASSUME UNCHANGED buffer PROVE buffer' \in Seq(Outgoing) /\ Len(buffer') <= Len(buffer) + 2
    BY <1>2 DEF Queued
  <1>3. ASSUME Put(Answer) PROVE buffer' \in Seq(Outgoing) /\ Len(buffer') <= Len(buffer) + 2
    BY <1>1, <1>3 DEF Put, Queued
  <1>4. ASSUME NEW c \in Conn, NEW m \in Machine, buffer' = buffer \o <<CommandTo(c, m), Answer>>
        PROVE buffer' \in Seq(Outgoing) /\ Len(buffer') <= Len(buffer) + 2
    <2>1. CommandTo(c, m) \in Outgoing BY DEF CommandTo, Outgoing
    <2>2. <<CommandTo(c, m), Answer>> \in Seq(Outgoing) /\ Len(<<CommandTo(c, m), Answer>>) = 2
      BY <1>1, <2>1
    <2> QED BY <1>4, <2>2 DEF Queued
  <1>5. CASE p \in [kind : {"event"}, conn : Conn, id : Who]
    <2>1. p.kind = "event" /\ p.conn \in Conn /\ p.id \in Who BY <1>5
    <2>2. HandleEvent(p.conn, p.id) BY <2>1 DEF Handle
    <2>3. p.id # Stranger => p.id \in Machine BY <2>1 DEF Who
    <2> QED BY <2>1, <2>2, <2>3, <1>3, <1>4 DEF HandleEvent
  <1>6. CASE p \in [kind : {"factory", "lost"}, conn : Conn]
    <2>1. p.kind \in {"factory", "lost"} BY <1>6
    <2> QED BY <2>1, <1>2 DEF Handle
  <1>7. CASE p \in [kind : {"id", "status"}]
    <2>1. p.kind \in {"id", "status"} BY <1>7
    <2> QED BY <2>1, <1>2, <1>3 DEF Handle
  <1> QED BY <1>5, <1>6, <1>7 DEF Notice

\* What the server tells the client.
LEMMA TellQueued ==
    ASSUME Queued, NEW p \in Notice, Tell(p), UNCHANGED buffer PROVE Queued'
  <1>1. CASE UNCHANGED inbox BY <1>1 DEF Queued
  <1>2. CASE Len(inbox) < MaxIn /\ inbox' = Append(inbox, p)
    BY <1>2, BoundAssumption DEF Queued
  <1> QED BY <1>1, <1>2 DEF Tell

LEMMA OutsideQueued == ASSUME Queued, Outside PROVE Queued'
  <1>0. UNCHANGED buffer
    BY DEF Outside, HostComes, HostEvent, HostResets, HostGoes, Status, LinkBreaks,
           ServerStops, ServerStarts, ClientSame
  <1>1. CASE UNCHANGED inbox BY <1>0, <1>1 DEF Queued
  <1>2. CASE \E c \in Conn, id \in Who : HostEvent(c, id)
    <2>1. PICK c \in Conn, id \in Who : HostEvent(c, id) BY <1>2
    <2>2. [kind |-> "event", conn |-> c, id |-> id] \in Notice BY DEF Notice
    <2> QED BY <1>0, <2>1, <2>2, TellQueued DEF HostEvent
  <1>3. CASE \E c \in Conn : HostResets(c)
    <2>1. PICK c \in Conn : HostResets(c) BY <1>3
    <2>2. [kind |-> "factory", conn |-> c] \in Notice BY DEF Notice
    <2> QED BY <1>0, <2>1, <2>2, TellQueued DEF HostResets
  <1>4. CASE \E c \in Conn : HostGoes(c)
    <2>1. PICK c \in Conn : HostGoes(c) BY <1>4
    <2>2. [kind |-> "lost", conn |-> c] \in Notice BY DEF Notice
    <2> QED BY <1>0, <2>1, <2>2, TellQueued DEF HostGoes
  <1>5. CASE Status
    <2>1. [kind |-> "status"] \in Notice BY DEF Notice
    <2> QED BY <1>0, <1>5, <2>1, TellQueued DEF Status
  <1>6. CASE LinkBreaks
    <2>1. PICK n \in 0..Len(inbox) : inbox' = SubSeq(inbox, 1, n)
      BY <1>6 DEF LinkBreaks
    <2>2. Len(inbox) \in Nat BY DEF Queued
    <2>3. inbox' \in Seq(Notice) /\ Len(inbox') = n
      BY <2>1, <2>2, SubSeqProperties DEF Queued
    <2> QED BY <1>0, <2>2, <2>3, BoundAssumption DEF Queued
  <1>7. CASE (\E c \in Conn, id \in Who : HostComes(c, id)) \/ ServerStops \/ ServerStarts
    BY <1>1, <1>7 DEF HostComes, ServerStops, ServerStarts
  <1> QED BY <1>2, <1>3, <1>4, <1>5, <1>6, <1>7 DEF Outside

LEMMA Bounds == MaxIn \in Nat /\ MaxIn >= 1 /\ MaxOut \in Nat /\ MaxRestarts \in Nat
  BY BoundAssumption

LEMMA QueuedKept == ASSUME Learnt, Queued, [Next]_vars PROVE Queued'
  <1> USE BoundAssumption
  <1>1. CASE Visit
    <2>1. [kind |-> "id"] \in Notice BY DEF Notice
    <2>2. <<[kind |-> "id"]>> \in Seq(Notice) /\ Len(<<[kind |-> "id"]>>) = 1 BY <2>1
    <2>3. UNCHANGED buffer /\ (UNCHANGED inbox \/ inbox' = <<[kind |-> "id"]>>)
      BY <1>1 DEF Visit, Reconnected
    <2>4. CASE UNCHANGED <<buffer, inbox>> BY <2>4 DEF Queued
    <2>5. CASE UNCHANGED buffer /\ inbox' = <<[kind |-> "id"]>>
      <3>1. inbox' \in Seq(Notice) /\ Len(inbox') <= MaxIn BY <2>2, <2>5, Bounds
      <3> QED BY <2>5, <3>1 DEF Queued
    <2> QED BY <2>3, <2>4, <2>5
  <1>2. CASE GiveUp BY <1>2 DEF GiveUp, HangUp, Queued
  <1>3. CASE Receive
    <2>1. Head(inbox) \in Notice /\ Handle(Head(inbox)) BY <1>3 DEF Queued, Receive
    <2>2. buffer' \in Seq(Outgoing) /\ Len(buffer') <= Len(buffer) + 2
      BY <2>1, HandleQueued
    <2>3. inbox' \in Seq(Notice) /\ Len(inbox') <= MaxIn BY <1>3 DEF Queued, Receive
    <2>4. Len(buffer) + 2 <= MaxOut BY <1>3 DEF Receive
    <2>5. Len(buffer) \in Nat /\ Len(buffer') \in Nat BY <2>2 DEF Queued
    <2> QED BY <2>2, <2>3, <2>4, <2>5 DEF Queued
  <1>4. CASE Send
    <2>1. buffer' \in Seq(Outgoing) /\ Len(buffer') <= MaxOut BY <1>4 DEF Send, Queued
    <2>2. UNCHANGED inbox \/ inbox' = <<>> BY <1>4 DEF Send, HangUp
    <2>3. inbox' \in Seq(Notice) /\ Len(inbox') <= MaxIn
      <3>1. CASE UNCHANGED inbox BY <3>1 DEF Queued
      <3>2. CASE inbox' = <<>> BY <3>2, Bounds
      <3> QED BY <2>2, <3>1, <3>2
    <2> QED BY <2>1, <2>3 DEF Queued
  <1>5. CASE Stop BY <1>5 DEF Stop, Queued
  <1>6. CASE Restart BY <1>6 DEF Restart, Queued
  <1>7. CASE \E m \in Machine : Command(m)
    <2>1. PICK m \in Machine : Command(m) BY <1>7
    <2>2. packet[m] \in Conn BY <2>1 DEF Command, Learnt
    <2>3. CommandTo(packet[m], m) \in Outgoing BY <2>2 DEF CommandTo, Outgoing
    <2> QED BY <2>1, <2>3 DEF Command, Put, Queued
  <1>8. CASE Outside BY <1>8, OutsideQueued
  <1>9. CASE Tick BY <1>9 DEF Tick, Queued
  <1>10. CASE UNCHANGED vars BY <1>10 DEF vars, Queued
  <1> QED BY <1>1, <1>2, <1>3, <1>4, <1>5, <1>6, <1>7, <1>8, <1>9, <1>10
          DEF Next, ThreadWorker, UserInterface

LEMMA FlagsKept == ASSUME Flags, [Next]_vars PROVE Flags'
  <1>1. CASE Visit BY <1>1 DEF Visit, Reconnected, OnConnectionLost, control, Flags
  <1>2. CASE GiveUp BY <1>2 DEF GiveUp, HangUp, control, Flags
  <1>3. CASE Receive BY <1>3 DEF Receive, Handle, control, server, Flags
  <1>4. CASE Send BY <1>4 DEF Send, HangUp, control, Flags
  <1>5. CASE Stop BY <1>5 DEF Stop, OnConnectionLost, server, timers, Flags
  <1>6. CASE Restart BY <1>6 DEF Restart, Flags
  <1>7. CASE \E m \in Machine : Command(m)
    BY <1>7 DEF Command, control, server, timers, Flags
  <1>8. CASE Outside
    <2>1. /\ UNCHANGED <<established, conn_id, showed, stopping>>
          /\ \/ UNCHANGED <<serving, link>>
             \/ serving' = serving /\ link' = FALSE
             \/ serving' = FALSE /\ link' = FALSE
             \/ serving' = TRUE /\ link' = link
      <3>1. UNCHANGED <<established, conn_id, showed, stopping>>
        BY <1>8 DEF Outside, HostComes, HostEvent, HostResets, HostGoes, Status,
                    LinkBreaks, ServerStops, ServerStarts, ClientSame, control, timers
      <3>2. CASE LinkBreaks BY <3>1, <3>2 DEF LinkBreaks
      <3>3. CASE ServerStops BY <3>1, <3>3 DEF ServerStops
      <3>4. CASE ServerStarts BY <3>1, <3>4 DEF ServerStarts
      <3>5. CASE ~(LinkBreaks \/ ServerStops \/ ServerStarts)
        <4>1. UNCHANGED <<serving, link>>
          BY <1>8, <3>5 DEF Outside, HostComes, HostEvent, HostResets, HostGoes, Status,
                            server
        <4> QED BY <3>1, <4>1
      <3> QED BY <3>2, <3>3, <3>4, <3>5
    <2>2. CASE UNCHANGED <<serving, link>> BY <2>1, <2>2, Zenon DEF Flags
    <2>3. CASE serving' = serving /\ link' = FALSE BY <2>1, <2>3, Zenon DEF Flags
    <2>4. CASE serving' = FALSE /\ link' = FALSE BY <2>1, <2>4, Zenon DEF Flags
    <2>5. CASE serving' = TRUE /\ link' = link BY <2>1, <2>5, Zenon DEF Flags
    <2> QED BY <2>1, <2>2, <2>3, <2>4, <2>5
  <1>9. CASE Tick BY <1>9 DEF Tick, control, server, Flags
  <1>10. CASE UNCHANGED vars BY <1>10 DEF vars, control, server, timers, Flags
  <1> QED BY <1>1, <1>2, <1>3, <1>4, <1>5, <1>6, <1>7, <1>8, <1>9, <1>10
          DEF Next, ThreadWorker, UserInterface

LEMMA CountsKept == ASSUME Counts, [Next]_vars PROVE Counts'
  <1> USE Gaps
  <1>0. Zero \in Ages BY DEF Zero, Ages
  <1>1. CASE Visit BY <1>1, <1>0 DEF Visit, Reconnected, control, Counts, Ages
  <1>2. CASE GiveUp BY <1>2, <1>0 DEF GiveUp, HangUp, control, Counts
  <1>3. CASE Receive
    <2>1. [age EXCEPT !.recv = 0] \in Ages BY DEF Counts, Ages
    <2> QED BY <1>3, <2>1 DEF Receive, control, server, Counts
  <1>4. CASE Send BY <1>4, <1>0 DEF Send, HangUp, control, Counts
  <1>5. CASE Stop BY <1>5 DEF Stop, server, timers, Counts
  <1>6. CASE Restart
    <2>1. Never \in Ages BY DEF Ages, Never
    <2>2. restarts' \in 0..MaxRestarts BY <1>6, BoundAssumption DEF Restart, Counts
    <2> QED BY <1>6, <2>1, <2>2 DEF Restart, Counts
  <1>7. CASE \E m \in Machine : Command(m)
    BY <1>7 DEF Command, control, server, timers, Counts
  <1>8. CASE Outside
    <2>1. UNCHANGED <<age, restarts, stopping>>
      BY <1>8 DEF Outside, HostComes, HostEvent, HostResets, HostGoes, Status, LinkBreaks,
                  ServerStops, ServerStarts, ClientSame, control, timers
    <2>2. host' \in [Conn -> Who \cup {None}]
      <3>1. CASE \E c \in Conn, id \in Who : HostComes(c, id) \/ HostEvent(c, id)
        BY <3>1 DEF HostComes, HostEvent, Counts
      <3>2. CASE \E c \in Conn : HostResets(c) \/ HostGoes(c)
        BY <3>2 DEF HostResets, HostGoes, server, Counts
      <3>3. CASE Status \/ LinkBreaks \/ ServerStarts
        BY <3>3 DEF Status, LinkBreaks, ServerStarts, server, Counts
      <3>4. CASE ServerStops BY <3>4 DEF ServerStops, NoEntries
      <3> QED BY <1>8, <3>1, <3>2, <3>3, <3>4 DEF Outside
    <2> QED BY <2>1, <2>2 DEF Counts
  <1>9. CASE Tick
    <2>1. /\ age.conn \in 0..ReconnectGap + 1 /\ age.disc \in 0..SuppressGap + 1
          /\ age.recv \in 0..ReceiveGap + 1
      BY DEF Counts, Ages
    <2> DEFINE conn == IF age.conn > ReconnectGap THEN age.conn ELSE age.conn + 1
    <2> DEFINE disc == IF age.disc > SuppressGap THEN age.disc ELSE age.disc + 1
    <2> DEFINE recv == IF age.recv > ReceiveGap THEN age.recv ELSE age.recv + 1
    <2>2. /\ conn \in 0..ReconnectGap + 1 /\ disc \in 0..SuppressGap + 1
          /\ recv \in 0..ReceiveGap + 1
      BY <2>1
    <2>3. age' = IF established THEN [age EXCEPT !.recv = recv]
                 ELSE [age EXCEPT !.conn = conn, !.disc = disc]
      BY <1>9 DEF Tick
    <2> HIDE DEF conn, disc, recv
    <2>4. age' \in Ages BY <2>2, <2>3 DEF Counts, Ages
    <2> QED BY <1>9, <2>4 DEF Tick, control, server, Counts
  <1>10. CASE UNCHANGED vars BY <1>10 DEF vars, control, server, timers, Counts
  <1> QED BY <1>1, <1>2, <1>3, <1>4, <1>5, <1>6, <1>7, <1>8, <1>9, <1>10
          DEF Next, ThreadWorker, UserInterface

-----------------------------------------------------------------------------

\* Every variable of the client and of what it hears of the server keeps its
\* type, and the queues their bounds: whatever the server sends, the client's
\* thread and the user interface do (Client.cpp).
THEOREM Typing == Spec => []TypeOK
  <1>1. Init => Types BY InitTypes
  <1>2. Types /\ [Next]_vars => Types'
    BY LearntKept, QueuedKept, FlagsKept, CountsKept DEF Types
  <1> QED BY <1>1, <1>2, TypeParts, PTL DEF Spec

\* A machine is shown online by the transit server exactly while it has a private
\* packet, which names a connection whose entry is that machine, for any machines
\* and connections (HandleOffline, handle_cmd_05).
THEOREM Routes == Spec => []RoutesLive
  <1>1. Init => Types /\ RoutesLive BY InitTypes
  <1>2. Types /\ RoutesLive /\ [Next]_vars => Types' /\ RoutesLive'
    BY LearntKept, QueuedKept, FlagsKept, CountsKept, RoutesKept DEF Types
  <1> QED BY <1>1, <1>2, PTL DEF Spec

-----------------------------------------------------------------------------
(* Entries.                                                                *)

\* Whether packet p makes or takes the entry of connection c.
About(p, c) == p.kind \in {"event", "lost"} /\ p.conn = c

\* No packet about c is on its way.
Silent(c) == \A i \in 1..Len(inbox) : ~About(inbox[i], c)

\* The last packet about c that is on its way, if it is an event, names the host
\* that the server has at c.
LastTold(c) == \A i \in 1..Len(inbox) :
    /\ inbox[i].kind = "event" /\ inbox[i].conn = c
    /\ \A j \in i + 1..Len(inbox) : ~About(inbox[j], c)
    => inbox[i].id = host[c]

\* An entry that nothing on its way is about is the host.
Agreed(c) == Silent(c) /\ entry[c] # None /\ c \notin old => entry[c] = host[c]

\* While the connection stands.
AccountInv == link => \A c \in Conn : LastTold(c) /\ Agreed(c)

LEMMA AccountedFollows == AccountInv => Accounted
  BY DEF AccountInv, Accounted, Agreed, Silent, About

\* A packet more: when it is an event, it names the host.
LEMMA OneTold ==
    ASSUME Queued, NEW c \in Conn, NEW p \in Notice, inbox' = Append(inbox, p),
           LastTold(c), Agreed(c),
           ~About(p, c) => UNCHANGED <<entry, old>> /\ host'[c] = host[c],
           p.kind = "event" /\ p.conn = c => p.id = host'[c]
    PROVE  LastTold(c)' /\ Agreed(c)'
  <1> DEFINE l == Len(inbox)
  <1>1. /\ l \in Nat /\ Len(inbox') = l + 1
        /\ \A i \in 1..l : inbox'[i] = inbox[i]
        /\ inbox'[l + 1] = p
    BY DEF Queued
  <1> HIDE DEF l
  <1>2. LastTold(c)'
    <2> SUFFICES ASSUME NEW i \in 1..l + 1,
                        inbox'[i].kind = "event", inbox'[i].conn = c,
                        \A j \in i + 1..l + 1 : ~About(inbox'[j], c)
                 PROVE  inbox'[i].id = host'[c]
      BY <1>1 DEF LastTold, About
    <2>1. CASE i = l + 1 BY <1>1, <2>1
    <2>2. CASE i # l + 1
      <3>1. i \in 1..l /\ l + 1 \in i + 1..l + 1 BY <1>1, <2>2
      <3>2. ~About(p, c) BY <1>1, <3>1
      <3>3. \A j \in i + 1..l : j \in i + 1..l + 1 /\ j \in 1..l BY <1>1, <3>1
      <3>4. \A j \in i + 1..l : ~About(inbox[j], c) BY <1>1, <3>3
      <3>5. inbox[i].kind = "event" /\ inbox[i].conn = c BY <1>1, <3>1
      <3>6. inbox[i].id = host[c] BY <3>1, <3>4, <3>5 DEF LastTold, l
      <3> QED BY <1>1, <3>1, <3>2, <3>6
    <2> QED BY <2>1, <2>2
  <1>3. Agreed(c)'
    <2>1. SUFFICES ASSUME Silent(c)', entry'[c] # None, c \notin old'
                   PROVE  entry'[c] = host'[c]
      BY DEF Agreed
    <2>2. \A i \in 1..l + 1 : ~About(inbox'[i], c) BY <1>1, <2>1 DEF Silent, About
    <2>3. 1..l \subseteq 1..l + 1 /\ l + 1 \in 1..l + 1 BY <1>1
    <2>4. ~About(p, c) BY <1>1, <2>2, <2>3
    <2>5. Silent(c) BY <1>1, <2>2, <2>3 DEF Silent, l
    <2> QED BY <2>1, <2>4, <2>5 DEF Agreed
  <1> QED BY <1>2, <1>3

\* A packet taken up.
LEMMA OneTaken ==
    ASSUME Queued, Learnt, NEW c \in Conn, inbox # <<>>, inbox' = Tail(inbox),
           UNCHANGED host, LastTold(c), Agreed(c), Handle(Head(inbox))
    PROVE  LastTold(c)' /\ Agreed(c)'
  <1> DEFINE l == Len(inbox)
  <1>1. /\ l \in Nat /\ l >= 1 /\ Len(inbox') = l - 1
        /\ \A i \in 1..l - 1 : inbox'[i] = inbox[i + 1]
        /\ Head(inbox) = inbox[1] /\ inbox[1] \in Notice
    BY DEF Queued
  <1> DEFINE p == inbox[1]
  <1> HIDE DEF l
  <1>2. LastTold(c)'
    <2> SUFFICES ASSUME NEW i \in 1..l - 1,
                        inbox'[i].kind = "event", inbox'[i].conn = c,
                        \A j \in i + 1..l - 1 : ~About(inbox'[j], c)
                 PROVE  inbox'[i].id = host'[c]
      BY <1>1 DEF LastTold, About
    <2>1. i + 1 \in 1..l BY <1>1
    <2>2. ASSUME NEW j \in (i + 1) + 1..l PROVE ~About(inbox[j], c)
      <3>1. j - 1 \in i + 1..l - 1 /\ j - 1 \in 1..l - 1 /\ (j - 1) + 1 = j BY <1>1, <2>2
      <3>2. inbox'[j - 1] = inbox[j] BY <1>1, <3>1
      <3> QED BY <3>1, <3>2
    <2>3. inbox[i + 1].kind = "event" /\ inbox[i + 1].conn = c BY <1>1
    <2>4. inbox[i + 1].id = host[c] BY <2>1, <2>2, <2>3 DEF LastTold, l
    <2> QED BY <1>1, <2>4
  <1>3. Agreed(c)'
    <2>1. SUFFICES ASSUME Silent(c)', entry'[c] # None, c \notin old'
                   PROVE  entry'[c] = host'[c]
      BY DEF Agreed
    <2>2. \A i \in 1..l - 1 : ~About(inbox'[i], c) BY <1>1, <2>1 DEF Silent, About
    <2>3. ASSUME NEW j \in 2..l PROVE ~About(inbox[j], c)
      <3>1. j - 1 \in 1..l - 1 /\ (j - 1) + 1 = j BY <1>1, <2>3
      <3>2. inbox'[j - 1] = inbox[j] BY <1>1, <3>1
      <3> QED BY <2>2, <3>1, <3>2
    <2>4. CASE About(p, c)
      <3>1. CASE p.kind = "event"
        <4>1. p.conn = c /\ 1 \in 1..l /\ \A j \in 1 + 1..l : ~About(inbox[j], c)
          BY <1>1, <2>3, <2>4 DEF About
        <4>2. p.id = host[c] BY <3>1, <4>1 DEF LastTold, l
        <4>3. HandleEvent(c, p.id) BY <1>1, <3>1, <4>1 DEF Handle
        <4>4. p.id # Stranger
          BY <2>1, <4>3 DEF HandleEvent, HandleOffline
        <4>5. entry'[c] = p.id
          <5>1. CASE NothingLearnt
            BY <4>3, <4>4, <5>1, <2>1 DEF HandleEvent, NothingLearnt, Online, Learnt
          <5>2. CASE Online(c, p.id) BY <5>2 DEF Online, Learnt
          <5> QED BY <4>3, <4>4, <5>1, <5>2 DEF HandleEvent
        <4> QED BY <4>2, <4>5
      <3>2. CASE p.kind = "lost"
        <4>1. HandleOffline({c}) BY <1>1, <2>4, <3>2 DEF Handle, About
        <4> QED BY <2>1, <4>1 DEF HandleOffline
      <3> QED BY <2>4, <3>1, <3>2 DEF About
    <2>5. CASE ~About(p, c)
      <3>1. Silent(c)
        <4>1. \A j \in 1..l : j = 1 \/ j \in 2..l BY <1>1
        <4> QED BY <2>3, <2>5, <4>1 DEF Silent, l
      <3>2. entry'[c] = entry[c] /\ (c \notin old' => c \notin old)
        <4>1. CASE NothingLearnt BY <4>1 DEF NothingLearnt
        <4>2. CASE \E d \in Conn : HandleOffline({d})
          BY <2>1, <4>2 DEF HandleOffline
        <4>3. CASE \E d \in Conn, m \in Machine : Online(d, m) /\ d # c
          BY <4>3 DEF Online, Learnt
        <4>4. \/ NothingLearnt \/ \E d \in Conn : HandleOffline({d})
              \/ \E d \in Conn, m \in Machine : Online(d, m) /\ d # c
          <5>1. CASE p \in [kind : {"event"}, conn : Conn, id : Who]
            <6>1. p.kind = "event" /\ p.conn \in Conn /\ p.id \in Who BY <5>1
            <6>2. HandleEvent(p.conn, p.id) BY <1>1, <6>1 DEF Handle
            <6>3. p.id # Stranger => p.id \in Machine BY <6>1 DEF Who
            <6>4. p.conn # c BY <2>5, <6>1 DEF About
            <6> QED BY <6>1, <6>2, <6>3, <6>4 DEF HandleEvent
          <5>2. CASE p \notin [kind : {"event"}, conn : Conn, id : Who]
            <6>1. CASE p \in [kind : {"factory", "lost"}, conn : Conn]
              <7>1. p.kind \in {"factory", "lost"} /\ p.conn \in Conn BY <6>1
              <7> QED BY <1>1, <7>1 DEF Handle
            <6>2. CASE p \in [kind : {"id", "status"}]
              <7>1. p.kind \in {"id", "status"} BY <6>2
              <7> QED BY <1>1, <7>1 DEF Handle
            <6> QED BY <1>1, <5>2, <6>1, <6>2 DEF Notice
          <5> QED BY <5>1, <5>2
        <4> QED BY <4>1, <4>2, <4>3, <4>4
      <3> QED BY <2>1, <3>1, <3>2 DEF Agreed
    <2> QED BY <2>4, <2>5
  <1> QED BY <1>2, <1>3

\* A step that leaves alone what the entry of c is compared with.
LEMMA AgreedSame ==
    ASSUME NEW c \in Conn, LastTold(c), Agreed(c), UNCHANGED <<inbox, entry, old>>,
           host'[c] = host[c]
    PROVE  LastTold(c)' /\ Agreed(c)'
  BY DEF LastTold, Agreed, Silent, About

\* A host that comes is told of when it reports; there is no entry before.
LEMMA NewHost ==
    ASSUME NEW c \in Conn, LastTold(c), Agreed(c), UNCHANGED <<inbox, entry, old>>,
           host[c] = None, Queued
    PROVE  LastTold(c)' /\ Agreed(c)'
  <1>1. \A i \in 1..Len(inbox) : inbox[i] \in Notice BY DEF Queued
  <1>2. \A p \in Notice : p.kind = "event" => p.id \in Who BY DEF Notice
  <1>3. None \notin Who BY NameAssumption DEF Who
  <1>4. LastTold(c)' BY <1>1, <1>2, <1>3 DEF LastTold, About
  <1>5. Agreed(c)' BY DEF Agreed, Silent, About
  <1> QED BY <1>4, <1>5

\* What the server tells, about any connection.
LEMMA ToldKept ==
    ASSUME Queued, AccountInv, NEW p \in Notice, Tell(p), UNCHANGED <<link, entry, old>>,
           \A c \in Conn : ~About(p, c) => host'[c] = host[c],
           p.kind = "event" => p.id = host'[p.conn]
    PROVE  AccountInv'
  <1> SUFFICES ASSUME link, NEW c \in Conn PROVE LastTold(c)' /\ Agreed(c)'
    BY DEF AccountInv
  <1>1. inbox' = Append(inbox, p) BY DEF Tell
  <1>2. LastTold(c) /\ Agreed(c) BY DEF AccountInv
  <1>3. p.kind = "event" /\ p.conn = c => p.id = host'[c] OBVIOUS
  <1> QED BY <1>1, <1>2, <1>3, OneTold

LEMMA OutsideAccounted == ASSUME Queued, AccountInv, Counts, Outside PROVE AccountInv'
  <1>1. UNCHANGED <<entry, old>>
    BY DEF Outside, HostComes, HostEvent, HostResets, HostGoes, Status, LinkBreaks,
           ServerStops, ServerStarts, ClientSame
  <1>2. CASE \E c \in Conn, id \in Who : HostComes(c, id)
    <2>1. PICK c \in Conn, id \in Who : HostComes(c, id) BY <1>2
    <2> SUFFICES ASSUME link, NEW d \in Conn PROVE LastTold(d)' /\ Agreed(d)'
      BY <2>1 DEF AccountInv, HostComes
    <2>2. LastTold(d) /\ Agreed(d) BY DEF AccountInv
    <2>3. CASE d = c BY <1>1, <2>1, <2>2, <2>3, NewHost DEF HostComes
    <2>4. CASE d # c
      <3>1. host'[d] = host[d] BY <2>1, <2>4 DEF HostComes, Counts
      <3> QED BY <1>1, <2>1, <2>2, <3>1, AgreedSame DEF HostComes
    <2> QED BY <2>3, <2>4
  <1>3. CASE \E c \in Conn, id \in Who : HostEvent(c, id)
    <2>1. PICK c \in Conn, id \in Who : HostEvent(c, id) BY <1>3
    <2> DEFINE p == [kind |-> "event", conn |-> c, id |-> id]
    <2>2. p \in Notice BY DEF Notice
    <2>3. \A d \in Conn : ~About(p, d) => host'[d] = host[d]
      BY <2>1 DEF About, HostEvent, Counts
    <2>4. p.id = host'[p.conn] BY <2>1 DEF HostEvent, Counts
    <2> QED BY <1>1, <2>1, <2>2, <2>3, <2>4, ToldKept DEF HostEvent
  <1>4. CASE \E c \in Conn : HostResets(c)
    <2>1. PICK c \in Conn : HostResets(c) BY <1>4
    <2>2. [kind |-> "factory", conn |-> c] \in Notice BY DEF Notice
    <2>3. UNCHANGED <<link, host>> BY <2>1 DEF HostResets, server
    <2> QED BY <1>1, <2>1, <2>2, <2>3, ToldKept DEF HostResets
  <1>5. CASE \E c \in Conn : HostGoes(c)
    <2>1. PICK c \in Conn : HostGoes(c) BY <1>5
    <2> DEFINE p == [kind |-> "lost", conn |-> c]
    <2>2. p \in Notice BY DEF Notice
    <2>3. \A d \in Conn : ~About(p, d) => host'[d] = host[d]
      BY <2>1 DEF About, HostGoes, Counts
    <2> QED BY <1>1, <2>1, <2>2, <2>3, ToldKept DEF HostGoes
  <1>6. CASE Status
    <2>1. [kind |-> "status"] \in Notice BY DEF Notice
    <2>2. UNCHANGED <<link, host>> BY <1>6 DEF Status, server
    <2> QED BY <1>1, <1>6, <2>1, <2>2, ToldKept DEF Status
  <1>7. CASE LinkBreaks \/ ServerStops BY <1>7 DEF LinkBreaks, ServerStops, AccountInv
  <1>8. CASE ServerStarts
    <2>1. UNCHANGED <<link, host, inbox>> BY <1>8 DEF ServerStarts
    <2> QED BY <1>1, <2>1, AgreedSame DEF AccountInv
  <1> QED BY <1>2, <1>3, <1>4, <1>5, <1>6, <1>7, <1>8 DEF Outside

\* A step of the client that takes up no packet.
LEMMA ClientAccounted ==
    ASSUME AccountInv, link' => link, UNCHANGED host, UNCHANGED inbox \/ ~link',
           NothingLearnt \/ \E S \in SUBSET Conn : HandleOffline(S)
    PROVE  AccountInv'
  <1> SUFFICES ASSUME link', NEW c \in Conn PROVE LastTold(c)' /\ Agreed(c)'
    BY DEF AccountInv
  <1>1. LastTold(c) /\ Agreed(c) /\ UNCHANGED <<host, inbox>> BY DEF AccountInv
  <1>2. CASE NothingLearnt BY <1>1, <1>2, AgreedSame DEF NothingLearnt
  <1>3. CASE \E S \in SUBSET Conn : HandleOffline(S)
    <2>1. LastTold(c)' BY <1>1 DEF LastTold, About
    <2>2. entry'[c] # None /\ c \notin old' => entry'[c] = entry[c] /\ c \notin old
      BY <1>3 DEF HandleOffline
    <2>3. Silent(c)' => Silent(c) BY <1>1 DEF Silent, About
    <2> QED BY <1>1, <2>1, <2>2, <2>3 DEF Agreed
  <1> QED BY <1>2, <1>3

LEMMA AccountKept ==
    ASSUME Types, AccountInv, [Next]_vars PROVE AccountInv'
  <1> USE DEF Types
  <1>1. CASE Visit
    <2>1. CASE Reconnected
      <3>1. /\ Len(inbox') = 1 /\ inbox'[1].kind = "id"
            /\ \A c \in Conn : entry'[c] = None \/ c \in old'
        BY <2>1 DEF Reconnected
      <3>2. \A i \in 1..Len(inbox') : ~(inbox'[i].kind \in {"event", "lost"})
        BY <3>1
      <3>3. \A c \in Conn : LastTold(c)' BY <3>2 DEF LastTold
      <3> QED BY <3>1, <3>3 DEF AccountInv, Agreed
    <2>2. CASE ~Reconnected
      <3>1. UNCHANGED <<link, inbox, host>> BY <1>1, <2>2 DEF Visit
      <3>2. NothingLearnt \/ \E S \in SUBSET Conn : HandleOffline(S)
        BY <1>1, <2>2 DEF Visit, OnConnectionLost
      <3> QED BY <3>1, <3>2, ClientAccounted
    <2> QED BY <2>1, <2>2
  <1>2. CASE GiveUp BY <1>2, ClientAccounted DEF GiveUp, HangUp
  <1>3. CASE Receive
    <2> SUFFICES ASSUME link', NEW c \in Conn PROVE LastTold(c)' /\ Agreed(c)'
      BY DEF AccountInv
    <2>1. LastTold(c) /\ Agreed(c) /\ UNCHANGED host BY <1>3 DEF Receive, server, AccountInv
    <2> QED BY <1>3, <2>1, OneTaken DEF Receive
  <1>4. CASE Send
    <2>1. NothingLearnt /\ UNCHANGED host BY <1>4 DEF Send
    <2>2. UNCHANGED <<link, inbox>> \/ ~link' BY <1>4 DEF Send, HangUp
    <2>3. UNCHANGED inbox \/ ~link' BY <2>2
    <2>4. link' => link BY <2>2
    <2> QED BY <2>1, <2>3, <2>4, ClientAccounted
  <1>5. CASE Stop
    <2>1. UNCHANGED <<link, host, inbox>> BY <1>5 DEF Stop, server
    <2>2. NothingLearnt \/ \E S \in SUBSET Conn : HandleOffline(S)
      BY <1>5 DEF Stop, OnConnectionLost
    <2> QED BY <2>1, <2>2, ClientAccounted
  <1>6. CASE Restart BY <1>6 DEF Restart, AccountInv
  <1>7. CASE \E m \in Machine : Command(m)
    BY <1>7, ClientAccounted DEF Command, server
  <1>8. CASE Outside BY <1>8, OutsideAccounted
  <1>9. CASE Tick
    <2>1. UNCHANGED <<link, host, inbox>> /\ NothingLearnt
      BY <1>9 DEF Tick, server, machines, NothingLearnt
    <2> QED BY <2>1, ClientAccounted
  <1>10. CASE UNCHANGED vars
    <2>1. UNCHANGED <<link, host, inbox>> /\ NothingLearnt
      BY <1>10 DEF vars, server, machines, NothingLearnt
    <2> QED BY <2>1, ClientAccounted
  <1> QED BY <1>1, <1>2, <1>3, <1>4, <1>5, <1>6, <1>7, <1>8, <1>9, <1>10
          DEF Next, ThreadWorker, UserInterface

\* While the connection to the transit server stands, an entry made on it is the
\* machine the server has there, unless a packet that corrects it is on its way:
\* for any machines, connections and hosts that take other ids, return to factory
\* settings, come and go, and for queues of any length (handle_cmd, HandleOffline).
THEOREM EntriesTrue == Spec => []Accounted
  <1>1. Init => Types /\ AccountInv BY InitTypes DEF Init, AccountInv
  <1>2. Types /\ AccountInv /\ [Next]_vars => Types' /\ AccountInv'
    BY LearntKept, QueuedKept, FlagsKept, CountsKept, AccountKept DEF Types
  <1> QED BY <1>1, <1>2, AccountedFollows, PTL DEF Spec

=============================================================================
