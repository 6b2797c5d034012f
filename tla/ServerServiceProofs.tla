------------------------ MODULE ServerServiceProofs ------------------------
(***************************************************************************)
(* Theorems about ServerService, for every number of hosts, connections,   *)
(* senders and commands.                                                   *)
(***************************************************************************)
EXTENDS ServerService, TLAPS

-----------------------------------------------------------------------------
(* What the helpers on CClientData records return. *)

\* A cleared object has the type of the pool.
LEMMA ClearedType == Cleared \in ClientData
  BY LimitAssumption DEF Cleared, ClientData, Seq1

\* AddTask keeps the type of an object: the sequence number wraps in time.
LEMMA EnqueueType ==
  ASSUME NEW r \in ClientData, NEW n \in Nat, NEW m \in Id, NEW late \in BOOLEAN
  PROVE  Enqueue(r, n, m, late) \in ClientData
  <1> DEFINE t == [n |-> n, id |-> m, seq |-> r.cur_seq, sent |-> FALSE,
                   retry |-> 0, late |-> late]
  <1>1. t \in Task
    BY DEF ClientData, Task
  <1>2. NextSeq(r.cur_seq) \in Seq1
    BY LimitAssumption DEF NextSeq, Seq1, ClientData
  <1>3. Append(r.taskList, t) \in Seq(Task)
    BY <1>1 DEF ClientData
  <1> HIDE DEF t
  <1>4. [r EXCEPT !.taskList = Append(@, t), !.cur_seq = NextSeq(@),
                  !.has_data_to_send = TRUE] \in ClientData
    BY <1>2, <1>3 DEF ClientData
  <1> QED  BY <1>4 DEF Enqueue, t

\* RemoveFirstTask keeps the type of an object with a first task.
LEMMA DropFirstType ==
  ASSUME NEW r \in ClientData, HasFirst(r)
  PROVE  DropFirst(r) \in ClientData
  <1>1. r.taskList \in Seq(Task) /\ r.taskList # <<>>
    BY DEF HasFirst, ClientData
  <1>2. Tail(r.taskList) \in Seq(Task) /\ (Len(r.taskList) > 1) \in BOOLEAN
    BY <1>1
  <1> QED  BY <1>2 DEF DropFirst, ClientData

\* A message that confirms a sequence number keeps the type of the object.
LEMMA AddressedType ==
  ASSUME TypeOK, NEW c \in Client, NEW a \in Id, NEW s \in Seq1
  PROVE  Addressed(c, a, s) \in ClientData
  <1>1. client[c] \in ClientData
    BY DEF TypeOK
  <1>2. Confirm(client[c], s) \in ClientData
    BY <1>1, DropFirstType DEF Confirm
  <1> QED  BY <1>2 DEF Addressed, ClientData

\* A hang-up or resume signal keeps the type of all objects.
LEMMA SignalType ==
  ASSUME NEW cl \in [Client -> ClientData], NEW x, NEW ev
  PROVE  Signal(cl, x, ev) \in [Client -> ClientData]
  BY DEF Signal, ClientData

\* Erasing an entry keeps the type of a map.
LEMMA EraseType ==
  ASSUME NEW f \in [Id -> Client \cup {None}], NEW k
  PROVE  Erase(f, k) \in [Id -> Client \cup {None}]
  BY DEF Erase

\* Taking a machine offline keeps the types of its flag and its callback.
LEMMA OfflineType ==
  ASSUME TypeOK, NEW m, MachineOffline(m)
  PROVE  direct' \in [Id -> BOOLEAN] /\ rccc' \in [Id -> Client \cup {None}]
  <1>1. direct' \in [Id -> BOOLEAN]
    BY DEF MachineOffline
  <1> QED  BY <1>1, EraseType DEF MachineOffline, TypeOK

-----------------------------------------------------------------------------
\* Type correctness of the server, also when hosts change their ids on open
\* connections: no queue, counter or table of the code leaves its type.
LEMMA TypeStep == TypeOK /\ [Next]_vars => TypeOK'
  <1> SUFFICES ASSUME TypeOK, [Next]_vars PROVE TypeOK'
    OBVIOUS
  <1> USE NoneAssumption, ValidAssumption
  <1>1. ASSUME NEW c \in Client, NEW a \in Id, Accept(c, a) PROVE TypeOK'
    <2> DEFINE r == [client[c] EXCEPT !.dev = a]
    <2>1. r \in ClientData
      <3>1. client[c] \in ClientData
        BY DEF TypeOK
      <3> QED  BY <3>1 DEF ClientData
    <2>3. client' = [client EXCEPT ![c] = r]
      BY <1>1 DEF Accept
    <2> HIDE DEF r
    <2>4. client' \in [Client -> ClientData]
      BY <2>1, <2>3 DEF TypeOK
    <2>2. pooled' \in [Client -> Nat]
      BY <1>1 DEF Accept, TypeOK
    <2> QED  BY <1>1, <2>2, <2>4 DEF Accept, TypeOK
  <1>2. ASSUME NEW c \in Client, Disconnect(c) PROVE TypeOK'
    <2> DEFINE r == [client[c] EXCEPT !.disconnectd = TRUE]
    <2>1. r \in ClientData
      <3>1. client[c] \in ClientData
        BY DEF TypeOK
      <3> QED  BY <3>1 DEF ClientData
    <2>2. client' = [client EXCEPT ![c] = r]
      BY <1>2 DEF Disconnect
    <2> HIDE DEF r
    <2>3. client' \in [Client -> ClientData]
      BY <2>1, <2>2 DEF TypeOK
    <2> QED  BY <1>2, <2>3 DEF Disconnect, TypeOK
  <1>3. ASSUME NEW c \in Client, DeviceEvent(c) PROVE TypeOK'
    <2> PICK a \in Sends(c), s \in Seq1 :
          \/ \E ev \in Signals : \/ EventOnline(c, a, s, ev)
                                 \/ EventFirst(c, a, s, ev)
          \/ EventReconnect(c, a, s)
          \/ EventInvalid(c, a)
      BY <1>3 DEF DeviceEvent
    <2>1. a \in Id
      BY ModeAssumption DEF Sends, TypeOK, ClientData, EventOnline, EventFirst,
         EventReconnect, EventInvalid, Ready
    <2>2. Addressed(c, a, s) \in ClientData
      BY <2>1, AddressedType
    <2>3. ASSUME NEW ev \in Signals, EventOnline(c, a, s, ev) PROVE TypeOK'
      <3>1. client' \in [Client -> ClientData]
        <4> DEFINE cl == [client EXCEPT ![c] = Addressed(c, a, s)]
        <4>1. cl \in [Client -> ClientData]
          BY <2>2 DEF TypeOK
        <4>2. client' = Signal(cl, rccc[a], ev)
          BY <2>3 DEF EventOnline
        <4> QED  BY <4>1, <4>2, SignalType
      <3>2. direct' \in [Id -> BOOLEAN] /\ rccc' \in [Id -> Client \cup {None}]
        <4>1. CASE client[c].ademco_id # a
          BY <2>3, <4>1, OfflineType DEF EventOnline
        <4>2. CASE client[c].ademco_id = a
          BY <2>3, <4>2 DEF EventOnline, TypeOK
        <4> QED  BY <4>1, <4>2
      <3> QED  BY <2>3, <3>1, <3>2 DEF EventOnline, TypeOK
    <2>4. ASSUME NEW ev \in Signals, EventFirst(c, a, s, ev) PROVE TypeOK'
      <3>1. client' \in [Client -> ClientData]
        <4> DEFINE r  == [Addressed(c, a, s) EXCEPT !.online = TRUE]
                   q  == Enqueue(r, 0, a, FALSE)
                   cl == [client EXCEPT ![c] = q]
        <4>1. r \in ClientData
          BY <2>2 DEF ClientData
        <4>2. q \in ClientData
          BY <2>1, <4>1, EnqueueType
        <4>3. client' = Signal(cl, c, ev)
          BY <2>4 DEF EventFirst
        <4> HIDE DEF q
        <4>4. cl \in [Client -> ClientData]
          BY <4>2 DEF TypeOK
        <4> QED  BY <4>3, <4>4, SignalType
      <3>2. direct' \in [Id -> BOOLEAN] /\ rccc' \in [Id -> Client \cup {None}]
        BY <2>4, <2>1 DEF EventFirst, MachineOnline, TypeOK
      <3>3. living' \in [Id -> Client \cup {None}] /\ outstanding' \subseteq Client
        BY <2>4 DEF EventFirst, TypeOK
      <3> QED  BY <2>4, <3>1, <3>2, <3>3 DEF EventFirst, TypeOK
    <2>5. CASE EventReconnect(c, a, s)
      <3> DEFINE o == living[a]
                 r == [Addressed(c, a, s) EXCEPT !.online = TRUE]
                 x == MoveTaskListToNewObj(r, client[o])
      <3>1. o \in Client /\ client[o] \in ClientData
        BY <2>1, <2>5 DEF EventReconnect, TypeOK
      <3>2. r \in ClientData
        BY <2>2 DEF ClientData
      <3>3. r.taskList \o client[o].taskList \in Seq(Task)
        BY <3>1, <3>2 DEF ClientData
      <3>4. x \in ClientData
        BY <3>1, <3>2, <3>3 DEF MoveTaskListToNewObj, ClientData
      <3>5. client' = [client EXCEPT ![c] = x, ![o] = MovedAway(@)]
        BY <2>5 DEF EventReconnect
      <3>6. \A q \in ClientData : MovedAway(q) \in ClientData
        <4>1. <<>> \in Seq(Task)
          OBVIOUS
        <4> QED  BY <4>1 DEF MovedAway, ClientData
      <3> HIDE DEF x
      <3>7. client' \in [Client -> ClientData]
        BY <3>1, <3>4, <3>5, <3>6 DEF TypeOK
      <3> QED  BY <2>5, <3>7 DEF EventReconnect, TypeOK
    <2>6. CASE EventInvalid(c, a)
      BY <2>6, ClearedType DEF EventInvalid, Recycle, Pooled, TypeOK
    <2> QED  BY <2>3, <2>4, <2>5, <2>6
  <1>4. ASSUME NEW c \in Client, Ack(c) PROVE TypeOK'
    <2>1. client' \in [Client -> ClientData]
      BY <1>4, DropFirstType DEF Ack, TypeOK
    <2> QED  BY <1>4, <2>1 DEF Ack, TypeOK
  <1>5. ASSUME NEW c \in Client, Send(c) PROVE TypeOK'
    <2> DEFINE r == client[c]
               t == r.taskList[1]
    <2>1. r \in ClientData /\ HasFirst(r)
      BY <1>5 DEF Send, TypeOK
    <2>2. r.taskList \in Seq(Task) /\ 1 \in 1 .. Len(r.taskList) /\ t \in Task
      BY <2>1 DEF HasFirst, ClientData
    <2>3. Sent(t) \in Task
      <3>1. (IF t.sent THEN t.retry + 1 ELSE t.retry) \in Nat
        BY <2>2 DEF Task
      <3> QED  BY <2>2, <3>1 DEF Sent, Task
    <2>4. [r.taskList EXCEPT ![1] = Sent(t)] \in Seq(Task)
      BY <2>2, <2>3
    <2>5. SendFirst(r) \in ClientData
      BY <2>1, <2>4 DEF SendFirst, ClientData
    <2>6. client' \in [Client -> ClientData]
      <3>1. CASE Head(r.taskList).retry > MaxRetry
        <4>1. client' = [client EXCEPT ![c] = DropFirst(@)]
          BY <1>5, <3>1 DEF Send
        <4> QED  BY <2>1, <4>1, DropFirstType DEF TypeOK
      <3>2. CASE ~(Head(r.taskList).retry > MaxRetry)
        <4>1. client' = [client EXCEPT ![c] = SendFirst(@)]
          BY <1>5, <3>2 DEF Send
        <4> QED  BY <2>5, <4>1 DEF TypeOK
      <3> QED  BY <3>1, <3>2
    <2> QED  BY <1>5, <2>6 DEF Send, TypeOK
  <1>6. ASSUME NEW c \in Client, TimeoutOutstanding(c) PROVE TypeOK'
    BY <1>6, ClearedType DEF TimeoutOutstanding, Recycle, Pooled, TypeOK
  <1>7. ASSUME NEW c \in Client, TimeoutLiving(c) PROVE TypeOK'
    <2>1. direct' \in [Id -> BOOLEAN] /\ rccc' \in [Id -> Client \cup {None}]
      BY <1>7, OfflineType DEF TimeoutLiving
    <2>2. client' \in [Client -> ClientData] /\ pooled' \in [Client -> Nat]
      BY <1>7, ClearedType DEF TimeoutLiving, Recycle, Pooled, TypeOK
    <2> QED  BY <1>7, <2>1, <2>2, EraseType DEF TimeoutLiving, TypeOK
  <1>8. ASSUME NEW ev \in Signals, FinishReconnect(ev) PROVE TypeOK'
    <2> DEFINE a == client[resolving].ademco_id
               o == living[a]
    <2>1. Recycle(o) \in [Client -> ClientData] /\ Pooled(o) \in [Client -> Nat]
      <3>1. \A x \in Client : pooled[x] \in Nat /\ pooled[x] + 1 \in Nat
        BY DEF TypeOK
      <3>2. Pooled(o) \in [Client -> Nat]
        BY <3>1 DEF Pooled, TypeOK
      <3> QED  BY <3>2, ClearedType DEF Recycle, TypeOK
    <2>2. client' \in [Client -> ClientData]
      BY <1>8, <2>1, SignalType DEF FinishReconnect
    <2>3. living' \in [Id -> Client \cup {None}]
      BY <1>8, EraseType DEF FinishReconnect, TypeOK
    <2> QED  BY <1>8, <2>1, <2>2, <2>3 DEF FinishReconnect, TypeOK
  <1>9. ASSUME NEW u \in Sender, AddTask(u) PROVE TypeOK'
    <2> DEFINE p == pend[u]
               late == p.client # Holder(p.id)
    <2>1. p.client \in Client /\ p.id \in Id /\ p.n \in Nat
      BY <1>9 DEF AddTask, TypeOK
    <2>2. Enqueue(client[p.client], p.n, p.id, late) \in ClientData
      BY <2>1, EnqueueType DEF TypeOK
    <2>3. client' \in [Client -> ClientData]
      BY <1>9, <2>1, <2>2 DEF AddTask, TypeOK
    <2> QED  BY <1>9, <2>3 DEF AddTask, TypeOK
  <1>10. ASSUME NEW u \in Sender, NEW m \in Id, FindClient(u, m) PROVE TypeOK'
    BY <1>10 DEF FindClient, TypeOK
  <1>11. ASSUME NEW m \in Valid, DeleteMachine(m) PROVE TypeOK'
    <2>1. client' \in [Client -> ClientData]
      <3>1. \A x \in Client : client[x] \in ClientData
        BY DEF TypeOK
      <3>2. \A r \in ClientData : [r EXCEPT !.wait_to_kill = TRUE] \in ClientData
        BY DEF ClientData
      <3> QED  BY <1>11, <3>1, <3>2 DEF DeleteMachine
    <2>2. direct' \in [Id -> BOOLEAN] /\ rccc' \in [Id -> Client \cup {None}]
      BY <1>11, OfflineType DEF DeleteMachine
    <2> QED  BY <1>11, <2>1, <2>2 DEF DeleteMachine, TypeOK
  <1>12. CASE UNCHANGED vars
    BY <1>12 DEF vars, TypeOK
  <1> QED  BY <1>1, <1>2, <1>3, <1>4, <1>5, <1>6, <1>7, <1>8, <1>9, <1>10,
              <1>11, <1>12 DEF Next, RecvThread, UserThreads

THEOREM Typing == Spec => []TypeOK
  <1>1. Init => TypeOK
    BY ClearedType DEF Init, TypeOK
  <1> QED  BY <1>1, TypeStep, PTL DEF Spec

-----------------------------------------------------------------------------
(***************************************************************************)
(* The tables, for hosts that keep their id on a connection.  OnePlace and *)
(* MapConsistent are not inductive: what a recycle erases depends on the   *)
(* id in the object, and what a reconnect recycles on the state its first  *)
(* half left behind.  Tables adds what each place says about the fields of *)
(* an object.                                                              *)
(***************************************************************************)

Blank(r) == ~r.online /\ r.ademco_id = None

PoolInv == \A c \in Client :
    \/ pooled[c] = 0 /\ Polled(c)
    \/ pooled[c] = 1 /\ ~Polled(c) /\ Blank(client[c]) /\ client[c].dev = None

OutstandingInv == \A c \in outstanding :
    /\ client[c].dev \in Id
    /\ \A m \in Id : living[m] # c
    /\ c # resolving => Blank(client[c])

LivingInv == \A m \in Id : living[m] # None =>
    /\ m \in Valid
    /\ client[living[m]].ademco_id = m
    /\ client[living[m]].online
    /\ client[living[m]].dev = m

ResolvingInv == resolving # None =>
    /\ resolving \in outstanding
    /\ client[resolving].online
    /\ client[resolving].ademco_id \in Valid
    /\ client[resolving].dev = client[resolving].ademco_id
    /\ living[client[resolving].ademco_id] # None

Tables == PoolInv /\ OutstandingInv /\ LivingInv /\ ResolvingInv

\* Tables reads three fields of an object only.
SameFields(r, q) == /\ r.dev = q.dev
                    /\ r.online = q.online
                    /\ r.ademco_id = q.ademco_id

\* The invariant gives the two properties of the runs.
LEMMA TablesImply == TypeOK /\ Tables => OnePlace /\ MapConsistent
  <1> SUFFICES ASSUME TypeOK, Tables PROVE OnePlace /\ MapConsistent
    OBVIOUS
  <1> USE NoneAssumption, ValidAssumption
  <1>1. MapConsistent
    BY DEF Tables, LivingInv, MapConsistent, Living
  <1>2. \A c \in Client : \/ pooled[c] = 0 /\ Polled(c)
                          \/ pooled[c] = 1 /\ ~Polled(c)
    BY DEF Tables, PoolInv
  <1>3. \A m \in Id : living[m] \notin outstanding
    BY DEF Tables, OutstandingInv
  <1>4. \A m, k \in Id : living[m] = living[k] /\ living[m] # None => m = k
    BY DEF Tables, LivingInv
  <1> QED  BY <1>1, <1>2, <1>3, <1>4 DEF OnePlace

\* A step that changes none of the tables and, in the objects, only fields that
\* Tables does not read.
LEMMA SameTables ==
  ASSUME Tables, UNCHANGED <<pooled, outstanding, living, resolving>>,
         TypeOK, \A c \in Client : SameFields(client'[c], client[c])
  PROVE  Tables'
  <1> USE NoneAssumption, ValidAssumption
  <1>1. PoolInv'
    BY DEF Tables, PoolInv, SameFields, Polled, Blank
  <1>2. OutstandingInv'
    BY DEF Tables, OutstandingInv, SameFields, Blank, TypeOK
  <1>3. LivingInv'
    BY DEF Tables, LivingInv, SameFields, TypeOK
  <1>4. ResolvingInv'
    BY DEF Tables, ResolvingInv, SameFields, TypeOK
  <1> QED  BY <1>1, <1>2, <1>3, <1>4 DEF Tables

\* A step that recycles an outstanding object nobody is resolving.
LEMMA RecycleOutstanding ==
  ASSUME TypeOK, Tables, NEW c \in outstanding, resolving = None,
         client' = Recycle(c), pooled' = Pooled(c),
         outstanding' = outstanding \ {c}, UNCHANGED <<living, resolving>>
  PROVE  Tables'
  <1> USE NoneAssumption, ValidAssumption
  <1>1. c \in Client /\ pooled[c] = 0 /\ \A m \in Id : living[m] # c
    BY DEF TypeOK, Tables, PoolInv, OutstandingInv, Polled
  <1>2. /\ client'[c] = Cleared
        /\ \A x \in Client \ {c} : client'[x] = client[x]
    BY <1>1 DEF Recycle, TypeOK
  <1>3. pooled'[c] = 1 /\ \A x \in Client \ {c} : pooled'[x] = pooled[x]
    BY <1>1 DEF Pooled, TypeOK
  <1>4. PoolInv'
    BY <1>1, <1>2, <1>3 DEF Tables, PoolInv, Polled, Blank, Cleared
  <1>5. OutstandingInv'
    BY <1>1, <1>2 DEF Tables, OutstandingInv, Blank, TypeOK
  <1>6. LivingInv'
    BY <1>1, <1>2 DEF Tables, LivingInv, TypeOK
  <1>7. ResolvingInv'
    BY DEF ResolvingInv
  <1> QED  BY <1>4, <1>5, <1>6, <1>7 DEF Tables

\* The operators on task queues and the signals leave those fields alone.
LEMMA QueueFields ==
  ASSUME NEW r \in ClientData, NEW q \in ClientData, NEW n, NEW m, NEW late
  PROVE  /\ SameFields(Enqueue(r, n, m, late), r)
         /\ SameFields(DropFirst(r), r)
         /\ SameFields(SendFirst(r), r)
         /\ SameFields(MoveTaskListToNewObj(r, q), r)
         /\ SameFields(MovedAway(r), r)
  BY DEF SameFields, Enqueue, DropFirst, SendFirst, MoveTaskListToNewObj,
         MovedAway, ClientData

LEMMA SignalFields ==
  ASSUME NEW cl \in [Client -> ClientData], NEW x, NEW ev
  PROVE  \A c \in Client : SameFields(Signal(cl, x, ev)[c], cl[c])
  <1>1. \A r \in ClientData : SameFields([r EXCEPT !.hangup = (ev = "hangup")], r)
    BY DEF SameFields, ClientData
  <1>2. \A c \in Client : cl[c] \in ClientData
    OBVIOUS
  <1> QED  BY <1>1, <1>2 DEF Signal, SameFields

LEMMA AddressedFields ==
  ASSUME TypeOK, NEW c \in Client, NEW a \in Id, NEW s \in Seq1
  PROVE  /\ Addressed(c, a, s).dev = client[c].dev
         /\ Addressed(c, a, s).online = client[c].online
         /\ Addressed(c, a, s).ademco_id = a
  <1>1. client[c] \in ClientData
    BY DEF TypeOK
  <1>2. /\ Confirm(client[c], s) \in ClientData
        /\ SameFields(Confirm(client[c], s), client[c])
    BY <1>1, DropFirstType, QueueFields DEF Confirm, SameFields
  <1> QED  BY <1>2 DEF Addressed, SameFields, ClientData

-----------------------------------------------------------------------------
\* The step of an event, by its four cases.
LEMMA TablesDeviceEvent ==
  ASSUME ~MayReaddress, TypeOK, TypeOK', Tables,
         NEW c \in Client, DeviceEvent(c)
  PROVE  Tables'
  <1> USE NoneAssumption, ValidAssumption
  <1> PICK a \in Sends(c), s \in Seq1 :
        \/ \E ev \in Signals : \/ EventOnline(c, a, s, ev)
                               \/ EventFirst(c, a, s, ev)
        \/ EventReconnect(c, a, s)
        \/ EventInvalid(c, a)
    BY DEF DeviceEvent
  <1>1. Ready(c) /\ a = client[c].dev /\ a \in Id
    <2>1. Ready(c)
      BY DEF EventOnline, EventFirst, EventReconnect, EventInvalid
    <2>2. a = client[c].dev
      BY DEF Sends
    <2> QED  BY <2>1, <2>2 DEF Ready, TypeOK, ClientData
  <1>2. resolving = None /\ Polled(c) /\ pooled[c] = 0
    BY <1>1 DEF Ready, Tables, PoolInv
  <1>3. ~client[c].online => c \in outstanding /\ Blank(client[c])
    BY <1>2 DEF Polled, Tables, LivingInv, OutstandingInv
  <1>4. client[c].online => client[c].ademco_id = a
    BY <1>1, <1>2 DEF Polled, Tables, LivingInv, OutstandingInv, Blank
  <1>5. client[c] \in ClientData
    BY DEF TypeOK
  <1>6. /\ Addressed(c, a, s) \in ClientData
        /\ Addressed(c, a, s).dev = client[c].dev
        /\ Addressed(c, a, s).online = client[c].online
        /\ Addressed(c, a, s).ademco_id = a
    BY <1>1, AddressedType, AddressedFields
  <1> DEFINE r == [Addressed(c, a, s) EXCEPT !.online = TRUE]
  <1>7. /\ r \in ClientData
        /\ r.dev = a /\ r.online /\ r.ademco_id = a
    BY <1>1, <1>6 DEF ClientData
  <1>8. ASSUME NEW ev \in Signals, EventOnline(c, a, s, ev) PROVE Tables'
    <2> DEFINE cl == [client EXCEPT ![c] = Addressed(c, a, s)]
    <2>1. cl \in [Client -> ClientData]
      BY <1>6 DEF TypeOK
    <2>2. client' = Signal(cl, rccc[a], ev)
      BY <1>8 DEF EventOnline
    <2>3. \A x \in Client : SameFields(cl[x], client[x])
      <3>1. client[c].ademco_id = a
        BY <1>4, <1>8 DEF EventOnline
      <3>2. cl[c] = Addressed(c, a, s) /\ \A x \in Client \ {c} : cl[x] = client[x]
        BY DEF TypeOK
      <3> HIDE DEF cl
      <3>3. SameFields(cl[c], client[c])
        BY <1>6, <3>1, <3>2 DEF SameFields
      <3> QED  BY <3>2, <3>3 DEF SameFields
    <2> HIDE DEF cl
    <2>4. \A x \in Client : SameFields(client'[x], cl[x])
      BY <2>1, <2>2, SignalFields
    <2>5. \A x \in Client : SameFields(client'[x], client[x])
      BY <2>3, <2>4 DEF SameFields
    <2> QED  BY <1>8, <2>5, SameTables DEF EventOnline
  <1>9. ASSUME NEW ev \in Signals, EventFirst(c, a, s, ev) PROVE Tables'
    <2> DEFINE q  == Enqueue(r, 0, a, FALSE)
               cl == [client EXCEPT ![c] = q]
    <2>1. q \in ClientData /\ SameFields(q, r)
      BY <1>1, <1>7, EnqueueType, QueueFields
    <2>2. client' = Signal(cl, c, ev)
      BY <1>9 DEF EventFirst
    <2> HIDE DEF q, r
    <2>3. cl \in [Client -> ClientData]
      BY <2>1 DEF TypeOK
    <2>4. \A x \in Client : SameFields(client'[x], cl[x])
      BY <2>2, <2>3, SignalFields
    <2>5. /\ client'[c].dev = a /\ client'[c].online /\ client'[c].ademco_id = a
          /\ \A x \in Client \ {c} : SameFields(client'[x], client[x])
      BY <1>7, <2>1, <2>4 DEF SameFields, TypeOK
    <2>6. /\ a \in Valid /\ living[a] = None
          /\ living' = [living EXCEPT ![a] = c]
          /\ outstanding' = outstanding \ {c}
          /\ UNCHANGED <<pooled, resolving>>
          /\ c \in outstanding
      BY <1>3, <1>9 DEF EventFirst, CheckIsValidMachine
    <2>7. living'[a] = c /\ \A m \in Id \ {a} : living'[m] = living[m] /\ living[m] # c
      BY <1>1, <2>6 DEF TypeOK, Tables, OutstandingInv
    <2>8. PoolInv'
      BY <1>1, <1>2, <2>5, <2>6, <2>7
         DEF Tables, PoolInv, Polled, Blank, SameFields
    <2>9. OutstandingInv'
      BY <1>1, <2>5, <2>6, <2>7
         DEF Tables, OutstandingInv, Blank, SameFields, TypeOK
    <2>10. LivingInv'
      BY <2>5, <2>6, <2>7 DEF Tables, LivingInv, SameFields, TypeOK
    <2>11. ResolvingInv'
      BY <1>2, <2>6 DEF ResolvingInv
    <2> QED  BY <2>8, <2>9, <2>10, <2>11 DEF Tables
  <1>10. CASE EventReconnect(c, a, s)
    <2> DEFINE o == living[a]
               x == MoveTaskListToNewObj(r, client[o])
    <2>1. /\ a \in Valid /\ o \in Client /\ client[o] \in ClientData
          /\ resolving' = c
          /\ UNCHANGED <<pooled, outstanding, living>>
          /\ c \in outstanding /\ c # o
      BY <1>1, <1>3, <1>10
         DEF EventReconnect, CheckIsValidMachine, TypeOK, Tables, OutstandingInv
    <2>2. SameFields(x, r) /\ SameFields(MovedAway(client[o]), client[o])
      BY <1>7, <2>1, QueueFields
    <2>3. client' = [client EXCEPT ![c] = x, ![o] = MovedAway(@)]
      BY <1>10 DEF EventReconnect
    <2> HIDE DEF x, r
    <2>4. /\ client'[c] = x
          /\ client'[o] = MovedAway(client[o])
          /\ \A y \in Client \ {c, o} : client'[y] = client[y]
      BY <2>1, <2>3 DEF TypeOK
    <2>5. /\ client'[c].dev = a /\ client'[c].online /\ client'[c].ademco_id = a
          /\ \A y \in Client \ {c} : SameFields(client'[y], client[y])
      BY <1>7, <2>1, <2>2, <2>4 DEF SameFields
    <2>6. PoolInv'
      BY <1>2, <2>1, <2>5 DEF Tables, PoolInv, Polled, Blank, SameFields
    <2>7. OutstandingInv'
      BY <1>1, <1>2, <2>1, <2>5
         DEF Tables, OutstandingInv, Blank, SameFields, TypeOK
    <2>8. LivingInv'
      BY <2>1, <2>5 DEF Tables, LivingInv, OutstandingInv, SameFields, TypeOK
    <2>9. ResolvingInv'
      BY <1>1, <2>1, <2>5 DEF ResolvingInv, TypeOK
    <2> QED  BY <2>6, <2>7, <2>8, <2>9 DEF Tables
  <1>11. CASE EventInvalid(c, a)
    BY <1>2, <1>3, <1>11, RecycleOutstanding DEF EventInvalid
  <1> QED  BY <1>8, <1>9, <1>10, <1>11

\* The second half of a reconnect.
LEMMA TablesFinishReconnect ==
  ASSUME TypeOK, TypeOK', Tables, NEW ev \in Signals, FinishReconnect(ev)
  PROVE  Tables'
  <1> USE NoneAssumption, ValidAssumption
  <1> PICK c \in Client, a \in Id, o \in Client :
        c = resolving /\ a = client[c].ademco_id /\ o = living[a]
    BY DEF FinishReconnect, TypeOK, Tables, ResolvingInv
  <1>1. /\ c \in outstanding /\ a \in Valid /\ o # c
        /\ client[c].online /\ client[c].dev = a
    BY DEF FinishReconnect, TypeOK, Tables, ResolvingInv, OutstandingInv
  <1>2. /\ client[o].ademco_id = a
        /\ \A m \in Id \ {a} : living[m] # o /\ living[m] # c
        /\ pooled[o] = 0 /\ pooled[c] = 0 /\ o \notin outstanding
    BY <1>1 DEF Tables, LivingInv, PoolInv, Polled, OutstandingInv
  <1>3. Recycle(o) \in [Client -> ClientData]
    BY ClearedType DEF Recycle, TypeOK
  <1>4. client' = Signal(Recycle(o), rccc[a], ev)
    BY DEF FinishReconnect
  <1>5. \A x \in Client : SameFields(client'[x], Recycle(o)[x])
    BY <1>3, <1>4, SignalFields
  <1>6. /\ SameFields(client'[o], Cleared)
        /\ \A x \in Client \ {o} : SameFields(client'[x], client[x])
    BY <1>1, <1>5 DEF Recycle, TypeOK
  <1>7. pooled'[o] = 1 /\ \A x \in Client \ {o} : pooled'[x] = pooled[x]
    BY <1>1, <1>2 DEF FinishReconnect, Pooled, TypeOK
  <1>8. living'[a] = c /\ \A m \in Id \ {a} : living'[m] = living[m]
    BY <1>1, <1>2 DEF FinishReconnect, Erase
  <1>9. outstanding' = outstanding \ {c} /\ resolving' = None
    BY DEF FinishReconnect
  <1>10. PoolInv'
    <2>1. pooled'[o] = 1 /\ ~Polled(o)' /\ Blank(client'[o]) /\ client'[o].dev = None
      BY <1>1, <1>2, <1>6, <1>7, <1>8, <1>9
         DEF Polled, Blank, SameFields, Cleared
    <2>2. pooled'[c] = 0 /\ Polled(c)'
      BY <1>1, <1>2, <1>7, <1>8 DEF Polled
    <2>3. ASSUME NEW x \in Client \ {o, c}
          PROVE  /\ pooled'[x] = pooled[x] /\ (Polled(x)' <=> Polled(x))
                 /\ SameFields(client'[x], client[x])
      BY <1>1, <1>6, <1>7, <1>8, <1>9 DEF Polled
    <2> QED  BY <2>1, <2>2, <2>3 DEF Tables, PoolInv, Blank, SameFields
  <1>11. OutstandingInv'
    BY <1>1, <1>2, <1>6, <1>8, <1>9
       DEF Tables, OutstandingInv, Blank, SameFields, TypeOK
  <1>12. LivingInv'
    BY <1>1, <1>2, <1>6, <1>8 DEF Tables, LivingInv, SameFields, TypeOK
  <1>13. ResolvingInv'
    BY <1>9 DEF ResolvingInv
  <1> QED  BY <1>10, <1>11, <1>12, <1>13 DEF Tables

\* A timeout of a living connection.
LEMMA TablesTimeoutLiving ==
  ASSUME TypeOK, Tables, NEW c \in Client, TimeoutLiving(c)
  PROVE  Tables'
  <1> USE NoneAssumption, ValidAssumption
  <1> DEFINE a == client[c].ademco_id
  <1>1. /\ a \in Id /\ living[a] = c
        /\ \A m \in Id \ {a} : living[m] # c
        /\ c \notin outstanding /\ pooled[c] = 0 /\ resolving = None
    BY DEF TimeoutLiving, TimedOut, Tables, LivingInv, OutstandingInv, PoolInv,
           Polled
  <1>2. client'[c] = Cleared /\ \A x \in Client \ {c} : client'[x] = client[x]
    BY DEF TimeoutLiving, Recycle, TypeOK
  <1>3. pooled'[c] = 1 /\ \A x \in Client \ {c} : pooled'[x] = pooled[x]
    BY <1>1 DEF TimeoutLiving, Pooled, TypeOK
  <1>4. living'[a] = None /\ \A m \in Id \ {a} : living'[m] = living[m]
    BY <1>1 DEF TimeoutLiving, Erase
  <1>5. UNCHANGED <<outstanding, resolving>>
    BY DEF TimeoutLiving
  <1>6. PoolInv'
    BY <1>1, <1>2, <1>3, <1>4, <1>5
       DEF Tables, PoolInv, Polled, Blank, Cleared
  <1>7. OutstandingInv'
    BY <1>1, <1>2, <1>4, <1>5 DEF Tables, OutstandingInv, Blank, TypeOK
  <1>8. LivingInv'
    BY <1>1, <1>2, <1>4 DEF Tables, LivingInv, TypeOK
  <1>9. ResolvingInv'
    BY <1>1, <1>5 DEF ResolvingInv
  <1> QED  BY <1>6, <1>7, <1>8, <1>9 DEF Tables

LEMMA TablesStep ==
  ASSUME ~MayReaddress, TypeOK, TypeOK', Tables, [Next]_vars
  PROVE  Tables'
  <1> USE NoneAssumption, ValidAssumption
  <1>0. client \in [Client -> ClientData]
    BY DEF TypeOK
  <1>1. ASSUME NEW c \in Client, NEW a \in Id, Accept(c, a) PROVE Tables'
    <2>1. pooled[c] = 1 /\ ~Polled(c) /\ Blank(client[c]) /\ resolving = None
      BY <1>1 DEF Accept, Tables, PoolInv
    <2>2. /\ client'[c].dev = a /\ Blank(client'[c])
          /\ \A x \in Client \ {c} : client'[x] = client[x]
      BY <1>0, <1>1, <2>1 DEF Accept, Blank, ClientData
    <2>3. pooled'[c] = 0 /\ \A x \in Client \ {c} : pooled'[x] = pooled[x]
      BY <1>1, <2>1 DEF Accept, TypeOK
    <2>4. /\ outstanding' = outstanding \cup {c}
          /\ UNCHANGED <<living, resolving>>
      BY <1>1 DEF Accept
    <2>5. PoolInv'
      BY <2>1, <2>2, <2>3, <2>4 DEF Tables, PoolInv, Polled, Blank
    <2>6. OutstandingInv'
      BY <2>1, <2>2, <2>4 DEF Tables, OutstandingInv, Polled, Blank, TypeOK
    <2>7. LivingInv'
      BY <2>1, <2>2, <2>4 DEF Tables, LivingInv, Polled, TypeOK
    <2>8. ResolvingInv'
      BY <2>1, <2>4 DEF ResolvingInv
    <2> QED  BY <2>5, <2>6, <2>7, <2>8 DEF Tables
  <1>2. ASSUME NEW c \in Client, Disconnect(c) PROVE Tables'
    <2>1. \A x \in Client : SameFields(client'[x], client[x])
      BY <1>0, <1>2 DEF Disconnect, SameFields, ClientData
    <2> QED  BY <1>2, <2>1, SameTables DEF Disconnect
  <1>3. ASSUME NEW c \in Client, DeviceEvent(c) PROVE Tables'
    BY <1>3, TablesDeviceEvent
  <1>4. ASSUME NEW c \in Client, Ack(c) PROVE Tables'
    <2>1. SameFields(DropFirst(client[c]), client[c])
      BY <1>0, QueueFields
    <2>2. \A x \in Client : SameFields(client'[x], client[x])
      BY <1>0, <1>4, <2>1 DEF Ack, SameFields
    <2> QED  BY <1>4, <2>2, SameTables DEF Ack
  <1>5. ASSUME NEW c \in Client, Send(c) PROVE Tables'
    <2>1. /\ SameFields(DropFirst(client[c]), client[c])
          /\ SameFields(SendFirst(client[c]), client[c])
      BY <1>0, QueueFields
    <2>2. \A x \in Client : SameFields(client'[x], client[x])
      BY <1>0, <1>5, <2>1 DEF Send, SameFields
    <2> QED  BY <1>5, <2>2, SameTables DEF Send
  <1>6. ASSUME NEW c \in Client, TimeoutOutstanding(c) PROVE Tables'
    BY <1>6, RecycleOutstanding DEF TimeoutOutstanding, TimedOut
  <1>7. ASSUME NEW c \in Client, TimeoutLiving(c) PROVE Tables'
    BY <1>7, TablesTimeoutLiving
  <1>8. ASSUME NEW ev \in Signals, FinishReconnect(ev) PROVE Tables'
    BY <1>8, TablesFinishReconnect
  <1>9. ASSUME NEW u \in Sender, AddTask(u) PROVE Tables'
    <2> DEFINE p == pend[u]
               q == Enqueue(client[p.client], p.n, p.id, p.client # Holder(p.id))
    <2>1. client' = [client EXCEPT ![p.client] = q]
      BY <1>9 DEF AddTask
    <2>2. SameFields(q, client[p.client]) \/ p.client \notin Client
      BY <1>0, QueueFields
    <2> HIDE DEF q
    <2>3. \A x \in Client : SameFields(client'[x], client[x])
      BY <1>0, <2>1, <2>2 DEF SameFields
    <2> QED  BY <1>9, <2>3, SameTables DEF AddTask
  <1>10. ASSUME NEW u \in Sender, NEW m \in Id, FindClient(u, m) PROVE Tables'
    BY <1>10, SameTables DEF FindClient, SameFields
  <1>11. ASSUME NEW m \in Valid, DeleteMachine(m) PROVE Tables'
    <2>1. \A r \in ClientData : SameFields([r EXCEPT !.wait_to_kill = TRUE], r)
      BY DEF SameFields, ClientData
    <2>2. \A x \in Client : SameFields(client'[x], client[x])
      BY <1>0, <1>11, <2>1 DEF DeleteMachine, SameFields
    <2> QED  BY <1>11, <2>2, SameTables DEF DeleteMachine
  <1>12. CASE UNCHANGED vars
    BY <1>12, SameTables DEF vars, SameFields
  <1> QED  BY <1>1, <1>2, <1>3, <1>4, <1>5, <1>6, <1>7, <1>8, <1>9, <1>10,
              <1>11, <1>12 DEF Next, RecvThread, UserThreads

\* The tables of the server stay in agreement as long as hosts keep their ids,
\* whatever connects, breaks, reconnects, times out or is deleted in any order:
\* every CClientData object is in one place, and every entry of m_livingClients
\* is the online connection of the host of that id.
THEOREM TablesAgree == ~MayReaddress /\ Spec => [](OnePlace /\ MapConsistent)
  <1> SUFFICES ASSUME ~MayReaddress PROVE Spec => [](OnePlace /\ MapConsistent)
    OBVIOUS
  <1>1. Init => Tables
    BY NoneAssumption DEF Init, Tables, PoolInv, OutstandingInv, LivingInv,
       ResolvingInv, Polled, Blank, Cleared
  <1>2. TypeOK /\ TypeOK' /\ Tables /\ [Next]_vars => Tables'
    BY TablesStep
  <1>3. TypeOK /\ Tables => OnePlace /\ MapConsistent
    BY TablesImply
  <1> QED  BY <1>1, <1>2, <1>3, Typing, PTL DEF Spec

\* Every entry of m_livingClients is the online connection of the host of that
\* id, and the id is one that CheckIsValidMachine accepts.
THEOREM MapAgrees == ~MayReaddress => (Spec => []MapConsistent)
  <1> SUFFICES ASSUME ~MayReaddress PROVE Spec => []MapConsistent
    OBVIOUS
  <1> QED  BY TablesAgree, PTL

-----------------------------------------------------------------------------
\* What a device event does to the entries and to the flags, by its cases.
LEMMA ShownDeviceEvent ==
  ASSUME ~MayReaddress, TypeOK, Tables, DirectShown,
         NEW c \in Client, DeviceEvent(c)
  PROVE  DirectShown'
  <1> USE NoneAssumption, ValidAssumption
  <1> PICK a \in Sends(c), s \in Seq1 :
        \/ \E ev \in Signals : \/ EventOnline(c, a, s, ev)
                               \/ EventFirst(c, a, s, ev)
        \/ EventReconnect(c, a, s)
        \/ EventInvalid(c, a)
    BY DEF DeviceEvent
  <1>1. Ready(c) /\ a = client[c].dev
    BY DEF EventOnline, EventFirst, EventReconnect, EventInvalid, Sends
  <1>2. client[c].online => client[c].ademco_id = a
    BY <1>1 DEF Ready, Polled, Tables, LivingInv, OutstandingInv, Blank
  <1>3. ASSUME NEW ev \in Signals, EventOnline(c, a, s, ev) PROVE DirectShown'
    BY <1>2, <1>3 DEF EventOnline, DirectShown
  <1>4. ASSUME NEW ev \in Signals, EventFirst(c, a, s, ev) PROVE DirectShown'
    BY <1>4 DEF EventFirst, MachineOnline, DirectShown, TypeOK
  <1>5. CASE EventReconnect(c, a, s)
    BY <1>5 DEF EventReconnect, DirectShown
  <1>6. CASE EventInvalid(c, a)
    BY <1>6 DEF EventInvalid, DirectShown
  <1> QED  BY <1>3, <1>4, <1>5, <1>6

LEMMA ShownStep ==
  ASSUME ~MayReaddress, MaxDeletes = 0, TypeOK, Tables, DirectShown,
         [Next]_vars
  PROVE  DirectShown'
  <1> USE NoneAssumption, ValidAssumption
  <1>1. ASSUME NEW c \in Client, NEW a \in Id, Accept(c, a) PROVE DirectShown'
    BY <1>1 DEF Accept, DirectShown
  <1>2. ASSUME NEW c \in Client, Disconnect(c) \/ Ack(c) \/ Send(c)
        PROVE  DirectShown'
    BY <1>2 DEF Disconnect, Ack, Send, DirectShown
  <1>3. ASSUME NEW c \in Client, DeviceEvent(c) PROVE DirectShown'
    BY <1>3, ShownDeviceEvent
  <1>4. ASSUME NEW c \in Client, TimeoutOutstanding(c) PROVE DirectShown'
    BY <1>4 DEF TimeoutOutstanding, DirectShown
  <1>5. ASSUME NEW c \in Client, TimeoutLiving(c) PROVE DirectShown'
    BY <1>5 DEF TimeoutLiving, MachineOffline, Erase, DirectShown
  <1>6. ASSUME NEW ev \in Signals, FinishReconnect(ev) PROVE DirectShown'
    <2> PICK c \in Client, a \in Id, o \in Client :
          c = resolving /\ a = client[c].ademco_id /\ o = living[a]
      BY <1>6 DEF FinishReconnect, TypeOK, Tables, ResolvingInv
    <2>1. client[o].ademco_id = a
      BY DEF Tables, LivingInv
    <2>2. /\ living'[a] = c /\ living[a] # None
          /\ \A m \in Id \ {a} : living'[m] = living[m]
      BY <1>6, <2>1 DEF FinishReconnect, Erase
    <2>3. UNCHANGED direct
      BY <1>6 DEF FinishReconnect
    <2> QED  BY <2>2, <2>3 DEF DirectShown
  <1>7. ASSUME NEW u \in Sender, AddTask(u) \/ \E m \in Id : FindClient(u, m)
        PROVE  DirectShown'
    BY <1>7 DEF AddTask, FindClient, DirectShown
  <1>8. ASSUME NEW m \in Valid, DeleteMachine(m) PROVE FALSE
    BY <1>8 DEF DeleteMachine, TypeOK
  <1>9. CASE UNCHANGED vars
    BY <1>9 DEF vars, DirectShown
  <1> QED  BY <1>1, <1>2, <1>3, <1>4, <1>5, <1>6, <1>7, <1>8, <1>9
              DEF Next, RecvThread, UserThreads

\* A machine is shown online by its direct channel exactly while
\* m_livingClients has an entry for it, as long as hosts keep their ids and no
\* machine is deleted: a reconnect, which tells the machine nothing, and a
\* timeout, which looks the machine up by the id in the object, agree with it.
THEOREM ShownAgrees ==
  ~MayReaddress /\ MaxDeletes = 0 /\ Spec => []DirectShown
  <1> SUFFICES ASSUME ~MayReaddress, MaxDeletes = 0 PROVE Spec => []DirectShown
    OBVIOUS
  <1>1. Init => Tables /\ DirectShown
    BY NoneAssumption DEF Init, Tables, PoolInv, OutstandingInv, LivingInv,
       ResolvingInv, Polled, Blank, Cleared, DirectShown
  <1>2. TypeOK /\ TypeOK' /\ Tables /\ [Next]_vars => Tables'
    BY TablesStep
  <1>3. TypeOK /\ Tables /\ DirectShown /\ [Next]_vars => DirectShown'
    BY ShownStep
  <1> QED  BY <1>1, <1>2, <1>3, Typing, PTL DEF Spec

=============================================================================
