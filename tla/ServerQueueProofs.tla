-------------------------- MODULE ServerQueueProofs --------------------------
(***************************************************************************)
(* Theorems about the command queues of ServerService, for every number of *)
(* hosts that keep their id, connections, senders and commands: where the  *)
(* commands are, how they are numbered, and that the server implements     *)
(* CommandQueue.                                                           *)
(***************************************************************************)
EXTENDS ServerServiceProofs, SubsequencesProofs

-----------------------------------------------------------------------------
(***************************************************************************)
(* The queues, for hosts that keep their id on a connection.  QueueSteps   *)
(* says what a step does to the queues of the objects and to the holders   *)
(* of the machines, in eight cases; what the queues hold is preserved by   *)
(* each of them.                                                           *)
(***************************************************************************)

\* The fields of an object that are its queue.
SameQueue(r, q) == /\ r.taskList = q.taskList
                   /\ r.cur_seq = q.cur_seq
                   /\ r.has_data_to_send <=> q.has_data_to_send

\* r is q without its first task, and with one task more.
Dropped(r, q) == /\ HasFirst(q)
                 /\ r.taskList = Tail(q.taskList)
                 /\ r.cur_seq = q.cur_seq
                 /\ r.has_data_to_send <=> Len(q.taskList) > 1

Behind(r, q) == SameQueue(r, q) \/ Dropped(r, q)

NewTask(r, n, m, late) == [n |-> n, id |-> m, seq |-> r.cur_seq, sent |-> FALSE,
                           retry |-> 0, late |-> late]

Queues(r, q, n, m, late) ==
    /\ r.taskList = Append(q.taskList, NewTask(q, n, m, late))
    /\ r.cur_seq = NextSeq(q.cur_seq)
    /\ r.has_data_to_send

\* r is q with its first task marked as sent, and q's queue moved behind p's.
Marked(r, q) == /\ r.taskList = [q.taskList EXCEPT ![1] = Sent(@)]
                /\ r.cur_seq = q.cur_seq
                /\ r.has_data_to_send <=> q.has_data_to_send

Moved(r, p, q) == /\ r.taskList = p.taskList \o q.taskList
                  /\ r.cur_seq = q.cur_seq
                  /\ r.has_data_to_send <=> q.has_data_to_send

Calm(S) == \A x \in Client \ S : SameQueue(client'[x], client[x])

HoldersSame == \A m \in Id : Holder(m)' = Holder(m)

Nobodys(c) == \A m \in Id : Holder(m) # c

\* No queue changes.
StepIdle == HoldersSame /\ Calm({})

\* The first task of c leaves, or is marked as sent.
StepDrop(c) == HoldersSame /\ Calm({c}) /\ Dropped(client'[c], client[c])

StepMark(c) == /\ HoldersSame /\ Calm({c}) /\ HasFirst(client[c])
               /\ Marked(client'[c], client[c])

\* An object that is no machine's is cleared.
StepClear(c) == /\ HoldersSame /\ Calm({c}) /\ Nobodys(c)
                /\ SameQueue(client'[c], Cleared)

\* The holder of machine a becomes c, for the first time, in place of o, or none.
HolderBecomes(a, x) == /\ Holder(a)' = x
                       /\ \A m \in Id \ {a} : Holder(m)' = Holder(m)

StepFirst(c, a) == /\ HolderBecomes(a, c) /\ Holder(a) = None
                   /\ Calm({c}) /\ Nobodys(c)
                   /\ \E r \in ClientData : /\ Behind(r, client[c])
                                            /\ Queues(client'[c], r, 0, a, FALSE)

StepMove(c, o, a) ==
    /\ HolderBecomes(a, c) /\ Holder(a) = o /\ c # o
    /\ Calm({c, o}) /\ Nobodys(c) /\ \A m \in Id \ {a} : Holder(m) # o
    /\ \E r \in ClientData : /\ Behind(r, client[c])
                             /\ Moved(client'[c], r, client[o])
    /\ client'[o].taskList = <<>>

StepLose(c, a) == /\ HolderBecomes(a, None) /\ Holder(a) = c
                  /\ \A m \in Id \ {a} : Holder(m) # c
                  /\ Calm({c}) /\ SameQueue(client'[c], Cleared)

\* A sender queues its command.
StepAdd(u) == /\ HoldersSame
              /\ pend[u] # None
              /\ Calm({pend[u].client})
              /\ Queues(client'[pend[u].client], client[pend[u].client],
                        pend[u].n, pend[u].id, pend[u].client # Holder(pend[u].id))
              /\ pend' = [pend EXCEPT ![u] = None]

\* The operators of the model in these terms.
LEMMA EnqueueQueue ==
  ASSUME NEW r \in ClientData, NEW n, NEW m, NEW late
  PROVE  Queues(Enqueue(r, n, m, late), r, n, m, late)
  BY DEF Queues, NewTask, Enqueue, ClientData

LEMMA DropQueue ==
  ASSUME NEW r \in ClientData, HasFirst(r)
  PROVE  Dropped(DropFirst(r), r)
  BY DEF Dropped, DropFirst, ClientData

LEMMA SendQueue ==
  ASSUME NEW r \in ClientData
  PROVE  Marked(SendFirst(r), r)
  BY DEF Marked, SendFirst, ClientData

LEMMA MoveQueue ==
  ASSUME NEW r \in ClientData, NEW q \in ClientData
  PROVE  Moved(MoveTaskListToNewObj(r, q), r, q) /\ MovedAway(q).taskList = <<>>
  BY DEF Moved, MoveTaskListToNewObj, MovedAway, ClientData

LEMMA SignalQueues ==
  ASSUME NEW cl \in [Client -> ClientData], NEW x, NEW ev
  PROVE  \A c \in Client : SameQueue(Signal(cl, x, ev)[c], cl[c])
  <1>1. \A r \in ClientData : SameQueue([r EXCEPT !.hangup = (ev = "hangup")], r)
    BY DEF SameQueue, ClientData
  <1>2. \A c \in Client : cl[c] \in ClientData
    OBVIOUS
  <1> QED  BY <1>1, <1>2 DEF Signal, SameQueue

\* A message that may confirm the first task.
LEMMA AddressedQueue ==
  ASSUME TypeOK, NEW c \in Client, NEW a \in Id, NEW s \in Seq1
  PROVE  /\ Behind(Addressed(c, a, s), client[c])
         /\ Behind([Addressed(c, a, s) EXCEPT !.online = TRUE], client[c])
  <1> DEFINE q == Confirm(client[c], s)
             r == [q EXCEPT !.ademco_id = a]
  <1>1. client[c] \in ClientData
    BY DEF TypeOK
  <1>2. q \in ClientData /\ Behind(q, client[c])
    BY <1>1, DropFirstType, DropQueue DEF Confirm, Behind, SameQueue
  <1> HIDE DEF q
  <1>3. SameQueue(r, q) /\ r \in ClientData
    BY <1>2 DEF SameQueue, ClientData
  <1> HIDE DEF r
  <1>4. SameQueue([r EXCEPT !.online = TRUE], r)
    BY <1>3 DEF SameQueue, ClientData
  <1>5. \A x, y, z : SameQueue(x, y) /\ SameQueue(y, z) => SameQueue(x, z)
    BY DEF SameQueue
  <1>6. \A x, y, z : SameQueue(x, y) /\ Dropped(y, z) => Dropped(x, z)
    BY DEF SameQueue, Dropped
  <1>7. Behind(r, client[c]) /\ Behind([r EXCEPT !.online = TRUE], client[c])
    BY <1>2, <1>3, <1>4, <1>5, <1>6 DEF Behind
  <1> QED  BY <1>7 DEF Addressed, r, q

\* The holders of the machines, outside a reconnect and in it.
LEMMA HolderIs ==
  ASSUME TypeOK, Tables
  PROVE  /\ resolving = None => \A m \in Id : Holder(m) = living[m]
         /\ resolving # None =>
              /\ Holder(client[resolving].ademco_id) = resolving
              /\ \A m \in Id \ {client[resolving].ademco_id} : Holder(m) = living[m]
  BY DEF Holder

LEMMA HoldersKept ==
  ASSUME TypeOK, UNCHANGED <<living, resolving>>,
         \A x \in Client : client'[x].ademco_id = client[x].ademco_id
  PROVE  HoldersSame
  <1>1. resolving # None => resolving \in Client
    BY DEF TypeOK
  <1> QED  BY <1>1 DEF HoldersSame, Holder

LEMMA HoldersUnresolved ==
  ASSUME UNCHANGED <<living, resolving>>, resolving = None
  PROVE  HoldersSame
  BY DEF HoldersSame, Holder

-----------------------------------------------------------------------------
\* The same machines have a connection.
OnlineSame == \A m \in Id : living'[m] = None <=> living[m] = None

\* What an event does to the queues, by its four cases.
LEMMA QueueDeviceEvent ==
  ASSUME ~MayReaddress, TypeOK, TypeOK', Tables,
         NEW c \in Client, DeviceEvent(c)
  PROVE  /\ UNCHANGED <<pend, issued>>
         /\ \/ StepIdle /\ OnlineSame
            \/ StepDrop(c) /\ OnlineSame
            \/ StepClear(c) /\ OnlineSame
            \/ \E a \in Id : /\ StepFirst(c, a)
                             /\ living'[a] # None /\ living[a] = None
                             /\ \A m \in Id \ {a} : living'[m] = living[m]
            \/ \E o \in Client, a \in Id :
                  StepMove(c, o, a) /\ OnlineSame
  <1> USE NoneAssumption, ValidAssumption
  <1> PICK a \in Sends(c), s \in Seq1 :
        \/ \E ev \in Signals : \/ EventOnline(c, a, s, ev)
                               \/ EventFirst(c, a, s, ev)
        \/ EventReconnect(c, a, s)
        \/ EventInvalid(c, a)
    BY DEF DeviceEvent
  <1>1. Ready(c) /\ a = client[c].dev /\ a \in Id
    <2>1. Ready(c)
      BY DEF EventOnline, EventFirst, EventReconnect, EventInvalid
    <2>2. a = client[c].dev
      BY DEF Sends
    <2> QED  BY <2>1, <2>2 DEF Ready, TypeOK, ClientData
  <1>2. resolving = None /\ Polled(c)
    BY <1>1 DEF Ready
  <1>3. ~client[c].online => c \in outstanding /\ \A m \in Id : living[m] # c
    BY <1>2 DEF Polled, Tables, LivingInv, OutstandingInv
  <1>4. \A m \in Id : Holder(m) = living[m]
    BY <1>2, HolderIs
  <1>5. Addressed(c, a, s) \in ClientData
    BY <1>1, AddressedType
  <1> DEFINE r == [Addressed(c, a, s) EXCEPT !.online = TRUE]
  <1>6. r \in ClientData
    BY <1>5 DEF ClientData
  <1>7. Behind(r, client[c]) /\ Behind(Addressed(c, a, s), client[c])
    BY <1>1, AddressedQueue
  <1>8. UNCHANGED <<pend, issued>>
    BY DEF EventOnline, EventFirst, EventReconnect, EventInvalid
  <1>9. ASSUME NEW ev \in Signals, EventOnline(c, a, s, ev)
        PROVE  (StepIdle \/ StepDrop(c)) /\ UNCHANGED living
    <2> DEFINE cl == [client EXCEPT ![c] = Addressed(c, a, s)]
    <2>1. cl \in [Client -> ClientData]
      BY <1>5 DEF TypeOK
    <2>2. client' = Signal(cl, rccc[a], ev)
      BY <1>9 DEF EventOnline
    <2>3. cl[c] = Addressed(c, a, s) /\ \A x \in Client \ {c} : cl[x] = client[x]
      BY DEF TypeOK
    <2> HIDE DEF cl
    <2>4. \A x \in Client : SameQueue(client'[x], cl[x])
      BY <2>1, <2>2, SignalQueues
    <2>5. HoldersSame
      BY <1>2, <1>9, HoldersUnresolved DEF EventOnline
    <2>6. Calm({c})
      BY <2>3, <2>4 DEF Calm
    <2>7. CASE SameQueue(Addressed(c, a, s), client[c])
      BY <1>9, <2>3, <2>4, <2>5, <2>6, <2>7
         DEF StepIdle, Calm, SameQueue, EventOnline
    <2>8. CASE Dropped(Addressed(c, a, s), client[c])
      <3>1. Dropped(client'[c], client[c])
        BY <2>3, <2>4, <2>8 DEF SameQueue, Dropped
      <3> QED  BY <1>9, <2>5, <2>6, <3>1 DEF StepDrop, EventOnline
    <2> QED  BY <1>7, <2>7, <2>8 DEF Behind
  <1>10. ASSUME NEW ev \in Signals, EventFirst(c, a, s, ev)
         PROVE  /\ StepFirst(c, a) /\ living'[a] # None /\ living[a] = None
                /\ \A m \in Id \ {a} : living'[m] = living[m]
    <2> DEFINE q  == Enqueue(r, 0, a, FALSE)
               cl == [client EXCEPT ![c] = q]
    <2>1. q \in ClientData /\ Queues(q, r, 0, a, FALSE)
      BY <1>1, <1>6, EnqueueType, EnqueueQueue
    <2>2. client' = Signal(cl, c, ev)
      BY <1>10 DEF EventFirst
    <2> HIDE DEF q, r
    <2>3. cl \in [Client -> ClientData] /\ cl[c] = q
          /\ \A x \in Client \ {c} : cl[x] = client[x]
      BY <2>1 DEF TypeOK
    <2> HIDE DEF cl
    <2>4. \A x \in Client : SameQueue(client'[x], cl[x])
      BY <2>2, <2>3, SignalQueues
    <2>5. Queues(client'[c], r, 0, a, FALSE) /\ Calm({c})
      BY <2>1, <2>3, <2>4 DEF Queues, SameQueue, Calm
    <2>6. /\ living[a] = None /\ living' = [living EXCEPT ![a] = c]
          /\ resolving' = None /\ ~client[c].online
      BY <1>2, <1>10 DEF EventFirst
    <2>7. living'[a] = c /\ \A m \in Id \ {a} : living'[m] = living[m]
      BY <1>1, <2>6 DEF TypeOK
    <2>8. HolderBecomes(a, c) /\ Holder(a) = None /\ Nobodys(c)
      BY <1>1, <1>3, <1>4, <2>6, <2>7 DEF HolderBecomes, Nobodys, Holder
    <2> QED  BY <1>6, <1>7, <2>5, <2>6, <2>7, <2>8 DEF StepFirst
  <1>11. CASE EventReconnect(c, a, s)
    <2> DEFINE o == living[a]
               x == MoveTaskListToNewObj(r, client[o])
               y == MovedAway(client[o])
    <2>1. /\ a \in Valid /\ o \in Client /\ client[o] \in ClientData
          /\ resolving' = c /\ UNCHANGED living
          /\ ~client[c].online /\ c # o
      BY <1>1, <1>3, <1>11 DEF EventReconnect, CheckIsValidMachine, TypeOK
    <2>2. Moved(x, r, client[o]) /\ y.taskList = <<>>
      BY <1>6, <2>1, MoveQueue
    <2>3. x.ademco_id = a
      <3>1. r.ademco_id = a
        BY <1>1, <1>5, AddressedFields DEF ClientData
      <3> QED  BY <1>6, <2>1, <3>1, QueueFields DEF SameFields
    <2>4. client' = [client EXCEPT ![c] = x, ![o] = MovedAway(@)]
      BY <1>11 DEF EventReconnect
    <2> HIDE DEF x, r
    <2>5. /\ client'[c] = x /\ client'[o] = y
          /\ \A z \in Client \ {c, o} : client'[z] = client[z]
      BY <2>1, <2>4 DEF TypeOK
    <2> HIDE DEF y
    <2>6. HolderBecomes(a, c)
      BY <1>4, <2>1, <2>3, <2>5 DEF HolderBecomes, Holder
    <2>7. \A m \in Id \ {a} : living[m] # o
      BY <1>1, <2>1 DEF Tables, LivingInv
    <2>8. Calm({c, o})
      BY <2>5 DEF Calm, SameQueue
    <2>9. Nobodys(c) /\ Holder(a) = o /\ \A m \in Id \ {a} : Holder(m) # o
      BY <1>1, <1>3, <1>4, <2>1, <2>7 DEF Nobodys
    <2>10. StepMove(c, o, a)
      BY <1>6, <1>7, <2>1, <2>2, <2>5, <2>6, <2>8, <2>9 DEF StepMove
    <2> QED  BY <1>1, <1>8, <2>1, <2>10 DEF OnlineSame
  <1>12. CASE EventInvalid(c, a)
    <2>1. /\ ~client[c].online /\ client' = Recycle(c) /\ UNCHANGED <<living, resolving>>
      BY <1>12 DEF EventInvalid
    <2>2. client'[c] = Cleared /\ \A x \in Client \ {c} : client'[x] = client[x]
      BY <2>1 DEF Recycle, TypeOK
    <2>3. Calm({c}) /\ SameQueue(client'[c], Cleared)
      BY <2>2 DEF Calm, SameQueue
    <2>4. HoldersSame /\ Nobodys(c)
      BY <1>2, <1>3, <1>4, <2>1, HoldersUnresolved DEF Nobodys
    <2>5. StepClear(c)
      BY <2>3, <2>4 DEF StepClear
    <2> QED  BY <1>8, <2>1, <2>5 DEF OnlineSame
  <1>13. CASE \E ev \in Signals : EventOnline(c, a, s, ev)
    BY <1>8, <1>9, <1>13 DEF OnlineSame
  <1>14. CASE \E ev \in Signals : EventFirst(c, a, s, ev)
    BY <1>1, <1>8, <1>10, <1>14
  <1> QED  BY <1>11, <1>12, <1>13, <1>14


\* What a step does to the queues, the holders, the connections and the calls.
LEMMA QueueSteps ==
  ASSUME ~MayReaddress, TypeOK, TypeOK', Tables, Tables', [Next]_vars
  PROVE  \/ /\ UNCHANGED <<pend, issued>> /\ OnlineSame
            /\ \/ StepIdle
               \/ \E c \in Client : StepDrop(c) \/ StepMark(c) \/ StepClear(c)
               \/ \E c, o \in Client, a \in Id : StepMove(c, o, a)
         \/ /\ UNCHANGED <<pend, issued>>
            /\ \E c \in Client, a \in Id :
                  /\ StepFirst(c, a) /\ living'[a] # None /\ living[a] = None
                  /\ \A m \in Id \ {a} : living'[m] = living[m]
         \/ /\ UNCHANGED <<pend, issued>>
            /\ \E c \in Client, a \in Id :
                  /\ StepLose(c, a) /\ living'[a] = None /\ living[a] # None
                  /\ \A m \in Id \ {a} : living'[m] = living[m]
         \/ /\ UNCHANGED issued /\ OnlineSame
            /\ \E u \in Sender : StepAdd(u)
         \/ /\ StepIdle /\ OnlineSame
            /\ \E u \in Sender, m \in Id : FindClient(u, m)
  <1> USE NoneAssumption, ValidAssumption
  <1>0. client \in [Client -> ClientData]
    BY DEF TypeOK
  <1>1. ASSUME NEW c \in Client, NEW a \in Id, Accept(c, a)
        PROVE  StepIdle /\ OnlineSame /\ UNCHANGED <<pend, issued>>
    <2>1. \A r \in ClientData : SameQueue([r EXCEPT !.dev = a], r)
      BY DEF SameQueue, ClientData
    <2>2. Calm({})
      BY <1>0, <1>1, <2>1 DEF Accept, Calm, SameQueue
    <2>3. HoldersSame
      BY <1>1, HoldersUnresolved DEF Accept
    <2> QED  BY <1>1, <2>2, <2>3 DEF StepIdle, OnlineSame, Accept
  <1>2. ASSUME NEW c \in Client, Disconnect(c)
        PROVE  StepIdle /\ OnlineSame /\ UNCHANGED <<pend, issued>>
    <2>1. \A r \in ClientData : SameQueue([r EXCEPT !.disconnectd = TRUE], r)
      BY DEF SameQueue, ClientData
    <2>2. Calm({})
      BY <1>0, <1>2, <2>1 DEF Disconnect, Calm, SameQueue
    <2>3. HoldersSame
      BY <1>2, HoldersUnresolved DEF Disconnect, Ready
    <2> QED  BY <1>2, <2>2, <2>3 DEF StepIdle, OnlineSame, Disconnect
  <1>3. ASSUME NEW c \in Client, DeviceEvent(c)
        PROVE  \/ /\ UNCHANGED <<pend, issued>> /\ OnlineSame
                  /\ \/ StepIdle \/ StepDrop(c) \/ StepClear(c)
                     \/ \E o \in Client, a \in Id : StepMove(c, o, a)
               \/ /\ UNCHANGED <<pend, issued>>
                  /\ \E a \in Id :
                        /\ StepFirst(c, a) /\ living'[a] # None /\ living[a] = None
                        /\ \A m \in Id \ {a} : living'[m] = living[m]
    BY <1>3, QueueDeviceEvent
  <1>4. ASSUME NEW c \in Client, Ack(c)
        PROVE  StepDrop(c) /\ OnlineSame /\ UNCHANGED <<pend, issued>>
    <2>1. client'[c] = DropFirst(client[c]) /\ Calm({c})
      BY <1>0, <1>4 DEF Ack, Calm, SameQueue
    <2>2. Dropped(client'[c], client[c])
      BY <1>0, <1>4, <2>1, DropQueue DEF Ack
    <2>3. HoldersSame
      BY <1>4, HoldersUnresolved DEF Ack, Ready
    <2> QED  BY <1>4, <2>1, <2>2, <2>3 DEF StepDrop, OnlineSame, Ack
  <1>5. ASSUME NEW c \in Client, Send(c)
        PROVE  (StepDrop(c) \/ StepMark(c)) /\ OnlineSame /\ UNCHANGED <<pend, issued>>
    <2>1. Calm({c}) /\ HasFirst(client[c])
      BY <1>0, <1>5 DEF Send, Calm, SameQueue
    <2>2. HoldersSame
      BY <1>5, HoldersUnresolved DEF Send, Ready
    <2>3. CASE client'[c] = DropFirst(client[c])
      <3>1. Dropped(client'[c], client[c])
        BY <1>0, <2>1, <2>3, DropQueue
      <3> QED  BY <1>5, <2>1, <2>2, <3>1 DEF StepDrop, OnlineSame, Send
    <2>4. CASE client'[c] = SendFirst(client[c])
      <3>1. Marked(client'[c], client[c])
        BY <1>0, <2>4, SendQueue
      <3> QED  BY <1>5, <2>1, <2>2, <3>1 DEF StepMark, OnlineSame, Send
    <2>5. client'[c] = DropFirst(client[c]) \/ client'[c] = SendFirst(client[c])
      BY <1>0, <1>5 DEF Send
    <2> QED  BY <2>3, <2>4, <2>5
  <1>6. ASSUME NEW c \in Client, TimeoutOutstanding(c)
        PROVE  StepClear(c) /\ OnlineSame /\ UNCHANGED <<pend, issued>>
    <2>1. client'[c] = Cleared /\ \A x \in Client \ {c} : client'[x] = client[x]
      BY <1>0, <1>6 DEF TimeoutOutstanding, Recycle
    <2>2. Calm({c}) /\ SameQueue(client'[c], Cleared)
      BY <2>1 DEF Calm, SameQueue
    <2>3. \A m \in Id : living[m] # c
      BY <1>6 DEF TimeoutOutstanding, Tables, OutstandingInv
    <2>4. HoldersSame /\ Nobodys(c)
      BY <1>6, <2>3, HoldersUnresolved, HolderIs DEF TimeoutOutstanding, TimedOut, Nobodys
    <2> QED  BY <1>6, <2>2, <2>4 DEF StepClear, OnlineSame, TimeoutOutstanding
  <1>7. ASSUME NEW c \in Client, TimeoutLiving(c)
        PROVE  /\ UNCHANGED <<pend, issued>>
               /\ \E a \in Id : /\ StepLose(c, a) /\ living'[a] = None /\ living[a] # None
                               /\ \A m \in Id \ {a} : living'[m] = living[m]
    <2> PICK a \in Id : a = client[c].ademco_id /\ living[a] = c
      BY <1>7 DEF TimeoutLiving, Tables, LivingInv
    <2>1. \A m \in Id \ {a} : living[m] # c
      BY DEF Tables, LivingInv
    <2>2. client'[c] = Cleared /\ \A x \in Client \ {c} : client'[x] = client[x]
      BY <1>0, <1>7 DEF TimeoutLiving, Recycle
    <2>3. Calm({c}) /\ SameQueue(client'[c], Cleared)
      BY <2>2 DEF Calm, SameQueue
    <2>4. living'[a] = None /\ \A m \in Id \ {a} : living'[m] = living[m]
      BY <1>7, <2>1 DEF TimeoutLiving, Erase
    <2>5. resolving = None /\ resolving' = None /\ UNCHANGED <<pend, issued>>
      BY <1>7 DEF TimeoutLiving, TimedOut
    <2>6. \A m \in Id : Holder(m) = living[m] /\ Holder(m)' = living'[m]
      <3>1. resolving = None /\ resolving' = None
        BY <2>5
      <3> QED  BY <3>1 DEF Holder
    <2>7. StepLose(c, a)
      BY <2>1, <2>3, <2>4, <2>6 DEF StepLose, HolderBecomes
    <2> QED  BY <2>1, <2>4, <2>5, <2>7
  <1>8. ASSUME NEW ev \in Signals, FinishReconnect(ev)
        PROVE  (\E o \in Client : StepClear(o)) /\ OnlineSame /\ UNCHANGED <<pend, issued>>
    <2> PICK c \in Client, a \in Id, o \in Client :
          c = resolving /\ a = client[c].ademco_id /\ o = living[a]
      BY <1>8 DEF FinishReconnect, TypeOK, Tables, ResolvingInv
    <2>1. o # c /\ client[o].ademco_id = a /\ \A m \in Id \ {a} : living[m] # o
      <3>1. c \in outstanding /\ living[a] # None
        BY DEF Tables, ResolvingInv
      <3> QED  BY <3>1 DEF Tables, OutstandingInv, LivingInv
    <2>2. Recycle(o) \in [Client -> ClientData]
      BY ClearedType DEF Recycle, TypeOK
    <2>3. client' = Signal(Recycle(o), rccc[a], ev)
      BY <1>8 DEF FinishReconnect
    <2>4. \A x \in Client : SameQueue(client'[x], Recycle(o)[x])
      BY <2>2, <2>3, SignalQueues
    <2>5. Calm({o}) /\ SameQueue(client'[o], Cleared)
      BY <1>0, <2>4 DEF Recycle, Calm
    <2>6. living'[a] = c /\ \A m \in Id \ {a} : living'[m] = living[m]
      BY <1>8, <2>1 DEF FinishReconnect, Erase
    <2>7. resolving' = None /\ UNCHANGED <<pend, issued>>
      BY <1>8 DEF FinishReconnect
    <2>8. Holder(a) = c /\ \A m \in Id \ {a} : Holder(m) = living[m]
      BY DEF Holder
    <2>9. HoldersSame /\ Nobodys(o)
      BY <2>1, <2>6, <2>7, <2>8 DEF HoldersSame, Nobodys, Holder
    <2>10. StepClear(o) /\ OnlineSame
      BY <2>5, <2>6, <2>9 DEF StepClear, OnlineSame
    <2> QED  BY <2>7, <2>10
  <1>9. ASSUME NEW u \in Sender, AddTask(u)
        PROVE  StepAdd(u) /\ OnlineSame /\ UNCHANGED issued
    <2> DEFINE p == pend[u]
               late == p.client # Holder(p.id)
               q == Enqueue(client[p.client], p.n, p.id, late)
    <2>1. p.client \in Client /\ p # None
      BY <1>9 DEF AddTask, TypeOK
    <2>2. client' = [client EXCEPT ![p.client] = q]
      BY <1>9 DEF AddTask
    <2>3. Queues(q, client[p.client], p.n, p.id, late) /\ SameFields(q, client[p.client])
      BY <1>0, <2>1, EnqueueQueue, QueueFields
    <2> HIDE DEF q
    <2>4. client'[p.client] = q /\ \A x \in Client \ {p.client} : client'[x] = client[x]
      BY <1>0, <2>1, <2>2
    <2>5. \A x \in Client : client'[x].ademco_id = client[x].ademco_id
      BY <2>3, <2>4 DEF SameFields
    <2>6. HoldersSame
      BY <1>9, <2>5, HoldersKept DEF AddTask
    <2>7. Calm({p.client})
      BY <2>4 DEF Calm, SameQueue
    <2> QED  BY <1>9, <2>1, <2>3, <2>4, <2>6, <2>7 DEF StepAdd, OnlineSame, AddTask
  <1>10. ASSUME NEW u \in Sender, NEW m \in Id, FindClient(u, m)
         PROVE  StepIdle /\ OnlineSame
    BY <1>10, HoldersKept DEF FindClient, StepIdle, Calm, SameQueue, OnlineSame
  <1>11. ASSUME NEW m \in Valid, DeleteMachine(m)
         PROVE  StepIdle /\ OnlineSame /\ UNCHANGED <<pend, issued>>
    <2>1. \A r \in ClientData : /\ SameQueue([r EXCEPT !.wait_to_kill = TRUE], r)
                                /\ [r EXCEPT !.wait_to_kill = TRUE].ademco_id = r.ademco_id
      BY DEF SameQueue, ClientData
    <2>2. Calm({}) /\ \A x \in Client : client'[x].ademco_id = client[x].ademco_id
      BY <1>0, <1>11, <2>1 DEF DeleteMachine, Calm, SameQueue
    <2>3. HoldersSame
      BY <1>11, <2>2, HoldersKept DEF DeleteMachine
    <2> QED  BY <1>11, <2>2, <2>3 DEF StepIdle, OnlineSame, DeleteMachine
  <1>12. CASE UNCHANGED vars
    <2>1. HoldersSame
      BY <1>12, HoldersKept DEF vars
    <2> QED  BY <1>12, <2>1 DEF vars, StepIdle, Calm, SameQueue, OnlineSame
  <1> QED  BY <1>1, <1>2, <1>3, <1>4, <1>5, <1>6, <1>7, <1>8, <1>9, <1>10,
              <1>11, <1>12 DEF Next, RecvThread, UserThreads

-----------------------------------------------------------------------------
(* Tasks are at home, and in the order of their sequence numbers.          *)

\* What TaskHome says of one object; h is the holder of a machine.
AtHome(r, c) == \A i \in 1 .. Len(r.taskList) :
    ~r.taskList[i].late => c = Holder(r.taskList[i].id) /\ r.has_data_to_send

\* A task that was not late when it was queued is followed by the next sequence
\* number, of a task or of the object.
Chained(r) ==
    LET q == r.taskList
    IN  /\ \A i \in 1 .. Len(q) - 1 : q[i].late \/ q[i + 1].seq = NextSeq(q[i].seq)
        /\ q # <<>> => q[Len(q)].late \/ r.cur_seq = NextSeq(q[Len(q)].seq)

AllLate(r) == \A i \in 1 .. Len(r.taskList) : r.taskList[i].late

QueueInv == \A c \in Client : AtHome(client[c], c) /\ Chained(client[c])

LEMMA QueueImplies == TypeOK /\ QueueInv => TaskHome /\ SeqConsecutive
  <1> SUFFICES ASSUME TypeOK, QueueInv PROVE TaskHome /\ SeqConsecutive
    OBVIOUS
  <1>1. \A c \in Client : DOMAIN client[c].taskList = 1 .. Len(client[c].taskList)
    BY DEF TypeOK, ClientData
  <1>2. TaskHome
    BY <1>1 DEF QueueInv, AtHome, TaskHome
  <1>3. ASSUME NEW c \in Client, \A i \in DOMAIN client[c].taskList :
                                   ~client[c].taskList[i].late
        PROVE  Orderly(client[c])
    <2> DEFINE q == client[c].taskList
    <2>1. q \in Seq(Task)
      BY DEF TypeOK, ClientData
    <2>2. \A i \in 1 .. Len(q) - 1 : i \in DOMAIN q
      BY <1>1, <2>1
    <2>3. q # <<>> => Len(q) \in DOMAIN q
      BY <1>1, <2>1
    <2> QED  BY <1>3, <2>2, <2>3 DEF QueueInv, Chained, Orderly
  <1>4. SeqConsecutive
    BY <1>3 DEF SeqConsecutive
  <1> QED  BY <1>2, <1>4

\* An empty queue.
LEMMA EmptyQueue ==
  ASSUME NEW r, r.taskList = <<>>, NEW c
  PROVE  AtHome(r, c) /\ Chained(r) /\ AllLate(r)
  <1>1. Len(r.taskList) = 0
    OBVIOUS
  <1> QED  BY <1>1 DEF AtHome, Chained, AllLate

\* The same queue.
LEMMA SameChained ==
  ASSUME NEW r, NEW q, SameQueue(r, q)
  PROVE  /\ Chained(q) => Chained(r)
         /\ AllLate(q) => AllLate(r)
  BY DEF SameQueue, Chained, AllLate

\* One task less.
LEMMA DroppedChained ==
  ASSUME NEW q \in ClientData, NEW r, Dropped(r, q)
  PROVE  /\ Chained(q) => Chained(r)
         /\ AllLate(q) => AllLate(r)
         /\ \A i \in 1 .. Len(r.taskList) :
              /\ i + 1 \in 1 .. Len(q.taskList)
              /\ r.taskList[i] = q.taskList[i + 1]
         /\ r.taskList # <<>> => r.has_data_to_send
  <1> DEFINE s == q.taskList
             t == r.taskList
  <1>1. s \in Seq(Task) /\ s # <<>> /\ t = Tail(s) /\ r.cur_seq = q.cur_seq
    BY DEF Dropped, HasFirst, ClientData
  <1>2. /\ Len(s) \in Nat /\ Len(s) >= 1 /\ Len(t) = Len(s) - 1
        /\ \A i \in 1 .. Len(t) : t[i] = s[i + 1]
    BY <1>1
  <1>3. t # <<>> => Len(t) >= 1
    BY <1>1, <1>2
  <1> HIDE DEF s, t
  <1>4. \A i \in 1 .. Len(t) : i + 1 \in 1 .. Len(s) /\ t[i] = s[i + 1]
    BY <1>2
  <1>5. ASSUME Chained(q) PROVE Chained(r)
    <2>1. ASSUME NEW i \in 1 .. Len(t) - 1 PROVE t[i].late \/ t[i + 1].seq = NextSeq(t[i].seq)
      <3>1. i + 1 \in 1 .. Len(s) - 1 /\ i \in 1 .. Len(t) /\ i + 1 \in 1 .. Len(t)
        BY <1>2
      <3>2. s[i + 1].late \/ s[(i + 1) + 1].seq = NextSeq(s[i + 1].seq)
        BY <1>5, <3>1 DEF Chained, s
      <3> QED  BY <1>2, <3>1, <3>2
    <2>2. ASSUME t # <<>> PROVE t[Len(t)].late \/ r.cur_seq = NextSeq(t[Len(t)].seq)
      <3>1. t[Len(t)] = s[Len(s)]
        BY <1>2, <1>3, <2>2
      <3>2. s[Len(s)].late \/ q.cur_seq = NextSeq(s[Len(s)].seq)
        BY <1>1, <1>5 DEF Chained, s
      <3> QED  BY <1>1, <3>1, <3>2
    <2> QED  BY <2>1, <2>2 DEF Chained, t
  <1>6. AllLate(q) => AllLate(r)
    BY <1>4 DEF AllLate, s, t
  <1>7. t # <<>> => r.has_data_to_send
    <2>1. t # <<>> => Len(s) > 1
      BY <1>2, <1>3
    <2> QED  BY <2>1 DEF Dropped, s
  <1> QED  BY <1>4, <1>5, <1>6, <1>7 DEF s, t

\* The list of r is that of q and x behind it, or those of p and q.
Longer(r, q, x) ==
  /\ Len(r.taskList) = Len(q.taskList) + 1
  /\ \A i \in 1 .. Len(q.taskList) : r.taskList[i] = q.taskList[i]
  /\ r.taskList[Len(q.taskList) + 1] = x

Joined(r, p, q) ==
  /\ Len(r.taskList) = Len(p.taskList) + Len(q.taskList)
  /\ \A i \in 1 .. Len(p.taskList) : r.taskList[i] = p.taskList[i]
  /\ \A i \in 1 .. Len(q.taskList) :
        r.taskList[Len(p.taskList) + i] = q.taskList[i]

\* One task more, which takes the object's sequence number.
LEMMA QueuedChained ==
  ASSUME NEW q \in ClientData, NEW r, NEW n, NEW m, NEW late,
         Queues(r, q, n, m, late)
  PROVE  /\ Chained(q) => Chained(r)
         /\ Longer(r, q, NewTask(q, n, m, late))
         /\ r.has_data_to_send
  <1> DEFINE s == q.taskList
             t == r.taskList
             x == NewTask(q, n, m, late)
             l == Len(s)
  <1>1. s \in Seq(Task) /\ t = Append(s, x) /\ r.cur_seq = NextSeq(q.cur_seq)
    BY DEF Queues, ClientData
  <1>2. /\ l \in Nat /\ Len(t) = l + 1
        /\ \A i \in 1 .. l : t[i] = s[i]
        /\ t[l + 1] = x
    BY <1>1
  <1>3. x.seq = q.cur_seq
    BY DEF NewTask
  <1>4. l # 0 => s # <<>>
    BY <1>1
  <1> HIDE DEF s, t, x, l
  <1>5. ASSUME Chained(q) PROVE Chained(r)
    <2>1. ASSUME NEW i \in 1 .. l PROVE t[i].late \/ t[i + 1].seq = NextSeq(t[i].seq)
      <3>1. CASE i = l
        <4>1. s # <<>> /\ t[i] = s[l] /\ t[i + 1] = x
          BY <1>2, <1>4, <2>1, <3>1
        <4>2. s[l].late \/ q.cur_seq = NextSeq(s[l].seq)
          BY <1>5, <4>1 DEF Chained, s, l
        <4> QED  BY <1>3, <4>1, <4>2
      <3>2. CASE i # l
        <4>1. i \in 1 .. l - 1 /\ i + 1 \in 1 .. l
          BY <1>2, <3>2
        <4>2. s[i].late \/ s[i + 1].seq = NextSeq(s[i].seq)
          BY <1>5, <4>1 DEF Chained, s, l
        <4> QED  BY <1>2, <4>1, <4>2
      <3> QED  BY <3>1, <3>2
    <2>2. Len(t) - 1 = l
      BY <1>2
    <2>3. r.cur_seq = NextSeq(t[Len(t)].seq)
      BY <1>1, <1>2, <1>3
    <2> QED  BY <2>1, <2>2, <2>3 DEF Chained, t
  <1>6. r.has_data_to_send
    BY DEF Queues
  <1> QED  BY <1>2, <1>5, <1>6 DEF Longer, s, t, x, l

\* A task sent keeps its place, its sequence number and its lateness.
LEMMA MarkedChained ==
  ASSUME NEW q \in ClientData, NEW r, HasFirst(q), Marked(r, q)
  PROVE  /\ Chained(q) => Chained(r)
         /\ Len(r.taskList) = Len(q.taskList)
         /\ \A i \in 1 .. Len(q.taskList) :
              /\ r.taskList[i].late <=> q.taskList[i].late
              /\ r.taskList[i].id = q.taskList[i].id
              /\ r.taskList[i].n = q.taskList[i].n
  <1> DEFINE s == q.taskList
             t == r.taskList
  <1>1. s \in Seq(Task) /\ s # <<>> /\ t = [s EXCEPT ![1] = Sent(@)] /\ r.cur_seq = q.cur_seq
    BY DEF Marked, HasFirst, ClientData
  <1>2. \A x \in Task : /\ Sent(x).late <=> x.late
                        /\ Sent(x).id = x.id /\ Sent(x).seq = x.seq /\ Sent(x).n = x.n
    BY DEF Sent, Task
  <1>3. Len(t) = Len(s) /\ Len(s) \in Nat /\ \A i \in 1 .. Len(s) :
           s[i] \in Task /\ t[i] = IF i = 1 THEN Sent(s[i]) ELSE s[i]
    BY <1>1
  <1>4. \A i \in 1 .. Len(s) : /\ t[i].late <=> s[i].late
                               /\ t[i].id = s[i].id /\ t[i].seq = s[i].seq /\ t[i].n = s[i].n
    BY <1>2, <1>3
  <1>5. t # <<>> => s # <<>> /\ Len(s) \in 1 .. Len(s)
    BY <1>1
  <1> HIDE DEF s, t
  <1>6. ASSUME Chained(q) PROVE Chained(r)
    <2>1. \A i \in 1 .. Len(s) - 1 : i \in 1 .. Len(s) /\ i + 1 \in 1 .. Len(s)
      BY <1>3
    <2>2. \A i \in 1 .. Len(s) - 1 : s[i].late \/ s[i + 1].seq = NextSeq(s[i].seq)
      BY <1>6 DEF Chained, s
    <2>3. \A i \in 1 .. Len(t) - 1 : t[i].late \/ t[i + 1].seq = NextSeq(t[i].seq)
      BY <1>3, <1>4, <2>1, <2>2
    <2>4. t # <<>> => t[Len(t)].late \/ r.cur_seq = NextSeq(t[Len(t)].seq)
      <3>1. s # <<>> => s[Len(s)].late \/ q.cur_seq = NextSeq(s[Len(s)].seq)
        BY <1>6 DEF Chained, s
      <3> QED  BY <1>1, <1>3, <1>4, <1>5, <3>1
    <2> QED  BY <2>3, <2>4 DEF Chained, t
  <1> QED  BY <1>3, <1>4, <1>6 DEF s, t

\* The queue of an old connection behind late tasks of the new one.
LEMMA MovedChained ==
  ASSUME NEW p \in ClientData, NEW q \in ClientData, NEW r, Moved(r, p, q), AllLate(p)
  PROVE  /\ Chained(q) => Chained(r)
         /\ Joined(r, p, q)
  <1> DEFINE s == p.taskList
             t == q.taskList
             u == r.taskList
             k == Len(s)
             l == Len(t)
  <1>1. s \in Seq(Task) /\ t \in Seq(Task) /\ u = s \o t /\ r.cur_seq = q.cur_seq
    BY DEF Moved, ClientData
  <1>2. /\ k \in Nat /\ l \in Nat /\ Len(u) = k + l
        /\ \A i \in 1 .. k : u[i] = s[i]
        /\ \A i \in k + 1 .. k + l : u[i] = t[i - k]
    <2> HIDE DEF s, t, u
    <2>1. Len(s \o t) = Len(s) + Len(t) /\ Len(s) \in Nat /\ Len(t) \in Nat
      BY <1>1, ConcatProperties
    <2>2. \A i \in 1 .. k + l : (s \o t)[i] = IF i <= k THEN s[i] ELSE t[i - k]
      BY <1>1, ConcatProperties
    <2> HIDE DEF k, l
    <2> QED  BY <1>1, <2>1, <2>2 DEF k, l
  <1>3. t = <<>> <=> l = 0
    BY <1>1
  <1>4. u = <<>> <=> k + l = 0
    <2> HIDE DEF s, t, u, k, l
    <2>1. u \in Seq(Task)
      BY <1>1, ConcatProperties
    <2> QED  BY <1>2, <2>1, EmptySeq
  <1>5. \A i \in 1 .. k : u[i].late
    BY <1>2 DEF AllLate
  <1> HIDE DEF s, t, u, k, l
  <1>6. ASSUME NEW i \in 1 .. l PROVE u[k + i] = t[i]
    <2>1. k + i \in k + 1 .. k + l /\ (k + i) - k = i
      BY <1>2
    <2> QED  BY <1>2, <2>1
  <1>7. ASSUME Chained(q) PROVE Chained(r)
    <2>1. ASSUME NEW i \in 1 .. (k + l) - 1 PROVE u[i].late \/ u[i + 1].seq = NextSeq(u[i].seq)
      <3>1. CASE i \in 1 .. k
        BY <1>5, <3>1
      <3>2. CASE i \notin 1 .. k
        <4>1. i - k \in 1 .. l - 1 /\ i - k \in 1 .. l /\ (i - k) + 1 \in 1 .. l
              /\ k + (i - k) = i /\ k + ((i - k) + 1) = i + 1
          BY <1>2, <3>2
        <4>2. t[i - k].late \/ t[(i - k) + 1].seq = NextSeq(t[i - k].seq)
          BY <1>7, <4>1 DEF Chained, t, l
        <4>3. u[k + (i - k)] = t[i - k] /\ u[k + ((i - k) + 1)] = t[(i - k) + 1]
          BY <1>6, <4>1
        <4> QED  BY <4>1, <4>2, <4>3
      <3> QED  BY <3>1, <3>2
    <2>2. ASSUME u # <<>> PROVE u[k + l].late \/ r.cur_seq = NextSeq(u[k + l].seq)
      <3>1. CASE l = 0
        <4>1. k + l \in 1 .. k
          BY <1>2, <1>4, <2>2, <3>1
        <4> QED  BY <1>5, <4>1
      <3>2. CASE l # 0
        <4>1. l \in 1 .. l /\ t # <<>>
          BY <1>2, <1>3, <3>2
        <4>2. t[l].late \/ q.cur_seq = NextSeq(t[l].seq)
          BY <1>7, <4>1 DEF Chained, t, l
        <4> QED  BY <1>1, <1>6, <4>1, <4>2
      <3> QED  BY <3>1, <3>2
    <2> QED  BY <1>2, <2>1, <2>2 DEF Chained, u
  <1> QED  BY <1>2, <1>6, <1>7 DEF Joined, s, t, u, k, l

\* The machines of the tasks.
LEMMA TaskIds ==
  ASSUME TypeOK
  PROVE  \A c \in Client : \A i \in 1 .. Len(client[c].taskList) :
           client[c].taskList[i] \in Task /\ client[c].taskList[i].id \in Id
  <1>1. \A c \in Client : client[c].taskList \in Seq(Task)
    BY DEF TypeOK, ClientData
  <1>2. \A c \in Client : \A i \in 1 .. Len(client[c].taskList) :
          client[c].taskList[i] \in Task
    BY <1>1
  <1>3. \A t \in Task : t.id \in Id
    BY DEF Task
  <1> QED  BY <1>2, <1>3

\* The tasks of an object that is no machine's are late.
LEMMA NobodysLate ==
  ASSUME TypeOK, QueueInv, NEW c \in Client, Nobodys(c)
  PROVE  AllLate(client[c])
  <1>1. \A i \in 1 .. Len(client[c].taskList) : client[c].taskList[i].id \in Id
    BY TaskIds
  <1> QED  BY <1>1 DEF AllLate, QueueInv, AtHome, Nobodys

LEMMA BehindLate ==
  ASSUME NEW q \in ClientData, NEW r, Behind(r, q), AllLate(q)
  PROVE  AllLate(r)
  BY SameChained, DroppedChained DEF Behind

\* What makes the tasks of an object be at home in the next state.
LEMMA HomeNext ==
  ASSUME NEW x \in Client,
         \A i \in 1 .. Len(client'[x].taskList) : \A m :
            ~client'[x].taskList[i].late /\ m = client'[x].taskList[i].id
              => Holder(m)' = x /\ client'[x].has_data_to_send
  PROVE  AtHome(client[x], x)'
  BY DEF AtHome

LEMMA HomeNow ==
  ASSUME TypeOK, QueueInv, NEW x \in Client, NEW i \in 1 .. Len(client[x].taskList),
         ~client[x].taskList[i].late
  PROVE  /\ Holder(client[x].taskList[i].id) = x
         /\ client[x].has_data_to_send
         /\ client[x].taskList[i].id \in Id
  BY TaskIds DEF QueueInv, AtHome

LEMMA EmptyNext ==
  ASSUME NEW x \in Client, client'[x].taskList = <<>>
  PROVE  AtHome(client[x], x)' /\ Chained(client'[x])
  <1>1. Len(client'[x].taskList) = 0
    OBVIOUS
  <1> QED  BY <1>1 DEF AtHome, Chained

\* An object whose queue stays, when the machines that it holds stay.
LEMMA CalmHome ==
  ASSUME TypeOK, QueueInv, NEW x \in Client, SameQueue(client'[x], client[x]),
         \A m \in Id : Holder(m) = x => Holder(m)' = x
  PROVE  AtHome(client[x], x)' /\ Chained(client'[x])
  <1>1. \A i \in 1 .. Len(client[x].taskList) : client[x].taskList[i].id \in Id
    BY TaskIds
  <1>2. AtHome(client[x], x) /\ Chained(client[x])
    BY DEF QueueInv
  <1>3. Chained(client'[x])
    BY <1>2, SameChained
  <1>4. AtHome(client[x], x)'
    BY <1>1, <1>2 DEF AtHome, SameQueue
  <1> QED  BY <1>3, <1>4

\* Each of the steps keeps tasks at home and chained.
LEMMA QueueKept ==
  ASSUME ~MayReaddress, TypeOK, TypeOK', Tables, Tables', QueueInv, [Next]_vars
  PROVE  QueueInv'
  <1> USE NoneAssumption
  <1>0. \A c \in Client : client[c] \in ClientData /\ client'[c] \in ClientData
                          /\ AtHome(client[c], c) /\ Chained(client[c])
    BY DEF TypeOK, QueueInv
  <1>a. \A c \in Client : \A i \in 1 .. Len(client[c].taskList) :
                            client[c].taskList[i].id \in Id
    BY TaskIds
  <1> SUFFICES ASSUME NEW x \in Client
               PROVE  AtHome(client[x], x)' /\ Chained(client'[x])
    BY DEF QueueInv
  <1>1. CASE StepIdle
    BY <1>1, CalmHome DEF StepIdle, Calm, HoldersSame
  <1>2. ASSUME NEW c \in Client, StepDrop(c) \/ StepMark(c)
        PROVE  AtHome(client[x], x)' /\ Chained(client'[x])
    <2>1. HoldersSame /\ Calm({c})
      BY <1>2 DEF StepDrop, StepMark
    <2>2. CASE x # c
      BY <2>1, <2>2, CalmHome DEF Calm, HoldersSame
    <2>3. CASE x = c /\ StepDrop(c)
      <3>1. Dropped(client'[x], client[x])
        BY <2>3 DEF StepDrop
      <3>2. /\ Chained(client'[x])
            /\ \A i \in 1 .. Len(client'[x].taskList) :
                 /\ i + 1 \in 1 .. Len(client[x].taskList)
                 /\ client'[x].taskList[i] = client[x].taskList[i + 1]
            /\ client'[x].taskList # <<>> => client'[x].has_data_to_send
        BY <1>0, <3>1, DroppedChained
      <3>3. \A i \in 1 .. Len(client'[x].taskList) : client'[x].taskList # <<>>
        OBVIOUS
      <3>4. AtHome(client[x], x)'
        <4> SUFFICES ASSUME NEW i \in 1 .. Len(client'[x].taskList), NEW m,
                            ~client'[x].taskList[i].late, m = client'[x].taskList[i].id
                     PROVE  Holder(m)' = x /\ client'[x].has_data_to_send
          BY HomeNext
        <4>1. Holder(m) = x /\ m \in Id
          BY <3>2, HomeNow
        <4> QED  BY <2>1, <3>2, <3>3, <4>1 DEF HoldersSame
      <3> QED  BY <3>2, <3>4
    <2>4. CASE x = c /\ StepMark(c)
      <3>1. Marked(client'[x], client[x]) /\ HasFirst(client[x])
        BY <2>4 DEF StepMark
      <3>2. /\ Chained(client'[x])
            /\ Len(client'[x].taskList) = Len(client[x].taskList)
            /\ \A i \in 1 .. Len(client[x].taskList) :
                 /\ client'[x].taskList[i].late <=> client[x].taskList[i].late
                 /\ client'[x].taskList[i].id = client[x].taskList[i].id
        BY <1>0, <3>1, MarkedChained
      <3>3. client'[x].has_data_to_send <=> client[x].has_data_to_send
        BY <3>1 DEF Marked
      <3>4. AtHome(client[x], x)'
        BY <1>0, <1>a, <2>1, <3>2, <3>3 DEF AtHome, HoldersSame
      <3> QED  BY <3>2, <3>4
    <2> QED  BY <1>2, <2>2, <2>3, <2>4
  <1>3. ASSUME NEW c \in Client, StepClear(c)
        PROVE  AtHome(client[x], x)' /\ Chained(client'[x])
    <2>1. HoldersSame /\ Calm({c}) /\ client'[c].taskList = <<>>
      BY <1>3 DEF StepClear, SameQueue, Cleared
    <2>2. CASE x # c
      BY <2>1, <2>2, CalmHome DEF Calm, HoldersSame
    <2>3. CASE x = c
      BY <2>1, <2>3, EmptyNext
    <2> QED  BY <2>2, <2>3
  <1>4. ASSUME NEW c \in Client, NEW a \in Id, StepFirst(c, a)
        PROVE  AtHome(client[x], x)' /\ Chained(client'[x])
    <2>1. HolderBecomes(a, c) /\ Holder(a) = None /\ Calm({c}) /\ Nobodys(c)
      BY <1>4 DEF StepFirst
    <2>2. CASE x # c
      BY <2>1, <2>2, CalmHome DEF Calm, HolderBecomes
    <2>3. CASE x = c
      <3> PICK r \in ClientData : Behind(r, client[c]) /\ Queues(client'[c], r, 0, a, FALSE)
        BY <1>4 DEF StepFirst
      <3>1. AllLate(r)
        BY <1>0, <2>1, NobodysLate, BehindLate
      <3>2. Chained(r)
        BY <1>0, SameChained, DroppedChained DEF Behind
      <3>3. /\ Chained(client'[c])
            /\ Len(client'[c].taskList) = Len(r.taskList) + 1
            /\ \A i \in 1 .. Len(r.taskList) : client'[c].taskList[i] = r.taskList[i]
            /\ client'[c].taskList[Len(r.taskList) + 1] = NewTask(r, 0, a, FALSE)
            /\ client'[c].has_data_to_send
        <4>1. Queues(client'[c], r, 0, a, FALSE) /\ r \in ClientData
          OBVIOUS
        <4>2. Chained(client'[c]) /\ client'[c].has_data_to_send
          BY <3>2, <4>1, QueuedChained
        <4>3. Longer(client'[c], r, NewTask(r, 0, a, FALSE))
          BY <4>1, QueuedChained
        <4> QED  BY <4>2, <4>3 DEF Longer
      <3>4. Len(r.taskList) \in Nat
        BY DEF ClientData
      <3>5. NewTask(r, 0, a, FALSE).id = a
        BY DEF NewTask
      <3>6. ASSUME NEW i \in 1 .. Len(client'[c].taskList), ~client'[c].taskList[i].late
            PROVE  client'[c].taskList[i].id = a
        <4>1. i \in 1 .. Len(r.taskList) \/ i = Len(r.taskList) + 1
          BY <3>3, <3>4
        <4> QED  BY <3>1, <3>3, <3>5, <3>6, <4>1 DEF AllLate
      <3>7. AtHome(client[c], c)'
        BY <2>1, <3>3, <3>6 DEF AtHome, HolderBecomes
      <3> QED  BY <2>3, <3>3, <3>7
    <2> QED  BY <2>2, <2>3
  <1>5. ASSUME NEW c \in Client, NEW o \in Client, NEW a \in Id, StepMove(c, o, a)
        PROVE  AtHome(client[x], x)' /\ Chained(client'[x])
    <2>1. /\ HolderBecomes(a, c) /\ Holder(a) = o /\ c # o
          /\ Calm({c, o}) /\ Nobodys(c) /\ \A m \in Id \ {a} : Holder(m) # o
          /\ client'[o].taskList = <<>>
      BY <1>5 DEF StepMove
    <2>2. CASE x \notin {c, o}
      BY <2>1, <2>2, CalmHome DEF Calm, HolderBecomes
    <2>3. CASE x = c
      <3> PICK r \in ClientData : Behind(r, client[c]) /\ Moved(client'[c], r, client[o])
        BY <1>5 DEF StepMove
      <3>1. AllLate(r)
        BY <1>0, <2>1, NobodysLate, BehindLate
      <3> DEFINE k == Len(r.taskList)
                 l == Len(client[o].taskList)
      <3>2. /\ Chained(client'[c])
            /\ Len(client'[c].taskList) = k + l
            /\ \A i \in 1 .. k : client'[c].taskList[i] = r.taskList[i]
            /\ \A i \in 1 .. l : client'[c].taskList[k + i] = client[o].taskList[i]
        <4>1. Moved(client'[c], r, client[o]) /\ r \in ClientData
          OBVIOUS
        <4>2. client[o] \in ClientData /\ Chained(client[o])
          BY <1>0
        <4>3. Chained(client'[c])
          BY <3>1, <4>1, <4>2, MovedChained
        <4>4. Joined(client'[c], r, client[o])
          BY <3>1, <4>1, <4>2, MovedChained
        <4> QED  BY <4>3, <4>4 DEF Joined
      <3>3. k \in Nat /\ l \in Nat
        BY <1>0 DEF ClientData
      <3>4. client'[c].has_data_to_send <=> client[o].has_data_to_send
        BY DEF Moved
      <3>5. ASSUME NEW i \in 1 .. Len(client'[c].taskList), ~client'[c].taskList[i].late
            PROVE  client'[c].taskList[i].id = a /\ client'[c].has_data_to_send
        <4>1. i \notin 1 .. k
          BY <3>1, <3>2, <3>5 DEF AllLate
        <4>2. i - k \in 1 .. l /\ k + (i - k) = i
          <5> HIDE DEF k, l
          <5>1. i \in 1 .. k + l
            BY <3>2
          <5> QED  BY <3>3, <4>1, <5>1
        <4>3. client'[c].taskList[i] = client[o].taskList[i - k]
          BY <3>2, <4>2
        <4>4. /\ o = Holder(client[o].taskList[i - k].id)
              /\ client[o].has_data_to_send
              /\ client[o].taskList[i - k].id \in Id
          BY <1>0, <1>a, <3>5, <4>2, <4>3 DEF AtHome
        <4> QED  BY <2>1, <3>4, <4>3, <4>4
      <3>6. AtHome(client[c], c)'
        BY <2>1, <3>5 DEF AtHome, HolderBecomes
      <3> QED  BY <2>3, <3>2, <3>6
    <2>4. CASE x = o
      BY <2>1, <2>4, EmptyNext
    <2> QED  BY <2>2, <2>3, <2>4
  <1>6. ASSUME NEW c \in Client, NEW a \in Id, StepLose(c, a)
        PROVE  AtHome(client[x], x)' /\ Chained(client'[x])
    <2>1. /\ HolderBecomes(a, None) /\ Holder(a) = c /\ Calm({c})
          /\ client'[c].taskList = <<>>
      BY <1>6 DEF StepLose, SameQueue, Cleared
    <2>2. CASE x # c
      BY <2>1, <2>2, CalmHome DEF Calm, HolderBecomes
    <2>3. CASE x = c
      BY <2>1, <2>3, EmptyNext
    <2> QED  BY <2>2, <2>3
  <1>7. ASSUME NEW u \in Sender, StepAdd(u)
        PROVE  AtHome(client[x], x)' /\ Chained(client'[x])
    <2> PICK c \in Client, m \in Id, n \in Nat :
          c = pend[u].client /\ m = pend[u].id /\ n = pend[u].n
      BY <1>7 DEF StepAdd, TypeOK
    <2>1. HoldersSame /\ Calm({c})
      BY <1>7 DEF StepAdd
    <2>2. CASE x # c
      BY <2>1, <2>2, CalmHome DEF Calm, HoldersSame
    <2>3. CASE x = c
      <3> DEFINE late == c # Holder(m)
      <3>1. Queues(client'[c], client[c], n, m, late)
        BY <1>7 DEF StepAdd
      <3> DEFINE l == Len(client[c].taskList)
      <3>2. /\ Chained(client'[c])
            /\ Len(client'[c].taskList) = l + 1
            /\ \A i \in 1 .. l : client'[c].taskList[i] = client[c].taskList[i]
            /\ client'[c].taskList[l + 1] = NewTask(client[c], n, m, late)
            /\ client'[c].has_data_to_send
        <4>2. client[c] \in ClientData /\ Chained(client[c])
          BY <1>0
        <4>3. Chained(client'[c]) /\ client'[c].has_data_to_send
          BY <3>1, <4>2, QueuedChained
        <4>4. Longer(client'[c], client[c], NewTask(client[c], n, m, late))
          BY <3>1, <4>2, QueuedChained
        <4> QED  BY <4>3, <4>4 DEF Longer
      <3>3. l \in Nat
        BY <1>0 DEF ClientData
      <3>4. /\ NewTask(client[c], n, m, late).id = m
            /\ NewTask(client[c], n, m, late).late <=> c # Holder(m)
        BY DEF NewTask
      <3>5. ASSUME NEW i \in 1 .. Len(client'[c].taskList), ~client'[c].taskList[i].late
            PROVE  c = Holder(client'[c].taskList[i].id) /\ client'[c].taskList[i].id \in Id
        <4>1. CASE i \in 1 .. l
          <5>1. client'[c].taskList[i] = client[c].taskList[i]
            BY <3>2, <4>1
          <5>2. i \in 1 .. Len(client[c].taskList) /\ ~client[c].taskList[i].late
            BY <3>5, <4>1, <5>1
          <5>3. Holder(client[c].taskList[i].id) = c /\ client[c].taskList[i].id \in Id
            BY <5>2, HomeNow
          <5> QED  BY <5>1, <5>3
        <4>2. CASE i = l + 1
          <5>1. client'[c].taskList[i] = NewTask(client[c], n, m, late)
            BY <3>2, <4>2
          <5> HIDE DEF late
          <5> QED  BY <3>4, <3>5, <5>1
        <4>3. i \in 1 .. l + 1
          BY <3>2
        <4>4. i \in 1 .. l \/ i = l + 1
          <5> HIDE DEF l
          <5> QED  BY <3>3, <4>3
        <4> QED  BY <4>1, <4>2, <4>4
      <3>6. AtHome(client[c], c)'
        BY <2>1, <3>2, <3>5 DEF AtHome, HoldersSame
      <3> QED  BY <2>3, <3>2, <3>6
    <2> QED  BY <2>2, <2>3
  <1> QED  BY <1>1, <1>2, <1>3, <1>4, <1>5, <1>6, <1>7, QueueSteps

\* Tables for hosts that keep their id, from the start.
LEMMA TablesAlways == ~MayReaddress => (Spec => []Tables)
  <1> SUFFICES ASSUME ~MayReaddress PROVE Spec => []Tables
    OBVIOUS
  <1>1. Init => Tables
    BY NoneAssumption DEF Init, Tables, PoolInv, OutstandingInv, LivingInv,
       ResolvingInv, Polled, Blank, Cleared
  <1>2. TypeOK /\ TypeOK' /\ Tables /\ [Next]_vars => Tables'
    BY TablesStep
  <1> QED  BY <1>1, <1>2, Typing, PTL DEF Spec

\* The queues stay what the senders may rely on, as long as hosts keep their ids,
\* over reconnects, losses and commands queued on connections that are gone.
LEMMA QueuesAlways == ~MayReaddress => (Spec => []QueueInv)
  <1> SUFFICES ASSUME ~MayReaddress PROVE Spec => []QueueInv
    OBVIOUS
  <1>1. Init => QueueInv
    BY EmptyQueue DEF Init, Cleared, QueueInv
  <1>2. TypeOK /\ TypeOK' /\ Tables /\ Tables' /\ QueueInv /\ [Next]_vars => QueueInv'
    BY QueueKept
  <1> QED  BY <1>1, <1>2, Typing, TablesAlways, PTL DEF Spec

\* A command that was queued on the connection of its machine stays on the
\* connection of that machine, with the flag up that lets the sender look at it,
\* for any number of hosts, connections, senders and commands, as long as hosts
\* keep their ids: also between the halves of a reconnect (MoveTaskListToNewObj).
THEOREM TasksHome == ~MayReaddress => (Spec => []TaskHome)
  <1> SUFFICES ASSUME ~MayReaddress PROVE Spec => []TaskHome
    OBVIOUS
  <1> QED  BY QueuesAlways, Typing, QueueImplies, PTL

\* The commands of a queue have consecutive sequence numbers, the next of which
\* is cur_seq, unless a command was queued on a connection that was gone: a
\* reconnect does not reuse a number, wherever the numbers wrap (AddTask).
THEOREM NumbersConsecutive == ~MayReaddress => (Spec => []SeqConsecutive)
  <1> SUFFICES ASSUME ~MayReaddress PROVE Spec => []SeqConsecutive
    OBVIOUS
  <1> QED  BY QueuesAlways, Typing, QueueImplies, PTL

-----------------------------------------------------------------------------
(***************************************************************************)
(* The refinement: what InTime shows of a queue, and then each of the steps *)
(* of QueueSteps as a step of CommandQueue, or none.                       *)
(***************************************************************************)

Shown(t) == [n |-> t.n, sent |-> t.sent]
View(q)  == [i \in DOMAIN q |-> [n |-> q[i].n, sent |-> q[i].sent]]
Kept(q)  == {i \in DOMAIN q : ~q[i].late}
Entries  == [n : Nat, sent : BOOLEAN]

LEMMA ShownType ==
  ASSUME NEW t \in Task
  PROVE  Shown(t) \in Entries
  BY DEF Shown, Entries, Task

\* What a view is, place by place.
LEMMA ViewType ==
  ASSUME NEW q \in Seq(Task)
  PROVE  /\ View(q) \in Seq(Entries) /\ Len(View(q)) = Len(q) /\ DOMAIN View(q) = DOMAIN q
         /\ \A i \in DOMAIN q : View(q)[i] = Shown(q[i])
         /\ Len(q) \in Nat /\ DOMAIN q = 1 .. Len(q) /\ \A i \in DOMAIN q : q[i] \in Task
         /\ Kept(q) \in SUBSET DOMAIN q /\ Kept(q) \in Places
  <1>1. Len(q) \in Nat /\ DOMAIN q = 1 .. Len(q) /\ \A i \in DOMAIN q : q[i] \in Task
    OBVIOUS
  <1>2. \A i \in DOMAIN q : View(q)[i] = Shown(q[i])
    BY DEF View, Shown
  <1>3. \A i \in DOMAIN q : Shown(q[i]) \in Entries
    BY <1>1, ShownType
  <1>4. View(q) = [i \in 1 .. Len(q) |-> View(q)[i]]
    BY <1>1 DEF View
  <1>5. View(q) \in [1 .. Len(q) -> Entries]
    BY <1>1, <1>2, <1>3, <1>4
  <1>6. View(q) \in Seq(Entries) /\ Len(View(q)) = Len(q) /\ DOMAIN View(q) = DOMAIN q
    BY <1>1, <1>5
  <1>7. Kept(q) \in SUBSET (1 .. Len(q))
    BY <1>1 DEF Kept
  <1>8. Kept(q) \in Places
    BY <1>1, <1>7, PlacesAre
  <1> QED  BY <1>1, <1>2, <1>6, <1>7, <1>8

\* An entry and a task, marked.
LEMMA Remarked ==
  ASSUME NEW a, NEW b, NEW d
  PROVE  [[n |-> a, sent |-> b] EXCEPT !.sent = d] = [n |-> a, sent |-> d]
  OBVIOUS

LEMMA SentMarks ==
  ASSUME NEW r \in Task
  PROVE  Sent(r).sent = TRUE
  <1> DEFINE y == TRUE
  <1>1. "sent" \in DOMAIN r /\ "sent" # "retry"
    BY DEF Task
  <1> QED  BY <1>1, Zenon DEF Sent

LEMMA SentType ==
  ASSUME NEW r \in Task
  PROVE  Sent(r) \in Task
  <1>1. (IF r.sent THEN r.retry + 1 ELSE r.retry) \in Nat
    BY DEF Task
  <1>2. \A d \in BOOLEAN, k \in Nat : [r EXCEPT !.sent = d, !.retry = k] \in Task
    BY DEF Task
  <1> QED  BY <1>1, <1>2 DEF Sent

\* Facts about selections, for entries: a place more, and the first place.
LEMMA ViewAppend ==
  ASSUME NEW s \in Seq(Entries), NEW x \in Entries, NEW I \in SUBSET DOMAIN s
  PROVE  Picked(Append(s, x), I) = Picked(s, I)
  BY PickedAppend

LEMMA ViewAppended ==
  ASSUME NEW s \in Seq(Entries), NEW x \in Entries, NEW I \in SUBSET DOMAIN s
  PROVE  Picked(Append(s, x), I \cup {Len(s) + 1}) = Append(Picked(s, I), x)
  BY PickedAppend, Zenon

LEMMA ViewFirst ==
  ASSUME NEW s \in Seq(Entries), s # <<>>, NEW t \in Seq(Entries), Len(t) = Len(s),
         \A i \in DOMAIN s : i # 1 => t[i] = s[i],
         NEW I \in SUBSET DOMAIN s, 1 \notin I
  PROVE  Picked(t, I) = Picked(s, I)
  BY PickedFirst

LEMMA ViewFirstKept ==
  ASSUME NEW s \in Seq(Entries), s # <<>>, NEW t \in Seq(Entries), Len(t) = Len(s),
         \A i \in DOMAIN s : i # 1 => t[i] = s[i],
         NEW I \in SUBSET DOMAIN s, 1 \in I
  PROVE  /\ Picked(s, I) # <<>> /\ Picked(s, I)[1] = s[1]
         /\ Picked(t, I)[1] = t[1]
         /\ Len(Picked(t, I)) = Len(Picked(s, I))
         /\ \A k \in 1 .. Len(Picked(s, I)) : k # 1 => Picked(t, I)[k] = Picked(s, I)[k]
  BY PickedFirst

\* InTime is a selection from the view.
LEMMA InTimeIs ==
  ASSUME NEW q
  PROVE  InTime(q) = Picked(View(q), Kept(q))
  BY DEF InTime, View, Kept

LEMMA InTimeType ==
  ASSUME NEW q \in Seq(Task)
  PROVE  InTime(q) \in Seq(Entries)
  <1>1. View(q) \in Seq(Entries) /\ Kept(q) \in SUBSET DOMAIN View(q)
    BY ViewType
  <1>2. Picked(View(q), Kept(q)) \in Seq(Entries)
    BY <1>1, PickedType
  <1> QED  BY <1>2, InTimeIs

\* Nothing is shown of late tasks.
LEMMA InTimeLate ==
  ASSUME NEW q \in Seq(Task), \A i \in 1 .. Len(q) : q[i].late
  PROVE  InTime(q) = <<>>
  <1>1. Kept(q) = {}
    BY ViewType DEF Kept
  <1> QED  BY <1>1, InTimeIs, PickedNone

\* Two sequences of the same entries.
LEMMA ViewSame ==
  ASSUME NEW v \in Seq(Entries), NEW w \in Seq(Entries), Len(v) = Len(w),
         \A i \in 1 .. Len(v) : v[i] = w[i]
  PROVE  v = w
  BY SameSeq

\* A task more.
LEMMA InTimeAppend ==
  ASSUME NEW q \in Seq(Task), NEW t \in Task
  PROVE  /\ t.late => InTime(Append(q, t)) = InTime(q)
         /\ ~t.late => InTime(Append(q, t)) = Append(InTime(q), Shown(t))
  <1> DEFINE s == Append(q, t)
             n == Len(q)
  <1>1. /\ s \in Seq(Task) /\ Len(s) = n + 1 /\ n \in Nat
        /\ \A i \in 1 .. n : s[i] = q[i]
        /\ s[n + 1] = t
    BY AppendProperties
  <1>2. /\ View(q) \in Seq(Entries) /\ Len(View(q)) = n
        /\ \A i \in 1 .. n : View(q)[i] = Shown(q[i])
        /\ Kept(q) \in SUBSET (1 .. n) /\ DOMAIN q = 1 .. n /\ DOMAIN View(q) = 1 .. n
    BY ViewType
  <1> HIDE DEF s
  <1>3. /\ View(s) \in Seq(Entries) /\ Len(View(s)) = n + 1
        /\ \A i \in 1 .. n + 1 : View(s)[i] = Shown(s[i])
        /\ DOMAIN s = 1 .. n + 1
    BY <1>1, ViewType
  <1>4. Shown(t) \in Entries
    BY ShownType
  <1>5. View(s) = Append(View(q), Shown(t))
    <2> DEFINE w == Append(View(q), Shown(t))
    <2>1. /\ w \in Seq(Entries) /\ Len(w) = n + 1
          /\ \A i \in 1 .. n : w[i] = View(q)[i]
          /\ w[n + 1] = Shown(t)
      BY <1>2, <1>4, AppendProperties
    <2> HIDE DEF w
    <2>2. \A i \in 1 .. n + 1 : View(s)[i] = w[i]
      <3> TAKE i \in 1 .. n + 1
      <3>1. i \in 1 .. n \/ i = n + 1
        BY <1>1
      <3> QED  BY <1>1, <1>2, <1>3, <2>1, <3>1
    <2>3. View(s) = w
      BY <1>3, <2>1, <2>2, ViewSame
    <2> QED  BY <2>3 DEF w
  <1>6. CASE t.late
    <2>1. Kept(s) = Kept(q)
      BY <1>1, <1>2, <1>3, <1>6 DEF Kept
    <2>2. Picked(Append(View(q), Shown(t)), Kept(q)) = Picked(View(q), Kept(q))
      <3>1. Kept(q) \in SUBSET DOMAIN View(q)
        BY ViewType
      <3> QED  BY <1>2, <1>4, <3>1, ViewAppend
    <2> QED  BY <1>5, <1>6, <2>1, <2>2, InTimeIs DEF s
  <1>7. CASE ~t.late
    <2>1. Kept(s) = Kept(q) \cup {n + 1}
      BY <1>1, <1>2, <1>3, <1>7 DEF Kept
    <2>2. Picked(Append(View(q), Shown(t)), Kept(q) \cup {n + 1})
          = Append(Picked(View(q), Kept(q)), Shown(t))
      <3>1. Picked(Append(View(q), Shown(t)), Kept(q) \cup {Len(View(q)) + 1})
            = Append(Picked(View(q), Kept(q)), Shown(t))
        <4>1. Kept(q) \in SUBSET DOMAIN View(q)
          BY ViewType
        <4> QED  BY <1>2, <1>4, <4>1, ViewAppended
      <3> QED  BY <1>2, <3>1
    <2> QED  BY <1>5, <1>7, <2>1, <2>2, InTimeIs DEF s
  <1> QED  BY <1>6, <1>7

\* The first task gone.
LEMMA InTimeTail ==
  ASSUME NEW q \in Seq(Task), q # <<>>
  PROVE  \/ InTime(Tail(q)) = InTime(q)
         \/ InTime(q) # <<>> /\ InTime(Tail(q)) = Tail(InTime(q))
  <1> DEFINE s == Tail(q)
             n == Len(q)
  <1>1. /\ s \in Seq(Task) /\ n \in Nat /\ n >= 1 /\ Len(s) = n - 1
        /\ \A i \in 1 .. n - 1 : s[i] = q[i + 1]
    OBVIOUS
  <1>2. /\ View(q) \in Seq(Entries) /\ Len(View(q)) = n
        /\ \A i \in 1 .. n : View(q)[i] = Shown(q[i])
        /\ Kept(q) \in SUBSET (1 .. n) /\ DOMAIN q = 1 .. n /\ DOMAIN View(q) = 1 .. n
        /\ Kept(q) \in Places
    BY ViewType
  <1> HIDE DEF s
  <1>3. /\ View(s) \in Seq(Entries) /\ Len(View(s)) = n - 1
        /\ \A i \in 1 .. n - 1 : View(s)[i] = Shown(s[i])
        /\ Kept(s) \in SUBSET (1 .. n - 1) /\ DOMAIN s = 1 .. n - 1
        /\ Kept(s) \in Places
    BY <1>1, ViewType
  <1>4. MovedOn(Kept(s), Kept(q), 1)
    <2> SUFFICES ASSUME NEW i \in Nat \ {0}
                 PROVE  i + 1 \in Kept(q) <=> i \in Kept(s)
      BY DEF MovedOn
    <2>1. i + 1 \in 1 .. n <=> i \in 1 .. n - 1
      BY <1>1
    <2>2. i \in 1 .. n - 1 => s[i] = q[i + 1]
      BY <1>1
    <2> QED  BY <1>2, <1>3, <2>1, <2>2 DEF Kept
  <1>5. \A i \in 1 .. n - 1 : View(s)[i] = View(q)[i + 1]
    <2> TAKE i \in 1 .. n - 1
    <2>1. i + 1 \in 1 .. n
      BY <1>1
    <2> QED  BY <1>1, <1>2, <1>3, <2>1
  <1>6. CASE 1 \in Kept(q)
    <2>1. View(s) = Tail(View(q)) /\ View(q) # <<>>
      <3> DEFINE w == Tail(View(q))
      <3>1. /\ View(q) # <<>> /\ w \in Seq(Entries) /\ Len(w) = n - 1
            /\ \A i \in 1 .. n - 1 : w[i] = View(q)[i + 1]
        BY <1>1, <1>2
      <3> HIDE DEF w
      <3>2. View(s) = w
        BY <1>3, <1>5, <3>1, ViewSame
      <3> QED  BY <3>1, <3>2 DEF w
    <2>2. Kept(s) \in SUBSET DOMAIN Tail(View(q))
      BY <1>3, <2>1
    <2>3. Kept(q) \in SUBSET DOMAIN View(q)
      BY <1>2
    <2>4. /\ Picked(View(q), Kept(q)) # <<>>
          /\ Picked(Tail(View(q)), Kept(s)) = Tail(Picked(View(q), Kept(q)))
      BY <1>2, <1>4, <1>6, <2>1, <2>2, <2>3, PickedTail
    <2> QED  BY <2>1, <2>4, InTimeIs DEF s
  <1>7. CASE 1 \notin Kept(q)
    <2>1. \A j \in Kept(q) : 1 < j
      BY <1>2, <1>7
    <2>2. \A i \in Kept(s) : View(q)[i + 1] = View(s)[i]
      BY <1>3, <1>5
    <2>3. Kept(q) \in Places /\ Kept(s) \in Places /\ 1 \in Nat
      BY <1>2, <1>3
    <2>4. Picked(View(q), Kept(q)) = Picked(View(s), Kept(s))
      <3> HIDE DEF s
      <3> QED  BY <1>4, <2>1, <2>2, <2>3, PickedMoved
    <2> QED  BY <2>4, InTimeIs DEF s
  <1> QED  BY <1>6, <1>7

\* The first task marked.
LEMMA InTimeSent ==
  ASSUME NEW q \in Seq(Task), q # <<>>
  PROVE  \/ InTime([q EXCEPT ![1] = Sent(@)]) = InTime(q)
         \/ /\ InTime(q) # <<>>
            /\ InTime([q EXCEPT ![1] = Sent(@)]) = [InTime(q) EXCEPT ![1].sent = TRUE]
  <1> DEFINE t == Sent(q[1])
             s == [q EXCEPT ![1] = t]
             n == Len(q)
  <1>1. n \in Nat /\ n >= 1 /\ DOMAIN q = 1 .. n /\ q[1] \in Task /\ 1 \in DOMAIN q
    OBVIOUS
  <1>2. /\ t \in Task /\ (t.late <=> q[1].late) /\ Shown(t) = [Shown(q[1]) EXCEPT !.sent = TRUE]
    <2>1. \A r \in Task : Sent(r) \in Task
      BY SentType
    <2>2. \A r \in Task : Sent(r).late <=> r.late
      BY DEF Sent, Task
    <2>3. \A r \in Task : Sent(r).n = r.n
      BY DEF Sent, Task
    <2>4. \A r \in Task : Shown(Sent(r)) = [Shown(r) EXCEPT !.sent = TRUE]
      <3> TAKE r \in Task
      <3>1. Sent(r).sent = TRUE
        BY SentMarks
      <3>2. Shown(Sent(r)) = [n |-> r.n, sent |-> TRUE]
        BY <2>3, <3>1, Zenon DEF Shown
      <3>3. [Shown(r) EXCEPT !.sent = TRUE] = [n |-> r.n, sent |-> TRUE]
        BY Remarked, Zenon DEF Shown
      <3> QED  BY <3>2, <3>3
    <2> QED  BY <1>1, <2>1, <2>2, <2>4
  <1> HIDE DEF t
  <1>3. /\ s \in Seq(Task) /\ Len(s) = n /\ s[1] = t
        /\ \A i \in 1 .. n : i # 1 => s[i] = q[i]
    BY <1>1, <1>2
  <1>4. /\ View(q) \in Seq(Entries) /\ Len(View(q)) = n
        /\ \A i \in 1 .. n : View(q)[i] = Shown(q[i])
        /\ Kept(q) \in SUBSET DOMAIN View(q) /\ DOMAIN View(q) = 1 .. n
    BY ViewType
  <1> HIDE DEF s
  <1>5. /\ View(s) \in Seq(Entries) /\ Len(View(s)) = n /\ DOMAIN s = 1 .. n
        /\ \A i \in 1 .. n : View(s)[i] = Shown(s[i])
    BY <1>3, ViewType
  <1>6. Kept(s) = Kept(q)
    BY <1>1, <1>2, <1>3, <1>5 DEF Kept
  <1>7. \A i \in DOMAIN View(q) : i # 1 => View(s)[i] = View(q)[i]
    BY <1>3, <1>4, <1>5
  <1>8. View(q) # <<>> /\ Shown(t) \in Entries
    <2>1. View(q) # <<>>
      BY <1>1, <1>4
    <2>2. Shown(t) \in Entries
      BY <1>2, ShownType
    <2> QED  BY <2>1, <2>2
  <1>9. CASE 1 \notin Kept(q)
    <2>1. Picked(View(s), Kept(q)) = Picked(View(q), Kept(q))
      BY <1>4, <1>5, <1>7, <1>8, <1>9, ViewFirst
    <2> QED  BY <1>6, <2>1, InTimeIs DEF s, t
  <1>10. CASE 1 \in Kept(q)
    <2> DEFINE p == Picked(View(q), Kept(q))
               r == Picked(View(s), Kept(q))
               x == Shown(t)
    <2>1. /\ View(q) \in Seq(Entries) /\ View(s) \in Seq(Entries)
          /\ Len(View(s)) = Len(View(q)) /\ Kept(q) \in SUBSET DOMAIN View(q)
          /\ Kept(q) \in SUBSET DOMAIN View(s)
      BY <1>4, <1>5
    <2>2. /\ p # <<>> /\ p[1] = View(q)[1]
          /\ r[1] = View(s)[1] /\ Len(r) = Len(p)
          /\ \A k \in 1 .. Len(p) : k # 1 => r[k] = p[k]
      BY <1>7, <1>8, <1>10, <2>1, ViewFirstKept
    <2>3. p \in Seq(Entries) /\ r \in Seq(Entries)
      BY <2>1, PickedType
    <2>4. p[1] = Shown(q[1]) /\ r[1] = x /\ x \in Entries
      BY <1>1, <1>3, <1>4, <1>5, <1>8, <2>2
    <2> HIDE DEF p, r, x
    <2>5. r = [p EXCEPT ![1] = x]
      <3> DEFINE w == [p EXCEPT ![1] = x]
      <3>1. /\ w \in Seq(Entries) /\ Len(w) = Len(p)
            /\ \A k \in 1 .. Len(p) : w[k] = IF k = 1 THEN x ELSE p[k]
        BY <2>2, <2>3, <2>4
      <3> HIDE DEF w
      <3>2. \A k \in 1 .. Len(r) : r[k] = w[k]
        BY <2>2, <2>3, <2>4, <3>1
      <3>3. r = w
        BY <2>2, <2>3, <3>1, <3>2, ViewSame
      <3> QED  BY <3>3 DEF w
    <2>6. [p EXCEPT ![1] = x] = [p EXCEPT ![1].sent = TRUE]
      BY <1>2, <2>4 DEF x
    <2>7. InTime(q) = p /\ InTime(s) = r
      BY <1>6, InTimeIs DEF p, r
    <2> QED  BY <2>2, <2>5, <2>6, <2>7 DEF s, t
  <1> QED  BY <1>9, <1>10

\* A queue behind late tasks.
LEMMA InTimeBehind ==
  ASSUME NEW p \in Seq(Task), NEW q \in Seq(Task), \A i \in 1 .. Len(p) : p[i].late
  PROVE  InTime(p \o q) = InTime(q)
  <1> DEFINE s == p \o q
             k == Len(p)
             n == Len(q)
  <1>1. /\ s \in Seq(Task) /\ Len(s) = k + n /\ k \in Nat /\ n \in Nat
        /\ \A i \in 1 .. k : s[i] = p[i]
        /\ \A i \in 1 .. n : s[k + i] = q[i]
    BY JoinAt
  <1>2. /\ \A i \in 1 .. n : View(q)[i] = Shown(q[i])
        /\ DOMAIN q = 1 .. n /\ Kept(q) \in SUBSET (1 .. n) /\ Kept(q) \in Places
    BY ViewType
  <1> HIDE DEF s, k, n
  <1>3. /\ \A i \in 1 .. k + n : View(s)[i] = Shown(s[i])
        /\ DOMAIN s = 1 .. k + n /\ Kept(s) \in SUBSET (1 .. k + n) /\ Kept(s) \in Places
    BY <1>1, ViewType
  <1>4. MovedOn(Kept(q), Kept(s), k)
    <2> SUFFICES ASSUME NEW i \in Nat \ {0}
                 PROVE  i + k \in Kept(s) <=> i \in Kept(q)
      BY DEF MovedOn
    <2>1. i + k \in 1 .. k + n <=> i \in 1 .. n
      BY <1>1
    <2>2. i \in 1 .. n => s[i + k] = q[i]
      <3>1. i + k = k + i
        BY <1>1
      <3> QED  BY <1>1, <3>1
    <2> QED  BY <1>2, <1>3, <2>1, <2>2 DEF Kept
  <1>5. \A j \in Kept(s) : k < j
    <2> TAKE j \in Kept(s)
    <2>1. j \in 1 .. k + n /\ ~s[j].late
      BY <1>3 DEF Kept
    <2>2. j \in 1 .. k => s[j].late
      BY <1>1 DEF k
    <2> QED  BY <1>1, <2>1, <2>2
  <1>6. \A i \in Kept(q) : View(s)[i + k] = View(q)[i]
    <2> TAKE i \in Kept(q)
    <2>1. i \in 1 .. n /\ i + k \in 1 .. k + n /\ i + k = k + i
      BY <1>1, <1>2
    <2> QED  BY <1>1, <1>2, <1>3, <2>1
  <1>7. Picked(View(s), Kept(s)) = Picked(View(q), Kept(q))
    <2>1. Kept(q) \in Places /\ Kept(s) \in Places /\ k \in Nat
      BY <1>1, <1>2, <1>3
    <2> QED  BY <1>4, <1>5, <1>6, <2>1, PickedMoved
  <1> QED  BY <1>7, InTimeIs DEF s

-----------------------------------------------------------------------------
(* The commands that senders are about to queue. *)

\* Commands are numbered as they are issued, and nobody queues another's.
PendInv ==
    /\ issued <= MaxTasks
    /\ \A u \in Sender : pend[u] # None => pend[u].n \in 1 .. issued
    /\ \A u, v \in Sender :
          u # v /\ pend[u] # None /\ pend[v] # None => pend[u].n # pend[v].n

LEMMA TakenIs ==
  \A k : k \in Taken <=> /\ k \in 1 .. issued
                         /\ \A u \in Sender : pend[u] # None => pend[u].n # k
  BY DEF Taken

LEMMA TakenNext ==
  \A k : k \in Taken' <=> /\ k \in 1 .. issued'
                          /\ \A u \in Sender : pend'[u] # None => pend'[u].n # k
  BY DEF Taken

LEMMA TakenSame ==
  ASSUME UNCHANGED <<pend, issued>>
  PROVE  Taken' = Taken
  BY DEF Taken

\* A command that is queued, or lost, is taken from its caller now.
LEMMA TakenMore ==
  ASSUME TypeOK, PendInv, NEW u \in Sender, StepAdd(u), UNCHANGED issued
  PROVE  /\ pend[u].n \in 1 .. MaxTasks /\ pend[u].n \notin Taken
         /\ Taken' = Taken \cup {pend[u].n}
         /\ PendInv'
  <1> DEFINE n == pend[u].n
  <1>1. pend[u] # None /\ n \in 1 .. issued
    BY DEF StepAdd, PendInv
  <1>2. n \in 1 .. MaxTasks
    BY <1>1, LimitAssumption DEF PendInv, TypeOK
  <1>3. n \notin Taken
    BY <1>1, TakenIs
  <1>4. pend'[u] = None /\ \A v \in Sender \ {u} : pend'[v] = pend[v]
    BY DEF StepAdd, TypeOK
  <1>5. \A k : k \in Taken' <=> k \in Taken \/ k = n
    <2> SUFFICES ASSUME NEW k PROVE k \in Taken' <=> k \in Taken \/ k = n
      OBVIOUS
    <2>1. k \in Taken' <=> /\ k \in 1 .. issued
                           /\ \A v \in Sender \ {u} : pend[v] # None => pend[v].n # k
      BY <1>4, TakenNext
    <2>2. k \in Taken <=> /\ k \in 1 .. issued
                          /\ \A v \in Sender : pend[v] # None => pend[v].n # k
      BY TakenIs
    <2>3. \A v \in Sender \ {u} : pend[v] # None => pend[v].n # n
      BY <1>1 DEF PendInv
    <2> QED  BY <1>1, <2>1, <2>2, <2>3
  <1>6. Taken' = Taken \cup {n}
    BY <1>5
  <1>7. PendInv'
    BY <1>4 DEF PendInv
  <1> QED  BY <1>2, <1>3, <1>6, <1>7

\* A command that is issued is not taken yet, or (of a sender that is shown as
\* idle nevertheless) wasted.
LEMMA TakenIssue ==
  ASSUME TypeOK, PendInv, NEW u \in Sender, NEW m \in Id, FindClient(u, m)
  PROVE  /\ issued + 1 \in 1 .. MaxTasks /\ issued + 1 \notin Taken
         /\ Taken' = Taken \/ Taken' = Taken \cup {issued + 1}
         /\ PendInv'
  <1> DEFINE p == [client |-> living[m], id |-> m, n |-> issued + 1]
  <1>1. /\ pend[u] = None /\ issued < MaxTasks /\ issued' = issued + 1
        /\ pend' = [pend EXCEPT ![u] = p]
    BY DEF FindClient
  <1>2. issued \in Nat /\ MaxTasks \in Nat
    BY LimitAssumption DEF TypeOK
  <1>3. issued + 1 \in 1 .. MaxTasks /\ issued + 1 \notin 1 .. issued
    BY <1>1, <1>2
  <1>4. issued + 1 \notin Taken
    BY <1>3, TakenIs
  <1>5. p.n = issued + 1
    OBVIOUS
  <1> HIDE DEF p
  <1>6. pend'[u] = p /\ \A v \in Sender \ {u} : pend'[v] = pend[v]
    BY <1>1 DEF TypeOK
  <1>7. \A k : k \in 1 .. issued' <=> k \in 1 .. issued \/ k = issued + 1
    BY <1>1, <1>2
  <1>8. \A v \in Sender \ {u} : pend[v] # None => pend[v].n # issued + 1
    BY <1>3 DEF PendInv
  <1>9. \A k : k \in Taken' <=>
                 /\ k \in 1 .. issued \/ k = issued + 1
                 /\ \A v \in Sender \ {u} : pend[v] # None => pend[v].n # k
                 /\ p # None => p.n # k
    <2> SUFFICES ASSUME NEW k
                 PROVE  k \in Taken' <=>
                          /\ k \in 1 .. issued \/ k = issued + 1
                          /\ \A v \in Sender \ {u} : pend[v] # None => pend[v].n # k
                          /\ p # None => p.n # k
      OBVIOUS
    <2>1. k \in Taken' <=> /\ k \in 1 .. issued'
                           /\ \A v \in Sender : pend'[v] # None => pend'[v].n # k
      BY TakenNext
    <2>2. (\A v \in Sender : pend'[v] # None => pend'[v].n # k) <=>
            /\ \A v \in Sender \ {u} : pend[v] # None => pend[v].n # k
            /\ p # None => p.n # k
      BY <1>6
    <2> QED  BY <1>7, <2>1, <2>2
  <1>10. \A k : k \in Taken <=>
                 /\ k \in 1 .. issued
                 /\ \A v \in Sender \ {u} : pend[v] # None => pend[v].n # k
    <2> SUFFICES ASSUME NEW k
                 PROVE  k \in Taken <=>
                          /\ k \in 1 .. issued
                          /\ \A v \in Sender \ {u} : pend[v] # None => pend[v].n # k
      OBVIOUS
    <2>1. k \in Taken <=> /\ k \in 1 .. issued
                          /\ \A v \in Sender : pend[v] # None => pend[v].n # k
      BY TakenIs
    <2> QED  BY <1>1, <2>1
  <1>11. ASSUME p # None PROVE Taken' = Taken
    <2>1. \A k : k \in Taken' <=> k \in Taken
      BY <1>3, <1>5, <1>9, <1>10, <1>11
    <2> QED  BY <2>1
  <1>12. ASSUME p = None PROVE Taken' = Taken \cup {issued + 1}
    <2>1. \A k : k \in Taken' <=> k \in Taken \/ k = issued + 1
      BY <1>3, <1>8, <1>9, <1>10, <1>12
    <2> QED  BY <2>1
  <1>13. PendInv'
    <2>1. issued' <= MaxTasks
      BY <1>1, <1>2
    <2>2. \A v \in Sender : pend'[v] # None => pend'[v].n \in 1 .. issued'
      BY <1>5, <1>6, <1>7 DEF PendInv
    <2>3. \A v, w \in Sender :
            v # w /\ pend'[v] # None /\ pend'[w] # None => pend'[v].n # pend'[w].n
      BY <1>5, <1>6, <1>8 DEF PendInv
    <2> QED  BY <2>1, <2>2, <2>3 DEF PendInv
  <1>14. Taken' = Taken \/ Taken' = Taken \cup {issued + 1}
    BY <1>11, <1>12
  <1> QED  BY <1>3, <1>4, <1>13, <1>14

LEMMA PendStep ==
  ASSUME ~MayReaddress, TypeOK, TypeOK', Tables, Tables', PendInv, [Next]_vars
  PROVE  PendInv'
  <1>1. UNCHANGED <<pend, issued>> => PendInv'
    BY DEF PendInv
  <1>2. ASSUME NEW u \in Sender, StepAdd(u), UNCHANGED issued PROVE PendInv'
    BY <1>2, TakenMore
  <1>3. ASSUME NEW u \in Sender, NEW m \in Id, FindClient(u, m) PROVE PendInv'
    BY <1>3, TakenIssue
  <1> QED  BY <1>1, <1>2, <1>3, QueueSteps

-----------------------------------------------------------------------------
(* Steps of CommandQueue, from what they do to each machine. *)

OthersKept(a) == \A m \in Id \ {a} : Promised(m)' = Promised(m)

OnlineFrom(a, b) == \A m \in Id : living'[m] # None <=>
                                    IF m = a THEN b ELSE living[m] # None

LEMMA OnlineMapSame ==
  ASSUME OnlineSame
  PROVE  [m \in Id |-> living[m] # None]' = [m \in Id |-> living[m] # None]
  <1>1. \A m \in Id : (living'[m] # None) = (living[m] # None)
    BY DEF OnlineSame
  <1> QED  BY <1>1, Zenon

LEMMA StutterMaps ==
  ASSUME OnlineSame, Taken' = Taken, \A m \in Id : Promised(m)' = Promised(m)
  PROVE  UNCHANGED CQ!vars
  <1>1. [m \in Id |-> Promised(m)]' = [m \in Id |-> Promised(m)]
    OBVIOUS
  <1> QED  BY <1>1, OnlineMapSame DEF CQ!vars

LEMMA WasteMaps ==
  ASSUME OnlineSame, NEW n, n \notin Taken, Taken' = Taken \cup {n},
         \A m \in Id : Promised(m)' = Promised(m)
  PROVE  CQ!Waste(n)
  <1>1. [m \in Id |-> Promised(m)]' = [m \in Id |-> Promised(m)]
    OBVIOUS
  <1> QED  BY <1>1, OnlineMapSame DEF CQ!Waste

LEMMA TransmitMaps ==
  ASSUME OnlineSame, Taken' = Taken, NEW a \in Id, OthersKept(a), Promised(a) # <<>>,
         Promised(a)' = [Promised(a) EXCEPT ![1].sent = TRUE]
  PROVE  CQ!Transmit(a)
  <1> DEFINE q == [m \in Id |-> Promised(m)]
  <1>1. q' = [q EXCEPT ![a][1].sent = TRUE]
    BY DEF OthersKept
  <1>2. q[a] # <<>>
    OBVIOUS
  <1> QED  BY <1>1, <1>2, OnlineMapSame DEF CQ!Transmit

LEMMA SettleMaps ==
  ASSUME OnlineSame, Taken' = Taken, NEW a \in Id, OthersKept(a), Promised(a) # <<>>,
         Promised(a)' = Tail(Promised(a))
  PROVE  CQ!Settle(a)
  <1> DEFINE q == [m \in Id |-> Promised(m)]
  <1>1. q' = [q EXCEPT ![a] = Tail(@)]
    BY DEF OthersKept
  <1>2. q[a] # <<>>
    OBVIOUS
  <1> QED  BY <1>1, <1>2, OnlineMapSame DEF CQ!Settle

LEMMA IssueMaps ==
  ASSUME OnlineSame, NEW a \in Id, living[a] # None, OthersKept(a),
         NEW n, n \notin Taken, Taken' = Taken \cup {n},
         Promised(a)' = Append(Promised(a), [n |-> n, sent |-> FALSE])
  PROVE  CQ!Issue(a, n)
  <1> DEFINE q == [m \in Id |-> Promised(m)]
             o == [m \in Id |-> living[m] # None]
  <1>1. q' = [q EXCEPT ![a] = Append(@, CQ!Entry(n))]
    BY DEF OthersKept, CQ!Entry
  <1>2. o[a]
    OBVIOUS
  <1> QED  BY <1>1, <1>2, OnlineMapSame DEF CQ!Issue

LEMMA ConnectMaps ==
  ASSUME Taken' = Taken, NEW a \in Id, OthersKept(a), living[a] = None, living'[a] # None,
         \A m \in Id \ {a} : living'[m] = living[m],
         Promised(a)' = <<[n |-> 0, sent |-> FALSE]>>
  PROVE  CQ!Connect(a)
  <1> DEFINE q == [m \in Id |-> Promised(m)]
             o == [m \in Id |-> living[m] # None]
  <1>1. q' = [q EXCEPT ![a] = <<CQ!Entry(CQ!Query)>>]
    BY DEF OthersKept, CQ!Entry, CQ!Query
  <1>2. ~o[a]
    OBVIOUS
  <1>3. o' = [o EXCEPT ![a] = TRUE]
    <2>1. \A m \in Id : (living'[m] # None) = IF m = a THEN TRUE ELSE living[m] # None
      OBVIOUS
    <2> QED  BY <2>1, Zenon
  <1> QED  BY <1>1, <1>2, <1>3 DEF CQ!Connect

LEMMA LoseMaps ==
  ASSUME Taken' = Taken, NEW a \in Id, OthersKept(a), living[a] # None, living'[a] = None,
         \A m \in Id \ {a} : living'[m] = living[m],
         Promised(a)' = <<>>
  PROVE  CQ!Lose(a)
  <1> DEFINE q == [m \in Id |-> Promised(m)]
             o == [m \in Id |-> living[m] # None]
  <1>1. q' = [q EXCEPT ![a] = <<>>]
    BY DEF OthersKept
  <1>2. o[a]
    OBVIOUS
  <1>3. o' = [o EXCEPT ![a] = FALSE]
    <2>1. \A m \in Id : (living'[m] # None) = IF m = a THEN FALSE ELSE living[m] # None
      OBVIOUS
    <2> QED  BY <2>1, Zenon
  <1> QED  BY <1>1, <1>2, <1>3 DEF CQ!Lose

-----------------------------------------------------------------------------
(* What the steps of QueueSteps do to the promises. *)

LEMMA HolderType ==
  ASSUME TypeOK, NEW m \in Id
  PROVE  Holder(m) \in Client \cup {None}
  BY DEF Holder, TypeOK

LEMMA PromisedNow ==
  ASSUME NEW m, NEW h, Holder(m) = h
  PROVE  Promised(m) = IF h = None THEN <<>> ELSE InTime(client[h].taskList)
  BY DEF Promised

LEMMA PromisedNext ==
  ASSUME NEW m, NEW h, Holder(m)' = h
  PROVE  Promised(m)' = IF h = None THEN <<>> ELSE InTime(client'[h].taskList)
  BY DEF Promised

\* Two machines have two holders.
LEMMA HoldersDiffer ==
  ASSUME TypeOK, Tables, NEW a \in Id, NEW m \in Id, a # m, Holder(a) # None
  PROVE  Holder(m) # Holder(a)
  <1> USE NoneAssumption
  <1>1. \A k \in Id : living[k] # None => client[living[k]].ademco_id = k
    BY DEF Tables, LivingInv
  <1>2. resolving # None => \A k \in Id : living[k] # resolving
    BY DEF Tables, OutstandingInv, ResolvingInv
  <1> QED  BY <1>1, <1>2 DEF Holder

\* A machine with a holder is online.
LEMMA HolderOnline ==
  ASSUME TypeOK, Tables, NEW m \in Id, Holder(m) # None
  PROVE  living[m] # None
  BY DEF Tables, ResolvingInv, Holder

\* The promises of a machine whose holder's queue stays.
LEMMA KeptOutside ==
  ASSUME TypeOK, NEW S, Calm(S), NEW m \in Id, Holder(m)' = Holder(m), Holder(m) \notin S
  PROVE  Promised(m)' = Promised(m)
  <1> DEFINE h == Holder(m)
  <1>1. h \in Client \cup {None}
    BY HolderType
  <1>2. Promised(m) = IF h = None THEN <<>> ELSE InTime(client[h].taskList)
    BY PromisedNow
  <1>3. Promised(m)' = IF h = None THEN <<>> ELSE InTime(client'[h].taskList)
    BY PromisedNext
  <1>4. h # None => client'[h].taskList = client[h].taskList
    BY <1>1 DEF Calm, SameQueue
  <1> HIDE DEF h
  <1> QED  BY <1>2, <1>3, <1>4

LEMMA QueueTypes ==
  ASSUME TypeOK
  PROVE  \A c \in Client : client[c].taskList \in Seq(Task)
  BY DEF TypeOK, ClientData

\* The first task of an object leaves, or is marked: a step of its machine.
LEMMA DropMaps ==
  ASSUME TypeOK, Tables, NEW c \in Client, StepDrop(c), OnlineSame, Taken' = Taken
  PROVE  CQ!Next \/ UNCHANGED CQ!vars
  <1>1. HoldersSame /\ Calm({c})
    BY DEF StepDrop
  <1>2. CASE \A m \in Id : Holder(m) # c
    <2>1. \A m \in Id : Promised(m)' = Promised(m)
      BY <1>1, <1>2, KeptOutside DEF HoldersSame
    <2> QED  BY <2>1, StutterMaps
  <1>3. ASSUME NEW a \in Id, Holder(a) = c
        PROVE  CQ!Next \/ UNCHANGED CQ!vars
    <2>1. OthersKept(a)
      <3> SUFFICES ASSUME NEW m \in Id \ {a} PROVE Promised(m)' = Promised(m)
        BY DEF OthersKept
      <3>1. Holder(m) # c
        BY <1>3, HoldersDiffer, NoneAssumption
      <3> QED  BY <1>1, <3>1, KeptOutside DEF HoldersSame
    <2> DEFINE q == client[c].taskList
    <2>2. q \in Seq(Task) /\ q # <<>> /\ client'[c].taskList = Tail(q)
      BY QueueTypes DEF StepDrop, Dropped, HasFirst
    <2>3. Promised(a) = InTime(q)
      BY <1>3, PromisedNow, NoneAssumption
    <2>4. Promised(a)' = InTime(Tail(q))
      <3>1. Holder(a)' = c
        BY <1>1, <1>3 DEF HoldersSame
      <3> QED  BY <2>2, <3>1, PromisedNext, NoneAssumption
    <2> HIDE DEF q
    <2>5. CASE InTime(Tail(q)) = InTime(q)
      <3>1. \A m \in Id : Promised(m)' = Promised(m)
        BY <2>1, <2>3, <2>4, <2>5 DEF OthersKept
      <3> QED  BY <3>1, StutterMaps
    <2>6. CASE InTime(q) # <<>> /\ InTime(Tail(q)) = Tail(InTime(q))
      <3>1. Promised(a) # <<>> /\ Promised(a)' = Tail(Promised(a))
        BY <2>3, <2>4, <2>6
      <3>2. CQ!Settle(a)
        BY <2>1, <3>1, SettleMaps
      <3> QED  BY <3>2 DEF CQ!Next
    <2> QED  BY <2>2, <2>5, <2>6, InTimeTail
  <1> QED  BY <1>2, <1>3

LEMMA MarkMaps ==
  ASSUME TypeOK, Tables, NEW c \in Client, StepMark(c), OnlineSame, Taken' = Taken
  PROVE  CQ!Next \/ UNCHANGED CQ!vars
  <1>1. HoldersSame /\ Calm({c})
    BY DEF StepMark
  <1>2. CASE \A m \in Id : Holder(m) # c
    <2>1. \A m \in Id : Promised(m)' = Promised(m)
      BY <1>1, <1>2, KeptOutside DEF HoldersSame
    <2> QED  BY <2>1, StutterMaps
  <1>3. ASSUME NEW a \in Id, Holder(a) = c
        PROVE  CQ!Next \/ UNCHANGED CQ!vars
    <2>1. OthersKept(a)
      <3> SUFFICES ASSUME NEW m \in Id \ {a} PROVE Promised(m)' = Promised(m)
        BY DEF OthersKept
      <3>1. Holder(m) # c
        BY <1>3, HoldersDiffer, NoneAssumption
      <3> QED  BY <1>1, <3>1, KeptOutside DEF HoldersSame
    <2> DEFINE q == client[c].taskList
               s == [q EXCEPT ![1] = Sent(@)]
    <2>2. q \in Seq(Task) /\ q # <<>> /\ client'[c].taskList = s
      BY QueueTypes DEF StepMark, Marked, HasFirst
    <2>3. Promised(a) = InTime(q)
      BY <1>3, PromisedNow, NoneAssumption
    <2>4. Promised(a)' = InTime(s)
      <3>1. Holder(a)' = c
        BY <1>1, <1>3 DEF HoldersSame
      <3> QED  BY <2>2, <3>1, PromisedNext, NoneAssumption
    <2>a. \/ InTime(s) = InTime(q)
          \/ InTime(q) # <<>> /\ InTime(s) = [InTime(q) EXCEPT ![1].sent = TRUE]
      <3> HIDE DEF q
      <3> QED  BY <2>2, InTimeSent
    <2> HIDE DEF q, s
    <2>5. CASE InTime(s) = InTime(q)
      <3>1. \A m \in Id : Promised(m)' = Promised(m)
        BY <2>1, <2>3, <2>4, <2>5 DEF OthersKept
      <3> QED  BY <3>1, StutterMaps
    <2>6. CASE InTime(q) # <<>> /\ InTime(s) = [InTime(q) EXCEPT ![1].sent = TRUE]
      <3>1. Promised(a) # <<>> /\ Promised(a)' = [Promised(a) EXCEPT ![1].sent = TRUE]
        BY <2>3, <2>4, <2>6
      <3>2. CQ!Transmit(a)
        BY <2>1, <3>1, TransmitMaps
      <3> QED  BY <3>2 DEF CQ!Next
    <2> QED  BY <2>5, <2>6, <2>a
  <1> QED  BY <1>2, <1>3

\* The queue of an object goes behind the late tasks of another: nothing is seen.
LEMMA MoveMaps ==
  ASSUME TypeOK, TypeOK', Tables, QueueInv, NEW c \in Client, NEW o \in Client,
         NEW a \in Id, StepMove(c, o, a), OnlineSame, Taken' = Taken
  PROVE  UNCHANGED CQ!vars
  <1>1. /\ HolderBecomes(a, c) /\ Holder(a) = o /\ c # o
        /\ Calm({c, o}) /\ Nobodys(c) /\ \A m \in Id \ {a} : Holder(m) # o
    BY DEF StepMove
  <1> PICK r \in ClientData : Behind(r, client[c]) /\ Moved(client'[c], r, client[o])
    BY DEF StepMove
  <1>2. AllLate(r) /\ r.taskList \in Seq(Task) /\ client[o].taskList \in Seq(Task)
    <2>1. client[c] \in ClientData
      BY DEF TypeOK
    <2>2. AllLate(r)
      BY <1>1, <2>1, NobodysLate, BehindLate
    <2> QED  BY <2>2, QueueTypes DEF ClientData
  <1>3. InTime(client'[c].taskList) = InTime(client[o].taskList)
    <2>1. client'[c].taskList = r.taskList \o client[o].taskList
      BY DEF Moved
    <2>2. \A i \in 1 .. Len(r.taskList) : r.taskList[i].late
      BY <1>2 DEF AllLate
    <2> QED  BY <1>2, <2>1, <2>2, InTimeBehind
  <1>4. Promised(a)' = Promised(a)
    <2>1. Promised(a) = InTime(client[o].taskList)
      BY <1>1, PromisedNow, NoneAssumption
    <2>2. Holder(a)' = c
      BY <1>1 DEF HolderBecomes
    <2>3. Promised(a)' = InTime(client'[c].taskList)
      BY <2>2, PromisedNext, NoneAssumption
    <2> QED  BY <1>3, <2>1, <2>3
  <1>5. \A m \in Id \ {a} : Promised(m)' = Promised(m)
    <2> TAKE m \in Id \ {a}
    <2>1. Holder(m)' = Holder(m) /\ Holder(m) \notin {c, o}
      BY <1>1 DEF HolderBecomes, Nobodys
    <2> QED  BY <1>1, <2>1, KeptOutside
  <1> QED  BY <1>4, <1>5, StutterMaps

\* A first connection.
LEMMA FirstMaps ==
  ASSUME TypeOK, TypeOK', Tables, QueueInv, NEW c \in Client, NEW a \in Id,
         StepFirst(c, a), living'[a] # None, living[a] = None,
         \A m \in Id \ {a} : living'[m] = living[m], Taken' = Taken
  PROVE  CQ!Connect(a)
  <1>1. HolderBecomes(a, c) /\ Calm({c}) /\ Nobodys(c)
    BY DEF StepFirst
  <1> PICK r \in ClientData : Behind(r, client[c]) /\ Queues(client'[c], r, 0, a, FALSE)
    BY DEF StepFirst
  <1> DEFINE t == NewTask(r, 0, a, FALSE)
  <1>2. AllLate(r) /\ r.taskList \in Seq(Task) /\ t \in Task
    <2>1. client[c] \in ClientData
      BY DEF TypeOK
    <2>2. AllLate(r)
      BY <1>1, <2>1, NobodysLate, BehindLate
    <2>3. r.taskList \in Seq(Task) /\ r.cur_seq \in Seq1
      BY DEF ClientData
    <2>4. t \in Task
      BY <2>3 DEF NewTask, Task
    <2> QED  BY <2>2, <2>3, <2>4
  <1>3. ~t.late /\ Shown(t) = [n |-> 0, sent |-> FALSE]
    BY DEF NewTask, Shown
  <1>4. client'[c].taskList = Append(r.taskList, t)
    BY DEF Queues
  <1> HIDE DEF t
  <1>5. InTime(r.taskList) = <<>>
    <2>1. \A i \in 1 .. Len(r.taskList) : r.taskList[i].late
      BY <1>2 DEF AllLate
    <2> QED  BY <1>2, <2>1, InTimeLate
  <1>6. InTime(client'[c].taskList) = <<[n |-> 0, sent |-> FALSE]>>
    <2>1. InTime(client'[c].taskList) = Append(InTime(r.taskList), Shown(t))
      BY <1>2, <1>3, <1>4, InTimeAppend
    <2> QED  BY <1>3, <1>5, <2>1
  <1>7. Promised(a)' = <<[n |-> 0, sent |-> FALSE]>>
    <2>1. Holder(a)' = c
      BY <1>1 DEF HolderBecomes
    <2> QED  BY <1>6, <2>1, PromisedNext, NoneAssumption
  <1>8. OthersKept(a)
    <2> SUFFICES ASSUME NEW m \in Id \ {a} PROVE Promised(m)' = Promised(m)
      BY DEF OthersKept
    <2>1. Holder(m)' = Holder(m) /\ Holder(m) \notin {c}
      BY <1>1 DEF HolderBecomes, Nobodys
    <2> QED  BY <1>1, <2>1, KeptOutside
  <1> QED  BY <1>7, <1>8, ConnectMaps

\* A connection is lost.
LEMMA LossMaps ==
  ASSUME TypeOK, NEW c \in Client, NEW a \in Id,
         StepLose(c, a), living'[a] = None, living[a] # None,
         \A m \in Id \ {a} : living'[m] = living[m], Taken' = Taken
  PROVE  CQ!Lose(a)
  <1>1. HolderBecomes(a, None) /\ Calm({c}) /\ \A m \in Id \ {a} : Holder(m) # c
    BY DEF StepLose
  <1>2. Promised(a)' = <<>>
    <2>1. Holder(a)' = None
      BY <1>1 DEF HolderBecomes
    <2> QED  BY <2>1, PromisedNext
  <1>3. OthersKept(a)
    <2> SUFFICES ASSUME NEW m \in Id \ {a} PROVE Promised(m)' = Promised(m)
      BY DEF OthersKept
    <2>1. Holder(m)' = Holder(m) /\ Holder(m) \notin {c}
      BY <1>1 DEF HolderBecomes
    <2> QED  BY <1>1, <2>1, KeptOutside
  <1> QED  BY <1>2, <1>3, LoseMaps

\* A sender queues its command: issued, or wasted on a connection that is gone.
LEMMA AddMaps ==
  ASSUME TypeOK, TypeOK', Tables, PendInv, NEW u \in Sender, StepAdd(u), OnlineSame,
         UNCHANGED issued
  PROVE  CQ!Next
  <1> PICK c \in Client, a \in Id, n \in Nat :
        c = pend[u].client /\ a = pend[u].id /\ n = pend[u].n
    BY DEF StepAdd, TypeOK
  <1>1. n \in 1 .. MaxTasks /\ n \notin Taken /\ Taken' = Taken \cup {n}
    BY TakenMore
  <1>2. HoldersSame /\ Calm({c})
    BY DEF StepAdd
  <1> DEFINE late == c # Holder(a)
             q == client[c].taskList
             t == NewTask(client[c], n, a, late)
  <1>3. q \in Seq(Task) /\ client'[c].taskList = Append(q, t)
    BY QueueTypes DEF StepAdd, Queues
  <1>4. t \in Task /\ (t.late <=> late) /\ Shown(t) = [n |-> n, sent |-> FALSE]
    <2>1. client[c].cur_seq \in Seq1 /\ late \in BOOLEAN
      BY DEF TypeOK, ClientData
    <2> HIDE DEF late
    <2> QED  BY <2>1 DEF NewTask, Task, Shown
  <1> HIDE DEF t, q
  <1>5. CASE late
    <2>1. InTime(client'[c].taskList) = InTime(q)
      BY <1>3, <1>4, <1>5, InTimeAppend
    <2>2. \A m \in Id : Promised(m)' = Promised(m)
      <3> TAKE m \in Id
      <3>1. Holder(m)' = Holder(m)
        BY <1>2 DEF HoldersSame
      <3>2. CASE Holder(m) # c
        BY <1>2, <3>1, <3>2, KeptOutside
      <3>3. CASE Holder(m) = c
        <4>1. Promised(m) = InTime(q)
          BY <3>3, PromisedNow, NoneAssumption DEF q
        <4>2. Promised(m)' = InTime(client'[c].taskList)
          BY <3>1, <3>3, PromisedNext, NoneAssumption
        <4> QED  BY <2>1, <4>1, <4>2
      <3> QED  BY <3>2, <3>3
    <2>3. CQ!Waste(n)
      BY <1>1, <2>2, WasteMaps
    <2> QED  BY <1>1, <2>3 DEF CQ!Next
  <1>6. CASE ~late
    <2>1. Holder(a) = c /\ Holder(a)' = c
      BY <1>2, <1>6 DEF HoldersSame
    <2>2. InTime(client'[c].taskList) = Append(InTime(q), [n |-> n, sent |-> FALSE])
      BY <1>3, <1>4, <1>6, InTimeAppend
    <2>3. Promised(a) = InTime(q)
      BY <2>1, PromisedNow, NoneAssumption DEF q
    <2>4. Promised(a)' = InTime(client'[c].taskList)
      BY <2>1, PromisedNext, NoneAssumption
    <2>5. living[a] # None
      BY <2>1, HolderOnline, NoneAssumption
    <2>6. OthersKept(a)
      <3> SUFFICES ASSUME NEW m \in Id \ {a} PROVE Promised(m)' = Promised(m)
        BY DEF OthersKept
      <3>1. Holder(m) \notin {c} /\ Holder(m)' = Holder(m)
        BY <1>2, <2>1, HoldersDiffer, NoneAssumption DEF HoldersSame
      <3> QED  BY <1>2, <3>1, KeptOutside
    <2>7. CQ!Issue(a, n)
      BY <1>1, <2>2, <2>3, <2>4, <2>5, <2>6, IssueMaps
    <2> QED  BY <1>1, <2>7 DEF CQ!Next
  <1> QED  BY <1>5, <1>6

\* Every step of the server is one of CommandQueue, or none.
LEMMA QueueImplements ==
  ASSUME ~MayReaddress, TypeOK, TypeOK', Tables, Tables', QueueInv, PendInv, [Next]_vars
  PROVE  [CQ!Next]_(CQ!vars)
  <1>1. ASSUME UNCHANGED <<pend, issued>>, OnlineSame, StepIdle
        PROVE  UNCHANGED CQ!vars
    <2>1. \A m \in Id : Promised(m)' = Promised(m)
      BY <1>1, KeptOutside DEF StepIdle, HoldersSame
    <2> QED  BY <1>1, <2>1, TakenSame, StutterMaps
  <1>2. ASSUME UNCHANGED <<pend, issued>>, OnlineSame,
               NEW c \in Client, StepDrop(c) \/ StepMark(c) \/ StepClear(c)
        PROVE  CQ!Next \/ UNCHANGED CQ!vars
    <2>1. Taken' = Taken
      BY <1>2, TakenSame
    <2>2. CASE StepDrop(c)
      BY <1>2, <2>1, <2>2, DropMaps
    <2>3. CASE StepMark(c)
      BY <1>2, <2>1, <2>3, MarkMaps
    <2>4. CASE StepClear(c)
      <3>1. \A m \in Id : Promised(m)' = Promised(m)
        BY <2>4, KeptOutside DEF StepClear, HoldersSame, Nobodys
      <3> QED  BY <1>2, <2>1, <3>1, StutterMaps
    <2> QED  BY <1>2, <2>2, <2>3, <2>4
  <1>3. ASSUME UNCHANGED <<pend, issued>>, OnlineSame,
               NEW c \in Client, NEW o \in Client, NEW a \in Id, StepMove(c, o, a)
        PROVE  UNCHANGED CQ!vars
    BY <1>3, TakenSame, MoveMaps
  <1>4. ASSUME UNCHANGED <<pend, issued>>, NEW c \in Client, NEW a \in Id,
               StepFirst(c, a), living'[a] # None, living[a] = None,
               \A m \in Id \ {a} : living'[m] = living[m]
        PROVE  CQ!Next
    <2>1. CQ!Connect(a)
      BY <1>4, TakenSame, FirstMaps
    <2> QED  BY <2>1 DEF CQ!Next
  <1>5. ASSUME UNCHANGED <<pend, issued>>, NEW c \in Client, NEW a \in Id,
               StepLose(c, a), living'[a] = None, living[a] # None,
               \A m \in Id \ {a} : living'[m] = living[m]
        PROVE  CQ!Next
    <2>1. CQ!Lose(a)
      BY <1>5, TakenSame, LossMaps
    <2> QED  BY <2>1 DEF CQ!Next
  <1>6. ASSUME UNCHANGED issued, OnlineSame, NEW u \in Sender, StepAdd(u)
        PROVE  CQ!Next
    BY <1>6, AddMaps
  <1>7. ASSUME StepIdle, OnlineSame, NEW u \in Sender, NEW m \in Id, FindClient(u, m)
        PROVE  CQ!Next \/ UNCHANGED CQ!vars
    <2>1. /\ issued + 1 \in 1 .. MaxTasks /\ issued + 1 \notin Taken
          /\ Taken' = Taken \/ Taken' = Taken \cup {issued + 1}
      BY <1>7, TakenIssue
    <2>2. \A k \in Id : Promised(k)' = Promised(k)
      BY <1>7, KeptOutside DEF StepIdle, HoldersSame
    <2>3. CASE Taken' = Taken
      BY <1>7, <2>2, <2>3, StutterMaps
    <2>4. CASE Taken' = Taken \cup {issued + 1}
      <3>1. CQ!Waste(issued + 1)
        BY <1>7, <2>1, <2>2, <2>4, WasteMaps
      <3> QED  BY <2>1, <3>1 DEF CQ!Next
    <2> QED  BY <2>1, <2>3, <2>4
  <1> QED  BY <1>1, <1>2, <1>3, <1>4, <1>5, <1>6, <1>7, QueueSteps

\* The direct-connection server implements the queues it promises its callers,
\* for any number of hosts that keep their ids, connections, senders, commands
\* and resends: over reconnects (ResolveOutstandingClient) a command is neither
\* lost nor doubled nor moved, whatever a sender was in the middle of.
THEOREM QueueImplemented == ~MayReaddress => (Spec => ImplementsCommandQueue)
  <1> SUFFICES ASSUME ~MayReaddress PROVE Spec => ImplementsCommandQueue
    OBVIOUS
  <1>1. Init => CQ!Init
    <2> SUFFICES ASSUME Init PROVE CQ!Init
      OBVIOUS
    <2>1. \A m \in Id : (living[m] # None) = FALSE
      BY DEF Init
    <2>2. [m \in Id |-> living[m] # None] = [m \in Id |-> FALSE]
      BY <2>1, Zenon
    <2>3. \A m \in Id : Promised(m) = <<>>
      BY DEF Init, Promised, Holder
    <2>4. Taken = {}
      BY DEF Init, Taken
    <2> QED  BY <2>2, <2>3, <2>4 DEF CQ!Init
  <1>2. Init => PendInv
    BY LimitAssumption DEF Init, PendInv
  <1>3. TypeOK /\ TypeOK' /\ Tables /\ Tables' /\ PendInv /\ [Next]_vars => PendInv'
    BY PendStep
  <1>4. Spec => []PendInv
    BY <1>2, <1>3, Typing, TablesAlways, PTL DEF Spec
  <1>5. /\ TypeOK /\ TypeOK' /\ Tables /\ Tables' /\ QueueInv /\ PendInv /\ [Next]_vars
        => [CQ!Next]_(CQ!vars)
    BY QueueImplements
  <1> QED  BY <1>1, <1>4, <1>5, Typing, TablesAlways, QueuesAlways, PTL
           DEF Spec, ImplementsCommandQueue, CQ!Spec

=============================================================================
