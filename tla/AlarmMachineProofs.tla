------------------------- MODULE AlarmMachineProofs -------------------------
(* Theorems about AlarmMachine for any submachines, channels and events.     *)
EXTENDS AlarmMachine, FiniteSetTheorems, TLAPS

\* Only the thread that has the machine's lock has work, and only the user
\* interface has the lock of a submachine.
Exclusive ==
    /\ \A t \in Thread : work[t] # None => owner[Top] = t
    /\ \A t \in Thread : owner[Top] = t => work[t] # None

\* The thread at the counter has loaded the present count.
Loaded ==
    /\ \A t \in Thread : work[t] # None /\ work[t].seen # None
                         => work[t].due /\ work[t].seen = count
    /\ Decrementing /\ clear.seen # None => clear.seen = count
    /\ ~(Uncounted /\ Decrementing)

Up   == IF Uncounted THEN 1 ELSE 0
Down == IF Decrementing THEN 1 ELSE 0

\* AlarmAgrees between the steps of a count.
Agree ==
    /\ count + Up <= Cardinality(Counted) + Down
    /\ direct \/ count > 0 \/ Uncounted => Top \in alarming
    /\ ~uneven => /\ count + Up = Cardinality(Counted) + Down
                  /\ \/ clear # None /\ clear.top /\ Top \in alarming
                     \/ Top \in alarming <=> \/ direct \/ Counted # {}
                                             \/ Decrementing

Inv == TypeOK /\ Exclusive /\ Loaded /\ Agree

-----------------------------------------------------------------------------
(* Types *)

LEMMA Kinds ==
    ASSUME NEW e \in Event
    PROVE  /\ e.kind \in {"online", "offline", "alarm", "status"}
           /\ e.ch \in Channel
           /\ e.sub \in Sub \cup {None}
           /\ e.kind = "status" => e.sub \in Sub
BY DEF Event

IsDue(e) == e.kind = "alarm" /\ e.sub # None /\ e.sub \notin alarming

\* The thread that handles an event gets a job, with nothing counted yet.
LEMMA JobMade ==
    ASSUME TypeOK, NEW t \in Thread, NEW e \in Event, NEW drain \in BOOLEAN,
           HandleAdemcoEvent(t, e, drain)
    PROVE  /\ via' \subseteq Channel
           /\ \E job \in Job : /\ work' = [work EXCEPT ![t] = job]
                               /\ job.due = IsDue(e) /\ job.seen = None
<1> DEFINE new == CASE e.kind = "online"  -> via \cup {e.ch}
                    [] e.kind = "offline" -> via \ {e.ch}
                    [] OTHER              -> via
           job == [todo |-> Visited(e, new), due |-> IsDue(e), seen |-> None,
                   up |-> e.kind = "status" \/ new # {}, drain |-> drain]
<1>1. new \subseteq Channel
  BY Kinds DEF TypeOK
<1>2. Visited(e, new) \subseteq Sub
  BY Kinds DEF Visited, Follow
<1>3. job \in Job /\ job.due = IsDue(e) /\ job.seen = None
  BY <1>2 DEF Job, IsDue
<1>4. work' = [work EXCEPT ![t] = job] /\ via' = new
  BY DEF HandleAdemcoEvent, IsDue
<1> HIDE DEF job, new
<1> QED
  BY <1>1, <1>3, <1>4

\* Handling an event keeps the types.
LEMMA HandlingTyped ==
    ASSUME TypeOK, NEW t \in Thread, NEW e \in Event, NEW drain \in BOOLEAN,
           HandleAdemcoEvent(t, e, drain)
    PROVE  /\ work' \in [Thread -> Job \cup {None}]
           /\ via' \subseteq Channel /\ sub_online' \subseteq Sub
           /\ alarming' \subseteq Box /\ handling' \subseteq Box
           /\ direct' \in BOOLEAN /\ count' \in Nat /\ uneven' \in BOOLEAN
<1>1. work' \in [Thread -> Job \cup {None}] /\ via' \subseteq Channel
  BY JobMade DEF TypeOK
<1>2. alarming' \subseteq Box
  BY Kinds DEF TypeOK, HandleAdemcoEvent, Box
<1> QED
  BY <1>1, <1>2 DEF TypeOK, HandleAdemcoEvent

LEMMA TypeStep == TypeOK /\ [Next]_vars => TypeOK'
<1> SUFFICES ASSUME TypeOK, [Next]_vars
             PROVE  TypeOK'
  OBVIOUS
<1> USE DEF TypeOK, modes, inputs, locks, flags
<1>1. ASSUME NEW t \in Channel, NEW e \in Event, HandleNow(t, e)
      PROVE  TypeOK'
  <2>1. t \in Thread /\ Top \in Box
    BY DEF Thread, Box
  <2>2. /\ work' \in [Thread -> Job \cup {None}]
        /\ via' \subseteq Channel /\ sub_online' \subseteq Sub
        /\ alarming' \subseteq Box /\ handling' \subseteq Box
        /\ direct' \in BOOLEAN /\ count' \in Nat /\ uneven' \in BOOLEAN
    BY <1>1, <2>1, HandlingTyped DEF HandleNow
  <2> QED
    BY <1>1, <2>1, <2>2 DEF HandleNow, Receives
<1>2. ASSUME NEW t \in Channel, NEW e \in Event, Keep(t, e)
      PROVE  TypeOK'
  BY <1>2 DEF Keep, Receives, Push
<1>3. ASSUME NEW t \in Thread, NEW s \in Sub, Visit(t, s)
      PROVE  TypeOK'
  <2>1. work[t] \in Job
    BY <1>3 DEF Visit
  <2>2. [work[t] EXCEPT !.todo = @ \ {s}] \in Job
    BY <2>1 DEF Job
  <2> QED
    BY <1>3, <2>1, <2>2 DEF Visit
<1>4. ASSUME NEW t \in Thread, LoadInc(t)
      PROVE  TypeOK'
  <2>1. work[t] \in Job
    BY <1>4 DEF LoadInc
  <2>2. [work[t] EXCEPT !.seen = count] \in Job
    BY <2>1 DEF Job
  <2> QED
    BY <1>4, <2>1, <2>2 DEF LoadInc
<1>5. ASSUME NEW t \in Thread, StoreInc(t)
      PROVE  TypeOK'
  <2>1. work[t] \in Job /\ work[t].seen \in Nat
    BY <1>5 DEF StoreInc, Job
  <2>2. [work[t] EXCEPT !.due = FALSE, !.seen = None] \in Job
    BY <2>1 DEF Job
  <2> QED
    BY <1>5, <2>1, <2>2 DEF StoreInc, CountUp
<1>6. ASSUME NEW t \in Thread, NextBuffered(t)
      PROVE  TypeOK'
  <2>1. Head(list) \in Event /\ Tail(list) \in Seq(Event)
    BY <1>6 DEF NextBuffered
  <2>2. /\ work' \in [Thread -> Job \cup {None}]
        /\ via' \subseteq Channel /\ sub_online' \subseteq Sub
        /\ alarming' \subseteq Box /\ handling' \subseteq Box
        /\ direct' \in BOOLEAN /\ count' \in Nat /\ uneven' \in BOOLEAN
    BY <1>6, <2>1, HandlingTyped DEF NextBuffered
  <2> QED
    BY <1>6, <2>1, <2>2 DEF NextBuffered
<1>7. ASSUME NEW t \in Thread, Release(t)
      PROVE  TypeOK'
  BY <1>7 DEF Release, Box
<1>8. ASSUME NEW t \in Thread, LeaveBufferMode(t)
      PROVE  /\ owner' \in [Box -> Thread \cup {None}]
             /\ work' \in [Thread -> Job \cup {None}]
  <2> DEFINE job == [todo |-> {}, up |-> FALSE, due |-> FALSE, seen |-> None,
                     drain |-> TRUE]
  <2>1. job \in Job
    BY DEF Job
  <2>2. CASE UNCHANGED <<owner, work>>
    BY <2>2
  <2>3. CASE ~UNCHANGED <<owner, work>>
    <3>1. /\ owner' = [owner EXCEPT ![Top] = t]
          /\ work' = [work EXCEPT ![t] = job]
      BY <1>8, <2>3 DEF LeaveBufferMode
    <3> HIDE DEF job
    <3> QED
      BY <2>1, <3>1 DEF Box
  <2> QED
    BY <1>8, <2>2, <2>3
<1>9. UI \in Thread /\ Worker \in Thread
  BY DEF Thread
<1>10. CASE OpenDialog
  BY <1>10 DEF OpenDialog, EnterBufferMode
<1>11. CASE CloseDialog
  BY <1>8, <1>9, <1>11 DEF CloseDialog
<1>12. CASE WorkerEnters
  BY <1>12 DEF WorkerEnters, EnterBufferMode
<1>13. CASE WorkerLeaves
  BY <1>8, <1>9, <1>13 DEF WorkerLeaves
<1>a. ASSUME NEW S, ClearTop(S), owner' \in [Box -> Thread \cup {None}],
             clear' \in Clearing \cup {None}, handling' \subseteq Box
      PROVE  TypeOK'
  <2>1. /\ UNCHANGED <<work, via, sub_online, buffer_mode, dialog, scanning, last,
                        events>>
        /\ alarming' \subseteq alarming
        /\ direct' = FALSE /\ count' = 0 /\ list' = <<>>
    BY <1>a DEF ClearTop
  <2>2. uneven' \in BOOLEAN
    <3>1. uneven' = ((Sub \cap alarming) \ S # {})
      BY <1>a DEF ClearTop
    <3>2. CASE (Sub \cap alarming) \ S # {}
      BY <3>1, <3>2, Zenon
    <3>3. CASE (Sub \cap alarming) \ S = {}
      BY <3>1, <3>3, Zenon
    <3> QED
      BY <3>2, <3>3
  <2>3. direct' \in BOOLEAN
    BY <2>1, Zenon
  <2>4. count' \in Nat /\ list' \in Seq(Event)
    BY <2>1
  <2> QED
    BY <1>a, <2>1, <2>2, <2>3, <2>4
<1>14. CASE ClearMachine
  BY <1>a, <1>14 DEF ClearMachine
<1>15. CASE ClearGroup
  BY <1>a, <1>15 DEF ClearGroup
<1>16. CASE MachineHandled
  <2>1. handling' \subseteq Box /\ UNCHANGED <<owner, clear>>
    BY <1>16 DEF MachineHandled
  <2> QED
    BY <1>a, <1>16, <2>1 DEF MachineHandled
<1>17. ASSUME NEW x \in Box, HandleAlarm(x)
       PROVE  TypeOK'
  BY <1>17 DEF HandleAlarm
<1>18. ASSUME NEW s \in Sub, BeginClearSub(s), handling' \subseteq handling
       PROVE  TypeOK'
  BY <1>9, <1>18 DEF BeginClearSub, Clearing, Box
<1>19. ASSUME NEW s \in Sub, ClearSub(s) \/ SubHandled(s)
       PROVE  TypeOK'
  BY <1>18, <1>19 DEF ClearSub, SubHandled
<1>20. clear # None => clear \in Clearing /\ clear.sub \in Sub
  BY DEF Clearing
<1>21. EndClearSub /\ clear # None
       => owner' \in [Box -> Thread \cup {None}] /\ clear' = None
  BY <1>20 DEF EndClearSub, Box
<1>22. CASE DecNothing
  BY <1>21, <1>22 DEF DecNothing, Decrementing
<1>23. CASE LoadDec
  <2>1. [clear EXCEPT !.seen = count] \in Clearing
    BY <1>20, <1>23 DEF LoadDec, Decrementing, Clearing
  <2> QED
    BY <1>23, <2>1 DEF LoadDec
<1>24. CASE StoreDec
  <2>1. [clear EXCEPT !.top = TRUE] \in Clearing
    BY <1>20, <1>24 DEF StoreDec, Decrementing, Clearing
  <2>2. clear.seen \in Nat /\ clear.seen # 0
    BY <1>20, <1>24 DEF StoreDec, Decrementing, Clearing
  <2>3. count' = clear.seen - 1 /\ count' \in Nat
    BY <1>24, <2>2 DEF StoreDec
  <2>4. owner' \in [Box -> Thread \cup {None}] /\ clear' \in Clearing \cup {None}
    <3>1. CASE LastCleared(clear.seen - 1)
      BY <1>24, <2>1, <3>1 DEF StoreDec
    <3>2. CASE ~LastCleared(clear.seen - 1)
      BY <1>21, <1>24, <3>2 DEF StoreDec, Decrementing
    <3> QED
      BY <3>1, <3>2
  <2> QED
    BY <1>24, <2>3, <2>4 DEF StoreDec
<1>25. CASE ClearParent
  <2>1. clear' = None /\ handling' = handling
        /\ owner' \in [Box -> Thread \cup {None}]
    BY <1>21, <1>25 DEF ClearParent
  <2> QED
    BY <1>a, <1>25, <2>1 DEF ClearParent
<1>26. CASE UNCHANGED vars
  BY <1>26 DEF vars
<1> QED
  BY <1>1, <1>2, <1>3, <1>4, <1>5, <1>6, <1>7, <1>10, <1>11, <1>12, <1>13,
     <1>14, <1>15, <1>16, <1>17, <1>19, <1>22, <1>23, <1>24, <1>25, <1>26
     DEF Next, Works, User, UserWaits

LEMMA InitTyped == Init => TypeOK
<1> SUFFICES ASSUME Init PROVE TypeOK
  OBVIOUS
<1>1. /\ buffer_mode \in BOOLEAN /\ direct \in BOOLEAN /\ uneven \in BOOLEAN
      /\ dialog \in BOOLEAN /\ scanning \in BOOLEAN
      /\ last \in [Channel -> BOOLEAN]
  BY Zenon DEF Init
<1>2. list \in Seq(Event) /\ count \in Nat /\ events \in Nat
  BY DEF Init
<1>3. /\ owner \in [Box -> Thread \cup {None}] /\ work \in [Thread -> Job \cup {None}]
      /\ clear \in Clearing \cup {None}
      /\ via \subseteq Channel /\ sub_online \subseteq Sub
      /\ alarming \subseteq Box /\ handling \subseteq Box
  BY Zenon DEF Init
<1> QED
  BY <1>1, <1>2, <1>3 DEF TypeOK

\* Every variable has its type, whatever the submachines, the channels and the
\* events: what the handlers, the buffer and the clearing of alarms store in
\* the members of AlarmMachine.h, the count being never negative.
THEOREM Typing == Spec => []TypeOK
BY InitTyped, TypeStep, PTL DEF Spec

-----------------------------------------------------------------------------
(* The count agrees with the alarms                                        *)

Due(t)      == work[t] # None /\ work[t].due
Seen(t)     == work[t] # None /\ work[t].seen # None
Idle        == \A t \in Thread : work[t] = None
AloneAt(t)  == \A u \in Thread \ {t} : work[u] = None

LEMMA CountedFinite ==
    /\ IsFiniteSet(Counted) /\ Cardinality(Counted) \in Nat
    /\ Cardinality(Counted) = 0 <=> Counted = {}
    /\ \A s : s \in Sub => IsFiniteSet(Counted \cup {s})
<1>1. IsFiniteSet(Counted)
  BY BoundAssumption, FS_Subset, Counted \subseteq Sub DEF Counted
<1> QED
  BY <1>1, FS_CardinalityType, FS_EmptySet, FS_AddElement

\* A thread that has the lock is the only one that works.
LEMMA Alone ==
    ASSUME TypeOK, Exclusive
    PROVE  /\ owner[Top] = None => Idle /\ ~Uncounted
           /\ \A t \in Thread : work[t] # None => AloneAt(t)
<1>1. None \notin Thread
  BY NameAssumption DEF Thread
<1> QED
  BY <1>1 DEF Exclusive, Idle, AloneAt, Uncounted

\* What neither counts nor clears keeps the agreement.
LEMMA Frame ==
    ASSUME Loaded, Agree, UNCHANGED <<clear, alarming, direct, count, uneven>>,
           \A t \in Thread : Due(t)' <=> Due(t),
           \A t \in Thread : Seen(t)' => Seen(t) /\ work'[t].seen = work[t].seen
    PROVE  Loaded' /\ Agree'
<1>1. Uncounted' <=> Uncounted
  BY DEF Uncounted, Due
<1>2. (Decrementing' <=> Decrementing) /\ Counted' = Counted
  BY DEF Decrementing, Counted
<1>3. \A t \in Thread : work'[t] # None /\ work'[t].seen # None
                        => work'[t].due /\ work'[t].seen = count'
  BY DEF Loaded, Due, Seen
<1>4. Loaded'
  BY <1>1, <1>2, <1>3 DEF Loaded
<1>5. Agree'
  BY <1>1, <1>2 DEF Agree, Up, Down
<1> QED
  BY <1>4, <1>5

\* An event is handled while no submachine waits to be counted.
LEMMA Handled ==
    ASSUME TypeOK, Loaded, Agree, ~Torn, ~Uncounted,
           NEW t \in Thread, NEW e \in Event, NEW drain \in BOOLEAN,
           HandleAdemcoEvent(t, e, drain), AloneAt(t), UNCHANGED clear
    PROVE  Loaded' /\ Agree'
<1> DEFINE due == e.kind = "alarm" /\ e.sub # None /\ e.sub \notin alarming
<1>1. /\ UNCHANGED <<count, uneven>>
      /\ direct' <=> direct \/ (e.kind = "alarm" /\ e.sub = None)
      /\ alarming' = IF e.kind = "alarm"
                     THEN alarming \cup ({Top, e.sub} \ {None}) ELSE alarming
      /\ due => ~Decrementing
  BY DEF HandleAdemcoEvent
<1>2. /\ work'[t] # None /\ work'[t].due = due /\ work'[t].seen = None
      /\ \A u \in Thread \ {t} : work'[u] = None
  <2>1. PICK job \in Job : /\ work' = [work EXCEPT ![t] = job]
                           /\ job.due = due /\ job.seen = None
    BY JobMade DEF IsDue
  <2>2. job # None
    BY NoneAssumption
  <2> HIDE DEF due
  <2> QED
    BY <2>1, <2>2 DEF TypeOK, AloneAt
<1>3. Uncounted' <=> due
  BY <1>2 DEF Uncounted
<1>4. Decrementing' <=> Decrementing
  BY DEF Decrementing
<1>5. Loaded'
  BY <1>1, <1>2, <1>3, <1>4 DEF Loaded
<1> HIDE DEF due
<1>6. /\ e.kind = "alarm" => Top \in alarming'
      /\ e.kind # "alarm" => alarming' = alarming /\ (direct' <=> direct) /\ ~due
      /\ Top \in alarming => Top \in alarming'
  BY <1>1, NameAssumption DEF due
<1>7. CASE due
  <2>1. e.sub \in Sub /\ e.sub \notin Counted /\ Counted' = Counted \cup {e.sub}
    BY <1>1, <1>7, Kinds, NameAssumption DEF due, Counted
  <2>2. Cardinality(Counted') = Cardinality(Counted) + 1
    BY <2>1, CountedFinite, FS_AddElement
  <2>3. Up' = 1 /\ Up = 0 /\ Down' = 0 /\ Down = 0
    BY <1>1, <1>3, <1>4, <1>7 DEF Up, Down
  <2>4. e.kind = "alarm" /\ Top \in alarming' /\ Counted' # {}
    BY <1>6, <1>7, <2>1 DEF due
  <2>5. Cardinality(Counted) \in Nat /\ count \in Nat
    BY CountedFinite DEF TypeOK
  <2>6. /\ count' + Up' = count + Up + 1
        /\ Cardinality(Counted') + Down' = Cardinality(Counted) + Down + 1
    BY <1>1, <2>2, <2>3, <2>5
  <2>7. /\ count + Up <= Cardinality(Counted) + Down
        /\ ~uneven => count + Up = Cardinality(Counted) + Down
    BY DEF Agree
  <2> HIDE DEF Up, Down
  <2>8. /\ count' + Up' <= Cardinality(Counted') + Down'
        /\ ~uneven' => count' + Up' = Cardinality(Counted') + Down'
    BY <1>1, <2>3, <2>5, <2>6, <2>7
  <2> QED
    BY <1>5, <2>4, <2>8 DEF Agree
<1>8. CASE ~due
  <2>1. Counted' = Counted
    BY <1>1, <1>8, Kinds, NameAssumption DEF due, Counted
  <2>2. Up' = 0 /\ Up = 0 /\ Down' = Down /\ (Down = 0 \/ Down = 1)
    BY <1>3, <1>4, <1>8 DEF Up, Down
  <2>3. e.kind = "alarm" => direct' \/ Counted' # {}
    <3>1. ASSUME e.kind = "alarm", e.sub # None
          PROVE  e.sub \in Counted
      BY <1>8, <3>1, Kinds DEF due, Counted
    <3> QED
      BY <1>1, <2>1, <3>1
  <2>4. direct' \/ count' > 0 \/ Uncounted' => Top \in alarming'
    BY <1>1, <1>3, <1>6, <1>8 DEF Agree
  <2>5. ~uneven' => \/ clear' # None /\ clear'.top /\ Top \in alarming'
                    \/ Top \in alarming' <=> \/ direct' \/ Counted' # {}
                                             \/ Decrementing'
    BY <1>1, <1>4, <1>6, <2>1, <2>3 DEF Agree
  <2>6. count' + Up' = count + Up /\ Cardinality(Counted') + Down'
        = Cardinality(Counted) + Down
    BY <1>1, <2>1, <2>2
  <2> QED
    BY <1>1, <1>5, <2>4, <2>5, <2>6 DEF Agree
<1> QED
  BY <1>7, <1>8

\* The machine is cleared.
LEMMA Cleared ==
    ASSUME TypeOK, Exclusive, Loaded, NEW S, ClearTop(S), clear' = None
    PROVE  Loaded' /\ Agree'
<1>1. /\ UNCHANGED work /\ owner[Top] = None /\ count' = 0 /\ ~direct'
      /\ alarming' = alarming \ (S \cup {Top})
      /\ uneven' <=> (Sub \cap alarming) \ S # {}
  BY DEF ClearTop
<1>2. Idle /\ ~Uncounted
  BY <1>1, Alone
<1>3. ~Uncounted' /\ ~Decrementing'
  BY <1>1, <1>2 DEF Idle, Uncounted, Decrementing
<1>4. Loaded'
  BY <1>1, <1>2, <1>3 DEF Idle, Loaded
<1>5. IsFiniteSet(Counted') /\ Cardinality(Counted') \in Nat
      /\ (Counted' = {} => Cardinality(Counted') = 0)
  BY FS_Subset, FS_CardinalityType, FS_EmptySet, BoundAssumption,
     Counted' \subseteq Sub DEF Counted
<1>6. ~uneven' => Counted' = {}
  BY <1>1 DEF Counted
<1>7. Up' = 0 /\ Down' = 0 /\ Top \notin alarming'
  BY <1>1, <1>3 DEF Up, Down
<1> QED
  BY <1>1, <1>3, <1>4, <1>5, <1>6, <1>7 DEF Agree

\* The lock of the machine is had by the thread that works, through every step.
LEMMA ExclusiveStep == TypeOK /\ Exclusive /\ [Next]_vars => Exclusive'
<1> SUFFICES ASSUME TypeOK, Exclusive, [Next]_vars
             PROVE  Exclusive'
  OBVIOUS
<1>1. UI \in Thread /\ Worker \in Thread /\ Channel \subseteq Thread
  BY DEF Thread
<1>2. Top \in Box /\ Sub \subseteq Box /\ Top \notin Sub /\ None \notin Thread
  BY NameAssumption DEF Box, Thread
<1>3. \A t \in Thread : work[t] # None => AloneAt(t)
  BY Alone
<1>4. ASSUME NEW t \in Thread, NEW x, x # None, owner[Top] \in {None, t},
             owner' = [owner EXCEPT ![Top] = t] \/ (owner' = owner /\ owner[Top] = t),
             work' = [work EXCEPT ![t] = x]
      PROVE  Exclusive'
  BY <1>2, <1>4 DEF TypeOK, Exclusive
<1>5. ASSUME UNCHANGED work, owner'[Top] = owner[Top]
      PROVE  Exclusive'
  BY <1>5 DEF Exclusive
<1>6. ASSUME NEW t \in Thread, LeaveBufferMode(t)
      PROVE  Exclusive'
  <2> DEFINE job == [todo |-> {}, up |-> FALSE, due |-> FALSE, seen |-> None,
                     drain |-> TRUE]
  <2>1. job \in Job
    BY DEF Job
  <2>2. job # None
    BY <2>1, NoneAssumption
  <2>3. CASE ~UNCHANGED <<owner, work>>
    <3>1. /\ owner[Top] = None
          /\ owner' = [owner EXCEPT ![Top] = t]
          /\ work' = [work EXCEPT ![t] = job]
      BY <1>6, <2>3 DEF LeaveBufferMode
    <3> HIDE DEF job
    <3> QED
      BY <1>4, <2>2, <3>1
  <2>4. CASE UNCHANGED <<owner, work>>
    BY <1>5, <2>4
  <2> QED
    BY <2>3, <2>4
<1>7. ASSUME NEW t \in Thread, NEW e \in Event, NEW drain \in BOOLEAN,
             HandleAdemcoEvent(t, e, drain)
      PROVE  \E x : x # None /\ work' = [work EXCEPT ![t] = x]
  BY <1>7, JobMade, NoneAssumption
<1>8. ASSUME NEW t \in Channel, NEW e \in Event, HandleNow(t, e)
      PROVE  Exclusive'
  <2>1. /\ owner[Top] = None /\ owner' = [owner EXCEPT ![Top] = t]
        /\ HandleAdemcoEvent(t, e, FALSE)
    BY <1>8 DEF HandleNow, Receives
  <2>2. FALSE \in BOOLEAN /\ t \in Thread
    BY <1>1, Zenon
  <2>3. PICK x : x # None /\ work' = [work EXCEPT ![t] = x]
    BY <1>7, <2>1, <2>2
  <2> QED
    BY <1>4, <2>1, <2>2, <2>3
<1>9. ASSUME NEW t \in Channel, NEW e \in Event, Keep(t, e)
      PROVE  Exclusive'
  BY <1>5, <1>9 DEF Keep, locks
<1>10. ASSUME NEW t \in Thread, work[t] # None, UNCHANGED owner,
              NEW x, x # None, work' = [work EXCEPT ![t] = x]
       PROVE  Exclusive'
  <2>1. owner[Top] = t
    BY <1>10 DEF Exclusive
  <2> QED
    BY <1>4, <1>10, <2>1
<1>11. ASSUME NEW t \in Thread, work[t] # None
       PROVE  work[t] \in Job
  BY <1>11 DEF TypeOK
<1>12. ASSUME NEW t \in Thread, NEW s \in Sub, Visit(t, s)
       PROVE  Exclusive'
  <2>1. [work[t] EXCEPT !.todo = @ \ {s}] \in Job
    BY <1>11, <1>12 DEF Visit, Job
  <2> QED
    BY <1>10, <1>12, <2>1, NoneAssumption DEF Visit
<1>13. ASSUME NEW t \in Thread, LoadInc(t)
       PROVE  Exclusive'
  <2>1. [work[t] EXCEPT !.seen = count] \in Job
    BY <1>11, <1>13 DEF LoadInc, Job, TypeOK
  <2> QED
    BY <1>10, <1>13, <2>1, NoneAssumption DEF LoadInc
<1>14. ASSUME NEW t \in Thread, StoreInc(t)
       PROVE  Exclusive'
  <2>1. [work[t] EXCEPT !.due = FALSE, !.seen = None] \in Job
    BY <1>11, <1>14 DEF StoreInc, Job
  <2> QED
    BY <1>10, <1>14, <2>1, NoneAssumption DEF StoreInc
<1>15. ASSUME NEW t \in Thread, NextBuffered(t)
       PROVE  Exclusive'
  <2>0. Head(list) \in Event
    BY <1>15 DEF NextBuffered, TypeOK
  <2>1. /\ work[t] # None /\ UNCHANGED owner
        /\ HandleAdemcoEvent(t, Head(list), TRUE)
    BY <1>15, Zenon DEF NextBuffered, Done
  <2>2. TRUE \in BOOLEAN
    BY Zenon
  <2>3. PICK x : x # None /\ work' = [work EXCEPT ![t] = x]
    BY <1>7, <2>0, <2>1, <2>2
  <2> QED
    BY <1>10, <2>1, <2>3
<1>16. ASSUME NEW t \in Thread, Release(t)
       PROVE  Exclusive'
  <2>1. AloneAt(t)
    BY <1>3, <1>16 DEF Release, Done
  <2>2. /\ owner' = [owner EXCEPT ![Top] = None]
        /\ work' = [work EXCEPT ![t] = None]
    BY <1>16 DEF Release
  <2>3. owner'[Top] = None
    BY <1>2, <2>2 DEF TypeOK
  <2>4. \A u \in Thread : work'[u] = None
    BY <2>1, <2>2 DEF AloneAt, TypeOK
  <2> QED
    BY <1>2, <2>3, <2>4 DEF Exclusive
<1>17. CASE OpenDialog
  BY <1>5, <1>17 DEF OpenDialog, locks
<1>18. CASE CloseDialog
  BY <1>1, <1>6, <1>18 DEF CloseDialog
<1>19. CASE WorkerEnters
  BY <1>5, <1>19 DEF WorkerEnters, locks
<1>20. CASE WorkerLeaves
  BY <1>1, <1>6, <1>20 DEF WorkerLeaves
<1>21. CASE ClearMachine \/ ClearGroup \/ MachineHandled
  BY <1>5, <1>21 DEF ClearMachine, ClearGroup, MachineHandled, ClearTop
<1>22. ASSUME NEW x \in Box, HandleAlarm(x)
       PROVE  Exclusive'
  BY <1>5, <1>22 DEF HandleAlarm, locks
<1>23. ASSUME NEW s \in Sub, ClearSub(s) \/ SubHandled(s)
       PROVE  Exclusive'
  <2>1. UNCHANGED work /\ owner' = [owner EXCEPT ![s] = UI]
    BY <1>23 DEF ClearSub, SubHandled, BeginClearSub
  <2> QED
    BY <1>2, <1>5, <2>1 DEF TypeOK
<1>24. EndClearSub /\ clear # None => owner'[Top] = owner[Top]
  BY <1>2 DEF EndClearSub, TypeOK, Clearing
<1>25. CASE DecNothing \/ LoadDec \/ StoreDec \/ ClearParent
  <2>1. UNCHANGED work /\ clear # None /\ (EndClearSub \/ UNCHANGED owner)
    BY <1>25 DEF DecNothing, LoadDec, StoreDec, ClearParent, Decrementing, ClearTop
  <2> QED
    BY <1>5, <1>24, <2>1
<1>26. CASE UNCHANGED vars
  BY <1>5, <1>26 DEF vars, locks
<1> QED
  BY <1>8, <1>9, <1>12, <1>13, <1>14, <1>15, <1>16, <1>17, <1>18, <1>19, <1>20,
     <1>21, <1>22, <1>23, <1>25, <1>26 DEF Next, Works, User, UserWaits

\* One thread counts at a time, up or down: then what is counted is right.
LEMMA CountStep ==
    ~Torn /\ TypeOK /\ Exclusive /\ Loaded /\ Agree /\ [Next]_vars
    => Loaded' /\ Agree'
<1> SUFFICES ASSUME ~Torn, TypeOK, Exclusive, Loaded, Agree, [Next]_vars
             PROVE  Loaded' /\ Agree'
  OBVIOUS
<1>1. UI \in Thread /\ Worker \in Thread /\ Channel \subseteq Thread
  BY DEF Thread
<1>2. \A t \in Thread : work[t] # None => work[t] \in Job /\ AloneAt(t)
  BY Alone DEF TypeOK
<1>3. ASSUME UNCHANGED <<work, clear, flags>>
      PROVE  Loaded' /\ Agree'
  BY <1>3, Frame DEF flags, Due, Seen
<1>4. ASSUME NEW t \in Thread, NEW x, work' = [work EXCEPT ![t] = x],
             UNCHANGED <<clear, alarming, direct, count, uneven>>,
             ~Due(t), x # None => ~x.due /\ x.seen = None
      PROVE  Loaded' /\ Agree'
  <2>1. ~Due(t)' /\ ~Seen(t)' /\ \A u \in Thread \ {t} : work'[u] = work[u]
    BY <1>4 DEF Due, Seen, TypeOK
  <2>2. \A u \in Thread : /\ Due(u)' <=> Due(u)
                          /\ Seen(u)' => Seen(u) /\ work'[u].seen = work[u].seen
    BY <1>4, <2>1 DEF Due, Seen
  <2> QED
    BY <1>4, <2>2, Frame
<1>5. ASSUME NEW t \in Thread, LeaveBufferMode(t), UNCHANGED <<clear, flags>>
      PROVE  Loaded' /\ Agree'
  <2> DEFINE job == [todo |-> {}, up |-> FALSE, due |-> FALSE, seen |-> None,
                     drain |-> TRUE]
  <2>1. ~job.due /\ job.seen = None
    BY Zenon
  <2>2. CASE ~UNCHANGED <<owner, work>>
    <3>1. owner[Top] = None /\ work' = [work EXCEPT ![t] = job]
      BY <1>5, <2>2 DEF LeaveBufferMode
    <3>2. ~Due(t)
      BY <3>1, Alone DEF Idle, Due
    <3> HIDE DEF job
    <3> QED
      BY <1>4, <1>5, <2>1, <3>1, <3>2 DEF flags
  <2>3. CASE UNCHANGED <<owner, work>>
    BY <1>3, <1>5, <2>3
  <2> QED
    BY <2>2, <2>3
<1>8. ASSUME NEW t \in Channel, NEW e \in Event, HandleNow(t, e)
      PROVE  Loaded' /\ Agree'
  <2>1. /\ owner[Top] = None /\ UNCHANGED clear
        /\ HandleAdemcoEvent(t, e, FALSE)
    BY <1>8 DEF HandleNow, Receives
  <2>2. FALSE \in BOOLEAN /\ t \in Thread
    BY <1>1, Zenon
  <2>3. ~Uncounted /\ AloneAt(t)
    BY <2>1, Alone DEF Idle, AloneAt
  <2> QED
    BY <2>1, <2>2, <2>3, Handled
<1>9. ASSUME NEW t \in Channel, NEW e \in Event, Keep(t, e)
      PROVE  Loaded' /\ Agree'
  BY <1>3, <1>9 DEF Keep, locks
<1>10. ASSUME NEW t \in Thread, NEW s \in Sub, Visit(t, s)
       PROVE  Loaded' /\ Agree'
  <2> DEFINE job == [work[t] EXCEPT !.todo = @ \ {s}]
  <2>1. /\ work' = [work EXCEPT ![t] = job]
        /\ UNCHANGED <<clear, alarming, direct, count, uneven>>
        /\ work[t] # None
    BY <1>10 DEF Visit
  <2>2. job \in Job /\ job.due = work[t].due /\ job.seen = work[t].seen
    BY <1>2, <2>1 DEF Job
  <2>3. job # None
    BY <2>2, NoneAssumption
  <2> HIDE DEF job
  <2>4. \A u \in Thread : /\ Due(u)' <=> Due(u)
                          /\ Seen(u)' => Seen(u) /\ work'[u].seen = work[u].seen
    BY <2>1, <2>2, <2>3 DEF Due, Seen, TypeOK
  <2> QED
    BY <2>1, <2>4, Frame
<1>11. ASSUME NEW t \in Thread, LoadInc(t)
       PROVE  Loaded' /\ Agree'
  <2> DEFINE job == [work[t] EXCEPT !.seen = count]
  <2>1. /\ work' = [work EXCEPT ![t] = job]
        /\ UNCHANGED <<clear, alarming, direct, count, uneven>>
        /\ work[t] # None /\ work[t].due
    BY <1>11 DEF LoadInc, flags
  <2>2. job \in Job /\ job.due = work[t].due /\ job.seen = count
    BY <1>2, <2>1 DEF Job, TypeOK
  <2>3. job # None
    BY <2>2, NoneAssumption
  <2> HIDE DEF job
  <2>4. /\ work'[t] = job
        /\ \A u \in Thread \ {t} : work'[u] = work[u]
    BY <2>1 DEF TypeOK
  <2>5. (Uncounted' <=> Uncounted) /\ (Decrementing' <=> Decrementing)
        /\ Counted' = Counted
    BY <2>1, <2>2, <2>3, <2>4 DEF Uncounted, Decrementing, Counted
  <2>6. Agree'
    BY <2>1, <2>5 DEF Agree, Up, Down
  <2>7. Loaded'
    BY <2>1, <2>2, <2>3, <2>4, <2>5 DEF Loaded
  <2> QED
    BY <2>6, <2>7
<1>12. ASSUME NEW t \in Thread, StoreInc(t)
       PROVE  Loaded' /\ Agree'
  <2> DEFINE job == [work[t] EXCEPT !.due = FALSE, !.seen = None]
  <2>1. /\ work' = [work EXCEPT ![t] = job]
        /\ UNCHANGED <<clear, alarming, direct, uneven>>
        /\ work[t] # None /\ work[t].seen # None
        /\ count' = work[t].seen + 1
    BY <1>12 DEF StoreInc, CountUp
  <2>2. job \in Job /\ ~job.due /\ job.seen = None
    BY <1>2, <2>1 DEF Job
  <2> HIDE DEF job
  <2>3. work[t].due /\ work[t].seen = count /\ count' = count + 1
    BY <2>1 DEF Loaded
  <2>4. Uncounted /\ ~Decrementing
    BY <2>1, <2>3 DEF Uncounted, Loaded
  <2>5. work'[t] = job /\ \A u \in Thread \ {t} : work'[u] = None
    BY <1>2, <2>1 DEF TypeOK, AloneAt
  <2>6. ~Uncounted' /\ ~Decrementing' /\ Counted' = Counted
    BY <2>1, <2>2, <2>4, <2>5 DEF Uncounted, Decrementing, Counted
  <2>7. Loaded'
    BY <2>1, <2>2, <2>5, <2>6 DEF Loaded
  <2>8. Up = 1 /\ Up' = 0 /\ Down = 0 /\ Down' = 0 /\ count \in Nat
    BY <2>4, <2>6 DEF Up, Down, TypeOK
  <2>9. Agree'
    BY <2>1, <2>3, <2>4, <2>6, <2>8, CountedFinite DEF Agree
  <2> QED
    BY <2>7, <2>9
<1>13. ASSUME NEW t \in Thread, NextBuffered(t)
       PROVE  Loaded' /\ Agree'
  <2>0. Head(list) \in Event
    BY <1>13 DEF NextBuffered, TypeOK
  <2>1. /\ work[t] # None /\ ~work[t].due /\ UNCHANGED clear
        /\ HandleAdemcoEvent(t, Head(list), TRUE)
    BY <1>13, Zenon DEF NextBuffered, Done
  <2>2. TRUE \in BOOLEAN
    BY Zenon
  <2>3. ~Uncounted /\ AloneAt(t)
    BY <1>2, <2>1 DEF Uncounted, AloneAt
  <2> QED
    BY <2>0, <2>1, <2>2, <2>3, Handled
<1>14. ASSUME NEW t \in Thread, Release(t)
       PROVE  Loaded' /\ Agree'
  BY <1>4, <1>14 DEF Release, Done, Due, flags
<1>15. CASE OpenDialog
  BY <1>3, <1>15 DEF OpenDialog, locks
<1>16. CASE CloseDialog
  BY <1>1, <1>5, <1>16 DEF CloseDialog
<1>17. CASE WorkerEnters
  BY <1>3, <1>17 DEF WorkerEnters, locks
<1>18. CASE WorkerLeaves
  BY <1>1, <1>5, <1>18 DEF WorkerLeaves
<1>19. CASE ClearMachine \/ ClearGroup \/ MachineHandled
  <2>1. clear = None /\ UNCHANGED clear /\ \E S : ClearTop(S)
    BY <1>19 DEF ClearMachine, ClearGroup, MachineHandled, MayClear, UserFree
  <2> QED
    BY <2>1, Cleared
<1>20. ASSUME NEW x \in Box, HandleAlarm(x)
       PROVE  Loaded' /\ Agree'
  <2>1. UNCHANGED <<work, clear, alarming, direct, count, uneven>>
    BY <1>20 DEF HandleAlarm, locks
  <2> QED
    BY <2>1, Frame DEF Due, Seen
<1>21. ASSUME NEW s \in Sub, BeginClearSub(s)
       PROVE  Loaded' /\ Agree'
  <2>1. /\ clear = None /\ s \in Counted /\ ~Uncounted
        /\ alarming' = alarming \ {s}
        /\ UNCHANGED <<work, direct, count, uneven>>
        /\ clear' = [sub |-> s, seen |-> None, top |-> FALSE]
    BY <1>21 DEF BeginClearSub, UserFree, Counted
  <2>2. clear' # None /\ clear'.seen = None /\ ~clear'.top
    <3>1. clear' \in Clearing
      BY <2>1 DEF Clearing
    <3> QED
      BY <2>1, <3>1, NoneAssumption
  <2>3. ~Decrementing /\ Decrementing' /\ ~Uncounted'
    BY <2>1, <2>2 DEF Decrementing, Uncounted
  <2>4. Counted' = Counted \ {s} /\ (Top \in alarming' <=> Top \in alarming)
    BY <2>1, NameAssumption DEF Counted
  <2>5. Cardinality(Counted') = Cardinality(Counted) - 1
    BY <2>1, <2>4, CountedFinite, FS_RemoveElement
  <2>6. Up = 0 /\ Up' = 0 /\ Down = 0 /\ Down' = 1 /\ count \in Nat
    BY <2>1, <2>3 DEF Up, Down, TypeOK
  <2>7. Loaded'
    BY <2>1, <2>2, <2>3 DEF Loaded
  <2>8. Agree'
    BY <2>1, <2>3, <2>4, <2>5, <2>6, CountedFinite DEF Agree
  <2> QED
    BY <2>7, <2>8
<1>22. ASSUME NEW s \in Sub, ClearSub(s) \/ SubHandled(s)
       PROVE  Loaded' /\ Agree'
  BY <1>21, <1>22 DEF ClearSub, SubHandled
<1>23. Decrementing => ~Uncounted /\ clear \in Clearing /\ Up = 0 /\ Down = 1
  BY DEF Decrementing, Loaded, TypeOK, Up, Down
<1>24. CASE DecNothing
  <2>1. /\ Decrementing /\ count = 0 /\ clear' = None
        /\ UNCHANGED <<work, alarming, direct, count, uneven>>
    BY <1>24 DEF DecNothing, EndClearSub, flags
  <2>2. ~Decrementing' /\ ~Uncounted' /\ Counted' = Counted
    BY <1>23, <2>1 DEF Decrementing, Uncounted, Counted
  <2>3. Up' = 0 /\ Down' = 0
    BY <2>2 DEF Up, Down
  <2>4. uneven
    BY <1>23, <2>1, CountedFinite DEF Agree
  <2>5. Loaded'
    BY <2>1, <2>2 DEF Loaded
  <2>6. Agree'
    BY <1>23, <2>1, <2>2, <2>3, <2>4, CountedFinite DEF Agree
  <2> QED
    BY <2>5, <2>6
<1>25. CASE LoadDec
  <2>1. /\ Decrementing /\ clear' = [clear EXCEPT !.seen = count]
        /\ UNCHANGED <<work, alarming, direct, count, uneven>>
    BY <1>25 DEF LoadDec, flags
  <2>2. clear' \in Clearing \/ clear' = clear
    BY <1>23, <1>25, <2>1 DEF LoadDec, Clearing, TypeOK
  <2>3. clear' # None /\ clear'.seen = count /\ clear'.top = clear.top
    BY <1>23, <2>1, <2>2, NoneAssumption DEF Clearing
  <2>4. Decrementing' /\ ~Uncounted' /\ Counted' = Counted /\ ~clear.top
    BY <1>23, <2>1, <2>3 DEF Decrementing, Uncounted, Counted
  <2>5. Up' = 0 /\ Down' = 1
    BY <2>4 DEF Up, Down
  <2>6. Loaded'
    BY <2>1, <2>3, <2>4 DEF Loaded
  <2>7. Agree'
    BY <1>23, <2>1, <2>4, <2>5 DEF Agree
  <2> QED
    BY <2>6, <2>7
<1>26. CASE StoreDec
  <2>1. /\ Decrementing /\ clear.seen # None /\ count' = clear.seen - 1
        /\ UNCHANGED <<work, alarming, direct, uneven>>
        /\ IF LastCleared(clear.seen - 1)
           THEN clear' = [clear EXCEPT !.top = TRUE] ELSE clear' = None
    BY <1>26 DEF StoreDec, EndClearSub
  <2>2. count \in Nat \ {0} /\ count' = count - 1
    BY <1>23, <2>1 DEF Loaded, Clearing
  <2>3. \/ clear' = None /\ (direct \/ count' > 0)
        \/ clear' # None /\ clear'.top /\ ~direct /\ count' = 0
    <3>1. [clear EXCEPT !.top = TRUE] \in Clearing
      BY <1>23, <2>1 DEF Clearing
    <3>2. CASE LastCleared(clear.seen - 1)
      <4>1. ~direct /\ count' = 0 /\ clear' = [clear EXCEPT !.top = TRUE]
        BY <2>1, <3>2 DEF LastCleared
      <4>2. clear'.top
        BY <1>23, <2>1, <4>1 DEF Clearing
      <4> QED
        BY <3>1, <4>1, <4>2, NoneAssumption
    <3>3. CASE ~LastCleared(clear.seen - 1)
      <4>1. clear' = None /\ (direct \/ count' # 0)
        BY <2>1, <3>3 DEF LastCleared
      <4> QED
        BY <2>2, <4>1
    <3> QED
      BY <3>2, <3>3
  <2>4. ~Decrementing' /\ ~Uncounted' /\ Counted' = Counted
    BY <1>23, <2>1, <2>3 DEF Decrementing, Uncounted, Counted
  <2>5. Up' = 0 /\ Down' = 0
    BY <2>4 DEF Up, Down
  <2>6. Loaded'
    BY <1>23, <2>1, <2>4 DEF Loaded, Uncounted
  <2>7. /\ Top \in alarming
        /\ count' <= Cardinality(Counted)
        /\ ~uneven => count' = Cardinality(Counted)
    BY <1>23, <2>1, <2>2, CountedFinite DEF Agree
  <2>8. ~uneven' => \/ clear' # None /\ clear'.top
                    \/ direct' \/ Counted' # {}
    BY <2>1, <2>2, <2>3, <2>4, <2>7, CountedFinite
  <2>9. Agree'
    BY <2>1, <2>2, <2>4, <2>5, <2>7, <2>8, CountedFinite DEF Agree
  <2> QED
    BY <2>6, <2>9
<1>27. CASE ClearParent
  BY <1>27, Cleared DEF ClearParent, EndClearSub
<1>28. CASE UNCHANGED vars
  BY <1>3, <1>28 DEF vars, locks
<1> QED
  BY <1>8, <1>9, <1>10, <1>11, <1>12, <1>13, <1>14, <1>15, <1>16, <1>17, <1>18,
     <1>19, <1>20, <1>22, <1>24, <1>25, <1>26, <1>27, <1>28
     DEF Next, Works, User, UserWaits

\* If no two threads count at once, the count and the alarm shown by the machine
\* agree with the alarms of its submachines whenever nobody is at work on it: no
\* order of events, of buffering and of clearing lets them drift apart
\* (HandleAdemcoEvent, clear_ademco_event_list, dec_alarmingSubMachineCount).
THEOREM Agreement == ~Torn => (Spec => []AlarmAgrees)
<1> SUFFICES ASSUME ~Torn PROVE Spec => []AlarmAgrees
  OBVIOUS
<1>1. Init => Inv
  <2> SUFFICES ASSUME Init PROVE Inv
    OBVIOUS
  <2>1. TypeOK
    BY InitTyped
  <2>2. Exclusive /\ Loaded
    <3>1. /\ \A t \in Thread : work[t] = None
          /\ owner[Top] = None /\ clear = None /\ None \notin Thread
      BY NameAssumption DEF Init, Thread, Box
    <3> QED
      BY <3>1 DEF Exclusive, Loaded, Decrementing, Uncounted
  <2>3. Counted = {} /\ Up = 0 /\ Down = 0 /\ count = 0 /\ ~direct
        /\ Top \notin alarming /\ ~Uncounted /\ ~Decrementing
    BY DEF Init, Counted, Up, Down, Uncounted, Decrementing
  <2>4. Agree
    BY <2>3, CountedFinite DEF Agree
  <2> QED
    BY <2>1, <2>2, <2>4 DEF Inv
<1>2. Inv /\ [Next]_vars => Inv'
  BY TypeStep, ExclusiveStep, CountStep DEF Inv
<1>3. Inv => AlarmAgrees
  <2> SUFFICES ASSUME Inv, AtRest PROVE AlarmAgrees
    BY DEF AlarmAgrees
  <2>1. ~Uncounted /\ ~Decrementing /\ clear = None
    BY DEF AtRest, Uncounted, Decrementing
  <2>2. Up = 0 /\ Down = 0 /\ count \in Nat
    BY <2>1 DEF Up, Down, Inv, TypeOK
  <2> QED
    BY <2>1, <2>2, CountedFinite DEF Inv, Agree, AlarmAgrees
<1> QED
  BY <1>1, <1>2, <1>3, PTL DEF Spec

-----------------------------------------------------------------------------
(* The buffer                                                              *)

\* Only buffer mode has events wait.
Buffered == list # <<>> => buffer_mode

\* An event that waits was sent by a channel that is online by then, or it is
\* the one that makes it so.
InOrder ==
    \A ch \in Channel, n \in Nat :
        n < Len(list) /\ list[n + 1].ch = ch /\ list[n + 1].kind # "online"
        => OnlineAfter(ch, n)

\* The inductive invariant of the buffer.
BufferInv == TypeOK /\ Buffered /\ InOrder /\ NothingLost

\* What handling an event does to the channels.
LEMMA ViaChange ==
    ASSUME NEW t, NEW e, NEW drain, HandleAdemcoEvent(t, e, drain)
    PROVE  /\ e.kind = "online" => via' = via \cup {e.ch}
           /\ e.kind = "offline" => via' = via \ {e.ch}
           /\ e.kind \notin {"online", "offline"} => via' = via
<1> DEFINE new == CASE e.kind = "online"  -> via \cup {e.ch}
                    [] e.kind = "offline" -> via \ {e.ch}
                    [] OTHER              -> via
<1>1. via' = new
  BY DEF HandleAdemcoEvent
<1>2. CASE e.kind = "online"
  BY <1>1, <1>2
<1>3. CASE e.kind = "offline"
  BY <1>1, <1>3
<1>4. CASE e.kind \notin {"online", "offline"}
  BY <1>1, <1>4
<1> QED
  BY <1>2, <1>3, <1>4

\* Without events that wait it is as it is.
LEMMA AfterNone ==
    ASSUME NEW ch
    PROVE  OnlineAfter(ch, 0) <=> ch \in via
<1>1. Turns(ch, 0) = {}
  BY DEF Turns
<1> QED
  BY <1>1 DEF OnlineAfter

\* Handling the first event gets on to what there was to be after it.
LEMMA AfterHandled ==
    ASSUME TypeOK, list # <<>>, list' = Tail(list),
           NEW t, NEW drain, HandleAdemcoEvent(t, Head(list), drain),
           NEW ch \in Channel, NEW n \in Nat, n + 1 <= Len(list)
    PROVE  OnlineAfter(ch, n)' <=> OnlineAfter(ch, n + 1)
<1> DEFINE e == list[1]
           T == Turns(ch, n + 1)
           U == Turns(ch, n)'
           Is(k) == list[k].ch = ch /\ list[k].kind \in {"online", "offline"}
<1>1. /\ list \in Seq(Event) /\ Head(list) = e
      /\ \A i \in 1 .. n : list'[i] = list[i + 1]
      /\ 1 \in 1 .. n + 1
  BY DEF TypeOK
<1>2. T = {i \in 1 .. n + 1 : Is(i)}
  BY DEF Turns
<1>3. U = {i \in 1 .. n : Is(i + 1)}
  BY <1>1 DEF Turns
<1>4. /\ e.kind = "online" => via' = via \cup {e.ch}
      /\ e.kind = "offline" => via' = via \ {e.ch}
      /\ e.kind \notin {"online", "offline"} => via' = via
  BY <1>1, ViaChange
<1>5. /\ OnlineAfter(ch, n)' <=> IF U = {} THEN ch \in via'
                                 ELSE \E i \in U : /\ list'[i].kind = "online"
                                                   /\ \A j \in U : j <= i
      /\ OnlineAfter(ch, n + 1) <=> IF T = {} THEN ch \in via
                                    ELSE \E i \in T : /\ list[i].kind = "online"
                                                      /\ \A j \in T : j <= i
  BY DEF OnlineAfter
<1> HIDE DEF T, U, Is
<1>6. \A i \in 1 .. n : i + 1 \in 1 .. n + 1 /\ (i \in U <=> i + 1 \in T)
  BY <1>2, <1>3
<1>7. \A i \in T : i = 1 \/ (i - 1 \in 1 .. n /\ i - 1 \in U)
  BY <1>2, <1>3
<1>8. CASE U = {}
  <2>1. T \subseteq {1} /\ (1 \in T <=> Is(1))
    BY <1>1, <1>2, <1>7, <1>8
  <2>2. CASE Is(1)
    <3>1. T = {1}
      BY <2>1, <2>2
    <3>2. OnlineAfter(ch, n + 1) <=> list[1].kind = "online"
      BY <1>5, <3>1
    <3>3. ch \in via' <=> list[1].kind = "online"
      BY <1>4, <2>2 DEF Is
    <3> QED
      BY <1>5, <1>8, <3>2, <3>3
  <2>3. CASE ~Is(1)
    <3>1. T = {}
      BY <2>1, <2>3
    <3>2. ch \in via' <=> ch \in via
      BY <1>4, <2>3 DEF Is
    <3> QED
      BY <1>5, <1>8, <3>1, <3>2
  <2> QED
    BY <2>2, <2>3
<1>9. CASE U # {}
  <2>0. U \subseteq 1 .. n /\ T \subseteq 1 .. n + 1
    BY <1>2, <1>3
  <2>1. T # {}
    BY <1>6, <1>9, <2>0
  <2>2. ASSUME NEW i \in U, list'[i].kind = "online", \A j \in U : j <= i
        PROVE  OnlineAfter(ch, n + 1)
    <3>1. i + 1 \in T /\ list[i + 1].kind = "online"
      BY <1>1, <1>6, <2>0, <2>2
    <3>2. \A j \in T : j <= i + 1
      BY <1>7, <2>0, <2>2
    <3> QED
      BY <1>5, <2>1, <3>1, <3>2
  <2>3. ASSUME NEW i \in T, list[i].kind = "online", \A j \in T : j <= i
        PROVE  OnlineAfter(ch, n)'
    <3>1. PICK k \in U : TRUE
      BY <1>9
    <3>2. i # 1
      BY <1>6, <2>0, <2>3, <3>1
    <3>3. i - 1 \in U /\ i - 1 \in 1 .. n /\ list'[i - 1].kind = "online"
      BY <1>1, <1>7, <2>0, <2>3, <3>2
    <3>4. \A j \in U : j <= i - 1
      BY <1>6, <2>0, <2>3
    <3> QED
      BY <1>5, <1>9, <3>3, <3>4
  <2> QED
    BY <1>5, <1>9, <2>1, <2>2, <2>3
<1> QED
  BY <1>8, <1>9

\* An event that is put behind the others changes nothing of what is to be
\* before it, and settles what is to be after it.
LEMMA AfterKept ==
    ASSUME TypeOK, NEW e \in Event, list' = Append(list, e), via' = via,
           NEW ch \in Channel, NEW l \in Nat, l = Len(list)
    PROVE  /\ \A n \in 0 .. l : OnlineAfter(ch, n)' <=> OnlineAfter(ch, n)
           /\ OnlineAfter(ch, l + 1)'
                <=> IF e.ch = ch /\ e.kind \in {"online", "offline"}
                    THEN e.kind = "online" ELSE OnlineAfter(ch, l)
<1>1. /\ list \in Seq(Event) /\ l \in Nat
      /\ \A i \in 1 .. l : list'[i] = list[i]
      /\ list'[l + 1] = e
  BY DEF TypeOK
<1>2. ASSUME NEW n \in 0 .. l
      PROVE  OnlineAfter(ch, n)' <=> OnlineAfter(ch, n)
  <2>1. Turns(ch, n)' = Turns(ch, n) /\ Turns(ch, n) \subseteq 1 .. l
    BY <1>1 DEF Turns
  <2> QED
    BY <1>1, <2>1 DEF OnlineAfter
<1>3. Turns(ch, l + 1)' = Turns(ch, l) \cup (IF e.ch = ch /\ e.kind \in {"online", "offline"}
                                             THEN {l + 1} ELSE {})
  BY <1>1 DEF Turns
<1>4. Turns(ch, l) \subseteq 1 .. l
  BY DEF Turns
<1>5. OnlineAfter(ch, l + 1)' <=> IF Turns(ch, l + 1)' = {} THEN ch \in via
                                  ELSE \E i \in Turns(ch, l + 1)' :
                                          /\ list'[i].kind = "online"
                                          /\ \A j \in Turns(ch, l + 1)' : j <= i
  BY DEF OnlineAfter
<1>6. CASE e.ch = ch /\ e.kind \in {"online", "offline"}
  <2>1. Turns(ch, l + 1)' = Turns(ch, l) \cup {l + 1}
    BY <1>3, <1>6
  <2>2. \A j \in Turns(ch, l + 1)' : j <= l + 1
    BY <1>1, <1>4, <2>1
  <2>3. \A i \in Turns(ch, l + 1)' : (\A j \in Turns(ch, l + 1)' : j <= i) => i = l + 1
    BY <1>1, <1>4, <2>1
  <2>4. l + 1 \in Turns(ch, l + 1)'
    BY <2>1
  <2>5. OnlineAfter(ch, l + 1)' <=> list'[l + 1].kind = "online"
    BY <1>5, <2>2, <2>3, <2>4
  <2> QED
    BY <1>1, <1>2, <1>6, <2>5
<1>7. CASE ~(e.ch = ch /\ e.kind \in {"online", "offline"})
  <2>1. Turns(ch, l + 1)' = Turns(ch, l)
    BY <1>3, <1>7
  <2>2. OnlineAfter(ch, l + 1)' <=> OnlineAfter(ch, l)
    BY <1>1, <1>4, <1>5, <2>1 DEF OnlineAfter
  <2> QED
    BY <1>2, <1>7, <2>2
<1> QED
  BY <1>6, <1>7
\* A step that neither moves the channels nor the events that wait.
LEMMA SameBuffer ==
    ASSUME BufferInv, UNCHANGED <<list, via, last>>, buffer_mode => buffer_mode'
    PROVE  (Buffered /\ InOrder /\ NothingLost)'
<1>1. \A ch, n : OnlineAfter(ch, n)' <=> OnlineAfter(ch, n)
  BY DEF OnlineAfter, Turns
<1>2. InOrder'
  BY <1>1 DEF BufferInv, InOrder
<1>3. NothingLost'
  BY <1>1 DEF BufferInv, NothingLost
<1>4. Buffered'
  BY DEF BufferInv, Buffered
<1> QED
  BY <1>2, <1>3, <1>4

\* An event that is handled at once finds an empty buffer.
LEMMA HandleNowBuffer ==
    ASSUME BufferInv, NEW t \in Channel, NEW e \in Event, HandleNow(t, e)
    PROVE  /\ (Buffered /\ InOrder /\ NothingLost)'
           /\ e.kind # "online" => via # {}
<1>1. /\ ~buffer_mode /\ UNCHANGED <<list, buffer_mode>> /\ e.ch = t
      /\ last[t] \/ e.kind = "online"
      /\ last' = [last EXCEPT ![t] = (e.kind # "offline")]
      /\ HandleAdemcoEvent(t, e, FALSE)
  BY DEF HandleNow, Receives, Delivers, modes
<1>2. list = <<>> /\ list' = <<>> /\ Len(list) = 0
  BY <1>1 DEF BufferInv, Buffered
<1>3. /\ \A ch : OnlineAfter(ch, 0) <=> ch \in via
      /\ \A ch : OnlineAfter(ch, 0)' <=> ch \in via'
  <2>1. \A ch : Turns(ch, 0) = {} /\ Turns(ch, 0)' = {}
    BY DEF Turns
  <2> QED
    BY <2>1 DEF OnlineAfter
<1>4. \A ch \in Channel : last[ch] <=> ch \in via
  BY <1>2, <1>3 DEF BufferInv, NothingLost
<1>5. /\ e.kind = "online" => via' = via \cup {t}
      /\ e.kind = "offline" => via' = via \ {t}
      /\ e.kind \notin {"online", "offline"} => via' = via
  BY <1>1, ViaChange
<1>6. last'[t] <=> e.kind # "offline"
  BY <1>1 DEF BufferInv, TypeOK
<1>7. \A ch \in Channel \ {t} : last'[ch] <=> last[ch]
  BY <1>1 DEF BufferInv, TypeOK
<1>8. \A ch \in Channel : last'[ch] <=> ch \in via'
  BY <1>1, <1>4, <1>5, <1>6, <1>7
<1>9. NothingLost'
  BY <1>2, <1>3, <1>8 DEF NothingLost
<1>10. InOrder' /\ Buffered'
  BY <1>2 DEF InOrder, Buffered
<1> QED
  BY <1>1, <1>4, <1>9, <1>10

\* An event that is kept comes after those that were kept before.
LEMMA KeepBuffer ==
    ASSUME BufferInv, NEW t \in Channel, NEW e \in Event, Keep(t, e)
    PROVE  (Buffered /\ InOrder /\ NothingLost)'
<1>1. /\ buffer_mode /\ buffer_mode' = buffer_mode /\ e.ch = t
      /\ last[t] \/ e.kind = "online"
      /\ last' = [last EXCEPT ![t] = (e.kind # "offline")]
      /\ list' = Append(list, e) /\ via' = via
  BY DEF Keep, Receives, Delivers, Push, flags
<1>2. TypeOK /\ list \in Seq(Event)
  BY DEF BufferInv, TypeOK
<1>3. PICK l \in Nat : l = Len(list)
  BY <1>2
<1>4. /\ Len(list') = l + 1 /\ list'[l + 1] = e
      /\ \A i \in 1 .. l : list'[i] = list[i] /\ list[i] \in Event
  BY <1>1, <1>2, <1>3
<1>5. \A ch \in Channel : last[ch] <=> OnlineAfter(ch, l)
  BY <1>3 DEF BufferInv, NothingLost
<1>6. /\ last'[t] <=> e.kind # "offline"
      /\ \A ch \in Channel \ {t} : last'[ch] <=> last[ch]
  BY <1>1, <1>2 DEF TypeOK
<1>7. ASSUME NEW ch \in Channel
      PROVE  last'[ch] <=> OnlineAfter(ch, l + 1)'
  <2>1. OnlineAfter(ch, l + 1)'
            <=> IF e.ch = ch /\ e.kind \in {"online", "offline"}
                THEN e.kind = "online" ELSE OnlineAfter(ch, l)
    BY <1>1, <1>2, <1>3, AfterKept
  <2>2. CASE ch = t
    BY <1>1, <1>5, <1>6, <2>1, <2>2
  <2>3. CASE ch # t
    BY <1>1, <1>5, <1>6, <2>1, <2>3
  <2> QED
    BY <2>2, <2>3
<1>8. NothingLost'
  BY <1>4, <1>7 DEF NothingLost
<1>9. ASSUME NEW ch \in Channel, NEW n \in Nat, n < l + 1,
             list'[n + 1].ch = ch, list'[n + 1].kind # "online"
      PROVE  OnlineAfter(ch, n)'
  <2>1. OnlineAfter(ch, n)' <=> OnlineAfter(ch, n)
    BY <1>1, <1>2, <1>3, <1>9, AfterKept
  <2>2. CASE n < l
    <3>1. list'[n + 1] = list[n + 1]
      BY <1>4, <2>2
    <3> QED
      BY <1>3, <1>9, <2>1, <2>2, <3>1 DEF BufferInv, InOrder
  <2>3. CASE n = l
    BY <1>1, <1>4, <1>5, <1>9, <2>1, <2>3
  <2> QED
    BY <1>9, <2>2, <2>3
<1>10. InOrder'
  BY <1>4, <1>9 DEF InOrder
<1> QED
  BY <1>1, <1>8, <1>10 DEF Buffered

\* The buffer is emptied from its front.
LEMMA NextBufferedBuffer ==
    ASSUME BufferInv, NEW t \in Thread, NextBuffered(t)
    PROVE  /\ (Buffered /\ InOrder /\ NothingLost)'
           /\ Head(list).kind # "online" => via # {}
<1>1. /\ list # <<>> /\ list' = Tail(list)
      /\ UNCHANGED <<buffer_mode, last>>
      /\ HandleAdemcoEvent(t, Head(list), TRUE)
  BY DEF NextBuffered, inputs
<1>2. TypeOK /\ list \in Seq(Event) /\ Head(list) = list[1] /\ list[1] \in Event
  BY <1>1 DEF BufferInv, TypeOK
<1>3. PICK l \in Nat : Len(list) = l + 1
  <2>1. Len(list) - 1 \in Nat /\ Len(list) = (Len(list) - 1) + 1
    BY <1>1, <1>2
  <2> QED
    BY <2>1
<1>4. /\ Len(list') = l
      /\ \A i \in 1 .. l : list'[i] = list[i + 1]
  <2>1. Len(Tail(list)) = Len(list) - 1
    BY <1>1, <1>2
  <2>2. Len(list') = l
    BY <1>1, <1>3, <2>1
  <2> QED
    BY <1>1, <1>2, <1>3, <2>2
<1>5. ASSUME NEW ch \in Channel, NEW n \in Nat, n <= l
      PROVE  OnlineAfter(ch, n)' <=> OnlineAfter(ch, n + 1)
  <2>1. n + 1 <= Len(list)
    BY <1>3, <1>5
  <2> QED
    BY <1>1, <1>2, <2>1, AfterHandled
<1>6. NothingLost'
  <2>1. \A ch \in Channel : last'[ch] <=> OnlineAfter(ch, l)'
    BY <1>1, <1>3, <1>5 DEF BufferInv, NothingLost
  <2> QED
    BY <1>4, <2>1 DEF NothingLost
<1>7. ASSUME NEW ch \in Channel, NEW n \in Nat, n < l,
             list'[n + 1].ch = ch, list'[n + 1].kind # "online"
      PROVE  OnlineAfter(ch, n)'
  <2>1. list'[n + 1] = list[n + 2] /\ n + 1 \in Nat /\ n + 2 = (n + 1) + 1
    BY <1>4, <1>7
  <2>2. OnlineAfter(ch, n + 1)
    BY <1>3, <1>7, <2>1 DEF BufferInv, InOrder
  <2> QED
    BY <1>5, <1>7, <2>2
<1>8. InOrder'
  BY <1>4, <1>7 DEF InOrder
<1>9. Buffered'
  BY <1>1 DEF BufferInv, Buffered
<1>10. ASSUME Head(list).kind # "online"
       PROVE  via # {}
  <2>1. list[1].ch \in Channel /\ OnlineAfter(list[1].ch, 0)
    BY <1>2, <1>3, <1>10, Kinds DEF BufferInv, InOrder
  <2> QED
    BY <2>1, AfterNone
<1> QED
  BY <1>6, <1>8, <1>9, <1>10

\* Every step keeps the order of the buffer, as long as alarms are not cleared
\* while events wait.
LEMMA BufferStep ==
    ASSUME BufferInv, ~MayDrop, [Next]_vars
    PROVE  (Buffered /\ InOrder /\ NothingLost)'
<1> USE DEF modes, inputs, flags, locks
<1>1. ASSUME NEW t \in Channel, NEW e \in Event, HandleNow(t, e) \/ Keep(t, e)
      PROVE  (Buffered /\ InOrder /\ NothingLost)'
  BY <1>1, HandleNowBuffer, KeepBuffer
<1>2. ASSUME NEW t \in Thread, Works(t)
      PROVE  (Buffered /\ InOrder /\ NothingLost)'
  <2>1. CASE NextBuffered(t)
    BY <2>1, NextBufferedBuffer
  <2>2. CASE (\E s \in Sub : Visit(t, s)) \/ LoadInc(t) \/ StoreInc(t)
    <3>1. UNCHANGED <<list, via, last, buffer_mode>>
      BY <2>2 DEF Visit, LoadInc, StoreInc
    <3> QED
      BY <3>1, SameBuffer
  <2>3. CASE Release(t)
    <3>1. UNCHANGED <<list, via, last>>
      BY <2>3 DEF Release
    <3>2. CASE list = <<>>
      <4>1. list' = <<>> /\ Len(list') = 0
        BY <3>1, <3>2
      <4>2. \A ch, n : OnlineAfter(ch, n)' <=> OnlineAfter(ch, n)
        BY <3>1 DEF OnlineAfter, Turns
      <4> QED
        BY <3>1, <4>1, <4>2 DEF BufferInv, Buffered, InOrder, NothingLost
    <3>3. CASE list # <<>>
      <4>1. buffer_mode => buffer_mode'
        BY <2>3, <3>3 DEF Release
      <4> QED
        BY <3>1, <4>1, SameBuffer
    <3> QED
      BY <3>2, <3>3
  <2> QED
    BY <1>2, <2>1, <2>2, <2>3 DEF Works
<1>3. ASSUME NEW S, ClearTop(S)
      PROVE  UNCHANGED <<list, via, last, buffer_mode>>
  BY <1>3 DEF ClearTop
<1>4. CASE User
  <2>1. UNCHANGED <<list, via, last>> /\ (buffer_mode => buffer_mode')
    <3>1. CASE OpenDialog \/ CloseDialog
      BY <3>1 DEF OpenDialog, CloseDialog, EnterBufferMode
    <3>2. CASE ClearMachine \/ ClearGroup \/ MachineHandled \/ ClearParent
      BY <1>3, <3>2 DEF ClearMachine, ClearGroup, MachineHandled, ClearParent
    <3>3. CASE (\E x \in Box : HandleAlarm(x)) \/ DecNothing \/ LoadDec \/ StoreDec
      BY <3>3 DEF HandleAlarm, DecNothing, LoadDec, StoreDec
    <3>4. CASE \E s \in Sub : ClearSub(s) \/ SubHandled(s)
      BY <3>4 DEF ClearSub, SubHandled, BeginClearSub
    <3> QED
      BY <1>4, <3>1, <3>2, <3>3, <3>4 DEF User, UserWaits
  <2> QED
    BY <2>1, SameBuffer
<1>5. CASE WorkerEnters \/ WorkerLeaves
  <2>1. UNCHANGED <<list, via, last>> /\ (buffer_mode => buffer_mode')
    BY <1>5 DEF WorkerEnters, WorkerLeaves, EnterBufferMode
  <2> QED
    BY <2>1, SameBuffer
<1>6. CASE UNCHANGED vars
  BY <1>6, SameBuffer DEF vars
<1> QED
  BY <1>1, <1>2, <1>4, <1>5, <1>6 DEF Next

\* Initially nothing waits and no channel is online.
LEMMA InitBuffer == Init => BufferInv
<1> SUFFICES ASSUME Init PROVE BufferInv
  OBVIOUS
<1>1. list = <<>> /\ Len(list) = 0 /\ via = {} /\ \A ch \in Channel : last[ch] = FALSE
  BY DEF Init
<1>2. \A ch \in Channel : ~OnlineAfter(ch, 0)
  BY <1>1, AfterNone
<1> QED
  BY <1>1, <1>2, InitTyped DEF BufferInv, Buffered, InOrder, NothingLost

\* It holds throughout.
LEMMA BufferInvariant == ~MayDrop => (Spec => []BufferInv)
<1> SUFFICES ASSUME ~MayDrop PROVE Spec => []BufferInv
  OBVIOUS
<1>1. BufferInv /\ [Next]_vars => BufferInv'
  BY TypeStep, BufferStep DEF BufferInv
<1> QED
  BY InitBuffer, <1>1, PTL DEF Spec

\* Unless alarms are cleared while events wait, the buffer neither loses nor
\* reorders events, for any channels and any number of events: what SetAdemcoEvent
\* keeps, LeaveBufferMode handles, and the machine ends up online by the channels
\* that said so last (AlarmMachine.cpp).
THEOREM BufferKeeps == ~MayDrop => (Spec => []NothingLost)
<1> SUFFICES ASSUME ~MayDrop PROVE Spec => []NothingLost
  OBVIOUS
<1>1. BufferInv => NothingLost
  BY DEF BufferInv
<1> QED
  BY <1>1, BufferInvariant, PTL

-----------------------------------------------------------------------------
(* The submachines follow the machine                                      *)

\* While the machine is offline, a submachine that is not has yet to be visited
\* by the thread that took the machine offline.
Following ==
    via = {} => /\ Idle => sub_online = {}
                /\ \A t \in Thread : work[t] # None =>
                     /\ sub_online \subseteq work[t].todo
                     /\ work[t].up => work[t].todo = {}

\* The inductive invariant: that a submachine's event finds the machine online
\* rests on the order of the buffer.
FollowInv == BufferInv /\ Exclusive /\ Following

\* A step that neither moves the channels nor the submachines.
LEMMA SameFollowing ==
    ASSUME Following, UNCHANGED <<via, sub_online>>,
           Idle' => Idle,
           \A t \in Thread : work'[t] # None =>
              /\ work[t] # None
              /\ work'[t].todo = work[t].todo /\ work'[t].up = work[t].up
    PROVE  Following'
<1>1. ASSUME via' = {}
      PROVE  /\ Idle' => sub_online' = {}
             /\ \A t \in Thread : work'[t] # None =>
                  /\ sub_online' \subseteq work'[t].todo
                  /\ work'[t].up => work'[t].todo = {}
  BY <1>1 DEF Following
<1> QED
  BY <1>1 DEF Following

\* The job that handling an event makes.
LEMMA JobFields ==
    ASSUME TypeOK, NEW t \in Thread, NEW e \in Event, NEW drain \in BOOLEAN,
           HandleAdemcoEvent(t, e, drain)
    PROVE  /\ work'[t].todo = Visited(e, via')
           /\ work'[t].up <=> e.kind = "status" \/ via' # {}
           /\ \A u \in Thread \ {t} : work'[u] = work[u]
           /\ work'[t] # None
           /\ sub_online' = sub_online
<1> DEFINE due == e.kind = "alarm" /\ e.sub # None /\ e.sub \notin alarming
           new == CASE e.kind = "online"  -> via \cup {e.ch}
                    [] e.kind = "offline" -> via \ {e.ch}
                    [] OTHER              -> via
<1>1. via' = new /\ sub_online' = sub_online
  BY DEF HandleAdemcoEvent
<1>2. work' = [work EXCEPT ![t] =
                 [todo |-> Visited(e, new), due |-> due, seen |-> None,
                  up |-> e.kind = "status" \/ new # {}, drain |-> drain]]
  BY DEF HandleAdemcoEvent
<1> HIDE DEF new, due
<1>3. work'[t] = [todo |-> Visited(e, new), due |-> due, seen |-> None,
                  up |-> e.kind = "status" \/ new # {}, drain |-> drain]
  BY <1>2 DEF TypeOK
<1>4. work'[t].up = (e.kind = "status" \/ new # {})
  BY <1>3
<1>5. work'[t] # None
  <2>1. PICK job \in Job : work' = [work EXCEPT ![t] = job]
    BY JobMade
  <2> QED
    BY <2>1, NoneAssumption DEF TypeOK
<1> QED
  BY <1>1, <1>2, <1>3, <1>4, <1>5 DEF TypeOK

\* An event that takes the last channel offline has all submachines visited, to
\* go offline; one that finds the machine offline brings it online.
LEMMA HandledFollowing ==
    ASSUME TypeOK, Following, NEW t \in Thread, NEW e \in Event, NEW drain \in BOOLEAN,
           HandleAdemcoEvent(t, e, drain), AloneAt(t),
           e.kind # "online" => via # {}
    PROVE  Following'
<1>1. /\ e.kind = "online" => via' = via \cup {e.ch}
      /\ e.kind = "offline" => via' = via \ {e.ch}
      /\ e.kind \notin {"online", "offline"} => via' = via
  BY ViaChange
<1>2. SUFFICES ASSUME via' = {}
               PROVE  /\ Idle' => sub_online' = {}
                      /\ \A u \in Thread : work'[u] # None =>
                           /\ sub_online' \subseteq work'[u].todo
                           /\ work'[u].up => work'[u].todo = {}
  BY DEF Following
<1>3. e.kind = "offline" /\ via # {}
  BY <1>1, <1>2
<1>4. /\ work'[t].todo = Sub /\ ~work'[t].up
      /\ \A u \in Thread \ {t} : work'[u] = None
      /\ sub_online' \subseteq Sub
  <2>1. /\ work'[t].todo = Visited(e, via')
        /\ work'[t].up <=> e.kind = "status" \/ via' # {}
        /\ \A u \in Thread \ {t} : work'[u] = work[u]
        /\ sub_online' = sub_online
    BY JobFields
  <2>2. Visited(e, via') = Sub
    BY <1>2, <1>3 DEF Visited, Follow
  <2>3. ~work'[t].up
    BY <1>2, <1>3, <2>1
  <2> QED
    BY <2>1, <2>2, <2>3 DEF AloneAt, TypeOK
<1>5. work'[t] # None
  BY JobFields
<1> QED
  BY <1>4, <1>5 DEF Idle
\* The thread ends its work, or takes it up with nobody left to be visited.
LEMMA RestFollowing ==
    ASSUME Following, UNCHANGED <<via, sub_online>>,
           NEW u \in Thread,
           Idle \/ (work[u] # None /\ work[u].todo = {}),
           \A t \in Thread : work'[t] # None =>
              t = u /\ work'[t].todo = {} /\ ~work'[t].up
    PROVE  Following'
<1>1. via = {} => sub_online = {}
  BY DEF Following
<1>2. ASSUME via' = {}
      PROVE  /\ Idle' => sub_online' = {}
             /\ \A t \in Thread : work'[t] # None =>
                  /\ sub_online' \subseteq work'[t].todo
                  /\ work'[t].up => work'[t].todo = {}
  BY <1>1, <1>2
<1> QED
  BY <1>2 DEF Following

\* A visit takes a submachine where its machine has gone.
LEMMA VisitFollowing ==
    ASSUME TypeOK, Exclusive, Following, NEW t \in Thread, NEW s \in Sub, Visit(t, s)
    PROVE  Following'
<1>1. /\ work[t] # None /\ s \in work[t].todo
      /\ sub_online' = IF work[t].up THEN sub_online \cup {s} ELSE sub_online \ {s}
      /\ work' = [work EXCEPT ![t].todo = @ \ {s}]
      /\ via' = via
  BY DEF Visit
<1>2. work[t] \in Job /\ work'[t] = [work[t] EXCEPT !.todo = @ \ {s}]
  BY <1>1 DEF TypeOK
<1>3. /\ work'[t].todo = work[t].todo \ {s} /\ work'[t].up = work[t].up
      /\ work'[t] \in Job
  BY <1>2 DEF Job
<1>4. work'[t] # None
  BY <1>3, NoneAssumption
<1>5. \A u \in Thread \ {t} : work'[u] = None
  BY <1>1, Alone DEF AloneAt, TypeOK
<1>6. ASSUME via' = {}
      PROVE  /\ Idle' => sub_online' = {}
             /\ \A u \in Thread : work'[u] # None =>
                  /\ sub_online' \subseteq work'[u].todo
                  /\ work'[u].up => work'[u].todo = {}
  <2>1. sub_online \subseteq work[t].todo /\ ~work[t].up
    BY <1>1, <1>6 DEF Following
  <2> QED
    BY <1>1, <1>3, <1>4, <1>5, <2>1 DEF Idle
<1> QED
  BY <1>6 DEF Following

\* Every step keeps the submachines behind their machine.
LEMMA FollowStep ==
    ASSUME FollowInv, [Next]_vars
    PROVE  Following'
<1> USE DEF modes, inputs, flags, locks
<1>1. TypeOK /\ Exclusive /\ Following /\ BufferInv
  BY DEF FollowInv, BufferInv
<1>2. UI \in Thread /\ Worker \in Thread /\ Channel \subseteq Thread
  BY DEF Thread
<1>3. ASSUME UNCHANGED <<via, sub_online, work>>
      PROVE  Following'
  BY <1>1, <1>3, SameFollowing DEF Idle
<1>4. ASSUME NEW t \in Channel, NEW e \in Event, HandleNow(t, e)
      PROVE  Following'
  <2>1. owner[Top] = None /\ HandleAdemcoEvent(t, e, FALSE)
    BY <1>4 DEF HandleNow, Receives
  <2>2. e.kind # "online" => via # {}
    BY <1>1, <1>4, HandleNowBuffer
  <2>3. AloneAt(t) /\ t \in Thread /\ FALSE \in BOOLEAN
    BY <1>1, <1>2, <2>1, Alone DEF AloneAt, Idle
  <2> QED
    BY <1>1, <2>1, <2>2, <2>3, HandledFollowing
<1>5. ASSUME NEW t \in Channel, NEW e \in Event, Keep(t, e)
      PROVE  Following'
  BY <1>3, <1>5 DEF Keep
<1>6. ASSUME NEW t \in Thread, work[t] # None, UNCHANGED <<via, sub_online>>,
             NEW job, job.todo = work[t].todo, job.up = work[t].up,
             work' = [work EXCEPT ![t] = job], job # None
      PROVE  Following'
  <2>1. /\ work'[t] = job
        /\ \A u \in Thread \ {t} : work'[u] = work[u]
    BY <1>1, <1>6 DEF TypeOK
  <2> QED
    BY <1>1, <1>6, <2>1, SameFollowing DEF Idle
<1>7. ASSUME NEW t \in Thread, LoadInc(t)
      PROVE  Following'
  <2> DEFINE job == [work[t] EXCEPT !.seen = count]
  <2>1. work[t] \in Job /\ work[t] # None
    BY <1>1, <1>7 DEF LoadInc, TypeOK
  <2>2. job \in Job /\ job.todo = work[t].todo /\ job.up = work[t].up
    BY <1>1, <2>1 DEF Job, TypeOK
  <2>3. work' = [work EXCEPT ![t] = job] /\ UNCHANGED <<via, sub_online>>
    BY <1>7 DEF LoadInc
  <2> HIDE DEF job
  <2> QED
    BY <1>6, <2>1, <2>2, <2>3, NoneAssumption
<1>8. ASSUME NEW t \in Thread, StoreInc(t)
      PROVE  Following'
  <2> DEFINE job == [work[t] EXCEPT !.due = FALSE, !.seen = None]
  <2>1. work[t] \in Job /\ work[t] # None
    BY <1>1, <1>8 DEF StoreInc, TypeOK
  <2>2. job \in Job /\ job.todo = work[t].todo /\ job.up = work[t].up
    BY <2>1 DEF Job
  <2>3. work' = [work EXCEPT ![t] = job] /\ UNCHANGED <<via, sub_online>>
    BY <1>8 DEF StoreInc
  <2> HIDE DEF job
  <2> QED
    BY <1>6, <2>1, <2>2, <2>3, NoneAssumption
<1>9. ASSUME NEW t \in Thread, NextBuffered(t)
      PROVE  Following'
  <2>1. /\ HandleAdemcoEvent(t, Head(list), TRUE)
        /\ work[t] # None /\ list # <<>>
    BY <1>9 DEF NextBuffered, Done
  <2>2. Head(list) \in Event
    BY <1>1, <2>1 DEF TypeOK
  <2>3. Head(list).kind # "online" => via # {}
    BY <1>1, <1>9, NextBufferedBuffer
  <2>4. AloneAt(t) /\ TRUE \in BOOLEAN
    BY <1>1, <2>1, Alone
  <2> QED
    BY <1>1, <2>1, <2>2, <2>3, <2>4, HandledFollowing
<1>10. ASSUME NEW t \in Thread, Release(t)
       PROVE  Following'
  <2>1. /\ work[t] # None /\ work[t].todo = {}
        /\ work' = [work EXCEPT ![t] = None] /\ UNCHANGED <<via, sub_online>>
    BY <1>10 DEF Release, Done
  <2>2. \A u \in Thread : work'[u] = None
    BY <1>1, <2>1, Alone DEF AloneAt, TypeOK
  <2> QED
    BY <1>1, <2>1, <2>2, RestFollowing
<1>11. ASSUME NEW t \in Thread, LeaveBufferMode(t), UNCHANGED <<via, sub_online>>
       PROVE  Following'
  <2>1. CASE UNCHANGED work
    BY <1>3, <1>11, <2>1
  <2>2. CASE ~UNCHANGED work
    <3> DEFINE job == [todo |-> {}, up |-> FALSE, due |-> FALSE, seen |-> None,
                       drain |-> TRUE]
    <3>1. owner[Top] = None /\ work' = [work EXCEPT ![t] = job]
      BY <1>11, <2>2 DEF LeaveBufferMode
    <3>2. job.todo = {} /\ ~job.up
      OBVIOUS
    <3>3. Idle
      BY <1>1, <3>1, Alone
    <3> HIDE DEF job
    <3>4. \A u \in Thread : work'[u] # None => u = t /\ work'[u].todo = {} /\ ~work'[u].up
      BY <1>1, <3>1, <3>2, <3>3 DEF Idle, TypeOK
    <3> QED
      BY <1>1, <1>11, <3>3, <3>4, RestFollowing
  <2> QED
    BY <2>1, <2>2
<1>12. CASE User
  <2>1. CASE CloseDialog
    BY <1>2, <1>11, <2>1 DEF CloseDialog
  <2>2. ASSUME NEW S, ClearTop(S)
        PROVE  UNCHANGED <<via, sub_online, work>>
    BY <2>2 DEF ClearTop
  <2>3. CASE ~CloseDialog
    <3>1. CASE OpenDialog
      BY <1>3, <3>1 DEF OpenDialog
    <3>2. CASE ClearMachine \/ ClearGroup \/ MachineHandled \/ ClearParent
      BY <1>3, <2>2, <3>2 DEF ClearMachine, ClearGroup, MachineHandled, ClearParent
    <3>3. CASE (\E x \in Box : HandleAlarm(x)) \/ DecNothing \/ LoadDec \/ StoreDec
      BY <1>3, <3>3 DEF HandleAlarm, DecNothing, LoadDec, StoreDec
    <3>4. CASE \E s \in Sub : ClearSub(s) \/ SubHandled(s)
      BY <1>3, <3>4 DEF ClearSub, SubHandled, BeginClearSub
    <3> QED
      BY <1>12, <2>3, <3>1, <3>2, <3>3, <3>4 DEF User, UserWaits
  <2> QED
    BY <2>1, <2>3
<1>13. CASE WorkerEnters
  BY <1>3, <1>13 DEF WorkerEnters
<1>14. CASE WorkerLeaves
  BY <1>2, <1>11, <1>14 DEF WorkerLeaves
<1>15. CASE UNCHANGED vars
  BY <1>3, <1>15 DEF vars
<1>16. ASSUME NEW t \in Thread, NEW s \in Sub, Visit(t, s)
       PROVE  Following'
  BY <1>1, <1>16, VisitFollowing
<1> QED
  BY <1>4, <1>5, <1>7, <1>8, <1>9, <1>10, <1>12, <1>13, <1>14, <1>15, <1>16
     DEF Next, Works

\* When no thread is at work the submachines of an offline machine are offline
\* (SetAllSubMachineOnOffLine), although each is visited under its own lock while
\* others may be cleared; unless alarms are cleared while events wait.
THEOREM SubsOffline == ~MayDrop => (Spec => []SubsFollow)
<1> SUFFICES ASSUME ~MayDrop PROVE Spec => []SubsFollow
  OBVIOUS
<1>1. Init => FollowInv
  <2>1. Init => Exclusive
    BY NameAssumption DEF Init, Exclusive, Thread, Box
  <2>2. Init => Following
    BY DEF Init, Following
  <2> QED
    BY <2>1, <2>2, InitBuffer DEF FollowInv
<1>2. FollowInv /\ [Next]_vars => FollowInv'
  BY TypeStep, BufferStep, ExclusiveStep, FollowStep DEF FollowInv, BufferInv
<1>3. FollowInv => SubsFollow
  BY DEF FollowInv, Following, SubsFollow, AtRest, Idle
<1> QED
  BY <1>1, <1>2, <1>3, PTL DEF Spec

=============================================================================
