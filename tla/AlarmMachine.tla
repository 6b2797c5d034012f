---------------------------- MODULE AlarmMachine ----------------------------
(***************************************************************************)
(* One alarm machine and its submachines (AlarmMachine.cpp): events that   *)
(* come in by several channels are handled under the machine's lock or, in *)
(* buffer mode, kept until it ends; the user clears alarms, of the machine *)
(* or of one submachine, under the locks of both.                          *)
(*                                                                         *)
(* The threads are one per channel, the user interface and the worker of   *)
(* the machine manager.  What a thread does under a lock is one step as    *)
(* far as no other thread can see or disturb it; it is cut where it waits  *)
(* for the next lock and where it counts without one.  The filter that     *)
(* drops an event equal to the last one changes no state, so an event that *)
(* it drops is one that was not received.                                  *)
(***************************************************************************)
EXTENDS Integers, Sequences, FiniteSets

CONSTANTS
    Sub,        \* the submachines
    Channel,    \* the channels and the thread that each delivers events by
    UI, Worker, \* the user interface, the worker thread of the manager
    Top,        \* the machine itself
    None,
    Torn,       \* whether the count is changed by two threads at once
    MayDrop,    \* whether alarms are cleared while events wait in the buffer
    MaxEvents   \* bound on the events received

ASSUME NameAssumption == /\ UI # Worker /\ {UI, Worker} \cap Channel = {}
                         /\ Top \notin Sub
                         /\ None \notin Sub \cup Channel \cup {Top, UI, Worker}
                         /\ None \notin Nat
ASSUME BoundAssumption == MaxEvents \in Nat /\ IsFiniteSet(Sub)
ASSUME ModeAssumption  == {Torn, MayDrop} \subseteq BOOLEAN

VARIABLES
    owner,       \* the thread that has _lock4AdemcoEventList of each machine
    work,        \* what a thread that has the machine's lock has yet to do
    clear,       \* the user's clearing of a submachine, or None
    buffer_mode, \* _buffer_mode
    list,        \* _ademcoEventList
    via,         \* the channels the machine is online by
    last,        \* whether the last event of a channel left it online
    sub_online,  \* the submachines that are online
    alarming,    \* the machines whose _alarming is set
    direct,      \* _has_alarming_direct_zone
    count,       \* _alarmingSubMachineCount
    handling,    \* the machines with an alarm_id_: their alarm is being handled
    uneven,      \* history: the machine was cleared without an alarming submachine
    dialog,      \* whether an editing dialog is open
    scanning,    \* whether the worker is looking at the submachines
    events       \* the events received so far

locks == <<owner, work, clear>>
flags == <<via, sub_online, alarming, direct, count, handling, uneven>>
modes == <<buffer_mode, list, dialog, scanning>>
inputs == <<last, events>>
vars == <<locks, flags, modes, inputs>>

Thread == Channel \cup {UI, Worker}
Box    == Sub \cup {Top}

\* An event of the machine (sub = None) or of a submachine.
Event == [kind : {"online", "offline", "alarm"}, ch : Channel, sub : {None}]
         \cup [kind : {"alarm", "status"}, ch : Channel, sub : Sub]

\* The submachines to be visited and the online state they get, a submachine
\* alarm to be counted, the count as loaded, and whether the thread is emptying
\* the buffer.
Job == [todo : SUBSET Sub, up : BOOLEAN, due : BOOLEAN,
        seen : Nat \cup {None}, drain : BOOLEAN]

\* A submachine's alarm is cleared: its count is loaded, then the machine is
\* waited for (top).
Clearing == [sub : Sub, seen : (Nat \ {0}) \cup {None}, top : BOOLEAN]

ASSUME NoneAssumption == None \notin Job \cup Clearing

Init == /\ owner = [x \in Box |-> None]
        /\ work = [t \in Thread |-> None]
        /\ clear = None
        /\ buffer_mode = FALSE /\ list = <<>>
        /\ via = {} /\ last = [ch \in Channel |-> FALSE] /\ sub_online = {}
        /\ alarming = {} /\ direct = FALSE /\ count = 0 /\ handling = {}
        /\ uneven = FALSE
        /\ dialog = FALSE /\ scanning = FALSE
        /\ events = 0

-----------------------------------------------------------------------------
(* HandleAdemcoEvent, by a thread that has the machine's lock.             *)

\* mutant: submachines are told that the machine is online only
FollowUp(old, new) == IF old = {} /\ new # {} THEN Sub ELSE {}

\* SetAllSubMachineOnOffLine, when the machine has gone online or offline.
Follow(old, new) == IF (old = {}) = (new = {}) THEN {} ELSE Sub

Visited(e, new) == IF e.kind = "status" THEN {e.sub}
                   ELSE Follow(via, new)

\* A submachine alarms and is not counted yet; one is cleared and still counted.
Uncounted    == \E t \in Thread : work[t] # None /\ work[t].due
Decrementing == clear # None /\ ~clear.top

HandleAdemcoEvent(t, e, drain) ==
    LET new == CASE e.kind = "online"  -> via \cup {e.ch}
                 [] e.kind = "offline" -> via \ {e.ch}
                 [] OTHER              -> via
        due == e.kind = "alarm" /\ e.sub # None /\ e.sub \notin alarming
    IN  /\ due /\ ~Torn => ~Decrementing
        /\ via' = new
        /\ alarming' = IF e.kind = "alarm"
                       THEN alarming \cup ({Top, e.sub} \ {None}) ELSE alarming
        /\ direct' = (direct \/ (e.kind = "alarm" /\ e.sub = None))
        /\ work' = [work EXCEPT ![t] =
                      [todo |-> Visited(e, new), due |-> due, seen |-> None,
                       up |-> e.kind = "status" \/ new # {}, drain |-> drain]]
        /\ UNCHANGED <<sub_online, count, handling, uneven>>

\* What a channel delivers: nothing but "online" until it is online.
Delivers(ch, e) == e.ch = ch /\ (last[ch] \/ e.kind = "online")

\* SetAdemcoEvent gets the lock.
Receives(t, e) ==
    /\ work[t] = None /\ owner[Top] = None
    /\ Delivers(t, e)
    /\ events < MaxEvents /\ events' = events + 1
    /\ last' = [last EXCEPT ![t] = (e.kind # "offline")]

HandleNow(t, e) ==
    /\ Receives(t, e) /\ ~buffer_mode
    /\ owner' = [owner EXCEPT ![Top] = t]
    /\ HandleAdemcoEvent(t, e, FALSE)
    /\ UNCHANGED <<clear, modes>>

\* mutant: the newest event is put first
PushFront(l, e) == <<e>> \o l

Push(l, e) == Append(l, e)

Keep(t, e) ==
    /\ Receives(t, e) /\ buffer_mode
    /\ list' = Push(list, e)
    /\ UNCHANGED <<locks, flags, buffer_mode, dialog, scanning>>

\* SetAdemcoEvent of a submachine, under its lock too.
Visit(t, s) ==
    /\ work[t] # None /\ s \in work[t].todo
    /\ owner[s] = None
    /\ sub_online' = IF work[t].up THEN sub_online \cup {s} ELSE sub_online \ {s}
    /\ work' = [work EXCEPT ![t].todo = @ \ {s}]
    /\ UNCHANGED <<owner, clear, via, alarming, direct, count, handling, uneven,
                   modes, inputs>>

\* _alarmingSubMachineCount++ is a load ...
LoadInc(t) ==
    /\ work[t] # None /\ work[t].due /\ work[t].seen = None
    /\ work' = [work EXCEPT ![t].seen = count]
    /\ UNCHANGED <<owner, clear, flags, modes, inputs>>

\* mutant: counted down
CountDown(n) == n - 1

CountUp(n) == n + 1

\* ... and a store.
StoreInc(t) ==
    /\ work[t] # None /\ work[t].seen # None
    /\ count' = CountUp(work[t].seen)
    /\ work' = [work EXCEPT ![t].due = FALSE, ![t].seen = None]
    /\ UNCHANGED <<owner, clear, via, sub_online, alarming, direct, handling,
                   uneven, modes, inputs>>

Done(t) == work[t] # None /\ work[t].todo = {} /\ ~work[t].due

\* LeaveBufferMode handles the events one after the other ...
NextBuffered(t) ==
    /\ Done(t) /\ work[t].drain /\ list # <<>>
    /\ HandleAdemcoEvent(t, Head(list), TRUE)
    /\ list' = Tail(list)
    /\ UNCHANGED <<owner, clear, buffer_mode, dialog, scanning, inputs>>

\* ... then ends the mode.
Release(t) ==
    /\ Done(t) /\ (work[t].drain => list = <<>>)
    /\ owner' = [owner EXCEPT ![Top] = None]
    /\ work' = [work EXCEPT ![t] = None]
    /\ buffer_mode' = (buffer_mode /\ ~work[t].drain)
    /\ UNCHANGED <<clear, flags, list, dialog, scanning, inputs>>

-----------------------------------------------------------------------------
(* Buffer mode, entered and left with try_lock: if the lock is taken, be   *)
(* it for the moment in which an event is put into the buffer or a mode is *)
(* set, nothing happens, and the managers ignore that.                     *)

\* mutant: a machine in buffer mode is not entered again
EnterOnce == ~buffer_mode /\ owner[Top] = None /\ buffer_mode' = TRUE

EnterBufferMode == owner[Top] = None /\ buffer_mode' = TRUE

LeaveBufferMode(t) ==
    \/ /\ owner[Top] = None
       /\ owner' = [owner EXCEPT ![Top] = t]
       /\ work' = [work EXCEPT ![t] = [todo |-> {}, up |-> FALSE, due |-> FALSE,
                                       seen |-> None, drain |-> TRUE]]
    \/ UNCHANGED <<owner, work>>

\* The user is not in a dialog nor waiting for an operation to end.
UserFree == ~dialog /\ clear = None /\ work[UI] = None

OpenDialog == /\ UserFree
              /\ dialog' = TRUE
              /\ EnterBufferMode \/ UNCHANGED buffer_mode
              /\ UNCHANGED <<locks, flags, list, scanning, inputs>>

CloseDialog == /\ dialog /\ work[UI] = None
               /\ dialog' = FALSE
               /\ LeaveBufferMode(UI)
               /\ UNCHANGED <<clear, flags, buffer_mode, list, scanning, inputs>>

\* The worker looks at the submachines of machines that are online.
WorkerEnters == /\ ~scanning /\ work[Worker] = None
                /\ via # {} /\ Sub # {}
                /\ EnterBufferMode
                /\ scanning' = TRUE
                /\ UNCHANGED <<locks, flags, list, dialog, inputs>>

WorkerLeaves == /\ scanning
                /\ scanning' = FALSE
                /\ LeaveBufferMode(Worker)
                /\ UNCHANGED <<clear, flags, buffer_mode, list, dialog, inputs>>

-----------------------------------------------------------------------------
(* The user clears alarms: clear_ademco_event_list.                        *)

\* Clearing the machine, with the submachines of S: the count is zero by the
\* time they are cleared, so none of them clears the machine in turn.
ClearTop(S) ==
    /\ owner[Top] = None
    /\ MayDrop \/ list = <<>>
    /\ alarming' = alarming \ (S \cup {Top})
    /\ direct' = FALSE
    /\ count' = 0
    /\ list' = <<>>
    /\ uneven' = ((Sub \cap alarming) \ S # {})
    /\ UNCHANGED <<work, via, sub_online, buffer_mode, dialog, scanning, inputs>>

\* Clearing is refused while the alarm is being handled.
MayClear(x) == UserFree /\ x \in alarming /\ x \notin handling

ClearMachine == /\ MayClear(Top)
                /\ ClearTop((Sub \cap alarming) \ handling)
                /\ UNCHANGED <<owner, clear, handling>>

\* ClearAlarmMsgOfDescendantAlarmingMachine of a group the machine is in.
ClearGroup == /\ MayClear(Top)
              /\ ClearTop({})
              /\ UNCHANGED <<owner, clear, handling>>

\* The first dialog of alarm handling gives the machine an alarm id, if there are
\* texts of its own to handle ...
HandleAlarm(x) == /\ MayClear(x) /\ (x = Top => direct)
                  /\ handling' = handling \cup {x}
                  /\ UNCHANGED <<locks, via, sub_online, alarming, direct, count,
                                 uneven, modes, inputs>>

\* ... and the last one clears it.
MachineHandled == /\ UserFree
                  /\ Top \in handling /\ Top \in alarming
                  /\ ClearTop({})
                  /\ handling' = handling \ {Top}
                  /\ UNCHANGED <<owner, clear>>

\* A submachine is cleared under its own lock, then its parent told.
BeginClearSub(s) ==
    /\ UserFree /\ s \in alarming /\ owner[s] = None
    /\ ~Torn => ~Uncounted
    /\ alarming' = alarming \ {s}
    /\ owner' = [owner EXCEPT ![s] = UI]
    /\ clear' = [sub |-> s, seen |-> None, top |-> FALSE]
    /\ UNCHANGED <<work, via, sub_online, direct, count, uneven, modes, inputs>>

ClearSub(s) == s \notin handling /\ BeginClearSub(s) /\ UNCHANGED handling

SubHandled(s) == /\ s \in handling
                 /\ BeginClearSub(s)
                 /\ handling' = handling \ {s}

EndClearSub == /\ owner' = [owner EXCEPT ![clear.sub] = None]
               /\ clear' = None

\* dec_alarmingSubMachineCount: nothing to count down, ...
DecNothing == /\ Decrementing /\ clear.seen = None /\ count = 0
              /\ EndClearSub
              /\ UNCHANGED <<work, flags, modes, inputs>>

\* ... or a load and a store, ...
LoadDec == /\ Decrementing /\ clear.seen = None /\ count # 0
           /\ clear' = [clear EXCEPT !.seen = count]
           /\ UNCHANGED <<owner, work, flags, modes, inputs>>

\* mutant: the count is looked at before it is decremented
OneLeft(n) == n = 1 /\ ~direct

\* The last submachine was cleared and no zone of the machine's own alarms.
LastCleared(n) == n = 0 /\ ~direct

StoreDec ==
    LET n == clear.seen - 1
    IN  /\ Decrementing /\ clear.seen # None
        /\ count' = n
        /\ IF LastCleared(n)
           THEN clear' = [clear EXCEPT !.top = TRUE] /\ UNCHANGED owner
           ELSE EndClearSub
        /\ UNCHANGED <<work, via, sub_online, alarming, direct, handling, uneven,
                       modes, inputs>>

\* ... and the machine, which alarms as long as it counts a submachine, is
\* cleared with all submachines, handled or not.
ClearParent == /\ clear # None /\ clear.top
               /\ ClearTop(Sub \cap alarming)
               /\ EndClearSub
               /\ UNCHANGED handling

-----------------------------------------------------------------------------
Works(t) == \/ \E s \in Sub : Visit(t, s)
            \/ LoadInc(t) \/ StoreInc(t) \/ NextBuffered(t) \/ Release(t)

UserWaits == DecNothing \/ LoadDec \/ StoreDec \/ ClearParent

User == \/ OpenDialog \/ CloseDialog
        \/ ClearMachine \/ ClearGroup \/ MachineHandled
        \/ \E x \in Box : HandleAlarm(x)
        \/ \E s \in Sub : ClearSub(s) \/ SubHandled(s)
        \/ UserWaits

Next == \/ \E t \in Channel, e \in Event : HandleNow(t, e) \/ Keep(t, e)
        \/ \E t \in Thread : Works(t)
        \/ User
        \/ WorkerEnters \/ WorkerLeaves

Spec == Init /\ [][Next]_vars

\* Threads that have begun go on, and get a lock that is free again and again; so
\* does the worker, which comes back each second.
FairSpec == /\ Spec
            /\ \A t \in Thread : WF_vars(Works(t))
            /\ WF_vars(UserWaits) /\ SF_vars(ClearParent)
            /\ WF_vars(WorkerEnters) /\ WF_vars(WorkerLeaves)
            /\ SF_vars(WorkerLeaves /\ work'[Worker] # None)

-----------------------------------------------------------------------------
(* Properties *)

\* Every variable has its type (the members declared in AlarmMachine.h); the
\* count "should never be < 0" (AlarmMachineDlg.cpp:870).
TypeOK == /\ owner \in [Box -> Thread \cup {None}]
          /\ work \in [Thread -> Job \cup {None}]
          /\ clear \in Clearing \cup {None}
          /\ buffer_mode \in BOOLEAN /\ list \in Seq(Event)
          /\ via \subseteq Channel /\ last \in [Channel -> BOOLEAN]
          /\ sub_online \subseteq Sub
          /\ alarming \subseteq Box /\ handling \subseteq Box
          /\ direct \in BOOLEAN /\ count \in Nat /\ uneven \in BOOLEAN
          /\ dialog \in BOOLEAN /\ scanning \in BOOLEAN
          /\ events \in Nat

\* The buffer neither loses nor reorders events: the machine is online by the
\* channels it should be, once the events that wait have been handled.
Turns(ch, n) ==
    {i \in 1 .. n : list[i].ch = ch /\ list[i].kind \in {"online", "offline"}}

\* Whether the machine is online by ch after the next n events of the buffer.
OnlineAfter(ch, n) ==
    IF Turns(ch, n) = {} THEN ch \in via
    ELSE \E i \in Turns(ch, n) : /\ list[i].kind = "online"
                                 /\ \A j \in Turns(ch, n) : j <= i

NothingLost == \A ch \in Channel : last[ch] <=> OnlineAfter(ch, Len(list))

AtRest == clear = None /\ \A t \in Thread : work[t] = None

\* The submachines of a machine that is offline are offline.
SubsFollow == AtRest /\ via = {} => sub_online = {}

\* Never more is counted than alarms, and what is counted shows on the machine;
\* unless the machine was cleared without an alarming submachine, the count is
\* that of the alarming ones, and the machine alarms if and only if one of them
\* or a zone of its own does.
Counted == alarming \cap Sub

AlarmAgrees ==
    AtRest => /\ count <= Cardinality(Counted)
              /\ direct \/ count > 0 => Top \in alarming
              /\ ~uneven => /\ count = Cardinality(Counted)
                            /\ Top \in alarming <=> direct \/ Counted # {}

\* A clearing that waits for the machine, whose lock a thread has that waits for
\* the submachine.
Stuck == clear # None /\ clear.top
         /\ \E t \in Thread : work[t] # None /\ clear.sub \in work[t].todo

\* What is buffered is handled in the end although each end of the mode may find
\* the lock taken, as long as a dialog is open even, by the worker that comes for
\* the submachines; unless the machine is offline, where it does not come, or two
\* threads wait for each other (LeaveBufferMode).
BufferHandled == []<>(list = <<>> \/ via = {}) \/ <>[]Stuck

\* When all submachines have been cleared one by one, so is the machine.
SubsClearMachine ==
    clear # None /\ clear.top ~> Top \notin alarming

=============================================================================
