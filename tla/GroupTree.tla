----------------------------- MODULE GroupTree -----------------------------
(***************************************************************************)
(* The tree of machine groups and its counters (GroupInfo.cpp) under the   *)
(* threads that use it.  Every group counts the machines below it, those   *)
(* that are online and those that are alarming; network threads raise and  *)
(* lower the last two when a machine changes state (AlarmMachine.cpp),     *)
(* walking from the machine's group up to the root with plain `int'        *)
(* increments that no lock protects.  The user edits the tree in a modal   *)
(* dialog (MachineManagerDlg.cpp), during which machines are in buffer     *)
(* mode: their events are to be handled when the dialog closes.            *)
(*                                                                         *)
(* A buffered event is one that has not happened yet.  The rows of the     *)
(* database that the edits write are not modelled: each write succeeds.    *)
(***************************************************************************)
EXTENDS Integers, FiniteSets

CONSTANTS
    Group, Root,     \* the groups there may be; the root of the tree
    Machine,         \* the machines there may be
    Channel,         \* the network threads, each with an online flag a machine
    UI,              \* the user interface thread
    None,
    Quiet,           \* whether no event is handled while the dialog is open
    MayMoveGroup,    \* whether the user moves groups,
    MayDeleteGroup,  \* ... deletes them,
    MayAlarm,        \* whether machines raise alarms
    MaxEvents,       \* bound on the events handled in a behaviour
    MaxEdits         \* bound on the edits of the tree in a behaviour

ASSUME RootAssumption == Root \in Group
ASSUME NoneAssumption == None \notin Group \cup Machine \cup Int
ASSUME UIAssumption   == UI \notin Channel
ASSUME ModeAssumption == {Quiet, MayMoveGroup, MayDeleteGroup, MayAlarm}
                           \subseteq BOOLEAN
ASSUME LimitAssumption == MaxEvents \in Nat /\ MaxEdits \in Nat
ASSUME FiniteAssumption == IsFiniteSet(Machine)

VARIABLES
    groups,    \* the groups of the tree
    parent,    \* _parent_group; a deleted group keeps its own
    group_of,  \* _group_id of each machine, None if there is no such machine
    via,       \* the channels by which each machine is online
    alarming,  \* the machines that are _alarming
    total,     \* _descendant_machine_count of each group
    count,     \* _online_ and _alarming_descendant_machine_count
    walk,      \* what each thread does to the counters
    buffered,  \* the machines in buffer mode
    dialog,    \* whether the dialog is open
    events,    \* the events handled so far
    edits      \* the edits made so far

vars == <<groups, parent, group_of, via, alarming, total, count, walk,
          buffered, dialog, events, edits>>
tree == <<groups, parent, group_of, total, buffered, dialog, edits>>

Kind   == {"online", "alarming"}
Thread == Channel \cup {UI}

\* A thread inside UpdateOnlineDescendantMachineCount (or ...Alarming...) of
\* group `at', on behalf of m, whose lock it holds; val is what it loaded.
Walk == [kind : Kind, m : Machine, by : {1, -1}, at : Group,
         val : Int \cup {None}]

ASSUME WalkAssumption == None \notin Walk

-----------------------------------------------------------------------------
(* The tree. *)

\* g and the groups above it: what a walk up _parent_group visits.
LineageIn(p, g) ==
    {a \in Group : \A S \in SUBSET Group :
        g \in S /\ (\A x \in S : p[x] # None => p[x] \in S) => a \in S}

Lineage(g) == LineageIn(parent, g)

\* IsDescendantGroup
IsDescendantGroup(g, h) == g # h /\ g \in Lineage(h)

\* UpdateChildMachineCount and its siblings, run to the end by one thread.
Update(f, S, d) == [g \in Group |-> IF g \in S THEN f[g] + d ELSE f[g]]

\* The machines below a group.
Below(g) == {m \in Machine : group_of[m] # None /\ g \in Lineage(group_of[m])}

Online == {m \in Machine : via[m] # {}}

\* What the program loads from the database: a tree, its machines, all offline.
Init ==
    /\ groups \in {G \in SUBSET Group : Root \in G}
    /\ parent \in {p \in [Group -> Group \cup {None}] :
                     /\ \A g \in Group : p[g] = None <=> g \notin groups \ {Root}
                     /\ \A g \in groups : /\ p[g] \in groups \cup {None}
                                          /\ Root \in LineageIn(p, g)}
    /\ group_of \in [Machine -> groups \cup {None}]
    /\ via = [m \in Machine |-> {}]
    /\ alarming = {}
    /\ total = [g \in Group |-> Cardinality(Below(g))]
    /\ count = [k \in Kind |-> [g \in Group |-> 0]]
    /\ walk = [t \in Thread |-> None]
    /\ buffered = {}
    /\ dialog = FALSE
    /\ events = 0 /\ edits = 0

-----------------------------------------------------------------------------
(* Events, each handled by the thread it came in by.                       *)

Locked(m) == \E t \in Thread : walk[t] # None /\ walk[t].m = m

Start(t, k, m, d) ==
    walk' = [walk EXCEPT ![t] = [kind |-> k, m |-> m, by |-> d,
                                 at |-> group_of[m], val |-> None]]

\* HandleAdemcoEvent gets the machine's lock outside buffer mode.
Handles(t, m) == /\ walk[t] = None /\ group_of[m] \in groups
                 /\ ~Locked(m) /\ m \notin buffered
                 /\ Quiet => ~dialog
                 /\ events < MaxEvents /\ events' = events + 1

\* An online or offline event sets the flag of its channel; the machine is
\* online while one of the flags is.
OnOffline(t, m, on) ==
    /\ Handles(t, m)
    /\ via' = [via EXCEPT ![m] = IF on THEN @ \cup {t} ELSE @ \ {t}]
    /\ IF (via[m] = {}) = (via'[m] = {}) THEN UNCHANGED walk
       ELSE Start(t, "online", m, IF on THEN 1 ELSE -1)
    /\ UNCHANGED <<tree, alarming, count>>

Alarm(t, m) ==
    /\ MayAlarm /\ Handles(t, m)
    /\ m \notin alarming
    /\ alarming' = alarming \cup {m}
    /\ Start(t, "alarming", m, 1)
    /\ UNCHANGED <<tree, via, count>>

\* clear_ademco_event_list, from the main window.
ClearAlarm(m) ==
    /\ ~dialog /\ walk[UI] = None /\ ~Locked(m)
    /\ m \in alarming /\ group_of[m] \in groups
    /\ alarming' = alarming \ {m}
    /\ Start(UI, "alarming", m, -1)
    /\ UNCHANGED <<tree, via, count, events>>

\* mutant: the walk goes on above the root
ClimbPast(w, p) == [w EXCEPT !.at = p, !.val = None]

\* The walk goes on at the parent, if there is one.
Climb(w, p) == IF p = None THEN None ELSE [w EXCEPT !.at = p, !.val = None]

\* count++ is a load ...
Load(t) ==
    /\ walk[t] # None /\ walk[t].val = None
    /\ walk' = [walk EXCEPT ![t].val = count[walk[t].kind][walk[t].at]]
    /\ UNCHANGED <<tree, via, alarming, count, events>>

\* ... and a store, after which the parent is told.
Store(t) ==
    LET w == walk[t]
    IN  /\ w # None /\ w.val # None
        /\ count' = [count EXCEPT ![w.kind][w.at] = w.val + w.by]
        /\ walk' = [walk EXCEPT ![t] = Climb(w, parent[w.at])]
        /\ UNCHANGED <<tree, via, alarming, events>>

-----------------------------------------------------------------------------
(* The dialog. *)

\* EnterBufferMode skips the machines whose lock is taken, by a handler or for a
\* moment.
OpenDialog ==
    /\ ~dialog /\ walk[UI] = None
    /\ Quiet => \A t \in Channel : walk[t] = None
    /\ dialog' = TRUE
    /\ \E S \in SUBSET {m \in Machine : group_of[m] # None /\ ~Locked(m)} :
          buffered' = buffered \cup S
    /\ UNCHANGED <<groups, parent, group_of, via, alarming, total, count, walk,
                   events, edits>>

\* LeaveBufferMode skips them too; their events wait for longer.
CloseDialog ==
    /\ dialog
    /\ dialog' = FALSE
    /\ buffered' \in SUBSET buffered
    /\ UNCHANGED <<groups, parent, group_of, via, alarming, total, count, walk,
                   events, edits>>

\* The manager's thread, having looked at the submachines of a machine, takes
\* it out of buffer mode.
WorkerLeaves(m) ==
    /\ m \in buffered /\ m \in Online /\ ~Locked(m)
    /\ buffered' = buffered \ {m}
    /\ UNCHANGED <<groups, parent, group_of, via, alarming, total, count, walk,
                   dialog, events, edits>>

Edits == dialog /\ edits < MaxEdits /\ edits' = edits + 1

\* mutant: the machine joins its group without being counted as online
JoinUncounted(on, g, f) == f

\* AddChildMachine and RemoveChildMachine count a machine that is online.
JoinOnline(on, g, f) ==
    IF on THEN [f EXCEPT !.online = Update(@, Lineage(g), 1)] ELSE f
LeaveOnline(on, g, f) ==
    IF on THEN [f EXCEPT !.online = Update(@, Lineage(g), -1)] ELSE f

\* A machine that was connected before it was added is online already.
AddMachine(m, g, S) ==
    /\ Edits
    /\ group_of[m] = None /\ ~Locked(m) /\ g \in groups
    /\ group_of' = [group_of EXCEPT ![m] = g]
    /\ via' = [via EXCEPT ![m] = S]
    /\ total' = Update(total, Lineage(g), 1)
    /\ count' = JoinOnline(S # {}, g, count)
    /\ UNCHANGED <<groups, parent, alarming, walk, buffered, dialog, events>>

DeleteMachine(m) ==
    /\ Edits
    /\ group_of[m] \in groups
    /\ group_of' = [group_of EXCEPT ![m] = None]
    /\ via' = [via EXCEPT ![m] = {}]
    /\ alarming' = alarming \ {m}
    /\ buffered' = buffered \ {m}
    /\ total' = Update(total, Lineage(group_of[m]), -1)
    /\ count' = LeaveOnline(via[m] # {}, group_of[m], count)
    /\ UNCHANGED <<groups, parent, walk, dialog, events>>

\* mutant: the machine is counted in its new group only
MovedTotalKept(g, h) == Update(total, Lineage(h), 1)

MovedTotal(g, h) == Update(Update(total, Lineage(g), -1), Lineage(h), 1)

\* execute_set_group_id
MoveMachine(m, h) ==
    LET g == group_of[m]
    IN  /\ Edits
        /\ g \in groups /\ h \in groups \ {g}
        /\ group_of' = [group_of EXCEPT ![m] = h]
        /\ total' = MovedTotal(g, h)
        /\ count' = JoinOnline(via[m] # {}, h,
                               LeaveOnline(via[m] # {}, g, count))
        /\ UNCHANGED <<groups, parent, via, alarming, walk, buffered, dialog,
                       events>>

\* ExecuteAddChildGroup
AddGroup(g, p) ==
    /\ Edits
    /\ g \notin groups /\ p \in groups
    /\ \A t \in Thread : walk[t] # None => walk[t].at # g   \* a new object
    /\ \A m \in Machine : group_of[m] # g                   \* with a new id
    /\ groups' = groups \cup {g}
    /\ parent' = [parent EXCEPT ![g] = p]
    /\ total' = [total EXCEPT ![g] = 0]
    /\ count' = [k \in Kind |-> [count[k] EXCEPT ![g] = 0]]
    /\ UNCHANGED <<group_of, via, alarming, walk, buffered, dialog, events>>

Positive(n) == IF n > 0 THEN n ELSE 0

\* mutant: the machines are left in the group
HomeKept(g) == group_of

\* The machines of a deleted group go to its parent if it counts any.
Home(g) == [m \in Machine |-> IF group_of[m] = g /\ total[g] > 0 THEN parent[g]
                              ELSE group_of[m]]

\* ExecuteDeleteChildGroup: subgroups and machines go to the parent, which
\* loses what the group counted as online and alarming.
DeleteGroup(g) ==
    /\ MayDeleteGroup /\ Edits
    /\ g \in groups \ {Root}
    /\ groups' = groups \ {g}
    /\ parent' = [h \in Group |-> IF h \in groups /\ parent[h] = g
                                  THEN parent[g] ELSE parent[h]]
    /\ group_of' = Home(g)
    /\ count' = [k \in Kind |-> [count[k] EXCEPT
                                   ![parent[g]] = @ - Positive(count[k][g])]]
    /\ UNCHANGED <<via, alarming, total, walk, buffered, dialog, events>>

\* mutant: a group may be moved below itself
AnyTarget(g, p) == p # g /\ p # parent[g]

\* The targets that the menu offers.
Target(g, p) == p # g /\ p # parent[g] /\ ~IsDescendantGroup(g, p)

\* ExecuteMove2Group: RemoveChildGroup on the old parent, AddChildGroup on the
\* new one, which is above the group by then and adds only its total.
MoveGroup(g, p) ==
    LET q == parent[g]
    IN  /\ MayMoveGroup /\ Edits
        /\ g \in groups \ {Root} /\ p \in groups /\ Target(g, p)
        /\ parent' = [parent EXCEPT ![g] = p]
        /\ total' = [total EXCEPT ![q] = @ - Positive(total[g]),
                                  ![p] = @ + Positive(total[g])]
        /\ count' = IF q = Root THEN count
                    ELSE [k \in Kind |-> [count[k] EXCEPT
                                            ![q] = @ - Positive(count[k][g])]]
        /\ UNCHANGED <<groups, group_of, via, alarming, walk, buffered, dialog,
                       events>>

-----------------------------------------------------------------------------
Events == \/ \E t \in Channel, m \in Machine :
               Alarm(t, m) \/ \E on \in BOOLEAN : OnOffline(t, m, on)
          \/ \E m \in Machine : ClearAlarm(m) \/ WorkerLeaves(m)
          \/ \E t \in Thread : Load(t) \/ Store(t)

Dialog == \/ OpenDialog \/ CloseDialog
          \/ \E m \in Machine :
               \/ DeleteMachine(m)
               \/ \E g \in Group : \/ MoveMachine(m, g)
                                   \/ \E S \in SUBSET Channel : AddMachine(m, g, S)
          \/ \E g \in Group :
               \/ DeleteGroup(g)
               \/ \E p \in Group : AddGroup(g, p) \/ MoveGroup(g, p)

Next == Events \/ Dialog

Spec == Init /\ [][Next]_vars

-----------------------------------------------------------------------------
(* Properties *)

\* Every variable has its type (the members declared in GroupInfo.h).
TypeOK == /\ groups \subseteq Group
          /\ parent \in [Group -> Group \cup {None}]
          /\ group_of \in [Machine -> Group \cup {None}]
          /\ via \in [Machine -> SUBSET Channel]
          /\ alarming \subseteq Machine
          /\ total \in [Group -> Int]
          /\ count \in [Kind -> [Group -> Int]]
          /\ walk \in [Thread -> Walk \cup {None}]
          /\ buffered \subseteq Machine
          /\ dialog \in BOOLEAN
          /\ events \in Nat
          /\ edits \in Nat

\* The groups stay one tree, whatever the user adds, moves and deletes: every
\* walk up the parents passes groups of the tree only and ends at the root.
Rooted == \A g \in groups : /\ Root \in Lineage(g)
                            /\ Lineage(g) \subseteq groups
                            /\ parent[g] = None <=> g = Root

\* A machine is in a group of the tree: GetGroupInfo(_group_id) finds the group
\* that the handlers of its next event dereference.  Deleting a group is meant
\* to see to its machines.
Homed == \A m \in Machine : group_of[m] \in groups \cup {None}

\* Each group counts the machines below it.
TotalRight == \A g \in groups : total[g] = Cardinality(Below(g))

\* When no thread is at the counters each group counts the machines below it
\* that are online, what the main window shows next to it.
AtRest == \A t \in Thread : walk[t] = None

OnlineRight ==
    AtRest => \A g \in groups :
                count["online"][g] = Cardinality(Below(g) \cap Online)

=============================================================================
