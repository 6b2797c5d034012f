-------------------------- MODULE GroupTreeProofs --------------------------
(***************************************************************************)
(* Theorems about GroupTree for every finite set of machines and all sets  *)
(* of groups and channels: the groups stay one tree, each counts the       *)
(* machines below it while no group is moved, and with one network thread  *)
(* it counts those online.                                                 *)
(***************************************************************************)
EXTENDS GroupTree, FiniteSetTheorems, TLAPS

\* The part of the type invariant that the shape of the tree rests on.
TreeTypes == /\ groups \subseteq Group
             /\ parent \in [Group -> Group \cup {None}]

TreeInv == TreeTypes /\ Rooted

\* S is closed under the parents in p.
Closed(p, S) == \A x \in S : p[x] # None => p[x] \in S

-----------------------------------------------------------------------------
(* Walks up the parents. *)

\* A walk starts at its group.
LEMMA LineageSelf ==
  ASSUME NEW p, NEW g \in Group
  PROVE  g \in LineageIn(p, g)
BY DEF LineageIn

\* A walk stays in every set of groups that holds its start and is closed.
LEMMA LineageLeast ==
  ASSUME NEW p, NEW g \in Group, NEW S \in SUBSET Group, g \in S, Closed(p, S)
  PROVE  LineageIn(p, g) \subseteq S
BY DEF LineageIn, Closed

\* A walk goes on at the parent of every group it visits.
LEMMA LineageClosed ==
  ASSUME NEW p \in [Group -> Group \cup {None}], NEW g \in Group
  PROVE  /\ LineageIn(p, g) \in SUBSET Group
         /\ Closed(p, LineageIn(p, g))
<1>1. LineageIn(p, g) \in SUBSET Group
  BY DEF LineageIn
<1>2. ASSUME NEW x \in LineageIn(p, g), p[x] # None
      PROVE  p[x] \in LineageIn(p, g)
  <2>1. x \in Group /\ p[x] \in Group
    BY <1>1, <1>2
  <2>2. ASSUME NEW S \in SUBSET Group, g \in S,
               \A y \in S : p[y] # None => p[y] \in S
        PROVE  p[x] \in S
    <3>1. x \in S
      BY <1>2, <2>2 DEF LineageIn
    <3>. QED BY <3>1, <2>2, <1>2
  <2>. QED BY <2>1, <2>2 DEF LineageIn
<1>. QED BY <1>1, <1>2 DEF Closed

\* To reach the root from g it is enough that every closed set with g has it.
LEMMA RootReached ==
  ASSUME NEW p, NEW g \in Group,
         \A S \in SUBSET Group : g \in S /\ Closed(p, S) => Root \in S
  PROVE  Root \in LineageIn(p, g)
BY RootAssumption DEF LineageIn, Closed

-----------------------------------------------------------------------------
(* The edits that change the tree. *)

\* Initially the groups are a tree: it was loaded as one.
LEMMA InitTree == Init => TreeInv
<1>. SUFFICES ASSUME Init PROVE TreeInv
  OBVIOUS
<1>1. TreeTypes /\ Root \in groups
  BY DEF Init, TreeTypes
<1>2. Closed(parent, groups)
  BY <1>1 DEF Init, TreeTypes, Closed
<1>3. ASSUME NEW g \in groups
      PROVE  /\ Root \in Lineage(g)
             /\ Lineage(g) \subseteq groups
             /\ parent[g] = None <=> g = Root
  <2>1. g \in Group
    BY <1>1 DEF TreeTypes
  <2>2. Root \in Lineage(g)
    BY DEF Init, Lineage
  <2>3. Lineage(g) \subseteq groups
    BY <1>1, <1>2, <2>1, LineageLeast DEF TreeTypes, Lineage
  <2>4. parent[g] = None <=> g = Root
    BY <2>1 DEF Init
  <2>. QED BY <2>2, <2>3, <2>4
<1>. QED BY <1>1, <1>3 DEF TreeInv, Rooted

\* A step that changes neither the groups nor the parents keeps the tree.
LEMMA SameTree ==
  ASSUME TreeInv, UNCHANGED <<groups, parent>>
  PROVE  TreeInv'
BY DEF TreeInv, TreeTypes, Rooted, Lineage, LineageIn

\* What a tree gives: the parents of its groups are groups of it.
LEMMA ParentsInTree ==
  ASSUME TreeInv
  PROVE  /\ Closed(parent, groups)
         /\ Root \in groups \/ groups = {}
<1>1. ASSUME NEW g \in groups, parent[g] # None
      PROVE  parent[g] \in groups
  <2>1. g \in Group
    BY DEF TreeInv, TreeTypes
  <2>2. parent[g] \in Lineage(g)
    BY <2>1, <1>1, LineageSelf, LineageClosed
    DEF TreeInv, TreeTypes, Lineage, Closed
  <2>. QED BY <2>2 DEF TreeInv, Rooted
<1>2. ASSUME NEW g \in groups
      PROVE  Root \in groups
  BY DEF TreeInv, Rooted
<1>. QED BY <1>1, <1>2 DEF Closed

\* What is left to show of a changed tree: its groups are closed under the new
\* parents, its root is the only group without one, and all reach the root.
LEMMA NewTree ==
  ASSUME TreeTypes', Closed(parent', groups'),
         \A g \in groups' : parent'[g] = None <=> g = Root,
         \A g \in groups' : \A S \in SUBSET Group :
            g \in S /\ Closed(parent', S) => Root \in S
  PROVE  TreeInv'
<1>1. ASSUME NEW g \in groups'
      PROVE  Root \in LineageIn(parent', g) /\ LineageIn(parent', g) \subseteq groups'
  <2>1. g \in Group /\ groups' \in SUBSET Group
    BY DEF TreeTypes
  <2>2. Root \in LineageIn(parent', g)
    BY <2>1, RootReached
  <2>3. LineageIn(parent', g) \subseteq groups'
    BY <2>1, LineageLeast
  <2>. QED BY <2>2, <2>3
<1>2. Rooted'
  BY <1>1 DEF Rooted, Lineage
<1>. QED BY <1>2 DEF TreeInv

\* A new group hangs below one that reaches the root.
LEMMA AddGroupTree ==
  ASSUME TreeInv, NEW g \in Group, NEW q \in Group, AddGroup(g, q)
  PROVE  TreeInv'
<1>1. TreeTypes /\ Rooted
  BY DEF TreeInv
<1>2. /\ g \notin groups /\ q \in groups
      /\ groups' = groups \cup {g}
      /\ parent' = [parent EXCEPT ![g] = q]
  BY DEF AddGroup
<1>3. TreeTypes'
  BY <1>1, <1>2 DEF TreeTypes
<1>4. /\ parent'[g] = q
      /\ \A h \in groups : parent'[h] = parent[h]
  BY <1>1, <1>2 DEF TreeTypes
<1>5. Closed(parent, groups) /\ Root \in groups
  BY <1>2, ParentsInTree
<1>6. Closed(parent', groups')
  BY <1>2, <1>4, <1>5 DEF Closed
<1>7. \A h \in groups' : parent'[h] = None <=> h = Root
  BY <1>1, <1>2, <1>4, <1>5, NoneAssumption DEF Rooted, TreeTypes
<1>8. ASSUME NEW h \in groups, NEW S \in SUBSET Group, h \in S, Closed(parent', S)
      PROVE  Root \in S
  <2>1. Closed(parent, S \cap groups)
    BY <1>4, <1>5, <1>8 DEF Closed
  <2>2. Lineage(h) \subseteq S \cap groups
    BY <1>1, <1>8, <2>1, LineageLeast DEF TreeTypes, Lineage
  <2>. QED BY <1>1, <2>2 DEF Rooted
<1>9. ASSUME NEW S \in SUBSET Group, g \in S, Closed(parent', S)
      PROVE  Root \in S
  <2>1. q \in S
    BY <1>2, <1>4, <1>9, NoneAssumption DEF Closed
  <2>. QED BY <1>2, <1>8, <1>9, <2>1
<1>10. \A h \in groups' : \A S \in SUBSET Group :
          h \in S /\ Closed(parent', S) => Root \in S
  BY <1>2, <1>8, <1>9
<1>. QED BY <1>3, <1>6, <1>7, <1>10, NewTree

\* The subgroups of a deleted group go on where it went on.
LEMMA DeleteGroupTree ==
  ASSUME TreeInv, NEW g \in Group, DeleteGroup(g)
  PROVE  TreeInv'
<1>1. TreeTypes /\ Rooted
  BY DEF TreeInv
<1>2. /\ g \in groups \ {Root}
      /\ groups' = groups \ {g}
      /\ parent' = [h \in Group |-> IF h \in groups /\ parent[h] = g
                                    THEN parent[g] ELSE parent[h]]
  BY DEF DeleteGroup
<1>3. Closed(parent, groups) /\ Root \in groups
  BY <1>2, ParentsInTree
<1>4. parent[g] \in groups
  BY <1>1, <1>2, <1>3 DEF Rooted, Closed
<1>5. parent[g] # g
  <2>1. SUFFICES ASSUME parent[g] = g PROVE FALSE
    OBVIOUS
  <2>2. Closed(parent, {g})
    BY <2>1 DEF Closed
  <2>3. Lineage(g) \subseteq {g}
    BY <2>2, LineageLeast DEF Lineage
  <2>. QED BY <1>1, <1>2, <2>3 DEF Rooted
<1>6. TreeTypes'
  BY <1>1, <1>2, <1>4 DEF TreeTypes
<1>7. \A h \in groups' : parent'[h] = IF parent[h] = g THEN parent[g] ELSE parent[h]
  BY <1>1, <1>2 DEF TreeTypes
<1>8. Closed(parent', groups')
  BY <1>2, <1>3, <1>4, <1>5, <1>7 DEF Closed
<1>9. \A h \in groups' : parent'[h] = None <=> h = Root
  BY <1>1, <1>2, <1>4, <1>7, NoneAssumption DEF Rooted, TreeTypes
<1>10. ASSUME NEW h \in groups', NEW S \in SUBSET Group, h \in S, Closed(parent', S)
       PROVE  Root \in S
  <2>. DEFINE T == S \cap groups'
              U == IF parent[g] \in T THEN T \cup {g} ELSE T
  <2>1. Closed(parent, U)
    <3>1. ASSUME NEW x \in T, parent[x] # None
          PROVE  parent[x] \in U
      <4>1. x \in groups /\ parent'[x] = IF parent[x] = g THEN parent[g] ELSE parent[x]
        BY <1>2, <1>7
      <4>2. parent'[x] # None
        BY <1>1, <1>4, <3>1, <4>1, NoneAssumption DEF TreeTypes
      <4>3. parent'[x] \in T
        BY <1>8, <1>10, <4>2 DEF Closed
      <4>. QED BY <4>1, <4>3
    <3>. QED BY <3>1 DEF Closed
  <2>2. h \in U /\ U \in SUBSET Group
    BY <1>1, <1>2, <1>10 DEF TreeTypes
  <2>3. Lineage(h) \subseteq U
    BY <2>1, <2>2, LineageLeast DEF Lineage
  <2>4. Root \in U
    BY <1>1, <1>2, <2>3 DEF Rooted
  <2>. QED BY <1>2, <2>4
<1>. QED BY <1>6, <1>8, <1>9, <1>10, NewTree

\* A group moves below one that is not below it: from there the walk to the
\* root does not pass the moved group, so the move has not changed it.
LEMMA MoveGroupTree ==
  ASSUME TreeInv, NEW g \in Group, NEW q \in Group, MoveGroup(g, q)
  PROVE  TreeInv'
<1>1. TreeTypes /\ Rooted
  BY DEF TreeInv
<1>2. /\ g \in groups \ {Root} /\ q \in groups
      /\ g \notin Lineage(q)
      /\ groups' = groups
      /\ parent' = [parent EXCEPT ![g] = q]
  BY DEF MoveGroup, Target, IsDescendantGroup
<1>3. TreeTypes'
  BY <1>1, <1>2 DEF TreeTypes
<1>4. /\ parent'[g] = q
      /\ \A h \in Group \ {g} : parent'[h] = parent[h]
  BY <1>1, <1>2 DEF TreeTypes
<1>5. Closed(parent, groups)
  BY ParentsInTree
<1>6. Closed(parent', groups')
  BY <1>1, <1>2, <1>4, <1>5 DEF Closed, TreeTypes
<1>7. \A h \in groups' : parent'[h] = None <=> h = Root
  BY <1>1, <1>2, <1>4, NoneAssumption DEF Rooted, TreeTypes
<1>8. ASSUME NEW S \in SUBSET Group, q \in S, Closed(parent', S)
      PROVE  Root \in S
  <2>1. Lineage(q) \in SUBSET Group /\ Closed(parent, Lineage(q)) /\ q \in Lineage(q)
    BY <1>1, LineageClosed, LineageSelf DEF TreeTypes, Lineage
  <2>2. Closed(parent, S \cap Lineage(q))
    BY <1>2, <1>4, <1>8, <2>1 DEF Closed
  <2>3. Lineage(q) \subseteq S \cap Lineage(q)
    BY <1>8, <2>1, <2>2, LineageLeast DEF Lineage
  <2>. QED BY <1>1, <1>2, <2>3 DEF Rooted
<1>9. ASSUME NEW h \in groups', NEW S \in SUBSET Group, h \in S, Closed(parent', S)
      PROVE  Root \in S
  <2>1. CASE g \in S
    <3>1. q \in S
      BY <1>2, <1>4, <1>9, <2>1, NoneAssumption DEF Closed
    <3>. QED BY <1>8, <1>9, <3>1
  <2>2. CASE g \notin S
    <3>1. Closed(parent, S)
      BY <1>4, <1>9, <2>2 DEF Closed
    <3>2. Lineage(h) \subseteq S
      BY <1>1, <1>2, <1>9, <3>1, LineageLeast DEF TreeTypes, Lineage
    <3>. QED BY <1>1, <1>2, <3>2 DEF Rooted
  <2>. QED BY <2>1, <2>2
<1>. QED BY <1>3, <1>6, <1>7, <1>9, NewTree

-----------------------------------------------------------------------------
\* Every other step leaves the groups and the parents as they are.
LEMMA TreeStep ==
  ASSUME TreeInv, [Next]_vars
  PROVE  TreeInv'
<1>1. CASE Events
  <2>1. UNCHANGED <<groups, parent>>
    BY <1>1 DEF Events, Alarm, OnOffline, ClearAlarm, WorkerLeaves, Load, Store, tree
  <2>. QED BY <2>1, SameTree
<1>2. CASE Dialog
  <2>1. CASE \/ OpenDialog \/ CloseDialog
             \/ \E m \in Machine :
                  \/ DeleteMachine(m)
                  \/ \E g \in Group : \/ MoveMachine(m, g)
                                      \/ \E S \in SUBSET Channel : AddMachine(m, g, S)
    <3>1. UNCHANGED <<groups, parent>>
      BY <2>1 DEF OpenDialog, CloseDialog, DeleteMachine, MoveMachine, AddMachine
    <3>. QED BY <3>1, SameTree
  <2>2. CASE \E g, p \in Group : AddGroup(g, p)
    BY <2>2, AddGroupTree
  <2>3. CASE \E g \in Group : DeleteGroup(g)
    BY <2>3, DeleteGroupTree
  <2>4. CASE \E g, p \in Group : MoveGroup(g, p)
    BY <2>4, MoveGroupTree
  <2>. QED BY <1>2, <2>1, <2>2, <2>3, <2>4 DEF Dialog
<1>3. CASE UNCHANGED vars
  BY <1>3, SameTree DEF vars
<1>. QED BY <1>1, <1>2, <1>3 DEF Next

\* The groups are one tree in every reachable state: whatever the user adds,
\* moves and deletes (MachineManagerDlg.cpp, GroupInfo.cpp), every walk up the
\* parents stays in the tree and ends at the root.
THEOREM TreeRooted == Spec => []Rooted
<1>1. Init => TreeInv
  BY InitTree
<1>2. TreeInv /\ [Next]_vars => TreeInv'
  BY TreeStep
<1>3. TreeInv => Rooted
  BY DEF TreeInv
<1>. QED BY <1>1, <1>2, <1>3, PTL DEF Spec

-----------------------------------------------------------------------------
(* Types. *)

\* Raising or lowering the counts of some groups leaves integers.
LEMMA UpdateType ==
  ASSUME NEW f \in [Group -> Int], NEW S, NEW d \in Int
  PROVE  Update(f, S, d) \in [Group -> Int]
BY DEF Update

\* So does counting a machine that joins or leaves.
LEMMA JoinType ==
  ASSUME NEW f \in [Kind -> [Group -> Int]], NEW on, NEW g
  PROVE  /\ JoinOnline(on, g, f) \in [Kind -> [Group -> Int]]
         /\ LeaveOnline(on, g, f) \in [Kind -> [Group -> Int]]
<1>. DEFINE J == Update(f["online"], Lineage(g), 1)
            L == Update(f["online"], Lineage(g), -1)
<1>1. J \in [Group -> Int] /\ L \in [Group -> Int]
  BY UpdateType DEF Kind
<1>2. /\ JoinOnline(on, g, f) = IF on THEN [f EXCEPT !["online"] = J] ELSE f
      /\ LeaveOnline(on, g, f) = IF on THEN [f EXCEPT !["online"] = L] ELSE f
  BY DEF JoinOnline, LeaveOnline
<1>. HIDE DEF J, L
<1>. QED BY <1>1, <1>2

\* What the program loads has the types of the variables.
LEMMA InitTyped == Init => TypeOK
<1>. SUFFICES ASSUME Init PROVE TypeOK
  OBVIOUS
<1>1. groups \subseteq Group /\ parent \in [Group -> Group \cup {None}]
  BY DEF Init
<1>2. group_of \in [Machine -> Group \cup {None}]
  BY <1>1 DEF Init
<1>3. total \in [Group -> Int]
  <2>1. ASSUME NEW g \in Group
        PROVE  Cardinality(Below(g)) \in Int
    <3>1. IsFiniteSet(Below(g))
      BY FiniteAssumption, FS_Subset DEF Below
    <3>. QED BY <3>1, FS_CardinalityType
  <2>. QED BY <2>1 DEF Init
<1>4. count \in [Kind -> [Group -> Int]]
  BY DEF Init
<1>5. via \in [Machine -> SUBSET Channel] /\ walk \in [Thread -> Walk \cup {None}]
  BY DEF Init
<1>. QED BY <1>1, <1>2, <1>3, <1>4, <1>5 DEF Init, TypeOK

\* The walk that a handler begins is one, at a group of the tree.
LEMMA StartType ==
  ASSUME TypeOK, NEW t \in Thread, NEW k \in Kind, NEW m \in Machine,
         NEW d \in {1, -1}, group_of[m] \in Group, Start(t, k, m, d)
  PROVE  walk' \in [Thread -> Walk \cup {None}]
<1>. DEFINE w == [kind |-> k, m |-> m, by |-> d, at |-> group_of[m],
                  val |-> None]
<1>1. w \in Walk
  BY DEF Walk
<1>2. walk' = [walk EXCEPT ![t] = w]
  BY DEF Start
<1>. HIDE DEF w
<1>. QED BY <1>1, <1>2 DEF TypeOK

\* Every step of a handler keeps the types.
LEMMA EventsTyped == ASSUME TypeOK, Events PROVE TypeOK'
<1>1. ASSUME NEW t \in Channel, NEW m \in Machine, Alarm(t, m)
      PROVE  TypeOK'
  <2>1. walk' \in [Thread -> Walk \cup {None}]
    BY <1>1, StartType DEF Alarm, Handles, TypeOK, Thread, Kind
  <2>2. events' \in Nat
    BY <1>1 DEF Alarm, Handles, TypeOK
  <2>. QED BY <1>1, <2>1, <2>2 DEF Alarm, tree, TypeOK
<1>2. ASSUME NEW t \in Channel, NEW m \in Machine, NEW on \in BOOLEAN,
             OnOffline(t, m, on)
      PROVE  TypeOK'
  <2>1. walk' \in [Thread -> Walk \cup {None}]
    <3>1. CASE (via[m] = {}) = (via'[m] = {})
      BY <1>2, <3>1 DEF OnOffline, TypeOK
    <3>2. CASE ~((via[m] = {}) = (via'[m] = {}))
      <4>1. Start(t, "online", m, IF on THEN 1 ELSE -1) /\ group_of[m] \in Group
        BY <1>2, <3>2 DEF OnOffline, Handles, TypeOK
      <4>. QED BY <4>1, StartType DEF Thread, Kind
    <3>. QED BY <3>1, <3>2
  <2>2. events' \in Nat
    BY <1>2 DEF OnOffline, Handles, TypeOK
  <2>3. via' \in [Machine -> SUBSET Channel]
    BY <1>2 DEF OnOffline, TypeOK
  <2>. QED BY <1>2, <2>1, <2>2, <2>3 DEF OnOffline, tree, TypeOK
<1>3. ASSUME NEW m \in Machine, ClearAlarm(m)
      PROVE  TypeOK'
  <2>1. walk' \in [Thread -> Walk \cup {None}]
    BY <1>3, StartType DEF ClearAlarm, TypeOK, Thread, Kind
  <2>. QED BY <1>3, <2>1 DEF ClearAlarm, tree, TypeOK
<1>4. ASSUME NEW m \in Machine, WorkerLeaves(m)
      PROVE  TypeOK'
  BY <1>4 DEF WorkerLeaves, TypeOK
<1>5. ASSUME NEW t \in Thread, Load(t)
      PROVE  TypeOK'
  <2>1. walk[t] \in Walk
    BY <1>5 DEF Load, TypeOK
  <2>. DEFINE v == count[walk[t].kind][walk[t].at]
              w == [walk[t] EXCEPT !.val = v]
  <2>2. v \in Int
    BY <2>1 DEF TypeOK, Walk
  <2>. HIDE DEF v
  <2>3. w \in Walk
    BY <2>1, <2>2 DEF Walk
  <2>4. walk' = [walk EXCEPT ![t] = w]
    BY <1>5 DEF Load, v, w
  <2>. HIDE DEF w
  <2>5. walk' \in [Thread -> Walk \cup {None}]
    BY <2>3, <2>4 DEF TypeOK
  <2>. QED BY <1>5, <2>5 DEF Load, tree, TypeOK
<1>6. ASSUME NEW t \in Thread, Store(t)
      PROVE  TypeOK'
  <2>. DEFINE w == walk[t]
              p == parent[w.at]
              c == Climb(w, p)
  <2>1. w \in Walk /\ w.val # None
    BY <1>6 DEF Store, TypeOK
  <2>2. p \in Group \cup {None}
    BY <2>1 DEF TypeOK, Walk
  <2>3. /\ walk' = [walk EXCEPT ![t] = c]
        /\ count' = [count EXCEPT ![w.kind][w.at] = w.val + w.by]
    BY <1>6 DEF Store
  <2>. HIDE DEF w, p
  <2>4. c \in Walk \cup {None}
    BY <2>1, <2>2 DEF Climb, Walk
  <2>. HIDE DEF c
  <2>5. walk' \in [Thread -> Walk \cup {None}]
    BY <2>3, <2>4 DEF TypeOK
  <2>6. w.val + w.by \in Int /\ w.kind \in Kind /\ w.at \in Group
    BY <2>1 DEF Walk
  <2>7. count' \in [Kind -> [Group -> Int]]
    BY <2>3, <2>6 DEF TypeOK
  <2>. QED BY <1>6, <2>5, <2>7 DEF Store, tree, TypeOK
<1>. QED BY <1>1, <1>2, <1>3, <1>4, <1>5, <1>6 DEF Events

\* Every step of the dialog keeps the types.
LEMMA DialogTyped == ASSUME TypeOK, Dialog PROVE TypeOK'
<1>1. ASSUME OpenDialog \/ CloseDialog
      PROVE  TypeOK'
  BY <1>1 DEF OpenDialog, CloseDialog, TypeOK
<1>2. ASSUME Edits
      PROVE  edits' \in Nat
  BY <1>2 DEF Edits, TypeOK
<1>3. ASSUME NEW m \in Machine, DeleteMachine(m)
      PROVE  TypeOK'
  <2>1. total' \in [Group -> Int] /\ count' \in [Kind -> [Group -> Int]]
    <3>1. total \in [Group -> Int] /\ count \in [Kind -> [Group -> Int]] /\ -1 \in Int
      BY DEF TypeOK
    <3>2. /\ total' = Update(total, Lineage(group_of[m]), -1)
          /\ count' = LeaveOnline(via[m] # {}, group_of[m], count)
      BY <1>3 DEF DeleteMachine
    <3>. QED BY <3>1, <3>2, UpdateType, JoinType
  <2>2. group_of' \in [Machine -> Group \cup {None}] /\ via' \in [Machine -> SUBSET Channel]
    BY <1>3 DEF DeleteMachine, TypeOK
  <2>. QED BY <1>2, <1>3, <2>1, <2>2 DEF DeleteMachine, TypeOK
<1>4. ASSUME NEW m \in Machine, NEW h \in Group, MoveMachine(m, h)
      PROVE  TypeOK'
  <2>. DEFINE g  == group_of[m]
              f1 == Update(total, Lineage(g), -1)
              c1 == LeaveOnline(via[m] # {}, g, count)
  <2>1. f1 \in [Group -> Int] /\ c1 \in [Kind -> [Group -> Int]]
    <3>1. total \in [Group -> Int] /\ count \in [Kind -> [Group -> Int]] /\ -1 \in Int
      BY DEF TypeOK
    <3>. QED BY <3>1, UpdateType, JoinType
  <2>2. total' = Update(f1, Lineage(h), 1) /\ count' = JoinOnline(via[m] # {}, h, c1)
    BY <1>4 DEF MoveMachine, MovedTotal
  <2>. HIDE DEF f1, c1
  <2>3. total' \in [Group -> Int] /\ count' \in [Kind -> [Group -> Int]]
    <3>1. 1 \in Int
      OBVIOUS
    <3>. QED BY <2>1, <2>2, <3>1, UpdateType, JoinType
  <2>4. group_of' \in [Machine -> Group \cup {None}]
    BY <1>4 DEF MoveMachine, TypeOK
  <2>. QED BY <1>2, <1>4, <2>3, <2>4 DEF MoveMachine, TypeOK
<1>5. ASSUME NEW m \in Machine, NEW g \in Group, NEW S \in SUBSET Channel,
             AddMachine(m, g, S)
      PROVE  TypeOK'
  <2>1. total' \in [Group -> Int] /\ count' \in [Kind -> [Group -> Int]]
    <3>1. total \in [Group -> Int] /\ count \in [Kind -> [Group -> Int]] /\ 1 \in Int
      BY DEF TypeOK
    <3>2. /\ total' = Update(total, Lineage(g), 1)
          /\ count' = JoinOnline(S # {}, g, count)
      BY <1>5 DEF AddMachine
    <3>. QED BY <3>1, <3>2, UpdateType, JoinType
  <2>2. group_of' \in [Machine -> Group \cup {None}] /\ via' \in [Machine -> SUBSET Channel]
    BY <1>5 DEF AddMachine, TypeOK
  <2>. QED BY <1>2, <1>5, <2>1, <2>2 DEF AddMachine, TypeOK
<1>6. ASSUME NEW k \in Kind, NEW q \in Group \cup {None}, NEW g \in Group
      PROVE  [count[k] EXCEPT ![q] = @ - Positive(count[k][g])] \in [Group -> Int]
  <2>1. count[k] \in [Group -> Int]
    BY DEF TypeOK
  <2>2. Positive(count[k][g]) \in Int
    BY <2>1 DEF Positive
  <2>3. ASSUME NEW f \in [Group -> Int], NEW i \in Int
        PROVE  [f EXCEPT ![q] = @ - i] \in [Group -> Int]
    <3>1. CASE q \in Group
      <4>1. f[q] - i \in Int
        BY <3>1
      <4>. QED BY <4>1
    <3>2. CASE q \notin Group
      BY <3>2
    <3>. QED BY <3>1, <3>2
  <2>. QED BY <2>1, <2>2, <2>3
<1>7. ASSUME NEW g \in Group, DeleteGroup(g)
      PROVE  TypeOK'
  <2>1. parent[g] \in Group \cup {None}
    BY DEF TypeOK
  <2>2. /\ parent' \in [Group -> Group \cup {None}]
        /\ group_of' \in [Machine -> Group \cup {None}]
    BY <1>7, <2>1 DEF DeleteGroup, Home, TypeOK
  <2>3. count' \in [Kind -> [Group -> Int]]
    BY <1>6, <1>7, <2>1 DEF DeleteGroup
  <2>. QED BY <1>2, <1>7, <2>2, <2>3 DEF DeleteGroup, TypeOK
<1>8. ASSUME NEW g \in Group, NEW p \in Group, AddGroup(g, p)
      PROVE  TypeOK'
  BY <1>2, <1>8 DEF AddGroup, TypeOK
<1>9. ASSUME NEW g \in Group, NEW p \in Group, MoveGroup(g, p)
      PROVE  TypeOK'
  <2>1. total' \in [Group -> Int]
    BY <1>9 DEF MoveGroup, Positive, TypeOK
  <2>2. count' \in [Kind -> [Group -> Int]]
    <3>1. CASE parent[g] = Root
      BY <1>9, <3>1 DEF MoveGroup, TypeOK
    <3>2. CASE parent[g] # Root
      <4>1. parent[g] \in Group \cup {None}
        BY DEF TypeOK
      <4>2. count' = [k \in Kind |-> [count[k] EXCEPT
                                        ![parent[g]] = @ - Positive(count[k][g])]]
        BY <1>9, <3>2 DEF MoveGroup
      <4>. QED BY <1>6, <4>1, <4>2
    <3>. QED BY <3>1, <3>2
  <2>. QED BY <1>2, <1>9, <2>1, <2>2 DEF MoveGroup, TypeOK
<1>. QED BY <1>1, <1>3, <1>4, <1>5, <1>7, <1>8, <1>9 DEF Dialog

\* Every step keeps the types.
LEMMA TypeStep == TypeOK /\ [Next]_vars => TypeOK'
<1>1. CASE UNCHANGED vars
  BY <1>1 DEF vars, TypeOK
<1>. QED BY <1>1, EventsTyped, DialogTyped DEF Next

\* Every variable of the tree, its counters and the walks keeps its type, for
\* all edits (MachineManagerDlg.cpp) and events (AlarmMachine.cpp) there are.
THEOREM Typing == Spec => []TypeOK
<1>1. Init => TypeOK
  BY InitTyped
<1>2. TypeOK /\ [Next]_vars => TypeOK'
  BY TypeStep
<1>. QED BY <1>1, <1>2, PTL DEF Spec

-----------------------------------------------------------------------------
(* Walks that an edit does not change, and those it shortens. *)

\* Two trees that agree on a closed set of groups have the same walks in it.
LEMMA LineageSame ==
  ASSUME NEW p \in [Group -> Group \cup {None}],
         NEW q \in [Group -> Group \cup {None}],
         NEW S \in SUBSET Group, NEW g \in S,
         Closed(p, S), \A x \in S : q[x] = p[x]
  PROVE  LineageIn(q, g) = LineageIn(p, g)
<1>1. Closed(q, S)
  BY DEF Closed
<1>2. LineageIn(p, g) \subseteq S /\ LineageIn(q, g) \subseteq S
  BY <1>1, LineageLeast
<1>3. /\ g \in LineageIn(p, g) /\ Closed(p, LineageIn(p, g))
      /\ g \in LineageIn(q, g) /\ Closed(q, LineageIn(q, g))
  BY LineageSelf, LineageClosed
<1>4. Closed(q, LineageIn(p, g)) /\ Closed(p, LineageIn(q, g))
  BY <1>2, <1>3 DEF Closed
<1>. QED BY <1>2, <1>3, <1>4, LineageLeast

\* A walk is its start and the walk from the parent.
LEMMA LineageNext ==
  ASSUME NEW p \in [Group -> Group \cup {None}], NEW g \in Group
  PROVE  /\ p[g] # None => LineageIn(p, g) = {g} \cup LineageIn(p, p[g])
         /\ p[g] = None => LineageIn(p, g) = {g}
<1>1. CASE p[g] = None
  <2>1. Closed(p, {g})
    BY <1>1 DEF Closed
  <2>2. LineageIn(p, g) \subseteq {g}
    BY <2>1, LineageLeast
  <2>. QED BY <1>1, <2>2, LineageSelf
<1>2. CASE p[g] # None
  <2>1. p[g] \in Group
    BY <1>2
  <2>. DEFINE U == {g} \cup LineageIn(p, p[g])
  <2>2. Closed(p, LineageIn(p, p[g])) /\ p[g] \in LineageIn(p, p[g])
    BY <2>1, LineageClosed, LineageSelf
  <2>3. Closed(p, U) /\ U \in SUBSET Group
    BY <2>1, <2>2, LineageClosed DEF Closed
  <2>4. LineageIn(p, g) \subseteq U
    BY <2>3, LineageLeast
  <2>5. Closed(p, LineageIn(p, g)) /\ g \in LineageIn(p, g)
    BY LineageClosed, LineageSelf
  <2>6. p[g] \in LineageIn(p, g)
    BY <1>2, <2>5 DEF Closed
  <2>7. LineageIn(p, p[g]) \subseteq LineageIn(p, g)
    BY <2>1, <2>5, <2>6, LineageLeast, LineageClosed
  <2>. QED BY <1>2, <2>4, <2>5, <2>7
<1>. QED BY <1>1, <1>2

\* Taking g out of a tree takes it out of the walks that passed it, and out of
\* no other place.
LEMMA LineageSpliced ==
  ASSUME NEW p \in [Group -> Group \cup {None}],
         NEW q \in [Group -> Group \cup {None}],
         NEW S \in SUBSET Group, NEW g \in S, NEW h \in S \ {g},
         Closed(p, S), p[g] # None, p[g] # g,
         \A x \in S : q[x] = IF p[x] = g THEN p[g] ELSE p[x]
  PROVE  LineageIn(q, h) = LineageIn(p, h) \ {g}
<1>. DEFINE L == LineageIn(p, h)
            M == LineageIn(q, h)
            U == IF p[g] \in M THEN M \cup {g} ELSE M
<1>1. h \in L /\ Closed(p, L) /\ h \in M /\ Closed(q, M) /\ L \in SUBSET Group
        /\ M \in SUBSET Group
  BY LineageSelf, LineageClosed
<1>2. L \subseteq S
  BY LineageLeast
<1>3. g \in L => p[g] \in L
  BY <1>1 DEF Closed
<1>4. ASSUME NEW x \in L \ {g}, q[x] # None
      PROVE  q[x] \in L \ {g}
  <2>1. q[x] = IF p[x] = g THEN p[g] ELSE p[x]
    BY <1>2, <1>4
  <2>2. p[x] # None => p[x] \in L
    BY <1>1, <1>4 DEF Closed
  <2>. QED BY <1>3, <1>4, <2>1, <2>2, NoneAssumption
<1>5. Closed(q, L \ {g})
  BY <1>4 DEF Closed
<1>6. M \subseteq L \ {g}
  BY <1>1, <1>5, LineageLeast
<1>7. ASSUME NEW x \in U, p[x] # None
      PROVE  p[x] \in U
  <2>1. CASE x = g
    BY <1>6, <2>1
  <2>2. CASE x # g
    <3>1. x \in M /\ x \in S
      BY <1>2, <1>6, <2>2
    <3>2. q[x] = IF p[x] = g THEN p[g] ELSE p[x]
      BY <3>1
    <3>3. q[x] # None
      BY <1>7, <3>2
    <3>4. q[x] \in M
      BY <1>1, <3>1, <3>3 DEF Closed
    <3>. QED BY <3>2, <3>4
  <2>. QED BY <2>1, <2>2
<1>8. Closed(p, U) /\ U \in SUBSET Group /\ h \in U
  <2>1. Closed(p, U)
    BY <1>7 DEF Closed
  <2>. QED BY <1>1, <2>1
<1>9. L \subseteq U
  <2>. HIDE DEF U
  <2>. QED BY <1>8, LineageLeast
<1>. QED BY <1>6, <1>9

-----------------------------------------------------------------------------
(* The machines below a group, and how many there are. *)

\* A set of machines is finite, and has a number.
LEMMA MachinesFinite ==
  ASSUME NEW S \in SUBSET Machine
  PROVE  IsFiniteSet(S) /\ Cardinality(S) \in Nat
BY FiniteAssumption, FS_Subset, FS_CardinalityType

\* A machine that comes is one more ...
LEMMA OneMore ==
  ASSUME NEW S \in SUBSET Machine, NEW m \in Machine \ S
  PROVE  Cardinality(S \cup {m}) = Cardinality(S) + 1
BY MachinesFinite, FS_AddElement

\* ... or one less.
LEMMA OneLess ==
  ASSUME NEW S \in SUBSET Machine, NEW m \in S
  PROVE  Cardinality(S \ {m}) = Cardinality(S) - 1
BY MachinesFinite, FS_RemoveElement

\* A set of machines that counts none is empty.
LEMMA CountsNone ==
  ASSUME NEW S \in SUBSET Machine, ~(Cardinality(S) > 0)
  PROVE  S = {}
<1>1. Cardinality(S) = 0
  BY MachinesFinite
<1>. QED BY <1>1, MachinesFinite, FS_EmptySet

-----------------------------------------------------------------------------
(* Each group counts the machines below it. *)

\* The inductive invariant: the deletion of a group needs the totals to find
\* homes, the totals need the homes to be in the tree.
HomeInv == TypeOK /\ TreeInv /\ Homed /\ TotalRight

\* What the tree and the homes give: a machine's walk stays in the tree.
LEMMA HomeLineage ==
  ASSUME HomeInv, NEW m \in Machine, group_of[m] # None
  PROVE  /\ group_of[m] \in groups /\ group_of[m] \in Group
         /\ Lineage(group_of[m]) \subseteq groups
         /\ groups \in SUBSET Group
BY DEF HomeInv, Homed, TreeInv, TreeTypes, Rooted

\* Where the program starts everything is counted.
LEMMA InitHome == Init => Homed /\ TotalRight
<1>. SUFFICES ASSUME Init PROVE Homed /\ TotalRight
  OBVIOUS
<1>1. groups \subseteq Group
  BY DEF Init
<1>. QED BY <1>1 DEF Init, Homed, TotalRight

\* A step that moves no machine and no group and counts nobody.
LEMMA SameHome ==
  ASSUME HomeInv, UNCHANGED <<groups, parent, group_of, total>>
  PROVE  (Homed /\ TotalRight)'
BY DEF HomeInv, Homed, TotalRight, Below, Lineage

\* A machine joins a group: the group and those above it count it.
LEMMA AddMachineHome ==
  ASSUME HomeInv, NEW m \in Machine, NEW g \in Group, NEW S \in SUBSET Channel,
         AddMachine(m, g, S)
  PROVE  (Homed /\ TotalRight)'
<1>1. /\ group_of[m] = None /\ g \in groups
      /\ group_of' = [group_of EXCEPT ![m] = g]
      /\ total' = Update(total, Lineage(g), 1)
      /\ groups' = groups /\ parent' = parent
  BY DEF AddMachine
<1>2. /\ group_of \in [Machine -> Group \cup {None}]
      /\ total \in [Group -> Int] /\ groups \subseteq Group
  BY DEF HomeInv, TypeOK
<1>3. Homed'
  BY <1>1, <1>2 DEF HomeInv, Homed
<1>4. ASSUME NEW h \in groups
      PROVE  total'[h] = Cardinality(Below(h)')
  <2>1. total[h] = Cardinality(Below(h)) /\ Below(h) \in SUBSET Machine
    BY DEF HomeInv, TotalRight, Below
  <2>2. m \notin Below(h)
    BY <1>1 DEF Below
  <2>3. CASE h \in Lineage(g)
    <3>1. Below(h)' = Below(h) \cup {m}
      BY <1>1, <1>2, <2>3, NoneAssumption DEF Below, Lineage
    <3>2. total'[h] = total[h] + 1
      BY <1>1, <1>2, <2>3 DEF Update
    <3>. QED BY <2>1, <2>2, <3>1, <3>2, OneMore
  <2>4. CASE h \notin Lineage(g)
    <3>1. Below(h)' = Below(h)
      BY <1>1, <1>2, <2>4, NoneAssumption DEF Below, Lineage
    <3>2. total'[h] = total[h]
      BY <1>1, <1>2, <2>4 DEF Update
    <3>. QED BY <2>1, <3>1, <3>2
  <2>. QED BY <2>3, <2>4
<1>. QED BY <1>1, <1>3, <1>4 DEF TotalRight

\* A machine leaves: the group and those above it count it no more.
LEMMA DeleteMachineHome ==
  ASSUME HomeInv, NEW m \in Machine, DeleteMachine(m)
  PROVE  (Homed /\ TotalRight)'
<1>. DEFINE g == group_of[m]
<1>1. /\ g \in groups
      /\ group_of' = [group_of EXCEPT ![m] = None]
      /\ total' = Update(total, Lineage(g), -1)
      /\ groups' = groups /\ parent' = parent
  BY DEF DeleteMachine
<1>2. /\ group_of \in [Machine -> Group \cup {None}]
      /\ total \in [Group -> Int] /\ groups \subseteq Group
  BY DEF HomeInv, TypeOK
<1>3. Homed'
  BY <1>1, <1>2 DEF HomeInv, Homed
<1>4. ASSUME NEW h \in groups
      PROVE  total'[h] = Cardinality(Below(h)')
  <2>1. total[h] = Cardinality(Below(h)) /\ Below(h) \in SUBSET Machine
    BY DEF HomeInv, TotalRight, Below
  <2>2. m \in Below(h) <=> h \in Lineage(g)
    BY <1>1, <1>2, NoneAssumption DEF Below
  <2>3. Below(h)' = Below(h) \ {m}
    BY <1>1, <1>2 DEF Below, Lineage
  <2>4. CASE h \in Lineage(g)
    <3>1. total'[h] = total[h] - 1
      BY <1>1, <1>2, <2>4 DEF Update
    <3>. QED BY <2>1, <2>2, <2>3, <2>4, <3>1, OneLess
  <2>5. CASE h \notin Lineage(g)
    <3>1. total'[h] = total[h]
      BY <1>1, <1>2, <2>5 DEF Update
    <3>2. Below(h)' = Below(h)
      BY <2>2, <2>3, <2>5
    <3>. QED BY <2>1, <3>1, <3>2
  <2>. QED BY <2>4, <2>5
<1>. QED BY <1>1, <1>3, <1>4 DEF TotalRight

\* A machine moves: it is counted where it went instead of where it was, and
\* still by the groups above both.
LEMMA MoveMachineHome ==
  ASSUME HomeInv, NEW m \in Machine, NEW k \in Group, MoveMachine(m, k)
  PROVE  (Homed /\ TotalRight)'
<1>. DEFINE g == group_of[m]
<1>1. /\ g \in groups /\ k \in groups
      /\ group_of' = [group_of EXCEPT ![m] = k]
      /\ total' = Update(Update(total, Lineage(g), -1), Lineage(k), 1)
      /\ groups' = groups /\ parent' = parent
  BY DEF MoveMachine, MovedTotal
<1>2. /\ group_of \in [Machine -> Group \cup {None}]
      /\ total \in [Group -> Int] /\ groups \subseteq Group
  BY DEF HomeInv, TypeOK
<1>3. Homed'
  BY <1>1, <1>2 DEF HomeInv, Homed
<1>4. ASSUME NEW h \in groups
      PROVE  total'[h] = Cardinality(Below(h)')
  <2>1. total[h] = Cardinality(Below(h)) /\ Below(h) \in SUBSET Machine
    BY DEF HomeInv, TotalRight, Below
  <2>2. m \in Below(h) <=> h \in Lineage(g)
    BY <1>1, <1>2, NoneAssumption DEF Below
  <2>3. Below(h)' = IF h \in Lineage(k) THEN Below(h) \cup {m} ELSE Below(h) \ {m}
    BY <1>1, <1>2, NoneAssumption DEF Below, Lineage
  <2>4. total'[h] = (IF h \in Lineage(g) THEN total[h] - 1 ELSE total[h])
                     + (IF h \in Lineage(k) THEN 1 ELSE 0)
    BY <1>1, <1>2 DEF Update
  <2>5. total[h] \in Int
    BY <1>2
  <2>6. CASE h \in Lineage(g) /\ h \in Lineage(k)
    <3>1. Below(h)' = Below(h)
      BY <2>2, <2>3, <2>6
    <3>. QED BY <2>1, <2>4, <2>5, <2>6, <3>1
  <2>7. CASE h \in Lineage(g) /\ h \notin Lineage(k)
    BY <2>1, <2>2, <2>3, <2>4, <2>5, <2>7, OneLess
  <2>8. CASE h \notin Lineage(g) /\ h \in Lineage(k)
    BY <2>1, <2>2, <2>3, <2>4, <2>5, <2>8, OneMore
  <2>9. CASE h \notin Lineage(g) /\ h \notin Lineage(k)
    <3>1. Below(h)' = Below(h)
      BY <2>2, <2>3, <2>9
    <3>. QED BY <2>1, <2>4, <2>5, <2>9, <3>1
  <2>. QED BY <2>6, <2>7, <2>8, <2>9
<1>. QED BY <1>1, <1>3, <1>4 DEF TotalRight

\* A new group has nobody below it, and nobody's walk passes it.
LEMMA AddGroupBelow ==
  ASSUME HomeInv, NEW g \in Group, NEW q \in Group, AddGroup(g, q)
  PROVE  /\ \A h \in groups : Below(h)' = Below(h)
         /\ Below(g)' = {}
<1>1. /\ g \notin groups /\ q \in groups
      /\ parent' = [parent EXCEPT ![g] = q]
      /\ group_of' = group_of
  BY DEF AddGroup
<1>2. parent \in [Group -> Group \cup {None}] /\ groups \in SUBSET Group
  BY DEF HomeInv, TypeOK
<1>3. /\ parent' \in [Group -> Group \cup {None}]
      /\ \A x \in groups : parent'[x] = parent[x]
  BY <1>1, <1>2
<1>4. Closed(parent, groups)
  BY ParentsInTree DEF HomeInv
<1>5. ASSUME NEW x \in groups
      PROVE  Lineage(x)' = Lineage(x) /\ g \notin Lineage(x)
  <2>1. LineageIn(parent', x) = LineageIn(parent, x)
    BY <1>2, <1>3, <1>4, LineageSame
  <2>2. Lineage(x) \subseteq groups
    BY DEF HomeInv, TreeInv, Rooted
  <2>. QED BY <1>1, <2>1, <2>2 DEF Lineage
<1>6. \A h \in groups : Below(h)' = Below(h)
  BY <1>1, <1>5, HomeLineage DEF Below
<1>7. Below(g)' = {}
  BY <1>1, <1>5, HomeLineage DEF Below
<1>. QED BY <1>6, <1>7

\* So the other groups count as before, and it counts none.
LEMMA AddGroupHome ==
  ASSUME HomeInv, NEW g \in Group, NEW q \in Group, AddGroup(g, q)
  PROVE  (Homed /\ TotalRight)'
<1>1. /\ g \notin groups
      /\ groups' = groups \cup {g}
      /\ total' = [total EXCEPT ![g] = 0]
      /\ group_of' = group_of
  BY DEF AddGroup
<1>2. total \in [Group -> Int] /\ groups \in SUBSET Group
  BY DEF HomeInv, TypeOK
<1>3. Homed'
  BY <1>1 DEF HomeInv, Homed
<1>4. \A h \in groups' : total'[h] = Cardinality(Below(h)')
  BY <1>1, <1>2, AddGroupBelow, FS_EmptySet DEF HomeInv, TotalRight
<1>. QED BY <1>3, <1>4 DEF TotalRight

\* A group is deleted: what was below it is below its parent, which counted it
\* before, and no machine stays behind in it.
LEMMA DeleteGroupHome ==
  ASSUME HomeInv, NEW g \in Group, DeleteGroup(g)
  PROVE  (Homed /\ TotalRight)'
<1>1. /\ g \in groups \ {Root}
      /\ groups' = groups \ {g}
      /\ parent' = [h \in Group |-> IF h \in groups /\ parent[h] = g
                                    THEN parent[g] ELSE parent[h]]
      /\ group_of' = Home(g)
      /\ total' = total
  BY DEF DeleteGroup
<1>2. /\ parent \in [Group -> Group \cup {None}]
      /\ group_of \in [Machine -> Group \cup {None}]
      /\ total \in [Group -> Int] /\ groups \in SUBSET Group
  BY DEF HomeInv, TypeOK
<1>3. Closed(parent, groups)
  BY ParentsInTree DEF HomeInv
<1>4. parent[g] \in groups
  BY <1>1, <1>3 DEF HomeInv, TreeInv, Rooted, Closed
<1>5. parent[g] # g
  <2>1. SUFFICES ASSUME parent[g] = g PROVE FALSE
    OBVIOUS
  <2>2. Closed(parent, {g})
    BY <2>1 DEF Closed
  <2>3. Lineage(g) \subseteq {g}
    BY <2>2, LineageLeast DEF Lineage
  <2>. QED BY <1>1, <2>3 DEF HomeInv, TreeInv, Rooted
<1>6. /\ parent' \in [Group -> Group \cup {None}]
      /\ \A x \in groups : parent'[x] = IF parent[x] = g THEN parent[g] ELSE parent[x]
  BY <1>1, <1>2, <1>4
<1>7. parent[g] # None
  BY <1>2, <1>4, NoneAssumption
<1>8. \A x \in groups \ {g} : LineageIn(parent', x) = LineageIn(parent, x) \ {g}
  BY <1>1, <1>2, <1>3, <1>5, <1>6, <1>7, LineageSpliced
<1>9. Lineage(g) = {g} \cup Lineage(parent[g])
  BY <1>2, <1>7, LineageNext DEF Lineage
<1>10. ASSUME NEW m \in Machine, group_of[m] = g
       PROVE  total[g] > 0
  <2>1. m \in Below(g)
    BY <1>2, <1>9, <1>10, NoneAssumption DEF Below
  <2>2. Below(g) \in SUBSET Machine /\ total[g] = Cardinality(Below(g))
    BY <1>1 DEF Below, HomeInv, TotalRight
  <2>. QED BY <2>1, <2>2, CountsNone
<1>11. \A m \in Machine : group_of'[m] = IF group_of[m] = g THEN parent[g]
                                         ELSE group_of[m]
  BY <1>1, <1>10 DEF Home
<1>12. Homed'
  BY <1>1, <1>2, <1>4, <1>5, <1>11 DEF HomeInv, Homed
<1>13. ASSUME NEW h \in groups', NEW m \in Machine
       PROVE  m \in Below(h)' <=> m \in Below(h)
  <2>1. h \in groups /\ h # g
    BY <1>1
  <2>2. CASE group_of[m] = g
    <3>1. group_of'[m] = parent[g]
      BY <1>11, <2>2
    <3>2. LineageIn(parent', parent[g]) = LineageIn(parent, parent[g]) \ {g}
      BY <1>4, <1>5, <1>8
    <3>. QED BY <1>1, <1>2, <1>7, <1>9, <2>1, <2>2, <3>1, <3>2, NoneAssumption DEF Below, Lineage
  <2>3. CASE group_of[m] = None
    BY <1>2, <1>11, <2>3, NoneAssumption DEF Below
  <2>4. CASE group_of[m] \notin {g, None}
    <3>1. group_of[m] \in groups \ {g} /\ group_of'[m] = group_of[m]
      BY <1>11, <2>4, HomeLineage
    <3>2. LineageIn(parent', group_of[m]) = LineageIn(parent, group_of[m]) \ {g}
      BY <1>8, <3>1
    <3>. QED BY <2>1, <2>4, <3>1, <3>2 DEF Below, Lineage
  <2>. QED BY <2>2, <2>3, <2>4
<1>14. \A h \in groups' : Below(h)' = Below(h)
  BY <1>13 DEF Below
<1>15. \A h \in groups' : total'[h] = Cardinality(Below(h)')
  BY <1>1, <1>14 DEF HomeInv, TotalRight
<1>. QED BY <1>12, <1>15 DEF TotalRight

\* Every step but the move of a group keeps the homes and the totals.
LEMMA HomeStep ==
  ASSUME HomeInv, ~MayMoveGroup, [Next]_vars
  PROVE  (Homed /\ TotalRight)'
<1>1. CASE Events
  <2>1. UNCHANGED <<groups, parent, group_of, total>>
    BY <1>1 DEF Events, Alarm, OnOffline, ClearAlarm, WorkerLeaves, Load, Store, tree
  <2>. QED BY <2>1, SameHome
<1>2. CASE Dialog
  <2>1. CASE OpenDialog \/ CloseDialog
    BY <2>1, SameHome DEF OpenDialog, CloseDialog
  <2>2. CASE \E m \in Machine : DeleteMachine(m)
    BY <2>2, DeleteMachineHome
  <2>3. CASE \E m \in Machine, g \in Group : MoveMachine(m, g)
    BY <2>3, MoveMachineHome
  <2>4. CASE \E m \in Machine, g \in Group, S \in SUBSET Channel : AddMachine(m, g, S)
    BY <2>4, AddMachineHome
  <2>5. CASE \E g \in Group : DeleteGroup(g)
    BY <2>5, DeleteGroupHome
  <2>6. CASE \E g, q \in Group : AddGroup(g, q)
    BY <2>6, AddGroupHome
  <2>7. CASE \E g, q \in Group : MoveGroup(g, q)
    BY <2>7 DEF MoveGroup
  <2>. QED BY <1>2, <2>1, <2>2, <2>3, <2>4, <2>5, <2>6, <2>7 DEF Dialog
<1>3. CASE UNCHANGED vars
  BY <1>3, SameHome DEF vars
<1>. QED BY <1>1, <1>2, <1>3 DEF Next

\* The inductive invariant of the homes and the totals holds throughout.
LEMMA HomeInvariant == ~MayMoveGroup => (Spec => []HomeInv)
<1>. SUFFICES ASSUME ~MayMoveGroup PROVE Spec => []HomeInv
  OBVIOUS
<1>1. Init => HomeInv
  BY InitTyped, InitTree, InitHome DEF HomeInv
<1>2. HomeInv /\ [Next]_vars => HomeInv'
  BY TypeStep, TreeStep, HomeStep DEF HomeInv
<1>. QED BY <1>1, <1>2, PTL DEF Spec

\* While no group is moved, every group counts the machines below it
\* (_descendant_machine_count) and every machine is in a group of the tree,
\* whatever machines are added, moved and deleted and whatever groups are added
\* and deleted: the deletion of a group looks at its total to decide whether
\* there are machines to see to (ExecuteDeleteChildGroup).
THEOREM TotalsRight == ~MayMoveGroup => (Spec => [](Homed /\ TotalRight))
<1>. SUFFICES ASSUME ~MayMoveGroup PROVE Spec => [](Homed /\ TotalRight)
  OBVIOUS
<1>1. HomeInv => Homed /\ TotalRight
  BY DEF HomeInv
<1>. QED BY <1>1, HomeInvariant, PTL

\* In particular no machine is left in a group that was deleted: the counter that
\* ExecuteDeleteChildGroup goes by is then the true one.
THEOREM HomesKept == ~MayMoveGroup => (Spec => []Homed)
<1>. SUFFICES ASSUME ~MayMoveGroup PROVE Spec => []Homed
  OBVIOUS
<1>1. HomeInv => Homed
  BY DEF HomeInv
<1>. QED BY <1>1, HomeInvariant, PTL

-----------------------------------------------------------------------------
(* The counts of machines that are online, under one network thread.       *)

\* The network thread whose walk has yet to reach g.
Pending(g) == {c \in Channel : /\ walk[c] # None /\ walk[c].kind = "online"
                               /\ g \in Lineage(walk[c].at)}

Counted(g) == Below(g) \cap Online

\* The walks there may be: the user interface thread counts alarms only, none
\* of the others walks while the dialog is open, and what one has loaded has not
\* changed since.
Walks == /\ walk[UI] # None => walk[UI].kind = "alarming"
         /\ dialog => \A c \in Channel : walk[c] = None
         /\ \A c \in Channel : walk[c] # None =>
              /\ walk[c].at \in groups
              /\ walk[c].kind = "online" /\ walk[c].val # None
                   => walk[c].val = count["online"][walk[c].at]

\* A group that no walk has yet to reach counts its online machines; one that
\* a walk has yet to reach is off by what the walk brings.
Settled ==
    \A g \in groups :
        /\ Pending(g) = {} => count["online"][g] = Cardinality(Counted(g))
        /\ \A c \in Pending(g) :
             count["online"][g] + walk[c].by = Cardinality(Counted(g))

\* What the theorem below assumes of the program's use: one network thread, no
\* event while the dialog is open, no group moved or deleted.
Undisturbed == /\ \A c, d \in Channel : c = d
               /\ Quiet /\ ~MayMoveGroup /\ ~MayDeleteGroup

\* No group is above itself.
LEMMA Acyclic ==
  ASSUME TreeInv, NEW g \in groups, parent[g] # None
  PROVE  /\ parent[g] \in groups
         /\ g \notin Lineage(parent[g])
         /\ Lineage(g) = {g} \cup Lineage(parent[g])
<1>1. /\ g \in Group /\ parent \in [Group -> Group \cup {None}]
      /\ groups \in SUBSET Group
  BY DEF TreeInv, TreeTypes
<1>2. parent[g] \in groups /\ parent[g] \in Group
  BY <1>1, ParentsInTree DEF Closed
<1>3. Lineage(g) = {g} \cup Lineage(parent[g])
  BY <1>1, LineageNext DEF Lineage
<1>4. SUFFICES ASSUME g \in Lineage(parent[g]) PROVE FALSE
  BY <1>2, <1>3
<1>. DEFINE C == {x \in Group : g \in Lineage(x)}
<1>5. ASSUME NEW x \in C, parent[x] # None
      PROVE  parent[x] \in C
  <2>1. CASE x = g
    BY <1>2, <1>4, <2>1
  <2>2. CASE x # g
    <3>1. parent[x] \in Group /\ Lineage(x) = {x} \cup Lineage(parent[x])
      BY <1>1, <1>5, LineageNext DEF Lineage
    <3>. QED BY <2>2, <3>1
  <2>. QED BY <2>1, <2>2
<1>6. Closed(parent, C) /\ g \in C
  BY <1>1, <1>3, <1>5 DEF Closed
<1>7. Lineage(g) \subseteq C
  <2>. HIDE DEF C
  <2>1. C \in SUBSET Group
    BY DEF C
  <2>. QED BY <1>1, <1>6, <2>1, LineageLeast DEF Lineage
<1>8. g \in Lineage(Root) /\ Root \in groups /\ parent[Root] = None
  BY <1>7 DEF TreeInv, Rooted
<1>9. Lineage(Root) = {Root}
  BY <1>1, <1>8, RootAssumption, LineageNext DEF Lineage
<1>. QED BY <1>8, <1>9

\* Initially nobody is online and nobody walks.
LEMMA InitCounts == Init => Walks /\ Settled
<1>. SUFFICES ASSUME Init PROVE Walks /\ Settled
  OBVIOUS
<1>1. \A t \in Thread : walk[t] = None
  BY DEF Init
<1>2. Walks
  BY <1>1 DEF Init, Walks, Thread
<1>3. ASSUME NEW g \in groups
      PROVE  Pending(g) = {} /\ count["online"][g] = Cardinality(Counted(g))
  <2>1. Pending(g) = {}
    BY <1>1 DEF Pending, Thread
  <2>2. Counted(g) = {}
    BY DEF Init, Counted, Online
  <2>3. count["online"][g] = 0
    BY DEF Init, Kind
  <2>. QED BY <2>1, <2>2, <2>3, FS_EmptySet
<1>. QED BY <1>2, <1>3 DEF Settled

\* A step that changes nothing the counts depend on but what is loaded.
LEMMA SameCounts ==
  ASSUME HomeInv, Settled,
         UNCHANGED <<groups, parent, group_of, via>>,
         count'["online"] = count["online"],
         \A g \in groups : /\ Pending(g)' = Pending(g)
                           /\ \A c \in Pending(g) : walk'[c].by = walk[c].by
  PROVE  Settled'
<1>1. \A g \in groups : Counted(g)' = Counted(g)
  BY DEF Counted, Below, Online, Lineage
<1>. QED BY <1>1 DEF Settled

\* The inductive invariant of the online counts.
CountInv == HomeInv /\ Walks /\ Settled

\* An alarm is no matter of these counts.
LEMMA AlarmCounts ==
  ASSUME Undisturbed, CountInv, NEW t \in Channel, NEW m \in Machine, Alarm(t, m)
  PROVE  Walks' /\ Settled'
<1>1. /\ walk[t] = None /\ group_of[m] \in groups /\ ~dialog
      /\ walk' = [walk EXCEPT ![t] = [kind |-> "alarming", m |-> m, by |-> 1,
                                      at |-> group_of[m], val |-> None]]
      /\ UNCHANGED <<groups, parent, group_of, dialog, via, count>>
  BY DEF Alarm, Handles, Start, tree, Undisturbed
<1>2. walk \in [Thread -> Walk \cup {None}] /\ t \in Thread /\ UI # t /\ UI \in Thread
  BY UIAssumption DEF CountInv, HomeInv, TypeOK, Thread
<1>3. /\ walk'[t].kind = "alarming" /\ walk'[t].at = group_of[m]
      /\ walk'[UI] = walk[UI]
  BY <1>1, <1>2
<1>4. \A c \in Channel : c = t
  BY DEF Undisturbed
<1>5. Walks'
  BY <1>1, <1>3, <1>4 DEF CountInv, Walks
<1>6. \A g \in groups : Pending(g) = {} /\ Pending(g)' = {}
  BY <1>1, <1>3, <1>4 DEF Pending
<1>7. Settled'
  BY <1>1, <1>6, SameCounts DEF CountInv
<1>. QED BY <1>5, <1>7

\* A machine that comes online or goes offline starts a walk that has all the
\* groups above it yet to reach.
LEMMA OnOfflineCounts ==
  ASSUME Undisturbed, CountInv, NEW t \in Channel, NEW m \in Machine,
         NEW on \in BOOLEAN, OnOffline(t, m, on)
  PROVE  Walks' /\ Settled'
<1>1. /\ walk[t] = None /\ group_of[m] \in groups /\ ~dialog
      /\ via' = [via EXCEPT ![m] = IF on THEN @ \cup {t} ELSE @ \ {t}]
      /\ UNCHANGED <<groups, parent, group_of, dialog, count>>
  BY DEF OnOffline, Handles, tree, Undisturbed
<1>2. /\ walk \in [Thread -> Walk \cup {None}] /\ t \in Thread /\ UI # t /\ UI \in Thread
      /\ via \in [Machine -> SUBSET Channel] /\ group_of[m] # None
      /\ count["online"] \in [Group -> Int] /\ groups \in SUBSET Group
  <2>1. TypeOK
    BY DEF CountInv, HomeInv
  <2>2. count["online"] \in [Group -> Int]
    BY <2>1 DEF TypeOK, Kind
  <2>. QED BY <1>1, <2>1, <2>2, UIAssumption, NoneAssumption DEF TypeOK, Thread
<1>3. \A c \in Channel : c = t
  BY DEF Undisturbed
<1>4. \A g \in groups : Pending(g) = {} /\ count["online"][g] = Cardinality(Counted(g))
  BY <1>1, <1>3 DEF Pending, CountInv, Settled
<1>5. \A g \in groups : m \in Below(g) <=> g \in Lineage(group_of[m])
  BY <1>2 DEF Below
<1>6. \A g \in groups : Below(g)' = Below(g) /\ Below(g) \in SUBSET Machine
  BY <1>1 DEF Below, Lineage
<1>7. CASE (via[m] = {}) = (via'[m] = {})
  <2>1. walk' = walk
    BY <1>7 DEF OnOffline
  <2>2. Online' = Online
    BY <1>1, <1>2, <1>7 DEF Online
  <2>3. \A g \in groups : Pending(g)' = {} /\ Counted(g)' = Counted(g)
    BY <1>1, <1>3, <1>6, <2>1, <2>2 DEF Pending, Counted
  <2>4. Walks'
    BY <1>1, <2>1 DEF Walks, CountInv
  <2>. QED BY <1>1, <1>4, <2>3, <2>4 DEF Settled
<1>8. CASE ~((via[m] = {}) = (via'[m] = {}))
  <2>. DEFINE d == IF on THEN 1 ELSE -1
  <2>1. walk' = [walk EXCEPT ![t] = [kind |-> "online", m |-> m, by |-> d,
                                     at |-> group_of[m], val |-> None]]
    BY <1>8 DEF OnOffline, Start
  <2>2. /\ walk'[t].kind = "online" /\ walk'[t].at = group_of[m]
        /\ walk'[t].val = None /\ walk'[t].by = d /\ walk'[UI] = walk[UI]
        /\ walk'[t] # None
    <3>. DEFINE w == [kind |-> "online", m |-> m, by |-> d, at |-> group_of[m],
                      val |-> None]
    <3>1. w \in Walk
      BY <1>1, <1>2 DEF Walk, Kind
    <3>. QED BY <1>2, <2>1, <3>1, WalkAssumption
  <2>3. Walks'
    BY <1>1, <1>3, <2>2 DEF Walks, CountInv
  <2>4. ASSUME NEW g \in groups
        PROVE  Pending(g)' = IF g \in Lineage(group_of[m]) THEN {t} ELSE {}
    BY <1>1, <1>3, <2>2 DEF Pending, Lineage
  <2>5. Online' = IF on THEN Online \cup {m} ELSE Online \ {m}
    BY <1>1, <1>2, <1>8 DEF Online
  <2>6. m \in Online <=> ~on
    BY <1>1, <1>2, <1>8 DEF Online
  <2>7. ASSUME NEW g \in groups, g \in Lineage(group_of[m])
        PROVE  Cardinality(Counted(g)') = count["online"][g] + d
    <3>1. Counted(g) \in SUBSET Machine
      BY DEF Counted, Below
    <3>2. CASE on
      <4>1. Counted(g)' = Counted(g) \cup {m} /\ m \notin Counted(g)
        BY <1>5, <1>6, <2>5, <2>6, <2>7, <3>2 DEF Counted
      <4>. QED BY <1>4, <3>1, <3>2, <4>1, OneMore
    <3>3. CASE ~on
      <4>1. Counted(g)' = Counted(g) \ {m} /\ m \in Counted(g)
        BY <1>5, <1>6, <2>5, <2>6, <2>7, <3>3 DEF Counted
      <4>2. Cardinality(Counted(g)') = Cardinality(Counted(g)) - 1
        BY <3>1, <4>1, OneLess
      <4>. QED BY <1>2, <1>4, <3>3, <4>2
    <3>. QED BY <3>2, <3>3
  <2>8. ASSUME NEW g \in groups, g \notin Lineage(group_of[m])
        PROVE  Counted(g)' = Counted(g)
    BY <1>5, <1>6, <2>5, <2>8 DEF Counted
  <2>9. ASSUME NEW g \in groups'
        PROVE  /\ Pending(g)' = {} => count'["online"][g] = Cardinality(Counted(g)')
               /\ \A c \in Pending(g)' :
                    count'["online"][g] + walk'[c].by = Cardinality(Counted(g)')
    BY <1>1, <1>4, <2>2, <2>4, <2>7, <2>8
  <2>10. Settled'
    BY <2>9 DEF Settled
  <2>. QED BY <2>3, <2>10
<1>. QED BY <1>7, <1>8

\* What the user interface thread does to the alarm counts is no matter of the
\* online counts.
LEMMA ClearAlarmCounts ==
  ASSUME CountInv, NEW m \in Machine, ClearAlarm(m)
  PROVE  Walks' /\ Settled'
<1>1. /\ walk' = [walk EXCEPT ![UI] = [kind |-> "alarming", m |-> m, by |-> -1,
                                       at |-> group_of[m], val |-> None]]
      /\ UNCHANGED <<groups, parent, group_of, dialog, via, count>>
  BY DEF ClearAlarm, Start, tree
<1>2. walk \in [Thread -> Walk \cup {None}] /\ UI \in Thread
  BY DEF CountInv, HomeInv, TypeOK, Thread
<1>3. walk'[UI].kind = "alarming" /\ \A c \in Channel : walk'[c] = walk[c]
  BY <1>1, <1>2, UIAssumption DEF Thread
<1>4. Walks'
  BY <1>1, <1>3 DEF CountInv, Walks
<1>5. \A g \in groups : Pending(g)' = Pending(g)
  BY <1>1, <1>3 DEF Pending, Lineage
<1>6. \A g \in groups : Pending(g) \in SUBSET Channel
  BY DEF Pending
<1>7. Settled'
  BY <1>1, <1>3, <1>5, <1>6, SameCounts DEF CountInv
<1>. QED BY <1>4, <1>7

\* A load leaves what is yet to be counted as it is.
LEMMA LoadCounts ==
  ASSUME CountInv, NEW t \in Thread, Load(t)
  PROVE  Walks' /\ Settled'
<1>1. /\ walk[t] # None
      /\ walk' = [walk EXCEPT ![t].val = count[walk[t].kind][walk[t].at]]
      /\ UNCHANGED <<groups, parent, group_of, dialog, via, count>>
  BY DEF Load, tree
<1>2. walk \in [Thread -> Walk \cup {None}]
  BY DEF CountInv, HomeInv, TypeOK
<1>3. walk[t] \in Walk /\ walk'[t] = [walk[t] EXCEPT !.val = count[walk[t].kind][walk[t].at]]
  BY <1>1, <1>2
<1>4. /\ walk'[t].kind = walk[t].kind /\ walk'[t].at = walk[t].at
      /\ walk'[t].by = walk[t].by
      /\ walk'[t].val = count[walk[t].kind][walk[t].at]
      /\ walk'[t] # None
  <2>1. /\ walk'[t].kind = walk[t].kind /\ walk'[t].at = walk[t].at
        /\ walk'[t].by = walk[t].by
        /\ walk'[t].val = count[walk[t].kind][walk[t].at]
    BY <1>3 DEF Walk
  <2>2. count[walk[t].kind][walk[t].at] \in Int
    BY <1>3 DEF CountInv, HomeInv, TypeOK, Walk
  <2>3. walk'[t] \in Walk
    BY <1>3, <2>2 DEF Walk
  <2>. QED BY <2>1, <2>3, WalkAssumption
<1>5. \A s \in Thread \ {t} : walk'[s] = walk[s]
  BY <1>1, <1>2
<1>6. UI \in Thread /\ Channel \subseteq Thread
  BY DEF Thread
<1>7. Walks'
  BY <1>1, <1>4, <1>5, <1>6 DEF CountInv, Walks
<1>8. \A g \in groups : Pending(g)' = Pending(g)
  BY <1>1, <1>4, <1>5, <1>6 DEF Pending, Lineage
<1>9. \A c \in Channel : walk[c] # None => walk'[c].by = walk[c].by
  BY <1>4, <1>5, <1>6
<1>10. Settled'
  BY <1>1, <1>8, <1>9, SameCounts DEF CountInv, Pending
<1>. QED BY <1>7, <1>10

\* A store of an online walk settles its group and leaves the groups above it.
LEMMA StoreCounts ==
  ASSUME Undisturbed, CountInv, NEW t \in Thread, Store(t)
  PROVE  Walks' /\ Settled'
<1>. DEFINE w == walk[t]
            p == parent[w.at]
            n == w.val + w.by
            C == Climb(w, p)
<1>1. /\ w # None /\ w.val # None
      /\ count' = [count EXCEPT ![w.kind][w.at] = n]
      /\ walk' = [walk EXCEPT ![t] = C]
      /\ UNCHANGED <<groups, parent, group_of, dialog, via>>
  BY DEF Store, tree
<1>2. /\ walk \in [Thread -> Walk \cup {None}] /\ count \in [Kind -> [Group -> Int]]
      /\ parent \in [Group -> Group \cup {None}] /\ groups \in SUBSET Group
      /\ TreeInv
  BY DEF CountInv, HomeInv, TypeOK
<1>3. w \in Walk /\ w.kind \in Kind /\ w.at \in Group /\ n \in Int
  BY <1>1, <1>2 DEF Walk
<1>4. walk'[t] = C /\ \A s \in Thread \ {t} : walk'[s] = walk[s]
  BY <1>1, <1>2
<1>5. UI \in Thread /\ Channel \subseteq Thread /\ UI \notin Channel
  BY UIAssumption DEF Thread
<1>6. CASE w.kind = "alarming"
  <2>1. walk'[t] # None => walk'[t].kind = "alarming" /\ walk'[t].at = p /\ p # None
    BY <1>3, <1>4, <1>6 DEF Climb, Walk
  <2>2. count'["online"] = count["online"]
    BY <1>1, <1>2, <1>3, <1>6 DEF Kind
  <2>3. t \in Channel => w.at \in groups
    BY <1>1 DEF CountInv, Walks
  <2>4. walk'[t] # None /\ t \in Channel => walk'[t].at \in groups
    BY <1>2, <2>1, <2>3, ParentsInTree DEF Closed
  <2>5. walk'[t] # None /\ dialog => t \notin Channel
    BY <1>1 DEF CountInv, Walks
  <2>6. Walks'
    BY <1>1, <1>4, <1>5, <2>1, <2>2, <2>4, <2>5 DEF CountInv, Walks
  <2>7. \A g \in groups : Pending(g)' = Pending(g) /\ t \notin Pending(g)
    BY <1>1, <1>4, <1>5, <1>6, <2>1 DEF Pending, Lineage
  <2>8. \A g \in groups : \A c \in Pending(g) : walk'[c].by = walk[c].by
    BY <1>4, <1>5, <2>7 DEF Pending
  <2>9. Settled'
    BY <1>1, <2>2, <2>7, <2>8, SameCounts DEF CountInv
  <2>. QED BY <2>6, <2>9
<1>7. CASE w.kind = "online"
  <2>1. t \in Channel /\ \A c \in Channel : c = t
    BY <1>1, <1>5, <1>7 DEF CountInv, Walks, Undisturbed, Thread
  <2>2. w.at \in groups /\ w.val = count["online"][w.at]
    BY <1>1, <1>7, <2>1 DEF CountInv, Walks
  <2>3. /\ p # None => /\ p \in groups /\ w.at \notin Lineage(p)
                       /\ Lineage(w.at) = {w.at} \cup Lineage(p)
        /\ p = None => Lineage(w.at) = {w.at}
    BY <1>2, <1>3, <2>2, Acyclic, LineageNext DEF Lineage
  <2>4. /\ walk'[t] = None <=> p = None
        /\ p # None => /\ walk'[t].kind = "online" /\ walk'[t].at = p
                       /\ walk'[t].val = None /\ walk'[t].by = w.by
    <3>1. CASE p = None
      BY <1>4, <3>1 DEF Climb
    <3>2. CASE p # None
      <4>1. p \in Group
        BY <1>2, <1>3, <3>2
      <4>2. walk'[t] = [w EXCEPT !.at = p, !.val = None]
        BY <1>4, <3>2 DEF Climb
      <4>3. walk'[t] \in Walk
        BY <1>3, <4>1, <4>2 DEF Walk
      <4>4. walk'[t] # None
        BY <4>3, WalkAssumption
      <4>5. /\ walk'[t].kind = w.kind /\ walk'[t].at = p
            /\ walk'[t].val = None /\ walk'[t].by = w.by
        BY <1>3, <4>2 DEF Walk
      <4>. QED BY <1>7, <3>2, <4>4, <4>5
    <3>. QED BY <3>1, <3>2
  <2>5. /\ count'["online"][w.at] = count["online"][w.at] + w.by
        /\ \A g \in groups \ {w.at} : count'["online"][g] = count["online"][g]
    BY <1>1, <1>2, <1>3, <1>7, <2>2
  <2>6. walk'[UI] = walk[UI]
    BY <1>4, <1>5, <2>1
  <2>7. Walks'
    <3>1. ~dialog
      BY <1>1, <2>1 DEF CountInv, Walks
    <3>. QED BY <1>1, <2>1, <2>3, <2>4, <2>6, <3>1 DEF CountInv, Walks
  <2>8. ASSUME NEW g \in groups
        PROVE  /\ Pending(g)' = IF p # None /\ g \in Lineage(p) THEN {t} ELSE {}
               /\ Pending(g) = IF g \in Lineage(w.at) THEN {t} ELSE {}
    BY <1>1, <1>7, <2>1, <2>4 DEF Pending, Lineage
  <2>9. ASSUME NEW g \in groups
        PROVE  Counted(g)' = Counted(g)
    BY <1>1 DEF Counted, Below, Online, Lineage
  <2>10. w.at \in Lineage(w.at)
    BY <1>3, LineageSelf DEF Lineage
  <2>11. ASSUME NEW g \in groups
         PROVE  /\ Pending(g)' = {} => count'["online"][g] = Cardinality(Counted(g)')
                /\ \A c \in Pending(g)' :
                     count'["online"][g] + walk'[c].by = Cardinality(Counted(g)')
    <3>1. /\ Pending(g) = {} => count["online"][g] = Cardinality(Counted(g))
          /\ \A c \in Pending(g) :
               count["online"][g] + walk[c].by = Cardinality(Counted(g))
      BY DEF CountInv, Settled
    <3>2. CASE g = w.at
      <4>1. Pending(g)' = {} /\ Pending(g) = {t}
        BY <2>3, <2>8, <2>10, <3>2
      <4>. QED BY <2>5, <2>9, <3>1, <3>2, <4>1
    <3>3. CASE g # w.at
      <4>1. Pending(g)' = Pending(g)
        BY <2>3, <2>8, <3>3
      <4>2. \A c \in Pending(g)' : walk'[c].by = walk[c].by
        BY <2>4, <2>8
      <4>. QED BY <2>5, <2>9, <3>1, <3>3, <4>1, <4>2
    <3>. QED BY <3>2, <3>3
  <2>12. Settled'
    BY <1>1, <2>11 DEF Settled
  <2>. QED BY <2>7, <2>12
<1>. QED BY <1>3, <1>6, <1>7 DEF Kind

\* While the dialog is open nobody walks, and each group counts right.
LEMMA DialogCounts ==
  ASSUME CountInv, dialog, UNCHANGED walk,
         count'["online"] \in [Group -> Int],
         \A g \in groups' : count'["online"][g] = Cardinality(Counted(g)')
  PROVE  Walks' /\ Settled'
<1>1. \A c \in Channel : walk'[c] = None
  BY DEF CountInv, Walks
<1>2. Walks'
  BY <1>1 DEF CountInv, Walks
<1>3. \A g \in groups' : Pending(g)' = {}
  BY <1>1 DEF Pending
<1>. QED BY <1>2, <1>3 DEF Settled

\* What there is to know of the counts when an edit begins.
LEMMA DialogSettled ==
  ASSUME CountInv, dialog
  PROVE  /\ \A g \in groups : /\ count["online"][g] = Cardinality(Counted(g))
                              /\ Counted(g) \in SUBSET Machine
                              /\ Below(g) \in SUBSET Machine
         /\ count["online"] \in [Group -> Int] /\ groups \in SUBSET Group
         /\ count \in [Kind -> [Group -> Int]] /\ "online" \in Kind
         /\ group_of \in [Machine -> Group \cup {None}]
         /\ via \in [Machine -> SUBSET Channel]
<1>1. \A g \in groups : Pending(g) = {}
  BY DEF CountInv, Walks, Pending
<1>2. count \in [Kind -> [Group -> Int]] /\ "online" \in Kind
  BY DEF CountInv, HomeInv, TypeOK, Kind
<1>. QED BY <1>1, <1>2 DEF CountInv, HomeInv, TypeOK, Settled, Counted, Below

\* What JoinOnline and LeaveOnline do to the online counts.
LEMMA JoinCounts ==
  ASSUME NEW f \in [Kind -> [Group -> Int]], NEW on, NEW g, NEW h \in Group
  PROVE  /\ JoinOnline(on, g, f)["online"][h]
              = IF on /\ h \in Lineage(g) THEN f["online"][h] + 1 ELSE f["online"][h]
         /\ LeaveOnline(on, g, f)["online"][h]
              = IF on /\ h \in Lineage(g) THEN f["online"][h] - 1 ELSE f["online"][h]
<1>1. /\ JoinOnline(on, g, f) = IF on THEN [f EXCEPT !["online"] = Update(f["online"], Lineage(g), 1)] ELSE f
      /\ LeaveOnline(on, g, f) = IF on THEN [f EXCEPT !["online"] = Update(f["online"], Lineage(g), -1)] ELSE f
  BY DEF JoinOnline, LeaveOnline
<1>2. /\ Update(f["online"], Lineage(g), 1)[h]
           = IF h \in Lineage(g) THEN f["online"][h] + 1 ELSE f["online"][h]
      /\ Update(f["online"], Lineage(g), -1)[h]
           = IF h \in Lineage(g) THEN f["online"][h] - 1 ELSE f["online"][h]
  <2>1. f["online"][h] \in Int
    BY DEF Kind
  <2>. QED BY <2>1 DEF Update
<1>3. "online" \in Kind
  BY DEF Kind
<1>4. CASE on
  <2>1. /\ JoinOnline(on, g, f)["online"] = Update(f["online"], Lineage(g), 1)
        /\ LeaveOnline(on, g, f)["online"] = Update(f["online"], Lineage(g), -1)
    BY <1>1, <1>3, <1>4
  <2>. QED BY <1>2, <1>4, <2>1
<1>5. CASE ~on
  BY <1>1, <1>5
<1>. QED BY <1>4, <1>5

\* A machine that is online counts where it joins and above.
LEMMA AddMachineCounts ==
  ASSUME CountInv, NEW m \in Machine, NEW g \in Group, NEW S \in SUBSET Channel,
         AddMachine(m, g, S)
  PROVE  Walks' /\ Settled'
<1>. DEFINE on == S # {}
<1>1. /\ dialog /\ group_of[m] = None /\ g \in groups
      /\ group_of' = [group_of EXCEPT ![m] = g]
      /\ via' = [via EXCEPT ![m] = S]
      /\ count' = JoinOnline(on, g, count)
      /\ groups' = groups /\ parent' = parent /\ walk' = walk
  BY DEF AddMachine, Edits
<1>. HIDE DEF on
<1>2. /\ count'["online"] \in [Group -> Int]
      /\ \A h \in Group : count'["online"][h] = IF on /\ h \in Lineage(g)
                                                THEN count["online"][h] + 1
                                                ELSE count["online"][h]
  BY <1>1, DialogSettled, JoinCounts, JoinType
<1>3. ASSUME NEW h \in groups
      PROVE  count'["online"][h] = Cardinality(Counted(h)')
  <2>1. /\ count["online"][h] = Cardinality(Counted(h)) /\ h \in Group
        /\ Counted(h) \in SUBSET Machine
    BY <1>1, DialogSettled
  <2>2. m \notin Counted(h)
    BY <1>1 DEF Below, Counted
  <2>3. Counted(h)' = IF on /\ h \in Lineage(g) THEN Counted(h) \cup {m} ELSE Counted(h)
    BY <1>1, <2>2, DialogSettled, NoneAssumption DEF Counted, Below, Online, Lineage, on
  <2>. QED BY <1>2, <2>1, <2>2, <2>3, OneMore
<1>. QED BY <1>1, <1>2, <1>3, DialogCounts

\* ... and no more where it leaves.
LEMMA DeleteMachineCounts ==
  ASSUME CountInv, NEW m \in Machine, DeleteMachine(m)
  PROVE  Walks' /\ Settled'
<1>. DEFINE g  == group_of[m]
            on == via[m] # {}
<1>1. /\ dialog /\ g \in groups
      /\ group_of' = [group_of EXCEPT ![m] = None]
      /\ via' = [via EXCEPT ![m] = {}]
      /\ count' = LeaveOnline(on, g, count)
      /\ groups' = groups /\ parent' = parent /\ walk' = walk
  BY DEF DeleteMachine, Edits
<1>. HIDE DEF on
<1>2. /\ count'["online"] \in [Group -> Int]
      /\ \A h \in Group : count'["online"][h] = IF on /\ h \in Lineage(g)
                                                THEN count["online"][h] - 1
                                                ELSE count["online"][h]
  BY <1>1, DialogSettled, JoinCounts, JoinType
<1>3. ASSUME NEW h \in groups
      PROVE  count'["online"][h] = Cardinality(Counted(h)')
  <2>1. /\ count["online"][h] = Cardinality(Counted(h)) /\ h \in Group
        /\ Counted(h) \in SUBSET Machine
    BY <1>1, DialogSettled
  <2>2. m \in Counted(h) <=> on /\ h \in Lineage(g)
    BY <1>1, DialogSettled, NoneAssumption DEF Below, Counted, Online, on
  <2>3. Counted(h)' = Counted(h) \ {m}
    BY <1>1, DialogSettled DEF Counted, Below, Online, Lineage
  <2>4. CASE m \in Counted(h)
    BY <1>2, <2>1, <2>2, <2>3, <2>4, OneLess
  <2>5. CASE m \notin Counted(h)
    <3>1. Counted(h)' = Counted(h)
      BY <2>3, <2>5
    <3>. QED BY <1>2, <2>1, <2>2, <2>5, <3>1
  <2>. QED BY <2>4, <2>5
<1>. QED BY <1>1, <1>2, <1>3, DialogCounts

\* One that moves does both.
LEMMA MoveMachineCounts ==
  ASSUME CountInv, NEW m \in Machine, NEW k \in Group, MoveMachine(m, k)
  PROVE  Walks' /\ Settled'
<1>. DEFINE g  == group_of[m]
            on == via[m] # {}
            c1 == LeaveOnline(on, g, count)
<1>1. /\ dialog /\ g \in groups /\ k \in groups
      /\ group_of' = [group_of EXCEPT ![m] = k]
      /\ via' = via
      /\ count' = JoinOnline(on, k, c1)
      /\ groups' = groups /\ parent' = parent /\ walk' = walk
  BY DEF MoveMachine, Edits
<1>. HIDE DEF on
<1>2. /\ c1 \in [Kind -> [Group -> Int]]
      /\ \A h \in Group : c1["online"][h] = IF on /\ h \in Lineage(g)
                                            THEN count["online"][h] - 1
                                            ELSE count["online"][h]
  BY <1>1, DialogSettled, JoinCounts, JoinType
<1>. HIDE DEF c1
<1>3. /\ count'["online"] \in [Group -> Int]
      /\ \A h \in Group : count'["online"][h] = IF on /\ h \in Lineage(k)
                                                THEN c1["online"][h] + 1
                                                ELSE c1["online"][h]
  BY <1>1, <1>2, DialogSettled, JoinCounts, JoinType
<1>4. ASSUME NEW h \in groups
      PROVE  count'["online"][h] = Cardinality(Counted(h)')
  <2>1. /\ count["online"][h] = Cardinality(Counted(h)) /\ h \in Group
        /\ count["online"][h] \in Int
        /\ Counted(h) \in SUBSET Machine
    BY <1>1, DialogSettled
  <2>2. m \in Counted(h) <=> on /\ h \in Lineage(g)
    BY <1>1, DialogSettled, NoneAssumption DEF Below, Counted, Online, on
  <2>3. Counted(h)' = IF on /\ h \in Lineage(k) THEN Counted(h) \cup {m}
                      ELSE Counted(h) \ {m}
    BY <1>1, DialogSettled, NoneAssumption DEF Counted, Below, Online, Lineage, on
  <2>4. /\ count'["online"][h] = IF on /\ h \in Lineage(k)
                                 THEN c1["online"][h] + 1 ELSE c1["online"][h]
        /\ c1["online"][h] = IF on /\ h \in Lineage(g)
                             THEN count["online"][h] - 1 ELSE count["online"][h]
    BY <1>2, <1>3, <2>1
  <2>5. CASE m \in Counted(h) /\ on /\ h \in Lineage(k)
    <3>1. Counted(h)' = Counted(h)
      BY <2>3, <2>5
    <3>. QED BY <2>1, <2>2, <2>4, <2>5, <3>1
  <2>6. CASE m \in Counted(h) /\ ~(on /\ h \in Lineage(k))
    <3>1. Cardinality(Counted(h)') = Cardinality(Counted(h)) - 1
      BY <2>1, <2>3, <2>6, OneLess
    <3>. QED BY <2>1, <2>2, <2>4, <2>6, <3>1
  <2>7. CASE m \notin Counted(h) /\ on /\ h \in Lineage(k)
    <3>1. Cardinality(Counted(h)') = Cardinality(Counted(h)) + 1
      BY <2>1, <2>3, <2>7, OneMore
    <3>. QED BY <2>1, <2>2, <2>4, <2>7, <3>1
  <2>8. CASE m \notin Counted(h) /\ ~(on /\ h \in Lineage(k))
    <3>1. Counted(h)' = Counted(h)
      BY <2>3, <2>8
    <3>. QED BY <2>1, <2>2, <2>4, <2>8, <3>1
  <2>. QED BY <2>5, <2>6, <2>7, <2>8
<1>. QED BY <1>1, <1>3, <1>4, DialogCounts

\* A new group counts nobody.
LEMMA AddGroupCounts ==
  ASSUME CountInv, NEW g \in Group, NEW q \in Group, AddGroup(g, q)
  PROVE  Walks' /\ Settled'
<1>1. /\ dialog /\ g \notin groups /\ groups' = groups \cup {g}
      /\ count' = [k \in Kind |-> [count[k] EXCEPT ![g] = 0]]
      /\ via' = via /\ walk' = walk
  BY DEF AddGroup, Edits
<1>2. count'["online"] = [count["online"] EXCEPT ![g] = 0]
  BY <1>1, DialogSettled
<1>3. /\ count'["online"] \in [Group -> Int] /\ count'["online"][g] = 0
      /\ \A h \in groups : count'["online"][h] = count["online"][h]
  BY <1>1, <1>2, DialogSettled
<1>4. /\ \A h \in groups : Counted(h)' = Counted(h)
      /\ Counted(g)' = {}
  BY <1>1, AddGroupBelow DEF CountInv, Counted, Online
<1>5. \A h \in groups' : count'["online"][h] = Cardinality(Counted(h)')
  BY <1>1, <1>3, <1>4, DialogSettled, FS_EmptySet
<1>. QED BY <1>1, <1>3, <1>5, DialogCounts

\* Steps that touch none of this: the dialog opens, with no walk under way, or
\* closes, or a machine leaves buffer mode.
LEMMA OtherCounts ==
  ASSUME Undisturbed, CountInv,
         \/ OpenDialog \/ CloseDialog
         \/ \E m \in Machine : WorkerLeaves(m)
         \/ UNCHANGED vars
  PROVE  Walks' /\ Settled'
<1>1. /\ UNCHANGED <<groups, parent, group_of, via, count, walk>>
      /\ dialog' /\ ~dialog => \A c \in Channel : walk[c] = None
  BY DEF OpenDialog, CloseDialog, WorkerLeaves, vars, Undisturbed
<1>2. Walks'
  BY <1>1 DEF CountInv, Walks
<1>3. \A g \in groups : Pending(g)' = Pending(g)
  BY <1>1 DEF Pending, Lineage
<1>4. Settled'
  BY <1>1, <1>3, SameCounts DEF CountInv
<1>. QED BY <1>2, <1>4

\* Every step keeps the walks and what is settled.
LEMMA CountStep ==
  ASSUME Undisturbed, CountInv, [Next]_vars
  PROVE  Walks' /\ Settled'
<1>1. CASE Events
  <2>1. CASE \E t \in Channel, m \in Machine : Alarm(t, m)
    BY <2>1, AlarmCounts
  <2>2. CASE \E t \in Channel, m \in Machine, on \in BOOLEAN : OnOffline(t, m, on)
    BY <2>2, OnOfflineCounts
  <2>3. CASE \E m \in Machine : ClearAlarm(m)
    BY <2>3, ClearAlarmCounts
  <2>4. CASE \E m \in Machine : WorkerLeaves(m)
    BY <2>4, OtherCounts
  <2>5. CASE \E t \in Thread : Load(t)
    BY <2>5, LoadCounts
  <2>6. CASE \E t \in Thread : Store(t)
    BY <2>6, StoreCounts
  <2>. QED BY <1>1, <2>1, <2>2, <2>3, <2>4, <2>5, <2>6 DEF Events
<1>2. CASE Dialog
  <2>1. CASE OpenDialog \/ CloseDialog
    BY <2>1, OtherCounts
  <2>2. CASE \E m \in Machine : DeleteMachine(m)
    BY <2>2, DeleteMachineCounts
  <2>3. CASE \E m \in Machine, g \in Group : MoveMachine(m, g)
    BY <2>3, MoveMachineCounts
  <2>4. CASE \E m \in Machine, g \in Group, S \in SUBSET Channel : AddMachine(m, g, S)
    BY <2>4, AddMachineCounts
  <2>5. CASE \E g, q \in Group : AddGroup(g, q)
    BY <2>5, AddGroupCounts
  <2>6. CASE \E g \in Group : DeleteGroup(g) \/ \E q \in Group : MoveGroup(g, q)
    BY <2>6 DEF DeleteGroup, MoveGroup, Undisturbed
  <2>. QED BY <1>2, <2>1, <2>2, <2>3, <2>4, <2>5, <2>6 DEF Dialog
<1>3. CASE UNCHANGED vars
  BY <1>3, OtherCounts
<1>. QED BY <1>1, <1>2, <1>3 DEF Next

\* With one network thread, and neither events in the dialog nor groups moved or
\* deleted, each group counts its online machines whenever nobody is at the
\* counters: the walks of Update...Count and the edits in AddChildMachine and
\* RemoveChildMachine add up.  The increments themselves are not atomic; a
\* second thread would break it.
THEOREM OnlineCounted == Undisturbed => (Spec => []OnlineRight)
<1>. SUFFICES ASSUME Undisturbed PROVE Spec => []OnlineRight
  OBVIOUS
<1>1. Init => CountInv
  BY InitTyped, InitTree, InitHome, InitCounts DEF CountInv, HomeInv
<1>2. CountInv /\ [Next]_vars => CountInv'
  BY TypeStep, TreeStep, HomeStep, CountStep DEF CountInv, HomeInv, Undisturbed
<1>3. CountInv => OnlineRight
  BY DEF CountInv, Settled, OnlineRight, AtRest, Pending, Counted, Thread
<1>. QED BY <1>1, <1>2, <1>3, PTL DEF Spec

=============================================================================
