------------------------ MODULE HistoryRecordProofs ------------------------
(***************************************************************************)
(* Theorems about HistoryRecord, for every number of writers, machines,    *)
(* users, records, restarts and dialogs, and every limit.                  *)
(***************************************************************************)
EXTENDS HistoryRecord, SubsequencesProofs

\* The places of the buffer that are not yet in the table.
Left == flushed + 1 .. Len(buffer)

\* How many records and notices there can be: each of them goes back to a record
\* that was written, and one that is on its way has its number kept free.
Counts == /\ total = Len(table)
          /\ Len(table) + (Len(buffer) - flushed) <= written
          /\ notices + (Len(buffer) - flushed) <= written
          /\ \A t \in Thread : pc[t] = "push" => written < MaxRecords

LEMMA Bounds ==
  /\ MaxRecords \in Nat /\ MaxRecords >= 1 /\ CheckPoint \in Nat /\ CheckPoint >= 1
  /\ MaxHistory \in Nat /\ MaxLogins \in Nat /\ MaxStops \in Nat /\ MaxDialogs \in Nat
  BY BoundAssumption

LEMMA Names ==
  /\ UI \in Thread /\ UI # None /\ UI # Worker /\ None # Worker
  /\ \A t \in Thread : t # None /\ t # Worker
  BY NameAssumption DEF Thread

LEMMA RecordNew ==
  ASSUME NEW n \in Nat, n >= 1, n <= MaxRecords, NEW m \in Machine \cup {None}
  PROVE  [number |-> n, machine |-> m] \in Record
  BY Bounds DEF Record

\* What a rebuild leaves of the rows found: all, or, cut short, none.
LEMMA RebuiltRows ==
  ASSUME TypeOK, NEW found \in Seq(Record), Rebuilt(found)
  PROVE  /\ table' \in {found, <<>>} /\ table' \in Seq(Record) /\ Len(table') <= Len(found)
         /\ holes' \subseteq 1 .. MaxRecords /\ tmp' \in {"none", "left", "only"}
  <1>1. table' \in {found, <<>>}
    BY DEF Rebuilt
  <1>2. found \in Seq(Record) /\ <<>> \in Seq(Record) /\ Len(<<>>) = 0 /\ Len(found) \in Nat
    OBVIOUS
  <1>3. holes' \in {{}, holes} /\ tmp' \in {tmp, "left", "only"}
    BY DEF Rebuilt
  <1>4. holes \subseteq 1 .. MaxRecords /\ tmp \in {"none", "left", "only"}
    BY DEF TypeOK
  <1>5. holes' \subseteq 1 .. MaxRecords /\ tmp' \in {"none", "left", "only"}
    BY <1>3, <1>4
  <1>6. table' \in Seq(Record) /\ Len(table') <= Len(found)
    <2>1. CASE table' = found
      BY <1>2, <2>1
    <2>2. CASE table' = <<>>
      BY <1>2, <2>2
    <2> QED  BY <1>1, <2>1, <2>2
  <1> QED  BY <1>1, <1>5, <1>6

\* The state of a program that has started.
LEMMA RestartedCounts ==
  ASSUME TypeOK, Counts, NEW found \in Seq(Record), Len(found) <= written,
         Restarted(found)
  PROVE  TypeOK' /\ Counts'
  <1> DEFINE r == System(written + 1)
  <1>1. r \in Record
    <2>1. written + 1 \in Nat /\ written + 1 >= 1 /\ written + 1 <= MaxRecords
      BY Bounds DEF Restarted, TypeOK
    <2> QED  BY <2>1, RecordNew DEF System
  <1> HIDE DEF r
  <1>2. buffer' = <<r>> /\ flushed' = 0
    BY DEF Restarted, r
  <1>3. /\ buffer' \in Seq(Record) /\ Len(buffer') = 1 /\ flushed' \in 0 .. Len(buffer')
    BY <1>1, <1>2
  <1>4. /\ pc' = [t \in Thread |-> "idle"] /\ bufferLock' = None /\ userLock' = None
        /\ told' = 0
    BY DEF Restarted
  <1>5. \A t \in Thread : pc'[t] = "idle"
    BY <1>4
  <1>6. /\ table' \in Seq(Record) /\ total' = Len(table') /\ counter' = 0
        /\ written' = written + 1 /\ written' \in 1 .. MaxRecords
        /\ Len(table') \in Nat /\ Len(table') <= written
        /\ holes' \subseteq 1 .. MaxRecords /\ tmp' \in {"none", "left", "only"}
    <2>1. /\ table' \in Seq(Record) /\ Len(table') <= Len(found)
          /\ holes' \subseteq 1 .. MaxRecords /\ tmp' \in {"none", "left", "only"}
      BY RebuiltRows DEF Restarted
    <2>2. Len(table') \in Nat /\ Len(found) \in Nat
      BY <2>1
    <2> QED  BY <2>1, <2>2, Bounds DEF Restarted, TypeOK
  <1>7. dialogs' = <<>> /\ notices' = 0
    BY DEF Restarted
  <1>8. /\ dialogs' \in Seq({"running", "over", "closed"}) /\ Len(dialogs') <= MaxDialogs
    BY <1>7, Bounds
  <1>9. Counts'
    BY <1>3, <1>2, <1>5, <1>6, <1>7 DEF Counts, TypeOK
  <1>10. /\ {cur_user, cur_user_info}' \subseteq User
         /\ stops' \in 0 .. MaxStops /\ UNCHANGED <<file, logins>>
    BY Bounds DEF Restarted, TypeOK
  <1>11. /\ userLock' \in {None, UI} /\ bufferLock' \in Thread \cup {None, Worker}
         /\ pc' \in [Thread -> {"idle", "insert", "push"}] /\ told' \in 0 .. 2
         /\ \A t \in Thread : pc'[t] = "push" <=> bufferLock' = t
         /\ userLock' = UI <=> told' > 0
         /\ bufferLock' # Worker => flushed' = 0
    BY <1>2, <1>4, <1>5, Names
  <1>12. total' \in 0 .. MaxRecords /\ counter' \in 0 .. CheckPoint - 1
         /\ notices' \in 0 .. MaxRecords
    BY <1>6, <1>7, Bounds DEF TypeOK
  <1> QED  BY <1>3, <1>6, <1>8, <1>9, <1>10, <1>11, <1>12 DEF TypeOK

LEMMA CountsStep ==
  ASSUME TypeOK, Counts, [Next]_vars
  PROVE  TypeOK' /\ Counts'
  <1> USE Bounds, Names
  <1>1. ASSUME NEW t \in Thread, TakeBuffer(t) PROVE TypeOK' /\ Counts'
    <2>1. \A u \in Thread : pc'[u] = IF u = t THEN "push" ELSE pc[u]
      BY <1>1 DEF TakeBuffer, TypeOK
    <2>2. \A u \in Thread : pc[u] # "push"
      BY <1>1 DEF TakeBuffer, TypeOK
    <2>3. \A u \in Thread : pc'[u] = "push" <=> bufferLock' = u
      BY <1>1, <2>1, <2>2 DEF TakeBuffer
    <2>4. pc' \in [Thread -> {"idle", "insert", "push"}]
      BY <1>1 DEF TakeBuffer, TypeOK
    <2>5. Counts'
      BY <1>1 DEF TakeBuffer, TypeOK, Counts, rows
    <2> QED  BY <1>1, <2>3, <2>4, <2>5 DEF TakeBuffer, TypeOK, users, rows
  <1>2. ASSUME NEW t \in Thread, Push(t) PROVE TypeOK' /\ Counts'
    <2>1. PICK m \in Machine \cup {None} :
            buffer' = Append(buffer, [number |-> written + 1, machine |-> m])
      BY <1>2 DEF Push
    <2> DEFINE r == [number |-> written + 1, machine |-> m]
    <2>2. bufferLock = t /\ flushed = 0 /\ written < MaxRecords /\ written' = written + 1
      BY <1>2 DEF Push, TypeOK, Counts
    <2>3. r \in Record
      BY <2>2, RecordNew DEF TypeOK
    <2> HIDE DEF r
    <2>4. buffer' \in Seq(Record) /\ Len(buffer') = Len(buffer) + 1
      BY <2>1, <2>3 DEF r, TypeOK
    <2>5. \A u \in Thread : pc[u] = "push" <=> u = t
      BY <2>2 DEF TypeOK
    <2>6. /\ pc' \in [Thread -> {"idle", "insert", "push"}]
          /\ \A u \in Thread : pc'[u] # "push"
      BY <1>2, <2>5 DEF Push, TypeOK
    <2>7. bufferLock' = None
      BY <1>2 DEF Push
    <2>8. Counts'
      BY <1>2, <2>2, <2>4, <2>6 DEF Push, Counts, TypeOK, rows
    <2>9. /\ {cur_user, cur_user_info}' \subseteq User
          /\ userLock' \in {None, UI} /\ told' \in 0 .. 2 /\ (userLock' = UI <=> told' > 0)
      BY <1>2 DEF Push, TypeOK
    <2>10. flushed' = 0 /\ flushed' \in 0 .. Len(buffer') /\ written' \in 1 .. MaxRecords
      BY <1>2, <2>2, <2>4 DEF Push, TypeOK
    <2> QED  BY <1>2, <2>4, <2>6, <2>7, <2>8, <2>9, <2>10 DEF Push, TypeOK, rows
  <1>3. ASSUME NEW u \in User, Login(u) PROVE TypeOK' /\ Counts'
    <2>1. \A t \in Thread : pc'[t] = "push" <=> pc[t] = "push"
      BY <1>3 DEF Login, TypeOK
    <2>2. pc' \in [Thread -> {"idle", "insert", "push"}]
      BY <1>3 DEF Login, TypeOK
    <2>3. Counts'
      BY <1>3, <2>1 DEF Login, Counts, TypeOK, rows
    <2>4. /\ {cur_user, cur_user_info}' \subseteq User /\ logins' \in 0 .. MaxLogins
          /\ userLock' \in {None, UI} /\ told' \in 0 .. 2 /\ (userLock' = UI <=> told' > 0)
      BY <1>3 DEF Login, TypeOK
    <2> QED  BY <1>3, <2>1, <2>2, <2>3, <2>4 DEF Login, TypeOK, rows
  <1>4. CASE FlushBegin
    <2>1. \A t \in Thread : pc[t] # "push" /\ bufferLock' # t
      BY <1>4 DEF FlushBegin, TypeOK
    <2> QED  BY <1>4, <2>1 DEF FlushBegin, TypeOK, Counts, users, rows
  <1>5. CASE FlushOne
    <2>1. /\ flushed + 1 \in DOMAIN buffer /\ flushed' = flushed + 1
          /\ flushed \in Nat /\ Len(buffer) \in Nat
          /\ flushed' \in 0 .. Len(buffer)
      BY <1>5 DEF FlushOne, NextFlushed, TypeOK
    <2>2. buffer[flushed + 1] \in Record
      BY <2>1 DEF TypeOK
    <2>3. table' \in Seq(Record) /\ Len(table') = Len(table) + 1
      BY <1>5, <2>2 DEF FlushOne, TypeOK
    <2>4. total' = total + 1 /\ notices' \in {notices, notices + 1}
      BY <1>5 DEF FlushOne
    <2>5. Counts'
      <3>1. UNCHANGED <<buffer, pc, written>>
        BY <1>5 DEF FlushOne
      <3>2. Len(table) \in Nat /\ notices \in Nat /\ written \in Nat
        BY DEF TypeOK
      <3> QED  BY <2>1, <2>3, <2>4, <3>1, <3>2 DEF Counts
    <2>6. total' \in 0 .. MaxRecords /\ notices' \in 0 .. MaxRecords
      BY <2>1, <2>3, <2>4 DEF Counts, TypeOK
    <2>7. counter' \in 0 .. CheckPoint - 1
      BY <1>5 DEF FlushOne, TypeOK
    <2> QED  BY <1>5, <2>1, <2>3, <2>5, <2>6, <2>7 DEF FlushOne, TypeOK, locks, users
  <1>6. CASE FlushEnd
    <2>1. \A t \in Thread : pc[t] # "push" /\ bufferLock' # t
      BY <1>6 DEF FlushEnd, TypeOK
    <2>2. /\ buffer' = <<>> /\ flushed' = 0 /\ buffer' \in Seq(Record) /\ Len(buffer') = 0
      BY <1>6 DEF FlushEnd
    <2>3. Counts'
      BY <1>6, <2>2 DEF FlushEnd, Counts, TypeOK, rows
    <2> QED  BY <1>6, <2>1, <2>2, <2>3 DEF FlushEnd, TypeOK, users, rows
  <1>7. CASE OpenDialog
    <2>1. dialogs' \in Seq({"running", "over", "closed"}) /\ Len(dialogs') <= MaxDialogs
      <3>1. dialogs \in Seq({"running", "over", "closed"}) /\ Len(dialogs) < MaxDialogs
        BY <1>7 DEF OpenDialog, TypeOK
      <3>2. "running" \in {"running", "over", "closed"}
        OBVIOUS
      <3>3. /\ Append(dialogs, "running") \in Seq({"running", "over", "closed"})
            /\ Len(Append(dialogs, "running")) = Len(dialogs) + 1
        BY <3>1, <3>2, AppendProperties
      <3>4. Len(dialogs) \in Nat
        BY <3>1, LenProperties
      <3> QED  BY <1>7, <3>1, <3>3, <3>4 DEF OpenDialog
    <2>2. notices' = notices - 1 /\ notices' \in 0 .. MaxRecords
      BY <1>7 DEF OpenDialog, TypeOK
    <2>3. Counts'
      BY <1>7, <2>2 DEF OpenDialog, Counts, TypeOK, rows, locks
    <2> QED  BY <1>7, <2>1, <2>2, <2>3 DEF OpenDialog, TypeOK, locks, users, rows
  <1>8. CASE CloseDialog
    <2>1. dialogs' \in Seq({"running", "over", "closed"}) /\ Len(dialogs') <= MaxDialogs
      BY <1>8 DEF CloseDialog, TypeOK, Front
    <2>2. /\ \A t \in Thread : pc'[t] = "push" <=> pc[t] = "push"
          /\ pc' \in [Thread -> {"idle", "insert", "push"}]
      BY <1>8 DEF CloseDialog, TypeOK
    <2>3. Counts'
      BY <1>8, <2>2 DEF CloseDialog, Counts, TypeOK, rows
    <2> QED  BY <1>8, <2>1, <2>2, <2>3 DEF CloseDialog, TypeOK, locks, users, rows
  <1>9. ASSUME NEW i \in DOMAIN dialogs, Traverse(i) PROVE TypeOK' /\ Counts'
    <2>1. dialogs' \in Seq({"running", "over", "closed"}) /\ Len(dialogs') <= MaxDialogs
      <3>1. dialogs' = [dialogs EXCEPT ![i] = "over"]
        BY <1>9 DEF Traverse
      <3>2. dialogs \in Seq({"running", "over", "closed"}) /\ Len(dialogs) <= MaxDialogs
        BY DEF TypeOK
      <3> QED  BY <3>1, <3>2
    <2>2. file' \subseteq Record
      <3>1. file' = file \cup {table[j] : j \in DOMAIN table}
        BY <1>9 DEF Traverse, Exported, ToSet
      <3>2. file \subseteq Record /\ table \in Seq(Record)
        BY DEF TypeOK
      <3> QED  BY <3>1, <3>2
    <2>3. Counts'
      BY <1>9 DEF Traverse, Counts, TypeOK, rows, locks
    <2> QED  BY <1>9, <2>1, <2>2, <2>3 DEF Traverse, TypeOK, locks, users, rows
  <1>10. ASSUME NEW i \in DOMAIN dialogs, DeleteHalf(i) PROVE TypeOK' /\ Counts'
    <2>1. dialogs' \in Seq({"running", "over", "closed"}) /\ Len(dialogs') <= MaxDialogs
      <3>1. dialogs' = [dialogs EXCEPT ![i] = "closed"]
        BY <1>10 DEF DeleteHalf
      <3> QED  BY <3>1 DEF TypeOK
    <2>2. /\ table' \in Seq(Record) /\ Len(table') <= Len(table) /\ total' = Len(table')
          /\ counter' \in 0 .. CheckPoint - 1
      <3> DEFINE n == total \div 2
      <3>1. n \in Nat /\ n <= Len(table) /\ Len(table) \in Nat /\ total = Len(table)
        <4>1. total \in Nat /\ total = Len(table)
          BY DEF TypeOK, Counts
        <4>2. \A k \in Nat : k \div 2 \in Nat /\ k \div 2 <= k
          OBVIOUS
        <4> QED  BY <4>1, <4>2
      <3> HIDE DEF n
      <3>2. CASE OlderHalfGoes(n)
        <4>1. /\ table' = SubSeq(table, n + 1, Len(table)) /\ total' = total - n
              /\ counter' = 0
          BY <3>2 DEF OlderHalfGoes
        <4>2. /\ SubSeq(table, n + 1, Len(table)) \in Seq(Record)
              /\ Len(SubSeq(table, n + 1, Len(table))) = Len(table) - n
          BY <3>1 DEF TypeOK
        <4> QED  BY <3>1, <4>1, <4>2
      <3>3. CASE UNCHANGED rows
        BY <3>1, <3>3 DEF TypeOK, rows
      <3> QED  BY <1>10, <3>2, <3>3 DEF DeleteHalf, n
    <2>4. UNCHANGED <<holes, tmp>>
      BY <1>10 DEF DeleteHalf, OlderHalfGoes, rows
    <2>3. Counts' /\ total' \in 0 .. MaxRecords
      <3>1. UNCHANGED <<buffer, flushed, pc, written, notices>>
        BY <1>10 DEF DeleteHalf
      <3>2. /\ Len(table) \in Nat /\ Len(table') \in Nat /\ written \in 1 .. MaxRecords
            /\ Len(buffer) - flushed \in Nat
        BY <2>2 DEF TypeOK
      <3> QED  BY <2>2, <3>1, <3>2 DEF Counts
    <2> QED  BY <1>10, <2>1, <2>2, <2>3, <2>4 DEF DeleteHalf, TypeOK, locks, users
  <1>11. ASSUME NEW m \in Machine, DeleteRecordByMachine(m) PROVE TypeOK' /\ Counts'
    <2> DEFINE others == {i \in DOMAIN table : table[i].machine # m}
    <2>1. /\ table' = Picked(table, others) /\ total' = Len(table') /\ counter' = 0
      BY <1>11 DEF DeleteRecordByMachine
    <2>2. others \in SUBSET DOMAIN table
      OBVIOUS
    <2> HIDE DEF others
    <2>3. table' \in Seq(Record) /\ Len(table') <= Len(table) /\ Len(table') \in Nat
      <3>1. /\ Picked(table, others) \in Seq(Record)
            /\ Len(Picked(table, others)) <= Len(table)
        BY <2>2, PickedType DEF TypeOK
      <3> QED  BY <2>1, <3>1
    <2>4. Counts' /\ total' \in 0 .. MaxRecords /\ counter' \in 0 .. CheckPoint - 1
      BY <1>11, <2>1, <2>3 DEF DeleteRecordByMachine, Counts, TypeOK, locks
    <2>5. holes' \subseteq 1 .. MaxRecords /\ tmp' = tmp
      <3>1. holes' = holes \cup {table[i].number : i \in DOMAIN table \ others}
            /\ tmp' = tmp
        BY <1>11 DEF DeleteRecordByMachine, others
      <3>2. \A i \in DOMAIN table : table[i] \in Record
        BY DEF TypeOK
      <3>3. \A r \in Record : r.number \in 1 .. MaxRecords
        BY DEF Record
      <3>4. holes \subseteq 1 .. MaxRecords
        BY DEF TypeOK
      <3> QED  BY <3>1, <3>2, <3>3, <3>4
    <2> QED  BY <1>11, <2>1, <2>3, <2>4, <2>5 DEF DeleteRecordByMachine, TypeOK, locks, users
  <1>12. CASE Crash
    <2>1. table \in Seq(Record) /\ Len(table) <= written
      BY DEF TypeOK, Counts
    <2> QED  BY <1>12, <2>1, RestartedCounts DEF Crash
  <1>13. CASE Exit
    <2>1. table \o buffer \in Seq(Record) /\ Len(table \o buffer) = Len(table) + Len(buffer)
      BY DEF TypeOK
    <2>2. flushed = 0
      BY <1>13 DEF Exit, TypeOK
    <2>3. Len(table \o buffer) <= written
      BY <2>1, <2>2 DEF Counts, TypeOK
    <2> QED  BY <1>13, <2>1, <2>3, RestartedCounts DEF Exit
  <1>14. CASE UNCHANGED vars
    BY <1>14 DEF vars, locks, users, rows, TypeOK, Counts
  <1> QED  BY <1>1, <1>2, <1>3, <1>4, <1>5, <1>6, <1>7, <1>8, <1>9, <1>10, <1>11, <1>12,
              <1>13, <1>14 DEF Next

LEMMA CountsInit == Init => TypeOK /\ Counts
  <1> SUFFICES ASSUME Init PROVE TypeOK /\ Counts
    OBVIOUS
  <1> USE Bounds, Names
  <1>1. System(1) \in Record
    BY RecordNew DEF System
  <1>2. buffer \in Seq(Record) /\ Len(buffer) = 1 /\ flushed = 0 /\ written = 1
    BY <1>1 DEF Init
  <1>3. table \in Seq(Record) /\ Len(table) = 0
    BY DEF Init
  <1>4. dialogs \in Seq({"running", "over", "closed"}) /\ Len(dialogs) = 0
    BY DEF Init
  <1>5. pc \in [Thread -> {"idle", "insert", "push"}] /\ \A t \in Thread : pc[t] = "idle"
    BY DEF Init
  <1>6. Counts
    BY <1>2, <1>3, <1>5 DEF Init, Counts
  <1> QED  BY <1>2, <1>3, <1>4, <1>5, <1>6 DEF Init, TypeOK

\* The invariant that the theorems rest on.
LEMMA CountsAlways == Spec => [](TypeOK /\ Counts)
  <1>1. TypeOK /\ Counts /\ [Next]_vars => (TypeOK /\ Counts)'
    BY CountsStep
  <1> QED  BY <1>1, CountsInit, PTL DEF Spec

\* Every variable of the history has its type, in particular the number of records
\* and of waiting notices is bounded by that of the records ever written.
THEOREM Typing == Spec => []TypeOK
  BY CountsAlways, PTL

\* The count of records is that of the table, over every step of the writers, the
\* worker and the dialogs, crashes and restarts (m_nTotalRecord).
THEOREM CountTrue == Spec => []TotalRight
  <1>1. Counts => TotalRight
    BY DEF Counts, TotalRight
  <1> QED  BY <1>1, CountsAlways, PTL

-----------------------------------------------------------------------------
(***************************************************************************)
(* The order of the records.  Numbers grow along the table and what of the *)
(* buffer is left, and past all that is in files; so the rows that are in a *)
(* file are the oldest of the table.                                        *)
(***************************************************************************)

Numbered == /\ \A i \in DOMAIN table : table[i].number <= written
            /\ \A r \in file : r.number <= written
            /\ \A j \in DOMAIN buffer : buffer[j].number <= written
            /\ \A j \in Left : /\ \A i \in DOMAIN table : table[i].number < buffer[j].number
                               /\ \A r \in file : r.number < buffer[j].number
                               /\ \A k \in Left : j < k => buffer[j].number < buffer[k].number

ExportedFirst == \A i, j \in DOMAIN table : i < j /\ table[j] \in file => table[i] \in file

Order == Numbered /\ ExportedFirst

\* What they are about.
flow == <<buffer, flushed, table, file, written>>

LEMMA NumbersAre ==
  ASSUME TypeOK
  PROVE  /\ written \in Nat /\ flushed \in Nat /\ Len(buffer) \in Nat /\ Len(table) \in Nat
         /\ DOMAIN table = 1 .. Len(table) /\ DOMAIN buffer = 1 .. Len(buffer)
         /\ Left \subseteq DOMAIN buffer
         /\ \A i \in DOMAIN table : table[i].number \in Nat
         /\ \A j \in DOMAIN buffer : buffer[j].number \in Nat
         /\ \A r \in file : r.number \in Nat
  <1>1. \A r \in Record : r.number \in Nat
    BY Bounds DEF Record
  <1>2. /\ table \in Seq(Record) /\ buffer \in Seq(Record) /\ file \subseteq Record
        /\ flushed \in 0 .. Len(buffer) /\ written \in 1 .. MaxRecords
    BY DEF TypeOK
  <1>3. /\ Len(buffer) \in Nat /\ Len(table) \in Nat
        /\ DOMAIN table = 1 .. Len(table) /\ DOMAIN buffer = 1 .. Len(buffer)
        /\ \A i \in DOMAIN table : table[i] \in Record
        /\ \A j \in DOMAIN buffer : buffer[j] \in Record
    BY <1>2
  <1>4. written \in Nat /\ flushed \in Nat
    BY <1>2, <1>3, Bounds
  <1>5. Left \subseteq DOMAIN buffer
    BY <1>3, <1>4 DEF Left
  <1> QED  BY <1>1, <1>2, <1>3, <1>4, <1>5

LEMMA OrderSame ==
  ASSUME Order, UNCHANGED flow
  PROVE  Order'
  BY DEF Order, Numbered, ExportedFirst, Left, flow

\* The state of a program that has started, with the rows found.
LEMMA RestartedOrder ==
  ASSUME TypeOK, Order, NEW found \in Seq(Record), Restarted(found),
         \A i \in DOMAIN found : found[i].number <= written,
         \A i, j \in DOMAIN found : i < j /\ found[j] \in file => found[i] \in file
  PROVE  Order'
  <1>1. /\ buffer' = <<System(written + 1)>> /\ flushed' = 0 /\ table' \in {found, <<>>}
        /\ file' = file /\ written' = written + 1
    BY RebuiltRows DEF Restarted
  <1>2. /\ written \in Nat /\ \A r \in file : r.number \in Nat
        /\ \A i \in DOMAIN found : found[i].number \in Nat
    <2>1. \A r \in Record : r.number \in Nat
      BY Bounds DEF Record
    <2>2. \A i \in DOMAIN found : found[i] \in Record
      OBVIOUS
    <2> QED  BY <2>1, <2>2, NumbersAre
  <1>3. /\ DOMAIN buffer' = {1} /\ Left' = {1} /\ buffer'[1].number = written + 1
    BY <1>1 DEF Left, System
  <1>4. /\ \A i \in DOMAIN table' : table'[i].number <= written /\ table'[i].number \in Nat
        /\ \A i, j \in DOMAIN table' : i < j /\ table'[j] \in file => table'[i] \in file
    <2>1. CASE table' = found
      BY <1>2, <2>1
    <2>2. CASE table' = <<>>
      BY <2>2
    <2> QED  BY <1>1, <2>1, <2>2
  <1>5. ExportedFirst'
    BY <1>1, <1>4 DEF ExportedFirst
  <1>6. Numbered'
    BY <1>1, <1>2, <1>3, <1>4 DEF Numbered, Order
  <1> QED  BY <1>5, <1>6 DEF Order

LEMMA OrderStep ==
  ASSUME TypeOK, Counts, Order, [Next]_vars
  PROVE  Order'
  <1>1. ASSUME NEW t \in Thread, TakeBuffer(t) PROVE UNCHANGED flow
    BY <1>1 DEF TakeBuffer, flow, rows
  <1>2. ASSUME NEW t \in Thread, Push(t) PROVE Order'
    <2>1. PICK m : buffer' = Append(buffer, [number |-> written + 1, machine |-> m])
      BY <1>2 DEF Push
    <2>2. written' = written + 1 /\ UNCHANGED <<flushed, table, file>>
      BY <1>2 DEF Push, rows
    <2>3. /\ DOMAIN buffer' = 1 .. Len(buffer) + 1 /\ Len(buffer') = Len(buffer) + 1
          /\ \A j \in DOMAIN buffer : buffer'[j] = buffer[j]
          /\ buffer'[Len(buffer) + 1].number = written + 1
      BY <2>1 DEF TypeOK
    <2>4. flushed \in 0 .. Len(buffer)
      BY DEF TypeOK
    <2>5. /\ Left' = Left \cup {Len(buffer) + 1}
          /\ \A j \in Left : j < Len(buffer) + 1
      BY <2>2, <2>3, <2>4, NumbersAre DEF Left
    <2>6. DOMAIN buffer' = DOMAIN buffer \cup {Len(buffer) + 1}
      BY <2>3, NumbersAre
    <2>7. \A j \in Left : buffer'[j] = buffer[j] /\ j \in Nat
      BY <2>3, NumbersAre
    <2>8. Numbered'
      <3>1. /\ \A i \in DOMAIN table' : table'[i].number <= written'
            /\ \A r \in file' : r.number <= written'
        BY <2>2, NumbersAre DEF Order, Numbered
      <3>2. \A j \in DOMAIN buffer' : buffer'[j].number <= written'
        BY <2>2, <2>3, <2>6, NumbersAre DEF Order, Numbered
      <3>3. ASSUME NEW j \in Left'
            PROVE  /\ \A i \in DOMAIN table' : table'[i].number < buffer'[j].number
                   /\ \A r \in file' : r.number < buffer'[j].number
        <4>1. CASE j \in Left
          BY <2>2, <2>7, <4>1 DEF Order, Numbered
        <4>2. CASE j = Len(buffer) + 1
          BY <2>2, <2>3, <4>2, NumbersAre DEF Order, Numbered
        <4> QED  BY <2>5, <4>1, <4>2
      <3>4. ASSUME NEW j \in Left', NEW k \in Left', j < k
            PROVE  buffer'[j].number < buffer'[k].number
        <4>1. CASE j \in Left /\ k \in Left
          BY <2>7, <3>4, <4>1 DEF Order, Numbered
        <4>2. CASE j \in Left /\ k = Len(buffer) + 1
          BY <2>2, <2>3, <2>7, <4>2, NumbersAre DEF Order, Numbered
        <4>3. CASE j = Len(buffer) + 1
          BY <2>5, <2>7, <3>4, <4>3, NumbersAre
        <4> QED  BY <2>5, <4>1, <4>2, <4>3
      <3> QED  BY <3>1, <3>2, <3>3, <3>4 DEF Numbered
    <2>9. ExportedFirst'
      BY <2>2 DEF Order, ExportedFirst
    <2> QED  BY <2>8, <2>9 DEF Order
  <1>3. ASSUME NEW u \in User, Login(u) PROVE UNCHANGED flow
    BY <1>3 DEF Login, flow, rows
  <1>4. ASSUME FlushBegin PROVE UNCHANGED flow
    BY <1>4 DEF FlushBegin, flow, rows
  <1>5. CASE FlushOne
    <2>1. /\ flushed' = flushed + 1 /\ table' = Append(table, buffer[flushed + 1])
          /\ UNCHANGED <<buffer, file, written>> /\ flushed < Len(buffer)
      BY <1>5 DEF FlushOne, NextFlushed
    <2>2. /\ flushed + 1 \in Left /\ Left' \subseteq Left /\ \A j \in Left' : flushed + 1 < j
      BY <2>1, NumbersAre DEF Left
    <2>3. flushed + 1 \in DOMAIN buffer /\ buffer[flushed + 1] \in Record
      BY <2>2, NumbersAre DEF TypeOK
    <2>4. /\ DOMAIN table' = 1 .. Len(table) + 1
          /\ \A i \in DOMAIN table : table'[i] = table[i]
          /\ table'[Len(table) + 1] = buffer[flushed + 1]
      BY <2>1, <2>3 DEF TypeOK
    <2>5. DOMAIN table' = DOMAIN table \cup {Len(table) + 1}
      BY <2>4, NumbersAre
    <2>6. buffer[flushed + 1] \notin file
      BY <2>2, NumbersAre DEF Order, Numbered
    <2>7. Numbered'
      <3>1. /\ \A i \in DOMAIN table' : table'[i].number <= written'
            /\ \A r \in file' : r.number <= written'
            /\ \A j \in DOMAIN buffer' : buffer'[j].number <= written'
        BY <2>1, <2>3, <2>4, <2>5 DEF Order, Numbered
      <3>2. ASSUME NEW j \in Left'
            PROVE  /\ \A i \in DOMAIN table' : table'[i].number < buffer'[j].number
                   /\ \A r \in file' : r.number < buffer'[j].number
                   /\ \A k \in Left' : j < k => buffer'[j].number < buffer'[k].number
        <4>1. buffer[flushed + 1].number < buffer[j].number
          BY <2>2 DEF Order, Numbered
        <4> QED  BY <2>1, <2>2, <2>4, <2>5, <4>1 DEF Order, Numbered
      <3> QED  BY <3>1, <3>2 DEF Numbered
    <2>8. ExportedFirst'
      <3> SUFFICES ASSUME NEW i \in DOMAIN table', NEW j \in DOMAIN table',
                          i < j, table'[j] \in file
                   PROVE  table'[i] \in file
        BY <2>1 DEF ExportedFirst
      <3>1. j # Len(table) + 1
        BY <2>4, <2>6
      <3>2. i \in DOMAIN table /\ j \in DOMAIN table
        BY <2>4, <3>1, NumbersAre
      <3> QED  BY <2>4, <3>2 DEF Order, ExportedFirst
    <2> QED  BY <2>7, <2>8 DEF Order
  <1>6. CASE FlushEnd
    <2>1. /\ buffer' = <<>> /\ flushed' = 0 /\ UNCHANGED <<table, file, written>>
      BY <1>6 DEF FlushEnd, rows
    <2>2. DOMAIN buffer' = {} /\ Left' = {}
      BY <2>1 DEF Left
    <2> QED  BY <2>1, <2>2 DEF Order, Numbered, ExportedFirst
  <1>7. ASSUME OpenDialog PROVE UNCHANGED flow
    BY <1>7 DEF OpenDialog, flow, rows
  <1>8. ASSUME CloseDialog PROVE UNCHANGED flow
    BY <1>8 DEF CloseDialog, flow, rows
  <1>9. ASSUME NEW i \in DOMAIN dialogs, Traverse(i) PROVE Order'
    <2>1. file' = file \cup {table[k] : k \in DOMAIN table}
          /\ UNCHANGED <<buffer, flushed, table, written>>
      BY <1>9 DEF Traverse, Exported, ToSet, rows
    <2>2. Left' = Left
      BY <2>1 DEF Left
    <2>3. Numbered'
      BY <2>1, <2>2 DEF Order, Numbered
    <2>4. ExportedFirst'
      BY <2>1 DEF ExportedFirst
    <2> QED  BY <2>3, <2>4 DEF Order
  <1>10. ASSUME NEW i \in DOMAIN dialogs, DeleteHalf(i) PROVE Order'
    <2> DEFINE n == total \div 2
    <2>1. UNCHANGED <<buffer, flushed, file, written>>
      BY <1>10 DEF DeleteHalf
    <2>2. n \in Nat /\ n <= Len(table)
      <3>1. total \in Nat /\ total = Len(table)
        BY DEF TypeOK, Counts
      <3>2. \A k \in Nat : k \div 2 \in Nat /\ k \div 2 <= k
        OBVIOUS
      <3> QED  BY <3>1, <3>2
    <2> HIDE DEF n
    <2>3. CASE OlderHalfGoes(n)
      <3>1. table' = SubSeq(table, n + 1, Len(table))
        BY <2>3 DEF OlderHalfGoes
      <3>2. /\ Len(table') = Len(table) - n /\ DOMAIN table' = 1 .. Len(table) - n
            /\ \A k \in DOMAIN table' : table'[k] = table[n + k]
        <4>1. n \in 0 .. Len(table) /\ Len(table) \in n .. Len(table)
          BY <2>2, NumbersAre
        <4>2. table \in Seq(Record)
          BY DEF TypeOK
        <4>3. /\ SubSeq(table, n + 1, Len(table)) \in Seq(Record)
              /\ Len(SubSeq(table, n + 1, Len(table))) = Len(table) - n
              /\ \A k \in 1 .. Len(table) - n :
                    SubSeq(table, n + 1, Len(table))[k] = table[n + k]
          BY <4>1, <4>2, PartAt
        <4> QED  BY <3>1, <4>3
      <3>3. \A k \in DOMAIN table' : n + k \in DOMAIN table /\ k \in Nat
        BY <2>2, <3>2, NumbersAre
      <3>4. Left' = Left
        BY <2>1 DEF Left
      <3>5. Numbered'
        BY <2>1, <3>2, <3>3, <3>4 DEF Order, Numbered
      <3>6. ExportedFirst'
        BY <2>1, <2>2, <3>2, <3>3 DEF Order, ExportedFirst
      <3> QED  BY <3>5, <3>6 DEF Order
    <2>4. CASE UNCHANGED rows
      BY <2>1, <2>4, OrderSame DEF rows, flow
    <2> QED  BY <1>10, <2>3, <2>4 DEF DeleteHalf, n
  <1>11. ASSUME NEW m \in Machine, DeleteRecordByMachine(m) PROVE Order'
    <2> DEFINE others == {i \in DOMAIN table : table[i].machine # m}
    <2>1. /\ table' = Picked(table, others) /\ UNCHANGED <<buffer, flushed, file, written>>
      BY <1>11 DEF DeleteRecordByMachine
    <2>2. others \in SUBSET DOMAIN table /\ others \in Places
      <3>1. others \in SUBSET (1 .. Len(table)) /\ Len(table) \in Nat
        BY NumbersAre
      <3> QED  BY <3>1, PlacesAre
    <2> HIDE DEF others
    <2>3. /\ Len(table') = Cardinality(others) /\ table' \in Seq(Record)
          /\ \A k \in DOMAIN table' : \E i \in others : table'[k] = table[i]
      BY <2>1, <2>2, PickedType DEF TypeOK
    <2>4. DOMAIN table' = 1 .. Cardinality(others)
      BY <2>3
    <2>5. \A k, l \in DOMAIN table' : k < l =>
             \E i, j \in others : i < j /\ table'[k] = table[i] /\ table'[l] = table[j]
      <3> SUFFICES ASSUME NEW k \in 1 .. Cardinality(others), NEW l \in 1 .. Cardinality(others),
                          k < l
                   PROVE  \E i, j \in others : i < j /\ table'[k] = table[i] /\ table'[l] = table[j]
        BY <2>4
      <3>1. \E i, j \in others : /\ i < j
                                 /\ Picked(table, others)[k] = table[i]
                                 /\ Picked(table, others)[l] = table[j]
        BY <2>2, PickedOrder
      <3> QED  BY <2>1, <3>1
    <2>6. \A k \in DOMAIN table' : \E i \in DOMAIN table : table'[k] = table[i]
      BY <2>2, <2>3
    <2>7. Left' = Left
      BY <2>1 DEF Left
    <2>8. Numbered'
      BY <2>1, <2>6, <2>7 DEF Order, Numbered
    <2>9. ExportedFirst'
      BY <2>1, <2>2, <2>5 DEF Order, ExportedFirst
    <2> QED  BY <2>8, <2>9 DEF Order
  <1>12. CASE Crash
    <2>1. table \in Seq(Record)
      BY DEF TypeOK
    <2> QED  BY <1>12, <2>1, RestartedOrder DEF Crash, Order, Numbered, ExportedFirst
  <1>13. CASE Exit
    <2> DEFINE found == table \o buffer
               n     == Len(table)
    <2>1. /\ table \in Seq(Record) /\ buffer \in Seq(Record)
      BY DEF TypeOK
    <2>2. /\ found \in Seq(Record) /\ DOMAIN found = 1 .. n + Len(buffer)
          /\ \A i \in 1 .. n : found[i] = table[i]
          /\ \A i \in 1 .. Len(buffer) : found[n + i] = buffer[i]
      BY <2>1
    <2>3. flushed = 0 /\ Left = DOMAIN buffer
      BY <1>13, NumbersAre DEF Exit, TypeOK, Left
    <2>4. Restarted(found)
      BY <1>13 DEF Exit
    <2> HIDE DEF found
    <2>5. \A i \in DOMAIN found : \/ i \in DOMAIN table /\ found[i] = table[i]
                                  \/ i > n /\ i - n \in DOMAIN buffer /\ found[i] = buffer[i - n]
      <3> TAKE i \in DOMAIN found
      <3>1. CASE i <= n
        BY <2>2, <3>1, NumbersAre
      <3>2. CASE ~(i <= n)
        <4>1. i - n \in 1 .. Len(buffer) /\ n + (i - n) = i /\ i > n
          BY <2>2, <3>2, NumbersAre
        <4> QED  BY <2>2, <4>1, NumbersAre
      <3> QED  BY <3>1, <3>2
    <2>6. \A j \in DOMAIN buffer : buffer[j] \notin file
      BY <2>3, NumbersAre DEF Order, Numbered
    <2>7. \A i \in DOMAIN found : found[i].number <= written
      BY <2>5 DEF Order, Numbered
    <2>8. ASSUME NEW i \in DOMAIN found, NEW j \in DOMAIN found, i < j, found[j] \in file
          PROVE  found[i] \in file
      <3>1. j \in DOMAIN table /\ found[j] = table[j]
        BY <2>5, <2>6, <2>8
      <3>2. i \in DOMAIN table /\ found[i] = table[i]
        BY <2>2, <2>8, <3>1, NumbersAre
      <3> QED  BY <2>8, <3>1, <3>2 DEF Order, ExportedFirst
    <2> QED  BY <2>2, <2>4, <2>7, <2>8, RestartedOrder
  <1>14. ASSUME UNCHANGED vars PROVE UNCHANGED flow
    BY <1>14 DEF vars, rows, flow
  <1> QED  BY <1>1, <1>2, <1>3, <1>4, <1>5, <1>6, <1>7, <1>8, <1>9, <1>10, <1>11, <1>12,
              <1>13, <1>14, OrderSame DEF Next

LEMMA OrderInit == Init => Order
  <1> SUFFICES ASSUME Init PROVE Order
    OBVIOUS
  <1>1. /\ buffer = <<System(1)>> /\ flushed = 0 /\ table = <<>> /\ file = {} /\ written = 1
    BY DEF Init
  <1>2. DOMAIN table = {} /\ DOMAIN buffer = {1} /\ Left = {1} /\ buffer[1].number = 1
    BY <1>1 DEF Left, System
  <1> QED  BY <1>1, <1>2 DEF Order, Numbered, ExportedFirst

LEMMA OrderAlways == Spec => [](TypeOK /\ Counts /\ Order)
  <1>1. TypeOK /\ Counts /\ Order /\ [Next]_vars => (TypeOK /\ Counts /\ Order)'
    BY CountsStep, OrderStep
  <1>2. Init => TypeOK /\ Counts /\ Order
    BY CountsInit, OrderInit
  <1> QED  BY <1>1, <1>2, PTL DEF Spec

-----------------------------------------------------------------------------
(* Halving.                                                                *)

HalvingExported(i) ==
    (dialogs[i] = "over" /\ i \in DOMAIN dialogs' /\ dialogs'[i] = "closed")
    => LET gone == ToSet(table) \ ToSet(table')
       IN  gone \subseteq file \/ ToSet(table') \cap file = {}

LEMMA HalvingStep ==
  ASSUME TypeOK, Counts, Order, [Next]_vars, NEW i \in DOMAIN dialogs
  PROVE  HalvingExported(i)
  <1> SUFFICES ASSUME dialogs[i] = "over", i \in DOMAIN dialogs', dialogs'[i] = "closed"
               PROVE  \/ ToSet(table) \ ToSet(table') \subseteq file
                      \/ ToSet(table') \cap file = {}
    BY DEF HalvingExported
  <1>1. ASSUME UNCHANGED dialogs PROVE FALSE
    BY <1>1
  <1>2. ASSUME NEW t \in Thread, TakeBuffer(t) \/ Push(t) PROVE FALSE
    BY <1>1, <1>2 DEF TakeBuffer, Push
  <1>3. ASSUME NEW u \in User, Login(u) PROVE FALSE
    BY <1>1, <1>3 DEF Login
  <1>4. ASSUME FlushBegin \/ FlushOne \/ FlushEnd PROVE FALSE
    BY <1>1, <1>4 DEF FlushBegin, FlushOne, FlushEnd
  <1>5. dialogs \in Seq({"running", "over", "closed"})
    BY DEF TypeOK
  <1>6. ASSUME OpenDialog PROVE FALSE
    <2>1. dialogs' = Append(dialogs, "running")
      BY <1>6 DEF OpenDialog
    <2>2. dialogs'[i] = dialogs[i]
      BY <1>5, <2>1
    <2> QED  BY <2>2
  <1>7. ASSUME CloseDialog PROVE FALSE
    <2>1. dialogs' = SubSeq(dialogs, 1, Len(dialogs) - 1)
      BY <1>7 DEF CloseDialog, Front
    <2>2. dialogs'[i] = dialogs[i]
      BY <1>5, <2>1
    <2> QED  BY <2>2
  <1>8. ASSUME NEW k \in DOMAIN dialogs, Traverse(k) PROVE FALSE
    <2>1. dialogs' = [dialogs EXCEPT ![k] = "over"]
      BY <1>8 DEF Traverse
    <2>2. dialogs'[i] \in {"over", dialogs[i]}
      BY <1>5, <2>1
    <2> QED  BY <2>2
  <1>9. ASSUME NEW m \in Machine, DeleteRecordByMachine(m) PROVE FALSE
    BY <1>1, <1>9 DEF DeleteRecordByMachine
  <1>10. ASSUME Crash \/ Exit PROVE FALSE
    <2>1. dialogs' = <<>>
      BY <1>10 DEF Crash, Exit, Restarted
    <2> QED  BY <2>1
  <1>11. ASSUME UNCHANGED vars PROVE FALSE
    BY <1>1, <1>11 DEF vars
  <1>12. ASSUME NEW k \in DOMAIN dialogs, DeleteHalf(k)
         PROVE  \/ ToSet(table) \ ToSet(table') \subseteq file
                \/ ToSet(table') \cap file = {}
    <2> DEFINE n == total \div 2
    <2>1. n \in Nat /\ n <= Len(table)
      <3>1. total \in Nat /\ total = Len(table)
        BY DEF TypeOK, Counts
      <3>2. \A z \in Nat : z \div 2 \in Nat /\ z \div 2 <= z
        OBVIOUS
      <3> QED  BY <3>1, <3>2
    <2>2. OlderHalfGoes(n) \/ UNCHANGED rows
      BY <1>12 DEF DeleteHalf
    <2> HIDE DEF n
    <2>3. CASE UNCHANGED rows
      BY <2>3 DEF rows
    <2>4. CASE OlderHalfGoes(n)
      <3>1. table' = SubSeq(table, n + 1, Len(table))
        BY <2>4 DEF OlderHalfGoes
      <3>2. /\ DOMAIN table' = 1 .. Len(table) - n
            /\ \A z \in DOMAIN table' : table'[z] = table[n + z]
        <4>1. n \in 0 .. Len(table) /\ Len(table) \in n .. Len(table)
          BY <2>1, NumbersAre
        <4>2. table \in Seq(Record)
          BY DEF TypeOK
        <4>3. /\ SubSeq(table, n + 1, Len(table)) \in Seq(Record)
              /\ Len(SubSeq(table, n + 1, Len(table))) = Len(table) - n
              /\ \A z \in 1 .. Len(table) - n :
                    SubSeq(table, n + 1, Len(table))[z] = table[n + z]
          BY <4>1, <4>2, PartAt
        <4> QED  BY <3>1, <4>3
      <3>3. \A z \in DOMAIN table' : n + z \in DOMAIN table /\ z >= 1 /\ z \in Nat
        BY <2>1, <3>2, NumbersAre
      <3>4. ASSUME NEW z \in DOMAIN table, table[z] \notin ToSet(table')
            PROVE  z <= n
        <4>1. z > n => z - n \in DOMAIN table' /\ n + (z - n) = z
          BY <2>1, <3>2, NumbersAre
        <4>2. z > n => table[z] \in ToSet(table')
          BY <3>2, <4>1 DEF ToSet
        <4> QED  BY <2>1, <3>4, <4>2, NumbersAre
      <3>5. ASSUME NEW z \in DOMAIN table', table'[z] \in file
            PROVE  ToSet(table) \ ToSet(table') \subseteq file
        <4> SUFFICES ASSUME NEW y \in DOMAIN table, table[y] \notin ToSet(table')
                     PROVE  table[y] \in file
          BY DEF ToSet
        <4>1. y <= n
          BY <3>4
        <4>2. n + z \in DOMAIN table /\ table[n + z] \in file
          BY <3>2, <3>3, <3>5
        <4>3. y < n + z
          BY <2>1, <3>3, <4>1, NumbersAre
        <4> QED  BY <4>2, <4>3 DEF Order, ExportedFirst
      <3> QED  BY <3>5 DEF ToSet
    <2> QED  BY <2>2, <2>3, <2>4
  <1> QED  BY <1>2, <1>3, <1>4, <1>6, <1>7, <1>8, <1>9, <1>10, <1>11, <1>12 DEF Next

\* Halving deletes a record that is in no file only when no exported one is left,
\* with several dialogs open, inserts between the export and the deletion,
\* machines deleted and restarts (DeleteHalfRecored).
THEOREM HalvingSafe == Spec => ExportedGoFirst
  <1>1. TypeOK /\ Counts /\ Order /\ [Next]_vars =>
           [\A i \in DOMAIN dialogs :
              (dialogs[i] = "over" /\ i \in DOMAIN dialogs' /\ dialogs'[i] = "closed")
              => LET gone == ToSet(table) \ ToSet(table')
                 IN  gone \subseteq file \/ ToSet(table') \cap file = {}]_vars
    BY HalvingStep DEF HalvingExported
  <1> QED  BY <1>1, OrderAlways, PTL DEF Spec, ExportedGoFirst

-----------------------------------------------------------------------------
(***************************************************************************)
(* The refinement: each step of the history is a step of the log, or none. *)
(***************************************************************************)

\* What of the buffer is not yet in the table.
Rest == SubSeq(buffer, flushed + 1, Len(buffer))

LEMMA PendingParts ==
  ASSUME TypeOK
  PROVE  /\ table \in Seq(Record) /\ buffer \in Seq(Record) /\ Rest \in Seq(Record)
         /\ Pending = table \o Rest /\ Pending \in Seq(Record)
         /\ flushed = 0 => Rest = buffer
  <1>1. /\ table \in Seq(Record) /\ buffer \in Seq(Record) /\ flushed \in 0 .. Len(buffer)
        /\ Len(buffer) \in Nat
    BY DEF TypeOK
  <1>2. Rest \in Seq(Record)
    <2>1. Len(buffer) \in flushed .. Len(buffer)
      BY <1>1
    <2> QED  BY <1>1, <2>1, PartAt DEF Rest
  <1>3. flushed = 0 => Rest = buffer
    BY <1>1, PartAll DEF Rest
  <1> QED  BY <1>1, <1>2, <1>3 DEF Pending, Rest

\* The next record is new to the log.
LEMMA NextNew ==
  ASSUME TypeOK, Order, written < MaxRecords, NEW m \in Machine \cup {None}
  PROVE  [number |-> written + 1, machine |-> m] \in Log!New
  <1> DEFINE r == [number |-> written + 1, machine |-> m]
             n == Len(table)
  <1>1. r \in Record
    <2>1. written + 1 \in Nat /\ written + 1 >= 1 /\ written + 1 <= MaxRecords
      BY NumbersAre, Bounds
    <2> QED  BY <2>1, RecordNew
  <1>2. /\ table \in Seq(Record) /\ Rest \in Seq(Record) /\ Pending = table \o Rest
    BY PendingParts
  <1>3. /\ Len(Rest) = Len(buffer) - flushed
        /\ \A i \in 1 .. Len(buffer) - flushed : Rest[i] = buffer[flushed + i]
    <2>1. flushed \in 0 .. Len(buffer) /\ Len(buffer) \in flushed .. Len(buffer)
      BY NumbersAre DEF TypeOK
    <2> QED  BY <2>1, PartAt DEF Rest, TypeOK
  <1>4. \A i \in 1 .. n : table[i].number <= written
    BY NumbersAre DEF Order, Numbered
  <1>5. \A i \in 1 .. Len(Rest) : Rest[i].number <= written
    <2> TAKE i \in 1 .. Len(Rest)
    <2>1. flushed + i \in DOMAIN buffer /\ Rest[i] = buffer[flushed + i]
      BY <1>3, NumbersAre
    <2> QED  BY <2>1 DEF Order, Numbered
  <1>6. \A i \in DOMAIN Pending : Pending[i].number <= written
    <2> TAKE i \in DOMAIN Pending
    <2>1. /\ DOMAIN Pending = 1 .. n + Len(Rest) /\ n \in Nat /\ Len(Rest) \in Nat
          /\ \A k \in 1 .. n : Pending[k] = table[k]
          /\ \A k \in 1 .. Len(Rest) : Pending[n + k] = Rest[k]
      BY <1>2
    <2>2. CASE i <= n
      <3>1. i \in 1 .. n
        BY <2>1, <2>2
      <3> QED  BY <1>4, <2>1, <3>1
    <2>3. CASE ~(i <= n)
      <3>1. i - n \in 1 .. Len(Rest) /\ n + (i - n) = i
        BY <2>1, <2>3
      <3> QED  BY <1>5, <2>1, <3>1
    <2> QED  BY <2>2, <2>3
  <1>7. r.number = written + 1 /\ written \in Nat
    BY NumbersAre
  <1> HIDE DEF r
  <1>8. \A i \in DOMAIN Pending : Pending[i] # r
    BY <1>6, <1>7
  <1> QED  BY <1>1, <1>8 DEF Log!New, r

\* The records of the program that starts.
LEMMA RestartedPending ==
  ASSUME NEW found, Restarted(found)
  PROVE  /\ Pending' = table' \o <<System(written + 1)>>
         /\ table' \in {found, <<>>} /\ written < MaxRecords
  <1>1. /\ buffer' = <<System(written + 1)>> /\ flushed' = 0
        /\ table' \in {found, <<>>} /\ written < MaxRecords
    BY DEF Restarted, Rebuilt
  <1>2. <<System(written + 1)>> \in Seq({System(written + 1)})
    OBVIOUS
  <1>3. SubSeq(<<System(written + 1)>>, 1, Len(<<System(written + 1)>>)) = <<System(written + 1)>>
    BY <1>2, PartAll
  <1>4. SubSeq(buffer', flushed' + 1, Len(buffer')) = <<System(written + 1)>>
    BY <1>1, <1>3
  <1> QED  BY <1>1, <1>4 DEF Pending

\* A rebuild that is cut short may lose the whole log.
LEMMA AllLost ==
  ASSUME TypeOK, NEW r \in Log!New, Pending' = <<>> \o <<r>>
  PROVE  Log!Lose
  <1>1. Pending \in Seq(Record) /\ r \in Record
    BY PendingParts DEF Log!New
  <1>2. SubSeq(Pending, 1, 0) = <<>> /\ 0 \in 0 .. Len(Pending)
    BY <1>1
  <1>3. <<>> \o <<r>> = Append(<<>>, r)
    BY <1>1
  <1> QED  BY <1>2, <1>3 DEF Log!Lose

\* The log's notion of a part is the same.
LEMMA LogPicked ==
  ASSUME NEW s, NEW I
  PROVE  Log!Picked(s, I) = Picked(s, I)
  BY DEF Log!Picked, Log!Rank, Log!Cardinality, Picked, Rank, Cardinality

LEMMA LogStep ==
  ASSUME TypeOK, TypeOK', Counts, Order, [Next]_vars
  PROVE  [Log!Next]_Pending
  <1>0. /\ table \in Seq(Record) /\ buffer \in Seq(Record) /\ Rest \in Seq(Record)
        /\ Pending = table \o Rest /\ Pending \in Seq(Record)
        /\ flushed = 0 => Rest = buffer
    BY PendingParts
  <1>1. ASSUME UNCHANGED <<table, buffer, flushed>> PROVE UNCHANGED Pending
    BY <1>1 DEF Pending
  <1>2. ASSUME NEW t \in Thread, TakeBuffer(t) PROVE UNCHANGED Pending
    BY <1>1, <1>2 DEF TakeBuffer, rows
  <1>3. ASSUME NEW t \in Thread, Push(t) PROVE Log!Write
    <2>1. PICK m \in Machine \cup {None} :
            buffer' = Append(buffer, [number |-> written + 1, machine |-> m])
      BY <1>3, Names DEF Push
    <2> DEFINE r == [number |-> written + 1, machine |-> m]
    <2>2. bufferLock = t /\ flushed = 0 /\ written < MaxRecords
      BY <1>3, Names DEF Push, TypeOK, Counts
    <2>3. r \in Log!New /\ r \in Record
      <3>1. r \in Log!New
        BY <2>2, NextNew
      <3> QED  BY <3>1 DEF Log!New
    <2> HIDE DEF r
    <2>4. buffer' = Append(buffer, r)
      BY <2>1 DEF r
    <2>5. flushed' = 0 /\ table' = table
      BY <1>3, <2>2 DEF Push, rows
    <2>6. Rest' = buffer' /\ Pending' = table' \o Rest'
      <3>1. buffer' \in Seq(Record)
        BY DEF TypeOK
      <3>2. SubSeq(buffer', 1, Len(buffer')) = buffer'
        BY <3>1, PartAll
      <3> QED  BY <2>5, <3>2 DEF Rest, Pending
    <2>7. Append(table \o buffer, r) = table \o Append(buffer, r)
      <3>1. table \in Seq(Record) /\ buffer \in Seq(Record) /\ r \in Record
        BY <1>0, <2>3
      <3> QED  BY <3>1
    <2>8. Pending' = Append(Pending, r)
      BY <1>0, <2>2, <2>4, <2>5, <2>6, <2>7
    <2> QED  BY <2>3, <2>8 DEF Log!Write
  <1>4. ASSUME NEW u \in User, Login(u) PROVE UNCHANGED Pending
    BY <1>1, <1>4 DEF Login, rows
  <1>5. ASSUME FlushBegin \/ OpenDialog \/ CloseDialog PROVE UNCHANGED Pending
    BY <1>1, <1>5 DEF FlushBegin, OpenDialog, CloseDialog, rows
  <1>6. ASSUME FlushOne PROVE UNCHANGED Pending
    <2>1. /\ flushed' = flushed + 1 /\ table' = Append(table, buffer[flushed + 1])
          /\ buffer' = buffer /\ flushed < Len(buffer)
      BY <1>6 DEF FlushOne, NextFlushed
    <2>2. flushed \in 0 .. Len(buffer) - 1
      BY <2>1, NumbersAre
    <2>3. Append(table, buffer[flushed + 1]) \o SubSeq(buffer, (flushed + 1) + 1, Len(buffer))
          = table \o SubSeq(buffer, flushed + 1, Len(buffer))
      BY <1>0, <2>2, JoinNext
    <2> QED  BY <2>1, <2>3 DEF Pending
  <1>7. ASSUME FlushEnd PROVE UNCHANGED Pending
    <2>1. buffer' = <<>> /\ flushed' = 0 /\ table' = table /\ flushed = Len(buffer)
      BY <1>7 DEF FlushEnd, rows
    <2>2. SubSeq(buffer, Len(buffer) + 1, Len(buffer)) = <<>>
      BY <1>0, PartAll
    <2>3. SubSeq(buffer', flushed' + 1, Len(buffer')) = <<>>
      BY <2>1
    <2> QED  BY <2>1, <2>2, <2>3 DEF Pending
  <1>8. ASSUME NEW i \in DOMAIN dialogs, Traverse(i) PROVE UNCHANGED Pending
    BY <1>1, <1>8 DEF Traverse, rows
  <1>9. ASSUME NEW i \in DOMAIN dialogs, DeleteHalf(i) PROVE Log!Trim \/ UNCHANGED Pending
    <2> DEFINE n == total \div 2
    <2>1. n \in Nat /\ n <= Len(table)
      <3>1. total \in Nat /\ total = Len(table)
        BY DEF TypeOK, Counts
      <3>2. \A z \in Nat : z \div 2 \in Nat /\ z \div 2 <= z
        OBVIOUS
      <3> QED  BY <3>1, <3>2
    <2>2. /\ IF n > 0 THEN OlderHalfGoes(n) ELSE UNCHANGED rows
          /\ UNCHANGED <<buffer, flushed>>
      BY <1>9 DEF DeleteHalf
    <2> HIDE DEF n
    <2>3. CASE n > 0
      <3>1. table' = SubSeq(table, n + 1, Len(table)) /\ Rest' = Rest
        BY <2>2, <2>3 DEF OlderHalfGoes, Rest
      <3>2. n \in 0 .. Len(table)
        BY <2>1, NumbersAre
      <3>3. SubSeq(table \o Rest, n + 1, Len(table \o Rest))
            = SubSeq(table, n + 1, Len(table)) \o Rest
        BY <1>0, <3>2, JoinRest
      <3>4. Pending' = SubSeq(Pending, n + 1, Len(Pending))
        BY <1>0, <3>1, <3>3 DEF Pending, Rest
      <3>5. n \in 1 .. Len(Pending)
        <4>1. Len(Pending) = Len(table) + Len(Rest) /\ Len(Rest) \in Nat
          BY <1>0
        <4> QED  BY <2>1, <2>3, <4>1, NumbersAre
      <3> QED  BY <3>4, <3>5 DEF Log!Trim
    <2>4. CASE ~(n > 0)
      BY <1>1, <2>2, <2>4 DEF rows
    <2> QED  BY <2>3, <2>4
  <1>10. ASSUME NEW m \in Machine, DeleteRecordByMachine(m) PROVE Log!Forget
    <2> DEFINE n      == Len(table)
               others == {i \in DOMAIN table : table[i].machine # m}
               remain == {i \in 1 .. n : OfMachine(Pending[i]) # m}
    <2>1. /\ table' = Picked(table, others) /\ others # DOMAIN table
          /\ UNCHANGED <<buffer, flushed>>
      BY <1>10 DEF DeleteRecordByMachine
    <2>2. /\ n \in Nat /\ DOMAIN table = 1 .. n /\ Len(Pending) = n + Len(Rest)
          /\ Len(Rest) \in Nat /\ \A i \in 1 .. n : Pending[i] = table[i]
      BY <1>0
    <2>3. remain = others
      BY <2>2 DEF OfMachine
    <2>4. others \in Places
      <3>1. others \in SUBSET (1 .. n)
        BY <2>2
      <3> QED  BY <2>2, <3>1, PlacesAre
    <2>5. Picked(Pending, remain) = Picked(table, others)
      <3>1. \A i \in others : Pending[i] = table[i]
        BY <2>2
      <3>2. Picked(Pending, others) = Picked(table, others)
        BY <2>4, <3>1, PickedSame
      <3> QED  BY <2>3, <3>2
    <2>6. SubSeq(Pending, n + 1, Len(Pending)) = Rest
      BY <1>0, JoinEnd
    <2>7. Rest' = Rest /\ Pending' = table' \o Rest'
      BY <2>1 DEF Rest, Pending
    <2>8. Pending' = Picked(Pending, remain) \o SubSeq(Pending, n + 1, Len(Pending))
      BY <2>1, <2>5, <2>6, <2>7
    <2>9. n \in 1 .. Len(Pending)
      <3>1. n # 0
        BY <2>1, <2>2
      <3> QED  BY <2>2, <3>1
    <2>10. \E z \in 1 .. Len(Pending) :
             Pending' = Picked(Pending, {i \in 1 .. z : OfMachine(Pending[i]) # m})
                        \o SubSeq(Pending, z + 1, Len(Pending))
      BY <2>8, <2>9
    <2> HIDE DEF n, others, remain
    <2>11. \A I : Log!Picked(Pending, I) = Picked(Pending, I)
      BY LogPicked
    <2> QED  BY <2>10, <2>11 DEF Log!Forget
  <1>11. ASSUME Crash PROVE Log!Lose
    <2> DEFINE r == System(written + 1)
    <2>1. /\ Pending' = table' \o <<r>> /\ written < MaxRecords
          /\ table' \in {table, <<>>}
      BY <1>11, RestartedPending DEF Crash
    <2>2. r \in Log!New
      BY <2>1, NextNew DEF System
    <2> HIDE DEF r
    <2>3. CASE table' = table
      <3>1. SubSeq(Pending, 1, Len(table)) = table
        BY <1>0, JoinBegin
      <3>2. table \o <<r>> = Append(table, r) /\ Len(table) \in 0 .. Len(Pending)
        BY <1>0
      <3> QED  BY <2>1, <2>2, <2>3, <3>1, <3>2 DEF Log!Lose
    <2>4. CASE table' = <<>>
      BY <2>1, <2>2, <2>4, AllLost
    <2> QED  BY <2>1, <2>3, <2>4
  <1>12. ASSUME Exit PROVE Log!Write \/ Log!Lose
    <2> DEFINE r == System(written + 1)
    <2>1. /\ Pending' = table' \o <<r>> /\ written < MaxRecords
          /\ table' \in {table \o buffer, <<>>}
      BY <1>12, RestartedPending DEF Exit
    <2>2. r \in Log!New
      BY <2>1, NextNew DEF System
    <2> HIDE DEF r
    <2>3. CASE table' = table \o buffer
      <3>1. Pending = table \o buffer
        BY <1>0, <1>12 DEF Exit, TypeOK
      <3>2. Pending \o <<r>> = Append(Pending, r)
        BY <1>0
      <3> QED  BY <2>1, <2>2, <2>3, <3>1, <3>2 DEF Log!Write
    <2>4. CASE table' = <<>>
      BY <2>1, <2>2, <2>4, AllLost
    <2> QED  BY <2>1, <2>3, <2>4
  <1>13. ASSUME UNCHANGED vars PROVE UNCHANGED Pending
    BY <1>1, <1>13 DEF vars, rows
  <1> QED  BY <1>2, <1>3, <1>4, <1>5, <1>6, <1>7, <1>8, <1>9, <1>10, <1>11, <1>12, <1>13
           DEF Next, Log!Next

LEMMA LogInit == Init => Log!Init
  <1> SUFFICES ASSUME Init PROVE Log!Init
    OBVIOUS
  <1>1. buffer = <<System(1)>> /\ flushed = 0 /\ table = <<>>
    BY DEF Init
  <1>2. Pending = <<System(1)>>
    <2>1. <<System(1)>> \in Seq({System(1)})
      OBVIOUS
    <2>2. SubSeq(<<System(1)>>, 1, Len(<<System(1)>>)) = <<System(1)>>
      BY <2>1, PartAll
    <2>3. <<>> \o <<System(1)>> = <<System(1)>>
      BY <2>1
    <2>4. SubSeq(buffer, flushed + 1, Len(buffer)) = <<System(1)>>
      BY <1>1, <2>2
    <2> QED  BY <1>1, <2>3, <2>4 DEF Pending
  <1>3. System(1) \in Record
    BY RecordNew, Bounds DEF System
  <1> QED  BY <1>2, <1>3 DEF Log!Init

\* The table and what of the buffer is not yet in it are the log: no step of any
\* thread loses a record, writes one twice or moves it, but for the halving, the
\* deletion of a machine and a crash (HistoryRecord.cpp).
THEOREM LogImplemented == Spec => ImplementsHistoryLog
  <1>1. /\ TypeOK /\ Counts /\ Order /\ (TypeOK /\ Counts /\ Order)' /\ [Next]_vars
        => [Log!Next]_Pending
    BY LogStep
  <1> QED  BY <1>1, LogInit, OrderAlways, PTL DEF Spec, ImplementsHistoryLog, Log!Spec

=============================================================================
