------------------------- MODULE AlarmRecordsProofs -------------------------
(***************************************************************************)
(* Theorems about AlarmRecords for any submachines, numbers of records,    *)
(* texts, edits and restarts, and any limit of the table.                  *)
(***************************************************************************)
EXTENDS AlarmRecords, SubsequencesProofs

\* The rows are numbered as they were added, what is cached or was read is there,
\* one export follows another, and no dialog but that of the newest record is open
\* while one does.
Known == /\ \A a \in Rows : a <= ids
         /\ \A a \in AlarmId : cache[a] # None => a \in Rows
         /\ row # None => export \in Rows
         /\ notice => export = None
         /\ (notice \/ export # None) /\ ui # None => ui.alarm = ids

-----------------------------------------------------------------------------
(* Constants, sets of rows and updates of a record.                        *)

LEMMA Bounds ==
  /\ MaxRecord \in Nat \ {0} /\ CheckCounter \in Nat \ {0}
  /\ MaxAlarms \in Nat /\ MaxTexts \in Nat /\ MaxEdits \in Nat /\ MaxRestarts \in Nat
  /\ None \notin Machine /\ None \notin Int /\ None \notin Record
  BY BoundAssumption, NameAssumption, RecordAssumption

LEMMA MinIs ==
  ASSUME NEW S \in SUBSET Nat, S # {}
  PROVE  Min(S) \in S /\ \A x \in S : Min(S) <= x
  <1>1. \E n \in S : \A k \in S : n <= k
    BY LeastNumber
  <1> QED  BY <1>1 DEF Min

LEMMA MinOfTwo ==
  ASSUME NEW a \in Nat, NEW b \in Nat
  PROVE  Min({a, b}) = IF a <= b THEN a ELSE b
  <1>1. Min({a, b}) \in {a, b} /\ \A x \in {a, b} : Min({a, b}) <= x
    BY MinIs
  <1> QED  BY <1>1

\* A set of row numbers.
LEMMA RowsFinite ==
  ASSUME NEW S \in SUBSET AlarmId
  PROVE  IsFiniteSet(S) /\ Cardinality(S) \in Nat /\ S \in SUBSET Nat /\ S \in Places
  <1>1. S \in SUBSET (1 .. MaxAlarms) /\ MaxAlarms \in Nat
    BY Bounds DEF AlarmId
  <1>2. S \in Places
    BY <1>1, PlacesAre
  <1>3. IsFiniteSet(S) /\ Cardinality(S) \in Nat
    BY <1>2, PlacesHave
  <1>4. S \in SUBSET Nat
    BY <1>1
  <1> QED  BY <1>2, <1>3, <1>4

LEMMA RowsAre == Rows \in SUBSET AlarmId
  BY DEF Rows

\* The newest record is not in the older half.
LEMMA NewestStays ==
  ASSUME NEW a \in Rows, \A b \in Rows : b <= a
  PROVE  a \notin Older(Cardinality(Rows) \div 2)
  <1> DEFINE n == Cardinality(Rows)
  <1>1. IsFiniteSet(Rows) /\ n \in Nat /\ Rows \in SUBSET Nat
    BY RowsAre, RowsFinite
  <1>2. Cardinality(Rows \ {a}) = n - 1
    BY <1>1, FS_RemoveElement
  <1>3. {b \in Rows : b < a} = Rows \ {a}
    <2>1. \A b \in Rows : b \in Nat
      BY <1>1
    <2>2. \A b \in Rows : b < a <=> b # a
      BY <2>1
    <2> QED  BY <2>2
  <1>4. n # 0
    BY <1>1, FS_EmptySet
  <1> HIDE DEF n
  <1>5. ~(n - 1 < n \div 2)
    BY <1>1, <1>4
  <1> QED  BY <1>2, <1>3, <1>5 DEF Older, n

\* Record a is altered, alike in the table and in the cache.
Alters(a) ==
  /\ a \in AlarmId
  /\ \A b \in AlarmId \ {a} : table'[b] = table[b] /\ cache'[b] = cache[b]
  /\ table'[a] = None <=> table[a] = None
  /\ cache[a] # None => cache'[a] # None
  /\ cache[a] = table[a] => cache'[a] = table'[a]

Optional == Record \cup {None}

Typed == table' \in [AlarmId -> Optional] /\ cache' \in [AlarmId -> Optional]

LEMMA InfoType ==
  ASSUME TypeOK, NEW a \in AlarmId
  PROVE  AlarmInfo(a) \in Optional
  <1>1. \A r \in Record : Misread(r) \in Record
    BY DEF Misread, Record
  <1> QED  BY <1>1 DEF AlarmInfo, TypeOK, Optional

LEMMA UpdateFacts ==
  ASSUME TypeOK, NEW a \in AlarmId, NEW F \in [Record -> Record], Update(a, F)
  PROVE  /\ Typed /\ Alters(a) /\ Rows' = Rows
         /\ table[a] # None => table'[a] = F[table[a]]
  <1>1. table \in [AlarmId -> Optional] /\ cache \in [AlarmId -> Optional]
    BY DEF TypeOK, Optional
  <1>2. \A r \in Optional : r # None => F[r] \in Record /\ F[r] # None
    BY Bounds DEF Optional
  <1> DEFINE r == AlarmInfo(a)
             t == IF table[a] = None THEN None ELSE F[table[a]]
             c == IF r = None THEN None ELSE F[r]
  <1>3. r \in Optional
    BY InfoType
  <1>4. t \in Optional /\ c \in Optional
    BY <1>1, <1>2, <1>3 DEF Optional
  <1>5. table' = [table EXCEPT ![a] = t] /\ cache' = [cache EXCEPT ![a] = c]
    BY DEF Update, Cached
  <1>6. cache[a] # None => r = cache[a]
    BY DEF AlarmInfo
  <1>7. cache[a] = None /\ table[a] = None => r = None
    BY DEF AlarmInfo
  <1>8. /\ t = None <=> table[a] = None
        /\ cache[a] # None => c # None
        /\ cache[a] = table[a] => c = t
    BY <1>1, <1>2, <1>6, <1>7
  <1>9. table[a] # None => t = F[table[a]]
    OBVIOUS
  <1> HIDE DEF t, c
  <1>10. Typed
    BY <1>1, <1>4, <1>5 DEF Typed
  <1>11. table'[a] = t /\ cache'[a] = c
         /\ \A b \in AlarmId \ {a} : table'[b] = table[b] /\ cache'[b] = cache[b]
    BY <1>1, <1>5
  <1>12. Alters(a)
    BY <1>8, <1>11 DEF Alters
  <1>13. Rows' = Rows
    BY <1>8, <1>11 DEF Rows
  <1> QED  BY <1>9, <1>10, <1>11, <1>12, <1>13

\* What the dialogs write: the rows of the tables, and the record under way.
Edits(a) == \E F \in [Record -> Record] :
               /\ Update(a, F)
               /\ \A r \in Record : F[r].machine = r.machine /\ r.texts \subseteq F[r].texts

Children == child' \in [Kind -> Seq(0 .. MaxAlarms)]

\* The record of a dialog is one of the table.
LEMMA UiAlarm ==
  ASSUME TypeOK, ui # None
  PROVE  /\ ui.alarm \in Rows /\ ui.alarm \in AlarmId /\ ui.machine \in Machine
         /\ ui.alarm \in 0 .. MaxAlarms
  BY Bounds DEF TypeOK, Rows, AlarmId

LEMMA AppendedRow ==
  ASSUME TypeOK, NEW k \in Kind, NEW a \in 0 .. MaxAlarms
  PROVE  /\ Append(child[k], a) \in Seq(0 .. MaxAlarms)
         /\ child[k] \in Seq(0 .. MaxAlarms)
         /\ Append(Append(child[k], a), a) \in Seq(0 .. MaxAlarms)
         /\ child[k] \o <<a, a>> \in Seq(0 .. MaxAlarms)
         /\ Inserted(k, a) \in [Kind -> Seq(0 .. MaxAlarms)]
  BY DEF TypeOK, Inserted

LEMMA JudgementRows ==
  ASSUME TypeOK, ui # None
  PROVE  /\ TwoJudgements \in [Kind -> Seq(0 .. MaxAlarms)]
         /\ [TwoJudgements EXCEPT !.reason = Append(@, ui.alarm)]
               \in [Kind -> Seq(0 .. MaxAlarms)]
  <1>1. /\ "judgement" \in Kind /\ "reason" \in Kind /\ "judgement" # "reason"
        /\ child \in [Kind -> Seq(0 .. MaxAlarms)]
    BY DEF Kind, TypeOK
  <1>2. /\ child["judgement"] \o <<ui.alarm, ui.alarm>> \in Seq(0 .. MaxAlarms)
        /\ Append(child["reason"], ui.alarm) \in Seq(0 .. MaxAlarms)
    BY <1>1, UiAlarm, AppendedRow
  <1> QED  BY <1>1, <1>2 DEF TwoJudgements

LEMMA JudgedEdits ==
  ASSUME NEW cleared \in BOOLEAN, Children, Judged(cleared)
  PROVE  Edits(ui.alarm)
  <1> DEFINE n == LastRow("judgement", child')
             F == [r \in Record |-> [r EXCEPT !.judgement = n, !.cleared = cleared]]
  <1>1. n \in Nat
    BY DEF Children, LastRow, Kind
  <1> HIDE DEF n
  <1>2. \A r \in Record : /\ [r EXCEPT !.judgement = n, !.cleared = cleared] \in Record
                          /\ [r EXCEPT !.judgement = n, !.cleared = cleared].machine = r.machine
                          /\ [r EXCEPT !.judgement = n, !.cleared = cleared].texts = r.texts
    BY <1>1 DEF Record
  <1>3. F \in [Record -> Record]
    BY <1>2
  <1>4. \A r \in Record : F[r].machine = r.machine /\ r.texts \subseteq F[r].texts
    BY <1>2
  <1>5. Update(ui.alarm, F)
    BY DEF Judged, n
  <1> QED  BY <1>3, <1>4, <1>5 DEF Edits

LEMMA GuardEdits ==
  ASSUME TypeOK, Guard
  PROVE  Children /\ Edits(ui.alarm)
  <1>1. ui # None /\ child' = Inserted("handle", ui.alarm)
    BY DEF Guard, At
  <1>2. Children
    BY <1>1, UiAlarm, AppendedRow DEF Children, Kind
  <1> DEFINE n == LastRow("handle", child')
             F == [r \in Record |-> [r EXCEPT !.handle = n, !.cleared = FALSE]]
  <1>3. n \in Nat
    BY <1>2 DEF Children, LastRow, Kind
  <1> HIDE DEF n
  <1>4. \A r \in Record : /\ [r EXCEPT !.handle = n, !.cleared = FALSE] \in Record
                          /\ [r EXCEPT !.handle = n, !.cleared = FALSE].machine = r.machine
                          /\ [r EXCEPT !.handle = n, !.cleared = FALSE].texts = r.texts
    BY <1>3 DEF Record
  <1>5. F \in [Record -> Record]
    BY <1>4
  <1>6. \A r \in Record : F[r].machine = r.machine /\ r.texts \subseteq F[r].texts
    BY <1>4
  <1>7. Update(ui.alarm, F)
    BY DEF Guard, n
  <1> QED  BY <1>2, <1>5, <1>6, <1>7 DEF Edits

\* A row that is taken out.
LEMMA RowGone ==
  ASSUME NEW s \in Seq(0 .. MaxAlarms), NEW i
  PROVE  /\ [s EXCEPT ![i] = 0] \in Seq(0 .. MaxAlarms)
         /\ Len([s EXCEPT ![i] = 0]) = Len(s)
         /\ \A j \in 1 .. Len(s) : [s EXCEPT ![i] = 0][j] = IF j = i THEN 0 ELSE s[j]
  <1>1. 0 \in 0 .. MaxAlarms
    BY Bounds
  <1>2. Len(s) \in Nat /\ DOMAIN s = 1 .. Len(s)
    OBVIOUS
  <1>3. CASE i \in DOMAIN s
    BY <1>1, <1>2, <1>3
  <1>4. CASE i \notin DOMAIN s
    <2>1. [s EXCEPT ![i] = 0] = s
      BY <1>2, <1>4
    <2> QED  BY <1>2, <1>4, <2>1
  <1> QED  BY <1>3, <1>4

\* The record of a dialog, as get_alarm_info gives it.
LEMMA InfoIs ==
  ASSUME TypeOK, NEW a \in Rows
  PROVE  AlarmInfo(a) \in Record /\ (cache[a] # None => AlarmInfo(a) = cache[a])
  <1>1. \A r \in Record : Misread(r) \in Record
    BY DEF Misread, Record
  <1> QED  BY <1>1 DEF AlarmInfo, TypeOK, Rows

\* Kind k of the result: a row more, one row less, or the same rows.
ResultOf(guard, judgement, k) ==
  LET r == AlarmInfo(ui.alarm)
  IN  \/ child'[k] = Append(child[k], ui.alarm)
      \/ /\ k = "handle" /\ ~guard
         /\ child'[k] = [child[k] EXCEPT ![r.handle] = 0]
      \/ child'[k] = child[k] /\ (k = "handle" => ~guard /\ r.handle = 0)

LEMMA ResultIs ==
  ASSUME TypeOK, ui # None, NEW guard \in BOOLEAN, NEW judgement \in BOOLEAN,
         child' = Result(guard, judgement)
  PROVE  /\ Children
         /\ \A k \in Kind : ResultOf(guard, judgement, k)
  <1> DEFINE r == AlarmInfo(ui.alarm)
  <1>1. \A k \in Kind : ResultOf(guard, judgement, k)
    BY DEF Result, ResultOf
  <1>2. \A k \in Kind : child'[k] \in Seq(0 .. MaxAlarms)
    <2> TAKE k \in Kind
    <2>1. child[k] \in Seq(0 .. MaxAlarms) /\ Append(child[k], ui.alarm) \in Seq(0 .. MaxAlarms)
      BY UiAlarm, AppendedRow
    <2>2. [child[k] EXCEPT ![r.handle] = 0] \in Seq(0 .. MaxAlarms)
      BY <2>1, RowGone
    <2> QED  BY <1>1, <2>1, <2>2 DEF ResultOf
  <1>3. child' = [k \in Kind |-> child'[k]]
    BY DEF Result
  <1>4. Children
    BY <1>2, <1>3 DEF Children
  <1> QED  BY <1>1, <1>4

LEMMA ConfirmEdits ==
  ASSUME TypeOK, NEW cleared \in BOOLEAN, NEW guard \in BOOLEAN, NEW valid \in BOOLEAN,
         Confirm(cleared, guard, valid)
  PROVE  Children /\ Edits(ui.alarm)
  <1>1. ui # None /\ child' = Result(guard, valid)
    BY DEF Confirm, At
  <1>2. Children
    BY <1>1, ResultIs
  <1> DEFINE G(r) == [r EXCEPT !.cleared = cleared,
                               !.handle = IF guard THEN Link("handle", r.handle) ELSE 0,
                               !.reason = Link("reason", r.reason),
                               !.judgement = Link("judgement", r.judgement)]
             F == [r \in Record |-> G(r)]
  <1>3. \A k \in Kind, i \in Nat : Link(k, i) \in Nat
    BY <1>2 DEF Children, Link, LastRow
  <1>4. \A r \in Record : /\ G(r) \in Record
                          /\ G(r).machine = r.machine /\ G(r).texts = r.texts
    <2> TAKE r \in Record
    <2> DEFINE h == IF guard THEN Link("handle", r.handle) ELSE 0
               e == Link("reason", r.reason)
               j == Link("judgement", r.judgement)
    <2>1. h \in Nat /\ e \in Nat /\ j \in Nat
      BY <1>3 DEF Record, Kind
    <2> HIDE DEF h, e, j
    <2>2. /\ [r EXCEPT !.cleared = cleared, !.handle = h, !.reason = e, !.judgement = j] \in Record
          /\ [r EXCEPT !.cleared = cleared, !.handle = h, !.reason = e, !.judgement = j].machine = r.machine
          /\ [r EXCEPT !.cleared = cleared, !.handle = h, !.reason = e, !.judgement = j].texts = r.texts
      BY <2>1 DEF Record
    <2> QED  BY <2>2 DEF h, e, j
  <1>5. Update(ui.alarm, F)
    BY DEF Confirm
  <1> HIDE DEF G
  <1>6. F \in [Record -> Record]
    BY <1>4
  <1>7. \A r \in Record : F[r].machine = r.machine /\ r.texts \subseteq F[r].texts
    BY <1>4
  <1> QED  BY <1>2, <1>5, <1>6, <1>7 DEF Edits

\* An event joins a record.
LEMMA JoinEdits ==
  ASSUME TypeOK, NEW m \in Machine, EventBegins(m), alarm_id[m] # 0
  PROVE  /\ alarm_id[m] \in AlarmId
         /\ \E F \in [Record -> Record] :
               /\ Update(alarm_id[m], F)
               /\ \A r \in Record : /\ F[r].machine = r.machine
                                    /\ r.texts \subseteq F[r].texts
                                    /\ texts' \in F[r].texts
                                    /\ \A k \in Kind : F[r][k] = r[k]
  <1>1. alarm_id[m] \in AlarmId
    BY Bounds DEF TypeOK, AlarmId
  <1>2. texts' \in 1 .. MaxTexts
    BY Bounds DEF EventBegins, TypeOK
  <1> DEFINE F == [r \in Record |-> [r EXCEPT !.texts = @ \cup {texts'}]]
  <1>3. \A r \in Record : /\ [r EXCEPT !.texts = @ \cup {texts'}] \in Record
                          /\ [r EXCEPT !.texts = @ \cup {texts'}].machine = r.machine
                          /\ [r EXCEPT !.texts = @ \cup {texts'}].texts = r.texts \cup {texts'}
                          /\ \A k \in Kind : [r EXCEPT !.texts = @ \cup {texts'}][k] = r[k]
    BY <1>2 DEF Record, Kind
  <1>4. F \in [Record -> Record]
    BY <1>3
  <1>5. \A r \in Record : /\ F[r].machine = r.machine
                          /\ r.texts \subseteq F[r].texts /\ texts' \in F[r].texts
                          /\ \A k \in Kind : F[r][k] = r[k]
    BY <1>3
  <1>6. Update(alarm_id[m], F)
    BY DEF EventBegins, Joined
  <1> QED  BY <1>1, <1>4, <1>5, <1>6

\* A dialog that writes: TestDevice, Judge, Guard, Confirm.
Writes == \/ TestDevice
          \/ Judge("judge true", "guard") \/ Judge("judge false", "result")
          \/ Guard
          \/ \E cleared, guard, valid \in BOOLEAN : Confirm(cleared, guard, valid)

LEMMA WritesEdits ==
  ASSUME TypeOK, Writes
  PROVE  ui # None /\ Children /\ Edits(ui.alarm)
  <1>1. ASSUME NEW stage, NEW next, Judge(stage, next)
        PROVE  ui # None /\ Children /\ Edits(ui.alarm)
    <2>1. ui # None /\ Children
      BY <1>1, JudgementRows DEF Judge, At, Children
    <2>2. (next = "result") \in BOOLEAN /\ Judged(next = "result")
      BY <1>1 DEF Judge
    <2> QED  BY <2>1, <2>2, JudgedEdits
  <1>2. ASSUME TestDevice
        PROVE  ui # None /\ Children /\ Edits(ui.alarm)
    <2>1. ui # None /\ Children
      BY <1>2, JudgementRows DEF TestDevice, At, Children
    <2>2. Judged(TRUE)
      BY <1>2 DEF TestDevice
    <2> QED  BY <2>1, <2>2, JudgedEdits
  <1>3. Guard => ui # None
    BY DEF Guard, At
  <1>4. \A c, g, v \in BOOLEAN : Confirm(c, g, v) => ui # None
    BY DEF Confirm, At
  <1> QED  BY <1>1, <1>2, <1>3, <1>4, GuardEdits, ConfirmEdits DEF Writes

\* What the record of a dialog looks like then.
LEMMA EditsFacts ==
  ASSUME TypeOK, NEW a \in AlarmId, Edits(a)
  PROVE  /\ Typed /\ Alters(a) /\ Rows' = Rows
         /\ table[a] # None => /\ table'[a].machine = table[a].machine
                               /\ table[a].texts \subseteq table'[a].texts
  <1> PICK F \in [Record -> Record] :
               /\ Update(a, F)
               /\ \A r \in Record : F[r].machine = r.machine /\ r.texts \subseteq F[r].texts
    BY DEF Edits
  <1>1. table[a] # None => table[a] \in Record
    BY DEF TypeOK
  <1> QED  BY <1>1, UpdateFacts

LEMMA Altered ==
  ASSUME Known, NEW a, Alters(a)
  PROVE  \A b \in AlarmId : cache'[b] # None => b \in Rows
  BY DEF Alters, Known, Rows

\* What they leave alone.
LEMMA WritesFrame ==
  ASSUME TypeOK, Writes
  PROVE  /\ ui # None /\ Input
         /\ UNCHANGED <<counter, event, notice, exports, reopened, ids, texts, restarts>>
         /\ ui' # None => ui'.alarm = ui.alarm /\ ui'.machine = ui.machine
         /\ \/ UNCHANGED machines
            \/ /\ \/ UNCHANGED <<alarming, listed>> \/ \E S : Clear(S)
               /\ \E x \in {0, ui.alarm} : alarm_id' = [alarm_id EXCEPT ![ui.machine] = x]
               /\ ui' = None
  <1>1. ui # None => \A stage : /\ [ui EXCEPT !.stage = stage].alarm = ui.alarm
                                /\ [ui EXCEPT !.stage = stage].machine = ui.machine
    BY DEF TypeOK
  <1>2. ASSUME NEW stage, ui # None, Goto(stage)
        PROVE  ui'.alarm = ui.alarm /\ ui'.machine = ui.machine
    BY <1>1, <1>2 DEF Goto
  <1>3. TestDevice => /\ ui # None /\ Input /\ Goto("result")
                      /\ UNCHANGED <<counter, machines, event, notice, exports, reopened, counts>>
    BY DEF TestDevice, At
  <1>4. \A stage, next : Judge(stage, next) =>
           /\ ui # None /\ Input /\ Goto(next)
           /\ UNCHANGED <<counter, machines, event, notice, exports, reopened, counts>>
    BY DEF Judge, At
  <1>5. Guard => /\ ui # None /\ Input /\ Goto("result")
                 /\ UNCHANGED <<counter, machines, event, notice, exports, reopened, counts>>
    BY DEF Guard, At
  <1>6. ASSUME NEW c \in BOOLEAN, NEW g \in BOOLEAN, NEW v \in BOOLEAN, Confirm(c, g, v)
        PROVE  /\ ui # None /\ Input
               /\ UNCHANGED <<counter, event, notice, exports, reopened, ids, texts, restarts>>
               /\ ui' # None => ui'.alarm = ui.alarm /\ ui'.machine = ui.machine
               /\ \/ UNCHANGED machines
                  \/ /\ \/ UNCHANGED <<alarming, listed>> \/ \E S : Clear(S)
                     /\ \E x \in {0, ui.alarm} : alarm_id' = [alarm_id EXCEPT ![ui.machine] = x]
                     /\ ui' = None
    <2>1. /\ ui # None /\ Input
          /\ UNCHANGED <<counter, event, notice, exports, reopened, ids, texts, restarts>>
      BY <1>6 DEF Confirm, At
    <2>2. CASE ~v
      BY <1>6, <2>1, <2>2 DEF Confirm
    <2>3. CASE v
      <3>1. ui' = None /\ (UNCHANGED <<alarming, listed>> \/ \E S : Clear(S))
        BY <1>6, <2>3 DEF Confirm
      <3>2. alarm_id' = [alarm_id EXCEPT ![ui.machine] = IF c THEN 0 ELSE ui.alarm]
        BY <1>6, <2>3 DEF Confirm
      <3>3. \E x \in {0, ui.alarm} : alarm_id' = [alarm_id EXCEPT ![ui.machine] = x]
        BY <3>2
      <3> QED  BY <2>1, <3>1, <3>3
    <2> QED  BY <2>2, <2>3
  <1>7. CASE TestDevice \/ Guard \/ Judge("judge true", "guard") \/ Judge("judge false", "result")
    BY <1>2, <1>3, <1>4, <1>5, <1>7 DEF counts
  <1>8. CASE \E c, g, v \in BOOLEAN : Confirm(c, g, v)
    BY <1>6, <1>8
  <1> QED  BY <1>7, <1>8 DEF Writes

-----------------------------------------------------------------------------
(* Types.                                                                  *)

UiType     == ui \in [stage : Stage, alarm : Rows, machine : Machine] \cup {None}
EventType  == event \in [machine : Machine, text : 1 .. texts] \cup {None}
CountTypes == /\ counter \in 0 .. CheckCounter + 1
              /\ notice \in BOOLEAN
              /\ ids \in 0 .. MaxAlarms /\ texts \in 0 .. MaxTexts
              /\ edits \in 0 .. MaxEdits /\ restarts \in 0 .. MaxRestarts
MachineTypes == /\ alarm_id \in [Machine -> 0 .. ids]
                /\ alarming \subseteq Machine
                /\ listed \in [Machine -> SUBSET (1 .. texts)]
ExportTypes == /\ export \in 1 .. MaxAlarms + 1 \cup {None}
               /\ row \in Record \cup {None}
               /\ file \subseteq 1 .. ids
RecordTypes == /\ table \in [AlarmId -> Optional] /\ cache \in [AlarmId -> Optional]
               /\ child \in [Kind -> Seq(0 .. MaxAlarms)]

LEMMA TypeParts ==
  /\ TypeOK <=> /\ UiType /\ EventType /\ CountTypes /\ MachineTypes
                /\ ExportTypes /\ RecordTypes /\ reopened \subseteq 1 .. ids
  /\ TypeOK' <=> /\ UiType' /\ EventType' /\ CountTypes' /\ MachineTypes'
                 /\ ExportTypes' /\ RecordTypes' /\ reopened' \subseteq 1 .. ids'
  BY DEF TypeOK, UiType, EventType, CountTypes, MachineTypes, ExportTypes, RecordTypes,
         Optional

\* The dialogs that stay or close.
LEMMA UiStays ==
  ASSUME TypeOK, Rows' = Rows,
         \/ UNCHANGED ui \/ ui' = None
         \/ ui # None /\ \E stage \in Stage : ui' = [ui EXCEPT !.stage = stage]
         \/ \E stage \in Stage, a \in Rows, m \in Machine :
               ui' = [stage |-> stage, alarm |-> a, machine |-> m]
  PROVE  UiType'
  <1> DEFINE U == [stage : Stage, alarm : Rows, machine : Machine]
  <1>1. ui \in U \cup {None} /\ (UiType' <=> ui' \in U \cup {None})
    <2>1. ui \in U \cup {None}
      BY DEF TypeOK
    <2>2. UiType' <=> ui' \in [stage : Stage, alarm : Rows', machine : Machine] \cup {None}
      BY DEF UiType
    <2> QED  BY <2>1, <2>2
  <1>2. \A u \in U, stage \in Stage : [u EXCEPT !.stage = stage] \in U
    OBVIOUS
  <1>3. \A stage \in Stage, a \in Rows, m \in Machine :
          [stage |-> stage, alarm |-> a, machine |-> m] \in U
    OBVIOUS
  <1> HIDE DEF U
  <1>4. None \in U \cup {None} /\ (ui # None => ui \in U)
    BY <1>1
  <1>5. ui' \in U \cup {None}
    BY <1>1, <1>2, <1>3, <1>4
  <1> QED  BY <1>1, <1>5

\* The machines after some are cleared.
LEMMA ClearType ==
  ASSUME TypeOK, NEW S, Clear(S)
  PROVE  /\ alarming' \subseteq Machine
         /\ listed' \in [Machine -> SUBSET (1 .. texts)]
         /\ \A m \in Machine : listed'[m] \subseteq listed[m]
  BY DEF Clear, TypeOK

LEMMA TypeEventBegins ==
  ASSUME TypeOK, NEW m \in Machine, EventBegins(m)
  PROVE  TypeOK'
  <1>1. RecordTypes' /\ Rows' = Rows
    <2>1. CASE alarm_id[m] = 0
      BY <2>1 DEF EventBegins, Joined, RecordTypes, TypeOK, Optional, Rows
    <2>2. CASE alarm_id[m] # 0
      <3> PICK F \in [Record -> Record] : Update(alarm_id[m], F)
        BY <2>2, JoinEdits
      <3>1. Typed /\ Rows' = Rows
        BY <2>2, JoinEdits, UpdateFacts
      <3> QED  BY <3>1 DEF EventBegins, Typed, RecordTypes, TypeOK
    <2> QED  BY <2>1, <2>2
  <1>2. texts \in Nat /\ texts' = texts + 1 /\ texts' \in 0 .. MaxTexts /\ texts' \in 1 .. texts'
    BY Bounds DEF EventBegins, TypeOK
  <1>3. EventType'
    BY <1>2 DEF EventBegins, EventType
  <1>4. MachineTypes'
    <2>1. 1 .. texts \subseteq 1 .. texts'
      BY <1>2
    <2>2. alarming' \subseteq Machine
      BY DEF EventBegins, TypeOK, Machine
    <2> QED  BY <2>1, <2>2 DEF EventBegins, MachineTypes, TypeOK
  <1>5. UiType'
    BY <1>1, UiStays DEF EventBegins
  <1>6. CountTypes' /\ ExportTypes' /\ reopened' \subseteq 1 .. ids'
    BY <1>2 DEF EventBegins, CountTypes, ExportTypes, TypeOK, exports
  <1> QED  BY <1>1, <1>3, <1>4, <1>5, <1>6, TypeParts

LEMMA TypeHandleFirst ==
  ASSUME TypeOK, NEW m \in Machine, HandleFirst(m)
  PROVE  TypeOK'
  <1> DEFINE a == ids + 1
             new == [machine |-> m, cleared |-> FALSE, texts |-> listed[m],
                     reason |-> 0, judgement |-> 0, handle |-> 0]
  <1>1. /\ ids \in Nat /\ ids' = a /\ a \in 0 .. MaxAlarms /\ a \in AlarmId /\ a \in 0 .. a
        /\ 0 .. ids \subseteq 0 .. a /\ 1 .. ids \subseteq 1 .. a
    BY Bounds DEF HandleFirst, AddAlarm, TypeOK, AlarmId
  <1>2. new \in Record
    <2>1. listed[m] \in SUBSET (1 .. texts) /\ texts \in 0 .. MaxTexts
      BY DEF TypeOK
    <2>2. listed[m] \in SUBSET (1 .. MaxTexts)
      BY <2>1, Bounds
    <2> QED  BY <2>2 DEF Record
  <1>3. /\ table' = [table EXCEPT ![a] = new] /\ cache' = [cache EXCEPT ![a] = new]
        /\ alarm_id' = [alarm_id EXCEPT ![m] = a]
        /\ ui' = [stage |-> "first", alarm |-> a, machine |-> m]
        /\ counter' = Min({counter + 1, CheckCounter + 1})
    BY DEF HandleFirst, AddAlarm
  <1> HIDE DEF new
  <1>4. RecordTypes'
    BY <1>1, <1>2, <1>3 DEF HandleFirst, RecordTypes, TypeOK, Optional
  <1>5. a \in Rows'
    BY <1>1, <1>2, <1>3, Bounds DEF Rows, TypeOK
  <1>6. UiType'
    BY <1>3, <1>5 DEF UiType, Stage
  <1>7. counter' \in 0 .. CheckCounter + 1
    <2>1. counter + 1 \in Nat /\ CheckCounter + 1 \in Nat
      BY Bounds DEF TypeOK
    <2>2. counter' = IF counter + 1 <= CheckCounter + 1 THEN counter + 1 ELSE CheckCounter + 1
      BY <1>3, <2>1, MinOfTwo
    <2> QED  BY <2>1, <2>2
  <1>8. notice' \in BOOLEAN
    BY DEF HandleFirst, AddAlarm
  <1>9. CountTypes'
    BY <1>1, <1>7, <1>8 DEF HandleFirst, CountTypes, TypeOK
  <1>10. MachineTypes'
    BY <1>1, <1>3 DEF HandleFirst, MachineTypes, TypeOK
  <1>11. ExportTypes' /\ EventType' /\ reopened' \subseteq 1 .. ids'
    BY <1>1 DEF HandleFirst, ExportTypes, EventType, TypeOK, exports
  <1> QED  BY <1>4, <1>6, <1>9, <1>10, <1>11, TypeParts

\* The dialogs that write.
LEMMA TypeWrites ==
  ASSUME TypeOK, Known, Writes
  PROVE  TypeOK'
  <1>1. /\ ui # None /\ Children /\ Typed /\ Alters(ui.alarm) /\ Rows' = Rows
    BY WritesEdits, UiAlarm, EditsFacts
  <1>2. RecordTypes'
    BY <1>1 DEF Children, Typed, RecordTypes
  <1>3. ASSUME NEW stage \in Stage, Goto(stage),
               UNCHANGED <<counter, machines, event, notice, exports, reopened, counts>>
        PROVE  TypeOK'
    <2>1. UiType'
      BY <1>1, <1>3, UiStays DEF Goto
    <2>2. /\ CountTypes' /\ MachineTypes' /\ ExportTypes' /\ EventType'
          /\ reopened' \subseteq 1 .. ids'
      BY <1>3 DEF counts, machines, exports, CountTypes, MachineTypes, ExportTypes,
                  EventType, TypeOK
    <2> QED  BY <1>2, <2>1, <2>2, TypeParts
  <1>4. ASSUME NEW c \in BOOLEAN, NEW g \in BOOLEAN, NEW v \in BOOLEAN, Confirm(c, g, v)
        PROVE  TypeOK'
    <2>1. UiType'
      BY <1>1, <1>4, UiStays DEF Confirm
    <2>2. ExportTypes' /\ EventType' /\ reopened' \subseteq 1 .. ids'
      BY <1>4 DEF Confirm, ExportTypes, EventType, TypeOK, exports
    <2>6. CountTypes'
      <3>1. edits' \in 0 .. MaxEdits
        <4>1. edits + restarts < MaxEdits /\ edits' = edits + 1
          BY <1>4 DEF Confirm
        <4>2. edits \in 0 .. MaxEdits /\ restarts \in Nat /\ MaxEdits \in Nat
          BY Bounds DEF TypeOK
        <4> QED  BY <4>1, <4>2
      <3> QED  BY <1>4, <3>1 DEF Confirm, CountTypes, TypeOK
    <2>3. alarm_id' \in [Machine -> 0 .. ids']
      <3> DEFINE x == IF c THEN 0 ELSE ui.alarm
      <3>1. ids \in Nat /\ ids' = ids /\ ui.alarm \in Nat /\ ui.alarm <= ids
        <4>1. ui.alarm \in Rows /\ ui.alarm \in 0 .. MaxAlarms
          BY <1>1, UiAlarm
        <4>2. ui.alarm <= ids
          BY <4>1 DEF Known
        <4>3. ids' = ids
          BY <1>4 DEF Confirm
        <4>4. ids \in 0 .. MaxAlarms /\ MaxAlarms \in Nat
          BY Bounds DEF TypeOK
        <4> QED  BY <4>1, <4>2, <4>3, <4>4
      <3>2. x \in 0 .. ids
        BY <3>1
      <3>3. alarm_id' = alarm_id \/ alarm_id' = [alarm_id EXCEPT ![ui.machine] = x]
        BY <1>4 DEF Confirm, machines
      <3> HIDE DEF x
      <3> QED  BY <3>1, <3>2, <3>3 DEF TypeOK
    <2>4. alarming' \subseteq Machine /\ listed' \in [Machine -> SUBSET (1 .. texts')]
      BY <1>4, ClearType DEF Confirm, machines, TypeOK
    <2>5. MachineTypes'
      BY <2>3, <2>4 DEF MachineTypes
    <2> QED  BY <1>2, <2>1, <2>2, <2>5, <2>6, TypeParts
  <1>5. TestDevice => Goto("result") /\ UNCHANGED <<counter, machines, event, notice, exports, reopened, counts>>
    BY DEF TestDevice
  <1>6. \A stage, next : Judge(stage, next) =>
           Goto(next) /\ UNCHANGED <<counter, machines, event, notice, exports, reopened, counts>>
    BY DEF Judge
  <1>7. Guard => Goto("result") /\ UNCHANGED <<counter, machines, event, notice, exports, reopened, counts>>
    BY DEF Guard
  <1>8. "result" \in Stage /\ "guard" \in Stage
    BY DEF Stage
  <1> QED  BY <1>3, <1>4, <1>5, <1>6, <1>7, <1>8 DEF Writes

\* Rows that are taken out.
LEMMA Zeroed ==
  ASSUME NEW S, 0 \in S, NEW s \in Seq(S), NEW N
  PROVE  [i \in DOMAIN s |-> IF i \in N THEN 0 ELSE s[i]] \in Seq(S)
  <1> DEFINE t == [i \in DOMAIN s |-> IF i \in N THEN 0 ELSE s[i]]
  <1>1. Len(s) \in Nat /\ DOMAIN s = 1 .. Len(s) /\ \A i \in 1 .. Len(s) : s[i] \in S
    OBVIOUS
  <1>2. t \in [1 .. Len(s) -> S]
    BY <1>1
  <1> QED  BY <1>1, <1>2

LEMMA TypeDeleteHalf ==
  ASSUME TypeOK, Known, DeleteHalf
  PROVE  TypeOK'
  <1> DEFINE half == Older(Cardinality(Rows) \div 2)
             gone == {a \in half : cache[a] # None}
             Named(k) == {cache[a][k] : a \in gone}
  <1>1. /\ export # None /\ export' = None
        /\ table' = [a \in AlarmId |-> IF a \in gone THEN None ELSE table[a]]
        /\ cache' = CacheWithout(half)
        /\ child' = [k \in Kind |-> [i \in DOMAIN child[k] |->
                        IF i \in Named(k) THEN 0 ELSE child[k][i]]]
    BY Bounds DEF DeleteHalf
  <1>2. \A k \in Kind : [i \in DOMAIN child[k] |-> IF i \in Named(k) THEN 0 ELSE child[k][i]]
                          \in Seq(0 .. MaxAlarms)
    <2> TAKE k \in Kind
    <2>1. child[k] \in Seq(0 .. MaxAlarms) /\ 0 \in 0 .. MaxAlarms
      BY Bounds DEF TypeOK
    <2> HIDE DEF Named
    <2> QED  BY <2>1, Zeroed
  <1> HIDE DEF Named, gone, half
  <1>3. RecordTypes'
    <2>1. table' \in [AlarmId -> Optional]
      BY <1>1 DEF TypeOK, Optional
    <2>2. cache' \in [AlarmId -> Optional]
      BY <1>1 DEF TypeOK, Optional, CacheWithout
    <2>3. child' \in [Kind -> Seq(0 .. MaxAlarms)]
      BY <1>1, <1>2
    <2> QED  BY <2>1, <2>2, <2>3 DEF RecordTypes
  <1>4. UiType'
    <2>1. CASE ui = None
      BY <2>1 DEF DeleteHalf, UiType
    <2>2. CASE ui # None
      <3>1. ui.alarm \in Rows /\ \A b \in Rows : b <= ui.alarm
        BY <1>1, <2>2, UiAlarm DEF Known
      <3>2. ui.alarm \notin half
        BY <3>1, NewestStays DEF half
      <3>3. ui.alarm \in Rows'
        BY <1>1, <3>1, <3>2 DEF Rows, gone
      <3> QED  BY <2>2, <3>3 DEF DeleteHalf, UiType, TypeOK
    <2> QED  BY <2>1, <2>2
  <1>5. /\ CountTypes' /\ MachineTypes' /\ ExportTypes' /\ EventType'
        /\ reopened' \subseteq 1 .. ids'
    BY <1>1 DEF DeleteHalf, counts, machines, CountTypes, MachineTypes, ExportTypes,
                EventType, TypeOK
  <1> QED  BY <1>3, <1>4, <1>5, TypeParts

LEMMA TypeHistory ==
  ASSUME TypeOK, Known, NEW a \in AlarmId, HandleFromHistory(a)
  PROVE  TypeOK'
  <1>1. table' = table /\ table[a] \in Record /\ table[a] # None /\ a \in Rows
    BY DEF HandleFromHistory, TypeOK, Rows
  <1>2. RecordTypes'
    BY <1>1 DEF HandleFromHistory, RecordTypes, TypeOK, Optional
  <1>3. Rows' = Rows
    BY <1>1 DEF Rows
  <1>4. UiType'
    <2>1. Top \in Machine /\ "result" \in Stage
      BY DEF Machine, Stage
    <2>2. \/ UNCHANGED ui
          \/ ui' = [stage |-> "result", alarm |-> a, machine |-> Top]
      BY DEF HandleFromHistory, HistoryMachine
    <2> QED  BY <1>1, <1>3, <2>1, <2>2, UiStays
  <1>5. reopened' \subseteq 1 .. ids'
    <2>1. a \in 1 .. ids
      <3>1. a <= ids /\ a \in 1 .. MaxAlarms /\ MaxAlarms \in Nat /\ ids \in 0 .. MaxAlarms
        BY <1>1, Bounds DEF Known, AlarmId, TypeOK
      <3> QED  BY <3>1
    <2>2. ids' = ids /\ (reopened' = reopened \/ reopened' = reopened \cup {a})
      BY DEF HandleFromHistory, counts
    <2> QED  BY <2>1, <2>2 DEF TypeOK
  <1>6. CountTypes' /\ MachineTypes' /\ ExportTypes' /\ EventType'
    BY DEF HandleFromHistory, counts, machines, exports, CountTypes, MachineTypes,
           ExportTypes, EventType, TypeOK
  <1> QED  BY <1>2, <1>4, <1>5, <1>6, TypeParts

LEMMA ReadFacts ==
  ASSUME TypeOK, Read
  PROVE  /\ export \in AlarmId /\ row = None
         /\ \/ export' = MaxAlarms + 1 /\ row' = None /\ \A a \in Rows : a < export
            \/ /\ export' \in Rows /\ row' = table[export'] /\ row' # None /\ export' >= export
               /\ \A a \in Rows : a < export' => a < export
  <1> DEFINE left == {a \in Rows : a >= export}
  <1>1. export \in AlarmId /\ row = None /\ AlarmId \in SUBSET Nat /\ Rows \in SUBSET Nat
    BY RowsAre DEF Read, AlarmId
  <1>2. \A a \in Rows : a \in Nat /\ export \in Nat
    BY <1>1
  <1>3. CASE left = {}
    <2>1. export' = MaxAlarms + 1 /\ row' = None
      BY <1>1, <1>3 DEF Read
    <2>2. \A a \in Rows : a < export
      BY <1>2, <1>3
    <2> QED  BY <1>1, <2>1, <2>2
  <1>4. CASE left # {}
    <2>1. export' = Min(left) /\ row' = table[export']
      BY <1>4 DEF Read
    <2>2. left \in SUBSET Nat
      BY <1>2
    <2>3. export' \in left /\ \A a \in left : export' <= a
      BY <1>4, <2>1, <2>2, MinIs
    <2>4. export' \in Rows /\ export' >= export /\ \A a \in Rows : a >= export => export' <= a
      BY <2>3
    <2>5. \A a \in Rows : a < export' => a < export
      BY <1>2, <2>4
    <2> QED  BY <1>1, <2>1, <2>4, <2>5 DEF Rows
  <1> QED  BY <1>3, <1>4

LEMMA TypeRead ==
  ASSUME TypeOK, Read
  PROVE  TypeOK'
  <1>1. /\ export' \in 1 .. MaxAlarms + 1
        /\ row' \in Record \cup {None}
    <2>1. \A a \in Rows : a \in 1 .. MaxAlarms + 1 /\ table[a] \in Record
      BY Bounds DEF Rows, AlarmId, TypeOK
    <2>2. MaxAlarms + 1 \in 1 .. MaxAlarms + 1
      BY Bounds
    <2>3. \/ export' = MaxAlarms + 1 /\ row' = None
          \/ export' \in Rows /\ row' = table[export']
      BY ReadFacts
    <2> QED  BY <2>1, <2>2, <2>3
  <1>2. ExportTypes'
    BY <1>1 DEF Read, ExportTypes, TypeOK, counts
  <1>3. RecordTypes' /\ Rows' = Rows
    BY DEF Read, records, RecordTypes, TypeOK, Optional, Rows
  <1>4. UiType'
    BY <1>3, UiStays DEF Read
  <1>5. CountTypes' /\ MachineTypes' /\ EventType' /\ reopened' \subseteq 1 .. ids'
    BY DEF Read, counts, machines, CountTypes, MachineTypes, EventType, TypeOK
  <1> QED  BY <1>2, <1>3, <1>4, <1>5, TypeParts

LEMMA TypeStore ==
  ASSUME TypeOK, Known, Store
  PROVE  TypeOK'
  <1>1. export \in Rows /\ export \in 1 .. MaxAlarms /\ export <= ids
    BY DEF Store, Known, Rows, AlarmId
  <1>2. ids \in 0 .. MaxAlarms /\ MaxAlarms \in Nat
    BY Bounds DEF TypeOK
  <1>3. export \in 1 .. ids /\ export + 1 \in 1 .. MaxAlarms + 1
    BY <1>1, <1>2
  <1>4. ExportTypes'
    BY <1>3 DEF Store, Exported, ExportTypes, TypeOK, counts
  <1>5. RecordTypes' /\ Rows' = Rows
    <2>1. row \in Record
      BY DEF Store, TypeOK
    <2> QED  BY <2>1 DEF Store, RecordTypes, TypeOK, Optional, Rows
  <1>6. UiType'
    BY <1>5, UiStays DEF Store
  <1>7. CountTypes' /\ MachineTypes' /\ EventType' /\ reopened' \subseteq 1 .. ids'
    BY DEF Store, counts, machines, CountTypes, MachineTypes, EventType, TypeOK
  <1> QED  BY <1>4, <1>5, <1>6, <1>7, TypeParts

LEMMA TypeRestart ==
  ASSUME TypeOK, Restart
  PROVE  TypeOK'
  <1>1. restarts' \in 0 .. MaxRestarts
    <2>1. restarts < MaxRestarts /\ restarts' = restarts + 1
      BY DEF Restart
    <2>2. restarts \in 0 .. MaxRestarts /\ MaxRestarts \in Nat
      BY Bounds DEF TypeOK
    <2> QED  BY <2>1, <2>2
  <1>2. 0 \in 0 .. CheckCounter + 1
    BY Bounds
  <1>3. CountTypes'
    BY <1>1, <1>2 DEF Restart, CountTypes, TypeOK
  <1>4. MachineTypes'
    <2>1. ids \in Nat
      BY Bounds DEF TypeOK
    <2>2. 0 \in 0 .. ids
      BY <2>1
    <2> QED  BY <2>2 DEF Restart, MachineTypes
  <1>5. RecordTypes'
    BY DEF Restart, RecordTypes, TypeOK, Optional
  <1>6. UiType' /\ EventType' /\ ExportTypes' /\ reopened' \subseteq 1 .. ids'
    BY DEF Restart, UiType, EventType, ExportTypes, TypeOK
  <1> QED  BY <1>3, <1>4, <1>5, <1>6, TypeParts

LEMMA Starts == /\ 1 \in 1 .. MaxAlarms + 1
                /\ 0 \in 0 .. CheckCounter + 1 /\ 0 \in 0 .. MaxAlarms /\ 0 \in 0 .. MaxTexts
                /\ 0 \in 0 .. MaxEdits /\ 0 \in 0 .. MaxRestarts /\ 0 \in 0 .. 0
  BY Bounds

\* The steps that write no record.
Quiet == \/ EventEnds \/ Cancel \/ OpenExport \/ UNCHANGED vars
         \/ \E m \in Machine : ClearMsg(m) \/ HandleAgain(m)
         \/ \E stage \in {"judge true", "judge false", "guard"} : Reason(stage)

LEMMA TypeQuiet ==
  ASSUME TypeOK, Known, Quiet
  PROVE  TypeOK'
  <1>1. ASSUME NEW m \in Machine, ClearMsg(m) PROVE TypeOK'
    <2>1. RecordTypes' /\ Rows' = Rows
      BY <1>1 DEF ClearMsg, records, RecordTypes, TypeOK, Optional, Rows
    <2>2. UiType'
      BY <1>1, <2>1, UiStays DEF ClearMsg
    <2>3. \E S : Clear(S)
      BY <1>1 DEF ClearMsg
    <2>4. MachineTypes'
      BY <1>1, <2>3, ClearType DEF ClearMsg, MachineTypes, TypeOK, counts
    <2>5. CountTypes' /\ ExportTypes' /\ EventType' /\ reopened' \subseteq 1 .. ids'
      BY <1>1 DEF ClearMsg, counts, exports, CountTypes, ExportTypes, EventType, TypeOK
    <2> QED  BY <2>1, <2>2, <2>4, <2>5, TypeParts
  <1>2. ASSUME NEW m \in Machine, HandleAgain(m) PROVE TypeOK'
    <2>1. RecordTypes' /\ Rows' = Rows
      BY <1>2 DEF HandleAgain, records, RecordTypes, TypeOK, Optional, Rows
    <2>2. alarm_id[m] \in Rows
      <3>1. AlarmInfo(alarm_id[m]) # None
        BY <1>2 DEF HandleAgain
      <3> QED  BY <3>1 DEF AlarmInfo, Rows, Known
    <2>3. UiType'
      <3>1. "result" \in Stage /\ ui' = [stage |-> "result", alarm |-> alarm_id[m], machine |-> m]
        BY <1>2 DEF HandleAgain, Stage
      <3> QED  BY <2>1, <2>2, <3>1, UiStays
    <2>4. /\ MachineTypes' /\ CountTypes' /\ ExportTypes' /\ EventType'
          /\ reopened' \subseteq 1 .. ids'
      BY <1>2 DEF HandleAgain, counts, exports, machines, MachineTypes, CountTypes,
                  ExportTypes, EventType, TypeOK
    <2> QED  BY <2>1, <2>3, <2>4, TypeParts
  <1>3. ASSUME NEW stage \in {"judge true", "judge false", "guard"}, Reason(stage) PROVE TypeOK'
    <2>1. ui # None /\ table' = table /\ cache' = cache /\ child' = Inserted("reason", ui.alarm)
      BY <1>3 DEF Reason, At
    <2>2. RecordTypes' /\ Rows' = Rows
      <3>1. child' \in [Kind -> Seq(0 .. MaxAlarms)]
        BY <2>1, UiAlarm, AppendedRow DEF Kind
      <3> QED  BY <2>1, <3>1 DEF RecordTypes, TypeOK, Optional, Rows
    <2>3. UiType'
      <3>1. stage \in Stage /\ ui' = [ui EXCEPT !.stage = stage]
        BY <1>3 DEF Reason, Goto, Stage
      <3> QED  BY <2>1, <2>2, <3>1, UiStays
    <2>4. /\ MachineTypes' /\ CountTypes' /\ ExportTypes' /\ EventType'
          /\ reopened' \subseteq 1 .. ids'
      BY <1>3 DEF Reason, counts, exports, machines, MachineTypes, CountTypes,
                  ExportTypes, EventType, TypeOK
    <2> QED  BY <2>2, <2>3, <2>4, TypeParts
  <1>4. ASSUME EventEnds PROVE TypeOK'
    <2>1. RecordTypes' /\ Rows' = Rows
      BY <1>4 DEF EventEnds, records, RecordTypes, TypeOK, Optional, Rows
    <2>2. UiType'
      BY <1>4, <2>1, UiStays DEF EventEnds
    <2>3. MachineTypes'
      <3>1. event.machine \in Machine /\ event.text \in 1 .. texts
        BY <1>4 DEF EventEnds, TypeOK
      <3> QED  BY <1>4, <3>1 DEF EventEnds, MachineTypes, TypeOK, counts
    <2>4. CountTypes' /\ ExportTypes' /\ EventType' /\ reopened' \subseteq 1 .. ids'
      BY <1>4 DEF EventEnds, counts, exports, CountTypes, ExportTypes, EventType, TypeOK
    <2> QED  BY <2>1, <2>2, <2>3, <2>4, TypeParts
  <1>5. ASSUME Cancel \/ UNCHANGED vars PROVE TypeOK'
    <2>1. /\ UNCHANGED <<records, counter, machines, event, notice, exports, reopened, counts>>
          /\ UNCHANGED ui \/ ui' = None
      BY <1>5 DEF Cancel, vars
    <2>2. RecordTypes' /\ Rows' = Rows
      BY <2>1 DEF records, RecordTypes, TypeOK, Optional, Rows
    <2>3. UiType'
      BY <2>1, <2>2, UiStays
    <2>4. /\ MachineTypes' /\ CountTypes' /\ ExportTypes' /\ EventType'
          /\ reopened' \subseteq 1 .. ids'
      BY <2>1 DEF counts, exports, machines, MachineTypes, CountTypes, ExportTypes,
                  EventType, TypeOK
    <2> QED  BY <2>2, <2>3, <2>4, TypeParts
  <1>6. ASSUME OpenExport PROVE TypeOK'
    <2>1. RecordTypes' /\ Rows' = Rows
      BY <1>6 DEF OpenExport, records, RecordTypes, TypeOK, Optional, Rows
    <2>2. UiType'
      BY <1>6, <2>1, UiStays DEF OpenExport
    <2>3. export' \in 1 .. MaxAlarms + 1
      <3>1. export' = 1
        BY <1>6 DEF OpenExport
      <3> QED  BY <3>1, Starts
    <2>4. ExportTypes'
      BY <1>6, <2>3 DEF OpenExport, ExportTypes, TypeOK, counts
    <2>5. CountTypes' /\ MachineTypes' /\ EventType' /\ reopened' \subseteq 1 .. ids'
      BY <1>6 DEF OpenExport, counts, machines, CountTypes, MachineTypes, EventType, TypeOK
    <2> QED  BY <2>1, <2>2, <2>4, <2>5, TypeParts
  <1> QED  BY <1>1, <1>2, <1>3, <1>4, <1>5, <1>6 DEF Quiet

\* The steps, with the dialogs that write in one.
LEMMA NextIs ==
  ASSUME [Next]_vars
  PROVE  \/ Quiet \/ Writes \/ Read \/ Store \/ DeleteHalf \/ Restart
         \/ \E m \in Machine : EventBegins(m) \/ HandleFirst(m)
         \/ \E a \in AlarmId : HandleFromHistory(a)
  BY DEF Next, Dialogs, Writes, Quiet

LEMMA TypeStep == TypeOK /\ Known /\ [Next]_vars => TypeOK'
  BY NextIs, TypeQuiet, TypeEventBegins, TypeHandleFirst, TypeHistory, TypeWrites,
     TypeRead, TypeStore, TypeDeleteHalf, TypeRestart

\* Known is kept: the rows that go do not count, those that come are the newest.
LEMMA KnownStep ==
  ASSUME TypeOK, TypeOK', Known, [Next]_vars
  PROVE  Known'
  <1>0. /\ \A a \in Rows : a \in AlarmId /\ a \in Nat /\ a <= ids
        /\ ids \in Nat /\ None \notin AlarmId /\ (ui # None => ui.alarm \in Rows)
    <2>1. \A a \in AlarmId : a \in Nat
      BY Bounds DEF AlarmId
    <2>2. ids \in Nat /\ None \notin AlarmId
      BY Bounds DEF TypeOK, AlarmId
    <2> QED  BY <2>1, <2>2, UiAlarm DEF Known, Rows
  <1>1. CASE \/ EventEnds \/ Cancel \/ UNCHANGED vars
             \/ \E m \in Machine : ClearMsg(m)
             \/ \E stage \in {"judge true", "judge false", "guard"} : Reason(stage)
    <2>1. /\ UNCHANGED <<table, cache, ids, notice, export, row>>
          /\ ui' # None => ui # None /\ ui'.alarm = ui.alarm
      <3>1. (EventEnds \/ \E m \in Machine : ClearMsg(m)) =>
              UNCHANGED <<table, cache, ids, notice, export, row, ui>>
        BY DEF EventEnds, ClearMsg, records, exports, counts
      <3>2. UNCHANGED vars => UNCHANGED <<table, cache, ids, notice, export, row, ui>>
        BY DEF vars, records, exports, counts
      <3>3. Cancel => UNCHANGED <<table, cache, ids, notice, export, row>> /\ ui' = None
        BY DEF Cancel, records, exports, counts
      <3>4. \A stage : Reason(stage) =>
              /\ UNCHANGED <<table, cache, ids, notice, export, row>>
              /\ ui # None /\ ui' = [ui EXCEPT !.stage = stage]
        BY DEF Reason, At, Goto, exports, counts
      <3>5. ui # None => \A stage : [ui EXCEPT !.stage = stage].alarm = ui.alarm
        BY DEF TypeOK
      <3> QED  BY <1>1, <3>1, <3>2, <3>3, <3>4, <3>5
    <2> QED  BY <2>1 DEF Known, Rows
  <1>2. CASE OpenExport
    <2>1. row = None
      BY <1>0, <1>2 DEF OpenExport, Known
    <2>2. UNCHANGED <<table, cache, ids, row, ui>> /\ notice /\ notice' = FALSE
      BY <1>2 DEF OpenExport, records, counts
    <2> QED  BY <2>1, <2>2 DEF Known, Rows
  <1>3. ASSUME NEW m \in Machine, HandleAgain(m) PROVE Known'
    BY <1>3, <1>0 DEF HandleAgain, MainInput, Input, records, exports, counts, Known, Rows
  <1>4. ASSUME NEW m \in Machine, EventBegins(m) PROVE Known'
    <2>1. Rows' = Rows /\ \A a \in AlarmId : cache'[a] # None => a \in Rows
      <3>1. CASE alarm_id[m] = 0
        BY <1>4, <3>1 DEF EventBegins, Joined, Rows, Known
      <3>2. CASE alarm_id[m] # 0
        <4>1. Rows' = Rows /\ Alters(alarm_id[m])
          BY <1>4, <3>2, JoinEdits, UpdateFacts
        <4> QED  BY <4>1, Altered
      <3> QED  BY <3>1, <3>2
    <2> QED  BY <1>4, <2>1 DEF EventBegins, exports, Known
  <1>5. CASE Writes
    <2>1. ui # None /\ Alters(ui.alarm) /\ Rows' = Rows
      BY <1>5, WritesEdits, UiAlarm, EditsFacts
    <2>2. \A a \in AlarmId : cache'[a] # None => a \in Rows
      BY <2>1, Altered
    <2>3. UNCHANGED <<notice, exports, ids>> /\ (ui' # None => ui'.alarm = ui.alarm)
      BY <1>5, <2>1, WritesFrame
    <2> QED  BY <2>1, <2>2, <2>3 DEF exports, Known
  <1>6. ASSUME NEW m \in Machine, HandleFirst(m) PROVE Known'
    <2> DEFINE a == ids + 1
               new == [machine |-> m, cleared |-> FALSE, texts |-> listed[m],
                       reason |-> 0, judgement |-> 0, handle |-> 0]
    <2>1. /\ table' = [table EXCEPT ![a] = new] /\ cache' = [cache EXCEPT ![a] = new]
          /\ ids' = a /\ ui' = [stage |-> "first", alarm |-> a, machine |-> m]
          /\ export = None /\ export' = None /\ row' = row
      BY <1>6 DEF HandleFirst, AddAlarm, MainInput, exports
    <2>2. new # None
      <3>1. new \in [machine : {m}, cleared : {FALSE}, texts : {listed[m]},
                     reason : {0}, judgement : {0}, handle : {0}]
        OBVIOUS
      <3>2. listed[m] \in SUBSET (1 .. MaxTexts)
        <4>1. listed[m] \in SUBSET (1 .. texts) /\ texts \in 0 .. MaxTexts
          BY DEF TypeOK
        <4> QED  BY <4>1, Bounds
      <3>3. new \in Record
        BY <3>2 DEF Record
      <3> QED  BY <3>3, Bounds
    <2> HIDE DEF new
    <2>3. \A b \in AlarmId : /\ b \in Rows' => b \in Rows \/ b = a
                             /\ cache'[b] # None => b \in Rows'
      BY <2>1, <2>2 DEF Rows, Known, TypeOK
    <2>4. \A b \in Rows' : b <= ids'
      BY <1>0, <2>1, <2>3 DEF Rows
    <2>5. row' = None
      BY <1>0, <2>1 DEF Known
    <2> QED  BY <2>1, <2>3, <2>4, <2>5 DEF Known
  <1>7. ASSUME NEW a \in AlarmId, HandleFromHistory(a) PROVE Known'
    <2>1. /\ UNCHANGED <<table, ids, notice, export, row>> /\ ~notice /\ export = None
          /\ table[a] # None /\ cache' = [cache EXCEPT ![a] = table[a]]
      BY <1>7 DEF HandleFromHistory, MainInput, Input, exports, counts
    <2>2. \A b \in AlarmId : cache'[b] # None => b \in Rows
      BY <2>1 DEF Known, TypeOK, Rows
    <2> QED  BY <2>1, <2>2 DEF Known, Rows
  <1>8. CASE Read
    <2>1. UNCHANGED <<table, cache, ids, notice, ui>> /\ export # None
      BY <1>0, <1>8 DEF Read, records, counts
    <2>2. row' # None => export' \in Rows
      BY <1>8, ReadFacts
    <2> QED  BY <2>1, <2>2 DEF Known, Rows
  <1>9. CASE Store
    <2>1. /\ UNCHANGED <<table, ids, notice, ui>> /\ row # None /\ row' = None
          /\ cache' = [cache EXCEPT ![export] = row]
      BY <1>9 DEF Store, counts
    <2>2. export \in Rows /\ export # None
      BY <1>0, <2>1 DEF Known
    <2>3. \A b \in AlarmId : cache'[b] # None => b \in Rows
      BY <2>1, <2>2 DEF Known, TypeOK
    <2> QED  BY <2>1, <2>2, <2>3 DEF Known, Rows
  <1>10. CASE DeleteHalf
    <2> DEFINE half == Older(Cardinality(Rows) \div 2)
               gone == {a \in half : cache[a] # None}
    <2>1. /\ table' = [a \in AlarmId |-> IF a \in gone THEN None ELSE table[a]]
          /\ cache' = [a \in AlarmId |-> IF a \in half THEN None ELSE cache[a]]
          /\ export = MaxAlarms + 1 /\ export' = None /\ UNCHANGED <<ids, notice, row, ui>>
      BY <1>10 DEF DeleteHalf, CacheWithout, counts
    <2> HIDE DEF half
    <2>2. /\ \A b \in AlarmId : b \in Rows' => b \in Rows
          /\ \A b \in AlarmId : cache'[b] # None => b \in Rows'
      BY <2>1 DEF Rows, Known
    <2>3. row = None
      <3>1. MaxAlarms + 1 \notin AlarmId
        BY Bounds DEF AlarmId
      <3> QED  BY <1>0, <2>1, <3>1 DEF Known
    <2>4. ~notice
      <3>1. MaxAlarms + 1 # None
        BY Bounds
      <3> QED  BY <2>1, <3>1 DEF Known
    <2>5. \A b \in Rows' : b <= ids'
      BY <1>0, <2>1, <2>2 DEF Rows
    <2> QED  BY <2>1, <2>2, <2>3, <2>4, <2>5 DEF Known
  <1>11. CASE Restart
    BY <1>11, <1>0 DEF Restart, Known, Rows
  <1> QED  BY <1>1, <1>2, <1>3, <1>4, <1>5, <1>6, <1>7, <1>8, <1>9, <1>10, <1>11, NextIs DEF Quiet

LEMMA InitKnown == Init => TypeOK /\ Known
  <1> SUFFICES ASSUME Init PROVE TypeOK /\ Known
    OBVIOUS
  <1>1. CountTypes
    BY Starts DEF Init, CountTypes
  <1>2. RecordTypes
    BY DEF Init, RecordTypes, Optional
  <1>3. TypeOK
    <2>1. MachineTypes /\ ExportTypes /\ UiType /\ EventType /\ reopened \subseteq 1 .. ids
      BY Starts DEF Init, MachineTypes, ExportTypes, UiType, EventType
    <2> QED  BY <1>1, <1>2, <2>1, TypeParts
  <1>4. Known
    BY DEF Init, Known, Rows
  <1> QED  BY <1>3, <1>4

LEMMA Reached == Spec => [](TypeOK /\ Known)
  <1>1. TypeOK /\ Known /\ [Next]_vars => (TypeOK /\ Known)'
    BY TypeStep, KnownStep
  <1> QED  BY <1>1, InitKnown, PTL DEF Spec

\* Every variable keeps its type: the record of an open dialog, in particular, is
\* one of the table, whatever the export deletes meanwhile.
THEOREM Typing == Spec => []TypeOK
  BY Reached, PTL

-----------------------------------------------------------------------------
(* What goes and what stays.                                               *)

\* The dialog that is open was, or is opened on a hanging alarm.
DialogAsBefore ==
    ui' # None => \/ ui # None /\ ui'.alarm = ui.alarm /\ ui'.machine = ui.machine
                  \/ /\ ~notice /\ export = None /\ event' = event
                     /\ \E m \in Machine : /\ alarm_id[m] \in Rows /\ ui'.alarm = alarm_id[m]
                                           /\ ui'.machine = m

LEMMA QuietFacts ==
  ASSUME TypeOK, Known, Quiet
  PROVE  /\ UNCHANGED <<table, cache, alarm_id, row, file, ids, texts, restarts, counter,
                        reopened>>
         /\ DialogAsBefore
         /\ \/ UNCHANGED <<export, notice>>
            \/ notice /\ ~notice' /\ export' = 1 /\ ui' = ui
         /\ \/ event' = event /\ \A m \in Machine : listed'[m] \subseteq listed[m]
            \/ EventEnds
         /\ \/ child' = child
            \/ ui # None /\ child' = Inserted("reason", ui.alarm)
  <1> DEFINE F == /\ UNCHANGED <<table, cache, alarm_id, row, file, ids, texts, restarts,
                                 counter, reopened>>
             U == \/ UNCHANGED <<export, notice>>
                  \/ notice /\ ~notice' /\ export' = 1 /\ ui' = ui
             L == \/ event' = event /\ \A m \in Machine : listed'[m] \subseteq listed[m]
                  \/ EventEnds
             C == \/ child' = child
                  \/ ui # None /\ child' = Inserted("reason", ui.alarm)
  <1>1. EventEnds => F /\ DialogAsBefore /\ U /\ L /\ C
    BY DEF EventEnds, records, exports, counts, DialogAsBefore
  <1>2. Cancel => F /\ DialogAsBefore /\ U /\ L /\ C
    BY DEF Cancel, records, machines, exports, counts, DialogAsBefore
  <1>3. OpenExport => F /\ DialogAsBefore /\ U /\ L /\ C
    BY DEF OpenExport, records, machines, exports, counts, DialogAsBefore
  <1>4. UNCHANGED vars => F /\ DialogAsBefore /\ U /\ L /\ C
    BY DEF vars, records, machines, exports, counts, DialogAsBefore
  <1>5. ASSUME NEW m \in Machine, ClearMsg(m) PROVE F /\ DialogAsBefore /\ U /\ L /\ C
    <2>1. \E S : Clear(S)
      BY <1>5 DEF ClearMsg
    <2>2. \A n \in Machine : listed'[n] \subseteq listed[n]
      BY <2>1, ClearType
    <2> QED  BY <1>5, <2>2 DEF ClearMsg, records, exports, counts, DialogAsBefore
  <1>6. ASSUME NEW m \in Machine, HandleAgain(m) PROVE F /\ DialogAsBefore /\ U /\ L /\ C
    <2>1. alarm_id[m] \in Rows
      <3>1. AlarmInfo(alarm_id[m]) # None
        BY <1>6 DEF HandleAgain
      <3> QED  BY <3>1 DEF AlarmInfo, Rows, Known
    <2>2. ui' = [stage |-> "result", alarm |-> alarm_id[m], machine |-> m]
          /\ ~notice /\ export = None /\ event' = event
      BY <1>6 DEF HandleAgain, MainInput, Input
    <2>3. DialogAsBefore
      BY <2>1, <2>2 DEF DialogAsBefore
    <2> QED  BY <1>6, <2>3 DEF HandleAgain, records, machines, exports, counts
  <1>7. ASSUME NEW stage, Reason(stage) PROVE F /\ DialogAsBefore /\ U /\ L /\ C
    <2>1. ui # None /\ ui' = [ui EXCEPT !.stage = stage]
      BY <1>7 DEF Reason, At, Goto
    <2>2. [ui EXCEPT !.stage = stage].alarm = ui.alarm
          /\ [ui EXCEPT !.stage = stage].machine = ui.machine
      BY <2>1 DEF TypeOK
    <2>3. DialogAsBefore
      BY <2>1, <2>2 DEF DialogAsBefore
    <2> QED  BY <1>7, <2>1, <2>3 DEF Reason, machines, exports, counts
  <1> QED  BY <1>1, <1>2, <1>3, <1>4, <1>5, <1>6, <1>7 DEF Quiet

\* The first dialog adds the newest record.
LEMMA FirstFacts ==
  ASSUME TypeOK, Known, NEW m \in Machine, HandleFirst(m)
  PROVE  LET a   == ids + 1
             new == [machine |-> m, cleared |-> FALSE, texts |-> listed[m],
                     reason |-> 0, judgement |-> 0, handle |-> 0]
         IN  /\ a \in AlarmId /\ a \notin Rows /\ \A b \in Rows : b < a
             /\ new \in Record /\ new # None
             /\ table' = [table EXCEPT ![a] = new] /\ cache' = [cache EXCEPT ![a] = new]
             /\ table'[a] = new /\ cache'[a] = new
             /\ \A b \in AlarmId \ {a} : table'[b] = table[b] /\ cache'[b] = cache[b]
             /\ Rows' = Rows \cup {a}
             /\ alarm_id' = [alarm_id EXCEPT ![m] = a]
             /\ ui' = [stage |-> "first", alarm |-> a, machine |-> m]
             /\ export = None /\ row = None /\ ~notice /\ (Overlap \/ event = None)
             /\ UNCHANGED <<child, alarming, listed, event, exports, reopened, texts, edits,
                            restarts>>
  <1> DEFINE a == ids + 1
             new == [machine |-> m, cleared |-> FALSE, texts |-> listed[m],
                     reason |-> 0, judgement |-> 0, handle |-> 0]
  <1>1. a \in AlarmId /\ a \notin Rows /\ \A b \in Rows : b < a
    <2>1. ids \in Nat /\ ids < MaxAlarms /\ MaxAlarms \in Nat
      BY Bounds DEF HandleFirst, AddAlarm, TypeOK
    <2>2. a \in AlarmId
      BY <2>1 DEF AlarmId
    <2>3. \A b \in Rows : b \in Nat /\ b <= ids
      BY Bounds DEF Rows, AlarmId, Known
    <2>4. \A b \in Rows : b < a
      BY <2>1, <2>3
    <2> QED  BY <2>1, <2>2, <2>3, <2>4
  <1>2. new \in Record /\ new # None
    <2>1. listed[m] \in SUBSET (1 .. texts) /\ texts \in 0 .. MaxTexts
      BY DEF TypeOK
    <2>2. listed[m] \in SUBSET (1 .. MaxTexts)
      BY <2>1, Bounds
    <2>3. new \in Record
      BY <2>2 DEF Record
    <2> QED  BY <2>3, Bounds
  <1>3. /\ table' = [table EXCEPT ![a] = new] /\ cache' = [cache EXCEPT ![a] = new]
        /\ alarm_id' = [alarm_id EXCEPT ![m] = a]
        /\ ui' = [stage |-> "first", alarm |-> a, machine |-> m]
        /\ export = None /\ ~notice /\ (Overlap \/ event = None)
        /\ UNCHANGED <<child, alarming, listed, event, exports, reopened, texts, edits, restarts>>
    BY DEF HandleFirst, AddAlarm, MainInput, Input, Undivided
  <1>4. row = None
    <2>1. None \notin AlarmId
      BY Bounds DEF AlarmId
    <2> QED  BY <1>3, <2>1 DEF Known, Rows
  <1> HIDE DEF new, a
  <1>5. /\ table'[a] = new /\ cache'[a] = new
        /\ \A b \in AlarmId \ {a} : table'[b] = table[b] /\ cache'[b] = cache[b]
    BY <1>1, <1>3 DEF TypeOK
  <1>6. Rows' = Rows \cup {a}
    BY <1>1, <1>2, <1>5 DEF Rows
  <1> QED  BY <1>1, <1>2, <1>3, <1>4, <1>5, <1>6 DEF new, a

\* The export has put what is behind it into the file and into the cache.
Exporting == export # None => \A a \in Rows : a < export => a \in file /\ cache[a] # None

LEMMA HalfFacts ==
  ASSUME TypeOK, Known, DeleteHalf
  PROVE  LET half == Older(Cardinality(Rows) \div 2)
             gone == {a \in half : cache[a] # None}
             Named(k) == {cache[a][k] : a \in gone}
         IN  /\ \A a \in AlarmId : /\ table'[a] = IF a \in gone THEN None ELSE table[a]
                                   /\ cache'[a] = IF a \in half THEN None ELSE cache[a]
             /\ Rows' = Rows \ gone /\ half \in SUBSET Rows
             /\ \A k \in Kind : child'[k] = [i \in DOMAIN child[k] |->
                                    IF i \in Named(k) THEN 0 ELSE child[k][i]]
             /\ (Overlap \/ event = None) /\ export = MaxAlarms + 1 /\ export' = None
             /\ export # None /\ row = None /\ row' = None /\ ~notice /\ ~notice'
             /\ UNCHANGED <<counter, machines, event, ui, file, reopened, counts>>
  <1> DEFINE half == Older(Cardinality(Rows) \div 2)
             gone == {a \in half : cache[a] # None}
             Named(k) == {cache[a][k] : a \in gone}
  <1>1. /\ table' = [a \in AlarmId |-> IF a \in gone THEN None ELSE table[a]]
        /\ cache' = [a \in AlarmId |-> IF a \in half THEN None ELSE cache[a]]
        /\ child' = [k \in Kind |-> [i \in DOMAIN child[k] |->
                        IF i \in Named(k) THEN 0 ELSE child[k][i]]]
        /\ export = MaxAlarms + 1 /\ export' = None /\ Undivided
        /\ UNCHANGED <<counter, machines, event, ui, notice, row, file, reopened, counts>>
    BY DEF DeleteHalf, CacheWithout
  <1>2. half \in SUBSET Rows
    BY DEF Older
  <1> HIDE DEF half
  <1>3. \A k \in Kind : child'[k] = [i \in DOMAIN child[k] |->
                            IF i \in Named(k) THEN 0 ELSE child[k][i]]
    BY <1>1
  <1>4. Rows' = Rows \ gone
    BY <1>1 DEF Rows
  <1>5. export # None /\ row = None /\ ~notice
    <2>1. MaxAlarms + 1 # None /\ MaxAlarms + 1 \notin AlarmId
      BY Bounds DEF AlarmId
    <2> QED  BY <1>1, <2>1 DEF Known, Rows, TypeOK
  <1>6. Overlap \/ event = None
    BY <1>1 DEF Undivided
  <1> QED  BY <1>1, <1>2, <1>3, <1>4, <1>5, <1>6 DEF half

LEMMA ExportingStep ==
  ASSUME TypeOK, Known, Exporting, [Next]_vars
  PROVE  Exporting'
  <1>0. /\ \A a \in AlarmId : a \in Nat /\ a >= 1
        /\ None \notin AlarmId
    BY Bounds DEF AlarmId
  <1>1. ASSUME Rows' = Rows, export' = export, file' = file,
               \A a \in AlarmId : cache[a] # None => cache'[a] # None
        PROVE  Exporting'
    BY <1>1 DEF Exporting, Rows
  <1>2. CASE Quiet
    <2>1. Rows' = Rows /\ file' = file /\ cache' = cache
      BY <1>2, QuietFacts DEF Rows
    <2>2. CASE export' = export
      BY <1>1, <2>1, <2>2
    <2>3. CASE export' = 1
      <3>1. \A a \in Rows : ~(a < 1)
        BY <1>0 DEF Rows
      <3> QED  BY <2>1, <2>3, <3>1 DEF Exporting
    <2> QED  BY <1>2, <2>2, <2>3, QuietFacts
  <1>3. ASSUME NEW m \in Machine, EventBegins(m) PROVE Exporting'
    <2>1. Rows' = Rows /\ \A a \in AlarmId : cache[a] # None => cache'[a] # None
      <3>1. CASE alarm_id[m] = 0
        BY <1>3, <3>1 DEF EventBegins, Joined, Rows
      <3>2. CASE alarm_id[m] # 0
        <4>1. Rows' = Rows /\ Alters(alarm_id[m])
          BY <1>3, <3>2, JoinEdits, UpdateFacts
        <4> QED  BY <4>1 DEF Alters
      <3> QED  BY <3>1, <3>2
    <2> QED  BY <1>1, <1>3, <2>1 DEF EventBegins, exports
  <1>4. CASE Writes
    <2>1. ui # None /\ Alters(ui.alarm) /\ Rows' = Rows
      BY <1>4, WritesEdits, UiAlarm, EditsFacts
    <2>2. \A a \in AlarmId : cache[a] # None => cache'[a] # None
      BY <2>1 DEF Alters
    <2> QED  BY <1>1, <1>4, <2>1, <2>2, WritesFrame DEF exports
  <1>5. ASSUME NEW m \in Machine, HandleFirst(m) PROVE Exporting'
    BY <1>5 DEF HandleFirst, MainInput, exports, Exporting
  <1>6. ASSUME NEW a \in AlarmId, HandleFromHistory(a) PROVE Exporting'
    BY <1>6 DEF HandleFromHistory, MainInput, exports, Exporting
  <1>7. CASE Read
    <2>1. /\ UNCHANGED <<table, cache, file>> /\ Rows' = Rows /\ export # None
      BY <1>0, <1>7 DEF Read, records, Rows
    <2>2. \A a \in Rows : a < export' => a < export
      BY <1>7, ReadFacts
    <2> QED  BY <2>1, <2>2 DEF Exporting
  <1>8. CASE Store
    <2>1. export \in Rows /\ export \in AlarmId
      BY <1>8 DEF Store, Known, Rows
    <2>2. export \in Nat /\ export # None
      BY <1>0, <2>1
    <2>3. /\ Rows' = Rows /\ file' = file \cup {export} /\ export' = export + 1
          /\ cache' = [cache EXCEPT ![export] = row] /\ row # None
      BY <1>8 DEF Store, Exported, Rows
    <2>4. \A a \in Rows : a \in Nat /\ (a < export + 1 => a < export \/ a = export)
      BY <1>0, <2>2 DEF Rows
    <2>5. \A a \in AlarmId : cache'[a] = IF a = export THEN row ELSE cache[a]
      BY <2>1, <2>3 DEF TypeOK
    <2> QED  BY <2>2, <2>3, <2>4, <2>5 DEF Exporting, Rows
  <1>9. CASE DeleteHalf \/ Restart
    BY <1>9 DEF DeleteHalf, Restart, Exporting
  <1> QED  BY <1>2, <1>3, <1>4, <1>5, <1>6, <1>7, <1>8, <1>9, NextIs

\* The rows that go are exported, and all that are older go too.
LEMMA OldestStep ==
  ASSUME TypeOK, Known, Exporting, [Next]_vars
  PROVE  \A a \in Rows : table'[a] = None =>
             a \in file /\ \A b \in Rows : b < a => table'[b] = None
  <1>1. ASSUME Rows \in SUBSET Rows' PROVE \A a \in Rows : table'[a] # None
    BY <1>1 DEF Rows
  <1>2. CASE Quiet
    BY <1>1, <1>2, QuietFacts DEF Rows
  <1>3. ASSUME NEW m \in Machine, EventBegins(m) PROVE Rows' = Rows
    <2>1. CASE alarm_id[m] = 0
      BY <1>3, <2>1 DEF EventBegins, Joined, Rows
    <2>2. CASE alarm_id[m] # 0
      BY <1>3, <2>2, JoinEdits, UpdateFacts
    <2> QED  BY <2>1, <2>2
  <1>4. Writes => Rows' = Rows
    BY WritesEdits, UiAlarm, EditsFacts
  <1>5. \A m \in Machine : HandleFirst(m) => Rows \in SUBSET Rows'
    BY FirstFacts
  <1>6. \A a \in AlarmId : HandleFromHistory(a) => Rows' = Rows
    BY DEF HandleFromHistory, Rows
  <1>7. Read \/ Store \/ Restart => Rows' = Rows
    BY DEF Read, Store, Restart, records, Rows
  <1>8. ASSUME DeleteHalf, NEW a \in Rows, table'[a] = None
        PROVE  a \in file /\ \A b \in Rows : b < a => table'[b] = None
    <2> DEFINE n == Cardinality(Rows) \div 2
    <2>1. /\ export # None /\ export = MaxAlarms + 1
          /\ \A b \in AlarmId : table'[b] = IF b \in {c \in Older(n) : cache[c] # None}
                                            THEN None ELSE table[b]
      BY <1>8, HalfFacts
    <2> HIDE DEF n
    <2>2. \A b \in Rows : b \in Nat /\ b < MaxAlarms + 1
      BY Bounds DEF Rows, AlarmId
    <2>3. \A b \in Rows : b \in file /\ cache[b] # None
      BY <2>1, <2>2 DEF Exporting
    <2>4. \A b \in Rows : table'[b] = None <=> b \in Older(n)
      BY <2>1, <2>3 DEF Rows
    <2>5. ASSUME NEW b \in Rows, b < a PROVE b \in Older(n)
      <3>1. /\ {c \in Rows : c < b} \in SUBSET {c \in Rows : c < a}
            /\ {c \in Rows : c < a} \in SUBSET AlarmId
            /\ {c \in Rows : c < b} \in SUBSET AlarmId
        BY <2>2, <2>5, RowsAre
      <3>2. Cardinality({c \in Rows : c < b}) <= Cardinality({c \in Rows : c < a})
        BY <3>1, RowsFinite, FS_Subset
      <3>3. /\ Cardinality({c \in Rows : c < b}) \in Nat
            /\ Cardinality({c \in Rows : c < a}) \in Nat
        BY <3>1, RowsFinite
      <3>4. Cardinality({c \in Rows : c < a}) < n /\ n \in Int
        <4>1. Cardinality(Rows) \in Nat
          BY RowsAre, RowsFinite
        <4>2. n \in Int
          BY <4>1 DEF n
        <4> QED  BY <1>8, <2>4, <4>2 DEF Older
      <3> QED  BY <3>2, <3>3, <3>4 DEF Older
    <2> QED  BY <1>8, <2>3, <2>4, <2>5
  <1> QED  BY <1>1, <1>2, <1>3, <1>4, <1>5, <1>6, <1>7, <1>8, NextIs

\* Only exported records are deleted, and no older one is left, even when events
\* and dialogs come between the reading of the rows and the deletion
\* (delete_half_record).
THEOREM OldestDeleted == Spec => OldestGo
  <1>1. TypeOK /\ Known /\ Exporting /\ [Next]_vars =>
          [\A a \in Rows : table'[a] = None =>
             /\ a \in file
             /\ \A b \in Rows : b < a => table'[b] = None]_vars
    BY OldestStep
  <1>2. Init => Exporting
    BY DEF Init, Exporting
  <1>3. TypeOK /\ Known /\ Exporting /\ [Next]_vars => Exporting'
    BY ExportingStep
  <1> QED  BY <1>1, <1>2, <1>3, Reached, PTL DEF Spec, OldestGo

\* A cleared record that nobody has is altered by no step.
LEMMA ClosedStep ==
  ASSUME TypeOK, Known, [Next]_vars, NEW a \in AlarmId, Closed(a)
  PROVE  table'[a] = None \/ (table'[a] = table[a] /\ Closed(a)')
  <1>0. /\ a \in Rows /\ table[a].cleared /\ a # 0 /\ \A m \in Machine : alarm_id[m] # a
        /\ ui # None => ui.alarm # a
        /\ table[a] # None
    BY Bounds DEF Closed, AlarmId, Rows
  <1>1. ASSUME table'[a] = table[a], ui' # None => ui'.alarm # a,
               \A m \in Machine : alarm_id'[m] # a
        PROVE  table'[a] = table[a] /\ Closed(a)'
    BY <1>0, <1>1 DEF Closed, Rows
  <1>2. CASE Quiet
    <2>1. UNCHANGED <<table, alarm_id>>
      BY <1>2, QuietFacts
    <2>2. ui' # None => ui'.alarm # a
      BY <1>0, <1>2, QuietFacts DEF DialogAsBefore
    <2> QED  BY <1>0, <1>1, <2>1, <2>2
  <1>3. ASSUME NEW m \in Machine, EventBegins(m)
        PROVE  table'[a] = None \/ (table'[a] = table[a] /\ Closed(a)')
    <2>1. table'[a] = table[a]
      <3>1. CASE alarm_id[m] = 0
        BY <1>3, <3>1 DEF EventBegins, Joined
      <3>2. CASE alarm_id[m] # 0
        <4>1. Alters(alarm_id[m])
          BY <1>3, <3>2, JoinEdits, UpdateFacts
        <4> QED  BY <1>0, <4>1 DEF Alters
      <3> QED  BY <3>1, <3>2
    <2>2. UNCHANGED <<alarm_id, ui>>
      BY <1>3 DEF EventBegins
    <2> QED  BY <1>0, <1>1, <2>1, <2>2
  <1>4. ASSUME Writes PROVE table'[a] = None \/ (table'[a] = table[a] /\ Closed(a)')
    <2>1. ui # None /\ Alters(ui.alarm) /\ ui.machine \in Machine
      BY <1>4, WritesEdits, UiAlarm, EditsFacts
    <2>2. table'[a] = table[a]
      BY <1>0, <2>1 DEF Alters
    <2>3. ui' # None => ui'.alarm # a
      BY <1>0, <1>4, WritesFrame
    <2>4. \A m \in Machine : alarm_id'[m] # a
      <3>1. CASE UNCHANGED machines
        BY <1>0, <3>1 DEF machines
      <3>2. CASE \E x \in {0, ui.alarm} : alarm_id' = [alarm_id EXCEPT ![ui.machine] = x]
        <4> PICK x \in {0, ui.alarm} : alarm_id' = [alarm_id EXCEPT ![ui.machine] = x]
          BY <3>2
        <4>1. x # a
          BY <1>0, <2>1
        <4> QED  BY <1>0, <4>1 DEF TypeOK
      <3> QED  BY <1>4, <3>1, <3>2, WritesFrame
    <2> QED  BY <1>1, <2>2, <2>3, <2>4
  <1>5. ASSUME NEW m \in Machine, HandleFirst(m)
        PROVE  table'[a] = None \/ (table'[a] = table[a] /\ Closed(a)')
    <2> DEFINE b == ids + 1
    <2>1. /\ b \notin Rows /\ alarm_id' = [alarm_id EXCEPT ![m] = b]
          /\ ui' = [stage |-> "first", alarm |-> b, machine |-> m]
          /\ \A c \in AlarmId \ {b} : table'[c] = table[c]
      BY <1>5, FirstFacts
    <2> HIDE DEF b
    <2>2. a # b
      BY <1>0, <2>1
    <2>3. \A n \in Machine : alarm_id'[n] # a
      BY <1>0, <2>1, <2>2 DEF TypeOK
    <2> QED  BY <1>1, <2>1, <2>2, <2>3
  <1>6. ASSUME NEW b \in AlarmId, HandleFromHistory(b)
        PROVE  table'[a] = None \/ (table'[a] = table[a] /\ Closed(a)')
    <2>1. /\ table' = table /\ alarm_id' = alarm_id
          /\ \/ ui' = ui
             \/ /\ ui' = [stage |-> "result", alarm |-> b, machine |-> Top]
                /\ ~table[b].cleared
      BY <1>6 DEF HandleFromHistory, HistoryMachine, Editable, machines
    <2>2. ui' # None => ui'.alarm # a
      BY <1>0, <2>1
    <2> QED  BY <1>0, <1>1, <2>1, <2>2
  <1>7. ASSUME Read \/ Store PROVE table'[a] = None \/ (table'[a] = table[a] /\ Closed(a)')
    <2>1. UNCHANGED <<table, alarm_id, ui>>
      BY <1>7 DEF Read, Store, records, machines
    <2> QED  BY <1>0, <1>1, <2>1
  <1>8. ASSUME DeleteHalf PROVE table'[a] = None \/ (table'[a] = table[a] /\ Closed(a)')
    <2>1. UNCHANGED <<alarm_id, ui>> /\ (table'[a] = None \/ table'[a] = table[a])
      BY <1>8, HalfFacts DEF machines
    <2> QED  BY <1>0, <1>1, <2>1
  <1>9. ASSUME Restart PROVE table'[a] = None \/ (table'[a] = table[a] /\ Closed(a)')
    <2>1. table' = table /\ ui' = None /\ \A m \in Machine : alarm_id'[m] = 0
      BY <1>9 DEF Restart
    <2> QED  BY <1>0, <1>1, <2>1
  <1> QED  BY <1>2, <1>3, <1>4, <1>5, <1>6, <1>7, <1>8, <1>9, NextIs

\* A cleared record is read-only until it is deleted: no dialog, event, export or
\* restart brings it back to be written (read_only_, execute_update_alarm_*).
THEOREM ClosedKept == Spec => ClosedStays
  <1>1. TypeOK /\ Known /\ [Next]_vars =>
          [\A a \in AlarmId : Closed(a) =>
             \/ table'[a] = None
             \/ table'[a] = table[a] /\ Closed(a)']_vars
    BY ClosedStep
  <1> QED  BY <1>1, Reached, PTL DEF Spec, ClosedStays

-----------------------------------------------------------------------------
(* The cache.                                                              *)

\* What the export has read is still what the table has.
RowRead == row # None => table[export] = row

\* An event that joins a record is one of its alterations.
LEMMA JoinFacts ==
  ASSUME TypeOK, NEW m \in Machine, EventBegins(m)
  PROVE  /\ Rows' = Rows
         /\ \/ alarm_id[m] = 0 /\ UNCHANGED <<table, cache>>
            \/ /\ alarm_id[m] \in AlarmId /\ Alters(alarm_id[m])
               /\ alarm_id[m] \in Rows =>
                    LET r == table[alarm_id[m]]
                        s == table'[alarm_id[m]]
                    IN  /\ s.machine = r.machine
                        /\ r.texts \subseteq s.texts /\ texts' \in s.texts
                        /\ \A k \in Kind : s[k] = r[k]
         /\ UNCHANGED <<child, counter, alarm_id, listed, ui, notice, exports, reopened,
                        ids, edits, restarts>>
         /\ event' = [machine |-> m, text |-> texts'] /\ event = None
         /\ Overlap \/ export \notin AlarmId
  <1>1. /\ UNCHANGED <<child, counter, alarm_id, listed, ui, notice, exports, reopened,
                       ids, edits, restarts>>
        /\ event' = [machine |-> m, text |-> texts'] /\ event = None
        /\ Overlap \/ export \notin AlarmId
    BY DEF EventBegins, Undivided
  <1>2. CASE alarm_id[m] = 0
    <2>1. UNCHANGED <<table, cache>>
      BY <1>2 DEF EventBegins, Joined
    <2> QED  BY <1>1, <1>2, <2>1 DEF Rows
  <1>3. CASE alarm_id[m] # 0
    <2> PICK F \in [Record -> Record] :
                /\ Update(alarm_id[m], F)
                /\ \A r \in Record : /\ F[r].machine = r.machine
                                     /\ r.texts \subseteq F[r].texts
                                     /\ texts' \in F[r].texts
                                     /\ \A k \in Kind : F[r][k] = r[k]
      BY <1>3, JoinEdits
    <2>1. alarm_id[m] \in AlarmId
      BY <1>3, JoinEdits
    <2>2. /\ Alters(alarm_id[m]) /\ Rows' = Rows
          /\ table[alarm_id[m]] # None => table'[alarm_id[m]] = F[table[alarm_id[m]]]
      BY <2>1, UpdateFacts
    <2>3. alarm_id[m] \in Rows => table[alarm_id[m]] \in Record /\ table[alarm_id[m]] # None
      BY DEF TypeOK, Rows
    <2> QED  BY <1>1, <2>1, <2>2, <2>3
  <1> QED  BY <1>2, <1>3

\* A record that is altered, and was the same in the cache and in the table, stays so.
LEMMA AltersAgree ==
  ASSUME TypeOK, NEW a \in AlarmId, Alters(a), CacheAgrees,
         a \in Rows => cache[a] # None
  PROVE  /\ CacheAgrees'
         /\ \A b \in AlarmId : cache[b] # None => cache'[b] # None
  <1>1. cache[a] = table[a]
    BY DEF CacheAgrees, Rows
  <1> QED  BY <1>1 DEF CacheAgrees, Alters

LEMMA CacheStep ==
  ASSUME ~Overlap, TypeOK, Known, CacheAgrees, LookupHits, RowRead, [Next]_vars
  PROVE  CacheAgrees' /\ LookupHits' /\ RowRead'
  <1>0. /\ None \notin AlarmId /\ 0 \notin AlarmId /\ 0 \notin Rows /\ Rows \in SUBSET AlarmId
    BY Bounds DEF AlarmId, Rows
  <1>1. CASE Quiet
    <2>1. UNCHANGED <<table, cache, alarm_id, row>> /\ DialogAsBefore
      BY <1>1, QuietFacts
    <2>2. ui' # None => cache'[ui'.alarm] # None
      BY <2>1 DEF DialogAsBefore, LookupHits
    <2>3. RowRead'
      <3>1. row # None => ~notice
        BY <1>0 DEF Known
      <3>2. row # None => export' = export
        BY <1>1, <3>1, QuietFacts
      <3> QED  BY <2>1, <3>2 DEF RowRead
    <2> QED  BY <2>1, <2>2, <2>3 DEF LookupHits, CacheAgrees, Rows
  <1>2. ASSUME NEW m \in Machine, EventBegins(m)
        PROVE  CacheAgrees' /\ LookupHits' /\ RowRead'
    <2>1. /\ Rows' = Rows /\ export \notin AlarmId
          /\ UNCHANGED <<alarm_id, ui, row, export>>
      BY <1>2, JoinFacts DEF exports
    <2>2. RowRead'
      BY <1>0, <2>1 DEF Known, RowRead
    <2>3. CacheAgrees' /\ \A b \in AlarmId : cache[b] # None => cache'[b] # None
      <3>1. CASE alarm_id[m] = 0 /\ UNCHANGED <<table, cache>>
        BY <3>1 DEF CacheAgrees
      <3>2. CASE alarm_id[m] \in AlarmId /\ Alters(alarm_id[m])
        <4>1. alarm_id[m] \in Rows => cache[alarm_id[m]] # None
          BY DEF LookupHits
        <4> QED  BY <3>2, <4>1, AltersAgree
      <3> QED  BY <1>2, <3>1, <3>2, JoinFacts
    <2>4. ui # None => ui.alarm \in AlarmId
      BY UiAlarm
    <2>5. LookupHits'
      BY <1>0, <2>1, <2>3, <2>4 DEF LookupHits
    <2> QED  BY <2>2, <2>3, <2>5
  <1>3. CASE Writes
    <2>1. /\ ui # None /\ ui.alarm \in AlarmId /\ ui.alarm \in Rows /\ ui.machine \in Machine
          /\ Alters(ui.alarm) /\ Rows' = Rows
      BY <1>3, WritesEdits, UiAlarm, EditsFacts
    <2>2. cache[ui.alarm] # None
      BY <2>1 DEF LookupHits
    <2>3. CacheAgrees' /\ \A b \in AlarmId : cache[b] # None => cache'[b] # None
      BY <2>1, <2>2, AltersAgree
    <2>4. RowRead'
      <3>1. export \notin AlarmId /\ UNCHANGED <<row, export>>
        BY <1>3, WritesFrame DEF Input, Undivided, exports
      <3> QED  BY <1>0, <3>1 DEF Known, RowRead
    <2>5. \A n \in Machine : alarm_id'[n] \in Rows' => cache'[alarm_id'[n]] # None
      <3>1. CASE UNCHANGED machines
        BY <1>0, <2>1, <2>3, <3>1 DEF machines, LookupHits
      <3>2. CASE \E x \in {0, ui.alarm} : alarm_id' = [alarm_id EXCEPT ![ui.machine] = x]
        <4> PICK x \in {0, ui.alarm} : alarm_id' = [alarm_id EXCEPT ![ui.machine] = x]
          BY <3>2
        <4>1. \A n \in Machine : alarm_id'[n] = IF n = ui.machine THEN x ELSE alarm_id[n]
          BY <2>1 DEF TypeOK
        <4>2. x \in Rows => cache'[x] # None
          BY <1>0, <2>1, <2>2, <2>3
        <4> QED  BY <1>0, <2>1, <2>3, <4>1, <4>2 DEF LookupHits
      <3> QED  BY <1>3, <3>1, <3>2, WritesFrame
    <2>6. ui' # None => cache'[ui'.alarm] # None
      BY <1>3, <2>1, <2>2, <2>3, WritesFrame
    <2> QED  BY <2>3, <2>4, <2>5, <2>6 DEF LookupHits
  <1>4. ASSUME NEW m \in Machine, HandleFirst(m)
        PROVE  CacheAgrees' /\ LookupHits' /\ RowRead'
    <2> DEFINE a == ids + 1
    <2>1. /\ a \in AlarmId /\ Rows' = Rows \cup {a} /\ cache'[a] = table'[a] /\ cache'[a] # None
          /\ \A b \in AlarmId \ {a} : table'[b] = table[b] /\ cache'[b] = cache[b]
          /\ alarm_id' = [alarm_id EXCEPT ![m] = a]
          /\ ui' = [stage |-> "first", alarm |-> a, machine |-> m] /\ row = None
          /\ UNCHANGED exports
      BY <1>4, FirstFacts
    <2> HIDE DEF a
    <2>2. CacheAgrees'
      BY <2>1 DEF CacheAgrees
    <2>3. \A b \in AlarmId : cache[b] # None => cache'[b] # None
      BY <2>1
    <2>4. \A n \in Machine : alarm_id'[n] = IF n = m THEN a ELSE alarm_id[n]
      BY <2>1 DEF TypeOK
    <2>5. \A n \in Machine : alarm_id'[n] \in Rows' => cache'[alarm_id'[n]] # None
      BY <1>0, <2>1, <2>3, <2>4 DEF LookupHits
    <2> QED  BY <2>1, <2>2, <2>5 DEF LookupHits, RowRead, exports
  <1>5. ASSUME NEW a \in AlarmId, HandleFromHistory(a)
        PROVE  CacheAgrees' /\ LookupHits' /\ RowRead'
    <2>1. /\ UNCHANGED <<table, alarm_id, row, export>> /\ table[a] # None
          /\ cache' = [cache EXCEPT ![a] = table[a]]
          /\ \/ ui' = ui
             \/ ui' = [stage |-> "result", alarm |-> a, machine |-> Top]
      BY <1>5 DEF HandleFromHistory, HistoryMachine, machines, exports
    <2>2. \A b \in AlarmId : cache'[b] = IF b = a THEN table[a] ELSE cache[b]
      BY <2>1 DEF TypeOK
    <2>3. Rows' = Rows /\ RowRead' /\ CacheAgrees'
      BY <2>1, <2>2 DEF Rows, RowRead, CacheAgrees
    <2>4. ui # None => ui.alarm \in AlarmId
      BY UiAlarm
    <2>5. ui' # None => cache'[ui'.alarm] # None
      BY <2>1, <2>2, <2>4 DEF LookupHits
    <2> QED  BY <1>0, <2>1, <2>2, <2>3, <2>5 DEF LookupHits
  <1>6. CASE Read
    <2>1. UNCHANGED <<table, cache, alarm_id, ui>> /\ Rows' = Rows
      BY <1>6 DEF Read, records, machines, Rows
    <2>2. RowRead'
      BY <1>6, <2>1, ReadFacts DEF RowRead
    <2> QED  BY <2>1, <2>2 DEF LookupHits, CacheAgrees
  <1>7. CASE Store
    <2>1. /\ UNCHANGED <<table, alarm_id, ui>> /\ row # None /\ row' = None
          /\ cache' = [cache EXCEPT ![export] = row]
      BY <1>7 DEF Store, machines
    <2>2. export \in AlarmId /\ table[export] = row
      BY <1>0, <2>1 DEF Known, RowRead
    <2>3. \A b \in AlarmId : cache'[b] = IF b = export THEN row ELSE cache[b]
      BY <2>1, <2>2 DEF TypeOK
    <2>4. Rows' = Rows /\ (ui # None => ui.alarm \in AlarmId)
      BY <2>1, UiAlarm DEF Rows
    <2> QED  BY <1>0, <2>1, <2>2, <2>3, <2>4 DEF LookupHits, CacheAgrees, RowRead
  <1>8. CASE DeleteHalf
    <2> DEFINE half == Older(Cardinality(Rows) \div 2)
               gone == {a \in half : cache[a] # None}
    <2>1. /\ \A a \in AlarmId : /\ table'[a] = IF a \in gone THEN None ELSE table[a]
                                /\ cache'[a] = IF a \in half THEN None ELSE cache[a]
          /\ Rows' = Rows \ gone /\ row' = None /\ UNCHANGED <<alarm_id, ui>>
      BY <1>8, HalfFacts DEF machines
    <2>2. ui # None => ui.alarm \notin half /\ ui.alarm \in AlarmId
      <3>1. ui # None => ui.alarm \in Rows /\ ui.alarm = ids
        BY <1>8, UiAlarm, HalfFacts DEF Known
      <3>2. ui # None => \A b \in Rows : b <= ui.alarm
        BY <3>1 DEF Known
      <3> QED  BY <1>0, <3>1, <3>2, NewestStays
    <2> HIDE DEF half
    <2>3. CacheAgrees' /\ RowRead'
      BY <2>1 DEF CacheAgrees, RowRead
    <2> QED  BY <1>0, <2>1, <2>2, <2>3 DEF LookupHits
  <1>9. CASE Restart
    <2>1. /\ \A a \in AlarmId : cache'[a] = None
          /\ \A m \in Machine : alarm_id'[m] = 0
          /\ ui' = None /\ row' = None /\ table' = table
      BY <1>9 DEF Restart
    <2> QED  BY <1>0, <2>1 DEF LookupHits, CacheAgrees, RowRead, Rows
  <1> QED  BY <1>1, <1>2, <1>3, <1>4, <1>5, <1>6, <1>7, <1>8, <1>9, NextIs

LEMMA CacheAlways == ~Overlap => (Spec => [](CacheAgrees /\ LookupHits /\ RowRead))
  <1> SUFFICES ASSUME ~Overlap PROVE Spec => [](CacheAgrees /\ LookupHits /\ RowRead)
    OBVIOUS
  <1>1. Init => CacheAgrees /\ LookupHits /\ RowRead
    <2> SUFFICES ASSUME Init PROVE CacheAgrees /\ LookupHits /\ RowRead
      OBVIOUS
    <2>1. 0 \notin AlarmId
      BY Bounds DEF AlarmId
    <2> QED  BY <2>1 DEF Init, CacheAgrees, LookupHits, RowRead, Rows
  <1>2. TypeOK /\ Known /\ CacheAgrees /\ LookupHits /\ RowRead /\ [Next]_vars
          => CacheAgrees' /\ LookupHits' /\ RowRead'
    BY CacheStep
  <1> QED  BY <1>1, <1>2, Reached, PTL DEF Spec

\* When no event and no dialog comes between the reading of a row and its caching,
\* the cache never differs from the table, however updates, the history and the
\* halving alternate (buffered_alarms_).
THEOREM CacheTrue == ~Overlap => (Spec => []CacheAgrees)
  BY CacheAlways, PTL

\* Neither then is the record of a machine or of an open dialog ever looked up in
\* the table, with the wrong columns (get_alarm_info).
THEOREM NeverMisread == ~Overlap => (Spec => []LookupHits)
  BY CacheAlways, PTL

-----------------------------------------------------------------------------
(* The texts of a record.                                                  *)

\* What is listed for a machine is in its record, what is about to be listed, too,
\* and a dialog has the record of its machine or one from the history.
Joining ==
    /\ \A m \in Machine : alarm_id[m] \in Rows \ reopened =>
          /\ listed[m] \subseteq table[alarm_id[m]].texts
          /\ event # None /\ event.machine = m => event.text \in table[alarm_id[m]].texts
    /\ ui # None => ui.alarm \in reopened \/ alarm_id[ui.machine] = ui.alarm

LEMMA JoiningStep ==
  ASSUME ~Overlap, TypeOK, Known, Joining, [Next]_vars
  PROVE  Joining'
  <1>0. 0 \notin Rows /\ Rows \in SUBSET AlarmId
        /\ (ui # None => ui.alarm \in Rows /\ ui.machine \in Machine)
    BY UiAlarm, Bounds DEF AlarmId, Rows
  <1>1. ASSUME Quiet, ~EventEnds PROVE Joining'
    <2>1. /\ UNCHANGED <<table, alarm_id, reopened, event>> /\ DialogAsBefore
          /\ \A m \in Machine : listed'[m] \subseteq listed[m]
      BY <1>1, QuietFacts
    <2> QED  BY <2>1 DEF DialogAsBefore, Joining, Rows
  <1>2. CASE EventEnds
    <2>1. /\ UNCHANGED <<table, alarm_id, reopened, ui>> /\ event # None /\ event' = None
          /\ listed' = [listed EXCEPT ![event.machine] = @ \cup {event.text}]
      BY <1>2 DEF EventEnds, records
    <2>2. \A m \in Machine : listed'[m] = IF m = event.machine THEN listed[m] \cup {event.text}
                                          ELSE listed[m]
      BY <2>1 DEF TypeOK
    <2> QED  BY <2>1, <2>2 DEF Joining, Rows
  <1>3. ASSUME NEW m \in Machine, EventBegins(m) PROVE Joining'
    <2>1. /\ Rows' = Rows /\ UNCHANGED <<alarm_id, listed, ui, reopened>> /\ event = None
          /\ event' = [machine |-> m, text |-> texts']
      BY <1>3, JoinFacts
    <2>2. \A a \in Rows : table[a].texts \subseteq table'[a].texts
      BY <1>0, <1>3, JoinFacts DEF Alters
    <2>3. alarm_id[m] \in Rows => texts' \in table'[alarm_id[m]].texts
      BY <1>0, <1>3, JoinFacts
    <2> QED  BY <2>1, <2>2, <2>3 DEF Joining
  <1>4. CASE Writes
    <2>1. /\ ui # None /\ ui.alarm \in Rows /\ ui.machine \in Machine /\ Rows' = Rows
          /\ Alters(ui.alarm) /\ table[ui.alarm].texts \subseteq table'[ui.alarm].texts
      BY <1>4, WritesEdits, UiAlarm, EditsFacts DEF Rows
    <2>2. \A a \in Rows : table[a].texts \subseteq table'[a].texts
      BY <1>0, <2>1 DEF Alters
    <2>3. event = None /\ event' = None /\ reopened' = reopened
      BY <1>4, WritesFrame DEF Input, Undivided
    <2>4. \A n \in Machine : listed'[n] \subseteq listed[n]
      BY <1>4, WritesFrame, ClearType DEF machines
    <2>5. CASE UNCHANGED machines
      BY <1>4, <2>1, <2>2, <2>3, <2>5, WritesFrame DEF machines, Joining
    <2>6. CASE /\ ui' = None
               /\ \E x \in {0, ui.alarm} : alarm_id' = [alarm_id EXCEPT ![ui.machine] = x]
      <3> PICK x \in {0, ui.alarm} : alarm_id' = [alarm_id EXCEPT ![ui.machine] = x]
        BY <2>6
      <3>1. \A n \in Machine : alarm_id'[n] = IF n = ui.machine THEN x ELSE alarm_id[n]
        BY <2>1 DEF TypeOK
      <3>2. x \in Rows \ reopened => x = ui.alarm /\ alarm_id[ui.machine] = x
        BY <1>0, <2>1 DEF Joining
      <3>3. ASSUME NEW n \in Machine, alarm_id'[n] \in Rows' \ reopened'
            PROVE  listed'[n] \subseteq table'[alarm_id'[n]].texts
        <4>1. alarm_id[n] = alarm_id'[n] /\ alarm_id[n] \in Rows \ reopened
          BY <2>1, <2>3, <3>1, <3>2, <3>3
        <4>2. listed[n] \subseteq table[alarm_id[n]].texts
          BY <4>1 DEF Joining
        <4> QED  BY <2>2, <2>4, <4>1, <4>2
      <3> QED  BY <2>3, <2>6, <3>3 DEF Joining
    <2> QED  BY <1>4, <2>5, <2>6, WritesFrame
  <1>5. ASSUME NEW m \in Machine, HandleFirst(m) PROVE Joining'
    <2> DEFINE a == ids + 1
               new == [machine |-> m, cleared |-> FALSE, texts |-> listed[m],
                       reason |-> 0, judgement |-> 0, handle |-> 0]
    <2>1. /\ a \notin Rows /\ Rows' = Rows \cup {a} /\ table'[a] = new
          /\ \A b \in AlarmId \ {a} : table'[b] = table[b]
          /\ alarm_id' = [alarm_id EXCEPT ![m] = a]
          /\ ui' = [stage |-> "first", alarm |-> a, machine |-> m]
          /\ UNCHANGED <<listed, event, reopened>> /\ event = None
      BY <1>5, FirstFacts
    <2>2. new.texts = listed[m]
      OBVIOUS
    <2>3. \A n \in Machine : alarm_id[n] # a
      BY Bounds DEF TypeOK
    <2> HIDE DEF a, new
    <2>4. \A n \in Machine : alarm_id'[n] = IF n = m THEN a ELSE alarm_id[n]
      BY <2>1 DEF TypeOK
    <2>5. \A b \in Rows : table'[b] = table[b]
      BY <1>0, <2>1
    <2>6. \A n \in Machine : alarm_id'[n] \in Rows' \ reopened' =>
             listed'[n] \subseteq table'[alarm_id'[n]].texts
      BY <2>1, <2>2, <2>3, <2>4, <2>5 DEF Joining
    <2>7. ui'.alarm = a /\ ui'.machine = m /\ alarm_id'[m] = a
      BY <2>1, <2>4
    <2> QED  BY <2>1, <2>6, <2>7 DEF Joining
  <1>6. ASSUME NEW a \in AlarmId, HandleFromHistory(a) PROVE Joining'
    <2>1. /\ UNCHANGED <<table, alarm_id, listed, event>> /\ reopened \subseteq reopened'
          /\ \/ ui' = ui
             \/ ui' = [stage |-> "result", alarm |-> a, machine |-> Top] /\ a \in reopened'
      BY <1>6 DEF HandleFromHistory, HistoryMachine, machines
    <2> QED  BY <2>1 DEF Joining, Rows
  <1>7. CASE Read \/ Store
    <2>1. UNCHANGED <<table, alarm_id, listed, event, ui, reopened>>
      BY <1>7 DEF Read, Store, records, machines
    <2> QED  BY <2>1 DEF Joining, Rows
  <1>8. CASE DeleteHalf
    <2>1. UNCHANGED <<alarm_id, listed, event, ui, reopened>> /\ Rows' \subseteq Rows
      BY <1>8, HalfFacts DEF machines
    <2>2. \A a \in AlarmId : table'[a] = None \/ table'[a] = table[a]
      BY <1>8, HalfFacts
    <2>3. \A a \in Rows' : table'[a] = table[a]
      BY <2>2 DEF Rows
    <2> QED  BY <2>1, <2>3 DEF Joining
  <1>9. CASE Restart
    <2>1. table' = table /\ ui' = None /\ \A m \in Machine : alarm_id'[m] = 0
      BY <1>9 DEF Restart
    <2> QED  BY <1>0, <2>1 DEF Joining, Rows
  <1> QED  BY <1>1, <1>2, <1>3, <1>4, <1>5, <1>6, <1>7, <1>8, <1>9, NextIs

\* When nothing comes between an event's joining the record and its listing, all
\* texts shown for a machine are in the record it is handled under, for any number
\* of alarms, of dialogs and of deletions (execute_add_alarm_text).
THEOREM TextsKept == ~Overlap => (Spec => []TextsJoin)
  <1> SUFFICES ASSUME ~Overlap PROVE Spec => []TextsJoin
    OBVIOUS
  <1>1. Init => Joining
    <2> SUFFICES ASSUME Init PROVE Joining
      OBVIOUS
    <2>1. Rows = {}
      BY DEF Init, Rows
    <2> QED  BY <2>1 DEF Init, Joining
  <1>2. TypeOK /\ Known /\ Joining /\ [Next]_vars => Joining'
    BY JoiningStep
  <1>3. Joining => TextsJoin
    BY DEF Joining, TextsJoin
  <1> QED  BY <1>1, <1>2, <1>3, Reached, PTL DEF Spec

-----------------------------------------------------------------------------
(* The rows that records name.                                             *)

\* The rows s of one kind have become t: none is lost but those of record a.
GrownFor(a, s, t) == \A i \in 1 .. Len(s) :
    i \in 1 .. Len(t) /\ (s[i] # a => t[i] = s[i])

\* Row i of rows t is record a's.
Owned(a, i, t) == i # 0 => i \in 1 .. Len(t) /\ t[i] = a

LEMMA LinksAre ==
  ASSUME TypeOK
  PROVE  /\ LinksRight <=> \A a \in Rows, k \in Kind : Owned(a, table[a][k], child[k])
         /\ \A k \in Kind : /\ child[k] \in Seq(0 .. MaxAlarms) /\ Len(child[k]) \in Nat
                            /\ DOMAIN child[k] = 1 .. Len(child[k])
  <1>1. \A k \in Kind : /\ child[k] \in Seq(0 .. MaxAlarms) /\ Len(child[k]) \in Nat
                        /\ DOMAIN child[k] = 1 .. Len(child[k])
    BY DEF TypeOK
  <1> QED  BY <1>1 DEF LinksRight, Owned

LEMMA LinksAfter ==
  ASSUME TypeOK'
  PROVE  LinksRight' <=> \A a \in Rows', k \in Kind : Owned(a, table'[a][k], child'[k])
  <1>1. \A k \in Kind : DOMAIN child'[k] = 1 .. Len(child'[k])
    BY DEF TypeOK
  <1> QED  BY <1>1 DEF LinksRight, Owned

LEMMA GrownKeeps ==
  ASSUME NEW a, NEW b, a # b, NEW i, NEW s, NEW t, GrownFor(a, s, t), Owned(b, i, s)
  PROVE  Owned(b, i, t)
  BY DEF GrownFor, Owned

\* A step that writes record a and rows for it.
LEMMA LinksWritten ==
  ASSUME TypeOK, TypeOK', LinksRight, NEW a \in Rows, Rows' = Rows, Alters(a),
         \A k \in Kind : /\ GrownFor(a, child[k], child'[k])
                         /\ Owned(a, table'[a][k], child'[k])
  PROVE  LinksRight'
  <1>1. ASSUME NEW b \in Rows, NEW k \in Kind PROVE Owned(b, table'[b][k], child'[k])
    <2>1. CASE b = a
      BY <2>1
    <2>2. CASE b # a
      <3>1. table'[b] = table[b]
        BY <2>2 DEF Alters, Rows
      <3>2. Owned(b, table[b][k], child[k])
        BY LinksAre
      <3> QED  BY <2>2, <3>1, <3>2, GrownKeeps
    <2> QED  BY <2>1, <2>2
  <1> QED  BY <1>1, LinksAfter

LEMMA RowsAdded ==
  ASSUME NEW s \in Seq(0 .. MaxAlarms), NEW a \in 0 .. MaxAlarms
  PROVE  /\ GrownFor(a, s, s)
         /\ GrownFor(a, s, Append(s, a)) /\ Len(Append(s, a)) = Len(s) + 1
         /\ Owned(a, Len(Append(s, a)), Append(s, a))
         /\ GrownFor(a, s, s \o <<a, a>>) /\ Owned(a, Len(s \o <<a, a>>), s \o <<a, a>>)
         /\ \A i \in Nat : Owned(a, i, s) => Owned(a, i, Append(s, a))
  <1>1. Len(s) \in Nat
    OBVIOUS
  <1>2. /\ Len(Append(s, a)) = Len(s) + 1 /\ Append(s, a)[Len(s) + 1] = a
        /\ \A i \in 1 .. Len(s) : Append(s, a)[i] = s[i]
    OBVIOUS
  <1>3. /\ Len(s \o <<a, a>>) = Len(s) + 2 /\ (s \o <<a, a>>)[Len(s) + 2] = a
        /\ \A i \in 1 .. Len(s) : (s \o <<a, a>>)[i] = s[i]
    <2>1. <<a, a>> \in Seq(0 .. MaxAlarms) /\ Len(<<a, a>>) = 2 /\ <<a, a>>[2] = a
      OBVIOUS
    <2> QED  BY <1>1, <2>1, ConcatProperties
  <1> QED  BY <1>1, <1>2, <1>3 DEF GrownFor, Owned

\* A judgement is written to its last row.
LEMMA JudgedIs ==
  ASSUME TypeOK, ui # None, NEW cleared \in BOOLEAN, Children, Judged(cleared)
  PROVE  /\ Alters(ui.alarm) /\ Rows' = Rows
         /\ table'[ui.alarm]["judgement"] = Len(child'["judgement"])
         /\ \A k \in Kind \ {"judgement"} : table'[ui.alarm][k] = table[ui.alarm][k]
  <1> DEFINE n == LastRow("judgement", child')
             F == [r \in Record |-> [r EXCEPT !.judgement = n, !.cleared = cleared]]
  <1>1. n \in Nat /\ n = Len(child'["judgement"])
    BY DEF Children, LastRow, Kind
  <1>2. Update(ui.alarm, F)
    BY DEF Judged
  <1> HIDE DEF n
  <1>3. \A r \in Record : /\ [r EXCEPT !.judgement = n, !.cleared = cleared] \in Record
                          /\ [r EXCEPT !.judgement = n, !.cleared = cleared]["judgement"] = n
                          /\ \A k \in Kind \ {"judgement"} :
                               [r EXCEPT !.judgement = n, !.cleared = cleared][k] = r[k]
    BY <1>1 DEF Record, Kind
  <1>4. /\ F \in [Record -> Record]
        /\ \A r \in Record : F[r]["judgement"] = n /\ \A k \in Kind \ {"judgement"} : F[r][k] = r[k]
    BY <1>3
  <1>5. ui.alarm \in AlarmId /\ table[ui.alarm] \in Record /\ table[ui.alarm] # None
    BY UiAlarm DEF TypeOK, Rows
  <1> HIDE DEF F
  <1>6. Alters(ui.alarm) /\ Rows' = Rows /\ table'[ui.alarm] = F[table[ui.alarm]]
    BY <1>2, <1>4, <1>5, UpdateFacts
  <1> QED  BY <1>1, <1>4, <1>5, <1>6

LEMMA GuardIs ==
  ASSUME TypeOK, Guard
  PROVE  /\ Alters(ui.alarm) /\ Rows' = Rows
         /\ table'[ui.alarm]["handle"] = Len(child'["handle"])
         /\ \A k \in Kind \ {"handle"} : table'[ui.alarm][k] = table[ui.alarm][k]
  <1> DEFINE n == LastRow("handle", child')
             F == [r \in Record |-> [r EXCEPT !.handle = n, !.cleared = FALSE]]
  <1>1. n \in Nat /\ n = Len(child'["handle"])
    BY GuardEdits DEF Children, LastRow, Kind
  <1>2. Update(ui.alarm, F) /\ ui # None
    BY DEF Guard, At
  <1> HIDE DEF n
  <1>3. \A r \in Record : /\ [r EXCEPT !.handle = n, !.cleared = FALSE] \in Record
                          /\ [r EXCEPT !.handle = n, !.cleared = FALSE]["handle"] = n
                          /\ \A k \in Kind \ {"handle"} :
                               [r EXCEPT !.handle = n, !.cleared = FALSE][k] = r[k]
    BY <1>1 DEF Record, Kind
  <1>4. /\ F \in [Record -> Record]
        /\ \A r \in Record : F[r]["handle"] = n /\ \A k \in Kind \ {"handle"} : F[r][k] = r[k]
    BY <1>3
  <1>5. ui.alarm \in AlarmId /\ table[ui.alarm] \in Record /\ table[ui.alarm] # None
    BY <1>2, UiAlarm DEF TypeOK, Rows
  <1> HIDE DEF F
  <1>6. Alters(ui.alarm) /\ Rows' = Rows /\ table'[ui.alarm] = F[table[ui.alarm]]
    BY <1>2, <1>4, <1>5, UpdateFacts
  <1> QED  BY <1>1, <1>4, <1>5, <1>6

LEMMA ConfirmIs ==
  ASSUME TypeOK, NEW cleared \in BOOLEAN, NEW guard \in BOOLEAN, NEW valid \in BOOLEAN,
         Confirm(cleared, guard, valid)
  PROVE  /\ ui # None /\ Alters(ui.alarm) /\ Rows' = Rows
         /\ \A k \in Kind : ResultOf(guard, valid, k)
         /\ LET r == table[ui.alarm]
                s == table'[ui.alarm]
            IN  /\ s["handle"] = IF guard THEN Link("handle", r["handle"]) ELSE 0
                /\ s["reason"] = Link("reason", r["reason"])
                /\ s["judgement"] = Link("judgement", r["judgement"])
  <1>1. ui # None /\ child' = Result(guard, valid)
    BY DEF Confirm, At
  <1>2. Children /\ \A k \in Kind : ResultOf(guard, valid, k)
    BY <1>1, ResultIs
  <1> DEFINE G(r) == [r EXCEPT !.cleared = cleared,
                               !.handle = IF guard THEN Link("handle", r.handle) ELSE 0,
                               !.reason = Link("reason", r.reason),
                               !.judgement = Link("judgement", r.judgement)]
             F == [r \in Record |-> G(r)]
  <1>3. \A k \in Kind, i \in Nat : Link(k, i) \in Nat
    BY <1>2 DEF Children, Link, LastRow
  <1>4. \A r \in Record : /\ G(r) \in Record
                          /\ G(r)["handle"] = IF guard THEN Link("handle", r["handle"]) ELSE 0
                          /\ G(r)["reason"] = Link("reason", r["reason"])
                          /\ G(r)["judgement"] = Link("judgement", r["judgement"])
    <2> TAKE r \in Record
    <2> DEFINE h == IF guard THEN Link("handle", r.handle) ELSE 0
               e == Link("reason", r.reason)
               j == Link("judgement", r.judgement)
    <2>1. h \in Nat /\ e \in Nat /\ j \in Nat
      BY <1>3 DEF Record, Kind
    <2> HIDE DEF h, e, j
    <2>2. /\ [r EXCEPT !.cleared = cleared, !.handle = h, !.reason = e, !.judgement = j] \in Record
          /\ [r EXCEPT !.cleared = cleared, !.handle = h, !.reason = e, !.judgement = j]["handle"] = h
          /\ [r EXCEPT !.cleared = cleared, !.handle = h, !.reason = e, !.judgement = j]["reason"] = e
          /\ [r EXCEPT !.cleared = cleared, !.handle = h, !.reason = e, !.judgement = j]["judgement"] = j
      BY <2>1 DEF Record
    <2> QED  BY <2>2 DEF h, e, j
  <1>5. Update(ui.alarm, F)
    BY DEF Confirm
  <1> HIDE DEF G
  <1>6. /\ F \in [Record -> Record] /\ \A r \in Record : F[r] = G(r)
    BY <1>4
  <1>7. ui.alarm \in AlarmId /\ table[ui.alarm] \in Record /\ table[ui.alarm] # None
    BY <1>1, UiAlarm DEF TypeOK, Rows
  <1> HIDE DEF F
  <1>8. Alters(ui.alarm) /\ Rows' = Rows /\ table'[ui.alarm] = F[table[ui.alarm]]
    BY <1>5, <1>6, <1>7, UpdateFacts
  <1>9. table'[ui.alarm] = G(table[ui.alarm])
    BY <1>6, <1>7, <1>8
  <1> QED  BY <1>1, <1>2, <1>4, <1>7, <1>8, <1>9

LEMMA LinksConfirm ==
  ASSUME TypeOK, TypeOK', LinksRight, CacheAgrees, LookupHits,
         NEW cleared \in BOOLEAN, NEW guard \in BOOLEAN, NEW valid \in BOOLEAN,
         Confirm(cleared, guard, valid)
  PROVE  LinksRight'
  <1> DEFINE a == ui.alarm
             r == table[a]
  <1>1. /\ ui # None /\ Alters(a) /\ Rows' = Rows
        /\ \A k \in Kind : ResultOf(guard, valid, k)
        /\ table'[a]["handle"] = IF guard THEN Link("handle", r["handle"]) ELSE 0
        /\ table'[a]["reason"] = Link("reason", r["reason"])
        /\ table'[a]["judgement"] = Link("judgement", r["judgement"])
    BY ConfirmIs
  <1>2. a \in Rows /\ a \in AlarmId /\ a \in 0 .. MaxAlarms
    BY <1>1, UiAlarm
  <1>3. AlarmInfo(a) = r /\ r \in Record
    <2>1. cache[a] # None /\ cache[a] = table[a]
      BY <1>1, <1>2 DEF LookupHits, CacheAgrees
    <2> QED  BY <1>2, <2>1 DEF AlarmInfo, TypeOK
  <1>4. r["handle"] \in Nat /\ r["reason"] \in Nat /\ r["judgement"] \in Nat
        /\ r.handle = r["handle"]
    BY <1>3 DEF Record
  <1>5. \A k \in Kind : Owned(a, r[k], child[k])
    BY <1>2, LinksAre
  <1>6. \A k \in Kind : child[k] \in Seq(0 .. MaxAlarms) /\ Len(child[k]) \in Nat
    BY LinksAre
  <1>7. ASSUME NEW k \in Kind, NEW i \in Nat, Owned(a, i, child[k]),
               child'[k] = Append(child[k], a) \/ child'[k] = child[k]
        PROVE  GrownFor(a, child[k], child'[k]) /\ Owned(a, Link(k, i), child'[k])
    <2>1. CASE child'[k] = Append(child[k], a)
      <3>1. /\ Len(child'[k]) = Len(child[k]) + 1
            /\ GrownFor(a, child[k], child'[k]) /\ Owned(a, Len(child'[k]), child'[k])
        BY <1>2, <1>6, <2>1, RowsAdded
      <3>2. Link(k, i) = Len(child'[k])
        BY <1>6, <3>1 DEF Link, LastRow
      <3> QED  BY <3>1, <3>2
    <2>2. CASE child'[k] = child[k]
      <3>1. GrownFor(a, child[k], child'[k])
        BY <2>2 DEF GrownFor
      <3>2. Link(k, i) = i
        BY <1>6, <2>2 DEF Link
      <3> QED  BY <1>7, <2>2, <3>1, <3>2
    <2> QED  BY <1>7, <2>1, <2>2
  <1>8. \A k \in {"reason", "judgement"} :
           child'[k] = Append(child[k], a) \/ child'[k] = child[k]
    BY <1>1 DEF ResultOf, Kind
  <1>9. \A k \in {"reason", "judgement"} :
           GrownFor(a, child[k], child'[k]) /\ Owned(a, table'[a][k], child'[k])
    BY <1>1, <1>4, <1>5, <1>7, <1>8 DEF Kind
  <1>10. GrownFor(a, child["handle"], child'["handle"])
         /\ Owned(a, table'[a]["handle"], child'["handle"])
    <2> DEFINE k == "handle"
    <2>0. k \in Kind
      BY DEF Kind
    <2>1. CASE child'[k] = Append(child[k], a)
      <3>1. GrownFor(a, child[k], child'[k]) /\ Owned(a, Link(k, r[k]), child'[k])
        BY <1>4, <1>5, <1>7, <2>0, <2>1
      <3> QED  BY <1>1, <3>1 DEF Owned
    <2>2. CASE ~guard /\ child'[k] = [child[k] EXCEPT ![r[k]] = 0]
      <3>1. table'[a][k] = 0
        BY <1>1, <2>2
      <3>2. /\ Len(child'[k]) = Len(child[k])
            /\ \A j \in 1 .. Len(child[k]) : child'[k][j] = IF j = r[k] THEN 0 ELSE child[k][j]
        BY <1>6, <2>0, <2>2, RowGone
      <3>3. \A j \in 1 .. Len(child[k]) : j = r[k] => child[k][j] = a
        <4>1. \A j \in 1 .. Len(child[k]) : j # 0
          BY <1>6, <2>0
        <4> QED  BY <1>5, <2>0, <4>1 DEF Owned
      <3> QED  BY <3>1, <3>2, <3>3 DEF GrownFor, Owned
    <2>3. CASE ~guard /\ child'[k] = child[k]
      BY <1>1, <2>3 DEF GrownFor, Owned
    <2>4. \/ child'[k] = Append(child[k], a)
          \/ ~guard /\ child'[k] = [child[k] EXCEPT ![r[k]] = 0]
          \/ ~guard /\ child'[k] = child[k]
      BY <1>1, <1>3, <1>4, <2>0 DEF ResultOf
    <2> QED  BY <2>1, <2>2, <2>3, <2>4
  <1>11. \A k \in Kind : GrownFor(a, child[k], child'[k]) /\ Owned(a, table'[a][k], child'[k])
    BY <1>9, <1>10 DEF Kind
  <1> QED  BY <1>1, <1>2, <1>11, LinksWritten

LEMMA LinksJudged ==
  ASSUME TypeOK, TypeOK', LinksRight, ui # None, NEW cleared \in BOOLEAN, Judged(cleared),
         \/ child' = TwoJudgements
         \/ child' = [TwoJudgements EXCEPT !.reason = Append(@, ui.alarm)]
  PROVE  LinksRight'
  <1> DEFINE a == ui.alarm
  <1>1. a \in Rows /\ a \in 0 .. MaxAlarms
    BY UiAlarm
  <1>2. Children
    BY DEF TypeOK, Children
  <1>3. /\ Alters(a) /\ Rows' = Rows
        /\ table'[a]["judgement"] = Len(child'["judgement"])
        /\ \A k \in Kind \ {"judgement"} : table'[a][k] = table[a][k]
    BY <1>2, JudgedIs
  <1>4. /\ child'["judgement"] = child["judgement"] \o <<a, a>>
        /\ child'["reason"] = child["reason"] \/ child'["reason"] = Append(child["reason"], a)
        /\ child'["handle"] = child["handle"]
    <2>1. child \in [Kind -> Seq(0 .. MaxAlarms)]
      BY DEF TypeOK
    <2> QED  BY <2>1 DEF TwoJudgements, Kind
  <1>5. \A k \in Kind : Owned(a, table[a][k], child[k]) /\ child[k] \in Seq(0 .. MaxAlarms)
    BY <1>1, LinksAre
  <1>6. \A k \in Kind : table[a][k] \in Nat
    <2>1. table[a] \in Record
      BY <1>1 DEF Rows, TypeOK
    <2> QED  BY <2>1 DEF Record, Kind
  <1>7. ASSUME NEW k \in Kind
        PROVE  GrownFor(a, child[k], child'[k]) /\ Owned(a, table'[a][k], child'[k])
    <2>1. CASE k = "judgement"
      BY <1>1, <1>3, <1>4, <1>5, <2>1, RowsAdded
    <2>2. CASE k # "judgement"
      <3>1. table'[a][k] = table[a][k]
            /\ (child'[k] = child[k] \/ child'[k] = Append(child[k], a))
        BY <1>3, <1>4, <2>2 DEF Kind
      <3>2. /\ GrownFor(a, child[k], child[k]) /\ GrownFor(a, child[k], Append(child[k], a))
            /\ \A i \in Nat : Owned(a, i, child[k]) => Owned(a, i, Append(child[k], a))
        BY <1>1, <1>5, RowsAdded
      <3> HIDE DEF a
      <3> QED  BY <1>5, <1>6, <3>1, <3>2
    <2> QED  BY <2>1, <2>2
  <1> QED  BY <1>1, <1>3, <1>7, LinksWritten

LEMMA LinksGuard ==
  ASSUME TypeOK, TypeOK', LinksRight, Guard
  PROVE  LinksRight'
  <1> DEFINE a == ui.alarm
  <1>0. ui # None /\ child' = Inserted("handle", a)
    BY DEF Guard, At
  <1>1. a \in Rows /\ a \in 0 .. MaxAlarms
    BY <1>0, UiAlarm
  <1>3. /\ Alters(a) /\ Rows' = Rows
        /\ table'[a]["handle"] = Len(child'["handle"])
        /\ \A k \in Kind \ {"handle"} : table'[a][k] = table[a][k]
    BY GuardIs
  <1>4. /\ child'["handle"] = Append(child["handle"], a)
        /\ \A k \in Kind \ {"handle"} : child'[k] = child[k]
    <2>1. child \in [Kind -> Seq(0 .. MaxAlarms)]
      BY DEF TypeOK
    <2> QED  BY <1>0, <2>1 DEF Inserted, Kind
  <1>5. \A k \in Kind : Owned(a, table[a][k], child[k]) /\ child[k] \in Seq(0 .. MaxAlarms)
    BY <1>1, LinksAre
  <1>7. ASSUME NEW k \in Kind
        PROVE  GrownFor(a, child[k], child'[k]) /\ Owned(a, table'[a][k], child'[k])
    <2>1. CASE k = "handle"
      BY <1>1, <1>3, <1>4, <1>5, <2>1, RowsAdded
    <2>2. CASE k # "handle"
      BY <1>1, <1>3, <1>4, <1>5, <2>2, RowsAdded
    <2> QED  BY <2>1, <2>2
  <1> QED  BY <1>1, <1>3, <1>7, LinksWritten

\* The rows that the deleted records name are no others'.
LEMMA LinksHalf ==
  ASSUME TypeOK, TypeOK', Known, LinksRight, CacheAgrees, DeleteHalf
  PROVE  LinksRight'
  <1> DEFINE half == Older(Cardinality(Rows) \div 2)
             gone == {a \in half : cache[a] # None}
             Named(k) == {cache[a][k] : a \in gone}
  <1>1. /\ \A a \in AlarmId : table'[a] = IF a \in gone THEN None ELSE table[a]
        /\ Rows' = Rows \ gone /\ half \in SUBSET Rows
        /\ \A k \in Kind : child'[k] = [i \in DOMAIN child[k] |->
                               IF i \in Named(k) THEN 0 ELSE child[k][i]]
    BY HalfFacts
  <1> HIDE DEF half
  <1>2. ASSUME NEW b \in Rows', NEW k \in Kind PROVE Owned(b, table'[b][k], child'[k])
    <2> DEFINE i == table[b][k]
    <2>1. b \in Rows /\ b \notin gone /\ b \in AlarmId /\ table'[b] = table[b]
      BY <1>1, <1>2 DEF Rows
    <2>2. CASE i = 0
      BY <2>1, <2>2 DEF Owned
    <2>3. CASE i # 0
      <3>1. i \in 1 .. Len(child[k]) /\ child[k][i] = b /\ DOMAIN child[k] = 1 .. Len(child[k])
            /\ Len(child[k]) \in Nat
        BY <2>1, <2>3, LinksAre DEF Owned
      <3>2. i \notin Named(k)
        <4>1. ASSUME NEW a \in gone, i = cache[a][k] PROVE FALSE
          <5>1. a \in Rows /\ cache[a] = table[a] /\ a # b
            BY <1>1, <2>1, <4>1 DEF CacheAgrees, Rows
          <5>2. child[k][i] = a
            BY <2>3, <4>1, <5>1, LinksAre DEF Owned
          <5> QED  BY <3>1, <5>1, <5>2
        <4> QED  BY <4>1
      <3> HIDE DEF Named
      <3>3. child'[k][i] = b /\ DOMAIN child'[k] = 1 .. Len(child[k])
        BY <1>1, <3>1, <3>2
      <3>4. DOMAIN child'[k] = 1 .. Len(child'[k])
        BY DEF TypeOK
      <3> QED  BY <2>1, <3>1, <3>3, <3>4 DEF Owned
    <2> QED  BY <2>2, <2>3
  <1> QED  BY <1>2, LinksAfter

LEMMA LinksStep ==
  ASSUME ~Overlap, TypeOK, TypeOK', Known, CacheAgrees, LookupHits, LinksRight, [Next]_vars
  PROVE  LinksRight'
  <1>0. Rows \in SUBSET AlarmId /\ \A a \in Rows, k \in Kind : Owned(a, table[a][k], child[k])
    BY LinksAre DEF Rows
  <1>1. CASE Quiet
    <2>1. UNCHANGED <<table, cache>>
      BY <1>1, QuietFacts
    <2>2. CASE child' = child
      BY <1>0, <2>1, <2>2, LinksAfter DEF Rows
    <2>3. CASE ui # None /\ child' = Inserted("reason", ui.alarm)
      <3> DEFINE a == ui.alarm
      <3>1. a \in Rows /\ a \in 0 .. MaxAlarms /\ a \in AlarmId
        BY <2>3, UiAlarm
      <3>2. Alters(a) /\ Rows' = Rows
        BY <2>1, <3>1 DEF Alters, Rows
      <3>3. \A k \in Kind : child'[k] = child[k] \/ child'[k] = Append(child[k], a)
        BY <2>3 DEF Inserted, Kind, TypeOK
      <3>4. ASSUME NEW k \in Kind
            PROVE  GrownFor(a, child[k], child'[k]) /\ Owned(a, table'[a][k], child'[k])
        <4>1. Owned(a, table[a][k], child[k]) /\ table[a][k] \in Nat /\ table'[a] = table[a]
              /\ child[k] \in Seq(0 .. MaxAlarms)
          <5>1. table[a] \in Record
            BY <3>1 DEF Rows, TypeOK
          <5> QED  BY <1>0, <2>1, <3>1, <5>1, LinksAre DEF Record, Kind
        <4>2. /\ GrownFor(a, child[k], child[k]) /\ GrownFor(a, child[k], Append(child[k], a))
              /\ \A i \in Nat : Owned(a, i, child[k]) => Owned(a, i, Append(child[k], a))
          BY <3>1, <4>1, RowsAdded
        <4> HIDE DEF a
        <4> QED  BY <3>3, <4>1, <4>2
      <3> QED  BY <3>1, <3>2, <3>4, LinksWritten
    <2> QED  BY <1>1, <2>2, <2>3, QuietFacts
  <1>2. ASSUME Rows' \in SUBSET Rows, child' = child, \A a \in Rows', k \in Kind : table'[a][k] = table[a][k]
        PROVE  LinksRight'
    BY <1>0, <1>2, LinksAfter
  <1>3. ASSUME NEW m \in Machine, EventBegins(m) PROVE LinksRight'
    <2>1. Rows' = Rows /\ child' = child
      BY <1>3, JoinFacts
    <2>2. \A a \in Rows, k \in Kind : table'[a][k] = table[a][k]
      BY <1>0, <1>3, JoinFacts DEF Alters
    <2> QED  BY <1>2, <2>1, <2>2
  <1>4. CASE Writes
    <2>1. TestDevice => /\ ui # None /\ Judged(TRUE)
                        /\ child' = [TwoJudgements EXCEPT !.reason = Append(@, ui.alarm)]
      BY DEF TestDevice, At
    <2>2. \A stage, next : Judge(stage, next) =>
             ui # None /\ Judged(next = "result") /\ child' = TwoJudgements
      BY DEF Judge, At
    <2>3. \A next : (next = "result") \in BOOLEAN
      OBVIOUS
    <2>4. TestDevice => LinksRight'
      BY <2>1, LinksJudged
    <2>5. \A stage, next : Judge(stage, next) => LinksRight'
      BY <2>2, <2>3, LinksJudged
    <2> QED  BY <1>4, <2>4, <2>5, LinksGuard, LinksConfirm DEF Writes
  <1>5. ASSUME NEW m \in Machine, HandleFirst(m) PROVE LinksRight'
    <2> DEFINE a == ids + 1
               new == [machine |-> m, cleared |-> FALSE, texts |-> listed[m],
                       reason |-> 0, judgement |-> 0, handle |-> 0]
    <2>1. /\ a \notin Rows /\ Rows' = Rows \cup {a} /\ table'[a] = new
          /\ \A b \in AlarmId \ {a} : table'[b] = table[b]
          /\ child' = child
      BY <1>5, FirstFacts
    <2>2. \A k \in Kind : new[k] = 0
      BY DEF Kind
    <2> HIDE DEF a, new
    <2>3. \A b \in Rows' \ {a} : b \in Rows /\ table'[b] = table[b]
      BY <1>0, <2>1
    <2>4. ASSUME NEW b \in Rows', NEW k \in Kind PROVE Owned(b, table'[b][k], child'[k])
      <3>1. CASE b = a
        BY <2>1, <2>2, <3>1 DEF Owned
      <3>2. CASE b # a
        BY <1>0, <2>1, <2>3, <3>2
      <3> QED  BY <3>1, <3>2
    <2> QED  BY <2>4, LinksAfter
  <1>6. CASE (\E a \in AlarmId : HandleFromHistory(a)) \/ Read \/ Store \/ Restart
    <2>1. UNCHANGED <<table, child>>
      BY <1>6 DEF HandleFromHistory, Read, Store, Restart, records
    <2>2. Rows' = Rows
      BY <2>1 DEF Rows
    <2> QED  BY <1>2, <2>1, <2>2
  <1>7. CASE DeleteHalf
    BY <1>7, LinksHalf
  <1> QED  BY <1>1, <1>3, <1>4, <1>5, <1>6, <1>7, NextIs

\* A row that a record names is there and is the record's own, for any number of
\* records, results and halvings: an export's deletion takes no row that another
\* record names (execute_update_alarm_*, delete_half_record).
THEOREM LinksKept == ~Overlap => (Spec => []LinksRight)
  <1> SUFFICES ASSUME ~Overlap PROVE Spec => []LinksRight
    OBVIOUS
  <1>1. Init => LinksRight
    BY DEF Init, LinksRight, Rows
  <1>2. TypeOK /\ TypeOK' /\ Known /\ CacheAgrees /\ LookupHits /\ LinksRight /\ [Next]_vars
          => LinksRight'
    BY LinksStep
  <1> QED  BY <1>1, <1>2, Reached, CacheAlways, PTL DEF Spec

-----------------------------------------------------------------------------
(* The limit of the table.                                                 *)

\* The older half is no smaller than it should be.
LEMMA OlderMany ==
  ASSUME NEW I \in Places, NEW h \in Nat, h <= Cardinality(I)
  PROVE  LET O == {a \in I : Cardinality({b \in I : b < a}) < h}
         IN  h <= Cardinality(O) /\ Cardinality(O) \in Nat
  <1> DEFINE O == {a \in I : Cardinality({b \in I : b < a}) < h}
             f == [a \in O |-> Rank(I, a)]
  <1>1. /\ IsFiniteSet(I) /\ Cardinality(I) \in Nat
        /\ \A i \in I : i \in Nat
    BY PlacesHave
  <1>2. \A a \in I : /\ Rank(I, a) \in Nat /\ Rank(I, a) >= 1
                     /\ a \in O <=> Rank(I, a) <= h
    <2> TAKE a \in I
    <2> DEFINE B == {b \in I : b < a}
    <2>1. IsFiniteSet(B) /\ a \notin B /\ Cardinality(B) \in Nat
      <3>1. B \in SUBSET I
        OBVIOUS
      <3>2. IsFiniteSet(B)
        BY <1>1, <3>1, FS_Subset
      <3>3. a \notin B
        BY <1>1
      <3> QED  BY <3>2, <3>3, FS_CardinalityType
    <2>2. {b \in I : b <= a} = B \cup {a}
      <3>1. \A b \in I : b \in Nat /\ a \in Nat
        BY <1>1
      <3>2. \A b \in I : b <= a <=> (b < a \/ b = a)
        BY <3>1
      <3> QED  BY <3>2
    <2>3. Cardinality(B \cup {a}) = Cardinality(B) + 1
      BY <2>1, FS_AddElement
    <2>4. Rank(I, a) = Cardinality(B) + 1
      BY <2>2, <2>3 DEF Rank
    <2>5. a \in O <=> Cardinality(B) < h
      OBVIOUS
    <2> HIDE DEF B, O
    <2> QED  BY <2>1, <2>4, <2>5
  <1>3. O \in SUBSET I
    OBVIOUS
  <1> HIDE DEF O
  <1>4. IsFiniteSet(O) /\ Cardinality(O) \in Nat
    BY <1>1, <1>3, FS_Subset, FS_CardinalityType
  <1>5. f \in [O -> 1 .. h]
    BY <1>2, <1>3
  <1>6. ASSUME NEW k \in 1 .. h PROVE \E a \in O : f[a] = k
    <2>1. PICK n \in Nat : Rank(I, n) = Cardinality(I)
      BY RankEnd
    <2>2. k \in 1 .. Rank(I, n)
      BY <1>1, <2>1
    <2>3. PICK i \in I : Rank(I, i) = k
      BY <2>1, <2>2, RankOnto
    <2>4. i \in O
      BY <1>2, <2>3
    <2> QED  BY <2>3, <2>4
  <1> HIDE DEF f
  <1>7. f \in Surjection(O, 1 .. h)
    BY <1>5, <1>6 DEF Surjection
  <1>8. Cardinality(1 .. h) <= Cardinality(O)
    BY <1>4, <1>7, FS_Surjection
  <1>9. Cardinality(1 .. h) = h
    BY FS_Interval
  <1> QED  BY <1>4, <1>8, <1>9 DEF O

LEMMA RowCount == Cardinality(Rows) \in Nat /\ IsFiniteSet(Rows)
  BY RowsAre, RowsFinite

\* What the halving leaves, when all rows are cached.
LEMMA HalfLeft ==
  ASSUME TypeOK, Known, Exporting, DeleteHalf
  PROVE  /\ Cardinality(Rows)' \in Nat
         /\ Cardinality(Rows)' <= Cardinality(Rows) - (Cardinality(Rows) \div 2)
  <1> DEFINE n == Cardinality(Rows)
             half == Older(n \div 2)
             gone == {a \in half : cache[a] # None}
  <1>1. Rows' = Rows \ gone /\ half \in SUBSET Rows /\ export = MaxAlarms + 1 /\ export # None
    BY HalfFacts
  <1>2. \A a \in Rows : cache[a] # None
    <2>1. \A a \in Rows : a < MaxAlarms + 1
      BY Bounds DEF Rows, AlarmId
    <2> QED  BY <1>1, <2>1 DEF Exporting
  <1>3. n \in Nat /\ IsFiniteSet(Rows) /\ Rows \in Places
    BY RowCount, RowsAre, RowsFinite
  <1>4. n \div 2 \in Nat /\ n \div 2 <= n
    <2> HIDE DEF n
    <2> QED  BY <1>3
  <1>5. n \div 2 <= Cardinality(half) /\ Cardinality(half) \in Nat
    BY <1>3, <1>4, OlderMany DEF Older
  <1> HIDE DEF half, n
  <1>6. gone = half
    BY <1>1, <1>2
  <1>7. Rows \cap half = half /\ Rows' = Rows \ half
    BY <1>1, <1>6
  <1>8. Cardinality(Rows \ half) = Cardinality(Rows) - Cardinality(half)
    BY <1>3, <1>7, FS_Difference
  <1>9. Cardinality(Rows') = n - Cardinality(half)
    BY <1>7, <1>8 DEF n
  <1>10. IsFiniteSet(Rows \ half) /\ Cardinality(Rows \ half) \in Nat
    BY <1>3, FS_Difference, FS_CardinalityType
  <1>11. Cardinality(Rows') \in Nat /\ Cardinality(Rows') <= n - (n \div 2)
    BY <1>3, <1>4, <1>5, <1>7, <1>9, <1>10
  <1> QED  BY <1>11 DEF n

\* The records since the last start are counted as far as it counts, and a start
\* lets CheckCounter records more into the table at most.
Limit == MaxRecord + restarts * CheckCounter

Counted ==
    LET n == Cardinality(Rows)
    IN  /\ restarts = 0 => counter >= n \/ counter >= CheckCounter
        /\ n <= Limit
        /\ n >= MaxRecord /\ ~notice /\ export = None
             => n + (CheckCounter - counter) <= Limit

\* Starts are few for the limit of the table.
Few == CheckCounter <= MaxRecord /\ MaxRestarts * CheckCounter <= MaxRecord - 2

\* The table never grows to twice its limit before it is exported.
Roomy == 2 <= MaxRecord /\ (MaxAlarms <= 2 * MaxRecord - 2 \/ Few)

LEMMA Times ==
  ASSUME NEW a \in Nat, NEW b \in Nat, NEW c \in Nat
  PROVE  /\ a * c \in Nat /\ (a + 1) * c = a * c + c /\ 0 * c = 0
         /\ a <= b => a * c <= b * c
  <1>1. a * c \in Nat /\ (a + 1) * c = a * c + c /\ 0 * c = 0
    OBVIOUS
  <1>2. ASSUME a <= b PROVE a * c <= b * c
    <2>1. b - a \in Nat
      BY <1>2
    <2>2. (b - a) * c \in Nat /\ b * c = a * c + (b - a) * c
      BY <2>1
    <2> QED  BY <1>1, <2>2
  <1> QED  BY <1>1, <1>2

LEMMA LimitIs ==
  ASSUME TypeOK
  PROVE  /\ Limit \in Nat /\ MaxRecord <= Limit
         /\ Few => Limit <= 2 * MaxRecord - 2
  <1>1. restarts \in Nat /\ restarts <= MaxRestarts /\ MaxRestarts \in Nat
        /\ CheckCounter \in Nat /\ MaxRecord \in Nat
    BY Bounds DEF TypeOK
  <1>2. restarts * CheckCounter \in Nat
        /\ restarts * CheckCounter <= MaxRestarts * CheckCounter
        /\ MaxRestarts * CheckCounter \in Nat
    BY <1>1, Times
  <1>3. Few => restarts * CheckCounter <= MaxRecord - 2
    BY <1>1, <1>2 DEF Few
  <1> QED  BY <1>1, <1>2, <1>3 DEF Limit

\* Few records are in the table.
LEMMA TableRoomy ==
  ASSUME TypeOK, Roomy, Few => Counted
  PROVE  Cardinality(Rows) <= 2 * MaxRecord - 2
  <1>1. CASE MaxAlarms <= 2 * MaxRecord - 2
    <2>1. IsFiniteSet(1 .. MaxAlarms) /\ Cardinality(1 .. MaxAlarms) = MaxAlarms
      BY Bounds, FS_Interval
    <2>2. Cardinality(Rows) <= MaxAlarms
      BY <2>1, RowsAre, FS_Subset DEF AlarmId
    <2> QED  BY <1>1, <2>2, RowCount, Bounds
  <1>2. CASE Few
    BY <1>2, RowCount, LimitIs, Bounds DEF Counted
  <1> QED  BY <1>1, <1>2 DEF Roomy

\* The steps that neither add nor delete.
LEMMA RowsStay ==
  ASSUME TypeOK, Known, [Next]_vars, ~DeleteHalf, ~Restart, ~(\E m \in Machine : HandleFirst(m))
  PROVE  /\ Rows' = Rows /\ UNCHANGED <<counter, restarts>>
         /\ ~notice' /\ export' = None => ~notice /\ export = None
  <1>0. None \notin AlarmId /\ MaxAlarms + 1 # None /\ 1 # None
        /\ \A a \in AlarmId : a + 1 # None
    BY Bounds DEF AlarmId
  <1>1. CASE Quiet
    BY <1>0, <1>1, QuietFacts DEF Rows
  <1>2. ASSUME NEW m \in Machine, EventBegins(m)
        PROVE  Rows' = Rows /\ UNCHANGED <<counter, restarts, notice, export>>
    BY <1>2, JoinFacts DEF exports
  <1>3. CASE Writes
    <2>1. Rows' = Rows
      BY <1>3, WritesEdits, UiAlarm, EditsFacts
    <2> QED  BY <1>3, <2>1, WritesFrame DEF exports
  <1>4. ASSUME NEW a \in AlarmId, HandleFromHistory(a)
        PROVE  Rows' = Rows /\ UNCHANGED <<counter, restarts, notice, export>>
    BY <1>4 DEF HandleFromHistory, exports, counts, Rows
  <1>5. CASE Read
    <2>1. export' # None
      BY <1>0, <1>5, ReadFacts DEF Rows
    <2> QED  BY <1>5, <2>1 DEF Read, records, counts, Rows
  <1>6. CASE Store
    <2>1. export' # None
      <3>1. export \in AlarmId
        BY <1>6 DEF Store, Known, Rows
      <3> QED  BY <1>0, <1>6, <3>1 DEF Store
    <2> QED  BY <1>6, <2>1 DEF Store, counts, Rows
  <1> QED  BY <1>1, <1>2, <1>3, <1>4, <1>5, <1>6, NextIs

\* The count after a record is added: c and n are the counter and the number of rows.
LEMMA CountAdd ==
  ASSUME NEW n \in Nat, NEW c \in Nat, NEW d \in Nat, NEW C \in Nat, NEW R \in Nat,
         NEW L \in Nat, R <= L, d = IF c + 1 <= C + 1 THEN c + 1 ELSE C + 1,
         n <= L, n >= R => n + (C - c) <= L /\ c < C,
         c >= n \/ c >= C \/ R + C <= L, C <= R, c <= C + 1
  PROVE  /\ n + 1 <= L
         /\ n + 1 >= R /\ ~(d >= C /\ n + 1 >= R) => n + 1 + (C - d) <= L
         /\ c >= n \/ c >= C => d >= n + 1 \/ d >= C
  OBVIOUS

LEMMA LimitStep ==
  ASSUME Roomy, TypeOK, TypeOK', Known, Exporting, LimitSeen, Few => Counted, [Next]_vars
  PROVE  LimitSeen' /\ (Few => Counted')
  <1> DEFINE n == Cardinality(Rows)
  <1>0. /\ n \in Nat /\ IsFiniteSet(Rows) /\ CheckCounter \in Nat /\ MaxRecord \in Nat
        /\ counter \in Nat /\ counter <= CheckCounter + 1
        /\ Limit \in Nat /\ MaxRecord <= Limit
    <2>1. n \in Nat /\ IsFiniteSet(Rows) /\ Limit \in Nat /\ MaxRecord <= Limit
      BY RowCount, LimitIs
    <2>2. counter \in 0 .. CheckCounter + 1 /\ CheckCounter \in Nat /\ MaxRecord \in Nat
      BY Bounds DEF TypeOK
    <2>3. counter \in Nat /\ counter <= CheckCounter + 1
      BY <2>2
    <2> QED  BY <2>1, <2>2, <2>3
  <1>1. ASSUME ~DeleteHalf, ~Restart, ~(\E m \in Machine : HandleFirst(m))
        PROVE  LimitSeen' /\ (Few => Counted')
    <2>1. /\ Rows' = Rows /\ UNCHANGED <<counter, restarts>>
          /\ ~notice' /\ export' = None => ~notice /\ export = None
      BY <1>1, RowsStay
    <2>2. Limit' = Limit /\ Cardinality(Rows') = n
      BY <2>1 DEF Limit
    <2> HIDE DEF n
    <2>3. LimitSeen'
      <3>1. n >= MaxRecord => notice \/ export # None \/ counter < CheckCounter
        BY DEF LimitSeen, n
      <3>2. LimitSeen' <=> (n >= MaxRecord => notice' \/ export' # None \/ counter' < CheckCounter)
        BY <2>2 DEF LimitSeen
      <3> QED  BY <2>1, <3>1, <3>2
    <2>4. ASSUME Few PROVE Counted'
      <3>1. /\ restarts = 0 => counter >= n \/ counter >= CheckCounter
            /\ n <= Limit
            /\ n >= MaxRecord /\ ~notice /\ export = None
                 => n + (CheckCounter - counter) <= Limit
        BY <2>4 DEF Counted, n
      <3> QED  BY <2>1, <2>2, <3>1 DEF Counted
    <2> QED  BY <2>3, <2>4
  <1>2. ASSUME NEW m \in Machine, HandleFirst(m) PROVE LimitSeen' /\ (Few => Counted')
    <2> DEFINE d == IF counter + 1 <= CheckCounter + 1 THEN counter + 1 ELSE CheckCounter + 1
    <2>1. Rows' = Rows \cup {ids + 1} /\ ids + 1 \notin Rows
          /\ ~notice /\ export = None /\ export' = None /\ restarts' = restarts
      BY <1>2, FirstFacts DEF exports
    <2>2. Cardinality(Rows') = n + 1
      BY <1>0, <2>1, FS_AddElement
    <2>3. counter' = d
      <3>1. counter' = Min({counter + 1, CheckCounter + 1})
        BY <1>2 DEF HandleFirst, AddAlarm
      <3>2. counter + 1 \in Nat /\ CheckCounter + 1 \in Nat
        BY <1>0
      <3> QED  BY <3>1, <3>2, MinOfTwo
    <2>4. d \in Nat
      BY <1>0
    <2>5. notice' = (counter' >= CheckCounter /\ n + 1 >= MaxRecord)
      BY <1>2 DEF HandleFirst, AddAlarm, Look
    <2> HIDE DEF n, d
    <2>6. LimitSeen'
      <3>1. LimitSeen' <=> (n + 1 >= MaxRecord => notice' \/ export' # None \/ d < CheckCounter)
        BY <2>2, <2>3 DEF LimitSeen
      <3>2. d >= CheckCounter \/ d < CheckCounter
        BY <1>0, <2>4
      <3> QED  BY <2>3, <2>5, <3>1, <3>2
    <2>7. ASSUME Few PROVE Counted'
      <3>1. Limit' = Limit
        BY <2>1 DEF Limit
      <3>2. restarts # 0 => MaxRecord + CheckCounter <= Limit
        <4>1. restarts \in Nat
          BY Bounds DEF TypeOK
        <4>2. restarts # 0 => 1 <= restarts
          BY <4>1
        <4>3. restarts # 0 => 1 * CheckCounter <= restarts * CheckCounter
          BY <1>0, <4>1, <4>2, Times
        <4>4. restarts * CheckCounter \in Nat /\ 1 * CheckCounter = CheckCounter
          BY <1>0, <4>1, Times
        <4> QED  BY <1>0, <4>3, <4>4 DEF Limit
      <3>3. /\ n <= Limit /\ CheckCounter <= MaxRecord
            /\ n >= MaxRecord => n + (CheckCounter - counter) <= Limit /\ counter < CheckCounter
            /\ counter >= n \/ counter >= CheckCounter \/ MaxRecord + CheckCounter <= Limit
        BY <2>1, <2>7, <3>2 DEF Counted, LimitSeen, Few, n
      <3>4. /\ n + 1 <= Limit
            /\ n + 1 >= MaxRecord /\ ~(d >= CheckCounter /\ n + 1 >= MaxRecord)
                 => n + 1 + (CheckCounter - d) <= Limit
            /\ counter >= n \/ counter >= CheckCounter => d >= n + 1 \/ d >= CheckCounter
        <4>1. d = IF counter + 1 <= CheckCounter + 1 THEN counter + 1 ELSE CheckCounter + 1
          BY DEF d
        <4> QED  BY <1>0, <2>4, <3>3, <4>1, CountAdd
      <3>5. restarts' = 0 => counter >= n \/ counter >= CheckCounter
        BY <2>1, <2>7 DEF Counted, n
      <3> QED  BY <2>2, <2>3, <2>5, <3>1, <3>4, <3>5 DEF Counted
    <2> QED  BY <2>6, <2>7
  <1>3. CASE DeleteHalf
    <2>1. n <= 2 * MaxRecord - 2
      BY TableRoomy
    <2>2. Cardinality(Rows') \in Nat /\ Cardinality(Rows') <= n - (n \div 2)
      BY <1>3, HalfLeft
    <2>3. UNCHANGED <<counter, restarts>>
      BY <1>3 DEF DeleteHalf, counts
    <2> HIDE DEF n
    <2>4. Cardinality(Rows') < MaxRecord /\ Cardinality(Rows') <= n
      BY <1>0, <2>1, <2>2
    <2>5. ~(Cardinality(Rows') >= MaxRecord)
      BY <1>0, <2>2, <2>4
    <2>6. LimitSeen'
      BY <2>5 DEF LimitSeen
    <2>7. ASSUME Few PROVE Counted'
      <3>1. Limit' = Limit
        BY <2>3 DEF Limit
      <3>2. /\ Cardinality(Rows') <= Limit
            /\ counter >= n => counter >= Cardinality(Rows')
        BY <1>0, <2>2, <2>4
      <3>3. restarts = 0 => counter >= n \/ counter >= CheckCounter
        BY <2>7 DEF Counted, n
      <3> QED  BY <2>3, <2>5, <3>1, <3>2, <3>3 DEF Counted
    <2> QED  BY <2>6, <2>7
  <1>4. CASE Restart
    <2>1. Rows' = Rows /\ counter' = 0 /\ restarts' = restarts + 1
      BY <1>4 DEF Restart, Rows
    <2>2. 0 < CheckCounter
      BY Bounds
    <2>3. LimitSeen'
      BY <2>1, <2>2 DEF LimitSeen
    <2>4. restarts \in Nat /\ restarts' # 0
      BY <2>1, Bounds DEF TypeOK
    <2>5. Limit' = Limit + CheckCounter
      <3>1. restarts * CheckCounter \in Nat
            /\ (restarts + 1) * CheckCounter = restarts * CheckCounter + CheckCounter
        BY <1>0, <2>4, Times
      <3> QED  BY <1>0, <2>1, <3>1 DEF Limit
    <2>6. Few => n <= Limit
      BY DEF Counted
    <2> HIDE DEF n
    <2>7. Few => n <= Limit' /\ n + (CheckCounter - counter') <= Limit'
      BY <1>0, <2>1, <2>5, <2>6
    <2> QED  BY <2>1, <2>3, <2>4, <2>7 DEF Counted, n
  <1> QED  BY <1>1, <1>2, <1>3, <1>4

\* When the table is full it is exported or the next records will see to it, the
\* second time as the first and after restarts, as long as the records that restarts
\* let in do not fill it twice over (check_counter_, MAX_ALARM_RECORD).
THEOREM LimitKept == Roomy => (Spec => []LimitSeen)
  <1> SUFFICES ASSUME Roomy PROVE Spec => []LimitSeen
    OBVIOUS
  <1>1. Init => Exporting /\ LimitSeen /\ (Few => Counted)
    <2> SUFFICES ASSUME Init PROVE Exporting /\ LimitSeen /\ (Few => Counted)
      OBVIOUS
    <2>1. Rows = {} /\ Cardinality(Rows) = 0
      <3>1. Rows = {}
        BY DEF Init, Rows
      <3> QED  BY <3>1, FS_EmptySet
    <2>2. TypeOK
      BY InitKnown
    <2>3. ~(0 >= MaxRecord) /\ 0 <= Limit /\ counter >= 0 /\ export = None
      BY <2>2, LimitIs, Bounds DEF Init
    <2> QED  BY <2>1, <2>3 DEF Exporting, LimitSeen, Counted
  <1>2. TypeOK /\ TypeOK' /\ Known /\ Exporting /\ LimitSeen /\ (Few => Counted) /\ [Next]_vars
          => Exporting' /\ LimitSeen' /\ (Few => Counted)'
    BY LimitStep, ExportingStep
  <1> QED  BY <1>1, <1>2, Reached, PTL DEF Spec

=============================================================================
