---------------------------- MODULE AlarmRecords ----------------------------
(***************************************************************************)
(* The records of alarms that are handled (alarm_handle_mgr.cpp) and the   *)
(* dialogs that write them.  An operator opens the alarm of a machine,     *)
(* gives a reason, a judgement and a guard, and leaves it hanging or clears *)
(* it; meanwhile events of the machine join its record, and when the table *)
(* is full all records are exported and the older half is deleted.  Every  *)
(* record in use is cached; what a step changes it changes in both.        *)
(*                                                                         *)
(* One thread handles events, one reads records for the export, and the    *)
(* dialogs, modal, are the user interface's.  Texts are numbers; of the    *)
(* states of a record only "cleared" is told from the others, and its user *)
(* is left out.                                                            *)
(***************************************************************************)
EXTENDS Integers, Sequences, FiniteSets, FiniteSetsExt

CONSTANTS
    Top,          \* a machine
    Sub,          \* its submachines
    None,
    Overlap,      \* other steps fall between the parts of an event or of the reading
    MaxRecord,    \* MAX_ALARM_RECORD
    CheckCounter, \* CHECK_COUNTER
    MaxAlarms,    \* bound on the records of a behaviour
    MaxTexts,     \* bound on the alarm events
    MaxEdits,     \* bound on the results confirmed and the restarts before them
    MaxRestarts   \* bound on crashes and restarts

Machine == {Top} \cup Sub

ASSUME NameAssumption == /\ None \notin Machine \cup Int /\ Top \notin Sub
                         /\ Overlap \in BOOLEAN
ASSUME BoundAssumption ==
    /\ {MaxRecord, CheckCounter} \subseteq Nat \ {0}
    /\ {MaxAlarms, MaxTexts, MaxEdits, MaxRestarts} \subseteq Nat

VARIABLES
    table,     \* table_alarm and table_alarm_text: the record of each id, or None
    cache,     \* buffered_alarms_
    child,     \* the tables of reasons, judgements and handlings: whose each row is
    counter,   \* check_counter_, as far as it counts
    alarm_id,  \* alarm_id_ of each machine, 0 for none
    alarming,  \* the machines that alarm
    listed,    \* the texts on each machine's maps
    event,     \* the event whose text is still to be listed
    ui,        \* the dialog of alarm handling that is open
    notice,    \* WM_NEED_TO_EXPORT_HR is posted
    export,    \* the id the export reads next
    row,       \* the row it has just read
    file,      \* the exported records
    reopened,  \* history: alarms edited from the history
    ids, texts, edits, restarts  \* how many of each there have been

records  == <<table, cache, child>>
machines == <<alarm_id, alarming, listed>>
exports  == <<export, row, file>>
counts   == <<ids, texts, edits, restarts>>
vars == <<records, counter, machines, event, ui, notice, exports, reopened, counts>>

Kind == {"reason", "judgement", "handle"}

AlarmId == 1..MaxAlarms

\* A record names its rows by their numbers, 0 for none.
Record == [machine : Machine, cleared : BOOLEAN, texts : SUBSET (1..MaxTexts),
           reason : Nat, judgement : Nat, handle : Nat]

ASSUME RecordAssumption == None \notin Record

Stage == {"first", "judge true", "judge false", "guard", "result"}

Init == /\ table = [a \in AlarmId |-> None] /\ cache = table
        /\ child = [k \in Kind |-> <<>>]
        /\ counter = 0
        /\ alarm_id = [m \in Machine |-> 0] /\ alarming = {}
        /\ listed = [m \in Machine |-> {}]
        /\ event = None /\ ui = None
        /\ notice = FALSE /\ export = None /\ row = None /\ file = {}
        /\ reopened = {}
        /\ ids = 0 /\ texts = 0 /\ edits = 0 /\ restarts = 0

Rows == {a \in AlarmId : table[a] # None}

\* Nobody is between two parts of an event or of the reading, or it does not matter.
Undivided == Overlap \/ (event = None /\ export \notin AlarmId)

-----------------------------------------------------------------------------
(* The manager.                                                            *)

\* get_alarm_info when the record is not cached reads the columns from the user's
\* on: its first column is taken for the judgement and so forth.
Misread(r) == [r EXCEPT !.judgement = 1, !.handle = r.judgement,
                        !.reason = r.handle, !.cleared = FALSE]

AlarmInfo(a) == IF a \notin AlarmId THEN None
                ELSE IF cache[a] # None THEN cache[a]
                ELSE IF table[a] # None THEN Misread(table[a]) ELSE None

\* mutant: the cached record is left
CachedOld(old, new) == old

Cached(old, new) == new

\* An update F of record a, in the table and in the cache.
Update(a, F) ==
    LET r == AlarmInfo(a)
    IN  /\ table' = [table EXCEPT ![a] = IF @ = None THEN None ELSE F[@]]
        /\ cache' = [cache EXCEPT ![a] = IF r = None THEN None ELSE Cached(r, F[r])]

\* mutant: the number is taken before the insertion
LastRowBefore(k, rows) == Len(rows[k]) - 1

\* getLastInsertRowid.
LastRow(k, rows) == Len(rows[k])

Inserted(k, a) == [child EXCEPT ![k] = Append(@, a)]

\* mutant: the limit is looked at once
LookOnce(n) == n = CheckCounter

\* The limit is looked at after CheckCounter records.
Look(n) == n >= CheckCounter

\* execute_add_alarm with the texts listed for the machine.
AddAlarm(m) ==
    LET a   == ids + 1
        new == [machine |-> m, cleared |-> FALSE, texts |-> listed[m],
                reason |-> 0, judgement |-> 0, handle |-> 0]
    IN  /\ ids < MaxAlarms /\ ids' = ids + 1
        /\ table' = [table EXCEPT ![a] = new]
        /\ cache' = [cache EXCEPT ![a] = new]
        /\ alarm_id' = [alarm_id EXCEPT ![m] = a]
        /\ ui' = [stage |-> "first", alarm |-> a, machine |-> m]
        /\ counter' = Min({counter + 1, CheckCounter + 1})
        /\ notice' = (Look(counter') /\ Cardinality(Rows) + 1 >= MaxRecord)

-----------------------------------------------------------------------------
(* Events.                                                                 *)

\* mutant: the record of the machine itself takes the texts of its submachines
JoinedTop(m) == alarm_id[Top]

Joined(m) == alarm_id[m]

\* An alarm of m joins the record that is being handled ...
EventBegins(m) ==
    /\ Undivided /\ event = None
    /\ texts < MaxTexts /\ texts' = texts + 1
    /\ event' = [machine |-> m, text |-> texts']
    /\ alarming' = alarming \cup {Top}
    /\ LET a == Joined(m)
           Join[r \in Record] == [r EXCEPT !.texts = @ \cup {texts'}]
       IN  IF a = 0 THEN UNCHANGED <<table, cache>>
           ELSE Update(a, Join)
    /\ UNCHANGED <<child, counter, alarm_id, listed, ui, notice, exports, reopened,
                   ids, edits, restarts>>

\* ... and is listed on the maps.
EventEnds ==
    /\ event # None
    /\ listed' = [listed EXCEPT ![event.machine] = @ \cup {event.text}]
    /\ alarming' = alarming \cup {event.machine}
    /\ event' = None
    /\ UNCHANGED <<records, counter, alarm_id, ui, notice, exports, reopened, counts>>

-----------------------------------------------------------------------------
(* The dialogs.  A posted message comes before input, and a dialog disables *)
(* the main window.                                                         *)

Input == Undivided /\ ~notice

MainInput == Input /\ ui = None /\ export = None

\* The machines of S are cleared.
Clear(S) == /\ alarming' = alarming \ S
            /\ listed' = [m \in Machine |-> IF m \in S THEN {} ELSE listed[m]]

\* Which machines are cleared with m: when the last alarming submachine is, so
\* is its machine if it has no alarm of its own (the count is AlarmMachine's).
With(m) == IF m \notin alarming THEN {{}}
           ELSE IF m \in Sub /\ listed[Top] = {} THEN {{m}, {m, Top}} ELSE {{m}}

\* clear_ademco_event_list from a menu, with the submachines not being handled.
ClearMsg(m) ==
    /\ MainInput /\ m \in alarming /\ alarm_id[m] = 0
    /\ IF m = Top THEN Clear({Top} \cup {s \in Sub : alarm_id[s] = 0})
       ELSE \E S \in With(m) : Clear(S)
    /\ UNCHANGED <<records, counter, alarm_id, event, ui, notice, exports, reopened,
                   counts>>

\* The first dialog opens on a machine without a record, if it has texts.
HandleFirst(m) ==
    /\ MainInput /\ m \in alarming
    /\ alarm_id[m] = 0 /\ listed[m] # {}
    /\ AddAlarm(m)
    /\ UNCHANGED <<child, alarming, listed, event, exports, reopened,
                   texts, edits, restarts>>

\* The result of a hanging alarm.
HandleAgain(m) ==
    /\ MainInput /\ m \in alarming
    /\ alarm_id[m] # 0 /\ AlarmInfo(alarm_id[m]) # None
    /\ ui' = [stage |-> "result", alarm |-> alarm_id[m], machine |-> m]
    /\ UNCHANGED <<records, counter, machines, event, notice, exports, reopened,
                   counts>>

\* The machine that the history takes a record for.
HistoryMachine(r) == Top

\* mutant: a cleared record is opened to be edited
EditableAny(r) == TRUE

Editable(r) == ~r.cleared

\* The history lists a record, which is then cached, and opens its result.
HandleFromHistory(a) ==
    /\ MainInput /\ table[a] # None
    /\ cache' = [cache EXCEPT ![a] = table[a]]
    /\ IF Editable(table[a])
       THEN /\ ui' = [stage |-> "result", alarm |-> a,
                      machine |-> HistoryMachine(table[a])]
            /\ reopened' = reopened \cup {a}
       ELSE UNCHANGED <<ui, reopened>>
    /\ UNCHANGED <<table, child, counter, machines, event, notice, exports, counts>>

At(stage) == Input /\ ui # None /\ ui.stage = stage

Goto(stage) == ui' = [ui EXCEPT !.stage = stage]

\* The dialog's OK or Cancel; what is done stays, the machine keeps its alarm id.
Cancel == /\ Input /\ ui # None
          /\ ui' = None
          /\ UNCHANGED <<records, counter, machines, event, notice, exports, reopened,
                         counts>>

\* handle_one adds a row for the reason and does not link it.
Reason(stage) ==
    /\ At("first")
    /\ child' = Inserted("reason", ui.alarm)
    /\ Goto(stage)
    /\ UNCHANGED <<table, cache, counter, machines, event, notice, exports, reopened,
                   counts>>

\* A judgement is added twice; the second is linked.
TwoJudgements == [child EXCEPT !.judgement = @ \o <<ui.alarm, ui.alarm>>]

Judged(cleared) ==
    LET Set[r \in Record] == [r EXCEPT !.judgement = LastRow("judgement", child'),
                                         !.cleared = cleared]
    IN  Update(ui.alarm, Set)

\* A test of the device needs no judgement of the operator.
TestDevice ==
    /\ At("first")
    /\ child' = [TwoJudgements EXCEPT !.reason = Append(@, ui.alarm)]
    /\ Judged(TRUE)
    /\ Goto("result")
    /\ UNCHANGED <<counter, machines, event, notice, exports, reopened, counts>>

\* The second dialog: a true alarm needs a guard, a false one is cleared.
Judge(stage, next) ==
    /\ At(stage)
    /\ child' = TwoJudgements
    /\ Judged(next = "result")
    /\ Goto(next)
    /\ UNCHANGED <<counter, machines, event, notice, exports, reopened, counts>>

\* The third dialog.
Guard ==
    /\ At("guard")
    /\ child' = Inserted("handle", ui.alarm)
    /\ LET Set[r \in Record] == [r EXCEPT !.handle = LastRow("handle", child'),
                                            !.cleared = FALSE]
       IN  Update(ui.alarm, Set)
    /\ Goto("result")
    /\ UNCHANGED <<counter, machines, event, notice, exports, reopened, counts>>

\* What the result writes: a new handling each time, or none, a row for the reason
\* if there is none, and one for the judgement.
Result(guard, judgement) ==
    LET r == AlarmInfo(ui.alarm)
        new == (IF guard THEN {"handle"} ELSE {})
               \cup (IF r.reason = 0 THEN {"reason"} ELSE {})
               \cup (IF judgement /\ r.judgement = 0 THEN {"judgement"} ELSE {})
    IN  [k \in Kind |-> IF k \in new THEN Append(child[k], ui.alarm)
                        ELSE IF k = "handle" /\ ~guard /\ r.handle # 0
                        THEN [child[k] EXCEPT ![r.handle] = 0]
                        ELSE child[k]]

Link(k, old) == IF Len(child'[k]) > Len(child[k]) THEN LastRow(k, child') ELSE old

\* The fourth dialog.  Without a valid judgement what was written before it stays
\* and the dialog, too.
Confirm(cleared, guard, valid) ==
    /\ At("result")
    /\ edits + restarts < MaxEdits /\ edits' = edits + 1
    /\ child' = Result(guard, valid)
    /\ LET Set[r \in Record] ==
                [r EXCEPT !.cleared = cleared,
                          !.handle = IF guard THEN Link("handle", r.handle) ELSE 0,
                          !.reason = Link("reason", r.reason),
                          !.judgement = Link("judgement", r.judgement)]
       IN  Update(ui.alarm, Set)
    /\ IF ~valid THEN UNCHANGED <<ui, machines>>
       ELSE /\ ui' = None
            /\ alarm_id' = [alarm_id EXCEPT ![ui.machine] =
                              IF cleared THEN 0 ELSE ui.alarm]
            /\ IF cleared THEN \E S \in With(ui.machine) : Clear(S)
               ELSE UNCHANGED <<alarming, listed>>
    /\ UNCHANGED <<counter, event, notice, exports, reopened, ids, texts, restarts>>

-----------------------------------------------------------------------------
(* The export, whose dialog may open over the first dialog.                *)

OpenExport ==
    /\ Undivided /\ notice
    /\ notice' = FALSE
    /\ export' = 1
    /\ UNCHANGED <<records, counter, machines, event, ui, row, file, reopened, counts>>

\* Its thread reads the rows one after the other ...
Read ==
    LET left == {a \in Rows : a >= export}
    IN  /\ export \in AlarmId /\ row = None
        /\ IF left = {} THEN export' = MaxAlarms + 1 /\ UNCHANGED row
           ELSE export' = Min(left) /\ row' = table[export']
        /\ UNCHANGED <<records, counter, machines, event, ui, notice, file, reopened,
                       counts>>

\* mutant: the file has the last row only
ExportedLast == {export}

Exported == file \cup {export}

\* ... and puts each into the cache.
Store ==
    /\ row # None
    /\ cache' = [cache EXCEPT ![export] = row]
    /\ file' = Exported
    /\ row' = None /\ export' = export + 1
    /\ UNCHANGED <<table, child, counter, machines, event, ui, notice, reopened, counts>>

\* mutants: the newer half; the whole cache is dropped
Newer(n) == {a \in Rows : Cardinality({b \in Rows : b > a}) < n}

CacheDropped(S) == [a \in AlarmId |-> None]

Older(n) == {a \in Rows : Cardinality({b \in Rows : b < a}) < n}

CacheWithout(S) == [a \in AlarmId |-> IF a \in S THEN None ELSE cache[a]]

\* delete_half_record, of the records that are cached, with the rows they name.
DeleteHalf ==
    LET half   == Older(Cardinality(Rows) \div 2)
        gone   == {a \in half : cache[a] # None}
        Named(k) == {cache[a][k] : a \in gone}
    IN  /\ Undivided /\ export = MaxAlarms + 1
        /\ export' = None
        /\ table' = [a \in AlarmId |-> IF a \in gone THEN None ELSE table[a]]
        /\ cache' = CacheWithout(half)
        /\ child' = [k \in Kind |-> [i \in DOMAIN child[k] |->
                        IF i \in Named(k) THEN 0 ELSE child[k][i]]]
        /\ UNCHANGED <<counter, machines, event, ui, notice, row, file, reopened, counts>>

\* The program ends, in whatever way, and starts again.
Restart ==
    /\ restarts < MaxRestarts /\ restarts' = restarts + 1
    /\ cache' = [a \in AlarmId |-> None]
    /\ counter' = 0
    /\ alarm_id' = [m \in Machine |-> 0] /\ alarming' = {}
    /\ listed' = [m \in Machine |-> {}]
    /\ event' = None /\ ui' = None /\ notice' = FALSE
    /\ export' = None /\ row' = None /\ reopened' = {}
    /\ UNCHANGED <<table, child, file, ids, texts, edits>>

-----------------------------------------------------------------------------

Dialogs == \/ Cancel
           \/ \E stage \in {"judge true", "judge false", "guard"} : Reason(stage)
           \/ TestDevice
           \/ Judge("judge true", "guard") \/ Judge("judge false", "result")
           \/ Guard
           \/ \E cleared, guard, valid \in BOOLEAN : Confirm(cleared, guard, valid)

Next == \/ \E m \in Machine : \/ EventBegins(m) \/ ClearMsg(m)
                              \/ HandleFirst(m) \/ HandleAgain(m)
        \/ \E a \in AlarmId : HandleFromHistory(a)
        \/ EventEnds
        \/ Dialogs
        \/ OpenExport \/ Read \/ Store \/ DeleteHalf
        \/ Restart

Spec == Init /\ [][Next]_vars

-----------------------------------------------------------------------------
(* Properties.                                                             *)

TypeOK ==
    /\ table \in [AlarmId -> Record \cup {None}]
    /\ cache \in [AlarmId -> Record \cup {None}]
    /\ child \in [Kind -> Seq(0..MaxAlarms)]
    /\ counter \in 0..CheckCounter + 1
    /\ alarm_id \in [Machine -> 0..ids]
    /\ alarming \subseteq Machine
    /\ listed \in [Machine -> SUBSET (1..texts)]
    /\ event \in [machine : Machine, text : 1..texts] \cup {None}
    /\ ui \in [stage : Stage, alarm : Rows, machine : Machine] \cup {None}
    /\ notice \in BOOLEAN
    /\ export \in 1..MaxAlarms + 1 \cup {None}
    /\ row \in Record \cup {None}
    /\ file \subseteq 1..ids /\ reopened \subseteq 1..ids
    /\ ids \in 0..MaxAlarms /\ texts \in 0..MaxTexts
    /\ edits \in 0..MaxEdits /\ restarts \in 0..MaxRestarts

\* A row that a record names is there and was written for it, however often the
\* record is handled and whatever the halving deletes (execute_update_alarm_*).
LinksRight == \A a \in Rows, k \in Kind :
    table[a][k] # 0 => table[a][k] \in DOMAIN child[k] /\ child[k][table[a][k]] = a

\* What is cached is what the table has.
CacheAgrees == \A a \in AlarmId : cache[a] # None => cache[a] = table[a]

\* A record at hand, of a machine or a dialog, is cached: the way of get_alarm_info
\* that reads the wrong columns is never taken.
LookupHits == /\ \A m \in Machine : alarm_id[m] \in Rows => cache[alarm_id[m]] # None
              /\ ui # None => cache[ui.alarm] # None

\* The record a machine is handled under is its own: what is done with the alarm of
\* a submachine does not touch that of its machine (set_alarm_id).
OwnRecord == \A m \in Machine : alarm_id[m] \in Rows => table[alarm_id[m]].machine = m

\* Alarms that come while another of the machine hangs join its record: all texts
\* shown for the machine are in it, unless the history has brought it back.
TextsJoin == \A m \in Machine :
    /\ event = None /\ alarm_id[m] \in Rows \ reopened
    => listed[m] \subseteq table[alarm_id[m]].texts

\* A record that is cleared, and that no dialog and no machine has any more, is
\* never changed or taken up again until it is deleted (read_only_).
Closed(a) == /\ a \in Rows /\ table[a].cleared
             /\ ui # None => ui.alarm # a
             /\ \A m \in Machine : alarm_id[m] # a

ClosedStays == [][\A a \in AlarmId : Closed(a) =>
                     \/ table'[a] = None
                     \/ table'[a] = table[a] /\ Closed(a)']_vars

\* Only exported records are deleted, the oldest first.
OldestGo == [][\A a \in Rows : table'[a] = None =>
                  /\ a \in file
                  /\ \A b \in Rows : b < a => table'[b] = None]_vars

\* When the table is full, its export is on its way or the records to come will
\* see to it, the second time as the first.
LimitSeen == Cardinality(Rows) >= MaxRecord =>
                notice \/ export # None \/ counter < CheckCounter

=============================================================================
