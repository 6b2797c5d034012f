--------------------------- MODULE HistoryRecord ---------------------------
(***************************************************************************)
(* The history (HistoryRecord.cpp).  Any thread puts records into a buffer, *)
(* a worker moves the buffer to the table, and when the table is nearly full *)
(* the user interface exports it and deletes its older half.  Who is logged *)
(* in (UserInfo.cpp) is asked for each record and observed by the history,  *)
(* which writes records of the change: two locks are taken in two orders.   *)
(*                                                                          *)
(* m_csLock is held within single steps only and is not a variable: whoever *)
(* has it asks for nothing else.                                            *)
(***************************************************************************)
EXTENDS Integers, Sequences, FiniteSets, SequencesExt, Subsequences

CONSTANTS
    Writer,       \* the threads that insert records: network, machines' worker
    UI,           \* the thread of the user interface, which inserts records too
    Worker,       \* the history's own thread
    Machine,      \* the machines
    User,         \* the users
    None,
    MaxHistory,   \* MAX_HISTORY_RECORD
    CheckPoint,   \* CHECK_POINT
    MaxRecords,   \* bound on the records of a behaviour
    MaxLogins,    \* bound on the logins
    MaxStops,     \* bound on crashes and exits
    MaxDialogs    \* bound on the export dialogs open at a time

ASSUME NameAssumption == /\ None \notin Writer \cup {UI, Worker} \cup Machine
                         /\ UI \notin Writer \cup {Worker} /\ Worker \notin Writer
ASSUME BoundAssumption == /\ {MaxHistory, CheckPoint, MaxRecords} \subseteq Nat \ {0}
                          /\ {MaxLogins, MaxStops, MaxDialogs} \subseteq Nat

VARIABLES
    cur_user,     \* cur_user_ of the user manager
    cur_user_info, \* m_curUserInfo, the user the history has observed
    userLock,     \* the holder of lock_for_cur_user_
    bufferLock,   \* the holder of m_lock4BufferedRecordList
    pc,           \* where each thread is in InsertRecord
    told,         \* records of a login that are still to be inserted
    buffer,       \* m_bufferedRecordList
    flushed,      \* how many of them the worker has put into the table
    table,        \* table_history_record in the order of ids
    total,        \* m_nTotalRecord
    counter,      \* m_nRecordCounter
    holes,        \* the records of deleted machines whose ids are not used again
    tmp,          \* whether a rebuild was cut short, and which table it left
    notices,      \* WM_NEED_TO_EXPORT_HR messages not yet handled
    dialogs,      \* the export dialogs, outermost first
    file,         \* the records in exported files
    written,      \* how many records there have been
    logins, stops

locks == <<userLock, bufferLock>>
users == <<cur_user, cur_user_info, told>>
rows  == <<table, total, counter, holes, tmp>>
vars  == <<locks, users, pc, buffer, flushed, rows, notices, dialogs, file, written,
           logins, stops>>

Thread == Writer \cup {UI}

\* A record is told from others by its number; the system's own are of no machine.
Record == [number : 1..MaxRecords, machine : Machine \cup {None}]

System(n) == [number |-> n, machine |-> None]

\* The constructor observes the user who is logged in and records it.
Init == /\ \E u \in User : cur_user = u /\ cur_user_info = u
        /\ userLock = None /\ bufferLock = None
        /\ pc = [t \in Thread |-> "idle"] /\ told = 0
        /\ buffer = <<System(1)>> /\ flushed = 0
        /\ table = <<>> /\ total = 0 /\ counter = 0 /\ holes = {} /\ tmp = "none"
        /\ notices = 0 /\ dialogs = <<>> /\ file = {}
        /\ written = 1 /\ logins = 0 /\ stops = 0

-----------------------------------------------------------------------------
(* Inserting records, and logging in.                                      *)

\* InsertRecord takes the buffer...
TakeBuffer(t) ==
    /\ pc[t] \in {"idle", "insert"} /\ bufferLock = None
    /\ written < MaxRecords
    /\ bufferLock' = t
    /\ pc' = [pc EXCEPT ![t] = "push"]
    /\ UNCHANGED <<userLock, users, buffer, flushed, rows, notices, dialogs, file,
                   written, logins, stops>>

\* ... and asks who is logged in before it puts the record there.  A login goes
\* on with the second of its records, of the user it has now observed, and ends.
Push(t) ==
    /\ pc[t] = "push" /\ userLock \in {None, t}
    /\ \E m \in IF told > 0 /\ t = UI THEN {None} ELSE Machine \cup {None} :
          buffer' = Append(buffer, [number |-> written + 1, machine |-> m])
    /\ written' = written + 1
    /\ bufferLock' = None
    /\ IF t = UI /\ told > 0
       THEN /\ told' = told - 1
            /\ cur_user_info' = cur_user
            /\ userLock' = IF told = 1 THEN None ELSE userLock
            /\ pc' = [pc EXCEPT ![t] = IF told = 1 THEN "idle" ELSE "insert"]
       ELSE pc' = [pc EXCEPT ![t] = "idle"] /\ UNCHANGED <<told, cur_user_info, userLock>>
    /\ UNCHANGED <<cur_user, flushed, rows, notices, dialogs, file, logins, stops>>

\* user_manager::login notifies the history with the lock held.
Login(u) ==
    /\ pc[UI] = "idle" /\ userLock = None /\ logins < MaxLogins
    /\ logins' = logins + 1
    /\ cur_user' = u
    /\ IF u = cur_user_info THEN UNCHANGED <<userLock, told, pc>>
       ELSE userLock' = UI /\ told' = 2 /\ pc' = [pc EXCEPT ![UI] = "insert"]
    /\ UNCHANGED <<cur_user_info, bufferLock, buffer, flushed, rows, notices, dialogs,
                   file, written, stops>>

-----------------------------------------------------------------------------
(* The worker.                                                             *)

\* mutant: the worker waits for more records
FlushBeginMany ==
    /\ bufferLock = None /\ Len(buffer) > 1
    /\ bufferLock' = Worker
    /\ UNCHANGED <<userLock, users, pc, buffer, flushed, rows, notices, dialogs, file,
                   written, logins, stops>>

\* It tries the buffer's lock each second.
FlushBegin ==
    /\ bufferLock = None /\ buffer # <<>>
    /\ bufferLock' = Worker
    /\ UNCHANGED <<userLock, users, pc, buffer, flushed, rows, notices, dialogs, file,
                   written, logins, stops>>

\* mutant: the front of the list is taken each time
NextFlushedFront == flushed' = IF flushed = 0 THEN 0 ELSE flushed + 1

NextFlushed == flushed' = flushed + 1

\* InsertRecordPrivate.  Each CheckPoint-th record looks at the limit.  Without a
\* table the statement throws, and the program ends.
FlushOne ==
    /\ bufferLock = Worker /\ flushed < Len(buffer) /\ tmp # "only"
    /\ NextFlushed
    /\ table' = Append(table, buffer[flushed + 1])
    /\ total' = total + 1
    /\ IF counter + 1 < CheckPoint THEN counter' = counter + 1 /\ UNCHANGED notices
       ELSE /\ counter' = 0
            /\ notices' = IF MaxHistory - total' <= CheckPoint THEN notices + 1 ELSE notices
    /\ UNCHANGED <<locks, users, pc, buffer, holes, tmp, dialogs, file, written, logins,
                   stops>>

\* mutant: the place in the buffer is not reset
FlushEndThere ==
    /\ bufferLock = Worker /\ flushed = Len(buffer)
    /\ bufferLock' = None
    /\ buffer' = <<>> /\ UNCHANGED flushed
    /\ UNCHANGED <<userLock, users, pc, rows, notices, dialogs, file, written, logins, stops>>

FlushEnd ==
    /\ bufferLock = Worker /\ flushed = Len(buffer)
    /\ bufferLock' = None
    /\ buffer' = <<>> /\ flushed' = 0
    /\ UNCHANGED <<userLock, users, pc, rows, notices, dialogs, file, written, logins, stops>>

-----------------------------------------------------------------------------
(* The export.  A dialog's message loop lets the next notice, or anything  *)
(* else of the user interface, in.                                         *)

OpenDialog ==
    /\ pc[UI] = "idle" /\ notices > 0 /\ Len(dialogs) < MaxDialogs
    /\ notices' = notices - 1
    /\ dialogs' = Append(dialogs, "running")
    /\ UNCHANGED <<locks, users, pc, buffer, flushed, rows, file, written, logins, stops>>

\* mutant: the first row is left out
ExportedButFirst == ToSet(SubSeq(table, 2, Len(table)))

Exported == ToSet(table)

\* The dialog's thread writes all the rows to a file.
Traverse(i) ==
    /\ dialogs[i] = "running"
    /\ dialogs' = [dialogs EXCEPT ![i] = "over"]
    /\ file' = file \cup Exported
    /\ UNCHANGED <<locks, users, pc, buffer, flushed, rows, notices, written, logins, stops>>

\* mutant: the total is left
TotalStays(num) ==
    /\ table' = SubSeq(table, num + 1, Len(table))
    /\ counter' = 0 /\ UNCHANGED <<total, holes, tmp>>

OlderHalfGoes(num) ==
    /\ table' = SubSeq(table, num + 1, Len(table))
    /\ total' = total - num
    /\ counter' = 0
    /\ UNCHANGED <<holes, tmp>>

\* DeleteHalfRecored, by the dialog's timer.
DeleteHalf(i) ==
    /\ pc[UI] = "idle" /\ dialogs[i] = "over"
    /\ dialogs' = [dialogs EXCEPT ![i] = "closed"]
    /\ IF total \div 2 > 0 THEN OlderHalfGoes(total \div 2) ELSE UNCHANGED rows
    /\ UNCHANGED <<locks, users, pc, buffer, flushed, notices, file, written, logins, stops>>

\* The innermost dialog returns and its export is recorded.
CloseDialog ==
    /\ pc[UI] = "idle" /\ dialogs # <<>> /\ Last(dialogs) = "closed"
    /\ dialogs' = Front(dialogs)
    /\ pc' = [pc EXCEPT ![UI] = "insert"]
    /\ UNCHANGED <<locks, users, buffer, flushed, rows, notices, file, written, logins, stops>>

\* DeleteRecordByMachine: what is still buffered stays.
DeleteRecordByMachine(m) ==
    LET others == {i \in DOMAIN table : table[i].machine # m}
    IN  /\ pc[UI] = "idle"
        /\ others # DOMAIN table
        /\ table' = Picked(table, others)
        /\ total' = Len(table')
        /\ counter' = 0
        /\ holes' = holes \cup {table[i].number : i \in DOMAIN table \ others}
        /\ UNCHANGED <<locks, users, pc, buffer, flushed, tmp, notices, dialogs, file,
                       written, logins, stops>>

-----------------------------------------------------------------------------
(* The end of the program and the next.                                    *)

\* Two rows are found whose ids do not follow each other.
Gap(found) == \E d \in holes : \E i, j \in DOMAIN found :
                 found[i].number < d /\ d < found[j].number

\* The constructor then copies the rows to a table tmp, drops their own and renames
\* the copy.  A crash before the drop leaves a copy that makes each later attempt
\* fail; one before the renaming leaves nothing else.
Rebuilt(found) ==
    LET rebuild == Gap(found) /\ tmp = "none"
    IN  \/ /\ table' = found /\ UNCHANGED tmp
           /\ holes' = IF rebuild THEN {} ELSE holes
        \/ /\ rebuild /\ UNCHANGED holes
           /\ \/ tmp' = "left" /\ table' = found
              \/ tmp' = "only" /\ table' = <<>>

\* The constructor counts the rows it finds.
Restarted(found) ==
    /\ stops < MaxStops /\ written < MaxRecords
    /\ stops' = stops + 1
    /\ \E u \in User : cur_user' = u /\ cur_user_info' = u
    /\ userLock' = None /\ bufferLock' = None
    /\ pc' = [t \in Thread |-> "idle"] /\ told' = 0
    /\ buffer' = <<System(written + 1)>> /\ flushed' = 0
    /\ written' = written + 1
    /\ Rebuilt(found) /\ total' = Len(table') /\ counter' = 0
    /\ notices' = 0 /\ dialogs' = <<>>
    /\ UNCHANGED <<file, logins>>

\* The buffer is lost.
Crash == Restarted(table)

\* The destructor joins the worker and inserts what is left.
Exit ==
    /\ \A t \in Thread : pc[t] = "idle"
    /\ dialogs = <<>> /\ bufferLock # Worker /\ tmp # "only"
    /\ Restarted(table \o buffer)

-----------------------------------------------------------------------------

Next == \/ \E t \in Thread : TakeBuffer(t) \/ Push(t)
        \/ \E u \in User : Login(u)
        \/ FlushBegin \/ FlushOne \/ FlushEnd
        \/ OpenDialog \/ CloseDialog
        \/ \E i \in DOMAIN dialogs : Traverse(i) \/ DeleteHalf(i)
        \/ \E m \in Machine : DeleteRecordByMachine(m)
        \/ Crash \/ Exit

Spec == Init /\ [][Next]_vars

\* Every thread goes on with what it has begun, and the worker comes back to the
\* buffer.
FairSpec == /\ Spec
            /\ \A t \in Thread : WF_vars(Push(t))
            /\ WF_vars(pc[UI] = "insert" /\ TakeBuffer(UI))
            /\ WF_vars(FlushBegin) /\ WF_vars(FlushOne) /\ WF_vars(FlushEnd)

-----------------------------------------------------------------------------
(* Properties.                                                             *)

TypeOK ==
    /\ {cur_user, cur_user_info} \subseteq User
    /\ userLock \in {None, UI} /\ bufferLock \in Thread \cup {None, Worker}
    /\ pc \in [Thread -> {"idle", "insert", "push"}]
    /\ told \in 0..2
    /\ buffer \in Seq(Record) /\ flushed \in 0..Len(buffer)
    /\ table \in Seq(Record)
    /\ total \in 0..MaxRecords /\ counter \in 0..CheckPoint - 1
    /\ holes \subseteq 1..MaxRecords /\ tmp \in {"none", "left", "only"}
    /\ notices \in 0..MaxRecords
    /\ dialogs \in Seq({"running", "over", "closed"}) /\ Len(dialogs) <= MaxDialogs
    /\ file \subseteq Record /\ written \in 1..MaxRecords
    /\ logins \in 0..MaxLogins /\ stops \in 0..MaxStops
    /\ \A t \in Thread : pc[t] = "push" <=> bufferLock = t
    /\ userLock = UI <=> told > 0
    /\ bufferLock # Worker => flushed = 0

\* The count of records, from which the limit is checked and the half computed,
\* is that of the table, over inserts, halvings, deletions of machines and
\* restarts (m_nTotalRecord).
TotalRight == total = Len(table)

\* Halving deletes a record that is in no file only when no exported one is left:
\* rows that came since the export are the last to go (DeleteHalfRecored).
ExportedGoFirst ==
    [][\A i \in DOMAIN dialogs :
          (dialogs[i] = "over" /\ i \in DOMAIN dialogs' /\ dialogs'[i] = "closed")
          => LET gone == ToSet(table) \ ToSet(table')
             IN  gone \subseteq file \/ ToSet(table') \cap file = {}]_vars

Pending == table \o SubSeq(buffer, flushed + 1, Len(buffer))

OfMachine(r) == r.machine

\* The table and what of the buffer is not yet in it are the abstract log: the
\* worker neither loses, repeats nor reorders a record, whatever else is going on.
Log == INSTANCE HistoryLog WITH log <- Pending, Of <- OfMachine
ImplementsHistoryLog == Log!Spec

\* A login that waits for the buffer while its holder waits to ask who is logged in.
Stuck == userLock = UI /\ pc[UI] = "insert" /\ \E t \in Writer : pc[t] = "push"

\* What is buffered is in the table in the end, unless a login and an insert
\* wait for each other or the table is gone (ThreadWorker).
BufferFlushed == \/ []<>(buffer = <<>> \/ flushed = Len(buffer))
                 \/ <>[](Stuck \/ tmp = "only")

\* A login comes to its end although other threads insert records: the buffer
\* does away with the deadlock of fast inserts (InsertRecord).
LoginReturns == userLock = UI ~> userLock = None

=============================================================================
