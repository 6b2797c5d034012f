# A verification development for AlarmCenter

AlarmCenter is the receiving centre of an alarm system: alarm hosts
("machines"), each with an *ademco id*, report over TCP that they are online,
armed or alarming; the program shows their state to an operator, sounds alarms,
keeps records, and sends commands back. It is one Windows process of some ten
threads (`src/AlarmCenter`), with helper processes for video and maps.

This directory holds TLA+ models of the parts where threads, connections and
bookkeeping meet, the configurations that check them with TLC, and proofs that
TLAPS checks. `PROJECT.json` maps every definition to the lines it models.

## Inventory

**Direct-connection server** (`ServerService.*`, `Server.*`). State: a pool of
`CClientData` objects, the list of outstanding clients (no event yet), the map
of living clients by ademco id, and in each object the link's flags, a queue of
tasks (commands with sequence numbers) and the next number. Threads: accept;
receive (polls both tables, handles packets, sends the first task, retries,
times out); any thread that sends a command. It calls the machine manager
(online, offline, events) and machines call it back (hang up, resume, kill).
Correct if an object is in one place, the map names the connection of each host,
a command stays with its machine until acknowledged or given up, numbers in a
queue are distinct, and dead links leave. Hard: the lock of the map is released
between finding a connection and using it; reconnects move a queue between
objects; recycling is by the id the object holds at that moment.

**Machine** (`AlarmMachine.*`). State: an online flag per channel (direct, two
transit servers), armed status, alarm flag, buffer mode and buffered events,
submachines with a count of the alarming ones, the id of the alarm being
handled, the callback of its connection. Operations: `SetAdemcoEvent` (any
network thread), clearing alarms (user), entering and leaving buffer mode (user,
worker thread). Correct if no event is lost or handled out of order by buffering
and the alarm state of machine and submachines agree. Hard: locks are taken in
both orders between machine and submachine, `try_lock` results are ignored.

**Groups** (`GroupInfo.*`). State: a tree and, per group, the counts of machines
below it, of those online and of those alarming. Operations: edits of the tree
(user), count updates (whoever handles an event), no locks. Correct if the tree
stays a tree, machines stay in it, and counts agree with machines. Hard: counts
are adjusted incrementally, in different ways by different edits.

**Machine manager** (`AlarmMachineManager.*`). State: machines by id, dummies for
unknown ids, remote-control commands that wait for a reply. A worker thread
expires all three and scans submachines. Correct if a reply and a timeout of a
command never both count, and machines in buffer mode come out of it.

**Transit-server client** (`Client.*`, two instances) and **network connector**
(`NetworkConnector.*`). State: a connection with timers for reconnecting, for
silence and for declaring a loss, a buffer of outgoing packets, a table from the
connection ids of the transit server to machines; per machine a private packet
that holds the id its commands go to. Threads: the client's own; the user
interface, which sends commands and stops and restarts the client. Correct if a
machine shown online has a live route, a packet is put down to the machine it
comes from, and losses and returns are noticed. Hard: entries that outlive their
connection, hosts that change ids, a machine online by two channels.

**Alarm records** (`alarm_handle_mgr.*` and its dialogs). State: a table of
records, a cache of those in use, tables of reasons, judgements and handlings
that records name by row number, and in each machine the id of its record.
Operations: four dialogs, each of which may be cancelled; events that join a
record; editing from the history; export and halving. Correct if links name the
right rows, cache and table agree and a closed record stays closed. Hard: every
update is made twice (table and cache), the halving works on cached rows only.

**History** (`HistoryRecord.*`, `ExportHrProcessDlg.*`, `UserInfo.cpp`). State: a
buffer, a table, the number of its rows, a counter that decides when the limit is
looked at, the observed user. Threads: any that inserts; the worker that flushes;
the user interface that logs in, exports and halves. Correct if records are
neither lost, repeated nor moved, the number of rows is right, unexported rows
are not deleted. Hard: two locks taken in both orders, a modal dialog that lets a
second notice in, crashes while records are only in memory.

**Output queues** (sms `Gsm`, forwarding `congwin_fe100_mgr`, sounds). One queue
and one thread each.

**Everything else**: codec (`ademco_func`), configuration data (zones, maps,
detectors, cameras, consumers, users), dialogs, helper processes, updater.
`PROJECT.json` lists each with the reason it is not modelled; under "hazards" it
lists what can go wrong at which line and the property that would show it.

## Plan

1. `ServerService`, `CommandQueue`, with `ServerServiceProofs` and
   `ServerQueueProofs` (done). The server is where most threads meet; the abstract
   queue says what senders may rely on.
2. `GroupTree`, `GroupTreeProofs` (done).
3. `AlarmMachine`, `AlarmMachineProofs` (done): buffer mode, submachines,
   clearing of alarms, the locks.
4. `TransitClient`, `TransitClientProofs` (done): connection, timers, entries,
   private packets, outgoing packets, restart.
5. `HistoryRecord` with `HistoryLog`, `AlarmRecords`, and `HistoryRecordProofs`,
   `AlarmRecordsProofs` (done).
6. A theorem for each safety property and each refinement that a passing run
   checks (done).
7. Still to do: the remote-control replies of the manager against their timeout
   and its interrupted scan; one machine under the direct channel and a transit
   channel together (the callback that either resets); the queues of the sms modem
   and of the forwarding. A weaker hypothesis for `LimitKept`, which bounds what
   restarts let into the table.

`Subsequences` holds the one operator that two modules share: `Picked(s, I)`, the
part of a sequence at the places I (rows that are not deleted, tasks that are not
late). It is `SelectSeq` put in terms of cardinality; `SelectSeq` is recursive and
the provers know nothing of it. TLC evaluates `PickedSelects`, that the two agree,
in `history_records`. `SubsequencesProofs` has the lemmas about it.

## ServerService

| In the code | In the model |
|---|---|
| a `CClientData` object, `Clear()` | `client[c]`, `Cleared` |
| `m_bufferedClients` | `pooled`, a count per object so that a double recycle shows |
| `m_outstandingClients`, `m_livingClients` | `outstanding`, `living` |
| between the two halves of `ResolveOutstandingClient` | `resolving` |
| a machine's direct flag and `_rcccObj` | `direct`, `rccc` |
| a sender between `FindClient` and `AddTask` | `pend` |

The accept thread is `Accept`. The receive thread is one action per outcome of
`HandleClientEvents` and of a packet: `Disconnect`, `EventOnline`, `EventFirst`,
`EventReconnect` then `FinishReconnect` (the two halves let a sender in between),
`EventInvalid`, `Ack`, `Send`, `TimeoutOutstanding`, `TimeoutLiving`. Senders do
`FindClient` then `AddTask`; the user may `DeleteMachine`. Each action makes
every call that its handler makes: taking a machine offline, for example, resets
its callback as well. A socket is the identity of the host behind it; a timer
that runs may expire at any time; a packet is its id, number and kind. The fields
`n`, `id` and `late` of a task and the variables `issued` and `deletes` are
history and bounds. A host sends its own id (`Sends`), unless `MayReaddress`: a
host that changes its id on an open connection keeps its old key in the map, which
a later timeout leaves behind naming an object of the pool, so neither the
properties nor the theorems are stated of that mode.

`CommandQueue` is the abstract specification: per machine, a queue of commands
that a connection delivers, or that is dropped with it. `ImplementsCommandQueue`
maps it to the queue of the object that holds a machine's commands (`Holder`, in
the middle of a reconnect the new object). Commands that were queued on an object
after it had stopped being the machine's connection are `late`; nothing is
promised of those, and the mapping leaves them out.

Runs (`MCServerService`; clients, senders and valid ids are symmetric):

| Run | Shows | Size |
|---|---|---|
| `server_commands` | `OnePlace`, `MapConsistent`, `DirectShown`, `TaskHome`, `SeqConsecutive`, `TypeOK`, with two hosts, a stranger and one command | three objects allow a reconnect of one host while the other connects; the sender may sleep over any number of reconnects; with the type query that each first event queues a queue has two tasks and its numbers wrap; 600,000 states |
| `server_liveness` | `ImplementsCommandQueue`, `BrokenLeaves`, `CommandsSettle` | two objects of one host that reconnects, is lost and deleted, and a command behind the type query: a list lost in a reconnect is seen; any number of hosts and objects is `QueueImplemented` |

`SeqLimit` is 3 instead of 10000 so that the number wraps; `MaxRetry` 0 instead of
10 so that the last resend is reached. The model may stop (links that hang up and
break fill the table for good), hence no deadlock check.

Fairness (`FairSpec`): the receive thread polls for ever, so a reconnect that has
begun finishes (weak fairness). Its passes visit every living client between any two
reconnects, so a send that is possible again and again happens: strong fairness for
the sends to one machine. The timer of a silent link is looked at in the same passes;
the pass over the outstanding clients ends at a reconnect (`RESULT_BREAK`), but new
clients join their list at the end, so each comes to the front: strong fairness
again. Weak fairness would not do with three objects, of which two reconnect in turn
for ever and the third is never visited. Hosts are not fair: no event,
acknowledgement or disconnection has to come. That a command settles therefore rests
on the retry limit alone.

## GroupTree

`groups`, `parent` and `group_of` are the tree, `total` and `count` its three
counters, `via` and `alarming` the state of the machines. A network thread that
handles an online, offline or alarm event (`OnOffline`, `Alarm`) and the user who
clears an alarm (`ClearAlarm`) start a `walk` towards the root: at each group a
`Load`, then a `Store` that climbs, because `count++` on a plain `int` is just
that. The dialog is `OpenDialog`, the edits (`AddMachine`, `DeleteMachine`,
`MoveMachine`, `AddGroup`, `DeleteGroup`, `MoveGroup`, each with all its counter
adjustments and the menu's guards) and `CloseDialog`. Opening it puts machines
into buffer mode and closing it takes them out, except any whose lock is taken at
that moment; the manager's worker may take them out too (`WorkerLeaves`). The initial states are all trees with machines, as
loaded from the database. An edit is one step although other threads may store
counters meanwhile; this loses no interleaving of the tree and of `total`, which
only the user's thread writes, and none at all when `Quiet`.

`Lineage(g)`, what a walk from g visits, is the least set of groups closed under
the parents, which is what the proofs need to reason about it without induction.

| Run | Shows |
|---|---|
| `groups_tree` | `Rooted` for every tree of up to four groups and four edits of any kind: two moves can form a cycle only if a group goes below its descendant, which needs three |
| `groups_total` | `TotalRight`, `Homed`, `TypeOK` without group moves, events and worker interleaved |
| `groups_online` | `OnlineRight` if one thread delivers events, none while the dialog is open, and groups are not moved or deleted |

`groups_online` says how far the counter can be trusted: a centre with direct
connections only (the receive thread is then the one source of online events),
whose operator edits machines but not groups. With two network threads TLC finds a
lost update, and without `Quiet` an event that is handled during an edit.
`MaxEvents` and `MaxEdits` bound behaviours because wrong counters drift without
end.
The alarming count is modelled as the code leaves it (edits never adjust it), and
no property is stated of it.

## AlarmMachine

One machine and its submachines, which share its ademco id and are machines of
their own in the code, with a recursive lock each.

| In the code | In the model |
|---|---|
| `_lock4AdemcoEventList` of machine and submachines | `owner` |
| the rest of `HandleAdemcoEvent` on a thread's stack, under the machine's lock | `work[t]`, a `Job` |
| the user's `clear_ademco_event_list` of a submachine | `clear`, a `Clearing` |
| `_buffer_mode`, `_ademcoEventList` | `buffer_mode`, `list` |
| the three online flags; those of the submachines | `via`; `sub_online` |
| `_alarming`, `_has_alarming_direct_zone`, `_alarmingSubMachineCount` | `alarming`, `direct`, `count` |
| `alarm_id_ != 0` | `handling` |

A channel's thread calls `SetAdemcoEvent`: `HandleNow`, or `Keep` in buffer mode.
Handling changes the machine at once and leaves a job: the submachines to `Visit`,
each under its own lock, and a submachine alarm to count (`LoadInc`, `StoreInc`).
`Release` gives the lock back, after `NextBuffered` has handled every buffered
event if the thread is leaving buffer mode. The user opens and closes the dialogs
that edit machines, the worker enters and leaves the mode around its scan; both
use `try_lock`, so either may find the lock taken and change nothing, at any
moment: a channel that only puts an event into the buffer has it too. The user
clears alarms: of the machine with its submachines (`ClearMachine`), of a whole
group (`ClearGroup`), or of one submachine (`ClearSub`), and handles them
(`HandleAlarm`, then `MachineHandled` or `SubHandled`, which clear as well).
Clearing a submachine goes on under its lock with `dec_alarmingSubMachineCount`
(`DecNothing`, or `LoadDec` and `StoreDec`), which for the last one waits for the
machine's lock and clears the machine (`ClearParent`).

What a thread does under a lock without waiting is one step. `last` and `uneven`
are history: what each channel reported last, and whether the machine was cleared
while a submachine kept its alarm (a group clear, or a submachine whose alarm is
being handled), after which the count is too low by design of the code. Events are
an online, offline or alarm event of the machine and an alarm or status event of a
submachine; alarms of different zones and levels are not told apart.

Two modes name what the code does not exclude. `Torn` lets the increment of the
count (under the machine's lock) meet its decrement (under a submachine's): TLC
then finds a submachine that is cleared before it is counted, and `AlarmAgrees`
fails. `MayDrop` lets the user clear a machine whose buffer holds events, which
the code drops with the alarm texts: `NothingLost` fails, a machine that went
offline is shown online. The passing run has neither.

| Run | Shows |
|---|---|
| `machine_events` | `TypeOK`, `NothingLost`, `SubsFollow`, `AlarmAgrees`, `BufferHandled` with two channels, three submachines and four events: both channels online and offline in any order, or one online and all three submachines alarming, of which one is then handled, one cleared and one left; any of the events may be buffered |
| `machine_deadlock` | violation of `SubsClearMachine`: clearing the last alarming submachine and an event of the machine wait for each other's lock |

The deadlock is also why deadlock is not checked in these runs, and why
`BufferHandled` excepts `Stuck`. It excepts an offline machine as well: an "online"
that is buffered when the closing dialog finds the lock taken waits for the next
dialog. Fairness (`FairSpec`): a thread that has begun to handle an event or to clear an
alarm goes on (weak), and a thread that waits for a lock that is free again and
again gets it (strong, `ClearParent`). The worker comes back each second and does
not find the lock taken for ever (weak `WorkerEnters` and `WorkerLeaves`, strong
for its leaving the mode). Events and clicks need not come, and no dialog need be
closed.

## TransitClient

| In the code | In the model |
|---|---|
| `connection_established_`, `m_conn_id` | `established`, `conn_id` (whether there is one) |
| `m_clientsMap` | `entry`, the machine of each connection id that is online |
| `last_conn_time_`, `disconnected_time_`, `last_recv_time_` | `age`, counted up to the first value that exceeds its gap |
| `showed_disconnected_info_to_user_` | `showed` |
| `buffer_` | `buffer` |
| a machine's flag of this channel, `_privatePacket` | `shown`, `packet` |
| the transit server, its hosts and what it has sent (external) | `serving`, `link`, `host`, `inbox` |

The thread's loop is cut into `Visit` (the attempt to connect, then the loss),
`GiveUp`, `Receive` with all that `handle_cmd` does for a packet, and `Send`. The
user interface does `Command`, `Stop` and `Restart`. Other threads send commands too,
and whether there is a connection or not: what `CNetworkConnector::Send` asks,
`IsConnectionEstablished`, is defined in `Client.h:89` as whether the client has been
started, which it is until `Stop` has returned. Hosts come, report events
under any id, reset, change id and go; the link breaks with some packets lost; the
server stops, and forgets its hosts, and starts. A packet is its kind, connection
and id. `old` (entries that outlived their connection) and `left` (machines that a
client showed when it was thrown away) are history; the properties name them
where the code leaves something behind.

| Run | Shows |
|---|---|
| `transit_link` | `RoutesLive`, `Accounted`, `LossShown`, `Reconnects`, `TypeOK` with two machines, two connection ids and a restart |

Two ids let a machine move from one connection to the other while the first is
taken by the other machine; a machine that is `Elsewhere` too is the one whose type
is not asked for by this channel. One packet under way suffices to be stale, since
hosts change at any time; a reconnect needs no bound. The gaps are 0, 0 and 1
units instead of 15, 15 and 60 seconds: what matters is that attempts come before
the loss. About a million states; `Accounted` holds although the entries of an old
connection survive because it excepts them (`old`).

Fairness (`FairSpec`): the client's loop waits at most in `select` with a timeout,
so it comes back to its timers and socket errors (weak `Visit`, `GiveUp`); `Stop`
joins the thread, which ends, so the new client starts (weak `Restart`); time
passes (weak `Tick`). Nothing is assumed of server, hosts or operator, and
`Reconnects` supposes that the server accepts connections from some moment on.

## HistoryRecord

| In the code | In the model |
|---|---|
| `m_bufferedRecordList`, `m_lock4BufferedRecordList` | `buffer`, `bufferLock` |
| `table_history_record`, `m_nTotalRecord`, `m_nRecordCounter` | `table`, `total`, `counter` |
| `cur_user_`, `lock_for_cur_user_`, `m_curUserInfo` | `cur_user`, `userLock`, `cur_user_info` |
| `InsertRecord` | `TakeBuffer`, then `Push`, which asks for the current user |
| a login and its two records | `Login`, then `told` counts them |
| `ThreadWorker` | `FlushBegin`, `FlushOne` per record, `FlushEnd` |
| `WM_NEED_TO_EXPORT_HR` and the dialog | `notices`, `dialogs`, `Traverse`, `DeleteHalf`, `CloseDialog` |
| constructor, destructor | `Init` and `Restarted`; `Exit`, or `Crash` without it |
| a gap in the ids, the table `tmp` of the rebuild that closes it | `Gap`, from `holes`; `tmp`, in `Rebuilt` |

`m_csLock` guards single steps and is no variable. That the user observer is
called inside `login`, on its thread, is how the observer library is used
(external). `file` (exported records) and `written` are history.

Deleting a machine's records leaves a gap in the ids, which the next start closes:
it copies the rows to a table `tmp`, drops their own table and renames the copy,
each statement for itself (`Rebuilt`). A crash before the drop leaves the copy
(`tmp = "left"`): from then on each attempt fails at its creation and the rows stay
as they are. One between drop and renaming leaves the copy only (`tmp = "only"`): the
rows are gone from the history, and the first insert of the worker throws, which ends
the program, now and after each start. `FlushOne` and `Exit` do not happen then;
`BufferFlushed` excepts it. A crash while the program starts and the start after it
are one step.

`HistoryLog` is the abstract specification: a log that is written at its end,
trimmed at its old end, purged of a machine, and cut at its new end by a crash,
which may take all of it.
`ImplementsHistoryLog` maps the table followed by what the worker has not yet
moved to that log.

| Run | Shows |
|---|---|
| `history_records` | `TotalRight`, `ExportedGoFirst`, the refinement, `BufferFlushed`, `TypeOK`, and `PickedSelects` |
| `history_login` | violation of `LoginReturns`: a login holds the user's lock and waits for the buffer, whose holder waits for the user's lock |

One other writer, one machine, one login and two stops; a table of four with a
check every two records is full from the first check on, and a second notice
comes while the dialog of the first is open: five records and two dialogs. They
suffice for a gap, a rebuild that is cut short, and the start after that. About
710,000 states. The deadlock of `history_login` is the reason for
`CHECK_DEADLOCK FALSE` and for the exception in `BufferFlushed`. Fairness: a thread
that has begun to insert goes on, the worker comes back each second and goes
through the buffer. Nobody has to insert, log in or answer the dialog.

## AlarmRecords

| In the code | In the model |
|---|---|
| `table_alarm`, `table_alarm_text` | `table`, the record of each id with its texts |
| `buffered_alarms_` | `cache` |
| `table_alarm_reason`, `_judgement`, `_handle` | `child`, for each row the record it was written for |
| `alarm_id_`, `_alarming` and the texts on the maps of a machine | `alarm_id`, `alarming`, `listed` |
| the four dialogs of a handling | `ui`, with its stage |
| the export dialog and its thread | `notice`, `export`, `row`, `file` |

An alarm event first joins the record that is being handled (`EventBegins`), then
lists its text (`EventEnds`). The operator clears (`ClearMsg`), opens
(`HandleFirst`, `HandleAgain`, `HandleFromHistory`), goes through `Reason`,
`TestDevice`, `Judge`, `Guard` and `Confirm`, and may `Cancel` each dialog with what
it has done left behind. `AlarmInfo` is the lookup, including what it makes of a
row that it has to read from the table (`Misread`: the columns are off), which
`LookupHits` shows is never done for a record at hand. `DeleteHalf` deletes from
the table what is cached, with the rows it names. A restart empties cache and
machines.

One parameter names what the code does not exclude. `Overlap` lets dialogs fall
between the parts of an event (`TextsJoin` fails: the text of an alarm is in no
record) or an update between the reading of a row and its caching (`CacheAgrees`
fails: the change is hidden). The passing run has `Overlap` off: it says that all
else is right. `reopened`, a history variable, holds the records that were edited
from the history.

The history takes every record for one of the main machine (`HistoryMachine`): its
rule asks for zone 0 when the record is of a submachine, and the zone of any other
record is 0. So a submachine's hanging record that is left hanging from there becomes
the main machine's, too, and `OwnRecord` fails. The properties of `alarm_records`
hold in spite of that.

| Run | Shows |
|---|---|
| `alarm_records` | `LinksRight`, `CacheAgrees`, `LookupHits`, `TextsJoin`, `LimitSeen`, `ClosedStays`, `OldestGo`, `TypeOK` with a machine and a submachine, three records, three texts, one confirmed result and a restart, the result before it |
| `alarm_history` | violation of `OwnRecord`: the main machine is handled under the record of its submachine |

The table is full with three records and its limit is looked at from the second:
it is halved once, with records hanging, open or closed. Two of the three texts go
to one machine. Half of three is one record, and the table fills once: that every
older record goes with a deleted one, that the limit is seen the second time as the
first, and repeated handling of one record rest on the theorems `OldestDeleted`,
`LimitKept` and `LinksKept`. `MaxEdits` bounds the results confirmed together with the
restarts before them, so the run has a restart after a confirmed result but no result
confirmed after a restart, which the theorems cover. Some 2.3 million states. The
bounds end every behaviour, so deadlock is not checked.

## Proofs

Every safety property of a passing run, invariant, action property or refinement,
is also a theorem, for every value of the constants that the assumptions and the
theorem's hypotheses allow. The hypotheses name modes of the models in which the
property is false of the code as well (the sections above and the last but one say
how); the runs are made in the same modes.

| Hypothesis | Excludes |
|---|---|
| `~MayReaddress` | a host that changes its id on an open connection |
| `~MayMoveGroup` | moving a group, which may make totals too low |
| `Undisturbed` | a second network thread, events while the dialog is open, moving and deleting groups |
| `~Torn` | a lost update of the count of alarming submachines |
| `~MayDrop` | clearing a machine while events wait in its buffer |
| `~Overlap` | dialogs between the two parts of an event or of the reading of a row |
| `Roomy` | restarts that let the table of alarms fill twice over, see `LimitKept` |

### ServerServiceProofs

* `Typing`: `Spec => []TypeOK`.
* `TablesAgree`, `MapAgrees`: without `MayReaddress`, `OnePlace` and
  `MapConsistent`. Neither is inductive: the proof needs that a pooled object is
  cleared and one object is counted once (`PoolInv`), that outstanding objects are
  offline and not in the map (`OutstandingInv`), that entries of the map are online
  objects of the right host (`LivingInv`), and that the object of a reconnect is
  outstanding and the entry it replaces exists (`ResolvingInv`). Their conjunction
  `Tables` is preserved by every action.
* `ShownAgrees`: if also no machine is deleted, `DirectShown`, from `Tables` and
  the fact that each action changes flag and entry together.

### ServerQueueProofs

All without `MayReaddress`. `QueueSteps` reduces the actions to eight cases by what
they do to the queues and to the holders of the machines (`StepIdle`, `StepDrop`,
`StepMark`, `StepClear`, `StepFirst`, `StepMove`, `StepLose`, `StepAdd`); the other
lemmas look at these.

* `TasksHome`, `NumbersConsecutive`: `TaskHome` and `SeqConsecutive`, from
  `QueueInv`. The second is not inductive: a queue with a late task loses it in the
  end, and must be orderly then. `Chained` says that each task which is not late is
  followed by the next number, whatever came before it.
* `QueueImplemented`: `Spec => ImplementsCommandQueue`. It also needs that commands
  are numbered as issued and no two senders have the same (`PendInv`), that what is
  in time on a connection is what a caller was promised (`InTime` over `Picked`),
  and the types and tables above.

### GroupTreeProofs

* `TreeRooted`: `Spec => []Rooted`, with group moves. Reachability is a least fixed
  point here, so the lemmas `LineageSelf`, `LineageLeast` and `LineageClosed`
  replace induction along a path: to show that a group still reaches the root, take
  a set closed under the new parents, turn it into one closed under the old ones,
  and use `LineageLeast`. For `MoveGroup` this is where the menu's guard is needed:
  the walk from the target does not meet the moved group.
* `Typing`: `Spec => []TypeOK`, which rests on the tree: a walk stays in it.
* `TotalsRight`, `HomesKept`: without group moves, `TotalRight` and `Homed`. Each
  needs the other: the deletion of a group looks at its total to decide whether
  there are machines to move out of it.
* `OnlineCounted`: if `Undisturbed`, `OnlineRight`. `OnlineRight` speaks of moments
  when nobody counts; `Settled` says that a group which the walk under way has yet
  to reach is off by what that walk brings, `Walks` that what it has loaded is
  still the count.

### AlarmMachineProofs

* `Typing`: `Spec => []TypeOK`, in every mode. That the count is never negative is
  the part that is not obvious: a decrement stores what it has loaded, which was
  not zero.
* `Agreement`: without `Torn`, `[]AlarmAgrees`. `AlarmAgrees` speaks of moments
  when nobody is at work; the invariant `Agree` corrects it by one for a submachine
  that alarms and is not counted yet (`Up`) and for one that is cleared and still
  counted (`Down`). Two more conjuncts make it inductive: only the thread that has
  the machine's lock has work (`Exclusive`), and the thread at the counter has
  loaded the present count (`Loaded`). `Frame`, `Handled` and `Cleared` are the
  three ways in which steps preserve `Agree`.
* `BufferKeeps`: without `MayDrop`, `[]NothingLost`, however buffer mode is entered
  and left. The strengthening `BufferInv` adds that events wait in buffer mode only
  (otherwise one would be overtaken by one that is handled at once), and that an
  event that waits was sent by a channel that is online by then (`InOrder`).
* `SubsOffline`: without `MayDrop`, `[]SubsFollow`. The submachines still online
  after the machine went offline are those that the thread has yet to visit
  (`Following`); that no event of a submachine brings one back rests on `InOrder`.

### TransitClientProofs

* `Typing`: `Spec => []TypeOK`, with the bounds of the queues and that a live link
  has an established client. The strengthening is that a client being stopped may
  still be restarted (`Counts`). The type invariant is proved in four parts
  (`Learnt`, `Queued`, `Flags`, `Counts`), so that each step is looked at for the
  parts it touches.
* `Routes`: `Spec => []RoutesLive`. Every packet does one of four things to what
  the client has learnt (`HandleCases`), and so does every step (`StepCases`):
  nothing, taking the entries of some connections offline, bringing a machine
  online on a connection, or throwing the client away. `RoutesLive` is inductive
  together with the types under each.
* `EntriesTrue`: `Spec => []Accounted`. The invariant looks at the packets on their
  way: the last one about a connection, if it is an event, names the host that is
  there (`LastTold`), and if there is none the entry does (`Agreed`), so handling
  the last leads from one to the other.

### HistoryRecordProofs

No theorem has a hypothesis.

* `Typing` and `CountTrue`: `[]TypeOK` and `[]TotalRight`. Every number that has a
  bound goes back to a record that was written: rows and records on their way are
  no more than those (`Counts`).
* `HalvingSafe`: `ExportedGoFirst`. The table, then the buffer, are in the order in
  which records were written (`Numbered`), so the rows that are in a file are the
  first of the table (`ExportedFirst`); the halving takes rows from its old end.
* `LogImplemented`: `Spec => ImplementsHistoryLog`, step by step: what is not yet in
  the table (`Rest`) shrinks by its head as the table grows by it, the deletion of a
  machine is `Forget` of the rows that are in the table, a halving `Trim`, and a
  crash with the restart after it `Lose`, of everything if it cut a rebuild short
  (`RebuiltRows`, `AllLost`).

### AlarmRecordsProofs

* `Typing`: `[]TypeOK`, with `Known`: rows are numbered as they were added, what is
  cached or was read exists, one export follows another, and a dialog that is open
  over an export is that of the newest record.
* `OldestDeleted`: `OldestGo`, although the halving deletes cached rows only. What
  the export has passed is in the file and in the cache (`Exporting`), since nothing
  but the halving takes a row out of it; when it is over that is all rows.
* `ClosedKept`: `ClosedStays`. Each step writes the record of a machine or of a
  dialog only, and the history opens none that is cleared.
* `CacheTrue`, `NeverMisread`: without `Overlap`, `CacheAgrees` and `LookupHits`.
  They need each other: an update is made in table and cache only if the lookup
  hits, and what the export has read is still what the table has (`RowRead`).
* `TextsKept`: without `Overlap`, `TextsJoin`. While a text is about to be listed it
  is in the record already (`Joining`).
* `LinksKept`: without `Overlap`, `LinksRight`: rows are only ever added, those of a
  record that is halved away are given up with it (`GrownFor`, `Owned`).
* `LimitKept`: if `Roomy`, `LimitSeen`. One halving must bring the table below its
  limit, so it must not have filled twice over before it is looked at. A start
  forgets how many records came since the last look, and lets `CheckCounter` more in
  (`Counted`). `Roomy` says that this cannot add up to a second limit: the records
  of the behaviour are too few for it, or its restarts are (`Few`). With the
  constants of a release build (100000 and 100) 999 restarts are few enough, of a
  debug build (20 and 2) nine. The instance of
  `alarm_records` satisfies it. That half of the table is large enough rests on
  `OlderMany`: as many rows as asked for have fewer than that many before them.

### Assumptions and limits

The named `ASSUME`s of the modules are all that is assumed of the constants, and
TLC evaluates them in the runs: that None and the names of threads are none of the
other values, that bounds are natural numbers (those of the limits not zero), that
machines and submachines are finitely many, which counting them supposes, and that
a walk, a job and a record, which are TLA+ records, are not None.

Counting and sequences ask for induction, which the provers cannot apply to a
formula. `LeastNumber` and `SetInduction` in `SubsequencesProofs` are the induction
about a set of numbers, from the well-foundedness of their order; the facts about
`Rank` and `Picked`, and those that a set of rows has as many elements as places,
come from them.

Model-checked only: liveness (`BrokenLeaves`, `CommandsSettle`, `BufferHandled`,
`LossShown`, `Reconnects`, `BufferFlushed`), which rests on fairness and so on
ENABLED, out of the provers' reach; `PickedSelects`, because `SelectSeq` is
recursive; and the three violations.

## What the code does otherwise

The three violation runs quote the sentence of the repository they contradict. The
modules also show, or except, the following; none of it is repaired in the model.

* After a reconnect a machine's callback refers to the old object: when the machine
  is then deleted its host is not kicked out (`AlarmMachineManager.cpp:1394`,
  against `ChangeLog.txt:1404`).
* Moving a group with an online machine leaves the online counters wrong
  (`GroupInfo.cpp:206`, against `ChangeLog.txt:1211`), and moves of groups may make a
  total so low that a group with machines is deleted (`GroupInfo.cpp:495`).
  `groups_online` and `groups_total` exclude both.
* A submachine that is being handled is left out of the count of alarming ones:
  when another alarms and is cleared, the count is zero and the machine is cleared
  although its own alarm is being handled (`AlarmMachine.cpp:1691`).
* `CClient::Stop` declares the loss only if the connection is established: the
  machines of a client that is thrown away while it waits stay shown (`left`), and
  entries survive a reconnect that is quick enough (`old`). Packets buffered for an
  old connection go out on the next one.
* A crash while the history is rebuilt leaves its rows in a table that nothing reads
  and the program without one to write to (`HistoryRecord.cpp:143`), or puts an end to
  all rebuilds (line 130).
* A history row is stored under the user at the time of the flush; records of a
  deleted machine that are still buffered come back; a second notice while the
  export dialog is open halves the table twice.
* A hanging alarm's record may be deleted by the halving. The row for the reason
  that the first dialog writes is never linked, a judgement is added twice, and a
  record left at its fourth dialog after "test device" is cleared while the
  machine keeps its id.

Known from the code, without a model: the limit on clients is read without its
lock (`ServerService.cpp:252`); `m_livingClients` is searched while a reconnect
writes it (`ServerService.cpp:576`); a host changes its id on an open connection
(`Server.cpp:155`, in the model only as `MayReaddress`); a failed database write
leaves half of a group deleted (`GroupInfo.cpp:481`); an alarming machine is moved
without its group's alarming counter (`GroupInfo.cpp:296`); the event that
interrupts the scan of submachines is never reset (`AlarmMachineManager.cpp:1793`).

## Not modelled

Byte formats, database contents, wording and drawing; start and stop of the
threads other than the transit client's; failing database writes; the end of the
program when a transit server reports its account in use twice (07 03); the table
of remote-control replies in the manager; the expiry of invalid machines; banned
machines, whose events are dropped before they are handled
(`AlarmMachine.cpp:345`): `AlarmMachine` is of a machine that is not banned, and in
`ServerService` a ban between the server and the flag it shows, buffer mode and the
router mode of the forwarding are left out; the components listed as `not_modelled`
in `PROJECT.json`. Data races are modelled where their outcomes differ in what the
model keeps (the counters); a race on a container itself, such as
`m_livingClients` between a sender and a reconnect, is only listed as a hazard.
