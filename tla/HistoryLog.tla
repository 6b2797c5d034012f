----------------------------- MODULE HistoryLog -----------------------------
(***************************************************************************)
(* What the history promises (HistoryRecord.cpp): a log of records, written *)
(* at its end.  Records leave it from its old end, when half of it has been *)
(* exported, or with their machine; a crash takes some of the last, or all. *)
(* No record is ever written twice, moved or left out of the middle.        *)
(***************************************************************************)
EXTENDS Naturals, Sequences, Subsequences

CONSTANTS
    Record,    \* the records
    Machine,   \* the machines that records may be of
    Of(_)      \* the machine of a record

VARIABLE log   \* oldest first

\* The program that starts writes a record.
Init == \E r \in Record : log = <<r>>

New == {r \in Record : \A i \in DOMAIN log : log[i] # r}

Write == \E r \in New : log' = Append(log, r)

\* The oldest go.
Trim == \E n \in 1..Len(log) : log' = SubSeq(log, n + 1, Len(log))

\* The records of a machine go, those of the last moments perhaps excepted.
Forget == \E m \in Machine, n \in 1..Len(log) :
             LET others == {i \in 1 .. n : Of(log[i]) # m}
             IN  log' = Picked(log, others) \o SubSeq(log, n + 1, Len(log))

\* A crash takes the last records; the program that follows writes its own.
Lose == \E n \in 0..Len(log), r \in New : log' = Append(SubSeq(log, 1, n), r)

Next == Write \/ Trim \/ Forget \/ Lose

Spec == Init /\ [][Next]_log

=============================================================================
