-------------------------- MODULE MCHistoryRecord --------------------------
(* Instances of HistoryRecord for TLC.                                       *)
EXTENDS HistoryRecord

\* What Picked is for: it is SelectSeq, on all short sequences.
Selected(x) == x # 1

ASSUME PickedSelects ==
    \A n \in 0 .. 4 : \A s \in [1 .. n -> 1 .. 3] :
        Picked(s, {i \in DOMAIN s : Selected(s[i])}) = SelectSeq(s, Selected)

=============================================================================
