---------------------------- MODULE Subsequences ----------------------------
(***************************************************************************)
(* The part of a sequence at a set of places, in its order: what SelectSeq *)
(* gives for the places of the elements it keeps, in terms of cardinality, *)
(* which can be reasoned about.                                            *)
(***************************************************************************)
EXTENDS Naturals, Sequences, FiniteSets

\* How many places of I there are up to i.
Rank(I, i) == Cardinality({j \in I : j <= i})

\* The k-th element is the one at the k-th place of I.
Picked(s, I) == [k \in 1 .. Cardinality(I) |-> s[CHOOSE i \in I : Rank(I, i) = k]]

=============================================================================
