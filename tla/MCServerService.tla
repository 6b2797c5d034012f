-------------------------- MODULE MCServerService --------------------------
(* Instances of ServerService for TLC.  Objects, senders and valid ids are   *)
(* interchangeable model values.                                             *)
EXTENDS ServerService, TLC

Symmetry == Permutations(Client) \cup Permutations(Sender) \cup Permutations(Valid)

=============================================================================
