---------------------------- MODULE MCGroupTree ----------------------------
(* GroupTree on small sets; the machines, the channels and the groups other *)
(* than the root are interchangeable.                                       *)
EXTENDS GroupTree, TLC

Symmetry == Permutations(Machine) \cup Permutations(Channel)
              \cup Permutations(Group \ {Root})

=============================================================================
