-------------------------- MODULE MCTransitClient --------------------------
(* Instances of TransitClient for TLC.  Without symmetry: the runs check     *)
(* liveness too.                                                             *)
EXTENDS TransitClient

=============================================================================
