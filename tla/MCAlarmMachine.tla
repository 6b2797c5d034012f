--------------------------- MODULE MCAlarmMachine ---------------------------
(* Instances of AlarmMachine for TLC.  Without symmetry: the runs check      *)
(* liveness too.                                                             *)
EXTENDS AlarmMachine

=============================================================================
