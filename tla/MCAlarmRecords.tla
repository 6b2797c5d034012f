--------------------------- MODULE MCAlarmRecords ---------------------------
(* Instances of AlarmRecords for TLC.                                        *)
EXTENDS AlarmRecords

=============================================================================
