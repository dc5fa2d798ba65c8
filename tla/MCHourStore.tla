---------------------------- MODULE MCHourStore ----------------------------
(* HourStore for TLC.  A file is named by the hour it belongs to. *)
EXTENDS HourStore

MCHour == {1, 2, 3}
MCPathOf == [h \in MCHour |-> h]

=============================================================================
