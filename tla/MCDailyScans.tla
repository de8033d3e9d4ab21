---------------------------- MODULE MCDailyScans ----------------------------
(* Small instances of DailyScans.                                          *)
EXTENDS DailyScans

=============================================================================
