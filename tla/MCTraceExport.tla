---------------------------- MODULE MCTraceExport ----------------------------
(***************************************************************************)
(* TraceExport for TLC.  Two places for goroutines, so that a second one   *)
(* could be started if the code allowed it.                                *)
(***************************************************************************)
EXTENDS TraceExport

CONSTANTS g1, g2, f1, f2

TwoGoroutines == {g1, g2}
TwoFlushers == {f1, f2}
=============================================================================
