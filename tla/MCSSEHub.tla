------------------------------ MODULE MCSSEHub ------------------------------
(***************************************************************************)
(* SSEHub for TLC: broadcast events and events for one label; clients with *)
(* and without the label.                                                  *)
(***************************************************************************)
EXTENDS SSEHub

CONSTANTS b1, b2, staff

OneBrowser == {b1}
TwoBrowsers == {b1, b2}
OneLabel == {staff}
BroadcastOrStaff == {{}, {staff}}
=============================================================================
