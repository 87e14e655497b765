--------------------------- MODULE MCMonitorClock ---------------------------
(* Small instances of MonitorClock for TLC. *)
EXTENDS MonitorClock, TLC

CONSTANTS p1, p2
=============================================================================
