---------------------------- MODULE MCScanClock ----------------------------
(***************************************************************************)
(* ScanClock with a second of 5 ns and an int of -16..15: a period of 3    *)
(* stands for one below a second, 8 for one above.                         *)
(***************************************************************************)
EXTENDS ScanClock
=============================================================================
