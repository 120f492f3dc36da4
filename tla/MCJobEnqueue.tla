---------------------------- MODULE MCJobEnqueue ----------------------------
(* Instances of JobEnqueue for TLC: windows of two events or two bytes, and *)
(* an event of three bytes that exceeds a window by itself.                 *)
EXTENDS JobEnqueue, TLC
=============================================================================
