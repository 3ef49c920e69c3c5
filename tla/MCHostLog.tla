----------------------------- MODULE MCHostLog -----------------------------
(* HostLog for TLC: four calls, enough for a failed append, a crash inside *)
(* a later one, and an acknowledged send before and after them.            *)
EXTENDS HostLog

CONSTANTS c1, c2, c3, c4
=============================================================================
