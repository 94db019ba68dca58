---------------------------- MODULE MCWmTracking ----------------------------
(***************************************************************************)
(* Small instances of WmTracking for TLC: up to two screens, and two       *)
(* manager processes, with or without EWMH check windows.                  *)
(***************************************************************************)
EXTENDS WmTracking

CONSTANTS p1, p2, r1, r2, r3
=============================================================================
