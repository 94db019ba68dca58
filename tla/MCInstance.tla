------------------------------ MODULE MCInstance ------------------------------
(***************************************************************************)
(* Small instances of Instance for TLC: two or three processes on one or   *)
(* two screens.                                                            *)
(***************************************************************************)
EXTENDS Instance

CONSTANTS c1, c2, c3
=============================================================================
