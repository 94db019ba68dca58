-------------------------- MODULE MCStyleSetting --------------------------
(***************************************************************************)
(* Small instances of StyleSetting for TLC.                                *)
(***************************************************************************)
EXTENDS StyleSetting

AllWays == {"link", "file", "database", "theme", "edit"}
===========================================================================
