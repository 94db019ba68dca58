------------------------------ MODULE MCMainLoop ------------------------------
(***************************************************************************)
(* Small instances of MainLoop for TLC: the window manager check, deferred *)
(* through xde_defer_once, and the root pixmap action, deferred at once.   *)
(* A second has two ticks; every delay is a whole number of seconds, so    *)
(* that no time is refused (MCDeferQueue has those that are).              *)
(***************************************************************************)
EXTENDS MainLoop

WmCheck == "xde_action_check_wm"
SetPixmap == "deferred_set_pixmap"

MCKeys == {WmCheck, SetPixmap}
MCOnceKeys == {WmCheck}
=============================================================================
