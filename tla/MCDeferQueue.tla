---------------------------- MODULE MCDeferQueue ----------------------------
(***************************************************************************)
(* Small instances of DeferQueue for TLC.  A second has two or three ticks,*)
(* so the carry, its boundary and several expiries in one tick all         *)
(* happen; the window manager check and the theme check are deferred       *)
(* through xde_defer_once, the root pixmap action is not.                  *)
(***************************************************************************)
EXTENDS DeferQueue

WmCheck == "xde_action_check_wm"
ThemeCheck == "xde_action_check_theme"
SetPixmap == "deferred_set_pixmap"

MCKeys == {WmCheck, ThemeCheck, SetPixmap}
MCOnceKeys == {WmCheck, ThemeCheck}
=============================================================================
