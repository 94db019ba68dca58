------------------------------ MODULE MCThemeSync -----------------------------
(***************************************************************************)
(* Small instances of ThemeSync for TLC: two themes, of which one is also  *)
(* the name of a style, and a style that is no theme.                      *)
(***************************************************************************)
EXTENDS ThemeSync

CONSTANTS d1, d2, c1, t1, t2, plain

\* A daemon and a tool, when the manager changes its style once.
Tool == [who : {{d1, c1}}, style : {t1, plain}, prop : {NoTheme, t2},
         rc : {t2}, changes : {1}]

\* Two daemons that start, whatever they find ...
Pair == [who : {{d1, d2}}, style : {t1, plain}, prop : {NoTheme, t1, t2},
         rc : {NoTheme, t2}, changes : {0}]

\* ... and when the manager changes to a style that is a theme.
Follow == [who : {{d1, d2}}, style : {plain}, prop : {t2},
           rc : {NoTheme}, changes : {1}]

MCBeginnings == Tool \cup Pair \cup Follow
=============================================================================
