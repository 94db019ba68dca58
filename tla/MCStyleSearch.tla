--------------------------- MODULE MCStyleSearch ---------------------------
(***************************************************************************)
(* Small instances of StyleSearch for TLC: one manager of every kind on    *)
(* one screen, and pairs of managers on two.                               *)
(***************************************************************************)
EXTENDS StyleSearch

\* The kinds that mean something to some manager, in the private directory, the
\* one in the home directory and one of the system.
SomeEntries ==
    {e \in Entry :
        /\ e.dir # 4
        /\ e.kind = "old" => e.form = "name" /\ e.sub = "themes"
        /\ e.form = "name/variation" => e.sub = "themes" /\ e.kind = "file"}

OneScreen == {<<m>> : m \in {Waimea, Jwm, Pekwm, Metacity, Cwm, Wmaker}}

TwoScreens ==
    {<<Icewm, Icewm>>, <<Openbox, Openbox>>, <<Twm, Twm>>, <<Twm, Fluxbox>>}

SomeDisplays == OneScreen \cup TwoScreens
============================================================================
