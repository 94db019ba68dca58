--------------------------- MODULE StylePlugins ---------------------------
(***************************************************************************)
(* What the window manager plugins (xde_<name>.c) tell the library about   *)
(* the files of their manager: one record per plugin, for its table of     *)
(* operations.  The library loads the plugin named after the manager it    *)
(* has detected and calls it for everything that has to do with styles,    *)
(* the menu and the icon.                                                  *)
(*                                                                         *)
(*   rcfile   how the configuration file and the directories are found:    *)
(*            "simple" (default file in the home directory), "deep"        *)
(*            (default file in a directory of the home directory), "xtwm", *)
(*            "icewm", "openbox", "wmaker", or "none"                      *)
(*   subs     subdirectories of the directories that hold styles, in the   *)
(*            order find_style looks at them                               *)
(*   suffix   whether a style may be a file NAME.suffix                    *)
(*   find     the search: "simple", "icewm", "wmaker", "xdg" or "none"     *)
(*   trims    whether the path that is stored names the directory of the   *)
(*            style and not the file in it                                 *)
(*   get      where the style in force is read from                        *)
(*   set      how a style is put in force                                  *)
(*   reload   how the manager is told: "signal" (needs its pid), "either"  *)
(*            (a signal, or a message without a pid), "message", "key", or *)
(*            "none"                                                       *)
(*   lists    how styles are listed: "simple", "xdg", "icewm" or "none"    *)
(*   items    whether a menu of styles is printed                          *)
(*   menu     where the root menu is: "simple" (a file of the directories, *)
(*            there or not), "included" (named in a file of theirs),       *)
(*            "database", "pekwm", "wmaker" (named in the configuration),  *)
(*            "fixed" (always the same path), or "none"                    *)
(*   icon     the name of the icon when no desktop file gives one          *)
(***************************************************************************)
EXTENDS Sequences

(* A plugin that knows the icon of its manager, and nothing else.           *)
NoStyles(name, icon) ==
    [name |-> name, icon |-> icon, menu |-> "none",
     rcfile |-> "none", subs |-> <<>>, suffix |-> FALSE,
     find |-> "none", trims |-> FALSE, get |-> "none", set |-> "none",
     reload |-> "none", lists |-> "none", items |-> FALSE]

Mwm == NoStyles("mwm", "mwm")
Dtwm == NoStyles("dtwm", "dtwm")
Afterstep == NoStyles("afterstep", "AfterStep")
Awesome == NoStyles("awesome", "awesome")
Yeahwm == NoStyles("yeahwm", "yeahwm")
Spectrwm == NoStyles("spectrwm", "spectrwm")
Twobwm == NoStyles("2bwm", "2bWM")
Dwm == NoStyles("dwm", "dwm")
Wind == NoStyles("wind", "windwm")

(* flwm and wmx know the directory of their menu, and no styles.           *)
Flwm == [NoStyles("flwm", "flwm") EXCEPT !.menu = "fixed"]
Wmx == [NoStyles("wmx", "wmx") EXCEPT !.menu = "fixed"]

(* The operations built into the library for no or an unknown manager.     *)
NoManager == NoStyles("none", "none")

---------------------------------------------------------------------------
(* Managers whose style is a link (or a file that includes the style) in   *)
(* their private directory.                                                *)
Linked(name, menu, rcfile, set, reload) ==
    [name |-> name, icon |-> name, menu |-> menu,
     rcfile |-> rcfile, subs |-> <<"styles">>,
     suffix |-> FALSE, find |-> "simple", trims |-> FALSE, get |-> set,
     set |-> set, reload |-> reload, lists |-> "simple", items |-> FALSE]

Twm == Linked("twm", "simple", "xtwm", "link", "key")
Ctwm == Linked("ctwm", "simple", "xtwm", "link", "signal")
Etwm == Linked("etwm", "simple", "xtwm", "link", "signal")
Vtwm == Linked("vtwm", "simple", "xtwm", "link", "signal")
Matwm2 == Linked("matwm2", "none", "simple", "link", "signal")
Adwm == Linked("adwm", "none", "deep", "file", "either")
Echinus == Linked("echinus", "none", "deep", "file", "signal")
Uwm == [Linked("uwm", "simple", "deep", "file", "message")
           EXCEPT !.icon = "uwm16x16"]
Jwm == [Linked("jwm", "included", "simple", "file", "message")
           EXCEPT !.subs = <<"styles", "themes">>]

(* cwm reads the link stylerc and writes the link style.                   *)
Cwm == [Linked("cwm", "simple", "simple", "link", "key") EXCEPT !.set = "cwm"]

(* fvwm looks a style up and does nothing with it.                         *)
Fvwm == [Linked("fvwm", "none", "deep", "link", "none")
            EXCEPT !.get = "none", !.set = "none", !.lists = "none"]

---------------------------------------------------------------------------
(* Managers whose style is a resource of their configuration file.         *)
Resource(name, rcfile, suffix) ==
    [name |-> name, icon |-> name, menu |-> "database",
     rcfile |-> rcfile, subs |-> <<"styles">>,
     suffix |-> suffix, find |-> "simple", trims |-> ~suffix,
     get |-> "database", set |-> "database", reload |-> "signal",
     lists |-> "simple", items |-> TRUE]

Blackbox == Resource("blackbox", "simple", FALSE)
Fluxbox == Resource("fluxbox", "deep", FALSE)
Waimea == Resource("waimea", "simple", TRUE)

---------------------------------------------------------------------------
(* Managers with operations of their own.                                  *)
Pekwm ==
    [name |-> "pekwm", icon |-> "pekwm", menu |-> "pekwm",
     rcfile |-> "deep", subs |-> <<"themes">>,
     suffix |-> FALSE, find |-> "simple", trims |-> TRUE, get |-> "pekwm",
     set |-> "pekwm", reload |-> "signal", lists |-> "simple",
     items |-> TRUE]

Icewm ==
    [name |-> "icewm", icon |-> "icewm", menu |-> "simple",
     rcfile |-> "icewm", subs |-> <<"themes">>,
     suffix |-> FALSE, find |-> "icewm", trims |-> FALSE, get |-> "icewm",
     set |-> "icewm", reload |-> "message", lists |-> "icewm",
     items |-> FALSE]

Openbox ==
    [name |-> "openbox", icon |-> "openbox", menu |-> "fixed",
     rcfile |-> "openbox", subs |-> <<"themes">>,
     suffix |-> FALSE, find |-> "xdg", trims |-> FALSE, get |-> "openbox",
     set |-> "openbox", reload |-> "message", lists |-> "xdg",
     items |-> TRUE]

Metacity ==
    [name |-> "metacity", icon |-> "metacity", menu |-> "none",
     rcfile |-> "none", subs |-> <<"themes">>,
     suffix |-> FALSE, find |-> "xdg", trims |-> FALSE,
     get |-> "gsettings", set |-> "gsettings", reload |-> "message",
     lists |-> "xdg", items |-> FALSE]

Wmaker ==
    [name |-> "wmaker", icon |-> "wmaker", menu |-> "wmaker",
     rcfile |-> "wmaker",
     subs |-> <<"themes", "styles">>, suffix |-> TRUE, find |-> "wmaker",
     trims |-> FALSE, get |-> "none", set |-> "none", reload |-> "none",
     lists |-> "none", items |-> FALSE]

---------------------------------------------------------------------------
Plugins ==
    {Mwm, Dtwm, Afterstep, Awesome, Yeahwm, Spectrwm, Twobwm, Dwm, Wind,
     Flwm, Wmx, NoManager, Twm, Ctwm, Etwm, Vtwm, Matwm2, Adwm, Echinus,
     Uwm, Jwm, Cwm, Fvwm, Blackbox, Fluxbox, Waimea, Pekwm, Icewm, Openbox,
     Metacity, Wmaker}

(* The operations that get_wm_ops loads for the manager of that name.      *)
PluginOf(name) ==
    IF \E m \in Plugins : m.name = name
    THEN CHOOSE m \in Plugins : m.name = name
    ELSE NoManager
===========================================================================
