------------------------- MODULE StyleSearchProofs -------------------------
(***************************************************************************)
(* What StyleSearch keeps for every set of screens, managers and files.    *)
(*                                                                         *)
(* The proofs go in four parts: what the tables of operations of the       *)
(* plugins have in common; what a search returns; the invariant of a       *)
(* command that walks the screens; and the properties.                     *)
(***************************************************************************)
EXTENDS StyleSearch, NaturalsInduction, WellFoundedInduction, TLAPS

(***************************************************************************)
(* The plugins.                                                            *)
(***************************************************************************)
\* The operations of one plugin go together: a plugin that sets the style in a
\* file of the user reads it from there, one that lists styles finds them.
Consistent(m) ==
    /\ DOMAIN m.subs \subseteq Nat
    /\ m.set \in {"none", "link", "file", "cwm", "database", "pekwm", "icewm",
                  "openbox", "gsettings"}
    /\ m.set \in {"link", "file", "database", "pekwm", "icewm", "openbox",
                  "gsettings"} => m.get = m.set
    /\ m.set = "cwm" => m.get = "link"
    /\ m.set \in {"link", "file", "cwm", "database", "pekwm"}
          => m.find = "simple" /\ m.lists = "simple"
    /\ m.set \in {"openbox", "gsettings"} => m.find = "xdg" /\ Pdir(m) # "wrong"
    /\ m.set = "none" => m.get = "none"
    /\ m.get \in {"link", "file"} => m.trims = FALSE
    /\ m.set = "icewm" => /\ m.find = "icewm" /\ m.lists = "icewm"
                          /\ m.trims = FALSE /\ m.name = "icewm"
    /\ m.lists = "simple" => m.find = "simple"
    /\ m.lists = "icewm" => /\ m.find = "icewm" /\ m.suffix = FALSE
                            /\ m.subs = <<"themes">>
    /\ m.name \in {"openbox", "metacity"}
          => m.find = "xdg" /\ m.lists = "xdg" /\ m.suffix = FALSE /\ m.subs = <<"themes">>
    /\ m.find = "icewm" => m.suffix = FALSE /\ m.subs = <<"themes">>
    /\ m.name = "waimea" => m.set = "database" /\ m.trims = FALSE
    /\ m.name = "icewm" => m.set = "icewm"

LEMMA NoStylesConsistent ==
    ASSUME NEW n, NEW icon,
           n \notin {"openbox", "metacity", "waimea", "icewm"}
    PROVE  Consistent(NoStyles(n, icon))
  BY DEF Consistent, NoStyles, Pdir

LEMMA LinkedConsistent ==
    ASSUME NEW n, NEW menu, NEW rcfile, NEW set \in {"link", "file"},
           NEW reload,
           n \notin {"openbox", "metacity", "waimea", "icewm"}
    PROVE  Consistent(Linked(n, menu, rcfile, set, reload))
  BY DEF Consistent, Linked

LEMMA PluginsConsistent == \A m \in Plugins : Consistent(m)
  <1>1. /\ Consistent(Mwm) /\ Consistent(Dtwm) /\ Consistent(Afterstep)
        /\ Consistent(Awesome) /\ Consistent(Yeahwm) /\ Consistent(Spectrwm)
        /\ Consistent(Twobwm) /\ Consistent(Dwm) /\ Consistent(Wind)
        /\ Consistent(NoManager)
    BY NoStylesConsistent DEF Mwm, Dtwm, Afterstep, Awesome, Yeahwm, Spectrwm,
       Twobwm, Dwm, Wind, NoManager
  <1>2. Consistent(Flwm) /\ Consistent(Wmx)
    BY DEF Flwm, Wmx, Consistent, NoStyles
  <1>3. /\ Consistent(Twm) /\ Consistent(Ctwm) /\ Consistent(Etwm)
        /\ Consistent(Vtwm) /\ Consistent(Matwm2) /\ Consistent(Adwm)
        /\ Consistent(Echinus)
    BY LinkedConsistent DEF Twm, Ctwm, Etwm, Vtwm, Matwm2, Adwm, Echinus
  <1>4. Consistent(Uwm)
    BY DEF Uwm, Consistent, Linked
  <1>5. Consistent(Jwm)
    BY DEF Jwm, Consistent, Linked
  <1>6. Consistent(Cwm)
    BY DEF Cwm, Consistent, Linked
  <1>7. Consistent(Fvwm)
    BY DEF Fvwm, Consistent, Linked
  <1>8. Consistent(Blackbox) /\ Consistent(Fluxbox) /\ Consistent(Waimea)
    <2>1. Consistent(Blackbox)
      BY DEF Blackbox, Consistent, Resource
    <2>2. Consistent(Fluxbox)
      BY DEF Fluxbox, Consistent, Resource
    <2>3. Consistent(Waimea)
      <3>1. Waimea = [name |-> "waimea", icon |-> "waimea", menu |-> "database",
                      rcfile |-> "simple", subs |-> <<"styles">>,
                      suffix |-> TRUE, find |-> "simple", trims |-> FALSE,
                      get |-> "database", set |-> "database",
                      reload |-> "signal", lists |-> "simple", items |-> TRUE]
        BY DEF Waimea, Resource
      <3> QED
        BY <3>1 DEF Consistent
    <2> QED
      BY <2>1, <2>2, <2>3
  <1>9. Consistent(Pekwm)
    BY DEF Pekwm, Consistent
  <1>10. Consistent(Icewm)
    BY DEF Icewm, Consistent
  <1>11. Consistent(Openbox)
    BY DEF Openbox, Consistent, Pdir, RcfileOpenbox
  <1>12. Consistent(Metacity)
    BY DEF Metacity, Consistent, Pdir
  <1>13. Consistent(Wmaker)
    BY DEF Wmaker, Consistent
  <1> QED
    BY <1>1, <1>2, <1>3, <1>4, <1>5, <1>6, <1>7, <1>8, <1>9, <1>10, <1>11,
       <1>12, <1>13 DEF Plugins

\* A plugin is known by its name.
LEMMA NamesDiffer ==
    ASSUME NEW m \in Plugins, NEW n \in Plugins, m.name = n.name
    PROVE  m = n
  <1>1. /\ Mwm.name = "mwm" /\ Dtwm.name = "dtwm"
        /\ Afterstep.name = "afterstep" /\ Awesome.name = "awesome"
        /\ Yeahwm.name = "yeahwm" /\ Spectrwm.name = "spectrwm"
        /\ Twobwm.name = "2bwm" /\ Dwm.name = "dwm" /\ Wind.name = "wind"
        /\ NoManager.name = "none" /\ Flwm.name = "flwm" /\ Wmx.name = "wmx"
    BY DEF Mwm, Dtwm, Afterstep, Awesome, Yeahwm, Spectrwm, Twobwm, Dwm, Wind,
       NoManager, Flwm, Wmx, NoStyles
  <1>2. /\ Twm.name = "twm" /\ Ctwm.name = "ctwm" /\ Etwm.name = "etwm"
        /\ Vtwm.name = "vtwm" /\ Matwm2.name = "matwm2" /\ Adwm.name = "adwm"
        /\ Echinus.name = "echinus" /\ Uwm.name = "uwm" /\ Jwm.name = "jwm"
        /\ Cwm.name = "cwm" /\ Fvwm.name = "fvwm"
    BY DEF Twm, Ctwm, Etwm, Vtwm, Matwm2, Adwm, Echinus, Uwm, Jwm, Cwm, Fvwm,
       Linked
  <1>3. /\ Blackbox.name = "blackbox" /\ Fluxbox.name = "fluxbox"
        /\ Waimea.name = "waimea" /\ Pekwm.name = "pekwm"
        /\ Icewm.name = "icewm" /\ Openbox.name = "openbox"
        /\ Metacity.name = "metacity" /\ Wmaker.name = "wmaker"
    BY DEF Blackbox, Fluxbox, Waimea, Resource, Pekwm, Icewm, Openbox, Metacity,
       Wmaker
  <1> QED
    BY <1>1, <1>2, <1>3, SMTT(90) DEF Plugins

(***************************************************************************)
(* What a search returns.                                                  *)
(***************************************************************************)
\* First is the least of a set of numbers, The a member of a set.
LEMMA FirstIs ==
    ASSUME NEW S, S \subseteq Nat, S # {}
    PROVE  First(S) \in S /\ \A j \in S : First(S) <= j
  <1> DEFINE Less == OpToRel(<, Nat)
  <1>1. PICK i \in S : \A j \in S : ~(<<j, i>> \in Less)
    <2>1. IsWellFoundedOn(Less, Nat)
      BY NatLessThanWellFounded DEF Less
    <2> HIDE DEF Less
    <2> QED
      BY <2>1, WFMin
  <1>2. \A j \in S : i <= j
    <2>1. \A j \in S : ~(j < i)
      BY <1>1 DEF OpToRel
    <2> QED
      BY <2>1
  <1> QED
    BY <1>2 DEF First

LEMMA TheIs ==
    ASSUME NEW S, S # {}
    PROVE  The(S) \in S
  BY DEF The

\* The screens have plugins as managers.
LEMMA ScreensAre ==
    ASSUME managers \in Displays
    PROVE  /\ managers \in Seq(Plugins) /\ Len(managers) \in Nat \ {0}
           /\ Elements(managers) \subseteq Plugins
           /\ \A k \in 1..Len(managers) : managers[k] \in Elements(managers)
  <1>1. managers \in Seq(Plugins) /\ managers # << >>
    BY StyleSearchAssumption
  <1> QED
    BY <1>1 DEF Elements

\* What is installed for a manager is an entry that suits it, and two entries
\* of one place and form are one.
LEMMA InstalledAre ==
    ASSUME managers \in Displays, Fits(files),
           NEW m \in Elements(managers), NEW e \in Installed(m)
    PROVE  /\ e \in Entries /\ e \in Entry /\ Suits(m, e)
           /\ \A f \in Installed(m) :
                 f.dir = e.dir /\ f.sub = e.sub /\ f.form = e.form => f = e
  <1>1. PICK f \in files : f[1] = m.name /\ f[2] = e
    BY DEF Installed
  <1>2. f \in Installable
    BY DEF Fits
  <1>3. PICK n \in Elements(managers) :
           \E d \in Entries : Suits(n, d) /\ f = <<n.name, d>>
    BY <1>2 DEF Installable
  <1>4. n.name = m.name /\ e \in Entries /\ Suits(n, e) /\ f = <<n.name, e>>
    BY <1>1, <1>3
  <1>5. n = m
    BY <1>4, ScreensAre, NamesDiffer
  <1>6. e \in Entries /\ e \in Entry /\ Suits(m, e)
    BY <1>4, <1>5, StyleSearchAssumption
  <1>7. ASSUME NEW g \in Installed(m), g.dir = e.dir, g.sub = e.sub,
               g.form = e.form
        PROVE  g = e
    <2>1. PICK h \in files : h[1] = m.name /\ h[2] = g
      BY DEF Installed
    <2>2. h = f
      BY <1>1, <1>7, <2>1 DEF Fits
    <2> QED
      BY <1>1, <2>1, <2>2
  <1> QED
    BY <1>6, <1>7

\* The places of a manager are in the order in which they are looked at.
LEMMA Places ==
    ASSUME NEW m
    PROVE  /\ Place(m, 1) \in 0..2
           /\ \A i \in 2..4 : Place(m, i) = i
           /\ \A i, j \in 1..4 : i <= j => Place(m, i) <= Place(m, j)
           /\ \A i \in 1..4 : Place(m, i) \in 0..4
           /\ \A i \in 1..2 : Place(m, i) \in 0..2
           /\ \A i \in 3..4 : Place(m, i) \in 3..4
  <1>1. Place(m, 1) \in 0..2
    BY DEF Place
  <1>2. \A i \in 2..4 : Place(m, i) = i
    BY DEF Place
  <1> HIDE DEF Place
  <1> QED
    BY <1>1, <1>2

LEMMA SearchedAre ==
    ASSUME NEW class \in Class
    PROVE  /\ Searched(class) \subseteq 1..4 /\ Searched(class) \subseteq Nat
           /\ class = "user" => Searched(class) = 1..2
           /\ class = "system" => Searched(class) = 3..4
           /\ class = "mixed" => Searched(class) = 1..4
  BY DEF Searched, Class

\* What is hit in a directory is installed there.
LEMMA HitIs ==
    ASSUME NEW m, NEW i, NEW sub, NEW asked, NEW e \in Hit(m, i, sub, asked)
    PROVE  /\ e \in Installed(m) /\ e.dir = Place(m, i) /\ e.sub = sub
           /\ e.form = asked \/ At(m, i, sub, asked) = {}
  BY DEF Hit, At

\* The search of one subdirectory returns what is hit in the first directory
\* of the class where anything is.
LEMMA FindStyleSimpleIs ==
    ASSUME NEW m, NEW sub, NEW class \in Class, NEW asked,
           NEW f, f = FindStyleSimple(m, sub, class, asked)
    PROVE  \/ f = NoPath /\ \A i \in Searched(class) : Hit(m, i, sub, asked) = {}
           \/ \E i \in Searched(class) :
                 /\ f \in Hit(m, i, sub, asked)
                 /\ \A j \in Searched(class) : Hit(m, j, sub, asked) # {} => i <= j
  <1> DEFINE hits == {i \in Searched(class) : Hit(m, i, sub, asked) # {}}
  <1>1. CASE hits = {}
    BY <1>1 DEF FindStyleSimple
  <1>2. CASE hits # {}
    <2> DEFINE i == First(hits)
    <2>1. i \in hits /\ \A j \in hits : i <= j
      <3>1. hits \subseteq Nat
        BY SearchedAre
      <3> HIDE DEF hits
      <3> QED
        BY <1>2, <3>1, FirstIs
    <2>2. f = The(Hit(m, i, sub, asked))
      BY <1>2 DEF FindStyleSimple
    <2> HIDE DEF i
    <2>3. f \in Hit(m, i, sub, asked)
      BY <2>1, <2>2, TheIs
    <2> QED
      BY <2>1, <2>3
  <1> QED
    BY <1>1, <1>2

\* The search of all the subdirectories of a manager.
LEMMA FindSimpleIs ==
    ASSUME NEW m \in Plugins, NEW class \in Class, NEW asked,
           NEW f, f = FindSimple(m, class, asked), NoPath \notin Entry
    PROVE  \/ /\ f = NoPath
              /\ \A k \in DOMAIN m.subs :
                    FindStyleSimple(m, m.subs[k], class, asked) = NoPath
           \/ /\ f # NoPath
              /\ \E k \in DOMAIN m.subs :
                    f = FindStyleSimple(m, m.subs[k], class, asked)
  <1> DEFINE found(k) == FindStyleSimple(m, m.subs[k], class, asked)
             hits == {k \in DOMAIN m.subs : found(k) # NoPath}
  <1>1. CASE hits = {}
    BY <1>1 DEF FindSimple
  <1>2. CASE hits # {}
    <2>1. First(hits) \in hits
      <3>1. hits \subseteq Nat
        BY PluginsConsistent DEF Consistent
      <3> HIDE DEF hits
      <3> QED
        BY <1>2, <3>1, FirstIs
    <2>2. f = found(First(hits))
      BY <1>2 DEF FindSimple
    <2> QED
      BY <2>1, <2>2
  <1> QED
    BY <1>1, <1>2

\* The search of icewm.
LEMMA LocateIcewmIs ==
    ASSUME NEW m, NEW class \in Class, NEW file,
           NEW f, f = LocateIcewm(m, class, file)
    PROVE  \/ f = NoPath /\ \A i \in Searched(class) : IcewmHit(m, i, file) = {}
           \/ \E i \in Searched(class) :
                 /\ f = The(IcewmHit(m, i, file)) /\ f \in IcewmHit(m, i, file)
                 /\ \A j \in Searched(class) : IcewmHit(m, j, file) # {} => i <= j
  <1> DEFINE hits == {i \in Searched(class) : IcewmHit(m, i, file) # {}}
  <1>1. CASE hits = {}
    BY <1>1 DEF LocateIcewm
  <1>2. CASE hits # {}
    <2> DEFINE i == First(hits)
    <2>1. i \in hits /\ \A j \in hits : i <= j
      <3>1. hits \subseteq Nat
        BY SearchedAre
      <3> HIDE DEF hits
      <3> QED
        BY <1>2, <3>1, FirstIs
    <2>2. f = The(IcewmHit(m, i, file))
      BY <1>2 DEF LocateIcewm
    <2> HIDE DEF i
    <2>3. f \in IcewmHit(m, i, file)
      BY <2>1, <2>2, TheIs
    <2> QED
      BY <2>1, <2>2, <2>3
  <1> QED
    BY <1>1, <1>2

LEMMA IcewmHitIs ==
    ASSUME NEW m, NEW i, NEW file, NEW e \in IcewmHit(m, i, file)
    PROVE  /\ e \in Installed(m) /\ e.dir = Place(m, i) /\ e.sub = "themes"
           /\ \/ file = "name/default.theme" /\ e.form = "name" /\ e.kind = "dir"
              \/ file = "name/variation.theme" /\ e.form = "name/variation"
  BY DEF IcewmHit, At

\* The search of the directories of XDG.
XdgHit(m, i) == IF m.name = "metacity" THEN MetacityHit(m, i)
                                       ELSE OpenboxHit(m, i)

LEMMA FindStyleXdgIs ==
    ASSUME NEW m, NEW asked, NEW f, f = FindStyleXdg(m, asked)
    PROVE  \/ f = NoPath /\ (asked # "name" \/ \A i \in 2..4 : XdgHit(m, i) = {})
           \/ /\ asked = "name"
              /\ \E i \in 2..4 : /\ f \in XdgHit(m, i)
                                 /\ \A j \in 2..4 : XdgHit(m, j) # {} => i <= j
  <1> DEFINE hits == {i \in 2..4 : XdgHit(m, i) # {}}
  <1>1. f = IF hits = {} \/ asked # "name" THEN NoPath
            ELSE The(XdgHit(m, First(hits)))
    BY DEF FindStyleXdg, XdgHit
  <1>2. CASE hits = {} \/ asked # "name"
    BY <1>1, <1>2
  <1>3. CASE hits # {} /\ asked = "name"
    <2> DEFINE i == First(hits)
    <2>1. i \in hits /\ \A j \in hits : i <= j
      <3>1. hits \subseteq Nat
        OBVIOUS
      <3> HIDE DEF hits
      <3> QED
        BY <1>3, <3>1, FirstIs
    <2>2. f = The(XdgHit(m, i))
      BY <1>1, <1>3
    <2> HIDE DEF i
    <2>3. f \in XdgHit(m, i)
      BY <2>1, <2>2, TheIs
    <2> QED
      BY <1>3, <2>1, <2>3
  <1> QED
    BY <1>2, <1>3

LEMMA XdgHitIs ==
    ASSUME NEW m, NEW i, NEW e \in XdgHit(m, i)
    PROVE  /\ e \in Installed(m) /\ e.dir = Place(m, i)
           /\ e.sub = "themes" /\ e.form = "name"
  BY DEF XdgHit, MetacityHit, OpenboxHit, At

\* What is found is installed, but for a style of wmaker.
LEMMA FoundIs ==
    ASSUME managers \in Displays, Fits(files), NEW m \in Elements(managers),
           NEW class \in Class, NEW asked, NEW zero,
           m.find # "wmaker", FindStyle(m, class, asked, zero) # NoPath
    PROVE  /\ FindStyle(m, class, asked, zero) \in Installed(m)
           /\ FindStyle(m, class, asked, zero) \in Entry
  <1> DEFINE f == FindStyle(m, class, asked, zero)
  <1>1. m \in Plugins
    BY ScreensAre
  <1>2. CASE m.find = "simple"
    <2>1. f = FindSimple(m, class, asked)
      BY <1>2 DEF FindStyle
    <2>2. PICK k \in DOMAIN m.subs :
             f = FindStyleSimple(m, m.subs[k], class, asked)
      BY <1>1, <2>1, FindSimpleIs, StyleSearchAssumption
    <2>3. PICK i \in Searched(class) : f \in Hit(m, i, m.subs[k], asked)
      BY <2>2, FindStyleSimpleIs
    <2> HIDE DEF f
    <2> QED
      BY <2>3, HitIs, InstalledAre DEF f
  <1>3. CASE m.find = "icewm"
    <2>1. f = LocateIcewm(m, class, IcewmFile(asked, zero))
      BY <1>3 DEF FindStyle
    <2>2. PICK i \in Searched(class) : f \in IcewmHit(m, i, IcewmFile(asked, zero))
      BY <2>1, LocateIcewmIs
    <2> HIDE DEF f
    <2> QED
      BY <2>2, IcewmHitIs, InstalledAre DEF f
  <1>4. CASE m.find = "xdg"
    <2>1. f = FindStyleXdg(m, asked)
      BY <1>4 DEF FindStyle
    <2>2. PICK i \in 2..4 : f \in XdgHit(m, i)
      BY <2>1, FindStyleXdgIs
    <2> HIDE DEF f
    <2> QED
      BY <1>4, <2>2, XdgHitIs, InstalledAre DEF f
  <1>5. CASE m.find \notin {"simple", "icewm", "xdg", "wmaker"}
    BY <1>5 DEF FindStyle
  <1> QED
    BY <1>2, <1>3, <1>4, <1>5

(***************************************************************************)
(* The invariant.                                                          *)
(***************************************************************************)
Asked == {e.form : e \in Entries}
            \cup {"name", "name/default.theme", "name/variation.theme"}

\* What the file of a manager may say: a name, or the path of a style.
Fitting(m, own) ==
    IF ByName(m) THEN own \in [name : ThemeName] ELSE \E e \in Entry : own = Path(m, e)

Names == {m.name : m \in Elements(managers)}

SettingFits(m, s) ==
    /\ s.form = "none" <=> s.own = NoPath
    /\ s.own # NoPath => Fitting(m, s.own)
    /\ s.sys # NoPath => HasDefault(m) /\ \E e \in Entry : /\ e.dir \in 3..4
                                                          /\ s.sys = Path(m, e)

ConfFits ==
    /\ conf \in [Names -> [own : Value \cup {NoPath},
                           form : {"none", "link", "file"},
                           sys : Value \cup {NoPath}]]
    /\ \A m \in Elements(managers) : SettingFits(m, conf[m.name])

ItemFits == item \in {NoItem} \cup [class : Class, asked : {e.form : e \in Entries}]

How == {"set", "already", "not found", "no pid", "failed", "crash", "edited",
        "no line", "none"}

OutFits ==
    /\ out \in Seq([how : How, path : Value \cup {NoPath}, class : Class])
    /\ ~Idle => \A k \in DOMAIN out : out[k].class = command.class

\* The state in which the operations run.
World == TypeOK /\ ConfFits /\ ItemFits /\ OutFits

\* The values and settings are not the one that stands for nothing.
LEMMA PathsAre ==
    ASSUME NEW m \in Plugins, NEW e \in Entry
    PROVE  /\ Path(m, e) \in Value /\ Path(m, e) # NoPath
           /\ m.trims = FALSE => Path(m, e) = [of |-> e, trimmed |-> FALSE]
           /\ Path(m, e).of = e
  <1>1. Path(m, e) \in [of : Entry, trimmed : BOOLEAN]
    BY PluginsConsistent DEF Consistent, Path
  <1> QED
    BY <1>1, StyleSearchAssumption DEF Path, Value

LEMMA NamesAre ==
    ASSUME NEW n \in ThemeName
    PROVE  Name(n) \in Value /\ Name(n) # NoPath /\ Name(n) \in [name : ThemeName]
  BY StyleSearchAssumption DEF Name, Value

\* The style that is read is the one in force, when the file is looked for in
\* the right directory and the link of the system is not asked for.
LEMMA GotIsInForce ==
    ASSUME managers \in Displays, ConfFits, NEW m \in Elements(managers),
           NEW class \in Class, ~(HasDefault(m) /\ class = "system"),
           m.get # "icewm", Pdir(m) # "wrong", GetStyle(m, class) # NoPath
    PROVE  InForce(m) = GetStyle(m, class)
  <1>1. SettingFits(m, conf[m.name])
    BY DEF ConfFits
  <1>2. CASE HasDefault(m)
    <2>1. GetStyle(m, class) = GetStyleSimple(m, class)
      BY <1>2 DEF HasDefault, GetStyle
    <2>2. class \in {"user", "mixed"}
      BY <1>2 DEF Class
    <2> QED
      BY <1>1, <2>1, <2>2 DEF GetStyleSimple, Written, InForce, SettingFits
  <1>3. CASE ~HasDefault(m)
    <2>1. GetStyle(m, class) = Own(m)
      BY <1>3 DEF HasDefault, GetStyle, GetStyleDatabase, GetStylePekwm,
         GetStyleOpenbox, GetStyleMetacity
    <2> QED
      BY <2>1 DEF Own, Written, InForce
  <1> QED
    BY <1>2, <1>3

\* The managers whose style set_style can write.
Setters == {"link", "file", "database", "pekwm", "icewm", "openbox", "gsettings"}

\* What is in the file of the user is what is read back.
LEMMA OwnIsGot ==
    ASSUME managers \in Displays, ConfFits, NEW m \in Elements(managers),
           NEW class \in Class, ~(HasDefault(m) /\ class = "system"),
           m.set \in Setters \ {"icewm"}, Pdir(m) # "wrong",
           conf[m.name].form # "none"
    PROVE  GetStyle(m, class) = conf[m.name].own
  <1>1. SettingFits(m, conf[m.name]) /\ m \in Plugins
    BY ScreensAre DEF ConfFits
  <1>2. m.get = m.set
    BY <1>1, PluginsConsistent DEF Consistent, Setters
  <1>3. Written(m) /\ conf[m.name].own # NoPath
    BY <1>1 DEF Written, SettingFits
  <1>4. CASE HasDefault(m)
    <2>1. GetStyle(m, class) = GetStyleSimple(m, class)
      BY <1>4 DEF HasDefault, GetStyle
    <2>2. class \in {"user", "mixed"}
      BY <1>4 DEF Class
    <2> QED
      BY <1>3, <2>1, <2>2 DEF GetStyleSimple
  <1>5. CASE ~HasDefault(m)
    <2>1. GetStyle(m, class) = Own(m)
      BY <1>2, <1>5 DEF Setters, HasDefault, GetStyle, GetStyleDatabase,
         GetStylePekwm, GetStyleOpenbox, GetStyleMetacity
    <2> QED
      BY <1>3, <2>1 DEF Own
  <1> QED
    BY <1>4, <1>5

(***************************************************************************)
(* What set_style does on a screen: it leaves the setting, and where it    *)
(* says that the style is set already, it is; or it puts a style in it.    *)
(***************************************************************************)
Leaves(m, how, path) ==
    /\ conf' = conf
    /\ how # "set"
    /\ (/\ how = "already" /\ Pdir(m) # "wrong"
        /\ path \notin strays[m.name]
        /\ ~(HasDefault(m) /\ command.class = "system")) => InForce(m) = path

Puts(m, how, path) ==
    /\ how = "set" /\ Pdir(m) # "wrong" /\ m.set \in Setters
    /\ path # NoPath /\ Fitting(m, path)
    /\ ~ByName(m) => Found(m) # NoPath /\ path = Path(m, Found(m))
    /\ conf' \in [Names -> [own : Value \cup {NoPath},
                            form : {"none", "link", "file"},
                            sys : Value \cup {NoPath}]]
    /\ conf'[m.name].own = path
    /\ conf'[m.name].form \in {"link", "file"}
    /\ conf'[m.name].sys = conf[m.name].sys
    /\ \A n \in Names \ {m.name} : conf'[n] = conf[n]

\* What else is in its file changes only when the file is rewritten.
Strews(m, how) ==
    \/ strays' = strays
    \/ /\ how \in Rewriting
       /\ strays' \in [Names -> SUBSET Value]
       /\ \A n \in Names \ {m.name} : strays'[n] = strays[n]

Does(m, how, path, asked) ==
    /\ how \in How /\ path \in Value \cup {NoPath} /\ asked \in Asked
    /\ NextScreen(how, path, asked)
    /\ Leaves(m, how, path) \/ Puts(m, how, path)
    /\ Strews(m, how)

LEMMA PutsIs ==
    ASSUME ConfFits, NEW m \in Elements(managers), NEW value \in Value,
           NEW form \in {"link", "file"},
           conf' = [conf EXCEPT ![m.name].own = value, ![m.name].form = form]
    PROVE  /\ conf' \in [Names -> [own : Value \cup {NoPath},
                                   form : {"none", "link", "file"},
                                   sys : Value \cup {NoPath}]]
           /\ conf'[m.name].own = value
           /\ conf'[m.name].form = form
           /\ conf'[m.name].sys = conf[m.name].sys
           /\ \A n \in Names \ {m.name} : conf'[n] = conf[n]
  <1>1. m.name \in Names
    BY DEF Names
  <1> HIDE DEF Value
  <1> QED
    BY <1>1 DEF ConfFits

LEMMA CommandIs ==
    ASSUME World, ~Idle
    PROVE  /\ command.class \in Class /\ command.asked \in Asked
           /\ command.clicked \in BOOLEAN /\ command # NoCommand
  BY DEF World, TypeOK, Idle, Command, Asked

LEMMA FoundPath ==
    ASSUME World, ~Idle, NEW m \in Elements(managers),
           m.set \in Setters \cup {"cwm"}, Found(m) # NoPath
    PROVE  /\ Found(m) \in Entry
           /\ Path(m, Found(m)) \in Value /\ Path(m, Found(m)) # NoPath
           /\ ~ByName(m) => Fitting(m, Path(m, Found(m)))
  <1>1. m \in Plugins
    BY ScreensAre DEF World, TypeOK
  <1>2. m.find # "wmaker"
    BY <1>1, PluginsConsistent DEF Consistent, Setters
  <1>3. Found(m) \in Entry
    BY <1>2, CommandIs, FoundIs DEF Found, World, TypeOK
  <1> QED
    BY <1>1, <1>3, PathsAre DEF Fitting

\* A screen whose setting is left as it is, and nothing is said of it.
LEMMA SaysLeaves ==
    ASSUME World, ~Idle, NEW m \in Elements(managers),
           NEW how \in How \ {"set", "already"}, Says(how, NoPath)
    PROVE  Does(m, how, NoPath, command.asked)
  BY CommandIs DEF Says, Does, Leaves, Strews

LEMMA NothingDoes ==
    ASSUME World, ~Idle, NEW m \in Elements(managers),
           NotFound(m) \/ NoPid \/ Failed \/ Crash(m)
    PROVE  \E how \in How : Does(m, how, NoPath, command.asked)
  <1>1. \/ Says("not found", NoPath) \/ Says("no pid", NoPath)
        \/ Says("failed", NoPath)    \/ Says("crash", NoPath)
    BY DEF NotFound, NoPid, Failed, Crash
  <1>2. {"not found", "no pid", "failed", "crash"} \subseteq How \ {"set", "already"}
    BY DEF How
  <1> QED
    BY <1>1, <1>2, SaysLeaves

LEMMA AlreadyDoes ==
    ASSUME World, ~Idle, NEW m \in Elements(managers),
           m.set \in Setters \cup {"cwm"}, ~ByName(m), Already(m)
    PROVE  Does(m, "already", Path(m, Found(m)), command.asked)
  <1>1. m \in Plugins /\ managers \in Displays /\ ConfFits
    BY ScreensAre DEF World, TypeOK
  <1>2. m.get # "icewm"
    BY <1>1, PluginsConsistent DEF Consistent, Setters, ByName
  <1>3. Path(m, Found(m)) \in Value /\ Path(m, Found(m)) # NoPath
    BY FoundPath DEF Already
  <1>4. GetStyle(m, command.class) = Path(m, Found(m))
    BY DEF Already, Same
  <1>5. Leaves(m, "already", Path(m, Found(m)))
    <2>1. ASSUME Pdir(m) # "wrong", ~(HasDefault(m) /\ command.class = "system")
          PROVE  InForce(m) = Path(m, Found(m))
      BY <1>1, <1>2, <1>3, <1>4, <2>1, CommandIs, GotIsInForce
    <2> QED
      BY <2>1 DEF Leaves, Already, Says
  <1>6. NextScreen("already", Path(m, Found(m)), command.asked)
    BY DEF Already, Says
  <1>7. "already" \in How
    BY DEF How
  <1>8. Strews(m, "already")
    BY DEF Already, Says, Strews
  <1> QED
    BY <1>3, <1>5, <1>6, <1>7, <1>8, CommandIs, Zenon DEF Does

LEMMA StoresDoes ==
    ASSUME World, ~Idle, NEW m \in Elements(managers),
           m.set \in Setters, Pdir(m) # "wrong", NEW value \in Value,
           value # NoPath, Fitting(m, value), NEW form \in {"link", "file"},
           ~ByName(m) => Found(m) # NoPath /\ value = Path(m, Found(m)),
           Stores(m, value, form)
    PROVE  Does(m, "set", value, command.asked)
  <1>1. Puts(m, "set", value)
    <2> HIDE DEF Value, Fitting
    <2>1. ConfFits
      BY DEF World
    <2>2. conf' = [conf EXCEPT ![m.name].own = value, ![m.name].form = form]
      BY DEF Stores
    <2> QED
      BY <2>1, <2>2, PutsIs DEF Puts
  <1>2. NextScreen("set", value, command.asked)
    BY DEF Stores
  <1>3. "set" \in How
    BY DEF How
  <1>4. Strews(m, "set")
    BY DEF Stores, Strews
  <1> QED
    BY <1>1, <1>2, <1>3, <1>4, CommandIs, Zenon DEF Does

\* The plugins that replace the line of the style in a file that is there.
LEMMA ReplacesDoes ==
    ASSUME World, ~Idle, NEW m \in Elements(managers),
           m.set \in Setters, Written(m), NEW value \in Value,
           value # NoPath, Fitting(m, value),
           ~ByName(m) => Found(m) # NoPath /\ value = Path(m, Found(m)),
           Replaces(m, value)
    PROVE  \E how, path : Does(m, how, path, command.asked)
  <1>1. m.name \in Names /\ ConfFits /\ strays \in [Names -> SUBSET Value]
    BY DEF Names, World, TypeOK
  <1> HIDE DEF Value, Fitting
  <1>2. Strews(m, "set") /\ Strews(m, "no line")
    <2>1. PICK S \in SUBSET (strays[m.name] \cup {value}) :
             strays' = [strays EXCEPT ![m.name] = S]
      BY DEF Replaces
    <2>2. S \in SUBSET Value
      BY <1>1, <2>1
    <2> QED
      BY <1>1, <2>1, <2>2 DEF Strews, Rewriting
  <1>3. {"set", "no line"} \subseteq How
    BY DEF How
  <1>4. CASE /\ conf' = [conf EXCEPT ![m.name].own = value]
             /\ NextScreen("set", value, command.asked)
    <2>1. conf[m.name].form \in {"link", "file"} /\ Pdir(m) # "wrong"
      BY <1>1 DEF Written, ConfFits
    <2>2. /\ conf' \in [Names -> [own : Value \cup {NoPath},
                                  form : {"none", "link", "file"},
                                  sys : Value \cup {NoPath}]]
          /\ conf'[m.name].own = value
          /\ conf'[m.name].form = conf[m.name].form
          /\ conf'[m.name].sys = conf[m.name].sys
          /\ \A n \in Names \ {m.name} : conf'[n] = conf[n]
      BY <1>1, <1>4 DEF ConfFits
    <2>3. Puts(m, "set", value)
      BY <2>1, <2>2 DEF Puts
    <2>4. Does(m, "set", value, command.asked)
      BY <1>2, <1>3, <1>4, <2>3, CommandIs, Zenon DEF Does
    <2> QED
      BY <2>4
  <1>5. CASE conf' = conf /\ NextScreen("no line", NoPath, command.asked)
    <2>1. Leaves(m, "no line", NoPath)
      BY <1>5 DEF Leaves
    <2>2. Does(m, "no line", NoPath, command.asked)
      BY <1>2, <1>3, <1>5, <2>1, CommandIs, Zenon DEF Does
    <2> QED
      BY <2>2
  <1> QED
    BY <1>4, <1>5 DEF Replaces

\* What is found in the file, and nowhere else than in the line of the style,
\* is in force.
LEMMA MentionedDoes ==
    ASSUME World, ~Idle, NEW m \in Elements(managers), Written(m),
           NEW value \in Value, Mentions(m, value), Says("already", value)
    PROVE  Does(m, "already", value, command.asked)
  <1>1. Leaves(m, "already", value)
    BY DEF Leaves, Mentions, Says, Written, InForce
  <1>2. "already" \in How
    BY DEF How
  <1>3. Strews(m, "already") /\ NextScreen("already", value, command.asked)
    BY DEF Says, Strews
  <1> QED
    BY <1>1, <1>2, <1>3, CommandIs, Zenon DEF Does

LEMMA SetStyleSimpleDoes ==
    ASSUME World, ~Idle, NEW m \in Elements(managers), SetStyleSimple(m)
    PROVE  \E how, path, asked : Does(m, how, path, asked)
  <1>1. m.set \in Setters /\ ~ByName(m)
    BY DEF SetStyleSimple, Setters, ByName
  <1>2. CASE NotFound(m) \/ Failed
    BY <1>2, NothingDoes
  <1>3. CASE Already(m)
    BY <1>1, <1>3, AlreadyDoes
  <1>4. CASE /\ Differs(m) /\ Pdir(m) # "wrong"
             /\ \E form \in {"link", m.set} : Stores(m, Path(m, Found(m)), form)
    <2>1. PICK form \in {"link", "file"} : Stores(m, Path(m, Found(m)), form)
      BY <1>4 DEF SetStyleSimple
    <2>2. Found(m) # NoPath
      BY <1>4 DEF Differs
    <2> QED
      BY <1>1, <1>4, <2>1, <2>2, FoundPath, StoresDoes
  <1> QED
    BY <1>2, <1>3, <1>4 DEF SetStyleSimple

LEMMA SetStyleDatabaseDoes ==
    ASSUME World, ~Idle, NEW m \in Elements(managers), SetStyleDatabase(m)
    PROVE  \E how, path, asked : Does(m, how, path, asked)
  <1>1. m.set \in Setters /\ ~ByName(m)
    BY DEF SetStyleDatabase, Setters, ByName
  <1>2. CASE NoPid \/ Crash(m) \/ NotFound(m) \/ Failed
    BY <1>2, NothingDoes
  <1>3. CASE Already(m)
    BY <1>1, <1>3, AlreadyDoes
  <1>4. CASE Differs(m) /\ Written(m) /\ Stores(m, Path(m, Found(m)), "file")
    <2>1. Found(m) # NoPath /\ Pdir(m) # "wrong"
      BY <1>4 DEF Differs, Written
    <2> QED
      BY <1>1, <1>4, <2>1, FoundPath, StoresDoes
  <1> QED
    BY <1>2, <1>3, <1>4 DEF SetStyleDatabase

LEMMA SetStylePekwmDoes ==
    ASSUME World, ~Idle, NEW m \in Elements(managers), SetStylePekwm(m)
    PROVE  \E how, path, asked : Does(m, how, path, asked)
  <1>1. m.set \in Setters /\ ~ByName(m)
    BY DEF SetStylePekwm, Setters, ByName
  <1>2. CASE NoPid \/ NotFound(m) \/ Failed
    BY <1>2, NothingDoes
  <1>3. CASE /\ Found(m) # NoPath /\ Written(m) /\ Mentions(m, Path(m, Found(m)))
             /\ Says("already", Path(m, Found(m)))
    BY <1>1, <1>3, FoundPath, MentionedDoes
  <1>4. CASE /\ Found(m) # NoPath /\ Written(m)
             /\ Replaces(m, Path(m, Found(m)))
    BY <1>1, <1>4, FoundPath, ReplacesDoes
  <1> QED
    BY <1>2, <1>3, <1>4 DEF SetStylePekwm

\* What icewm is told is a name that its plugin has found.
LEMMA IcewmFileIs ==
    ASSUME World, ~Idle, NEW m \in Elements(managers), m.set = "icewm",
           NEW zero, FindStyle(m, command.class, command.asked, zero) # NoPath
    PROVE  IcewmFile(command.asked, zero) \in {"name/default.theme",
                                               "name/variation.theme"}
  <1> DEFINE file == IcewmFile(command.asked, zero)
  <1>1. m.find = "icewm"
    BY ScreensAre, PluginsConsistent DEF World, TypeOK, Consistent
  <1>2. LocateIcewm(m, command.class, file) # NoPath
    BY <1>1 DEF FindStyle
  <1> HIDE DEF file
  <1>3. \E i, e : e \in IcewmHit(m, i, file)
    BY <1>2, CommandIs, LocateIcewmIs
  <1>4. file \in {"name/default.theme", "name/variation.theme"}
    BY <1>3, IcewmHitIs
  <1> QED
    BY <1>4 DEF file

LEMMA SetStyleIcewmDoes ==
    ASSUME World, ~Idle, NEW m \in Elements(managers), SetStyleIcewm(m)
    PROVE  \E how, path, asked : Does(m, how, path, asked)
  <1>1. m.set = "icewm" /\ m.set \in Setters /\ ByName(m) /\ ~HasDefault(m)
    <2>1. m.set = "icewm"
      BY DEF SetStyleIcewm
    <2>2. m.get = "icewm"
      BY <2>1, ScreensAre, PluginsConsistent DEF World, TypeOK, Consistent
    <2> QED
      BY <2>1, <2>2 DEF Setters, ByName, HasDefault
  <1>2. PICK zero \in BOOLEAN :
          LET found == FindStyle(m, command.class, command.asked, zero) # NoPath
              file == IcewmFile(command.asked, zero)
          IN  \/ ~found /\ Says("not found", NoPath)
              \/ /\ found /\ ~Written(m)
                 /\ UNCHANGED <<conf, strays>>
                 /\ NextScreen("failed", NoPath, file)
              \/ /\ found /\ Written(m)
                 /\ conf' = [conf EXCEPT ![m.name].own = Name(file)]
                 /\ UNCHANGED strays
                 /\ NextScreen(IF conf' = conf THEN "already" ELSE "set",
                               Name(file), file)
    BY DEF SetStyleIcewm
  <1> DEFINE file == IcewmFile(command.asked, zero)
             found == FindStyle(m, command.class, command.asked, zero) # NoPath
  <1>3. CASE Says("not found", NoPath)
    <2>1. "not found" \in How \ {"set", "already"}
      BY DEF How
    <2> QED
      BY <1>3, <2>1, SaysLeaves
  <1>4. ASSUME found
        PROVE  /\ file \in Asked /\ Name(file) \in Value /\ Name(file) # NoPath
               /\ Name(file) \in [name : ThemeName]
    <2>1. file \in {"name/default.theme", "name/variation.theme"}
      BY <1>1, <1>4, IcewmFileIs
    <2> HIDE DEF file
    <2>2. file \in Asked /\ file \in ThemeName
      BY <2>1 DEF Asked, ThemeName
    <2> QED
      BY <2>2, NamesAre
  <1> HIDE DEF file
  <1>5. CASE /\ found /\ UNCHANGED <<conf, strays>>
             /\ NextScreen("failed", NoPath, file)
    <2>1. "failed" \in How
      BY DEF How
    <2>2. Leaves(m, "failed", NoPath)
      BY <1>5 DEF Leaves
    <2>3. Does(m, "failed", NoPath, file)
      BY <1>4, <1>5, <2>1, <2>2 DEF Does, Strews
    <2> QED
      BY <2>3
  <1>6. CASE /\ found /\ Written(m)
             /\ conf' = [conf EXCEPT ![m.name].own = Name(file)]
             /\ UNCHANGED strays
             /\ NextScreen(IF conf' = conf THEN "already" ELSE "set",
                           Name(file), file)
    <2> HIDE DEF found
    <2>1. m.name \in Names /\ ConfFits
      BY DEF Names, World
    <2>2. CASE conf' = conf
      <3>1. conf[m.name].own = Name(file)
        BY <1>6, <2>1, <2>2 DEF ConfFits
      <3>2. Leaves(m, "already", Name(file))
        BY <1>6, <2>2, <3>1 DEF Leaves, Written, InForce
      <3>3. "already" \in How
        BY DEF How
      <3>4. Does(m, "already", Name(file), file)
        BY <1>4, <1>6, <2>2, <3>2, <3>3 DEF Does, Strews
      <3> QED
        BY <3>4
    <2>3. CASE conf' # conf
      <3>1. conf[m.name].form \in {"link", "file"} /\ Pdir(m) # "wrong"
        BY <1>6, <2>1 DEF Written, ConfFits
      <3>2. /\ conf' \in [Names -> [own : Value \cup {NoPath},
                                    form : {"none", "link", "file"},
                                    sys : Value \cup {NoPath}]]
            /\ conf'[m.name].own = Name(file)
            /\ conf'[m.name].form = conf[m.name].form
            /\ conf'[m.name].sys = conf[m.name].sys
            /\ \A n \in Names \ {m.name} : conf'[n] = conf[n]
        <4> HIDE DEF Value
        <4> QED
          BY <1>4, <1>6, <2>1 DEF ConfFits
      <3>3. Puts(m, "set", Name(file))
        BY <1>1, <1>4, <1>6, <3>1, <3>2 DEF Puts, Fitting
      <3>4. "set" \in How
        BY DEF How
      <3>5. Does(m, "set", Name(file), file)
        BY <1>4, <1>6, <2>3, <3>3, <3>4 DEF Does, Strews
      <3> QED
        BY <3>5
    <2> QED
      BY <2>2, <2>3
  <1> QED
    BY <1>2, <1>3, <1>5, <1>6 DEF file

LEMMA IcewmAbortsDoes ==
    ASSUME World, ~Idle, NEW m \in Elements(managers), IcewmAborts(m)
    PROVE  \E how, path, asked : Does(m, how, path, asked)
  <1>1. Says("crash", NoPath) /\ "crash" \in How \ {"set", "already"}
    BY DEF IcewmAborts, How
  <1> QED
    BY <1>1, SaysLeaves

\* openbox and metacity are told a name.
LEMMA NameFits ==
    ASSUME World, NEW m \in Elements(managers), m.set \in {"openbox", "gsettings"}
    PROVE  /\ m.set \in Setters /\ ByName(m) /\ Pdir(m) # "wrong"
           /\ Name("name") \in Value /\ Name("name") # NoPath
           /\ Fitting(m, Name("name"))
  <1>1. m.set \in Setters /\ ByName(m)
    BY DEF Setters, ByName
  <1>2. Pdir(m) # "wrong"
    BY ScreensAre, PluginsConsistent DEF World, TypeOK, Consistent
  <1>3. "name" \in ThemeName
    BY DEF ThemeName
  <1> QED
    BY <1>1, <1>2, <1>3, NamesAre DEF Fitting

LEMMA SetStyleOpenboxDoes ==
    ASSUME World, ~Idle, NEW m \in Elements(managers), SetStyleOpenbox(m)
    PROVE  \E how, path, asked : Does(m, how, path, asked)
  <1>1. m.set \in {"openbox", "gsettings"}
    BY DEF SetStyleOpenbox
  <1>2. CASE NotFound(m) \/ Failed
    BY <1>2, NothingDoes
  <1>3. CASE /\ Written(m) /\ Mentions(m, Name("name"))
             /\ Says("already", Name("name"))
    BY <1>1, <1>3, NameFits, MentionedDoes
  <1>4. CASE Written(m) /\ Replaces(m, Name("name"))
    BY <1>1, <1>4, NameFits, ReplacesDoes
  <1> QED
    BY <1>2, <1>3, <1>4 DEF SetStyleOpenbox

LEMMA SetStyleMetacityDoes ==
    ASSUME World, ~Idle, NEW m \in Elements(managers), SetStyleMetacity(m)
    PROVE  \E how, path, asked : Does(m, how, path, asked)
  <1>1. m.set \in {"openbox", "gsettings"}
    BY DEF SetStyleMetacity
  <1>2. CASE NotFound(m)
    BY <1>2, NothingDoes
  <1>3. CASE Stores(m, Name("name"), "file")
    BY <1>1, <1>3, NameFits, StoresDoes
  <1> QED
    BY <1>2, <1>3 DEF SetStyleMetacity

LEMMA SetStyleCwmDoes ==
    ASSUME World, ~Idle, NEW m \in Elements(managers), SetStyleCwm(m)
    PROVE  \E how, path, asked : Does(m, how, path, asked)
  <1>1. m.set = "cwm" /\ m.set \in Setters \cup {"cwm"} /\ ~ByName(m)
    BY DEF SetStyleCwm, ByName
  <1>2. CASE NoPid \/ NotFound(m) \/ Failed
    BY <1>2, NothingDoes
  <1>3. CASE Already(m)
    BY <1>1, <1>3, AlreadyDoes
  <1>4. CASE Differs(m) /\ Says("edited", Path(m, Found(m)))
    <2>1. "edited" \in How
      BY DEF How
    <2>2. Path(m, Found(m)) \in Value
      BY <1>1, <1>4, FoundPath DEF Differs
    <2>3. Leaves(m, "edited", Path(m, Found(m)))
      BY <1>4 DEF Leaves, Says
    <2>4. NextScreen("edited", Path(m, Found(m)), command.asked)
      BY <1>4 DEF Says
    <2>5. Strews(m, "edited")
      BY <1>4 DEF Says, Strews
    <2>6. Does(m, "edited", Path(m, Found(m)), command.asked)
      BY <2>1, <2>2, <2>3, <2>4, <2>5, CommandIs, Zenon DEF Does
    <2> QED
      BY <2>6
  <1> QED
    BY <1>2, <1>3, <1>4 DEF SetStyleCwm

LEMMA SetStyleNoneDoes ==
    ASSUME World, ~Idle, NEW m \in Elements(managers), SetStyleNone(m)
    PROVE  \E how, path, asked : Does(m, how, path, asked)
  <1>1. Says("none", NoPath) /\ "none" \in How \ {"set", "already"}
    BY DEF SetStyleNone, How
  <1> QED
    BY <1>1, SaysLeaves

LEMMA SetStyleDoes ==
    ASSUME World, SetStyle
    PROVE  /\ ~Idle /\ Len(out) \in Nat /\ Len(out) < Len(managers)
           /\ managers[Len(out) + 1] \in Elements(managers)
           /\ \E how, path, asked : Does(managers[Len(out) + 1], how, path, asked)
  <1> DEFINE m == managers[Len(out) + 1]
  <1>1. ~Idle /\ Len(out) \in Nat /\ Len(out) < Len(managers)
    BY DEF SetStyle, World, TypeOK, OutFits
  <1>2. m \in Elements(managers)
    BY <1>1, ScreensAre DEF World, TypeOK
  <1>3. \/ SetStyleSimple(m)  \/ SetStyleDatabase(m) \/ SetStylePekwm(m)
        \/ SetStyleIcewm(m)   \/ IcewmAborts(m)      \/ SetStyleOpenbox(m)
        \/ SetStyleMetacity(m) \/ SetStyleCwm(m)     \/ SetStyleNone(m)
    BY DEF SetStyle
  <1> HIDE DEF m
  <1>4. \E how, path, asked : Does(m, how, path, asked)
    BY <1>1, <1>2, <1>3, SetStyleSimpleDoes, SetStyleDatabaseDoes,
       SetStylePekwmDoes, SetStyleIcewmDoes, IcewmAbortsDoes,
       SetStyleOpenboxDoes, SetStyleMetacityDoes, SetStyleCwmDoes,
       SetStyleNoneDoes
  <1> QED
    BY <1>1, <1>2, <1>4 DEF m

(***************************************************************************)
(* The invariant holds.                                                    *)
(***************************************************************************)
\* What depends on the screens and on the start of their managers only.
LEMMA Frame ==
    ASSUME managers' = managers, start' = start
    PROVE  /\ Installable' = Installable /\ Names' = Names
           /\ \A m : Pdir(m)' = Pdir(m)
  <1>1. \A m : Pdir(m)' = Pdir(m)
    BY DEF Pdir, RcfileSimple, RcfileXtwm, RcfileIcewm, RcfileOpenbox, RcfileWmaker
  <1>2. Installable' = Installable
    BY <1>1 DEF Installable, Suits
  <1>3. Names' = Names
    BY DEF Names
  <1> QED
    BY <1>1, <1>2, <1>3

\* A style is listed for the directory it is in.
LEMMA ListedAre ==
    ASSUME NEW m \in Plugins, NEW class, NEW e \in Listed(m, class)
    PROVE  \E i \in 1..4 :
              /\ e \in Within(m, i)
              /\ m.lists \in {"simple", "icewm"} =>
                    IF i <= 2 THEN class # "system" ELSE class # "user"
              /\ m.lists = "simple" => e \in ListDirSimple(m, i)
              /\ m.lists = "icewm" => e \in ListDirIcewm(m, i)
              /\ m.lists \notin {"simple", "icewm"} =>
                    /\ m.name \in {"openbox", "metacity"}
                    /\ i \in 2..4 /\ e.kind \in {"dir", "file"}
  <1>1. CASE m.lists \in {"simple", "icewm"}
    <2>1. e \in ListStylesSimple(m, class)
      BY <1>1, PluginsConsistent DEF Listed, Consistent
    <2> QED
      BY <1>1, <2>1 DEF ListStylesSimple, ListDirSimple, ListDirIcewm
  <1>2. CASE m.lists \notin {"simple", "icewm"}
    <2>1. /\ m.name \in {"openbox", "metacity"}
          /\ e \in UNION {{x \in Within(m, i) : x.kind \in {"dir", "file"}} :
                          i \in 2..4}
      BY <1>2 DEF Listed, ListStylesOpenbox, ListStylesMetacity
    <2> QED
      BY <1>2, <2>1
  <1> QED
    BY <1>1, <1>2

LEMMA ItemsAre ==
    ASSUME World, NEW m \in Elements(managers), NEW class \in Class,
           NEW i \in Items(m, class)
    PROVE  i \in [class : Class, asked : {e.form : e \in Entries}]
  <1>1. PICK e \in Listed(m, class) :
           i = [class |-> IF m.lists = "xdg" THEN "mixed"
                          ELSE IF e.dir \in 1..2 THEN "user" ELSE "system",
                asked |-> e.form]
    BY DEF Items
  <1>2. e \in Entries
    <2>1. m \in Plugins
      BY ScreensAre DEF World, TypeOK
    <2>2. e \in Installed(m)
      BY <2>1, ListedAre DEF Within
    <2> QED
      BY <2>2, InstalledAre DEF World, TypeOK
  <1> QED
    BY <1>1, <1>2 DEF Class

LEMMA InitWorld == Init => World
  <1> SUFFICES ASSUME Init PROVE World
    OBVIOUS
  <1>1. managers \in Displays /\ start \in Start /\ Fits(files)
    BY DEF Init
  <1>2. \A m \in Elements(managers) :
           /\ conf[m.name] \in [own : Value \cup {NoPath},
                                form : {"none", "link", "file"},
                                sys : Value \cup {NoPath}]
           /\ SettingFits(m, conf[m.name])
    <2> SUFFICES ASSUME NEW m \in Elements(managers)
                 PROVE  /\ conf[m.name] \in [own : Value \cup {NoPath},
                                             form : {"none", "link", "file"},
                                             sys : Value \cup {NoPath}]
                        /\ SettingFits(m, conf[m.name])
      OBVIOUS
    <2> DEFINE s == conf[m.name]
    <2>1. m \in Plugins
      BY <1>1, ScreensAre
    <2>2. s \in Settings(m) /\ (s.form = "none" <=> s.own = NoPath)
      BY DEF Init
    <2>3. \A p \in Paths(m) : p \in Value /\ p # NoPath
                              /\ \E e \in Entry : p = Path(m, e) /\ p.of = e
      BY <1>1, <2>1, InstalledAre, PathsAre DEF Paths
    <2>4. CASE HasDefault(m)
      <3>1. ~ByName(m) /\ m.set \notin {"database", "pekwm"}
        BY <2>1, <2>4, PluginsConsistent DEF HasDefault, ByName, Consistent
      <3>2. \E own \in {NoPath} \cup Paths(m), form \in {"none", "link", "file"},
               sys \in {NoPath} \cup {p \in Paths(m) : p.of.dir \in 3..4} :
                  s = Setting(own, form, sys)
        BY <2>2, <2>4, <3>1 DEF Settings, HasDefault
      <3> HIDE DEF s
      <3> QED
        BY <2>2, <2>3, <2>4, <3>1, <3>2 DEF Setting, SettingFits, Fitting, s
    <2>5. CASE ~HasDefault(m) /\ m.set \in {"database", "pekwm"}
      <3>1. ~ByName(m)
        BY <2>5 DEF ByName
      <3>2. \E own \in {NoPath} \cup Paths(m), form \in {"none", "file"} :
               s = Setting(own, form, NoPath)
        BY <2>2, <2>5, <3>1 DEF Settings, Missing
      <3> HIDE DEF s
      <3> QED
        BY <2>2, <2>3, <2>5, <3>1, <3>2 DEF Setting, SettingFits, Fitting, s
    <2>6. CASE ~HasDefault(m) /\ ByName(m)
      <3>1. m.set \notin {"database", "pekwm"}
        BY <2>6 DEF ByName
      <3>2. \/ s = Setting(NoPath, "none", NoPath)
            \/ \E n \in {"name", "name/default.theme", "another"} :
                  s = Setting(Name(n), "file", NoPath)
        BY <2>2, <2>6, <3>1 DEF Settings, Missing
      <3>3. \A n \in {"name", "name/default.theme", "another"} :
               Name(n) \in Value /\ Name(n) # NoPath /\ Name(n) \in [name : ThemeName]
        BY NamesAre DEF ThemeName
      <3> HIDE DEF s
      <3> QED
        BY <2>2, <2>6, <3>2, <3>3 DEF Setting, SettingFits, Fitting, s
    <2>7. CASE ~HasDefault(m) /\ m.set \notin {"database", "pekwm"} /\ ~ByName(m)
      <3>1. s = Setting(NoPath, "none", NoPath)
        BY <2>2, <2>7 DEF Settings, Missing
      <3> QED
        BY <2>2, <3>1 DEF Setting, SettingFits
    <2> QED
      BY <2>4, <2>5, <2>6, <2>7
  <1>3. ConfFits
    <2>1. conf \in [Names -> UNION {Settings(m) : m \in Elements(managers)}]
      BY DEF Init, Names
    <2>2. \A n \in Names : conf[n] \in [own : Value \cup {NoPath},
                                        form : {"none", "link", "file"},
                                        sys : Value \cup {NoPath}]
      BY <1>2 DEF Names
    <2> QED
      BY <1>2, <2>1, <2>2 DEF ConfFits
  <1>4. /\ changes = 0 /\ item = NoItem /\ command = NoCommand /\ out = << >>
    BY DEF Init
  <1>5. TypeOK
    <2>1. Len(managers) \in Nat
      BY <1>1, ScreensAre
    <2>2. changes \in 0..MaxChanges
      BY <1>4, StyleSearchAssumption
    <2>3. \A m \in Elements(managers) :
            /\ conf[m.name].form \in {"none", "link", "file"}
            /\ conf[m.name].form = "none" => conf[m.name].own = NoPath
      BY <1>2 DEF SettingFits
    <2>4. strays \in [Names -> SUBSET Value]
      <3>1. strays \in [Names -> UNION {{{}} \cup Others(m) : m \in Elements(managers)}]
        BY DEF Init, Names
      <3>2. ASSUME NEW m \in Elements(managers)
            PROVE  strays[m.name] \in SUBSET Value
        <4>1. Paths(m) \subseteq Value
          <5>1. m \in Plugins /\ Installed(m) \subseteq Entry
            BY <1>1, ScreensAre, InstalledAre
          <5> HIDE DEF Value
          <5> QED
            BY <5>1, PathsAre DEF Paths
        <4>3. Name("name") \in Value
          BY NamesAre DEF ThemeName
        <4>2. strays[m.name] \in {{}} \cup Others(m)
          BY DEF Init
        <4> QED
          BY <4>1, <4>2, <4>3 DEF Others
      <3> QED
        BY <3>1, <3>2 DEF Names
    <2>5. exact \in [Names -> BOOLEAN]
      BY DEF Init, Names
    <2> QED
      BY <1>1, <1>4, <2>1, <2>2, <2>3, <2>4, <2>5 DEF TypeOK, Idle, Names
  <1>6. ItemFits /\ OutFits
    BY <1>4 DEF ItemFits, OutFits, Idle
  <1> QED
    BY <1>3, <1>5, <1>6 DEF World

LEMMA GenMenuWorld == World /\ GenMenu => World'
  <1> SUFFICES ASSUME World, GenMenu PROVE World'
    OBVIOUS
  <1>1. PICK m \in Elements(managers), class \in Class : item' \in Items(m, class)
    BY DEF GenMenu
  <1>2. /\ managers' = managers /\ start' = start /\ files' = files
        /\ conf' = conf /\ changes' = changes /\ command' = command
        /\ exact' = exact /\ strays' = strays
        /\ Idle /\ out' = << >>
    BY DEF GenMenu
  <1>3. Installable' = Installable /\ Names' = Names
    BY <1>2, Frame
  <1>4. TypeOK'
    <2>1. Len(managers) \in Nat
      BY ScreensAre DEF World, TypeOK
    <2> QED
      BY <1>2, <1>3, <2>1 DEF World, TypeOK, Fits, Idle
  <1>5. ConfFits'
    BY <1>2, <1>3 DEF World, ConfFits
  <1>6. ItemFits'
    BY <1>1, ItemsAre DEF ItemFits
  <1>7. OutFits'
    BY <1>2 DEF OutFits, Idle
  <1> QED
    BY <1>4, <1>5, <1>6, <1>7 DEF World

LEMMA StartSetWorld ==
    ASSUME World, NEW class \in Class, NEW asked \in Asked,
           NEW clicked \in BOOLEAN, StartSet(class, asked, clicked),
           item' \in {item, NoItem}
    PROVE  World'
  <1>1. /\ managers' = managers /\ start' = start /\ files' = files
        /\ conf' = conf /\ changes' = changes /\ out' = << >>
        /\ exact' = exact /\ strays' = strays
        /\ command' = [class |-> class, asked |-> asked, clicked |-> clicked]
    BY DEF StartSet
  <1>2. Installable' = Installable /\ Names' = Names
    BY <1>1, Frame
  <1>3. TypeOK'
    <2>1. Len(managers) \in Nat \ {0}
      BY ScreensAre DEF World, TypeOK
    <2>2. command' \in Command
      BY <1>1 DEF Command, Asked
    <2> QED
      BY <1>1, <1>2, <2>1, <2>2 DEF World, TypeOK, Fits, Idle
  <1>4. ConfFits'
    BY <1>1, <1>2 DEF World, ConfFits
  <1>5. ItemFits'
    BY DEF World, ItemFits
  <1>6. OutFits'
    BY <1>1 DEF OutFits
  <1> QED
    BY <1>3, <1>4, <1>5, <1>6 DEF World

LEMMA ClickWorld == World /\ Click => World'
  <1> SUFFICES ASSUME World, Click PROVE World'
    OBVIOUS
  <1>1. item.class \in Class /\ item.asked \in Asked
    BY DEF World, ItemFits, Click, Asked
  <1> QED
    BY <1>1, StartSetWorld DEF Click

LEMMA TypeWorld == World /\ Type => World'
  <1> SUFFICES ASSUME World, Type PROVE World'
    OBVIOUS
  <1>1. "name" \in Asked
    BY DEF Asked
  <1> QED
    BY <1>1, StartSetWorld DEF Type

\* A screen of the command: what follows of the setting, the report and the
\* command itself.
LEMMA SettingKept ==
    ASSUME World, NEW m \in Elements(managers), NEW how, NEW path, NEW asked,
           Does(m, how, path, asked)
    PROVE  ConfFits'
  <1>1. managers' = managers /\ start' = start
    BY DEF Does, NextScreen
  <1>2. Names' = Names
    BY <1>1, Frame
  <1>3. CASE Leaves(m, how, path)
    BY <1>1, <1>2, <1>3 DEF Leaves, World, ConfFits
  <1>4. CASE Puts(m, how, path)
    <2>1. ASSUME NEW n \in Elements(managers)
          PROVE  SettingFits(n, conf'[n.name])
      <3>1. SettingFits(n, conf[n.name])
        BY DEF World, ConfFits
      <3>2. CASE n.name = m.name
        <4>1. n = m
          BY <3>2, ScreensAre, NamesDiffer DEF World, TypeOK
        <4> HIDE DEF Fitting, HasDefault
        <4> QED
          BY <1>4, <3>1, <4>1 DEF Puts, SettingFits
      <3>3. CASE n.name # m.name
        <4>1. n.name \in Names \ {m.name}
          BY <3>3 DEF Names
        <4> QED
          BY <1>4, <3>1, <4>1 DEF Puts
      <3> QED
        BY <3>2, <3>3
    <2>2. conf' \in [Names -> [own : Value \cup {NoPath},
                               form : {"none", "link", "file"},
                               sys : Value \cup {NoPath}]]
      BY <1>4 DEF Puts
    <2> QED
      BY <1>1, <1>2, <2>1, <2>2 DEF ConfFits
  <1> QED
    BY <1>3, <1>4 DEF Does

LEMMA SetStyleWorld == World /\ SetStyle => World'
  <1> SUFFICES ASSUME World, SetStyle PROVE World'
    OBVIOUS
  <1> DEFINE m == managers[Len(out) + 1]
             report(how, path) == [how |-> how, path |-> path,
                                   class |-> command.class]
  <1>1. /\ ~Idle /\ Len(out) \in Nat /\ Len(out) < Len(managers)
        /\ m \in Elements(managers)
    BY SetStyleDoes
  <1>2. PICK how, path, asked : Does(m, how, path, asked)
    BY SetStyleDoes
  <1> HIDE DEF m
  <1>3. /\ managers' = managers /\ start' = start /\ files' = files
        /\ changes' = changes /\ item' = item /\ exact' = exact
        /\ out' = Append(out, report(how, path))
        /\ command' = IF how = "crash" \/ Len(out') = Len(managers)
                      THEN NoCommand ELSE [command EXCEPT !.asked = asked]
    BY <1>2 DEF Does, NextScreen
  <1>4. /\ Installable' = Installable /\ Names' = Names
    BY <1>3, Frame
  <1>5. ConfFits'
    BY <1>1, <1>2, SettingKept
  <1>6. report(how, path) \in [how : How, path : Value \cup {NoPath}, class : Class]
    BY <1>1, <1>2, CommandIs DEF Does
  <1>7. /\ out \in Seq([how : How, path : Value \cup {NoPath}, class : Class])
        /\ \A k \in 1..Len(out) : out[k].class = command.class
    BY <1>1 DEF World, OutFits
  <1>8. /\ out' \in Seq([how : How, path : Value \cup {NoPath}, class : Class])
        /\ Len(out') = Len(out) + 1
        /\ \A k \in 1..Len(out') : out'[k].class = command.class
    <2> HIDE DEF report
    <2>1. report(how, path).class = command.class
      BY DEF report
    <2> HIDE DEF Value, How
    <2> QED
      BY <1>3, <1>6, <1>7, <2>1
  <1>9. command' \in Command \cup {NoCommand} /\
        (command' # NoCommand => command'.class = command.class)
    <2>1. command \in Command /\ asked \in Asked
      BY <1>1, <1>2 DEF World, TypeOK, Idle, Does
    <2>2. [command EXCEPT !.asked = asked] \in Command
      BY <2>1 DEF Command, Asked
    <2>3. [command EXCEPT !.asked = asked].class = command.class
      BY <2>1 DEF Command
    <2> QED
      BY <1>3, <2>2, <2>3
  <1>10. TypeOK'
    <2>1. Len(managers) \in Nat
      BY ScreensAre DEF World, TypeOK
    <2>2. Len(out') <= Len(managers)
      BY <1>1, <1>8, <2>1
    <2>3. command' # NoCommand => Len(out') < Len(managers)
      BY <1>3, <1>8, <2>1, <2>2
    <2>4. \A n \in Elements(managers) :
            /\ conf'[n.name].form \in {"none", "link", "file"}
            /\ conf'[n.name].form = "none" => conf'[n.name].own = NoPath
      BY <1>3, <1>4, <1>5 DEF ConfFits, SettingFits, Names
    <2>5. strays' \in [Names -> SUBSET Value]
      BY <1>2 DEF Does, Strews, World, TypeOK, Names
    <2> QED
      BY <1>3, <1>4, <1>9, <2>2, <2>3, <2>4, <2>5 DEF World, TypeOK, Fits, Idle, Names
  <1>11. ItemFits'
    BY <1>3 DEF World, ItemFits
  <1>12. OutFits'
    BY <1>8, <1>9 DEF OutFits, Idle
  <1> QED
    BY <1>5, <1>10, <1>11, <1>12 DEF World

LEMMA ChangeWorld == World /\ Change => World'
  <1> SUFFICES ASSUME World, Change PROVE World'
    OBVIOUS
  <1>1. /\ managers' = managers /\ start' = start /\ conf' = conf
        /\ exact' = exact /\ strays' = strays
        /\ item' = item /\ command' = command /\ out' = out
        /\ changes < MaxChanges /\ changes' = changes + 1 /\ Fits(files')
    BY DEF Change
  <1>2. Installable' = Installable /\ Names' = Names
    BY <1>1, Frame
  <1>3. TypeOK'
    BY <1>1, <1>2, StyleSearchAssumption DEF World, TypeOK, Fits, Idle
  <1>4. ConfFits' /\ ItemFits' /\ OutFits'
    BY <1>1, <1>2 DEF World, ConfFits, ItemFits, OutFits, Idle
  <1> QED
    BY <1>3, <1>4 DEF World

LEMMA WorldInvariant == Spec => []World
  <1>1. World /\ UNCHANGED vars => World'
    <2> SUFFICES ASSUME World, UNCHANGED vars PROVE World'
      OBVIOUS
    <2>1. Installable' = Installable /\ Names' = Names
      BY Frame DEF vars
    <2> QED
      BY <2>1 DEF vars, World, TypeOK, Fits, Idle, ConfFits, ItemFits, OutFits
  <1>2. World /\ [Next]_vars => World'
    BY <1>1, GenMenuWorld, ClickWorld, TypeWorld, SetStyleWorld, ChangeWorld
       DEF Next
  <1> QED
    BY <1>2, InitWorld, PTL DEF Spec

\* THEOREM of types: the files, the settings, the command and what it has said
\* are, in every state, what the operations of the plugins expect of them.
THEOREM Typing == Spec => []TypeOK
  <1>1. World => TypeOK
    BY DEF World
  <1> QED
    BY <1>1, WorldInvariant, PTL

(***************************************************************************)
(* What xde-style has set.                                                 *)
(***************************************************************************)
\* Screen k is as the command has left it: what it has set is in the file, and
\* what it has said to be set is in force.
Stands(k) ==
    LET m == managers[k]
    IN  /\ out[k].how = "set" /\ LastSet(k) =>
              /\ conf[m.name].own = out[k].path /\ conf[m.name].form # "none"
              /\ Pdir(m) # "wrong" /\ m.set \in Setters
        /\ (/\ out[k].how = "already" /\ LastSet(k)
            /\ out[k].path \notin strays[m.name]
            /\ ~(HasDefault(m) /\ out[k].class = "system")
            /\ Pdir(m) # "wrong") => InForce(m) = out[k].path

Results == \A k \in DOMAIN out : Stands(k)

LEMMA SetStyleResults == World /\ Results /\ SetStyle => Results'
  <1> SUFFICES ASSUME World, Results, SetStyle, NEW k \in DOMAIN out'
               PROVE  Stands(k)'
    BY DEF Results
  <1> DEFINE m == managers[Len(out) + 1]
             n == managers[k]
  <1>1. /\ ~Idle /\ Len(out) \in Nat /\ Len(out) < Len(managers)
        /\ m \in Elements(managers)
    BY SetStyleDoes
  <1>2. PICK how, path, asked : Does(m, how, path, asked)
    BY SetStyleDoes
  <1>3. /\ managers' = managers /\ start' = start
        /\ out' = Append(out, [how |-> how, path |-> path,
                               class |-> command.class])
    BY <1>2 DEF Does, NextScreen
  <1>4. out \in Seq([how : How, path : Value \cup {NoPath}, class : Class])
    BY DEF World, OutFits
  <1>5. /\ Len(out') = Len(out) + 1
        /\ \A j \in 1..Len(out) : out'[j] = out[j]
        /\ out'[Len(out) + 1] = [how |-> how, path |-> path,
                                 class |-> command.class]
    BY <1>3, <1>4
  <1>6. k \in 1..Len(out) + 1
    BY <1>3, <1>4
  <1>7. n \in Elements(managers) /\ n' = n /\ Pdir(n)' = Pdir(n)
    BY <1>1, <1>3, <1>6, ScreensAre, Frame DEF World, TypeOK
  <1>8. CASE k = Len(out) + 1
    <2>1. n = m /\ out'[k].how = how /\ out'[k].path = path
                /\ out'[k].class = command.class
      BY <1>5, <1>8
    <2> HIDE DEF m, n
    <2>2. CASE Leaves(m, how, path)
      <3>1. out'[k].how # "set"
        BY <2>1, <2>2 DEF Leaves
      <3>2. ASSUME how = "already", Pdir(n) # "wrong",
                   path \notin strays'[n.name],
                   ~(HasDefault(n) /\ command.class = "system")
            PROVE  InForce(n)' = path
        BY <1>2, <1>7, <2>1, <2>2, <3>2 DEF Leaves, InForce, Does, Strews, Rewriting
      <3> QED
        BY <1>7, <2>1, <3>1, <3>2 DEF Stands, n
    <2>3. CASE Puts(m, how, path)
      <3>1. /\ out'[k].how # "already" /\ conf'[n.name].own = out'[k].path
            /\ conf'[n.name].form # "none"
            /\ Pdir(n) # "wrong" /\ n.set \in Setters
        BY <2>1, <2>3 DEF Puts
      <3> QED
        BY <1>7, <3>1 DEF Stands, n
    <2> QED
      BY <1>2, <2>2, <2>3 DEF Does
  <1>9. CASE k \in 1..Len(out)
    <2>1. out'[k] = out[k] /\ Stands(k)
      BY <1>4, <1>5, <1>9 DEF Results
    <2>2. ASSUME LastSet(k)'
          PROVE  LastSet(k) /\ (n = m => how \notin Rewriting)
      <3>1. \A j \in k + 1 .. Len(out) + 1 :
               managers[j] = n => out'[j].how \notin Rewriting
        BY <1>3, <1>5, <2>2 DEF LastSet
      <3>2. \A j \in k + 1 .. Len(out) :
               managers[j] = n => out[j].how \notin Rewriting
        BY <1>1, <1>5, <1>9, <3>1
      <3>3. n = m => out'[Len(out) + 1].how \notin Rewriting
        BY <1>1, <1>9, <3>1
      <3> QED
        BY <1>5, <3>2, <3>3 DEF LastSet
    <2>3. ASSUME LastSet(k)'
          PROVE  conf'[n.name] = conf[n.name] /\ strays'[n.name] = strays[n.name]
      <3>1. n # m => n.name \in Names \ {m.name}
        BY <1>1, <1>7, ScreensAre, NamesDiffer DEF World, TypeOK, Names
      <3>2. strays'[n.name] = strays[n.name]
        BY <1>2, <2>2, <2>3, <3>1 DEF Does, Strews, Rewriting
      <3>3. CASE Leaves(m, how, path)
        BY <3>2, <3>3 DEF Leaves
      <3>4. CASE Puts(m, how, path)
        <4>1. n # m
          BY <2>2, <2>3, <3>4 DEF Puts, Rewriting
        <4> QED
          BY <3>1, <3>2, <3>4, <4>1 DEF Puts
      <3> QED
        BY <1>2, <3>3, <3>4 DEF Does
    <2>4. ASSUME LastSet(k)'
          PROVE  InForce(n)' = InForce(n)
      <3> HIDE DEF n
      <3> QED
        BY <1>7, <2>3, <2>4 DEF InForce
    <2> HIDE DEF m
    <2>5. ASSUME out'[k].how = "set", LastSet(k)'
          PROVE  /\ conf'[n.name].own = out'[k].path
                 /\ conf'[n.name].form # "none"
                 /\ Pdir(n)' # "wrong" /\ n.set \in Setters
      BY <1>7, <2>1, <2>2, <2>3, <2>5 DEF Stands
    <2>6. ASSUME out'[k].how = "already", LastSet(k)',
                 out'[k].path \notin strays'[n.name],
                 ~(HasDefault(n) /\ out'[k].class = "system"),
                 Pdir(n)' # "wrong"
          PROVE  InForce(n)' = out'[k].path
      BY <1>7, <2>1, <2>2, <2>3, <2>4, <2>6 DEF Stands
    <2> QED
      BY <1>3, <2>5, <2>6 DEF Stands
  <1> QED
    BY <1>1, <1>6, <1>8, <1>9

LEMMA ResultsInvariant == Spec => []Results
  <1>1. Init => Results
    BY DEF Init, Results
  <1>2. World /\ Results /\ [Next]_vars => Results'
    <2> SUFFICES ASSUME World, Results, [Next]_vars
                 PROVE  Results'
      OBVIOUS
    <2>1. CASE GenMenu \/ Click \/ Type
      <3>1. out' = << >>
        BY <2>1 DEF GenMenu, Click, Type, StartSet
      <3> QED
        BY <3>1 DEF Results
    <2>2. CASE SetStyle
      BY <2>2, SetStyleResults
    <2>3. CASE Change \/ UNCHANGED vars
      <3>1. /\ managers' = managers /\ start' = start /\ conf' = conf
            /\ out' = out /\ strays' = strays
        BY <2>3 DEF Change, vars
      <3>2. \A m : Pdir(m)' = Pdir(m)
        BY <3>1, Frame
      <3> QED
        BY <3>1, <3>2 DEF Results, Stands, LastSet, InForce
    <2> QED
      BY <2>1, <2>2, <2>3 DEF Next
  <1> QED
    BY <1>1, <1>2, WorldInvariant, PTL DEF Spec

LEMMA ReportsAre ==
    ASSUME World, NEW k \in DOMAIN out
    PROVE  k \in 1..Len(managers) /\ out[k].class \in Class
  <1> DEFINE Report == [how : How, path : Value \cup {NoPath}, class : Class]
  <1>1. out \in Seq(Report) /\ Len(out) <= Len(managers) /\ Len(managers) \in Nat
    BY ScreensAre DEF World, TypeOK, OutFits
  <1> HIDE DEF Report
  <1>2. out[k] \in Report /\ k \in 1..Len(managers)
    BY <1>1
  <1> QED
    BY <1>2 DEF Report

\* What xde-style has set is what get_style reads back in the same way, until
\* it sets another screen of the same manager.
THEOREM SetThenGet == Spec => []SetIsGot
  <1>1. World /\ Results => SetIsGot
    <2> SUFFICES ASSUME World, Results, NEW k \in DOMAIN out,
                        out[k].how = "set", LastSet(k),
                        ~(HasDefault(managers[k]) /\ out[k].class = "system")
                 PROVE  LET m == managers[k]
                        IN  IF m.set = "icewm"
                            THEN conf[m.name].own = out[k].path
                            ELSE GetStyle(m, out[k].class) = out[k].path
      BY DEF SetIsGot
    <2> DEFINE m == managers[k]
    <2>1. m \in Elements(managers) /\ out[k].class \in Class
      BY ReportsAre, ScreensAre DEF World, TypeOK
    <2>2. /\ conf[m.name].own = out[k].path /\ conf[m.name].form # "none"
          /\ Pdir(m) # "wrong" /\ m.set \in Setters
      BY DEF Results, Stands
    <2> HIDE DEF m
    <2>3. ~(HasDefault(m) /\ out[k].class = "system")
      BY DEF m
    <2>4. CASE m.set # "icewm"
      BY <2>1, <2>2, <2>3, <2>4, OwnIsGot DEF World, TypeOK, m
    <2> QED
      BY <2>2, <2>4 DEF m
  <1> QED
    BY <1>1, WorldInvariant, ResultsInvariant, PTL

\* Where xde-style has set a style, or has said that it is set already, the
\* manager finds that style in its files; "already" of pekwm and openbox counts
\* when nothing else in the file has the form of the line they look for.
THEOREM ToldIsTrue == Spec => []ToldIsInForce
  <1>1. World /\ Results => ToldIsInForce
    <2> SUFFICES ASSUME World, Results, NEW k \in DOMAIN out,
                        \/ out[k].how = "set"
                        \/ /\ out[k].how = "already"
                           /\ out[k].path \notin strays[managers[k].name],
                        LastSet(k),
                        ~(HasDefault(managers[k]) /\ out[k].class = "system"),
                        Pdir(managers[k]) # "wrong"
                 PROVE  InForce(managers[k]) = out[k].path
      BY DEF ToldIsInForce
    <2>1. Stands(k)
      BY DEF Results
    <2> QED
      BY <2>1 DEF Stands, InForce
  <1> QED
    BY <1>1, WorldInvariant, ResultsInvariant, PTL

LEMMA FoundInClass ==
    ASSUME World, ~Idle, NEW m \in Elements(managers), m.find = "simple",
           Found(m) # NoPath
    PROVE  /\ Found(m) \in Entry
           /\ \E i \in Searched(command.class) : Found(m).dir = Place(m, i)
  <1>1. /\ managers \in Displays /\ Fits(files) /\ command.class \in Class
        /\ m \in Plugins
    BY CommandIs, ScreensAre DEF World, TypeOK
  <1> DEFINE found == Found(m)
  <1>2. found = FindSimple(m, command.class, command.asked)
    BY DEF Found, FindStyle
  <1>3. PICK k \in DOMAIN m.subs :
           found = FindStyleSimple(m, m.subs[k], command.class, command.asked)
    BY <1>1, <1>2, FindSimpleIs, StyleSearchAssumption
  <1>4. PICK i \in Searched(command.class) :
           found \in Hit(m, i, m.subs[k], command.asked)
    BY <1>1, <1>3, FindStyleSimpleIs
  <1> HIDE DEF found
  <1>5. found \in Entry /\ found.dir = Place(m, i)
    BY <1>1, <1>4, HitIs, InstalledAre
  <1> QED
    BY <1>5 DEF found

\* A click on an item of a menu puts a style of the class of the item in force,
\* whatever was installed or removed in between, on whichever screen.
THEOREM ClickedClass == Spec => ClickKeepsClass
  <1>1. ASSUME World, [Next]_vars, NEW m \in Elements(managers),
               ~Idle, ~ByName(m), conf'[m.name] # conf[m.name]
        PROVE  conf'[m.name].own.of.dir \in
                  CASE command.class = "user"   -> 1..2
                    [] command.class = "system" -> 3..4
                    [] OTHER                    -> 1..4
    <2>1. SetStyle
      BY <1>1 DEF Next, GenMenu, Click, Type, StartSet, Change, vars
    <2> DEFINE n == managers[Len(out) + 1]
    <2>2. n \in Elements(managers) /\ \E how, path, asked : Does(n, how, path, asked)
      BY <1>1, <2>1, SetStyleDoes
    <2> HIDE DEF n
    <2>3. PICK how, path : Puts(n, how, path)
      BY <1>1, <2>2 DEF Does, Leaves
    <2>4. n = m
      <3>1. m.name \in Names
        BY <1>1 DEF Names
      <3>2. n.name = m.name
        BY <1>1, <2>3, <3>1 DEF Puts
      <3> QED
        BY <1>1, <2>2, <3>2, ScreensAre, NamesDiffer DEF World, TypeOK
    <2>5. Found(m) # NoPath /\ conf'[m.name].own = Path(m, Found(m))
      BY <1>1, <2>3, <2>4 DEF Puts
    <2>6. m \in Plugins /\ m.set \in {"link", "file", "database", "pekwm"}
      BY <1>1, <2>3, <2>4, ScreensAre DEF Puts, Setters, ByName, World, TypeOK
    <2>7. m.find = "simple"
      BY <2>6, PluginsConsistent DEF Consistent
    <2>8. command.class \in Class
      BY <1>1, CommandIs
    <2>9. /\ Found(m) \in Entry
          /\ \E i \in Searched(command.class) : Found(m).dir = Place(m, i)
      BY <1>1, <2>5, <2>7, FoundInClass
    <2>10. PICK i \in Searched(command.class) : Found(m).dir = Place(m, i)
      BY <2>9
    <2>11. Found(m).dir \in 1..4 /\ conf'[m.name].own.of = Found(m)
      BY <2>5, <2>6, <2>9, PathsAre DEF Entry
    <2>12. i \in 1..4 /\ (command.class = "user" => i \in 1..2)
                      /\ (command.class = "system" => i \in 3..4)
      BY <2>8, SearchedAre
    <2>13. /\ command.class = "user" => Found(m).dir \in 0..2
           /\ command.class = "system" => Found(m).dir \in 3..4
      BY <2>10, <2>12, Places
    <2> QED
      BY <2>8, <2>11, <2>13 DEF Class
  <1>2. World /\ [Next]_vars =>
          [\A m \in Elements(managers) :
             (/\ ~Idle /\ command.clicked /\ ~ByName(m)
              /\ conf'[m.name] # conf[m.name])
                => conf'[m.name].own.of.dir \in
                      CASE command.class = "user"   -> 1..2
                        [] command.class = "system" -> 3..4
                        [] OTHER                    -> 1..4]_vars
    BY <1>1
  <1> QED
    BY <1>2, WorldInvariant, PTL DEF Spec, ClickKeepsClass

(***************************************************************************)
(* What is listed.                                                         *)
(***************************************************************************)
\* A directory in which something is listed for a class is searched for it.
LEMMA ListedIsSearched ==
    ASSUME NEW class \in Class, NEW i \in 1..4,
           IF i <= 2 THEN class # "system" ELSE class # "user"
    PROVE  i \in Searched(class)
  BY SearchedAre DEF Class

\* f will do for e: it is the same style, or one that is looked at before it.
FoundFor(e, f) == f # NoPath /\ (f = e \/ f.sub # e.sub \/ f.dir < e.dir)

\* A style found no later than another one in the order of the directories.
LEMMA EarlierIs ==
    ASSUME World, NEW m \in Elements(managers),
           NEW e \in Installed(m), NEW f \in Installed(m),
           NEW i \in 1..4, NEW j \in 1..4, i <= j,
           f.dir = Place(m, i), e.dir = Place(m, j),
           f.sub = e.sub /\ f.dir = e.dir => f.form = e.form
    PROVE  FoundFor(e, f)
  <1>1. managers \in Displays /\ Fits(files)
    BY DEF World, TypeOK
  <1>2. f # NoPath
    BY <1>1, InstalledAre, StyleSearchAssumption
  <1>3. f.dir <= e.dir /\ f.dir \in Nat /\ e.dir \in Nat
    BY Places
  <1>4. f.sub = e.sub /\ f.dir = e.dir => f = e
    BY <1>1, InstalledAre
  <1> QED
    BY <1>2, <1>3, <1>4 DEF FoundFor

LEMMA SimpleListedIsFound ==
    ASSUME World, NEW m \in Elements(managers), NEW class \in Class,
           m.lists = "simple", NEW e \in Listed(m, class)
    PROVE  FoundFor(e, FindStyle(m, class, e.form, TRUE))
  <1> DEFINE f == FindSimple(m, class, e.form)
  <1>1. managers \in Displays /\ Fits(files) /\ m \in Plugins
    BY ScreensAre DEF World, TypeOK
  <1>2. PICK i \in 1..4 : /\ e \in Within(m, i) /\ e \in ListDirSimple(m, i)
                          /\ IF i <= 2 THEN class # "system" ELSE class # "user"
    BY <1>1, ListedAre
  <1>3. i \in Searched(class) /\ e \in Installed(m) /\ e.dir = Place(m, i)
    BY <1>2, ListedIsSearched DEF Within
  <1>4. PICK k \in DOMAIN m.subs : m.subs[k] = e.sub
    BY <1>2 DEF Within, Elements
  <1>5. e \in Hit(m, i, e.sub, e.form)
    <2>1. e \in At(m, i, e.sub, e.form)
      BY <1>3 DEF At
    <2> QED
      BY <1>2, <2>1 DEF Hit, ListDirSimple
  <1>6. FindStyleSimple(m, m.subs[k], class, e.form) # NoPath
    <2>1. \E j : FindStyleSimple(m, m.subs[k], class, e.form)
                   \in Hit(m, j, m.subs[k], e.form)
      BY <1>3, <1>4, <1>5, FindStyleSimpleIs
    <2> QED
      BY <1>1, <2>1, HitIs, InstalledAre, StyleSearchAssumption
  <1>7. PICK l \in DOMAIN m.subs :
           f # NoPath /\ f = FindStyleSimple(m, m.subs[l], class, e.form)
    BY <1>1, <1>6, FindSimpleIs, StyleSearchAssumption
  <1> HIDE DEF f
  <1>8. PICK j \in Searched(class) :
           /\ f \in Hit(m, j, m.subs[l], e.form)
           /\ \A h \in Searched(class) : Hit(m, h, m.subs[l], e.form) # {} => j <= h
    BY <1>7, FindStyleSimpleIs
  <1>9. /\ f \in Installed(m) /\ f.dir = Place(m, j) /\ f.sub = m.subs[l]
        /\ f.form = e.form \/ At(m, j, m.subs[l], e.form) = {}
    BY <1>8, HitIs
  <1>10. FoundFor(e, f)
    <2>1. CASE f.sub = e.sub
      <3>1. j <= i /\ j \in 1..4
        BY <1>3, <1>5, <1>8, <1>9, <2>1, SearchedAre
      <3>2. f.dir = e.dir => f.form = e.form
        BY <1>3, <1>9, <2>1 DEF At
      <3> QED
        BY <1>3, <1>9, <3>1, <3>2, EarlierIs
    <2>2. CASE f.sub # e.sub
      BY <1>7, <2>2 DEF FoundFor
    <2> QED
      BY <2>1, <2>2
  <1>11. m.find = "simple"
    BY <1>1, PluginsConsistent DEF Consistent
  <1> QED
    BY <1>10, <1>11 DEF FindStyle, f

LEMMA IcewmListedIsFound ==
    ASSUME World, NEW m \in Elements(managers), NEW class \in Class,
           m.lists = "icewm", NEW e \in Listed(m, class)
    PROVE  FoundFor(e, FindStyle(m, class, e.form, TRUE))
  <1> DEFINE file == IcewmFile(e.form, TRUE)
             f == LocateIcewm(m, class, file)
  <1>1. /\ managers \in Displays /\ Fits(files) /\ m \in Plugins
        /\ m.find = "icewm" /\ m.suffix = FALSE /\ m.subs = <<"themes">>
    BY ScreensAre, PluginsConsistent DEF World, TypeOK, Consistent
  <1>2. PICK i \in 1..4 : /\ e \in Within(m, i) /\ e \in ListDirIcewm(m, i)
                          /\ IF i <= 2 THEN class # "system" ELSE class # "user"
    BY <1>1, ListedAre
  <1>3. i \in Searched(class) /\ e \in Installed(m) /\ e.dir = Place(m, i)
    BY <1>2, ListedIsSearched DEF Within
  <1>4. e.sub = "themes"
    BY <1>1, <1>2 DEF Within, Elements
  <1>5. Suits(m, e) /\ e \in Entry
    BY <1>1, <1>3, InstalledAre
  <1>6. \/ e.form = "name" /\ e.kind = "dir" /\ file = "name/default.theme"
        \/ e.form = "name/variation" /\ file = "name/variation.theme"
    <2>1. e.form \in {"name", "name/variation"}
      BY <1>1, <1>5 DEF Suits, Entry, Form
    <2>2. e.form = "name" => e.kind = "dir"
      BY <1>2 DEF ListDirIcewm
    <2> QED
      BY <2>1, <2>2 DEF IcewmFile
  <1> HIDE DEF file
  <1>7. e \in IcewmHit(m, i, file)
    BY <1>3, <1>4, <1>6 DEF IcewmHit, At
  <1>8. PICK j \in Searched(class) :
           /\ f \in IcewmHit(m, j, file)
           /\ \A h \in Searched(class) : IcewmHit(m, h, file) # {} => j <= h
    BY <1>3, <1>7, LocateIcewmIs
  <1> HIDE DEF f
  <1>9. /\ f \in Installed(m) /\ f.dir = Place(m, j) /\ f.form = e.form
    BY <1>6, <1>8, IcewmHitIs
  <1>10. j <= i /\ j \in 1..4
    BY <1>3, <1>7, <1>8, SearchedAre
  <1>11. FoundFor(e, f)
    BY <1>3, <1>9, <1>10, EarlierIs
  <1> QED
    BY <1>1, <1>11 DEF FindStyle, f, file

LEMMA XdgListedIsFound ==
    ASSUME World, NEW m \in Elements(managers), NEW class \in Class,
           m.lists \notin {"simple", "icewm"}, NEW e \in Listed(m, class),
           ~(m.lists = "xdg" /\ e.kind = "file")
    PROVE  FoundFor(e, FindStyle(m, class, e.form, TRUE))
  <1> DEFINE f == FindStyleXdg(m, e.form)
  <1>1. managers \in Displays /\ Fits(files) /\ m \in Plugins
    BY ScreensAre DEF World, TypeOK
  <1>2. PICK i \in 2..4 : /\ e \in Within(m, i) /\ e.kind \in {"dir", "file"}
                          /\ m.name \in {"openbox", "metacity"}
    BY <1>1, ListedAre
  <1>3. /\ m.find = "xdg" /\ m.lists = "xdg" /\ m.suffix = FALSE
        /\ m.subs = <<"themes">>
    BY <1>1, <1>2, PluginsConsistent DEF Consistent
  <1>4. e.kind = "dir" /\ e \in Installed(m) /\ e.dir = Place(m, i)
    BY <1>2, <1>3 DEF Within
  <1>5. e.sub = "themes"
    BY <1>2, <1>3 DEF Within, Elements
  <1>6. e.form = "name"
    <2>1. Suits(m, e) /\ e \in Entry
      BY <1>1, <1>4, InstalledAre
    <2> QED
      BY <1>3, <2>1 DEF Suits, Entry, Form
  <1>7. e \in XdgHit(m, i)
    BY <1>4, <1>5, <1>6 DEF XdgHit, MetacityHit, OpenboxHit, At
  <1>8. PICK j \in 2..4 : /\ f \in XdgHit(m, j)
                          /\ \A h \in 2..4 : XdgHit(m, h) # {} => j <= h
    BY <1>6, <1>7, FindStyleXdgIs
  <1> HIDE DEF f
  <1>9. f \in Installed(m) /\ f.dir = Place(m, j) /\ f.form = e.form
    BY <1>6, <1>8, XdgHitIs
  <1>10. j <= i
    BY <1>7, <1>8
  <1>11. FoundFor(e, f)
    BY <1>4, <1>9, <1>10, EarlierIs
  <1> QED
    BY <1>3, <1>11 DEF FindStyle, f

\* A style that is listed, or is an item of a menu, is found when it is asked
\* for by the name and with the class it is listed under: the very file, or one
\* of that name in a directory that comes first.
THEOREM ListedThenFound == Spec => []ListedIsFound
  <1>1. World => ListedIsFound
    <2> SUFFICES ASSUME World, NEW m \in Elements(managers), NEW class \in Class,
                        NEW e \in Listed(m, class)
                 PROVE  \/ m.lists = "xdg" /\ e.kind = "file"
                        \/ FoundFor(e, FindStyle(m, class, e.form, TRUE))
      BY Zenon DEF ListedIsFound, FoundFor
    <2> QED
      BY SimpleListedIsFound, IcewmListedIsFound, XdgListedIsFound
  <1> QED
    BY <1>1, WorldInvariant, PTL

(***************************************************************************)
(* What is marked in a listing.                                            *)
(***************************************************************************)
\* What icewm finds among the styles of the user is what it finds among all.
LEMMA UserIsFirst ==
    ASSUME NEW m, NEW file, LocateIcewm(m, "user", file) # NoPath
    PROVE  LocateIcewm(m, "mixed", file) = LocateIcewm(m, "user", file)
  <1>1. /\ "user" \in Class /\ "mixed" \in Class
        /\ Searched("user") = 1..2 /\ Searched("mixed") = 1..4
    BY DEF Class, Searched
  <1>2. PICK i \in 1..2 :
           /\ LocateIcewm(m, "user", file) = The(IcewmHit(m, i, file))
           /\ IcewmHit(m, i, file) # {}
           /\ \A h \in 1..2 : IcewmHit(m, h, file) # {} => i <= h
    BY <1>1, LocateIcewmIs
  <1>3. PICK j \in 1..4 :
           /\ LocateIcewm(m, "mixed", file) = The(IcewmHit(m, j, file))
           /\ IcewmHit(m, j, file) # {}
           /\ \A h \in 1..4 : IcewmHit(m, h, file) # {} => j <= h
    BY <1>1, <1>2, LocateIcewmIs
  <1>4. i = j
    BY <1>2, <1>3
  <1> QED
    BY <1>2, <1>3, <1>4

\* And what it finds among all is found among those of the user, when it is in
\* a directory of the user.
LEMMA FirstIsUser ==
    ASSUME World, NEW m \in Elements(managers), NEW file,
           LocateIcewm(m, "mixed", file) # NoPath,
           LocateIcewm(m, "mixed", file).dir \in 0..2
    PROVE  LocateIcewm(m, "user", file) # NoPath
  <1>1. /\ "user" \in Class /\ "mixed" \in Class
        /\ Searched("user") = 1..2 /\ Searched("mixed") = 1..4
    BY DEF Class, Searched
  <1> DEFINE f == LocateIcewm(m, "mixed", file)
  <1>2. PICK j \in 1..4 : f \in IcewmHit(m, j, file)
    BY <1>1, LocateIcewmIs
  <1> HIDE DEF f
  <1>3. f.dir = Place(m, j) /\ f.dir \in 0..2
    BY <1>2, IcewmHitIs DEF f
  <1>4. j \in 1..2
    BY <1>3, Places
  <1>5. \E i, e : e \in IcewmHit(m, i, file) /\ LocateIcewm(m, "user", file) = e
    BY <1>1, <1>2, <1>4, LocateIcewmIs
  <1>6. \A e \in Installed(m) : e # NoPath
    BY InstalledAre, StyleSearchAssumption DEF World, TypeOK
  <1> QED
    BY <1>5, <1>6, IcewmHitIs

\* The setting of a manager that is not told a name.
LEMMA InForceIs ==
    ASSUME World, NEW m \in Elements(managers), InForce(m) # NoPath
    PROVE  /\ ByName(m) => InForce(m) \in [name : ThemeName]
           /\ ~ByName(m) => \E e \in Entry : InForce(m) = Path(m, e)
           /\ conf[m.name].form = "none" =>
                 HasDefault(m) /\ \E e \in Entry : /\ e.dir \in 3..4
                                                  /\ InForce(m) = Path(m, e)
           /\ conf[m.name].form # "none" =>
                 InForce(m) = conf[m.name].own /\ conf[m.name].own # NoPath
  <1>1. SettingFits(m, conf[m.name])
    BY DEF World, ConfFits
  <1>2. ByName(m) => ~HasDefault(m)
    BY ScreensAre, PluginsConsistent DEF World, TypeOK, ByName, HasDefault,
       Consistent
  <1>3. CASE conf[m.name].form = "none"
    <2>1. InForce(m) = conf[m.name].sys
      BY <1>3 DEF InForce
    <2> QED
      BY <1>1, <1>2, <1>3, <2>1 DEF SettingFits
  <1>4. CASE conf[m.name].form # "none"
    <2>1. InForce(m) = conf[m.name].own
      BY <1>4 DEF InForce
    <2> QED
      BY <1>1, <1>4, <2>1 DEF SettingFits, Fitting
  <1> QED
    BY <1>3, <1>4

LEMMA MarkedIsInForce ==
    ASSUME World, NEW m \in Elements(managers), NEW class \in Class \ {"system"},
           Pdir(m) # "wrong", NEW e \in Marked(m, class)
    PROVE  e = InForceEntry(m)
  <1>1. m \in Plugins /\ managers \in Displays /\ Fits(files) /\ ConfFits
    BY ScreensAre DEF World, TypeOK
  <1>2. e \in Listed(m, class) /\ GetStyle(m, class) = [of |-> e, trimmed |-> FALSE]
    BY DEF Marked
  <1>3. e \in Entry
    <2>1. e \in Installed(m)
      BY <1>1, <1>2, ListedAre DEF Within
    <2> QED
      BY <1>1, <2>1, InstalledAre
  <1>4. GetStyle(m, class) # NoPath
    <2>1. [of |-> e, trimmed |-> FALSE] \in [of : Entry, trimmed : BOOLEAN]
      BY <1>3
    <2> QED
      BY <1>2, <2>1, StyleSearchAssumption DEF Value
  <1>5. CASE m.get = "icewm"
    <2>1. m.set = "icewm" /\ m.trims = FALSE /\ ~HasDefault(m)
      BY <1>1, <1>5, PluginsConsistent DEF Consistent, HasDefault
    <2> DEFINE file == conf[m.name].own.name
    <2>2. GetStyle(m, class) = GetStyleIcewm(m, class)
      BY <1>5 DEF GetStyle
    <2>3. /\ Written(m) /\ LocateIcewm(m, class, file) # NoPath
          /\ GetStyle(m, class) = Path(m, LocateIcewm(m, class, file))
      BY <1>4, <2>2 DEF GetStyleIcewm
    <2>4. LocateIcewm(m, class, file) = e
      BY <1>2, <2>3 DEF Path
    <2>5. LocateIcewm(m, "mixed", file) = e
      <3>1. class \in {"user", "mixed"}
        BY DEF Class
      <3> QED
        BY <2>3, <2>4, <3>1, UserIsFirst
    <2>6. InForce(m) = conf[m.name].own /\ InForce(m) # NoPath
      <3>1. SettingFits(m, conf[m.name])
        BY <1>1 DEF ConfFits
      <3> QED
        BY <2>3, <3>1 DEF Written, InForce, SettingFits
    <2> QED
      BY <2>1, <2>5, <2>6 DEF InForceEntry
  <1>6. CASE m.get # "icewm"
    <2>1. InForce(m) = [of |-> e, trimmed |-> FALSE] /\ InForce(m) # NoPath
      BY <1>1, <1>2, <1>4, <1>6, GotIsInForce
    <2>2. m.set # "icewm"
      BY <1>1, <1>6, PluginsConsistent DEF Consistent
    <2>3. ~ByName(m)
      <3>1. [of |-> e, trimmed |-> FALSE] \notin [name : ThemeName]
        OBVIOUS
      <3> QED
        BY <2>1, <3>1, InForceIs
    <2> QED
      BY <2>1, <2>2, <2>3 DEF InForceEntry
  <1> QED
    BY <1>5, <1>6

LEMMA InForceIsMarked ==
    ASSUME World, NEW m \in Elements(managers), NEW class \in Class \ {"system"},
           Pdir(m) # "wrong", Comparable(m), InForceEntry(m) \in Listed(m, class)
    PROVE  InForceEntry(m) \in Marked(m, class)
  <1> DEFINE e == InForceEntry(m)
  <1>1. m \in Plugins /\ managers \in Displays /\ Fits(files) /\ ConfFits
    BY ScreensAre DEF World, TypeOK
  <1>2. PICK i \in 1..4 :
           /\ e \in Within(m, i)
           /\ m.lists \in {"simple", "icewm"} =>
                 IF i <= 2 THEN class # "system" ELSE class # "user"
    BY <1>1, ListedAre
  <1>3. e \in Entry /\ e # NoPath /\ e.dir = Place(m, i)
    BY <1>1, <1>2, InstalledAre, StyleSearchAssumption DEF Within
  <1>4. InForce(m) # NoPath
    BY <1>3 DEF InForceEntry
  <1>5. m.lists \in {"simple", "icewm"} /\ class = "user" => e.dir \in 0..2
    <2> HIDE DEF e
    <2> QED
      BY <1>2, <1>3, Places
  <1>6. class \in {"user", "mixed"}
    BY DEF Class
  <1> HIDE DEF e
  <1>7. GetStyle(m, class) = [of |-> e, trimmed |-> FALSE]
    <2>1. CASE HasDefault(m)
      <3>1. /\ m.trims = FALSE /\ m.set # "icewm" /\ ~ByName(m)
            /\ m.lists = "simple"
        BY <1>1, <2>1, PluginsConsistent DEF Consistent, HasDefault, ByName
      <3>2. e = InForce(m).of
        BY <1>4, <3>1 DEF InForceEntry, e
      <3>3. PICK d \in Entry : InForce(m) = Path(m, d)
        BY <1>4, <3>1, InForceIs
      <3>4. InForce(m) = [of |-> e, trimmed |-> FALSE]
        BY <1>1, <3>1, <3>2, <3>3, PathsAre
      <3>5. GetStyle(m, class) = GetStyleSimple(m, class)
        BY <2>1 DEF GetStyle, HasDefault
      <3>6. CASE conf[m.name].form # "none"
        <4>1. Written(m) /\ InForce(m) = conf[m.name].own /\ conf[m.name].own # NoPath
          BY <1>4, <3>6, InForceIs DEF Written
        <4> QED
          BY <1>6, <3>4, <3>5, <4>1 DEF GetStyleSimple
      <3>7. CASE conf[m.name].form = "none"
        <4>1. PICK c \in Entry : c.dir \in 3..4 /\ InForce(m) = Path(m, c)
          BY <1>4, <3>7, InForceIs
        <4>2. e.dir \in 3..4
          BY <1>1, <3>2, <4>1, PathsAre
        <4>3. class = "mixed"
          BY <1>5, <1>6, <3>1, <4>2
        <4> QED
          BY <3>4, <3>5, <3>7, <4>3 DEF GetStyleSimple, Written, InForce
      <3> QED
        BY <3>6, <3>7
    <2>2. CASE m.name = "waimea"
      <3>1. m.set = "database" /\ m.get = "database" /\ m.trims = FALSE
        BY <1>1, <2>2, PluginsConsistent DEF Consistent
      <3>2. ~ByName(m) /\ ~HasDefault(m)
        BY <3>1 DEF ByName, HasDefault
      <3>3. e = InForce(m).of
        BY <1>4, <3>1, <3>2 DEF InForceEntry, e
      <3>4. PICK d \in Entry : InForce(m) = Path(m, d)
        BY <1>4, <3>2, InForceIs
      <3>5. InForce(m) = [of |-> e, trimmed |-> FALSE]
        BY <1>1, <3>1, <3>3, <3>4, PathsAre
      <3>6. Written(m) /\ InForce(m) = conf[m.name].own
        BY <1>4, <3>2, InForceIs DEF Written
      <3> QED
        BY <3>1, <3>5, <3>6 DEF GetStyle, GetStyleDatabase, Own
    <2>3. CASE m.name = "icewm"
      <3> DEFINE file == conf[m.name].own.name
      <3>1. /\ m.set = "icewm" /\ m.get = "icewm" /\ m.trims = FALSE
            /\ m.lists = "icewm"
        BY <1>1, <2>3, PluginsConsistent DEF Consistent
      <3>2. ~HasDefault(m)
        BY <3>1 DEF HasDefault
      <3>3. Written(m) /\ InForce(m) = conf[m.name].own
        BY <1>4, <3>2, InForceIs DEF Written
      <3>4. e = LocateIcewm(m, "mixed", file)
        BY <1>4, <3>1, <3>3 DEF InForceEntry, e
      <3> HIDE DEF file
      <3>5. LocateIcewm(m, class, file) = e
        <4>1. CASE class = "user"
          BY <1>3, <1>5, <3>1, <3>4, <4>1, FirstIsUser, UserIsFirst
        <4>2. CASE class = "mixed"
          BY <3>4, <4>2
        <4> QED
          BY <1>6, <4>1, <4>2
      <3>6. GetStyle(m, class) = Path(m, e)
        BY <1>3, <3>1, <3>3, <3>5 DEF GetStyle, GetStyleIcewm, file
      <3> QED
        BY <1>1, <1>3, <3>1, <3>6, PathsAre
    <2> QED
      BY <2>1, <2>2, <2>3 DEF Comparable
  <1> QED
    BY <1>7 DEF Marked, e

\* Without -y the asterisk of a listing marks the style in force and no other,
\* and is there when the style in force is listed and can be compared.
THEOREM MarksInForce == Spec => []MarksTell
  <1>1. World => MarksTell
    BY MarkedIsInForce, InForceIsMarked DEF MarksTell
  <1> QED
    BY <1>1, WorldInvariant, PTL
============================================================================
