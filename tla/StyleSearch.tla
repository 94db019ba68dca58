---------------------------- MODULE StyleSearch ----------------------------
(***************************************************************************)
(* How xde-style finds, lists, reads and sets the style of the managers of *)
(* its screens, in the directories of each manager: the *_simple and       *)
(* *_database operations of xde.c, those of the plugins with operations of *)
(* their own, and set_style of xde-style.c, which walks the screens.       *)
(*                                                                         *)
(* One style name is asked for.  What is installed under that name is a    *)
(* set of entries: a directory (1 the private one of the running manager,  *)
(* 2 the default one in the home directory, 3 and 4 those of the system),  *)
(* a subdirectory, a form of the name and a kind of file.  Each step is a  *)
(* run of the code on one screen, from the search to the last write; what  *)
(* two programs do to each other in between is in StyleSetting.            *)
(***************************************************************************)
EXTENDS StylePlugins, Naturals, FiniteSets

CONSTANTS
    Displays,       \* sequences of managers, one for each screen
    Entries,        \* what may be installed
    MaxFiles,       \* bound: entries installed at once
    MaxChanges,     \* bound: entries installed or removed in a behaviour
    NoPath, NoItem, NoCommand

Class == {"mixed", "user", "system"}

Form == {"name", "name.suffix", "name/variation"}

Entry == [dir : 1..4, sub : {"styles", "themes"}, form : Form,
          kind : {"dir", "bare", "file", "old"}]

\* The names that the setting of icewm, openbox and metacity can have.
ThemeName == {"name", "name/default.theme", "name/variation.theme", "another"}

\* What a setting can say: the path of a style, or a name.
Value == [of : Entry, trimmed : BOOLEAN] \cup [name : ThemeName]

\* The plugin of a manager is one that exists, and the values that stand for
\* nothing are none of those that stand for something.
ASSUME StyleSearchAssumption ==
    /\ Displays \subseteq Seq(Plugins) \ {<< >>}
    /\ Entries \subseteq Entry
    /\ MaxFiles \in Nat
    /\ MaxChanges \in Nat
    /\ NoPath \notin Entry \cup Value
    /\ NoItem \notin [class : Class, asked : Form]
    /\ NoCommand \notin [class : Class, clicked : BOOLEAN,
                         asked : Form \cup ThemeName]

VARIABLES
    managers,       \* the managers of the screens
    start,          \* how their configuration file was chosen
    files,          \* what is installed: pairs of a manager's name and an entry
    conf,           \* the setting each has
    exact,          \* whether it is in the form that pekwm and openbox write
    strays,         \* what else in their file has that form: comments, fonts
    changes,        \* entries installed or removed so far
    item,           \* an item of a menu that was generated
    command,        \* the xde-style --set that is running
    out             \* what it has done on the screens so far

vars == <<managers, start, files, conf, exact, strays, changes, item, command, out>>

Elements(s) == {s[k] : k \in DOMAIN s}
First(S) == CHOOSE i \in S : \A j \in S : i <= j
The(S) == CHOOSE e \in S : TRUE

(***************************************************************************)
(* The directories of a manager.                                           *)
(***************************************************************************)
\* The configuration file: the default, another (by an option, a variable of
\* the environment or a link with an absolute target), or a link with a
\* relative target.
Start == {"default", "another", "relative"}

\* xde_get_rcfile_simple resolves the target of a link relative to the home
\* directory; for a file in a subdirectory of it that is another directory
\* than the one of the manager.
RcfileSimple(m) ==
    CASE start = "default"                        -> "udir"
      [] start = "relative" /\ m.rcfile = "deep"  -> "wrong"
      [] OTHER                                    -> "private"

\* xde_get_rcfile_XTWM: the default file is in the home directory itself.
RcfileXtwm == IF start = "default" THEN "udir" ELSE "private"

\* An option or a variable of the environment names another directory.
RcfileIcewm == IF start = "default" THEN "udir" ELSE "private"
RcfileOpenbox == IF start = "default" THEN "udir" ELSE "private"
RcfileWmaker == IF start = "default" THEN "udir" ELSE "private"

\* Where the operations of the plugin take the private directory to be.
Pdir(m) ==
    CASE m.rcfile \in {"simple", "deep"} -> RcfileSimple(m)
      [] m.rcfile = "xtwm"               -> RcfileXtwm
      [] m.rcfile = "icewm"              -> RcfileIcewm
      [] m.rcfile = "openbox"            -> RcfileOpenbox
      [] m.rcfile = "wmaker"             -> RcfileWmaker
      [] OTHER                           -> "udir"

\* xde_get_simple_dirs: when the two are the same, 1 and 2 name one directory.
Place(m, i) ==
    IF i = 1 THEN CASE Pdir(m) = "udir"    -> 2
                    [] Pdir(m) = "private" -> 1
                    [] OTHER               -> 0
             ELSE i

\* The directory of the home directory forgotten.
Searched_UdirForgotten_Fault(class) ==
    CASE class = "user" -> {1} [] class = "system" -> 3..4 [] OTHER -> 1..4

\* The system beginning one too early.
Searched_TooEarly_Fault(class) ==
    CASE class = "user" -> 1..2 [] class = "system" -> 2..4 [] OTHER -> 1..4

Searched(class) ==
    CASE class = "user" -> 1..2 [] class = "system" -> 3..4 [] OTHER -> 1..4

Installed(m) == {f[2] : f \in {g \in files : g[1] = m.name}}

At(m, i, sub, form) ==
    {e \in Installed(m) :  /\ e.dir = Place(m, i)
                           /\ e.sub = sub
                           /\ e.form = form}

(***************************************************************************)
(* Finding.  The paths found are entries: the file itself, or the style    *)
(* file in the directory.                                                  *)
(***************************************************************************)
\* The body of the loop of xde_find_style_simple: a directory without a style
\* file ends the search of that directory, NAME.suffix is not tried.
Hit(m, i, sub, asked) ==
    LET hit == At(m, i, sub, asked)
    IN  IF hit # {}
        THEN {e \in hit : e.kind \in {"dir", "file"}}
        ELSE {e \in At(m, i, sub, "name.suffix") :
                 m.suffix /\ asked = "name" /\ e.kind = "file"}

FindStyleSimple(m, sub, class, asked) ==
    LET hits == {i \in Searched(class) : Hit(m, i, sub, asked) # {}}
    IN  IF hits = {} THEN NoPath ELSE The(Hit(m, First(hits), sub, asked))

\* jwm looks through all directories for one, then for the other.
FindSimple(m, class, asked) ==
    LET found(k) == FindStyleSimple(m, m.subs[k], class, asked)
        hits == {k \in DOMAIN m.subs : found(k) # NoPath}
    IN  IF hits = {} THEN NoPath ELSE found(First(hits))

\* NAME.themed and NAME.style in Themes, NAME.style in Styles, directory by
\* directory.
WmakerHit(m, i) ==
    LET pack == {e \in At(m, i, "themes", "name") : e.kind = "dir"}
        theme == {e \in At(m, i, "themes", "name.suffix") : e.kind = "file"}
        plain == {e \in At(m, i, "styles", "name.suffix") : e.kind = "file"}
    IN  IF pack # {} THEN pack ELSE IF theme # {} THEN theme ELSE plain

FindStyleWmaker(m, class, asked) ==
    LET hits == {i \in Searched(class) : WmakerHit(m, i) # {}}
    IN  IF hits = {} \/ asked # "name" THEN NoPath
        ELSE The(WmakerHit(m, First(hits)))

\* The directories of XDG hold no private one and know no classes; metacity
\* also takes a theme of the old format.
OpenboxHit(m, i) == {e \in At(m, i, "themes", "name") : e.kind = "dir"}
MetacityHit(m, i) ==
    {e \in At(m, i, "themes", "name") : e.kind \in {"dir", "old"}}

FindStyleXdg(m, asked) ==
    LET found(i) == IF m.name = "metacity" THEN MetacityHit(m, i)
                                           ELSE OpenboxHit(m, i)
        hits == {i \in 2..4 : found(i) # {}}
    IN  IF hits = {} \/ asked # "name" THEN NoPath ELSE The(found(First(hits)))

\* The file icewm is told of: a variation, or default.theme.  A name that
\* already ends in .theme is recognised by the byte after the end of the
\* string: "zero" is what that byte happens to be.
IcewmFile(asked, zero) ==
    CASE asked = "name"                -> "name/default.theme"
      [] asked = "name/default.theme"  ->
            IF zero THEN asked ELSE "name/default.theme.theme"
      [] asked = "name/variation.theme" ->
            IF zero THEN asked ELSE "name/variation.theme.theme"
      [] asked = "name/variation"      -> "name/variation.theme"
      [] OTHER                         -> "none"

IcewmHit(m, i, file) ==
    CASE file = "name/default.theme"   ->
            {e \in At(m, i, "themes", "name") : e.kind = "dir"}
      [] file = "name/variation.theme" -> At(m, i, "themes", "name/variation")
      [] OTHER                         -> {}

LocateIcewm(m, class, file) ==
    LET hits == {i \in Searched(class) : IcewmHit(m, i, file) # {}}
    IN  IF hits = {} THEN NoPath ELSE The(IcewmHit(m, First(hits), file))

FindStyle(m, class, asked, zero) ==
    CASE m.find = "simple" -> FindSimple(m, class, asked)
      [] m.find = "wmaker" -> FindStyleWmaker(m, class, asked)
      [] m.find = "xdg"    -> FindStyleXdg(m, asked)
      [] m.find = "icewm"  -> LocateIcewm(m, class, IcewmFile(asked, zero))
      [] OTHER             -> NoPath

(***************************************************************************)
(* The settings.  own is what the file of the user says: a path, or for    *)
(* icewm, openbox and metacity a name; form how: a link, a file, or the    *)
(* file is missing; sys the link the system has for users without one.     *)
(***************************************************************************)
Path(m, e) == [of |-> e, trimmed |-> m.trims /\ e.kind = "dir"]
Name(asked) == [name |-> asked]

ByName(m) == m.set \in {"icewm", "openbox", "gsettings"}
HasDefault(m) == m.get \in {"link", "file"}

\* The file that a manager without default needs in order to be set.
Written(m) == conf[m.name].form # "none" /\ Pdir(m) # "wrong"

\* The system before the user.
GetStyleSimple_SystemFirst_Fault(m, class) ==
    LET own == IF Written(m) THEN conf[m.name].own ELSE NoPath
        sys == conf[m.name].sys
    IN  CASE class = "user"   -> own
          [] class = "system" -> sys
          [] OTHER -> IF sys # NoPath THEN sys ELSE own

GetStyleSimple(m, class) ==
    LET own == IF Written(m) THEN conf[m.name].own ELSE NoPath
    IN  CASE class = "user"   -> own
          [] class = "system" -> conf[m.name].sys
          [] OTHER -> IF own # NoPath THEN own ELSE conf[m.name].sys

GetStyleIcewm(m, class) ==
    IF Written(m) /\ LocateIcewm(m, class, conf[m.name].own.name) # NoPath
    THEN Path(m, LocateIcewm(m, class, conf[m.name].own.name))
    ELSE NoPath

\* The others know no classes: what their configuration says.
Own(m) == IF Written(m) THEN conf[m.name].own ELSE NoPath

GetStyleDatabase(m) == Own(m)
GetStylePekwm(m) == Own(m)
GetStyleOpenbox(m) == Own(m)
GetStyleMetacity(m) == Own(m)

GetStyle(m, class) ==
    CASE m.get \in {"link", "file"} -> GetStyleSimple(m, class)
      [] m.get = "icewm"            -> GetStyleIcewm(m, class)
      [] m.get = "database"         -> GetStyleDatabase(m)
      [] m.get = "pekwm"            -> GetStylePekwm(m)
      [] m.get = "openbox"          -> GetStyleOpenbox(m)
      [] m.get = "gsettings"        -> GetStyleMetacity(m)
      [] OTHER                      -> NoPath

\* What the manager itself finds in its files.
InForce(m) ==
    IF conf[m.name].form # "none" THEN conf[m.name].own ELSE conf[m.name].sys

(***************************************************************************)
(* Listing.                                                                *)
(***************************************************************************)
Within(m, i) ==
    {e \in Installed(m) : e.dir = Place(m, i) /\ e.sub \in Elements(m.subs)}

\* What is printed of a directory.
ListDirSimple(m, i) ==
    {e \in Within(m, i) :
        \/ e.kind = "dir"
        \/ e.kind = "file" /\ (m.suffix => e.form = "name.suffix")}

ListDirIcewm(m, i) ==
    {e \in Within(m, i) : e.kind = "dir" \/ e.form = "name/variation"}

\* xde_list_styles_simple.
ListStylesSimple(m, class) ==
    UNION {IF m.lists = "icewm" THEN ListDirIcewm(m, i) ELSE ListDirSimple(m, i) :
           i \in {k \in 1..4 : IF k <= 2 THEN class # "system"
                                         ELSE class # "user"}}

\* openbox and metacity list the directories of XDG, of whatever class.
ListStylesOpenbox(m) ==
    UNION {{e \in Within(m, i) : e.kind \in {"dir", "file"}} : i \in 2..4}
ListStylesMetacity(m) ==
    UNION {{e \in Within(m, i) : e.kind \in {"dir", "file"}} : i \in 2..4}

Listed(m, class) ==
    CASE m.lists \in {"simple", "icewm"} -> ListStylesSimple(m, class)
      [] m.name = "openbox"              -> ListStylesOpenbox(m)
      [] m.name = "metacity"             -> ListStylesMetacity(m)
      [] OTHER                           -> {}

\* Compared by name.
Marked_ByName_Fault(m, class) ==
    LET style == GetStyle(m, class)
    IN  {e \in Listed(m, class) : style # NoPath /\ "of" \in DOMAIN style
                                    /\ style.of.form = e.form}

\* The one with the asterisk is the one whose file is the current style.
Marked(m, class) ==
    LET style == GetStyle(m, class)
    IN  {e \in Listed(m, class) : style = [of |-> e, trimmed |-> FALSE]}

\* xde_gen_menu_simple and gen_item: xde-style -s -t -r, with -u for those of
\* the user and -y for those of the system.
Items(m, class) ==
    {[class |-> IF m.lists = "xdg" THEN "mixed"
                ELSE IF e.dir \in 1..2 THEN "user" ELSE "system",
      asked |-> e.form] : e \in IF m.items THEN Listed(m, class) ELSE {}}

(***************************************************************************)
(* Commands.                                                               *)
(***************************************************************************)
\* What set_style of xde-style.c goes by.  Whether --link or --reload was
\* given, whether the library knows the manager's pid and whether with --theme
\* xde_set_theme has made the plugin look for its configuration file is left
\* open in the steps.
Command == [class : Class, clicked : BOOLEAN,
            asked : {e.form : e \in Entries} \cup
                    {"name", "name/default.theme", "name/variation.theme"}]

Idle == command = NoCommand

GenMenu ==
    /\ Idle
    /\ item = NoItem
    /\ \E m \in Elements(managers), class \in Class : item' \in Items(m, class)
    /\ out' = << >>
    /\ UNCHANGED <<managers, start, files, conf, exact, strays, changes, command>>

StartSet(class, asked, clicked) ==
    /\ Idle
    /\ command' = [class |-> class, asked |-> asked, clicked |-> clicked]
    /\ out' = << >>
    /\ UNCHANGED <<managers, start, files, conf, exact, strays, changes>>

Click ==
    /\ item # NoItem
    /\ item' = NoItem
    /\ StartSet(item.class, item.asked, TRUE)

Type ==
    /\ item = NoItem
    /\ UNCHANGED item
    /\ \E class \in Class : StartSet(class, "name", FALSE)

\* One screen too many.
NextScreen_OneTooMany_Fault(how, path, asked) ==
    /\ out' = Append(out, [how |-> how, path |-> path,
                           class |-> command.class])
    /\ command' = IF how = "crash" \/ Len(out') > Len(managers)
                  THEN NoCommand
                  ELSE [command EXCEPT !.asked = asked]
    /\ UNCHANGED <<managers, start, files, exact, changes, item>>

\* The name that set_style leaves in options.style for the next screen.
NextScreen(how, path, asked) ==
    /\ out' = Append(out, [how |-> how, path |-> path,
                           class |-> command.class])
    /\ command' = IF how = "crash" \/ Len(out') = Len(managers)
                  THEN NoCommand
                  ELSE [command EXCEPT !.asked = asked]
    /\ UNCHANGED <<managers, start, files, exact, changes, item>>

Says(how, path) ==
    NextScreen(how, path, command.asked) /\ UNCHANGED <<conf, strays>>
Stores(m, value, form) ==
    /\ conf' = [conf EXCEPT ![m.name].own = value, ![m.name].form = form]
    /\ UNCHANGED strays
    /\ NextScreen("set", value, command.asked)

\* Ways in which set_style ends without a change.
Found(m) == FindStyle(m, command.class, command.asked, FALSE)
\* Compared by name.
Same_ByName_Fault(m) ==
    LET style == GetStyle(m, command.class)
    IN  style # NoPath /\ style.of.form = Found(m).form

Same(m) == GetStyle(m, command.class) = Path(m, Found(m))

NotFound(m) == Found(m) = NoPath /\ Says("not found", NoPath)
Already(m) ==
    Found(m) # NoPath /\ Same(m) /\ Says("already", Path(m, Found(m)))
NoPid == Says("no pid", NoPath)
Failed == Says("failed", NoPath)

Differs(m) == Found(m) # NoPath /\ ~Same(m)

\* xde_set_style_simple.  A file becomes a link with --link.
SetStyleSimple(m) ==
    /\ m.set \in {"link", "file"}
    /\ \/ NotFound(m)
       \/ Already(m)
       \/ Differs(m) /\ Pdir(m) = "wrong" /\ Failed
       \/ /\ Differs(m)
          /\ Pdir(m) # "wrong"
          /\ \E form \in {"link", m.set} :
                /\ conf[m.name].form = "link" => form = "link"
                /\ Stores(m, Path(m, Found(m)), form)

\* find_style of blackbox and fluxbox looks for the name of the style file in
\* what it has found, also when it has found nothing.
Crash(m) == m.trims /\ Found(m) = NoPath /\ Says("crash", NoPath)

\* xde_set_style_database.
SetStyleDatabase(m) ==
    /\ m.set = "database"
    /\ \/ NoPid
       \/ Crash(m)
       \/ ~m.trims /\ NotFound(m)
       \/ Already(m)
       \/ Differs(m) /\ ~Written(m) /\ Failed
       \/ Differs(m) /\ Written(m) /\ Stores(m, Path(m, Found(m)), "file")

\* pekwm and openbox look for the line they would write in the whole file, and
\* rewrite the file when it is nowhere in it.
Mentions(m, value) ==
    \/ conf[m.name].own = value /\ exact[m.name]
    \/ value \in strays[m.name]

\* Every line of that form that is no comment is replaced, be it the one of the
\* style or another; the one of the style may not have it.
Replaces(m, value) ==
    /\ \E S \in SUBSET (strays[m.name] \cup {value}) :
          strays' = [strays EXCEPT ![m.name] = S]
    /\ \/ /\ conf[m.name].own # NoPath /\ exact[m.name]
          /\ conf' = [conf EXCEPT ![m.name].own = value]
          /\ NextScreen("set", value, command.asked)
       \/ /\ conf[m.name].own = NoPath \/ ~exact[m.name]
          /\ UNCHANGED conf
          /\ NextScreen("no line", NoPath, command.asked)

\* set_style of pekwm.
SetStylePekwm(m) ==
    /\ m.set = "pekwm"
    /\ LET path == Path(m, Found(m))
       IN  \/ NoPid
           \/ NotFound(m)
           \/ Found(m) # NoPath /\ ~Written(m) /\ Failed
           \/ /\ Found(m) # NoPath /\ Written(m)
              /\ Mentions(m, path)
              /\ Says("already", path)
           \/ /\ Found(m) # NoPath /\ Written(m)
              /\ ~Mentions(m, path)
              /\ Replaces(m, path)

\* set_style of icewm: find_style has replaced options.style by the name of
\* the file.
SetStyleIcewm(m) ==
    /\ m.set = "icewm"
    /\ \E zero \in BOOLEAN :
          LET found == FindStyle(m, command.class, command.asked, zero) # NoPath
              file == IcewmFile(command.asked, zero)
          IN  \/ ~found /\ Says("not found", NoPath)
              \/ /\ found /\ ~Written(m)
                 /\ UNCHANGED <<conf, strays>>
                 /\ NextScreen("failed", NoPath, file)
              \/ /\ found /\ Written(m)
                 /\ conf' = [conf EXCEPT ![m.name].own = Name(file)]
                 /\ UNCHANGED strays
                 /\ NextScreen(IF conf' = conf THEN "already" ELSE "set",
                               Name(file), file)

\* get_rcfile of icewm frees the argument of --config, which is not its own.
IcewmAborts(m) ==
    /\ m.set = "icewm"
    /\ start = "another"
    /\ Says("crash", NoPath)

\* set_style of openbox: find_style does not look for the configuration file;
\* unless xde_set_theme has, it is not known.
SetStyleOpenbox(m) ==
    /\ m.set = "openbox"
    /\ \/ NotFound(m)
       \/ Found(m) # NoPath /\ Failed
       \/ /\ Found(m) # NoPath /\ Written(m)
          /\ Mentions(m, Name("name"))
          /\ Says("already", Name("name"))
       \/ /\ Found(m) # NoPath /\ Written(m)
          /\ ~Mentions(m, Name("name"))
          /\ Replaces(m, Name("name"))

SetStyleMetacity(m) ==
    /\ m.set = "gsettings"
    /\ \/ NotFound(m)
       \/ Found(m) # NoPath /\ Stores(m, Name("name"), "file")

\* set_style of cwm: the link it writes is not the one it reads.
SetStyleCwm(m) ==
    /\ m.set = "cwm"
    /\ \/ NoPid
       \/ NotFound(m)
       \/ Already(m)
       \/ Differs(m) /\ Pdir(m) = "wrong" /\ Failed
       \/ /\ Differs(m)
          /\ Pdir(m) # "wrong"
          /\ Says("edited", Path(m, Found(m)))

SetStyleNone(m) == m.set = "none" /\ Says("none", NoPath)

SetStyle ==
    /\ ~Idle
    /\ LET m == managers[Len(out) + 1]
       IN  \/ SetStyleSimple(m)  \/ SetStyleDatabase(m) \/ SetStylePekwm(m)
           \/ SetStyleIcewm(m)   \/ IcewmAborts(m)      \/ SetStyleOpenbox(m)
           \/ SetStyleMetacity(m) \/ SetStyleCwm(m)     \/ SetStyleNone(m)


(***************************************************************************)
(* The files.                                                              *)
(***************************************************************************)
\* What may be installed for a manager: in directories it has, in the form
\* and of the kind that mean something to it.
Suits(m, e) ==
    /\ e.sub \in Elements(m.subs)
    /\ e.dir = 1 => Pdir(m) = "private" /\ m.find # "xdg"
    /\ e.form = "name.suffix" => m.suffix /\ e.kind # "old"
    /\ e.form = "name/variation" => m.find = "icewm" /\ e.kind = "file"
    /\ e.kind = "old" => m.name = "metacity"

Installable == UNION {{<<m.name, e>> : e \in {f \in Entries : Suits(m, f)}} :
                       m \in Elements(managers)}

Fits(S) ==
    /\ S \subseteq Installable
    /\ Cardinality(S) <= MaxFiles
    /\ \A f, g \in S :
          <<f[1], f[2].dir, f[2].sub, f[2].form>>
              = <<g[1], g[2].dir, g[2].sub, g[2].form>> => f = g

\* A package or the user installs or removes a style, after a menu has been
\* generated or while a command runs (before, it is in the initial states).
Change ==
    /\ changes < MaxChanges
    /\ item # NoItem \/ ~Idle
    /\ changes' = changes + 1
    /\ \E f \in Installable :
          LET S == IF f \in files THEN files \ {f} ELSE files \cup {f}
          IN  Fits(S) /\ files' = S
    /\ UNCHANGED <<managers, start, conf, exact, strays, item, command, out>>

\* The settings that a manager can be found with.
Paths(m) == {Path(m, e) : e \in Installed(m)}

Setting(own, form, sys) == [own |-> own, form |-> form, sys |-> sys]

Missing == Setting(NoPath, "none", NoPath)

Settings(m) ==
    CASE HasDefault(m) ->
            {Setting(own, form, sys) :
                own \in {NoPath} \cup Paths(m),
                form \in {"none", "link", m.get},
                sys \in {NoPath} \cup {p \in Paths(m) : p.of.dir \in 3..4}}
      [] m.set \in {"database", "pekwm"} ->
            {Missing} \cup
            {Setting(own, "file", NoPath) : own \in {NoPath} \cup Paths(m)}
      [] ByName(m) ->
            {Missing} \cup
            {Setting(Name(n), "file", NoPath) :
                n \in {"name", "name/default.theme", "another"}}
      [] OTHER -> {Missing}

\* What else is in the file of pekwm or openbox.
Edits(m) == m.set \in {"pekwm", "openbox"} /\ conf[m.name].form # "none"

Others(m) ==
    SUBSET (IF m.set = "pekwm" THEN Paths(m) ELSE {Name("name")})

Init ==
    /\ managers \in Displays
    /\ start \in Start
    /\ \E n \in 0..MaxFiles : \E f \in [1..n -> Installable] :
          files = {f[i] : i \in 1..n} /\ Fits(files)
    /\ conf \in [{m.name : m \in Elements(managers)} ->
                    UNION {Settings(m) : m \in Elements(managers)}]
    /\ \A m \in Elements(managers) :
          /\ conf[m.name] \in Settings(m)
          /\ conf[m.name].form = "none" <=> conf[m.name].own = NoPath
    /\ exact \in [{m.name : m \in Elements(managers)} -> BOOLEAN]
    /\ strays \in [{m.name : m \in Elements(managers)} ->
                      UNION {{{}} \cup Others(m) : m \in Elements(managers)}]
    /\ \A m \in Elements(managers) :
          IF Edits(m) THEN strays[m.name] \in Others(m)
                      ELSE exact[m.name] /\ strays[m.name] = {}
    /\ changes = 0
    /\ item = NoItem
    /\ command = NoCommand
    /\ out = << >>

Next == GenMenu \/ Click \/ Type \/ SetStyle \/ Change

Spec == Init /\ [][Next]_vars

-----------------------------------------------------------------------------
(***************************************************************************)
(* Properties.                                                             *)
(***************************************************************************)
\* The installed files, the settings, the command and what it has said are
\* what the operations expect them to be.
TypeOK ==
    /\ managers \in Displays
    /\ start \in Start
    /\ Fits(files)
    /\ \A m \in Elements(managers) :
          /\ conf[m.name].form \in {"none", "link", "file"}
          /\ conf[m.name].form = "none" => conf[m.name].own = NoPath
    /\ exact \in [{m.name : m \in Elements(managers)} -> BOOLEAN]
    /\ strays \in [{m.name : m \in Elements(managers)} -> SUBSET Value]
    /\ changes \in 0..MaxChanges
    /\ command \in Command \cup {NoCommand}
    /\ Len(out) <= Len(managers)
    /\ ~Idle => Len(out) < Len(managers)

\* A style that xde-style lists, or puts in a menu, is found when it is asked
\* for by the name it is listed under and with the same -u or -y: the very
\* file, or one of the same name in a directory that is looked at before.
\* (Only a stray file among the themes of openbox and metacity is listed and
\* cannot be found.)
ListedIsFound ==
    \A m \in Elements(managers), class \in Class :
        \A e \in Listed(m, class) :
            LET f == FindStyle(m, class, e.form, TRUE)
            IN  \/ m.lists = "xdg" /\ e.kind = "file"
                \/ f # NoPath /\ (f = e \/ f.sub # e.sub \/ f.dir < e.dir)

\* The reports of a file that has been rewritten.
Rewriting == {"set", "no line"}

\* Two screens with the same manager have one setting: whether screen k was
\* the last on which the command has written it.
LastSet(k) ==
    \A j \in k + 1 .. Len(out) :
        managers[j] = managers[k] => out[j].how \notin Rewriting

\* What xde-style has set, get_style reads back in the same way, so the same
\* command given once more changes nothing, until another screen of the same
\* manager is set.  (With -y xde_get_style_simple does not look at the file
\* that was written.)
SetIsGot ==
    \A k \in DOMAIN out :
        LET m == managers[k]
        IN  (/\ out[k].how = "set" /\ LastSet(k)
             /\ ~(HasDefault(m) /\ out[k].class = "system"))
                => IF m.set = "icewm"
                   THEN conf[m.name].own = out[k].path
                   ELSE GetStyle(m, out[k].class) = out[k].path

\* When xde-style has set a style, or has left it because it was the style
\* already, the manager finds that style in its files, until another screen of
\* the same manager is set.  (Not so with -y, where the link of the system
\* counts as the style of a user who has another, when the configuration file
\* was looked for in the wrong directory, nor for pekwm and openbox when
\* something else in the file has the form of the line that would be written.)
ToldIsInForce ==
    \A k \in DOMAIN out :
        LET m == managers[k]
        IN  (/\ out[k].how = "set" \/ (/\ out[k].how = "already"
                                      /\ out[k].path \notin strays[m.name])
             /\ LastSet(k)
             /\ ~(HasDefault(m) /\ out[k].class = "system")
             /\ Pdir(m) # "wrong")
                => InForce(m) = out[k].path

\* Managers whose styles are compared by the path under which they are listed.
Comparable(m) == HasDefault(m) \/ m.name \in {"waimea", "icewm"}

InForceEntry(m) ==
    IF InForce(m) = NoPath THEN NoPath
    ELSE IF m.set = "icewm" THEN LocateIcewm(m, "mixed", InForce(m).name)
    ELSE IF ByName(m) THEN NoPath
    ELSE InForce(m).of

\* Without -y the asterisk of a listing marks the style in force and no other,
\* and for the managers whose plugin compares like with like it is there when
\* that style is listed.
MarksTell ==
    \A m \in Elements(managers), class \in Class \ {"system"} :
        Pdir(m) # "wrong" =>
            /\ \A e \in Marked(m, class) : e = InForceEntry(m)
            /\ Comparable(m) /\ InForceEntry(m) \in Listed(m, class)
                  => InForceEntry(m) \in Marked(m, class)

\* An item of a menu of the user's styles never puts a style of the system in
\* force, nor the other way round, whatever was installed or removed between
\* the generation of the menu and the click, and on whichever screen.
ClickKeepsClass ==
    [][ \A m \in Elements(managers) :
          (/\ ~Idle /\ command.clicked /\ ~ByName(m)
           /\ conf'[m.name] # conf[m.name])
              => conf'[m.name].own.of.dir \in
                    CASE command.class = "user"   -> 1..2
                      [] command.class = "system" -> 3..4
                      [] OTHER                    -> 1..4 ]_vars
============================================================================
