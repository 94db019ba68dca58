---------------------------- MODULE StyleSetting ----------------------------
(***************************************************************************)
(* Putting a style in force, step by step: what the set_style operations   *)
(* of the plugins read, write and ask of the manager, when several         *)
(* xde-style run on the same files and may be killed between two steps.    *)
(* Each plugin goes one of five ways:                                      *)
(*                                                                         *)
(*   link      xde_set_style_simple without to_file: a symbolic link       *)
(*   file      the same with to_file: a file that includes the style, or   *)
(*             a link with --link or when there is one already             *)
(*   database  xde_set_style_database: a resource of the configuration     *)
(*   theme     set_style of icewm: the first line of a file of its own     *)
(*   edit      set_style of openbox and pekwm: the line of the style in    *)
(*             the configuration, which is read, truncated and written     *)
(*                                                                         *)
(* Of a file, only what decides which style it names is kept.  The rest of *)
(* it is not safe either: openbox replaces every <name> of the theme       *)
(* section, those of fonts too, and icewm keeps ten lines, as comments.    *)
(*                                                                         *)
(* Nothing is locked, and no file is written beside the old one and        *)
(* renamed.                                                                *)
(***************************************************************************)
EXTENDS Naturals

CONSTANTS
    Commands,       \* runs of xde-style --set
    Ways,           \* those of the managers considered
    Styles,         \* styles that are installed
    SystemStyle,    \* the style in force when the files name none
    NoStyle,
    MaxRuns,        \* bound: commands started
    MaxKills        \* bound: commands killed

ASSUME SettingAssumption ==
    /\ Ways \subseteq {"link", "file", "database", "theme", "edit"}
    /\ SystemStyle \in Styles
    /\ NoStyle \notin Styles
    /\ MaxRuns \in Nat /\ MaxKills \in Nat

VARIABLES
    way,            \* of the manager
    reachable,      \* it can be asked to reload
    file,           \* what names the style
    damaged,        \* styles whose own files have been overwritten
    request,        \* the manager has been asked to reload
    shown,          \* the style it has in force
    pc,             \* where each command is
    want,           \* the style it sets
    options,        \* its --reload and --link, and the link that it saw
    read,           \* the file as it has read it
    holds,          \* whether the file it has opened is still the one there
    alone,          \* no other command has run at the same time
    overlapped,     \* commands have run at the same time
    runs, kills     \* commands started and killed

wayVars == <<way, reachable>>
fileVars == <<file, damaged>>
managerVars == <<request, shown>>
commandVars == <<want, options, read, alone, overlapped>>
vars == <<wayVars, fileVars, managerVars, pc, commandVars, holds, runs, kills>>

\* The file: missing, a link or a regular file; the style it names; whether it
\* names it in just the form that openbox and pekwm write; and what else in it,
\* comments or fonts, has that form.
File == [form : {"none", "link", "file"}, style : Styles \cup {NoStyle},
         exact : BOOLEAN, strays : SUBSET Styles]

None == [form |-> "none", style |-> NoStyle, exact |-> TRUE, strays |-> {}]
Link(s) == [None EXCEPT !.form = "link", !.style = s]
Empty == [None EXCEPT !.form = "file"]
Including(s) == [None EXCEPT !.form = "file", !.style = s]
Edited(s, exact, strays) ==
    [form |-> "file", style |-> s, exact |-> exact, strays |-> strays]

Simple == way \in {"link", "file"}
Rewrites == way \in {"theme", "edit"}

Ended == {"set", "already", "failed", "killed"}
Running(c) == pc[c] \notin Ended \cup {"idle"}

\* icewm, openbox and some of the first two ways are asked by a message or a
\* key, the others by a signal to the pid that was found, if one was.
Init ==
    /\ way \in Ways
    /\ file \in IF way = "link" THEN {None} \cup {Link(s) : s \in Styles}
                ELSE IF way = "file"
                THEN {None} \cup {Link(s) : s \in Styles}
                            \cup {Including(s) : s \in Styles}
                ELSE IF way = "edit"
                THEN {Edited(s, exact, strays) : s \in Styles,
                         exact \in BOOLEAN, strays \in SUBSET Styles}
                ELSE {Including(s) : s \in Styles}
    /\ reachable \in BOOLEAN
    /\ way = "theme" => reachable
    /\ damaged = {}
    /\ request = FALSE
    /\ shown = IF file.style = NoStyle THEN SystemStyle ELSE file.style
    /\ pc = [c \in Commands |-> "idle"]
    /\ want = [c \in Commands |-> SystemStyle]
    /\ options = [c \in Commands |-> [reload |-> TRUE, link |-> FALSE]]
    /\ read = [c \in Commands |-> None]
    /\ holds = [c \in Commands |-> FALSE]
    /\ alone = [c \in Commands |-> TRUE]
    /\ overlapped = FALSE
    /\ runs = 0
    /\ kills = 0

Goto(c, place) == pc' = [pc EXCEPT ![c] = place]

\* The branch that links returns before the reload.
Written_LinkReturns_Fault(c) ==
    Goto(c, IF options[c].reload /\ ~options[c].link THEN "reload" ELSE "set")

\* Where a command goes when its files are written: to the end, or to reload.
Written(c) == Goto(c, IF options[c].reload THEN "reload" ELSE "set")

(***************************************************************************)
(* A command, from the moment it has found the file of the style.          *)
(***************************************************************************)
\* A signal needs the pid of the manager.  Without it pekwm sets no style, and
\* those with a database none that is to be reloaded; the others set it.
Refuses(reload) ==
    ~reachable /\ (way = "edit" \/ (way = "database" /\ reload))

Start(c) ==
    /\ ~Running(c)
    /\ runs < MaxRuns
    /\ runs' = runs + 1
    /\ \E s \in Styles, reload, link \in BOOLEAN :
          /\ want' = [want EXCEPT ![c] = s]
          /\ options' = [options EXCEPT ![c] = [reload |-> reload, link |-> link]]
          /\ Goto(c, IF Refuses(reload) THEN "failed"
                     ELSE IF Rewrites THEN "read" ELSE "compare")
    /\ alone' = [d \in Commands |->
                    IF d = c THEN \A e \in Commands \ {c} : ~Running(e)
                             ELSE alone[d] /\ ~Running(d)]
    /\ overlapped' = (overlapped \/ \E e \in Commands : Running(e))
    /\ UNCHANGED <<wayVars, fileVars, managerVars, read, holds, kills>>

\* get_style: the style in force is left alone.
Compare(c) ==
    /\ pc[c] = "compare"
    /\ Goto(c, IF file.style = want[c] THEN "already"
               ELSE IF Simple THEN "lstat" ELSE "read")
    /\ UNCHANGED <<wayVars, fileVars, managerVars, commandVars, holds, runs, kills>>

(***************************************************************************)
(* xde_set_style_simple.                                                   *)
(***************************************************************************)
\* The link that is there is not looked at, and left to fopen(3) to replace.
Lstat_Straight_Fault(c) ==
    /\ pc[c] = "lstat"
    /\ options' = [options EXCEPT ![c].link = @ \/ way = "link"]
    /\ Goto(c, IF options'[c].link THEN "unlink" ELSE "open")
    /\ UNCHANGED <<wayVars, fileVars, managerVars, want, read, alone, overlapped,
                   holds, runs, kills>>

\* Whether the new one is to be a link as well.
Lstat(c) ==
    /\ pc[c] = "lstat"
    /\ options' = [options EXCEPT ![c].link =
                      @ \/ way = "link" \/ file.form = "link"]
    /\ Goto(c, "unlink")
    /\ UNCHANGED <<wayVars, fileVars, managerVars, want, read, alone, overlapped,
                   holds, runs, kills>>

Unlink(c) ==
    /\ pc[c] = "unlink"
    /\ file' = None
    /\ holds' = [d \in Commands |-> FALSE]
    /\ Goto(c, IF options[c].link THEN "symlink" ELSE "open")
    /\ UNCHANGED <<wayVars, damaged, managerVars, commandVars, runs, kills>>

\* A link that replaces what is there.
Symlink_Replaces_Fault(c) ==
    /\ pc[c] = "symlink"
    /\ file' = Link(want[c])
    /\ Written(c)
    /\ UNCHANGED <<wayVars, damaged, managerVars, commandVars, holds, runs, kills>>

\* What is in the way is removed when the link cannot be made.
Symlink_CleansUp_Fault(c) ==
    /\ pc[c] = "symlink"
    /\ \/ /\ file.form = "none"
          /\ file' = Link(want[c])
          /\ Written(c)
          /\ UNCHANGED holds
       \/ /\ file.form # "none"
          /\ file' = None
          /\ holds' = [d \in Commands |-> FALSE]
          /\ Goto(c, "failed")
    /\ UNCHANGED <<wayVars, damaged, managerVars, commandVars, runs, kills>>

\* symlink(2) refuses when something is there again; then nothing is reloaded.
Symlink(c) ==
    /\ pc[c] = "symlink"
    /\ \/ file.form = "none" /\ file' = Link(want[c]) /\ Written(c)
       \/ file.form # "none" /\ UNCHANGED file /\ Goto(c, "failed")
    /\ UNCHANGED <<wayVars, damaged, managerVars, commandVars, holds, runs, kills>>

\* to_file: fopen(3) creates the file or truncates it; when a link is there by
\* now it truncates what the link leads to, the file of a style.
Open(c) ==
    /\ pc[c] = "open"
    /\ IF file.form = "link"
       THEN damaged' = damaged \cup {file.style} /\ UNCHANGED <<file, holds>>
       ELSE /\ file' = Empty
            /\ holds' = [holds EXCEPT ![c] = TRUE]
            /\ UNCHANGED damaged
    /\ Goto(c, "include")
    /\ UNCHANGED <<wayVars, managerVars, commandVars, runs, kills>>

\* fclose(3).  What was opened is written; a file that has been unlinked in
\* between, or the file of a style, is written in vain.
Include(c) ==
    /\ pc[c] = "include"
    /\ file' = IF holds[c] THEN Including(want[c]) ELSE file
    /\ holds' = [holds EXCEPT ![c] = FALSE]
    /\ Written(c)
    /\ UNCHANGED <<wayVars, damaged, managerVars, commandVars, runs, kills>>

(***************************************************************************)
(* xde_set_style_database, set_style of icewm, openbox and pekwm.          *)
(***************************************************************************)
\* icewm compares the first line.  openbox and pekwm look for the line they
\* would write anywhere in the file.
Mentions(f, s) == (s = f.style /\ f.exact) \/ s \in f.strays

\* The whole file is read.  Those that rewrite it compare what they have read.
Read(c) ==
    /\ pc[c] = "read"
    /\ read' = [read EXCEPT ![c] = file]
    /\ Goto(c, IF Rewrites /\ Mentions(file, want[c]) THEN "already"
               ELSE "truncate")
    /\ UNCHANGED <<wayVars, fileVars, managerVars, want, options, alone,
                   overlapped, holds, runs, kills>>

\* XrmPutFileDatabase closes the file before it returns.  The others reload
\* the manager while what they have written is in the buffer of the stream.
Truncate(c) ==
    /\ pc[c] = "truncate"
    /\ file' = Empty
    /\ Goto(c, IF Rewrites /\ options[c].reload THEN "reload" ELSE "write")
    /\ UNCHANGED <<wayVars, damaged, managerVars, commandVars, holds, runs, kills>>

\* The line that openbox and pekwm replace.
Replaceable(f) == f.style # NoStyle /\ f.exact

\* Other lines come to name the new style: openbox replaces every <name> of the
\* theme section, pekwm every line with "Theme = ", comments excepted.
Strays(c) ==
    IF way = "edit" THEN SUBSET (read[c].strays \cup {want[c]}) ELSE {{}}

\* What is there takes precedence over the new resource.
Write_Augments_Fault(c) ==
    /\ pc[c] = "write"
    /\ \E strays \in Strays(c) :
          file' = Edited(IF read[c].style = NoStyle THEN want[c]
                         ELSE read[c].style,
                         read[c].exact, strays)
    /\ IF Rewrites THEN Goto(c, "set") ELSE Written(c)
    /\ UNCHANGED <<wayVars, damaged, managerVars, commandVars, holds, runs, kills>>

\* What was read is written, with the new style: as a resource, as the first
\* line, or in the place of the line that named the old one, if there was one.
Write(c) ==
    /\ pc[c] = "write"
    /\ \E strays \in Strays(c) :
          file' = Edited(IF way = "edit" /\ ~Replaceable(read[c])
                         THEN read[c].style ELSE want[c],
                         read[c].exact, strays)
    /\ IF Rewrites THEN Goto(c, "set") ELSE Written(c)
    /\ UNCHANGED <<wayVars, damaged, managerVars, commandVars, holds, runs, kills>>

\* reload_style: a signal or a message.  Without a pid to send the signal to
\* there is but a message on the standard error.
Reload(c) ==
    /\ pc[c] = "reload"
    /\ request' = (request \/ reachable)
    /\ Goto(c, IF Rewrites THEN "write" ELSE "set")
    /\ UNCHANGED <<wayVars, fileVars, shown, commandVars, holds, runs, kills>>

Step(c) ==
    \/ Compare(c) \/ Lstat(c) \/ Unlink(c) \/ Symlink(c) \/ Open(c)
    \/ Include(c) \/ Read(c) \/ Truncate(c) \/ Write(c) \/ Reload(c)

\* A command may be interrupted anywhere.
Kill(c) ==
    /\ Running(c)
    /\ kills < MaxKills
    /\ kills' = kills + 1
    /\ holds' = [holds EXCEPT ![c] = FALSE]
    /\ Goto(c, "killed")
    /\ UNCHANGED <<wayVars, fileVars, managerVars, commandVars, runs>>

\* The manager reads its files, some time after it was asked to.
Load ==
    /\ request
    /\ request' = FALSE
    /\ shown' = IF file.style = NoStyle THEN SystemStyle ELSE file.style
    /\ UNCHANGED <<wayVars, fileVars, pc, commandVars, holds, runs, kills>>

Next == Load \/ \E c \in Commands : Start(c) \/ Step(c) \/ Kill(c)

Spec == Init /\ [][Next]_vars

\* Programs run until they end, and the manager handles its signals and
\* messages.
FairSpec ==
    Spec /\ WF_vars(Load) /\ \A c \in Commands : WF_vars(Step(c))

-----------------------------------------------------------------------------
(***************************************************************************)
(* Properties.                                                             *)
(***************************************************************************)
AtRest == \A c \in Commands : ~Running(c)

\* The files, the manager and the commands are of their kinds, and nobody
\* writes to a file it has not opened.
TypeOK ==
    /\ way \in Ways /\ reachable \in BOOLEAN
    /\ file \in File
    /\ damaged \subseteq Styles
    /\ request \in BOOLEAN
    /\ shown \in Styles
    /\ pc \in [Commands -> Ended \cup
                 {"idle", "compare", "lstat", "unlink", "symlink", "open",
                  "include", "read", "truncate", "write", "reload"}]
    /\ want \in [Commands -> Styles]
    /\ options \in [Commands -> [reload : BOOLEAN, link : BOOLEAN]]
    /\ read \in [Commands -> File]
    /\ holds \in [Commands -> BOOLEAN]
    /\ \A c \in Commands : holds[c] => pc[c] = "include" /\ file.form = "file"
    /\ alone \in [Commands -> BOOLEAN]
    /\ overlapped \in BOOLEAN
    /\ runs \in 0..MaxRuns /\ kills \in 0..MaxKills

\* A command that ran alone, and ends saying that it has set the style or that
\* it was set already, leaves a file that names that style, in whatever state
\* earlier commands, killed or overlapping, have left it.  (Not so for openbox
\* and pekwm when the style is named elsewhere in the file, or there is no line
\* that they replace.)
SetMeansSet ==
    [][ \A c \in Commands :
          (/\ Running(c) /\ alone[c] /\ pc'[c] \in {"set", "already"}
           /\ way = "edit" =>
                 Replaceable(read'[c]) /\ want[c] \notin read'[c].strays)
              => file'.style = want[c] ]_vars

\* However the commands overlap, as long as none is killed the file that they
\* leave names a style when they are done, unless it did not when they began
\* and all of them failed.  (Not so for openbox and pekwm, whose line is lost
\* to a command that reads the file while another has it truncated.)
StyleSurvives ==
    (AtRest /\ kills = 0 /\ way # "edit" /\ \E c \in Commands : pc[c] = "set")
        => file.style # NoStyle

\* Only commands that overlap write into the file of a style, following a link
\* the other has made.
StylesKept == ~overlapped => damaged = {}

\* When every command is given --reload and none is killed, a manager that can
\* be asked to comes to show the style that the file names, however the
\* commands overlap.  (Not so for icewm, openbox and pekwm, which are asked to reload
\* before the file is written.)
AgreesInTheEnd ==
    [](kills = 0 /\ reachable /\ ~Rewrites
         /\ \A c \in Commands : options[c].reload)
        => <>[](shown = IF file.style = NoStyle THEN SystemStyle ELSE file.style)
=============================================================================
