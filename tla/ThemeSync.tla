------------------------------ MODULE ThemeSync ------------------------------
(***************************************************************************)
(* How the theme of one screen follows the style of its window manager,    *)
(* while a daemon, the manager and the command line tools change both:     *)
(* xde_recheck_wm, xde_check_theme, xde_get_theme, theme_replace and       *)
(* xde_set_theme of xde.c, wm_theme_changed and wm_style_changed of        *)
(* xde-watch.c, set_style of xde-style.c, and xde-identify.                *)
(*                                                                         *)
(* Nothing is locked.  The style is in files of the manager, read each     *)
(* time it is asked for.  The theme is the style when the style is a       *)
(* theme's, else what the root window's _XDE_THEME_NAME says, else what    *)
(* ~/.gtkrc-2.0.xde says; whoever finds one that is new to it writes it    *)
(* back to _XDE_THEME_NAME, which every daemon is notified of.             *)
(*                                                                         *)
(* A check of the manager that finds it changed writes its name, host, pid *)
(* and command on the root window.  The check is itself a reader of these, *)
(* and every daemon, the writer too, defers another when they are written. *)
(* How a check comes to its record is in WmDetect; here a record is of a   *)
(* manager, and of what was on the root when it was made.                  *)
(***************************************************************************)
EXTENDS Naturals, Sequences

CONSTANTS
    Daemons,        \* those whose main loop runs on this screen
    Clients,        \* runs of xde-style --set --theme --reload, or xde-identify
    Flushing,       \* clients of a manager whose reload_style flushes Xlib
    Themes,         \* names of XDE themes
    Styles,         \* names of the styles of the manager
    SystemStyle,    \* the style in force when the user's file is missing
    NoTheme,
    Beginnings,     \* who there may be, and what each may find there
    MaxEchoes,      \* checks after the first that find something new on the root
    MaxChanges      \* bound: styles changed by the manager itself

ASSUME ThemeAssumption ==
    /\ Daemons \cap Clients = {}
    /\ Flushing \subseteq Clients
    /\ SystemStyle \in Styles
    /\ NoTheme \notin Themes \cup Styles
    /\ MaxEchoes \in Nat
    /\ MaxChanges \in Nat
    /\ Beginnings \subseteq
          [who     : SUBSET (Daemons \cup Clients),
           style   : Styles,
           prop    : Themes \cup {NoTheme},
           rc      : Themes \cup {NoTheme},
           changes : 0..MaxChanges]

VARIABLES
    style,          \* the style the manager's files name
    reloading,      \* the manager has still to act on a change of it
    changes,        \* styles that the manager may change by itself yet
    manager,        \* which process is the manager
    prop,           \* _XDE_THEME_NAME of the root window
    root,           \* the record of the manager published on the root window
    rc,             \* gtk-theme-name of ~/.gtkrc-2.0.xde
    news,           \* what each daemon has been sent and not yet handled
    asked,          \* checks that are in the lists of deferred actions
    pc,             \* where each process is
    theme,          \* its scr->theme
    found,          \* in xde_get_theme, the theme it has found
    record,         \* a daemon's wm: what xde_recheck_wm compares of it
    changed,        \* it differs from the one before, in this check
    replaced,       \* theme_replace has changed scr->theme in this check
    shown,          \* the theme that the callbacks have published last
    want,           \* the theme a client sets; NoTheme for xde-identify
    out             \* what a client has written to Xlib's output buffer

managerVars == <<style, reloading, changes, manager>>
serverVars == <<prop, root, news>>
clientVars == <<rc, want, out>>
checkVars == <<changed, replaced>>
daemonVars == <<asked, record, checkVars, shown>>
vars == <<managerVars, serverVars, clientVars, daemonVars, pc, theme, found>>

Processes == Daemons \cup Clients

Check == {"theme", "wm"}

Record == [manager : Nat, echoes : 0..MaxEchoes]
NoRecord == [manager |-> 0, echoes |-> 0]

Rename(t) == [type |-> "name", theme |-> t]
ReadRcfiles == [type |-> "message", theme |-> NoTheme]
Request == [type : {"name"}, theme : Themes] \cup {ReadRcfiles}

-----------------------------------------------------------------------------
\* do_startup: the first thing a daemon does is xde_recheck_wm.
Init ==
    /\ \E b \in Beginnings :
          /\ pc = [p \in Processes |-> IF p \notin b.who THEN "off"
                                      ELSE IF p \in Daemons THEN "idle" ELSE "start"]
          /\ style = b.style /\ prop = b.prop /\ rc = b.rc /\ changes = b.changes
    /\ reloading = FALSE
    /\ manager = 1
    /\ root = NoRecord
    /\ news = [d \in Daemons |-> {}]
    /\ asked = [d \in Daemons |-> {"wm"}]
    /\ theme = [p \in Processes |-> NoTheme]
    /\ found = [p \in Processes |-> NoTheme]
    /\ record = [d \in Daemons |-> NoRecord]
    /\ changed = [d \in Daemons |-> FALSE]
    /\ replaced = [d \in Daemons |-> FALSE]
    /\ shown = [d \in Daemons |-> NoTheme]
    /\ want = [c \in Clients |-> NoTheme]
    /\ out = [c \in Clients |-> << >>]

Goto(p, place) == pc' = [pc EXCEPT ![p] = place]

\* PropertyNotify for _XDE_THEME_NAME, or _GTK_READ_RCFILES: the one who
\* caused it is told too.
Notify(check) ==
    news' = [d \in Daemons |-> IF pc[d] = "off" THEN {} ELSE news[d] \cup {check}]

\* Deleting a property that is not there notifies nobody.
SetName(t) ==
    /\ prop' = t /\ UNCHANGED root
    /\ IF t \in Themes \/ prop \in Themes THEN Notify("theme") ELSE UNCHANGED news
KeepName == UNCHANGED serverVars

(***************************************************************************)
(* The window manager.                                                     *)
(***************************************************************************)
\* A style chosen from the manager's own menu, or another manager.
ChangeStyle ==
    /\ changes > 0
    /\ changes' = changes - 1
    /\ style' \in Styles \ {style}
    /\ reloading' = TRUE
    /\ UNCHANGED <<manager, serverVars, clientVars, daemonVars, pc, theme, found>>

\* It takes the style into use.  The rootCommand of a style changes _BB_THEME
\* or ESETROOT_PMAP_ID; a manager that starts again changes the properties that lead
\* to a check of the manager, in the same process or in another.
Reloads ==
    /\ reloading
    /\ reloading' = FALSE
    /\ \/ Notify("theme") /\ UNCHANGED manager
       \/ Notify("wm") /\ manager' \in {manager, manager + 1}
    /\ UNCHANGED <<style, changes, prop, root, clientVars, daemonVars, pc, theme, found>>

(***************************************************************************)
(* xde_get_theme, by whatever process.                                     *)
(***************************************************************************)
\* xde_get_style reads the files.
GetStyle(p) ==
    /\ pc[p] = "get"
    /\ IF style \in Themes
       THEN Goto(p, "replace") /\ found' = [found EXCEPT ![p] = style]
       ELSE Goto(p, "name") /\ UNCHANGED found
    /\ UNCHANGED <<managerVars, serverVars, clientVars, daemonVars, theme>>

\* Where xde_get_theme returns to.
Return(p) ==
    IF p \in Daemons           THEN "publish"
    ELSE IF want[p] = NoTheme   THEN "exit"
    ELSE IF want[p] = theme'[p] THEN "find"
    ELSE "rc"

Named == IF prop \in Themes THEN prop ELSE rc

\* The property, then the files of GTK.
GetName(p) ==
    /\ pc[p] = "name"
    /\ UNCHANGED theme
    /\ IF Named \in Themes
       THEN Goto(p, "replace") /\ found' = [found EXCEPT ![p] = Named]
       ELSE Goto(p, Return(p)) /\ UNCHANGED found
    /\ UNCHANGED <<managerVars, serverVars, clientVars, daemonVars>>

\* string_compare(theme, scr->theme)
Differs(p) == found[p] # theme[p]

\* theme_replace.  A client's request waits in the output buffer of Xlib.
Replace(p) ==
    /\ pc[p] = "replace"
    /\ theme' = [theme EXCEPT ![p] = found[p]]
    /\ found' = [found EXCEPT ![p] = NoTheme]
    /\ replaced' = [d \in Daemons |-> IF d = p THEN Differs(d) ELSE replaced[d]]
    /\ Goto(p, Return(p))
    /\ IF ~Differs(p)         THEN UNCHANGED <<serverVars, out>>
       ELSE IF p \in Daemons  THEN SetName(found[p]) /\ UNCHANGED out
       ELSE out' = [out EXCEPT ![p] = Append(@, Rename(found[p]))] /\ KeepName
    /\ UNCHANGED <<managerVars, rc, want, asked, record, changed, shown>>

(***************************************************************************)
(* The daemon.                                                             *)
(***************************************************************************)
Handle_Running_Fault(d) ==
    /\ news[d] # {}
    /\ asked' = IF pc[d] = "idle"
                THEN [asked EXCEPT ![d] = @ \cup news[d]]
                ELSE asked
    /\ news' = [news EXCEPT ![d] = {}]
    /\ UNCHANGED <<managerVars, prop, root, clientVars, record, checkVars, shown,
                   pc, theme, found>>

\* handle_XDE_THEME_NAME, handle_GTK_READ_RCFILES, handle_BB_THEME and the
\* others: xde_defer_once drops what is deferred already.
Handle(d) ==
    /\ pc[d] = "idle"
    /\ news[d] # {}
    /\ asked' = [asked EXCEPT ![d] = @ \cup news[d]]
    /\ news' = [news EXCEPT ![d] = {}]
    /\ UNCHANGED <<managerVars, prop, root, clientVars, record, checkVars, shown,
                   pc, theme, found>>

\* xde_check_theme.  Its first call, xde_check_style, publishes the style in
\* properties that nobody is notified of.
CheckTheme(d) ==
    /\ pc[d] = "idle"
    /\ "theme" \in asked[d]
    /\ asked' = [asked EXCEPT ![d] = @ \ {"theme"}]
    /\ Goto(d, "get")
    /\ UNCHANGED <<managerVars, serverVars, clientVars, record, checkVars, shown,
                   theme, found>>

\* What a check finds: a manager it has not seen on the root before gives one
\* record, what it has published of that is taken back by the next, and so on
\* until nothing is new (WmDetect!FeedbackEnds).
Checked ==
    [manager |-> manager,
     echoes  |-> IF root.manager # manager THEN 0
                 ELSE IF root.echoes < MaxEchoes THEN root.echoes + 1
                 ELSE MaxEchoes]

Changed_Unasked_Fault(d) == TRUE

\* The comparison of the two records: a first one is always a change.
Changed(d) == Checked # record[d]

\* xde_recheck_wm up to xde_get_theme.
Recheck(d) ==
    /\ pc[d] = "idle"
    /\ "wm" \in asked[d]
    /\ asked' = [asked EXCEPT ![d] = @ \ {"wm"}]
    /\ record' = [record EXCEPT ![d] = Checked]
    /\ changed' = [changed EXCEPT ![d] = Changed(d)]
    /\ Goto(d, "get")
    /\ UNCHANGED <<managerVars, serverVars, clientVars, replaced, shown, theme, found>>

\* The locals of the two functions.
CheckDone(d) ==
    /\ changed' = [changed EXCEPT ![d] = FALSE]
    /\ replaced' = [replaced EXCEPT ![d] = FALSE]

\* What follows xde_get_theme: wm_changed publishes the record on the root.
Publish(d) ==
    /\ pc[d] = "publish"
    /\ IF changed[d] THEN root' = record[d] /\ Notify("wm")
                     ELSE UNCHANGED <<root, news>>
    /\ Goto(d, IF changed[d] \/ replaced[d] THEN "announce" ELSE "idle")
    /\ CheckDone(d)
    /\ UNCHANGED <<managerVars, prop, clientVars, asked, record, shown, theme, found>>

\* wm_theme_changed: first _XDE_WM_THEME and _GTK_READ_RCFILES ...
Announce(d) ==
    /\ pc[d] = "announce"
    /\ shown' = [shown EXCEPT ![d] = theme[d]]
    /\ Notify("theme")
    /\ Goto(d, "rename")
    /\ UNCHANGED <<managerVars, prop, root, clientVars, asked, record,
                   checkVars, theme, found>>

\* ... and then _XDE_THEME_NAME, which is deleted when there is no theme.
WriteName(d) ==
    /\ pc[d] = "rename"
    /\ SetName(theme[d])
    /\ Goto(d, "idle")
    /\ UNCHANGED <<managerVars, clientVars, daemonVars, theme, found>>

DaemonNext(d) ==
    \/ Handle(d)
    \/ CheckTheme(d)
    \/ Recheck(d)
    \/ GetStyle(d)
    \/ GetName(d)
    \/ Replace(d)
    \/ Publish(d)
    \/ Announce(d)
    \/ WriteName(d)

(***************************************************************************)
(* The command line tools.                                                 *)
(***************************************************************************)
ClientUnchanged == UNCHANGED <<daemonVars, found>>

Start_Unchecked_Fault(c) ==
    /\ pc[c] = "start"
    /\ \E t \in {NoTheme} \cup Themes \cup Styles :
         /\ want' = [want EXCEPT ![c] = t]
         /\ Goto(c, "get")
    /\ UNCHANGED <<managerVars, serverVars, rc, out, theme>>
    /\ ClientUnchanged

\* xde-identify, or xde-style for a name that may be a theme, a style or both:
\* xde_set_theme gives up at once on what is no theme.
Start(c) ==
    /\ pc[c] = "start"
    /\ \E t \in {NoTheme} \cup Themes \cup Styles :
         /\ want' = [want EXCEPT ![c] = t]
         /\ Goto(c, IF t \in {NoTheme} \cup Themes THEN "get" ELSE "find")
    /\ UNCHANGED <<managerVars, serverVars, rc, out, theme>>
    /\ ClientUnchanged

\* xde_set_theme, when xde_get_theme found another: the file, which is all if it
\* cannot be opened ...
WriteRc(c) ==
    /\ pc[c] = "rc"
    /\ \/ rc' = want[c] /\ Goto(c, "send")
       \/ UNCHANGED rc /\ Goto(c, "find")
    /\ UNCHANGED <<managerVars, serverVars, want, out, theme>>
    /\ ClientUnchanged

\* ... then the message and the property, through Xlib's buffer.
Send(c) ==
    /\ pc[c] = "send"
    /\ out' = [out EXCEPT ![c] = @ \o <<ReadRcfiles, Rename(want[c])>>]
    /\ Goto(c, "find")
    /\ UNCHANGED <<managerVars, serverVars, rc, want, theme>>
    /\ ClientUnchanged

\* find_style, and get_style: nothing to do for no style or the same style.
Find(c) ==
    /\ pc[c] = "find"
    /\ Goto(c, IF want[c] \in Styles \ {style} THEN "unlink" ELSE "exit")
    /\ UNCHANGED <<managerVars, serverVars, clientVars, theme>>
    /\ ClientUnchanged

\* xde_set_style_simple removes the file before it writes the new one.
Unlink(c) ==
    /\ pc[c] = "unlink"
    /\ style' = SystemStyle
    /\ Goto(c, "link")
    /\ UNCHANGED <<reloading, changes, manager, serverVars, clientVars, theme>>
    /\ ClientUnchanged

\* The new file, and reload_style.
Link(c) ==
    /\ pc[c] = "link"
    /\ style' = want[c]
    /\ reloading' = TRUE
    /\ Goto(c, "exit")
    /\ UNCHANGED <<changes, manager, serverVars, clientVars, theme>>
    /\ ClientUnchanged

\* Xlib writes its buffer when it is full or when a call waits for an answer.
Flush(c) ==
    /\ out[c] # << >>
    /\ IF Head(out[c]) = ReadRcfiles
       THEN Notify("theme") /\ UNCHANGED <<prop, root>>
       ELSE SetName(Head(out[c]).theme)
    /\ out' = [out EXCEPT ![c] = Tail(@)]
    /\ UNCHANGED <<managerVars, rc, want, pc, theme>>
    /\ ClientUnchanged

\* exit(3), which drops what is still in the buffer.
Exit(c) ==
    /\ pc[c] = "exit"
    /\ c \in Flushing => out[c] = << >>
    /\ out' = [out EXCEPT ![c] = << >>]
    /\ theme' = [theme EXCEPT ![c] = NoTheme]
    /\ Goto(c, "done")
    /\ UNCHANGED <<managerVars, serverVars, rc, want>>
    /\ ClientUnchanged

\* symlink(2) fails: the user's file is gone, the manager is not told, and
\* xde-style comes to its end.
LinkFails(c) ==
    /\ pc[c] = "link"
    /\ out' = [out EXCEPT ![c] = << >>]
    /\ theme' = [theme EXCEPT ![c] = NoTheme]
    /\ Goto(c, "failed")
    /\ UNCHANGED <<managerVars, serverVars, rc, want>>
    /\ ClientUnchanged

ClientNext(c) ==
    \/ Start(c)
    \/ GetStyle(c)
    \/ GetName(c)
    \/ Replace(c)
    \/ WriteRc(c)
    \/ Send(c)
    \/ Find(c)
    \/ Unlink(c)
    \/ Link(c)
    \/ LinkFails(c)
    \/ Flush(c)
    \/ Exit(c)

-----------------------------------------------------------------------------
Next ==
    \/ ChangeStyle
    \/ Reloads
    \/ \E d \in Daemons : DaemonNext(d)
    \/ \E c \in Clients : ClientNext(c)

Spec == Init /\ [][Next]_vars

\* A daemon's loop runs, a manager comes to its reload, a tool that has begun
\* ends.  Nobody need change the style or start a tool.
Fairness ==
    /\ WF_vars(Reloads)
    /\ \A d \in Daemons : WF_vars(DaemonNext(d))
    /\ \A c \in Clients : WF_vars(ClientNext(c) /\ ~Start(c))

FairSpec == Spec /\ Fairness

-----------------------------------------------------------------------------
DaemonPlace == {"off", "idle", "get", "name", "replace", "publish", "announce", "rename"}
ClientPlace == {"off", "start", "get", "name", "replace", "rc", "send", "find", "unlink",
                "link", "failed", "exit", "done"}

ManagerType ==
    /\ style \in Styles
    /\ reloading \in BOOLEAN
    /\ changes \in 0..MaxChanges
    /\ manager \in Nat

ServerType ==
    /\ prop \in Themes \cup {NoTheme}
    /\ root \in Record
    /\ news \in [Daemons -> SUBSET Check]

DaemonType ==
    /\ asked \in [Daemons -> SUBSET Check]
    /\ shown \in [Daemons -> Themes \cup {NoTheme}]
    /\ record \in [Daemons -> Record]

CheckType ==
    /\ changed \in [Daemons -> BOOLEAN]
    /\ replaced \in [Daemons -> BOOLEAN]

ClientType ==
    /\ rc \in Themes \cup {NoTheme}
    /\ want \in [Clients -> {NoTheme} \cup Themes \cup Styles]
    /\ out \in [Clients -> Seq(Request)]

ProcessType ==
    /\ theme \in [Processes -> Themes \cup {NoTheme}]
    /\ found \in [Processes -> Themes \cup {NoTheme}]
    /\ pc \in [Processes -> DaemonPlace \cup ClientPlace]
    /\ \A d \in Daemons : pc[d] \in DaemonPlace
    /\ \A c \in Clients : pc[c] \in ClientPlace

\* Every variable has a value of its type, and no process is in a place of the
\* other kind: xde-style sets nothing but themes (xde_set_theme), a daemon is
\* in one check at a time.
TypeOK ==
    /\ ManagerType /\ ServerType
    /\ DaemonType /\ CheckType
    /\ ClientType
    /\ ProcessType

\* The theme xde_get_theme is to find, as long as it is not left to the files.
Target == IF style \in Themes THEN style ELSE prop

Quiet(d) == news[d] = {} /\ asked[d] = {}

AtRest(d) == pc[d] = "idle" /\ Quiet(d)

\* A style is on its way to the manager, which will tell; or has got lost there.
StyleUnderWay == reloading \/ \E c \in Clients : pc[c] \in {"link", "failed"}

\* A daemon that has nothing left to do has the theme of the style, or of the
\* root window, and has published it: no notification of a change is lost
\* between the reads of xde_get_theme and xde_defer_once.
NeverStale ==
    ~StyleUnderWay /\ Target \in Themes =>
        \A d \in Daemons : AtRest(d) => theme[d] = Target /\ shown[d] = Target

\* What the daemons write on the root window in answer to what is written there
\* dies out: _XDE_THEME_NAME, as theme_replace writes only what is new to it, and
\* the record of the manager, as xde_recheck_wm publishes only what differs from
\* the last one.
Settles == <>[](\A d \in Daemons : AtRest(d) \/ pc[d] = "off")
=============================================================================
