------------------------------ MODULE WmDetect ------------------------------
(***************************************************************************)
(* How libxde finds out which window manager runs on a screen: the steps   *)
(* of xde_check_wm (src/src/xde.c), each a round trip to the X server or a *)
(* walk of /proc, between which managers start, resign, linger and end;    *)
(* and what the recheck publishes about it on the root window when         *)
(* something changed (xde_recheck_wm, xde_set_properties_on).              *)
(*                                                                         *)
(* The windows whose properties are read are those that find_wm_comp saw:  *)
(* the check windows of one manager, which die with its rule, and the      *)
(* root, where the library itself has published the record before.  Words  *)
(* are in lower case, as check_name leaves them.  A program says on its    *)
(* windows                                                                 *)
(*   texts    _NET_WM_NAME, WM_NAME, and the two parts of WM_CLASS, each a *)
(*            sequence of words                                            *)
(*   command  WM_COMMAND: none, or bare, or with a path                    *)
(*   host     WM_CLIENT_MACHINE, compared with the name of this host: the  *)
(*            same; its short form; a longer form; near, a proper prefix   *)
(*            that stops one character before a dot; or other              *)
(*   pid      none, _NET_WM_PID, or a property of its own                  *)
(*   check    the noticeboard of WindowMaker or the MWM hints              *)
(* and has in /proc its name comm, and in its environment DISPLAY (here:   *)
(* ours) and HOSTNAME.  A remote program is not in our /proc.              *)
(***************************************************************************)
EXTENDS Integers, Sequences, FiniteSets, StylePlugins

CONSTANTS
    Programs,       \* the managers there are
    Later,          \* those that may start while a check runs
    Ids,            \* process ids, which /proc lists in order
    Statuses,       \* words somebody may have made the name of the root
    OwnHostname,    \* HOSTNAME in our own environment
    MaxChanges      \* bound: managers that start, resign or end

NoName == ""
NoId == 0
NoProgram == [comm |-> NoName]
Hosts == {"none", "same", "short", "long", "near", "other"}

ASSUME DetectAssumption ==
    /\ \A p \in Programs :
          /\ p.texts \in [1..4 -> Seq(STRING)]
          /\ p.command \in {"none", "bare", "path"}
          /\ p.host \in Hosts /\ p.hostname \in Hosts
          /\ p.pid \in {"none", "net", "own"}
          /\ p.check \in {"none", "maker", "motif"}
          /\ p.here \in BOOLEAN /\ p.remote \in BOOLEAN
    /\ NoProgram \notin Programs
    /\ Later \subseteq Programs
    /\ Ids \subseteq Nat \ {NoId} /\ IsFiniteSet(Ids)
    /\ OwnHostname \in Hosts
    /\ MaxChanges \in Nat

VARIABLES
    program,        \* what each process runs, NoProgram before it starts
    alive,          \* the processes that run
    owner,          \* the process that manages the screen
    left,           \* a dead manager left the MWM hints on the root
    root,           \* the properties of the root window
    changes,        \* changes so far, of the managers
    pc,             \* where the check is
    seen,           \* the manager whose windows find_wm_comp found
    began,          \* changes when the check began
    rec,            \* the WindowManager record
    old             \* what the last check recorded, of what is compared

worldVars == <<program, alive, owner, left, changes>>
checkVars == <<root, pc, seen, began, rec, old>>
vars == <<worldVars, checkVars>>

Untitled == << << >>, << >>, << >>, << >> >>
Blank == [there |-> FALSE, win |-> NoId, maker |-> FALSE, motif |-> FALSE,
          name |-> NoName, host |-> "none", pid |-> NoId, command |-> NoName,
          argv |-> FALSE, class |-> NoName, ops |-> NoManager]
BareRoot == [name |-> NoName, host |-> "none", pid |-> NoId,
             command |-> NoName, class |-> NoName]

Init ==
    /\ \E i \in Ids, p \in Programs :
          /\ program = [j \in Ids |-> IF j = i THEN p ELSE NoProgram]
          /\ alive = {i}
          /\ owner = i
    /\ left \in BOOLEAN
    /\ \E name \in Statuses \cup {NoName} : root = [BareRoot EXCEPT !.name = name]
    /\ changes = 0
    /\ pc = "comp" /\ seen = NoId /\ began = 0 /\ rec = Blank /\ old = Blank

(***************************************************************************)
(* The managers.                                                           *)
(***************************************************************************)
Change ==
    /\ changes < MaxChanges
    /\ changes' = changes + 1
    /\ UNCHANGED checkVars

\* A manager takes over; the one before it resigns and may stay for a while.
Start(i, p) ==
    /\ Change
    /\ program[i] = NoProgram
    /\ program' = [program EXCEPT ![i] = p]
    /\ alive' = alive \cup {i}
    /\ owner' = i
    /\ UNCHANGED left

\* A process ends.  The hints of a Motif manager that crashes stay.
End(i) ==
    /\ Change
    /\ i \in alive
    /\ alive' = alive \ {i}
    /\ owner' = IF owner = i THEN NoId ELSE owner
    /\ left' \in {left, left \/ (owner = i /\ program[i].check = "motif")}
    /\ UNCHANGED program

(***************************************************************************)
(* The check.                                                              *)
(***************************************************************************)
Step(from, to) ==
    /\ pc = from /\ pc' = to
    /\ UNCHANGED <<worldVars, root, began, old>>

\* What the windows that were found say now: nothing when they have died.
Says(field, otherwise) ==
    IF seen # NoId /\ seen = owner THEN program[seen][field] ELSE otherwise

\* The root is one of the windows when somebody redirected it.
RootSays(field) == (IF seen # NoId THEN root ELSE BareRoot)[field]

\* A manager that says nothing at all has no window of its own.
HasWindow(p) ==
    \/ p.texts # Untitled \/ p.command # "none" \/ p.host # "none"
    \/ p.pid # "none" \/ p.check # "none"

\* find_wm_comp: the root is redirected or names a check window.  Only the
\* noticeboard must exist; the hints are taken as they are.
FindComp ==
    /\ Step("comp", IF owner # NoId \/ left THEN "name" ELSE "publish")
    /\ seen' = owner
    /\ LET check == IF owner # NoId THEN program[owner].check ELSE "none"
           window == owner # NoId /\ HasWindow(program[owner])
       IN  rec' = [Blank EXCEPT !.there = owner # NoId \/ left,
                                !.win = IF window THEN owner ELSE NoId,
                                !.maker = check = "maker",
                                !.motif = check = "motif" \/ left]

First(ids) == CHOOSE i \in ids : \A j \in ids : i <= j

\* Of several places where the answer may be, the first that has one is taken.
FirstSaid(none, places) ==
    LET answered == {k \in DOMAIN places : places[k] # none} IN
    IF answered = {} THEN none ELSE places[First(answered)]

\* check_name on a window: the first word of the first text that has one.
FirstWord(texts) ==
    LET text == FirstSaid(<< >>, texts) IN
    IF text = << >> THEN NoName ELSE Head(text)

\* WM_COMMAND of the windows.  strrchr(3) leaves the slash of a path in
\* front, and no manager is called that.
Slashed == "/"
CommandSays ==
    CASE Says("command", "none") = "bare" -> program[seen].comm
      [] Says("command", "none") = "path" -> Slashed
      [] OTHER -> NoName

\* The check windows are asked before the root; but a check window without
\* a name or a command is given the command of the root.
CheckName ==
    LET window == rec.win # NoId \/ rec.motif IN
    FirstSaid(NoName,
        <<FirstWord(Says("texts", Untitled)), CommandSays,
          IF window THEN root.command ELSE NoName,
          RootSays("name"), RootSays("class"), RootSays("command")>>)

\* Another name for who gives an odd one, and one for who gives none.
Corrected(name) ==
    CASE name = "workspacemanager" -> "ctwm"
      [] name = "w" -> "wmx"
      [] name = "mu-wm" -> "uwm"
      [] OTHER -> name

Renamed(name) ==
    CASE name = NoName /\ rec.maker -> "wmaker"
      [] name = NoName /\ rec.motif /\ ~rec.maker -> "mwm"
      [] OTHER -> Corrected(name)

FindName ==
    /\ Step("name", "host")
    /\ rec' = [rec EXCEPT !.name = Renamed(CheckName)]
    /\ UNCHANGED seen

FindHost_Empty_Fault ==
    /\ Step("host", "pid")
    /\ rec' = [rec EXCEPT !.host = Says("host", "")]
    /\ UNCHANGED seen

FindHost ==
    /\ Step("host", "pid")
    /\ LET said == Says("host", "none") IN
       rec' = [rec EXCEPT !.host = IF said # "none" THEN said
                                   ELSE RootSays("host")]
    /\ UNCHANGED seen

\* check_same_host returns the host unless it is ours.  The first test looks
\* one character past the dot, the second repeats the condition of the first.
Elsewhere_Never_Fault(host) == FALSE

Elsewhere(host) == host \notin {"none", "same", "near"}

\* check_pid: the properties of their own are asked for by name.
OwnPid(name) == name \in {"fluxbox", "openbox", "i3"}

FindPid ==
    /\ Step("pid", "comm")
    /\ LET given == Says("pid", "none") IN
       rec' = [rec EXCEPT !.pid =
                  IF given = "net" \/ (given = "own" /\ OwnPid(rec.name))
                  THEN seen ELSE RootSays("pid")]
    /\ UNCHANGED seen

FindComm ==
    /\ Step("comm", "proc")
    /\ rec' = [rec EXCEPT !.command = IF CommandSays # NoName THEN CommandSays
                                      ELSE RootSays("command")]
    /\ UNCHANGED seen

wm_list ==
    {"2bwm", "adwm", "aewm", "afterstep", "awesome", "blackbox", "bspwm",
     "ctwm", "cwm", "dtwm", "dwm", "e16", "echinus", "ede", "etwm",
     "evilwm", "failsafewm", "fluxbox", "flwm", "fvwm", "herbstluftwm",
     "i3", "icewm", "jwm", "kwm", "matwm2", "mcwm", "metacity", "mutter",
     "mwm", "openbox", "pawm", "pekwm", "perlwm", "spectrwm", "twm",
     "twobwm", "uwm", "velox", "vtwm", "waimea", "wind", "wm2", "wmaker",
     "wmii", "wmx", "xdwm", "xfwm", "yeahwm"}

\* The processes of /proc with one of these names and our DISPLAY.
Listed(names) ==
    {i \in alive : /\ ~program[i].remote
                   /\ program[i].here
                   /\ program[i].comm \in names}

\* find_wm_proc, for a manager of this host: with a name and no pid, the
\* process is looked for by the name (find_wm_proc_by_name).
ByName_Skipped_Fault(r) == r

ByName(r) ==
    IF \/ Elsewhere(r.host) \/ r.name = NoName \/ r.pid # NoId
       \/ Listed({r.name}) = {}
    THEN r
    ELSE [r EXCEPT !.pid = First(Listed({r.name}))]

\* With both by now, the process is checked; with neither, or when none has
\* the name, another walk of /proc looks for any manager.  A pid without a
\* name is left as it is: the branch for it asks for a name as well.
FindProc ==
    /\ Step("proc", CASE Elsewhere(rec.host) -> "class"
                      [] rec.name = NoName /\ rec.pid # NoId -> "class"
                      [] ByName(rec).pid # NoId -> "check"
                      [] OTHER -> "any")
    /\ rec' = ByName(rec)
    /\ UNCHANGED seen

\* find_wm_proc_any: not for a record with a host, even if it is ours.
ProcAny_KeepsName_Fault(r) ==
    IF r.host # "none" \/ r.pid # NoId \/ Listed(wm_list) = {} THEN r
    ELSE [r EXCEPT !.pid = First(Listed(wm_list))]

ProcAny(r) ==
    IF r.host # "none" \/ r.pid # NoId \/ Listed(wm_list) = {} THEN r
    ELSE LET i == First(Listed(wm_list))
         IN  [r EXCEPT !.pid = i, !.name = program[i].comm]

FindAny ==
    /\ Step("any", IF ProcAny(rec).pid # NoId THEN "check" ELSE "class")
    /\ rec' = ProcAny(rec)
    /\ UNCHANGED seen

\* check_proc: the arguments and the environment of the process, which may
\* name the host.  A pid that is not in our /proc has neither.
Checked(r) ==
    LET local == r.pid \in alive /\ ~program[r.pid].remote
        its == IF local THEN program[r.pid].hostname ELSE "none"
        host == FirstSaid("none", <<its, OwnHostname, r.host, "same">>)
    IN  IF r.name = NoName \/ Elsewhere(r.host) \/ r.pid = NoId THEN r
        ELSE [r EXCEPT !.argv = local, !.host = host]

CheckProc ==
    /\ Step("check", "class")
    /\ rec' = Checked(rec)
    /\ UNCHANGED seen

\* find_wm_clas: WM_CLASS of the windows, else the name.
FindClass ==
    /\ Step("class", "ops")
    /\ LET texts == Says("texts", Untitled)
           said == <<FirstWord(<<texts[3], texts[4]>>), RootSays("class"), rec.name>>
       IN  rec' = [rec EXCEPT !.class = FirstSaid(NoName, said)]
    /\ UNCHANGED seen

\* get_wm_ops: the plugin of that name.
GetOps ==
    /\ Step("ops", "publish")
    /\ rec' = [rec EXCEPT !.ops = PluginOf(rec.name)]
    /\ UNCHANGED seen

(***************************************************************************)
(* xde_recheck_wm, after the check: wm_changed is called when one of these *)
(* is not what it was, and writes the record on the root, over what a      *)
(* manager wrote there; or, when no manager is left, nothing.              *)
(***************************************************************************)
Compared(r) == [Blank EXCEPT !.there = r.there, !.win = r.win,
                             !.maker = r.maker, !.motif = r.motif,
                             !.pid = r.pid, !.name = r.name, !.host = r.host]

\* WM_COMMAND when the windows had it, else the command line, which names
\* the program with a path or without.
Commands ==
    CASE rec.command # NoName -> {rec.command}
      [] rec.command = NoName /\ rec.argv -> {program[rec.pid].comm, Slashed}
      [] OTHER -> {NoName}

\* Each record is compared with the first.
Publish_OldKept_Fault ==
    /\ pc = "publish" /\ pc' = "done"
    /\ old' = IF old = Blank THEN Compared(rec) ELSE old
    /\ IF old = Compared(rec) THEN root' = root
       ELSE \E command \in Commands :
               root' = [name |-> rec.name, host |-> rec.host, pid |-> rec.pid,
                        command |-> command, class |-> rec.class]
    /\ UNCHANGED <<worldVars, seen, began, rec>>

Publish ==
    /\ pc = "publish" /\ pc' = "done"
    /\ old' = Compared(rec)
    /\ IF old = Compared(rec) THEN root' = root
       ELSE \E command \in Commands :
               root' = [name |-> rec.name, host |-> rec.host, pid |-> rec.pid,
                        command |-> command, class |-> rec.class]
    /\ UNCHANGED <<worldVars, seen, began, rec>>

\* The next check of this screen.
Recheck ==
    /\ pc = "done" /\ pc' = "comp"
    /\ began' = changes
    /\ seen' = NoId
    /\ rec' = Blank
    /\ UNCHANGED <<worldVars, root, old>>

Next ==
    \/ \E i \in Ids, p \in Later : Start(i, p)
    \/ \E i \in Ids : End(i)
    \/ FindComp \/ FindName \/ FindHost \/ FindPid \/ FindComm
    \/ FindProc \/ FindAny \/ CheckProc
    \/ FindClass \/ GetOps \/ Publish \/ Recheck

Spec == Init /\ [][Next]_vars

(***************************************************************************)
(* Properties.                                                             *)
(***************************************************************************)
FirstWords(p) == {Head(t) : t \in {p.texts[k] : k \in 1..4} \ {<< >>}}

Words ==
    {p.comm : p \in Programs} \cup wm_list \cup Statuses \cup
    {NoName, Slashed} \cup UNION {FirstWords(p) : p \in Programs}

\* Every variable has its type; in particular the record holds a known host
\* form, and a process or none, whatever changes between two steps.
TypeOK ==
    LET started == {i \in Ids : program[i] # NoProgram} IN
    /\ program \in [Ids -> Programs \cup {NoProgram}]
    /\ alive \subseteq started
    /\ owner \in alive \cup {NoId}
    /\ left \in BOOLEAN
    /\ changes \in 0..MaxChanges /\ began \in 0..changes
    /\ pc \in {"comp", "name", "host", "pid", "comm", "proc", "any", "check",
              "class", "ops", "publish", "done"}
    /\ seen \in started \cup {NoId}
    /\ \A r \in {root, rec} :
          /\ r.host \in Hosts
          /\ r.pid \in started \cup {NoId}
          /\ {r.name, r.class, r.command} \subseteq Words
    /\ \A r \in {rec, old} :
          /\ r.there \in BOOLEAN /\ r.maker \in BOOLEAN /\ r.motif \in BOOLEAN
          /\ r.win \in started \cup {NoId}
    /\ rec.argv \in BOOLEAN /\ rec.ops \in Plugins
    /\ old = Compared(old)

\* The name the manager gives itself is that of its process, once the odd
\* names are corrected.
SaysItsName(p) ==
    LET word == FirstWord(p.texts) IN word # NoName /\ Corrected(word) = p.comm

\* It gives its pid in a property that check_pid knows.
SaysItsPid(p) == p.pid = "net" \/ (p.pid = "own" /\ OwnPid(p.comm))

\* No other manager lingers in /proc.
Alone(i) == \A j \in alive \ {i} : program[j].remote

\* A manager of this host that says its name and its pid; or its name, no
\* other process could be taken for it, and the root is not there to
\* contradict; or one that says neither its pid nor its host (so that another
\* name, like LG3D, is corrected), is a known manager with no other around,
\* and nothing was published before.
Identifiable(i) ==
    LET p == program[i]
        alone == Alone(i) /\ p.here
        unpublished == [root EXCEPT !.name = NoName] = BareRoot
    IN  /\ ~p.remote
        /\ p.host = "same" \/ (p.host = "none" /\ ~Elsewhere(root.host))
        /\ \/ SaysItsName(p) /\ SaysItsPid(p)
           \/ SaysItsName(p) /\ alone /\ root.pid \in {NoId, i}
           \/ /\ p.pid = "none" /\ p.host = "none"
              /\ p.comm \in wm_list /\ alone /\ unpublished

\* A check (xde_check_wm) during which nothing changes identifies a manager
\* that can be, and so gives it the operations of its plugin.
Identified ==
    pc = "publish" /\ changes = began /\ owner # NoId /\ Identifiable(owner)
    => LET p == program[owner] IN
       /\ rec.name = p.comm /\ rec.pid = owner /\ rec.argv
       /\ rec.ops = PluginOf(p.comm)

\* Whatever changes during the check, a pid that find_wm_proc took from /proc
\* and not from a window is that of a process with the name of the record;
\* and none is taken for a manager that was there all the time and says that
\* it runs on another machine.
WhoseProcess ==
    pc \in {"check", "class", "ops", "publish"} /\ rec.pid \notin {NoId, seen, root.pid}
    => /\ program[rec.pid].comm = rec.name /\ ~program[rec.pid].remote
       /\ changes = began /\ seen # NoId => program[seen].host # "other"

\* What a check writes on the root changes what the next check reads there, and
\* every check that finds a change leads to another (handle_NET_WM_NAME and its
\* like): when the managers no longer change, there is a check after which none
\* finds a change any more.
FeedbackEnds == <>[][pc = "publish" => old = Compared(rec)]_vars

\* The comment in find_wm_proc says that its approach to a manager without a
\* pid "should also automagically handle some other crazyness in naming":
\* every check of a known manager of this host with no other around, during
\* which nothing changes, gives it its own name.
NamingHandled ==
    LET p == program[owner] IN
    (/\ pc = "publish" /\ changes = began /\ owner # NoId
     /\ ~p.remote /\ p.here /\ p.pid = "none" /\ p.host = "none"
     /\ p.comm \in wm_list /\ Alone(owner))
    => rec.name = p.comm
=============================================================================
