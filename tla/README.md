# Specifications of libxde and its daemons

These modules model the part of `xde-theme` that its tests cannot reach: the
deferred actions and the event loop of `libxde`, how the library detects the
window manager of each screen and keeps track of it, how styles are found and set
through the plugins of the managers, how the theme follows the style, and the
election of the one daemon of a display. They are written from `src/src/xde.c`,
`src/src/xde.h`, `src/src/xde-watch.c`, `src/src/xde-style.c` and the plugins
`src/src/xde_*.c`. TLC checks them on small instances; TLAPS proves the theorems
of the `*Proofs` modules for all values of the constants.

    tlc  -config MCDeferQueue.cfg MCDeferQueue.tla
    tlapm DeferQueueProofs.tla

`PROJECT.json` has the runs, the source lines each definition stands for, the
hazards, the findings, and for each property a plausible mistake that breaks it
(the operators whose names end in `_Fault`; no specification uses one).

## The system

| part | state | operations | talks to |
|---|---|---|---|
| deferred actions (`xde.c` 5053-5279) | `deferred_wait` (sorted), `deferred_done`, a timerfd | `xde_defer_action`, `xde_defer_once`, `xde_process_timeouts`, `xde_process_deferred` | called by every event handler and by the actions themselves |
| main loop (`xde.c` 5154-5380) | `signum`, `shutting_down`, poll(2)'s result, Xlib's queue | `xde_main_loop`, `xde_process_xevents`, `xde_process_messages`, `xde_handle_signal`, `xde_main_quit` | X server, session manager, signals |
| window manager tracking (`xde.c` 98-158, 905-1236, 2136-2180, 3039-3145, 4963-4992, 5382-5480) | one reference-counted `WindowManager` per managing process, pointed to by `scr->wm` of each screen | `xde_recheck_wm`, `xde_check_wm`, the notifications that defer a check | X server, window managers, the deferred queue, the callbacks of the daemon |
| detection (`xde.c` 1240-2131) | fields of the record | `find_wm_name`, `find_wm_host`, `find_wm_pid`, `find_wm_proc`, `find_wm_clas`, `find_wm_prox` | X properties, `/proc` |
| root properties (`xde.c` 599-903, 2477-2890) | some forty properties of each root | `xde_set_properties`, `xde_del_properties` | X server, other daemons, toolkits |
| styles, menus, icons, themes (`xde.c` 3147-4457) | `scr->theme`, `wm->style...` | searching, listing, `xde_get_theme`, `xde_set_style`, `xde_set_theme` | plugins, files, `_XDE_THEME_NAME` |
| plugins (`xde_*.c`, 34) | `WmOperations` | where a manager keeps its files, how it reloads | files, signals |
| daemons (`xde-watch.c`, `xde-stylemon.c`, `xde-theme.c`, `xde-setbg.c`) | the selections `_XDE_DESKTOP_S<n>`, session connection | `do_run`, `do_quit`, `do_restart`, `do_recheck`, `wm_event`, SM callbacks | each other, through selections and client messages |
| `xde-backdrop.c` | desktops and their images | own event loop | X server |
| tools (`xde-style.c`, `xde-setwm.c`, `xde-detect.c`, `xde-identify.c`) | none | one pass over the library | X server, files |

What is hard here: everything runs in one thread whose handlers and actions
append to the lists being walked; time, signals, X events and session messages
arrive between any two of its steps; every round trip to the server moves events
to where poll(2) does not see them; global variables (`scr`, `wm`) carry the
screen of the last event to the next; window managers crash and leave their
properties behind; several daemons compete for the same selections.

What makes each part correct:

* deferred actions: invoked once, not early, in the end, and not piling up;
* main loop: no sleep on work that is ready, no lost wakeup, quits when told;
* tracking: exact reference counts, one record per process, properties that name
  the manager that is there, in the end on every screen;
* detection: the record is of one manager, the one that is there, and its process
  is that manager's;
* styles: what is listed is found, what is set is what the manager finds and what
  is read back, and the setting survives other commands and the end of this one;
* themes: a daemon ends up with the theme of the style or of the root window, and
  the programs that answer each other's writes come to rest;
* daemons: one per display, the replaced one learns it must go, a start ends.

## The modules

**DeferPromise** is the abstract specification: a set of actions owed, each
invoked once and not before it is due. No lists, no timer.

**DeferQueue** is the code: `wait` and `done` are the two lists, head first,
`timer` what the timerfd is set to, `clock` the monotonic clock as a timespec
whose `nsec` counts `TicksPerSec` ticks, `running` that `xde_process_deferred` is
inside the action of `Head(done)` (which is still linked then, as in the code),
`allocated` names the entries. Each routine is one action; `xde_process_deferred`
is two, `BeginDeferred` and `ActionReturns`, because actions call the other
routines in between. Kept from the code: `tv_nsec` is carried only when the sum
*exceeds* a second; an insertion among equal times goes first; a refused
`timerfd_settime` changes nothing; `xde_defer_once` searches `deferred_wait` only
for a delayed action and never looks at the screen. `Promise` instantiates
DeferPromise with the refinement mapping: an entry is owed while it is in either
list and is not the running one.

**MainLoop** extends DeferQueue with the thread (`pc`) of `xde_main_loop`. Each
system call or test is a step, so that what the server, the session manager, the
clock and signals do may fall between any two. `onWire` and `queued` are the X
events on the connection and in Xlib's queue: `PendingReads` (XPending),
`Sync` (XSync) and `RoundTrip` (any reply waited for) move them from the one to
the other, and poll(2) sees the first only. Handlers and actions may do what the
library lets them: defer, quit, make round trips. `late` counts the queued events
that the actions of this turn have read.

**WmTracking** has two sides. The server: who redirects each root (`manager`),
its `_NET_SUPPORTING_WM_CHECK` (`root`), the notifications on their way (`wire`).
The library: `tracked` (`scr->wm`), `heap` (the structures), `waiting` and
`ready` (the screens of the checks in the two deferred lists, which are one key of
DeferQueue), `cur` (the current screen), `published` (the properties). A check
reads the server in one step; the events it races with are handled before or
after. Of the six check windows of a record the EWMH one is modelled; the others
are found and compared by the same code.

**Instance** has several processes running `do_run` side by side: `owner` of each
selection, `pc` and `at` where each process is in the two loops over the
screens, `prev` the former owners it found (`scr->owner`), `gone` the
DestroyNotify events for them, `inbox` its SelectionClear and client messages.
The grab covers `Look` only; the claim is a step of its own, as in the code. A
message that is handled only notes what the loop is to return (`told`); the loop
returns when the queue is empty (`Return`), so that of several messages the last one
decides, and `Leave` or `Execute` is what do_run does with the value. A command looks
the owner up in one step (`FindOwner`) and sends to it in a later one (`Send`;
`letters` are those in between). The current screen when a message is handled is any
screen: it is left by whatever event or action came before. XDE_DESKTOP_ARGV is left
out, which nothing sends. The deletions of `xde_del_properties` are
not modelled: they stay in Xlib's output buffer, which exit(3) drops.

**ThemeSync** is one screen with its window manager, daemons and command line
tools. `style` is what the manager's files name, `prop` is `_XDE_THEME_NAME`, `rc`
the theme in the files of GTK; nothing locks any of them. A check of a daemon
(`xde_check_theme` or `xde_recheck_wm`) is a sequence of steps, one per
place where it reads or writes what others write: `CheckTheme` or `Recheck`,
`GetStyle` (the second read), `GetName`, `Replace` (`theme_replace`), `Publish` (the
comparison, and `wm_changed`), `Announce` and `WriteName` (the two halves of
`wm_theme_changed`). `manager` tells the managers that come one after the other
apart, `record` is what a daemon knows of it and `root` what `wm_changed` has
published. Every such write makes each daemon, the writer too, check the manager
again, and what is on the root is part of what the next check finds: that the
record may differ once more for what has been published is `echoes`. WmDetect has
what really happens there; `FeedbackEnds` says that it ends.
`news` are the notifications on their way to a daemon, `asked` the checks in its
deferred lists, where `xde_defer_once` keeps one of each. A tool is `xde-style`
(`want` is the name it sets) or `xde-identify` (`NoTheme`), with Xlib's output
buffer `out`: `Flush` sends the first request of it at any time, `Exit` drops the
rest. `reloading` is that the manager has yet to act on a change of its style; when
it does, the notifications its style sends (`_BB_THEME`, `ESETROOT_PMAP_ID`, ...)
reach the daemons. A window manager is taken to be there: without one, that a check is to
follow in two seconds is a matter of its own (see the disagreements). `shown` is the theme that the
callbacks of the daemon have published. The style they publish is left out: no
program reads it back and no handler waits for it.

**WmDetect** is the inside of the check that WmTracking takes as one step. The
managers have an identity (`program`, `alive`), one rules the screen (`owner`), and
they start, linger and end between any two steps of `xde_check_wm`: `FindComp`,
`FindName`, `FindHost`, `FindPid`, `FindComm`, `FindProc`, `FindAny`, `CheckProc`,
`FindClass`, `GetOps`, filling `rec`. `find_wm_proc` is three of them: the walk of
`/proc` for the name, the one for any known manager, and the reading of what
`check_proc` wants of the process; each walk is one step. `seen` is the manager whose
check windows `find_wm_comp` found; what is read of them later is nothing when it has resigned.
`Publish` is the second half of `xde_recheck_wm`: when a compared field differs from
the last record (`old`), `wm_changed` writes name, host, pid, class and command onto
`root`, and the next check reads them there. A program is a record of what it says
of itself and of its process; names are words, hosts the forms `check_same_host`
tells apart. `/proc` is searched in the order of `Ids`. Left out: the button proxy,
and what other programs write on the root while the check runs.

**StylePlugins** is the table of operations of each of the thirty plugins, as a
record that says how the plugin finds, gets, sets, lists and reloads; `PluginOf` is
`get_wm_ops`.

**StyleSearch** uses these records. `files` are the styles installed under one name,
by directory, form of the name and kind; `conf` what the configuration of each
manager names. `exact` is whether the setting of openbox or pekwm has the very
form that they write, and `strays` what else in the file has it, comments or fonts:
they decide "already" by a search of the whole text and replace lines that need not
be the setting. A step is one operation of `xde-style` on one screen, from the
search to the last write (`SetStyle`, then the next screen), the generation of a menu
(`GenMenu`), a `Click` on an item of it, or a package that comes or goes (`Change`).
`FindStyle`, `Listed`, `GetStyle` and `Marked` are the operations of the plugins.

**StyleSetting** is the last part of StyleSearch's step taken apart: every system
call with which a set_style reads, removes, links, truncates and writes, for two
commands at once, either of which may be killed. `way` is how the manager keeps
its style, `file` the file that names it, with `exact` and `strays` as in StyleSearch,
`shown` what the manager has in force, `damaged` the style files that a command has
written into by following a link. `reachable` is whether the manager can be asked to
reload: some plugins do it by a signal, for which they need its pid; without one
pekwm refuses to set at all, those with a database refuse `--reload`, and the others
set and only print an error. What of the file does not bear on the style is left
out: openbox and icewm do not keep it (see the disagreements).

`MC*` modules give the constants small values.

## The runs

Deadlock is checked in `styles` and `detect`, where something can always be done.
It is off in the others: the loop may be idle, the clock reaches its bound, the
processes end.

| run | shows | bounds |
|---|---|---|
| `defer` | types; `NotEarly`; `TimerCoversHead`; `OnceBounded`; the refinement `KeepsPromise`; `InvokedUnlessRefused` under fairness | a second of 3 ticks, delays 0, 2 (carry, and exactly a second) and 3; 3 entries of two once-keys and one other; every entry expires before the clock stops |
| `loop` | `NeverSleepsOnReady`, `NeverSleepsAfterQuit`, `EventsBeforeActions`, `WaitingIsInvoked`, `QuitReturns` | 3 entries, 2 X events, 1 signal, 1 session message |
| `tracking` | `RefsExact`, `OneRecordPerProcess`, `PublishedIsTracked` | 2 screens, an EWMH manager and one without, both on any screens, 3 changes, 4 windows |
| `tracking_one` | `CurrentInTheEnd` | 1 screen, 2 EWMH managers that clean up, 4 changes |
| `tracking_two` | finding: the check of one screen displaces that of another | 2 screens |
| `instance` | `LosersAreTold`, `StartCompletes`, `SettlesToOne`, `LeavesOne` | 1 screen; one process running, two that start, two with `--replace`; 2 quit or restart commands |
| `instance_race` | finding: two starts, two daemons | 2 processes |
| `detect` | `Identified`, `WhoseProcess`, `FeedbackEnds` | 45 kinds of managers to begin with, 4 that may come, 2 processes, 3 changes, a name on the root or none, any number of checks; 2,013,644 states |
| `detect_feedback` | finding: the second check loses the name the first one found | one manager that calls itself LG3D |
| `styles` | `ListedIsFound`, `SetIsGot`, `ToldIsInForce`, `MarksTell`, `ClickKeepsClass` | one screen with each of 8 managers, three pairs of screens, one of them twice the same manager; 2 styles installed, 1 that comes or goes; 274,986 states |
| `setting` | `SetMeansSet`, `StyleSurvives`, `StylesKept`, `AgreesInTheEnd` | 5 ways, a manager that can be asked and one that cannot, 2 commands, 3 runs of them, 1 killed, 2 styles; 2,624,195 states |
| `theme` | `NeverStale`, `Settles` | one daemon with one tool and a change by the manager, or two daemons that start together or follow a change; 2 themes of which one is also a style, 1 echo; 877,738 states |

The bounds are enough for what can go wrong: order in a list needs two entries
and a third to be inserted between them; a boundary of the timespec needs one
tick on each side; the loop's races need one thing of each kind at each point;
sharing of records needs two screens and two processes, with a third record for
the moment when old and new exist side by side; the selection needs an owner, one
that replaces it and a third that interferes; a theme check races with one change
of the style and one program that sets, in any order, and needs a style that is a
theme, one that is not, and a theme that is no style. Writes that chase each other
need two daemons, which run side by side while one replaces the other or after a
race (`instance_race`); a third only answers as the second does. One echo is enough
for the writes of the record: with each daemon's record one behind the root, every
further one repeats the first. The theorem has any number of daemons and tools
together.
A detection is confused by one manager that leaves and one that comes, in any order
and between any two steps; a third change empties the screen in between. The
managers of `styles` are one of each kind that StylePlugins tells apart, and a style
that shadows another needs two; a screen can take back what was set on another only
when both have the same manager. Two overlapping writers, and a third run that
finds what they left, make all that can be lost of one file.

`Identified` and `WhoseProcess` say when a detection may be relied on, with the
conditions the code needs: for a manager that does not give its pid, that no other is
in `/proc`, and that the root does not say otherwise. What becomes of them without
the last condition is the finding of `detect_feedback`.

### Fairness

`DeferQueue!Fairness`: time passes, an expired timer is read, the loop gets to
the ready list, actions return. MainLoop justifies the middle two by assuming
only that its thread is scheduled (`WF(Thread)`) and time passes: `Thread` holds
the steps with which the thread advances, and not what a handler may or may not
do, so nothing the environment does is forced. `WmTracking!FairSpec` asks weak
fairness of the library only, `Instance!FairSpec` of each process; no window
manager, user or command is ever forced to act. `ThemeSync!Fairness` is that a
daemon's loop runs, that a tool once started ends, and that a manager comes to the
reload it was asked for. `StyleSetting!FairSpec` is the same for its commands and
the manager: a process that is not killed runs on, and a signal sent is handled.
After a `LinkFails` there is no such reload, and
`NeverStale` promises nothing more.

## What is proved

`DeferQueueProofs` (assuming `DeferAssumption`: `TicksPerSec` positive, delays
natural numbers, bounds natural):

* `Typing`, `NeverEarly`, `TimerAlwaysCovers` follow from `Invariance`, that
  `IInv` is inductive. `NotEarly` alone is not: an expiry takes the *head* of
  the list when the *timer* has passed, so one needs that the timer is not
  earlier than the head (`TimerNotEarly`), which after an insertion or a removal
  needs the order of the list (`WaitSorted`), which rests on the arithmetic of the
  carry (`WhenDueTicks`: the due time is the clock plus the delay in ticks,
  whatever the carry does). `EntriesDistinct` serves the refinement.
* `OnceNeverPilesUp`: `OnceBounded` is inductive for each key by itself.
* `Implements`: `Spec` implements DeferPromise's safety part. `DeferAction` is
  `Promise`, `BeginDeferred` and an `ActionReturns` that begins the next action
  are `Invoke`, `Tick` is time, the rest stutters.
* `WholeSecondsAreSet`: when the delays are whole seconds, no time is refused, so the
  timer is set for the head without the exception of `TimerCoversHead`.

`MainLoopProofs` (in addition `LoopAssumption`, and from `LoopInvariance` on that
`StartDelays` does not contain 0):

* `LoopImplementsQueue`: the loop's steps are steps of DeferQueue or leave it
  alone, so what is proved of it holds in the loop (`LoopNeverEarly`,
  `LoopKeepsPromise`).
* `LoopTyping`: the types of the loop's variables, which need that a message is there
  whenever poll(2) reported one and it has not been read.
* `LoopInvariance`, and from it `ReadyNeverSleeps`, `QuitNeverSleeps`,
  `EventsComeFirst`. The invariant `LoopInv` says where in a turn the ready list
  may be non-empty and from where to where Xlib's queue stays empty. Without the
  condition on `StartDelays` the first is false: an action deferred with
  `--wait 0` before the loop is ready when poll(2) is entered.
* `LoopWakes`: in poll(2), an action whose time has come makes it return. By `LoopInv`
  the action is in `deferred_wait`, by the order of the list its head is no later, and
  the timer is set for the head.

`ThemeSyncProofs` (assuming `ThemeAssumption`: daemons and tools are different
processes, the absent names are no names):

* `Typing`: `TypeOK`. It needs `Carried`: what `theme_replace` is given is a theme,
  and a tool is past the test of `xde_set_theme` only with a theme.
* `ThemeNeverStale`: `NeverStale`, for any number of daemons and tools. It speaks of
  daemons at rest, so the invariant must say what one knows on its way there
  (`Informed`): while no style is under way and nothing has been sent to a daemon
  or is asked of it, it holds the right theme from `xde_get_theme` on. Each step
  that makes this untrue sends something in the same step or leaves a style under
  way (`ChangeIsTold`), and no process touches another but by sending to it
  (`OthersTouchNone`). `Published` says when the callbacks are behind `scr->theme`.

`StyleSettingProofs` (assuming `SettingAssumption`), for any number of commands:

* `Typing`; `SetSets` and `StylesStay` speak of commands that were not disturbed, so
  the invariant must say that these are alone: an undisturbed command is the only one
  that runs (`Solitary`), and before any two have overlapped each is undisturbed
  (`Apart`). Then what it learned about the file still holds when it uses it
  (`InOrder`). `SetSets` is not about openbox and pekwm when their file has no line
  for the style or mentions it elsewhere: then they say "already" or say nothing, and
  the style is not set.
* `StyleStays` speaks of commands that overlap. The invariant (`Hopeful`) is that a
  file without a style has a command on its way that will write one into the file
  that is there (`Filling`), and a missing file one that will link or create it
  (`Linking`), or no command has come that far yet.
* `Agreement`: as long as every command has `--reload`, none is killed and the
  manager can be asked, a manager
  that shows another style than the file names has been asked to read it, or a
  command is on its way that will ask whatever the others do (`Reloads`). A command
  about to link is one only while nothing is in its way; what gets in its way is the
  link or file of another, which reloads.

`WmTrackingProofs` (assuming `TrackingAssumption`: at least one screen, more records
than screens): `Typing`, `CountsExact`, `OneRecord` and `Published`. The four
invariants are inductive only together (`TrackInv`): that a new record is one no
screen has needs the counts (`FreshIsFree`, by the pigeonhole principle), and that a
check leaves the record of another screen alone needs that. `CheckedIs` names the
three outcomes of a check; all else keeps pids and counts (`NoCheck`).
`NothingMissed` is for one screen, managers that have a check window, and ends in
order (`Orderly`): when no event is on its way and no check waits, the library has the
manager that is there. The invariant `AttentionInv` says what will make the library
look again whenever it is behind: the DestroyNotify of the very window it knows, or
the announcement of one when it knows none. For that a destroyed window must be no
one's (`ServerInv`), or an event of an earlier manager could be taken for one of the
next. Each condition is needed: without them TLC finds the runs described below (a
crash, a second screen), or nobody is told (no check window).

`InstanceProofs` (assuming `InstanceAssumption`), for any number of processes and
commands:

* `Typing`, on any number of screens.
* `LosersTold`, on one screen. A process loses the selection only to a `Claim`, which
  sends the message in the same step, and once a message has been handled the loop is
  to return, whatever comes after it.
* `NoWaitForTheDead`, on any number of screens: whoever is waited for in XIfEvent is
  another process, which has not ended since it owned the selection and does not own
  it any more. The invariant `WatchInv` is about every former owner that is remembered
  and not known to be gone: it has claimed the selection, so it has not begun anew,
  and the one who remembers it is not behind it.
* `WaitsEnd`, on one screen: who is waited for has the SelectionClear before it or is to
  leave its loop, and nobody waits in a circle. A circle is excluded by a ranking of the processes by the
  order in which they looked (`Ranked`). On two screens there are circles, see below.
* `OneIsLeft`, on one screen: of those that have handled their messages one at most has
  claimed the selection, and while no command is sent, one owns it and neither has a
  message that makes it go nor has handled one (`Superseded`).

`WmDetectProofs` (assuming `DetectAssumption`), for any programs and processes:

* `FoundProcess`, that is `WhoseProcess`. The invariant follows the record through the
  round trips: while nothing has changed, who was found rules the screen (`Steady`) and
  is believed about its host (`Believed`); the pid with which the search of `/proc`
  begins is a window's (`Given`); and a process once taken from `/proc` runs no other
  program later (`Taken`).
* `Typing`. What is recorded is a word, host or pid of some program or of the root
  window, and what is on the root was recorded once, so the two go together (`Told`);
  arguments come with a pid and not before `find_wm_comm` (`Argued`).
* `OwnPlugin`, that is `Identified`: the invariant says, step by step, what has been read
  of a manager that nothing has disturbed: its name, if it says it in any of the ways
  that `find_wm_name` corrects (`NameRead`), then the host (`HostRead`) and the pid or
  none (`PidRead`), then what the two walks of `/proc` have added (`Known`), and after
  `check_proc` all three and the arguments.
  `AloneIsListed` is why the search of `/proc` can only end with the manager.

`StyleSearchProofs` (assuming `StyleSearchAssumption`: every display has a screen and
its managers are of StylePlugins, the entries are among those the plugins look for, the
bounds are natural, and the values for "none" are none of the others), for any number of
screens, entries and changes of the installation:

* `PluginsConsistent` checks the table of StylePlugins once, for each of the thirty
  plugins: which ways of finding, setting and getting occur together. The other lemmas
  use this only.
* `Typing`. The invariant `World` adds what a step relies on: what the configuration of
  a manager names is a value its plugin writes (`ConfFits`), the item is one of an entry
  (`ItemFits`), and the results so far are of the class the command asks for (`OutFits`).
* `ListedThenFound`: what a menu lists is a place that the search of the same plugin goes
  through, and it finds nothing else earlier (`EarlierIs`).
* `SetThenGet` and `ToldIsTrue`, the latter for openbox and pekwm when nothing else in
  their file has the form of the setting (`strays`). What was true of one screen after its step may be undone
  by a step on the next, so the invariant (`Results`) says it of each screen whose
  manager has not been set again. Before this proof the two properties did not have
  that condition, and `styles` had no display with the same manager twice: set on two
  screens, twm has one file, and with a style that is found for one screen only the
  two results cannot both stand.
* `MarksInForce`: both directions, that the entry marked is in force and that the entry
  in force is marked, each by the cases in which the plugin compares names or paths.
* `ClickedClass`: what a step of the command writes into the configuration of a manager
  is what its search has just found, and that is in one of the directories which the
  search goes through for the class of the item (`FoundInClass`).

Every invariant and every property of steps that a run checks is proved. Only
model-checked is liveness, which needs fairness and ENABLED: `InvokedUnlessRefused`,
`WaitingIsInvoked`, `QuitReturns`, `CurrentInTheEnd`, `StartCompletes`, `SettlesToOne`,
`LeavesOne`, `AgreesInTheEnd`, `Settles` and `FeedbackEnds`. What most of them rest on besides fairness is
proved: that there is always somebody to act (`LoopWakes`, `WaitsEnd`), and that the
state is as it should be when nobody has anything left to do (`OneIsLeft`,
`NothingMissed`, `Agreement`, `ThemeNeverStale`). Of `Settles` and `FeedbackEnds` it is not, which are that daemons stop writing to the
root in answer to each other and to themselves: that needs a measure of the writes to
come, over any number of daemons.
Induction over data is out of the prover's reach; the modules with theorems need none, and
the order in which a dying process destroys its windows is any (`SetToSeqs`).

## Disagreements between code and documents

The findings of PROJECT.json have a run each. These were met too and have none.

The loop, the managers and the daemons:

* Events that a round trip of an action has read into Xlib's queue wait for the next
  ones, as poll(2) looks at the connection only (5351, against "When a window manager
  is present, appears or changes, xde-watch places properties on the root window to
  reflect the changes", `man/xde-watch.pod` 135-136).
* "no window manager yet, test again in 2 seconds" (3097): the check that runs is
  still the head of `deferred_done` (5274) when it defers itself, so
  `xde_defer_once` refuses, and nothing is tested again.
* `wm_event` compares SelectionClear with the window of the current screen only
  (`xde-watch.c` 428): on two screens the message may be discarded, and a process
  started with `--replace` ("Replace a running instance of xde-watch with this
  instance", `man/xde-watch.pod` 50) waits for ever. `StartCompletes` is checked on
  one screen.
* `xde_set_theme` ends with requests in Xlib's buffer, and `xde-style.c` 573-582 calls
  exit(3) without a flush: `_XDE_THEME_NAME` keeps the old theme and no daemon is
  told (`man/xde-style.pod` 146-148).
* `xde_defer_once` without a delay queues a second instance beside a waiting one
  (`xde.c` 5141 against the comment 5131-5133); `OnceBounded` says how many there
  may be.
* Actions run ahead of events that Xlib has queued, against "after all pending X events
  have been processed" (5077-5081): in a turn woken by the timer alone (5363-5376), and
  in any turn once an action has made a round trip, as the others follow without a look
  at the queue (5272-5277). What is left, that the first action of a turn woken for X
  events finds none and the others only what this turn's actions have read, is
  `EventsBeforeActions`.
* Of several messages that a daemon handles in one turn the last one decides
  (`xde_main_quit` only notes it, 5169-5184, and 5226-5239 goes on): a restart asked
  for after the selection was lost starts the daemon anew instead of ending it.
* A due time whose `tv_nsec` is exactly 1000000000 is not carried (5101, `>` for
  `>=`): `timerfd_settime` refuses it and the timer stays as it was, so the action
  and all behind it may never run, against 5079-5081. `DeferQueue` has it (`Valid`);
  `InvokedUnlessRefused` and `TimerCoversHead` say what holds otherwise.
* A signal between the test of `signum` (5332) and poll(2) (5351) is not noticed
  until something else wakes the loop, against "Process signals within the event
  loop" (5283). MainLoop has the gap.
* `--wait 0`: an action made ready by `do_startup` waits for the first wakeup.
* After a manager has crashed, `check_nonrecursive` takes the id of its destroyed
  window from the root, `_XDE_WM_NETWM_SUPPORT` names it, and the property of the
  next manager is ignored (5436).
* `handle_DestroyNotify` looks at the current screen's record only (4975 against
  4965-4967); a record shared by two screens publishes the check window of one on
  both (2171 against `man/xde-watch.pod` 204-205).
* `xde_check_style` reads the style, compares, and calls `wm_style_changed`;
  `xde_get_theme` then reads it again into the same fields (4072-4073). A change
  between the two is not published, against "Invoked whenever the window manager
  style changes" (`xde-watch.c` 477).
* `xde-identify`, which only asks, writes `_XDE_THEME_NAME`: its `scr->theme` is
  empty, so `theme_replace` takes any theme for new (3853).
* A daemon that has read an old value of the property may write it over the one a
  tool has just set: nothing tells the answers from the question.
* Without a window manager, the property and the files of GTK are to give the theme
  (3872-3875), but `xde_find_theme` looks in the directories of `wm` (1425).
* Two `--replace` processes on two screens may wait for each other
  (`xde-watch.c` 730); a claim made with the time of an old startup id is ignored
  by the server, unnoticed (717-719); a second start fails instead of passing its
  arguments (720, `man/xde-watch.pod` 127-128); a daemon whose `argv[0]` has no
  directory cannot restart itself (831), which Instance models (`Unqualified`).

The detection:

* When a manager that says its pid is followed, before the next check, by one that
  does not, the root still has the pid of the first; the record takes it, publishes
  it again, and so every check after it. The same holds of a HOSTNAME in its short
  form, which the next check takes for another machine (1618).
* `check_same_host` looks one character past the dot and its second branch repeats
  the first the wrong way round (1634-1639): short and long forms of our own name
  are remote, and a proper prefix that ends a character before a dot is local.
* The branch of `find_wm_proc` for a pid without a name asks for a name (2035), so
  such a manager stays unnamed. `find_wm_proc_any` refuses a record with a host, also
  when it is ours (1781). strrchr(3) leaves the slash of a path in front of the name
  (1526). WmDetect has all of these.
* `check_supported` is true when the atom is *not* listed, and `find_wm_prox` uses it
  as if it were the other way (2119-2124): a button proxy counts when the manager
  does not support it.
* WM_NAME of the root is overwritten with the name of the manager, also where a
  manager shows it as its status.

Styles:

* `find_style` of openbox does not look for the configuration file first, so
  `xde-style --set` without `--theme` never sets. `find_style` of blackbox and fluxbox
  calls strstr(3) with a null pointer when the style is not found.
* `find_style` of icewm replaces `options.style`, so a later screen is asked for
  another style ("The default, -1, is to act on all screens", `man/xde-style.pod`).
* icewm, openbox and pekwm ask for the reload before the stream is closed
  (`xde_icewm.c` 428), so the manager may read the old style; `AgreesInTheEnd` is about
  the others. openbox and pekwm replace a line: after a kill, or beside a command that
  has the file truncated, there is none, and no later command sets anything: the file
  is written back as it was, and nothing is said.
* openbox and pekwm take a style for current when the line that they would write is
  anywhere in the file, in a comment or as the name of a font (`xde_openbox.c` 376,
  `xde_pekwm.c` 296); then the style is not set. openbox replaces every `<name>`
  between `<theme>` and `</theme>`, those of fonts too (390-395); icewm writes a new
  first line and keeps of the old ones ten, as comments (`xde_icewm.c` 422-427).
* Plugins that reload by a signal only print an error when the pid of the manager is
  not known (`xde_ctwm.c` 86-92, `xde_echinus.c` 138-144, `xde_matwm2.c` 95-101), and
  `xde_set_style_simple` does not ask (`xde.c` 4396-4401): the style is set, and the
  manager keeps the old one in spite of `--reload`.
* A style that is a directory is stored by waimea under the name "stylerc"; with `-y`
  "already" looks only at the link of the system; where a link is the only way, a
  file the user wrote by hand is removed; a relative link to a configuration file in
  a subdirectory is resolved against HOME (`RcfileSimple`); fopen(3) after another
  command's symlink(2) writes into the style itself (`damaged`).

## Not modelled, and the plan

Modelled, in this order: DeferQueue with DeferPromise, MainLoop over it, WmTracking
with the queue abstracted to its one key, Instance, ThemeSync, StylePlugins with
StyleSearch and StyleSetting, and WmDetect, which has the inside of WmTracking's
check and what is read back of the root properties.

Not modelled:

* *Session management*: the save-yourself callbacks, the same text in four daemons.
  Its part in the loop is in MainLoop. It would be the next module: phases, a
  cancelled shutdown, and a client that dies between them.
* *Root properties*: which of the forty the library writes depends on the record
  only, and nothing of it is read back but what WmDetect has. `--remove` after a crash
  and `--assist` with no manager (2776) are sequential.
* *Menus and icons* of the plugins are named in StylePlugins and not searched.
* *xde-setbg, xde-theme, xde-stylemon*: their loops, daemons and callbacks are those
  of xde-watch. What xde-setbg does with images is drawing. *xde-backdrop* does
  not compile as it is.
* *Parsing of options* and *xde-setwm*: one pass over their arguments.
* The text of properties and files, the fatal exits of the loop on a lost connection,
  build files and manuals.

Theorems still worth proving: that `QuitReturns` has a measure which each turn of the
loop lowers; that the published properties of ThemeSync stop changing (`Settles`), for
one daemon; and what of `NothingMissed` is left on two screens, for events that arrive
while their screen is the current one.
