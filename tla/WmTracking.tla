------------------------------ MODULE WmTracking ------------------------------
(***************************************************************************)
(* How libxde keeps track of the window manager of each screen: the        *)
(* reference-counted WindowManager records, the check that fills one in    *)
(* from the X server (xde_recheck_wm, xde_check_wm), and the events that   *)
(* defer another check (handle_DestroyNotify, is_netwm_property and the    *)
(* handlers of src/src/xde.c), with the properties that xde-watch puts on  *)
(* the root window when the record changes.                                *)
(*                                                                         *)
(* Of the deferred queue (module DeferQueue) what matters here is that the *)
(* check is one key, deferred through xde_defer_once whatever the screen:  *)
(* at most one check waits for its delay.  A record is the fields that     *)
(* xde_recheck_wm compares, abstracted to the EWMH check window and the    *)
(* pid.  Around the library, window managers appear and disappear; a check *)
(* reads the server in one step, its events being handled only later.      *)
(***************************************************************************)
EXTENDS Integers, Sequences, FiniteSets, SequencesExt

CONSTANTS
    NScreens,       \* screens of the display
    Processes,      \* window manager processes, named by their pid
    Netwm,          \* those that put a check window on the root
    Nobody,         \* no process; also the pid that was not found
    Records,        \* WindowManager structures
    NoRecord,       \* the null WindowManager pointer
    MayCrash,       \* managers may die without deleting their property
    MaxWindows,     \* bound: check windows ever created
    MaxChanges      \* bound: changes of manager, and rechecks asked for

ASSUME TrackingAssumption ==
    /\ NScreens \in Nat \ {0}
    /\ Netwm \subseteq Processes
    /\ Nobody \notin Processes
    /\ NoRecord \notin Records
    /\ IsFiniteSet(Records) /\ Cardinality(Records) > NScreens
    /\ MayCrash \in BOOLEAN
    /\ MaxWindows \in Nat
    /\ MaxChanges \in Nat

VARIABLES
    manager,        \* the process that redirects each root window
    root,           \* _NET_SUPPORTING_WM_CHECK of each root, None when unset
    created,        \* check windows created so far
    changes,        \* changes so far
    wire,           \* events sent to the library, not yet handled
    starting,       \* screens do_startup has checked
    cur,            \* the library's current screen, scr
    tracked,        \* scr->wm of each screen
    heap,           \* the WindowManager structures
    waiting,        \* screen of the check in deferred_wait
    ready,          \* screens of the checks in deferred_done
    published       \* what the properties on each root window say

serverVars == <<manager, root, created, changes>>
libVars == <<starting, cur, tracked, heap, waiting, ready, published>>
vars == <<serverVars, wire, libVars>>

Screens == 0..(NScreens - 1)
NoScreen == -1
None == 0
Window == 1..MaxWindows

Nothing == [win |-> None, pid |-> Nobody]

PropertyNew(s) == [type |-> "PropertyNotify", screen |-> s, win |-> None]
PropertyDelete(s) == [type |-> "PropertyDelete", screen |-> s, win |-> None]
NameNotify(s) == [type |-> "NameNotify", screen |-> s, win |-> None]
DestroyNotify(w) == [type |-> "DestroyNotify", screen |-> NoScreen, win |-> w]
RecheckMessage == [type |-> "Recheck", screen |-> NoScreen, win |-> None]

Event ==
    [type : {"PropertyNotify", "PropertyDelete", "NameNotify"},
     screen : Screens, win : {None}]
    \cup [type : {"DestroyNotify", "Recheck"},
          screen : {NoScreen}, win : Window \cup {None}]

-----------------------------------------------------------------------------
\* What finds the daemon when it starts: any managers, none with a past.
Init ==
    /\ manager \in [Screens -> Processes \cup {Nobody}]
    /\ \E wins \in [Screens -> Window \cup {None}] :
            /\ \A s \in Screens : (wins[s] # None) <=> (manager[s] \in Netwm)
            /\ \A s, t \in Screens : wins[s] = wins[t] /\ wins[s] # None => s = t
            /\ \A s \in Screens : wins[s] <= NScreens
            /\ root = wins
    /\ created = NScreens
    /\ changes = 0
    /\ wire = << >>
    /\ starting = 0
    /\ cur = 0
    /\ tracked = [s \in Screens |-> NoRecord]
    /\ heap = [r \in Records |-> [refs |-> 0, win |-> None, pid |-> Nobody]]
    /\ waiting = NoScreen
    /\ ready = << >>
    /\ published = [s \in Screens |-> Nothing]

(***************************************************************************)
(* The check.                                                              *)
(***************************************************************************)
\* xde_defer_wm_check(options.wait): refused while a check, of whatever
\* screen, is in either list; the one that is running is still in the second.
AskCheck(s) ==
    waiting' = IF waiting = NoScreen /\ ready = << >> THEN s ELSE waiting

\* find_wm_comp: something redirects the root, or the root names a check
\* window.  A window that no longer exists still counts: the recursive test
\* fails, but check_nonrecursive takes the id from the property.
Found(s) == manager[s] # Nobody \/ root[s] # None

Twins_None_Fault(s) == {}

\* Screens whose record is for the process just found on s.
Twins(s) ==
    {t \in Screens \ {s} :
        /\ manager[s] # Nobody
        /\ tracked[t] # NoRecord
        /\ heap[tracked[t]].pid = manager[s]}

Fresh == CHOOSE r \in Records : heap[r].refs = 0

\* The record xde_check_wm leaves in scr->wm: none, that of the last screen
\* with the same process, or a new one.
Checked(s) ==
    CASE ~Found(s)        -> NoRecord
      [] Twins(s) # {}    -> tracked[CHOOSE t \in Twins(s) : \A u \in Twins(s) : u <= t]
      [] OTHER            -> Fresh

RefsAfter_OldKept_Fault(r, s) ==
    heap[r].refs + (IF r = Checked(s) THEN 1 ELSE 0)

\* ref_wm for the record found, xde_wm_unref for oldwm.
RefsAfter(r, s) ==
    heap[r].refs + (IF r = Checked(s) THEN 1 ELSE 0)
                 - (IF r = tracked[s] THEN 1 ELSE 0)

HeapAfter(s) ==
    [r \in Records |->
        IF r = Checked(s) /\ Twins(s) = {}
        THEN [refs |-> RefsAfter(r, s), win |-> root[s], pid |-> manager[s]]
        ELSE [heap[r] EXCEPT !.refs = RefsAfter(r, s)]]

Contents(h, r) ==
    IF r = NoRecord THEN Nothing ELSE [win |-> h[r].win, pid |-> h[r].pid]

Changed_WindowOnly_Fault(h, old, new) ==
    \/ (old = NoRecord) # (new = NoRecord)
    \/ Contents(h, old).win # Contents(h, new).win

\* The comparison of xde_recheck_wm, through the two pointers: a record that
\* both screens share never differs from itself.
Changed(h, old, new) ==
    \/ (old = NoRecord) # (new = NoRecord)
    \/ Contents(h, old) # Contents(h, new)

\* The callbacks of xde-watch.  The name, known with the process, is put on
\* the root as WM_NAME, or deleted from it: either way an event comes back.
Publish(s, h, new) ==
    /\ published' = [published EXCEPT ![s] = Contents(h, new)]
    /\ IF Contents(h, new).pid # Nobody \/ published[s].pid # Nobody
       THEN wire' = Append(wire, NameNotify(s))
       ELSE UNCHANGED wire

\* xde_recheck_wm on the current screen.
Recheck(s) ==
    LET old == tracked[s]
        new == Checked(s)
        h   == HeapAfter(s)
    IN  /\ tracked' = [tracked EXCEPT ![s] = new]
        /\ heap' = h
        /\ IF Changed(h, old, new)
           THEN Publish(s, h, new)
           ELSE UNCHANGED <<published, wire>>
        /\ IF old = NoRecord /\ new = NoRecord
           THEN AskCheck(s)
           ELSE UNCHANGED waiting

(***************************************************************************)
(* The library.                                                            *)
(***************************************************************************)
InLoop == starting = NScreens

\* One turn of the loop of do_startup.
StartupCheck ==
    /\ ~InLoop
    /\ starting' = starting + 1
    /\ cur' = starting
    /\ Recheck(starting)
    /\ UNCHANGED <<serverVars, ready>>

CheckExpires_Unguarded_Fault ==
    /\ InLoop
    /\ ready' = Append(ready, waiting)
    /\ waiting' = NoScreen
    /\ UNCHANGED <<serverVars, wire, starting, cur, tracked, heap, published>>

\* The delay of the check has passed (xde_process_timeouts).
CheckExpires ==
    /\ InLoop
    /\ waiting # NoScreen
    /\ ready' = Append(ready, waiting)
    /\ waiting' = NoScreen
    /\ UNCHANGED <<serverVars, wire, starting, cur, tracked, heap, published>>

\* xde_process_deferred: xde_action_check_wm on the screen of its entry.
RunCheck ==
    /\ InLoop
    /\ ready # << >>
    /\ cur' = Head(ready)
    /\ Recheck(Head(ready))
    /\ ready' = Tail(ready)
    /\ UNCHANGED <<serverVars, starting>>

\* The handlers of an event at the head of the queue that is handled.
Handling(type) ==
    /\ InLoop
    /\ wire # << >>
    /\ Head(wire).type = type
    /\ wire' = Tail(wire)
    /\ UNCHANGED <<serverVars, starting, tracked, published>>

NoCheckWindow(s) == Contents(heap, tracked[s]).win = None

\* handle_NET_SUPPORTING_WM_CHECK: find_screen selects the screen of the
\* root; a check is deferred when no check window was known.
HandleProperty ==
    /\ Handling("PropertyNotify")
    /\ cur' = Head(wire).screen
    /\ IF NoCheckWindow(cur') THEN AskCheck(cur') ELSE UNCHANGED waiting
    /\ UNCHANGED <<heap, ready>>

HandleDelete ==
    /\ Handling("PropertyDelete")
    /\ cur' = Head(wire).screen
    /\ UNCHANGED <<heap, waiting, ready>>

\* handle_WM_NAME for the root, which the library itself has written.
HandleName ==
    /\ Handling("NameNotify")
    /\ cur' = Head(wire).screen
    /\ AskCheck(cur')
    /\ UNCHANGED <<heap, ready>>

HandleDestroy_NoCheck_Fault ==
    /\ Handling("DestroyNotify")
    /\ heap' = IF tracked[cur] # NoRecord /\ heap[tracked[cur]].win = Head(wire).win
               THEN [heap EXCEPT ![tracked[cur]].win = None]
               ELSE heap
    /\ UNCHANGED <<cur, waiting, ready>>

\* handle_DestroyNotify looks in the record of the screen that happens to be
\* current.
HandleDestroy ==
    /\ Handling("DestroyNotify")
    /\ UNCHANGED <<cur, ready>>
    /\ IF tracked[cur] # NoRecord /\ heap[tracked[cur]].win = Head(wire).win
       THEN heap' = [heap EXCEPT ![tracked[cur]].win = None] /\ AskCheck(cur)
       ELSE UNCHANGED <<heap, waiting>>

\* wm_event for XDE_DESKTOP_RECHECK: xde_defer_wm_check(0), which looks in
\* deferred_done only.
HandleRecheck ==
    /\ Handling("Recheck")
    /\ ready' = IF ready = << >> THEN <<cur>> ELSE ready
    /\ UNCHANGED <<cur, heap, waiting>>

(***************************************************************************)
(* The window managers, and the user.  A manager takes over a root that    *)
(* nobody redirects; a process may manage several.                         *)
(***************************************************************************)
Change ==
    /\ changes < MaxChanges
    /\ changes' = changes + 1
    /\ UNCHANGED libVars

Appear(p, s) ==
    /\ Change
    /\ manager[s] = Nobody
    /\ manager' = [manager EXCEPT ![s] = p]
    /\ IF p \in Netwm
       THEN /\ created < MaxWindows
            /\ created' = created + 1
            /\ root' = [root EXCEPT ![s] = created']
            /\ wire' = Append(wire, PropertyNew(s))
       ELSE UNCHANGED <<created, root, wire>>

\* The screens on which p has a check window.
Managed(p) == {s \in Screens : manager[s] = p /\ p \in Netwm}

\* What a client is told of when p deletes its properties, or is gone.
Deleted(p) == {PropertyDelete(s) : s \in Managed(p)}
Destroyed(p) == {DestroyNotify(root[s]) : s \in Managed(p)}

\* A process ends; unless it crashes, it deletes its properties first.
Disappear(p) ==
    /\ Change
    /\ \E s \in Screens : manager[s] = p
    /\ manager' = [s \in Screens |-> IF manager[s] = p THEN Nobody ELSE manager[s]]
    /\ \E destroyed \in SetToSeqs(Destroyed(p)) :
          \/ /\ root' = [s \in Screens |-> IF s \in Managed(p) THEN None ELSE root[s]]
             /\ \E deleted \in SetToSeqs(Deleted(p)) :
                   wire' = wire \o deleted \o destroyed
          \/ /\ MayCrash
             /\ UNCHANGED root
             /\ wire' = wire \o destroyed
    /\ UNCHANGED created

\* A process executes itself again: the same pid, another check window.
Restart(p, s) ==
    /\ Change
    /\ manager[s] = p /\ p \in Netwm
    /\ created < MaxWindows
    /\ created' = created + 1
    /\ root' = [root EXCEPT ![s] = created']
    /\ wire' = wire \o <<DestroyNotify(root[s]), PropertyNew(s)>>
    /\ UNCHANGED manager

AskRecheck ==
    /\ Change
    /\ InLoop
    /\ wire' = Append(wire, RecheckMessage)
    /\ UNCHANGED <<manager, root, created>>

-----------------------------------------------------------------------------
Library ==
    \/ StartupCheck \/ CheckExpires \/ RunCheck
    \/ HandleProperty \/ HandleDelete \/ HandleName \/ HandleDestroy \/ HandleRecheck

Outside ==
    \/ \E p \in Processes : \/ Disappear(p)
                            \/ \E s \in Screens : Appear(p, s) \/ Restart(p, s)
    \/ AskRecheck

Next == Library \/ Outside

Spec == Init /\ [][Next]_vars

\* The thread runs, time passes, events are handled.  That events queued by
\* round trips are handled at all is assumed (module MainLoop).
FairSpec == Spec /\ WF_vars(Library)

-----------------------------------------------------------------------------
TypeOK ==
    /\ manager \in [Screens -> Processes \cup {Nobody}]
    /\ root \in [Screens -> Window \cup {None}]
    /\ created \in Nat
    /\ changes \in Nat
    /\ wire \in Seq(Event)
    /\ starting \in 0..NScreens
    /\ cur \in Screens
    /\ tracked \in [Screens -> Records \cup {NoRecord}]
    /\ heap \in [Records -> [refs : Int, win : Window \cup {None},
                            pid : Processes \cup {Nobody}]]
    /\ waiting \in Screens \cup {NoScreen}
    /\ ready \in Seq(Screens)
    /\ published \in [Screens -> [win : Window \cup {None},
                                  pid : Processes \cup {Nobody}]]

\* A record is counted once by each screen whose scr->wm it is, and no more:
\* xde_check_wm drops the record it replaces by a shared one and
\* xde_recheck_wm drops oldwm, so none is freed under a screen, nor kept.
RefsExact ==
    \A r \in Records : heap[r].refs = Cardinality({s \in Screens : tracked[s] = r})

\* A process has one record, however many screens it manages and in whatever
\* order they are checked ("checking for duplicate wm").
OneRecordPerProcess ==
    \A s, t \in Screens :
        /\ tracked[s] # NoRecord /\ tracked[t] # NoRecord
        /\ heap[tracked[s]].pid = heap[tracked[t]].pid
        /\ heap[tracked[s]].pid # Nobody
        => tracked[s] = tracked[t]

\* The process that the root's properties name is the one in the screen's
\* record, also when the record is shared and changed from another screen.
PublishedIsTracked ==
    \A s \in Screens : published[s].pid = Contents(heap, tracked[s]).pid

\* A lost or refused check leaves no screen behind: when the managers no
\* longer change, what the library has for each screen becomes what is there,
\* and the properties say so (xde_recheck_wm, the handlers that defer it).
Current(s) ==
    /\ tracked[s] = NoRecord <=> manager[s] = Nobody
    /\ published[s] = [win |-> root[s], pid |-> manager[s]]

CurrentInTheEnd == \A s \in Screens : <>[]Current(s)

\* "When a window manager is present, appears or changes, xde-watch places
\* properties on the root window to reflect the changes", on "all screens of
\* the X Display" (man/xde-watch.pod): a manager that stays is noticed.
NoticedInTheEnd ==
    \A s \in Screens :
        <>[](manager[s] # Nobody => published[s].pid = manager[s])

=============================================================================
