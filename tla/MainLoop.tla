------------------------------- MODULE MainLoop -------------------------------
(***************************************************************************)
(* The event loop of the daemons, xde_main_loop, and the routines it calls *)
(* for each file descriptor that poll(2) reports: the defer timer, the X   *)
(* connection and the session manager's ICE connection.                    *)
(*                                                                         *)
(* The loop is a single thread.  Around it the server writes events to the *)
(* connection, the session manager writes messages, the clock runs, and a  *)
(* signal interrupts the thread between any two of its steps.  Xlib keeps  *)
(* a queue of its own: XPending reads the connection into it when it is    *)
(* empty, and any request that waits for a reply (a round trip) moves what *)
(* it reads on the way into it.  poll(2) sees the connection only.         *)
(*                                                                         *)
(* The steps on the deferred lists are those of DeferQueue.                *)
(***************************************************************************)
EXTENDS DeferQueue

CONSTANTS
    StartDelays,    \* delays asked for by do_startup, before the loop
    MaxEvents,      \* bound: X events the server sends
    MaxSignals,     \* bound: signals delivered
    MaxMessages     \* bound: session manager messages

ASSUME LoopAssumption ==
    /\ StartDelays \subseteq Delays
    /\ MaxEvents \in Nat
    /\ MaxSignals \in Nat
    /\ MaxMessages \in Nat

VARIABLES
    pc,             \* where the thread is
    revents,        \* what the last poll(2) reported
    onWire,         \* events on the connection, not read yet
    queued,         \* events in Xlib's queue
    late,           \* history: of those, the ones the turn's actions have read
    messages,       \* messages on the ICE connection
    signum,         \* signum is set
    shutting,       \* shutting_down
    sent            \* events, signals and messages so far

loopVars == <<pc, revents, onWire, queued, late, messages, signum, shutting, sent>>
allVars == <<vars, loopVars>>

Places == {"startup", "top", "check", "poll", "timeouts", "xevents", "sync",
           "messages", "deferred", "exited"}

Sources == {"timer", "x", "ice"}

-----------------------------------------------------------------------------
LoopInit ==
    /\ Init
    /\ pc = "startup"
    /\ revents = {}
    /\ onWire = 0
    /\ queued = 0
    /\ late = 0
    /\ messages = 0
    /\ signum = FALSE
    /\ shutting = FALSE
    /\ sent = [events |-> 0, signals |-> 0, messages |-> 0]

Goto(place) == pc' = place

\* Nothing but pc, and not even the deferred lists.
UnchangedElse ==
    UNCHANGED <<vars, revents, onWire, queued, late, messages, signum, shutting, sent>>

\* xde_main_quit
MainQuit == shutting' = TRUE

(***************************************************************************)
(* Before the loop.  do_startup checks the window manager of each screen,  *)
(* with round trips, and the check may defer another.                      *)
(***************************************************************************)
StartupDefers ==
    /\ pc = "startup"
    /\ \E delay \in StartDelays, s \in Screens, k \in OnceKeys :
            DeferOnce(k, delay, s)
    /\ UNCHANGED loopVars

StartupDone ==
    /\ pc = "startup"
    /\ Goto("top")
    /\ UnchangedElse

(***************************************************************************)
(* One turn of the loop.                                                   *)
(***************************************************************************)
\* The first test of shutting_down, then the signal: whichever of the four
\* it is, wm_signal and xde_handle_signal both quit.  A signal delivered
\* before signum is cleared is lost, and shutting_down is set already.
Top ==
    /\ pc = "top"
    /\ IF shutting
       THEN Goto("exited") /\ UNCHANGED <<signum, shutting>>
       ELSE /\ Goto("check")
            /\ IF signum THEN MainQuit /\ signum' = FALSE
                         ELSE UNCHANGED <<signum, shutting>>
    /\ UNCHANGED <<vars, revents, onWire, queued, late, messages, sent>>

\* XFlush, the second test of shutting_down, and into poll(2).
Check_NoSecondTest_Fault ==
    /\ pc = "check"
    /\ Goto("poll")
    /\ UnchangedElse

Check ==
    /\ pc = "check"
    /\ Goto(IF shutting THEN "exited" ELSE "poll")
    /\ UnchangedElse

TimerExpired == timer # Disarmed /\ ~Before(clock, timer)

Readable ==
    {f \in Sources : \/ f = "timer" /\ TimerExpired
                     \/ f = "x" /\ onWire > 0
                     \/ f = "ice" /\ messages > 0}

PollReturns ==
    /\ pc = "poll"
    /\ Readable # {}
    /\ revents' = Readable
    /\ Goto("timeouts")
    /\ UNCHANGED <<vars, onWire, queued, late, messages, signum, shutting, sent>>

Timeouts ==
    /\ pc = "timeouts"
    /\ IF "timer" \in revents THEN ProcessTimeouts ELSE UNCHANGED vars
    /\ Goto("xevents")
    /\ UNCHANGED <<revents, onWire, queued, late, messages, signum, shutting, sent>>

(***************************************************************************)
(* xde_process_xevents.  The handler of an event is wm_event of the daemon *)
(* and then the handler of xde_handle_event: it may defer an action or     *)
(* quit, and makes round trips.                                            *)
(***************************************************************************)
InXevents == pc = "xevents" /\ "x" \in revents

HandleEvent ==
    /\ InXevents
    /\ queued > 0
    /\ queued' = queued - 1
    /\ \/ Defer /\ UNCHANGED shutting
       \/ MainQuit /\ UNCHANGED vars
       \/ UNCHANGED <<vars, shutting>>
    /\ UNCHANGED <<pc, revents, onWire, late, messages, signum, sent>>

\* XPending with an empty queue reads the connection.
PendingReads ==
    /\ InXevents
    /\ queued = 0 /\ onWire > 0
    /\ queued' = onWire
    /\ onWire' = 0
    /\ UNCHANGED <<vars, pc, revents, late, messages, signum, shutting, sent>>

\* XPending returned 0: with ready actions XSync comes first.
NothingPending_AsksWire_Fault ==
    /\ InXevents
    /\ onWire = 0
    /\ Goto("messages")
    /\ UnchangedElse

NothingPending ==
    /\ InXevents
    /\ queued = 0 /\ onWire = 0
    /\ Goto(IF done # << >> THEN "sync" ELSE "messages")
    /\ UnchangedElse

\* XSync, a round trip, and the loop's condition.
Sync ==
    /\ pc = "sync"
    /\ queued' = queued + onWire
    /\ onWire' = 0
    /\ Goto(IF queued' > 0 THEN "xevents" ELSE "messages")
    /\ UNCHANGED <<vars, revents, late, messages, signum, shutting, sent>>

NoXevents ==
    /\ pc = "xevents" /\ "x" \notin revents
    /\ Goto("messages")
    /\ UnchangedElse

Messages_Unchecked_Fault ==
    /\ pc = "messages"
    /\ Goto("deferred")
    /\ messages' = messages - 1
    /\ UNCHANGED <<vars, revents, onWire, queued, late, signum, shutting, sent>>

\* xde_process_messages: one of the callbacks, xdeDieCB, quits.
Messages ==
    /\ pc = "messages"
    /\ Goto("deferred")
    /\ IF "ice" \in revents
       THEN /\ messages' = messages - 1
            /\ MainQuit \/ UNCHANGED shutting
       ELSE UNCHANGED <<messages, shutting>>
    /\ UNCHANGED <<vars, revents, onWire, queued, late, signum, sent>>

(***************************************************************************)
(* xde_process_deferred, when deferred_done is not empty.                  *)
(***************************************************************************)
NoDeferred ==
    /\ pc = "deferred" /\ ~running
    /\ done = << >>
    /\ Goto("top")
    /\ UnchangedElse

StartDeferred_OnlyAfterEvents_Fault ==
    /\ pc = "deferred"
    /\ IF "x" \in revents THEN BeginDeferred /\ UNCHANGED pc
                          ELSE ~running /\ UNCHANGED vars /\ Goto("top")
    /\ UNCHANGED <<revents, onWire, queued, late, messages, signum, shutting, sent>>

StartDeferred ==
    /\ pc = "deferred"
    /\ BeginDeferred
    /\ UNCHANGED loopVars

ActionDefers ==
    /\ pc = "deferred" /\ running
    /\ Defer
    /\ UNCHANGED loopVars

EndAction_OneAtATime_Fault ==
    /\ pc = "deferred" /\ running
    /\ done' = Tail(done) /\ running' = FALSE
    /\ UNCHANGED <<clock, wait, timer, allocated>>
    /\ Goto("top") /\ late' = 0
    /\ UNCHANGED <<revents, onWire, queued, messages, signum, shutting, sent>>

EndAction ==
    /\ pc = "deferred"
    /\ ActionReturns
    /\ Goto(IF running' THEN "deferred" ELSE "top")
    /\ late' = IF running' THEN late ELSE 0
    /\ UNCHANGED <<revents, onWire, queued, messages, signum, shutting, sent>>

\* A handler or an action waits for a reply: what arrived is queued.
RoundTrip ==
    /\ pc = "startup" \/ InXevents \/ running
    /\ onWire > 0
    /\ queued' = queued + onWire
    /\ late' = IF running THEN late + onWire ELSE 0
    /\ onWire' = 0
    /\ UNCHANGED <<vars, pc, revents, messages, signum, shutting, sent>>

(***************************************************************************)
(* What happens around the thread.                                         *)
(***************************************************************************)
ServerSends ==
    /\ pc # "exited"
    /\ sent.events < MaxEvents
    /\ onWire' = onWire + 1
    /\ sent' = [sent EXCEPT !.events = @ + 1]
    /\ UNCHANGED <<vars, pc, revents, queued, late, messages, signum, shutting>>

ManagerSends ==
    /\ pc # "exited"
    /\ sent.messages < MaxMessages
    /\ messages' = messages + 1
    /\ sent' = [sent EXCEPT !.messages = @ + 1]
    /\ UNCHANGED <<vars, pc, revents, onWire, queued, late, signum, shutting>>

\* xde_sig_handler; a thread asleep in poll(2) is woken with EINTR.  The
\* handler is installed when the loop is entered.
Signal ==
    /\ pc \notin {"startup", "exited"}
    /\ sent.signals < MaxSignals
    /\ signum' = TRUE
    /\ pc' = IF pc = "poll" THEN "top" ELSE pc
    /\ sent' = [sent EXCEPT !.signals = @ + 1]
    /\ UNCHANGED <<vars, revents, onWire, queued, late, messages, shutting>>

ClockTicks == Tick /\ UNCHANGED loopVars

-----------------------------------------------------------------------------
\* The steps with which the thread advances ...
Thread ==
    \/ StartupDone \/ Top \/ Check \/ PollReturns \/ Timeouts
    \/ HandleEvent \/ PendingReads \/ NothingPending \/ Sync \/ NoXevents
    \/ Messages \/ NoDeferred \/ StartDeferred \/ EndAction

\* ... and those that handlers and actions may add.
Within == StartupDefers \/ ActionDefers \/ RoundTrip

Around == ServerSends \/ ManagerSends \/ Signal \/ ClockTicks

LoopNext == Thread \/ Within \/ Around

LoopSpec == LoopInit /\ [][LoopNext]_allVars

\* The thread is scheduled and handlers and actions return; time passes.
FairLoopSpec ==
    /\ LoopSpec
    /\ WF_allVars(Thread)
    /\ WF_allVars(ClockTicks)

-----------------------------------------------------------------------------
LoopTypeOK ==
    /\ TypeOK
    /\ pc \in Places
    /\ revents \subseteq Sources
    /\ onWire \in Nat
    /\ queued \in Nat
    /\ late \in Nat
    /\ messages \in Nat
    /\ signum \in BOOLEAN
    /\ shutting \in BOOLEAN
    /\ sent \in [events : Nat, signals : Nat, messages : Nat]

\* The loop never goes to sleep on an action that is ready, and leaves none
\* behind when it quits: each turn runs deferred_done until it is empty,
\* whatever the actions add to it (xde_main_loop, xde_process_deferred).
\* Actions ready before the first turn are the exception, see StartDelays.
NeverSleepsOnReady == pc \in {"poll", "exited"} => done = << >>

\* Told to quit by an event, the session manager or the signal it has just
\* handled, the loop does not wait for one more event before it does (the
\* reason for xde_main_loop's second test of shutting_down).
NeverSleepsAfterQuit == pc = "poll" => ~shutting

\* After a wakeup for X events, everything Xlib has read by the time the first
\* action begins has been handled, and whenever a later one begins, however many
\* the earlier ones add, what Xlib holds was read by a round trip of this turn's
\* own actions: no event older than the turn's first action is overtaken by any
\* of them.  xde_process_deferred never looks at the queue between two actions, so
\* "after all pending X events have been processed" is true of no more than this.
EventsBeforeActions ==
    pc = "deferred" /\ "x" \in revents => queued = late

\* An action waiting for its delay is invoked in the end unless the loop
\* quits: no wakeup is lost between the timer, the two lists and poll(2).
WaitingIsInvoked ==
    \A i \in 1..MaxDefers :
        (\E d \in NotInvoked : d.id = i)
            ~> (\A d \in NotInvoked : d.id # i) \/ pc = "exited"

\* Once told to quit, the loop returns, even while events and deferred
\* actions keep coming.
QuitReturns == shutting ~> pc = "exited"
-----------------------------------------------------------------------------
(***************************************************************************)
(* The inductive invariant behind the safety properties, for StartDelays   *)
(* without 0.                                                              *)
(***************************************************************************)
\* The thread is in an action only where the loop runs them, nothing is
\* ready outside the part of a turn that makes and runs ready actions, and
\* from the loop's last look at Xlib's queue only actions fill it.
LoopInv ==
    /\ pc \in Places
    /\ onWire \in Nat /\ queued \in Nat /\ late \in Nat
    /\ running => pc = "deferred"
    /\ ~running => late = 0
    /\ pc \in {"startup", "top", "check", "poll", "timeouts", "exited"} => done = << >>
    /\ pc = "poll" => ~shutting
    /\ pc \in {"messages", "deferred"} /\ "x" \in revents => queued = late
=============================================================================
