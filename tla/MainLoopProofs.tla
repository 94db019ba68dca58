---------------------------- MODULE MainLoopProofs ----------------------------
(***************************************************************************)
(* What is proved of MainLoop for every value of its constants: the loop   *)
(* implements the deferred queue, so that all that DeferQueueProofs proves *)
(* holds under the loop; the three safety properties of its turns; and     *)
(* that it does not sleep through the time of an action.                   *)
(***************************************************************************)
EXTENDS MainLoop, DeferQueueProofs

\* Whatever the loop, its handlers and its actions do to the deferred lists
\* is a step of DeferQueue: the loop calls xde_process_timeouts only for an
\* expired timer and never within an action.
LEMMA LoopStepIsQueueStep ==
    ASSUME LoopNext
    PROVE  [Next]_vars
<1>1. CASE Thread
  <2>1. CASE Timeouts
    BY <2>1 DEF Timeouts, Next
  <2>2. CASE HandleEvent
    BY <2>2 DEF HandleEvent, Next
  <2>3. CASE StartDeferred \/ EndAction
    BY <2>3 DEF StartDeferred, EndAction, Next
  <2>4. CASE \/ StartupDone \/ Top \/ Check \/ PollReturns \/ PendingReads
             \/ NothingPending \/ Sync \/ NoXevents \/ Messages \/ NoDeferred
    BY <2>4 DEF StartupDone, Top, Check, PollReturns, PendingReads, NothingPending,
        Sync, NoXevents, Messages, NoDeferred, UnchangedElse
  <2> QED
    BY <1>1, <2>1, <2>2, <2>3, <2>4 DEF Thread
<1>2. CASE Within
  <2>1. CASE StartupDefers
    <3>1. Defer
      BY <2>1, DeferAssumption, LoopAssumption DEF StartupDefers, Defer
    <3> QED
      BY <3>1 DEF Next
  <2>2. CASE ActionDefers \/ RoundTrip
    BY <2>2 DEF ActionDefers, RoundTrip, Next
  <2> QED
    BY <1>2, <2>1, <2>2 DEF Within
<1>3. CASE Around
  BY <1>3 DEF Around, ServerSends, ManagerSends, Signal, ClockTicks, Next
<1> QED
  BY <1>1, <1>2, <1>3 DEF LoopNext

\* The event loop implements the deferred queue.
THEOREM LoopImplementsQueue == LoopSpec => Spec
<1>1. LoopInit => Init
  BY DEF LoopInit
<1>2. [LoopNext]_allVars => [Next]_vars
  <2>1. CASE UNCHANGED allVars
    BY <2>1 DEF allVars
  <2> QED
    BY <2>1, LoopStepIsQueueStep
<1> QED
  BY <1>1, <1>2, PTL DEF LoopSpec, Spec

\* Under the loop, whatever it is woken for, no deferred action is ready
\* before its time (xde_defer_action, xde_process_timeouts).
THEOREM LoopNeverEarly == LoopSpec => []NotEarly
  BY LoopImplementsQueue, NeverEarly, PTL

-----------------------------------------------------------------------------
LEMMA LoopInvInit ==
    ASSUME LoopInit
    PROVE  LoopInv
  BY DEF LoopInit, Init, LoopInv, Places

\* A deferral with a delay leaves the ready list alone.
LEMMA DelayedLeavesReady ==
    ASSUME NEW k, NEW delay, NEW s, DeferOnce(k, delay, s), delay # 0
    PROVE  done' = done /\ running' = running
  BY DEF DeferOnce, DeferAction

LEMMA DeferLeavesRunning ==
    ASSUME Defer
    PROVE  running' = running
  BY DEF Defer, DeferOnce, DeferAction

\* The steps of the thread preserve the invariant.
LEMMA ThreadPreserves ==
    ASSUME LoopInv, Thread
    PROVE  LoopInv'
<1> USE DEF LoopInv, Places
<1>1. CASE StartupDone
  BY <1>1 DEF StartupDone, Goto, UnchangedElse, vars
<1>2. CASE Top
  BY <1>2 DEF Top, Goto, MainQuit, vars
<1>3. CASE Check
  BY <1>3 DEF Check, Goto, UnchangedElse, vars
<1>4. CASE PollReturns
  BY <1>4 DEF PollReturns, Goto, vars
<1>5. CASE Timeouts
  BY <1>5 DEF Timeouts, Goto, ProcessTimeouts, vars
<1>6. CASE HandleEvent
  <2>1. /\ pc = "xevents" /\ pc' = pc /\ ~running
        /\ queued' \in Nat /\ onWire' = onWire /\ late' = late
    BY <1>6 DEF HandleEvent, InXevents
  <2>2. running' = running
    BY <1>6, DeferLeavesRunning DEF HandleEvent, vars
  <2> QED
    BY <2>1, <2>2
<1>7. CASE PendingReads
  BY <1>7 DEF PendingReads, InXevents, vars
<1>8. CASE NothingPending
  BY <1>8 DEF NothingPending, InXevents, Goto, UnchangedElse, vars
<1>9. CASE Sync
  BY <1>9 DEF Sync, Goto, vars
<1>10. CASE NoXevents
  BY <1>10 DEF NoXevents, Goto, UnchangedElse, vars
<1>11. CASE Messages
  BY <1>11 DEF Messages, Goto, vars
<1>12. CASE NoDeferred
  BY <1>12 DEF NoDeferred, Goto, UnchangedElse, vars
<1>13. CASE StartDeferred
  BY <1>13 DEF StartDeferred, BeginDeferred, loopVars
<1>14. CASE EndAction
  BY <1>14 DEF EndAction, ActionReturns, Goto
<1> QED
  BY <1>1, <1>2, <1>3, <1>4, <1>5, <1>6, <1>7, <1>8, <1>9, <1>10, <1>11, <1>12,
     <1>13, <1>14 DEF Thread

\* So do handlers, actions and the world around the thread.
LEMMA OthersPreserve ==
    ASSUME LoopInv, Within \/ Around, 0 \notin StartDelays
    PROVE  LoopInv'
<1> USE DEF LoopInv, Places
<1>1. CASE StartupDefers
  <2>1. pc = "startup" /\ UNCHANGED loopVars
    BY <1>1 DEF StartupDefers
  <2>2. done' = done /\ running' = running
    BY <1>1, DelayedLeavesReady DEF StartupDefers
  <2> QED
    BY <2>1, <2>2 DEF loopVars
<1>2. CASE ActionDefers
  BY <1>2, DeferLeavesRunning DEF ActionDefers, loopVars
<1>3. CASE RoundTrip
  BY <1>3 DEF RoundTrip, InXevents, vars
<1>4. CASE ServerSends
  BY <1>4 DEF ServerSends, vars
<1>5. CASE ManagerSends
  BY <1>5 DEF ManagerSends, vars
<1>6. CASE Signal
  BY <1>6 DEF Signal, vars
<1>7. CASE ClockTicks
  BY <1>7 DEF ClockTicks, Tick, loopVars
<1> QED
  BY <1>1, <1>2, <1>3, <1>4, <1>5, <1>6, <1>7 DEF Within, Around

\* A daemon that defers nothing without a delay before it enters the loop
\* keeps the loop's invariant.
THEOREM LoopInvariance ==
    ASSUME 0 \notin StartDelays
    PROVE  LoopSpec => []LoopInv
<1>1. LoopInv /\ [LoopNext]_allVars => LoopInv'
  <2>1. ASSUME LoopInv, UNCHANGED allVars
        PROVE  LoopInv'
    BY <2>1 DEF LoopInv, allVars, vars, loopVars
  <2>2. ASSUME LoopInv, LoopNext
        PROVE  LoopInv'
    BY <2>2, ThreadPreserves, OthersPreserve DEF LoopNext
  <2> QED
    BY <2>1, <2>2
<1>2. LoopInit => LoopInv
  BY LoopInvInit
<1> QED
  BY <1>1, <1>2, PTL DEF LoopSpec

\* The loop never sleeps, and never quits, on an action that is ready.
THEOREM ReadyNeverSleeps ==
    ASSUME 0 \notin StartDelays
    PROVE  LoopSpec => []NeverSleepsOnReady
<1>1. LoopInv => NeverSleepsOnReady
  BY DEF LoopInv, NeverSleepsOnReady
<1> QED
  BY <1>1, LoopInvariance, PTL

\* Told to quit, the loop does not wait for another event.
THEOREM QuitNeverSleeps ==
    ASSUME 0 \notin StartDelays
    PROVE  LoopSpec => []NeverSleepsAfterQuit
<1>1. LoopInv => NeverSleepsAfterQuit
  BY DEF LoopInv, NeverSleepsAfterQuit
<1> QED
  BY <1>1, LoopInvariance, PTL

\* In a turn woken by X events, whichever of its actions begins, the events that
\* Xlib holds were read by actions of the same turn (xde_process_xevents has
\* handled all the others; xde_process_deferred handles none).
THEOREM EventsComeFirst ==
    ASSUME 0 \notin StartDelays
    PROVE  LoopSpec => []EventsBeforeActions
<1>1. LoopInv => EventsBeforeActions
  BY DEF LoopInv, EventsBeforeActions
<1> QED
  BY <1>1, LoopInvariance, PTL

-----------------------------------------------------------------------------
\* The types of the loop's own variables, and a message where one is read.
LoopTyped ==
    /\ pc \in Places
    /\ revents \subseteq Sources
    /\ onWire \in Nat /\ queued \in Nat /\ late \in Nat /\ messages \in Nat
    /\ signum \in BOOLEAN /\ shutting \in BOOLEAN
    /\ sent \in [events : Nat, signals : Nat, messages : Nat]
    /\ pc \in {"timeouts", "xevents", "sync", "messages"} /\ "ice" \in revents
         => messages > 0

\* The steps of the thread keep these types.
LEMMA ThreadTyped ==
    ASSUME LoopTyped, Thread
    PROVE  LoopTyped'
<1> USE DEF LoopTyped, Places
<1>1. CASE StartupDone \/ Top \/ Check
  BY <1>1 DEF StartupDone, Top, Check, Goto, MainQuit, UnchangedElse
<1>2. CASE PollReturns
  BY <1>2 DEF PollReturns, Goto, Readable, Sources
<1>3. CASE Timeouts
  BY <1>3 DEF Timeouts, Goto
<1>4. CASE HandleEvent
  <2>1. shutting' \in BOOLEAN
    BY <1>4, Zenon DEF HandleEvent, MainQuit, vars
  <2>2. /\ queued' \in Nat
        /\ UNCHANGED <<pc, revents, onWire, late, messages, signum, sent>>
    BY <1>4 DEF HandleEvent
  <2> QED
    BY <2>1, <2>2
<1>5. CASE PendingReads \/ NothingPending \/ NoXevents
  BY <1>5 DEF PendingReads, NothingPending, NoXevents, InXevents, Goto, UnchangedElse
<1>6. CASE Sync
  BY <1>6 DEF Sync, Goto
<1>7. CASE Messages
  <2>1. shutting' \in BOOLEAN
    BY <1>7, Zenon DEF Messages, MainQuit
  <2>2. /\ pc' = "deferred" /\ messages' \in Nat
        /\ UNCHANGED <<revents, onWire, queued, late, signum, sent>>
    BY <1>7 DEF Messages, Goto
  <2> QED
    BY <2>1, <2>2
<1>8. CASE NoDeferred \/ StartDeferred \/ EndAction
  BY <1>8 DEF NoDeferred, StartDeferred, EndAction, Goto, UnchangedElse, loopVars
<1> QED
  BY <1>1, <1>2, <1>3, <1>4, <1>5, <1>6, <1>7, <1>8 DEF Thread

\* Those of handlers, actions and the world do.
LEMMA OthersTyped ==
    ASSUME LoopTyped, Within \/ Around
    PROVE  LoopTyped'
<1> USE DEF LoopTyped, Places
<1>1. CASE StartupDefers \/ ActionDefers \/ ClockTicks
  BY <1>1 DEF StartupDefers, ActionDefers, ClockTicks, loopVars
<1>2. CASE RoundTrip
  BY <1>2 DEF RoundTrip
<1>3. CASE ServerSends
  BY <1>3 DEF ServerSends
<1>4. CASE ManagerSends
  BY <1>4 DEF ManagerSends
<1>5. CASE Signal
  BY <1>5 DEF Signal
<1> QED
  BY <1>1, <1>2, <1>3, <1>4, <1>5 DEF Within, Around

\* Every variable keeps its type; in particular no more messages of the
\* session manager are processed than have come (xde_process_messages).
THEOREM LoopTyping == LoopSpec => []LoopTypeOK
<1>1. LoopInit => LoopTyped
  <2> SUFFICES ASSUME LoopInit PROVE LoopTyped
    OBVIOUS
  <2>1. signum \in BOOLEAN /\ shutting \in BOOLEAN
    BY Zenon DEF LoopInit
  <2>2. /\ pc = "startup" /\ revents = {} /\ onWire = 0 /\ queued = 0 /\ late = 0 /\ messages = 0
        /\ sent = [events |-> 0, signals |-> 0, messages |-> 0]
    BY DEF LoopInit
  <2> QED
    BY <2>1, <2>2 DEF LoopTyped, Places
<1>2. LoopTyped /\ [LoopNext]_allVars => LoopTyped'
  <2>1. ASSUME LoopTyped, UNCHANGED allVars
        PROVE  LoopTyped'
    BY <2>1 DEF LoopTyped, allVars, loopVars
  <2> QED
    BY <2>1, ThreadTyped, OthersTyped DEF LoopNext
<1>3. LoopTyped /\ TypeOK => LoopTypeOK
  BY DEF LoopTyped, LoopTypeOK
<1> QED
  BY <1>1, <1>2, <1>3, LoopImplementsQueue, Typing, PTL DEF LoopSpec

-----------------------------------------------------------------------------
\* What WaitingIsInvoked rests on besides fairness.  Where the thread sleeps, an
\* action whose time has come makes poll(2) return, unless timerfd_settime has
\* refused the time of the first one.
NoWakeupLost ==
    pc = "poll" =>
        \A d \in NotInvoked :
            ~Before(clock, d.when) /\ Valid(Head(wait).when) => "timer" \in Readable

\* Under the loop each action is invoked once, and never before the delay it
\* was deferred with has passed (the comment of xde_defer_action).
THEOREM LoopKeepsPromise == LoopSpec => KeepsPromise
  BY LoopImplementsQueue, Implements, PTL

\* The loop never sleeps through the time of an action, in whatever order
\* events, messages, signals and other actions come: whatever has been deferred
\* is behind the first of deferred_wait, and the timer is set for that one
\* (xde_main_loop, set_timer).
THEOREM LoopWakes ==
    ASSUME 0 \notin StartDelays
    PROVE  LoopSpec => []NoWakeupLost
<1>1. LoopInv /\ IInv => NoWakeupLost
  <2> SUFFICES ASSUME LoopInv, IInv, pc = "poll", NEW d \in NotInvoked,
                      ~Before(clock, d.when), Valid(Head(wait).when)
               PROVE  "timer" \in Readable
    BY DEF NoWakeupLost
  <2>1. /\ done = << >> /\ ~running /\ WaitSorted /\ TimerCoversHead
        /\ wait \in Seq(Entry)
        /\ clock \in [sec : Nat \ {0}, nsec : 0..(TicksPerSec - 1)]
    BY DEF LoopInv, IInv, TypeOK
  <2>2. PICK i \in 1..Len(wait) : d = wait[i]
    BY <2>1 DEF NotInvoked
  <2>3. wait # << >> /\ Head(wait) = wait[1] /\ 1 \in 1..Len(wait) /\ (i = 1 \/ 1 < i)
    BY <2>1, <2>2
  <2>4. timer = wait[1].when
    BY <2>1, <2>3 DEF TimerCoversHead
  <2>5. /\ wait[1].when \in Timespec /\ wait[i].when \in Timespec
        /\ clock \in Timespec /\ wait[1].when.sec > 0
    <3>1. wait[1] \in Entry /\ wait[i] \in Entry
      BY <2>1, <2>3
    <3>2. clock \in Timespec
      BY <2>1, DeferAssumption DEF Timespec
    <3> QED
      BY <2>1, <2>3, <3>1, <3>2 DEF Entry, WaitSorted
  <2>6. ~Before(wait[i].when, wait[1].when)
    BY <2>1, <2>3, <2>5, NotBeforeOrder DEF WaitSorted
  <2>7. ~Before(clock, wait[1].when)
    BY <2>2, <2>5, <2>6, NotBeforeOrder
  <2>8. timer # Disarmed
    BY <2>4, <2>5 DEF Disarmed
  <2> QED
    BY <2>4, <2>7, <2>8 DEF TimerExpired, Readable, Sources
<1> QED
  BY <1>1, LoopInvariance, LoopImplementsQueue, Invariance, PTL
=============================================================================
