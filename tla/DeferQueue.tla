------------------------------ MODULE DeferQueue ------------------------------
(***************************************************************************)
(* The deferred actions of libxde: the sorted list deferred_wait, the      *)
(* timerfd armed for its head, the ready list deferred_done, and the       *)
(* routines that move an entry from the first to the second and run it     *)
(* (src/src/xde.c, struct _WmDeferred to xde_process_deferred).            *)
(*                                                                         *)
(* The routines are called by event handlers, callbacks and the actions    *)
(* themselves; here any caller may call them whenever the single thread    *)
(* could (module MainLoop adds the loop that decides when it does).  Time  *)
(* is the monotonic clock, read as a timespec whose nanoseconds are        *)
(* counted in ticks of one millisecond.                                    *)
(***************************************************************************)
EXTENDS Integers, Sequences, SequencesExt

CONSTANTS
    Keys,           \* what may be deferred: an action and its client data
    OnceKeys,       \* the keys deferred through xde_defer_once
    Screens,        \* screen numbers
    Delays,         \* delays asked for, in ticks; 0 asks for "immediately"
    TicksPerSec,    \* ticks of the tv_nsec field in a second
    MaxDefers,      \* bound: entries allocated in a behaviour
    LastSec,        \* bound: last second in which anything is deferred
    EndSec          \* bound: second in which the clock stops

ASSUME DeferAssumption ==
    /\ OnceKeys \subseteq Keys
    /\ Delays \subseteq Nat
    /\ TicksPerSec \in Nat \ {0}
    /\ MaxDefers \in Nat
    /\ LastSec \in Nat
    /\ EndSec \in Nat

VARIABLES
    clock,          \* CLOCK_MONOTONIC
    wait,           \* deferred_wait, head first
    done,           \* deferred_done, head first
    timer,          \* expiry set in the timerfd, Disarmed when it has none
    running,        \* xde_process_deferred is in the action of Head(done)
    allocated       \* entries allocated so far; names each of them

vars == <<clock, wait, done, timer, running, allocated>>

-----------------------------------------------------------------------------
(***************************************************************************)
(* Timespecs.  tv_nsec may be TicksPerSec: xde_defer_action carries into   *)
(* tv_sec only when the sum is greater than a second.                      *)
(***************************************************************************)
Timespec == [sec : Nat, nsec : 0..TicksPerSec]

Entry == [id : Nat, key : Keys, screen : Screens, when : Timespec]

\* A timerfd whose expiry is zero is disarmed; the clock is never zero.
Disarmed == [sec |-> 0, nsec |-> 0]

Before(t, u) == t.sec < u.sec \/ (t.sec = u.sec /\ t.nsec < u.nsec)

\* timerfd_settime refuses (EINVAL) a tv_nsec that is not below a second.
Valid(t) == t.nsec < TicksPerSec

(***************************************************************************)
(* Names ending in _Fault are variants with a plausible mistake in them.   *)
(* No specification uses one: they stand in for the definition that        *)
(* follows to show that a property would notice the mistake.               *)
(***************************************************************************)
WhenDue_NotNormalised_Fault(delay) ==
    [sec |-> clock.sec + (delay \div TicksPerSec),
     nsec |-> clock.nsec + (delay % TicksPerSec)]

WhenDue_CarryLost_Fault(delay) ==
    [sec |-> clock.sec + (delay \div TicksPerSec),
     nsec |-> (clock.nsec + (delay % TicksPerSec)) % TicksPerSec]

\* The time at which an action deferred now by delay becomes due.
WhenDue(delay) ==
    LET sec  == clock.sec + (delay \div TicksPerSec)
        nsec == clock.nsec + (delay % TicksPerSec)
    IN  IF nsec > TicksPerSec
        THEN [sec |-> sec + 1, nsec |-> nsec - TicksPerSec]
        ELSE [sec |-> sec, nsec |-> nsec]

NewEntry(k, delay, s) ==
    [id |-> allocated + 1, key |-> k, screen |-> s, when |-> WhenDue(delay)]

TimerSet_WholeSeconds_Fault(t, old) == [t EXCEPT !.nsec = 0]

TimerSet_OnlyWhenIdle_Fault(t, old) == IF old = Disarmed /\ Valid(t) THEN t ELSE old

\* The timerfd after set_timer(t): a refused setting leaves the old one.
TimerSet(t, old) == IF Valid(t) THEN t ELSE old

Rearmed_Fault(list) == Disarmed

\* The timerfd once its expiration has been read, with list still waiting.
Rearmed(list) == IF list = << >> THEN Disarmed ELSE TimerSet(Head(list).when, Disarmed)

\* Position i is where d belongs in deferred_wait: before the first entry
\* that is not earlier than it.
InsertPosition(i, d) ==
    /\ \A j \in 1..(i - 1) : Before(wait[j].when, d.when)
    /\ i <= Len(wait) => ~Before(wait[i].when, d.when)

DeferredIn(list, k) == \E i \in 1..Len(list) : list[i].key = k

-----------------------------------------------------------------------------
Init ==
    /\ clock \in [sec : {1}, nsec : 0..(TicksPerSec - 1)]
    /\ wait = << >>
    /\ done = << >>
    /\ timer = Disarmed
    /\ running = FALSE
    /\ allocated = 0

\* A handler runs on the screen it selected, an action on its own screen.
CallerScreen(s) == running => s = Head(done).screen

\* xde_defer_action: into the sorted list behind the timer, or, without a
\* delay, to the end of the ready list.
DeferAction(k, delay, s) ==
    LET d == NewEntry(k, delay, s) IN
    /\ allocated < MaxDefers /\ clock.sec <= LastSec
    /\ CallerScreen(s)
    /\ allocated' = allocated + 1
    /\ \/ /\ delay > 0
          /\ \E i \in 1..(Len(wait) + 1) :
                /\ InsertPosition(i, d)
                /\ wait' = InsertAt(wait, i, d)
                /\ timer' = IF i = 1 THEN TimerSet(d.when, timer) ELSE timer
          /\ UNCHANGED done
       \/ /\ delay = 0
          /\ done' = Append(done, d)
          /\ UNCHANGED <<wait, timer>>
    /\ UNCHANGED <<clock, running>>

OnceRefused_Fault(k, delay) == DeferredIn(done, k)

\* xde_defer_once queues nothing when the key is found: in both lists for a
\* delayed action, in deferred_done alone for an immediate one.  The screen
\* of the entry found is not looked at.
OnceRefused(k, delay) ==
    \/ delay > 0 /\ DeferredIn(wait, k)
    \/ DeferredIn(done, k)

DeferOnce(k, delay, s) ==
    /\ ~OnceRefused(k, delay)
    /\ DeferAction(k, delay, s)

\* xde_process_timeouts: the timer was set once and has expired, so one
\* expiration is read and the head becomes ready; the timer is set again.
ProcessTimeouts ==
    /\ ~running
    /\ timer # Disarmed /\ ~Before(clock, timer)
    /\ wait # << >>
    /\ wait' = Tail(wait)
    /\ done' = Append(done, Head(wait))
    /\ timer' = Rearmed(wait')
    /\ UNCHANGED <<clock, running, allocated>>

\* xde_process_deferred begins the first action ...
BeginDeferred ==
    /\ ~running
    /\ done # << >>
    /\ running' = TRUE
    /\ UNCHANGED <<clock, wait, done, timer, allocated>>

\* ... and, when an action returns, unlinks its entry and begins the next.
ActionReturns ==
    /\ running
    /\ done' = Tail(done)
    /\ running' = (done' # << >>)
    /\ UNCHANGED <<clock, wait, timer, allocated>>

Tick ==
    /\ clock.sec < EndSec
    /\ clock' = IF clock.nsec + 1 = TicksPerSec
                THEN [sec |-> clock.sec + 1, nsec |-> 0]
                ELSE [clock EXCEPT !.nsec = @ + 1]
    /\ UNCHANGED <<wait, done, timer, running, allocated>>

Defer ==
    \E delay \in Delays, s \in Screens :
        \/ \E k \in OnceKeys : DeferOnce(k, delay, s)
        \/ \E k \in Keys \ OnceKeys : DeferAction(k, delay, s)

Next ==
    \/ Defer
    \/ ProcessTimeouts
    \/ BeginDeferred
    \/ ActionReturns
    \/ Tick

Spec == Init /\ [][Next]_vars

\* Time passes, poll(2) returns for an expired timer, the loop reaches
\* xde_process_deferred while the ready list is not empty, actions return.
Fairness ==
    /\ WF_vars(Tick)
    /\ WF_vars(ProcessTimeouts)
    /\ WF_vars(BeginDeferred)
    /\ WF_vars(ActionReturns)

FairSpec == Spec /\ Fairness

-----------------------------------------------------------------------------
TypeOK ==
    /\ clock \in [sec : Nat \ {0}, nsec : 0..(TicksPerSec - 1)]
    /\ wait \in Seq(Entry)
    /\ done \in Seq(Entry)
    /\ timer \in Timespec
    /\ running \in BOOLEAN
    /\ allocated \in Nat
    /\ running => done # << >>

\* No action becomes ready before its time: "wait at least #delay
\* milliseconds before before processing the deferred action" (the comment
\* of xde_defer_action).  It rests on the order of deferred_wait and on the
\* timer never being set for an earlier time than its head's.
NotEarly == \A i \in 1..Len(done) : ~Before(clock, done[i].when)

\* The timer is set for exactly the head of deferred_wait, whatever was
\* inserted before or removed, unless timerfd_settime refused the head's
\* time; and it is never left set for an empty list.
TimerCoversHead ==
    /\ wait = << >> => timer = Disarmed
    /\ wait # << >> /\ Valid(Head(wait).when) => timer = Head(wait).when

\* An action deferred through xde_defer_once cannot pile up, however many
\* events ask for it: it waits at most once and is queued at most twice.
OnceBounded ==
    \A k \in OnceKeys :
        LET waiting == {i \in 1..Len(wait) : wait[i].key = k}
            ready   == {i \in 1..Len(done) : done[i].key = k}
        IN  /\ \A i, j \in waiting : i = j
            /\ \A i, j, l \in ready : i = j \/ j = l \/ i = l
            /\ waiting # {} => \A i, j \in ready : i = j

-----------------------------------------------------------------------------
(***************************************************************************)
(* The inductive invariant behind NotEarly, TimerCoversHead and the        *)
(* refinement below.                                                       *)
(***************************************************************************)
\* deferred_wait is sorted, and none of its times is the disarming zero.
WaitSorted ==
    /\ \A i \in 1..Len(wait) : wait[i].when.sec > 0
    /\ \A i, j \in 1..Len(wait) : i < j => ~Before(wait[j].when, wait[i].when)

\* The timer is never set for a time before the head's.
TimerNotEarly ==
    timer # Disarmed => wait # << >> /\ ~Before(timer, Head(wait).when)

\* An entry is in one place of one list.
EntriesDistinct ==
    /\ allocated <= MaxDefers
    /\ \A i \in 1..Len(wait) : wait[i].id \in 1..allocated
    /\ \A i \in 1..Len(done) : done[i].id \in 1..allocated
    /\ \A i, j \in 1..Len(wait) : wait[i].id = wait[j].id => i = j
    /\ \A i, j \in 1..Len(done) : done[i].id = done[j].id => i = j
    /\ \A i \in 1..Len(wait), j \in 1..Len(done) : wait[i].id # done[j].id

IInv ==
    /\ TypeOK
    /\ WaitSorted
    /\ TimerNotEarly
    /\ TimerCoversHead
    /\ NotEarly
    /\ EntriesDistinct

-----------------------------------------------------------------------------
(***************************************************************************)
(* The lists and the timer implement the promise of DeferPromise: an entry *)
(* is owed until its action is invoked, that is while it is in either list *)
(* and is not the one running.                                             *)
(***************************************************************************)
Ticks(t) == t.sec * TicksPerSec + t.nsec

Promised(d) ==
    [id |-> d.id, key |-> d.key, screen |-> d.screen, due |-> Ticks(d.when)]

NotInvoked ==
    {wait[i] : i \in 1..Len(wait)}
        \cup {done[i] : i \in (IF running THEN 2 ELSE 1)..Len(done)}

Promise == INSTANCE DeferPromise WITH
    time     <- Ticks(clock),
    owed     <- {Promised(d) : d \in NotInvoked},
    promised <- allocated

\* Whatever order entries are inserted, expire and run in, each action is
\* invoked once and never before the delay it was deferred with has passed
\* (the comment of xde_defer_action).
KeepsPromise == Promise!PromiseSafety

\* Every action deferred is invoked in the end, under FairSpec, unless
\* timerfd_settime has refused a time: no entry is stranded behind a timer that
\* was not set again, whatever was inserted ahead of it or expired before it
\* (set_timer and its two callers).
InvokedUnlessRefused ==
    \A id \in 1..MaxDefers :
        (\E d \in NotInvoked : d.id = id)
            ~> \/ \A d \in NotInvoked : d.id # id
               \/ \E i \in 1..Len(wait) : ~Valid(wait[i].when)

=============================================================================
