----------------------------- MODULE DeferPromise -----------------------------
(***************************************************************************)
(* What xde_defer_action promises its callers (the comment before it in    *)
(* src/src/xde.c): every action deferred is invoked exactly once, not      *)
(* before its delay has passed.  Nothing is said of lists or timers; time  *)
(* is a number of milliseconds.                                            *)
(***************************************************************************)
EXTENDS Integers

CONSTANTS Keys, Screens, Delays, MaxDefers

VARIABLES
    time,       \* milliseconds
    owed,       \* the actions deferred and not yet invoked
    promised    \* how many have been deferred

promiseVars == <<time, owed, promised>>

PromiseInit ==
    /\ time \in Nat
    /\ owed = {}
    /\ promised = 0

Promise(k, delay, s) ==
    /\ promised' = promised + 1
    /\ owed' = owed \cup
         {[id |-> promised + 1, key |-> k, screen |-> s, due |-> time + delay]}
    /\ UNCHANGED time

Invoke(id) ==
    /\ \E p \in owed :
         /\ p.id = id
         /\ p.due <= time
         /\ owed' = owed \ {p}
    /\ UNCHANGED <<time, promised>>

TimePasses ==
    /\ time' > time
    /\ UNCHANGED <<owed, promised>>

\* An action that returns begins the next one and frees itself in one step;
\* the invocation is all that is visible here.
PromiseNext ==
    \/ \E k \in Keys, delay \in Delays, s \in Screens : Promise(k, delay, s)
    \/ \E id \in 1..MaxDefers : Invoke(id)
    \/ TimePasses

PromiseSafety == PromiseInit /\ [][PromiseNext]_promiseVars

\* What is owed is invoked in the end.  InvokedUnlessRefused of DeferQueue says
\* when the code does so.
PromiseKept ==
    \A id \in 1..MaxDefers :
        (\E p \in owed : p.id = id) ~> (\A p \in owed : p.id # id)

PromiseSpec == PromiseSafety /\ PromiseKept

=============================================================================
