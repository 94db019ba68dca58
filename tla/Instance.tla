------------------------------- MODULE Instance -------------------------------
(***************************************************************************)
(* Which process is the daemon of a display: the MANAGER selection of each *)
(* screen that do_run claims, how a starting process finds, refuses or     *)
(* replaces the one that is running, and how the running one is told to    *)
(* stop (do_run, do_quit, do_restart, wm_event of xde-watch.c; the other   *)
(* daemons have the same code and the same selection).                     *)
(*                                                                         *)
(* Several processes run side by side.  The X server keeps the owner of    *)
(* each selection, tells an owner that loses one (SelectionClear), and     *)
(* destroys the windows of a process that ends, which those who asked for  *)
(* it learn (DestroyNotify) and which leaves its selections without owner. *)
(***************************************************************************)
EXTENDS Integers, Sequences, FiniteSets, SequencesExt

CONSTANTS
    NScreens,       \* screens of the display
    Clients,        \* processes that ever run the daemon
    Running,        \* at most one that is running in the beginning
    Replacing,      \* those started with --replace
    Unqualified,    \* those whose argv[0] is a name found through PATH
    Nobody,
    MaxCommands,    \* bound: quit and restart commands sent
    MayRestart      \* restart commands are sent too

ASSUME InstanceAssumption ==
    /\ NScreens \in Nat \ {0}
    /\ Running \subseteq Clients
    /\ \A c, d \in Running : c = d
    /\ Replacing \subseteq Clients
    /\ Unqualified \subseteq Clients
    /\ Nobody \notin Clients
    /\ MaxCommands \in Nat
    /\ MayRestart \in BOOLEAN

VARIABLES
    owner,          \* owner of each screen's selection
    pc,             \* where each process is
    at,             \* the screen it has come to in the loops of do_run
    prev,           \* scr->owner: the owner it found on each screen
    gone,           \* screens whose former owner's DestroyNotify has arrived
    inbox,          \* its SelectionClear and ClientMessage events
    told,           \* what xde_main_quit was last given, if anything
    letters,        \* commands whose sender has found whom to send them to
    commands        \* commands given so far

vars == <<owner, pc, at, prev, gone, inbox, told, letters, commands>>

Screens == 0..(NScreens - 1)
Places == {"look", "claim", "await", "running", "leaving", "exited"}

Clear(s) == [type |-> "SelectionClear", screen |-> s]
Command(kind) == [type |-> kind, screen |-> 0]
Message == [type : {"SelectionClear", "Quit", "Restart"}, screen : Screens]
Letter == [n : Nat, kind : {"Quit", "Restart"}, to : Clients]

-----------------------------------------------------------------------------
Init ==
    /\ owner \in [Screens -> Running \cup {Nobody}]
    /\ \A s \in Screens : Running # {} => owner[s] \in Running
    /\ pc = [c \in Clients |-> IF c \in Running THEN "running" ELSE "look"]
    /\ at = [c \in Clients |-> 0]
    /\ prev = [c \in Clients |-> [s \in Screens |-> Nobody]]
    /\ gone = [c \in Clients |-> {}]
    /\ inbox = [c \in Clients |-> << >>]
    /\ told = [c \in Clients |-> "none"]
    /\ letters = {}
    /\ commands = 0

Goto(c, place) == pc' = [pc EXCEPT ![c] = place]

\* The windows of c are destroyed: by exit(3), or by execv(2), which closes
\* the connection.  What is sent to them from now on is lost (BadWindow).
Destroyed(c) ==
    /\ owner' = [s \in Screens |-> IF owner[s] = c THEN Nobody ELSE owner[s]]
    /\ gone' = [d \in Clients |->
                   IF d = c THEN {}
                   ELSE gone[d] \cup {s \in Screens : prev[d][s] = c}]
    /\ inbox' = [inbox EXCEPT ![c] = << >>]
    /\ told' = [told EXCEPT ![c] = "none"]
    /\ letters' = {l \in letters : l.to # c}

(***************************************************************************)
(* do_run, first loop, one screen.                                         *)
(***************************************************************************)
\* Under XGrabServer: who owns the selection; its windows are watched.
Look(c) ==
    /\ pc[c] = "look"
    /\ prev' = [prev EXCEPT ![c][at[c]] = owner[at[c]]]
    /\ gone' = [gone EXCEPT ![c] = @ \ {at[c]}]
    /\ Goto(c, "claim")
    /\ UNCHANGED <<owner, at, inbox, told, letters, commands>>

MayClaim(c) == prev[c][at[c]] = Nobody \/ c \in Replacing

\* After XUngrabServer: XSetSelectionOwner, whoever owns it by now (the time
\* it is given, options.timestamp, is 0 or taken to be current) ...
Claim(c) ==
    LET s == at[c] IN
    /\ pc[c] = "claim"
    /\ MayClaim(c)
    /\ owner' = [owner EXCEPT ![s] = c]
    /\ inbox' = IF owner[s] \notin {Nobody, c}
                THEN [inbox EXCEPT ![owner[s]] = Append(@, Clear(s))]
                ELSE inbox
    /\ IF s + 1 < NScreens
       THEN at' = [at EXCEPT ![c] = s + 1] /\ Goto(c, "look")
       ELSE at' = [at EXCEPT ![c] = 0] /\ Goto(c, "await")
    /\ UNCHANGED <<prev, gone, told, letters, commands>>

\* ... or "another instance already on screen", and exit.
Refused(c) ==
    /\ pc[c] = "claim"
    /\ ~MayClaim(c)
    /\ Destroyed(c)
    /\ Goto(c, "exited")
    /\ UNCHANGED <<at, prev, commands>>

(***************************************************************************)
(* Second loop: a process that replaces waits in XIfEvent until the window *)
(* of the former owner is destroyed; everything else stays queued.  Then   *)
(* do_startup checks every screen and puts its properties on the roots.    *)
(***************************************************************************)
Released(c, s) == prev[c][s] = Nobody \/ c \notin Replacing \/ s \in gone[c]

Await_NoReset_Fault(c) ==
    /\ pc[c] = "await"
    /\ Released(c, at[c])
    /\ prev' = [prev EXCEPT ![c][at[c]] = IF c \in Replacing THEN Nobody ELSE @]
    /\ at' = [at EXCEPT ![c] = @ + 1]
    /\ IF at[c] + 1 < NScreens THEN UNCHANGED pc ELSE Goto(c, "running")
    /\ UNCHANGED <<owner, gone, inbox, told, letters, commands>>

Await(c) ==
    /\ pc[c] = "await"
    /\ Released(c, at[c])
    /\ prev' = [prev EXCEPT ![c][at[c]] = IF c \in Replacing THEN Nobody ELSE @]
    /\ IF at[c] + 1 < NScreens
       THEN /\ at' = [at EXCEPT ![c] = @ + 1]
            /\ UNCHANGED pc
       ELSE /\ at' = [at EXCEPT ![c] = 0]
            /\ Goto(c, "running")
    /\ UNCHANGED <<owner, gone, inbox, told, letters, commands>>

(***************************************************************************)
(* xde_main_loop.  Each message is handled by wm_event, which only notes   *)
(* (xde_main_quit) what the loop is to return; the loop goes on until no   *)
(* event is left, so that of several messages the last one decides.  cur   *)
(* is the screen the last event or action left in scr, any of them.        *)
(***************************************************************************)
Handle(c, type) ==
    /\ pc[c] = "running"
    /\ inbox[c] # << >>
    /\ Head(inbox[c]).type = type
    /\ inbox' = [inbox EXCEPT ![c] = Tail(@)]
    /\ UNCHANGED <<owner, pc, at, prev, gone, letters, commands>>

Noted(c, value) == told' = [told EXCEPT ![c] = value]

\* SelectionClear counts when its window is that of scr.
HandleClear_Ignored_Fault(c, cur) == Handle(c, "SelectionClear") /\ UNCHANGED told

HandleClear(c, cur) ==
    /\ Handle(c, "SelectionClear")
    /\ IF Head(inbox[c]).screen = cur THEN Noted(c, "Quit") ELSE UNCHANGED told

HandleCommand(c, kind) == Handle(c, kind) /\ Noted(c, kind)

\* XPending finds nothing: xde_process_xevents returns, then the loop.
Return(c) ==
    /\ pc[c] = "running"
    /\ inbox[c] = << >>
    /\ told[c] # "none"
    /\ Goto(c, "leaving")
    /\ UNCHANGED <<owner, at, prev, gone, inbox, told, letters, commands>>

(***************************************************************************)
(* What do_run does with the value that the loop has returned.             *)
(***************************************************************************)
Quit_Disowns_Fault(c) ==
    /\ owner' = [s \in Screens |-> Nobody]
    /\ gone' = [d \in Clients |->
                   IF d = c THEN {}
                   ELSE gone[d] \cup {s \in Screens : prev[d][s] = c}]
    /\ inbox' = [inbox EXCEPT ![c] = << >>]
    /\ told' = [told EXCEPT ![c] = "none"]
    /\ letters' = {l \in letters : l.to # c}
    /\ Goto(c, "exited")
    /\ UNCHANGED <<at, prev, commands>>

\* xde_del_properties and exit(3).  The deletions are only put in the output
\* buffer of Xlib, and nothing flushes it: the properties stay.
Quit(c) ==
    /\ Destroyed(c)
    /\ Goto(c, "exited")
    /\ UNCHANGED <<at, prev, commands>>

\* execv(2) takes argv[0] from the current directory, "/" since do_startup:
\* where it fails, the process quits.
ExecFails(c) == c \in Unqualified

Leave(c) ==
    /\ pc[c] = "leaving"
    /\ told[c] = "Quit" \/ ExecFails(c)
    /\ Quit(c)

\* The process executes itself with the same arguments.
Execute(c) ==
    /\ pc[c] = "leaving"
    /\ told[c] = "Restart"
    /\ ~ExecFails(c)
    /\ Destroyed(c)
    /\ Goto(c, "look")
    /\ at' = [at EXCEPT ![c] = 0]
    /\ prev' = [prev EXCEPT ![c] = [s \in Screens |-> Nobody]]
    /\ UNCHANGED commands

(***************************************************************************)
(* do_quit, do_restart: another process asks for the owner of the          *)
(* selection of the screen that DISPLAY names, then sends it the command,  *)
(* whoever owns the selection by then.                                     *)
(***************************************************************************)
FindOwner(kind) ==
    /\ commands < MaxCommands
    /\ kind = "Restart" => MayRestart
    /\ commands' = commands + 1
    /\ \E s \in Screens :
            /\ owner[s] # Nobody
            /\ letters' = letters \cup
                    {[n |-> commands, kind |-> kind, to |-> owner[s]]}
    /\ UNCHANGED <<owner, pc, at, prev, gone, inbox, told>>

Send(letter) ==
    /\ inbox' = [inbox EXCEPT ![letter.to] = Append(@, Command(letter.kind))]
    /\ letters' = letters \ {letter}
    /\ UNCHANGED <<owner, pc, at, prev, gone, told, commands>>

-----------------------------------------------------------------------------
Step(c) ==
    \/ Look(c) \/ Claim(c) \/ Refused(c) \/ Await(c)
    \/ \E cur \in Screens : HandleClear(c, cur)
    \/ \E kind \in {"Quit", "Restart"} : HandleCommand(c, kind)
    \/ Return(c) \/ Leave(c) \/ Execute(c)

Next ==
    \/ \E c \in Clients : Step(c)
    \/ \E kind \in {"Quit", "Restart"} : FindOwner(kind)
    \/ \E letter \in letters : Send(letter)

Spec == Init /\ [][Next]_vars

\* Every process runs; nobody need send a command.
FairSpec == Spec /\ \A c \in Clients : WF_vars(Step(c))

-----------------------------------------------------------------------------
TypeOK ==
    /\ owner \in [Screens -> Clients \cup {Nobody}]
    /\ pc \in [Clients -> Places]
    /\ at \in [Clients -> Screens]
    /\ prev \in [Clients -> [Screens -> Clients \cup {Nobody}]]
    /\ gone \in [Clients -> SUBSET Screens]
    /\ inbox \in [Clients -> Seq(Message)]
    /\ told \in [Clients -> {"none", "Quit", "Restart"}]
    /\ letters \subseteq Letter
    /\ commands \in Nat

\* A process that has claimed a screen's selection and lost it again has the
\* SelectionClear still before it, or knows that its main loop is to return:
\* it cannot go on unaware (do_run, wm_event).  With several screens a
\* SelectionClear may be thrown away, when scr is that of another screen.
LosersAreTold ==
    \A c \in Clients, s \in Screens :
        pc[c] \in {"await", "running", "leaving"} /\ owner[s] # c
            => Contains(inbox[c], Clear(s)) \/ told[c] # "none"

\* "ensure that only a single instance of the program is running on a screen
\* of the X Display at a given time" (man/xde-stylemon.pod), the reason why
\* do_run waits for the former owner's window to be destroyed.
SingleInstance ==
    \A c, d \in Clients : pc[c] = "running" /\ pc[d] = "running" => c = d

\* A process that starts comes to run or gives up: none waits forever for a
\* former owner that has gone or does not know it must go ("Replace a
\* running instance of xde-watch with this instance", man/xde-watch.pod).
StartCompletes ==
    \A c \in Clients :
        pc[c] \in {"look", "claim", "await"} ~> pc[c] \in {"running", "exited"}

\* However the starts, replacements and commands interleave, one instance at
\* most is left in the end.
SettlesToOne == <>[]SingleInstance

\* Nor is none: as long as nobody sends a command, starts and replacements
\* that overlap in any way leave a process that runs and owns the selections
\* (the replaced one goes without disowning what is no longer its own).
LeavesOne ==
    Running # {} =>
        <>[](commands = 0 => \E c \in Clients :
                /\ pc[c] = "running"
                /\ \A s \in Screens : owner[s] = c)

=============================================================================
