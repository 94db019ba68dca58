---------------------------- MODULE InstanceProofs ----------------------------
(***************************************************************************)
(* What is proved of Instance for any number of processes and commands.    *)
(* On any number of screens every variable keeps its type, and nobody      *)
(* waits for a process that has gone.  On one screen no process loses the  *)
(* selection unaware, no processes wait for each other in a circle, and of *)
(* those that start one is left.                                           *)
(***************************************************************************)
EXTENDS Instance, WellFoundedInduction, TLAPS

\* The messages that wait in the inbox of any process.
InboxOK == inbox \in [Clients -> Seq(Message)]

\* What the processes have noted, and the commands on their way.
MailOK ==
    /\ told \in [Clients -> {"none", "Quit", "Restart"}]
    /\ letters \subseteq Letter

\* The end of a process keeps the types of what it changes.
LEMMA DestroyedTyped ==
  ASSUME TypeOK, NEW c \in Clients, Destroyed(c)
  PROVE  /\ owner' \in [Screens -> Clients \cup {Nobody}]
         /\ gone' \in [Clients -> SUBSET Screens]
         /\ InboxOK' /\ MailOK'
<1>1. owner' \in [Screens -> Clients \cup {Nobody}]
  BY DEF Destroyed, TypeOK
<1>2. gone' \in [Clients -> SUBSET Screens]
  BY DEF Destroyed, TypeOK
<1>3. InboxOK'
  <2>1. << >> \in Seq(Message)
    OBVIOUS
  <2> QED
    BY <2>1 DEF Destroyed, TypeOK, InboxOK
<1>4. MailOK'
  BY DEF Destroyed, TypeOK, MailOK
<1> QED
  BY <1>1, <1>2, <1>3, <1>4

\* A message sent to a client is the last of its inbox.
LEMMA SentTyped ==
  ASSUME InboxOK, NEW d \in Clients, NEW m \in Message,
         inbox' = [inbox EXCEPT ![d] = Append(@, m)]
  PROVE  InboxOK'
BY DEF InboxOK

\* Each step keeps the types.
LEMMA TypedNext == TypeOK /\ [Next]_vars => TypeOK'
<1> SUFFICES ASSUME TypeOK, [Next]_vars PROVE TypeOK'
  OBVIOUS
<1>1. NScreens \in Nat /\ 0 \in Screens /\ Screens \subseteq Int
  BY InstanceAssumption DEF InstanceAssumption, Screens
<1>2. InboxOK
  BY DEF TypeOK, InboxOK
<1>3. CASE UNCHANGED vars
  BY <1>3 DEF TypeOK, vars
<1>4. ASSUME NEW c \in Clients, Look(c) PROVE TypeOK'
  BY <1>4 DEF Look, Goto, Places, TypeOK
<1>5. ASSUME NEW c \in Clients, Claim(c) PROVE TypeOK'
  <2>1. at[c] \in Screens
    BY DEF TypeOK
  <2>2. at[c] + 1 < NScreens => at[c] + 1 \in Screens
    BY <1>1, <2>1 DEF Screens
  <2>3. owner' \in [Screens -> Clients \cup {Nobody}]
    BY <1>5 DEF Claim, TypeOK
  <2>4. at' \in [Clients -> Screens] /\ pc' \in [Clients -> Places]
    BY <1>1, <1>5, <2>2 DEF Claim, Goto, Places, TypeOK
  <2>5. InboxOK'
    <3>1. Clear(at[c]) \in Message
      BY <2>1 DEF Clear, Message
    <3>2. owner[at[c]] \notin {Nobody, c} => owner[at[c]] \in Clients
      BY <2>1 DEF TypeOK
    <3> QED
      BY <1>2, <1>5, <3>1, <3>2, SentTyped DEF Claim, InboxOK
  <2> QED
    BY <1>5, <2>3, <2>4, <2>5 DEF Claim, TypeOK, InboxOK
<1>6. ASSUME NEW c \in Clients, Refused(c) PROVE TypeOK'
  BY <1>6, DestroyedTyped DEF Refused, Goto, Places, TypeOK, InboxOK, MailOK
<1>7. ASSUME NEW c \in Clients, Await(c) PROVE TypeOK'
  <2>1. at[c] \in Screens
    BY DEF TypeOK
  <2>2. at[c] + 1 < NScreens => at[c] + 1 \in Screens
    BY <1>1, <2>1 DEF Screens
  <2>3. at' \in [Clients -> Screens] /\ pc' \in [Clients -> Places]
    BY <1>1, <1>7, <2>2 DEF Await, Goto, Places, TypeOK
  <2>4. prev' \in [Clients -> [Screens -> Clients \cup {Nobody}]]
    BY <1>7 DEF Await, TypeOK
  <2> QED
    BY <1>7, <2>3, <2>4 DEF Await, TypeOK
<1>8. ASSUME NEW c \in Clients, Leave(c) PROVE TypeOK'
  BY <1>8, DestroyedTyped DEF Leave, Quit, Goto, Places, TypeOK, InboxOK, MailOK
<1>9. ASSUME NEW c \in Clients, Execute(c) PROVE TypeOK'
  <2>1. at' \in [Clients -> Screens] /\ pc' \in [Clients -> Places]
    BY <1>1, <1>9 DEF Execute, Goto, Places, TypeOK
  <2>2. prev' \in [Clients -> [Screens -> Clients \cup {Nobody}]]
    BY <1>9 DEF Execute, TypeOK
  <2> QED
    BY <1>9, <2>1, <2>2, DestroyedTyped DEF Execute, TypeOK, InboxOK, MailOK
<1>10. ASSUME NEW c \in Clients, NEW type, Handle(c, type),
              told' \in [Clients -> {"none", "Quit", "Restart"}]
       PROVE  TypeOK'
  <2>1. Tail(inbox[c]) \in Seq(Message)
    BY <1>2, <1>10 DEF InboxOK, Handle
  <2> QED
    BY <1>10, <2>1 DEF Handle, TypeOK
<1>11. ASSUME NEW c \in Clients, NEW cur \in Screens, HandleClear(c, cur) PROVE TypeOK'
  BY <1>10, <1>11 DEF HandleClear, Noted, TypeOK
<1>12. ASSUME NEW c \in Clients, NEW kind \in {"Quit", "Restart"}, HandleCommand(c, kind)
       PROVE  TypeOK'
  BY <1>10, <1>12 DEF HandleCommand, Noted, TypeOK
<1>13. ASSUME NEW c \in Clients, Return(c) PROVE TypeOK'
  BY <1>13 DEF Return, Goto, Places, TypeOK
<1>14. ASSUME NEW kind \in {"Quit", "Restart"}, FindOwner(kind) PROVE TypeOK'
  <2>1. PICK s \in Screens :
           /\ owner[s] # Nobody
           /\ letters' = letters \cup {[n |-> commands, kind |-> kind, to |-> owner[s]]}
    BY <1>14 DEF FindOwner
  <2>2. letters' \subseteq Letter
    BY <2>1 DEF Letter, TypeOK
  <2> QED
    BY <1>14, <2>2 DEF FindOwner, TypeOK
<1>15. ASSUME NEW letter \in letters, Send(letter) PROVE TypeOK'
  <2>1. Command(letter.kind) \in Message /\ letter.to \in Clients
    BY <1>1 DEF Command, Message, Letter, TypeOK
  <2>2. InboxOK'
    BY <1>2, <1>15, <2>1, SentTyped DEF Send
  <2> QED
    BY <1>15, <2>2 DEF Send, TypeOK, InboxOK
<1> QED
  BY <1>3, <1>4, <1>5, <1>6, <1>7, <1>8, <1>9, <1>11, <1>12, <1>13, <1>14, <1>15
  DEF Next, Step

\* The processes start well typed.
LEMMA TypedInit == Init => TypeOK
<1> SUFFICES ASSUME Init PROVE TypeOK
  OBVIOUS
<1>1. 0 \in Screens /\ << >> \in Seq(Message)
  BY InstanceAssumption DEF InstanceAssumption, Screens
<1>2. owner \in [Screens -> Clients \cup {Nobody}]
  BY InstanceAssumption DEF InstanceAssumption, Init
<1> QED
  BY <1>1, <1>2 DEF Init, TypeOK, Places

\* Every variable of the processes and of the server keeps its type.
THEOREM Typing == Spec => []TypeOK
BY TypedInit, TypedNext, PTL DEF Spec

-----------------------------------------------------------------------------
\* What was in an inbox is in it when a message has been added.
LEMMA StillThere ==
  ASSUME NEW q \in Seq(Message), NEW m \in Message, NEW e
  PROVE  /\ Contains(q, e) => Contains(Append(q, m), e)
         /\ Contains(Append(q, m), m)
<1>1. /\ Len(Append(q, m)) = Len(q) + 1 /\ Len(q) \in Nat
      /\ Append(q, m)[Len(q) + 1] = m
      /\ \A i \in 1..Len(q) : Append(q, m)[i] = q[i] /\ i \in 1..(Len(q) + 1)
  OBVIOUS
<1> QED
  BY <1>1 DEF Contains

\* On one screen the only selection is that of screen 0.
LEMMA OneScreen ==
  ASSUME NScreens = 1
  PROVE  Screens = {0}
BY DEF Screens

\* A process that ends, or starts anew, takes nothing from the others.
LEMMA EndKeepsTold ==
  ASSUME TypeOK, LosersAreTold, NEW c \in Clients, Destroyed(c),
         NEW place \in {"look", "exited"}, Goto(c, place)
  PROVE  LosersAreTold'
<1> SUFFICES ASSUME NEW d \in Clients, NEW s \in Screens,
                    pc'[d] \in {"await", "running", "leaving"}, owner'[s] # d
             PROVE  Contains(inbox'[d], Clear(s)) \/ told'[d] # "none"
  BY DEF LosersAreTold
<1>1. d # c /\ pc'[d] = pc[d]
  BY DEF Goto, TypeOK
<1>2. inbox'[d] = inbox[d] /\ told'[d] = told[d] /\ owner[s] # d
  BY <1>1 DEF Destroyed, TypeOK
<1> QED
  BY <1>1, <1>2 DEF LosersAreTold

\* Each step keeps the losers told.
LEMMA ToldNext ==
  ASSUME NScreens = 1, TypeOK, LosersAreTold, [Next]_vars
  PROVE  LosersAreTold'
<1>1. Screens = {0}
  BY OneScreen
<1>2. /\ pc \in [Clients -> Places] /\ \A c \in Clients : inbox[c] \in Seq(Message)
      /\ owner \in [Screens -> Clients \cup {Nobody}]
      /\ \A c \in Clients : at[c] = 0
  BY <1>1 DEF TypeOK
<1>3. CASE UNCHANGED vars
  BY <1>3 DEF LosersAreTold, vars
<1>4. ASSUME NEW c \in Clients, Look(c) PROVE LosersAreTold'
  BY <1>2, <1>4 DEF Look, Goto, LosersAreTold
<1>5. ASSUME NEW c \in Clients, Claim(c) PROVE LosersAreTold'
  <2>1. /\ owner' = [owner EXCEPT ![0] = c] /\ Goto(c, "await") /\ pc[c] = "claim"
        /\ told' = told
        /\ inbox' = IF owner[0] \notin {Nobody, c}
                    THEN [inbox EXCEPT ![owner[0]] = Append(@, Clear(0))]
                    ELSE inbox
    <3>1. at[c] = 0 /\ ~(0 + 1 < NScreens)
      BY <1>2
    <3> QED
      BY <1>5, <3>1 DEF Claim
  <2>2. Clear(0) \in Message
    BY <1>1 DEF Clear, Message
  <2>3. ASSUME NEW d \in Clients, pc'[d] \in {"await", "running", "leaving"},
               owner'[0] # d
        PROVE  Contains(inbox'[d], Clear(0)) \/ told'[d] # "none"
    <3>1. d # c /\ pc[d] \in {"await", "running", "leaving"}
      BY <1>1, <1>2, <2>1, <2>3 DEF Goto
    <3>2. CASE owner[0] = d
      <4>1. d # Nobody
        BY InstanceAssumption DEF InstanceAssumption
      <4>2. inbox'[d] = Append(inbox[d], Clear(0))
        BY <2>1, <3>1, <3>2, <4>1 DEF TypeOK
      <4> QED
        BY <1>2, <2>2, <4>2, StillThere
    <3>3. CASE owner[0] # d
      <4>1. inbox'[d] = inbox[d]
        BY <2>1, <3>3 DEF TypeOK
      <4>2. Contains(inbox[d], Clear(0)) \/ told[d] # "none"
        BY <1>1, <3>1, <3>3 DEF LosersAreTold
      <4> QED
        BY <2>1, <4>1, <4>2
    <3> QED
      BY <3>2, <3>3
  <2> QED
    BY <1>1, <2>3 DEF LosersAreTold
<1>6. ASSUME NEW c \in Clients, Refused(c) PROVE LosersAreTold'
  BY <1>6, EndKeepsTold DEF Refused
<1>7. ASSUME NEW c \in Clients, Await(c) PROVE LosersAreTold'
  <2>1. /\ pc[c] = "await" /\ owner' = owner /\ inbox' = inbox /\ told' = told
        /\ pc' = pc \/ Goto(c, "running")
    BY <1>7 DEF Await
  <2>2. \A d \in Clients : pc'[d] \in {"await", "running", "leaving"} =>
                           pc[d] \in {"await", "running", "leaving"}
    BY <1>2, <2>1 DEF Goto
  <2> QED
    BY <2>1, <2>2 DEF LosersAreTold
<1>8. ASSUME NEW c \in Clients, Leave(c) \/ Execute(c) PROVE LosersAreTold'
  BY <1>8, EndKeepsTold DEF Leave, Quit, Execute
<1>9. ASSUME NEW c \in Clients, NEW type, Handle(c, type), NEW value, value # "none",
             Noted(c, value)
      PROVE  LosersAreTold'
  <2>1. \A d \in Clients : d = c \/ (inbox'[d] = inbox[d] /\ told'[d] = told[d])
    BY <1>2, <1>9 DEF Handle, Noted, TypeOK
  <2>2. told'[c] # "none" /\ owner' = owner /\ pc' = pc
    BY <1>9 DEF Handle, Noted, TypeOK
  <2> QED
    BY <2>1, <2>2 DEF LosersAreTold
<1>10. ASSUME NEW c \in Clients, NEW cur \in Screens, HandleClear(c, cur)
       PROVE  LosersAreTold'
  <2>1. inbox[c] # << >> /\ inbox[c] \in Seq(Message)
    BY <1>2, <1>10 DEF HandleClear, Handle
  <2>2. Head(inbox[c]).screen = cur
    <3>1. Head(inbox[c]) \in Message /\ cur = 0
      BY <1>1, <2>1
    <3> QED
      BY <1>1, <3>1 DEF Message
  <2> QED
    BY <1>9, <1>10, <2>2 DEF HandleClear
<1>11. ASSUME NEW c \in Clients, NEW kind \in {"Quit", "Restart"}, HandleCommand(c, kind)
       PROVE  LosersAreTold'
  BY <1>9, <1>11 DEF HandleCommand
<1>12. ASSUME NEW c \in Clients, Return(c) PROVE LosersAreTold'
  BY <1>2, <1>12 DEF Return, Goto, LosersAreTold
<1>13. ASSUME NEW kind \in {"Quit", "Restart"}, FindOwner(kind) PROVE LosersAreTold'
  BY <1>13 DEF FindOwner, LosersAreTold
<1>14. ASSUME NEW letter \in letters, Send(letter) PROVE LosersAreTold'
  <2>1. Command(letter.kind) \in Message /\ letter.to \in Clients
    BY <1>1 DEF Command, Message, Letter, TypeOK
  <2>2. \A d \in Clients : \/ inbox'[d] = inbox[d]
                           \/ inbox'[d] = Append(inbox[d], Command(letter.kind))
    BY <1>14, <2>1 DEF Send, TypeOK
  <2>3. ASSUME NEW d \in Clients, NEW t \in Screens, Contains(inbox[d], Clear(t))
        PROVE  Contains(inbox'[d], Clear(t))
    BY <1>2, <2>1, <2>2, <2>3, StillThere
  <2> QED
    BY <1>14, <2>3 DEF Send, LosersAreTold
<1> QED
  BY <1>3, <1>4, <1>5, <1>6, <1>7, <1>8, <1>10, <1>11, <1>12, <1>13, <1>14
  DEF Next, Step

\* On one screen, however starts, replacements and commands interleave, a
\* process that has claimed the selection and does not own it has the
\* SelectionClear before it that ends its main loop, or knows that the loop is
\* to return (do_run, wm_event, xde_main_quit).
THEOREM LosersTold ==
  ASSUME NScreens = 1
  PROVE  Spec => []LosersAreTold
<1>1. Init => LosersAreTold
  BY InstanceAssumption DEF InstanceAssumption, Init, LosersAreTold
<1>2. TypeOK /\ LosersAreTold /\ [Next]_vars => LosersAreTold'
  BY ToldNext
<1> QED
  BY <1>1, <1>2, TypedInit, TypedNext, PTL DEF Spec

-----------------------------------------------------------------------------
(***************************************************************************)
(* Who is waited for.  StartCompletes is left to TLC, but what it rests on *)
(* besides fairness is not: no process waits for one that has gone, or     *)
(* that still has the selection; and on one screen, each is waited for     *)
(* with the SelectionClear before it, and nowhere is there a circle of     *)
(* processes that wait for each other.                                     *)
(***************************************************************************)
\* The screens that c has claimed since it was started.
Claimed(c, s) ==
    \/ pc[c] \in {"await", "running", "leaving"}
    \/ pc[c] \in {"look", "claim"} /\ s < at[c]

\* c has found d there, and has not heard of the end of its windows.
Watches(c, d, s) == pc[c] # "exited" /\ prev[c][s] = d /\ s \notin gone[c]

OwnersClaimed == \A d \in Clients, s \in Screens : owner[s] = d => Claimed(d, s)

WatchedClaimed ==
    \A c, d \in Clients, s \in Screens :
        Watches(c, d, s) => d # c /\ Claimed(d, s)

WatchedLost ==
    \A c, d \in Clients, s \in Screens :
        Watches(c, d, s) /\ Claimed(c, s) => owner[s] # d

WatchInv == OwnersClaimed /\ WatchedClaimed /\ WatchedLost

\* Who waits in XIfEvent for the window of a former owner.
Waits(c, d, s) == pc[c] = "await" /\ ~Released(c, s) /\ prev[c][s] = d

\* The former owner is another process, which has not ended or been executed
\* anew since it owned the selection, and does not own it now.
WaitsForTheLiving ==
    \A c \in Clients, s \in Screens :
        pc[c] = "await" /\ ~Released(c, s)
        => \E d \in Clients \ {c} :
              /\ Waits(c, d, s)
              /\ pc[d] # "exited" /\ Claimed(d, s) /\ owner[s] # d

LEMMA WatchInit == Init => WatchInv
<1> SUFFICES ASSUME Init PROVE WatchInv
  OBVIOUS
<1>1. \A d \in Clients, s \in Screens : owner[s] = d => d \in Running
  BY InstanceAssumption DEF InstanceAssumption, Init
<1>2. \A c \in Running : pc[c] = "running"
  BY InstanceAssumption DEF InstanceAssumption, Init
<1>3. \A c, d \in Clients, s \in Screens : prev[c][s] # d
  BY InstanceAssumption DEF InstanceAssumption, Init
<1> QED
  BY <1>1, <1>2, <1>3 DEF WatchInv, OwnersClaimed, WatchedClaimed, WatchedLost, Watches,
     Claimed

\* A process that ends, or is executed anew, owns and has claimed nothing, and
\* who watched it has heard so.
LEMMA EndKeepsWatch ==
  ASSUME TypeOK, WatchInv, NEW c \in Clients, Destroyed(c),
         \/ Goto(c, "exited") /\ UNCHANGED <<at, prev>>
         \/ /\ Goto(c, "look") /\ at' = [at EXCEPT ![c] = 0]
            /\ prev' = [prev EXCEPT ![c] = [s \in Screens |-> Nobody]]
  PROVE  WatchInv'
<1>1. \A d \in Clients \ {c} :
        /\ pc'[d] = pc[d] /\ at'[d] = at[d] /\ prev'[d] = prev[d]
        /\ gone'[d] = gone[d] \cup {s \in Screens : prev[d][s] = c}
  BY DEF Goto, TypeOK, Destroyed
<1>2. \A d \in Clients, s \in Screens : ~Watches(c, d, s)' /\ ~Claimed(c, s)'
  BY InstanceAssumption DEF InstanceAssumption, Goto, TypeOK, Watches, Claimed, Screens
<1>3. \A d \in Clients, s \in Screens : owner'[s] = d => owner[s] = d /\ d # c
  BY InstanceAssumption DEF InstanceAssumption, Destroyed
<1>4. \A d \in Clients \ {c}, e \in Clients, s \in Screens :
        /\ Claimed(d, s)' <=> Claimed(d, s)
        /\ Watches(d, e, s)' => Watches(d, e, s) /\ e # c
  BY <1>1 DEF Claimed, Watches
<1>5. OwnersClaimed'
  BY <1>3, <1>4 DEF WatchInv, OwnersClaimed
<1>6. WatchedClaimed'
  BY <1>2, <1>4 DEF WatchInv, WatchedClaimed
<1>7. WatchedLost'
  BY <1>2, <1>3, <1>4 DEF WatchInv, WatchedLost
<1> QED
  BY <1>5, <1>6, <1>7 DEF WatchInv

\* What a process does in the loops of do_run.
LEMMA LookKeepsWatch ==
  ASSUME TypeOK, WatchInv, NEW c \in Clients, Look(c)
  PROVE  WatchInv'
<1> DEFINE s == at[c]
<1>1. s \in Screens /\ s \in Nat
  BY InstanceAssumption DEF InstanceAssumption, TypeOK, Screens
<1>2. /\ pc[c] = "look" /\ owner' = owner /\ at' = at
      /\ \A d \in Clients, t \in Screens :
            prev'[d][t] = IF d = c /\ t = s THEN owner[s] ELSE prev[d][t]
      /\ \A d \in Clients : gone'[d] = IF d = c THEN gone[c] \ {s} ELSE gone[d]
      /\ \A d \in Clients : pc'[d] = IF d = c THEN "claim" ELSE pc[d]
  BY <1>1 DEF Look, Goto, TypeOK
<1> HIDE DEF s
<1>3. \A d \in Clients, t \in Screens : Claimed(d, t)' <=> Claimed(d, t)
  BY <1>2 DEF Claimed
<1>4. ~Claimed(c, s)
  BY <1>1, <1>2 DEF Claimed, s
<1>5. \A d, e \in Clients, t \in Screens :
        Watches(d, e, t)' => \/ Watches(d, e, t)
                             \/ d = c /\ t = s /\ owner[s] = e
  BY <1>2 DEF Watches
<1>6. OwnersClaimed'
  BY <1>2, <1>3 DEF WatchInv, OwnersClaimed
<1>7. WatchedClaimed'
  BY <1>1, <1>3, <1>4, <1>5 DEF WatchInv, OwnersClaimed, WatchedClaimed
<1>8. WatchedLost'
  BY <1>2, <1>3, <1>4, <1>5 DEF WatchInv, WatchedLost
<1> QED
  BY <1>6, <1>7, <1>8 DEF WatchInv

LEMMA ClaimKeepsWatch ==
  ASSUME TypeOK, WatchInv, NEW c \in Clients, Claim(c)
  PROVE  WatchInv'
<1> DEFINE s == at[c]
<1>1. s \in Screens /\ s \in Nat /\ NScreens \in Nat
  BY InstanceAssumption DEF InstanceAssumption, TypeOK, Screens
<1>2. /\ pc[c] = "claim" /\ prev' = prev /\ gone' = gone
      /\ \A t \in Screens : owner'[t] = IF t = s THEN c ELSE owner[t]
      /\ \A d \in Clients \ {c} : pc'[d] = pc[d] /\ at'[d] = at[d]
      /\ \/ s + 1 < NScreens /\ at'[c] = s + 1 /\ pc'[c] = "look"
         \/ ~(s + 1 < NScreens) /\ pc'[c] = "await"
  BY <1>1 DEF Claim, Goto, TypeOK
<1>3. \A d \in Clients \ {c}, t \in Screens : Claimed(d, t)' <=> Claimed(d, t)
  BY <1>2 DEF Claimed
<1>4. \A t \in Screens : Claimed(c, t)' <=> Claimed(c, t) \/ t = s
  BY <1>1, <1>2 DEF Claimed, Screens
<1>5. ~Claimed(c, s)
  BY <1>1, <1>2 DEF Claimed
<1> HIDE DEF s
<1>6. \A d, e \in Clients, t \in Screens : Watches(d, e, t)' => Watches(d, e, t)
  BY <1>2 DEF Watches
<1>7. OwnersClaimed'
  BY <1>2, <1>3, <1>4 DEF WatchInv, OwnersClaimed
<1>8. WatchedClaimed'
  BY <1>3, <1>4, <1>6 DEF WatchInv, WatchedClaimed
<1>9. WatchedLost'
  <2> SUFFICES ASSUME NEW d \in Clients, NEW e \in Clients, NEW t \in Screens,
                      Watches(d, e, t)', Claimed(d, t)'
               PROVE  owner'[t] # e
    BY DEF WatchedLost
  <2>1. Watches(d, e, t) /\ d # e /\ Claimed(e, t)
    BY <1>6 DEF WatchInv, WatchedClaimed
  <2>2. CASE t = s
    BY <1>2, <1>5, <2>1, <2>2
  <2>3. CASE t # s
    BY <1>2, <1>3, <1>4, <2>1, <2>3 DEF WatchInv, WatchedLost
  <2> QED
    BY <2>2, <2>3
<1> QED
  BY <1>7, <1>8, <1>9 DEF WatchInv

LEMMA AwaitKeepsWatch ==
  ASSUME TypeOK, WatchInv, NEW c \in Clients, Await(c)
  PROVE  WatchInv'
<1>1. /\ pc[c] = "await" /\ owner' = owner /\ gone' = gone
      /\ \A d \in Clients \ {c} : pc'[d] = pc[d] /\ at'[d] = at[d]
      /\ pc'[c] \in {"await", "running"}
      /\ \A d \in Clients, t \in Screens : prev'[d][t] \in {prev[d][t], Nobody}
  BY DEF Await, Goto, TypeOK
<1>2. \A d, e \in Clients, t \in Screens :
        /\ Claimed(d, t)' <=> Claimed(d, t)
        /\ Watches(d, e, t)' => Watches(d, e, t)
  BY <1>1, InstanceAssumption DEF InstanceAssumption, Claimed, Watches
<1> QED
  BY <1>1, <1>2 DEF WatchInv, OwnersClaimed, WatchedClaimed, WatchedLost

LEMMA WatchNext == TypeOK /\ WatchInv /\ [Next]_vars => WatchInv'
<1> SUFFICES ASSUME TypeOK, WatchInv, [Next]_vars PROVE WatchInv'
  OBVIOUS
<1>1. CASE UNCHANGED <<owner, pc, at, prev, gone>>
  BY <1>1 DEF WatchInv, OwnersClaimed, WatchedClaimed, WatchedLost, Watches, Claimed
<1>2. ASSUME NEW c \in Clients, Leave(c) \/ Refused(c) \/ Execute(c) PROVE WatchInv'
  BY <1>2, EndKeepsWatch DEF Leave, Quit, Refused, Execute
<1>3. ASSUME NEW c \in Clients, Return(c) PROVE WatchInv'
  <2>1. /\ UNCHANGED <<owner, at, prev, gone>> /\ pc[c] = "running"
        /\ \A d \in Clients : pc'[d] = IF d = c THEN "leaving" ELSE pc[d]
    BY <1>3 DEF Return, Goto, TypeOK
  <2>2. \A d, e \in Clients, t \in Screens :
          /\ Claimed(d, t)' <=> Claimed(d, t)
          /\ Watches(d, e, t)' => Watches(d, e, t)
    BY <2>1 DEF Claimed, Watches
  <2> QED
    BY <2>1, <2>2 DEF WatchInv, OwnersClaimed, WatchedClaimed, WatchedLost
<1>4. ASSUME NEW c \in Clients, NEW kind \in {"Quit", "Restart"}, HandleCommand(c, kind)
      PROVE  WatchInv'
  BY <1>1, <1>4 DEF HandleCommand, Handle
<1>5. ASSUME NEW c \in Clients, NEW cur \in Screens, HandleClear(c, cur) PROVE WatchInv'
  BY <1>1, <1>5 DEF HandleClear, Handle
<1>6. ASSUME NEW kind \in {"Quit", "Restart"}, FindOwner(kind) PROVE WatchInv'
  BY <1>1, <1>6 DEF FindOwner
<1>7. ASSUME NEW letter \in letters, Send(letter) PROVE WatchInv'
  BY <1>1, <1>7 DEF Send
<1> QED
  BY <1>1, <1>2, <1>3, <1>4, <1>5, <1>6, <1>7, LookKeepsWatch, ClaimKeepsWatch,
     AwaitKeepsWatch
  DEF Next, Step, vars

\* Who is waited for is watched.
LEMMA WaitingWatches ==
  ASSUME TypeOK, NEW c \in Clients, NEW s \in Screens, pc[c] = "await", ~Released(c, s)
  PROVE  /\ prev[c][s] \in Clients
         /\ Watches(c, prev[c][s], s) /\ Claimed(c, s)
BY DEF TypeOK, Released, Watches, Claimed

\* On any number of screens, a process that replaces others never waits for
\* one that has ended, nor for itself, nor for one that owns the selection and
\* so will not be told to go (the second loop of do_run).
THEOREM NoWaitForTheDead == Spec => []WaitsForTheLiving
<1>1. TypeOK /\ WatchInv => WaitsForTheLiving
  <2> SUFFICES ASSUME TypeOK, WatchInv, NEW c \in Clients, NEW s \in Screens,
                      pc[c] = "await", ~Released(c, s)
               PROVE  \E d \in Clients \ {c} :
                         /\ Waits(c, d, s)
                         /\ pc[d] # "exited" /\ Claimed(d, s) /\ owner[s] # d
    BY DEF WaitsForTheLiving
  <2>1. PICK d \in Clients : d = prev[c][s] /\ Watches(c, d, s) /\ Claimed(c, s)
    BY WaitingWatches
  <2>2. d # c /\ Claimed(d, s) /\ owner[s] # d
    BY <2>1 DEF WatchInv, WatchedClaimed, WatchedLost
  <2>3. pc[d] # "exited" /\ Waits(c, d, s)
    BY <2>1, <2>2 DEF Claimed, Waits
  <2> QED
    BY <2>2, <2>3
<1> QED
  BY <1>1, TypedInit, TypedNext, WatchInit, WatchNext, PTL DEF Spec

-----------------------------------------------------------------------------
(***************************************************************************)
(* One screen: a SelectionClear is never thrown away there, so who is      *)
(* waited for will go, and there is always somebody who need not wait.     *)
(***************************************************************************)
WaitedForIsTold ==
    \A c, d \in Clients, s \in Screens :
        Waits(c, d, s) => Contains(inbox[d], Clear(s)) \/ told[d] # "none"

\* Of any processes one waits for none of the others.
NoCircle ==
    \A S \in SUBSET Clients : S # {} =>
        \E c \in S : \A d \in S, s \in Screens : ~Waits(c, d, s)

\* Processes can be numbered so that each watches one of a smaller number:
\* who looks has claimed nothing yet, so nobody watches it.
Ranks(rank) ==
    /\ rank \in [Clients -> Nat]
    /\ \A c, d \in Clients, s \in Screens : Watches(c, d, s) => rank[d] < rank[c]

Ranked == \E rank : Ranks(rank)

LEMMA WatchesLess ==
  ASSUME Ranked,
         \A c, d \in Clients, s \in Screens : Watches(c, d, s)' => Watches(c, d, s)
  PROVE  Ranked'
<1>1. PICK rank : Ranks(rank)
  BY DEF Ranked
<1>2. Ranks(rank)'
  BY <1>1 DEF Ranks
<1> QED
  BY <1>2 DEF Ranked

LEMMA LookKeepsRanks ==
  ASSUME NScreens = 1, TypeOK, WatchInv, Ranked, NEW c \in Clients, Look(c)
  PROVE  Ranked'
<1>1. Screens = {0} /\ at[c] = 0
  BY OneScreen DEF TypeOK
<1>2. /\ pc[c] = "look"
      /\ \A d \in Clients : prev'[d][0] = IF d = c THEN owner[0] ELSE prev[d][0]
      /\ \A d \in Clients : gone'[d] = IF d = c THEN gone[c] \ {0} ELSE gone[d]
      /\ \A d \in Clients : pc'[d] = IF d = c THEN "claim" ELSE pc[d]
  BY <1>1 DEF Look, Goto, TypeOK
<1>3. PICK rank : Ranks(rank)
  BY DEF Ranked
<1>4. ~Claimed(c, 0)
  BY <1>1, <1>2 DEF Claimed
<1>5. \A d \in Clients : ~Watches(d, c, 0) /\ (owner[0] = d => d # c)
  BY <1>1, <1>4 DEF WatchInv, WatchedClaimed, OwnersClaimed
<1>6. \A d, e \in Clients : Watches(d, e, 0)' =>
         Watches(d, e, 0) \/ (d = c /\ owner[0] = e)
  BY <1>2 DEF Watches
<1>7. CASE owner[0] \notin Clients
  BY <1>1, <1>6, <1>7, WatchesLess
<1>8. CASE owner[0] \in Clients
  <2>1. /\ rank \in [Clients -> Nat]
        /\ \A d, e \in Clients : Watches(d, e, 0) => rank[e] < rank[d]
    BY <1>1, <1>3 DEF Ranks
  <2>2. PICK new \in [Clients -> Nat] :
        /\ \A d \in Clients : new[d] = IF d = c THEN rank[owner[0]] + rank[c] + 1
                                       ELSE rank[d]
        /\ \A d \in Clients : rank[d] \in Nat
    <3>1. [rank EXCEPT ![c] = rank[owner[0]] + rank[c] + 1] \in [Clients -> Nat]
      BY <1>8, <2>1
    <3> QED
      BY <2>1, <3>1
  <2>3. ASSUME NEW d \in Clients, NEW e \in Clients, Watches(d, e, 0)'
        PROVE  new[e] < new[d]
    <3>1. CASE Watches(d, e, 0)
      <4>1. e # c /\ rank[e] < rank[d]
        BY <1>5, <2>1, <3>1
      <4> QED
        BY <1>8, <2>2, <4>1
    <3>2. CASE d = c /\ owner[0] = e
      <4>1. e # c
        BY <1>5, <3>2
      <4> QED
        BY <1>8, <2>2, <3>2, <4>1
    <3> QED
      BY <1>6, <2>3, <3>1, <3>2
  <2>4. Ranks(new)'
    BY <1>1, <2>2, <2>3 DEF Ranks
  <2> QED
    BY <2>4 DEF Ranked
<1> QED
  BY <1>7, <1>8

\* Nothing else makes a process watch another.
LEMMA RankedNext ==
  ASSUME NScreens = 1, TypeOK, WatchInv, Ranked, [Next]_vars
  PROVE  Ranked'
<1>1. CASE UNCHANGED <<pc, prev, gone>>
  BY <1>1, WatchesLess DEF Watches
<1>2. ASSUME NEW c \in Clients, Destroyed(c),
             \/ Goto(c, "exited") /\ UNCHANGED prev
             \/ prev' = [prev EXCEPT ![c] = [s \in Screens |-> Nobody]] /\ Goto(c, "look")
      PROVE  Ranked'
  <2>1. \A d \in Clients \ {c} :
          /\ pc'[d] = pc[d] /\ prev'[d] = prev[d]
          /\ gone'[d] = gone[d] \cup {s \in Screens : prev[d][s] = c}
    BY <1>2 DEF Goto, TypeOK, Destroyed
  <2>2. \A d \in Clients, s \in Screens : ~Watches(c, d, s)'
    BY <1>2, InstanceAssumption DEF InstanceAssumption, Goto, TypeOK, Watches
  <2>3. \A d, e \in Clients, s \in Screens : Watches(d, e, s)' => Watches(d, e, s)
    BY <2>1, <2>2 DEF Watches
  <2> QED
    BY <2>3, WatchesLess
<1>3. ASSUME NEW c \in Clients, Claim(c) PROVE Ranked'
  <2>1. /\ prev' = prev /\ gone' = gone /\ pc[c] = "claim"
        /\ \A d \in Clients \ {c} : pc'[d] = pc[d]
    BY <1>3 DEF Claim, Goto, TypeOK
  <2>2. \A d, e \in Clients, s \in Screens : Watches(d, e, s)' => Watches(d, e, s)
    BY <2>1 DEF Watches
  <2> QED
    BY <2>2, WatchesLess
<1>4. ASSUME NEW c \in Clients, Await(c) PROVE Ranked'
  <2>1. /\ gone' = gone /\ pc[c] = "await" /\ \A d \in Clients \ {c} : pc'[d] = pc[d]
        /\ \A d \in Clients, t \in Screens : prev'[d][t] \in {prev[d][t], Nobody}
    BY <1>4 DEF Await, Goto, TypeOK
  <2>2. \A d, e \in Clients, s \in Screens : Watches(d, e, s)' => Watches(d, e, s)
    BY <2>1, InstanceAssumption DEF InstanceAssumption, Watches
  <2> QED
    BY <2>2, WatchesLess
<1>5. ASSUME NEW c \in Clients, Leave(c) \/ Refused(c) \/ Execute(c) PROVE Ranked'
  BY <1>2, <1>5 DEF Leave, Quit, Refused, Execute
<1>6. ASSUME NEW c \in Clients, Return(c) PROVE Ranked'
  <2>1. /\ UNCHANGED <<prev, gone>> /\ pc[c] = "running"
        /\ \A d \in Clients \ {c} : pc'[d] = pc[d]
    BY <1>6 DEF Return, Goto, TypeOK
  <2>2. \A d, e \in Clients, s \in Screens : Watches(d, e, s)' => Watches(d, e, s)
    BY <2>1 DEF Watches
  <2> QED
    BY <2>2, WatchesLess
<1>7. ASSUME NEW c \in Clients, NEW cur \in Screens, HandleClear(c, cur) PROVE Ranked'
  BY <1>1, <1>7 DEF HandleClear, Handle
<1>8. ASSUME NEW c \in Clients, NEW kind \in {"Quit", "Restart"}, HandleCommand(c, kind)
      PROVE  Ranked'
  BY <1>1, <1>8 DEF HandleCommand, Handle
<1>9. ASSUME NEW kind \in {"Quit", "Restart"}, FindOwner(kind) PROVE Ranked'
  BY <1>1, <1>9 DEF FindOwner
<1>10. ASSUME NEW letter \in letters, Send(letter) PROVE Ranked'
  BY <1>1, <1>10 DEF Send
<1> QED
  BY <1>1, <1>3, <1>4, <1>5, <1>6, <1>7, <1>8, <1>9, <1>10, LookKeepsRanks
  DEF Next, Step, vars

LEMMA RankedInit == Init => Ranked
<1> SUFFICES ASSUME Init PROVE Ranked
  OBVIOUS
<1>1. \A c, d \in Clients, s \in Screens : ~Watches(c, d, s)
  BY InstanceAssumption DEF InstanceAssumption, Init, Watches
<1>2. Ranks([c \in Clients |-> 0])
  BY <1>1 DEF Ranks
<1> QED
  BY <1>2 DEF Ranked

\* The one of smallest number waits for none of the others.
LEMMA RankedNoCircle ==
  ASSUME TypeOK, Ranked
  PROVE  NoCircle
<1> SUFFICES ASSUME NEW S \in SUBSET Clients, S # {}
             PROVE  \E c \in S : \A d \in S, s \in Screens : ~Waits(c, d, s)
  BY DEF NoCircle
<1>1. PICK rank : Ranks(rank)
  BY DEF Ranked
<1> DEFINE Numbers == {rank[c] : c \in S}
           Less == OpToRel(<, Nat)
<1>2. Numbers \subseteq Nat /\ Numbers # {}
  BY <1>1 DEF Ranks
<1>3. \E n \in Numbers : \A m \in Numbers : ~(<<m, n>> \in Less)
  <2>1. IsWellFoundedOn(Less, Nat)
    BY NatLessThanWellFounded DEF Less
  <2> HIDE DEF Less, Numbers
  <2> QED
    BY <1>2, <2>1, WFMin
<1>4. PICK c \in S : \A d \in S : ~(rank[d] < rank[c])
  <2>1. PICK n \in Numbers : \A m \in Numbers : ~(<<m, n>> \in Less)
    BY <1>3
  <2>2. \A m \in Numbers : ~(m < n)
    BY <1>2, <2>1 DEF OpToRel
  <2> QED
    BY <2>2
<1>5. \A d \in S, s \in Screens : Waits(c, d, s) => Watches(c, d, s)
  BY DEF Waits, Watches, Released
<1> QED
  BY <1>1, <1>4, <1>5 DEF Ranks

\* On one screen, however starts, replacements and commands interleave, who is
\* waited for has the SelectionClear before it that ends its main loop, or is
\* about to leave the loop; and no processes wait for each other in a circle, so
\* that of those that wait one waits for a process that runs (the second loop of
\* do_run).
THEOREM WaitsEnd ==
  ASSUME NScreens = 1
  PROVE  Spec => [](WaitedForIsTold /\ NoCircle)
<1>1. TypeOK /\ WatchInv /\ LosersAreTold => WaitedForIsTold
  <2> SUFFICES ASSUME TypeOK, WatchInv, LosersAreTold, NEW c \in Clients,
                      NEW d \in Clients, NEW s \in Screens, Waits(c, d, s)
               PROVE  Contains(inbox[d], Clear(s)) \/ told[d] # "none"
    BY DEF WaitedForIsTold
  <2>1. Watches(c, d, s) /\ Claimed(c, s)
    BY WaitingWatches DEF Waits
  <2>2. Claimed(d, s) /\ owner[s] # d
    BY <2>1 DEF WatchInv, WatchedClaimed, WatchedLost
  <2>3. s = 0 /\ at[d] = 0
    BY OneScreen DEF TypeOK
  <2>4. pc[d] \in {"await", "running", "leaving"}
    BY <2>2, <2>3 DEF Claimed
  <2> QED
    BY <2>2, <2>4 DEF LosersAreTold
<1>2. TypeOK /\ Ranked => NoCircle
  BY RankedNoCircle
<1>3. TypeOK /\ WatchInv /\ Ranked /\ [Next]_vars => Ranked'
  BY RankedNext
<1>4. Spec => []LosersAreTold
  BY LosersTold
<1> QED
  BY <1>1, <1>2, <1>3, <1>4, RankedInit, TypedInit, TypedNext, WatchInit, WatchNext, PTL
  DEF Spec

-----------------------------------------------------------------------------
(***************************************************************************)
(* Who is left.  SettlesToOne and LeavesOne say that it comes to this; that *)
(* it is so whenever all messages are handled needs no fairness.           *)
(***************************************************************************)
\* Of those that have claimed the selection and have no message to handle.
Stays(c) == pc[c] \in {"await", "running"} /\ inbox[c] = << >> /\ told[c] = "none"

\* Those that are told, or were, to give it up; those that have not claimed it.
Dismissed(c) == inbox[c] # << >> \/ told[c] # "none" \/ pc[c] = "leaving"
Starts(c) == pc[c] \in {"look", "claim", "exited"}

OneAtMost ==
    \A c, d \in Clients : Stays(c) /\ Stays(d) => c = d

\* As long as nobody has sent a command, somebody owns the selection, and is
\* not told to give it up.
OneAtLeast ==
    commands = 0 /\ Running # {} =>
        \E c \in Clients, s \in Screens : owner[s] = c /\ Stays(c)

\* Without commands, only those that have been replaced have messages or are
\* to leave, and all messages are of the one kind.
Superseded ==
    commands = 0 =>
        /\ inbox \in [Clients -> Seq({Clear(0)})]
        /\ letters = {}
        /\ \A c \in Clients : Dismissed(c) => owner[0] # c /\ ~Starts(c)
        /\ \A c \in Clients : told[c] # "Restart"
        /\ Running # {} => owner[0] \in Clients

LEMMA SupersededInit == NScreens = 1 /\ Init => Superseded
<1> SUFFICES ASSUME NScreens = 1, Init PROVE Superseded
  OBVIOUS
<1>1. 0 \in Screens
  BY OneScreen
<1>2. Running # {} => owner[0] \in Clients
  BY <1>1, InstanceAssumption DEF InstanceAssumption, Init
<1>3. /\ inbox \in [Clients -> Seq({Clear(0)})]
      /\ letters = {}
      /\ \A c \in Clients : ~Dismissed(c) /\ told[c] # "Restart"
  BY DEF Init, Dismissed
<1> QED
  BY <1>2, <1>3 DEF Superseded

\* Who ends without a command has claimed nothing, or lost it.
LEMMA EndLeavesOwner ==
  ASSUME NScreens = 1, TypeOK, Superseded, NEW c \in Clients, owner[0] # c,
         Destroyed(c), Goto(c, "exited"), UNCHANGED commands
  PROVE  Superseded'
<1> SUFFICES ASSUME commands = 0
             PROVE  /\ inbox' \in [Clients -> Seq({Clear(0)})]
                    /\ letters' = {}
                    /\ \A d \in Clients : Dismissed(d)' => owner'[0] # d /\ ~Starts(d)'
                    /\ \A d \in Clients : told'[d] # "Restart"
                    /\ Running # {} => owner'[0] \in Clients
  BY DEF Superseded
<1>1. 0 \in Screens
  BY OneScreen
<1>2. /\ inbox \in [Clients -> Seq({Clear(0)})]
      /\ letters = {}
      /\ \A d \in Clients : Dismissed(d) => owner[0] # d /\ ~Starts(d)
      /\ \A d \in Clients : told[d] # "Restart"
      /\ Running # {} => owner[0] \in Clients
  BY DEF Superseded
<1>3. owner'[0] = owner[0] /\ letters' = {}
  BY <1>1, <1>2 DEF Destroyed
<1>4. inbox' \in [Clients -> Seq({Clear(0)})]
  <2>1. << >> \in Seq({Clear(0)})
    OBVIOUS
  <2> QED
    BY <1>2, <2>1 DEF Destroyed
<1>5. \A d \in Clients \ {c} : inbox'[d] = inbox[d] /\ told'[d] = told[d] /\ pc'[d] = pc[d]
  BY DEF Destroyed, Goto, TypeOK
<1>6. ~Dismissed(c)' /\ told'[c] # "Restart"
  BY DEF Destroyed, Goto, TypeOK, Dismissed
<1>7. \A d \in Clients \ {c} : (Dismissed(d)' <=> Dismissed(d)) /\ (Starts(d)' <=> Starts(d))
  BY <1>5 DEF Dismissed, Starts
<1> QED
  BY <1>2, <1>3, <1>4, <1>5, <1>6, <1>7

\* Who handles a message without a command has lost the selection.
LEMMA HandledIsClear ==
  ASSUME TypeOK, Superseded, NEW c \in Clients, NEW type, Handle(c, type), commands = 0
  PROVE  type = "SelectionClear"
<1>1. inbox[c] \in Seq({Clear(0)}) /\ inbox[c] # << >>
  BY DEF Superseded, Handle
<1>2. Head(inbox[c]) = Clear(0)
  BY <1>1
<1> QED
  BY <1>2 DEF Handle, Clear

LEMMA SupersededNext ==
  ASSUME NScreens = 1, TypeOK, WatchInv, Superseded, [Next]_vars
  PROVE  Superseded'
<1> SUFFICES ASSUME commands' = 0 PROVE Superseded'
  BY DEF Superseded
<1>1. Screens = {0} /\ \A c \in Clients : at[c] = 0
  BY OneScreen DEF TypeOK
<1>2. CASE UNCHANGED <<owner, pc, inbox, told, letters, commands>>
  BY <1>2 DEF Superseded, Dismissed, Starts
<1>3. ASSUME NEW c \in Clients, Look(c) PROVE Superseded'
  <2>1. /\ UNCHANGED <<owner, inbox, told, letters, commands>> /\ pc[c] = "look"
        /\ \A d \in Clients : pc'[d] = IF d = c THEN "claim" ELSE pc[d]
    BY <1>3 DEF Look, Goto, TypeOK
  <2>2. \A d \in Clients : (Dismissed(d)' => Dismissed(d)) /\ (Starts(d)' <=> Starts(d))
    BY <2>1 DEF Dismissed, Starts
  <2> QED
    BY <2>1, <2>2 DEF Superseded
<1>4. ASSUME NEW c \in Clients, Claim(c) PROVE Superseded'
  <2>1. /\ commands' = commands /\ pc[c] = "claim" /\ Goto(c, "await")
        /\ letters' = letters /\ told' = told
        /\ owner' = [owner EXCEPT ![0] = c]
        /\ inbox' = IF owner[0] \notin {Nobody, c}
                    THEN [inbox EXCEPT ![owner[0]] = Append(@, Clear(0))]
                    ELSE inbox
    <3>1. at[c] = 0 /\ ~(0 + 1 < NScreens)
      BY <1>1
    <3> QED
      BY <1>4, <3>1 DEF Claim
  <2>2. /\ inbox \in [Clients -> Seq({Clear(0)})]
        /\ letters = {}
        /\ \A d \in Clients : Dismissed(d) => owner[0] # d /\ ~Starts(d)
        /\ \A d \in Clients : told[d] # "Restart"
    BY <2>1 DEF Superseded
  <2>3. \A d \in Clients : pc'[d] = IF d = c THEN "await" ELSE pc[d]
    BY <2>1 DEF Goto, TypeOK
  <2>4. owner'[0] = c
    BY <1>1, <2>1 DEF TypeOK
  <2>5. ~Dismissed(c)
    BY <2>1, <2>2 DEF Starts
  <2>6. CASE owner[0] \in {Nobody, c}
    <3>1. \A d \in Clients : Dismissed(d)' => Dismissed(d) /\ d # c
      BY <2>1, <2>3, <2>5, <2>6 DEF Dismissed
    <3>2. \A d \in Clients : Starts(d)' => Starts(d)
      BY <2>3 DEF Starts
    <3> QED
      BY <2>1, <2>2, <2>4, <2>6, <3>1, <3>2 DEF Superseded
  <2>7. CASE owner[0] \notin {Nobody, c}
    <3>1. PICK d \in Clients : d = owner[0]
      BY <1>1, <2>7 DEF TypeOK
    <3>2. ~Starts(d)
      BY <1>1, <3>1 DEF WatchInv, OwnersClaimed, Claimed, Starts
    <3>3. inbox' = [inbox EXCEPT ![d] = Append(inbox[d], Clear(0))]
      BY <2>1, <2>7, <3>1
    <3>4. Append(inbox[d], Clear(0)) \in Seq({Clear(0)})
      BY <2>2
    <3>5. inbox' \in [Clients -> Seq({Clear(0)})]
      BY <2>2, <3>3, <3>4
    <3>6. ~Dismissed(c)'
      BY <2>1, <2>2, <2>3, <2>5, <2>7, <3>1, <3>3 DEF Dismissed
    <3>7. \A e \in Clients \ {d} : Dismissed(e)' => Dismissed(e) \/ e = c
      BY <2>1, <2>2, <2>3, <3>3 DEF Dismissed
    <3>8. \A e \in Clients : Starts(e)' => Starts(e)
      BY <2>3 DEF Starts
    <3>9. \A e \in Clients : Dismissed(e)' => e # c /\ ~Starts(e)'
      BY <2>2, <3>2, <3>6, <3>7, <3>8
    <3> QED
      BY <2>1, <2>2, <2>4, <3>5, <3>9 DEF Superseded
  <2> QED
    BY <2>6, <2>7
<1>5. ASSUME NEW c \in Clients, Refused(c) PROVE Superseded'
  <2>1. pc[c] = "claim" /\ Destroyed(c) /\ Goto(c, "exited") /\ commands' = commands
    BY <1>5 DEF Refused
  <2>2. owner[0] # c
    BY <1>1, <2>1 DEF WatchInv, OwnersClaimed, Claimed
  <2> QED
    BY <2>1, <2>2, EndLeavesOwner
<1>6. ASSUME NEW c \in Clients, Await(c) PROVE Superseded'
  <2>1. /\ UNCHANGED <<owner, inbox, told, letters, commands>> /\ pc[c] = "await"
        /\ pc'[c] \in {"await", "running"} /\ \A d \in Clients \ {c} : pc'[d] = pc[d]
    BY <1>6 DEF Await, Goto, TypeOK
  <2>2. \A d \in Clients : (Dismissed(d)' => Dismissed(d)) /\ (Starts(d)' => Starts(d))
    BY <2>1 DEF Dismissed, Starts
  <2> QED
    BY <2>1, <2>2 DEF Superseded
<1>7. ASSUME NEW c \in Clients, NEW cur \in Screens, HandleClear(c, cur)
      PROVE  Superseded'
  <2>1. Dismissed(c) /\ Handle(c, "SelectionClear") /\ commands = 0
    BY <1>7 DEF HandleClear, Handle, Dismissed
  <2>2. /\ UNCHANGED <<owner, pc, letters, commands>>
        /\ inbox' = [inbox EXCEPT ![c] = Tail(@)]
        /\ told' = told \/ Noted(c, "Quit")
    BY <1>7 DEF HandleClear, Handle
  <2>3. Tail(inbox[c]) \in Seq({Clear(0)}) /\ inbox \in [Clients -> Seq({Clear(0)})]
    BY <2>1 DEF Superseded, Handle
  <2>4. /\ inbox' \in [Clients -> Seq({Clear(0)})]
        /\ \A d \in Clients : Dismissed(d)' => Dismissed(d)
        /\ \A d \in Clients : told[d] # "Restart" => told'[d] # "Restart"
    BY <2>1, <2>2, <2>3 DEF Dismissed, Noted, TypeOK
  <2> QED
    BY <2>1, <2>2, <2>4 DEF Superseded, Starts
<1>8. ASSUME NEW c \in Clients, NEW kind \in {"Quit", "Restart"}, HandleCommand(c, kind)
      PROVE  Superseded'
  BY <1>8, HandledIsClear DEF HandleCommand, Handle
<1>9. ASSUME NEW c \in Clients, Return(c) PROVE Superseded'
  <2>1. /\ UNCHANGED <<owner, inbox, told, letters, commands>> /\ Dismissed(c)
        /\ \A d \in Clients : pc'[d] = IF d = c THEN "leaving" ELSE pc[d]
    BY <1>9 DEF Return, Goto, TypeOK, Dismissed
  <2>2. \A d \in Clients : (Dismissed(d)' => Dismissed(d)) /\ (Starts(d)' => Starts(d))
    BY <2>1 DEF Dismissed, Starts
  <2> QED
    BY <2>1, <2>2 DEF Superseded
<1>10. ASSUME NEW c \in Clients, Leave(c) PROVE Superseded'
  <2>1. Destroyed(c) /\ Goto(c, "exited") /\ commands' = commands /\ Dismissed(c)
    BY <1>10 DEF Leave, Quit, Dismissed
  <2> QED
    BY <2>1, EndLeavesOwner DEF Superseded
<1>11. ASSUME NEW c \in Clients, Execute(c) PROVE Superseded'
  BY <1>11 DEF Execute, Superseded
<1>12. ASSUME NEW kind \in {"Quit", "Restart"}, FindOwner(kind) PROVE Superseded'
  BY <1>12 DEF FindOwner, TypeOK
<1>13. ASSUME NEW letter \in letters, Send(letter) PROVE Superseded'
  BY <1>13 DEF Send, Superseded
<1> QED
  BY <1>2, <1>3, <1>4, <1>5, <1>6, <1>7, <1>8, <1>9, <1>10, <1>11, <1>12, <1>13
  DEF Next, Step, vars

\* On one screen, when everybody has handled his messages one process at most
\* has the selection or believes so; and as long as nobody sends a command one
\* at least has it and is left, however starts and replacements overlap.
THEOREM OneIsLeft ==
  ASSUME NScreens = 1
  PROVE  Spec => [](OneAtMost /\ OneAtLeast)
<1>1. LosersAreTold => OneAtMost
  <2> SUFFICES ASSUME LosersAreTold, NEW c \in Clients, Stays(c)
               PROVE  owner[0] = c
    BY DEF OneAtMost
  <2>1. ~Contains(inbox[c], Clear(0)) /\ told[c] = "none"
    BY DEF Contains, Stays
  <2> QED
    BY <2>1, OneScreen DEF LosersAreTold, Stays
<1>2. TypeOK /\ WatchInv /\ Superseded => OneAtLeast
  <2> SUFFICES ASSUME TypeOK, WatchInv, Superseded, commands = 0, Running # {}
               PROVE  \E c \in Clients, s \in Screens : owner[s] = c /\ Stays(c)
    BY DEF OneAtLeast
  <2>1. PICK c \in Clients : owner[0] = c /\ ~Dismissed(c)
    BY DEF Superseded
  <2>2. Screens = {0} /\ at[c] = 0
    BY OneScreen DEF TypeOK
  <2>3. pc[c] \in {"await", "running", "leaving"}
    BY <2>1, <2>2 DEF WatchInv, OwnersClaimed, Claimed
  <2> QED
    BY <2>1, <2>2, <2>3 DEF Stays, Dismissed
<1>3. TypeOK /\ WatchInv /\ Superseded /\ [Next]_vars => Superseded'
  BY SupersededNext
<1>4. Init => Superseded
  BY SupersededInit
<1>5. Spec => []LosersAreTold
  BY LosersTold
<1> QED
  BY <1>1, <1>2, <1>3, <1>4, <1>5, TypedInit, TypedNext, WatchInit, WatchNext, PTL
  DEF Spec

=============================================================================
