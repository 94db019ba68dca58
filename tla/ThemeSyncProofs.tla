--------------------------- MODULE ThemeSyncProofs ---------------------------
(***************************************************************************)
(* What is proved of ThemeSync for any number of daemons and tools, any    *)
(* themes and styles: every variable keeps its type, and no daemon rests   *)
(* with a stale theme.                                                     *)
(***************************************************************************)
EXTENDS ThemeSync, TLAPS

\* What a process carries from one step of its work to the next.
Carried ==
    /\ \A p \in Processes : pc[p] = "replace" => found[p] \in Themes
    /\ \A c \in Clients :
          /\ pc[c] \in {"get", "name", "replace"} => want[c] \in Themes \cup {NoTheme}
          /\ pc[c] \in {"rc", "send"} => want[c] \in Themes
          /\ pc[c] \in {"unlink", "link"} => want[c] \in Styles

Typed == TypeOK /\ Carried

\* What a daemon in the middle of its work knows ...
Knows(e) ==
    /\ pc[e] = "name" => style \notin Themes
    /\ Target \in Themes =>
         /\ pc[e] = "replace" => found[e] = Target
         /\ pc[e] \in {"publish", "announce", "rename", "idle"} => theme[e] = Target

\* ... as long as no style is under way and nothing has been sent to it since
\* it began.
Informed == ~StyleUnderWay => \A d \in Daemons : Quiet(d) => Knows(d)

\* What is published differs from scr->theme only on the way to being so.
Published ==
    \A d \in Daemons :
        \/ shown[d] = theme[d]
        \/ pc[d] = "announce"
        \/ pc[d] = "publish" /\ replaced[d]

FreshInv == Typed /\ Informed /\ Published

\* The records of a manager.
LEMMA NoRecordType == NoRecord \in Record
  BY ThemeAssumption DEF ThemeAssumption, NoRecord, Record

LEMMA CheckedType ==
    ASSUME manager \in Nat, root \in Record
    PROVE  Checked \in Record
  BY ThemeAssumption DEF ThemeAssumption, Checked, Record

\* What is sent is a kind of check.
LEMMA NotifyType ==
    ASSUME news \in [Daemons -> SUBSET Check], NEW check \in Check, Notify(check)
    PROVE  news' \in [Daemons -> SUBSET Check]
  BY DEF Notify

\* A name that is written is a theme's.
LEMMA SetNameType ==
    ASSUME ServerType, NEW t \in Themes \cup {NoTheme}, SetName(t)
    PROVE  ServerType'
<1>1. "theme" \in Check
  BY DEF Check
<1>2. news' \in [Daemons -> SUBSET Check]
  BY <1>1, NotifyType DEF SetName, ServerType
<1> QED
  BY <1>2 DEF SetName, ServerType

\* The initial state is well typed.
LEMMA TypedInit == Init => Typed
<1> SUFFICES ASSUME Init PROVE Typed
  OBVIOUS
<1>1. ManagerType
  BY ThemeAssumption DEF ThemeAssumption, Init, ManagerType
<1>7. ServerType
  BY ThemeAssumption, NoRecordType DEF ThemeAssumption, Init, ServerType, Check
<1>2. DaemonType
  BY NoRecordType DEF Init, DaemonType, Check
<1>3. CheckType
  BY DEF Init, CheckType
<1>4. ClientType
  BY ThemeAssumption DEF ThemeAssumption, Init, ClientType
<1>5. ProcessType
  BY ThemeAssumption DEF ThemeAssumption, Init, ProcessType, Processes, DaemonPlace, ClientPlace
<1>6. Carried
  BY ThemeAssumption DEF ThemeAssumption, Init, Carried, Processes
<1> QED
  BY <1>1, <1>2, <1>3, <1>4, <1>5, <1>6, <1>7 DEF Typed, TypeOK

\* Where xde_get_theme returns to in a daemon, and in a tool.
LEMMA ReturnDaemon ==
    ASSUME NEW d \in Daemons
    PROVE  Return(d) = "publish"
  BY DEF Return

LEMMA ReturnClient ==
    ASSUME NEW c \in Clients
    PROVE  /\ Return(c) \in {"exit", "find", "rc"}
           /\ Return(c) = "rc" => want[c] # NoTheme
  BY ThemeAssumption DEF ThemeAssumption, Return

\* A daemon's own steps keep the types.
LEMMA TypedDaemon ==
    ASSUME Typed, NEW d \in Daemons, DaemonNext(d)
    PROVE  Typed'
<1> USE ThemeAssumption DEF ThemeAssumption, Typed, TypeOK, Goto, Check, DaemonPlace, ClientPlace,
        managerVars, serverVars, clientVars, checkVars, daemonVars
<1>1. CASE Handle(d)
  <2>1. ManagerType' /\ ServerType'
    BY <1>1 DEF Handle, ManagerType, ServerType
  <2>2. DaemonType'
    BY <1>1 DEF Handle, DaemonType, ServerType
  <2>3. CheckType'
    BY <1>1 DEF Handle, CheckType
  <2>4. ClientType'
    BY <1>1 DEF Handle, ClientType
  <2>5. ProcessType'
    BY <1>1 DEF Handle, ProcessType, Processes
  <2>6. Carried'
    BY <1>1 DEF Handle, Carried, ProcessType, ClientType, ManagerType, Processes
  <2> QED
    BY <2>1, <2>2, <2>3, <2>4, <2>5, <2>6
<1>2. CASE CheckTheme(d)
  <2>1. ManagerType' /\ ServerType'
    BY <1>2 DEF CheckTheme, ManagerType, ServerType
  <2>2. DaemonType'
    BY <1>2 DEF CheckTheme, DaemonType, ManagerType
  <2>3. CheckType'
    BY <1>2 DEF CheckTheme, CheckType
  <2>4. ClientType'
    BY <1>2 DEF CheckTheme, ClientType
  <2>5. ProcessType'
    BY <1>2 DEF CheckTheme, ProcessType, Processes
  <2>6. Carried'
    BY <1>2 DEF CheckTheme, Carried, ProcessType, ClientType, ManagerType, Processes
  <2> QED
    BY <2>1, <2>2, <2>3, <2>4, <2>5, <2>6
<1>3. CASE Recheck(d)
  <2>1. ManagerType' /\ ServerType'
    BY <1>3 DEF Recheck, ManagerType, ServerType
  <2>2. DaemonType'
    <3>1. Checked \in Record
      BY CheckedType DEF ManagerType, ServerType
    <3>2. record' \in [Daemons -> Record]
      BY <1>3, <3>1 DEF Recheck, DaemonType
    <3> QED
      BY <1>3, <3>2 DEF Recheck, DaemonType
  <2>3. CheckType'
    BY <1>3 DEF Recheck, Changed, CheckType
  <2>4. ClientType'
    BY <1>3 DEF Recheck, ClientType
  <2>5. ProcessType'
    BY <1>3 DEF Recheck, ProcessType, Processes
  <2>6. Carried'
    BY <1>3 DEF Recheck, Carried, ProcessType, ClientType, ManagerType, Processes
  <2> QED
    BY <2>1, <2>2, <2>3, <2>4, <2>5, <2>6
<1>4. CASE GetStyle(d)
  <2>1. ManagerType' /\ ServerType'
    BY <1>4 DEF GetStyle, ManagerType, ServerType
  <2>2. DaemonType'
    BY <1>4 DEF GetStyle, DaemonType, ManagerType
  <2>3. CheckType'
    BY <1>4 DEF GetStyle, CheckType
  <2>4. ClientType'
    BY <1>4 DEF GetStyle, ClientType
  <2>5. ProcessType'
    BY <1>4 DEF GetStyle, ProcessType, Processes
  <2>6. Carried'
    BY <1>4 DEF GetStyle, Carried, ProcessType, ClientType, ManagerType, Processes
  <2> QED
    BY <2>1, <2>2, <2>3, <2>4, <2>5, <2>6
<1>5. CASE GetName(d)
  <2>1. ManagerType' /\ ServerType'
    BY <1>5 DEF GetName, Named, Return, ManagerType, ServerType
  <2>2. DaemonType'
    BY <1>5 DEF GetName, Named, Return, DaemonType
  <2>3. CheckType'
    BY <1>5 DEF GetName, Named, Return, CheckType
  <2>4. ClientType'
    BY <1>5 DEF GetName, Named, Return, ClientType
  <2>5. ProcessType'
    <3>1. Goto(d, "publish") \/ Goto(d, "replace")
      BY <1>5, ReturnDaemon DEF GetName
    <3>2. found' \in [Processes -> Themes \cup {NoTheme}]
      BY <1>5 DEF GetName, ProcessType, Processes
    <3> QED
      BY <1>5, <3>1, <3>2 DEF GetName, ProcessType, Processes
  <2>6. Carried'
    BY <1>5 DEF GetName, Named, Return, Carried, ProcessType, ClientType, ManagerType, Processes
  <2> QED
    BY <2>1, <2>2, <2>3, <2>4, <2>5, <2>6
<1>6. CASE Replace(d)
  <2>1. ManagerType' /\ ServerType'
    BY <1>6 DEF Replace, Differs, Return, SetName, Notify, ManagerType, ServerType,
        Carried, Processes
  <2>2. DaemonType'
    BY <1>6 DEF Replace, Differs, Return, SetName, Notify, DaemonType
  <2>3. CheckType'
    BY <1>6 DEF Replace, Differs, Return, SetName, Notify, CheckType
  <2>4. ClientType'
    BY <1>6 DEF Replace, Differs, Return, SetName, Notify, ClientType
  <2>5. ProcessType'
    <3>1. Goto(d, "publish")
      BY <1>6, ReturnDaemon DEF Replace
    <3>2. theme' \in [Processes -> Themes \cup {NoTheme}]
      BY <1>6 DEF Replace, ProcessType, Carried, Processes
    <3>3. found' \in [Processes -> Themes \cup {NoTheme}]
      BY <1>6 DEF Replace, ProcessType, Processes
    <3> QED
      BY <3>1, <3>2, <3>3 DEF ProcessType, Processes
  <2>6. Carried'
    BY <1>6 DEF Replace, Differs, Return, SetName, Notify, Carried, ProcessType, ClientType, ManagerType, Processes
  <2> QED
    BY <2>1, <2>2, <2>3, <2>4, <2>5, <2>6
<1>7. CASE Publish(d)
  <2>1. ManagerType' /\ ServerType'
    BY <1>7 DEF Publish, CheckDone, Notify, DaemonType, ManagerType, ServerType
  <2>2. DaemonType'
    BY <1>7 DEF Publish, CheckDone, DaemonType
  <2>3. CheckType'
    BY <1>7 DEF Publish, CheckDone, CheckType
  <2>4. ClientType'
    BY <1>7 DEF Publish, CheckDone, ClientType
  <2>5. ProcessType'
    BY <1>7 DEF Publish, CheckDone, ProcessType, Processes
  <2>6. Carried'
    BY <1>7 DEF Publish, CheckDone, Carried, ProcessType, ClientType, ManagerType, Processes
  <2> QED
    BY <2>1, <2>2, <2>3, <2>4, <2>5, <2>6
<1>8. CASE Announce(d)
  <2>1. ManagerType' /\ ServerType'
    BY <1>8 DEF Announce, Notify, ManagerType, ServerType
  <2>2. DaemonType'
    BY <1>8 DEF Announce, Notify, DaemonType, ProcessType, Processes
  <2>3. CheckType'
    BY <1>8 DEF Announce, Notify, CheckType
  <2>4. ClientType'
    BY <1>8 DEF Announce, Notify, ClientType
  <2>5. ProcessType'
    BY <1>8 DEF Announce, Notify, ProcessType, Processes
  <2>6. Carried'
    BY <1>8 DEF Announce, Notify, Carried, ProcessType, ClientType, ManagerType, Processes
  <2> QED
    BY <2>1, <2>2, <2>3, <2>4, <2>5, <2>6
<1>9. CASE WriteName(d)
  <2>1. ManagerType' /\ ServerType'
    BY <1>9 DEF WriteName, SetName, Notify, ManagerType, ServerType, ProcessType,
        Processes
  <2>2. DaemonType'
    BY <1>9 DEF WriteName, SetName, Notify, DaemonType
  <2>3. CheckType'
    BY <1>9 DEF WriteName, SetName, Notify, CheckType
  <2>4. ClientType'
    BY <1>9 DEF WriteName, SetName, Notify, ClientType
  <2>5. ProcessType'
    BY <1>9 DEF WriteName, SetName, Notify, ProcessType, Carried, Processes
  <2>6. Carried'
    BY <1>9 DEF WriteName, SetName, Notify, Carried, ProcessType, ClientType, ManagerType, Processes
  <2> QED
    BY <2>1, <2>2, <2>3, <2>4, <2>5, <2>6
<1> QED
  BY <1>1, <1>2, <1>3, <1>4, <1>5, <1>6, <1>7, <1>8, <1>9 DEF DaemonNext

\* So do those of the tools.
LEMMA TypedClient ==
    ASSUME Typed, NEW c \in Clients, ClientNext(c)
    PROVE  Typed'
<1> USE ThemeAssumption DEF ThemeAssumption, Typed, TypeOK, Goto, Check, DaemonPlace, ClientPlace,
        managerVars, serverVars, clientVars, checkVars, daemonVars
<1>1. CASE Start(c)
  <2>1. ManagerType' /\ ServerType'
    BY <1>1 DEF Start, ClientUnchanged, ManagerType, ServerType
  <2>2. DaemonType'
    BY <1>1 DEF Start, ClientUnchanged, DaemonType
  <2>3. CheckType'
    BY <1>1 DEF Start, ClientUnchanged, CheckType
  <2>4. ClientType'
    BY <1>1 DEF Start, ClientUnchanged, ClientType
  <2>5. ProcessType'
    BY <1>1 DEF Start, ClientUnchanged, ProcessType, Processes
  <2>6. Carried'
    BY <1>1 DEF Start, ClientUnchanged, Carried, ProcessType, ClientType, ManagerType, Processes
  <2> QED
    BY <2>1, <2>2, <2>3, <2>4, <2>5, <2>6
<1>2. CASE GetStyle(c)
  <2>1. ManagerType' /\ ServerType'
    BY <1>2 DEF GetStyle, ManagerType, ServerType
  <2>2. DaemonType'
    BY <1>2 DEF GetStyle, DaemonType, ManagerType
  <2>3. CheckType'
    BY <1>2 DEF GetStyle, CheckType
  <2>4. ClientType'
    BY <1>2 DEF GetStyle, ClientType
  <2>5. ProcessType'
    BY <1>2 DEF GetStyle, ProcessType, Processes
  <2>6. Carried'
    <3>1. \A p \in Processes : pc'[p] = "replace" => found'[p] \in Themes
      BY <1>2 DEF GetStyle, Carried, ProcessType, Processes
    <3>2. want' = want /\ want[c] \in Themes \cup {NoTheme}
      BY <1>2 DEF GetStyle, Carried
    <3>3. \A p \in Processes \ {c} : pc'[p] = pc[p]
      BY <1>2 DEF GetStyle, ProcessType, Processes
    <3>4. pc'[c] \in {"name", "replace"}
      BY <1>2 DEF GetStyle, ProcessType, Processes
    <3> QED
      BY <3>1, <3>2, <3>3, <3>4 DEF Carried, Processes
  <2> QED
    BY <2>1, <2>2, <2>3, <2>4, <2>5, <2>6
<1>3. CASE GetName(c)
  <2>1. ManagerType' /\ ServerType'
    BY <1>3 DEF GetName, Named, Return, ManagerType, ServerType
  <2>2. DaemonType'
    BY <1>3 DEF GetName, Named, Return, DaemonType
  <2>3. CheckType'
    BY <1>3 DEF GetName, Named, Return, CheckType
  <2>4. ClientType'
    BY <1>3 DEF GetName, Named, Return, ClientType
  <2>5. ProcessType'
    BY <1>3 DEF GetName, Named, Return, ProcessType, Processes
  <2>6. Carried'
    <3>1. \A p \in Processes : pc'[p] = "replace" => found'[p] \in Themes
      BY <1>3, ReturnClient DEF GetName, Carried, ProcessType, Processes
    <3>2. want' = want /\ want[c] \in Themes \cup {NoTheme}
      BY <1>3 DEF GetName, Carried
    <3>3. \A p \in Processes \ {c} : pc'[p] = pc[p]
      BY <1>3 DEF GetName, ProcessType, Processes
    <3>4. pc'[c] \in {"replace", Return(c)}
      BY <1>3 DEF GetName, ProcessType, Processes
    <3> QED
      BY <3>1, <3>2, <3>3, <3>4, ReturnClient DEF Carried, Processes
  <2> QED
    BY <2>1, <2>2, <2>3, <2>4, <2>5, <2>6
<1>4. CASE Replace(c)
  <2>1. ManagerType' /\ ServerType'
    BY <1>4 DEF Replace, Differs, Return, KeepName, Rename, Request, ManagerType, ServerType
  <2>2. DaemonType'
    BY <1>4 DEF Replace, Differs, Return, KeepName, Rename, Request, DaemonType
  <2>3. CheckType'
    BY <1>4 DEF Replace, Differs, Return, KeepName, Rename, Request, CheckType
  <2>4. ClientType'
    <3>1. Rename(found[c]) \in Request
      BY <1>4 DEF Replace, Carried, Processes, Rename, Request
    <3>2. Append(out[c], Rename(found[c])) \in Seq(Request)
      BY <3>1 DEF ClientType
    <3>3. out' \in [Clients -> Seq(Request)]
      BY <1>4, <3>2 DEF Replace, ClientType
    <3> QED
      BY <1>4, <3>3 DEF Replace, ClientType
  <2>5. ProcessType'
    BY <1>4 DEF Replace, Differs, Return, KeepName, Rename, Request, ProcessType, Processes
  <2>6. Carried'
    BY <1>4 DEF Replace, Differs, Return, KeepName, Rename, Request, Carried, ProcessType, ClientType, ManagerType, Processes
  <2> QED
    BY <2>1, <2>2, <2>3, <2>4, <2>5, <2>6
<1>5. CASE WriteRc(c)
  <2>1. ManagerType' /\ ServerType'
    BY <1>5 DEF WriteRc, ClientUnchanged, ManagerType, ServerType
  <2>2. DaemonType'
    BY <1>5 DEF WriteRc, ClientUnchanged, DaemonType
  <2>3. CheckType'
    BY <1>5 DEF WriteRc, ClientUnchanged, CheckType
  <2>4. ClientType'
    BY <1>5 DEF WriteRc, ClientUnchanged, ClientType, Carried
  <2>5. ProcessType'
    BY <1>5 DEF WriteRc, ClientUnchanged, ProcessType, Processes
  <2>6. Carried'
    BY <1>5 DEF WriteRc, ClientUnchanged, Carried, ProcessType, ClientType, ManagerType, Processes
  <2> QED
    BY <2>1, <2>2, <2>3, <2>4, <2>5, <2>6
<1>6. CASE Send(c)
  <2>1. ManagerType' /\ ServerType'
    BY <1>6 DEF Send, ClientUnchanged, Rename, Request, ReadRcfiles, ManagerType, ServerType
  <2>2. DaemonType'
    BY <1>6 DEF Send, ClientUnchanged, Rename, Request, ReadRcfiles, DaemonType
  <2>3. CheckType'
    BY <1>6 DEF Send, ClientUnchanged, Rename, Request, ReadRcfiles, CheckType
  <2>4. ClientType'
    BY <1>6 DEF Send, ClientUnchanged, Rename, Request, ReadRcfiles, ClientType, Carried
  <2>5. ProcessType'
    BY <1>6 DEF Send, ClientUnchanged, Rename, Request, ReadRcfiles, ProcessType, Processes
  <2>6. Carried'
    BY <1>6 DEF Send, ClientUnchanged, Rename, Request, ReadRcfiles, Carried, ProcessType, ClientType, ManagerType, Processes
  <2> QED
    BY <2>1, <2>2, <2>3, <2>4, <2>5, <2>6
<1>7. CASE Find(c)
  <2>1. ManagerType' /\ ServerType'
    BY <1>7 DEF Find, ClientUnchanged, ManagerType, ServerType
  <2>2. DaemonType'
    BY <1>7 DEF Find, ClientUnchanged, DaemonType
  <2>3. CheckType'
    BY <1>7 DEF Find, ClientUnchanged, CheckType
  <2>4. ClientType'
    BY <1>7 DEF Find, ClientUnchanged, ClientType
  <2>5. ProcessType'
    BY <1>7 DEF Find, ClientUnchanged, ProcessType, Processes
  <2>6. Carried'
    BY <1>7 DEF Find, ClientUnchanged, Carried, ProcessType, ClientType, ManagerType, Processes
  <2> QED
    BY <2>1, <2>2, <2>3, <2>4, <2>5, <2>6
<1>8. CASE Unlink(c)
  <2>1. ManagerType' /\ ServerType'
    BY <1>8 DEF Unlink, ClientUnchanged, ManagerType, ServerType
  <2>2. DaemonType'
    BY <1>8 DEF Unlink, ClientUnchanged, DaemonType
  <2>3. CheckType'
    BY <1>8 DEF Unlink, ClientUnchanged, CheckType
  <2>4. ClientType'
    BY <1>8 DEF Unlink, ClientUnchanged, ClientType
  <2>5. ProcessType'
    BY <1>8 DEF Unlink, ClientUnchanged, ProcessType, Processes
  <2>6. Carried'
    BY <1>8 DEF Unlink, ClientUnchanged, Carried, ProcessType, ClientType, ManagerType, Processes
  <2> QED
    BY <2>1, <2>2, <2>3, <2>4, <2>5, <2>6
<1>9. CASE Link(c)
  <2>1. ManagerType' /\ ServerType'
    BY <1>9 DEF Link, ClientUnchanged, ManagerType, ServerType, Carried
  <2>2. DaemonType'
    BY <1>9 DEF Link, ClientUnchanged, DaemonType
  <2>3. CheckType'
    BY <1>9 DEF Link, ClientUnchanged, CheckType
  <2>4. ClientType'
    BY <1>9 DEF Link, ClientUnchanged, ClientType
  <2>5. ProcessType'
    BY <1>9 DEF Link, ClientUnchanged, ProcessType, Processes
  <2>6. Carried'
    BY <1>9 DEF Link, ClientUnchanged, Carried, ProcessType, ClientType, ManagerType, Processes
  <2> QED
    BY <2>1, <2>2, <2>3, <2>4, <2>5, <2>6
<1>10. CASE Flush(c)
  <2>1. ManagerType' /\ ServerType'
    <3>1. ManagerType'
      BY <1>10 DEF Flush, ManagerType
    <3>2. Head(out[c]) \in Request
      BY <1>10 DEF Flush, ClientType
    <3>3. CASE Head(out[c]) = ReadRcfiles
      <4>1. Notify("theme") /\ UNCHANGED <<prop, root>>
        BY <1>10, <3>3 DEF Flush
      <4>2. "theme" \in Check
        OBVIOUS
      <4>3. news' \in [Daemons -> SUBSET Check]
        BY <4>1, <4>2, NotifyType DEF ServerType
      <4> QED
        BY <3>1, <4>1, <4>3 DEF ServerType
    <3>4. CASE Head(out[c]) # ReadRcfiles
      <4>1. Head(out[c]).theme \in Themes
        BY <3>2, <3>4 DEF Request
      <4>2. SetName(Head(out[c]).theme)
        BY <1>10, <3>4 DEF Flush
      <4> QED
        BY <3>1, <4>1, <4>2, SetNameType
    <3> QED
      BY <3>1, <3>3, <3>4
  <2>2. DaemonType'
    BY <1>10 DEF Flush, ClientUnchanged, SetName, Notify, Request, ReadRcfiles, DaemonType
  <2>3. CheckType'
    BY <1>10 DEF Flush, ClientUnchanged, SetName, Notify, Request, ReadRcfiles, CheckType
  <2>4. ClientType'
    BY <1>10 DEF Flush, ClientUnchanged, SetName, Notify, Request, ReadRcfiles, ClientType, Carried
  <2>5. ProcessType'
    BY <1>10 DEF Flush, ClientUnchanged, SetName, Notify, Request, ReadRcfiles, ProcessType, Processes
  <2>6. Carried'
    BY <1>10 DEF Flush, ClientUnchanged, SetName, Notify, Request, ReadRcfiles, Carried, ProcessType, ClientType, ManagerType, Processes
  <2> QED
    BY <2>1, <2>2, <2>3, <2>4, <2>5, <2>6
<1>11. CASE Exit(c)
  <2>1. ManagerType' /\ ServerType'
    BY <1>11 DEF Exit, ClientUnchanged, ManagerType, ServerType
  <2>2. DaemonType'
    BY <1>11 DEF Exit, ClientUnchanged, DaemonType
  <2>3. CheckType'
    BY <1>11 DEF Exit, ClientUnchanged, CheckType
  <2>4. ClientType'
    BY <1>11 DEF Exit, ClientUnchanged, ClientType
  <2>5. ProcessType'
    BY <1>11 DEF Exit, ClientUnchanged, ProcessType, Processes
  <2>6. Carried'
    BY <1>11 DEF Exit, ClientUnchanged, Carried, ProcessType, ClientType, ManagerType, Processes
  <2> QED
    BY <2>1, <2>2, <2>3, <2>4, <2>5, <2>6
<1>12. CASE LinkFails(c)
  <2>1. ManagerType' /\ ServerType'
    BY <1>12 DEF LinkFails, ClientUnchanged, ManagerType, ServerType
  <2>2. DaemonType'
    BY <1>12 DEF LinkFails, ClientUnchanged, DaemonType
  <2>3. CheckType'
    BY <1>12 DEF LinkFails, ClientUnchanged, CheckType
  <2>4. ClientType'
    BY <1>12 DEF LinkFails, ClientUnchanged, ClientType
  <2>5. ProcessType'
    BY <1>12 DEF LinkFails, ClientUnchanged, ProcessType, Processes
  <2>6. Carried'
    BY <1>12 DEF LinkFails, ClientUnchanged, Carried, ProcessType, ClientType, ManagerType, Processes
  <2> QED
    BY <2>1, <2>2, <2>3, <2>4, <2>5, <2>6
<1> QED
  BY <1>1, <1>2, <1>3, <1>4, <1>5, <1>6, <1>7, <1>8, <1>9, <1>10, <1>11, <1>12 DEF ClientNext

\* And the steps of the manager.
LEMMA TypedNext ==
    ASSUME Typed, [Next]_vars
    PROVE  Typed'
<1> USE ThemeAssumption DEF ThemeAssumption, Typed, TypeOK
<1>1. CASE ChangeStyle
  <2>1. ManagerType'
    BY <1>1 DEF ChangeStyle, ManagerType
  <2>2. ServerType' /\ DaemonType' /\ CheckType' /\ ClientType' /\ ProcessType' /\ Carried'
    BY <1>1 DEF ChangeStyle, serverVars, clientVars, checkVars, daemonVars, ServerType,
        DaemonType, CheckType, ClientType, ProcessType, Carried
  <2> QED
    BY <2>1, <2>2
<1>2. CASE Reloads
  <2>1. ManagerType'
    <3>1. manager' \in {manager, manager + 1}
      BY <1>2 DEF Reloads
    <3>2. manager' \in Nat
      BY <3>1 DEF ManagerType
    <3> QED
      BY <1>2, <3>2 DEF Reloads, ManagerType
  <2>2. ServerType'
    BY <1>2 DEF Reloads, Notify, ServerType, Check
  <2>3. DaemonType' /\ CheckType' /\ ClientType' /\ ProcessType' /\ Carried'
    BY <1>2 DEF Reloads, clientVars, checkVars, daemonVars,
        DaemonType, CheckType, ClientType, ProcessType, Carried
  <2> QED
    BY <2>1, <2>2, <2>3
<1>3. CASE UNCHANGED vars
  BY <1>3 DEF vars, managerVars, serverVars, clientVars, checkVars, daemonVars, ManagerType,
      ServerType, DaemonType, CheckType, ClientType, ProcessType, Carried
<1> QED
  BY <1>1, <1>2, <1>3, TypedDaemon, TypedClient DEF Next

\* Every variable keeps its type, however many daemons and tools run.
THEOREM Typing == Spec => []TypeOK
<1>1. Typed => TypeOK
  BY DEF Typed
<1> QED
  BY <1>1, TypedInit, TypedNext, PTL DEF Spec

-----------------------------------------------------------------------------
\* What of a daemon e a step leaves as it is, or only adds to.
Untouched(e) ==
    /\ pc'[e] = pc[e] /\ theme'[e] = theme[e] /\ found'[e] = found[e]
    /\ replaced'[e] = replaced[e] /\ shown'[e] = shown[e] /\ asked'[e] = asked[e]
    /\ pc[e] # "off" => news[e] \subseteq news'[e]

\* No tool touches a daemon but by sending to it.
LEMMA ClientTouchesNone ==
    ASSUME Typed, NEW c \in Clients, ClientNext(c), NEW e \in Daemons
    PROVE  Untouched(e)
<1> USE ThemeAssumption DEF ThemeAssumption, Typed, TypeOK, ServerType, DaemonType,
        CheckType, ProcessType, Processes, Untouched, Goto, ClientUnchanged,
        serverVars, daemonVars, checkVars
<1>1. CASE Start(c) \/ WriteRc(c) \/ Send(c) \/ Find(c) \/ Unlink(c) \/ Link(c)
      \/ LinkFails(c) \/ Exit(c)
  BY <1>1 DEF Start, WriteRc, Send, Find, Unlink, Link, LinkFails, Exit
<1>2. CASE GetStyle(c) \/ GetName(c)
  BY <1>2 DEF GetStyle, GetName
<1>3. CASE Replace(c)
  BY <1>3 DEF Replace, KeepName
<1>4. CASE Flush(c)
  BY <1>4 DEF Flush, SetName, Notify
<1> QED
  BY <1>1, <1>2, <1>3, <1>4 DEF ClientNext

\* No daemon touches another but by sending to it.
LEMMA DaemonTouchesNone ==
    ASSUME Typed, NEW d \in Daemons, DaemonNext(d), NEW e \in Daemons \ {d}
    PROVE  Untouched(e)
<1> USE DEF Typed, TypeOK, ServerType, DaemonType, CheckType, ProcessType, Processes,
        Untouched, Goto, serverVars, daemonVars, checkVars
<1>1. CASE Handle(d)
  BY <1>1 DEF Handle
<1>2. CASE CheckTheme(d) \/ Recheck(d)
  BY <1>2 DEF CheckTheme, Recheck
<1>3. CASE GetStyle(d) \/ GetName(d)
  BY <1>3 DEF GetStyle, GetName
<1>4. CASE Replace(d)
  BY <1>4 DEF Replace, SetName, Notify
<1>5. CASE Publish(d)
  BY <1>5 DEF Publish, CheckDone, Notify
<1>6. CASE Announce(d)
  BY <1>6 DEF Announce, Notify
<1>7. CASE WriteName(d)
  BY <1>7 DEF WriteName, SetName, Notify
<1> QED
  BY <1>1, <1>2, <1>3, <1>4, <1>5, <1>6, <1>7 DEF DaemonNext

\* Whatever changes the theme there is to find either is a style on its way,
\* which will be told, or has been told to every daemon that runs with the same step.
LEMMA ChangeIsTold ==
    ASSUME Typed, [Next]_vars
    PROVE  \/ StyleUnderWay'
           \/ \A e \in Daemons : pc[e] # "off" => news'[e] # {}
           \/ style' = style /\ prop' = prop /\ ~StyleUnderWay
<1> USE ThemeAssumption DEF ThemeAssumption, Typed, TypeOK, ProcessType, Processes, Goto,
        ClientUnchanged, StyleUnderWay, managerVars, serverVars
<1>1. CASE ChangeStyle
  BY <1>1 DEF ChangeStyle
<1>2. CASE Reloads
  BY <1>2 DEF Reloads, Notify
<1>3. ASSUME NEW d \in Daemons, DaemonNext(d)
      PROVE  \/ \A e \in Daemons : pc[e] # "off" => news'[e] # {}
             \/ style' = style /\ prop' = prop /\ (StyleUnderWay' <=> StyleUnderWay)
  <2>1. CASE Handle(d) \/ CheckTheme(d) \/ Recheck(d)
    BY <2>1 DEF Handle, CheckTheme, Recheck
  <2>2. CASE GetStyle(d) \/ GetName(d)
    BY <2>2, ReturnDaemon DEF GetStyle, GetName
  <2>3. CASE Replace(d)
    BY <2>3, ReturnDaemon DEF Replace, Carried, SetName, Notify
  <2>4. CASE Publish(d)
    BY <2>4 DEF Publish
  <2>5. CASE Announce(d)
    BY <2>5 DEF Announce, Notify
  <2>6. CASE WriteName(d)
    <3>1. CASE theme[d] \in Themes \/ prop \in Themes
      BY <2>6, <3>1 DEF WriteName, SetName, Notify
    <3>2. CASE ~(theme[d] \in Themes \/ prop \in Themes)
      <4>1. theme[d] = NoTheme /\ prop = NoTheme
        BY <3>2 DEF ServerType
      <4>2. prop' = prop /\ style' = style /\ reloading' = reloading
        BY <2>6, <4>1 DEF WriteName, SetName
      <4>3. \A c \in Clients : pc'[c] = pc[c]
        BY <2>6 DEF WriteName
      <4> QED
        BY <4>2, <4>3
    <3> QED
      BY <3>1, <3>2
  <2> QED
    BY <1>3, <2>1, <2>2, <2>3, <2>4, <2>5, <2>6 DEF DaemonNext
<1>4. ASSUME NEW c \in Clients, ClientNext(c)
      PROVE  \/ StyleUnderWay'
             \/ \A e \in Daemons : pc[e] # "off" => news'[e] # {}
             \/ style' = style /\ prop' = prop /\ ~StyleUnderWay
  <2>1. CASE Start(c) \/ WriteRc(c) \/ Send(c) \/ Find(c) \/ Exit(c)
    BY <2>1 DEF Start, WriteRc, Send, Find, Exit
  <2>2. CASE GetStyle(c) \/ GetName(c)
    BY <2>2, ReturnClient DEF GetStyle, GetName
  <2>3. CASE Replace(c)
    BY <2>3, ReturnClient DEF Replace, KeepName
  <2>4. CASE Unlink(c) \/ Link(c) \/ LinkFails(c)
    BY <2>4 DEF Unlink, Link, LinkFails
  <2>5. CASE Flush(c)
    <3>1. Head(out[c]) \in Request
      BY <2>5 DEF Flush, ClientType
    <3>2. Head(out[c]) = ReadRcfiles \/ Head(out[c]).theme \in Themes
      BY <3>1 DEF Request
    <3>3. \A e \in Daemons : pc[e] # "off" => news'[e] # {}
      BY <2>5, <3>2 DEF Flush, SetName, Notify
    <3> QED
      BY <3>3
  <2> QED
    BY <1>4, <2>1, <2>2, <2>3, <2>4, <2>5 DEF ClientNext
<1>5. CASE UNCHANGED vars
  BY <1>5 DEF vars
<1> QED
  BY <1>1, <1>2, <1>3, <1>4, <1>5 DEF Next

\* A daemon's own step keeps what it has published.
LEMMA PublishedStep ==
    ASSUME Typed, Published, NEW d \in Daemons, DaemonNext(d)
    PROVE  \/ shown'[d] = theme'[d]
           \/ pc'[d] = "announce"
           \/ pc'[d] = "publish" /\ replaced'[d]
<1> USE DEF Typed, TypeOK, DaemonType, CheckType, ProcessType, Processes, Published, Goto,
        daemonVars, checkVars
<1>1. CASE Handle(d)
  BY <1>1 DEF Handle
<1>2. CASE CheckTheme(d) \/ Recheck(d)
  BY <1>2 DEF CheckTheme, Recheck
<1>3. CASE GetStyle(d) \/ GetName(d)
  BY <1>3 DEF GetStyle, GetName
<1>4. CASE Replace(d)
  <2>1. pc'[d] = "publish" /\ replaced'[d] = Differs(d)
    BY <1>4, ReturnDaemon DEF Replace
  <2>2. ~Differs(d) => shown'[d] = theme'[d]
    BY <1>4 DEF Replace, Differs
  <2> QED
    BY <2>1, <2>2
<1>5. CASE Publish(d)
  <2>1. shown'[d] = shown[d] /\ theme'[d] = theme[d]
    BY <1>5 DEF Publish
  <2>2. replaced[d] => pc'[d] = "announce"
    BY <1>5 DEF Publish
  <2> QED
    BY <1>5, <2>1, <2>2 DEF Publish
<1>6. CASE Announce(d)
  BY <1>6 DEF Announce
<1>7. CASE WriteName(d)
  BY <1>7 DEF WriteName
<1> QED
  BY <1>1, <1>2, <1>3, <1>4, <1>5, <1>6, <1>7 DEF DaemonNext

\* What is true of a step by anyone but e, or by no one.
LEMMA OthersTouchNone ==
    ASSUME Typed, [Next]_vars, NEW e \in Daemons, ~DaemonNext(e)
    PROVE  Untouched(e)
<1>1. CASE ChangeStyle \/ Reloads
  BY <1>1 DEF Typed, TypeOK, ServerType, ChangeStyle, Reloads, Notify, Untouched, serverVars,
      daemonVars, checkVars
<1>2. CASE UNCHANGED vars
  BY <1>2 DEF vars, Untouched, serverVars, daemonVars, checkVars
<1>3. CASE \E d \in Daemons : DaemonNext(d)
  BY <1>3, DaemonTouchesNone
<1>4. CASE \E c \in Clients : ClientNext(c)
  BY <1>4, ClientTouchesNone
<1> QED
  BY <1>1, <1>2, <1>3, <1>4 DEF Next

\* Every step keeps what the daemons have published.
LEMMA PublishedNext ==
    ASSUME Typed, Published, [Next]_vars
    PROVE  Published'
<1> SUFFICES ASSUME NEW e \in Daemons
             PROVE  \/ shown'[e] = theme'[e]
                    \/ pc'[e] = "announce"
                    \/ pc'[e] = "publish" /\ replaced'[e]
  BY DEF Published
<1>1. CASE DaemonNext(e)
  BY <1>1, PublishedStep
<1>2. CASE ~DaemonNext(e)
  BY <1>2, OthersTouchNone DEF Untouched, Published
<1> QED
  BY <1>1, <1>2

\* A daemon that is sent nothing by its own step, while the style and the
\* property stay, learns from it what it has to.
LEMMA KnowsStep ==
    ASSUME Typed, NEW d \in Daemons, DaemonNext(d), Quiet(d) => Knows(d), Quiet(d)',
           style' = style, prop' = prop
    PROVE  Knows(d)'
<1>t. Target' = Target
  BY DEF Target
<1> USE DEF Typed, TypeOK, ServerType, DaemonType, ProcessType, Processes, Goto, Knows, Quiet,
        serverVars, daemonVars, checkVars
<1>1. CASE Handle(d)
  BY <1>1 DEF Handle
<1>2. CASE CheckTheme(d) \/ Recheck(d)
  BY <1>2 DEF CheckTheme, Recheck
<1>3. CASE GetStyle(d)
  BY <1>3, <1>t DEF GetStyle, Target
<1>4. CASE GetName(d)
  <2>1. Knows(d)
    BY <1>4 DEF GetName
  <2>2. Target = prop
    BY <2>1, <1>4 DEF GetName, Target
  <2>3. CASE Named \in Themes
    <3>1. pc'[d] = "replace" /\ found'[d] = Named
      BY <1>4, <2>3 DEF GetName
    <3>2. Target \in Themes => Named = Target
      BY <2>2 DEF Named
    <3> QED
      BY <3>1, <3>2, <1>t
  <2>4. CASE Named \notin Themes
    <3>1. pc'[d] = "publish"
      BY <1>4, <2>4, ReturnDaemon DEF GetName
    <3>2. Target \notin Themes
      BY <2>2, <2>4 DEF Named
    <3> QED
      BY <3>1, <3>2, <1>t
  <2> QED
    BY <2>3, <2>4
<1>5. CASE Replace(d)
  <2>1. pc'[d] = "publish" /\ theme'[d] = found[d]
    BY <1>5, ReturnDaemon DEF Replace
  <2>2. CASE Differs(d)
    <3>1. Notify("theme")
      BY <1>5, <2>2 DEF Replace, SetName, Carried
    <3>2. news'[d] # {}
      BY <1>5, <3>1 DEF Replace, Notify
    <3> QED
      BY <3>2
  <2>3. CASE ~Differs(d)
    <3>1. UNCHANGED <<news, asked>>
      BY <1>5, <2>3 DEF Replace
    <3>2. Quiet(d) /\ pc[d] = "replace"
      BY <1>5, <3>1 DEF Replace
    <3> QED
      BY <2>1, <3>2, <1>t
  <2> QED
    BY <2>2, <2>3
<1>6. CASE Publish(d)
  <2>1. Quiet(d) /\ pc[d] = "publish" /\ pc'[d] \in {"announce", "idle"} /\ theme'[d] = theme[d]
    BY <1>6 DEF Publish, Notify
  <2> QED
    BY <2>1, <1>t
<1>7. CASE Announce(d)
  BY <1>7 DEF Announce, Notify
<1>8. CASE WriteName(d)
  <2>1. Quiet(d) /\ pc[d] = "rename" /\ pc'[d] = "idle" /\ theme'[d] = theme[d]
    BY <1>8 DEF WriteName, SetName, Notify
  <2> QED
    BY <2>1, <1>t
<1> QED
  BY <1>1, <1>2, <1>3, <1>4, <1>5, <1>6, <1>7, <1>8 DEF DaemonNext

\* No step makes a daemon rest on what it no longer knows.
LEMMA InformedNext ==
    ASSUME Typed, Informed, [Next]_vars
    PROVE  Informed'
<1> SUFFICES ASSUME ~StyleUnderWay', NEW e \in Daemons, Quiet(e)'
             PROVE  Knows(e)'
  BY DEF Informed
<1>0. CASE pc[e] = "off"
  <2>1. ~DaemonNext(e)
    BY <1>0 DEF DaemonNext, Handle, CheckTheme, Recheck, GetStyle, GetName, Replace, Publish,
        Announce, WriteName
  <2>2. pc'[e] = "off"
    BY <2>1, <1>0, OthersTouchNone DEF Untouched
  <2> QED
    BY <2>2 DEF Knows
<1> SUFFICES ASSUME pc[e] # "off" PROVE Knows(e)'
  BY <1>0
<1>1. style' = style /\ prop' = prop /\ ~StyleUnderWay
  BY ChangeIsTold DEF Quiet
<1>2. Quiet(e) => Knows(e)
  BY <1>1 DEF Informed
<1>3. CASE DaemonNext(e)
  BY <1>1, <1>2, <1>3, KnowsStep
<1>4. CASE ~DaemonNext(e)
  <2>1. Untouched(e)
    BY <1>4, OthersTouchNone
  <2>2. Quiet(e)
    BY <2>1 DEF Untouched, Quiet
  <2> QED
    BY <1>1, <1>2, <2>1, <2>2 DEF Untouched, Knows, Target
<1> QED
  BY <1>3, <1>4

\* No daemon rests with a theme that is not the one of the style, or of the
\* root window, nor with one it has not published.
THEOREM ThemeNeverStale == Spec => []NeverStale
<1>1. Init => FreshInv
  <2> SUFFICES ASSUME Init PROVE Informed /\ Published
    BY TypedInit DEF FreshInv
  <2>1. Informed
    BY DEF Init, Informed, Quiet
  <2>2. Published
    BY DEF Init, Published, Processes
  <2> QED
    BY <2>1, <2>2
<1>2. FreshInv /\ [Next]_vars => FreshInv'
  BY TypedNext, InformedNext, PublishedNext DEF FreshInv
<1>3. FreshInv => NeverStale
  <2> SUFFICES ASSUME FreshInv, ~StyleUnderWay, Target \in Themes, NEW d \in Daemons, AtRest(d)
               PROVE  theme[d] = Target /\ shown[d] = Target
    BY DEF NeverStale
  <2>1. theme[d] = Target
    BY DEF FreshInv, Informed, Knows, AtRest
  <2>2. shown[d] = theme[d]
    BY DEF FreshInv, Published, AtRest
  <2> QED
    BY <2>1, <2>2
<1> QED
  BY <1>1, <1>2, <1>3, PTL DEF Spec
=============================================================================
