------------------------- MODULE StyleSettingProofs -------------------------
(***************************************************************************)
(* What is proved of StyleSetting for any number of commands, of runs and  *)
(* of kills, and any styles: every variable keeps its type, a command that *)
(* ran alone and says that it has set the style has, the files of the      *)
(* styles survive commands that run one after another, and a style is in   *)
(* force after any that are not killed; and a manager that is asked to     *)
(* reload by every command agrees with its files once nobody has anything  *)
(* left to do.                                                             *)
(***************************************************************************)
EXTENDS StyleSetting, TLAPS

\* A link leads to a style.
LinkNames == file.form = "link" => file.style \in Styles

Typed == TypeOK /\ LinkNames

\* A command that has run alone so far is the only one that runs.
Undisturbed(c) == Running(c) /\ alone[c]

Solitary ==
    \A c \in Commands :
        Undisturbed(c) => \A d \in Commands \ {c} : ~Running(d)

\* Before any two have overlapped every command has run alone.
Apart == ~overlapped => \A c \in Commands : Running(c) => alone[c]

\* What such a command finds: no link where it has removed one, the file it
\* has opened, and the style it has written.
InOrder ==
    \A c \in Commands : Undisturbed(c) =>
        /\ pc[c] = "open" => file.form # "link"
        /\ pc[c] = "include" => holds[c]
        /\ pc[c] = "reload" /\ ~Rewrites => file.style = want[c]

\* Only openbox and pekwm look beyond the line that names the style.
Plain ==
    way # "edit" => file.strays = {} /\ \A c \in Commands : read[c].strays = {}

Order == Typed /\ Solitary /\ Apart /\ InOrder /\ Plain

\* The ways of the commands, and where each leads.
Places == Ended \cup {"idle", "compare", "lstat", "unlink", "symlink", "open",
                      "include", "read", "truncate", "write", "reload"}

\* What a file can be.
LEMMA NoneFile == None \in File /\ None.form = "none" /\ None.strays = {}
  BY DEF None, File

LEMMA EmptyFile ==
    Empty \in File /\ Empty.form = "file" /\ Empty.style = NoStyle /\ Empty.strays = {}
  BY DEF Empty, None, File

LEMMA LinkFile ==
    ASSUME NEW s \in Styles
    PROVE  /\ Link(s) \in File /\ Link(s).form = "link"
           /\ Link(s).style = s /\ Link(s).strays = {}
  BY DEF Link, None, File

LEMMA IncludingFile ==
    ASSUME NEW s \in Styles
    PROVE  /\ Including(s) \in File /\ Including(s).form = "file"
           /\ Including(s).style = s /\ Including(s).strays = {}
  BY DEF Including, None, File

LEMMA EditedFile ==
    ASSUME NEW s \in Styles \cup {NoStyle}, NEW exact \in BOOLEAN,
           NEW strays \in SUBSET Styles
    PROVE  /\ Edited(s, exact, strays) \in File
           /\ Edited(s, exact, strays).form = "file"
           /\ Edited(s, exact, strays).style = s
  BY DEF Edited, File

\* What is written by those that rewrite a file, and where it names a style.
LEMMA WriteFile ==
    ASSUME NEW c \in Commands, Write(c), read[c] \in File, want[c] \in Styles
    PROVE  /\ file' \in File /\ file'.form = "file"
           /\ way # "edit" \/ Replaceable(read[c]) => file'.style = want[c]
<1>1. PICK strays \in Strays(c) :
         file' = Edited(IF way = "edit" /\ ~Replaceable(read[c])
                        THEN read[c].style ELSE want[c],
                        read[c].exact, strays)
  BY DEF Write
<1>2. read[c].style \in Styles \cup {NoStyle} /\ read[c].exact \in BOOLEAN
      /\ read[c].strays \in SUBSET Styles
  BY DEF File
<1>3. strays \in SUBSET Styles
  BY <1>2 DEF Strays
<1> QED
  BY <1>1, <1>2, <1>3, EditedFile

\* The initial state is well typed.
LEMMA TypedInit == Init => Typed
<1> SUFFICES ASSUME Init PROVE Typed
  OBVIOUS
<1>1. file \in File /\ way \in Ways /\ reachable \in BOOLEAN /\ LinkNames
  <2>1. \/ file = None
        \/ \E s \in Styles : file = Link(s) \/ file = Including(s)
        \/ \E s \in Styles, exact \in BOOLEAN, strays \in SUBSET Styles :
              file = Edited(s, exact, strays)
    BY DEF Init
  <2> QED
    <3>1. file \in File /\ LinkNames
      BY <2>1, NoneFile, LinkFile, IncludingFile, EditedFile DEF LinkNames
    <3>2. reachable \in BOOLEAN
      BY DEF Init
    <3> QED
      BY <3>1, <3>2 DEF Init
<1>2. shown \in Styles
  BY <1>1, SettingAssumption DEF SettingAssumption, Init, File
<1>3. read \in [Commands -> File]
  BY NoneFile DEF Init
<1>4. want \in [Commands -> Styles]
  BY SettingAssumption DEF SettingAssumption, Init
<1>5. runs \in 0..MaxRuns /\ kills \in 0..MaxKills
  BY SettingAssumption DEF SettingAssumption, Init
<1> QED
  BY <1>1, <1>2, <1>3, <1>4, <1>5 DEF Init, Typed, TypeOK, Ended

\* Each step keeps the types.
LEMMA TypedNext == Typed /\ [Next]_vars => Typed'
<1> SUFFICES ASSUME Typed, [Next]_vars PROVE Typed'
  OBVIOUS
<1> USE SettingAssumption DEF SettingAssumption, wayVars
<1>1. CASE UNCHANGED vars
  BY <1>1 DEF vars, wayVars, fileVars, managerVars, commandVars, Typed, TypeOK, LinkNames
<1>2. CASE Load
  <2>1. shown' \in Styles
    BY <1>2 DEF Load, Typed, TypeOK, File
  <2> QED
    BY <1>2, <2>1 DEF Load, Typed, TypeOK, LinkNames, fileVars, commandVars
<1>3. ASSUME NEW c \in Commands, Start(c) PROVE Typed'
  <2>1. PICK s \in Styles, reload \in BOOLEAN, link \in BOOLEAN :
           /\ want' = [want EXCEPT ![c] = s]
           /\ options' = [options EXCEPT ![c] = [reload |-> reload, link |-> link]]
    BY <1>3 DEF Start
  <2>2. want' \in [Commands -> Styles]
    BY <2>1 DEF Typed, TypeOK
  <2>3. options' \in [Commands -> [reload : BOOLEAN, link : BOOLEAN]]
    BY <2>1 DEF Typed, TypeOK
  <2>4. alone' \in [Commands -> BOOLEAN] /\ overlapped' \in BOOLEAN
    BY <1>3 DEF Start, Running, Typed, TypeOK
  <2>5. /\ pc' \in [Commands -> Places]
        /\ \A d \in Commands : holds[d] => pc'[d] = "include"
    BY <1>3 DEF Start, Goto, Running, Typed, TypeOK, Places, Ended
  <2>6. runs' \in 0..MaxRuns
    BY <1>3 DEF Start, Typed, TypeOK
  <2> QED
    BY <1>3, <2>2, <2>3, <2>4, <2>5, <2>6
    DEF Start, Typed, TypeOK, Places, LinkNames, fileVars, managerVars
<1>4. ASSUME NEW c \in Commands, Kill(c) PROVE Typed'
  <2>1. /\ pc' \in [Commands -> Places]
        /\ holds' \in [Commands -> BOOLEAN]
        /\ \A d \in Commands : holds'[d] => pc'[d] = "include" /\ file.form = "file"
    BY <1>4 DEF Kill, Goto, Typed, TypeOK, Places, Ended
  <2>2. kills' \in 0..MaxKills
    BY <1>4 DEF Kill, Typed, TypeOK
  <2> QED
    BY <1>4, <2>1, <2>2
    DEF Kill, Typed, TypeOK, Places, LinkNames, fileVars, managerVars, commandVars
<1>5. ASSUME NEW c \in Commands, Compare(c) PROVE Typed'
  <2>1. /\ pc' \in [Commands -> Places]
        /\ \A d \in Commands : holds[d] => pc'[d] = "include"
    BY <1>5 DEF Compare, Goto, Typed, TypeOK, Places, Ended
  <2> QED
    BY <1>5, <2>1
    DEF Compare, Typed, TypeOK, Places, LinkNames, fileVars, managerVars, commandVars
<1>6. ASSUME NEW c \in Commands, Lstat(c) PROVE Typed'
  <2>1. /\ pc' \in [Commands -> Places]
        /\ \A d \in Commands : holds[d] => pc'[d] = "include"
    BY <1>6 DEF Lstat, Goto, Typed, TypeOK, Places, Ended
  <2>2. options' \in [Commands -> [reload : BOOLEAN, link : BOOLEAN]]
    <3> DEFINE link == options[c].link \/ way = "link" \/ file.form = "link"
    <3>1. link \in BOOLEAN
      OBVIOUS
    <3>2. options' = [options EXCEPT ![c] = [options[c] EXCEPT !.link = link]]
      BY <1>6, Zenon DEF Lstat, Typed, TypeOK
    <3> HIDE DEF link
    <3> QED
      BY <3>1, <3>2 DEF Typed, TypeOK
  <2> QED
    BY <1>6, <2>1, <2>2
    DEF Lstat, Typed, TypeOK, Places, LinkNames, fileVars, managerVars
<1>7. ASSUME NEW c \in Commands, Unlink(c) PROVE Typed'
  <2>1. pc' \in [Commands -> Places]
    BY <1>7 DEF Unlink, Goto, Typed, TypeOK, Places, Ended
  <2>2. file' \in File /\ LinkNames'
    BY <1>7, NoneFile DEF Unlink, LinkNames
  <2>3. holds' \in [Commands -> BOOLEAN] /\ \A d \in Commands : ~holds'[d]
    BY <1>7 DEF Unlink
  <2> QED
    BY <1>7, <2>1, <2>2, <2>3
    DEF Unlink, Typed, TypeOK, Places, managerVars, commandVars
<1>8. ASSUME NEW c \in Commands, Symlink(c) PROVE Typed'
  <2>1. /\ pc' \in [Commands -> Places]
        /\ \A d \in Commands : holds[d] => pc'[d] = "include"
    BY <1>8 DEF Symlink, Written, Goto, Typed, TypeOK, Places, Ended
  <2>2. file' \in File /\ LinkNames'
    <3>1. file' = file \/ file' = Link(want[c])
      BY <1>8 DEF Symlink
    <3>2. want[c] \in Styles
      BY DEF Typed, TypeOK
    <3>3. Link(want[c]) \in File /\ Link(want[c]).style = want[c]
      BY <3>2, LinkFile
    <3> QED
      BY <3>1, <3>2, <3>3 DEF Typed, TypeOK, LinkNames
  <2>3. \A d \in Commands : holds[d] => file'.form = "file"
    BY <1>8 DEF Symlink, Typed, TypeOK
  <2> QED
    BY <1>8, <2>1, <2>2, <2>3
    DEF Symlink, Typed, TypeOK, Places, managerVars, commandVars
<1>9. ASSUME NEW c \in Commands, Open(c) PROVE Typed'
  <2>1. pc' \in [Commands -> Places]
    BY <1>9 DEF Open, Goto, Typed, TypeOK, Places, Ended
  <2>2. Empty \in File /\ Empty.form = "file"
    BY EmptyFile
  <2>3. CASE file.form = "link"
    <3>1. UNCHANGED <<file, holds>> /\ damaged' = damaged \cup {file.style}
      BY <1>9, <2>3 DEF Open
    <3>2. pc' = [pc EXCEPT ![c] = "include"]
      BY <1>9 DEF Open, Goto
    <3> QED
      BY <1>9, <2>1, <3>1, <3>2
      DEF Open, Typed, TypeOK, LinkNames, Places, managerVars, commandVars
  <2>4. CASE file.form # "link"
    <3>1. /\ file' = Empty /\ UNCHANGED damaged
          /\ holds' = [holds EXCEPT ![c] = TRUE]
      BY <1>9, <2>4 DEF Open
    <3>2. \A d \in Commands : holds'[d] => pc'[d] = "include"
      BY <1>9, <3>1 DEF Open, Goto, Typed, TypeOK
    <3> QED
      BY <1>9, <2>1, <2>2, <3>1, <3>2
      DEF Open, Typed, TypeOK, LinkNames, Places, managerVars, commandVars
  <2> QED
    BY <2>3, <2>4
<1>10. ASSUME NEW c \in Commands, Include(c) PROVE Typed'
  <2>1. pc' \in [Commands -> Places]
    BY <1>10 DEF Include, Written, Goto, Typed, TypeOK, Places, Ended
  <2>2. file' \in File /\ LinkNames'
    BY <1>10, IncludingFile DEF Include, LinkNames, Typed, TypeOK
  <2>3. /\ holds' \in [Commands -> BOOLEAN]
        /\ \A d \in Commands : holds'[d] => pc'[d] = "include" /\ file'.form = "file"
    BY <1>10, IncludingFile DEF Include, Written, Goto, Typed, TypeOK
  <2> QED
    BY <1>10, <2>1, <2>2, <2>3
    DEF Include, Typed, TypeOK, Places, managerVars, commandVars
<1>11. ASSUME NEW c \in Commands, Read(c) PROVE Typed'
  <2>1. /\ pc' \in [Commands -> Places]
        /\ \A d \in Commands : holds[d] => pc'[d] = "include"
    BY <1>11 DEF Read, Goto, Typed, TypeOK, Places, Ended
  <2>2. read' \in [Commands -> File]
    BY <1>11 DEF Read, Typed, TypeOK
  <2> QED
    BY <1>11, <2>1, <2>2
    DEF Read, Typed, TypeOK, Places, LinkNames, fileVars, managerVars
<1>12. ASSUME NEW c \in Commands, Truncate(c) PROVE Typed'
  <2>1. /\ pc' \in [Commands -> Places]
        /\ \A d \in Commands : holds[d] => pc'[d] = "include"
    BY <1>12 DEF Truncate, Goto, Typed, TypeOK, Places, Ended
  <2>2. file' \in File /\ LinkNames' /\ file'.form = "file"
    BY <1>12, EmptyFile DEF Truncate, LinkNames
  <2> QED
    BY <1>12, <2>1, <2>2
    DEF Truncate, Typed, TypeOK, Places, managerVars, commandVars
<1>13. ASSUME NEW c \in Commands, Write(c) PROVE Typed'
  <2>1. /\ pc' \in [Commands -> Places]
        /\ \A d \in Commands : holds[d] => pc'[d] = "include"
    BY <1>13 DEF Write, Written, Goto, Typed, TypeOK, Places, Ended
  <2>2. read[c] \in File /\ want[c] \in Styles
    BY DEF Typed, TypeOK
  <2>3. file' \in File /\ LinkNames' /\ file'.form = "file"
    BY <1>13, <2>2, WriteFile DEF LinkNames
  <2> QED
    BY <1>13, <2>1, <2>3
    DEF Write, Typed, TypeOK, Places, managerVars, commandVars
<1>14. ASSUME NEW c \in Commands, Reload(c) PROVE Typed'
  <2>1. /\ pc' \in [Commands -> Places]
        /\ \A d \in Commands : holds[d] => pc'[d] = "include"
    BY <1>14 DEF Reload, Goto, Typed, TypeOK, Places, Ended
  <2> QED
    BY <1>14, <2>1
    DEF Reload, Typed, TypeOK, Places, LinkNames, fileVars, commandVars
<1> QED
  BY <1>1, <1>2, <1>3, <1>4, <1>5, <1>6, <1>7, <1>8, <1>9, <1>10, <1>11, <1>12,
     <1>13, <1>14
  DEF Next, Step

\* However many commands run, and wherever they are killed, every variable of
\* StyleSetting keeps its type, and a command writes only to a file it holds.
THEOREM Typing == Spec => []TypeOK
<1>1. Typed => TypeOK
  BY DEF Typed
<1> QED
  BY <1>1, TypedInit, TypedNext, PTL DEF Spec

-----------------------------------------------------------------------------
\* Whoever moves was running, and moves nobody else; and no step but the start
\* of a command changes what is known of the others.
LEMMA StepMoves ==
    ASSUME Typed, NEW c \in Commands, Step(c) \/ Kill(c)
    PROVE  /\ Running(c)
           /\ \A d \in Commands \ {c} : pc'[d] = pc[d]
           /\ UNCHANGED <<way, want, alone, overlapped, runs>>
<1> USE DEF Running, Goto, Written, Ended, wayVars, commandVars, Typed, TypeOK
<1>1. CASE Compare(c)
  BY <1>1 DEF Compare
<1>2. CASE Lstat(c)
  BY <1>2 DEF Lstat
<1>3. CASE Unlink(c)
  BY <1>3 DEF Unlink
<1>4. CASE Symlink(c)
  BY <1>4 DEF Symlink
<1>5. CASE Open(c)
  BY <1>5 DEF Open
<1>6. CASE Include(c)
  BY <1>6 DEF Include
<1>7. CASE Read(c)
  BY <1>7 DEF Read
<1>8. CASE Truncate(c)
  BY <1>8 DEF Truncate
<1>9. CASE Write(c)
  BY <1>9 DEF Write
<1>10. CASE Reload(c)
  BY <1>10 DEF Reload
<1>11. CASE Kill(c)
  BY <1>11 DEF Kill
<1> QED
  BY <1>1, <1>2, <1>3, <1>4, <1>5, <1>6, <1>7, <1>8, <1>9, <1>10, <1>11 DEF Step

\* What a start does to the others.
LEMMA StartMoves ==
    ASSUME Typed, NEW c \in Commands, Start(c)
    PROVE  /\ pc'[c] \in {"read", "compare", "failed"}
           /\ \A d \in Commands \ {c} :
                 pc'[d] = pc[d] /\ (alone'[d] => alone[d] /\ ~Running(d))
           /\ alone'[c] => \A d \in Commands \ {c} : ~Running(d)
           /\ ~overlapped' => ~overlapped /\ \A d \in Commands : ~Running(d)
           /\ ~overlapped' => alone'[c]
BY DEF Start, Goto, Typed, TypeOK

\* A command that has run alone is the only one, until another starts.
LEMMA AloneNext ==
    Typed /\ Solitary /\ Apart /\ [Next]_vars => Solitary' /\ Apart'
<1> SUFFICES ASSUME Typed, Solitary, Apart, [Next]_vars PROVE Solitary' /\ Apart'
  OBVIOUS
<1>1. CASE UNCHANGED <<pc, alone, overlapped>>
  BY <1>1 DEF Solitary, Apart, Undisturbed, Running
<1>2. ASSUME NEW c \in Commands, Start(c) PROVE Solitary' /\ Apart'
  BY <1>2, StartMoves DEF Solitary, Apart, Undisturbed, Running, Ended
<1>3. ASSUME NEW c \in Commands, Step(c) \/ Kill(c) PROVE Solitary' /\ Apart'
  BY <1>3, StepMoves DEF Solitary, Apart, Undisturbed, Running
<1> QED
  BY <1>1, <1>2, <1>3 DEF Next, Load, vars, wayVars, commandVars

\* What a command that has run alone knows of the file stays true: only its own
\* steps touch the file.
LEMMA InOrderNext ==
    ASSUME Order, [Next]_vars
    PROVE  InOrder'
<1> SUFFICES ASSUME NEW d \in Commands, Undisturbed(d)'
             PROVE  (/\ pc[d] = "open" => file.form # "link"
                     /\ pc[d] = "include" => holds[d]
                     /\ pc[d] = "reload" /\ ~Rewrites => file.style = want[d])'
  BY DEF InOrder
<1> USE DEF Order
<1>1. CASE UNCHANGED <<way, file, pc, want, alone, holds>>
  BY <1>1 DEF InOrder, Undisturbed, Running, Rewrites
<1>2. ASSUME NEW c \in Commands, Start(c)
      PROVE  pc'[d] \notin {"open", "include", "reload"}
  BY <1>2, StartMoves DEF Undisturbed, Running
<1>3. ASSUME NEW c \in Commands, c # d, Step(c) \/ Kill(c) PROVE FALSE
  <2>1. Undisturbed(d) /\ Running(c)
    BY <1>3, StepMoves DEF Undisturbed, Running
  <2> QED
    BY <2>1, <1>3 DEF Solitary
<1>4. CASE Step(d) \/ Kill(d)
  <2>1. /\ InOrder /\ UNCHANGED <<way, want>> /\ Undisturbed(d)
        /\ pc \in [Commands -> Places] /\ holds \in [Commands -> BOOLEAN]
    BY <1>4, StepMoves DEF Undisturbed, Typed, TypeOK, Places
  <2> USE DEF Goto, Ended
  <2>2. CASE Compare(d)
    BY <2>1, <2>2 DEF Compare
  <2>3. CASE Lstat(d)
    BY <2>1, <2>3 DEF Lstat
  <2>4. CASE Unlink(d)
    BY <2>1, <2>4, NoneFile DEF Unlink
  <2>5. CASE Symlink(d)
    <3>1. CASE file' = Link(want[d])
      BY <2>1, <2>5, <3>1, LinkFile DEF Symlink, Written, Typed, TypeOK
    <3>2. CASE pc' = [pc EXCEPT ![d] = "failed"]
      BY <2>1, <3>2
    <3> QED
      BY <2>5, <3>1, <3>2 DEF Symlink
  <2>6. CASE Open(d)
    BY <2>1, <2>6 DEF Open, InOrder
  <2>7. CASE Include(d)
    BY <2>1, <2>7, IncludingFile DEF Include, Written, InOrder, Typed, TypeOK
  <2>8. CASE Read(d)
    BY <2>1, <2>8 DEF Read
  <2>9. CASE Truncate(d)
    BY <2>1, <2>9 DEF Truncate, Rewrites
  <2>10. CASE Write(d)
    BY <2>1, <2>10, WriteFile DEF Write, Written, Rewrites, Typed, TypeOK
  <2>11. CASE Reload(d)
    BY <2>1, <2>11 DEF Reload
  <2>12. CASE Kill(d)
    BY <2>1, <2>12 DEF Kill
  <2> QED
    BY <1>4, <2>2, <2>3, <2>4, <2>5, <2>6, <2>7, <2>8, <2>9, <2>10, <2>11, <2>12
    DEF Step
<1> QED
  BY <1>1, <1>2, <1>3, <1>4 DEF Next, Load, vars, wayVars, fileVars, commandVars

\* What the others read and write has nothing else in it.
LEMMA PlainNext ==
    ASSUME Typed, Plain, [Next]_vars
    PROVE  Plain'
<1> SUFFICES ASSUME way' # "edit"
             PROVE  (file.strays = {} /\ \A c \in Commands : read[c].strays = {})'
  BY DEF Plain
<1>1. way' = way
  BY DEF Next, Load, Start, Step, Compare, Lstat, Unlink, Symlink, Open, Include, Read,
         Truncate, Write, Reload, Kill, vars, wayVars
<1>2. file.strays = {} /\ \A c \in Commands : read[c].strays = {}
  BY <1>1 DEF Plain
<1>3. CASE UNCHANGED <<file, read>>
  BY <1>2, <1>3
<1>4. ASSUME NEW c \in Commands, Unlink(c) \/ Symlink(c) \/ Open(c) \/ Include(c)
             \/ Truncate(c)
      PROVE  file'.strays = {} /\ read' = read
  <2>1. file' \in {file, None, Empty} \/ \E s \in Styles : file' = Link(s) \/ file' = Including(s)
    BY <1>4 DEF Unlink, Symlink, Open, Include, Truncate, Typed, TypeOK
  <2>2. read' = read
    BY <1>4 DEF Unlink, Symlink, Open, Include, Truncate, commandVars
  <2> QED
    BY <1>2, <2>1, <2>2, NoneFile, EmptyFile, LinkFile, IncludingFile
<1>5. ASSUME NEW c \in Commands, Write(c)
      PROVE  file'.strays = {} /\ read' = read
  <2>1. PICK strays \in Strays(c) :
           file' = Edited(IF way = "edit" /\ ~Replaceable(read[c])
                          THEN read[c].style ELSE want[c],
                          read[c].exact, strays)
    BY <1>5 DEF Write
  <2>2. strays = {}
    BY <1>1 DEF Strays
  <2> QED
    BY <1>5, <2>1, <2>2 DEF Edited, Write, commandVars
<1>6. ASSUME NEW c \in Commands, Read(c)
      PROVE  file' = file /\ \A d \in Commands : read'[d].strays = {}
  BY <1>2, <1>6 DEF Read, fileVars, Typed, TypeOK
<1> QED
  BY <1>2, <1>3, <1>4, <1>5, <1>6
  DEF Next, Load, Start, Step, Compare, Lstat, Reload, Kill, vars, fileVars, commandVars

\* All of them are inductive with the types.
LEMMA OrderInductive ==
    /\ Init => Order
    /\ Order /\ [Next]_vars => Order'
<1>1. Init => Order
  <2> SUFFICES ASSUME Init PROVE Order
    OBVIOUS
  <2>1. \/ file = None
        \/ \E s \in Styles : file = Link(s) \/ file = Including(s)
        \/ way = "edit"
    BY DEF Init
  <2>2. way # "edit" => file.strays = {}
    BY <2>1, NoneFile, LinkFile, IncludingFile
  <2>3. \A c \in Commands : read[c].strays = {}
    BY NoneFile DEF Init
  <2>4. Plain
    BY <2>2, <2>3 DEF Plain
  <2> QED
    BY <2>4, TypedInit DEF Order, Init, Solitary, Apart, InOrder, Undisturbed, Running
<1>2. Order /\ [Next]_vars => Order'
  BY TypedNext, AloneNext, InOrderNext, PlainNext DEF Order
<1> QED
  BY <1>1, <1>2

\* A command that ran alone, from the first step to the last, and says that it
\* has set the style, or that it was set, is right: whatever other commands,
\* killed in the middle of their work, have left of the file.
THEOREM SetSets == Spec => SetMeansSet
<1> DEFINE Sets(c) == file'.style = want[c]
           Says(c) == /\ Running(c) /\ alone[c] /\ pc'[c] \in {"set", "already"}
                      /\ way = "edit" =>
                            Replaceable(read'[c]) /\ want[c] \notin read'[c].strays
<1>1. ASSUME Order, [Next]_vars, NEW d \in Commands, Says(d) PROVE Sets(d)
  <2>1. pc'[d] # pc[d]
    BY <1>1 DEF Running, Ended
  <2>2. ~(UNCHANGED pc)
    BY <2>1
  <2>3. ASSUME NEW c \in Commands, Start(c) PROVE FALSE
    BY <1>1, <2>1, <2>3, StartMoves DEF Order
  <2>4. ASSUME NEW c \in Commands, c # d, Step(c) \/ Kill(c) PROVE FALSE
    BY <1>1, <2>1, <2>4, StepMoves DEF Order
  <2>5. CASE Step(d) \/ Kill(d)
    <3>1. /\ InOrder /\ Undisturbed(d) /\ Typed
          /\ pc \in [Commands -> Places] /\ pc'[d] \in {"set", "already"}
          /\ way = "edit" =>
                Replaceable(read'[d]) /\ want[d] \notin read'[d].strays
          /\ want[d] \in Styles /\ read \in [Commands -> File]
      BY <1>1 DEF Order, Undisturbed, Typed, TypeOK, Places
    <3> USE DEF Goto
    <3>2. CASE Compare(d)
      BY <3>1, <3>2 DEF Compare, fileVars
    <3>3. CASE Lstat(d)
      BY <3>1, <3>3 DEF Lstat
    <3>4. CASE Unlink(d)
      BY <3>1, <3>4 DEF Unlink
    <3>5. CASE Symlink(d)
      BY <3>1, <3>5, LinkFile DEF Symlink
    <3>6. CASE Open(d)
      BY <3>1, <3>6 DEF Open
    <3>7. CASE Include(d)
      BY <3>1, <3>7, IncludingFile DEF Include, InOrder
    <3>8. CASE Read(d)
      <4>1. /\ file' = file /\ Rewrites /\ Mentions(file, want[d])
            /\ read'[d] = file
        BY <3>1, <3>8 DEF Read, fileVars
      <4>2. CASE way = "edit"
        BY <3>1, <4>1, <4>2 DEF Mentions
      <4>3. CASE way # "edit"
        BY <1>1, <4>1, <4>3 DEF Mentions, Order, Plain
      <4> QED
        BY <4>2, <4>3
    <3>9. CASE Truncate(d)
      BY <3>1, <3>9 DEF Truncate
    <3>10. CASE Write(d)
      BY <3>1, <3>10, WriteFile DEF Write, commandVars
    <3>11. CASE Reload(d)
      BY <3>1, <3>11 DEF Reload, InOrder, Rewrites, fileVars
    <3>12. CASE Kill(d)
      BY <3>1, <3>12 DEF Kill
    <3> QED
      BY <2>5, <3>2, <3>3, <3>4, <3>5, <3>6, <3>7, <3>8, <3>9, <3>10, <3>11,
         <3>12
      DEF Step
  <2> QED
    BY <1>1, <2>2, <2>3, <2>4, <2>5 DEF Next, Load, vars, wayVars
<1>2. Order /\ [Next]_vars => [\A c \in Commands : Says(c) => Sets(c)]_vars
  BY <1>1
<1> QED
  BY <1>2, OrderInductive, PTL DEF Spec, SetMeansSet

\* Commands that do not overlap never write into the file of a style.
THEOREM StylesStay == Spec => []StylesKept
<1>1. Init => StylesKept
  BY DEF Init, StylesKept
<1>2. Order /\ StylesKept /\ [Next]_vars => StylesKept'
  <2> SUFFICES ASSUME Order, StylesKept, [Next]_vars, ~overlapped'
               PROVE  damaged' = {}
    BY DEF StylesKept
  <2>1. CASE UNCHANGED <<damaged, overlapped>>
    BY <2>1 DEF StylesKept
  <2>2. ASSUME NEW c \in Commands, Start(c) PROVE damaged' = {}
    BY <2>2, StartMoves DEF Start, fileVars, StylesKept, Order
  <2>3. ASSUME NEW c \in Commands, Open(c) PROVE damaged' = {}
    <3>1. ~overlapped /\ Undisturbed(c) /\ pc[c] = "open"
      BY <2>3 DEF Open, commandVars, Order, Apart, Undisturbed, Running, Ended
    <3> QED
      BY <2>3, <3>1 DEF Open, Order, InOrder, StylesKept
  <2> QED
    BY <2>1, <2>2, <2>3
    DEF Next, Load, Step, Compare, Lstat, Unlink, Symlink, Include, Read,
        Truncate, Write, Reload, Kill, vars, fileVars, commandVars
<1> QED
  BY <1>1, <1>2, OrderInductive, PTL DEF Spec

-----------------------------------------------------------------------------
\* Commands that overlap.  Where the file is without a style, one of them is
\* about to put it there, or none has set one yet.

\* Which of the two ways of writing a file the steps belong to; a manager
\* with the second has a file from the beginning.
Fitting ==
    /\ \A c \in Commands :
          /\ pc[c] \in {"lstat", "unlink", "symlink", "open", "include"} => Simple
          /\ pc[c] \in {"read", "truncate", "write"} => ~Simple
    /\ file.form \in {"none", "link"} => Simple

Linking(c) == pc[c] \in {"symlink", "open"}

Filling(c) ==
    \/ pc[c] = "include" /\ holds[c]
    \/ pc[c] = "write"
    \/ pc[c] = "reload" /\ Rewrites

Unset(c) == pc[c] \notin {"include", "reload", "set"}

Hopeful ==
    (kills = 0 /\ way # "edit") =>
        /\ file.form = "file" /\ file.style = NoStyle => \E c \in Commands : Filling(c)
        /\ file.form = "none" => \/ \E c \in Commands : Linking(c)
                                 \/ \A c \in Commands : Unset(c)

LEMMA FittingNext == Typed /\ Fitting /\ [Next]_vars => Fitting'
<1> SUFFICES ASSUME Typed, Fitting, [Next]_vars PROVE Fitting'
  OBVIOUS
<1>1. pc \in [Commands -> Places]
  BY DEF Typed, TypeOK, Places
<1>2. CASE UNCHANGED <<way, file, pc>>
  BY <1>2 DEF Fitting, Simple
<1>3. ASSUME NEW c \in Commands, Start(c) PROVE Fitting'
  <2>1. /\ way' = way /\ file' = file
        /\ \E place \in {"failed", IF Rewrites THEN "read" ELSE "compare"} :
              pc' = [pc EXCEPT ![c] = place]
    BY <1>3 DEF Start, Goto, wayVars, fileVars
  <2>2. Rewrites => ~Simple
    BY DEF Rewrites, Simple
  <2> QED
    BY <1>1, <2>1, <2>2 DEF Fitting, Simple
<1>4. ASSUME NEW c \in Commands, Step(c) \/ Kill(c) PROVE Fitting'
  <2>1. way' = way /\ \A d \in Commands \ {c} : pc'[d] = pc[d]
    BY <1>4, StepMoves
  <2>2. SUFFICES /\ pc'[c] \in {"lstat", "unlink", "symlink", "open", "include"} => Simple
                 /\ pc'[c] \in {"read", "truncate", "write"} => ~Simple
                 /\ file'.form \in {"none", "link"} => Simple
    BY <2>1 DEF Fitting, Simple
  <2>3. Rewrites => ~Simple
    BY DEF Rewrites, Simple
  <2> USE DEF Goto
  <2>4. CASE Compare(c)
    BY <1>1, <2>4 DEF Compare, Fitting, fileVars
  <2>5. CASE Lstat(c)
    BY <1>1, <2>5 DEF Lstat, Fitting, fileVars
  <2>6. CASE Unlink(c)
    BY <1>1, <2>6 DEF Unlink, Fitting
  <2>7. CASE Symlink(c)
    BY <1>1, <2>7 DEF Symlink, Written, Fitting
  <2>8. CASE Open(c)
    BY <1>1, <2>8 DEF Open, Fitting
  <2>9. CASE Include(c)
    BY <1>1, <2>9, IncludingFile DEF Include, Written, Fitting, Typed, TypeOK
  <2>10. CASE Read(c)
    BY <1>1, <2>10 DEF Read, Fitting, fileVars
  <2>11. CASE Truncate(c)
    BY <1>1, <2>11, EmptyFile DEF Truncate, Fitting
  <2>12. CASE Write(c)
    BY <1>1, <2>12, WriteFile DEF Write, Written, Fitting, Typed, TypeOK
  <2>13. CASE Reload(c)
    BY <1>1, <2>3, <2>13 DEF Reload, Fitting, fileVars
  <2>14. CASE Kill(c)
    BY <1>1, <2>14 DEF Kill, Fitting, fileVars
  <2> QED
    BY <1>4, <2>4, <2>5, <2>6, <2>7, <2>8, <2>9, <2>10, <2>11, <2>12, <2>13, <2>14
    DEF Step
<1> QED
  BY <1>2, <1>3, <1>4 DEF Next, Load, vars, wayVars, fileVars

\* One step of one command, however many others are on their way.
LEMMA HopefulStep ==
    ASSUME Typed, Fitting, Hopeful, way # "edit", kills = 0, NEW c \in Commands, Step(c)
    PROVE  Hopeful'
<1>1. /\ pc \in [Commands -> Places] /\ holds \in [Commands -> BOOLEAN]
      /\ want[c] \in Styles /\ file \in File /\ way \in Ways
      /\ \A d \in Commands : holds[d] => pc[d] = "include" /\ file.form = "file"
  BY DEF Typed, TypeOK, Places
<1>2. way' = way /\ \A d \in Commands \ {c} : pc'[d] = pc[d]
  BY StepMoves
<1>3. want[c] # NoStyle
  BY <1>1, SettingAssumption DEF SettingAssumption
<1>4. \A d \in Commands \ {c} : /\ Linking(d)' <=> Linking(d)
                                /\ Unset(d)' <=> Unset(d)
  BY <1>2 DEF Linking, Unset
<1>5. \A d \in Commands \ {c} : (holds'[d] <=> holds[d]) => (Filling(d)' <=> Filling(d))
  BY <1>2 DEF Filling, Rewrites
<1>6. \/ file.form = "file" \/ file.form = "none" \/ file.form = "link"
  BY <1>1 DEF File
<1> USE DEF Goto
<1>7. CASE Compare(c) \/ Lstat(c) \/ Read(c)
  <2>1. file' = file /\ holds' = holds
    BY <1>7 DEF Compare, Lstat, Read, fileVars
  <2>2. ~Linking(c) /\ ~Filling(c) /\ Unset(c)'
    BY <1>1, <1>7 DEF Compare, Lstat, Read, Linking, Filling, Unset
  <2> QED
    BY <1>4, <1>5, <2>1, <2>2 DEF Hopeful
<1>8. CASE Unlink(c)
  BY <1>1, <1>8, NoneFile DEF Unlink, Linking, Hopeful
<1>9. CASE Symlink(c)
  <2>1. CASE file.form = "none"
    BY <1>1, <1>9, <2>1, LinkFile DEF Symlink, Hopeful
  <2>2. CASE file.form # "none"
    <3>1. file' = file /\ holds' = holds /\ ~Filling(c)
      BY <1>9, <2>2 DEF Symlink, Filling
    <3> QED
      BY <1>5, <2>2, <3>1 DEF Hopeful
  <2> QED
    BY <2>1, <2>2
<1>10. CASE Open(c)
  <2>1. CASE file.form = "link"
    BY <1>10, <2>1 DEF Open, Hopeful
  <2>2. CASE file.form # "link"
    <3>1. file' = Empty /\ Filling(c)'
      BY <1>1, <1>10, <2>2 DEF Open, Filling
    <3> QED
      BY <3>1, EmptyFile DEF Hopeful
  <2> QED
    BY <2>1, <2>2
<1>11. CASE Include(c)
  <2>1. CASE holds[c]
    <3>1. file' = Including(want[c])
      BY <1>11, <2>1 DEF Include
    <3> QED
      BY <1>1, <1>3, <3>1, IncludingFile DEF Hopeful
  <2>2. CASE ~holds[c]
    <3>1. /\ file' = file /\ ~Linking(c) /\ ~Filling(c) /\ ~Unset(c)
          /\ \A d \in Commands \ {c} : holds'[d] = holds[d]
      BY <1>1, <1>11, <2>2 DEF Include, Linking, Filling, Unset
    <3> QED
      BY <1>4, <1>5, <3>1 DEF Hopeful
  <2> QED
    BY <2>1, <2>2
<1>12. CASE Truncate(c)
  <2>1. file' = Empty /\ Filling(c)'
    BY <1>1, <1>2, <1>12 DEF Truncate, Filling, Rewrites
  <2> QED
    BY <2>1, EmptyFile DEF Hopeful
<1>13. CASE Write(c)
  <2>1. file'.form = "file" /\ file'.style = want[c]
    BY <1>1, <1>2, <1>13, WriteFile DEF Typed, TypeOK
  <2> QED
    BY <1>3, <2>1 DEF Hopeful
<1>14. CASE Reload(c)
  <2>1. file' = file /\ holds' = holds /\ ~Linking(c) /\ ~Unset(c)
    BY <1>1, <1>14 DEF Reload, fileVars, Linking, Unset
  <2>2. Filling(c) => Filling(c)'
    BY <1>1, <1>2, <1>14 DEF Reload, Filling, Rewrites
  <2> QED
    BY <1>4, <1>5, <2>1, <2>2 DEF Hopeful
<1> QED
  BY <1>7, <1>8, <1>9, <1>10, <1>11, <1>12, <1>13, <1>14 DEF Step

LEMMA HopefulNext == Typed /\ Fitting /\ Hopeful /\ [Next]_vars => Hopeful'
<1> SUFFICES ASSUME Typed, Fitting, Hopeful, [Next]_vars PROVE Hopeful'
  OBVIOUS
<1>1. CASE UNCHANGED <<way, file, pc, holds, kills>>
  BY <1>1 DEF Hopeful, Linking, Filling, Unset, Rewrites
<1>2. ASSUME NEW c \in Commands, Start(c) PROVE Hopeful'
  <2>1. /\ way' = way /\ file' = file /\ holds' = holds /\ kills' = kills
        /\ ~Running(c)
    BY <1>2 DEF Start, wayVars, fileVars
  <2>2. /\ pc'[c] \in {"read", "compare", "failed"}
        /\ \A d \in Commands \ {c} : pc'[d] = pc[d]
    BY <1>2, StartMoves
  <2>3. ~Linking(c) /\ ~Filling(c) /\ Unset(c)'
    BY <2>1, <2>2 DEF Linking, Filling, Unset, Running, Ended
  <2>4. \A d \in Commands \ {c} : /\ Linking(d)' <=> Linking(d)
                                  /\ Filling(d)' <=> Filling(d)
                                  /\ Unset(d)' <=> Unset(d)
    BY <2>1, <2>2 DEF Linking, Filling, Unset, Rewrites
  <2> QED
    BY <2>1, <2>3, <2>4 DEF Hopeful
<1>3. ASSUME NEW c \in Commands, Kill(c) PROVE Hopeful'
  BY <1>3 DEF Kill, Hopeful, Typed, TypeOK
<1>4. ASSUME NEW c \in Commands, Step(c) PROVE Hopeful'
  <2>1. kills' = kills /\ way' = way
    BY <1>4 DEF Step, Compare, Lstat, Unlink, Symlink, Open, Include, Read,
                Truncate, Write, Reload, wayVars
  <2>2. CASE kills = 0 /\ way # "edit"
    BY <1>4, <2>2, HopefulStep
  <2> QED
    BY <2>1, <2>2 DEF Hopeful
<1> QED
  BY <1>1, <1>2, <1>3, <1>4 DEF Next, Load, vars, wayVars, fileVars

\* However many commands overlap in whatever way, as long as none is killed
\* the file names a style when they are done and one of them has succeeded
\* (xde_set_style_simple, xde_set_style_database, set_style of icewm).
THEOREM StyleStays == Spec => []StyleSurvives
<1>1. Init => Fitting /\ Hopeful
  <2> SUFFICES ASSUME Init PROVE Fitting /\ Hopeful
    OBVIOUS
  <2>1. \A c \in Commands : pc[c] = "idle"
    BY DEF Init
  <2>2. \/ file = None /\ Simple
        \/ (\E s \in Styles : file = Link(s)) /\ Simple
        \/ \E s \in Styles : file = Including(s)
        \/ \E s \in Styles, exact \in BOOLEAN, strays \in SUBSET Styles :
              file = Edited(s, exact, strays)
    BY DEF Init, Simple
  <2>3. file.form \in {"none", "link"} => Simple
    BY <2>2, IncludingFile, EditedFile
  <2>4. file.form = "file" => file.style # NoStyle
    BY <2>2, SettingAssumption, NoneFile, LinkFile, IncludingFile, EditedFile
    DEF SettingAssumption
  <2> QED
    BY <2>1, <2>3, <2>4 DEF Fitting, Hopeful, Unset
<1>2. Typed /\ Fitting /\ Hopeful => StyleSurvives
  <2> SUFFICES ASSUME Typed, Hopeful, AtRest, kills = 0, way # "edit",
                      NEW c \in Commands, pc[c] = "set", file.style = NoStyle
               PROVE  FALSE
    BY DEF StyleSurvives
  <2>1. file.form # "link"
    BY SettingAssumption DEF SettingAssumption, Typed, LinkNames
  <2>2. file.form \in {"none", "file"}
    BY <2>1 DEF Typed, TypeOK, File
  <2>3. \A d \in Commands : ~Linking(d) /\ ~Filling(d)
    BY DEF AtRest, Running, Ended, Linking, Filling
  <2>4. ~Unset(c)
    BY DEF Unset
  <2> QED
    BY <2>2, <2>3, <2>4 DEF Hopeful
<1> QED
  BY <1>1, <1>2, TypedInit, TypedNext, FittingNext, HopefulNext, PTL DEF Spec

-----------------------------------------------------------------------------
\* What AgreesInTheEnd rests on besides fairness.  As long as every command is
\* given --reload and none is killed, a manager that shows another style than
\* its files name has been asked to read them, or will be.
InForce == IF file.style = NoStyle THEN SystemStyle ELSE file.style

Asked == kills = 0 /\ reachable /\ ~Rewrites /\ \A c \in Commands : options[c].reload

Heard == request \/ shown = InForce

\* A command that reaches its reload whatever the others do.  One that is about
\* to link is not when another has put something there, which is no harm: that
\* one reloads.
Reloads(c) ==
    \/ pc[c] \in {"open", "include", "truncate", "write", "reload"}
    \/ pc[c] = "symlink" /\ file.form = "none"

Due == Heard \/ \E c \in Commands : Reloads(c)

Agreed == AtRest /\ ~request => shown = InForce

LEMMA DueStep ==
    ASSUME Typed, Asked, Due, NEW c \in Commands, Step(c)
    PROVE  Due'
<1>1. /\ pc \in [Commands -> Places] /\ options[c].reload /\ ~Rewrites
      /\ file.form \in {"none", "link", "file"}
  BY DEF Typed, TypeOK, Places, Asked, File
<1>2. \A d \in Commands \ {c} : pc'[d] = pc[d]
  BY StepMoves
<1>3. \A d \in Commands \ {c} :
         Reloads(d) => Reloads(d)' \/ (file.form = "none" /\ file'.form # "none")
  BY <1>2 DEF Reloads
<1> USE DEF Goto
<1>4. CASE Compare(c) \/ Lstat(c)
  <2>1. file' = file /\ UNCHANGED <<request, shown>> /\ ~Reloads(c)
    BY <1>1, <1>4 DEF Compare, Lstat, fileVars, managerVars, Reloads
  <2> QED
    BY <1>3, <2>1 DEF Due, Heard, InForce
<1>5. CASE Unlink(c)
  <2>1. Reloads(c)'
    BY <1>1, <1>5, NoneFile DEF Unlink, Reloads
  <2> QED
    BY <2>1 DEF Due
<1>6. CASE Symlink(c)
  <2>1. CASE file.form = "none"
    <3>1. Reloads(c)'
      BY <1>1, <1>6, <2>1 DEF Symlink, Written, Reloads
    <3> QED
      BY <3>1 DEF Due
  <2>2. CASE file.form # "none"
    <3>1. file' = file /\ UNCHANGED <<request, shown>> /\ ~Reloads(c)
      BY <1>1, <1>6, <2>2 DEF Symlink, managerVars, Reloads
    <3> QED
      BY <1>3, <3>1 DEF Due, Heard, InForce
  <2> QED
    BY <2>1, <2>2
<1>7. CASE Open(c) \/ Include(c) \/ Read(c) \/ Truncate(c) \/ Write(c)
  <2>1. pc'[c] \in {"include", "reload", "truncate", "write"} \/ pc'[c] = "already"
    BY <1>1, <1>7 DEF Open, Include, Read, Truncate, Write, Written
  <2>2. pc'[c] # "already"
    BY <1>1, <1>7 DEF Open, Include, Read, Truncate, Write, Written
  <2>3. Reloads(c)'
    BY <2>1, <2>2 DEF Reloads
  <2> QED
    BY <2>3 DEF Due
<1>8. CASE Reload(c)
  BY <1>8 DEF Reload, Due, Heard, Asked
<1> QED
  BY <1>4, <1>5, <1>6, <1>7, <1>8 DEF Step

LEMMA DueNext == Typed /\ Asked /\ Asked' /\ Due /\ [Next]_vars => Due'
<1> SUFFICES ASSUME Typed, Asked, Asked', Due, [Next]_vars PROVE Due'
  OBVIOUS
<1>1. CASE UNCHANGED <<file, request, shown, pc>>
  BY <1>1 DEF Due, Heard, InForce, Reloads
<1>2. ASSUME NEW c \in Commands, Start(c) PROVE Due'
  <2>1. file' = file /\ UNCHANGED <<request, shown>> /\ ~Running(c)
    BY <1>2 DEF Start, fileVars, managerVars
  <2>2. ~Reloads(c)
    BY <2>1 DEF Reloads, Running, Ended
  <2>3. \A d \in Commands \ {c} : pc'[d] = pc[d]
    BY <1>2, StartMoves
  <2> QED
    BY <2>1, <2>2, <2>3 DEF Due, Heard, InForce, Reloads
<1>3. ASSUME NEW c \in Commands, Kill(c) PROVE FALSE
  BY <1>3 DEF Kill, Asked, Typed, TypeOK
<1>4. CASE Load
  BY <1>4 DEF Load, fileVars, Due, Heard, InForce
<1> QED
  BY <1>1, <1>2, <1>3, <1>4, DueStep DEF Next, vars, fileVars, managerVars

\* When every command is given --reload, none is killed and the manager can be
\* asked to reload, the style it shows is the one its files name whenever no
\* command runs and it has nothing left to read, however the commands have
\* overlapped (the reload after xde_set_style_simple and
\* xde_set_style_database).
THEOREM Agreement == Spec => ([]Asked => []Agreed)
<1>1. Init => Due
  BY DEF Init, Due, Heard, InForce
<1>2. Due => Agreed
  BY DEF Due, Heard, Agreed, AtRest, Reloads, Running, Ended
<1> QED
  BY <1>1, <1>2, TypedInit, TypedNext, DueNext, PTL DEF Spec

=============================================================================
