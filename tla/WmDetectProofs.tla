---------------------------- MODULE WmDetectProofs ----------------------------
(***************************************************************************)
(* What is proved of WmDetect for any number of processes, of whatever     *)
(* programs: a process that a check takes from /proc has the name of the   *)
(* record, whatever changes while the check runs; every variable keeps its *)
(* type; and a check during which nothing changes identifies the manager,  *)
(* when there is enough to identify it by.                                 *)
(***************************************************************************)
EXTENDS WmDetect, WellFoundedInduction, TLAPS

\* The record is one, whatever the words in it.
Fields(r) ==
    [there |-> r.there, win |-> r.win, maker |-> r.maker, motif |-> r.motif,
     name |-> r.name, host |-> r.host, pid |-> r.pid, command |-> r.command,
     argv |-> r.argv, class |-> r.class, ops |-> r.ops]

Recorded == rec = Fields(rec)

\* What runs has been started, and is never another program.
World ==
    /\ DOMAIN program = Ids
    /\ alive \subseteq Ids
    /\ \A i \in alive : program[i] # NoProgram
    /\ began \in Nat /\ changes \in Nat /\ began <= changes

During == {"name", "host", "pid", "comm", "proc", "any", "check", "class", "ops",
           "publish"}

\* While nothing has changed, whoever was found rules the screen still.
Steady == pc \in During /\ changes = began => seen = owner

\* Who says that it runs elsewhere is believed.
Believed ==
    /\ pc \in {"pid", "comm", "proc", "any"} /\ changes = began
    /\ seen # NoId /\ program[seen].host = "other"
    => rec.host = "other"

\* Before /proc is searched the pid is one that a window gave.
Given == pc \in {"comm", "proc", "any"} => rec.pid \in {NoId, seen, root.pid}

\* A process that was taken from /proc.
Taken ==
    pc \in {"check", "class", "ops", "publish"} /\ rec.pid \notin {NoId, seen, root.pid}
    => rec.pid \in Ids /\ program[rec.pid] # NoProgram

DetectInv ==
    Recorded /\ World /\ Steady /\ Believed /\ Given /\ Taken /\ WhoseProcess

-----------------------------------------------------------------------------
\* Of numbers, process ids for one, there is a first.
LEMMA FirstIs ==
  ASSUME NEW T \in SUBSET Nat, T # {}
  PROVE  First(T) \in T /\ \A j \in T : First(T) <= j
<1> DEFINE Less == OpToRel(<, Nat)
<1>2. \E i \in T : \A j \in T : ~(<<j, i>> \in Less)
  <2>1. IsWellFoundedOn(Less, Nat)
    BY NatLessThanWellFounded DEF Less
  <2> HIDE DEF Less
  <2> QED
    BY <2>1, WFMin
<1>3. \E i \in T : \A j \in T : i <= j
  <2>1. PICK i \in T : \A j \in T : ~(<<j, i>> \in Less)
    BY <1>2
  <2>2. \A j \in T : ~(j < i)
    BY <2>1 DEF OpToRel
  <2> QED
    BY <2>2
<1> QED
  BY <1>3 DEF First

\* A walk of /proc leaves the host and, but for a process found there, the
\* pid; one that it finds has the name that the record then has.
Sought(q) ==
    /\ q = Fields(q)
    /\ \/ q.pid = rec.pid /\ q.host = rec.host
       \/ /\ q.pid \in alive
          /\ program[q.pid].comm = q.name
          /\ ~program[q.pid].remote
          /\ ~Elsewhere(rec.host)

LEMMA WalkedIs ==
  ASSUME World, NEW names, Listed(names) # {}
  PROVE  /\ First(Listed(names)) \in alive
         /\ program[First(Listed(names))].comm \in names
         /\ ~program[First(Listed(names))].remote
<1>1. Listed(names) \in SUBSET Nat
  BY DetectAssumption DEF DetectAssumption, Listed, World
<1>2. First(Listed(names)) \in Listed(names)
  BY <1>1, FirstIs
<1> QED
  BY <1>2 DEF Listed

LEMMA SoughtIs ==
  ASSUME World, Recorded
  PROVE  /\ Sought(ByName(rec)) /\ Sought(ProcAny(rec))
         /\ Checked(rec) = Fields(Checked(rec))
         /\ Checked(rec).name = rec.name /\ Checked(rec).pid = rec.pid
<1>1. Sought(rec)
  BY DEF Recorded, Sought
<1>2. Sought(ByName(rec))
  <2>1. CASE ByName(rec) = rec
    BY <1>1, <2>1
  <2>2. CASE ByName(rec) # rec
    <3> DEFINE names == {rec.name}
               i == First(Listed(names))
    <3>1. ByName(rec) = [rec EXCEPT !.pid = i] /\ Listed(names) # {} /\ ~Elsewhere(rec.host)
      BY <2>2 DEF ByName
    <3> HIDE DEF names
    <3>2. i \in alive /\ program[i].comm \in names /\ ~program[i].remote
      BY <3>1, WalkedIs
    <3>3. program[i].comm = rec.name
      BY <3>2 DEF names
    <3> HIDE DEF i
    <3> QED
      BY <3>1, <3>2, <3>3 DEF Sought, Recorded, Fields
  <2> QED
    BY <2>1, <2>2
<1>3. Sought(ProcAny(rec))
  <2>1. CASE ProcAny(rec) = rec
    BY <1>1, <2>1
  <2>2. CASE ProcAny(rec) # rec
    <3> DEFINE i == First(Listed(wm_list))
    <3>1. /\ ProcAny(rec) = [rec EXCEPT !.pid = i, !.name = program[i].comm]
          /\ Listed(wm_list) # {} /\ ~Elsewhere(rec.host)
      BY <2>2 DEF ProcAny, Elsewhere
    <3>2. i \in alive /\ ~program[i].remote
      BY <3>1, WalkedIs
    <3> HIDE DEF i
    <3> QED
      BY <3>1, <3>2 DEF Sought, Recorded, Fields
  <2> QED
    BY <2>1, <2>2
<1>4. \E argv, host : Checked(rec) \in {rec, [rec EXCEPT !.argv = argv, !.host = host]}
  BY DEF Checked
<1>5. /\ Checked(rec) = Fields(Checked(rec))
      /\ Checked(rec).name = rec.name /\ Checked(rec).pid = rec.pid
  BY <1>4 DEF Recorded, Fields
<1> QED
  BY <1>2, <1>3, <1>5

-----------------------------------------------------------------------------
\* The first check starts with nothing known.
LEMMA DetectInit == Init => DetectInv
<1> SUFFICES ASSUME Init PROVE DetectInv
  OBVIOUS
<1>1. Recorded
  BY DEF Init, Recorded, Fields, Blank
<1>2. World
  BY DetectAssumption DEF DetectAssumption, Init, World
<1> QED
  BY <1>1, <1>2 DEF Init, DetectInv, Steady, Believed, Given, Taken, WhoseProcess, During

\* A manager that starts, resigns or ends during the check makes it one of
\* which less is promised, and takes no process from the record.
LEMMA ChangeKeeps ==
  ASSUME DetectInv, Change, UNCHANGED pc,
         DOMAIN program' = Ids, alive' \subseteq Ids,
         \A i \in alive' : program'[i] # NoProgram,
         \A i \in Ids : program[i] # NoProgram => program'[i] = program[i]
  PROVE  DetectInv'
<1>1. /\ UNCHANGED checkVars /\ changes' = changes + 1
      /\ began \in Nat /\ changes \in Nat /\ began <= changes
  BY DEF Change, DetectInv, World
<1>2. World' /\ changes' # began'
  BY <1>1 DEF World, checkVars
<1>3. Recorded' /\ Given'
  BY <1>1 DEF DetectInv, Recorded, Fields, Given, checkVars
<1>4. Steady' /\ Believed'
  BY <1>2 DEF Steady, Believed
<1>5. Taken' /\ WhoseProcess'
  BY <1>1, <1>2 DEF DetectInv, Taken, WhoseProcess, checkVars
<1> QED
  BY <1>2, <1>3, <1>4, <1>5 DEF DetectInv

LEMMA ManagersKeep ==
  ASSUME DetectInv, NEW i \in Ids,
         End(i) \/ \E p \in Later : Start(i, p)
  PROVE  DetectInv'
<1>1. CASE End(i)
  BY <1>1, ChangeKeeps DEF End, Change, checkVars, DetectInv, World
<1>2. ASSUME NEW p \in Later, Start(i, p) PROVE DetectInv'
  <2>1. p # NoProgram
    BY DetectAssumption DEF DetectAssumption
  <2>2. /\ program[i] = NoProgram /\ program' = [program EXCEPT ![i] = p]
        /\ alive' = alive \cup {i} /\ Change /\ pc' = pc
    BY <1>2 DEF Start, Change, checkVars
  <2>3. /\ DOMAIN program = Ids /\ alive \subseteq Ids
        /\ \A j \in alive : program[j] # NoProgram
    BY DEF DetectInv, World
  <2>4. DOMAIN program' = Ids /\ alive' \subseteq Ids
    BY <2>2, <2>3
  <2>5. \A j \in Ids : program'[j] = IF j = i THEN p ELSE program[j]
    BY <2>2, <2>3
  <2> QED
    BY <2>1, <2>2, <2>3, <2>4, <2>5, ChangeKeeps
<1> QED
  BY <1>1, <1>2

\* A step of the check, seen from outside.
LEMMA StepLeaves ==
  ASSUME DetectInv, NEW from, NEW to, Step(from, to)
  PROVE  /\ World' /\ pc = from /\ pc' = to
         /\ UNCHANGED <<program, alive, owner, changes, root, began>>
BY DEF Step, DetectInv, World, worldVars

\* The steps that look for name, host, pid and command of the windows.
LEMMA WindowsKeep ==
  ASSUME DetectInv, FindComp \/ FindName \/ FindHost \/ FindPid \/ FindComm
  PROVE  DetectInv'
<1> USE DEF DetectInv
<1>1. CASE FindComp
  <2>1. /\ World' /\ pc' \in {"name", "publish"} /\ seen' = owner /\ owner' = owner
    BY <1>1, StepLeaves DEF FindComp
  <2>2. \E there, win, maker, motif :
           rec' = [Blank EXCEPT !.there = there, !.win = win,
                                !.maker = maker, !.motif = motif]
    BY <1>1 DEF FindComp
  <2>3. Recorded' /\ rec'.pid = NoId
    BY <2>2 DEF Recorded, Fields, Blank
  <2> QED
    BY <2>1, <2>3 DEF Steady, Believed, Given, Taken, WhoseProcess
<1>2. CASE FindName
  <2>1. /\ World' /\ pc = "name" /\ pc' = "host" /\ seen' = seen
        /\ UNCHANGED <<owner, changes, began>>
    BY <1>2, StepLeaves DEF FindName
  <2>2. \E name : rec' = [rec EXCEPT !.name = name]
    BY <1>2 DEF FindName
  <2>3. Recorded'
    BY <2>2 DEF Recorded, Fields
  <2> QED
    BY <2>1, <2>3 DEF Steady, Believed, Given, Taken, WhoseProcess, During
<1>3. CASE FindHost
  <2>1. /\ World' /\ pc = "host" /\ pc' = "pid" /\ seen' = seen
        /\ UNCHANGED <<program, owner, changes, began>>
    BY <1>3, StepLeaves DEF FindHost
  <2>2. rec' = [rec EXCEPT !.host = IF Says("host", "none") # "none"
                                    THEN Says("host", "none") ELSE RootSays("host")]
    BY <1>3 DEF FindHost
  <2>3. Recorded'
    BY <2>2 DEF Recorded, Fields
  <2>4. rec'.host = IF Says("host", "none") # "none"
                    THEN Says("host", "none") ELSE RootSays("host")
    <3> HIDE DEF Says, RootSays
    <3> QED
      BY <2>2 DEF Recorded, Fields
  <2>5. changes = began /\ seen # NoId => Says("host", "none") = program[seen].host
    BY <2>1 DEF Steady, During, Says
  <2>6. Believed'
    BY <2>1, <2>4, <2>5 DEF Believed
  <2> QED
    BY <2>1, <2>3, <2>6 DEF Steady, Given, Taken, WhoseProcess, During
<1>4. CASE FindPid
  <2>1. /\ World' /\ pc = "pid" /\ pc' = "comm" /\ seen' = seen
        /\ UNCHANGED <<program, owner, changes, began, root>>
    BY <1>4, StepLeaves DEF FindPid
  <2>2. \E pid \in {NoId, seen, root.pid} : rec' = [rec EXCEPT !.pid = pid]
    BY <1>4 DEF FindPid, RootSays, BareRoot
  <2>3. Recorded' /\ rec'.host = rec.host /\ rec'.pid \in {NoId, seen, root.pid}
    BY <2>2 DEF Recorded, Fields
  <2> QED
    BY <2>1, <2>3 DEF Steady, Believed, Given, Taken, WhoseProcess, During
<1>5. CASE FindComm
  <2>1. /\ World' /\ pc = "comm" /\ pc' = "proc" /\ seen' = seen
        /\ UNCHANGED <<program, owner, changes, began, root>>
    BY <1>5, StepLeaves DEF FindComm
  <2>2. \E command : rec' = [rec EXCEPT !.command = command]
    BY <1>5 DEF FindComm
  <2>3. Recorded' /\ rec'.host = rec.host /\ rec'.pid = rec.pid
    BY <2>2 DEF Recorded, Fields
  <2> QED
    BY <2>1, <2>3 DEF Steady, Believed, Given, Taken, WhoseProcess, During
<1> QED
  BY <1>1, <1>2, <1>3, <1>4, <1>5

\* The search of /proc, and what follows it.
LEMMA ProcKeeps ==
  ASSUME DetectInv, FindProc \/ FindAny \/ CheckProc \/ FindClass \/ GetOps
  PROVE  DetectInv'
<1> USE DEF DetectInv
<1>1. CASE FindProc \/ FindAny
  <2>1. /\ World' /\ pc \in {"proc", "any"} /\ pc' \in {"any", "check", "class"}
        /\ seen' = seen /\ UNCHANGED <<program, owner, changes, began, root>>
        /\ Sought(rec')
        /\ pc' = "any" => rec'.pid = NoId
    <3>1. CASE FindProc
      <4>1. /\ Step("proc", "any") \/ Step("proc", "check") \/ Step("proc", "class")
            /\ seen' = seen /\ rec' = ByName(rec)
            /\ pc' = "any" => ~(ByName(rec).pid # NoId)
        BY <3>1 DEF FindProc, Step
      <4> QED
        BY <4>1, StepLeaves, SoughtIs
    <3>2. CASE FindAny
      <4>1. /\ Step("any", "check") \/ Step("any", "class")
            /\ seen' = seen /\ rec' = ProcAny(rec)
        BY <3>2 DEF FindAny, Step
      <4> QED
        BY <4>1, StepLeaves, SoughtIs
    <3> QED
      BY <1>1, <3>1, <3>2
  <2>2. rec.pid \in {NoId, seen, root.pid}
    BY <2>1 DEF Given
  <2>3. Elsewhere(rec.host)
          \/ ~(changes = began /\ seen # NoId /\ program[seen].host = "other")
    BY <2>1 DEF Believed, Elsewhere
  <2>4. WhoseProcess'
    BY <2>1, <2>2, <2>3 DEF WhoseProcess, Sought
  <2>5. Taken'
    BY <2>1, <2>2 DEF Taken, World, Sought
  <2>6. Believed'
    BY <2>1, <2>3 DEF Believed, Sought
  <2>7. Recorded' /\ Given' /\ Steady'
    BY <2>1 DEF Recorded, Sought, Fields, Given, Steady, During
  <2> QED
    BY <2>1, <2>4, <2>5, <2>6, <2>7
<1>3. CASE CheckProc
  <2>1. /\ World' /\ pc = "check" /\ pc' = "class" /\ seen' = seen
        /\ UNCHANGED <<program, owner, changes, began, root>>
    BY <1>3, StepLeaves DEF CheckProc
  <2>2. Recorded' /\ rec'.name = rec.name /\ rec'.pid = rec.pid
    BY <1>3, SoughtIs DEF CheckProc, Recorded, Fields
  <2> QED
    BY <2>1, <2>2 DEF Steady, Believed, Given, Taken, WhoseProcess, During
<1>2. CASE FindClass \/ GetOps
  <2>1. /\ World' /\ pc \in {"class", "ops"} /\ pc' \in {"ops", "publish"}
        /\ seen' = seen /\ UNCHANGED <<program, owner, changes, began, root>>
    BY <1>2, StepLeaves DEF FindClass, GetOps
  <2>2. \/ \E class : rec' = [rec EXCEPT !.class = class]
        \/ \E ops : rec' = [rec EXCEPT !.ops = ops]
    BY <1>2 DEF FindClass, GetOps
  <2>3. Recorded' /\ rec'.name = rec.name /\ rec'.pid = rec.pid
    BY <2>2 DEF Recorded, Fields
  <2> QED
    BY <2>1, <2>3 DEF Steady, Believed, Given, Taken, WhoseProcess, During
<1> QED
  BY <1>1, <1>2, <1>3

\* DetectInv is inductive.
LEMMA DetectNext == DetectInv /\ [Next]_vars => DetectInv'
<1> SUFFICES ASSUME DetectInv, [Next]_vars PROVE DetectInv'
  OBVIOUS
<1>1. CASE UNCHANGED vars
  BY <1>1 DEF vars, worldVars, checkVars, DetectInv, Recorded, Fields, World, Steady,
     Believed, Given, Taken, WhoseProcess
<1>2. CASE Publish
  BY <1>2 DEF Publish, worldVars, DetectInv, Recorded, Fields, World, Steady,
     Believed, Given, Taken, WhoseProcess, During
<1>3. CASE Recheck
  BY <1>3 DEF Recheck, worldVars, DetectInv, Recorded, Fields, Blank, World, Steady,
     Believed, Given, Taken, WhoseProcess, During
<1> QED
  BY <1>1, <1>2, <1>3, ManagersKeep, WindowsKeep, ProcKeeps DEF Next

\* Whatever starts, resigns or ends during a check, a pid that find_wm_proc
\* takes from /proc is that of a process of this host with the record's name;
\* none is taken for a manager that says it runs on another machine.
THEOREM FoundProcess == Spec => []WhoseProcess
<1>1. DetectInv => WhoseProcess
  BY DEF DetectInv
<1> QED
  BY <1>1, DetectInit, DetectNext, PTL DEF Spec

-----------------------------------------------------------------------------
\* Of several places the first that answers is taken.
LEMMA FirstSaidIs ==
  ASSUME NEW none, NEW places, DOMAIN places \subseteq Nat \ {0}
  PROVE  /\ \/ FirstSaid(none, places) = none /\ \A k \in DOMAIN places : places[k] = none
            \/ \E k \in DOMAIN places : /\ places[k] # none
                               /\ FirstSaid(none, places) = places[k]
                               /\ \A j \in DOMAIN places : j < k => places[j] = none
         /\ 1 \in DOMAIN places /\ places[1] # none => FirstSaid(none, places) = places[1]
<1> DEFINE answered == {k \in DOMAIN places : places[k] # none}
<1>1. FirstSaid(none, places) =
         IF answered = {} THEN none ELSE places[First(answered)]
  BY DEF FirstSaid
<1>2. CASE answered = {}
  BY <1>1, <1>2
<1>3. CASE answered # {}
  <2>1. answered \in SUBSET Nat
    OBVIOUS
  <2>2. /\ First(answered) \in answered
        /\ \A j \in answered : First(answered) <= j
    <3> HIDE DEF answered
    <3> QED
      BY <1>3, <2>1, FirstIs
  <2> DEFINE k == First(answered)
  <2>3. k \in DOMAIN places /\ places[k] # none /\ FirstSaid(none, places) = places[k]
    <3>1. k \in answered
      BY <2>2
    <3>2. FirstSaid(none, places) = places[k]
      BY <1>1, <1>3
    <3> HIDE DEF k
    <3> QED
      BY <3>1, <3>2
  <2>4. \A j \in DOMAIN places : places[j] # none => k <= j
    BY <2>2
  <2> HIDE DEF k
  <2>5. \A j \in DOMAIN places : j < k => places[j] = none
    BY <2>3, <2>4
  <2>6. 1 \in DOMAIN places /\ places[1] # none => k = 1
    BY <2>3, <2>4
  <2> QED
    BY <2>3, <2>5, <2>6
<1> QED
  BY <1>2, <1>3

\* The name that check_name finds in a text of a program is a word of it; the
\* windows of nobody have none.
LEMMA WordsOfTexts ==
  ASSUME NEW p \in Programs
  PROVE  /\ FirstWord(p.texts) \in FirstWords(p) \cup {NoName}
         /\ FirstWord(<<p.texts[3], p.texts[4]>>) \in FirstWords(p) \cup {NoName}
<1> DEFINE texts == p.texts
           two == <<texts[3], texts[4]>>
           Word(t) == IF t = << >> THEN NoName ELSE Head(t)
<1>1. DOMAIN texts = 1..4
  BY DetectAssumption DEF DetectAssumption
<1>2. DOMAIN two = 1..2 /\ two[1] = texts[3] /\ two[2] = texts[4]
  OBVIOUS
<1>3. \A k \in 1..4 : Word(texts[k]) \in FirstWords(p) \cup {NoName}
  BY DEF FirstWords
<1>4. Word(<< >>) = NoName
  OBVIOUS
<1>5. /\ FirstWord(p.texts) = Word(FirstSaid(<< >>, texts))
      /\ FirstWord(<<p.texts[3], p.texts[4]>>) = Word(FirstSaid(<< >>, two))
  BY DEF FirstWord
<1> HIDE DEF texts, two, Word
<1>6. \/ FirstSaid(<< >>, texts) = << >>
      \/ \E k \in 1..4 : FirstSaid(<< >>, texts) = texts[k]
  BY <1>1, FirstSaidIs
<1>7. \/ FirstSaid(<< >>, two) = << >>
      \/ \E k \in 1..2 : FirstSaid(<< >>, two) = two[k]
  BY <1>2, FirstSaidIs
<1>8. Word(FirstSaid(<< >>, texts)) \in FirstWords(p) \cup {NoName}
  BY <1>3, <1>4, <1>6
<1>9. Word(FirstSaid(<< >>, two)) \in FirstWords(p) \cup {NoName}
  <2>1. CASE FirstSaid(<< >>, two) = << >>
    BY <1>4, <2>1
  <2>2. CASE \E k \in 1..2 : FirstSaid(<< >>, two) = two[k]
    <3>1. FirstSaid(<< >>, two) = texts[3] \/ FirstSaid(<< >>, two) = texts[4]
      BY <1>2, <2>2
    <3> QED
      BY <1>3, <3>1
  <2> QED
    BY <1>7, <2>1, <2>2
<1> QED
  BY <1>5, <1>8, <1>9

LEMMA UntitledIs ==
  /\ DOMAIN Untitled = 1..4
  /\ FirstWord(Untitled) = NoName
  /\ FirstWord(<<Untitled[3], Untitled[4]>>) = NoName
<1>1. DOMAIN Untitled = 1..4 /\ \A k \in 1..4 : Untitled[k] = << >>
  BY DEF Untitled
<1>2. FirstSaid(<< >>, Untitled) = << >>
  BY <1>1, FirstSaidIs
<1>3. FirstSaid(<< >>, << << >>, << >> >>) = << >>
  <2> DEFINE two == << << >>, << >> >>
  <2>1. DOMAIN two = 1..2 /\ \A k \in 1..2 : two[k] = << >>
    OBVIOUS
  <2> HIDE DEF two
  <2>2. FirstSaid(<< >>, two) = << >>
    BY <2>1, FirstSaidIs
  <2> QED
    BY <2>2 DEF two
<1> QED
  BY <1>1, <1>2, <1>3 DEF FirstWord

LEMMA FirstSaidIn ==
  ASSUME NEW S, NEW none \in S, NEW places, DOMAIN places \subseteq Nat \ {0},
         \A k \in DOMAIN places : places[k] \in S
  PROVE  FirstSaid(none, places) \in S
BY FirstSaidIs

-----------------------------------------------------------------------------
(***************************************************************************)
(* Types.  TypeOK in parts, and what it rests on besides: only a record of *)
(* which the process was found has arguments, and the root has the five    *)
(* properties.                                                             *)
(***************************************************************************)
Started == {i \in Ids : program[i] # NoProgram}

Typed ==
    /\ program \in [Ids -> Programs \cup {NoProgram}]
    /\ alive \subseteq Started
    /\ owner \in alive \cup {NoId}
    /\ left \in BOOLEAN
    /\ changes \in 0..MaxChanges /\ began \in 0..changes
    /\ pc \in {"comp", "name", "host", "pid", "comm", "proc", "any", "check",
              "class", "ops", "publish", "done"}
    /\ seen \in Started \cup {NoId}

Told(r) ==
    /\ r.host \in Hosts
    /\ r.pid \in Started \cup {NoId}
    /\ r.name \in Words /\ r.class \in Words /\ r.command \in Words

Found(r) ==
    /\ r.there \in BOOLEAN /\ r.maker \in BOOLEAN /\ r.motif \in BOOLEAN
    /\ r.win \in Started \cup {NoId}

Argued ==
    rec.argv => pc \in {"class", "ops", "publish", "done"} /\ rec.pid # NoId

Posted == root = [name |-> root.name, host |-> root.host, pid |-> root.pid,
                  command |-> root.command, class |-> root.class]

TypeInv ==
    /\ Typed
    /\ Told(root) /\ Told(rec) /\ Found(rec) /\ Found(old)
    /\ rec.argv \in BOOLEAN /\ rec.ops \in Plugins
    /\ old = Compared(old)
    /\ Recorded /\ Posted /\ Argued

LEMMA TypesAre == TypeInv => TypeOK
BY DEF TypeInv, TypeOK, Typed, Told, Found, Started

LEMMA WordsHave ==
  /\ NoName \in Words /\ Slashed \in Words /\ wm_list \subseteq Words
  /\ Statuses \subseteq Words
  /\ \A p \in Programs : p.comm \in Words /\ FirstWords(p) \subseteq Words
BY DEF Words

\* What the windows say has its type, also when they have died.
LEMMA SaysIs ==
  ASSUME Typed
  PROVE  /\ \/ \E p \in Programs :
                  /\ p = program[seen] /\ seen # NoId /\ seen = owner
                  /\ \A field, otherwise : Says(field, otherwise) = p[field]
            \/ /\ ~(seen # NoId /\ seen = owner)
               /\ \A field, otherwise : Says(field, otherwise) = otherwise
<1>1. CASE seen # NoId /\ seen = owner
  <2>1. program[seen] \in Programs
    BY <1>1 DEF Typed, Started
  <2> QED
    BY <1>1, <2>1 DEF Says
<1>2. CASE ~(seen # NoId /\ seen = owner)
  BY <1>2 DEF Says
<1> QED
  BY <1>1, <1>2

LEMMA SaysWords ==
  ASSUME Typed
  PROVE  /\ FirstWord(Says("texts", Untitled)) \in Words
         /\ LET texts == Says("texts", Untitled)
            IN  FirstWord(<<texts[3], texts[4]>>) \in Words
         /\ CommandSays \in Words
         /\ Says("host", "none") \in Hosts
<1> DEFINE texts == Says("texts", Untitled)
<1>1. CASE \E p \in Programs :
             /\ p = program[seen] /\ seen # NoId /\ seen = owner
             /\ \A field, otherwise : Says(field, otherwise) = p[field]
  <2>1. PICK p \in Programs :
             /\ p = program[seen]
             /\ \A field, otherwise : Says(field, otherwise) = p[field]
    BY <1>1
  <2>2. Says("texts", Untitled) = p.texts /\ Says("host", "none") = p.host
    BY <2>1
  <2>3. FirstWord(p.texts) \in Words /\ FirstWord(<<p.texts[3], p.texts[4]>>) \in Words
    BY WordsOfTexts, WordsHave
  <2>4. p.host \in Hosts
    BY DetectAssumption DEF DetectAssumption
  <2>5. CommandSays \in {p.comm, Slashed, NoName}
    BY <2>1 DEF CommandSays
  <2> QED
    BY <2>2, <2>3, <2>4, <2>5, WordsHave
<1>2. CASE \A field, otherwise : Says(field, otherwise) = otherwise
  <2>1. texts = Untitled /\ Says("host", "none") = "none"
    BY <1>2
  <2>2. Says("command", "none") = "none"
    BY <1>2
  <2>3. CommandSays = NoName
    BY <2>2 DEF CommandSays
  <2>4. "none" \in Hosts
    BY DEF Hosts
  <2> QED
    BY <2>1, <2>3, <2>4, UntitledIs, WordsHave
<1> QED
  BY <1>1, <1>2, SaysIs

\* The root says what the library has written there, or somebody its name.
LEMMA RootSaysIs ==
  ASSUME Told(root)
  PROVE  /\ RootSays("name") \in Words /\ RootSays("class") \in Words
         /\ RootSays("command") \in Words
         /\ RootSays("host") \in Hosts
         /\ RootSays("pid") \in Started \cup {NoId}
<1>1. Told(BareRoot)
  BY WordsHave DEF BareRoot, Told, Hosts
<1> QED
  BY <1>1 DEF RootSays, Told

\* The operations that get_wm_ops loads are those of a plugin, or none.
LEMMA OpsArePlugins == NoManager \in Plugins /\ \A name : PluginOf(name) \in Plugins
<1>1. NoManager \in Plugins
  BY DEF Plugins
<1> QED
  BY <1>1 DEF PluginOf

LEMMA BlankIs ==
  /\ Blank = Fields(Blank) /\ Blank.ops = NoManager /\ Blank.argv = FALSE
  /\ Blank.host = "none" /\ Blank.pid = NoId /\ Blank.win = NoId
  /\ Blank.name = NoName /\ Blank.class = NoName /\ Blank.command = NoName
  /\ Blank.there = FALSE /\ Blank.maker = FALSE /\ Blank.motif = FALSE
BY DEF Blank, Fields

LEMMA ComparedIs ==
  ASSUME NEW r
  PROVE  LET c == Compared(r) IN
         /\ c.there = r.there /\ c.win = r.win /\ c.maker = r.maker
         /\ c.motif = r.motif /\ Compared(c) = c
BY DEF Compared, Blank

LEMMA TypesInit == Init => TypeInv
<1> SUFFICES ASSUME Init PROVE TypeInv
  OBVIOUS
<1>1. PICK i \in Ids, p \in Programs :
        /\ program = [j \in Ids |-> IF j = i THEN p ELSE NoProgram]
        /\ alive = {i} /\ owner = i
  BY DEF Init
<1>2. p # NoProgram /\ Ids \subseteq Nat \ {NoId} /\ MaxChanges \in Nat
  BY DetectAssumption DEF DetectAssumption
<1>3. Typed
  <2>1. program \in [Ids -> Programs \cup {NoProgram}] /\ alive \subseteq Started
    BY <1>1, <1>2 DEF Started
  <2>2. changes = 0 /\ began = 0 /\ changes \in 0..MaxChanges /\ began \in 0..changes
    BY <1>2 DEF Init
  <2> QED
    BY <1>1, <2>1, <2>2 DEF Init, Typed
<1>4. rec = Blank /\ old = Blank
  BY DEF Init
<1>5. PICK name \in Statuses \cup {NoName} : root = [BareRoot EXCEPT !.name = name]
  BY DEF Init
<1>6. Told(root) /\ Posted
  <2>1. root = [name |-> name, host |-> "none", pid |-> NoId,
                command |-> NoName, class |-> NoName]
    BY <1>5 DEF BareRoot
  <2>2. "none" \in Hosts
    BY DEF Hosts
  <2> QED
    BY <2>1, <2>2, WordsHave DEF Told, Posted
<1>7. Told(rec) /\ Found(rec) /\ Found(old) /\ Recorded
  <2>1. "none" \in Hosts
    BY DEF Hosts
  <2> QED
    BY <1>4, <2>1, BlankIs, WordsHave DEF Told, Found, Recorded
<1>8. rec.argv \in BOOLEAN /\ rec.ops \in Plugins /\ Argued
  BY <1>4, BlankIs, OpsArePlugins DEF Argued
<1>9. old = Compared(old)
  BY <1>4 DEF Compared, Blank
<1> QED
  BY <1>3, <1>6, <1>7, <1>8, <1>9 DEF TypeInv

\* A manager that starts or ends takes no process away that had been started.
LEMMA ManagersTyped ==
  ASSUME TypeInv, NEW i \in Ids,
         End(i) \/ \E p \in Later : Start(i, p)
  PROVE  TypeInv'
<1>1. /\ UNCHANGED checkVars
      /\ changes < MaxChanges /\ changes' = changes + 1
  BY DEF End, Start, Change
<1>2. Started \subseteq Started' /\ Typed'
  <2>1. /\ changes' \in 0..MaxChanges /\ began' \in 0..changes'
    BY <1>1, DetectAssumption DEF DetectAssumption, TypeInv, Typed, checkVars
  <2>2. CASE End(i)
    BY <1>1, <2>1, <2>2 DEF End, TypeInv, Typed, Started, checkVars
  <2>3. ASSUME NEW p \in Later, Start(i, p)
        PROVE  Started \subseteq Started' /\ Typed'
    <3>1. p \in Programs /\ p # NoProgram
      BY DetectAssumption DEF DetectAssumption
    <3>2. /\ program' \in [Ids -> Programs \cup {NoProgram}]
          /\ Started' = Started \cup {i}
      BY <2>3, <3>1 DEF Start, TypeInv, Typed, Started
    <3>3. alive' = alive \cup {i} /\ owner' = i /\ left' = left
      BY <2>3 DEF Start
    <3> QED
      BY <1>1, <2>1, <3>2, <3>3 DEF TypeInv, Typed, checkVars
  <2> QED
    BY <2>2, <2>3
<1>3. Told(root)' /\ Told(rec)' /\ Found(rec)' /\ Found(old)'
  BY <1>1, <1>2 DEF TypeInv, Told, Found, checkVars
<1>4. /\ (rec.argv \in BOOLEAN)' /\ (rec.ops \in Plugins)' /\ (old = Compared(old))'
      /\ Posted' /\ Argued' /\ Recorded'
  BY <1>1 DEF TypeInv, Posted, Argued, Recorded, Fields, Compared, checkVars
<1> QED
  BY <1>2, <1>3, <1>4 DEF TypeInv

\* A step of the check, as far as it does not depend on what it reads.
LEMMA StepTyped ==
  ASSUME TypeInv, NEW from, NEW to, Step(from, to), pc' \in
            {"name", "host", "pid", "comm", "proc", "any", "check", "class", "ops",
             "publish"},
         seen' \in Started \cup {NoId},
         Told(rec)', Found(rec)', (rec.argv \in BOOLEAN)', (rec.ops \in Plugins)',
         Recorded', Argued'
  PROVE  TypeInv'
<1>1. UNCHANGED <<program, alive, owner, left, changes, root, began, old>>
  BY DEF Step, worldVars
<1>2. Started' = Started
  BY <1>1 DEF Started
<1>3. Typed'
  BY <1>1, <1>2 DEF TypeInv, Typed
<1>4. Told(root)' /\ Found(old)'
  BY <1>1, <1>2 DEF TypeInv, Told, Found
<1>5. Posted' /\ (old = Compared(old))'
  BY <1>1 DEF TypeInv, Posted, Compared
<1> QED
  BY <1>3, <1>4, <1>5 DEF TypeInv

LEMMA CompTyped == ASSUME TypeInv, FindComp PROVE TypeInv'
<1>1. UNCHANGED program /\ pc' \in {"name", "publish"} /\ seen' = owner
  BY DEF FindComp, Step, worldVars
<1>2. owner \in Started \cup {NoId} /\ left \in BOOLEAN
  BY DEF TypeInv, Typed
<1>3. PICK there \in BOOLEAN, win \in Started \cup {NoId},
           maker \in BOOLEAN, motif \in BOOLEAN :
        rec' = [Blank EXCEPT !.there = there, !.win = win, !.maker = maker,
                             !.motif = motif]
  BY <1>2 DEF FindComp
<1>4. /\ rec'.there = there /\ rec'.win = win /\ rec'.maker = maker
      /\ rec'.motif = motif /\ rec'.host = "none" /\ rec'.pid = NoId
      /\ rec'.name = NoName /\ rec'.class = NoName /\ rec'.command = NoName
      /\ rec'.argv = FALSE /\ rec'.ops = NoManager /\ Recorded'
  BY <1>3 DEF Blank, Recorded, Fields
<1>5. Started' = Started /\ "none" \in Hosts
  BY <1>1 DEF Started, Hosts
<1>6. Told(rec)' /\ Found(rec)'
  BY <1>4, <1>5, WordsHave DEF Told, Found
<1>7. (rec.argv \in BOOLEAN)' /\ (rec.ops \in Plugins)' /\ Argued'
  BY <1>4, OpsArePlugins DEF Argued
<1>8. \E to : Step("comp", to)
  BY DEF FindComp
<1> QED
  BY <1>1, <1>2, <1>4, <1>6, <1>7, <1>8, StepTyped

\* A step that leaves the record with other words, another host, pid or
\* operations, of the right types.
Updated(name, host, pid, command, class, ops) ==
    [there |-> rec.there, win |-> rec.win, maker |-> rec.maker,
     motif |-> rec.motif, name |-> name, host |-> host, pid |-> pid,
     command |-> command, argv |-> rec.argv, class |-> class, ops |-> ops]

LEMMA RecTyped ==
  ASSUME TypeInv
  PROVE  /\ rec.name \in Words /\ rec.host \in Hosts
         /\ rec.pid \in Started \cup {NoId} /\ rec.command \in Words
         /\ rec.class \in Words /\ rec.ops \in Plugins
BY DEF TypeInv, Told

LEMMA LookTyped ==
  ASSUME TypeInv, NEW from, NEW to, Step(from, to), UNCHANGED seen,
         to \in {"host", "pid", "comm", "proc", "ops", "publish"},
         NEW name \in Words, NEW host \in Hosts, NEW pid \in Started \cup {NoId},
         NEW command \in Words, NEW class \in Words, NEW ops \in Plugins,
         rec' = Updated(name, host, pid, command, class, ops),
         \/ from \in {"name", "host", "pid", "comm"}
         \/ to \in {"ops", "publish"} /\ pid = rec.pid
  PROVE  TypeInv'
<1>1. UNCHANGED program /\ pc = from /\ pc' = to
  BY DEF Step, worldVars
<1>2. /\ Recorded' /\ rec'.name = name /\ rec'.host = host /\ rec'.pid = pid
      /\ rec'.class = class /\ rec'.command = command
      /\ rec'.argv = rec.argv /\ rec'.ops = ops
      /\ rec'.there = rec.there /\ rec'.win = rec.win /\ rec'.maker = rec.maker
      /\ rec'.motif = rec.motif
  BY DEF Updated, Recorded, Fields
<1>3. Started' = Started
  BY <1>1 DEF Started
<1>4. Told(rec)' /\ Found(rec)'
  BY <1>2, <1>3 DEF TypeInv, Told, Found
<1>5. (rec.argv \in BOOLEAN)' /\ (rec.ops \in Plugins)'
  BY <1>2 DEF TypeInv
<1>6. Argued'
  BY <1>1, <1>2 DEF TypeInv, Argued
<1>7. seen' \in Started \cup {NoId}
  BY DEF TypeInv, Typed
<1> QED
  BY <1>1, <1>2, <1>4, <1>5, <1>6, <1>7, StepTyped

LEMMA NameTyped == ASSUME TypeInv, FindName PROVE TypeInv'
<1>1. Step("name", "host") /\ UNCHANGED seen
  BY DEF FindName
<1>2. CheckName \in Words
  <2> DEFINE third == IF rec.win # NoId \/ rec.motif THEN root.command ELSE NoName
             places == <<FirstWord(Says("texts", Untitled)), CommandSays, third,
                         RootSays("name"), RootSays("class"), RootSays("command")>>
  <2>1. CheckName = FirstSaid(NoName, places)
    BY DEF CheckName
  <2>2. third \in Words
    BY WordsHave DEF TypeInv, Told
  <2>3. /\ FirstWord(Says("texts", Untitled)) \in Words /\ CommandSays \in Words
        /\ RootSays("name") \in Words /\ RootSays("class") \in Words
        /\ RootSays("command") \in Words
    BY SaysWords, RootSaysIs DEF TypeInv
  <2> HIDE DEF third
  <2>4. DOMAIN places \subseteq Nat \ {0} /\ \A k \in DOMAIN places : places[k] \in Words
    BY <2>2, <2>3
  <2> HIDE DEF places
  <2> QED
    BY <2>1, <2>4, WordsHave, FirstSaidIn
<1>3. Renamed(CheckName) \in Words
  BY <1>2, WordsHave DEF Renamed, Corrected, wm_list
<1>4. rec' = Updated(Renamed(CheckName), rec.host, rec.pid, rec.command,
                     rec.class, rec.ops)
  BY DEF FindName, TypeInv, Recorded, Fields, Updated
<1> QED
  BY <1>1, <1>3, <1>4, RecTyped, LookTyped

LEMMA HostTyped == ASSUME TypeInv, FindHost PROVE TypeInv'
<1>1. Step("host", "pid") /\ UNCHANGED seen
  BY DEF FindHost
<1>2. Says("host", "none") \in Hosts /\ RootSays("host") \in Hosts
  BY SaysWords, RootSaysIs DEF TypeInv
<1>3. \E host \in Hosts : rec' = Updated(rec.name, host, rec.pid, rec.command,
                                         rec.class, rec.ops)
  BY <1>2 DEF FindHost, TypeInv, Recorded, Fields, Updated
<1> QED
  BY <1>1, <1>3, RecTyped, LookTyped

LEMMA PidTyped == ASSUME TypeInv, FindPid PROVE TypeInv'
<1>1. Step("pid", "comm") /\ UNCHANGED seen
  BY DEF FindPid
<1>2. seen \in Started \cup {NoId} /\ RootSays("pid") \in Started \cup {NoId}
  BY RootSaysIs DEF TypeInv, Typed
<1>3. \E pid \in Started \cup {NoId} :
         rec' = Updated(rec.name, rec.host, pid, rec.command, rec.class, rec.ops)
  BY <1>2 DEF FindPid, TypeInv, Recorded, Fields, Updated
<1> QED
  BY <1>1, <1>3, RecTyped, LookTyped

LEMMA CommTyped == ASSUME TypeInv, FindComm PROVE TypeInv'
<1>1. Step("comm", "proc") /\ UNCHANGED seen
  BY DEF FindComm
<1>2. CommandSays \in Words /\ RootSays("command") \in Words
  BY SaysWords, RootSaysIs DEF TypeInv
<1>3. \E command \in Words :
         rec' = Updated(rec.name, rec.host, rec.pid, command, rec.class, rec.ops)
  BY <1>2 DEF FindComm, TypeInv, Recorded, Fields, Updated
<1> QED
  BY <1>1, <1>3, RecTyped, LookTyped

LEMMA ClassTyped == ASSUME TypeInv, FindClass PROVE TypeInv'
<1> DEFINE texts == Says("texts", Untitled)
           said == <<FirstWord(<<texts[3], texts[4]>>), RootSays("class"), rec.name>>
<1>1. Step("class", "ops") /\ UNCHANGED seen
  BY DEF FindClass
<1>2. /\ FirstWord(<<texts[3], texts[4]>>) \in Words
      /\ RootSays("class") \in Words /\ rec.name \in Words
  BY SaysWords, RootSaysIs DEF TypeInv, Told
<1>3. DOMAIN said \subseteq Nat \ {0} /\ \A k \in DOMAIN said : said[k] \in Words
  BY <1>2
<1>4. rec' = Updated(rec.name, rec.host, rec.pid, rec.command,
                     FirstSaid(NoName, said), rec.ops)
  BY DEF FindClass, TypeInv, Recorded, Fields, Updated
<1> HIDE DEF said
<1>5. FirstSaid(NoName, said) \in Words
  BY <1>3, WordsHave, FirstSaidIn
<1> QED
  BY <1>1, <1>4, <1>5, RecTyped, LookTyped

LEMMA OpsTyped == ASSUME TypeInv, GetOps PROVE TypeInv'
<1>1. Step("ops", "publish") /\ UNCHANGED seen
  BY DEF GetOps
<1>2. rec' = Updated(rec.name, rec.host, rec.pid, rec.command, rec.class,
                     PluginOf(rec.name))
  BY DEF GetOps, TypeInv, Recorded, Fields, Updated
<1> QED
  BY <1>1, <1>2, OpsArePlugins, RecTyped, LookTyped

\* The record keeps its type when find_wm_proc looks through /proc, and has
\* arguments only with a process.
Whole(r) ==
    /\ r = Fields(r) /\ Told(r) /\ Found(r)
    /\ r.argv \in BOOLEAN /\ r.ops \in Plugins
    /\ r.argv => r.pid # NoId

LEMMA ListedIs ==
  ASSUME Typed, NEW names, Listed(names) # {}
  PROVE  /\ First(Listed(names)) \in Listed(names)
         /\ First(Listed(names)) \in Started
         /\ program[First(Listed(names))] \in Programs
<1>1. Listed(names) \subseteq Started
  BY DEF Listed, Typed
<1>2. Listed(names) \in SUBSET Nat
  BY <1>1, DetectAssumption DEF DetectAssumption, Started
<1>3. First(Listed(names)) \in Listed(names)
  BY <1>2, FirstIs
<1> QED
  BY <1>1, <1>3 DEF Typed, Started

LEMMA ByNameWhole ==
  ASSUME Typed, NEW r, Whole(r)
  PROVE  Whole(ByName(r))
<1>1. CASE ByName(r) = r
  BY <1>1
<1>2. CASE ByName(r) # r
  <2>1. PICK i \in Started : ByName(r) = [r EXCEPT !.pid = i]
    <3> DEFINE names == {r.name}
    <3>1. ByName(r) = [r EXCEPT !.pid = First(Listed(names))] /\ Listed(names) # {}
      BY <1>2 DEF ByName
    <3> HIDE DEF names
    <3>2. First(Listed(names)) \in Started
      BY <3>1, ListedIs
    <3> QED
      BY <3>1, <3>2
  <2>2. i # NoId
    BY DetectAssumption DEF DetectAssumption, Started
  <2> QED
    BY <2>1, <2>2 DEF Whole, Fields, Told, Found
<1> QED
  BY <1>1, <1>2

LEMMA ProcAnyWhole ==
  ASSUME Typed, NEW r, Whole(r)
  PROVE  Whole(ProcAny(r))
<1>1. CASE ProcAny(r) = r
  BY <1>1
<1>2. CASE ProcAny(r) # r
  <2> DEFINE i == First(Listed(wm_list))
  <2>1. Listed(wm_list) # {} /\ ProcAny(r) = [r EXCEPT !.pid = i, !.name = program[i].comm]
    BY <1>2 DEF ProcAny
  <2>2. i \in Started /\ program[i] \in Programs
    BY <2>1, ListedIs
  <2>3. program[i].comm \in Words /\ i # NoId
    BY <2>2, WordsHave, DetectAssumption DEF DetectAssumption, Started
  <2> HIDE DEF i
  <2> QED
    BY <2>1, <2>2, <2>3 DEF Whole, Fields, Told, Found
<1> QED
  BY <1>1, <1>2

LEMMA CheckedWhole ==
  ASSUME Typed, NEW r, Whole(r)
  PROVE  Whole(Checked(r))
<1> DEFINE local == r.pid \in alive /\ ~program[r.pid].remote
           its == IF local THEN program[r.pid].hostname ELSE "none"
           places == <<its, OwnHostname, r.host, "same">>
           host == FirstSaid("none", places)
<1>1. CASE Checked(r) = r
  BY <1>1
<1>2. CASE Checked(r) # r
  <2>1. Checked(r) = [r EXCEPT !.argv = local, !.host = host] /\ r.pid # NoId
    BY <1>2 DEF Checked
  <2>2. its \in Hosts
    <3>1. CASE local
      <4>1. program[r.pid] \in Programs
        BY <3>1 DEF Typed, Started
      <4> QED
        BY <3>1, <4>1, DetectAssumption DEF DetectAssumption
    <3>2. CASE ~local
      BY <3>2 DEF Hosts
    <3> QED
      BY <3>1, <3>2
  <2>3. OwnHostname \in Hosts /\ r.host \in Hosts /\ "same" \in Hosts /\ "none" \in Hosts
    BY DetectAssumption DEF DetectAssumption, Whole, Told, Hosts
  <2>4. local \in BOOLEAN
    OBVIOUS
  <2> HIDE DEF its, local
  <2>5. DOMAIN places \subseteq Nat \ {0} /\ \A k \in DOMAIN places : places[k] \in Hosts
    BY <2>2, <2>3
  <2> HIDE DEF places
  <2>6. host \in Hosts
    BY <2>3, <2>5, FirstSaidIn
  <2> HIDE DEF host
  <2> QED
    BY <2>1, <2>4, <2>6 DEF Whole, Fields, Told, Found
<1> QED
  BY <1>1, <1>2

LEMMA ProcTyped ==
  ASSUME TypeInv, FindProc \/ FindAny \/ CheckProc
  PROVE  TypeInv'
<1>1. /\ UNCHANGED <<program, seen>>
      /\ pc \in {"proc", "any", "check"} /\ pc' \in {"any", "check", "class"}
      /\ pc' # "class" => pc # "check"
      /\ rec' \in {ByName(rec), ProcAny(rec), Checked(rec)}
      /\ pc # "check" => rec' \in {ByName(rec), ProcAny(rec)}
      /\ \E from, to : Step(from, to)
  BY DEF FindProc, FindAny, CheckProc, Step, worldVars
<1>2. Whole(rec) /\ ~rec.argv
  BY <1>1 DEF TypeInv, Argued, Recorded, Whole
<1>3. Whole(rec')
  BY <1>1, <1>2, ByNameWhole, ProcAnyWhole, CheckedWhole DEF TypeInv
<1>4. Started' = Started
  BY <1>1 DEF Started
<1>5. pc # "check" => ~rec'.argv
  <2>1. \E pid : ByName(rec) \in {rec, [rec EXCEPT !.pid = pid]}
    BY DEF ByName
  <2>2. \E pid, name : ProcAny(rec) \in {rec, [rec EXCEPT !.pid = pid, !.name = name]}
    BY DEF ProcAny
  <2>3. ~ByName(rec).argv /\ ~ProcAny(rec).argv
    BY <1>2, <2>1, <2>2 DEF Whole, Fields
  <2> QED
    BY <1>1, <2>3
<1>6. Told(rec)' /\ Found(rec)' /\ Recorded' /\ Argued'
      /\ (rec.argv \in BOOLEAN)' /\ (rec.ops \in Plugins)'
  BY <1>1, <1>3, <1>4, <1>5 DEF Whole, Told, Found, Recorded, Fields, Argued
<1>7. seen' \in Started \cup {NoId}
  BY <1>1 DEF TypeInv, Typed
<1> QED
  BY <1>1, <1>6, <1>7, StepTyped

\* What is published has been found, and is the record.
LEMMA PublishTyped == ASSUME TypeInv, Publish PROVE TypeInv'
<1>1. /\ pc = "publish" /\ pc' = "done" /\ old' = Compared(rec)
      /\ UNCHANGED <<program, alive, owner, left, changes, seen, began, rec>>
  BY DEF Publish, worldVars
<1>2. Started' = Started
  BY <1>1 DEF Started
<1>3. Typed' /\ Told(rec)' /\ Found(rec)'
  BY <1>1, <1>2 DEF TypeInv, Typed, Told, Found
<1>4. Found(old)' /\ (old = Compared(old))'
  BY <1>1, <1>2, ComparedIs DEF TypeInv, Found
<1>5. Commands \subseteq Words
  <2>1. CASE rec.command # NoName
    BY <2>1 DEF Commands, TypeInv, Told
  <2>2. CASE rec.command = NoName /\ rec.argv
    <3>1. rec.pid \in Started
      BY <2>2 DEF TypeInv, Told, Argued
    <3>2. program[rec.pid] \in Programs
      BY <3>1 DEF TypeInv, Typed, Started
    <3>3. Commands = {program[rec.pid].comm, Slashed}
      BY <2>2 DEF Commands
    <3> QED
      BY <3>2, <3>3, WordsHave
  <2>3. CASE rec.command = NoName /\ ~rec.argv
    BY <2>3, WordsHave DEF Commands
  <2> QED
    BY <2>1, <2>2, <2>3
<1>6. Told(root)' /\ Posted'
  <2>1. CASE root' = root
    BY <1>2, <2>1 DEF TypeInv, Told, Posted
  <2>2. CASE \E command \in Commands :
               root' = [name |-> rec.name, host |-> rec.host, pid |-> rec.pid,
                        command |-> command, class |-> rec.class]
    BY <1>2, <1>5, <2>2 DEF TypeInv, Told, Posted
  <2> QED
    BY <2>1, <2>2 DEF Publish
<1>7. (rec.argv \in BOOLEAN)' /\ (rec.ops \in Plugins)' /\ Recorded' /\ Argued'
  BY <1>1 DEF TypeInv, Recorded, Fields, Argued
<1> QED
  BY <1>3, <1>4, <1>6, <1>7 DEF TypeInv

LEMMA RecheckTyped == ASSUME TypeInv, Recheck PROVE TypeInv'
<1>1. /\ pc' = "comp" /\ began' = changes /\ seen' = NoId /\ rec' = Blank
      /\ UNCHANGED <<program, alive, owner, left, changes, root, old>>
  BY DEF Recheck, worldVars
<1>2. Started' = Started /\ "none" \in Hosts
  BY <1>1 DEF Started, Hosts
<1>3. MaxChanges \in Nat
  BY DetectAssumption DEF DetectAssumption
<1>4. Typed' /\ Told(root)' /\ Found(old)'
  BY <1>1, <1>2, <1>3 DEF TypeInv, Typed, Told, Found
<1>5. Told(rec)' /\ Found(rec)' /\ Recorded'
  BY <1>1, <1>2, BlankIs, WordsHave DEF Told, Found, Recorded
<1>6. (rec.argv \in BOOLEAN)' /\ (rec.ops \in Plugins)' /\ Argued'
  BY <1>1, BlankIs, OpsArePlugins DEF Argued
<1>7. Posted' /\ (old = Compared(old))'
  BY <1>1 DEF TypeInv, Posted, Compared
<1> QED
  BY <1>4, <1>5, <1>6, <1>7 DEF TypeInv

LEMMA TypesNext == TypeInv /\ [Next]_vars => TypeInv'
<1> SUFFICES ASSUME TypeInv, [Next]_vars PROVE TypeInv'
  OBVIOUS
<1>1. CASE UNCHANGED vars
  BY <1>1 DEF vars, worldVars, checkVars, TypeInv, Typed, Told, Found, Started,
     Argued, Posted, Recorded, Fields, Compared
<1>2. ASSUME NEW i \in Ids, End(i) \/ \E p \in Later : Start(i, p)
      PROVE  TypeInv'
  BY <1>2, ManagersTyped
<1> QED
  BY <1>1, <1>2, CompTyped, NameTyped, HostTyped, PidTyped, CommTyped, ProcTyped,
     ClassTyped, OpsTyped, PublishTyped, RecheckTyped DEF Next

\* Every variable keeps its type, whatever managers start and end between the
\* steps of a check: the record holds words that a window, the root or /proc
\* has, and a process that was started, and so does what is published of it.
THEOREM Typing == Spec => []TypeOK
<1> QED
  BY TypesAre, TypesInit, TypesNext, PTL DEF Spec

-----------------------------------------------------------------------------
(***************************************************************************)
(* Identification.  While nothing changes (owner = seen, and the root is   *)
(* what it was), each step has read what the manager says: this is what    *)
(* the search of /proc then works on.                                      *)
(***************************************************************************)
Undisturbed == changes = began /\ owner # NoId

NameRead ==
    pc \in {"host", "pid", "comm", "proc"} /\ Undisturbed /\ SaysItsName(program[owner])
    => rec.name = program[owner].comm /\ rec.name # NoName

HostRead ==
    pc \in {"pid", "comm", "proc"} /\ Undisturbed
    => rec.host = IF program[owner].host # "none" THEN program[owner].host
                  ELSE root.host

PidRead ==
    pc \in {"comm", "proc"} /\ Undisturbed
    => rec.pid = IF \/ program[owner].pid = "net"
                    \/ program[owner].pid = "own" /\ OwnPid(rec.name)
                 THEN owner ELSE root.pid

\* What the record comes to at the end of the search, if nothing changes.
Rest(place, r) ==
    CASE place = "any" -> Checked(ProcAny(r))
      [] place = "check" -> Checked(r)
      [] OTHER -> r

Known ==
    /\ pc \in {"any", "check", "class", "ops", "publish"}
    /\ Undisturbed /\ Identifiable(owner)
    => /\ Rest(pc, rec).name = program[owner].comm
       /\ Rest(pc, rec).pid = owner /\ Rest(pc, rec).argv
       /\ pc = "publish" => rec.ops = PluginOf(rec.name)

IdentifyInv ==
    DetectInv /\ TypeInv /\ NameRead /\ HostRead /\ PidRead /\ Known

\* Alone, a manager is the one process of /proc with its name or a known one.
LEMMA AloneIsListed ==
  ASSUME Typed, owner # NoId, Alone(owner), program[owner].here,
         ~program[owner].remote, NEW names
  PROVE  /\ program[owner].comm \in names =>
               Listed(names) # {} /\ First(Listed(names)) = owner
         /\ program[owner].comm \notin names => Listed(names) = {}
<1>1. owner \in alive
  BY DEF Typed
<1>2. Listed(names) \subseteq {owner}
  BY DEF Listed, Alone
<1>3. program[owner].comm \in names => Listed(names) = {owner}
  BY <1>1, <1>2 DEF Listed
<1>4. Listed(names) # {} => First(Listed(names)) \in Listed(names)
  BY ListedIs
<1>5. program[owner].comm \notin names => owner \notin Listed(names)
  BY DEF Listed
<1> QED
  BY <1>2, <1>3, <1>4, <1>5

\* check_proc of the manager finds its arguments.
LEMMA CheckedFinds ==
  ASSUME Typed, owner # NoId, ~program[owner].remote,
         NEW r, r = Fields(r), r.pid = owner, r.name # NoName, ~Elsewhere(r.host)
  PROVE  /\ Checked(r).name = r.name /\ Checked(r).pid = owner
         /\ Checked(r).argv
<1> DEFINE local == r.pid \in alive /\ ~program[r.pid].remote
<1>1. \E host : Checked(r) = [r EXCEPT !.argv = local, !.host = host]
  BY DEF Checked
<1>2. local
  BY DEF Typed
<1> HIDE DEF local
<1> QED
  BY <1>1, <1>2 DEF Fields

\* What find_wm_proc makes of a manager that can be identified.
LEMMA ProcOnTrack ==
  ASSUME IdentifyInv, pc = "proc", Undisturbed, Identifiable(owner), FindProc
  PROVE  \E q \in {Checked(rec'), Checked(ProcAny(rec'))} :
            /\ \/ pc' = "check" /\ q = Checked(rec')
               \/ pc' = "any" /\ q = Checked(ProcAny(rec'))
            /\ q.name = program[owner].comm /\ q.pid = owner /\ q.argv
<1> DEFINE p == program[owner]
<1>0. /\ rec' = ByName(rec)
      /\ pc' = CASE Elsewhere(rec.host) -> "class"
                 [] rec.name = NoName /\ rec.pid # NoId -> "class"
                 [] ByName(rec).pid # NoId -> "check"
                 [] OTHER -> "any"
  BY DEF FindProc, Step
<1>1. /\ Typed /\ Posted /\ owner # NoId /\ rec = Fields(rec)
      /\ rec.host = IF p.host # "none" THEN p.host ELSE root.host
      /\ rec.pid = IF p.pid = "net" \/ (p.pid = "own" /\ OwnPid(rec.name))
                   THEN owner ELSE root.pid
      /\ SaysItsName(p) => rec.name = p.comm /\ rec.name # NoName
  BY DEF IdentifyInv, TypeInv, Recorded, NameRead, HostRead, PidRead, Undisturbed
<1>2. ~p.remote /\ ~Elsewhere(rec.host)
  BY <1>1 DEF Identifiable, Elsewhere
<1>3. CASE rec.name = p.comm /\ rec.name # NoName /\ rec.pid = owner
  <2>1. ByName(rec) = rec
    BY <1>1, <1>3 DEF ByName
  <2>2. pc' = "check"
    BY <1>0, <1>1, <1>2, <1>3, <2>1
  <2> QED
    BY <1>0, <1>1, <1>2, <1>3, <2>1, <2>2, CheckedFinds
<1>4. CASE rec.name = p.comm /\ rec.name # NoName /\ rec.pid = NoId
            /\ Alone(owner) /\ p.here
  <2>1. ByName(rec) = [rec EXCEPT !.pid = owner]
    <3> DEFINE names == {rec.name}
    <3>1. ByName(rec) = IF Listed(names) = {} THEN rec
                        ELSE [rec EXCEPT !.pid = First(Listed(names))]
      BY <1>2, <1>4 DEF ByName
    <3>2. p.comm \in names
      BY <1>4
    <3> HIDE DEF names
    <3> QED
      BY <1>1, <1>2, <1>4, <3>1, <3>2, AloneIsListed
  <2>3. /\ ByName(rec) = Fields(ByName(rec)) /\ ByName(rec).pid = owner
        /\ ByName(rec).name = rec.name /\ ByName(rec).host = rec.host
    BY <1>1, <2>1 DEF Fields
  <2>4. pc' = "check"
    BY <1>0, <1>1, <1>2, <1>4, <2>3
  <2> QED
    BY <1>0, <1>1, <1>2, <1>4, <2>3, <2>4, CheckedFinds
<1>5. CASE /\ p.pid = "none" /\ p.host = "none" /\ p.comm \in wm_list
           /\ Alone(owner) /\ p.here /\ [root EXCEPT !.name = NoName] = BareRoot
  <2>1. root.host = "none" /\ root.pid = NoId
    BY <1>1, <1>5 DEF Posted, BareRoot
  <2>2. rec.host = "none" /\ rec.pid = NoId /\ p.comm # NoName
    BY <1>1, <1>5, <2>1 DEF wm_list, NoName
  <2>3. PICK any : any = ProcAny(rec) /\ any = [rec EXCEPT !.pid = owner, !.name = p.comm]
    BY <1>1, <1>2, <1>5, <2>2, AloneIsListed DEF ProcAny
  <2>4. /\ any = Fields(any) /\ any.pid = owner /\ any.name = p.comm
        /\ any.host = rec.host
    <3>1. rec = Fields(rec) /\ any = [rec EXCEPT !.pid = owner, !.name = p.comm]
      BY <1>1, <2>3
    <3> QED
      BY <3>1 DEF Fields
  <2>5. CASE rec.name = p.comm
    BY <1>4, <1>5, <2>2, <2>5
  <2>6. CASE rec.name # p.comm
    <3>1. ByName(rec) = rec
      <4> DEFINE names == {rec.name}
      <4>1. Listed(names) = {} => ByName(rec) = rec
        BY DEF ByName
      <4>2. p.comm \notin names
        BY <2>6
      <4> HIDE DEF names
      <4> QED
        BY <1>1, <1>2, <1>5, <4>1, <4>2, AloneIsListed
    <3>2. pc' = "any" /\ any = ProcAny(rec')
      BY <1>0, <1>2, <2>2, <2>3, <3>1
    <3> QED
      BY <1>1, <1>2, <2>2, <2>4, <3>2, CheckedFinds
  <2> QED
    BY <2>5, <2>6
<1>6. CASE SaysItsName(p) /\ SaysItsPid(p)
  <2>1. rec.pid = owner
    BY <1>1, <1>6 DEF SaysItsPid
  <2> QED
    BY <1>1, <1>3, <1>6, <2>1
<1>7. CASE SaysItsName(p) /\ Alone(owner) /\ p.here /\ root.pid \in {NoId, owner}
  <2>1. rec.pid \in {NoId, owner}
    BY <1>1, <1>7
  <2> QED
    BY <1>1, <1>3, <1>4, <1>7, <2>1
<1> QED
  BY <1>5, <1>6, <1>7 DEF Identifiable

\* The walks of /proc and check_proc see the same when nothing changes.
LEMMA RestSteady ==
  ASSUME UNCHANGED <<program, alive>>
  PROVE  /\ Checked(rec)' = Checked(rec')
         /\ Checked(ProcAny(rec))' = Checked(ProcAny(rec'))
<1>1. \A names : Listed(names)' = Listed(names)
  BY DEF Listed
<1>2. ProcAny(rec)' = ProcAny(rec')
  BY <1>1 DEF ProcAny
<1>3. Checked(rec)' = Checked(rec')
  BY DEF Checked
<1>4. Checked(ProcAny(rec))' = Checked(ProcAny(rec'))
  BY <1>2 DEF Checked
<1> QED
  BY <1>3, <1>4

\* The windows of a manager that stays say what it says.
LEMMA SaysOwner ==
  ASSUME DetectInv, Undisturbed, pc \in During
  PROVE  /\ seen = owner
         /\ \A field, otherwise : Says(field, otherwise) = program[owner][field]
BY DEF DetectInv, Steady, Undisturbed, Says

LEMMA NameIsRead ==
  ASSUME DetectInv, TypeInv, Undisturbed, pc = "name", SaysItsName(program[owner])
  PROVE  /\ Renamed(CheckName) = program[owner].comm
         /\ Renamed(CheckName) # NoName
<1> DEFINE word == FirstWord(program[owner].texts)
<1>1. Says("texts", Untitled) = program[owner].texts
  BY SaysOwner DEF During
<1>2. word # NoName /\ Corrected(word) = program[owner].comm
  BY DEF SaysItsName
<1>3. CheckName = word
  <2> DEFINE third == IF rec.win # NoId \/ rec.motif THEN root.command ELSE NoName
             places == <<FirstWord(Says("texts", Untitled)), CommandSays, third,
                         RootSays("name"), RootSays("class"), RootSays("command")>>
  <2>1. CheckName = FirstSaid(NoName, places)
    BY DEF CheckName
  <2>2. places[1] = word /\ DOMAIN places = 1..6
    BY <1>1
  <2> HIDE DEF places, word
  <2> QED
    BY <1>2, <2>1, <2>2, FirstSaidIs
<1> HIDE DEF word
<1>4. Renamed(word) = Corrected(word)
  BY <1>2 DEF Renamed
<1>5. Corrected(word) # NoName
  BY <1>2 DEF Corrected, NoName
<1> QED
  BY <1>2, <1>3, <1>4, <1>5

\* A step of the check changes nothing but the record: what the properties
\* depend on besides stays as it is.
LEMMA StepSteady ==
  ASSUME NEW from, NEW to, Step(from, to)
  PROVE  /\ pc = from /\ pc' = to
         /\ UNCHANGED <<program, alive, owner, changes, began, root>>
         /\ Undisturbed' <=> Undisturbed
         /\ SaysItsName(program[owner])' <=> SaysItsName(program[owner])
         /\ Identifiable(owner)' <=> Identifiable(owner)
<1>1. /\ pc = from /\ pc' = to
      /\ UNCHANGED <<program, alive, owner, changes, began, root>>
  BY DEF Step, worldVars
<1> QED
  BY <1>1 DEF Undisturbed, SaysItsName, Identifiable, Alone

LEMMA WindowsIdentify ==
  ASSUME IdentifyInv, FindComp \/ FindName \/ FindHost \/ FindPid \/ FindComm
  PROVE  NameRead' /\ HostRead' /\ PidRead' /\ Known'
<1>0. rec = Fields(rec)
  BY DEF IdentifyInv, TypeInv, Recorded
<1>1. CASE FindComp
  <2>1. /\ owner' = owner /\ pc' \in {"name", "publish"}
        /\ pc' = "publish" => owner = NoId
    BY <1>1 DEF FindComp, Step, worldVars
  <2> QED
    BY <2>1 DEF NameRead, HostRead, PidRead, Known, Undisturbed
<1>2. CASE FindName
  <2>1. Step("name", "host") /\ rec' = [rec EXCEPT !.name = Renamed(CheckName)]
    BY <1>2 DEF FindName
  <2>2. rec'.name = Renamed(CheckName)
    BY <1>0, <2>1 DEF Fields
  <2>3. NameRead'
    BY <2>1, <2>2, StepSteady, NameIsRead DEF NameRead, IdentifyInv
  <2> QED
    BY <2>1, <2>3, StepSteady DEF HostRead, PidRead, Known
<1>3. CASE FindHost
  <2> DEFINE host == IF Says("host", "none") # "none" THEN Says("host", "none")
                     ELSE RootSays("host")
  <2>1. Step("host", "pid") /\ rec' = [rec EXCEPT !.host = host]
    BY <1>3 DEF FindHost
  <2>2. Undisturbed => /\ Says("host", "none") = program[owner].host
                       /\ RootSays("host") = root.host
    BY <2>1, SaysOwner DEF IdentifyInv, Step, During, RootSays, Undisturbed
  <2>3. Undisturbed => host = IF program[owner].host # "none"
                              THEN program[owner].host ELSE root.host
    BY <2>2
  <2> HIDE DEF host
  <2>4. rec'.host = host /\ rec'.name = rec.name
    BY <1>0, <2>1 DEF Fields
  <2>5. NameRead' /\ HostRead'
    BY <2>1, <2>3, <2>4, StepSteady DEF NameRead, HostRead, IdentifyInv
  <2> QED
    BY <2>1, <2>5, StepSteady DEF PidRead, Known
<1>4. CASE FindPid
  <2> DEFINE given == Says("pid", "none")
             pid == IF given = "net" \/ (given = "own" /\ OwnPid(rec.name))
                    THEN seen ELSE RootSays("pid")
  <2>1. Step("pid", "comm") /\ rec' = [rec EXCEPT !.pid = pid]
    BY <1>4 DEF FindPid
  <2>2. Undisturbed => /\ given = program[owner].pid /\ seen = owner
                       /\ RootSays("pid") = root.pid
    BY <2>1, SaysOwner DEF IdentifyInv, Step, During, RootSays, Undisturbed
  <2>3. Undisturbed => pid = IF \/ program[owner].pid = "net"
                                \/ program[owner].pid = "own" /\ OwnPid(rec.name)
                             THEN owner ELSE root.pid
    BY <2>2
  <2> HIDE DEF pid
  <2>4. rec'.host = rec.host /\ rec'.name = rec.name /\ rec'.pid = pid
    BY <1>0, <2>1 DEF Fields
  <2>5. NameRead' /\ HostRead' /\ PidRead'
    BY <2>1, <2>3, <2>4, StepSteady DEF NameRead, HostRead, PidRead, IdentifyInv, OwnPid
  <2> QED
    BY <2>1, <2>5, StepSteady DEF Known
<1>5. CASE FindComm
  <2>1. PICK command :
          Step("comm", "proc") /\ rec' = [rec EXCEPT !.command = command]
    BY <1>5 DEF FindComm
  <2>2. rec'.host = rec.host /\ rec'.name = rec.name /\ rec'.pid = rec.pid
    BY <1>0, <2>1 DEF Fields
  <2>3. NameRead' /\ HostRead' /\ PidRead'
    BY <2>1, <2>2, StepSteady DEF NameRead, HostRead, PidRead, IdentifyInv, OwnPid
  <2> QED
    BY <2>1, <2>3, StepSteady DEF Known
<1> QED
  BY <1>1, <1>2, <1>3, <1>4, <1>5

LEMMA ProcIdentifies ==
  ASSUME IdentifyInv, FindProc \/ FindAny \/ CheckProc \/ FindClass \/ GetOps
  PROVE  NameRead' /\ HostRead' /\ PidRead' /\ Known'
<1>0. rec = Fields(rec)
  BY DEF IdentifyInv, TypeInv, Recorded
<1>1. CASE FindProc
  <2>1. PICK to \in {"any", "check", "class"} : Step("proc", to)
    BY <1>1 DEF FindProc
  <2>2. Known'
    <3> SUFFICES ASSUME Undisturbed, Identifiable(owner)
                 PROVE  /\ pc' \in {"any", "check"}
                        /\ (Rest(pc, rec).name)' = program[owner].comm
                        /\ (Rest(pc, rec).pid)' = owner /\ (Rest(pc, rec).argv)'
      BY <2>1, StepSteady DEF Known
    <3>1. PICK q \in {Checked(rec'), Checked(ProcAny(rec'))} :
            /\ \/ pc' = "check" /\ q = Checked(rec')
               \/ pc' = "any" /\ q = Checked(ProcAny(rec'))
            /\ q.name = program[owner].comm /\ q.pid = owner /\ q.argv
      BY <1>1, <2>1, ProcOnTrack DEF Step
    <3>2. Rest(pc, rec)' = q
      BY <2>1, <3>1, StepSteady, RestSteady DEF Rest
    <3> QED
      BY <3>1, <3>2
  <2> QED
    BY <2>1, <2>2, StepSteady DEF NameRead, HostRead, PidRead
<1>4. CASE FindAny
  <2>1. PICK to \in {"check", "class"} : Step("any", to)
    BY <1>4 DEF FindAny
  <2>2. rec' = ProcAny(rec) /\ to = IF ProcAny(rec).pid # NoId THEN "check" ELSE "class"
    BY <1>4, <2>1 DEF FindAny, Step
  <2>3. Known'
    <3> SUFFICES ASSUME Undisturbed, Identifiable(owner)
                 PROVE  /\ pc' = "check"
                        /\ (Rest(pc, rec).name)' = program[owner].comm
                        /\ (Rest(pc, rec).pid)' = owner /\ (Rest(pc, rec).argv)'
      BY <2>1, StepSteady DEF Known
    <3>1. PICK q : q = Checked(ProcAny(rec))
      OBVIOUS
    <3>2. q.name = program[owner].comm /\ q.pid = owner /\ q.argv
      BY <2>1, <3>1 DEF IdentifyInv, Known, Rest, Step
    <3>3. ProcAny(rec).pid # NoId
      BY <3>1, <3>2 DEF Checked, Undisturbed
    <3>4. pc' = "check"
      BY <2>1, <2>2, <3>3 DEF Step
    <3>5. Rest(pc, rec)' = q
      BY <2>1, <2>2, <3>1, <3>4, StepSteady, RestSteady DEF Rest
    <3> QED
      BY <3>2, <3>4, <3>5
  <2> QED
    BY <2>1, <2>3, StepSteady DEF NameRead, HostRead, PidRead
<1>5. CASE CheckProc
  <2>1. Step("check", "class") /\ rec' = Checked(rec)
    BY <1>5 DEF CheckProc
  <2>2. Known'
    <3>1. pc = "check" /\ pc' = "class"
      BY <2>1 DEF Step
    <3>2. Rest(pc, rec) = Checked(rec) /\ Rest(pc, rec)' = rec'
      BY <3>1 DEF Rest
    <3> QED
      BY <2>1, <3>1, <3>2, StepSteady DEF Known, IdentifyInv
  <2> QED
    BY <2>1, <2>2, StepSteady DEF NameRead, HostRead, PidRead
<1>2. CASE FindClass
  <2>1. PICK class : Step("class", "ops") /\ rec' = [rec EXCEPT !.class = class]
    BY <1>2 DEF FindClass
  <2>2. rec'.name = rec.name /\ rec'.pid = rec.pid /\ rec'.argv = rec.argv
    BY <1>0, <2>1 DEF Fields
  <2>3. Known'
    BY <2>1, <2>2, StepSteady DEF Known, Rest, IdentifyInv
  <2> QED
    BY <2>1, <2>3, StepSteady DEF NameRead, HostRead, PidRead
<1>3. CASE GetOps
  <2>1. Step("ops", "publish") /\ rec' = [rec EXCEPT !.ops = PluginOf(rec.name)]
    BY <1>3 DEF GetOps
  <2>2. /\ rec'.name = rec.name /\ rec'.pid = rec.pid /\ rec'.argv = rec.argv
        /\ rec'.ops = PluginOf(rec'.name)
    BY <1>0, <2>1 DEF Fields
  <2>3. Known'
    BY <2>1, <2>2, StepSteady DEF Known, Rest, IdentifyInv
  <2> QED
    BY <2>1, <2>3, StepSteady DEF NameRead, HostRead, PidRead
<1> QED
  BY <1>1, <1>2, <1>3, <1>4, <1>5

LEMMA IdentifyNext == IdentifyInv /\ [Next]_vars => IdentifyInv'
<1> SUFFICES ASSUME IdentifyInv, [Next]_vars
             PROVE  NameRead' /\ HostRead' /\ PidRead' /\ Known'
  BY DetectNext, TypesNext DEF IdentifyInv
<1>1. CASE UNCHANGED vars
  BY <1>1, RestSteady DEF vars, worldVars, checkVars, IdentifyInv, NameRead, HostRead,
     PidRead, Known, Rest, Undisturbed, SaysItsName, Identifiable, Alone
<1>2. ASSUME NEW i \in Ids, End(i) \/ \E p \in Later : Start(i, p)
      PROVE  NameRead' /\ HostRead' /\ PidRead' /\ Known'
  <2>1. changes' = changes + 1 /\ began' = began
    BY <1>2 DEF End, Start, Change, checkVars
  <2>2. changes' # began'
    BY <2>1 DEF IdentifyInv, DetectInv, World
  <2> QED
    BY <2>2 DEF NameRead, HostRead, PidRead, Known, Undisturbed
<1>3. CASE Publish \/ Recheck
  <2>1. pc' \in {"done", "comp"}
    BY <1>3 DEF Publish, Recheck
  <2> QED
    BY <2>1 DEF NameRead, HostRead, PidRead, Known
<1> QED
  BY <1>1, <1>2, <1>3, WindowsIdentify, ProcIdentifies DEF Next

\* A check during which no manager starts, resigns or ends gives a manager
\* that can be identified its own name, process, arguments and operations, for
\* any programs, whatever lingers and whatever earlier checks have published.
THEOREM OwnPlugin == Spec => []Identified
<1>1. Init => IdentifyInv
  BY DetectInit, TypesInit DEF Init, IdentifyInv, NameRead, HostRead, PidRead, Known
<1>2. IdentifyInv => Identified
  BY DEF IdentifyInv, Known, Rest, Identified, Undisturbed
<1> QED
  BY <1>1, <1>2, IdentifyNext, PTL DEF Spec

=============================================================================
