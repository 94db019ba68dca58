--------------------------- MODULE WmTrackingProofs ---------------------------
(***************************************************************************)
(* What is proved of WmTracking for any number of screens, managers and    *)
(* records: every variable keeps its type, the references to each record   *)
(* are counted right, a process has one record, and the process the root   *)
(* names is that of the record; and that nothing is missed: on one screen, *)
(* what the library has is what is there, unless something is on its way.  *)
(***************************************************************************)
EXTENDS WmTracking, FiniteSetTheorems, TLAPS

TrackInv == TypeOK /\ RefsExact /\ OneRecordPerProcess /\ PublishedIsTracked

Users(r) == {s \in Screens : tracked[s] = r}

\* The screens are as many as NScreens says.
LEMMA ScreensFinite == IsFiniteSet(Screens) /\ Cardinality(Screens) = NScreens
<1>1. NScreens \in Nat /\ 0 \in Int /\ NScreens - 1 \in Int /\ ~(0 > NScreens - 1)
  BY TrackingAssumption DEF TrackingAssumption
<1>2. /\ IsFiniteSet(0..(NScreens - 1))
      /\ Cardinality(0..(NScreens - 1))
            = IF 0 > NScreens - 1 THEN 0 ELSE NScreens - 1 - 0 + 1
  BY <1>1, FS_Interval
<1> QED
  BY <1>1, <1>2 DEF Screens

\* So are the screens that share a record.
LEMMA SubsetFinite ==
  ASSUME NEW T \in SUBSET Screens
  PROVE  IsFiniteSet(T) /\ Cardinality(T) \in Nat
BY ScreensFinite, FS_Subset, FS_CardinalityType

\* Some screen is the last of any that there are.
LEMMA LastOf ==
  ASSUME NEW T \in SUBSET Screens, T # {}
  PROVE  \E t \in T : \A u \in T : u <= t
<1> DEFINE Less  == OpToRel(<, Nat)
           After == {n \in Nat : NScreens - n \in T}
<1>1. \A t \in T : t \in Int /\ NScreens - t \in After
  BY TrackingAssumption DEF TrackingAssumption, Screens
<1>2. After # {} /\ After \subseteq Nat
  BY <1>1
<1>3. \E n \in After : \A m \in After : ~(<<m, n>> \in Less)
  <2> HIDE DEF After, Less
  <2>1. IsWellFoundedOn(Less, Nat)
    BY NatLessThanWellFounded DEF Less
  <2> QED
    BY <1>2, <2>1, WFMin
<1>4. PICK n \in After : \A m \in After : ~(<<m, n>> \in Less)
  BY <1>3
<1>5. \A m \in After : ~(m < n)
  BY <1>4, <1>2 DEF OpToRel
<1>6. NScreens - n \in T /\ n \in Nat
  BY <1>4
<1>7. ASSUME NEW u \in T PROVE u <= NScreens - n
  <2>1. NScreens - u \in After /\ u \in Int
    BY <1>1
  <2>2. ~(NScreens - u < n)
    BY <2>1, <1>5
  <2> QED
    BY <2>1, <2>2, <1>6, TrackingAssumption DEF TrackingAssumption
<1> QED
  BY <1>6, <1>7

\* There are more records than screens, so one is free.
LEMMA FreshIsFree ==
  ASSUME TypeOK, RefsExact
  PROVE  /\ Fresh \in Records
         /\ heap[Fresh].refs = 0
         /\ \A s \in Screens : tracked[s] # Fresh
<1>1. \E r \in Records : \A s \in Screens : tracked[s] # r
  <2> SUFFICES ASSUME \A r \in Records : \E s \in Screens : tracked[s] = r
               PROVE  FALSE
    OBVIOUS
  <2> DEFINE user == [r \in Records |-> CHOOSE s \in Screens : tracked[s] = r]
  <2>1. user \in [Records -> Screens]
    OBVIOUS
  <2>2. \A r \in Records : tracked[user[r]] = r
    OBVIOUS
  <2>3. \E q, r \in Records : q # r /\ user[q] = user[r]
    <3> HIDE DEF user
    <3>1. /\ IsFiniteSet(Records)
          /\ Cardinality(Screens) < Cardinality(Records)
      BY ScreensFinite, FS_CardinalityType, TrackingAssumption DEF TrackingAssumption
    <3> QED
      BY <3>1, <2>1, ScreensFinite, FS_PigeonHole
  <2> QED
    BY <2>2, <2>3
<1>2. PICK r \in Records : \A s \in Screens : tracked[s] # r
  BY <1>1
<1>3. heap[r].refs = 0
  <2>1. Users(r) = {}
    BY <1>2 DEF Users
  <2> QED
    BY <2>1, FS_EmptySet DEF RefsExact, Users
<1>4. Fresh \in Records /\ heap[Fresh].refs = 0
  BY <1>3 DEF Fresh
<1>5. Users(Fresh) = {}
  <2>1. Cardinality(Users(Fresh)) = 0
    BY <1>4 DEF RefsExact, Users
  <2>2. IsFiniteSet(Users(Fresh))
    BY SubsetFinite DEF Users
  <2> QED
    BY <2>1, <2>2, FS_EmptySet
<1> QED
  BY <1>4, <1>5 DEF Users

(***************************************************************************)
(* The check.                                                              *)
(***************************************************************************)
Shares(s, t) == t \in Twins(s) /\ Checked(s) = tracked[t]

\* A check ends with no record, with that of another screen, or with one that
\* no screen has.
LEMMA CheckedIs ==
  ASSUME TypeOK, RefsExact, NEW s \in Screens
  PROVE  \/ Checked(s) = NoRecord /\ Twins(s) = {}
         \/ \E t \in Screens : Shares(s, t)
         \/ /\ Twins(s) = {}
            /\ Checked(s) \in Records
            /\ \A t \in Screens : tracked[t] # Checked(s)
<1>1. CASE ~Found(s)
  BY <1>1 DEF Found, Twins, Checked
<1>2. CASE Found(s) /\ Twins(s) # {}
  <2> DEFINE last == CHOOSE t \in Twins(s) : \A u \in Twins(s) : u <= t
  <2>1. last \in Twins(s)
    <3>1. Twins(s) \in SUBSET Screens
      BY DEF Twins
    <3>2. \E t \in Twins(s) : \A u \in Twins(s) : u <= t
      BY <1>2, <3>1, LastOf
    <3> QED
      BY <3>2
  <2>2. Checked(s) = tracked[last]
    BY <1>2 DEF Checked
  <2>3. last \in Screens
    BY <2>1 DEF Twins
  <2> HIDE DEF last
  <2> QED
    BY <2>1, <2>2, <2>3 DEF Shares
<1>3. CASE Found(s) /\ Twins(s) = {}
  <2>1. Checked(s) = Fresh
    BY <1>3 DEF Checked
  <2> QED
    BY <1>3, <2>1, FreshIsFree
<1> QED
  BY <1>1, <1>2, <1>3

\* The record of the check is a record or none.
LEMMA CheckedType ==
  ASSUME TypeOK, RefsExact, NEW s \in Screens
  PROVE  Checked(s) \in Records \cup {NoRecord}
<1>1. \A t \in Screens : tracked[t] \in Records \cup {NoRecord}
  BY DEF TypeOK
<1> QED
  BY <1>1, CheckedIs DEF Shares

\* Only the record that was free is filled in, with the process of the screen.
LEMMA Filled ==
  ASSUME TypeOK, NEW s \in Screens, NEW r \in Records
  PROVE  /\ HeapAfter(s)[r].refs = RefsAfter(r, s)
         /\ HeapAfter(s)[r].pid = IF r = Checked(s) /\ Twins(s) = {}
                                  THEN manager[s] ELSE heap[r].pid
         /\ HeapAfter(s)[r].win = IF r = Checked(s) /\ Twins(s) = {}
                                  THEN root[s] ELSE heap[r].win
BY DEF HeapAfter, TypeOK

\* What the check leaves is well typed.
LEMMA RecheckTyped ==
  ASSUME TypeOK, RefsExact, NEW s \in Screens, Recheck(s)
  PROVE  /\ tracked' \in [Screens -> Records \cup {NoRecord}]
         /\ heap' \in [Records -> [refs : Int, win : Window \cup {None},
                                   pid : Processes \cup {Nobody}]]
         /\ wire' \in Seq(Event)
         /\ waiting' \in Screens \cup {NoScreen}
         /\ published' \in [Screens -> [win : Window \cup {None},
                                        pid : Processes \cup {Nobody}]]
<1> DEFINE Slot == [refs : Int, win : Window \cup {None}, pid : Processes \cup {Nobody}]
<1>1. tracked' \in [Screens -> Records \cup {NoRecord}]
  BY CheckedType DEF Recheck, TypeOK
<1>2. heap' \in [Records -> Slot]
  <2>1. ASSUME NEW r \in Records PROVE heap[r] \in Slot /\ RefsAfter(r, s) \in Int
    BY DEF TypeOK, RefsAfter
  <2>2. [refs |-> 0, win |-> root[s], pid |-> manager[s]] \in Slot
    BY DEF TypeOK
  <2>3. ASSUME NEW r \in Records
        PROVE  /\ [refs |-> RefsAfter(r, s), win |-> root[s], pid |-> manager[s]] \in Slot
               /\ [heap[r] EXCEPT !.refs = RefsAfter(r, s)] \in Slot
    BY <2>1, <2>2
  <2>4. HeapAfter(s) \in [Records -> Slot]
    BY <2>3 DEF HeapAfter
  <2> QED
    BY <2>4 DEF Recheck
<1>3. \A r \in Records \cup {NoRecord} :
         Contents(heap', r) \in [win : Window \cup {None}, pid : Processes \cup {Nobody}]
  BY <1>2 DEF Contents, Nothing
<1>4. /\ wire' \in Seq(Event)
      /\ published' \in [Screens -> [win : Window \cup {None}, pid : Processes \cup {Nobody}]]
  <2>1. NameNotify(s) \in Event
    BY DEF NameNotify, Event
  <2>2. Contents(HeapAfter(s), Checked(s))
           \in [win : Window \cup {None}, pid : Processes \cup {Nobody}]
    BY <1>3, CheckedType DEF Recheck
  <2>3. /\ wire' = wire \/ wire' = Append(wire, NameNotify(s))
        /\ \/ published' = published
           \/ published' = [published EXCEPT ![s] = Contents(HeapAfter(s), Checked(s))]
    BY DEF Recheck, Publish
  <2>4. wire' \in Seq(Event)
    <3>1. wire \in Seq(Event)
      BY DEF TypeOK
    <3> QED
      BY <2>1, <2>3, <3>1
  <2> HIDE DEF Contents
  <2> QED
    BY <2>2, <2>3, <2>4 DEF TypeOK
<1>5. waiting' \in Screens \cup {NoScreen}
  BY DEF Recheck, AskCheck, TypeOK
<1> QED
  BY <1>1, <1>2, <1>4, <1>5

\* The reference that the screen takes and the one it drops are all that
\* changes in the counts.
LEMMA RecheckCounts ==
  ASSUME TypeOK, RefsExact, NEW s \in Screens, Recheck(s)
  PROVE  RefsExact'
<1> SUFFICES ASSUME NEW r \in Records
             PROVE  heap'[r].refs = Cardinality(Users(r)')
  BY DEF RefsExact, Users
<1> DEFINE new == Checked(s)
           old == tracked[s]
<1>1. heap'[r].refs = RefsAfter(r, s)
  BY Filled DEF Recheck
<1>2. heap[r].refs = Cardinality(Users(r)) /\ IsFiniteSet(Users(r))
      /\ Cardinality(Users(r)) \in Nat
  BY SubsetFinite DEF RefsExact, Users
<1>3. \A t \in Screens : tracked'[t] = IF t = s THEN new ELSE tracked[t]
  BY DEF Recheck, TypeOK
<1>4. CASE r = new /\ r = old
  <2>1. Users(r)' = Users(r)
    BY <1>3, <1>4 DEF Users
  <2> QED
    BY <1>1, <1>2, <1>4, <2>1 DEF RefsAfter
<1>5. CASE r = new /\ r # old
  <2>1. Users(r)' = Users(r) \cup {s} /\ s \notin Users(r)
    BY <1>3, <1>5 DEF Users
  <2>2. Cardinality(Users(r) \cup {s}) = Cardinality(Users(r)) + 1
    BY <1>2, <2>1, FS_AddElement
  <2> QED
    BY <1>1, <1>2, <1>5, <2>1, <2>2 DEF RefsAfter
<1>6. CASE r # new /\ r = old
  <2>1. Users(r)' = Users(r) \ {s} /\ s \in Users(r)
    BY <1>3, <1>6 DEF Users
  <2>2. Cardinality(Users(r) \ {s}) = Cardinality(Users(r)) - 1
    BY <1>2, <2>1, FS_RemoveElement
  <2> QED
    BY <1>1, <1>2, <1>6, <2>1, <2>2 DEF RefsAfter
<1>7. CASE r # new /\ r # old
  <2>1. Users(r)' = Users(r)
    BY <1>3, <1>7 DEF Users
  <2> QED
    BY <1>1, <1>2, <1>7, <2>1 DEF RefsAfter
<1> QED
  BY <1>4, <1>5, <1>6, <1>7

\* A process found with a record elsewhere gets that one; a new record is for
\* a process that has none.
LEMMA RecheckOnce ==
  ASSUME TypeOK, RefsExact, OneRecordPerProcess, NEW s \in Screens, Recheck(s)
  PROVE  OneRecordPerProcess'
<1> DEFINE new == Checked(s)
           Named(u, p) == tracked[u] # NoRecord /\ heap[tracked[u]].pid = p
<1>1. /\ \A t \in Screens : tracked'[t] = IF t = s THEN new ELSE tracked[t]
      /\ heap' = HeapAfter(s)
      /\ \A t \in Screens : tracked[t] \in Records \cup {NoRecord}
  BY DEF Recheck, TypeOK
<1>2. ASSUME NEW t \in Screens, t # s, tracked[t] # NoRecord
      PROVE  heap'[tracked[t]].pid = heap[tracked[t]].pid
  <2>1. ~(tracked[t] = new /\ Twins(s) = {})
    BY <1>2, CheckedIs DEF Shares
  <2> QED
    BY <1>1, <1>2, <2>1, Filled
<1>3. ASSUME NEW t \in Screens, t # s, tracked[t] # NoRecord, new # NoRecord,
             heap'[new].pid = heap[tracked[t]].pid, heap'[new].pid # Nobody
      PROVE  new = tracked[t]
  <2>1. CASE Twins(s) = {}
    <3>1. new \in Records /\ heap'[new].pid = manager[s]
      BY <1>1, <1>3, <2>1, CheckedType, Filled
    <3> QED
      BY <1>3, <2>1, <3>1 DEF Twins
  <2>2. CASE Twins(s) # {}
    <3>1. PICK u \in Screens : Shares(s, u)
      BY <1>3, <2>2, CheckedIs
    <3>2. new \in Records /\ heap'[new].pid = heap[tracked[u]].pid
      BY <1>1, <1>3, <2>2, <3>1, CheckedType, Filled DEF Shares
    <3> QED
      BY <1>3, <3>1, <3>2 DEF Shares, OneRecordPerProcess
  <2> QED
    BY <2>1, <2>2
<1> SUFFICES ASSUME NEW t \in Screens, NEW u \in Screens,
                    tracked'[t] # NoRecord, tracked'[u] # NoRecord,
                    heap'[tracked'[t]].pid = heap'[tracked'[u]].pid,
                    heap'[tracked'[t]].pid # Nobody
             PROVE  tracked'[t] = tracked'[u]
  BY DEF OneRecordPerProcess
<1> HIDE DEF new
<1>4. CASE t # s /\ u # s
  BY <1>1, <1>2, <1>4 DEF OneRecordPerProcess
<1>5. CASE t = s /\ u # s
  BY <1>1, <1>2, <1>3, <1>5
<1>6. CASE t # s /\ u = s
  BY <1>1, <1>2, <1>3, <1>6
<1> QED
  BY <1>4, <1>5, <1>6

\* A check that publishes nothing has found the same process; one that fills
\* in a record fills in one that no other screen has.
LEMMA RecheckPublishes ==
  ASSUME TypeOK, RefsExact, PublishedIsTracked, NEW s \in Screens, Recheck(s)
  PROVE  PublishedIsTracked'
<1> DEFINE new == Checked(s)
           old == tracked[s]
<1>1. /\ \A t \in Screens : tracked'[t] = IF t = s THEN new ELSE tracked[t]
      /\ heap' = HeapAfter(s)
      /\ \A t \in Screens : tracked[t] \in Records \cup {NoRecord}
  BY DEF Recheck, TypeOK
<1>2. ASSUME NEW t \in Screens, tracked[t] # NoRecord
      PROVE  heap'[tracked[t]].pid = heap[tracked[t]].pid
  <2>1. ~(tracked[t] = new /\ Twins(s) = {})
    BY <1>2, CheckedIs DEF Shares
  <2> QED
    BY <1>1, <1>2, <2>1, Filled
<1>3. \A t \in Screens : Contents(heap', tracked[t]).pid = published[t].pid
  <2>1. ASSUME NEW t \in Screens
        PROVE  Contents(heap', tracked[t]).pid = Contents(heap, tracked[t]).pid
    BY <1>2 DEF Contents, Nothing
  <2> QED
    BY <2>1 DEF PublishedIsTracked
<1>4. CASE Changed(HeapAfter(s), old, new)
  <2>1. published' = [published EXCEPT ![s] = Contents(heap', new)]
    BY <1>4 DEF Recheck, Publish
  <2>2. \A t \in Screens : published'[t] = IF t = s THEN Contents(heap', new) ELSE published[t]
    BY <2>1 DEF TypeOK
  <2> QED
    BY <1>1, <1>3, <2>2 DEF PublishedIsTracked
<1>5. CASE ~Changed(HeapAfter(s), old, new)
  <2>1. published' = published
    BY <1>5 DEF Recheck
  <2>2. Contents(heap', old) = Contents(heap', new)
    BY <1>1, <1>5 DEF Changed
  <2> QED
    BY <1>1, <1>3, <2>1, <2>2 DEF PublishedIsTracked
<1> QED
  BY <1>4, <1>5

(***************************************************************************)
(* The steps.                                                              *)
(***************************************************************************)
\* None but a check touches the records' pids and counts, or who has them.
LEMMA NoCheck ==
  ASSUME TrackInv, UNCHANGED <<tracked, published>>,
         heap' \in [Records -> [refs : Int, win : Window \cup {None},
                               pid : Processes \cup {Nobody}]],
         \A r \in Records : heap'[r].refs = heap[r].refs /\ heap'[r].pid = heap[r].pid
  PROVE  RefsExact' /\ OneRecordPerProcess' /\ PublishedIsTracked'
<1>1. RefsExact'
  BY DEF TrackInv, RefsExact
<1>2. \A s \in Screens : tracked[s] \in Records \cup {NoRecord}
  BY DEF TrackInv, TypeOK
<1>3. OneRecordPerProcess'
  BY <1>2 DEF TrackInv, OneRecordPerProcess
<1>4. PublishedIsTracked'
  <2>1. ASSUME NEW s \in Screens
        PROVE  Contents(heap', tracked[s]).pid = Contents(heap, tracked[s]).pid
    BY <1>2 DEF Contents, Nothing
  <2> QED
    BY <2>1 DEF TrackInv, PublishedIsTracked
<1> QED
  BY <1>1, <1>3, <1>4

\* A step that leaves the library alone but sends it events keeps it all.
LEMMA OnlySends ==
  ASSUME TrackInv, UNCHANGED libVars, wire' \in Seq(Event),
         manager' \in [Screens -> Processes \cup {Nobody}],
         root' \in [Screens -> Window \cup {None}],
         created' \in Nat, changes' \in Nat
  PROVE  TrackInv'
<1>1. TypeOK'
  BY DEF TrackInv, TypeOK, libVars
<1>2. RefsExact' /\ OneRecordPerProcess' /\ PublishedIsTracked'
  <2>1. UNCHANGED <<tracked, published>> /\ heap' = heap
    BY DEF libVars
  <2>2. heap \in [Records -> [refs : Int, win : Window \cup {None},
                             pid : Processes \cup {Nobody}]]
    BY DEF TrackInv, TypeOK
  <2> QED
    BY <2>1, <2>2, NoCheck
<1> QED
  BY <1>1, <1>2 DEF TrackInv

\* What is sent for a set of events, in any order, are events.
LEMMA AnyOrder ==
  ASSUME NEW T, IsFiniteSet(T), T \subseteq Event, NEW q \in SetToSeqs(T)
  PROVE  q \in Seq(Event)
<1>1. Cardinality(T) \in Nat
  BY FS_CardinalityType
<1>2. q \in [1..Cardinality(T) -> T]
  BY DEF SetToSeqs
<1>3. q \in [1..Cardinality(T) -> Event]
  BY <1>2
<1> QED
  BY <1>1, <1>3

\* The events of the end of a process are finitely many.
LEMMA EndEvents ==
  ASSUME TypeOK, NEW p
  PROVE  /\ IsFiniteSet(Deleted(p)) /\ Deleted(p) \subseteq Event
         /\ IsFiniteSet(Destroyed(p)) /\ Destroyed(p) \subseteq Event
<1>1. IsFiniteSet(Managed(p)) /\ Managed(p) \subseteq Screens
  BY SubsetFinite DEF Managed
<1>2. Deleted(p) \subseteq Event
  BY <1>1 DEF Deleted, PropertyDelete, Event
<1>3. Destroyed(p) \subseteq Event
  BY <1>1 DEF Destroyed, DestroyNotify, Event, TypeOK
<1> DEFINE deletion == [s \in Managed(p) |-> PropertyDelete(s)]
           destruction == [s \in Managed(p) |-> DestroyNotify(root[s])]
<1>4. deletion \in Surjection(Managed(p), Deleted(p))
  BY DEF Surjection, Deleted
<1>5. destruction \in Surjection(Managed(p), Destroyed(p))
  BY DEF Surjection, Destroyed
<1> HIDE DEF deletion, destruction
<1> QED
  BY <1>1, <1>2, <1>3, <1>4, <1>5, FS_Surjection

\* The daemon starts with no record and nothing published.
LEMMA TrackInit == Init => TrackInv
<1> SUFFICES ASSUME Init PROVE TrackInv
  OBVIOUS
<1>1. TypeOK
  <2>1. root \in [Screens -> Window \cup {None}]
    BY DEF Init
  <2>2. /\ NScreens \in Nat /\ 0 \in Screens /\ 0 \in 0..NScreens
        /\ << >> \in Seq(Event) /\ << >> \in Seq(Screens)
    BY TrackingAssumption DEF TrackingAssumption, Screens
  <2> QED
    BY <2>1, <2>2 DEF Init, TypeOK, Nothing
<1>2. RefsExact
  <2>1. ASSUME NEW r \in Records
        PROVE  {s \in Screens : tracked[s] = r} = {}
    BY TrackingAssumption DEF TrackingAssumption, Init
  <2> QED
    BY <2>1, FS_EmptySet DEF Init, RefsExact
<1>3. OneRecordPerProcess /\ PublishedIsTracked
  BY DEF Init, OneRecordPerProcess, PublishedIsTracked, Contents, Nothing
<1> QED
  BY <1>1, <1>2, <1>3 DEF TrackInv

\* A check, on whichever screen, keeps it all.
LEMMA CheckKeeps ==
  ASSUME TrackInv, NEW s \in Screens, Recheck(s), UNCHANGED serverVars,
         starting' \in 0..NScreens, cur' \in Screens, ready' \in Seq(Screens)
  PROVE  TrackInv'
<1>1. TypeOK'
  BY RecheckTyped DEF TrackInv, TypeOK, serverVars
<1> QED
  BY <1>1, RecheckCounts, RecheckOnce, RecheckPublishes DEF TrackInv

\* The handler of an event keeps it all.
LEMMA HandlerKeeps ==
  ASSUME TrackInv, NEW type, Handling(type), cur' \in Screens,
         ready' \in Seq(Screens), waiting' \in Screens \cup {NoScreen},
         heap' \in [Records -> [refs : Int, win : Window \cup {None},
                               pid : Processes \cup {Nobody}]],
         \A r \in Records : heap'[r].refs = heap[r].refs /\ heap'[r].pid = heap[r].pid
  PROVE  TrackInv'
<1>1. wire' \in Seq(Event)
  BY DEF Handling, TrackInv, TypeOK
<1>2. TypeOK'
  BY <1>1 DEF Handling, TrackInv, TypeOK, serverVars
<1>3. UNCHANGED <<tracked, published>>
  BY DEF Handling
<1> QED
  BY <1>2, <1>3, NoCheck DEF TrackInv

\* Each step of the library keeps the invariant.
LEMMA LibraryKeeps == TrackInv /\ Library => TrackInv'
<1> SUFFICES ASSUME TrackInv, Library PROVE TrackInv'
  OBVIOUS
<1> DEFINE Slot == [refs : Int, win : Window \cup {None}, pid : Processes \cup {Nobody}]
<1>1. /\ cur \in Screens /\ ready \in Seq(Screens) /\ wire \in Seq(Event)
      /\ waiting \in Screens \cup {NoScreen} /\ starting \in 0..NScreens
      /\ heap \in [Records -> Slot] /\ TypeOK
  BY DEF TrackInv, TypeOK
<1>2. NScreens \in Nat /\ NScreens > 0
  BY TrackingAssumption DEF TrackingAssumption
<1>3. \A type : Handling(type) => Head(wire) \in Event /\ Head(wire).type = type
  BY <1>1 DEF Handling
<1>4. \A type \in {"PropertyNotify", "PropertyDelete", "NameNotify"} :
         Handling(type) => Head(wire).screen \in Screens
  BY <1>3 DEF Event
<1>5. CASE StartupCheck
  <2>1. starting \in Screens /\ starting' \in 0..NScreens
    BY <1>1, <1>2, <1>5 DEF StartupCheck, InLoop, Screens
  <2> QED
    BY <1>1, <1>5, <2>1, CheckKeeps DEF StartupCheck
<1>6. CASE CheckExpires
  <2>1. waiting \in Screens
    BY <1>1, <1>6 DEF CheckExpires
  <2>2. ready' \in Seq(Screens)
    BY <1>1, <1>6, <2>1 DEF CheckExpires
  <2>3. TypeOK'
    BY <1>1, <1>6, <2>2 DEF CheckExpires, TypeOK, serverVars
  <2>4. UNCHANGED <<tracked, published>> /\ heap' = heap
    BY <1>6 DEF CheckExpires
  <2>5. RefsExact' /\ OneRecordPerProcess' /\ PublishedIsTracked'
    BY <1>1, <2>4, NoCheck
  <2> QED
    BY <2>3, <2>5 DEF TrackInv
<1>7. CASE RunCheck
  <2>1. Head(ready) \in Screens /\ ready' \in Seq(Screens)
    BY <1>1, <1>7 DEF RunCheck
  <2> QED
    BY <1>1, <1>7, <2>1, CheckKeeps DEF RunCheck
<1>8. CASE HandleProperty
  <2>1. cur' \in Screens
    BY <1>4, <1>8 DEF HandleProperty
  <2>2. waiting' \in Screens \cup {NoScreen}
    BY <1>1, <1>8, <2>1 DEF HandleProperty, AskCheck
  <2> QED
    BY <1>1, <1>8, <2>1, <2>2, HandlerKeeps DEF HandleProperty
<1>9. CASE HandleDelete
  <2>1. cur' \in Screens
    BY <1>4, <1>9 DEF HandleDelete
  <2> QED
    BY <1>1, <1>9, <2>1, HandlerKeeps DEF HandleDelete
<1>10. CASE HandleName
  <2>1. cur' \in Screens
    BY <1>4, <1>10 DEF HandleName
  <2>2. waiting' \in Screens \cup {NoScreen}
    BY <1>1, <1>10, <2>1 DEF HandleName, AskCheck
  <2> QED
    BY <1>1, <1>10, <2>1, <2>2, HandlerKeeps DEF HandleName
<1>11. CASE HandleDestroy
  <2>1. \/ heap' = heap
        \/ heap' = [heap EXCEPT ![tracked[cur]].win = None]
    BY <1>11 DEF HandleDestroy
  <2>2. heap' \in [Records -> Slot]
    BY <1>1, <2>1
  <2>3. \A r \in Records : heap'[r].refs = heap[r].refs /\ heap'[r].pid = heap[r].pid
    BY <1>1, <2>1
  <2>4. waiting' \in Screens \cup {NoScreen}
    BY <1>1, <1>11 DEF HandleDestroy, AskCheck
  <2> QED
    BY <1>1, <1>11, <2>2, <2>3, <2>4, HandlerKeeps DEF HandleDestroy
<1>12. CASE HandleRecheck
  <2>1. ready' \in Seq(Screens)
    BY <1>1, <1>12 DEF HandleRecheck
  <2> QED
    BY <1>1, <1>12, <2>1, HandlerKeeps DEF HandleRecheck
<1> QED
  BY <1>5, <1>6, <1>7, <1>8, <1>9, <1>10, <1>11, <1>12 DEF Library

\* So does what managers and the user do.
LEMMA OutsideKeeps == TrackInv /\ Outside => TrackInv'
<1> SUFFICES ASSUME TrackInv, Outside PROVE TrackInv'
  OBVIOUS
<1>1. /\ manager \in [Screens -> Processes \cup {Nobody}]
      /\ root \in [Screens -> Window \cup {None}]
      /\ created \in Nat /\ changes \in Nat /\ wire \in Seq(Event) /\ TypeOK
  BY DEF TrackInv, TypeOK
<1>2. Change => changes' \in Nat /\ UNCHANGED libVars
  BY <1>1 DEF Change
<1>3. created < MaxWindows => created + 1 \in Window /\ created + 1 \in Nat
  BY <1>1, TrackingAssumption DEF TrackingAssumption, Window
<1>4. ASSUME NEW p \in Processes, NEW s \in Screens, Appear(p, s)
      PROVE  TrackInv'
  <2>1. PropertyNew(s) \in Event
    BY DEF PropertyNew, Event
  <2>2. /\ Change
        /\ manager' = [manager EXCEPT ![s] = p]
        /\ \/ /\ created < MaxWindows /\ created' = created + 1
              /\ root' = [root EXCEPT ![s] = created']
              /\ wire' = Append(wire, PropertyNew(s))
           \/ UNCHANGED <<created, root, wire>>
    BY <1>4 DEF Appear
  <2>3. wire' \in Seq(Event)
    BY <1>1, <2>1, <2>2
  <2>4. manager' \in [Screens -> Processes \cup {Nobody}]
    BY <1>1, <2>2
  <2>5. root' \in [Screens -> Window \cup {None}] /\ created' \in Nat
    BY <1>1, <1>3, <2>2
  <2> QED
    BY <1>2, <2>2, <2>3, <2>4, <2>5, OnlySends
<1>5. ASSUME NEW p \in Processes, NEW s \in Screens, Restart(p, s)
      PROVE  TrackInv'
  <2>1. PropertyNew(s) \in Event /\ DestroyNotify(root[s]) \in Event
    BY <1>1 DEF PropertyNew, DestroyNotify, Event
  <2>2. wire' \in Seq(Event)
    <3>1. <<DestroyNotify(root[s]), PropertyNew(s)>> \in Seq(Event)
      BY <2>1
    <3> QED
      BY <1>1, <1>5, <3>1 DEF Restart
  <2>3. root' \in [Screens -> Window \cup {None}] /\ created' \in Nat
    BY <1>1, <1>3, <1>5 DEF Restart
  <2> QED
    BY <1>1, <1>2, <1>5, <2>2, <2>3, OnlySends DEF Restart
<1>6. ASSUME NEW p \in Processes, Disappear(p)
      PROVE  TrackInv'
  <2>1. /\ IsFiniteSet(Deleted(p)) /\ Deleted(p) \subseteq Event
        /\ IsFiniteSet(Destroyed(p)) /\ Destroyed(p) \subseteq Event
    BY <1>1, EndEvents
  <2>2. PICK destroyed \in SetToSeqs(Destroyed(p)) :
           \/ /\ root' = [s \in Screens |-> IF s \in Managed(p) THEN None ELSE root[s]]
              /\ \E deleted \in SetToSeqs(Deleted(p)) :
                    wire' = wire \o deleted \o destroyed
           \/ root' = root /\ wire' = wire \o destroyed
    BY <1>6 DEF Disappear
  <2>3. destroyed \in Seq(Event)
    BY <2>1, AnyOrder
  <2>4. \A deleted \in SetToSeqs(Deleted(p)) : deleted \in Seq(Event)
    BY <2>1, AnyOrder
  <2>5. wire' \in Seq(Event)
    <3>1. \A a, b, c \in Seq(Event) : a \o b \o c \in Seq(Event) /\ a \o b \in Seq(Event)
      OBVIOUS
    <3>2. wire \in Seq(Event)
      BY <1>1
    <3> HIDE DEF Event
    <3> QED
      BY <2>2, <2>3, <2>4, <3>1, <3>2
  <2>6. root' \in [Screens -> Window \cup {None}]
    BY <1>1, <2>2
  <2>7. manager' \in [Screens -> Processes \cup {Nobody}] /\ created' \in Nat
    BY <1>1, <1>6 DEF Disappear
  <2> QED
    BY <1>2, <1>6, <2>5, <2>6, <2>7, OnlySends DEF Disappear
<1>7. CASE AskRecheck
  <2>1. RecheckMessage \in Event
    BY DEF RecheckMessage, Event
  <2> QED
    BY <1>1, <1>2, <1>7, <2>1, OnlySends DEF AskRecheck
<1> QED
  BY <1>4, <1>5, <1>6, <1>7 DEF Outside

\* TrackInv is inductive.
LEMMA TrackNext == TrackInv /\ [Next]_vars => TrackInv'
<1>1. TrackInv /\ UNCHANGED vars => TrackInv'
  BY DEF TrackInv, TypeOK, RefsExact, OneRecordPerProcess, PublishedIsTracked,
         Contents, vars, serverVars, libVars
<1> QED
  BY <1>1, LibraryKeeps, OutsideKeeps DEF Next

\* It holds in every state of every behaviour.
LEMMA TrackInvariance == Spec => []TrackInv
BY TrackInit, TrackNext, PTL DEF Spec

\* Every variable keeps its type; an event of a root window names its screen.
THEOREM Typing == Spec => []TypeOK
<1>1. TrackInv => TypeOK
  BY DEF TrackInv
<1> QED
  BY <1>1, TrackInvariance, PTL

\* The count of a record is the number of screens that have it: ref_wm and
\* xde_wm_unref neither free a record under a screen nor lose one.
THEOREM CountsExact == Spec => []RefsExact
<1>1. TrackInv => RefsExact
  BY DEF TrackInv
<1> QED
  BY <1>1, TrackInvariance, PTL

\* A process has one record, whichever screens xde_check_wm finds it on and
\* in whatever order.
THEOREM OneRecord == Spec => []OneRecordPerProcess
<1>1. TrackInv => OneRecordPerProcess
  BY DEF TrackInv
<1> QED
  BY <1>1, TrackInvariance, PTL

\* The properties that xde-watch puts on a root window name the process of
\* its record, also when a check of another screen changes it.
THEOREM Published == Spec => []PublishedIsTracked
<1>1. TrackInv => PublishedIsTracked
  BY DEF TrackInv
<1> QED
  BY <1>1, TrackInvariance, PTL

-----------------------------------------------------------------------------
(***************************************************************************)
(* What CurrentInTheEnd rests on besides fairness.  On one screen, with    *)
(* managers that have a check window and end in order, the library is      *)
(* behind the server only while an event or a check is on its way that     *)
(* makes it look again: the destruction of the very window it knows, or,   *)
(* when it knows of no manager, the announcement of one.                   *)
(***************************************************************************)
Orderly == NScreens = 1 /\ Processes \subseteq Netwm /\ ~MayCrash

Sent == Range(wire)

Coming == waiting # NoScreen \/ ready # << >>

Announced == \E s \in Screens : PropertyNew(s) \in Sent

\* A manager has a check window; one that is reported gone is no manager's.
ServerInv ==
    /\ \A s \in Screens :
          /\ manager[s] = Nobody <=> root[s] = None
          /\ root[s] <= created
    /\ \A w \in Window : DestroyNotify(w) \in Sent =>
          w <= created /\ \A s \in Screens : root[s] # w

\* A record that is not up to date will be looked at.
RecordInv ==
    \A s \in Screens, r \in Records : tracked[s] = r =>
        /\ heap[r].win <= created
        /\ heap[r].win = None => Coming
        /\ heap[r].win # None => published[s] = Contents(heap, r)
        /\ heap[r].win # None /\ heap[r].win = root[s] => heap[r].pid = manager[s]
        /\ heap[r].win # None /\ heap[r].win # root[s] => DestroyNotify(heap[r].win) \in Sent

\* So will a screen without one, unless it has no manager.
AbsenceInv ==
    \A s \in Screens : tracked[s] = NoRecord =>
        /\ published[s] = Nothing
        /\ InLoop => Coming \/ Announced \/ root[s] = None

AttentionInv == ServerInv /\ RecordInv /\ AbsenceInv

\* Nothing is on its way to the library, or waits in it.
Quiet == InLoop /\ wire = << >> /\ ~Coming

UpToDate == Quiet => \A s \in Screens : Current(s)

\* What has been sent, when events are added and handled.
LEMMA SentAppend ==
  ASSUME NEW q \in Seq(Event), NEW e \in Event
  PROVE  Range(Append(q, e)) = Range(q) \cup {e}
<1> HIDE DEF Event
<1>1. \A i \in DOMAIN q : i \in DOMAIN Append(q, e) /\ Append(q, e)[i] = q[i]
  OBVIOUS
<1>2. Len(q) + 1 \in DOMAIN Append(q, e) /\ Append(q, e)[Len(q) + 1] = e
  OBVIOUS
<1>3. \A i \in DOMAIN Append(q, e) : i \in DOMAIN q \/ i = Len(q) + 1
  OBVIOUS
<1> QED
  BY <1>1, <1>2, <1>3 DEF Range

LEMMA SentConcat ==
  ASSUME NEW q \in Seq(Event), NEW r \in Seq(Event)
  PROVE  Range(q \o r) = Range(q) \cup Range(r)
<1> HIDE DEF Event
<1>1. \A i \in DOMAIN q : i \in DOMAIN (q \o r) /\ (q \o r)[i] = q[i]
  OBVIOUS
<1>2. \A i \in DOMAIN r :
         /\ Len(q) + i \in DOMAIN (q \o r)
         /\ (q \o r)[Len(q) + i] = r[i]
  OBVIOUS
<1>3. \A i \in DOMAIN (q \o r) :
         \/ i \in DOMAIN q /\ (q \o r)[i] = q[i]
         \/ i - Len(q) \in DOMAIN r /\ (q \o r)[i] = r[i - Len(q)]
  OBVIOUS
<1>4. Range(q \o r) \subseteq Range(q) \cup Range(r)
  BY <1>3 DEF Range
<1>5. Range(q) \subseteq Range(q \o r) /\ Range(r) \subseteq Range(q \o r)
  BY <1>1, <1>2 DEF Range
<1> QED
  BY <1>4, <1>5

LEMMA SentTail ==
  ASSUME NEW q \in Seq(Event), q # << >>
  PROVE  /\ Range(Tail(q)) \subseteq Range(q)
         /\ Range(q) \subseteq Range(Tail(q)) \cup {Head(q)}
         /\ Head(q) \in Range(q)
<1> HIDE DEF Event
<1>1. \A i \in DOMAIN Tail(q) : i + 1 \in DOMAIN q /\ Tail(q)[i] = q[i + 1]
  OBVIOUS
<1>2. \A i \in DOMAIN q : i = 1 \/ (i - 1 \in DOMAIN Tail(q) /\ Tail(q)[i - 1] = q[i])
  OBVIOUS
<1>3. 1 \in DOMAIN q /\ Head(q) = q[1]
  OBVIOUS
<1> QED
  BY <1>1, <1>2, <1>3 DEF Range

LEMMA SentOne ==
  ASSUME NEW e, NEW q \in SetToSeqs({e})
  PROVE  Range(q) = {e}
<1>1. Cardinality({e}) = 1
  BY FS_Singleton
<1>2. q \in [1..1 -> {e}]
  BY <1>1 DEF SetToSeqs
<1> QED
  BY <1>2 DEF Range

\* The one screen, and the types of its state.
LEMMA TheScreen ==
  ASSUME Orderly
  PROVE  Screens = {0} /\ \A s \in Screens : Twins(s) = {}
BY DEF Orderly, Screens, Twins

LEMMA Kinds ==
  /\ \A s, w : PropertyNew(s) # DestroyNotify(w)
  /\ \A s, w : PropertyDelete(s) # DestroyNotify(w)
  /\ \A s, w : NameNotify(s) # DestroyNotify(w)
  /\ \A w : DestroyNotify(w) # RecheckMessage
  /\ \A v, w : DestroyNotify(v) = DestroyNotify(w) => v = w
BY DEF PropertyNew, PropertyDelete, NameNotify, DestroyNotify, RecheckMessage

\* A step that leaves the library's records and the server alone, forgets no
\* event that matters and makes no check go away.
LEMMA AttentionKept ==
  ASSUME TrackInv, AttentionInv,
         UNCHANGED <<manager, root, created, tracked, heap, published>>,
         InLoop' => InLoop,
         \A w : DestroyNotify(w) \in Sent' <=> DestroyNotify(w) \in Sent,
         Coming => Coming',
         Announced => Announced' \/ Coming'
  PROVE  AttentionInv'
<1>1. ServerInv'
  BY DEF AttentionInv, ServerInv
<1>2. RecordInv'
  BY DEF AttentionInv, RecordInv, Contents
<1>3. AbsenceInv'
  BY DEF AttentionInv, AbsenceInv
<1> QED
  BY <1>1, <1>2, <1>3 DEF AttentionInv

\* A check leaves what is on the server in the record, and on the root window.
LEMMA RecheckSettles ==
  ASSUME Orderly, TrackInv, AttentionInv, NEW s \in Screens, Recheck(s)
  PROVE  \/ /\ tracked'[s] = NoRecord /\ root[s] = None
            /\ published'[s] = Nothing
         \/ \E r \in Records :
               /\ tracked'[s] = r /\ root[s] # None
               /\ heap'[r].win = root[s] /\ heap'[r].pid = manager[s]
               /\ published'[s] = Contents(heap', r)
<1> DEFINE new == Checked(s)
           old == tracked[s]
<1>1. /\ tracked'[s] = new /\ heap' = HeapAfter(s)
      /\ old \in Records \cup {NoRecord}
      /\ Twins(s) = {} /\ TypeOK /\ RefsExact
  BY TheScreen DEF Recheck, TrackInv, TypeOK
<1>2. \/ new = NoRecord /\ ~Found(s)
      \/ new \in Records /\ Found(s) /\ \A t \in Screens : tracked[t] # new
  <2>1. new = NoRecord \/ (new \in Records /\ \A t \in Screens : tracked[t] # new)
    <3>1. \A t : ~Shares(s, t)
      BY <1>1 DEF Shares
    <3> QED
      BY <1>1, <3>1, CheckedIs
  <2>2. CASE ~Found(s)
    BY <1>1, <2>2 DEF Checked
  <2>3. CASE Found(s)
    <3>1. new = Fresh
      BY <1>1, <2>3 DEF Checked
    <3>2. new \in Records
      BY <1>1, <3>1, FreshIsFree
    <3>3. new # NoRecord
      BY <3>2, TrackingAssumption DEF TrackingAssumption
    <3> QED
      BY <2>1, <2>3, <3>2, <3>3
  <2> QED
    BY <2>2, <2>3
<1>3. Found(s) <=> root[s] # None
  BY DEF Found, AttentionInv, ServerInv
<1>4. /\ Changed(HeapAfter(s), old, new) => published'[s] = Contents(heap', new)
      /\ ~Changed(HeapAfter(s), old, new) => published' = published
  BY <1>1 DEF Recheck, Publish, TypeOK
<1>5. CASE new = NoRecord
  <2>1. root[s] = None
    BY <1>2, <1>3, <1>5, TrackingAssumption DEF TrackingAssumption
  <2>2. published'[s] = Nothing
    <3>1. CASE Changed(HeapAfter(s), old, new)
      BY <1>4, <1>5, <3>1 DEF Contents
    <3>2. CASE ~Changed(HeapAfter(s), old, new)
      <4>1. old = NoRecord
        BY <1>5, <3>2 DEF Changed
      <4> QED
        BY <1>4, <3>2, <4>1 DEF AttentionInv, AbsenceInv
    <3> QED
      BY <3>1, <3>2
  <2> QED
    BY <1>1, <1>5, <2>1, <2>2
<1>6. CASE new # NoRecord
  <2>1. /\ new \in Records /\ root[s] # None
        /\ \A t \in Screens : tracked[t] # new
    BY <1>2, <1>3, <1>6
  <2>2. heap'[new].win = root[s] /\ heap'[new].pid = manager[s]
    BY <1>1, <2>1, Filled
  <2>3. published'[s] = Contents(heap', new)
    <3>1. CASE Changed(HeapAfter(s), old, new)
      BY <1>4, <3>1
    <3>2. CASE ~Changed(HeapAfter(s), old, new)
      <4>1. old \in Records /\ old # new
        BY <1>1, <1>6, <2>1, <3>2 DEF Changed
      <4>2. heap'[old].win = heap[old].win /\ heap'[old].pid = heap[old].pid
        BY <1>1, <4>1, Filled
      <4>3. old # NoRecord
        BY <4>1, TrackingAssumption DEF TrackingAssumption
      <4>4. Contents(heap', old) = Contents(heap', new) /\ Contents(heap', old) = Contents(heap, old)
        BY <1>1, <3>2, <4>2, <4>3 DEF Changed, Contents
      <4>5. heap[old].win # None
        <5>1. Contents(heap', new).win = root[s]
          BY <1>6, <2>2 DEF Contents
        <5>2. Contents(heap, old).win = heap[old].win
          BY <4>3 DEF Contents
        <5> QED
          BY <2>1, <4>4, <5>1, <5>2
      <4>6. published[s] = Contents(heap, old)
        BY <4>1, <4>5 DEF AttentionInv, RecordInv
      <4> QED
        BY <1>4, <3>2, <4>4, <4>6
    <3> QED
      BY <3>1, <3>2
  <2> QED
    BY <1>1, <2>1, <2>2, <2>3
<1> QED
  BY <1>5, <1>6

\* So after a check the screen waits for nothing.
LEMMA CheckAttends ==
  ASSUME Orderly, TrackInv, AttentionInv, NEW s \in Screens, Recheck(s),
         UNCHANGED serverVars
  PROVE  AttentionInv'
<1>1. Screens = {0} /\ s = 0
  BY TheScreen
<1>2. UNCHANGED <<manager, root, created>>
  BY DEF serverVars
<1>3. \A w : DestroyNotify(w) \in Sent' <=> DestroyNotify(w) \in Sent
  <2>1. wire' = wire \/ wire' = Append(wire, NameNotify(s))
    BY DEF Recheck, Publish
  <2>2. wire \in Seq(Event) /\ NameNotify(s) \in Event
    BY DEF TrackInv, TypeOK, NameNotify, Event
  <2>3. Sent' = Sent \/ Sent' = Sent \cup {NameNotify(s)}
    BY <2>1, <2>2, SentAppend DEF Sent
  <2> QED
    BY <2>3, Kinds
<1>4. ServerInv'
  BY <1>2, <1>3 DEF AttentionInv, ServerInv
<1>5. root[s] <= created
  BY DEF AttentionInv, ServerInv
<1>6. CASE tracked'[s] = NoRecord /\ root[s] = None /\ published'[s] = Nothing
  <2>1. AbsenceInv'
    BY <1>1, <1>2, <1>6 DEF AbsenceInv
  <2>2. RecordInv'
    BY <1>1, <1>6, TrackingAssumption DEF RecordInv, TrackingAssumption
  <2> QED
    BY <1>4, <2>1, <2>2 DEF AttentionInv
<1>7. ASSUME NEW r \in Records, tracked'[s] = r, root[s] # None,
             heap'[r].win = root[s], heap'[r].pid = manager[s],
             published'[s] = Contents(heap', r)
      PROVE  AttentionInv'
  <2>1. AbsenceInv'
    BY <1>1, <1>7, TrackingAssumption DEF AbsenceInv, TrackingAssumption
  <2>2. RecordInv'
    BY <1>1, <1>2, <1>5, <1>7 DEF RecordInv
  <2> QED
    BY <1>4, <2>1, <2>2 DEF AttentionInv
<1> QED
  BY <1>6, <1>7, RecheckSettles

\* An event that is handled goes, and no other.
LEMMA HandlingTakes ==
  ASSUME TypeOK, NEW type, Handling(type)
  PROVE  /\ Head(wire) \in Sent /\ Head(wire) \in Event /\ Head(wire).type = type
         /\ \A e : e \in Sent' => e \in Sent
         /\ \A e : e \in Sent => e \in Sent' \/ e = Head(wire)
         /\ UNCHANGED <<manager, root, created, tracked, published, starting>>
<1>1. wire \in Seq(Event) /\ wire # << >> /\ wire' = Tail(wire) /\ Head(wire).type = type
  BY DEF Handling, TypeOK
<1>2. /\ Sent' \subseteq Sent /\ Sent \subseteq Sent' \cup {Head(wire)}
      /\ Head(wire) \in Sent
  BY <1>1, SentTail DEF Sent
<1>3. Head(wire) \in Event
  BY <1>1
<1> QED
  BY <1>1, <1>2, <1>3 DEF Handling, serverVars

\* An event that is no destruction leaves the record as it is.
LEMMA OtherEvent ==
  ASSUME Orderly, TrackInv, AttentionInv, NEW type, Handling(type),
         type # "DestroyNotify", heap' = heap,
         Coming => Coming',
         type = "PropertyNotify" => Coming' \/ \A s \in Screens : tracked[s] # NoRecord
  PROVE  AttentionInv'
<1>1. /\ Head(wire) \in Sent /\ Head(wire) \in Event /\ Head(wire).type = type
      /\ \A e : e \in Sent' => e \in Sent
      /\ \A e : e \in Sent => e \in Sent' \/ e = Head(wire)
      /\ UNCHANGED <<manager, root, created, tracked, published, starting>>
  BY HandlingTakes DEF TrackInv
<1>2. \A w : DestroyNotify(w) # Head(wire)
  BY <1>1 DEF DestroyNotify
<1>3. \A w : DestroyNotify(w) \in Sent' <=> DestroyNotify(w) \in Sent
  BY <1>1, <1>2
<1>4. InLoop' <=> InLoop
  BY <1>1 DEF InLoop
<1>5. CASE type # "PropertyNotify"
  <2>1. \A s : PropertyNew(s) # Head(wire)
    BY <1>1, <1>5 DEF PropertyNew
  <2>2. Announced => Announced'
    BY <1>1, <2>1 DEF Announced
  <2> QED
    BY <1>1, <1>3, <1>4, <2>2, AttentionKept
<1>6. CASE Coming'
  BY <1>1, <1>3, <1>4, <1>6, AttentionKept
<1>7. CASE \A s \in Screens : tracked[s] # NoRecord
  <2>1. ServerInv'
    BY <1>1, <1>3 DEF AttentionInv, ServerInv
  <2>2. RecordInv'
    BY <1>1, <1>3 DEF AttentionInv, RecordInv, Contents
  <2>3. AbsenceInv'
    BY <1>1, <1>7 DEF AbsenceInv
  <2> QED
    BY <2>1, <2>2, <2>3 DEF AttentionInv
<1> QED
  BY <1>5, <1>6, <1>7

\* Asking for a check gets one, or there is one already.
LEMMA Asking ==
  ASSUME NEW s \in Screens, AskCheck(s), UNCHANGED ready
  PROVE  Coming'
BY DEF AskCheck, Coming, Screens, NoScreen

\* Each step of the library keeps watch.
LEMMA LibraryAttends == Orderly /\ TrackInv /\ AttentionInv /\ Library => AttentionInv'
<1> SUFFICES ASSUME Orderly, TrackInv, AttentionInv, Library PROVE AttentionInv'
  OBVIOUS
<1>1. /\ cur \in Screens /\ ready \in Seq(Screens)
      /\ heap \in [Records -> [refs : Int, win : Window \cup {None},
                              pid : Processes \cup {Nobody}]]
      /\ tracked \in [Screens -> Records \cup {NoRecord}]
      /\ starting \in 0..NScreens /\ TypeOK
  BY DEF TrackInv, TypeOK
<1>2. Screens = {0}
  BY TheScreen
<1>3. CASE StartupCheck
  <2>1. starting \in Screens
    BY <1>1, <1>2, <1>3 DEF StartupCheck, InLoop, Orderly
  <2> QED
    BY <1>3, <2>1, CheckAttends DEF StartupCheck
<1>4. CASE CheckExpires
  <2>1. Coming'
    BY <1>1, <1>4 DEF CheckExpires, Coming
  <2> QED
    BY <1>4, <2>1, AttentionKept DEF CheckExpires, serverVars, InLoop, Sent
<1>5. CASE RunCheck
  <2>1. Head(ready) \in Screens
    BY <1>1, <1>5 DEF RunCheck
  <2> QED
    BY <1>5, <2>1, CheckAttends DEF RunCheck
<1>6. CASE HandleProperty
  <2>1. Handling("PropertyNotify") /\ cur' = Head(wire).screen
        /\ UNCHANGED <<heap, ready>>
    BY <1>6 DEF HandleProperty
  <2>2. cur' = 0
    <3>1. Head(wire) \in Event /\ Head(wire).type = "PropertyNotify"
      BY <1>1, <2>1, HandlingTakes
    <3> QED
      BY <1>2, <2>1, <3>1 DEF Event
  <2>3. CASE NoCheckWindow(0)
    <3>1. AskCheck(0)
      BY <1>6, <2>2, <2>3 DEF HandleProperty
    <3>2. Coming'
      BY <1>2, <2>1, <3>1, Asking
    <3> QED
      BY <2>1, <3>2, OtherEvent
  <2>4. CASE ~NoCheckWindow(0)
    <3>1. tracked[0] # NoRecord
      BY <2>4 DEF NoCheckWindow, Contents, Nothing
    <3>2. UNCHANGED <<waiting, ready>>
      BY <1>6, <2>1, <2>2, <2>4 DEF HandleProperty
    <3>3. Coming => Coming'
      BY <3>2 DEF Coming
    <3> QED
      BY <1>2, <2>1, <3>1, <3>3, OtherEvent
  <2> QED
    BY <2>3, <2>4
<1>7. CASE HandleDelete
  BY <1>7, OtherEvent DEF HandleDelete, Coming
<1>8. CASE HandleName
  <2>1. Handling("NameNotify") /\ heap' = heap /\ UNCHANGED ready
    BY <1>8 DEF HandleName
  <2>2. Coming => Coming'
    <3>1. waiting' = waiting \/ ready = << >>
      BY <1>8 DEF HandleName, AskCheck
    <3>2. waiting # NoScreen => waiting' = waiting
      BY <1>8 DEF HandleName, AskCheck
    <3> QED
      BY <2>1, <3>1, <3>2 DEF Coming
  <2> QED
    BY <2>1, <2>2, OtherEvent
<1>9. CASE HandleDestroy
  <2>1. Handling("DestroyNotify") /\ UNCHANGED <<cur, ready>> /\ cur = 0
    BY <1>1, <1>2, <1>9 DEF HandleDestroy
  <2>2. /\ Head(wire) \in Sent /\ Head(wire) \in Event
        /\ Head(wire).type = "DestroyNotify"
        /\ \A e : e \in Sent' => e \in Sent
        /\ \A e : e \in Sent => e \in Sent' \/ e = Head(wire)
        /\ UNCHANGED <<manager, root, created, tracked, published, starting>>
    BY <1>1, <2>1, HandlingTakes
  <2>3. ServerInv'
    BY <2>2 DEF AttentionInv, ServerInv
  <2>4. \A s : PropertyNew(s) # Head(wire)
    BY <2>2 DEF PropertyNew
  <2>5. Announced => Announced'
    BY <2>2, <2>4 DEF Announced
  <2>6. CASE tracked[cur] # NoRecord /\ heap[tracked[cur]].win = Head(wire).win
    <3>1. Coming'
      <4>1. AskCheck(0)
        BY <1>9, <2>1, <2>6 DEF HandleDestroy
      <4> QED
        BY <1>2, <2>1, <4>1, Asking
    <3>2. tracked[0] \in Records /\ heap' = [heap EXCEPT ![tracked[0]].win = None]
      BY <1>1, <1>9, <2>1, <2>6 DEF HandleDestroy
    <3>3. heap'[tracked[0]].win = None
      BY <1>1, <3>2
    <3>4. RecordInv'
      <4>1. root[0] <= created /\ created \in Nat
        BY <1>1, <1>2 DEF AttentionInv, ServerInv, TypeOK
      <4>2. \A r \in Records : tracked'[0] = r => heap'[r].win = None
        BY <2>2, <3>3
      <4>3. None <= created'
        BY <2>2, <4>1 DEF None
      <4> QED
        BY <1>2, <3>1, <4>2, <4>3 DEF RecordInv
    <3>5. AbsenceInv'
      BY <2>2, <3>1 DEF AttentionInv, AbsenceInv
    <3> QED
      BY <2>3, <3>4, <3>5 DEF AttentionInv
  <2>7. CASE ~(tracked[cur] # NoRecord /\ heap[tracked[cur]].win = Head(wire).win)
    <3>1. heap' = heap /\ UNCHANGED <<waiting, ready>>
      BY <1>9, <2>1, <2>7 DEF HandleDestroy
    <3>2. Coming' <=> Coming
      BY <3>1 DEF Coming
    <3>3. ASSUME NEW r \in Records, tracked[0] = r, DestroyNotify(heap[r].win) \in Sent
          PROVE  DestroyNotify(heap[r].win) \in Sent'
      <4>1. r # NoRecord
        BY TrackingAssumption DEF TrackingAssumption
      <4>2. heap[r].win # Head(wire).win
        BY <2>1, <2>7, <3>3, <4>1
      <4>3. DestroyNotify(heap[r].win) # Head(wire)
        BY <4>2 DEF DestroyNotify
      <4> QED
        BY <2>2, <3>3, <4>3
    <3>4. RecordInv'
      <4>1. ASSUME NEW r \in Records, tracked'[0] = r
            PROVE  /\ heap'[r].win <= created'
                   /\ heap'[r].win = None => Coming'
                   /\ heap'[r].win # None => published'[0] = Contents(heap', r)
                   /\ heap'[r].win # None /\ heap'[r].win = root'[0]
                         => heap'[r].pid = manager'[0]
                   /\ heap'[r].win # None /\ heap'[r].win # root'[0]
                         => DestroyNotify(heap'[r].win) \in Sent'
        <5>1. tracked[0] = r
          BY <2>2, <4>1
        <5>2. /\ heap[r].win <= created
              /\ heap[r].win = None => Coming
              /\ heap[r].win # None => published[0] = Contents(heap, r)
              /\ heap[r].win # None /\ heap[r].win = root[0]
                    => heap[r].pid = manager[0]
              /\ heap[r].win # None /\ heap[r].win # root[0]
                    => DestroyNotify(heap[r].win) \in Sent
          BY <1>2, <5>1 DEF AttentionInv, RecordInv
        <5> QED
          BY <2>2, <3>1, <3>2, <3>3, <5>1, <5>2
      <4> QED
        BY <1>2, <4>1 DEF RecordInv
    <3>5. AbsenceInv'
      BY <2>2, <2>5, <3>2 DEF AttentionInv, AbsenceInv, InLoop
    <3> QED
      BY <2>3, <3>4, <3>5 DEF AttentionInv
  <2> QED
    BY <2>6, <2>7
<1>10. CASE HandleRecheck
  <2>1. Coming'
    BY <1>1, <1>10 DEF HandleRecheck, Coming
  <2> QED
    BY <1>10, <2>1, OtherEvent DEF HandleRecheck
<1> QED
  BY <1>3, <1>4, <1>5, <1>6, <1>7, <1>8, <1>9, <1>10 DEF Library

\* What managers do is sent to the library: the window that the root no longer
\* names is reported gone, the one that it names now is new, and announced to a
\* library that may know of none.
LEMMA ServerMoves ==
  ASSUME Orderly, TrackInv, AttentionInv, UNCHANGED libVars,
         created' \in Nat, created <= created',
         manager'[0] = Nobody <=> root'[0] = None,
         \/ root'[0] = None
         \/ created < root'[0] /\ root'[0] <= created' /\ Announced',
         \A e : e \in Sent => e \in Sent',
         \A w : DestroyNotify(w) \in Sent' => DestroyNotify(w) \in Sent \/ w = root[0],
         root[0] # None => DestroyNotify(root[0]) \in Sent'
  PROVE  AttentionInv'
<1>1. /\ Screens = {0} /\ created \in Nat
      /\ heap \in [Records -> [refs : Int, win : Window \cup {None},
                              pid : Processes \cup {Nobody}]]
  BY TheScreen DEF TrackInv, TypeOK
<1>2. UNCHANGED <<starting, tracked, heap, waiting, ready, published>>
  BY DEF libVars
<1>3. root[0] <= created
  BY <1>1 DEF AttentionInv, ServerInv
<1>4. \A w \in Window : DestroyNotify(w) \in Sent' => w <= created
  BY <1>1, <1>3 DEF AttentionInv, ServerInv
<1>5. \A w \in Window : w <= created => root'[0] # w
  BY <1>1 DEF Window, None
<1>6. ServerInv'
  <2>1. root'[0] <= created'
    BY DEF None
  <2>2. \A w \in Window : DestroyNotify(w) \in Sent' => w <= created'
    BY <1>1, <1>4 DEF Window
  <2> QED
    BY <1>1, <1>4, <1>5, <2>1, <2>2 DEF ServerInv
<1>7. RecordInv'
  <2>1. ASSUME NEW r \in Records, tracked'[0] = r
        PROVE  /\ heap'[r].win <= created'
               /\ heap'[r].win = None => Coming'
               /\ heap'[r].win # None => published'[0] = Contents(heap', r)
               /\ heap'[r].win # None => heap'[r].win # root'[0]
               /\ heap'[r].win # None => DestroyNotify(heap'[r].win) \in Sent'
    <3>1. /\ heap[r].win <= created
          /\ heap[r].win = None => Coming
          /\ heap[r].win # None => published[0] = Contents(heap, r)
          /\ heap[r].win # None /\ heap[r].win # root[0]
                => DestroyNotify(heap[r].win) \in Sent
      BY <1>1, <1>2, <2>1 DEF AttentionInv, RecordInv
    <3>2. heap[r].win \in Window \cup {None} /\ heap' = heap
      BY <1>1, <1>2
    <3>3. heap[r].win <= created'
      BY <1>1, <3>1, <3>2 DEF Window, None
    <3>4. heap[r].win # None => heap[r].win # root'[0]
      BY <1>5, <3>1, <3>2
    <3>5. heap[r].win # None => DestroyNotify(heap[r].win) \in Sent'
      BY <3>1
    <3>6. Coming' <=> Coming
      BY <1>2 DEF Coming
    <3> QED
      BY <1>2, <3>1, <3>2, <3>3, <3>4, <3>5, <3>6
  <2> QED
    BY <1>1, <2>1 DEF RecordInv
<1>8. AbsenceInv'
  BY <1>1, <1>2 DEF AttentionInv, AbsenceInv
<1> QED
  BY <1>6, <1>7, <1>8 DEF AttentionInv

\* So does what managers and the user do.
LEMMA OutsideAttends == Orderly /\ TrackInv /\ AttentionInv /\ Outside => AttentionInv'
<1> SUFFICES ASSUME Orderly, TrackInv, AttentionInv, Outside PROVE AttentionInv'
  OBVIOUS
<1>1. /\ Screens = {0} /\ created \in Nat /\ wire \in Seq(Event) /\ TypeOK
      /\ root \in [Screens -> Window \cup {None}]
      /\ manager \in [Screens -> Processes \cup {Nobody}]
  BY TheScreen DEF TrackInv, TypeOK
<1>2. Change => UNCHANGED libVars
  BY DEF Change
<1>3. /\ manager[0] = Nobody <=> root[0] = None
      /\ Nobody \notin Processes
  BY <1>1, TrackingAssumption DEF AttentionInv, ServerInv, TrackingAssumption
<1>4. created + 1 # None /\ created < created + 1
  BY <1>1 DEF None
<1>5. ASSUME NEW p \in Processes, NEW s \in Screens, Appear(p, s)
      PROVE  AttentionInv'
  <2>1. /\ s = 0 /\ p \in Netwm /\ PropertyNew(0) \in Event
        /\ UNCHANGED libVars
    BY <1>1, <1>2, <1>5 DEF Orderly, Appear, PropertyNew, Event
  <2>2. /\ manager[0] = Nobody /\ manager'[0] = p
        /\ created' = created + 1 /\ root'[0] = created + 1
        /\ wire' = Append(wire, PropertyNew(0))
    BY <1>1, <1>5, <2>1 DEF Appear
  <2>3. Sent' = Sent \cup {PropertyNew(0)}
    BY <1>1, <2>1, <2>2, SentAppend DEF Sent
  <2>4. Announced'
    BY <1>1, <2>3 DEF Announced
  <2>5. \A w : DestroyNotify(w) \in Sent' => DestroyNotify(w) \in Sent
    BY <2>3, Kinds
  <2>6. manager'[0] # Nobody /\ root'[0] # None /\ root[0] = None
    BY <1>3, <1>4, <2>2
  <2>7. /\ created' \in Nat /\ created <= created'
        /\ created < root'[0] /\ root'[0] <= created'
    BY <1>1, <2>2
  <2> QED
    BY <2>1, <2>3, <2>4, <2>5, <2>6, <2>7, ServerMoves
<1>6. ASSUME NEW p \in Processes, NEW s \in Screens, Restart(p, s)
      PROVE  AttentionInv'
  <2>1. /\ s = 0 /\ PropertyNew(0) \in Event /\ DestroyNotify(root[0]) \in Event
        /\ UNCHANGED libVars
    BY <1>1, <1>2, <1>6 DEF Restart, PropertyNew, DestroyNotify, Event
  <2>2. /\ manager[0] = p /\ manager' = manager
        /\ created' = created + 1 /\ root'[0] = created + 1
        /\ wire' = wire \o <<DestroyNotify(root[0]), PropertyNew(0)>>
    BY <1>1, <1>6, <2>1 DEF Restart
  <2>3. Sent' = Sent \cup {DestroyNotify(root[0]), PropertyNew(0)}
    <3> DEFINE news == <<DestroyNotify(root[0]), PropertyNew(0)>>
    <3>1. news \in Seq(Event) /\ Range(news) = {DestroyNotify(root[0]), PropertyNew(0)}
      BY <2>1 DEF Range
    <3> QED
      BY <1>1, <2>2, <3>1, SentConcat DEF Sent
  <2>4. Announced'
    BY <1>1, <2>3 DEF Announced
  <2>5. \A w : DestroyNotify(w) \in Sent' => DestroyNotify(w) \in Sent \/ w = root[0]
    BY <2>3, Kinds
  <2>6. manager'[0] # Nobody /\ root'[0] # None
    BY <1>3, <1>4, <2>2
  <2>7. /\ created' \in Nat /\ created <= created'
        /\ created < root'[0] /\ root'[0] <= created'
    BY <1>1, <2>2
  <2> QED
    BY <2>1, <2>3, <2>4, <2>5, <2>6, <2>7, ServerMoves
<1>7. ASSUME NEW p \in Processes, Disappear(p)
      PROVE  AttentionInv'
  <2>1. Managed(p) = {0} /\ manager'[0] = Nobody /\ UNCHANGED <<created, libVars>>
    BY <1>1, <1>2, <1>7 DEF Disappear, Managed, Orderly
  <2>2. Deleted(p) = {PropertyDelete(0)} /\ Destroyed(p) = {DestroyNotify(root[0])}
    BY <2>1 DEF Deleted, Destroyed
  <2>3. /\ root' = [s \in Screens |-> IF s \in Managed(p) THEN None ELSE root[s]]
        /\ \E destroyed \in SetToSeqs(Destroyed(p)), deleted \in SetToSeqs(Deleted(p)) :
              wire' = wire \o deleted \o destroyed
    BY <1>7 DEF Disappear, Orderly
  <2>4. root'[0] = None
    BY <1>1, <2>1, <2>3
  <2>5. PICK destroyed \in SetToSeqs(Destroyed(p)), deleted \in SetToSeqs(Deleted(p)) :
           wire' = wire \o deleted \o destroyed
    BY <2>3
  <2>6. destroyed \in Seq(Event) /\ deleted \in Seq(Event)
    BY <1>1, EndEvents, AnyOrder
  <2>7. Range(destroyed) = {DestroyNotify(root[0])} /\ Range(deleted) = {PropertyDelete(0)}
    BY <2>2, <2>5, SentOne
  <2>8. wire \o deleted \in Seq(Event)
    BY <1>1, <2>6
  <2>9. Sent' = Sent \cup {PropertyDelete(0)} \cup {DestroyNotify(root[0])}
    <3>1. Range(wire \o deleted) = Range(wire) \cup {PropertyDelete(0)}
      BY <1>1, <2>6, <2>7, SentConcat
    <3>2. Range(wire') = Range(wire \o deleted) \cup {DestroyNotify(root[0])}
      BY <2>5, <2>6, <2>7, <2>8, SentConcat
    <3> QED
      BY <3>1, <3>2 DEF Sent
  <2>10. \A w : DestroyNotify(w) \in Sent' => DestroyNotify(w) \in Sent \/ w = root[0]
    BY <2>9, Kinds
  <2> QED
    BY <1>1, <2>1, <2>4, <2>9, <2>10, ServerMoves
<1>8. CASE AskRecheck
  <2>1. RecheckMessage \in Event /\ wire' = Append(wire, RecheckMessage)
        /\ UNCHANGED libVars /\ UNCHANGED <<manager, root, created>>
    BY <1>2, <1>8 DEF AskRecheck, RecheckMessage, Event
  <2>2. Sent' = Sent \cup {RecheckMessage}
    BY <1>1, <2>1, SentAppend DEF Sent
  <2>3. \A w : DestroyNotify(w) \in Sent' <=> DestroyNotify(w) \in Sent
    BY <2>2, Kinds
  <2>4. Announced => Announced'
    BY <2>2 DEF Announced
  <2> QED
    BY <2>1, <2>3, <2>4, AttentionKept DEF libVars, InLoop, Coming
<1> QED
  BY <1>5, <1>6, <1>7, <1>8 DEF Outside

LEMMA AttentionNext == Orderly /\ TrackInv /\ AttentionInv /\ [Next]_vars => AttentionInv'
<1>1. AttentionInv /\ UNCHANGED vars => AttentionInv'
  BY DEF AttentionInv, ServerInv, RecordInv, AbsenceInv, Announced, Coming, Sent,
         InLoop, Contents, vars, serverVars, libVars
<1> QED
  BY <1>1, LibraryAttends, OutsideAttends DEF Next

\* The daemon starts with everything to find out.
LEMMA AttentionInit == Orderly /\ Init => AttentionInv
<1> SUFFICES ASSUME Orderly, Init PROVE AttentionInv
  OBVIOUS
<1>1. Sent = {}
  BY DEF Init, Sent, Range
<1>2. \A s \in Screens : /\ manager[s] = Nobody <=> root[s] = None
                         /\ root[s] <= created
  BY TrackingAssumption DEF Init, TrackingAssumption, Orderly
<1>3. ServerInv
  BY <1>1, <1>2 DEF ServerInv
<1>4. RecordInv /\ AbsenceInv
  BY TrackingAssumption DEF Init, RecordInv, AbsenceInv, InLoop, TrackingAssumption, Orderly
<1> QED
  BY <1>3, <1>4 DEF AttentionInv

\* On one screen, with managers that have a check window and end in order:
\* when no event is on its way and no check waits, the library has the manager
\* that is there, if there is one, and the root says so.  No event that matters
\* is lost, whichever checks are refused and in whatever order the events of
\* old and new managers come (xde_recheck_wm, xde_defer_once and the handlers).
THEOREM NothingMissed ==
  ASSUME Orderly
  PROVE  Spec => []UpToDate
<1>1. Init => AttentionInv
  BY AttentionInit
<1>2. TrackInv /\ AttentionInv /\ [Next]_vars => AttentionInv'
  BY AttentionNext
<1>3. TrackInv /\ AttentionInv => UpToDate
  <2> SUFFICES ASSUME TrackInv, AttentionInv, Quiet, NEW s \in Screens
               PROVE  Current(s)
    BY DEF UpToDate
  <2>1. Sent = {} /\ ~Coming /\ InLoop /\ ~Announced
    BY DEF Quiet, Sent, Range, Announced
  <2>2. manager[s] = Nobody <=> root[s] = None
    BY DEF AttentionInv, ServerInv
  <2>3. tracked[s] \in Records \cup {NoRecord}
    BY DEF TrackInv, TypeOK
  <2>4. CASE tracked[s] = NoRecord
    BY <2>1, <2>2, <2>4 DEF AttentionInv, AbsenceInv, Current, Nothing
  <2>5. ASSUME NEW r \in Records, tracked[s] = r PROVE Current(s)
    <3>1. r # NoRecord
      BY TrackingAssumption DEF TrackingAssumption
    <3>2. /\ heap[r].win = root[s] /\ heap[r].win # None
          /\ heap[r].pid = manager[s] /\ published[s] = Contents(heap, r)
      BY <2>1, <2>5 DEF AttentionInv, RecordInv
    <3> QED
      BY <2>2, <2>5, <3>1, <3>2 DEF Current, Contents
  <2> QED
    BY <2>3, <2>4, <2>5
<1> QED
  BY <1>1, <1>2, <1>3, TrackInvariance, TrackInit, TrackNext, PTL DEF Spec

=============================================================================
