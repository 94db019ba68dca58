--------------------------- MODULE DeferQueueProofs ---------------------------
(***************************************************************************)
(* Proofs about DeferQueue for every set of keys, screens and delays and   *)
(* every number of ticks in a second.                                      *)
(***************************************************************************)
EXTENDS DeferQueue, SequenceTheorems, TLAPS

(***************************************************************************)
(* Arithmetic of timespecs.                                                *)
(***************************************************************************)
\* A delay splits into whole seconds and a rest below a second.
LEMMA DelaySplits ==
    ASSUME NEW delay \in Nat
    PROVE  /\ delay \div TicksPerSec \in Nat
           /\ delay % TicksPerSec \in 0..(TicksPerSec - 1)
           /\ delay = (delay \div TicksPerSec) * TicksPerSec + (delay % TicksPerSec)
  BY DeferAssumption, Z3

\* Nothing splits into nothing.
LEMMA ZeroSplits == 0 \div TicksPerSec = 0 /\ 0 % TicksPerSec = 0
  BY DeferAssumption, Z3

\* Seconds and ticks order timespecs as their number of ticks does, for a
\* clock value, whose ticks are below a second.
LEMMA NotBeforeTicks ==
    ASSUME NEW c \in [sec : Nat, nsec : 0..(TicksPerSec - 1)],
           NEW t \in Timespec, ~Before(c, t)
    PROVE  Ticks(t) <= Ticks(c)
<1>1. t.sec \in Nat /\ t.nsec \in 0..TicksPerSec /\ c.sec \in Nat /\ c.nsec \in 0..(TicksPerSec - 1)
  BY DeferAssumption DEF Timespec
<1>2. CASE t.sec = c.sec
  BY <1>1, <1>2, DeferAssumption DEF Before, Ticks
<1>3. CASE t.sec < c.sec
  <2>1. c.sec * TicksPerSec = t.sec * TicksPerSec + (c.sec - t.sec) * TicksPerSec
    BY <1>1, DeferAssumption, Z3
  <2>2. (c.sec - t.sec) * TicksPerSec >= TicksPerSec
    BY <1>1, <1>3, DeferAssumption, Z3
  <2>. QED  BY <1>1, <2>1, <2>2, DeferAssumption DEF Ticks
<1>. QED  BY <1>1, <1>2, <1>3, DeferAssumption DEF Before

\* Not being before is a total preorder of timespecs.
LEMMA NotBeforeOrder ==
    ASSUME NEW t \in Timespec, NEW u \in Timespec, NEW v \in Timespec
    PROVE  /\ ~Before(t, t)
           /\ Before(t, u) => ~Before(u, t)
           /\ ~Before(t, u) /\ ~Before(u, v) => ~Before(t, v)
<1>1. /\ t.sec \in Nat /\ t.nsec \in Int
      /\ u.sec \in Nat /\ u.nsec \in Int
      /\ v.sec \in Nat /\ v.nsec \in Int
  BY DeferAssumption DEF Timespec
<1>. QED  BY <1>1 DEF Before

\* xde_defer_action computes the time of the request plus the delay.
LEMMA WhenDueTicks ==
    ASSUME TypeOK, NEW delay \in Nat
    PROVE  /\ WhenDue(delay) \in [sec : Nat \ {0}, nsec : 0..TicksPerSec]
           /\ Ticks(WhenDue(delay)) = Ticks(clock) + delay
<1> DEFINE q == delay \div TicksPerSec
           r == delay % TicksPerSec
<1>1. q \in Nat /\ r \in 0..(TicksPerSec - 1) /\ delay = q * TicksPerSec + r
  BY DelaySplits
<1>2. clock.sec \in Nat \ {0} /\ clock.nsec \in 0..(TicksPerSec - 1)
  BY DEF TypeOK
<1>3. (clock.sec + q) * TicksPerSec = clock.sec * TicksPerSec + q * TicksPerSec
  BY <1>1, <1>2, DeferAssumption, Z3
<1>4. (clock.sec + q + 1) * TicksPerSec = (clock.sec + q) * TicksPerSec + TicksPerSec
  BY <1>1, <1>2, DeferAssumption, Z3
<1>5. clock.sec * TicksPerSec \in Nat /\ q * TicksPerSec \in Nat
  BY <1>1, <1>2, DeferAssumption, Z3
<1>6. WhenDue(delay) = IF clock.nsec + r > TicksPerSec
        THEN [sec |-> clock.sec + q + 1, nsec |-> clock.nsec + r - TicksPerSec]
        ELSE [sec |-> clock.sec + q, nsec |-> clock.nsec + r]
  BY <1>1, <1>2, DeferAssumption, Z3 DEF WhenDue
<1> HIDE DEF q, r
<1>. QED
  BY <1>1, <1>2, <1>3, <1>4, <1>5, <1>6, DeferAssumption DEF Ticks

-----------------------------------------------------------------------------
(***************************************************************************)
(* Insertion into a sequence.                                              *)
(***************************************************************************)
\* new is s with e put in at i: the elements from there on are shifted.
Inserted(new, s, i, e) ==
    /\ Len(new) = Len(s) + 1
    /\ \A j \in 1..Len(new) :
          \/ j < i /\ j \in 1..Len(s) /\ new[j] = s[j]
          \/ j = i /\ new[j] = e
          \/ j > i /\ j - 1 \in 1..Len(s) /\ new[j] = s[j - 1]

\* That is what InsertAt does.
LEMMA InsertAtProperties ==
    ASSUME NEW S, NEW s \in Seq(S), NEW e \in S, NEW i \in 1..(Len(s) + 1)
    PROVE  /\ InsertAt(s, i, e) \in Seq(S)
           /\ Inserted(InsertAt(s, i, e), s, i, e)
<1> DEFINE front == SubSeq(s, 1, i - 1)
           back  == SubSeq(s, i, Len(s))
<1>1. Len(s) \in Nat /\ \A j \in 1..Len(s) : s[j] \in S
  BY ElementOfSeq, LenProperties
<1>2. /\ front \in Seq(S)
      /\ Len(front) = i - 1
      /\ \A j \in 1..(i - 1) : front[j] = s[j]
  <2>1. \A j \in 1..(i - 1) : s[j] \in S
    BY <1>1
  <2>. QED  BY <1>1, <2>1, SubSeqProperties
<1>3. /\ back \in Seq(S)
      /\ Len(back) = Len(s) - i + 1
      /\ \A j \in 1..(Len(s) - i + 1) : back[j] = s[i + j - 1]
  <2>1. \A j \in i..Len(s) : s[j] \in S
    BY <1>1
  <2>. QED  BY <1>1, <2>1, SubSeqProperties
<1>4. <<e>> \in Seq(S) /\ Len(<<e>>) = 1 /\ <<e>>[1] = e
  OBVIOUS
<1> HIDE DEF front, back
<1>5. /\ front \o <<e>> \in Seq(S)
      /\ Len(front \o <<e>>) = i
      /\ \A j \in 1..i : (front \o <<e>>)[j] = IF j < i THEN s[j] ELSE e
  BY <1>1, <1>2, <1>4, ConcatProperties
<1>6. InsertAt(s, i, e) = (front \o <<e>>) \o back
  BY DEF InsertAt, front, back
<1> DEFINE upto == front \o <<e>>
<1> HIDE DEF upto
<1>7. /\ upto \in Seq(S) /\ Len(upto) = i
      /\ \A j \in 1..i : upto[j] = IF j < i THEN s[j] ELSE e
  BY <1>5 DEF upto
<1>8. /\ upto \o back \in Seq(S)
      /\ Len(upto \o back) = Len(s) + 1
      /\ \A j \in 1..(Len(s) + 1) :
            (upto \o back)[j] = IF j <= i THEN upto[j] ELSE back[j - i]
  <2>1. Len(upto) + Len(back) = Len(s) + 1
    BY <1>1, <1>3, <1>7
  <2>2. /\ upto \o back \in Seq(S)
        /\ Len(upto \o back) = Len(upto) + Len(back)
        /\ \A j \in 1..(Len(upto) + Len(back)) :
              (upto \o back)[j] = IF j <= Len(upto) THEN upto[j]
                                 ELSE back[j - Len(upto)]
    BY <1>3, <1>7, ConcatProperties
  <2>. QED  BY <2>1, <2>2, <1>7
<1>9. \A j \in 1..(Len(s) + 1) :
        (upto \o back)[j] = IF j < i THEN s[j] ELSE IF j = i THEN e ELSE s[j - 1]
  BY <1>1, <1>3, <1>7, <1>8
<1> DEFINE new == upto \o back
<1>10. new \in Seq(S) /\ Len(new) = Len(s) + 1
  BY <1>8
<1>11. \A j \in 1..(Len(s) + 1) :
         new[j] = IF j < i THEN s[j] ELSE IF j = i THEN e ELSE s[j - 1]
  BY <1>9
<1> HIDE DEF new
<1>12. Inserted(new, s, i, e)
  BY <1>1, <1>10, <1>11 DEF Inserted
<1>. QED  BY <1>6, <1>10, <1>12 DEF upto, new

ElementsOf(s) == {s[l] : l \in 1..Len(s)}

\* Inserting adds one element to those of the sequence.
LEMMA InsertedRange ==
    ASSUME NEW S, NEW s \in Seq(S), NEW e \in S, NEW i \in 1..(Len(s) + 1),
           NEW new, Inserted(new, s, i, e)
    PROVE  ElementsOf(new) = ElementsOf(s) \cup {e}
<1>1. Len(s) \in Nat /\ Len(new) = Len(s) + 1
  BY LenProperties DEF Inserted
<1>2. \A j \in 1..Len(new) : new[j] = e \/ \E l \in 1..Len(s) : new[j] = s[l]
  BY DEF Inserted
<1>3. ASSUME NEW l \in 1..Len(s)
      PROVE  \E j \in 1..Len(new) : new[j] = s[l]
  <2>1. CASE l < i
    <3>1. l \in 1..Len(new) /\ new[l] = s[l]
      BY <1>1, <2>1 DEF Inserted
    <3>. QED  BY <3>1
  <2>2. CASE l >= i
    <3>1. l + 1 \in 1..Len(new) /\ l + 1 > i /\ (l + 1) - 1 = l
      BY <1>1, <2>2
    <3>2. new[l + 1] = s[(l + 1) - 1]
      BY <1>1, <3>1 DEF Inserted
    <3>. QED  BY <3>1, <3>2
  <2>. QED  BY <1>1, <2>1, <2>2
<1>4. i \in 1..Len(new) /\ new[i] = e
  BY <1>1 DEF Inserted
<1>5. ASSUME NEW x \in ElementsOf(new)
      PROVE  x \in ElementsOf(s) \cup {e}
  BY <1>2 DEF ElementsOf
<1>6. ASSUME NEW x \in ElementsOf(s)
      PROVE  x \in ElementsOf(new)
  <2>1. PICK l \in 1..Len(s) : x = s[l]
    BY DEF ElementsOf
  <2>2. PICK j \in 1..Len(new) : new[j] = s[l]
    BY <1>3
  <2>. QED  BY <2>1, <2>2 DEF ElementsOf
<1>7. e \in ElementsOf(new)
  BY <1>4 DEF ElementsOf
<1>. QED  BY <1>5, <1>6, <1>7

\* An entry inserted before the first that is not earlier keeps a list of
\* entries sorted.
LEMMA InsertSorted ==
    ASSUME NEW q \in Seq(Entry), NEW d \in Entry, NEW i \in 1..(Len(q) + 1),
           \A j \in 1..(i - 1) : Before(q[j].when, d.when),
           i <= Len(q) => ~Before(q[i].when, d.when),
           \A m, n \in 1..Len(q) : m < n => ~Before(q[n].when, q[m].when),
           NEW new, Inserted(new, q, i, d),
           NEW m \in 1..Len(new), NEW n \in 1..Len(new),
           m < n
    PROVE  ~Before(new[n].when, new[m].when)
<1>1. \A j \in 1..Len(new) :
        \/ j < i /\ j \in 1..Len(q) /\ new[j] = q[j]
        \/ j = i /\ new[j] = d
        \/ j > i /\ j - 1 \in 1..Len(q) /\ new[j] = q[j - 1]
  BY DEF Inserted
<1>2. Len(q) \in Nat /\ Len(new) \in Nat /\ m \in 1..Len(new) /\ n \in 1..Len(new)
  BY LenProperties DEF Inserted
<1>3. d.when \in Timespec /\ \A j \in 1..Len(q) : q[j].when \in Timespec
  <2>1. \A j \in 1..Len(q) : q[j] \in Entry
    BY ElementOfSeq
  <2>. QED  BY <2>1 DEF Entry
<1>4. CASE n < i
  BY <1>1, <1>2, <1>4
<1>5. CASE n = i
  <2>1. m < i /\ m \in 1..Len(q) /\ new[m] = q[m] /\ new[n] = d
    BY <1>1, <1>2, <1>5
  <2>2. Before(q[m].when, d.when)
    BY <2>1, <1>2
  <2>. QED  BY <2>1, <2>2, <1>3, NotBeforeOrder
<1>6. CASE n > i /\ m = i
  <2>1. n - 1 \in 1..Len(q) /\ new[n] = q[n - 1] /\ new[m] = d /\ i \in 1..Len(q) /\ i <= n - 1
    BY <1>1, <1>2, <1>6
  <2>2. ~Before(q[i].when, d.when) /\ (i < n - 1 => ~Before(q[n - 1].when, q[i].when))
    BY <2>1
  <2>3. q[i].when \in Timespec /\ q[n - 1].when \in Timespec
    BY <2>1, <1>3
  <2>4. ~Before(q[n - 1].when, d.when)
    <3>1. CASE i = n - 1
      BY <2>2, <3>1
    <3>2. CASE i < n - 1
      BY <2>2, <2>3, <3>2, <1>3, NotBeforeOrder
    <3>. QED  BY <2>1, <3>1, <3>2
  <2>. QED  BY <2>1, <2>4
<1>7. CASE n > i /\ m < i
  <2>1. /\ n - 1 \in 1..Len(q) /\ new[n] = q[n - 1]
        /\ m \in 1..Len(q) /\ new[m] = q[m]
        /\ m < n - 1 \/ m = n - 1
    BY <1>1, <1>2, <1>7
  <2>2. m < n - 1
    BY <2>1, <1>2, <1>7
  <2>3. ~Before(q[n - 1].when, q[m].when)
    BY <2>1, <2>2
  <2>. QED  BY <2>1, <2>3
<1>8. CASE n > i /\ m > i
  <2>1. /\ n - 1 \in 1..Len(q) /\ new[n] = q[n - 1]
        /\ m - 1 \in 1..Len(q) /\ new[m] = q[m - 1]
        /\ m - 1 < n - 1
    BY <1>1, <1>2, <1>8
  <2>2. ~Before(q[n - 1].when, q[m - 1].when)
    BY <2>1
  <2>. QED  BY <2>1, <2>2
<1>. QED  BY <1>2, <1>4, <1>5, <1>6, <1>7, <1>8

\* An entry with a new name keeps the names of a list distinct.
LEMMA InsertDistinct ==
    ASSUME NEW q \in Seq(Entry), NEW d \in Entry, NEW i \in 1..(Len(q) + 1),
           \A j \in 1..Len(q) : q[j].id # d.id,
           \A j, l \in 1..Len(q) : q[j].id = q[l].id => j = l,
           NEW new, Inserted(new, q, i, d),
           NEW m \in 1..Len(new), NEW n \in 1..Len(new),
           new[m].id = new[n].id
    PROVE  m = n
<1>1. \A j \in 1..Len(new) :
        \/ j < i /\ j \in 1..Len(q) /\ new[j] = q[j]
        \/ j = i /\ new[j] = d
        \/ j > i /\ j - 1 \in 1..Len(q) /\ new[j] = q[j - 1]
  BY DEF Inserted
<1>2. Len(q) \in Nat /\ Len(new) \in Nat /\ m \in 1..Len(new) /\ n \in 1..Len(new)
  BY LenProperties DEF Inserted
<1>3. new[m].id = new[n].id
  OBVIOUS
<1>4. CASE m = i \/ n = i
  <2>1. \A j \in 1..Len(new) : j = i => new[j] = d
    BY <1>1, <1>2
  <2>2. ASSUME NEW j \in 1..Len(new), j # i
        PROVE  new[j].id # d.id
    <3>1. PICK l \in 1..Len(q) : new[j] = q[l]
      BY <1>1, <2>2
    <3>. QED  BY <3>1
  <2>. QED  BY <1>2, <1>3, <1>4, <2>1, <2>2
<1>5. CASE m # i /\ n # i
  <2>1. PICK j \in 1..Len(q) : new[m] = q[j] /\ ((m < i /\ j = m) \/ (m > i /\ j = m - 1))
    BY <1>1, <1>2, <1>5
  <2>2. PICK l \in 1..Len(q) : new[n] = q[l] /\ ((n < i /\ l = n) \/ (n > i /\ l = n - 1))
    BY <1>1, <1>2, <1>5
  <2>3. j = l
    BY <1>3, <2>1, <2>2
  <2>. QED  BY <1>2, <2>1, <2>2, <2>3
<1>. QED  BY <1>4, <1>5

-----------------------------------------------------------------------------
(***************************************************************************)
(* The steps preserve the inductive invariant.                             *)
(***************************************************************************)
\* An entry is typed, due no earlier than now, and never at the zero time.
LEMMA NewEntryProperties ==
    ASSUME TypeOK, NEW k \in Keys, NEW delay \in Delays, NEW s \in Screens
    PROVE  LET d == NewEntry(k, delay, s)
           IN  /\ d \in Entry
               /\ d.id = allocated + 1 /\ d.key = k /\ d.screen = s
               /\ d.when = WhenDue(delay)
               /\ d.when.sec > 0
               /\ delay = 0 => d.when = clock
<1>1. delay \in Nat
  BY DeferAssumption
<1>2. /\ WhenDue(delay) \in [sec : Nat \ {0}, nsec : 0..TicksPerSec]
      /\ WhenDue(delay) \in Timespec
      /\ WhenDue(delay).sec > 0
  BY <1>1, WhenDueTicks DEF Timespec
<1>3. WhenDue(0) = clock
  <2>1. clock \in [sec : Nat \ {0}, nsec : 0..(TicksPerSec - 1)]
    BY DEF TypeOK
  <2>2. WhenDue(0) = [sec |-> clock.sec, nsec |-> clock.nsec]
    BY <2>1, ZeroSplits, DeferAssumption DEF WhenDue
  <2>. QED  BY <2>1, <2>2
<1>4. allocated + 1 \in Nat
  BY DEF TypeOK
<1>. QED  BY <1>2, <1>3, <1>4 DEF NewEntry, Entry

\* Inserting at an InsertPosition keeps deferred_wait sorted and the timer
\* at its head.
LEMMA InsertPreserves ==
    ASSUME IInv, NEW d \in Entry, NEW i \in 1..(Len(wait) + 1),
           InsertPosition(i, d), d.id = allocated + 1, d.when.sec > 0,
           allocated < MaxDefers,
           wait' = InsertAt(wait, i, d),
           timer' = IF i = 1 THEN TimerSet(d.when, timer) ELSE timer,
           allocated' = allocated + 1,
           UNCHANGED <<clock, done, running>>
    PROVE  IInv'
<1>0. TypeOK /\ WaitSorted /\ TimerNotEarly /\ TimerCoversHead /\ NotEarly /\ EntriesDistinct
  BY DEF IInv
<1>1. wait \in Seq(Entry) /\ Len(wait) \in Nat
  BY <1>0, LenProperties DEF TypeOK
<1>2. /\ wait' \in Seq(Entry) /\ Len(wait') = Len(wait) + 1 /\ wait' # << >>
      /\ Inserted(wait', wait, i, d)
      /\ \A j \in 1..Len(wait') :
           \/ j < i /\ j \in 1..Len(wait) /\ wait'[j] = wait[j]
           \/ j = i /\ wait'[j] = d
           \/ j > i /\ j - 1 \in 1..Len(wait) /\ wait'[j] = wait[j - 1]
  <2>1. wait' \in Seq(Entry) /\ Inserted(wait', wait, i, d)
    BY <1>1, InsertAtProperties
  <2>2. wait' # << >>
    BY <2>1, <1>1, EmptySeq DEF Inserted
  <2>. QED  BY <2>1, <2>2 DEF Inserted
<1>3. Head(wait') = wait'[1] /\ (wait # << >> => Head(wait) = wait[1] /\ Len(wait) > 0)
  BY <1>1, <1>2, EmptySeq
<1>4. timer \in Timespec /\ d.when \in Timespec /\ timer' \in Timespec
  <2>1. timer \in Timespec /\ d.when \in Timespec
    BY <1>0 DEF TypeOK, Entry
  <2>. QED  BY <2>1 DEF TimerSet
<1>5. TypeOK'
  BY <1>0, <1>2, <1>4 DEF TypeOK
<1>6. WaitSorted'
  <2>1. \A j \in 1..Len(wait) : wait[j].when.sec > 0
    BY <1>0 DEF WaitSorted
  <2>2. \A j \in 1..Len(wait') : wait'[j].when.sec > 0
    BY <1>2, <2>1
  <2>3. ASSUME NEW m \in 1..Len(wait'), NEW n \in 1..Len(wait'), m < n
        PROVE  ~Before(wait'[n].when, wait'[m].when)
    <3>1. /\ \A j \in 1..(i - 1) : Before(wait[j].when, d.when)
          /\ i <= Len(wait) => ~Before(wait[i].when, d.when)
          /\ \A j, l \in 1..Len(wait) : j < l => ~Before(wait[l].when, wait[j].when)
      BY <1>0 DEF WaitSorted, InsertPosition
    <3>. QED  BY <1>1, <1>2, <2>3, <3>1, InsertSorted
  <2>. QED  BY <2>2, <2>3 DEF WaitSorted
<1>7. TimerNotEarly' /\ TimerCoversHead'
  <2>1. CASE i = 1
    <3>1. Head(wait') = d
      BY <1>1, <1>2, <1>3, <2>1
    <3>2. timer' = IF Valid(d.when) THEN d.when ELSE timer
      BY <2>1 DEF TimerSet
    <3>3. ~Before(d.when, d.when)
      BY <1>4, NotBeforeOrder
    <3>4. timer # Disarmed => ~Before(timer, d.when)
      <4> SUFFICES ASSUME timer # Disarmed PROVE ~Before(timer, d.when)
        OBVIOUS
      <4>1. wait # << >> /\ ~Before(timer, wait[1].when) /\ 1 \in 1..Len(wait)
        BY <1>0, <1>1, <1>3 DEF TimerNotEarly
      <4>2. ~Before(wait[1].when, d.when) /\ wait[1].when \in Timespec
        <5>1. wait[1] \in Entry
          BY <4>1, <1>1, ElementOfSeq
        <5>. QED  BY <4>1, <5>1, <1>1, <2>1 DEF InsertPosition, Entry
      <4>. QED  BY <4>1, <4>2, <1>4, NotBeforeOrder
    <3>. QED  BY <1>2, <3>1, <3>2, <3>3, <3>4 DEF TimerNotEarly, TimerCoversHead
  <2>2. CASE i # 1
    <3>1. wait # << >> /\ wait'[1] = wait[1] /\ timer' = timer
      BY <1>1, <1>2, <2>2, EmptySeq
    <3>. QED  BY <1>0, <1>2, <1>3, <3>1 DEF TimerNotEarly, TimerCoversHead
  <2>. QED  BY <2>1, <2>2
<1>8. NotEarly'
  BY <1>0 DEF NotEarly
<1>9. EntriesDistinct'
  <2>1. MaxDefers \in Nat /\ allocated \in Nat /\ allocated' = allocated + 1 /\ done' = done
    BY <1>0, DeferAssumption DEF TypeOK
  <2>2. /\ allocated <= MaxDefers
        /\ \A j \in 1..Len(wait) : wait[j].id \in 1..allocated
        /\ \A j \in 1..Len(done) : done[j].id \in 1..allocated
        /\ \A j, l \in 1..Len(wait) : wait[j].id = wait[l].id => j = l
        /\ \A j, l \in 1..Len(done) : done[j].id = done[l].id => j = l
        /\ \A j \in 1..Len(wait), l \in 1..Len(done) : wait[j].id # done[l].id
    BY <1>0 DEF EntriesDistinct
  <2>3. /\ \A j \in 1..Len(wait) : wait[j].id # d.id
        /\ \A l \in 1..Len(done) : done[l].id # d.id
    BY <2>1, <2>2
  <2>4. \A j \in 1..Len(wait') : wait'[j].id \in 1..allocated'
    BY <1>2, <2>1, <2>2
  <2>5. ASSUME NEW m \in 1..Len(wait'), NEW n \in 1..Len(wait'),
               wait'[m].id = wait'[n].id
        PROVE  m = n
    <3>. QED  BY <1>1, <1>2, <2>2, <2>3, <2>5, InsertDistinct
  <2>6. ASSUME NEW j \in 1..Len(wait'), NEW l \in 1..Len(done)
        PROVE  wait'[j].id # done[l].id
    <3>1. CASE wait'[j] = d
      BY <2>3, <3>1
    <3>2. CASE \E h \in 1..Len(wait) : wait'[j] = wait[h]
      BY <2>2, <3>2
    <3>3. wait'[j] = d \/ \E h \in 1..Len(wait) : wait'[j] = wait[h]
      BY <1>2
    <3>. QED  BY <3>1, <3>2, <3>3
  <2>7. allocated' <= MaxDefers /\ \A j \in 1..Len(done) : done[j].id \in 1..allocated'
    BY <2>1, <2>2
  <2>. QED  BY <2>1, <2>2, <2>4, <2>5, <2>6, <2>7 DEF EntriesDistinct
<1>. QED  BY <1>5, <1>6, <1>7, <1>8, <1>9 DEF IInv

\* Appending an entry with a new name whose time has come to deferred_done.
LEMMA AppendReady ==
    ASSUME NEW q \in Seq(Entry), NEW d \in Entry
    PROVE  /\ Append(q, d) \in Seq(Entry) /\ Append(q, d) # << >>
           /\ Len(Append(q, d)) = Len(q) + 1 /\ Len(q) \in Nat
           /\ \A j \in 1..Len(Append(q, d)) :
                \/ j \in 1..Len(q) /\ Append(q, d)[j] = q[j]
                \/ j = Len(q) + 1 /\ Append(q, d)[j] = d
           /\ q # << >> => Head(Append(q, d)) = Head(q)
  OBVIOUS

\* Removing the head of a list of entries.
LEMMA TailShifts ==
    ASSUME NEW q \in Seq(Entry), q # << >>
    PROVE  /\ Tail(q) \in Seq(Entry) /\ Len(Tail(q)) = Len(q) - 1 /\ Len(q) \in Nat \ {0}
           /\ \A j \in 1..Len(Tail(q)) : j + 1 \in 1..Len(q) /\ Tail(q)[j] = q[j + 1]
           /\ Head(q) = q[1] /\ q[1] \in Entry
           /\ Tail(q) # << >> => Head(Tail(q)) = q[2] /\ 2 \in 1..Len(q)
<1>1. /\ Tail(q) \in Seq(Entry) /\ Len(Tail(q)) = Len(q) - 1
      /\ \A j \in 1..Len(Tail(q)) : Tail(q)[j] = q[j + 1]
      /\ Head(q) \in Entry
  BY HeadTailProperties
<1>2. Len(q) \in Nat \ {0}
  BY EmptySeq
<1>3. Head(q) = q[1]
  BY <1>2
<1>4. ASSUME Tail(q) # << >>
      PROVE  Head(Tail(q)) = q[2] /\ 2 \in 1..Len(q)
  <2>1. Len(Tail(q)) \in Nat \ {0}
    BY <1>1, <1>4, EmptySeq
  <2>2. Head(Tail(q)) = Tail(q)[1]
    BY <1>1, <2>1
  <2>. QED  BY <1>1, <1>2, <2>1, <2>2
<1>. QED  BY <1>1, <1>2, <1>3, <1>4

\* xde_defer_action.
LEMMA DeferActionPreserves ==
    ASSUME IInv, NEW k \in Keys, NEW delay \in Delays, NEW s \in Screens,
           DeferAction(k, delay, s)
    PROVE  IInv'
<1> DEFINE d == NewEntry(k, delay, s)
<1>0. TypeOK /\ WaitSorted /\ TimerNotEarly /\ TimerCoversHead /\ NotEarly /\ EntriesDistinct
  BY DEF IInv
<1>1. /\ d \in Entry /\ d.id = allocated + 1 /\ d.when.sec > 0
      /\ delay = 0 => d.when = clock
  BY <1>0, NewEntryProperties
<1>2. /\ allocated < MaxDefers /\ allocated' = allocated + 1
      /\ UNCHANGED <<clock, running>>
      /\ \/ /\ \E i \in 1..(Len(wait) + 1) :
                 /\ InsertPosition(i, d)
                 /\ wait' = InsertAt(wait, i, d)
                 /\ timer' = IF i = 1 THEN TimerSet(d.when, timer) ELSE timer
            /\ UNCHANGED done
         \/ delay = 0 /\ done' = Append(done, d) /\ UNCHANGED <<wait, timer>>
  BY DEF DeferAction
<1> HIDE DEF d
<1>3. CASE /\ \E i \in 1..(Len(wait) + 1) :
                 /\ InsertPosition(i, d)
                 /\ wait' = InsertAt(wait, i, d)
                 /\ timer' = IF i = 1 THEN TimerSet(d.when, timer) ELSE timer
           /\ UNCHANGED done
  <2>1. PICK i \in 1..(Len(wait) + 1) :
               /\ InsertPosition(i, d)
               /\ wait' = InsertAt(wait, i, d)
               /\ timer' = IF i = 1 THEN TimerSet(d.when, timer) ELSE timer
    BY <1>3
  <2>. QED  BY <1>1, <1>2, <1>3, <2>1, InsertPreserves
<1>4. CASE delay = 0 /\ done' = Append(done, d) /\ UNCHANGED <<wait, timer>>
  <2>1. done \in Seq(Entry)
    BY <1>0 DEF TypeOK
  <2>2. /\ done' \in Seq(Entry) /\ done' # << >>
        /\ Len(done') = Len(done) + 1 /\ Len(done) \in Nat
        /\ \A j \in 1..Len(done') :
             \/ j \in 1..Len(done) /\ done'[j] = done[j]
             \/ j = Len(done) + 1 /\ done'[j] = d
    BY <1>1, <1>4, <2>1, AppendReady
  <2>3. TypeOK'
    BY <1>0, <1>2, <1>4, <2>2 DEF TypeOK
  <2>4. WaitSorted' /\ TimerNotEarly' /\ TimerCoversHead'
    BY <1>0, <1>4 DEF WaitSorted, TimerNotEarly, TimerCoversHead
  <2>5. NotEarly'
    <3>1. ~Before(clock, clock)
      BY <1>0 DEF TypeOK, Before
    <3>2. clock' = clock /\ d.when = clock
      BY <1>1, <1>2, <1>4
    <3>. QED  BY <1>0, <2>2, <3>1, <3>2 DEF NotEarly
  <2>6. EntriesDistinct'
    <3>1. /\ MaxDefers \in Nat /\ allocated \in Nat /\ allocated' = allocated + 1
          /\ allocated < MaxDefers /\ wait' = wait
      BY <1>0, <1>2, <1>4, DeferAssumption DEF TypeOK
    <3>2. /\ \A j \in 1..Len(wait) : wait[j].id \in 1..allocated
          /\ \A j \in 1..Len(done) : done[j].id \in 1..allocated
          /\ \A j, l \in 1..Len(wait) : wait[j].id = wait[l].id => j = l
          /\ \A j, l \in 1..Len(done) : done[j].id = done[l].id => j = l
          /\ \A j \in 1..Len(wait), l \in 1..Len(done) : wait[j].id # done[l].id
      BY <1>0 DEF EntriesDistinct
    <3>3. \A j \in 1..Len(done') : done'[j].id \in 1..allocated'
      BY <1>1, <2>2, <3>1, <3>2
    <3>4. \A j, l \in 1..Len(done') : done'[j].id = done'[l].id => j = l
      <4>1. \A j \in 1..Len(done) : done[j].id # d.id
        BY <1>1, <3>1, <3>2
      <4>. QED  BY <2>2, <3>2, <4>1
    <3>5. \A j \in 1..Len(wait), l \in 1..Len(done') : wait[j].id # done'[l].id
      <4>1. \A j \in 1..Len(wait) : wait[j].id # d.id
        BY <1>1, <3>1, <3>2
      <4>. QED  BY <2>2, <3>2, <4>1
    <3>6. allocated' <= MaxDefers /\ \A j \in 1..Len(wait) : wait[j].id \in 1..allocated'
      BY <3>1, <3>2
    <3>. QED  BY <3>1, <3>2, <3>3, <3>4, <3>5, <3>6 DEF EntriesDistinct
  <2>. QED  BY <2>3, <2>4, <2>5, <2>6 DEF IInv
<1>. QED  BY <1>2, <1>3, <1>4

\* xde_process_timeouts: the timer has expired and was never set for a time
\* before the head's, so the head is due.
LEMMA ProcessTimeoutsPreserves ==
    ASSUME IInv, ProcessTimeouts
    PROVE  IInv'
<1>0. TypeOK /\ WaitSorted /\ TimerNotEarly /\ TimerCoversHead /\ NotEarly /\ EntriesDistinct
  BY DEF IInv
<1>1. /\ wait # << >> /\ wait' = Tail(wait) /\ done' = Append(done, Head(wait))
      /\ timer # Disarmed /\ ~Before(clock, timer)
      /\ timer' = IF wait' = << >> THEN Disarmed ELSE TimerSet(Head(wait').when, Disarmed)
      /\ UNCHANGED <<clock, running, allocated>> /\ running = FALSE
  BY <1>0 DEF ProcessTimeouts, Rearmed, TypeOK
<1>2. wait \in Seq(Entry) /\ done \in Seq(Entry) /\ timer \in Timespec
  BY <1>0 DEF TypeOK
<1>3. /\ wait' \in Seq(Entry) /\ Len(wait') = Len(wait) - 1 /\ Len(wait) \in Nat \ {0}
      /\ \A j \in 1..Len(wait') : j + 1 \in 1..Len(wait) /\ wait'[j] = wait[j + 1]
      /\ Head(wait) = wait[1] /\ wait[1] \in Entry
      /\ wait' # << >> => Head(wait') = wait[2] /\ 2 \in 1..Len(wait)
  BY <1>1, <1>2, TailShifts
<1>4. /\ done' \in Seq(Entry) /\ done' # << >>
      /\ Len(done') = Len(done) + 1 /\ Len(done) \in Nat
      /\ \A j \in 1..Len(done') :
           \/ j \in 1..Len(done) /\ done'[j] = done[j]
           \/ j = Len(done) + 1 /\ done'[j] = wait[1]
  BY <1>1, <1>2, <1>3, AppendReady
<1>5. ASSUME wait' # << >>
      PROVE  Head(wait').when \in Timespec
  <2>1. Head(wait') = wait[2] /\ wait[2] \in Entry
    BY <1>2, <1>3, <1>5, ElementOfSeq
  <2>. QED  BY <2>1 DEF Entry
<1>6. Disarmed \in Timespec
  BY DeferAssumption DEF Disarmed, Timespec
<1>7. TypeOK'
  BY <1>0, <1>1, <1>3, <1>4, <1>5, <1>6 DEF TypeOK, TimerSet
<1>8. WaitSorted'
  <2>1. /\ \A j \in 1..Len(wait) : wait[j].when.sec > 0
        /\ \A j, l \in 1..Len(wait) : j < l => ~Before(wait[l].when, wait[j].when)
    BY <1>0 DEF WaitSorted
  <2>2. \A j \in 1..Len(wait') : wait'[j].when.sec > 0
    BY <1>3, <2>1
  <2>3. ASSUME NEW j \in 1..Len(wait'), NEW l \in 1..Len(wait'), j < l
        PROVE  ~Before(wait'[l].when, wait'[j].when)
    <3>1. /\ j + 1 \in 1..Len(wait) /\ l + 1 \in 1..Len(wait) /\ j + 1 < l + 1
          /\ wait'[j] = wait[j + 1] /\ wait'[l] = wait[l + 1]
      BY <1>3, <2>3
    <3>2. ~Before(wait[l + 1].when, wait[j + 1].when)
      BY <2>1, <3>1
    <3>. QED  BY <3>1, <3>2
  <2>. QED  BY <2>2, <2>3 DEF WaitSorted
<1>9. TimerNotEarly' /\ TimerCoversHead'
  <2>1. CASE wait' = << >>
    BY <1>1, <2>1 DEF TimerNotEarly, TimerCoversHead
  <2>2. CASE wait' # << >>
    <3>1. timer' = IF Valid(Head(wait').when) THEN Head(wait').when ELSE Disarmed
      BY <1>1, <2>2 DEF TimerSet
    <3>2. ~Before(Head(wait').when, Head(wait').when)
      BY <1>5, <2>2, NotBeforeOrder
    <3>. QED  BY <2>2, <3>1, <3>2 DEF TimerNotEarly, TimerCoversHead
  <2>. QED  BY <2>1, <2>2
<1>10. NotEarly'
  <2>1. ~Before(timer, wait[1].when) /\ wait[1].when \in Timespec
    BY <1>0, <1>1, <1>3 DEF TimerNotEarly, Entry
  <2>2. clock \in Timespec
    BY <1>0, DeferAssumption DEF TypeOK, Timespec
  <2>3. ~Before(clock, wait[1].when)
    BY <1>1, <1>2, <2>1, <2>2, NotBeforeOrder
  <2>. QED  BY <1>0, <1>1, <1>4, <2>3 DEF NotEarly
<1>11. EntriesDistinct'
  <2>1. /\ allocated' = allocated /\ allocated <= MaxDefers
        /\ \A j \in 1..Len(wait) : wait[j].id \in 1..allocated
        /\ \A j \in 1..Len(done) : done[j].id \in 1..allocated
        /\ \A j, l \in 1..Len(wait) : wait[j].id = wait[l].id => j = l
        /\ \A j, l \in 1..Len(done) : done[j].id = done[l].id => j = l
        /\ \A j \in 1..Len(wait), l \in 1..Len(done) : wait[j].id # done[l].id
    BY <1>0, <1>1 DEF EntriesDistinct
  <2>2. 1 \in 1..Len(wait)
    BY <1>3
  <2>3. \A j \in 1..Len(wait') : wait'[j].id \in 1..allocated
    BY <1>3, <2>1
  <2>4. \A j \in 1..Len(done') : done'[j].id \in 1..allocated
    BY <1>4, <2>1, <2>2
  <2>5. ASSUME NEW j \in 1..Len(wait'), NEW l \in 1..Len(wait'),
               wait'[j].id = wait'[l].id
        PROVE  j = l
    <3>1. /\ j + 1 \in 1..Len(wait) /\ wait'[j] = wait[j + 1]
          /\ l + 1 \in 1..Len(wait) /\ wait'[l] = wait[l + 1]
      BY <1>3
    <3>2. j + 1 = l + 1
      BY <2>1, <2>5, <3>1
    <3>. QED  BY <3>2
  <2>6. \A j, l \in 1..Len(done') : done'[j].id = done'[l].id => j = l
    BY <1>4, <2>1, <2>2
  <2>7. \A j \in 1..Len(wait'), l \in 1..Len(done') : wait'[j].id # done'[l].id
    <3> SUFFICES ASSUME NEW j \in 1..Len(wait'), NEW l \in 1..Len(done')
                 PROVE  wait'[j].id # done'[l].id
      OBVIOUS
    <3>1. j + 1 \in 1..Len(wait) /\ wait'[j] = wait[j + 1] /\ j + 1 # 1
      BY <1>3
    <3>. QED  BY <1>4, <2>1, <2>2, <3>1
  <2>. QED  BY <2>1, <2>3, <2>4, <2>5, <2>6, <2>7 DEF EntriesDistinct
<1>. QED  BY <1>7, <1>8, <1>9, <1>10, <1>11 DEF IInv

\* An action returns and its entry is freed.
LEMMA ActionReturnsPreserves ==
    ASSUME IInv, ActionReturns
    PROVE  IInv'
<1>0. TypeOK /\ WaitSorted /\ TimerNotEarly /\ TimerCoversHead /\ NotEarly /\ EntriesDistinct
  BY DEF IInv
<1>1. /\ done \in Seq(Entry) /\ done # << >> /\ done' = Tail(done)
      /\ running' = (done' # << >>) /\ UNCHANGED <<clock, wait, timer, allocated>>
  BY <1>0 DEF ActionReturns, TypeOK
<1>2. /\ done' \in Seq(Entry) /\ Len(done') = Len(done) - 1 /\ Len(done) \in Nat
      /\ \A j \in 1..Len(done') : j + 1 \in 1..Len(done) /\ done'[j] = done[j + 1]
  BY <1>1, TailShifts
<1>3. TypeOK'
  BY <1>0, <1>1, <1>2 DEF TypeOK
<1>4. WaitSorted' /\ TimerNotEarly' /\ TimerCoversHead'
  BY <1>0, <1>1 DEF WaitSorted, TimerNotEarly, TimerCoversHead
<1>5. NotEarly'
  BY <1>0, <1>1, <1>2 DEF NotEarly
<1>6. EntriesDistinct'
  <2>1. \A j, l \in 1..Len(done) : done[j].id = done[l].id => j = l
    BY <1>0 DEF EntriesDistinct
  <2>2. \A j, l \in 1..Len(done') : done'[j].id = done'[l].id => j = l
    BY <1>2, <2>1
  <2>. QED  BY <1>0, <1>1, <1>2, <2>2 DEF EntriesDistinct
<1>. QED  BY <1>3, <1>4, <1>5, <1>6 DEF IInv

\* Time passing makes nothing early.
LEMMA TickPreserves ==
    ASSUME IInv, Tick
    PROVE  IInv' /\ Before(clock, clock')
<1>0. TypeOK /\ WaitSorted /\ TimerNotEarly /\ TimerCoversHead /\ NotEarly /\ EntriesDistinct
  BY DEF IInv
<1>1. clock.sec \in Nat \ {0} /\ clock.nsec \in 0..(TicksPerSec - 1) /\ TicksPerSec \in Nat \ {0}
  BY <1>0, DeferAssumption DEF TypeOK
<1>2. clock' \in [sec : Nat \ {0}, nsec : 0..(TicksPerSec - 1)] /\ Before(clock, clock')
  BY <1>0, <1>1 DEF Tick, TypeOK, Before
<1>3. UNCHANGED <<wait, done, timer, running, allocated>>
  BY DEF Tick
<1>4. TypeOK'
  BY <1>0, <1>2, <1>3 DEF TypeOK
<1>5. WaitSorted' /\ TimerNotEarly' /\ TimerCoversHead' /\ EntriesDistinct'
  BY <1>0, <1>3 DEF WaitSorted, TimerNotEarly, TimerCoversHead, EntriesDistinct
<1>6. NotEarly'
  <2> SUFFICES ASSUME NEW i \in 1..Len(done) PROVE ~Before(clock', done[i].when)
    BY <1>3 DEF NotEarly
  <2>1. ~Before(clock, done[i].when) /\ done[i] \in Entry
    BY <1>0, ElementOfSeq DEF NotEarly, TypeOK
  <2>2. clock \in Timespec /\ clock' \in Timespec
    <3>1. \A c \in [sec : Nat \ {0}, nsec : 0..(TicksPerSec - 1)] : c \in Timespec
      BY <1>1 DEF Timespec
    <3>. QED  BY <1>0, <1>2, <3>1 DEF TypeOK
  <2>3. done[i].when \in Timespec
    BY <2>1 DEF Entry
  <2>. QED  BY <1>2, <2>1, <2>2, <2>3, NotBeforeOrder
<1>. QED  BY <1>2, <1>4, <1>5, <1>6 DEF IInv

-----------------------------------------------------------------------------
\* Every reachable state satisfies the inductive invariant.
THEOREM Invariance == Spec => []IInv
<1>1. Init => IInv
  <2> SUFFICES ASSUME Init PROVE IInv
    OBVIOUS
  <2>1. << >> \in Seq(Entry) /\ Len(<< >>) = 0 /\ Disarmed \in Timespec
    BY DeferAssumption, EmptySeq DEF Disarmed, Timespec
  <2>2. TypeOK
    <3>1. clock \in [sec : Nat \ {0}, nsec : 0..(TicksPerSec - 1)]
      BY DeferAssumption DEF Init
    <3>. QED  BY <2>1, <3>1 DEF Init, TypeOK
  <2>3. WaitSorted /\ TimerNotEarly /\ TimerCoversHead /\ NotEarly
    BY <2>1 DEF Init, WaitSorted, TimerNotEarly, TimerCoversHead, NotEarly
  <2>4. EntriesDistinct
    BY <2>1, DeferAssumption DEF Init, EntriesDistinct
  <2>. QED  BY <2>2, <2>3, <2>4 DEF IInv
<1>2. IInv /\ [Next]_vars => IInv'
  <2> SUFFICES ASSUME IInv, [Next]_vars PROVE IInv'
    OBVIOUS
  <2>1. CASE Defer
    <3>1. PICK delay \in Delays, s \in Screens, k \in Keys : DeferAction(k, delay, s)
      BY <2>1, DeferAssumption DEF Defer, DeferOnce
    <3>. QED  BY <3>1, DeferActionPreserves
  <2>2. CASE ProcessTimeouts
    BY <2>2, ProcessTimeoutsPreserves
  <2>3. CASE BeginDeferred
    <3>1. /\ TypeOK /\ WaitSorted /\ TimerNotEarly /\ TimerCoversHead /\ NotEarly
          /\ EntriesDistinct
      BY DEF IInv
    <3>2. done # << >> /\ running' = TRUE /\ UNCHANGED <<clock, wait, done, timer, allocated>>
      BY <2>3 DEF BeginDeferred
    <3>3. TypeOK'
      BY <3>1, <3>2 DEF TypeOK
    <3>4. WaitSorted' /\ TimerNotEarly' /\ TimerCoversHead' /\ NotEarly' /\ EntriesDistinct'
      BY <3>1, <3>2
      DEF WaitSorted, TimerNotEarly, TimerCoversHead, NotEarly, EntriesDistinct
    <3>. QED  BY <3>3, <3>4 DEF IInv
  <2>4. CASE ActionReturns
    BY <2>4, ActionReturnsPreserves
  <2>5. CASE Tick
    BY <2>5, TickPreserves
  <2>6. CASE UNCHANGED vars
    <3>1. /\ TypeOK /\ WaitSorted /\ TimerNotEarly /\ TimerCoversHead /\ NotEarly
          /\ EntriesDistinct
      BY DEF IInv
    <3>2. UNCHANGED <<clock, wait, done, timer, running, allocated>>
      BY <2>6 DEF vars
    <3>3. TypeOK'
      BY <3>1, <3>2 DEF TypeOK
    <3>4. WaitSorted' /\ TimerNotEarly' /\ TimerCoversHead' /\ NotEarly' /\ EntriesDistinct'
      BY <3>1, <3>2
      DEF WaitSorted, TimerNotEarly, TimerCoversHead, NotEarly, EntriesDistinct
    <3>. QED  BY <3>3, <3>4 DEF IInv
  <2>. QED  BY <2>1, <2>2, <2>3, <2>4, <2>5, <2>6 DEF Next
<1>. QED  BY <1>1, <1>2, PTL DEF Spec

\* The clock, the lists and the timer hold what they are meant to, and an
\* action that runs is the head of the ready list.
THEOREM Typing == Spec => []TypeOK
<1>1. IInv => TypeOK
  BY DEF IInv
<1>. QED  BY <1>1, Invariance, PTL

\* No deferred action becomes ready before its delay has passed.
THEOREM NeverEarly == Spec => []NotEarly
<1>1. IInv => NotEarly
  BY DEF IInv
<1>. QED  BY <1>1, Invariance, PTL

\* The timer is always set for the head of the waiting actions, unless its
\* time is one that timerfd_settime refuses.
THEOREM TimerAlwaysCovers == Spec => []TimerCoversHead
<1>1. IInv => TimerCoversHead
  BY DEF IInv
<1>. QED  BY <1>1, Invariance, PTL

-----------------------------------------------------------------------------
(***************************************************************************)
(* Actions deferred through xde_defer_once do not pile up.                 *)
(***************************************************************************)
\* OnceBounded for one key and a pair of lists.
Bounded(w, r, k) ==
    /\ \A i, j \in 1..Len(w) : w[i].key = k /\ w[j].key = k => i = j
    /\ \A i, j, l \in 1..Len(r) :
          r[i].key = k /\ r[j].key = k /\ r[l].key = k => i = j \/ j = l \/ i = l
    /\ \A h \in 1..Len(w), i, j \in 1..Len(r) :
          w[h].key = k /\ r[i].key = k /\ r[j].key = k => i = j

LEMMA BoundedEach == OnceBounded <=> \A k \in OnceKeys : Bounded(wait, done, k)
  BY DEF OnceBounded, Bounded

\* Queueing an entry, refused or not by xde_defer_once as its key and delay
\* require, keeps the bound.
LEMMA DeferKeepsBounded ==
    ASSUME TypeOK, OnceBounded, Defer
    PROVE  OnceBounded'
<1>1. PICK delay \in Delays, s \in Screens, key \in Keys :
        /\ DeferAction(key, delay, s)
        /\ key \in OnceKeys => ~OnceRefused(key, delay)
  BY DeferAssumption DEF Defer, DeferOnce
<1> DEFINE d == NewEntry(key, delay, s)
<1>2. d \in Entry /\ d.key = key /\ wait \in Seq(Entry) /\ done \in Seq(Entry)
  BY NewEntryProperties DEF TypeOK
<1>3. Len(wait) \in Nat /\ Len(done) \in Nat
  BY <1>2, LenProperties
<1>4. delay \in Nat
  BY DeferAssumption
<1>5. \/ /\ delay > 0 /\ done' = done
         /\ \E i \in 1..(Len(wait) + 1) : wait' = InsertAt(wait, i, d)
      \/ delay = 0 /\ wait' = wait /\ done' = Append(done, d)
  BY <1>1 DEF DeferAction
<1> HIDE DEF d
<1> SUFFICES ASSUME NEW k \in OnceKeys PROVE Bounded(wait, done, k)'
  BY BoundedEach DEF OnceBounded, Bounded
<1>6. Bounded(wait, done, k)
  BY BoundedEach
<1>7. CASE delay > 0 /\ done' = done /\ \E i \in 1..(Len(wait) + 1) : wait' = InsertAt(wait, i, d)
  <2>1. PICK i \in 1..(Len(wait) + 1) : wait' = InsertAt(wait, i, d)
    BY <1>7
  <2>2. \A j \in 1..Len(wait') :
           \/ j < i /\ j \in 1..Len(wait) /\ wait'[j] = wait[j]
           \/ j = i /\ wait'[j] = d
           \/ j > i /\ j - 1 \in 1..Len(wait) /\ wait'[j] = wait[j - 1]
    <3>1. Inserted(wait', wait, i, d)
      BY <1>2, <2>1, InsertAtProperties
    <3>. QED  BY <3>1 DEF Inserted
  <2>3. Len(wait') \in Nat
    BY <1>2, <1>3, <2>1, InsertAtProperties DEF Inserted
  <2>4. CASE key = k
    <3>1. /\ \A j \in 1..Len(wait) : wait[j].key # k
          /\ \A j \in 1..Len(done) : done[j].key # k
      BY <1>1, <1>7, <2>4 DEF OnceRefused, DeferredIn
    <3>2. \A j \in 1..Len(wait') : wait'[j].key = k => j = i
      BY <1>3, <2>2, <2>3, <3>1
    <3>. QED  BY <1>7, <3>1, <3>2 DEF Bounded
  <2>5. CASE key # k
    <3>1. \A j \in 1..Len(wait') : wait'[j].key = k =>
            \/ j < i /\ j \in 1..Len(wait) /\ wait[j].key = k
            \/ j > i /\ j - 1 \in 1..Len(wait) /\ wait[j - 1].key = k
      BY <1>2, <2>2, <2>5
    <3>2. \A h, j \in 1..Len(wait) : wait[h].key = k /\ wait[j].key = k => h = j
      BY <1>6 DEF Bounded
    <3>3. ASSUME NEW h \in 1..Len(wait'), NEW j \in 1..Len(wait'),
                 wait'[h].key = k, wait'[j].key = k
          PROVE  h = j
      <4>1. CASE h < i
        BY <1>3, <2>3, <3>1, <3>2, <3>3, <4>1
      <4>2. CASE h > i
        BY <1>3, <2>3, <3>1, <3>2, <3>3, <4>2
      <4>. QED  BY <3>1, <3>3, <4>1, <4>2
    <3>4. \A h \in 1..Len(wait') : wait'[h].key = k => \E j \in 1..Len(wait) : wait[j].key = k
      BY <3>1
    <3>. QED  BY <1>6, <1>7, <3>3, <3>4 DEF Bounded
  <2>. QED  BY <2>4, <2>5
<1>8. CASE delay = 0 /\ wait' = wait /\ done' = Append(done, d)
  <2>1. /\ Len(done') = Len(done) + 1
        /\ \A j \in 1..Len(done') :
             \/ j \in 1..Len(done) /\ done'[j] = done[j]
             \/ j = Len(done) + 1 /\ done'[j] = d
    BY <1>2, <1>8, AppendReady
  <2>2. CASE key = k
    <3>1. \A j \in 1..Len(done) : done[j].key # k
      BY <1>1, <1>8, <2>2 DEF OnceRefused, DeferredIn
    <3>2. \A j \in 1..Len(done') : done'[j].key = k => j = Len(done) + 1
      BY <2>1, <3>1
    <3>. QED  BY <1>6, <1>8, <3>2 DEF Bounded
  <2>3. CASE key # k
    <3>1. \A j \in 1..Len(done') : done'[j].key = k => j \in 1..Len(done) /\ done[j].key = k
      BY <1>2, <2>1, <2>3
    <3>. QED  BY <1>6, <1>8, <3>1 DEF Bounded
  <2>. QED  BY <2>2, <2>3
<1>. QED  BY <1>5, <1>7, <1>8

\* An expired entry moves to deferred_done, which held at most one of its
\* key while it waited.
LEMMA TimeoutsKeepBounded ==
    ASSUME TypeOK, OnceBounded, ProcessTimeouts
    PROVE  OnceBounded'
<1>1. /\ wait \in Seq(Entry) /\ done \in Seq(Entry) /\ wait # << >>
      /\ wait' = Tail(wait) /\ done' = Append(done, Head(wait))
  BY DEF ProcessTimeouts, TypeOK
<1>2. /\ Len(wait) \in Nat \ {0} /\ Len(wait') = Len(wait) - 1
      /\ \A j \in 1..Len(wait') : j + 1 \in 1..Len(wait) /\ wait'[j] = wait[j + 1]
      /\ Head(wait) = wait[1] /\ wait[1] \in Entry
  BY <1>1, TailShifts
<1>3. /\ Len(done) \in Nat /\ Len(done') = Len(done) + 1
      /\ \A j \in 1..Len(done') :
           \/ j \in 1..Len(done) /\ done'[j] = done[j]
           \/ j = Len(done) + 1 /\ done'[j] = wait[1]
  BY <1>1, <1>2, AppendReady
<1> SUFFICES ASSUME NEW k \in OnceKeys PROVE Bounded(wait, done, k)'
  BY BoundedEach DEF OnceBounded, Bounded
<1>4. /\ \A i, j \in 1..Len(wait) : wait[i].key = k /\ wait[j].key = k => i = j
      /\ \A i, j, l \in 1..Len(done) : done[i].key = k /\ done[j].key = k /\ done[l].key = k
            => i = j \/ j = l \/ i = l
      /\ \A h \in 1..Len(wait), i, j \in 1..Len(done) :
            wait[h].key = k /\ done[i].key = k /\ done[j].key = k => i = j
  BY BoundedEach DEF Bounded
<1>5. 1 \in 1..Len(wait)
  BY <1>2
<1>6. CASE wait[1].key = k
  <2>1. \A j \in 1..Len(wait') : wait'[j].key # k
    <3> SUFFICES ASSUME NEW j \in 1..Len(wait'), wait'[j].key = k PROVE FALSE
      OBVIOUS
    <3>1. j + 1 \in 1..Len(wait) /\ wait[j + 1].key = k
      BY <1>2
    <3>2. j + 1 = 1
      BY <1>4, <1>5, <1>6, <3>1
    <3>. QED  BY <1>2, <3>2
  <2>2. \A i, j \in 1..Len(done) : done[i].key = k /\ done[j].key = k => i = j
    BY <1>4, <1>5, <1>6
  <2>3. \A i, j, l \in 1..Len(done') : done'[i].key = k /\ done'[j].key = k /\ done'[l].key = k
           => i = j \/ j = l \/ i = l
    BY <1>3, <2>2
  <2>. QED  BY <2>1, <2>3 DEF Bounded
<1>7. CASE wait[1].key # k
  <2>1. \A j \in 1..Len(done') : done'[j].key = k => j \in 1..Len(done) /\ done[j].key = k
    BY <1>3, <1>7
  <2>2. \A j \in 1..Len(wait') : wait'[j].key = k => j + 1 \in 1..Len(wait) /\ wait[j + 1].key = k
    BY <1>2
  <2>3. \A i, j \in 1..Len(wait') : wait'[i].key = k /\ wait'[j].key = k => i = j
    <3> SUFFICES ASSUME NEW i \in 1..Len(wait'), NEW j \in 1..Len(wait'),
                        wait'[i].key = k, wait'[j].key = k
                 PROVE  i = j
      OBVIOUS
    <3>1. i + 1 = j + 1
      BY <1>4, <2>2
    <3>. QED  BY <1>2, <3>1
  <2>. QED  BY <1>4, <2>1, <2>2, <2>3 DEF Bounded
<1>. QED  BY <1>6, <1>7

\* An action that returns leaves fewer.
LEMMA ReturnKeepsBounded ==
    ASSUME TypeOK, OnceBounded, ActionReturns
    PROVE  OnceBounded'
<1>1. done \in Seq(Entry) /\ done # << >> /\ done' = Tail(done) /\ wait' = wait
  BY DEF ActionReturns, TypeOK
<1>2. /\ Len(done) \in Nat /\ Len(done') = Len(done) - 1
      /\ \A j \in 1..Len(done') : j + 1 \in 1..Len(done) /\ done'[j] = done[j + 1]
  BY <1>1, TailShifts
<1> SUFFICES ASSUME NEW k \in OnceKeys PROVE Bounded(wait, done, k)'
  BY BoundedEach DEF OnceBounded, Bounded
<1>3. Bounded(wait, done, k)
  BY BoundedEach
<1>4. \A i, j, l \in 1..Len(done') : done'[i].key = k /\ done'[j].key = k /\ done'[l].key = k
         => i = j \/ j = l \/ i = l
  <2> SUFFICES ASSUME NEW i \in 1..Len(done'), NEW j \in 1..Len(done'), NEW l \in 1..Len(done'),
                      done'[i].key = k, done'[j].key = k, done'[l].key = k
               PROVE  i = j \/ j = l \/ i = l
    OBVIOUS
  <2>0. /\ i + 1 \in 1..Len(done) /\ done[i + 1].key = k
        /\ j + 1 \in 1..Len(done) /\ done[j + 1].key = k
        /\ l + 1 \in 1..Len(done) /\ done[l + 1].key = k
    BY <1>2
  <2>1. i + 1 = j + 1 \/ j + 1 = l + 1 \/ i + 1 = l + 1
    BY <2>0, <1>3 DEF Bounded
  <2>. QED  BY <1>2, <2>1
<1>5. \A h \in 1..Len(wait), i, j \in 1..Len(done') :
         wait[h].key = k /\ done'[i].key = k /\ done'[j].key = k => i = j
  <2> SUFFICES ASSUME NEW h \in 1..Len(wait), NEW i \in 1..Len(done'), NEW j \in 1..Len(done'),
                      wait[h].key = k, done'[i].key = k, done'[j].key = k
               PROVE  i = j
    OBVIOUS
  <2>0. /\ i + 1 \in 1..Len(done) /\ done[i + 1].key = k
        /\ j + 1 \in 1..Len(done) /\ done[j + 1].key = k
    BY <1>2
  <2>1. i + 1 = j + 1
    BY <2>0, <1>3 DEF Bounded
  <2>. QED  BY <1>2, <2>1
<1>. QED  BY <1>1, <1>3, <1>4, <1>5 DEF Bounded

\* However many events ask for a check, at most two of its kind are queued
\* and at most one of them waits for the timer.
THEOREM OnceNeverPilesUp == Spec => []OnceBounded
<1>1. Init => OnceBounded
  BY EmptySeq DEF Init, OnceBounded
<1>2. TypeOK /\ OnceBounded /\ [Next]_vars => OnceBounded'
  <2> SUFFICES ASSUME TypeOK, OnceBounded, [Next]_vars PROVE OnceBounded'
    OBVIOUS
  <2>1. CASE Defer
    BY <2>1, DeferKeepsBounded
  <2>2. CASE ProcessTimeouts
    BY <2>2, TimeoutsKeepBounded
  <2>3. CASE ActionReturns
    BY <2>3, ReturnKeepsBounded
  <2>4. CASE UNCHANGED <<wait, done>>
    BY <2>4 DEF OnceBounded
  <2>. QED  BY <2>1, <2>2, <2>3, <2>4 DEF Next, BeginDeferred, Tick, vars
<1>3. IInv => TypeOK
  BY DEF IInv
<1>. QED  BY <1>1, <1>2, <1>3, Invariance, PTL DEF Spec

-----------------------------------------------------------------------------
(***************************************************************************)
(* DeferQueue implements the safety part of DeferPromise.                  *)
(***************************************************************************)
\* What is owed, in the refinement mapping.
OwedNow == {Promised(d) : d \in NotInvoked}

\* Queueing an entry promises it at the time of the request plus the delay.
LEMMA DeferPromises ==
    ASSUME IInv, NEW k \in Keys, NEW delay \in Delays, NEW s \in Screens,
           DeferAction(k, delay, s)
    PROVE  Promise!Promise(k, delay, s)
<1> DEFINE d == NewEntry(k, delay, s)
<1>1. TypeOK /\ delay \in Nat
  BY DeferAssumption DEF IInv
<1>2. d \in Entry /\ d.id = allocated + 1 /\ d.key = k /\ d.screen = s /\ d.when = WhenDue(delay)
  BY <1>1, NewEntryProperties
<1>3. Promised(d) = [id |-> allocated + 1, key |-> k, screen |-> s,
                     due |-> Ticks(clock) + delay]
  BY <1>1, <1>2, WhenDueTicks DEF Promised
<1>4. /\ wait \in Seq(Entry) /\ done \in Seq(Entry) /\ Len(wait) \in Nat /\ Len(done) \in Nat
      /\ running \in BOOLEAN /\ (running => done # << >>)
  BY <1>1, LenProperties DEF TypeOK
<1>5. /\ UNCHANGED <<clock, running>> /\ allocated' = allocated + 1
      /\ \/ /\ done' = done
            /\ \E i \in 1..(Len(wait) + 1) : wait' = InsertAt(wait, i, d)
         \/ wait' = wait /\ done' = Append(done, d)
  BY DEF DeferAction
<1> HIDE DEF d
<1>6. NotInvoked' = NotInvoked \cup {d}
  <2>1. CASE done' = done /\ \E i \in 1..(Len(wait) + 1) : wait' = InsertAt(wait, i, d)
    <3>1. PICK i \in 1..(Len(wait) + 1) : wait' = InsertAt(wait, i, d)
      BY <2>1
    <3>2. wait \in Seq(Entry) /\ d \in Entry /\ i \in 1..(Len(wait) + 1)
      BY <1>2, <1>4, <3>1
    <3>3. Inserted(wait', wait, i, d)
      BY <3>1, <3>2, InsertAtProperties
    <3>4. ElementsOf(wait') = ElementsOf(wait) \cup {d}
      BY ONLY <3>2, <3>3, InsertedRange
    <3>. QED  BY <1>5, <2>1, <3>4 DEF NotInvoked, ElementsOf
  <2>2. CASE wait' = wait /\ done' = Append(done, d)
    <3> DEFINE first == IF running THEN 2 ELSE 1
    <3>1. /\ Len(done') = Len(done) + 1
          /\ \A j \in 1..Len(done') :
               \/ j \in 1..Len(done) /\ done'[j] = done[j]
               \/ j = Len(done) + 1 /\ done'[j] = d
      BY <1>2, <1>4, <2>2, AppendReady
    <3>2. first \in 1..(Len(done) + 1)
      BY <1>4, EmptySeq
    <3> HIDE DEF first
    <3>3. {done'[j] : j \in first..Len(done')} = {done[j] : j \in first..Len(done)} \cup {d}
      <4>1. \A j \in first..Len(done') :
              \/ j \in first..Len(done) /\ done'[j] = done[j]
              \/ j = Len(done) + 1 /\ done'[j] = d
        BY <1>4, <3>1, <3>2
      <4>2. \A j \in first..Len(done) : j \in first..Len(done') /\ done'[j] = done[j]
        BY <1>4, <3>1, <3>2
      <4>3. Len(done) + 1 \in first..Len(done') /\ done'[Len(done) + 1] = d
        BY <1>4, <3>1, <3>2
      <4>. QED  BY <4>1, <4>2, <4>3
    <3>. QED  BY <1>5, <2>2, <3>3 DEF NotInvoked, first
  <2>. QED  BY <1>5, <2>1, <2>2
<1>7. OwedNow' = OwedNow \cup {Promised(d)}
  BY <1>6 DEF OwedNow, Promised, Ticks
<1>8. Ticks(clock)' = Ticks(clock)
  BY <1>5 DEF Ticks
<1>. QED  BY <1>3, <1>5, <1>7, <1>8 DEF Promise!Promise, OwedNow

\* Beginning the action at the head of deferred_done invokes it.
LEMMA HeadInvoked ==
    ASSUME IInv, NEW first \in 1..Len(done),
           UNCHANGED <<clock, wait, allocated>>,
           NotInvoked = {wait[i] : i \in 1..Len(wait)} \cup {done[i] : i \in first..Len(done)},
           NotInvoked' = {wait[i] : i \in 1..Len(wait)} \cup {done[i] : i \in (first + 1)..Len(done)}
    PROVE  \E id \in 1..MaxDefers : Promise!Invoke(id)
<1> DEFINE d == done[first]
<1>1. TypeOK /\ NotEarly /\ EntriesDistinct
  BY DEF IInv
<1>2. /\ wait \in Seq(Entry) /\ done \in Seq(Entry) /\ Len(wait) \in Nat /\ Len(done) \in Nat
      /\ clock \in [sec : Nat, nsec : 0..(TicksPerSec - 1)]
      /\ allocated \in Nat /\ MaxDefers \in Nat
  <2>1. clock \in [sec : Nat, nsec : 0..(TicksPerSec - 1)]
    BY <1>1 DEF TypeOK
  <2>. QED  BY <1>1, <2>1, LenProperties, DeferAssumption DEF TypeOK
<1>3. d \in Entry /\ d.id \in 1..MaxDefers
  <2>1. d \in Entry
    BY <1>2, ElementOfSeq
  <2>. QED  BY <1>1, <1>2, <2>1 DEF EntriesDistinct
<1>4. /\ \A i \in 1..Len(wait) : wait[i].id # d.id
      /\ \A i \in (first + 1)..Len(done) : done[i].id # d.id
  <2>1. \A i \in 1..Len(done) : done[i].id = d.id => i = first
    BY <1>1 DEF EntriesDistinct
  <2>2. \A i \in (first + 1)..Len(done) : i \in 1..Len(done) /\ i # first
    BY <1>2
  <2>. QED  BY <1>1, <2>1, <2>2 DEF EntriesDistinct
<1>5. NotInvoked = NotInvoked' \cup {d}
  <2>1. \A i \in first..Len(done) : i = first \/ i \in (first + 1)..Len(done)
    BY <1>2
  <2>2. first \in first..Len(done) /\ \A i \in (first + 1)..Len(done) : i \in first..Len(done)
    BY <1>2
  <2>3. {done[i] : i \in first..Len(done)} = {done[i] : i \in (first + 1)..Len(done)} \cup {d}
    BY <2>1, <2>2
  <2>. QED  BY <2>3
<1>6. \A e \in NotInvoked' : e.id # d.id
  BY <1>4
<1>7. Promised(d).id = d.id /\ \A e \in NotInvoked' : Promised(e).id = e.id
  BY DEF Promised
<1>8. OwedNow' = OwedNow \ {Promised(d)} /\ Promised(d) \in OwedNow
  <2>1. OwedNow' = {Promised(e) : e \in NotInvoked'}
    BY DEF OwedNow, Promised, Ticks
  <2>2. OwedNow = OwedNow' \cup {Promised(d)}
    BY <1>5, <2>1 DEF OwedNow
  <2>3. Promised(d) \notin OwedNow'
    BY <1>6, <1>7, <2>1
  <2>. QED  BY <2>2, <2>3
<1>9. Promised(d).due <= Ticks(clock)
  <2>1. ~Before(clock, d.when) /\ d.when \in Timespec
    BY <1>1, <1>3 DEF NotEarly, Entry
  <2>2. Ticks(d.when) <= Ticks(clock)
    BY <1>2, <2>1, NotBeforeTicks
  <2>. QED  BY <2>2 DEF Promised
<1>10. Ticks(clock)' = Ticks(clock) /\ allocated' = allocated
  BY DEF Ticks
<1>11. Promise!Invoke(d.id)
  BY <1>7, <1>8, <1>9, <1>10 DEF Promise!Invoke, OwedNow
<1>. QED  BY <1>3, <1>11

\* A step that leaves the entries to be invoked, and the clock, alone.
LEMMA NothingVisible ==
    ASSUME NotInvoked' = NotInvoked, UNCHANGED <<clock, allocated>>
    PROVE  UNCHANGED Promise!promiseVars
  BY DEF Promise!promiseVars, Promised, Ticks

\* The deferred actions keep the promise of xde_defer_action: each is
\* invoked at most once, only if it was deferred, and never before the time
\* of the request plus its delay.
THEOREM Implements == Spec => KeepsPromise
<1>1. Init => Promise!PromiseInit
  <2> SUFFICES ASSUME Init PROVE Promise!PromiseInit
    OBVIOUS
  <2>1. NotInvoked = {}
    BY EmptySeq DEF Init, NotInvoked
  <2>2. Ticks(clock) \in Nat
    <3>1. clock.sec = 1 /\ clock.nsec \in 0..(TicksPerSec - 1)
      BY DEF Init
    <3>. QED  BY <3>1, DeferAssumption DEF Ticks
  <2>. QED  BY <2>1, <2>2 DEF Init, Promise!PromiseInit
<1>2. IInv /\ IInv' /\ [Next]_vars => [Promise!PromiseNext]_(Promise!promiseVars)
  <2> SUFFICES ASSUME IInv, IInv', [Next]_vars
               PROVE  [Promise!PromiseNext]_(Promise!promiseVars)
    OBVIOUS
  <2>0. /\ wait \in Seq(Entry) /\ done \in Seq(Entry) /\ Len(done) \in Nat
        /\ running \in BOOLEAN /\ (running => done # << >>)
    BY LenProperties DEF IInv, TypeOK
  <2>1. CASE Defer
    <3>1. PICK delay \in Delays, s \in Screens, k \in Keys : DeferAction(k, delay, s)
      BY <2>1, DeferAssumption DEF Defer, DeferOnce
    <3>2. Promise!Promise(k, delay, s)
      BY <3>1, DeferPromises
    <3>. QED  BY <3>2 DEF Promise!PromiseNext
  <2>2. CASE ProcessTimeouts
    <3>1. /\ wait # << >> /\ wait' = Tail(wait) /\ done' = Append(done, Head(wait))
          /\ running = FALSE /\ running' = FALSE /\ UNCHANGED <<clock, allocated>>
      BY <2>0, <2>2 DEF ProcessTimeouts
    <3>2. /\ Len(wait) \in Nat \ {0} /\ Len(wait') = Len(wait) - 1
          /\ \A j \in 1..Len(wait') : j + 1 \in 1..Len(wait) /\ wait'[j] = wait[j + 1]
          /\ Head(wait) = wait[1] /\ wait[1] \in Entry
      BY <2>0, <3>1, TailShifts
    <3>3. /\ Len(done') = Len(done) + 1
          /\ \A j \in 1..Len(done') :
               \/ j \in 1..Len(done) /\ done'[j] = done[j]
               \/ j = Len(done) + 1 /\ done'[j] = wait[1]
      BY <2>0, <3>1, <3>2, AppendReady
    <3>4. {wait[j] : j \in 1..Len(wait)} = {wait'[j] : j \in 1..Len(wait')} \cup {wait[1]}
      <4>1. ASSUME NEW j \in 1..Len(wait), j # 1
            PROVE  \E l \in 1..Len(wait') : wait'[l] = wait[j]
        <5>1. j - 1 \in 1..Len(wait') /\ (j - 1) + 1 = j
          BY <3>2, <4>1
        <5>. QED  BY <3>2, <5>1
      <4>2. \A j \in 1..Len(wait') : \E l \in 1..Len(wait) : wait'[j] = wait[l]
        BY <3>2
      <4>3. 1 \in 1..Len(wait)
        BY <3>2
      <4>. QED  BY <4>1, <4>2, <4>3
    <3>5. {done'[j] : j \in 1..Len(done')} = {done[j] : j \in 1..Len(done)} \cup {wait[1]}
      <4>1. \A j \in 1..Len(done) : j \in 1..Len(done') /\ done'[j] = done[j]
        BY <2>0, <3>3
      <4>2. Len(done) + 1 \in 1..Len(done') /\ done'[Len(done) + 1] = wait[1]
        BY <2>0, <3>3
      <4>. QED  BY <3>3, <4>1, <4>2
    <3>6. NotInvoked' = NotInvoked
      BY <3>1, <3>4, <3>5 DEF NotInvoked
    <3>. QED  BY <3>1, <3>6, NothingVisible
  <2>3. CASE BeginDeferred
    <3>1. /\ done # << >> /\ running = FALSE /\ running' = TRUE
          /\ UNCHANGED <<clock, wait, done, allocated>>
      BY <2>0, <2>3 DEF BeginDeferred
    <3>2. 1 \in 1..Len(done)
      BY <2>0, <3>1, EmptySeq
    <3>3. /\ NotInvoked = {wait[i] : i \in 1..Len(wait)} \cup {done[i] : i \in 1..Len(done)}
          /\ NotInvoked' = {wait[i] : i \in 1..Len(wait)} \cup {done[i] : i \in (1 + 1)..Len(done)}
      BY <3>1 DEF NotInvoked
    <3>4. \E id \in 1..MaxDefers : Promise!Invoke(id)
      BY <3>1, <3>2, <3>3, HeadInvoked
    <3>. QED  BY <3>4 DEF Promise!PromiseNext
  <2>4. CASE ActionReturns
    <3>1. /\ done # << >> /\ running = TRUE /\ done' = Tail(done) /\ running' = (done' # << >>)
          /\ UNCHANGED <<clock, wait, allocated>>
      BY <2>0, <2>4 DEF ActionReturns
    <3>2. /\ done' \in Seq(Entry) /\ Len(done') = Len(done) - 1 /\ Len(done) \in Nat \ {0}
          /\ \A j \in 1..Len(done') : j + 1 \in 1..Len(done) /\ done'[j] = done[j + 1]
      BY <2>0, <3>1, TailShifts
    <3>3. NotInvoked = {wait[i] : i \in 1..Len(wait)} \cup {done[i] : i \in 2..Len(done)}
      BY <3>1 DEF NotInvoked
    <3>4. CASE done' = << >>
      <4>1. Len(done) = 1
        BY <3>2, <3>4, EmptySeq
      <4>2. NotInvoked' = NotInvoked
        <5>1. running' = FALSE /\ Len(done') = 0
          BY <3>1, <3>2, <3>4, <4>1
        <5>2. 2..Len(done) = {} /\ 1..Len(done') = {}
          BY <4>1, <5>1
        <5>3. NotInvoked' = {wait[i] : i \in 1..Len(wait)} \cup {done'[i] : i \in 1..Len(done')}
          BY <3>1, <5>1 DEF NotInvoked
        <5>. QED  BY <3>3, <5>2, <5>3
      <4>. QED  BY <3>1, <4>2, NothingVisible
    <3>5. CASE done' # << >>
      <4>1. 2 \in 1..Len(done)
        BY <3>2, <3>5, EmptySeq
      <4>2. NotInvoked' = {wait[i] : i \in 1..Len(wait)} \cup {done'[i] : i \in 2..Len(done')}
        BY <3>1, <3>5 DEF NotInvoked
      <4>3. {done'[i] : i \in 2..Len(done')} = {done[i] : i \in (2 + 1)..Len(done)}
        <5>1. \A i \in 2..Len(done') : i + 1 \in (2 + 1)..Len(done) /\ done'[i] = done[i + 1]
          BY <3>2
        <5>2. ASSUME NEW i \in (2 + 1)..Len(done)
              PROVE  \E j \in 2..Len(done') : done'[j] = done[i]
          <6>1. i - 1 \in 2..Len(done') /\ i - 1 \in 1..Len(done') /\ (i - 1) + 1 = i
            BY <3>2
          <6>. QED  BY <3>2, <6>1
        <5>3. \A i \in 2..Len(done') : \E j \in (2 + 1)..Len(done) : done'[i] = done[j]
          BY <5>1
        <5>. QED  BY <5>2, <5>3
      <4>4. \E id \in 1..MaxDefers : Promise!Invoke(id)
        BY <3>1, <3>3, <4>1, <4>2, <4>3, HeadInvoked
      <4>. QED  BY <4>4 DEF Promise!PromiseNext
    <3>. QED  BY <3>4, <3>5
  <2>5. CASE Tick
    <3>1. Before(clock, clock') /\ clock' # clock /\ UNCHANGED <<wait, done, running, allocated>>
      <4>1. Before(clock, clock') /\ UNCHANGED <<wait, done, running, allocated>>
        BY <2>5, TickPreserves DEF Tick
      <4>2. ~Before(clock, clock)
        BY DEF Before, IInv, TypeOK
      <4>. QED  BY <4>1, <4>2
    <3>2. /\ clock.sec \in Nat /\ clock.nsec \in 0..(TicksPerSec - 1)
          /\ clock'.sec \in Nat /\ clock'.nsec \in 0..(TicksPerSec - 1)
      BY DEF IInv, TypeOK
    <3>3. Ticks(clock)' > Ticks(clock)
      <4>1. CASE clock.nsec + 1 = TicksPerSec
        <5>1. clock'.sec = clock.sec + 1 /\ clock'.nsec = 0
          BY <2>5, <4>1 DEF Tick
        <5>2. (clock.sec + 1) * TicksPerSec = clock.sec * TicksPerSec + TicksPerSec
          BY <3>2, DeferAssumption, Z3
        <5>3. clock.sec * TicksPerSec \in Nat
          BY <3>2, DeferAssumption, Z3
        <5>. QED  BY <3>2, <4>1, <5>1, <5>2, <5>3, DeferAssumption DEF Ticks
      <4>2. CASE clock.nsec + 1 # TicksPerSec
        <5>1. clock'.sec = clock.sec /\ clock'.nsec = clock.nsec + 1
          BY <2>5, <3>2, <4>2 DEF Tick, IInv, TypeOK
        <5>2. clock.sec * TicksPerSec \in Nat
          BY <3>2, DeferAssumption, Z3
        <5>. QED  BY <3>2, <5>1, <5>2 DEF Ticks
      <4>. QED  BY <4>1, <4>2
    <3>4. NotInvoked' = NotInvoked
      BY <3>1 DEF NotInvoked
    <3>5. OwedNow' = OwedNow
      BY <3>4 DEF OwedNow, Promised, Ticks
    <3>. QED  BY <3>1, <3>3, <3>5 DEF Promise!PromiseNext, Promise!TimePasses, OwedNow
  <2>6. CASE UNCHANGED vars
    <3>1. NotInvoked' = NotInvoked /\ UNCHANGED <<clock, allocated>>
      BY <2>6 DEF vars, NotInvoked
    <3>. QED  BY <3>1, NothingVisible
  <2>. QED  BY <2>1, <2>2, <2>3, <2>4, <2>5, <2>6 DEF Next
<1>. QED
  BY <1>1, <1>2, Invariance, PTL DEF Spec, KeepsPromise, Promise!PromiseSafety


-----------------------------------------------------------------------------
\* What InvokedUnlessRefused rests on besides fairness.  A time is refused only
\* when the rest of the delay fills the second exactly, which whole seconds
\* never do.
NoneRefused == \A i \in 1..Len(wait) : Valid(wait[i].when)

LEMMA WholeSecondsFit ==
    ASSUME TypeOK, NEW delay \in Nat, delay % TicksPerSec = 0
    PROVE  Valid(WhenDue(delay))
<1>1. clock.nsec \in 0..(TicksPerSec - 1) /\ TicksPerSec \in Nat
  BY DeferAssumption DEF TypeOK
<1>2. WhenDue(delay) = [sec |-> clock.sec + (delay \div TicksPerSec), nsec |-> clock.nsec]
  BY <1>1 DEF WhenDue
<1>. QED  BY <1>1, <1>2 DEF Valid

\* When the delays are whole seconds, as the two of --wait are and the 200
\* milliseconds of --delay are not, timerfd_settime never refuses a time, and
\* the timer is always set for the head of deferred_wait (xde_defer_action).
THEOREM WholeSecondsAreSet ==
    ASSUME \A delay \in Delays : delay % TicksPerSec = 0
    PROVE  Spec => [](NoneRefused /\ (wait # << >> => timer = Head(wait).when))
<1>1. Init => NoneRefused
  BY DEF Init, NoneRefused
<1>2. TypeOK /\ NoneRefused /\ [Next]_vars => NoneRefused'
  <2> SUFFICES ASSUME TypeOK, NoneRefused, [Next]_vars PROVE NoneRefused'
    OBVIOUS
  <2>1. CASE Defer
    <3>1. PICK delay \in Delays, s \in Screens, k \in Keys : DeferAction(k, delay, s)
      BY <2>1, DeferAssumption DEF Defer, DeferOnce
    <3> DEFINE d == NewEntry(k, delay, s)
    <3>2. Valid(d.when)
      BY DeferAssumption, WholeSecondsFit DEF NewEntry
    <3>3. CASE wait' = wait
      BY <3>3 DEF NoneRefused
    <3>4. ASSUME NEW i \in 1..(Len(wait) + 1), wait' = InsertAt(wait, i, d)
          PROVE  NoneRefused'
      <4>1. Inserted(wait', wait, i, d)
        <5> DEFINE Elements == {wait[j] : j \in 1..Len(wait)} \cup {d}
        <5>1. wait \in Seq(Elements)
          <6>1. wait \in Seq(Entry)
            BY DEF TypeOK
          <6>2. \A j \in 1..Len(wait) : wait[j] \in Elements
            OBVIOUS
          <6>. QED  BY <6>1, <6>2
        <5>. QED  BY <3>4, <5>1, InsertAtProperties
      <4> HIDE DEF d
      <4>. QED  BY <3>2, <4>1 DEF NoneRefused, Inserted
    <3>. QED  BY <3>1, <3>3, <3>4 DEF DeferAction
  <2>2. CASE ProcessTimeouts
    <3>1. wait \in Seq(Entry) /\ wait # << >> /\ wait' = Tail(wait)
      BY <2>2 DEF ProcessTimeouts, TypeOK
    <3>2. \A j \in 1..Len(wait') : j + 1 \in 1..Len(wait) /\ wait'[j] = wait[j + 1]
      BY <3>1
    <3>. QED  BY <3>2 DEF NoneRefused
  <2>3. CASE wait' = wait
    BY <2>3 DEF NoneRefused
  <2>. QED  BY <2>1, <2>2, <2>3 DEF Next, BeginDeferred, ActionReturns, Tick, vars
<1>3. IInv /\ NoneRefused => (wait # << >> => timer = Head(wait).when)
  <2> SUFFICES ASSUME IInv, NoneRefused, wait # << >> PROVE timer = Head(wait).when
    OBVIOUS
  <2>1. wait \in Seq(Entry) /\ TimerCoversHead
    BY DEF IInv, TypeOK
  <2>2. 1 \in 1..Len(wait) /\ Head(wait) = wait[1]
    BY <2>1
  <2>. QED  BY <2>1, <2>2 DEF NoneRefused, TimerCoversHead
<1>. QED  BY <1>1, <1>2, <1>3, Typing, Invariance, PTL DEF Spec

=============================================================================
