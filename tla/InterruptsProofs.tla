-------------------------- MODULE InterruptsProofs --------------------------
(***************************************************************************)
(* For every modulus, delay and program: Interrupts never leaves its types, *)
(* its queue always holds exactly one VI and one SPECIAL event, and an AI   *)
(* event exactly while the audio unit is busy; the moves of the time base   *)
(* keep the events; the VI event is due at next_vi; and an interrupt of the *)
(* RCP that the processor accepts is taken by the next branch.              *)
(***************************************************************************)
EXTENDS Interrupts, FiniteSetTheorems, SequenceTheorems, WellFoundedInduction, TLAPS

-----------------------------------------------------------------------------
(* The operators of InterruptQueue: they stay within Queue, change the      *)
(* number of events of one type only where they say so, and do to the set   *)
(* of queued events what is said; and when a CHECK event stays at the head. *)

\* Sums and differences of times are times (unsigned 32-bit arithmetic).
LEMMA TimeArithmetic ==
  ASSUME NEW a \in Time, NEW b \in Time
  PROVE  Plus(a, b) \in Time /\ Minus(a, b) \in Time
  BY ModulusAssumption DEF Plus, Minus, Time

\* Zero is a time, and so is anything reduced to the width of Count.
LEMMA ZeroTime == 0 \in Time /\ Half \in Nat /\ Sixteenth \in Nat
  BY ModulusAssumption DEF Time, Half, Sixteenth

\* The smallest index of a non-empty set of indices exists.
LEMMA SmallestIndex ==
  ASSUME NEW I, I \subseteq Nat, I # {}
  PROVE  \E x \in I : \A y \in I : x <= y
<1>1. PICK x \in I : \A y \in I : ~ (<<y, x>> \in OpToRel(<, Nat))
  BY NatLessThanWellFounded, WFMin
<1>2. \A y \in I : ~ (y < x)
  BY <1>1 DEF OpToRel
<1>3. \A y \in I : x \in Nat /\ y \in Nat
  OBVIOUS
<1>4. \A y \in I : x <= y
  BY <1>2, <1>3
<1> QED
  BY <1>4

\* Min returns a member of a non-empty set of indices.
LEMMA MinIsMember ==
  ASSUME NEW I, I \subseteq Nat, I # {}
  PROVE  Min(I) \in I /\ \A y \in I : Min(I) <= y
<1>1. \E x \in I : \A y \in I : x <= y
  BY SmallestIndex
<1> QED
  BY <1>1 DEF Min

-----------------------------------------------------------------------------
(* Insertion and removal at an index.                                      *)

\* r is q with the event e inserted at index k.
Inserted(q, r, k, e) ==
  /\ q \in Seq(Event) /\ r \in Seq(Event) /\ e \in Event
  /\ k \in 1 .. Len(r) /\ Len(r) = Len(q) + 1
  /\ \A i \in 1 .. Len(r) :
       r[i] = IF i < k THEN q[i] ELSE IF i = k THEN e ELSE q[i - 1]

\* InsertAt inserts.
LEMMA InsertAtInserts ==
  ASSUME NEW q \in Seq(Event), NEW k \in 1 .. Len(q), NEW e \in Event
  PROVE  Inserted(q, InsertAt(q, k, e), k, e)
<1> DEFINE a == SubSeq(q, 1, k - 1)
           b == SubSeq(q, k, Len(q))
<1>0. Len(q) \in Nat /\ k \in Int /\ k - 1 \in Int /\ Len(q) \in Int
  BY LenProperties
<1>1. \A i \in 1 .. Len(q) : q[i] \in Event
  BY ElementOfSeq
<1>2. a \in Seq(Event) /\ Len(a) = k - 1 /\ \A i \in 1 .. k - 1 : a[i] = q[i]
  <2>1. \A i \in 1 .. k - 1 : q[i] \in Event
    BY <1>0, <1>1
  <2> QED
    BY <2>1, <1>0, SubSeqProperties
<1>3. b \in Seq(Event) /\ Len(b) = Len(q) - k + 1
      /\ \A i \in 1 .. Len(q) - k + 1 : b[i] = q[k + i - 1]
  <2>1. \A i \in k .. Len(q) : q[i] \in Event
    BY <1>0, <1>1
  <2> QED
    BY <2>1, <1>0, SubSeqProperties
<1>4. <<e>> \in Seq(Event) /\ Len(<<e>>) = 1 /\ <<e>>[1] = e
  OBVIOUS
<1> DEFINE c == a \o <<e>>
<1>5. c \in Seq(Event) /\ Len(c) = k
      /\ \A i \in 1 .. k : c[i] = IF i < k THEN q[i] ELSE e
  <2>1. c \in Seq(Event) /\ Len(c) = Len(a) + 1
        /\ \A i \in 1 .. Len(a) + 1 : c[i] = IF i <= Len(a) THEN a[i] ELSE <<e>>[i - Len(a)]
    BY <1>2, <1>4, ConcatProperties
  <2> QED
    BY <2>1, <1>0, <1>2, <1>4
<1> DEFINE r == c \o b
<1>6. r \in Seq(Event) /\ Len(r) = Len(c) + Len(b)
      /\ \A i \in 1 .. Len(c) + Len(b) : r[i] = IF i <= Len(c) THEN c[i] ELSE b[i - Len(c)]
  BY <1>3, <1>5, ConcatProperties
<1>9. InsertAt(q, k, e) = r
  BY DEF InsertAt
<1> HIDE DEF a, b, c, r
<1>7. Len(r) = Len(q) + 1
  BY <1>0, <1>3, <1>5, <1>6
<1>8. ASSUME NEW i \in 1 .. Len(r)
      PROVE  r[i] = IF i < k THEN q[i] ELSE IF i = k THEN e ELSE q[i - 1]
  <2>1. CASE i <= k
    BY <2>1, <1>0, <1>5, <1>6, <1>7
  <2>2. CASE i > k
    <3>1. i - k \in 1 .. Len(q) - k + 1
      BY <2>2, <1>0, <1>7
    <3>2. r[i] = b[i - k]
      BY <2>2, <1>0, <1>3, <1>5, <1>6, <1>7
    <3>3. b[i - k] = q[k + (i - k) - 1]
      BY <3>1, <1>3
    <3>4. k + (i - k) - 1 = i - 1 /\ ~ (i < k) /\ i # k
      BY <2>2, <1>0, <1>7
    <3> QED
      BY <3>2, <3>3, <3>4
  <2> QED
    BY <2>1, <2>2, <1>0, <1>7
<1> QED
  BY <1>0, <1>6, <1>7, <1>8, <1>9 DEF Inserted

\* So do a push in front and an append.
LEMMA PushInserts ==
  ASSUME NEW q \in Seq(Event), NEW e \in Event
  PROVE  Inserted(q, <<e>> \o q, 1, e)
<1>1. <<e>> \in Seq(Event) /\ Len(<<e>>) = 1 /\ <<e>>[1] = e
  OBVIOUS
<1> DEFINE r == <<e>> \o q
<1>2. r \in Seq(Event) /\ Len(r) = 1 + Len(q)
      /\ \A i \in 1 .. 1 + Len(q) : r[i] = IF i <= 1 THEN <<e>>[i] ELSE q[i - 1]
  BY <1>1, ConcatProperties
<1>3. Len(q) \in Nat
  BY LenProperties
<1> HIDE DEF r
<1>4. \A i \in 1 .. Len(r) : r[i] = IF i < 1 THEN q[i] ELSE IF i = 1 THEN e ELSE q[i - 1]
  BY <1>1, <1>2, <1>3
<1>5. Inserted(q, r, 1, e)
  BY <1>2, <1>3, <1>4 DEF Inserted
<1> QED
  BY <1>5 DEF r

LEMMA AppendInserts ==
  ASSUME NEW q \in Seq(Event), NEW e \in Event
  PROVE  Inserted(q, Append(q, e), Len(q) + 1, e)
<1> DEFINE r == Append(q, e)
<1>1. r \in Seq(Event) /\ Len(r) = Len(q) + 1
      /\ (\A i \in 1 .. Len(q) : r[i] = q[i]) /\ r[Len(q) + 1] = e
  BY AppendProperties
<1>2. Len(q) \in Nat
  BY LenProperties
<1> HIDE DEF r
<1>3. \A i \in 1 .. Len(r) : r[i] = IF i < Len(q) + 1 THEN q[i]
                                    ELSE IF i = Len(q) + 1 THEN e ELSE q[i - 1]
  BY <1>1, <1>2
<1>4. Inserted(q, r, Len(q) + 1, e)
  BY <1>1, <1>2, <1>3 DEF Inserted
<1> QED
  BY <1>4 DEF r

\* Dropping the head, or the element at an index, undoes an insertion there.
LEMMA TailRemoves ==
  ASSUME NEW q \in Seq(Event), q # <<>>
  PROVE  Inserted(Tail(q), q, 1, q[1])
<1> DEFINE r == Tail(q)
<1>1. r \in Seq(Event) /\ Len(r) = Len(q) - 1 /\ \A i \in 1 .. Len(r) : r[i] = q[i + 1]
  BY HeadTailProperties
<1>2. Len(q) \in Nat \ {0}
  BY EmptySeq
<1>3. q[1] \in Event
  BY <1>2, ElementOfSeq
<1> HIDE DEF r
<1>4. \A i \in 1 .. Len(q) : q[i] = IF i < 1 THEN r[i] ELSE IF i = 1 THEN q[1] ELSE r[i - 1]
  <2>1. ASSUME NEW i \in 1 .. Len(q), i # 1 PROVE r[i - 1] = q[i]
    <3>1. i - 1 \in 1 .. Len(r) /\ (i - 1) + 1 = i
      BY <2>1, <1>1, <1>2
    <3> QED
      BY <3>1, <1>1
  <2> QED
    BY <2>1, <1>2
<1>5. Inserted(r, q, 1, q[1])
  BY <1>1, <1>2, <1>3, <1>4 DEF Inserted
<1> QED
  BY <1>5 DEF r

LEMMA RemoveAtRemoves ==
  ASSUME NEW q \in Seq(Event), NEW k \in 1 .. Len(q)
  PROVE  Inserted(RemoveAt(q, k), q, k, q[k])
<1> DEFINE a == SubSeq(q, 1, k - 1)
           b == SubSeq(q, k + 1, Len(q))
           r == a \o b
<1>0. Len(q) \in Nat /\ k \in Int /\ k - 1 \in Int /\ k + 1 \in Int /\ Len(q) \in Int
  BY LenProperties
<1>1. \A i \in 1 .. Len(q) : q[i] \in Event
  BY ElementOfSeq
<1>2. a \in Seq(Event) /\ Len(a) = k - 1 /\ \A i \in 1 .. k - 1 : a[i] = q[i]
  <2>1. \A i \in 1 .. k - 1 : q[i] \in Event
    BY <1>0, <1>1
  <2> QED
    BY <2>1, <1>0, SubSeqProperties
<1>3. b \in Seq(Event) /\ Len(b) = Len(q) - k
      /\ \A i \in 1 .. Len(q) - k : b[i] = q[k + i]
  <2>1. \A i \in k + 1 .. Len(q) : q[i] \in Event
    BY <1>0, <1>1
  <2>2. b \in Seq(Event) /\ Len(b) = (IF k + 1 <= Len(q) THEN Len(q) - (k + 1) + 1 ELSE 0)
        /\ \A i \in 1 .. Len(q) - (k + 1) + 1 : b[i] = q[(k + 1) + i - 1]
    BY <2>1, <1>0, SubSeqProperties
  <2>3. Len(q) - (k + 1) + 1 = Len(q) - k
    BY <1>0
  <2>4. \A i \in 1 .. Len(q) - k : (k + 1) + i - 1 = k + i
    BY <1>0
  <2> HIDE DEF a, b, r
  <2>5. Len(b) = Len(q) - k
    BY <2>2, <1>0
  <2>6. ASSUME NEW i \in 1 .. Len(q) - k
        PROVE  b[i] = q[k + i]
    <3>1. b[i] = q[(k + 1) + i - 1]
      BY <2>2, <2>3
    <3> QED
      BY <3>1, <2>4
  <2> QED
    BY <2>2, <2>5, <2>6
<1>4. r \in Seq(Event) /\ Len(r) = Len(a) + Len(b)
      /\ \A i \in 1 .. Len(a) + Len(b) : r[i] = IF i <= Len(a) THEN a[i] ELSE b[i - Len(a)]
  BY <1>2, <1>3, ConcatProperties
<1>5. RemoveAt(q, k) = r
  BY DEF RemoveAt
<1> HIDE DEF a, b, r
<1>6. Len(q) = Len(r) + 1
  BY <1>0, <1>2, <1>3, <1>4
<1>7. ASSUME NEW i \in 1 .. Len(q)
      PROVE  q[i] = IF i < k THEN r[i] ELSE IF i = k THEN q[k] ELSE r[i - 1]
  <2>1. CASE i < k
    <3>1. i \in 1 .. k - 1 /\ i \in 1 .. Len(a) + Len(b) /\ i <= Len(a)
      BY <2>1, <1>0, <1>2, <1>3
    <3>2. r[i] = a[i]
      BY <3>1, <1>4
    <3>3. a[i] = q[i]
      BY <3>1, <1>2
    <3> QED
      BY <3>2, <3>3, <2>1
  <2>2. CASE i > k
    <3>1. i - 1 \in 1 .. Len(a) + Len(b) /\ ~ (i - 1 <= Len(a)) /\ (i - 1) - Len(a) = i - k
      BY <2>2, <1>0, <1>2, <1>3
    <3>2. i - k \in 1 .. Len(q) - k /\ k + (i - k) = i
      BY <2>2, <1>0
    <3>3. r[i - 1] = b[i - k]
      BY <3>1, <1>4
    <3>4. b[i - k] = q[i]
      BY <3>2, <1>3
    <3> QED
      BY <3>3, <3>4, <2>2, <1>0
  <2> QED
    BY <2>1, <2>2, <1>0
<1>8. q[k] \in Event
  BY <1>1
<1> QED
  BY <1>0, <1>4, <1>5, <1>6, <1>7, <1>8 DEF Inserted

-----------------------------------------------------------------------------
(* Counting events of one type.                                            *)

\* Inserting an event makes one more of its own type and no difference to the
\* others.
LEMMA InsertedCounts ==
  ASSUME NEW q, NEW r, NEW k, NEW e, NEW t, Inserted(q, r, k, e)
  PROVE  /\ e.type # t => HasOne(q, t) <=> HasOne(r, t)
         /\ e.type = t => HasNone(q, t) <=> HasOne(r, t)
<1>0. /\ Len(q) \in Nat /\ Len(r) = Len(q) + 1 /\ k \in 1 .. Len(r)
      /\ \A i \in 1 .. Len(r) :
           r[i] = IF i < k THEN q[i] ELSE IF i = k THEN e ELSE q[i - 1]
  BY LenProperties DEF Inserted
<1>1. \A i \in 1 .. Len(r) : i < k => i \in 1 .. Len(q) /\ r[i] = q[i]
  BY <1>0
<1>2. \A i \in 1 .. Len(q) : i < k => i \in 1 .. Len(r) /\ r[i] = q[i]
  BY <1>0
<1>3. \A i \in 1 .. Len(r) : i > k => i - 1 \in 1 .. Len(q) /\ r[i] = q[i - 1]
  BY <1>0
<1>4. \A i \in 1 .. Len(q) : i >= k => i + 1 \in 1 .. Len(r) /\ r[i + 1] = q[i]
  <2> TAKE i \in 1 .. Len(q)
  <2> HAVE i >= k
  <2>1. i + 1 \in 1 .. Len(r) /\ i + 1 > k /\ (i + 1) - 1 = i
    BY <1>0
  <2> QED
    BY <2>1, <1>3
<1>5. r[k] = e
  BY <1>0
<1>6. ASSUME e.type # t, HasOne(q, t) PROVE HasOne(r, t)
  <2>1. PICK i \in 1 .. Len(q) : \A j \in 1 .. Len(q) : q[j].type = t <=> j = i
    BY <1>6 DEF HasOne
  <2>2. CASE i < k
    <3>1. ASSUME NEW j \in 1 .. Len(r) PROVE r[j].type = t <=> j = i
      <4>1. CASE j < k
        BY <4>1, <2>1, <1>1
      <4>2. CASE j = k
        BY <4>2, <2>2, <1>5, <1>6
      <4>3. CASE j > k
        <5>1. j - 1 # i /\ j # i /\ j - 1 \in 1 .. Len(q)
          BY <4>3, <2>2, <1>0, <1>3
        <5> QED
          BY <5>1, <4>3, <2>1, <1>3
      <4> QED
        BY <4>1, <4>2, <4>3, <1>0
    <3> QED
      BY <3>1, <2>2, <1>2 DEF HasOne
  <2>3. CASE i >= k
    <3>1. ASSUME NEW j \in 1 .. Len(r) PROVE r[j].type = t <=> j = i + 1
      <4>1. CASE j < k
        BY <4>1, <2>1, <2>3, <1>0, <1>1
      <4>2. CASE j = k
        BY <4>2, <2>3, <1>0, <1>5, <1>6
      <4>3. CASE j > k
        <5>1. j - 1 = i <=> j = i + 1
          BY <1>0
        <5> QED
          BY <5>1, <4>3, <2>1, <1>3
      <4> QED
        BY <4>1, <4>2, <4>3, <1>0
    <3> QED
      BY <3>1, <2>3, <1>4 DEF HasOne
  <2> QED
    BY <2>2, <2>3, <1>0
<1>7. ASSUME e.type # t, HasOne(r, t) PROVE HasOne(q, t)
  <2>1. PICK i \in 1 .. Len(r) : \A j \in 1 .. Len(r) : r[j].type = t <=> j = i
    BY <1>7 DEF HasOne
  <2>2. CASE i < k
    <3>1. ASSUME NEW j \in 1 .. Len(q) PROVE q[j].type = t <=> j = i
      <4>1. CASE j < k
        BY <4>1, <2>1, <1>2
      <4>2. CASE j >= k
        <5>1. j + 1 # i /\ j # i
          BY <4>2, <2>2, <1>0
        <5> QED
          BY <5>1, <4>2, <2>1, <1>4
      <4> QED
        BY <4>1, <4>2, <1>0
    <3> QED
      BY <3>1, <2>2, <1>1 DEF HasOne
  <2>3. CASE i = k
    BY <2>3, <2>1, <1>5, <1>7
  <2>4. CASE i > k
    <3>1. ASSUME NEW j \in 1 .. Len(q) PROVE q[j].type = t <=> j = i - 1
      <4>1. CASE j < k
        BY <4>1, <2>1, <2>4, <1>0, <1>2
      <4>2. CASE j >= k
        <5>1. j = i - 1 <=> j + 1 = i
          BY <1>0
        <5> QED
          BY <5>1, <4>2, <2>1, <1>4
      <4> QED
        BY <4>1, <4>2, <1>0
    <3> QED
      BY <3>1, <2>4, <1>3 DEF HasOne
  <2> QED
    BY <2>2, <2>3, <2>4, <1>0
<1>8. ASSUME e.type = t, HasNone(q, t) PROVE HasOne(r, t)
  <2>1. ASSUME NEW j \in 1 .. Len(r) PROVE r[j].type = t <=> j = k
    <3>1. CASE j < k
      BY <3>1, <1>1, <1>8 DEF HasNone
    <3>2. CASE j = k
      BY <3>2, <1>5, <1>8
    <3>3. CASE j > k
      <4>1. j # k /\ j - 1 \in 1 .. Len(q) /\ r[j] = q[j - 1]
        BY <3>3, <1>0, <1>3
      <4> QED
        BY <4>1, <1>8 DEF HasNone
    <3> QED
      BY <3>1, <3>2, <3>3, <1>0
  <2> QED
    BY <2>1, <1>0 DEF HasOne
<1>9. ASSUME e.type = t, HasOne(r, t) PROVE HasNone(q, t)
  <2>1. PICK i \in 1 .. Len(r) : \A j \in 1 .. Len(r) : r[j].type = t <=> j = i
    BY <1>9 DEF HasOne
  <2>2. i = k
    BY <2>1, <1>0, <1>5, <1>9
  <2>3. ASSUME NEW j \in 1 .. Len(q) PROVE q[j].type # t
    <3>1. CASE j < k
      BY <3>1, <2>1, <2>2, <1>0, <1>2
    <3>2. CASE j >= k
      <4>1. j + 1 # k
        BY <3>2, <1>0
      <4> QED
        BY <4>1, <3>2, <2>1, <2>2, <1>4
    <3> QED
      BY <3>1, <3>2, <1>0
  <2> QED
    BY <2>3 DEF HasNone
<1> QED
  BY <1>6, <1>7, <1>8, <1>9

-----------------------------------------------------------------------------
(* The operators of InterruptQueue.                                        *)

\* add_interrupt_event() inserts one event of its type, at the time asked for.
LEMMA AddEventInserts ==
  ASSUME NEW eq \in Queue, NEW type \in IntType, NEW delay \in Time, NEW now \in Time
  PROVE  /\ AddEvent(eq, type, delay, now) \in Queue
         /\ \E k : Inserted(eq.q, AddEvent(eq, type, delay, now).q, k,
                            [type |-> type, count |-> Plus(now, delay)])
<1> DEFINE e    == [type |-> type, count |-> Plus(now, delay)]
           done == eq.done /\ now <= Half
           Goes(e2) == type # "SPECIAL" /\ BeforeEvent(e.count, e2, now, done)
           k    == SelectInSubSeq(eq.q, 2, Len(eq.q), Goes)
           r    == IF k = 0 THEN Append(eq.q, e) ELSE InsertAt(eq.q, k, e)
<1>1. e \in Event /\ e.count \in Time
  BY TimeArithmetic DEF Event
<1>2. eq.q \in Seq(Event) /\ eq.next \in Time /\ eq.done \in BOOLEAN
  BY DEF Queue
<1>3. Len(eq.q) \in Nat
  BY <1>2, LenProperties
<1>4. k = 0 \/ k \in 1 .. Len(eq.q)
  <2> DEFINE I == {i \in 2 .. Len(eq.q) : Goes(eq.q[i])}
  <2>1. k = IF I # {} THEN Min(I) ELSE 0
    BY DEF SelectInSubSeq
  <2>2. I \subseteq Nat /\ I \subseteq 1 .. Len(eq.q)
    BY <1>3
  <2> HIDE DEF I, k
  <2>3. I # {} => Min(I) \in I
    BY <2>2, MinIsMember
  <2> QED
    BY <2>1, <2>2, <2>3
<1>5. done \in BOOLEAN
  BY <1>2
<1>6. AddEvent(eq, type, delay, now) =
        IF eq.q = <<>> \/ Goes(eq.q[1])
        THEN [q |-> <<e>> \o eq.q, next |-> e.count, done |-> done]
        ELSE [q |-> r, next |-> eq.next, done |-> done]
  BY DEF AddEvent
<1> HIDE DEF e, done, Goes, k
<1>7. Inserted(eq.q, <<e>> \o eq.q, 1, e)
  BY <1>1, <1>2, PushInserts
<1>8. \E j : Inserted(eq.q, r, j, e)
  <2>1. CASE k = 0
    BY <2>1, <1>1, <1>2, AppendInserts
  <2>2. CASE k # 0
    BY <2>2, <1>1, <1>2, <1>4, InsertAtInserts
  <2> QED
    BY <2>1, <2>2
<1> HIDE DEF r
<1>9. CASE eq.q = <<>> \/ Goes(eq.q[1])
  <2>1. AddEvent(eq, type, delay, now) = [q |-> <<e>> \o eq.q, next |-> e.count, done |-> done]
    BY <1>6, <1>9
  <2>2. <<e>> \o eq.q \in Seq(Event)
    BY <1>7 DEF Inserted
  <2>3. AddEvent(eq, type, delay, now) \in Queue
    BY <2>1, <2>2, <1>1, <1>5 DEF Queue
  <2> QED
    BY <2>1, <2>3, <1>7 DEF e
<1>10. CASE ~ (eq.q = <<>> \/ Goes(eq.q[1]))
  <2>1. AddEvent(eq, type, delay, now) = [q |-> r, next |-> eq.next, done |-> done]
    BY <1>6, <1>10
  <2>2. r \in Seq(Event)
    BY <1>8 DEF Inserted
  <2>3. AddEvent(eq, type, delay, now) \in Queue
    BY <2>1, <2>2, <1>2, <1>5 DEF Queue
  <2> QED
    BY <2>1, <2>3, <1>8 DEF e
<1> QED
  BY <1>9, <1>10

\* Hence it adds one of its own type and leaves the others as they are.
LEMMA AddEventCounts ==
  ASSUME NEW eq \in Queue, NEW type \in IntType, NEW delay \in Time, NEW now \in Time, NEW t
  PROVE  LET r == AddEvent(eq, type, delay, now)
         IN  /\ type # t => HasOne(eq.q, t) <=> HasOne(r.q, t)
             /\ type = t => HasNone(eq.q, t) <=> HasOne(r.q, t)
<1> DEFINE e == [type |-> type, count |-> Plus(now, delay)]
           r == AddEvent(eq, type, delay, now)
<1>1. PICK k : Inserted(eq.q, r.q, k, e)
  BY AddEventInserts
<1>2. e.type = type
  OBVIOUS
<1> HIDE DEF e, r
<1>3. /\ e.type # t => HasOne(eq.q, t) <=> HasOne(r.q, t)
      /\ e.type = t => HasNone(eq.q, t) <=> HasOne(r.q, t)
  BY <1>1, InsertedCounts
<1> QED
  BY <1>2, <1>3 DEF r

\* The head's time, or zero.
LEMMA NextInterruptTime ==
  ASSUME NEW q \in Seq(Event), NEW now \in Time
  PROVE  NextInterrupt(q, now) \in Time
<1>1. CASE q = <<>>
  BY <1>1, ZeroTime DEF NextInterrupt
<1>2. CASE q # <<>>
  <2>1. q[1] \in Event
    BY <1>2, EmptySeq, ElementOfSeq
  <2>2. q[1].count \in Time
    BY <2>1 DEF Event
  <2> QED
    BY <2>2, ZeroTime DEF NextInterrupt
<1> QED
  BY <1>1, <1>2

\* remove_interrupt_event() drops the head and nothing else.
LEMMA RemoveHeadRemoves ==
  ASSUME NEW eq \in Queue, eq.q # <<>>, NEW now \in Time
  PROVE  /\ RemoveHead(eq, now) \in Queue
         /\ eq.q[1] \in Event
         /\ Inserted(RemoveHead(eq, now).q, eq.q, 1, eq.q[1])
<1>1. eq.q \in Seq(Event) /\ eq.done \in BOOLEAN
  BY DEF Queue
<1>2. Inserted(Tail(eq.q), eq.q, 1, eq.q[1])
  BY <1>1, TailRemoves
<1>3. Tail(eq.q) \in Seq(Event) /\ eq.q[1] \in Event
  BY <1>2 DEF Inserted
<1>4. NextInterrupt(Tail(eq.q), now) \in Time
  BY <1>3, NextInterruptTime
<1>5. (eq.done \/ eq.q[1].type = "SPECIAL") \in BOOLEAN
  OBVIOUS
<1> QED
  BY <1>2, <1>3, <1>4, <1>5 DEF RemoveHead, Queue

LEMMA RemoveHeadCounts ==
  ASSUME NEW eq \in Queue, eq.q # <<>>, NEW now \in Time, NEW t
  PROVE  LET r == RemoveHead(eq, now)
         IN  /\ eq.q[1].type # t => HasOne(eq.q, t) <=> HasOne(r.q, t)
             /\ eq.q[1].type = t => HasOne(eq.q, t) <=> HasNone(r.q, t)
<1> DEFINE r == RemoveHead(eq, now)
<1>1. Inserted(r.q, eq.q, 1, eq.q[1])
  BY RemoveHeadRemoves
<1> HIDE DEF r
<1>2. /\ eq.q[1].type # t => HasOne(r.q, t) <=> HasOne(eq.q, t)
      /\ eq.q[1].type = t => HasNone(r.q, t) <=> HasOne(eq.q, t)
  BY <1>1, InsertedCounts
<1> QED
  BY <1>2 DEF r

\* remove_event() drops one event of the type if there is one.
LEMMA RemoveEventRemoves ==
  ASSUME NEW eq \in Queue, NEW type
  PROVE  /\ RemoveEvent(eq, type) \in Queue
         /\ \/ RemoveEvent(eq, type).q = eq.q /\ HasNone(eq.q, type)
            \/ \E k \in 1 .. Len(eq.q) :
                 eq.q[k].type = type /\ Inserted(RemoveEvent(eq, type).q, eq.q, k, eq.q[k])
<1> DEFINE Test(e) == e.type = type
           I == {i \in 1 .. Len(eq.q) : Test(eq.q[i])}
           k == SelectInSeq(eq.q, Test)
           r == RemoveFirstMatch(eq.q, Test)
<1>1. eq.q \in Seq(Event) /\ Len(eq.q) \in Nat
  BY LenProperties DEF Queue
<1>2. RemoveEvent(eq, type) = [eq EXCEPT !.q = r]
  BY DEF RemoveEvent
<1>3. CASE I = {}
  <2>1. \A i \in 1 .. Len(eq.q) : ~ Test(eq.q[i])
    BY <1>3
  <2>2. r = eq.q
    BY <2>1 DEF RemoveFirstMatch
  <2>3. RemoveEvent(eq, type).q = eq.q /\ RemoveEvent(eq, type) \in Queue
    BY <1>2, <2>2 DEF Queue
  <2> QED
    BY <2>1, <2>3 DEF HasNone
<1>4. CASE I # {}
  <2>1. k = Min(I)
    BY <1>4 DEF SelectInSeq
  <2>2. I \subseteq Nat
    BY <1>1
  <2>3. k \in I
    BY <2>1, <2>2, <1>4, MinIsMember
  <2>4. k \in 1 .. Len(eq.q) /\ eq.q[k].type = type
    BY <2>3
  <2>5. r = RemoveAt(eq.q, k)
    BY <1>4 DEF RemoveFirstMatch
  <2> HIDE DEF I, k, r, Test
  <2>6. Inserted(r, eq.q, k, eq.q[k])
    BY <2>4, <2>5, <1>1, RemoveAtRemoves
  <2>7. r \in Seq(Event)
    BY <2>6 DEF Inserted
  <2>8. RemoveEvent(eq, type) \in Queue /\ RemoveEvent(eq, type).q = r
    BY <1>2, <2>7 DEF Queue
  <2> QED
    BY <2>4, <2>6, <2>8
<1> QED
  BY <1>3, <1>4

LEMMA RemoveEventCounts ==
  ASSUME NEW eq \in Queue, NEW type, NEW t
  PROVE  LET r == RemoveEvent(eq, type)
         IN  /\ type # t => HasOne(eq.q, t) <=> HasOne(r.q, t)
             /\ HasOne(eq.q, type) => HasNone(r.q, type)
<1> DEFINE r == RemoveEvent(eq, type)
<1>1. \/ r.q = eq.q /\ HasNone(eq.q, type)
      \/ \E k \in 1 .. Len(eq.q) :
           eq.q[k].type = type /\ Inserted(r.q, eq.q, k, eq.q[k])
  BY RemoveEventRemoves
<1> HIDE DEF r
<1>2. CASE r.q = eq.q /\ HasNone(eq.q, type)
  BY <1>2 DEF r
<1>3. ASSUME NEW k \in 1 .. Len(eq.q), eq.q[k].type = type,
             Inserted(r.q, eq.q, k, eq.q[k])
      PROVE  /\ type # t => HasOne(eq.q, t) <=> HasOne(r.q, t)
             /\ HasOne(eq.q, type) => HasNone(r.q, type)
  <2>1. eq.q[k].type # t => HasOne(r.q, t) <=> HasOne(eq.q, t)
    BY <1>3, InsertedCounts
  <2>2. eq.q[k].type = type => HasNone(r.q, type) <=> HasOne(eq.q, type)
    BY <1>3, InsertedCounts, SMTT(30)
  <2> QED
    BY <2>1, <2>2, <1>3
<1> QED
  BY <1>1, <1>2, <1>3 DEF r

\* check_interrupt() pushes one CHECK event.
LEMMA PushCheckCounts ==
  ASSUME NEW eq \in Queue, NEW now \in Time, NEW t, t # "CHECK"
  PROVE  /\ PushCheck(eq, now) \in Queue
         /\ HasOne(eq.q, t) <=> HasOne(PushCheck(eq, now).q, t)
<1> DEFINE e == [type |-> "CHECK", count |-> now]
<1>1. e \in Event /\ e.type # t
  BY DEF Event, IntType
<1>2. eq.q \in Seq(Event)
  BY DEF Queue
<1>3. PushCheck(eq, now) = [eq EXCEPT !.q = <<e>> \o eq.q, !.next = now]
  BY DEF PushCheck
<1> HIDE DEF e
<1>4. Inserted(eq.q, <<e>> \o eq.q, 1, e)
  BY <1>1, <1>2, PushInserts
<1>5. <<e>> \o eq.q \in Seq(Event)
  BY <1>4 DEF Inserted
<1>6. PushCheck(eq, now) \in Queue /\ PushCheck(eq, now).q = <<e>> \o eq.q
  BY <1>3, <1>5 DEF Queue
<1>7. HasOne(eq.q, t) <=> HasOne(<<e>> \o eq.q, t)
  BY <1>1, <1>4, InsertedCounts
<1> QED
  BY <1>6, <1>7

\* Adding at an absolute time.
LEMMA AddEventCountCounts ==
  ASSUME NEW eq \in Queue, NEW type \in IntType, NEW count \in Time, NEW now \in Time
  PROVE  LET r == AddEventCount(eq, type, count, now)
         IN  /\ r \in Queue
             /\ \A t : type # t => HasOne(eq.q, t) <=> HasOne(r.q, t)
             /\ HasNone(eq.q, type) => HasOne(r.q, type)
<1>1. Minus(count, now) \in Time
  BY TimeArithmetic
<1>2. AddEventCount(eq, type, count, now) = AddEvent(eq, type, Minus(count, now), now)
  BY DEF AddEventCount
<1>3. AddEventCount(eq, type, count, now) \in Queue
  BY <1>1, <1>2, AddEventInserts
<1> DEFINE r == AddEventCount(eq, type, count, now)
<1>4. ASSUME NEW t
      PROVE  /\ type # t => HasOne(eq.q, t) <=> HasOne(r.q, t)
             /\ type = t => HasNone(eq.q, t) <=> HasOne(r.q, t)
  BY <1>1, <1>2, AddEventCounts
<1> HIDE DEF r
<1>5. HasNone(eq.q, type) => HasOne(r.q, type)
  BY <1>4
<1>6. r \in Queue
  BY <1>3 DEF r
<1>7. \A t : type # t => HasOne(eq.q, t) <=> HasOne(r.q, t)
  BY <1>4
<1> QED
  BY <1>5, <1>6, <1>7 DEF r

\* An insertion of another type adds none.
LEMMA InsertedNone ==
  ASSUME NEW q, NEW r, NEW k, NEW e, NEW t, Inserted(q, r, k, e), e.type # t,
         HasNone(q, t)
  PROVE  HasNone(r, t)
<1>0. /\ Len(q) \in Nat /\ Len(r) = Len(q) + 1 /\ k \in 1 .. Len(r)
      /\ \A i \in 1 .. Len(r) :
           r[i] = IF i < k THEN q[i] ELSE IF i = k THEN e ELSE q[i - 1]
  BY LenProperties DEF Inserted
<1>1. ASSUME NEW i \in 1 .. Len(r) PROVE r[i].type # t
  <2>1. CASE i < k
    <3>1. i \in 1 .. Len(q) /\ r[i] = q[i]
      BY <2>1, <1>0
    <3> QED
      BY <3>1 DEF HasNone
  <2>2. CASE i = k
    BY <2>2, <1>0
  <2>3. CASE i > k
    <3>1. i - 1 \in 1 .. Len(q) /\ r[i] = q[i - 1]
      BY <2>3, <1>0
    <3> QED
      BY <3>1 DEF HasNone
  <2> QED
    BY <2>1, <2>2, <2>3, <1>0
<1> QED
  BY <1>1 DEF HasNone

\* Changing only counts keeps the types.
LEMMA SameTypes ==
  ASSUME NEW q, NEW r, NEW t, Len(q) = Len(r),
         \A i \in 1 .. Len(q) : q[i].type = r[i].type
  PROVE  (HasOne(q, t) => HasOne(r, t)) /\ (HasNone(q, t) => HasNone(r, t))
<1>1. ASSUME HasOne(q, t) PROVE HasOne(r, t)
  <2>1. PICK i \in 1 .. Len(q) : \A j \in 1 .. Len(q) : q[j].type = t <=> j = i
    BY <1>1 DEF HasOne
  <2>2. i \in 1 .. Len(r) /\ \A j \in 1 .. Len(r) : j \in 1 .. Len(q)
    OBVIOUS
  <2>3. \A j \in 1 .. Len(r) : r[j].type = t <=> j = i
    BY <2>1, <2>2
  <2> QED
    BY <2>2, <2>3 DEF HasOne
<1>2. ASSUME HasNone(q, t) PROVE HasNone(r, t)
  BY <1>2 DEF HasNone
<1> QED
  BY <1>1, <1>2

\* translate_event_queue() keeps one event of every type that is not COMPARE.
LEMMA TranslateCounts ==
  ASSUME NEW eq \in Queue, NEW base \in Time, NEW compare \in Time, NEW now \in Time,
         HasOne(eq.q, "SPECIAL")
  PROVE  LET r == Translate(eq, base, compare, now)
         IN  /\ r \in Queue
             /\ \A t : t # "COMPARE" /\ HasOne(eq.q, t) => HasOne(r.q, t)
<1> DEFINE a == RemoveEvent(eq, "COMPARE")
           d == RemoveEvent(a, "SPECIAL")
           Shift(e) == [e EXCEPT !.count = Plus(Minus(@, now), base)]
           s == [i \in 1 .. Len(d.q) |-> Shift(d.q[i])]
           b == [d EXCEPT !.q = s]
           c == AddEventCount(b, "COMPARE", compare, now)
           r == AddEventCount(c, "SPECIAL", 0, now)
<1>1. Translate(eq, base, compare, now) = r
  BY DEF Translate
<1>2. a \in Queue /\ d \in Queue
  BY RemoveEventRemoves
<1>3. d.q \in Seq(Event) /\ Len(d.q) \in Nat
  BY <1>2, LenProperties DEF Queue
<1> HIDE DEF a, d
<1>4. \A i \in 1 .. Len(d.q) : Shift(d.q[i]) \in Event /\ Shift(d.q[i]).type = d.q[i].type
  <2> TAKE i \in 1 .. Len(d.q)
  <2>1. d.q[i] \in Event
    BY <1>3, ElementOfSeq
  <2>2. d.q[i].count \in Time
    BY <2>1 DEF Event
  <2>3. Plus(Minus(d.q[i].count, now), base) \in Time
    BY <2>2, TimeArithmetic
  <2> QED
    BY <2>1, <2>3 DEF Event
<1> HIDE DEF Shift
<1>5. s \in Seq(Event) /\ Len(s) = Len(d.q) /\ \A i \in 1 .. Len(d.q) : s[i].type = d.q[i].type
  BY <1>3, <1>4
<1> HIDE DEF s
<1>6. b \in Queue /\ b.q = s
  BY <1>2, <1>5 DEF Queue
<1> HIDE DEF b
<1>7. "COMPARE" \in IntType /\ "SPECIAL" \in IntType
  BY DEF IntType
<1>8. /\ c \in Queue
      /\ \A t : "COMPARE" # t => HasOne(b.q, t) <=> HasOne(c.q, t)
  BY <1>6, <1>7, AddEventCountCounts
<1>10. HasNone(c.q, "SPECIAL") /\ \A t : t \notin {"COMPARE", "SPECIAL"} /\ HasOne(eq.q, t) => HasOne(c.q, t)
  <2>1. HasOne(a.q, "SPECIAL")
    BY RemoveEventCounts DEF a
  <2>2. HasNone(d.q, "SPECIAL")
    BY <2>1, <1>2, RemoveEventCounts DEF d
  <2>3. HasNone(b.q, "SPECIAL")
    BY <2>2, <1>5, <1>6, SameTypes
  <2>4. HasNone(c.q, "SPECIAL")
    <3> DEFINE e == [type |-> "COMPARE", count |-> Plus(now, Minus(compare, now))]
    <3>1. Minus(compare, now) \in Time
      BY TimeArithmetic
    <3>2. PICK k : Inserted(b.q, c.q, k, e)
      BY <3>1, <1>6, <1>7, AddEventInserts DEF c, AddEventCount
    <3>3. e.type # "SPECIAL"
      OBVIOUS
    <3> HIDE DEF e, c
    <3> QED
      BY <2>3, <3>2, <3>3, InsertedNone
  <2>5. ASSUME NEW t, t \notin {"COMPARE", "SPECIAL"}, HasOne(eq.q, t) PROVE HasOne(c.q, t)
    <3>1. HasOne(a.q, t)
      BY <2>5, RemoveEventCounts DEF a
    <3>2. HasOne(d.q, t)
      BY <2>5, <3>1, <1>2, RemoveEventCounts DEF d
    <3>3. HasOne(b.q, t)
      BY <3>2, <1>5, <1>6, SameTypes
    <3> HIDE DEF c
    <3> QED
      BY <3>3, <2>5, <1>8
  <2> QED
    BY <2>4, <2>5
<1> HIDE DEF c
<1>11. /\ r \in Queue
       /\ \A t : "SPECIAL" # t => HasOne(c.q, t) <=> HasOne(r.q, t)
       /\ HasNone(c.q, "SPECIAL") => HasOne(r.q, "SPECIAL")
  BY <1>7, <1>8, ZeroTime, AddEventCountCounts
<1> HIDE DEF r
<1>12. \A t : t # "COMPARE" /\ HasOne(eq.q, t) => HasOne(r.q, t)
  BY <1>10, <1>11
<1> QED
  BY <1>1, <1>11, <1>12

\* The queue of a machine that starts holds one VI and one SPECIAL event.
LEMMA InitQueueCounts ==
  ASSUME NEW vi \in Time, NEW now \in Time
  PROVE  LET r == InitQueue(vi, now)
         IN  r \in Queue /\ HasOne(r.q, "VI") /\ HasOne(r.q, "SPECIAL")
<1> DEFINE a == [q |-> <<>>, next |-> vi, done |-> TRUE]
           b == AddEventCount(a, "VI", vi, now)
           r == AddEventCount(b, "SPECIAL", 0, now)
<1>1. InitQueue(vi, now) = r
  BY DEF InitQueue
<1>2. a \in Queue /\ a.q = <<>>
  BY EmptySeq DEF Queue
<1>3. \A t : HasNone(a.q, t)
  BY <1>2 DEF HasNone
<1>4. "VI" \in IntType /\ "SPECIAL" \in IntType
  BY DEF IntType
<1> HIDE DEF a
<1>5. b \in Queue /\ HasOne(b.q, "VI")
  BY <1>2, <1>3, <1>4, AddEventCountCounts
<1>6. HasNone(b.q, "SPECIAL")
  <2> DEFINE e == [type |-> "VI", count |-> Plus(now, Minus(vi, now))]
  <2>1. Minus(vi, now) \in Time
    BY TimeArithmetic
  <2>2. PICK k : Inserted(a.q, b.q, k, e)
    BY <2>1, <1>2, <1>4, AddEventInserts DEF AddEventCount
  <2>3. e.type # "SPECIAL"
    OBVIOUS
  <2> HIDE DEF e, b
  <2> QED
    BY <1>3, <2>2, <2>3, InsertedNone
<1> HIDE DEF b
<1>7. /\ r \in Queue
      /\ \A t : "SPECIAL" # t => HasOne(b.q, t) <=> HasOne(r.q, t)
      /\ HasNone(b.q, "SPECIAL") => HasOne(r.q, "SPECIAL")
  BY <1>4, <1>5, ZeroTime, AddEventCountCounts
<1> HIDE DEF r
<1> QED
  BY <1>1, <1>5, <1>6, <1>7

-----------------------------------------------------------------------------
(* load_eventqueue_infos(): the loop as a recursive function.              *)

\* f is the sequence of queues the loop goes through in n rounds.
IsLoad(f, eq, stored, now, n) ==
  f = [i \in 0 .. n |->
         IF i = 0 THEN ClearQueue(eq)
         ELSE AddEventCount(f[i - 1], stored[i].type, stored[i].count, now)]

\* Such a function exists, by induction on the number of events loaded.
LEMMA LoadExists ==
  ASSUME NEW eq, NEW stored, NEW now, NEW n \in Nat
  PROVE  \E f : IsLoad(f, eq, stored, now, n)
<1> DEFINE Body(g, i) == IF i = 0 THEN ClearQueue(eq)
             ELSE AddEventCount(g[i - 1], stored[i].type, stored[i].count, now)
           Ok(m) == \E f : IsLoad(f, eq, stored, now, m)
           T == {m \in Nat : ~ Ok(m)}
<1>1. CASE T = {}
  BY <1>1
<1>2. CASE T # {}
  <2>1. PICK m \in T : \A k \in T : m <= k
    BY <1>2, SmallestIndex
  <2>2. m \in Nat
    BY <2>1
  <2>3. CASE m = 0
    <3> DEFINE g == [i \in 0 .. 0 |-> ClearQueue(eq)]
    <3>1. \A i \in 0 .. 0 : g[i] = Body(g, i)
      OBVIOUS
    <3>2. g = [i \in 0 .. 0 |-> Body(g, i)]
      BY <3>1
    <3>3. Ok(0)
      BY <3>2 DEF IsLoad
    <3> QED
      BY <3>3, <2>1, <2>3
  <2>4. CASE m # 0
    <3>1. m - 1 \in Nat /\ ~ (m <= m - 1)
      BY <2>2, <2>4
    <3>2. Ok(m - 1)
      BY <3>1, <2>1
    <3>3. PICK g : g = [i \in 0 .. m - 1 |-> Body(g, i)]
      BY <3>2 DEF IsLoad
    <3> DEFINE h == [i \in 0 .. m |-> IF i = m THEN Body(g, m) ELSE g[i]]
    <3>4. ASSUME NEW i \in 0 .. m PROVE h[i] = Body(h, i)
      <4>1. CASE i = 0
        <5>1. 0 \in 0 .. m - 1 /\ g[0] = Body(g, 0)
          BY <3>1, <3>3
        <5> QED
          BY <4>1, <5>1, <2>4
      <4>2. CASE i # 0 /\ i # m
        <5>1. i \in 0 .. m - 1 /\ i - 1 \in 0 .. m /\ i - 1 # m
          BY <4>2, <2>2
        <5>2. g[i] = Body(g, i)
          BY <3>3, <5>1
        <5>3. h[i - 1] = g[i - 1] /\ h[i] = g[i]
          BY <4>2, <5>1
        <5> QED
          BY <4>2, <5>2, <5>3
      <4>3. CASE i = m
        <5>1. m - 1 \in 0 .. m /\ m - 1 # m
          BY <2>2, <2>4
        <5>2. h[m - 1] = g[m - 1] /\ h[m] = Body(g, m)
          BY <5>1, <4>3
        <5> QED
          BY <4>3, <5>2, <2>4
      <4> QED
        BY <4>1, <4>2, <4>3
    <3>5. h = [i \in 0 .. m |-> Body(h, i)]
      <4>1. h = [i \in 0 .. m |-> h[i]]
        OBVIOUS
      <4> HIDE DEF h
      <4> QED
        BY <3>4, <4>1
    <3>6. Ok(m)
      BY <3>5 DEF IsLoad
    <3> QED
      BY <3>6, <2>1
  <2> QED
    BY <2>3, <2>4
<1> QED
  BY <1>1, <1>2

\* The queue a load leaves is well typed, and holds one event of each type of
\* which the savestate has one.
LEMMA LoadQueueCounts ==
  ASSUME NEW eq \in Queue, NEW stored \in Seq(Event), NEW now \in Time
  PROVE  LET r == LoadQueue(eq, stored, now)
         IN  r \in Queue /\ \A t : HasOne(stored, t) => HasOne(r.q, t)
<1> DEFINE n == Len(stored)
           F == CHOOSE f : IsLoad(f, eq, stored, now, n)
<1>0. n \in Nat
  BY LenProperties
<1>1. LoadQueue(eq, stored, now) = F[n]
  BY DEF LoadQueue, IsLoad
<1>2. IsLoad(F, eq, stored, now, n)
  BY <1>0, LoadExists
<1> HIDE DEF F, n
<1>3. F[0] = ClearQueue(eq)
  BY <1>0, <1>2 DEF IsLoad
<1>4. ASSUME NEW i \in 1 .. n
      PROVE  F[i] = AddEventCount(F[i - 1], stored[i].type, stored[i].count, now)
  BY <1>0, <1>2 DEF IsLoad
<1>5. ClearQueue(eq) \in Queue /\ \A t : HasNone(ClearQueue(eq).q, t)
  <2> DEFINE none == <<>>
  <2>0. none \in Seq(Event)
    BY EmptySeq
  <2>1. ClearQueue(eq) = [eq EXCEPT !.q = none]
    BY DEF ClearQueue
  <2> HIDE DEF none
  <2>3. ClearQueue(eq).q = none /\ ClearQueue(eq) \in Queue
    BY <2>0, <2>1 DEF Queue
  <2>2. \A t : HasNone(none, t)
    BY DEF HasNone, none
  <2> QED
    BY <2>2, <2>3
<1>6. \A i \in 1 .. n : stored[i] \in Event /\ stored[i].type \in IntType /\ stored[i].count \in Time
  <2> TAKE i \in 1 .. n
  <2>1. stored[i] \in Event
    BY ElementOfSeq DEF n
  <2> QED
    BY <2>1 DEF Event
<1>7. \A i \in 0 .. n : F[i] \in Queue
  <2> DEFINE T == {i \in 0 .. n : F[i] \notin Queue}
  <2>1. CASE T = {}
    BY <2>1
  <2>2. CASE T # {}
    <3>1. PICK m \in T : \A k \in T : m <= k
      <4>1. T \subseteq Nat
        BY <1>0
      <4> QED
        BY <2>2, <4>1, SmallestIndex
    <3>2. m # 0 /\ m \in 1 .. n
      BY <3>1, <1>0, <1>3, <1>5
    <3>3. F[m - 1] \in Queue
      <4>1. m - 1 \in 0 .. n /\ ~ (m <= m - 1)
        BY <3>2, <1>0
      <4> QED
        BY <4>1, <3>1
    <3>4. F[m] \in Queue
      BY <3>2, <3>3, <1>4, <1>6, AddEventCountCounts
    <3> QED
      BY <3>1, <3>4
  <2> QED
    BY <2>1, <2>2
<1>8. ASSUME NEW t, NEW i \in 1 .. n
      PROVE  /\ stored[i].type # t /\ HasOne(F[i - 1].q, t) => HasOne(F[i].q, t)
             /\ stored[i].type # t /\ HasNone(F[i - 1].q, t) => HasNone(F[i].q, t)
             /\ stored[i].type = t /\ HasNone(F[i - 1].q, t) => HasOne(F[i].q, t)
  <2> DEFINE d == Minus(stored[i].count, now)
             e == [type |-> stored[i].type, count |-> Plus(now, d)]
  <2>1. i - 1 \in 0 .. n /\ F[i - 1] \in Queue
    BY <1>0, <1>7
  <2>2. d \in Time
    BY <1>6, TimeArithmetic
  <2>3. PICK k : Inserted(F[i - 1].q, F[i].q, k, e)
    BY <2>1, <2>2, <1>4, <1>6, AddEventInserts DEF AddEventCount
  <2>4. e.type = stored[i].type
    OBVIOUS
  <2> HIDE DEF d, e
  <2>5. /\ e.type # t => HasOne(F[i - 1].q, t) <=> HasOne(F[i].q, t)
        /\ e.type = t => HasNone(F[i - 1].q, t) <=> HasOne(F[i].q, t)
    BY <2>3, InsertedCounts, ZenonT(40)
  <2>6. e.type # t /\ HasNone(F[i - 1].q, t) => HasNone(F[i].q, t)
    BY <2>3, InsertedNone
  <2> QED
    BY <2>4, <2>5, <2>6
<1>9. ASSUME NEW t, HasOne(stored, t) PROVE HasOne(F[n].q, t)
  <2>1. PICK w \in 1 .. n : \A j \in 1 .. n : stored[j].type = t <=> j = w
    BY <1>9 DEF HasOne, n
  <2> DEFINE Right(i) == IF i < w THEN HasNone(F[i].q, t) ELSE HasOne(F[i].q, t)
             T == {i \in 0 .. n : ~ Right(i)}
  <2>2. CASE T = {}
    <3>1. n \in 0 .. n /\ ~ (n < w)
      BY <1>0
    <3> QED
      BY <2>2, <3>1
  <2>3. CASE T # {}
    <3>1. PICK m \in T : \A k \in T : m <= k
      <4>1. T \subseteq Nat
        BY <1>0
      <4> QED
        BY <2>3, <4>1, SmallestIndex
    <3>2. Right(0)
      BY <1>0, <1>3, <1>5
    <3>3. m \in 1 .. n
      BY <3>1, <3>2, <1>0
    <3>4. m - 1 \in 0 .. n /\ ~ (m <= m - 1)
      BY <3>3, <1>0
    <3>5. Right(m - 1)
      BY <3>1, <3>4
    <3>6. CASE m < w
      <4>1. stored[m].type # t /\ m - 1 < w
        BY <3>3, <3>6, <2>1, <1>0
      <4> QED
        BY <4>1, <3>1, <3>3, <3>5, <3>6, <1>8
    <3>7. CASE m = w
      <4>1. stored[m].type = t /\ m - 1 < w /\ ~ (m < w)
        BY <3>3, <3>7, <2>1, <1>0
      <4> QED
        BY <4>1, <3>1, <3>3, <3>5, <1>8
    <3>8. CASE m > w
      <4>1. stored[m].type # t /\ ~ (m - 1 < w) /\ ~ (m < w)
        BY <3>3, <3>8, <2>1, <1>0
      <4> QED
        BY <4>1, <3>1, <3>3, <3>5, <1>8
    <3> QED
      BY <3>3, <3>6, <3>7, <3>8, <1>0
  <2> QED
    BY <2>2, <2>3
<1>10. n \in 0 .. n
  BY <1>0
<1> QED
  BY <1>1, <1>7, <1>9, <1>10

-----------------------------------------------------------------------------
(* The events of a queue as a set.                                         *)

\* Reducing a number to the width of Count, near zero.
LEMMA Wrap ==
  ASSUME NEW x \in Int
  PROVE  /\ x \in 0 .. M - 1 => x % M = x
         /\ x \in -M .. -1 => x % M = x + M
         /\ x \in M .. 2 * M - 1 => x % M = x - M
  BY ModulusAssumption

\* A delay counted from now leads to the time it was computed from.
LEMMA AddsBack ==
  ASSUME NEW c \in Time, NEW now \in Time
  PROVE  Plus(now, Minus(c, now)) = c
<1>1. CASE c >= now
  <2>1. Minus(c, now) = c - now
    BY <1>1, Wrap, ModulusAssumption DEF Minus, Time
  <2>2. now + (c - now) = c /\ c % M = c
    BY Wrap, ModulusAssumption DEF Time
  <2> QED
    BY <2>1, <2>2 DEF Plus
<1>2. CASE c < now
  <2>1. Minus(c, now) = c - now + M
    BY <1>2, Wrap, ModulusAssumption DEF Minus, Time
  <2>2. now + (c - now + M) = c + M /\ (c + M) % M = c
    BY Wrap, ModulusAssumption DEF Time
  <2> QED
    BY <2>1, <2>2 DEF Plus
<1> QED
  BY <1>1, <1>2 DEF Time

\* A delay survives the move to another time base.
LEMMA DelayKept ==
  ASSUME NEW d \in Time, NEW base \in Time
  PROVE  Minus(Plus(d, base), base) = d
<1>1. CASE d + base < M
  <2>1. Plus(d, base) = d + base
    BY <1>1, Wrap, ModulusAssumption DEF Plus, Time
  <2>2. (d + base) - base = d /\ d % M = d
    BY Wrap, ModulusAssumption DEF Time
  <2> QED
    BY <2>1, <2>2 DEF Minus
<1>2. CASE d + base >= M
  <2>1. Plus(d, base) = d + base - M
    BY <1>2, Wrap, ModulusAssumption DEF Plus, Time
  <2>2. (d + base - M) - base = d - M /\ (d - M) % M = d
    BY Wrap, ModulusAssumption DEF Time
  <2> QED
    BY <2>1, <2>2 DEF Minus
<1> QED
  BY <1>1, <1>2, ModulusAssumption DEF Time

\* The events of a queue after an insertion.
LEMMA InsertedEvents ==
  ASSUME NEW q, NEW r, NEW k, NEW e, Inserted(q, r, k, e)
  PROVE  EventSet(r) = EventSet(q) \cup {e}
<1>1. /\ k \in 1 .. Len(r) /\ Len(r) = Len(q) + 1 /\ Len(q) \in Nat
      /\ \A i \in 1 .. Len(r) :
           r[i] = IF i < k THEN q[i] ELSE IF i = k THEN e ELSE q[i - 1]
  BY LenProperties DEF Inserted
<1>2. ASSUME NEW x \in EventSet(r) PROVE x \in EventSet(q) \cup {e}
  <2>1. PICK i \in 1 .. Len(r) : x = r[i]
    BY DEF EventSet
  <2>2. CASE i < k
    BY <1>1, <2>1, <2>2 DEF EventSet
  <2>3. CASE i = k
    BY <1>1, <2>1, <2>3
  <2>4. CASE i > k
    <3>1. i - 1 \in 1 .. Len(q) /\ x = q[i - 1]
      BY <1>1, <2>1, <2>4
    <3> QED
      BY <3>1 DEF EventSet
  <2> QED
    BY <1>1, <2>2, <2>3, <2>4
<1>3. e \in EventSet(r)
  <2>1. r[k] = e
    BY <1>1
  <2> QED
    BY <1>1, <2>1 DEF EventSet
<1>4. ASSUME NEW i \in 1 .. Len(q) PROVE q[i] \in EventSet(r)
  <2>1. CASE i < k
    <3>1. i \in 1 .. Len(r) /\ r[i] = q[i]
      BY <1>1, <2>1
    <3> QED
      BY <3>1 DEF EventSet
  <2>2. CASE i >= k
    <3>1. i + 1 \in 1 .. Len(r) /\ r[i + 1] = q[i + 1 - 1] /\ i + 1 - 1 = i
      BY <1>1, <2>2
    <3> QED
      BY <3>1 DEF EventSet
  <2> QED
    BY <1>1, <2>1, <2>2
<1> QED
  BY <1>2, <1>3, <1>4 DEF EventSet

\* What each operator does to the set of queued events.
LEMMA AddEventEvents ==
  ASSUME NEW e \in Queue, NEW type \in IntType, NEW delay \in Time, NEW now \in Time
  PROVE  EventSet(AddEvent(e, type, delay, now).q)
           = EventSet(e.q) \cup {[type |-> type, count |-> Plus(now, delay)]}
<1> DEFINE r == AddEvent(e, type, delay, now)
           x == [type |-> type, count |-> Plus(now, delay)]
<1>1. PICK k : Inserted(e.q, r.q, k, x)
  BY AddEventInserts
<1> HIDE DEF r, x
<1>2. EventSet(r.q) = EventSet(e.q) \cup {x}
  BY <1>1, InsertedEvents
<1> QED
  BY <1>2 DEF r, x

LEMMA AddEventCountEvents ==
  ASSUME NEW e \in Queue, NEW type \in IntType, NEW count \in Time, NEW now \in Time
  PROVE  EventSet(AddEventCount(e, type, count, now).q)
           = EventSet(e.q) \cup {[type |-> type, count |-> count]}
<1>1. Minus(count, now) \in Time /\ Plus(now, Minus(count, now)) = count
  BY TimeArithmetic, AddsBack
<1> QED
  BY <1>1, AddEventEvents DEF AddEventCount

LEMMA RemoveHeadEvents ==
  ASSUME NEW e \in Queue, e.q # <<>>, NEW now \in Time
  PROVE  EventSet(e.q) = EventSet(RemoveHead(e, now).q) \cup {e.q[1]}
  BY RemoveHeadRemoves, InsertedEvents

LEMMA RemoveEventEvents ==
  ASSUME NEW e \in Queue, NEW type
  PROVE  \/ EventSet(e.q) = EventSet(RemoveEvent(e, type).q)
         \/ \E x : x.type = type /\ EventSet(e.q) = EventSet(RemoveEvent(e, type).q) \cup {x}
  BY RemoveEventRemoves, InsertedEvents

LEMMA PushCheckEvents ==
  ASSUME NEW e \in Queue, NEW now \in Time
  PROVE  EventSet(PushCheck(e, now).q)
           = EventSet(e.q) \cup {[type |-> "CHECK", count |-> now]}
<1> DEFINE c == [type |-> "CHECK", count |-> now]
<1>1. c \in Event
  BY DEF Event, IntType
<1>2. e.q \in Seq(Event)
  BY DEF Queue
<1>3. PushCheck(e, now).q = <<c>> \o e.q
  BY DEF PushCheck, Queue
<1> HIDE DEF c
<1>4. Inserted(e.q, PushCheck(e, now).q, 1, c)
  BY <1>1, <1>2, <1>3, PushInserts
<1> QED
  BY <1>4, InsertedEvents DEF c

\* No event of a type is queued when none of the set has it.
LEMMA NoneInEvents ==
  ASSUME NEW q, NEW t
  PROVE  HasNone(q, t) <=> \A x \in EventSet(q) : x.type # t
  BY DEF HasNone, EventSet

\* The two events of a machine that starts.
LEMMA InitQueueEvents ==
  ASSUME NEW vi \in Time, NEW now \in Time
  PROVE  EventSet(InitQueue(vi, now).q)
           = {[type |-> "VI", count |-> vi], [type |-> "SPECIAL", count |-> 0]}
<1> DEFINE a == [q |-> <<>>, next |-> vi, done |-> TRUE]
           b == AddEventCount(a, "VI", vi, now)
<1>1. a \in Queue /\ a.q = <<>>
  BY EmptySeq DEF Queue
<1>2. EventSet(a.q) = {}
  BY <1>1 DEF EventSet
<1>3. "VI" \in IntType /\ "SPECIAL" \in IntType
  BY DEF IntType
<1>4. InitQueue(vi, now) = AddEventCount(b, "SPECIAL", 0, now)
  BY DEF InitQueue
<1> HIDE DEF a
<1>5. b \in Queue /\ EventSet(b.q) = EventSet(a.q) \cup {[type |-> "VI", count |-> vi]}
  BY <1>1, <1>3, AddEventCountCounts, AddEventCountEvents
<1> HIDE DEF b
<1>6. EventSet(AddEventCount(b, "SPECIAL", 0, now).q)
        = EventSet(b.q) \cup {[type |-> "SPECIAL", count |-> 0]}
  BY <1>3, <1>5, ZeroTime, AddEventCountEvents
<1> QED
  BY <1>2, <1>4, <1>5, <1>6

\* A load leaves the stored events, and those only.
LEMMA LoadQueueEvents ==
  ASSUME NEW e \in Queue, NEW old \in Seq(Event), NEW now \in Time
  PROVE  EventSet(LoadQueue(e, old, now).q) = EventSet(old)
<1> DEFINE n == Len(old)
           F == CHOOSE f : IsLoad(f, e, old, now, n)
<1>0. n \in Nat
  BY LenProperties
<1>1. LoadQueue(e, old, now) = F[n]
  BY DEF LoadQueue, IsLoad
<1>2. IsLoad(F, e, old, now, n)
  BY <1>0, LoadExists
<1> HIDE DEF F
<1>3. F[0] = ClearQueue(e)
  BY <1>0, <1>2 DEF IsLoad
<1>4. ASSUME NEW i \in 1 .. n
      PROVE  F[i] = AddEventCount(F[i - 1], old[i].type, old[i].count, now)
  BY <1>0, <1>2 DEF IsLoad
<1>5. ClearQueue(e) \in Queue /\ EventSet(ClearQueue(e).q) = {}
  <2> DEFINE none == <<>>
  <2>1. none \in Seq(Event) /\ ClearQueue(e) = [e EXCEPT !.q = none]
    BY EmptySeq DEF ClearQueue
  <2>2. EventSet(none) = {}
    BY DEF EventSet
  <2> HIDE DEF none
  <2>3. ClearQueue(e).q = none /\ ClearQueue(e) \in Queue
    BY <2>1 DEF Queue
  <2> QED
    BY <2>2, <2>3
<1>6. \A i \in 1 .. n : /\ old[i] \in Event /\ old[i].type \in IntType /\ old[i].count \in Time
                        /\ old[i] = [type |-> old[i].type, count |-> old[i].count]
  <2> TAKE i \in 1 .. n
  <2>1. old[i] \in Event
    BY ElementOfSeq
  <2> QED
    BY <2>1 DEF Event
<1> HIDE DEF n
<1> DEFINE Part(i) == {old[j] : j \in 1 .. i}
           Right(i) == F[i] \in Queue /\ EventSet(F[i].q) = Part(i)
<1>7. \A i \in 0 .. n : Right(i)
  <2> DEFINE T == {i \in 0 .. n : ~ Right(i)}
  <2>1. CASE T = {}
    BY <2>1
  <2>2. CASE T # {}
    <3>1. PICK m \in T : \A k \in T : m <= k
      <4>1. T \subseteq Nat
        BY <1>0
      <4> HIDE DEF T
      <4> QED
        BY <2>2, <4>1, SmallestIndex
    <3>2. Right(0)
      <4>1. Part(0) = {}
        OBVIOUS
      <4> QED
        BY <4>1, <1>3, <1>5
    <3>3. m \in 1 .. n
      BY <3>1, <3>2, <1>0
    <3>4. Right(m - 1)
      <4>1. m - 1 \in 0 .. n /\ ~ (m <= m - 1)
        BY <3>3, <1>0
      <4>2. m - 1 \notin T
        <5> HIDE DEF T
        <5> QED
          BY <4>1, <3>1
      <4> HIDE DEF Right
      <4> QED
        BY <4>1, <4>2
    <3>5. /\ F[m] \in Queue
          /\ EventSet(F[m].q) = EventSet(F[m - 1].q) \cup {old[m]}
      <4> DEFINE g == F[m - 1]
                 x == old[m]
      <4>1. F[m] = AddEventCount(g, x.type, x.count, now)
        BY <3>3, <1>4
      <4>2. g \in Queue
        BY <3>4
      <4>3. x.type \in IntType /\ x.count \in Time /\ x = [type |-> x.type, count |-> x.count]
        BY <3>3, <1>6
      <4> HIDE DEF g, x
      <4>4. /\ AddEventCount(g, x.type, x.count, now) \in Queue
            /\ EventSet(AddEventCount(g, x.type, x.count, now).q)
                 = EventSet(g.q) \cup {[type |-> x.type, count |-> x.count]}
        BY <4>2, <4>3, AddEventCountCounts, AddEventCountEvents
      <4>5. F[m] \in Queue /\ EventSet(F[m].q) = EventSet(g.q) \cup {x}
        BY <4>1, <4>3, <4>4
      <4> QED
        BY <4>5 DEF g, x
    <3>6. Part(m) = Part(m - 1) \cup {old[m]}
      <4>1. 1 .. m = 1 .. m - 1 \cup {m}
        BY <3>3, <1>0
      <4> QED
        BY <4>1
    <3> QED
      BY <3>1, <3>4, <3>5, <3>6
  <2> QED
    BY <2>1, <2>2
<1>8. Part(n) = EventSet(old)
  BY DEF EventSet, n
<1>9. n \in 0 .. n
  BY <1>0
<1> QED
  BY <1>1, <1>7, <1>8, <1>9

\* translate_event_queue() moves the units' events with the time base; the
\* timer and the roll-over marker are rebuilt.
Moving == IntType \ {"COMPARE", "SPECIAL"}

Moved(x, base, now) == [x EXCEPT !.count = Plus(Minus(@, now), base)]

\* Translation moves each of the units' events, and no other.
LEMMA TranslateEvents ==
  ASSUME NEW e \in Queue, NEW base \in Time, NEW compare \in Time, NEW now \in Time
  PROVE  \A x : x.type \in Moving =>
           (x \in EventSet(Translate(e, base, compare, now).q)
              <=> \E y \in EventSet(e.q) : x = Moved(y, base, now))
<1> DEFINE a == RemoveEvent(e, "COMPARE")
           d == RemoveEvent(a, "SPECIAL")
           s == [i \in 1 .. Len(d.q) |-> Moved(d.q[i], base, now)]
           b == [d EXCEPT !.q = s]
           c == AddEventCount(b, "COMPARE", compare, now)
           r == AddEventCount(c, "SPECIAL", 0, now)
<1>1. Translate(e, base, compare, now) = r
  BY DEF Translate, Moved
<1>2. a \in Queue /\ d \in Queue
  BY RemoveEventRemoves
<1>3. \A y : y.type \in Moving => (y \in EventSet(d.q) <=> y \in EventSet(e.q))
  <2>1. \A y : y.type # "COMPARE" => (y \in EventSet(a.q) <=> y \in EventSet(e.q))
    BY RemoveEventEvents
  <2> HIDE DEF a
  <2>2. \A y : y.type # "SPECIAL" => (y \in EventSet(d.q) <=> y \in EventSet(a.q))
    BY <1>2, RemoveEventEvents
  <2> HIDE DEF d
  <2> QED
    BY <2>1, <2>2 DEF Moving
<1>4. d.q \in Seq(Event) /\ Len(d.q) \in Nat
  BY <1>2, LenProperties DEF Queue
<1> HIDE DEF a, d
<1>5. \A y \in Event : Moved(y, base, now) \in Event /\ Moved(y, base, now).type = y.type
  <2> TAKE y \in Event
  <2>1. y.count \in Time
    BY DEF Event
  <2>2. Plus(Minus(y.count, now), base) \in Time
    BY <2>1, TimeArithmetic
  <2> QED
    BY <2>2 DEF Event, Moved
<1>6. \A i \in 1 .. Len(d.q) : d.q[i] \in Event
  BY <1>4, ElementOfSeq
<1>7. s \in Seq(Event) /\ Len(s) = Len(d.q) /\ \A i \in 1 .. Len(d.q) : s[i] = Moved(d.q[i], base, now)
  <2>1. \A i \in 1 .. Len(d.q) : Moved(d.q[i], base, now) \in Event
    BY <1>5, <1>6
  <2> HIDE DEF Moved
  <2> QED
    BY <1>4, <2>1
<1> HIDE DEF s
<1>8. b \in Queue /\ b.q = s
  BY <1>2, <1>7 DEF Queue
<1>9. EventSet(s) = {Moved(y, base, now) : y \in EventSet(d.q)}
  <2> HIDE DEF Moved
  <2> QED
    BY <1>7 DEF EventSet
<1> HIDE DEF b
<1>10. "COMPARE" \in IntType /\ "SPECIAL" \in IntType
  BY DEF IntType
<1>11. c \in Queue /\ EventSet(c.q) = EventSet(s) \cup {[type |-> "COMPARE", count |-> compare]}
  <2>1. c \in Queue
    BY <1>8, <1>10, AddEventCountCounts
  <2>2. EventSet(c.q) = EventSet(b.q) \cup {[type |-> "COMPARE", count |-> compare]}
    BY <1>8, <1>10, AddEventCountEvents
  <2> QED
    BY <1>8, <2>1, <2>2
<1> HIDE DEF c
<1>12. EventSet(r.q) = EventSet(c.q) \cup {[type |-> "SPECIAL", count |-> 0]}
  BY <1>10, <1>11, ZeroTime, AddEventCountEvents
<1> HIDE DEF r
<1>13. ASSUME NEW x, x.type \in Moving
       PROVE  x \in EventSet(r.q) <=> \E y \in EventSet(d.q) : x = Moved(y, base, now)
  <2> DEFINE p == [type |-> "COMPARE", count |-> compare]
             z == [type |-> "SPECIAL", count |-> 0]
  <2>1. p.type = "COMPARE" /\ z.type = "SPECIAL"
    OBVIOUS
  <2>2. EventSet(r.q) = EventSet(s) \cup {p, z}
    BY <1>11, <1>12
  <2> HIDE DEF p, z
  <2>3. x # p /\ x # z
    BY <1>13, <2>1 DEF Moving
  <2> HIDE DEF Moved
  <2> QED
    BY <2>2, <2>3, <1>9
<1>14. ASSUME NEW x, x.type \in Moving, NEW y, x = Moved(y, base, now)
       PROVE  y \in EventSet(d.q) <=> y \in EventSet(e.q)
  <2>1. \A z \in EventSet(d.q) \cup EventSet(e.q) : z \in Event
    <3>1. e.q \in Seq(Event)
      BY DEF Queue
    <3>2. \A i \in 1 .. Len(e.q) : e.q[i] \in Event
      BY <3>1, ElementOfSeq
    <3> QED
      BY <1>6, <3>2 DEF EventSet
  <2>2. y \in Event => y.type \in Moving
    BY <1>5, <1>14
  <2> QED
    BY <1>3, <2>1, <2>2
<1> QED
  BY <1>1, <1>13, <1>14

-----------------------------------------------------------------------------
(* The events of one type.                                                *)

\* The queues q and r hold the same events of type t.
Keeps(q, r, t) ==
  /\ HasOne(q, t) <=> HasOne(r, t)
  /\ \A x : x.type = t => (x \in EventSet(q) <=> x \in EventSet(r))

\* Two such queues agree on having no event of the type, and so on along a chain.
LEMMA KeepsNone ==
  ASSUME NEW q, NEW r, NEW t, Keeps(q, r, t)
  PROVE  HasNone(q, t) <=> HasNone(r, t)
  BY NoneInEvents DEF Keeps

LEMMA KeepsChain ==
  ASSUME NEW q, NEW r, NEW s, NEW t, Keeps(q, r, t), Keeps(r, s, t)
  PROVE  Keeps(q, s, t)
  BY DEF Keeps

\* Adding or removing an event keeps the events of the other types.
LEMMA AddKeeps ==
  ASSUME NEW e \in Queue, NEW type \in IntType, NEW delay \in Time, NEW now \in Time,
         NEW t, t # type
  PROVE  Keeps(e.q, AddEvent(e, type, delay, now).q, t)
<1> DEFINE r == AddEvent(e, type, delay, now)
           x == [type |-> type, count |-> Plus(now, delay)]
<1>1. HasOne(e.q, t) <=> HasOne(r.q, t)
  BY AddEventCounts
<1>2. EventSet(r.q) = EventSet(e.q) \cup {x}
  BY AddEventEvents
<1>3. x.type # t
  OBVIOUS
<1> HIDE DEF r, x
<1>4. \A y : y.type = t => (y \in EventSet(e.q) <=> y \in EventSet(r.q))
  BY <1>2, <1>3
<1> QED
  BY <1>1, <1>4 DEF Keeps, r

LEMMA AddCountKeeps ==
  ASSUME NEW e \in Queue, NEW type \in IntType, NEW count \in Time, NEW now \in Time,
         NEW t, t # type
  PROVE  Keeps(e.q, AddEventCount(e, type, count, now).q, t)
  BY AddKeeps, TimeArithmetic DEF AddEventCount

LEMMA RemoveHeadKeeps ==
  ASSUME NEW e \in Queue, e.q # <<>>, NEW now \in Time, NEW t, e.q[1].type # t
  PROVE  Keeps(e.q, RemoveHead(e, now).q, t)
<1> DEFINE r == RemoveHead(e, now)
<1>1. HasOne(e.q, t) <=> HasOne(r.q, t)
  BY RemoveHeadCounts
<1>2. EventSet(e.q) = EventSet(r.q) \cup {e.q[1]}
  BY RemoveHeadEvents
<1> HIDE DEF r
<1>3. \A y : y.type = t => (y \in EventSet(e.q) <=> y \in EventSet(r.q))
  BY <1>2
<1> QED
  BY <1>1, <1>3 DEF Keeps, r

LEMMA RemoveEventKeeps ==
  ASSUME NEW e \in Queue, NEW type, NEW t, t # type
  PROVE  Keeps(e.q, RemoveEvent(e, type).q, t)
<1>1. HasOne(e.q, t) <=> HasOne(RemoveEvent(e, type).q, t)
  BY RemoveEventCounts
<1>2. \A y : y.type = t => (y \in EventSet(e.q) <=> y \in EventSet(RemoveEvent(e, type).q))
  BY RemoveEventEvents
<1> QED
  BY <1>1, <1>2 DEF Keeps

LEMMA PushKeeps ==
  ASSUME NEW e \in Queue, NEW now \in Time, NEW t, t # "CHECK"
  PROVE  Keeps(e.q, PushCheck(e, now).q, t)
<1> DEFINE x == [type |-> "CHECK", count |-> now]
<1>1. HasOne(e.q, t) <=> HasOne(PushCheck(e, now).q, t)
  BY PushCheckCounts
<1>2. EventSet(PushCheck(e, now).q) = EventSet(e.q) \cup {x} /\ x.type # t
  BY PushCheckEvents
<1> HIDE DEF x
<1> QED
  BY <1>1, <1>2 DEF Keeps

-----------------------------------------------------------------------------
(* A CHECK event at the head.                                              *)

\* The head is a CHECK event that Count has reached.
Checked(e, now) ==
  /\ e.q # <<>> /\ e.q[1].type = "CHECK" /\ e.next = e.q[1].count /\ e.next <= now

\* The functions that test and change the head.
LEMMA Thresholds == Sixteenth \in Nat /\ Half \in Nat /\ Sixteenth + Half < M /\ Sixteenth <= Half
  BY ModulusAssumption DEF Half, Sixteenth

\* No event goes in front of a CHECK event that is due.
LEMMA NotBefore ==
  ASSUME NEW now \in Time, NEW e2, e2.type = "CHECK", e2.count \in Time, e2.count <= now,
         now - e2.count < Sixteenth, NEW evt \in Time, NEW done
  PROVE  ~BeforeEvent(evt, e2, now, done)
<1>1. Minus(evt, now) \in Time /\ Minus(e2.count, now) \in Time
  BY TimeArithmetic
<1>2. CASE e2.count = now
  <2>1. Minus(e2.count, now) = 0
    BY <1>2, Wrap, ModulusAssumption DEF Minus, Time
  <2> QED
    BY <1>1, <2>1, Thresholds DEF BeforeEvent, Time
<1>3. CASE e2.count < now
  <2>1. Minus(e2.count, now) = e2.count - now + M /\ Minus(now, e2.count) = now - e2.count
    BY <1>3, Wrap, ModulusAssumption DEF Minus, Time
  <2>2. ~(Minus(e2.count, now) < Half)
    BY <2>1, Thresholds, ModulusAssumption DEF Time
  <2>3. ~(Minus(now, e2.count) >= Sixteenth)
    BY <2>1, Thresholds DEF Time
  <2> QED
    BY <2>2, <2>3 DEF BeforeEvent
<1> QED
  BY <1>2, <1>3 DEF Time

\* So an event that is added leaves it at the head.
LEMMA AddEventHead ==
  ASSUME NEW e \in Queue, NEW type \in IntType, NEW delay \in Time, NEW now \in Time,
         Checked(e, now), now - e.next < Sixteenth
  PROVE  Checked(AddEvent(e, type, delay, now), now) /\ AddEvent(e, type, delay, now).next = e.next
<1> DEFINE x    == [type |-> type, count |-> Plus(now, delay)]
           done == e.done /\ now <= Half
           Goes(e2) == type # "SPECIAL" /\ BeforeEvent(x.count, e2, now, done)
           k    == SelectInSubSeq(e.q, 2, Len(e.q), Goes)
           r    == IF k = 0 THEN Append(e.q, x) ELSE InsertAt(e.q, k, x)
<1>1. x \in Event /\ x.count \in Time
  BY TimeArithmetic DEF Event
<1>2. /\ e.q \in Seq(Event) /\ Len(e.q) \in Nat /\ Len(e.q) # 0 /\ e.q # <<>>
      /\ e.q[1].type = "CHECK" /\ e.next = e.q[1].count /\ e.next \in Time /\ e.next <= now
  BY LenProperties, EmptySeq DEF Queue, Checked
<1>3. ~Goes(e.q[1])
  <2> HIDE DEF x, done
  <2> QED
    BY <1>1, <1>2, NotBefore
<1>4. AddEvent(e, type, delay, now) =
        IF e.q = <<>> \/ Goes(e.q[1])
        THEN [q |-> <<x>> \o e.q, next |-> x.count, done |-> done]
        ELSE [q |-> r, next |-> e.next, done |-> done]
  BY DEF AddEvent
<1>5. k = 0 \/ k \in 2 .. Len(e.q)
  <2> DEFINE I == {i \in 2 .. Len(e.q) : Goes(e.q[i])}
  <2>1. k = IF I # {} THEN Min(I) ELSE 0
    BY DEF SelectInSubSeq
  <2>2. I \subseteq Nat /\ I \subseteq 2 .. Len(e.q)
    BY <1>2
  <2> HIDE DEF I, k
  <2>3. I # {} => Min(I) \in I
    BY <2>2, MinIsMember
  <2> QED
    BY <2>1, <2>2, <2>3
<1> HIDE DEF x, done, Goes, k
<1>6. r[1] = e.q[1] /\ r # <<>>
  <2>1. ASSUME NEW q, NEW j, j > 1, j \in Nat, Inserted(e.q, q, j, x)
        PROVE  q[1] = e.q[1] /\ q # <<>>
    <3>1. q \in Seq(Event) /\ Len(q) = Len(e.q) + 1
          /\ \A i \in 1 .. Len(q) :
               q[i] = IF i < j THEN e.q[i] ELSE IF i = j THEN x ELSE e.q[i - 1]
      BY <2>1 DEF Inserted
    <3>2. 1 \in 1 .. Len(q) /\ 1 < j
      BY <1>2, <2>1, <3>1
    <3>3. q # <<>>
      BY <1>2, <3>1, EmptySeq
    <3> QED
      BY <3>1, <3>2, <3>3
  <2>2. CASE k = 0
    <3>1. Inserted(e.q, r, Len(e.q) + 1, x)
      BY <1>1, <1>2, <2>2, AppendInserts
    <3>2. Len(e.q) + 1 > 1 /\ Len(e.q) + 1 \in Nat
      BY <1>2
    <3> QED
      BY <2>1, <3>1, <3>2
  <2>3. CASE k \in 2 .. Len(e.q)
    <3>1. k # 0 /\ k \in 1 .. Len(e.q) /\ k > 1 /\ k \in Nat
      BY <1>2, <2>3
    <3>2. Inserted(e.q, r, k, x)
      BY <1>1, <1>2, <3>1, InsertAtInserts
    <3> QED
      BY <2>1, <3>1, <3>2
  <2> QED
    BY <1>5, <2>2, <2>3
<1> HIDE DEF r
<1>7. AddEvent(e, type, delay, now) = [q |-> r, next |-> e.next, done |-> done]
  BY <1>2, <1>3, <1>4
<1> QED
  BY <1>2, <1>6, <1>7 DEF Checked

\* The same at an absolute time, and when another event is removed.
LEMMA AddEventCountHead ==
  ASSUME NEW e \in Queue, NEW type \in IntType, NEW count \in Time, NEW now \in Time,
         Checked(e, now), now - e.next < Sixteenth
  PROVE  /\ Checked(AddEventCount(e, type, count, now), now)
         /\ AddEventCount(e, type, count, now).next = e.next
  BY AddEventHead, TimeArithmetic DEF AddEventCount

LEMMA RemoveEventHead ==
  ASSUME NEW e \in Queue, NEW now, Checked(e, now), NEW type, type # "CHECK"
  PROVE  Checked(RemoveEvent(e, type), now) /\ RemoveEvent(e, type).next = e.next
<1> DEFINE r == RemoveEvent(e, type)
<1>1. /\ e.q \in Seq(Event) /\ e.q # <<>> /\ e.q[1].type = "CHECK"
      /\ e.next = e.q[1].count /\ e.next <= now
  BY DEF Checked, Queue
<1>2. r.next = e.next
  BY DEF RemoveEvent, Queue
<1>3. r.q[1] = e.q[1] /\ r.q # <<>>
  <2>1. CASE r.q = e.q
    BY <1>1, <2>1
  <2>2. CASE \E k \in 1 .. Len(e.q) :
               e.q[k].type = type /\ Inserted(r.q, e.q, k, e.q[k])
    <3>1. PICK k \in 1 .. Len(e.q) :
            e.q[k].type = type /\ Inserted(r.q, e.q, k, e.q[k])
      BY <2>2
    <3>2. k # 1
      BY <1>1, <3>1
    <3>3. /\ r.q \in Seq(Event) /\ Len(r.q) \in Nat /\ Len(e.q) = Len(r.q) + 1
          /\ \A i \in 1 .. Len(e.q) :
               e.q[i] = IF i < k THEN r.q[i] ELSE IF i = k THEN e.q[k] ELSE r.q[i - 1]
      BY <3>1, LenProperties DEF Inserted
    <3>4. 1 \in 1 .. Len(e.q) /\ 1 < k /\ Len(r.q) # 0
      BY <3>1, <3>2, <3>3
    <3>5. e.q[1] = r.q[1]
      BY <3>3, <3>4
    <3>6. r.q # <<>>
      BY <3>3, <3>4, EmptySeq
    <3> QED
      BY <3>5, <3>6
  <2> HIDE DEF r
  <2> QED
    BY <2>1, <2>2, RemoveEventRemoves DEF r
<1> HIDE DEF r
<1> QED
  BY <1>1, <1>2, <1>3 DEF Checked, r

\* A CHECK event that is pushed is due at once.
LEMMA PushHead ==
  ASSUME NEW e \in Queue, NEW now \in Time
  PROVE  Checked(PushCheck(e, now), now) /\ PushCheck(e, now).next = now
<1> DEFINE c == [type |-> "CHECK", count |-> now]
           r == <<c>> \o e.q
<1>1. c \in Event /\ c.type = "CHECK" /\ c.count = now
  BY DEF Event, IntType
<1>2. PushCheck(e, now).q = r /\ PushCheck(e, now).next = now
  BY DEF PushCheck, Queue
<1> HIDE DEF c
<1>3. Inserted(e.q, r, 1, c)
  BY <1>1, PushInserts DEF Queue
<1> HIDE DEF r
<1>4. r[1] = c /\ r # <<>>
  <2>1. 1 \in 1 .. Len(r) /\ r[1] = c /\ r \in Seq(Event)
    BY <1>3 DEF Inserted
  <2> QED
    BY <2>1, EmptySeq
<1> QED
  BY <1>1, <1>2, <1>4, ModulusAssumption DEF Checked, Time

-----------------------------------------------------------------------------
(* The specification.                                                      *)

\* The inductive invariant.  Heartbeat is what makes gen_interrupt()'s reads
\* of the head well defined, so types and heartbeat are proved together; a
\* load needs the same of the saved queue.
Beating(e) == e \in Queue /\ HasOne(e.q, "VI") /\ HasOne(e.q, "SPECIAL")

TimeOK  == core_Count \in Time /\ core_Compare \in Time /\ next_vi \in Time
CpuOK   == /\ mi \in [intr : SUBSET RcpBits, mask : SUBSET RcpBits]
           /\ status \in [ie : BOOLEAN, exl : BOOLEAN, im : SUBSET Lines]
           /\ ip \in SUBSET Lines
           /\ ai \in [state : {"idle", "busy", "full"}, next : Time]
           /\ skip_jump \in BOOLEAN
AuxOK   == /\ slot \in BOOLEAN /\ pc \in {"run", "gen", "translate"}
           /\ count_write \in Time \cup {NoCount}
           /\ (pc = "translate" => count_write \in Time)
           /\ ops \in Nat
StoreOK == /\ manuf \in BOOLEAN /\ session \in Sessions
           /\ saved \in Saved \cup {NoSave}
           /\ saved # NoSave => HasOne(saved.q, "VI") /\ HasOne(saved.q, "SPECIAL")
IInv == TimeOK /\ Beating(ev) /\ CpuOK /\ AuxOK /\ StoreOK

-----------------------------------------------------------------------------
(* The queue operators keep the heart beating.                             *)

LEMMA Types == /\ IntType = {"VI", "COMPARE", "CHECK", "SI", "PI", "SPECIAL", "AI", "SP", "DP"}
               /\ "VI" # "SPECIAL"
  BY DEF IntType

LEMMA BeatAdd ==
  ASSUME NEW e, Beating(e), NEW type \in IntType \ {"VI", "SPECIAL"},
         NEW delay \in Time, NEW now \in Time
  PROVE  Beating(AddEvent(e, type, delay, now))
  BY AddEventInserts, AddEventCounts DEF Beating

LEMMA BeatAddCount ==
  ASSUME NEW e, Beating(e), NEW type \in IntType \ {"VI", "SPECIAL"},
         NEW count \in Time, NEW now \in Time
  PROVE  Beating(AddEventCount(e, type, count, now))
  BY AddEventCountCounts DEF Beating

LEMMA BeatNotEmpty ==
  ASSUME NEW e, Beating(e)
  PROVE  e.q # <<>> /\ e.q[1] = Head(e.q) /\ e.q \in Seq(Event)
<1>1. PICK i \in 1 .. Len(e.q) : TRUE
  BY DEF Beating, HasOne
<1>2. e.q \in Seq(Event)
  BY DEF Beating, Queue
<1>3. Len(e.q) # 0
  BY <1>1, <1>2, LenProperties
<1>4. e.q # <<>>
  BY <1>3, EmptySeq
<1> QED
  BY <1>2, <1>4

LEMMA BeatRemoveHead ==
  ASSUME NEW e, Beating(e), NEW now \in Time, Head(e.q).type \notin {"VI", "SPECIAL"}
  PROVE  Beating(RemoveHead(e, now))
<1>1. e \in Queue /\ e.q # <<>> /\ e.q[1].type \notin {"VI", "SPECIAL"}
  BY BeatNotEmpty DEF Beating
<1>2. RemoveHead(e, now) \in Queue
  BY <1>1, RemoveHeadRemoves
<1>3. HasOne(RemoveHead(e, now).q, "VI")
  BY <1>1, RemoveHeadCounts DEF Beating
<1>4. HasOne(RemoveHead(e, now).q, "SPECIAL")
  BY <1>1, RemoveHeadCounts DEF Beating
<1> QED
  BY <1>2, <1>3, <1>4 DEF Beating

\* The head is VI or SPECIAL and is added again.
LEMMA BeatCycle ==
  ASSUME NEW e, Beating(e), NEW now \in Time, NEW count \in Time,
         NEW type \in {"VI", "SPECIAL"}, Head(e.q).type = type
  PROVE  Beating(AddEventCount(RemoveHead(e, now), type, count, now))
<1> DEFINE r == RemoveHead(e, now)
           a == AddEventCount(r, type, count, now)
<1>1. e \in Queue /\ e.q # <<>> /\ e.q[1].type = type
  BY BeatNotEmpty DEF Beating
<1>2. r \in Queue
  BY <1>1, RemoveHeadRemoves
<1>3. \A t \in {"VI", "SPECIAL"} : t # type => HasOne(r.q, t)
  BY <1>1, RemoveHeadCounts DEF Beating
<1>4. HasNone(r.q, type)
  BY <1>1, RemoveHeadCounts DEF Beating
<1>5. type \in IntType
  BY Types
<1> HIDE DEF r
<1>6. /\ a \in Queue
      /\ \A t : type # t => HasOne(r.q, t) <=> HasOne(a.q, t)
      /\ HasNone(r.q, type) => HasOne(a.q, type)
  BY <1>2, <1>5, AddEventCountCounts
<1> HIDE DEF a
<1>7. HasOne(a.q, "VI") /\ HasOne(a.q, "SPECIAL")
  BY <1>3, <1>4, <1>6, Types
<1> QED
  BY <1>6, <1>7 DEF Beating, a, r

LEMMA BeatRemoveEvent ==
  ASSUME NEW e, Beating(e), NEW type, type \notin {"VI", "SPECIAL"}
  PROVE  Beating(RemoveEvent(e, type))
  BY RemoveEventRemoves, RemoveEventCounts DEF Beating

LEMMA BeatPush ==
  ASSUME NEW e, Beating(e), NEW now \in Time
  PROVE  Beating(PushCheck(e, now))
  BY PushCheckCounts DEF Beating

LEMMA BeatNext ==
  ASSUME NEW e, Beating(e), NEW t \in Time
  PROVE  Beating([e EXCEPT !.next = t])
  BY DEF Beating, Queue

LEMMA BeatTranslate ==
  ASSUME NEW e, Beating(e), NEW base \in Time, NEW compare \in Time, NEW now \in Time
  PROVE  Beating(Translate(e, base, compare, now))
<1> DEFINE r == Translate(e, base, compare, now)
<1>1. e \in Queue /\ HasOne(e.q, "VI") /\ HasOne(e.q, "SPECIAL")
  BY DEF Beating
<1>2. r \in Queue /\ \A t : t # "COMPARE" /\ HasOne(e.q, t) => HasOne(r.q, t)
  BY <1>1, TranslateCounts
<1> HIDE DEF r
<1>3. HasOne(r.q, "VI") /\ HasOne(r.q, "SPECIAL")
  BY <1>1, <1>2
<1> QED
  BY <1>2, <1>3 DEF Beating, r

LEMMA BeatLoad ==
  ASSUME NEW e, Beating(e), NEW q \in Seq(Event), HasOne(q, "VI"), HasOne(q, "SPECIAL"),
         NEW now \in Time
  PROVE  Beating(LoadQueue(e, q, now))
<1>1. e \in Queue
  BY DEF Beating
<1> DEFINE r == LoadQueue(e, q, now)
<1>2. r \in Queue /\ \A t : HasOne(q, t) => HasOne(r.q, t)
  BY <1>1, LoadQueueCounts
<1> HIDE DEF r
<1>3. HasOne(r.q, "VI") /\ HasOne(r.q, "SPECIAL")
  BY <1>2
<1> QED
  BY <1>2, <1>3 DEF Beating, r

-----------------------------------------------------------------------------
(* Parts of a step.                                                        *)

\* What the assumptions give.
LEMMA Parameters ==
  /\ BlockCycles \subseteq Time /\ StoreCycles \subseteq Time
  /\ BootCount \in Time /\ BootVi \in Time /\ 2 \in Time
  /\ ViDelay \in Time /\ DeviceDelay \in Time /\ AiDelays \subseteq Time
  /\ TimerOffsets \subseteq Time /\ CountWrites \subseteq Time
  /\ Devices \subseteq {"SI", "PI", "SP", "DP"}
  /\ IdleGrain \in Nat \ {0} /\ MaxOps \in Nat
<1>1. Half \in 1 .. M - 1 /\ Sixteenth \in 1 .. M - 1 /\ 2 \in 0 .. M - 1
  BY ModulusAssumption DEF Half, Sixteenth
<1> QED
  BY <1>1, ModulusAssumption, DelayAssumption DEF Time

\* check_interrupt(), called with any registers the caller may write.
LEMMA CheckInterruptStep ==
  ASSUME NEW m \in [intr : SUBSET RcpBits, mask : SUBSET RcpBits],
         NEW st \in [ie : BOOLEAN, exl : BOOLEAN, im : SUBSET Lines],
         NEW lines \in SUBSET Lines, NEW e, Beating(e), NEW now \in Time,
         CheckInterrupt(m, st, lines, e, now)
  PROVE  mi' = m /\ status' = st /\ ip' \in SUBSET Lines /\ Beating(ev)'
<1>1. mi' = m /\ status' = st
  BY DEF CheckInterrupt
<1>2. ip' \in SUBSET Lines
  BY DEF CheckInterrupt, Lines
<1>3. ev' = PushCheck(e, now) \/ ev' = e
  BY DEF CheckInterrupt
<1>4. Beating(ev')
  BY <1>3, BeatPush
<1> QED
  BY <1>1, <1>2, <1>4 DEF Beating

\* The end of gen_interrupt().
LEMMA FinishStep ==
  ASSUME IInv, NEW type, NEW e, Beating(e),
         NEW m \in [intr : SUBSET RcpBits, mask : SUBSET RcpBits],
         Finish(type, e, m), ai' \in [state : {"idle", "busy", "full"}, next : Time]
  PROVE  CpuOK' /\ Beating(ev)' /\ ops' \in Nat
<1> DEFINE timer == IF type = "COMPARE" THEN ip \cup {"TIMER"} ELSE ip
           new   == IF type # "CHECK" /\ Asserted(m) THEN timer \cup {"RCP"} ELSE timer
           raise == \/ type = "CHECK"
                    \/ Asserted(m) /\ Enabled(status) /\ status.im \cap new # {}
<1>1. /\ mi' = m /\ ip' = new
      /\ status' = [status EXCEPT !.exl = @ \/ raise]
      /\ skip_jump' = (raise /\ slot)
      /\ ev' = IF raise /\ slot THEN [e EXCEPT !.next = 0] ELSE e
      /\ ops' = IF raise THEN MaxOps ELSE ops
  BY DEF Finish
<1>2. raise \in BOOLEAN
  OBVIOUS
<1>3. new \in SUBSET Lines
  BY DEF IInv, CpuOK, Lines
<1> HIDE DEF raise, new
<1>4. status' \in [ie : BOOLEAN, exl : BOOLEAN, im : SUBSET Lines]
  BY <1>1, <1>2 DEF IInv, CpuOK
<1>5. skip_jump' \in BOOLEAN
  BY <1>1, <1>2 DEF IInv, AuxOK
<1>6. ops' \in Nat
  BY <1>1, Parameters DEF IInv, AuxOK
<1>7. Beating(ev')
  BY <1>1, BeatNext, ZeroTime
<1>8. mi' \in [intr : SUBSET RcpBits, mask : SUBSET RcpBits]
  BY <1>1
<1>9. ip' \in SUBSET Lines
  BY <1>1, <1>3
<1> QED
  BY <1>4, <1>5, <1>6, <1>7, <1>8, <1>9 DEF CpuOK, Beating

\* Raising an RCP interrupt.
LEMMA RaisedType ==
  ASSUME IInv, NEW b \in RcpBits
  PROVE  Raised(b) \in [intr : SUBSET RcpBits, mask : SUBSET RcpBits]
  BY DEF IInv, CpuOK, Raised

\* gen_interrupt() returns to the code that called it.
LEMMA ReturnStep ==
  ASSUME IInv, Return, ops' \in Nat
  PROVE  core_Count' = core_Count /\ core_Compare' = core_Compare /\ AuxOK' /\ StoreOK'
<1>1. core_Count' = core_Count /\ core_Compare' = core_Compare /\ slot' = slot
      /\ count_write' = count_write /\ UNCHANGED stVars
      /\ pc' = (IF count_write # NoCount THEN "translate" ELSE "run")
  BY DEF Return
<1>2. AuxOK'
  BY <1>1 DEF IInv, AuxOK
<1>3. StoreOK'
  BY <1>1 DEF IInv, StoreOK, stVars
<1> QED
  BY <1>1, <1>2, <1>3

\* The time of a queued event, or zero.
LEMMA GetEventTime ==
  ASSUME NEW e \in Queue, NEW type
  PROVE  GetEvent(e, type) \in Time
<1> DEFINE Test(x) == x.type = type
           I == {i \in 1 .. Len(e.q) : Test(e.q[i])}
           k == SelectInSeq(e.q, Test)
<1>1. e.q \in Seq(Event) /\ Len(e.q) \in Nat
  BY LenProperties DEF Queue
<1>2. k = IF I # {} THEN Min(I) ELSE 0
  BY DEF SelectInSeq
<1>3. GetEvent(e, type) = IF k = 0 THEN 0 ELSE e.q[k].count
  BY DEF GetEvent
<1>4. I \subseteq 1 .. Len(e.q) /\ I \subseteq Nat
  BY <1>1
<1> HIDE DEF k, I
<1>5. k = 0 \/ k \in 1 .. Len(e.q)
  BY <1>2, <1>4, MinIsMember
<1>6. CASE k \in 1 .. Len(e.q)
  <2>1. e.q[k] \in Event
    BY <1>1, <1>6, ElementOfSeq
  <2> QED
    BY <2>1, <1>3, ZeroTime DEF Event
<1> QED
  BY <1>3, <1>5, <1>6, ZeroTime

-----------------------------------------------------------------------------
(* The initial state, and every step.                                      *)

LEMMA InitIInv == Init => IInv
<1> SUFFICES ASSUME Init PROVE IInv
  OBVIOUS
<1>1. TimeOK
  BY Parameters, ZeroTime DEF Init, TimeOK
<1>2. Beating(ev)
  BY Parameters, InitQueueCounts DEF Init, Beating
<1>3. CpuOK
  BY ZeroTime DEF Init, CpuOK, Idle
<1>4. AuxOK
  BY DEF Init, AuxOK
<1>5. StoreOK
  BY DEF Init, StoreOK
<1> QED
  BY <1>1, <1>2, <1>3, <1>4, <1>5 DEF IInv

\* The game's instructions that touch Count, Compare and the registers.
LEMMA BranchStep == IInv /\ Branch => IInv'
<1> SUFFICES ASSUME IInv, Branch PROVE IInv'
  OBVIOUS
<1>1. core_Count' \in Time
  BY Parameters, TimeArithmetic DEF Branch, IInv, TimeOK
<1> QED
  BY <1>1 DEF Branch, IInv, TimeOK, CpuOK, AuxOK, StoreOK, Beating, cpuVars, stVars

LEMMA IdleSkipStep == IInv /\ IdleSkip => IInv'
<1> SUFFICES ASSUME IInv, IdleSkip PROVE IInv'
  OBVIOUS
<1> DEFINE skip == Minus(ev.next, core_Count)
<1>1. ev.next \in Time /\ core_Count \in Time
  BY DEF IInv, Beating, Queue, TimeOK
<1>2. skip \in Time
  BY <1>1, TimeArithmetic
<1>3. core_Count' = Plus(core_Count, skip - (skip % IdleGrain))
  BY DEF IdleSkip
<1> HIDE DEF skip
<1>4. skip - (skip % IdleGrain) \in Int
  BY <1>2, Parameters DEF Time
<1>5. core_Count' \in Time
  BY <1>1, <1>3, <1>4, ModulusAssumption DEF Plus, Time
<1> QED
  BY <1>5 DEF IdleSkip, IInv, TimeOK, CpuOK, AuxOK, StoreOK, Beating, cpuVars, auxVars, stVars

LEMMA Mtc0CountStep == IInv /\ Mtc0Count => IInv'
<1> SUFFICES ASSUME IInv, Mtc0Count PROVE IInv'
  OBVIOUS
<1>1. core_Count' \in Time
  BY Parameters, TimeArithmetic DEF Mtc0Count, IInv, TimeOK
<1>2. count_write' \in Time /\ ops' \in Nat
  BY Parameters DEF Mtc0Count, Straight, IInv, AuxOK
<1> QED
  BY <1>1, <1>2 DEF Mtc0Count, IInv, TimeOK, CpuOK, AuxOK, StoreOK, Beating, cpuVars, stVars

LEMMA TranslateCountStep == IInv /\ TranslateCount => IInv'
<1> SUFFICES ASSUME IInv, TranslateCount PROVE IInv'
  OBVIOUS
<1>1. count_write \in Time
  BY DEF TranslateCount, IInv, AuxOK
<1>2. Beating(ev')
  BY <1>1, BeatTranslate DEF TranslateCount, IInv, TimeOK
<1> QED
  BY <1>1, <1>2 DEF TranslateCount, IInv, TimeOK, CpuOK, AuxOK, StoreOK, Beating, cpuVars, stVars

LEMMA Mtc0CompareStep == IInv /\ Mtc0Compare => IInv'
<1> SUFFICES ASSUME IInv, Mtc0Compare PROVE IInv'
  OBVIOUS
<1>1. core_Count' \in Time
  BY Parameters, TimeArithmetic DEF Mtc0Compare, IInv, TimeOK
<1>2. core_Compare' \in Time
  BY <1>1, Parameters, TimeArithmetic DEF Mtc0Compare
<1>3. Beating(RemoveEvent(ev, "COMPARE"))
  BY BeatRemoveEvent DEF IInv
<1>4. "COMPARE" \in IntType \ {"VI", "SPECIAL"}
  BY Types
<1>5. Beating(ev')
  BY <1>1, <1>2, <1>3, <1>4, BeatAddCount DEF Mtc0Compare
<1>6. ip' \in SUBSET Lines /\ ops' \in Nat
  BY DEF Mtc0Compare, Straight, IInv, CpuOK, AuxOK
<1> QED
  BY <1>1, <1>2, <1>5, <1>6
     DEF Mtc0Compare, IInv, TimeOK, CpuOK, AuxOK, StoreOK, Beating, stVars

LEMMA Mtc0StatusStep == IInv /\ Mtc0Status => IInv'
<1> SUFFICES ASSUME IInv, Mtc0Status PROVE IInv'
  OBVIOUS
<1>1. core_Count' \in Time
  BY Parameters, TimeArithmetic DEF Mtc0Status, IInv, TimeOK
<1>2. PICK s \in StatusWrites :
        CheckInterrupt(mi, [ie |-> s[1], exl |-> s[2], im |-> s[3]], ip, ev, core_Count)
  BY DEF Mtc0Status
<1> DEFINE st == [ie |-> s[1], exl |-> s[2], im |-> s[3]]
<1>3. st \in [ie : BOOLEAN, exl : BOOLEAN, im : SUBSET Lines]
  BY MaskAssumption
<1> HIDE DEF st
<1>4. CheckInterrupt(mi, st, ip, ev, core_Count)
  BY <1>2 DEF st
<1>5. mi' = mi /\ status' = st /\ ip' \in SUBSET Lines /\ Beating(ev)'
  BY <1>3, <1>4, CheckInterruptStep DEF IInv, CpuOK, TimeOK
<1>6. ops' \in Nat /\ pc' \in {"run", "gen"}
  BY DEF Mtc0Status, Straight, ThenGen, IInv, AuxOK
<1> QED
  BY <1>1, <1>3, <1>5, <1>6 DEF Mtc0Status, IInv, TimeOK, CpuOK, AuxOK, StoreOK, stVars

LEMMA EretStep == IInv /\ Eret => IInv'
<1> SUFFICES ASSUME IInv, Eret PROVE IInv'
  OBVIOUS
<1>1. core_Count' \in Time
  BY Parameters, TimeArithmetic DEF Eret, IInv, TimeOK
<1> DEFINE st == [status EXCEPT !.exl = FALSE]
<1>2. st \in [ie : BOOLEAN, exl : BOOLEAN, im : SUBSET Lines]
  BY DEF IInv, CpuOK
<1>3. CheckInterrupt(mi, st, ip, ev, core_Count')
  BY DEF Eret
<1> HIDE DEF st
<1>4. mi' = mi /\ status' = st /\ ip' \in SUBSET Lines /\ Beating(ev)'
  BY <1>1, <1>2, <1>3, CheckInterruptStep DEF IInv, CpuOK
<1>5. ops' \in Nat /\ pc' \in {"run", "gen"}
  BY DEF Eret, ThenGen
<1> QED
  BY <1>1, <1>2, <1>4, <1>5 DEF Eret, IInv, TimeOK, CpuOK, AuxOK, StoreOK, stVars

LEMMA WriteMiMaskStep == IInv /\ WriteMiMask => IInv'
<1> SUFFICES ASSUME IInv, WriteMiMask PROVE IInv'
  OBVIOUS
<1>1. core_Count' \in Time
  BY Parameters, TimeArithmetic DEF WriteMiMask, IInv, TimeOK
<1>2. PICK mask \in SUBSET RcpBits :
        CheckInterrupt([mi EXCEPT !.mask = mask], status, ip, ev, core_Count)
  <2>1. PICK b \in Maskable :
          \E mask \in {mi.mask \cup {b}, mi.mask \ {b}} :
            CheckInterrupt([mi EXCEPT !.mask = mask], status, ip, ev, core_Count)
    BY DEF WriteMiMask
  <2>2. {mi.mask \cup {b}, mi.mask \ {b}} \subseteq SUBSET RcpBits
    BY MaskAssumption DEF IInv, CpuOK
  <2> QED
    BY <2>1, <2>2
<1> DEFINE m == [mi EXCEPT !.mask = mask]
<1>3. m \in [intr : SUBSET RcpBits, mask : SUBSET RcpBits]
  BY DEF IInv, CpuOK
<1> HIDE DEF m
<1>4. CheckInterrupt(m, status, ip, ev, core_Count)
  BY <1>2 DEF m
<1>5. mi' = m /\ status' = status /\ ip' \in SUBSET Lines /\ Beating(ev)'
  BY <1>3, <1>4, CheckInterruptStep DEF IInv, CpuOK, TimeOK
<1>6. ops' \in Nat /\ pc' \in {"run", "gen"}
  BY DEF WriteMiMask, Straight, ThenGen, IInv, AuxOK
<1> QED
  BY <1>1, <1>3, <1>5, <1>6 DEF WriteMiMask, IInv, TimeOK, CpuOK, AuxOK, StoreOK, stVars

LEMMA WriteRcpIntrStep == IInv /\ WriteRcpIntr => IInv'
<1> SUFFICES ASSUME IInv, WriteRcpIntr PROVE IInv'
  OBVIOUS
<1>1. PICK intr \in SUBSET RcpBits :
        CheckInterrupt([mi EXCEPT !.intr = intr], status, ip, ev, core_Count)
  <2>1. CASE \E b \in mi.intr \cap Ackable :
               CheckInterrupt([mi EXCEPT !.intr = @ \ {b}], status, ip, ev, core_Count)
    <3>1. PICK b \in mi.intr \cap Ackable :
            CheckInterrupt([mi EXCEPT !.intr = @ \ {b}], status, ip, ev, core_Count)
      BY <2>1
    <3>2. mi.intr \ {b} \in SUBSET RcpBits
      BY DEF IInv, CpuOK
    <3> QED
      BY <3>1, <3>2
  <2>2. CASE CheckInterrupt([mi EXCEPT !.intr = @ \cup {"SP"}], status, ip, ev, core_Count)
    <3>1. mi.intr \cup {"SP"} \in SUBSET RcpBits
      BY DEF IInv, CpuOK, RcpBits
    <3> QED
      BY <2>2, <3>1
  <2> QED
    BY <2>1, <2>2 DEF WriteRcpIntr
<1> DEFINE m == [mi EXCEPT !.intr = intr]
<1>2. m \in [intr : SUBSET RcpBits, mask : SUBSET RcpBits]
  BY DEF IInv, CpuOK
<1> HIDE DEF m
<1>3. CheckInterrupt(m, status, ip, ev, core_Count)
  BY <1>1 DEF m
<1>4. mi' = m /\ status' = status /\ ip' \in SUBSET Lines /\ Beating(ev)'
  BY <1>2, <1>3, CheckInterruptStep DEF IInv, CpuOK, TimeOK
<1>5. ops' \in Nat
  BY DEF WriteRcpIntr, Straight, IInv, AuxOK
<1> QED
  BY <1>2, <1>4, <1>5 DEF WriteRcpIntr, IInv, TimeOK, CpuOK, AuxOK, StoreOK, stVars

\* Transfers and audio buffers.
LEMMA StartDeviceStep == IInv /\ StartDevice => IInv'
<1> SUFFICES ASSUME IInv, StartDevice PROVE IInv'
  OBVIOUS
<1>1. core_Count' \in Time
  BY Parameters, TimeArithmetic DEF StartDevice, IInv, TimeOK
<1>2. PICK b \in Devices \ {"SI"} : ev' = AddEvent(ev, b, DeviceDelay, core_Count')
  BY DEF StartDevice
<1>3. b \in IntType \ {"VI", "SPECIAL"}
  BY Parameters, Types
<1>4. Beating(ev')
  BY <1>1, <1>2, <1>3, Parameters, BeatAdd DEF IInv
<1>5. ops' \in Nat
  BY DEF StartDevice, Straight, IInv, AuxOK
<1> QED
  BY <1>1, <1>4, <1>5
     DEF StartDevice, IInv, TimeOK, CpuOK, AuxOK, StoreOK, Beating, cpuVars, stVars

LEMMA WriteAiLenStep == IInv /\ WriteAiLen => IInv'
<1> SUFFICES ASSUME IInv, WriteAiLen PROVE IInv'
  OBVIOUS
<1>1. core_Count' \in Time /\ Beating(ev')
      /\ ai' \in [state : {"idle", "busy", "full"}, next : Time]
  <2>1. PICK delay \in AiDelays :
          IF ai.state # "idle"
          THEN /\ Clear(Plus(GetEvent(ev, "AI"), delay))
               /\ ai' = [state |-> "full", next |-> delay]
               /\ UNCHANGED <<core_Count, ev>>
          ELSE /\ \E d \in StoreCycles : core_Count' = Plus(core_Count, d)
               /\ Clear(Plus(core_Count', delay))
               /\ ev' = AddEvent(ev, "AI", delay, core_Count')
               /\ ai' = [ai EXCEPT !.state = "busy"]
    BY DEF WriteAiLen
  <2>2. delay \in Time
    BY Parameters
  <2>3. CASE ai.state # "idle"
    BY <2>1, <2>2, <2>3 DEF IInv, TimeOK
  <2>4. CASE ai.state = "idle"
    <3>1. core_Count' \in Time
      BY <2>1, <2>4, Parameters, TimeArithmetic DEF IInv, TimeOK
    <3>2. "AI" \in IntType \ {"VI", "SPECIAL"}
      BY Types
    <3>3. Beating(ev')
      BY <2>1, <2>2, <2>4, <3>1, <3>2, BeatAdd DEF IInv
    <3> QED
      BY <2>1, <2>4, <3>1, <3>3 DEF IInv, CpuOK
  <2> QED
    BY <2>3, <2>4
<1>2. ops' \in Nat
  BY DEF WriteAiLen, Straight, IInv, AuxOK
<1> QED
  BY <1>1, <1>2 DEF WriteAiLen, IInv, TimeOK, CpuOK, AuxOK, StoreOK, Beating, stVars

LEMMA SiReadStep == IInv /\ SiRead => IInv'
<1> SUFFICES ASSUME IInv, SiRead PROVE IInv'
  OBVIOUS
<1>1. core_Count' \in Time
  BY Parameters, TimeArithmetic DEF SiRead, IInv, TimeOK
<1>2. "SI" \in IntType \ {"VI", "SPECIAL"}
  BY Types
<1>3. Beating(ev')
  BY <1>1, <1>2, Parameters, BeatAdd DEF SiRead, IInv
<1>4. ops' \in Nat
  BY DEF SiRead, StartSiRead, Straight, IInv, AuxOK
<1> QED
  BY <1>1, <1>3, <1>4
     DEF SiRead, IInv, TimeOK, CpuOK, AuxOK, StoreOK, Beating, cpuVars, stVars

LEMMA SiReadSaveStep == IInv /\ SiReadSave => IInv'
<1> SUFFICES ASSUME IInv, SiReadSave PROVE IInv'
  OBVIOUS
<1>1. core_Count' \in Time
  BY Parameters, TimeArithmetic DEF SiReadSave, IInv, TimeOK
<1> DEFINE added  == AddEvent(ev, "SI", DeviceDelay, core_Count')
           absent == GetEvent(ev, "SI") = 0
           hack   == IF absent THEN added ELSE ev
<1>2. "SI" \in IntType \ {"VI", "SPECIAL"}
  BY Types
<1>3. Beating(added)
  BY <1>1, <1>2, Parameters, BeatAdd DEF IInv
<1>4. /\ manuf' = (manuf \/ absent)
      /\ saved' = [q |-> ev.q, count |-> core_Count', compare |-> core_Compare,
                   next |-> hack.next, next_vi |-> next_vi, mi |-> mi,
                   status |-> status, ip |-> ip, ai |-> ai, manuf |-> manuf']
      /\ ev' = IF absent THEN hack ELSE added
  BY DEF SiReadSave
<1> HIDE DEF added, absent
<1>5. Beating(ev')
  BY <1>3, <1>4
<1>6. hack.next \in Time
  BY <1>3 DEF IInv, Beating, Queue
<1>7. manuf' \in BOOLEAN
  BY <1>4 DEF IInv, StoreOK, absent
<1> HIDE DEF hack
<1>8. saved' \in Saved
  BY <1>1, <1>4, <1>6, <1>7 DEF Saved, IInv, TimeOK, CpuOK, Beating, Queue
<1>9. saved'.q = ev.q
  BY <1>4
<1>10. ops' \in Nat
  BY DEF SiReadSave, StartSiRead, Straight, IInv, AuxOK
<1>11. StoreOK'
  BY <1>7, <1>8, <1>9 DEF StoreOK, IInv, Beating, SiReadSave
<1> QED
  BY <1>1, <1>5, <1>10, <1>11
     DEF SiReadSave, IInv, TimeOK, CpuOK, AuxOK, Beating, cpuVars

LEMMA SiReadLoadStep == IInv /\ SiReadLoad => IInv'
<1> SUFFICES ASSUME IInv, SiReadLoad PROVE IInv'
  OBVIOUS
<1>1. saved # NoSave /\ saved \in Saved
  BY DEF SiReadLoad, IInv, StoreOK
<1>2. /\ saved.q \in Seq(Event) /\ saved.next \in Time /\ saved.count \in Time
      /\ HasOne(saved.q, "VI") /\ HasOne(saved.q, "SPECIAL")
  BY <1>1 DEF Saved, IInv, StoreOK
<1> DEFINE base   == LoadQueue(ev, saved.q, core_Count)
           loaded == [base EXCEPT !.next = saved.next]
<1>3. Beating(base)
  BY <1>2, BeatLoad DEF IInv, TimeOK
<1> HIDE DEF base
<1>4. Beating(loaded)
  BY <1>2, <1>3, BeatNext
<1>5. ev' = IF saved.manuf THEN loaded ELSE AddEvent(loaded, "SI", DeviceDelay, saved.count)
  BY DEF SiReadLoad, base
<1> HIDE DEF loaded
<1>6. "SI" \in IntType \ {"VI", "SPECIAL"}
  BY Types
<1>7. Beating(ev')
  BY <1>2, <1>4, <1>5, <1>6, Parameters, BeatAdd
<1>8. TimeOK'
  BY <1>1 DEF SiReadLoad, Saved, TimeOK
<1>9. CpuOK'
  BY <1>1 DEF SiReadLoad, Saved, CpuOK, IInv
<1>10. AuxOK'
  BY DEF SiReadLoad, StartSiRead, Straight, AuxOK, IInv
<1>11. StoreOK'
  BY DEF SiReadLoad, StoreOK, IInv
<1> QED
  BY <1>7, <1>8, <1>9, <1>10, <1>11 DEF IInv, Beating

-----------------------------------------------------------------------------
(* gen_interrupt().                                                        *)

LEMMA GenSkipJumpStep == IInv /\ GenSkipJump => IInv'
<1> SUFFICES ASSUME IInv, GenSkipJump PROVE IInv'
  OBVIOUS
<1>1. NextInterrupt(ev.q, core_Count) \in Time
  BY NextInterruptTime DEF IInv, Beating, Queue, TimeOK
<1>2. Beating(ev')
  BY <1>1, BeatNext DEF GenSkipJump, IInv
<1>3. ops' \in Nat
  BY Parameters DEF GenSkipJump
<1>4. core_Count' = core_Count /\ core_Compare' = core_Compare /\ AuxOK' /\ StoreOK'
  BY <1>3, ReturnStep DEF GenSkipJump
<1> QED
  BY <1>2, <1>4 DEF GenSkipJump, IInv, TimeOK, CpuOK, Beating

LEMMA GenSpecialStep == IInv /\ GenSpecial => IInv'
<1> SUFFICES ASSUME IInv, GenSpecial PROVE IInv'
  OBVIOUS
<1>1. Beating(AddEventCount(RemoveHead(ev, core_Count), "SPECIAL", 0, core_Count))
  BY BeatCycle, ZeroTime DEF GenSpecial, Generating, IInv, TimeOK
<1>2. Beating(ev')
  BY <1>1 DEF GenSpecial, IInv
<1>3. ops' \in Nat
  BY DEF GenSpecial, IInv, AuxOK
<1>4. core_Count' = core_Count /\ core_Compare' = core_Compare /\ AuxOK' /\ StoreOK'
  BY <1>3, ReturnStep DEF GenSpecial
<1> QED
  BY <1>2, <1>4 DEF GenSpecial, IInv, TimeOK, CpuOK, Beating, cpuVars

LEMMA GenVIStep == IInv /\ GenVI => IInv'
<1> SUFFICES ASSUME IInv, GenVI PROVE IInv'
  OBVIOUS
<1>1. next_vi' \in Time
  BY Parameters, TimeArithmetic DEF GenVI, IInv, TimeOK
<1> DEFINE e == AddEventCount(RemoveHead(ev, core_Count), "VI", next_vi', core_Count)
<1>2. Beating(e)
  BY <1>1, BeatCycle DEF GenVI, Generating, IInv, TimeOK
<1>3. Finish("VI", e, Raised("VI"))
  BY DEF GenVI
<1> HIDE DEF e
<1>4. Raised("VI") \in [intr : SUBSET RcpBits, mask : SUBSET RcpBits]
  BY RaisedType DEF RcpBits
<1>5. ai' \in [state : {"idle", "busy", "full"}, next : Time]
  BY DEF GenVI, IInv, CpuOK
<1>6. CpuOK' /\ Beating(ev)' /\ ops' \in Nat
  BY <1>2, <1>3, <1>4, <1>5, FinishStep
<1>7. core_Count' = core_Count /\ core_Compare' = core_Compare /\ AuxOK' /\ StoreOK'
  BY <1>6, ReturnStep DEF GenVI
<1> QED
  BY <1>1, <1>6, <1>7 DEF IInv, TimeOK

LEMMA GenCompareStep == IInv /\ GenCompare => IInv'
<1> SUFFICES ASSUME IInv, GenCompare PROVE IInv'
  OBVIOUS
<1> DEFINE e == AddEventCount(RemoveHead(ev, core_Count), "COMPARE", core_Compare,
                              Plus(core_Count, 2))
<1>1. Beating(RemoveHead(ev, core_Count))
  BY BeatRemoveHead DEF GenCompare, Generating, IInv, TimeOK
<1>2. Plus(core_Count, 2) \in Time
  BY Parameters, TimeArithmetic DEF IInv, TimeOK
<1>3. "COMPARE" \in IntType \ {"VI", "SPECIAL"}
  BY Types
<1>4. Beating(e)
  BY <1>1, <1>2, <1>3, BeatAddCount DEF IInv, TimeOK
<1>5. Finish("COMPARE", e, mi)
  BY DEF GenCompare
<1> HIDE DEF e
<1>6. ai' \in [state : {"idle", "busy", "full"}, next : Time]
      /\ mi \in [intr : SUBSET RcpBits, mask : SUBSET RcpBits]
  BY DEF GenCompare, IInv, CpuOK
<1>7. CpuOK' /\ Beating(ev)' /\ ops' \in Nat
  BY <1>4, <1>5, <1>6, FinishStep
<1>8. core_Count' = core_Count /\ core_Compare' = core_Compare /\ AuxOK' /\ StoreOK'
  BY <1>7, ReturnStep DEF GenCompare
<1> QED
  BY <1>7, <1>8 DEF GenCompare, IInv, TimeOK

LEMMA GenCheckStep == IInv /\ GenCheck => IInv'
<1> SUFFICES ASSUME IInv, GenCheck PROVE IInv'
  OBVIOUS
<1>1. Beating(RemoveHead(ev, core_Count))
  BY BeatRemoveHead DEF GenCheck, Generating, IInv, TimeOK
<1>2. Finish("CHECK", RemoveHead(ev, core_Count), mi)
  BY DEF GenCheck
<1>3. ai' \in [state : {"idle", "busy", "full"}, next : Time]
      /\ mi \in [intr : SUBSET RcpBits, mask : SUBSET RcpBits]
  BY DEF GenCheck, IInv, CpuOK
<1>4. CpuOK' /\ Beating(ev)' /\ ops' \in Nat
  BY <1>1, <1>2, <1>3, FinishStep
<1>5. core_Count' = core_Count /\ core_Compare' = core_Compare /\ AuxOK' /\ StoreOK'
  BY <1>4, ReturnStep DEF GenCheck
<1> QED
  BY <1>4, <1>5 DEF GenCheck, IInv, TimeOK

LEMMA GenDeviceStep ==
  ASSUME IInv, NEW b \in {"SI", "PI", "SP", "DP"}, GenDevice(b)
  PROVE  IInv'
<1>1. Beating(RemoveHead(ev, core_Count))
  BY BeatRemoveHead DEF GenDevice, Generating, IInv, TimeOK
<1>2. Finish(b, RemoveHead(ev, core_Count), Raised(b))
  BY DEF GenDevice
<1>3. Raised(b) \in [intr : SUBSET RcpBits, mask : SUBSET RcpBits]
  BY RaisedType DEF RcpBits
<1>4. ai' \in [state : {"idle", "busy", "full"}, next : Time]
  BY DEF GenDevice, IInv, CpuOK
<1>5. CpuOK' /\ Beating(ev)' /\ ops' \in Nat
  BY <1>1, <1>2, <1>3, <1>4, FinishStep
<1>6. core_Count' = core_Count /\ core_Compare' = core_Compare /\ AuxOK' /\ StoreOK'
  BY <1>5, ReturnStep DEF GenDevice
<1> QED
  BY <1>5, <1>6 DEF GenDevice, IInv, TimeOK

LEMMA GenSpSilentStep == IInv /\ GenSpSilent => IInv'
<1> SUFFICES ASSUME IInv, GenSpSilent PROVE IInv'
  OBVIOUS
<1>1. Beating(ev')
  BY BeatRemoveHead DEF GenSpSilent, Generating, IInv, TimeOK
<1>2. ops' \in Nat
  BY DEF GenSpSilent, IInv, AuxOK
<1>3. core_Count' = core_Count /\ core_Compare' = core_Compare /\ AuxOK' /\ StoreOK'
  BY <1>2, ReturnStep DEF GenSpSilent
<1> QED
  BY <1>1, <1>3 DEF GenSpSilent, IInv, TimeOK, CpuOK, Beating, cpuVars

LEMMA GenAIStep == IInv /\ GenAI => IInv'
<1> SUFFICES ASSUME IInv, GenAI PROVE IInv'
  OBVIOUS
<1> DEFINE rest == RemoveHead(ev, core_Count)
           next == Plus(GetEvent(ev, "AI"), ai.next)
           e    == AddEventCount(rest, "AI", next, core_Count)
<1>1. Beating(rest)
  BY BeatRemoveHead DEF GenAI, Generating, IInv, TimeOK
<1>2. next \in Time
  BY GetEventTime, TimeArithmetic DEF IInv, Beating, CpuOK
<1>3. "AI" \in IntType \ {"VI", "SPECIAL"}
  BY Types
<1>4. IF ai.state = "full"
      THEN /\ ai' = [ai EXCEPT !.state = "busy"]
           /\ Finish("AI", e, Raised("AI"))
      ELSE /\ ai' = Idle
           /\ Finish("AI", rest, Raised("AI"))
  BY DEF GenAI
<1> HIDE DEF rest, next
<1>5. Beating(e)
  BY <1>1, <1>2, <1>3, BeatAddCount DEF IInv, TimeOK
<1> HIDE DEF e
<1>6. Raised("AI") \in [intr : SUBSET RcpBits, mask : SUBSET RcpBits]
  BY RaisedType DEF RcpBits
<1>7. ai' \in [state : {"idle", "busy", "full"}, next : Time]
  BY <1>4, ZeroTime DEF IInv, CpuOK, Idle
<1>8. CpuOK' /\ Beating(ev)' /\ ops' \in Nat
  BY <1>1, <1>4, <1>5, <1>6, <1>7, FinishStep
<1>9. core_Count' = core_Count /\ core_Compare' = core_Compare /\ AuxOK' /\ StoreOK'
  BY <1>8, ReturnStep DEF GenAI
<1> QED
  BY <1>8, <1>9 DEF GenAI, IInv, TimeOK

LEMMA StutterStep == IInv /\ UNCHANGED vars => IInv'
  BY DEF IInv, TimeOK, CpuOK, AuxOK, StoreOK, Beating, vars, timeVars, cpuVars,
         auxVars, stVars

LEMMA NextIInv == IInv /\ [Next]_vars => IInv'
<1> SUFFICES ASSUME IInv, [Next]_vars PROVE IInv'
  OBVIOUS
<1>1. CASE Game
  BY <1>1, BranchStep, IdleSkipStep, Mtc0CountStep, TranslateCountStep, Mtc0CompareStep,
     Mtc0StatusStep, EretStep, WriteMiMaskStep, WriteRcpIntrStep, StartDeviceStep,
     WriteAiLenStep, SiReadStep, SiReadSaveStep, SiReadLoadStep DEF Game
<1>2. CASE Gen
  BY <1>2, GenSkipJumpStep, GenSpecialStep, GenVIStep, GenCompareStep, GenCheckStep,
     GenSpSilentStep, GenAIStep, GenDeviceStep DEF Gen
<1>3. CASE UNCHANGED vars
  BY <1>3, StutterStep
<1> QED
  BY <1>1, <1>2, <1>3 DEF Next

-----------------------------------------------------------------------------

\* Every reachable state satisfies the inductive invariant.
THEOREM Inductive == Spec => []IInv
<1>1. Init => IInv
  BY InitIInv
<1>2. IInv /\ [Next]_vars => IInv'
  BY NextIInv
<1> QED
  BY <1>1, <1>2, PTL DEF Spec

\* Registers, queued times and saved states keep the width and shape the code
\* gives them, whatever the game and the user do.
THEOREM TypesHold == Spec => []TypeOK
<1>1. IInv => TypeOK
  BY DEF IInv, TimeOK, CpuOK, AuxOK, StoreOK, Beating, TypeOK
<1> QED
  BY <1>1, Inductive, PTL

\* Exactly one VI and one SPECIAL event are queued at any time, through every
\* roll-over, Count write, save and load: gen_interrupt() always has a head to
\* read, and neither vertical interrupts nor the roll-over marker are ever lost
\* or doubled.
THEOREM HeartbeatHolds == Spec => []Heartbeat
<1>1. IInv => Heartbeat
  BY DEF IInv, Beating, Heartbeat
<1> QED
  BY <1>1, Inductive, PTL

-----------------------------------------------------------------------------
(* What the steps do to the events of one unit.                            *)

\* check_interrupt() and the end of gen_interrupt() add CHECK events only.
LEMMA CheckInterruptKeeps ==
  ASSUME NEW m, NEW st, NEW lines, NEW e \in Queue, NEW now \in Time, NEW t, t # "CHECK",
         CheckInterrupt(m, st, lines, e, now)
  PROVE  Keeps(e.q, ev'.q, t)
<1>1. ev' = PushCheck(e, now) \/ ev' = e
  BY DEF CheckInterrupt
<1>2. Keeps(e.q, e.q, t)
  BY DEF Keeps
<1> QED
  BY <1>1, <1>2, PushKeeps

LEMMA FinishKeeps ==
  ASSUME NEW type, NEW e \in Queue, NEW m, Finish(type, e, m)
  PROVE  ev'.q = e.q
<1>1. ev' = [e EXCEPT !.next = 0] \/ ev' = e
  BY DEF Finish
<1>2. [e EXCEPT !.next = 0].q = e.q
  BY DEF Queue
<1> QED
  BY <1>1, <1>2

\* The events of the audio and the video unit are only touched by the steps
\* named here.
LEMMA UnitKept ==
  ASSUME IInv, NEW t \in {"AI", "VI"}, [Next]_vars
  PROVE  \/ Keeps(ev.q, ev'.q, t)
         \/ t = "VI" /\ GenVI
         \/ t = "AI" /\ (WriteAiLen \/ GenAI)
         \/ TranslateCount \/ SiReadLoad
<1>1. /\ ev \in Queue /\ ev.q # <<>> /\ ev.q[1] = Head(ev.q) /\ Beating(ev)
      /\ core_Count \in Time /\ core_Compare \in Time
  BY BeatNotEmpty DEF IInv, Beating, TimeOK
<1>2. t # "CHECK" /\ t # "COMPARE" /\ t # "SPECIAL" /\ t # "SP" /\ t # "DP" /\ t # "SI" /\ t # "PI"
  OBVIOUS
<1>3. \A b \in {"COMPARE", "SPECIAL", "SI", "PI", "SP", "DP", "VI", "AI"} : b \in IntType
  BY DEF IntType
<1>4. Keeps(ev.q, ev.q, t)
  BY DEF Keeps
<1>5. CASE UNCHANGED vars
  BY <1>4, <1>5 DEF vars, timeVars
<1>6. CASE Branch \/ IdleSkip \/ Mtc0Count
  BY <1>4, <1>6 DEF Branch, IdleSkip, Mtc0Count
<1>7. CASE Mtc0Compare
  <2>1. core_Count' \in Time
    BY <1>1, <1>7, Parameters, TimeArithmetic DEF Mtc0Compare
  <2>2. core_Compare' \in Time
    BY <1>7, <2>1, Parameters, TimeArithmetic DEF Mtc0Compare
  <2> DEFINE a == RemoveEvent(ev, "COMPARE")
  <2>3. a \in Queue /\ Keeps(ev.q, a.q, t)
    BY <1>1, <1>2, RemoveEventRemoves, RemoveEventKeeps
  <2>4. ev' = AddEventCount(a, "COMPARE", core_Compare', core_Count')
    BY <1>7 DEF Mtc0Compare
  <2> HIDE DEF a
  <2>5. Keeps(a.q, ev'.q, t)
    BY <1>2, <1>3, <2>1, <2>2, <2>3, <2>4, AddCountKeeps
  <2> QED
    BY <2>3, <2>5, KeepsChain
<1>8. CASE Mtc0Status
  BY <1>1, <1>2, <1>8, CheckInterruptKeeps DEF Mtc0Status
<1>9. CASE Eret
  <2>1. core_Count' \in Time
    BY <1>1, <1>9, Parameters, TimeArithmetic DEF Eret
  <2> QED
    BY <1>1, <1>2, <1>9, <2>1, CheckInterruptKeeps DEF Eret
<1>10. CASE WriteMiMask
  BY <1>1, <1>2, <1>10, CheckInterruptKeeps DEF WriteMiMask
<1>11. CASE WriteRcpIntr
  BY <1>1, <1>2, <1>11, CheckInterruptKeeps DEF WriteRcpIntr
<1>12. CASE StartDevice
  <2>1. core_Count' \in Time
    BY <1>1, <1>12, Parameters, TimeArithmetic DEF StartDevice
  <2>2. PICK b \in Devices \ {"SI"} : ev' = AddEvent(ev, b, DeviceDelay, core_Count')
    BY <1>12 DEF StartDevice
  <2>3. b \in IntType /\ t # b
    BY <1>2, <1>3, Parameters
  <2> QED
    BY <1>1, <2>1, <2>2, <2>3, Parameters, AddKeeps
<1>13. CASE WriteAiLen
  <2>1. CASE t = "AI"
    BY <1>13, <2>1
  <2>2. CASE t = "VI"
    <3>1. PICK delay \in AiDelays :
            \/ ev' = ev
            \/ /\ \E d \in StoreCycles : core_Count' = Plus(core_Count, d)
               /\ ev' = AddEvent(ev, "AI", delay, core_Count')
      BY <1>13 DEF WriteAiLen
    <3>2. CASE ev' = ev
      BY <1>4, <3>2
    <3>3. CASE /\ \E d \in StoreCycles : core_Count' = Plus(core_Count, d)
               /\ ev' = AddEvent(ev, "AI", delay, core_Count')
      <4>1. core_Count' \in Time /\ delay \in Time
        BY <1>1, <3>3, Parameters, TimeArithmetic
      <4> QED
        BY <1>1, <1>3, <2>2, <3>3, <4>1, AddKeeps
    <3> QED
      BY <3>1, <3>2, <3>3
  <2> QED
    BY <2>1, <2>2
<1>14. CASE SiRead \/ SiReadSave
  <2>1. core_Count' \in Time
    BY <1>1, <1>14, Parameters, TimeArithmetic DEF SiRead, SiReadSave
  <2>2. ev' = AddEvent(ev, "SI", DeviceDelay, core_Count')
    BY <1>14 DEF SiRead, SiReadSave
  <2> QED
    BY <1>1, <1>2, <1>3, <2>1, <2>2, Parameters, AddKeeps
<1>15. CASE GenSkipJump
  <2>1. ev' = [ev EXCEPT !.next = NextInterrupt(ev.q, core_Count)]
    BY <1>15 DEF GenSkipJump
  <2>2. ev'.q = ev.q
    BY <1>1, <2>1 DEF Queue
  <2> QED
    BY <1>4, <2>2
<1> DEFINE r == RemoveHead(ev, core_Count)
<1>16. r \in Queue /\ (Head(ev.q).type # t => Keeps(ev.q, r.q, t))
  BY <1>1, RemoveHeadRemoves, RemoveHeadKeeps
<1> HIDE DEF r
<1>17. CASE GenSpecial
  <2>1. ev' = ev \/ ev' = AddEventCount(r, "SPECIAL", 0, core_Count)
    BY <1>17 DEF GenSpecial, r
  <2>2. Head(ev.q).type = "SPECIAL"
    BY <1>17 DEF GenSpecial, Generating
  <2>3. Keeps(r.q, AddEventCount(r, "SPECIAL", 0, core_Count).q, t)
    BY <1>1, <1>2, <1>3, <1>16, ZeroTime, AddCountKeeps
  <2>4. Keeps(ev.q, r.q, t)
    BY <1>2, <1>16, <2>2
  <2> QED
    BY <1>4, <2>1, <2>3, <2>4, KeepsChain
<1>18. CASE GenVI
  <2>1. CASE t = "VI"
    BY <1>18, <2>1
  <2>2. CASE t = "AI"
    <3>1. next_vi' \in Time /\ Head(ev.q).type = "VI"
      BY <1>18, Parameters, TimeArithmetic DEF GenVI, Generating, IInv, TimeOK
    <3> DEFINE e == AddEventCount(r, "VI", next_vi', core_Count)
    <3>2. Finish("VI", e, Raised("VI"))
      BY <1>18 DEF GenVI, r
    <3>3. e \in Queue /\ Keeps(r.q, e.q, t)
      BY <1>1, <1>3, <1>16, <2>2, <3>1, AddEventCountCounts, AddCountKeeps
    <3>4. Keeps(ev.q, r.q, t)
      BY <1>16, <2>2, <3>1
    <3> HIDE DEF e
    <3>5. ev'.q = e.q
      BY <3>2, <3>3, FinishKeeps
    <3> QED
      BY <3>3, <3>4, <3>5, KeepsChain
  <2> QED
    BY <2>1, <2>2
<1>19. CASE GenCompare
  <2>1. Plus(core_Count, 2) \in Time /\ Head(ev.q).type = "COMPARE"
    BY <1>1, <1>19, Parameters, TimeArithmetic DEF GenCompare, Generating
  <2> DEFINE e == AddEventCount(r, "COMPARE", core_Compare, Plus(core_Count, 2))
  <2>2. Finish("COMPARE", e, mi)
    BY <1>19 DEF GenCompare, r
  <2>3. e \in Queue /\ Keeps(r.q, e.q, t)
    BY <1>1, <1>2, <1>3, <1>16, <2>1, AddEventCountCounts, AddCountKeeps
  <2>4. Keeps(ev.q, r.q, t)
    BY <1>2, <1>16, <2>1
  <2> HIDE DEF e
  <2>5. ev'.q = e.q
    BY <2>2, <2>3, FinishKeeps
  <2> QED
    BY <2>3, <2>4, <2>5, KeepsChain
<1>20. CASE GenCheck
  <2>1. Finish("CHECK", r, mi) /\ Head(ev.q).type = "CHECK"
    BY <1>20 DEF GenCheck, Generating, r
  <2> QED
    BY <1>2, <1>16, <2>1, FinishKeeps
<1>21. CASE GenSpSilent
  <2>1. ev' = r /\ Head(ev.q).type = "SP"
    BY <1>21 DEF GenSpSilent, Generating, r
  <2> QED
    BY <1>2, <1>16, <2>1
<1>22. ASSUME NEW b \in {"SI", "PI", "SP", "DP"}, GenDevice(b) PROVE Keeps(ev.q, ev'.q, t)
  <2>1. Finish(b, r, Raised(b)) /\ Head(ev.q).type = b
    BY <1>22 DEF GenDevice, Generating, r
  <2> QED
    BY <1>2, <1>16, <1>22, <2>1, FinishKeeps
<1>23. CASE GenAI
  <2>1. CASE t = "AI"
    BY <1>23, <2>1
  <2>2. CASE t = "VI"
    <3> DEFINE next == Plus(GetEvent(ev, "AI"), ai.next)
               e    == AddEventCount(r, "AI", next, core_Count)
    <3>1. next \in Time
      BY GetEventTime, TimeArithmetic DEF IInv, Beating, CpuOK
    <3>2. Head(ev.q).type = "AI"
      BY <1>23 DEF GenAI, Generating
    <3>3. Finish("AI", e, Raised("AI")) \/ Finish("AI", r, Raised("AI"))
      BY <1>23 DEF GenAI, r
    <3> HIDE DEF next
    <3>4. e \in Queue /\ Keeps(r.q, e.q, t)
      BY <1>1, <1>3, <1>16, <2>2, <3>1, AddEventCountCounts, AddCountKeeps
    <3>5. Keeps(ev.q, r.q, t)
      BY <1>16, <2>2, <3>2
    <3> HIDE DEF e
    <3>6. ev'.q = e.q \/ ev'.q = r.q
      BY <1>16, <3>3, <3>4, FinishKeeps
    <3> QED
      BY <3>4, <3>5, <3>6, KeepsChain
  <2> QED
    BY <2>1, <2>2
<1> QED
  BY <1>5, <1>6, <1>7, <1>8, <1>9, <1>10, <1>11, <1>12, <1>13, <1>14, <1>15, <1>17,
     <1>18, <1>19, <1>20, <1>21, <1>22, <1>23 DEF Next, Game, Gen

-----------------------------------------------------------------------------
(* The audio double buffer.                                                *)

\* One AI event while the unit is busy, none while it is idle.
Paired(q, state) == IF state = "idle" THEN HasNone(q, "AI") ELSE HasOne(q, "AI")

AudioOK == /\ Paired(ev.q, ai.state)
           /\ saved # NoSave => Paired(saved.q, saved.ai.state)

\* Pairing depends on the AI events alone.
LEMMA PairedKept ==
  ASSUME NEW q, NEW r, NEW s, Keeps(q, r, "AI"), Paired(q, s)
  PROVE  Paired(r, s)
  BY KeepsNone DEF Paired, Keeps

\* Only these steps write the AI registers; only a save writes the savestate.
LEMMA RegistersKept ==
  ASSUME [Next]_vars
  PROVE  /\ ai' = ai \/ WriteAiLen \/ GenAI \/ SiReadLoad
         /\ next_vi' = next_vi \/ GenVI \/ SiReadLoad
         /\ saved' = saved \/ SiReadSave
         /\ session' = session
<1>1. CASE UNCHANGED vars
  BY <1>1 DEF vars, timeVars, cpuVars, stVars
<1>2. CASE Game
  <2>1. CASE Branch \/ IdleSkip \/ Mtc0Count \/ TranslateCount
    BY <2>1 DEF Branch, IdleSkip, Mtc0Count, TranslateCount, cpuVars, stVars
  <2>2. CASE Mtc0Compare \/ Mtc0Status \/ Eret \/ WriteMiMask \/ WriteRcpIntr \/ StartDevice
    BY <2>2 DEF Mtc0Compare, Mtc0Status, Eret, WriteMiMask, WriteRcpIntr, StartDevice,
                cpuVars, stVars
  <2>3. CASE WriteAiLen \/ SiRead \/ SiReadSave \/ SiReadLoad
    BY <2>3 DEF WriteAiLen, SiRead, SiReadSave, SiReadLoad, cpuVars, stVars
  <2> QED
    BY <1>2, <2>1, <2>2, <2>3 DEF Game
<1>3. CASE Gen
  <2>1. CASE GenSkipJump \/ GenSpecial \/ GenVI \/ GenCompare
    BY <2>1 DEF GenSkipJump, GenSpecial, GenVI, GenCompare, Return, cpuVars, stVars
  <2>2. CASE GenCheck \/ GenSpSilent \/ GenAI \/ \E b \in {"SI", "PI", "SP", "DP"} : GenDevice(b)
    BY <2>2 DEF GenCheck, GenSpSilent, GenAI, GenDevice, Return, cpuVars, stVars
  <2> QED
    BY <1>3, <2>1, <2>2 DEF Gen
<1> QED
  BY <1>1, <1>2, <1>3 DEF Next

\* The steps that touch AI events or the AI registers keep them paired.
LEMMA AudioTranslate ==
  ASSUME IInv, AudioOK, TranslateCount
  PROVE  Paired(ev'.q, ai'.state)
<1>1. /\ ev \in Queue /\ HasOne(ev.q, "SPECIAL") /\ core_Count \in Time
      /\ core_Compare \in Time /\ count_write \in Time
      /\ ev' = Translate(ev, count_write, core_Compare, core_Count) /\ ai' = ai
  BY DEF IInv, Beating, TimeOK, AuxOK, TranslateCount, cpuVars
<1>2. HasOne(ev.q, "AI") => HasOne(ev'.q, "AI")
  BY <1>1, TranslateCounts
<1>3. ASSUME HasNone(ev.q, "AI") PROVE HasNone(ev'.q, "AI")
  <2>1. SUFFICES ASSUME NEW x \in EventSet(ev'.q), x.type = "AI" PROVE FALSE
    BY NoneInEvents
  <2>2. x.type \in Moving
    BY <2>1 DEF Moving, IntType
  <2>3. PICK y \in EventSet(ev.q) : x = Moved(y, count_write, core_Count)
    BY <1>1, <2>1, <2>2, TranslateEvents
  <2>4. y \in Event
    <3>1. ev.q \in Seq(Event)
      BY <1>1 DEF Queue
    <3> QED
      BY <2>3, <3>1, ElementOfSeq DEF EventSet
  <2>5. y.type = x.type
    BY <2>3, <2>4 DEF Moved, Event
  <2> QED
    BY <1>3, <2>1, <2>3, <2>5, NoneInEvents
<1> QED
  BY <1>1, <1>2, <1>3 DEF AudioOK, Paired

LEMMA AudioLoad ==
  ASSUME IInv, AudioOK, SiReadLoad
  PROVE  Paired(ev'.q, ai'.state)
<1>1. /\ saved # NoSave /\ saved \in Saved /\ ai' = saved.ai /\ ev \in Queue
      /\ core_Count \in Time
  BY DEF SiReadLoad, IInv, StoreOK, Beating, TimeOK
<1>2. saved.q \in Seq(Event) /\ saved.next \in Time /\ saved.count \in Time
  BY <1>1 DEF Saved
<1> DEFINE base   == LoadQueue(ev, saved.q, core_Count)
           loaded == [base EXCEPT !.next = saved.next]
           added  == AddEvent(loaded, "SI", DeviceDelay, saved.count)
<1>3. base \in Queue /\ Keeps(saved.q, saved.q, "AI") /\ (HasOne(saved.q, "AI") => HasOne(base.q, "AI"))
  BY <1>1, <1>2, LoadQueueCounts DEF Keeps
<1>4. HasNone(saved.q, "AI") => HasNone(base.q, "AI")
  BY <1>1, <1>2, LoadQueueEvents, NoneInEvents
<1>5. ev' = loaded \/ ev' = added
  BY DEF SiReadLoad
<1> HIDE DEF base
<1>6. loaded \in Queue /\ loaded.q = base.q
  BY <1>2, <1>3 DEF Queue
<1> HIDE DEF loaded
<1>7. "SI" \in IntType /\ "AI" # "SI"
  BY DEF IntType
<1>8. Keeps(loaded.q, added.q, "AI")
  BY <1>2, <1>6, <1>7, Parameters, AddKeeps
<1> HIDE DEF added
<1>9. Paired(loaded.q, saved.ai.state)
  BY <1>1, <1>3, <1>4, <1>6 DEF AudioOK, Paired
<1> QED
  BY <1>1, <1>5, <1>8, <1>9, PairedKept

LEMMA AudioStore ==
  ASSUME IInv, AudioOK, WriteAiLen
  PROVE  Paired(ev'.q, ai'.state)
<1>1. CASE ai.state # "idle"
  <2>1. ev' = ev /\ ai'.state = "full"
    BY <1>1 DEF WriteAiLen
  <2> QED
    BY <1>1, <2>1 DEF AudioOK, Paired
<1>2. CASE ai.state = "idle"
  <2>1. PICK delay \in AiDelays :
          /\ \E d \in StoreCycles : core_Count' = Plus(core_Count, d)
          /\ ev' = AddEvent(ev, "AI", delay, core_Count')
          /\ ai' = [ai EXCEPT !.state = "busy"]
    BY <1>2 DEF WriteAiLen
  <2>2. core_Count' \in Time /\ delay \in Time /\ "AI" \in IntType /\ ev \in Queue
    BY <2>1, Parameters, TimeArithmetic DEF IInv, TimeOK, IntType, Beating
  <2>3. HasNone(ev.q, "AI")
    BY <1>2 DEF AudioOK, Paired
  <2>4. HasOne(ev'.q, "AI")
    BY <2>1, <2>2, <2>3, AddEventCounts
  <2>5. ai'.state = "busy"
    BY <2>1 DEF IInv, CpuOK
  <2> QED
    BY <2>4, <2>5 DEF Paired
<1> QED
  BY <1>1, <1>2

LEMMA AudioPlayed ==
  ASSUME IInv, AudioOK, GenAI
  PROVE  Paired(ev'.q, ai'.state)
<1> DEFINE r    == RemoveHead(ev, core_Count)
           next == Plus(GetEvent(ev, "AI"), ai.next)
           e    == AddEventCount(r, "AI", next, core_Count)
<1>1. /\ ev \in Queue /\ ev.q # <<>> /\ ev.q[1].type = "AI" /\ core_Count \in Time
      /\ ai \in [state : {"idle", "busy", "full"}, next : Time]
  BY BeatNotEmpty DEF IInv, Beating, TimeOK, CpuOK, GenAI, Generating
<1>2. HasOne(ev.q, "AI")
  <2>1. 1 \in 1 .. Len(ev.q)
    <3>1. ev.q \in Seq(Event) /\ Len(ev.q) \in Nat /\ Len(ev.q) # 0
      BY <1>1, LenProperties, EmptySeq DEF Queue
    <3> QED
      BY <3>1
  <2>2. ~HasNone(ev.q, "AI")
    BY <1>1, <2>1 DEF HasNone
  <2> QED
    BY <2>2 DEF AudioOK, Paired
<1>3. r \in Queue /\ HasNone(r.q, "AI")
  BY <1>1, <1>2, RemoveHeadRemoves, RemoveHeadCounts
<1>4. next \in Time /\ "AI" \in IntType
  BY <1>1, GetEventTime, TimeArithmetic DEF IntType
<1>5. \/ /\ ai' = [ai EXCEPT !.state = "busy"]
         /\ Finish("AI", e, Raised("AI"))
      \/ /\ ai' = Idle
         /\ Finish("AI", r, Raised("AI"))
  BY DEF GenAI
<1> HIDE DEF r, next
<1>6. e \in Queue /\ HasOne(e.q, "AI")
  BY <1>1, <1>3, <1>4, AddEventCountCounts
<1> HIDE DEF e
<1>7. \/ ai'.state = "busy" /\ ev'.q = e.q
      \/ ai'.state = "idle" /\ ev'.q = r.q
  BY <1>1, <1>3, <1>5, <1>6, FinishKeeps DEF Idle
<1> QED
  BY <1>3, <1>6, <1>7 DEF Paired

\* So does every other step, and the savestate stays paired as well.
LEMMA AudioStep ==
  ASSUME IInv, AudioOK, [Next]_vars
  PROVE  AudioOK'
<1>1. Paired(ev'.q, ai'.state)
  <2>1. CASE WriteAiLen \/ GenAI \/ SiReadLoad \/ TranslateCount
    BY <2>1, AudioStore, AudioPlayed, AudioLoad, AudioTranslate
  <2>2. CASE ~(WriteAiLen \/ GenAI \/ SiReadLoad \/ TranslateCount)
    <3>1. ai' = ai
      BY <2>2, RegistersKept
    <3>2. Keeps(ev.q, ev'.q, "AI")
      BY <2>2, UnitKept
    <3> QED
      BY <3>1, <3>2, PairedKept DEF AudioOK
  <2> QED
    BY <2>1, <2>2
<1>2. saved' # NoSave => Paired(saved'.q, saved'.ai.state)
  <2>1. CASE saved' = saved
    BY <2>1 DEF AudioOK
  <2>2. CASE SiReadSave
    <3>1. saved'.q = ev.q /\ saved'.ai = ai
      BY <2>2 DEF SiReadSave
    <3> QED
      BY <3>1 DEF AudioOK
  <2> QED
    BY <2>1, <2>2, RegistersKept
<1> QED
  BY <1>1, <1>2 DEF AudioOK

LEMMA AudioInit == Init => AudioOK
<1> SUFFICES ASSUME Init PROVE AudioOK
  OBVIOUS
<1>1. EventSet(ev.q) = {[type |-> "VI", count |-> BootVi], [type |-> "SPECIAL", count |-> 0]}
  BY Parameters, InitQueueEvents DEF Init
<1>2. HasNone(ev.q, "AI")
  BY <1>1, NoneInEvents
<1> QED
  BY <1>2 DEF Init, AudioOK, Paired, Idle

\* The number of AI events is what the pairing says.
LEMMA PairedCounts == AudioOK => AudioPairing
<1> SUFFICES ASSUME AudioOK PROVE AudioPairing
  OBVIOUS
<1>1. CASE ai.state = "idle"
  <2>1. Events("AI") = {}
    BY <1>1 DEF AudioOK, Paired, HasNone, Events
  <2> QED
    BY <1>1, <2>1, FS_EmptySet DEF AudioPairing
<1>2. CASE ai.state # "idle"
  <2>1. PICK i \in 1 .. Len(ev.q) : \A j \in 1 .. Len(ev.q) : ev.q[j].type = "AI" <=> j = i
    BY <1>2 DEF AudioOK, Paired, HasOne
  <2>2. Events("AI") = {i}
    BY <2>1 DEF Events
  <2> QED
    BY <1>2, <2>2, FS_Singleton DEF AudioPairing
<1> QED
  BY <1>1, <1>2

\* The audio double buffer: an AI event is queued exactly while the unit is
\* busy, and never two, whatever the order of AI_LEN stores, AI interrupts,
\* Count writes, saves and loads.
THEOREM AudioIsPaired == Spec => []AudioPairing
<1>1. Init => AudioOK
  BY AudioInit
<1>2. IInv /\ AudioOK /\ [Next]_vars => AudioOK'
  BY AudioStep
<1>3. AudioOK => AudioPairing
  BY PairedCounts
<1> QED
  BY <1>1, <1>2, <1>3, Inductive, PTL DEF Spec

-----------------------------------------------------------------------------
(* The vertical interrupt.                                                 *)

DueAt(q, count) == \A x \in EventSet(q) : x.type = "VI" => x.count = count

VideoOK == /\ DueAt(ev.q, next_vi)
           /\ saved # NoSave => DueAt(saved.q, saved.next_vi)

\* A field re-arms the VI event at the new next_vi.
LEMMA VideoRaised ==
  ASSUME IInv, VideoOK, GenVI
  PROVE  DueAt(ev'.q, next_vi')
<1> DEFINE r == RemoveHead(ev, core_Count)
           e == AddEventCount(r, "VI", next_vi', core_Count)
           x == [type |-> "VI", count |-> next_vi']
<1>1. /\ ev \in Queue /\ ev.q # <<>> /\ ev.q[1].type = "VI" /\ core_Count \in Time
      /\ HasOne(ev.q, "VI") /\ next_vi' \in Time /\ "VI" \in IntType
  BY BeatNotEmpty, Parameters, TimeArithmetic
     DEF IInv, Beating, TimeOK, GenVI, Generating, IntType
<1>2. r \in Queue /\ HasNone(r.q, "VI")
  BY <1>1, RemoveHeadRemoves, RemoveHeadCounts
<1>3. Finish("VI", e, Raised("VI"))
  BY DEF GenVI
<1>4. x.count = next_vi'
  OBVIOUS
<1> HIDE DEF r
<1>5. e \in Queue /\ EventSet(e.q) = EventSet(r.q) \cup {x}
  BY <1>1, <1>2, AddEventCountCounts, AddEventCountEvents
<1> HIDE DEF e, x
<1>6. ev'.q = e.q
  BY <1>3, <1>5, FinishKeeps
<1>7. \A y \in EventSet(r.q) : y.type # "VI"
  BY <1>2, NoneInEvents
<1> QED
  BY <1>4, <1>5, <1>6, <1>7 DEF DueAt

\* A load restores the event and next_vi together.
LEMMA VideoLoad ==
  ASSUME IInv, VideoOK, SiReadLoad
  PROVE  DueAt(ev'.q, next_vi')
<1>1. /\ saved # NoSave /\ saved \in Saved /\ next_vi' = saved.next_vi /\ ev \in Queue
      /\ core_Count \in Time
  BY DEF SiReadLoad, IInv, StoreOK, Beating, TimeOK
<1>2. saved.q \in Seq(Event) /\ saved.next \in Time /\ saved.count \in Time
  BY <1>1 DEF Saved
<1> DEFINE base   == LoadQueue(ev, saved.q, core_Count)
           loaded == [base EXCEPT !.next = saved.next]
           added  == AddEvent(loaded, "SI", DeviceDelay, saved.count)
<1>3. base \in Queue /\ EventSet(base.q) = EventSet(saved.q)
  BY <1>1, <1>2, LoadQueueCounts, LoadQueueEvents
<1>5. ev' = loaded \/ ev' = added
  BY DEF SiReadLoad
<1> HIDE DEF base
<1>6. loaded \in Queue /\ loaded.q = base.q
  BY <1>2, <1>3 DEF Queue
<1> HIDE DEF loaded
<1>7. "SI" \in IntType /\ "VI" # "SI"
  BY DEF IntType
<1>8. Keeps(loaded.q, added.q, "VI")
  BY <1>2, <1>6, <1>7, Parameters, AddKeeps
<1> HIDE DEF added
<1> QED
  BY <1>1, <1>3, <1>5, <1>6, <1>8 DEF VideoOK, DueAt, Keeps

\* Without a Count write, no step separates the VI event from next_vi.
LEMMA VideoStep ==
  ASSUME IInv, VideoOK, [Next]_vars, ~TranslateCount
  PROVE  VideoOK'
<1>1. DueAt(ev'.q, next_vi')
  <2>1. CASE GenVI \/ SiReadLoad
    BY <2>1, VideoRaised, VideoLoad
  <2>2. CASE ~(GenVI \/ SiReadLoad)
    <3>1. next_vi' = next_vi
      BY <2>2, RegistersKept
    <3>2. Keeps(ev.q, ev'.q, "VI")
      BY <2>2, UnitKept
    <3> QED
      BY <3>1, <3>2 DEF VideoOK, DueAt, Keeps
  <2> QED
    BY <2>1, <2>2
<1>2. saved' # NoSave => DueAt(saved'.q, saved'.next_vi)
  <2>1. CASE saved' = saved
    BY <2>1 DEF VideoOK
  <2>2. CASE SiReadSave
    <3>1. saved'.q = ev.q /\ saved'.next_vi = next_vi
      BY <2>2 DEF SiReadSave
    <3> QED
      BY <3>1 DEF VideoOK
  <2> QED
    BY <2>1, <2>2, RegistersKept
<1> QED
  BY <1>1, <1>2 DEF VideoOK

\* The game never writes Count.
CountIsKept == \A s \in Sessions : "count" \notin s

NoTranslation == pc # "translate" /\ count_write = NoCount

\* Then no Count write is ever under way.
LEMMA NoTranslationStep ==
  ASSUME CountIsKept, IInv, NoTranslation, [Next]_vars
  PROVE  NoTranslation'
<1>1. CASE UNCHANGED vars
  BY <1>1 DEF NoTranslation, vars, auxVars
<1>2. CASE Game
  <2>1. CASE Branch \/ IdleSkip \/ TranslateCount \/ Mtc0Compare \/ Mtc0Status
    BY <2>1 DEF NoTranslation, Branch, IdleSkip, TranslateCount, Mtc0Compare, Mtc0Status,
                ThenGen, auxVars
  <2>2. CASE Eret \/ WriteMiMask \/ WriteRcpIntr \/ StartDevice
    BY <2>2 DEF NoTranslation, Eret, WriteMiMask, WriteRcpIntr, StartDevice, ThenGen
  <2>3. CASE WriteAiLen \/ SiRead \/ SiReadSave \/ SiReadLoad
    BY <2>3 DEF NoTranslation, WriteAiLen, SiRead, SiReadSave, SiReadLoad
  <2>4. ~Mtc0Count
    BY DEF Mtc0Count, CountIsKept, IInv, StoreOK
  <2> QED
    BY <1>2, <2>1, <2>2, <2>3, <2>4 DEF Game
<1>3. CASE Gen
  <2>1. Return
    BY <1>3 DEF Gen, GenSkipJump, GenSpecial, GenVI, GenCompare, GenCheck, GenSpSilent,
                GenAI, GenDevice
  <2> QED
    BY <2>1 DEF Return, NoTranslation
<1> QED
  BY <1>1, <1>2, <1>3 DEF Next

LEMMA VideoInit == Init => VideoOK /\ NoTranslation
<1> SUFFICES ASSUME Init PROVE VideoOK /\ NoTranslation
  OBVIOUS
<1> DEFINE v == [type |-> "VI", count |-> BootVi]
           s == [type |-> "SPECIAL", count |-> 0]
<1>1. EventSet(ev.q) = {v, s}
  BY Parameters, InitQueueEvents DEF Init
<1>2. v.count = BootVi /\ s.type # "VI"
  OBVIOUS
<1> HIDE DEF v, s
<1>3. DueAt(ev.q, next_vi)
  BY <1>1, <1>2 DEF Init, DueAt
<1> QED
  BY <1>3 DEF Init, VideoOK, NoTranslation

\* As long as the game leaves Count alone, the VI event is due at next_vi: the
\* fields follow each other at intervals of exactly vi_delay, also across saves
\* and loads, and VI_CURRENT is computed from the right base.
THEOREM FieldsFollow == CountIsKept => (Spec => []ViSchedule)
<1> SUFFICES ASSUME CountIsKept PROVE Spec => []ViSchedule
  OBVIOUS
<1>1. Init => VideoOK /\ NoTranslation
  BY VideoInit
<1>2. IInv /\ VideoOK /\ NoTranslation /\ [Next]_vars => VideoOK' /\ NoTranslation'
  <2> SUFFICES ASSUME IInv, VideoOK, NoTranslation, [Next]_vars
               PROVE  VideoOK' /\ NoTranslation'
    OBVIOUS
  <2>1. ~TranslateCount
    BY DEF TranslateCount, NoTranslation
  <2> QED
    BY <2>1, VideoStep, NoTranslationStep
<1>3. VideoOK => ViSchedule
  BY DEF VideoOK, DueAt, ViSchedule, Events, EventSet
<1> QED
  BY <1>1, <1>2, <1>3, Inductive, PTL DEF Spec

-----------------------------------------------------------------------------
(* The moves of the time base.                                             *)

\* The events of the machine after a load.
LEMMA LoadEvents ==
  ASSUME IInv, SiReadLoad
  PROVE  {e \in EventSet(ev'.q) : e.type # "SI"} = {e \in EventSet(saved.q) : e.type # "SI"}
<1>1. saved \in Saved /\ ev \in Queue /\ core_Count \in Time
  BY DEF SiReadLoad, IInv, StoreOK, Beating, TimeOK
<1>2. saved.q \in Seq(Event) /\ saved.next \in Time /\ saved.count \in Time
  BY <1>1 DEF Saved
<1> DEFINE base   == LoadQueue(ev, saved.q, core_Count)
           loaded == [base EXCEPT !.next = saved.next]
           added  == AddEvent(loaded, "SI", DeviceDelay, saved.count)
           x      == [type |-> "SI", count |-> Plus(saved.count, DeviceDelay)]
<1>3. base \in Queue /\ EventSet(base.q) = EventSet(saved.q)
  BY <1>1, <1>2, LoadQueueCounts, LoadQueueEvents
<1>4. ev' = loaded \/ ev' = added
  BY DEF SiReadLoad
<1> HIDE DEF base
<1>5. loaded \in Queue /\ loaded.q = base.q
  BY <1>2, <1>3 DEF Queue
<1> HIDE DEF loaded
<1>6. "SI" \in IntType /\ x.type = "SI"
  BY DEF IntType
<1>7. EventSet(added.q) = EventSet(loaded.q) \cup {x}
  BY <1>2, <1>5, <1>6, Parameters, AddEventEvents
<1> HIDE DEF added, x
<1> QED
  BY <1>3, <1>4, <1>5, <1>6, <1>7

\* A load brings back exactly the saved events, at their saved times, whatever
\* the queue and the Count of the machine it is loaded into; of the SI event
\* dma_si_read() decides.
THEOREM LoadsKeepEvents == Spec => LoadKeepsEvents
<1>1. IInv /\ [Next]_vars
        => [SiReadLoad => {e \in EventSet(ev'.q) : e.type # "SI"}
                            = {e \in EventSet(saved.q) : e.type # "SI"}]_vars
  BY LoadEvents
<1> QED
  BY <1>1, Inductive, PTL DEF Spec, LoadKeepsEvents

\* What is left of Count until an event of a unit.
DelayOf(x, now) == <<x.type, Minus(x.count, now)>>

\* The delays of a queue are those of its set of events.
LEMMA DelaysAreOfEvents ==
  ASSUME NEW e \in Queue, NEW now
  PROVE  Delays(e, now) = {DelayOf(x, now) : x \in {y \in EventSet(e.q) : y.type \in Moving}}
<1>1. e.q \in Seq(Event)
  BY DEF Queue
<1>2. ASSUME NEW i \in 1 .. Len(e.q) PROVE e.q[i].type \in IntType
  <2>1. e.q[i] \in Event
    BY <1>1, ElementOfSeq
  <2> QED
    BY <2>1 DEF Event
<1>3. \A i \in 1 .. Len(e.q) :
        e.q[i].type \in Moving <=> e.q[i].type \notin {"COMPARE", "SPECIAL"}
  BY <1>2 DEF Moving
<1>4. ASSUME NEW d \in Delays(e, now)
      PROVE  \E x \in EventSet(e.q) : x.type \in Moving /\ d = DelayOf(x, now)
  <2>1. PICK i \in 1 .. Len(e.q) :
          /\ e.q[i].type \notin {"COMPARE", "SPECIAL"}
          /\ d = <<e.q[i].type, Minus(e.q[i].count, now)>>
    BY DEF Delays
  <2> QED
    BY <1>3, <2>1 DEF EventSet, DelayOf
<1>5. ASSUME NEW x \in EventSet(e.q), x.type \in Moving
      PROVE  DelayOf(x, now) \in Delays(e, now)
  <2>1. PICK i \in 1 .. Len(e.q) : x = e.q[i]
    BY DEF EventSet
  <2>2. e.q[i].type \notin {"COMPARE", "SPECIAL"}
    BY <1>3, <1>5, <2>1
  <2> QED
    BY <2>1, <2>2 DEF Delays, DelayOf
<1> QED
  BY <1>4, <1>5

\* The translation keeps them.
LEMMA DelaysMoved ==
  ASSUME IInv, TranslateCount
  PROVE  Delays(ev', core_Count') = Delays(ev, core_Count)
<1>1. /\ ev \in Queue /\ HasOne(ev.q, "SPECIAL") /\ core_Count \in Time
      /\ core_Compare \in Time /\ count_write \in Time /\ core_Count' = count_write
      /\ ev' = Translate(ev, count_write, core_Compare, core_Count)
  BY DEF IInv, Beating, TimeOK, AuxOK, TranslateCount
<1>2. ev' \in Queue
  BY <1>1, TranslateCounts
<1> DEFINE now == core_Count
           base == count_write
           Was == {y \in EventSet(ev.q) : y.type \in Moving}
           Is  == {y \in EventSet(ev'.q) : y.type \in Moving}
<1>3. \A y \in EventSet(ev.q) : y \in Event
  <2>1. ev.q \in Seq(Event)
    BY <1>1 DEF Queue
  <2> QED
    BY <2>1, ElementOfSeq DEF EventSet
<1>4. ASSUME NEW y \in Event
      PROVE  Moved(y, base, now).type = y.type /\ DelayOf(Moved(y, base, now), base) = DelayOf(y, now)
  <2> DEFINE z == Moved(y, base, now)
  <2>1. y.count \in Time
    BY DEF Event
  <2>2. Minus(y.count, now) \in Time
    BY <1>1, <2>1, TimeArithmetic
  <2>3. z.type = y.type /\ z.count = Plus(Minus(y.count, now), base)
    BY DEF Moved, Event
  <2>4. Minus(z.count, base) = Minus(y.count, now)
    BY <1>1, <2>2, <2>3, DelayKept
  <2> QED
    BY <2>3, <2>4 DEF DelayOf
<1>5. \A x : x.type \in Moving =>
        (x \in EventSet(ev'.q) <=> \E y \in EventSet(ev.q) : x = Moved(y, base, now))
  BY <1>1, TranslateEvents
<1> HIDE DEF now, base
<1>6. ASSUME NEW y \in Was
      PROVE  \E x \in Is : DelayOf(x, base) = DelayOf(y, now)
  BY <1>3, <1>4, <1>5
<1>7. ASSUME NEW x \in Is
      PROVE  \E y \in Was : DelayOf(x, base) = DelayOf(y, now)
  <2>1. PICK y \in EventSet(ev.q) : x = Moved(y, base, now)
    BY <1>5
  <2> QED
    BY <1>3, <1>4, <2>1
<1>8. Delays(ev', base) = {DelayOf(x, base) : x \in Is}
  BY <1>2, DelaysAreOfEvents
<1>9. Delays(ev, now) = {DelayOf(y, now) : y \in Was}
  BY <1>1, DelaysAreOfEvents
<1> HIDE DEF Was, Is
<1>10. Delays(ev', base) = Delays(ev, now)
  BY <1>6, <1>7, <1>8, <1>9
<1> QED
  BY <1>1, <1>10 DEF now, base

\* Writing Count moves the time base and nothing else: every unit's event stays
\* as far away as it was.
THEOREM CountWritesKeepDelays == Spec => CountWriteKeepsDelays
<1>1. IInv /\ [Next]_vars
        => [TranslateCount => Delays(ev', core_Count') = Delays(ev, core_Count)]_vars
  BY DelaysMoved
<1> QED
  BY <1>1, Inductive, PTL DEF Spec, CountWriteKeepsDelays

-----------------------------------------------------------------------------
(* The RCP's interrupt.                                                    *)

\* The bounds S and B on the cycles of an instruction and of a branch are far
\* below the thresholds of before_event(), no block is long enough to leave the
\* past it recognises, and none is entered in the last cycles before a roll-over.
Short(S, B) ==
  /\ S \in Nat /\ B \in Nat
  /\ StoreCycles \subseteq 0 .. S /\ BlockCycles \subseteq 1 .. B /\ S + B <= Window
  /\ MaxOps * S < Sixteenth

\* And no savestate is loaded (a load re-sorts the CHECK event).
Paced(S, B) == Short(S, B) /\ \A s \in Sessions : "saves" \notin s

\* The processor accepts the interrupt of the RCP.
Pending == Enabled(status) /\ "RCP" \in ip \cap status.im

\* Cause follows the RCP's own registers; the branch of an exception in a delay
\* slot is still to come; a Count write waits outside of delay slots; and while
\* an interrupt is pending, its CHECK event is the head and was pushed at most
\* as long ago as the block has been running.
LinesOK(S) == /\ ops <= MaxOps
              /\ "RCP" \in ip => Asserted(mi)
              /\ skip_jump => status.exl /\ ev.next = 0 /\ (slot \/ pc = "gen")
              /\ count_write # NoCount => ~slot /\ pc # "run"

HeadOK(S) == Pending =>
               /\ pc # "translate" /\ ev.q[1].type = "CHECK"
               /\ pc = "run" => /\ Checked(ev, core_Count)
                                /\ core_Count - ev.next <= ops * S
                                /\ core_Count < M - Window + S

RcpOK(S) == LinesOK(S) /\ HeadOK(S)

\* A block of n instructions is no longer than the longest.
LEMMA BlockBound ==
  ASSUME NEW S \in Nat, NEW n \in Nat, n < MaxOps
  PROVE  n * S \in Nat /\ (n + 1) * S = n * S + S /\ (n + 1) * S <= MaxOps * S
<1>1. MaxOps \in Nat
  BY Parameters
<1>2. PICK k \in Nat : MaxOps = n + 1 + k
  <2>1. MaxOps - (n + 1) \in Nat /\ MaxOps = n + 1 + (MaxOps - (n + 1))
    BY <1>1
  <2> QED
    BY <2>1
<1>3. k * S \in Nat /\ (n + 1 + k) * S = (n + 1) * S + k * S /\ (n + 1) * S \in Nat
  OBVIOUS
<1> QED
  BY <1>2, <1>3

LEMMA BlockShort ==
  ASSUME NEW S \in Nat, NEW n \in Nat, n <= MaxOps
  PROVE  n * S \in Nat /\ n * S <= MaxOps * S
<1>1. MaxOps \in Nat
  BY Parameters
<1>2. PICK k \in Nat : MaxOps = n + k
  <2>1. MaxOps - n \in Nat /\ MaxOps = n + (MaxOps - n)
    BY <1>1
  <2> QED
    BY <2>1
<1>3. k * S \in Nat /\ (n + k) * S = n * S + k * S /\ n * S \in Nat
  OBVIOUS
<1> QED
  BY <1>2, <1>3

-----------------------------------------------------------------------------
(* The steps of the game keep a pending interrupt checked.                 *)

\* What the steps inside a block rely on.
LEMMA InBlock ==
  ASSUME NEW S, NEW B, Paced(S, B), IInv, RcpOK(S), Straight
  PROVE  /\ ops' \in Nat /\ ops' = ops + 1 /\ ops' <= MaxOps /\ ops' * S \in Nat
         /\ ops' * S = ops * S + S /\ ops * S \in Nat /\ ops' * S < Sixteenth
         /\ pc = "run" /\ slot = FALSE /\ skip_jump = FALSE /\ count_write = NoCount
         /\ core_Count < M - Window /\ S \in Nat /\ S <= Window
<1>1. /\ ops \in Nat /\ ops < MaxOps /\ ops' = ops + 1 /\ pc = "run" /\ ~slot
      /\ slot \in BOOLEAN /\ skip_jump \in BOOLEAN /\ core_Count < M - Window
  BY DEF Straight, Clear, IInv, AuxOK, CpuOK
<1>2. S \in Nat /\ B \in Nat /\ MaxOps * S < Sixteenth /\ S + B <= Window /\ MaxOps \in Nat
      /\ Window \in Nat
  BY Parameters, DelayAssumption DEF Paced, Short, Time
<1>3. ops * S \in Nat /\ (ops + 1) * S = ops * S + S /\ (ops + 1) * S <= MaxOps * S
  BY <1>1, <1>2, BlockBound
<1>4. MaxOps * S \in Nat
  BY <1>2, BlockShort
<1>5. skip_jump = FALSE /\ count_write = NoCount
  BY <1>1 DEF RcpOK, LinesOK
<1> QED
  BY <1>1, <1>2, <1>3, <1>4, <1>5, Thresholds

\* An instruction moves Count forward, not across a roll-over.
LEMMA StoreMoves ==
  ASSUME NEW S, NEW B, Short(S, B), IInv, core_Count < M - Window,
         NEW d \in StoreCycles, core_Count' = Plus(core_Count, d)
  PROVE  /\ core_Count' \in Time /\ core_Count <= core_Count'
         /\ core_Count' - core_Count <= S /\ core_Count' < M - Window + S
<1>1. /\ d \in 0 .. S /\ S \in Nat /\ B \in Nat /\ S + B <= Window /\ Window \in Nat
      /\ core_Count \in Time
  BY DelayAssumption DEF Short, IInv, TimeOK, Time
<1>2. core_Count' = core_Count + d
  BY <1>1, Wrap, ModulusAssumption DEF Plus, Time
<1> QED
  BY <1>1, <1>2, ModulusAssumption DEF Time

\* A branch does, too, even after the last instruction of a block.
LEMMA BranchMoves ==
  ASSUME NEW S, NEW B, Short(S, B), IInv, core_Count < M - Window + S,
         NEW d \in BlockCycles, core_Count' = Plus(core_Count, d)
  PROVE  core_Count' \in Time /\ core_Count <= core_Count'
<1>1. /\ d \in 1 .. B /\ S \in Nat /\ B \in Nat /\ S + B <= Window /\ Window \in Nat
      /\ core_Count \in Time
  BY DelayAssumption DEF Short, IInv, TimeOK, Time
<1>2. core_Count' = core_Count + d
  BY <1>1, Wrap, ModulusAssumption DEF Plus, Time
<1> QED
  BY <1>1, <1>2, ModulusAssumption DEF Time

\* A distance grows by the step.
LEMMA FurtherBehind ==
  ASSUME NEW n \in Nat, NEW c \in Nat, NEW d \in Nat, NEW a \in Nat, NEW s \in Nat,
         c - n <= a, d - c <= s
  PROVE  d - n <= a + s
  OBVIOUS

\* While an interrupt is pending inside a block, an instruction that adds events
\* leaves its CHECK event at the head.
LEMMA HeadStays ==
  ASSUME NEW S, NEW B, Paced(S, B), IInv, RcpOK(S), Straight,
         core_Count' \in Time, core_Count <= core_Count', core_Count' - core_Count <= S,
         core_Count' < M - Window + S, pc' = pc,
         UNCHANGED <<status, count_write>>, ip' \subseteq ip,
         Pending /\ Checked(ev, core_Count') /\ core_Count' - ev.next < Sixteenth
           => Checked(ev', core_Count') /\ ev'.next = ev.next
  PROVE  HeadOK(S)'
<1> SUFFICES ASSUME Pending' PROVE HeadOK(S)'
  BY DEF HeadOK
<1>1. Pending
  BY DEF Pending, Enabled
<1>2. /\ Checked(ev, core_Count) /\ core_Count - ev.next <= ops * S
      /\ pc = "run" /\ ev.next \in Nat /\ core_Count \in Nat /\ core_Count' \in Nat
  <2>1. pc = "run"
    BY InBlock
  <2>2. Checked(ev, core_Count) /\ core_Count - ev.next <= ops * S
    BY <1>1, <2>1 DEF RcpOK, HeadOK
  <2>3. ev.next \in Time /\ core_Count \in Time
    BY DEF IInv, Beating, Queue, TimeOK
  <2> QED
    BY <2>1, <2>2, <2>3 DEF Time
<1>3. /\ ops' * S = ops * S + S /\ ops * S \in Nat /\ ops' * S < Sixteenth /\ S \in Nat
      /\ ops' * S \in Nat
  BY InBlock
<1>4. Checked(ev, core_Count') /\ core_Count' - ev.next <= ops' * S
  <2>1. Checked(ev, core_Count')
    BY <1>2 DEF Checked
  <2>2. core_Count' - ev.next <= ops * S + S
    BY <1>2, <1>3, FurtherBehind
  <2> QED
    BY <1>3, <2>1, <2>2
<1>5. core_Count' - ev.next < Sixteenth
  BY <1>2, <1>3, <1>4, Thresholds
<1>6. Checked(ev', core_Count') /\ ev'.next = ev.next
  BY <1>1, <1>4, <1>5
<1> QED
  BY <1>2, <1>4, <1>6 DEF HeadOK, Checked

\* Any call of check_interrupt() leaves the head right.
LEMMA CheckLeaves ==
  ASSUME NEW m \in [intr : SUBSET RcpBits, mask : SUBSET RcpBits],
         NEW st, NEW lines, NEW e \in Queue, NEW now \in Time,
         CheckInterrupt(m, st, lines, e, now)
  PROVE  /\ "RCP" \in ip' => Asserted(mi')
         /\ Pending' => Checked(ev', now) /\ ev'.next = now
         /\ ev' # PushCheck(e, now) => ev' = e
<1>1. /\ mi' = m /\ status' = st
      /\ "RCP" \in ip' <=> Asserted(m)
      /\ Enabled(st) /\ st.im \cap ip' # {} => ev' = PushCheck(e, now)
      /\ ev' = PushCheck(e, now) \/ ev' = e
  BY DEF CheckInterrupt
<1>2. Pending' => Enabled(st) /\ st.im \cap ip' # {}
  BY <1>1 DEF Pending
<1> QED
  BY <1>1, <1>2, PushHead

\* An instruction of a block that calls check_interrupt() and then advances Count.
LEMMA CheckedInBlock ==
  ASSUME NEW S, NEW B, Paced(S, B), IInv, RcpOK(S), Straight,
         NEW m \in [intr : SUBSET RcpBits, mask : SUBSET RcpBits], NEW st,
         CheckInterrupt(m, st, ip, ev, core_Count),
         \E d \in StoreCycles \cup {0} : core_Count' = Plus(core_Count, d),
         pc' \in {"run", "gen"}, skip_jump' = skip_jump, count_write' = count_write
  PROVE  RcpOK(S)'
<1>1. ev \in Queue /\ core_Count \in Time
  BY DEF IInv, Beating, TimeOK
<1>2. /\ "RCP" \in ip' => Asserted(mi')
      /\ Pending' => Checked(ev', core_Count) /\ ev'.next = core_Count
  BY <1>1, CheckLeaves
<1>3. /\ ops' <= MaxOps /\ skip_jump = FALSE /\ count_write = NoCount
      /\ ops' * S = ops * S + S /\ ops * S \in Nat /\ core_Count < M - Window /\ S \in Nat
  BY InBlock
<1>4. LinesOK(S)'
  BY <1>2, <1>3 DEF LinesOK
<1>5. /\ core_Count' \in Time /\ core_Count <= core_Count'
      /\ core_Count' - core_Count <= S /\ core_Count' < M - Window + S
  <2>1. CASE \E d \in StoreCycles : core_Count' = Plus(core_Count, d)
    BY <1>3, <2>1, StoreMoves DEF Paced
  <2>2. CASE core_Count' = Plus(core_Count, 0)
    <3>1. core_Count' = core_Count
      BY <1>1, <2>2, Wrap, ModulusAssumption DEF Plus, Time
    <3> QED
      BY <1>1, <1>3, <3>1, ModulusAssumption, DelayAssumption DEF Time
  <2> QED
    BY <2>1, <2>2
<1>6. HeadOK(S)'
  <2> SUFFICES ASSUME Pending' PROVE HeadOK(S)'
    BY DEF HeadOK
  <2>1. Checked(ev', core_Count) /\ ev'.next = core_Count
    BY <1>2
  <2>2. Checked(ev', core_Count') /\ core_Count' - ev'.next <= ops' * S
    BY <1>1, <1>3, <1>5, <2>1 DEF Checked, Time
  <2> QED
    BY <1>5, <2>2 DEF HeadOK, Checked
<1> QED
  BY <1>4, <1>6 DEF RcpOK

\* The steps, one by one.
LEMMA RcpBranch ==
  ASSUME NEW S, NEW B, Paced(S, B), IInv, RcpOK(S), Branch
  PROVE  RcpOK(S)'
<1>1. PICK d \in BlockCycles : core_Count' = Plus(core_Count, d)
  BY DEF Branch
<1>2. /\ pc = "run" /\ pc' = (IF Due(ev, core_Count') THEN "gen" ELSE "run")
      /\ slot' = FALSE /\ ops' = 0 /\ ev' = ev /\ mi' = mi /\ status' = status /\ ip' = ip
      /\ skip_jump' = skip_jump /\ count_write' = count_write
  BY DEF Branch, cpuVars
<1>3. core_Count' \in Time
  BY <1>1, Parameters, TimeArithmetic DEF IInv, TimeOK
<1>4. LinesOK(S)'
  <2>1. skip_jump => pc' = "gen"
    BY <1>2, <1>3 DEF RcpOK, LinesOK, Due, Time
  <2> QED
    BY <1>2, <2>1, Parameters DEF RcpOK, LinesOK, Asserted
<1>5. HeadOK(S)'
  <2> SUFFICES ASSUME Pending' PROVE HeadOK(S)'
    BY DEF HeadOK
  <2>1. Pending
    BY <1>2 DEF Pending, Enabled
  <2>2. Checked(ev, core_Count) /\ core_Count < M - Window + S
    BY <1>2, <2>1 DEF RcpOK, HeadOK
  <2>3. core_Count <= core_Count' /\ core_Count \in Nat /\ core_Count' \in Nat /\ ev.next \in Nat
    BY <1>1, <1>3, <2>2, BranchMoves DEF Paced, IInv, TimeOK, Beating, Queue, Time
  <2>4. Due(ev, core_Count')
    BY <2>2, <2>3 DEF Due, Checked
  <2> QED
    BY <1>2, <2>2, <2>4 DEF HeadOK, Checked
<1> QED
  BY <1>4, <1>5 DEF RcpOK

LEMMA RcpIdle ==
  ASSUME NEW S, NEW B, Paced(S, B), IInv, RcpOK(S), IdleSkip
  PROVE  RcpOK(S)'
<1> DEFINE skip == Minus(ev.next, core_Count)
<1>1. /\ pc = "run" /\ ~slot /\ skip >= IdleGrain /\ skip < Half
      /\ ev' = ev /\ mi' = mi /\ status' = status /\ ip' = ip
      /\ skip_jump' = skip_jump /\ UNCHANGED auxVars
  BY DEF IdleSkip, cpuVars
<1>2. LinesOK(S)'
  BY <1>1 DEF RcpOK, LinesOK, Asserted, auxVars
<1>3. ~Pending
  <2> SUFFICES ASSUME Pending PROVE FALSE
    OBVIOUS
  <2>1. /\ ev.next <= core_Count /\ core_Count - ev.next <= ops * S /\ ops <= MaxOps
        /\ ev.next \in Time /\ core_Count \in Time /\ ops \in Nat /\ S \in Nat
        /\ MaxOps * S < Sixteenth
    BY <1>1 DEF RcpOK, HeadOK, LinesOK, Checked, IInv, Beating, Queue, TimeOK, AuxOK, Paced, Short
  <2>2. ops * S \in Nat /\ ops * S <= MaxOps * S /\ MaxOps \in Nat /\ MaxOps * S \in Nat
    BY <2>1, BlockShort, Parameters
  <2>3. core_Count - ev.next < Sixteenth
    BY <2>1, <2>2, Thresholds DEF Time
  <2>4. CASE ev.next = core_Count
    <3>1. skip = 0
      BY <2>1, <2>4, Wrap, ModulusAssumption DEF Minus, Time
    <3> QED
      BY <1>1, <3>1, Parameters
  <2>5. CASE ev.next < core_Count
    <3>1. skip = ev.next - core_Count + M
      BY <2>1, <2>5, Wrap, ModulusAssumption DEF Minus, Time
    <3> QED
      BY <1>1, <2>1, <2>3, <3>1, Thresholds, ModulusAssumption DEF Time
  <2> QED
    BY <2>1, <2>4, <2>5 DEF Time
<1>4. HeadOK(S)'
  BY <1>1, <1>3 DEF HeadOK, Pending, Enabled
<1> QED
  BY <1>2, <1>4 DEF RcpOK

LEMMA RcpMtc0Count ==
  ASSUME NEW S, NEW B, Paced(S, B), IInv, RcpOK(S), Mtc0Count
  PROVE  RcpOK(S)'
<1>1. PICK d \in StoreCycles : core_Count' = Plus(core_Count, d)
  BY DEF Mtc0Count
<1>2. /\ Straight /\ pc' = (IF Due(ev, core_Count') THEN "gen" ELSE "translate")
      /\ slot' = slot /\ ev' = ev /\ mi' = mi /\ status' = status /\ ip' = ip
      /\ skip_jump' = skip_jump
  BY DEF Mtc0Count, cpuVars
<1>3. /\ ops' <= MaxOps /\ slot = FALSE /\ skip_jump = FALSE /\ pc = "run"
      /\ core_Count < M - Window
  BY <1>2, InBlock
<1>4. LinesOK(S)'
  BY <1>2, <1>3 DEF RcpOK, LinesOK, Asserted
<1>5. HeadOK(S)'
  <2> SUFFICES ASSUME Pending' PROVE HeadOK(S)'
    BY DEF HeadOK
  <2>1. Pending
    BY <1>2 DEF Pending, Enabled
  <2>2. Checked(ev, core_Count)
    BY <1>3, <2>1 DEF RcpOK, HeadOK
  <2>3. core_Count <= core_Count' /\ core_Count \in Nat /\ core_Count' \in Nat /\ ev.next \in Nat
    BY <1>1, <1>3, StoreMoves DEF Paced, IInv, TimeOK, Beating, Queue, Time
  <2>4. Due(ev, core_Count')
    BY <2>2, <2>3 DEF Due, Checked
  <2> QED
    BY <1>2, <2>2, <2>4 DEF HeadOK, Checked
<1> QED
  BY <1>4, <1>5 DEF RcpOK

LEMMA RcpTranslate ==
  ASSUME NEW S, NEW B, Paced(S, B), IInv, RcpOK(S), TranslateCount
  PROVE  RcpOK(S)'
<1>1. /\ pc = "translate" /\ pc' = "run" /\ count_write' = NoCount /\ slot' = slot /\ ops' = ops
      /\ mi' = mi /\ status' = status /\ ip' = ip /\ skip_jump' = skip_jump
  BY DEF TranslateCount, cpuVars
<1>2. count_write # NoCount
  BY <1>1 DEF IInv, AuxOK, NoCount, Time
<1>3. ~skip_jump
  BY <1>1, <1>2 DEF RcpOK, LinesOK
<1>4. LinesOK(S)'
  BY <1>1, <1>3 DEF RcpOK, LinesOK, Asserted
<1>5. HeadOK(S)'
  BY <1>1 DEF RcpOK, HeadOK, Pending, Enabled
<1> QED
  BY <1>4, <1>5 DEF RcpOK

\* An instruction that only adds or removes events.
LEMMA QueuedInBlock ==
  ASSUME NEW S, NEW B, Paced(S, B), IInv, RcpOK(S), Straight,
         \E d \in StoreCycles \cup {0} : core_Count' = Plus(core_Count, d),
         UNCHANGED <<mi, status, skip_jump, slot, pc, count_write>>, ip' \subseteq ip,
         Checked(ev, core_Count') /\ core_Count' - ev.next < Sixteenth
           => Checked(ev', core_Count') /\ ev'.next = ev.next
  PROVE  RcpOK(S)'
<1>1. /\ ops' <= MaxOps /\ skip_jump = FALSE /\ count_write = NoCount
      /\ core_Count < M - Window /\ S \in Nat
  BY InBlock
<1>2. LinesOK(S)'
  <2>1. "RCP" \in ip' => Asserted(mi')
    BY DEF RcpOK, LinesOK, Asserted
  <2> QED
    BY <1>1, <2>1 DEF LinesOK
<1>3. /\ core_Count' \in Time /\ core_Count <= core_Count'
      /\ core_Count' - core_Count <= S /\ core_Count' < M - Window + S
  <2>1. CASE \E d \in StoreCycles : core_Count' = Plus(core_Count, d)
    BY <1>1, <2>1, StoreMoves DEF Paced
  <2>2. CASE core_Count' = Plus(core_Count, 0)
    <3>1. core_Count \in Time
      BY DEF IInv, TimeOK
    <3>2. core_Count' = core_Count
      BY <2>2, <3>1, Wrap, ModulusAssumption DEF Plus, Time
    <3> QED
      BY <1>1, <3>1, <3>2, ModulusAssumption, DelayAssumption DEF Time
  <2> QED
    BY <2>1, <2>2
<1>4. HeadOK(S)'
  BY <1>3, HeadStays
<1> QED
  BY <1>2, <1>4 DEF RcpOK

LEMMA RcpMtc0Compare ==
  ASSUME NEW S, NEW B, Paced(S, B), IInv, RcpOK(S), Mtc0Compare
  PROVE  RcpOK(S)'
<1> DEFINE a == RemoveEvent(ev, "COMPARE")
<1>1. /\ Straight /\ ip' \subseteq ip
      /\ \E d \in StoreCycles : core_Count' = Plus(core_Count, d)
      /\ ev' = AddEventCount(a, "COMPARE", core_Compare', core_Count')
      /\ UNCHANGED <<mi, status, skip_jump, slot, pc, count_write>>
  BY DEF Mtc0Compare
<1>2. core_Count' \in Time /\ core_Compare' \in Time /\ ev \in Queue /\ "COMPARE" \in IntType
  BY Parameters, TimeArithmetic DEF Mtc0Compare, IInv, TimeOK, Beating, IntType
<1>3. ASSUME Checked(ev, core_Count'), core_Count' - ev.next < Sixteenth
      PROVE  Checked(ev', core_Count') /\ ev'.next = ev.next
  <2>1. a \in Queue /\ Checked(a, core_Count') /\ a.next = ev.next
    BY <1>2, <1>3, RemoveEventHead, RemoveEventRemoves
  <2> HIDE DEF a
  <2> QED
    BY <1>1, <1>2, <1>3, <2>1, AddEventCountHead
<1> QED
  BY <1>1, <1>3, QueuedInBlock

LEMMA RcpStartDevice ==
  ASSUME NEW S, NEW B, Paced(S, B), IInv, RcpOK(S), StartDevice
  PROVE  RcpOK(S)'
<1>1. /\ Straight /\ ip' = ip
      /\ \E d \in StoreCycles : core_Count' = Plus(core_Count, d)
      /\ UNCHANGED <<mi, status, skip_jump, slot, pc, count_write>>
  BY DEF StartDevice, cpuVars
<1>2. PICK b \in Devices \ {"SI"} : ev' = AddEvent(ev, b, DeviceDelay, core_Count')
  BY DEF StartDevice
<1>3. core_Count' \in Time /\ ev \in Queue /\ b \in IntType
  BY <1>1, Parameters, TimeArithmetic DEF IInv, TimeOK, Beating, IntType
<1>4. Checked(ev, core_Count') /\ core_Count' - ev.next < Sixteenth
        => Checked(ev', core_Count') /\ ev'.next = ev.next
  BY <1>2, <1>3, Parameters, AddEventHead
<1> QED
  BY <1>1, <1>4, QueuedInBlock

LEMMA RcpSiRead ==
  ASSUME NEW S, NEW B, Paced(S, B), IInv, RcpOK(S), SiRead
  PROVE  RcpOK(S)'
<1>1. /\ Straight /\ ip' = ip
      /\ \E d \in StoreCycles : core_Count' = Plus(core_Count, d)
      /\ UNCHANGED <<mi, status, skip_jump, slot, pc, count_write>>
      /\ ev' = AddEvent(ev, "SI", DeviceDelay, core_Count')
  BY DEF SiRead, StartSiRead, cpuVars
<1>2. core_Count' \in Time /\ ev \in Queue /\ "SI" \in IntType
  BY <1>1, Parameters, TimeArithmetic DEF IInv, TimeOK, Beating, IntType
<1>3. Checked(ev, core_Count') /\ core_Count' - ev.next < Sixteenth
        => Checked(ev', core_Count') /\ ev'.next = ev.next
  BY <1>1, <1>2, Parameters, AddEventHead
<1> QED
  BY <1>1, <1>3, QueuedInBlock

LEMMA RcpAiLen ==
  ASSUME NEW S, NEW B, Paced(S, B), IInv, RcpOK(S), WriteAiLen
  PROVE  RcpOK(S)'
<1>1. /\ Straight /\ ip' = ip
      /\ UNCHANGED <<mi, status, skip_jump, slot, pc, count_write>>
  BY DEF WriteAiLen
<1>2. PICK delay \in AiDelays :
        \/ UNCHANGED <<core_Count, ev>>
        \/ /\ \E d \in StoreCycles : core_Count' = Plus(core_Count, d)
           /\ ev' = AddEvent(ev, "AI", delay, core_Count')
  BY DEF WriteAiLen
<1>3. core_Count \in Time /\ ev \in Queue /\ "AI" \in IntType /\ delay \in Time
  BY Parameters DEF IInv, TimeOK, Beating, IntType
<1>4. CASE UNCHANGED <<core_Count, ev>>
  <2>1. core_Count' = Plus(core_Count, 0)
    BY <1>3, <1>4, Wrap, ModulusAssumption DEF Plus, Time
  <2>2. Checked(ev, core_Count') /\ core_Count' - ev.next < Sixteenth
          => Checked(ev', core_Count') /\ ev'.next = ev.next
    BY <1>4
  <2> QED
    BY <1>1, <2>1, <2>2, QueuedInBlock
<1>5. CASE /\ \E d \in StoreCycles : core_Count' = Plus(core_Count, d)
           /\ ev' = AddEvent(ev, "AI", delay, core_Count')
  <2>1. core_Count' \in Time
    BY <1>3, <1>5, Parameters, TimeArithmetic
  <2>2. Checked(ev, core_Count') /\ core_Count' - ev.next < Sixteenth
          => Checked(ev', core_Count') /\ ev'.next = ev.next
    BY <1>3, <1>5, <2>1, AddEventHead
  <2> QED
    BY <1>1, <1>5, <2>2, QueuedInBlock
<1> QED
  BY <1>2, <1>4, <1>5

LEMMA RcpMtc0Status ==
  ASSUME NEW S, NEW B, Paced(S, B), IInv, RcpOK(S), Mtc0Status
  PROVE  RcpOK(S)'
<1>1. PICK st : CheckInterrupt(mi, st, ip, ev, core_Count)
  BY DEF Mtc0Status
<1>2. /\ Straight /\ skip_jump' = skip_jump /\ count_write' = count_write
      /\ \E d \in StoreCycles : core_Count' = Plus(core_Count, d)
      /\ pc' \in {"run", "gen"} /\ mi \in [intr : SUBSET RcpBits, mask : SUBSET RcpBits]
  BY DEF Mtc0Status, ThenGen, IInv, CpuOK
<1> QED
  BY <1>1, <1>2, CheckedInBlock

LEMMA RcpMiMask ==
  ASSUME NEW S, NEW B, Paced(S, B), IInv, RcpOK(S), WriteMiMask
  PROVE  RcpOK(S)'
<1>1. PICK b \in Maskable : \E mask \in {mi.mask \cup {b}, mi.mask \ {b}} :
        CheckInterrupt([mi EXCEPT !.mask = mask], status, ip, ev, core_Count)
  BY DEF WriteMiMask
<1>2. PICK mask \in SUBSET RcpBits :
        CheckInterrupt([mi EXCEPT !.mask = mask], status, ip, ev, core_Count)
  <2>1. {mi.mask \cup {b}, mi.mask \ {b}} \subseteq SUBSET RcpBits
    BY MaskAssumption DEF IInv, CpuOK
  <2> QED
    BY <1>1, <2>1
<1> DEFINE m == [mi EXCEPT !.mask = mask]
<1>3. m \in [intr : SUBSET RcpBits, mask : SUBSET RcpBits]
  BY DEF IInv, CpuOK
<1>4. /\ Straight /\ skip_jump' = skip_jump /\ count_write' = count_write
      /\ \E d \in StoreCycles : core_Count' = Plus(core_Count, d)
      /\ pc' \in {"run", "gen"}
  BY DEF WriteMiMask, ThenGen
<1>5. CheckInterrupt(m, status, ip, ev, core_Count)
  BY <1>2
<1> HIDE DEF m
<1> QED
  BY <1>3, <1>4, <1>5, CheckedInBlock

LEMMA RcpIntr ==
  ASSUME NEW S, NEW B, Paced(S, B), IInv, RcpOK(S), WriteRcpIntr
  PROVE  RcpOK(S)'
<1>1. PICK intr \in SUBSET RcpBits :
        CheckInterrupt([mi EXCEPT !.intr = intr], status, ip, ev, core_Count)
  <2>1. CASE \E b \in mi.intr \cap Ackable :
               CheckInterrupt([mi EXCEPT !.intr = @ \ {b}], status, ip, ev, core_Count)
    <3>1. PICK b \in mi.intr \cap Ackable :
            CheckInterrupt([mi EXCEPT !.intr = @ \ {b}], status, ip, ev, core_Count)
      BY <2>1
    <3>2. mi.intr \ {b} \in SUBSET RcpBits
      BY DEF IInv, CpuOK
    <3> QED
      BY <3>1, <3>2
  <2>2. CASE CheckInterrupt([mi EXCEPT !.intr = @ \cup {"SP"}], status, ip, ev, core_Count)
    <3>1. mi.intr \cup {"SP"} \in SUBSET RcpBits
      BY DEF IInv, CpuOK, RcpBits
    <3> QED
      BY <2>2, <3>1
  <2> QED
    BY <2>1, <2>2 DEF WriteRcpIntr
<1> DEFINE m == [mi EXCEPT !.intr = intr]
<1>2. m \in [intr : SUBSET RcpBits, mask : SUBSET RcpBits]
  BY DEF IInv, CpuOK
<1>3. CheckInterrupt(m, status, ip, ev, core_Count)
  BY <1>1
<1> HIDE DEF m
<1>4. /\ Straight /\ skip_jump' = skip_jump /\ count_write' = count_write
      /\ core_Count' = core_Count /\ pc' = pc
  BY DEF WriteRcpIntr
<1>5. core_Count' = Plus(core_Count, 0)
  BY <1>4, Wrap, ModulusAssumption DEF Plus, Time, IInv, TimeOK
<1>6. pc' \in {"run", "gen"}
  BY <1>4 DEF Straight
<1> QED
  BY <1>2, <1>3, <1>4, <1>5, <1>6, CheckedInBlock

\* ERET ends the block: the interrupt it lets through is taken at once.
LEMMA RcpEret ==
  ASSUME NEW S, NEW B, Paced(S, B), IInv, RcpOK(S), Eret
  PROVE  RcpOK(S)'
<1> DEFINE st == [status EXCEPT !.exl = FALSE]
<1>1. /\ pc = "run" /\ ~slot /\ CheckInterrupt(mi, st, ip, ev, core_Count')
      /\ pc' = (IF Due(ev', core_Count') THEN "gen" ELSE "run") /\ ops' = 0
      /\ UNCHANGED <<skip_jump, slot, count_write>>
      /\ \E d \in BlockCycles : core_Count' = Plus(core_Count, d)
  BY DEF Eret, ThenGen
<1> HIDE DEF st
<1>2. core_Count' \in Time /\ ev \in Queue
      /\ mi \in [intr : SUBSET RcpBits, mask : SUBSET RcpBits]
  BY <1>1, Parameters, TimeArithmetic DEF IInv, TimeOK, Beating, CpuOK
<1>3. /\ "RCP" \in ip' => Asserted(mi')
      /\ Pending' => Checked(ev', core_Count') /\ ev'.next = core_Count'
  BY <1>1, <1>2, CheckLeaves
<1>4. ~skip_jump /\ count_write = NoCount
  BY <1>1 DEF RcpOK, LinesOK
<1>5. LinesOK(S)'
  BY <1>1, <1>3, <1>4, Parameters DEF LinesOK
<1>6. Pending' => pc' = "gen"
  BY <1>1, <1>3 DEF Due, Checked
<1>7. HeadOK(S)'
  BY <1>3, <1>6 DEF HeadOK, Checked
<1> QED
  BY <1>5, <1>7 DEF RcpOK

-----------------------------------------------------------------------------
(* gen_interrupt() leaves no interrupt pending.                            *)

LEMMA RcpFinish ==
  ASSUME NEW S, NEW B, Paced(S, B), IInv, RcpOK(S), NEW type, NEW e \in Queue, NEW m,
         pc = "gen", ~skip_jump, ev.q[1].type = type, Finish(type, e, m), Return,
         type = "CHECK" => m = mi, m = mi \/ \E b \in RcpBits : m = Raised(b)
  PROVE  RcpOK(S)'
<1> DEFINE timer == IF type = "COMPARE" THEN ip \cup {"TIMER"} ELSE ip
           new   == IF type # "CHECK" /\ Asserted(m) THEN timer \cup {"RCP"} ELSE timer
           raise == \/ type = "CHECK"
                    \/ Asserted(m) /\ Enabled(status) /\ status.im \cap new # {}
<1>1. /\ mi' = m /\ ip' = new
      /\ status' = [status EXCEPT !.exl = @ \/ raise]
      /\ skip_jump' = (raise /\ slot)
      /\ ev' = IF raise /\ slot THEN [e EXCEPT !.next = 0] ELSE e
      /\ ops' = IF raise THEN MaxOps ELSE ops
  BY DEF Finish
<1>2. /\ pc' = (IF count_write # NoCount THEN "translate" ELSE "run")
      /\ slot' = slot /\ count_write' = count_write
  BY DEF Return
<1>3. Asserted(mi) => Asserted(m)
  BY DEF Asserted, Raised, IInv, CpuOK
<1>4. "RCP" \in ip => Asserted(m)
  BY <1>3 DEF RcpOK, LinesOK
<1>5. "RCP" \in new => Asserted(m)
  BY <1>4
<1>6. /\ status \in [ie : BOOLEAN, exl : BOOLEAN, im : SUBSET Lines]
      /\ slot \in BOOLEAN
  BY DEF IInv, CpuOK, AuxOK
<1>7. raise \in BOOLEAN
  BY DEF Enabled
<1>8. /\ raise => status'.exl = TRUE
      /\ ~raise => status' = status
  <2> HIDE DEF raise
  <2> QED
    BY <1>1, <1>6, <1>7
<1>9. ~Pending'
  <2> SUFFICES ASSUME Pending' PROVE FALSE
    OBVIOUS
  <2>1. ~raise
    BY <1>8 DEF Pending, Enabled
  <2>2. Enabled(status) /\ "RCP" \in new \cap status.im
    <3> HIDE DEF raise, new
    <3> QED
      BY <1>1, <1>8, <2>1 DEF Pending
  <2> QED
    BY <1>5, <2>1, <2>2
<1>10. LinesOK(S)'
  <2>1. ops' <= MaxOps
    <3> HIDE DEF raise
    <3> QED
      BY <1>1, Parameters DEF RcpOK, LinesOK
  <2>2. "RCP" \in ip' => Asserted(mi')
    BY <1>1, <1>5
  <2>3. ASSUME skip_jump' PROVE status'.exl /\ ev'.next = 0 /\ slot'
    <3>1. raise /\ slot
      BY <1>1, <2>3
    <3>2. ev' = [e EXCEPT !.next = 0]
      <4> HIDE DEF raise
      <4> QED
        BY <1>1, <3>1
    <3>3. ev'.next = 0
      BY <3>2 DEF Queue
    <3> HIDE DEF raise
    <3> QED
      BY <1>2, <1>8, <3>1, <3>3
  <2>4. count_write' # NoCount => ~slot' /\ pc' # "run"
    BY <1>2 DEF RcpOK, LinesOK
  <2> QED
    BY <2>1, <2>2, <2>3, <2>4 DEF LinesOK
<1> QED
  BY <1>9, <1>10 DEF RcpOK, HeadOK

\* A handler that writes neither registers nor the mask.
LEMMA RcpQuiet ==
  ASSUME NEW S, NEW B, Paced(S, B), IInv, RcpOK(S), pc = "gen", Return,
         ~skip_jump', ops' <= MaxOps, UNCHANGED <<mi, status, ip>>, ~Pending
  PROVE  RcpOK(S)'
<1>1. /\ pc' = (IF count_write # NoCount THEN "translate" ELSE "run")
      /\ slot' = slot /\ count_write' = count_write
  BY DEF Return
<1>2. LinesOK(S)'
  BY <1>1 DEF RcpOK, LinesOK, Asserted
<1>3. ~Pending'
  BY DEF Pending, Enabled
<1> QED
  BY <1>2, <1>3 DEF RcpOK, HeadOK

LEMMA RcpGen ==
  ASSUME NEW S, NEW B, Paced(S, B), IInv, RcpOK(S), Gen
  PROVE  RcpOK(S)'
<1>1. /\ ev \in Queue /\ ev.q # <<>> /\ ev.q[1] = Head(ev.q) /\ Beating(ev)
      /\ core_Count \in Time /\ core_Compare \in Time
  BY BeatNotEmpty DEF IInv, Beating, TimeOK
<1>2. \A b \in RcpBits \cup {"COMPARE", "SPECIAL"} : b \in IntType
  BY DEF IntType, RcpBits
<1>3. CASE GenSkipJump
  <2>1. /\ pc = "gen" /\ Return /\ skip_jump /\ ~skip_jump' /\ ops' = MaxOps
        /\ UNCHANGED <<mi, status, ip>>
    BY <1>3 DEF GenSkipJump
  <2>2. ~Pending
    BY <2>1 DEF RcpOK, LinesOK, Pending, Enabled
  <2> QED
    BY <2>1, <2>2, Parameters, RcpQuiet
<1>4. CASE GenSpecial \/ GenSpSilent
  <2>1. /\ pc = "gen" /\ Return /\ ~skip_jump /\ skip_jump' = skip_jump /\ ops' = ops
        /\ UNCHANGED <<mi, status, ip>> /\ Head(ev.q).type \in {"SPECIAL", "SP"}
    BY <1>4 DEF GenSpecial, GenSpSilent, Generating, cpuVars
  <2>2. ~Pending
    BY <1>1, <2>1 DEF RcpOK, HeadOK
  <2>3. ops' <= MaxOps
    BY <2>1 DEF RcpOK, LinesOK
  <2> QED
    BY <2>1, <2>2, <2>3, RcpQuiet
<1> DEFINE r == RemoveHead(ev, core_Count)
<1>5. r \in Queue
  BY <1>1, RemoveHeadRemoves
<1> HIDE DEF r
<1>6. CASE GenVI
  <2> DEFINE e == AddEventCount(r, "VI", next_vi', core_Count)
  <2>1. /\ pc = "gen" /\ Return /\ ~skip_jump /\ ev.q[1].type = "VI"
        /\ Finish("VI", e, Raised("VI"))
    BY <1>1, <1>6 DEF GenVI, Generating, r
  <2>2. next_vi' \in Time
    BY <1>6, Parameters, TimeArithmetic DEF GenVI, IInv, TimeOK
  <2>3. e \in Queue
    BY <1>1, <1>2, <1>5, <2>2, AddEventCountCounts DEF RcpBits
  <2> HIDE DEF e
  <2> QED
    BY <2>1, <2>3, RcpFinish DEF RcpBits
<1>7. CASE GenCompare
  <2> DEFINE e == AddEventCount(r, "COMPARE", core_Compare, Plus(core_Count, 2))
  <2>1. /\ pc = "gen" /\ Return /\ ~skip_jump /\ ev.q[1].type = "COMPARE"
        /\ Finish("COMPARE", e, mi)
    BY <1>1, <1>7 DEF GenCompare, Generating, r
  <2>2. Plus(core_Count, 2) \in Time
    BY <1>1, Parameters, TimeArithmetic
  <2>3. e \in Queue
    BY <1>1, <1>2, <1>5, <2>2, AddEventCountCounts
  <2> HIDE DEF e
  <2> QED
    BY <2>1, <2>3, RcpFinish
<1>8. CASE GenCheck
  <2>1. /\ pc = "gen" /\ Return /\ ~skip_jump /\ ev.q[1].type = "CHECK"
        /\ Finish("CHECK", r, mi)
    BY <1>1, <1>8 DEF GenCheck, Generating, r
  <2> QED
    BY <1>5, <2>1, RcpFinish
<1>9. ASSUME NEW b \in {"SI", "PI", "SP", "DP"}, GenDevice(b) PROVE RcpOK(S)'
  <2>1. /\ pc = "gen" /\ Return /\ ~skip_jump /\ ev.q[1].type = b
        /\ Finish(b, r, Raised(b)) /\ b # "CHECK" /\ b \in RcpBits
    BY <1>1, <1>9 DEF GenDevice, Generating, r, RcpBits
  <2> QED
    BY <1>5, <2>1, RcpFinish
<1>10. CASE GenAI
  <2> DEFINE next == Plus(GetEvent(ev, "AI"), ai.next)
             e    == AddEventCount(r, "AI", next, core_Count)
  <2>1. /\ pc = "gen" /\ Return /\ ~skip_jump /\ ev.q[1].type = "AI"
        /\ Finish("AI", e, Raised("AI")) \/ Finish("AI", r, Raised("AI"))
    BY <1>1, <1>10 DEF GenAI, Generating, r
  <2>2. next \in Time
    BY <1>1, GetEventTime, TimeArithmetic DEF IInv, CpuOK
  <2> HIDE DEF next
  <2>3. e \in Queue
    BY <1>1, <1>2, <1>5, <2>2, AddEventCountCounts DEF RcpBits
  <2> HIDE DEF e
  <2>4. "AI" # "CHECK" /\ "AI" \in RcpBits
    BY DEF RcpBits
  <2>5. CASE Finish("AI", e, Raised("AI"))
    BY <2>1, <2>3, <2>4, <2>5, RcpFinish
  <2>6. CASE Finish("AI", r, Raised("AI"))
    BY <1>5, <2>1, <2>4, <2>6, RcpFinish
  <2> QED
    BY <2>1, <2>5, <2>6
<1> QED
  BY <1>3, <1>4, <1>6, <1>7, <1>8, <1>9, <1>10 DEF Gen

LEMMA RcpStep ==
  ASSUME NEW S, NEW B, Paced(S, B), IInv, RcpOK(S), [Next]_vars
  PROVE  RcpOK(S)'
<1>1. CASE UNCHANGED vars
  <2>1. UNCHANGED <<ops, ip, mi, skip_jump, status, ev, slot, pc, count_write, core_Count>>
    BY <1>1 DEF vars, timeVars, cpuVars, auxVars
  <2> QED
    BY <2>1 DEF RcpOK, LinesOK, HeadOK, Pending, Enabled, Asserted, Checked
<1>2. CASE Game
  <2>1. ~SiReadSave /\ ~SiReadLoad
    BY DEF SiReadSave, SiReadLoad, Paced, IInv, StoreOK
  <2> QED
    BY <1>2, <2>1, RcpBranch, RcpIdle, RcpMtc0Count, RcpTranslate, RcpMtc0Compare,
       RcpMtc0Status, RcpEret, RcpMiMask, RcpIntr, RcpStartDevice, RcpAiLen, RcpSiRead
       DEF Game
<1>3. CASE Gen
  BY <1>3, RcpGen
<1> QED
  BY <1>1, <1>2, <1>3 DEF Next

\* An unmasked RCP interrupt is never forgotten: while the processor accepts it,
\* the next branch takes it -- in every game that keeps the pace, whatever it
\* does to Status, MI_INTR_MASK, Compare and Count, and in delay slots.
THEOREM RcpIsDelivered ==
  ASSUME NEW CONSTANT S, NEW CONSTANT B, Paced(S, B)
  PROVE  Spec => []RcpDelivered
<1>1. Init => RcpOK(S)
  BY Parameters DEF Init, RcpOK, LinesOK, HeadOK, Pending, Enabled
<1>2. IInv /\ RcpOK(S) /\ [Next]_vars => RcpOK(S)'
  BY RcpStep
<1>3. RcpOK(S) => RcpDelivered
  BY DEF RcpOK, HeadOK, RcpDelivered, Pending, Checked, Due
<1> QED
  BY <1>1, <1>2, <1>3, Inductive, PTL DEF Spec

-----------------------------------------------------------------------------
(* The CHECK event.                                                        *)

\* A CHECK event waits for the branch of its block.
CheckWaits == pc = "run" /\ ev.q[1].type = "CHECK"

\* Meanwhile the block writes none of the registers that the check has read
\* (Status, MI_INTR_MASK, the interrupt bits of the units, and Compare, which
\* clears its bit of Cause) and no savestate is made or loaded.
Rechecks == Mtc0Status \/ WriteMiMask \/ WriteRcpIntr \/ Mtc0Compare
            \/ SiReadSave \/ SiReadLoad
Patient == [][CheckWaits => ~Rechecks]_vars

NoCheck(q) == HasNone(q, "CHECK")

\* A delay slot's exception waits for its branch, and a Count write does so
\* outside of delay slots.
SlotOK == /\ ops <= MaxOps
          /\ skip_jump => ev.next = 0 /\ (slot \/ pc = "gen")
          /\ count_write # NoCount => ~slot /\ pc # "run"

\* The CHECK event of this block is the head, due since at most as long as the
\* block has been running.
Ready(S) == /\ Checked(ev, core_Count) /\ core_Count - ev.next <= ops * S
            /\ core_Count < M - Window + S

\* It is the only one, and its reason still holds.
OneCheck(S) == /\ ev.q[1].type = "CHECK" /\ HasOne(ev.q, "CHECK")
               /\ Enabled(status) /\ status.im \cap ip # {} /\ ~skip_jump
               /\ pc = "gen" \/ (pc = "run" /\ Ready(S))

CheckOK(S) == /\ SlotOK
              /\ NoCheck(ev.q) \/ OneCheck(S)
              /\ saved # NoSave => NoCheck(saved.q)

\* Other events do not bring a CHECK event with them.
LEMMA NoCheckAdd ==
  ASSUME NEW e \in Queue, NoCheck(e.q), NEW type \in IntType, type # "CHECK",
         NEW delay \in Time, NEW now \in Time
  PROVE  /\ AddEvent(e, type, delay, now) \in Queue
         /\ NoCheck(AddEvent(e, type, delay, now).q)
  BY AddEventInserts, AddKeeps, KeepsNone DEF NoCheck

LEMMA NoCheckAddCount ==
  ASSUME NEW e \in Queue, NoCheck(e.q), NEW type \in IntType, type # "CHECK",
         NEW count \in Time, NEW now \in Time
  PROVE  /\ AddEventCount(e, type, count, now) \in Queue
         /\ NoCheck(AddEventCount(e, type, count, now).q)
  BY NoCheckAdd, TimeArithmetic DEF AddEventCount

LEMMA NoCheckTranslate ==
  ASSUME NEW e \in Queue, NoCheck(e.q), NEW base \in Time, NEW compare \in Time,
         NEW now \in Time
  PROVE  NoCheck(Translate(e, base, compare, now).q)
<1> DEFINE r == Translate(e, base, compare, now)
<1>1. \A y \in EventSet(e.q) : y.type # "CHECK"
  BY NoneInEvents DEF NoCheck
<1>2. ASSUME NEW x \in EventSet(r.q), x.type = "CHECK" PROVE FALSE
  <2>1. PICK y \in EventSet(e.q) : x = Moved(y, base, now)
    BY <1>2, TranslateEvents DEF Moving, IntType
  <2>2. y.type # "CHECK"
    BY <1>1
  <2>3. PICK i \in 1 .. Len(e.q) : y = e.q[i]
    BY DEF EventSet
  <2>4. e.q \in Seq(Event)
    BY DEF Queue
  <2>5. y \in Event
    BY <2>3, <2>4, ElementOfSeq
  <2> QED
    BY <1>2, <2>1, <2>2, <2>5 DEF Moved, Event
<1> HIDE DEF r
<1>3. NoCheck(r.q)
  BY <1>2, NoneInEvents DEF NoCheck
<1> QED
  BY <1>3 DEF r

\* The first CHECK event is the only one, and the head.
LEMMA FirstCheck ==
  ASSUME NEW e \in Queue, NoCheck(e.q), NEW now \in Time
  PROVE  /\ Checked(PushCheck(e, now), now) /\ PushCheck(e, now).next = now
         /\ HasOne(PushCheck(e, now).q, "CHECK")
<1> DEFINE c == [type |-> "CHECK", count |-> now]
<1>1. c \in Event /\ c.type = "CHECK"
  BY DEF Event, IntType
<1>2. e.q \in Seq(Event)
  BY DEF Queue
<1>3. PushCheck(e, now).q = <<c>> \o e.q
  BY DEF PushCheck, Queue
<1> HIDE DEF c
<1>4. Inserted(e.q, PushCheck(e, now).q, 1, c)
  BY <1>1, <1>2, <1>3, PushInserts
<1>5. HasOne(PushCheck(e, now).q, "CHECK")
  BY <1>1, <1>4, InsertedCounts DEF NoCheck
<1> QED
  BY <1>5, PushHead

\* Any call of check_interrupt() with no CHECK event queued.
LEMMA CheckPushes ==
  ASSUME NEW m, NEW st, NEW lines, NEW e \in Queue, NoCheck(e.q), NEW now \in Time,
         CheckInterrupt(m, st, lines, e, now)
  PROVE  \/ NoCheck(ev'.q)
         \/ /\ Checked(ev', now) /\ HasOne(ev'.q, "CHECK") /\ ev'.next = now
            /\ Enabled(status') /\ status'.im \cap ip' # {}
<1>1. /\ status' = st
      /\ ev' = IF Enabled(st) /\ st.im \cap ip' # {} THEN PushCheck(e, now) ELSE e
  BY DEF CheckInterrupt
<1>2. CASE Enabled(st) /\ st.im \cap ip' # {}
  BY <1>1, <1>2, FirstCheck
<1>3. CASE ~(Enabled(st) /\ st.im \cap ip' # {})
  BY <1>1, <1>3
<1> QED
  BY <1>2, <1>3

\* What the steps inside a block rely on.
LEMMA CheckBlock ==
  ASSUME NEW S, NEW B, Short(S, B), IInv, CheckOK(S), Straight
  PROVE  /\ ops' <= MaxOps /\ ops' * S = ops * S + S /\ ops * S \in Nat
         /\ ops' * S \in Nat /\ ops' * S < Sixteenth
         /\ pc = "run" /\ ~slot /\ ~skip_jump /\ count_write = NoCount
         /\ core_Count < M - Window /\ core_Count \in Time /\ ev \in Queue
         /\ S \in Nat /\ S <= Window
<1>1. /\ ops \in Nat /\ ops < MaxOps /\ ops' = ops + 1 /\ pc = "run" /\ ~slot
      /\ core_Count < M - Window /\ core_Count \in Time /\ ev \in Queue
  BY DEF Straight, Clear, IInv, AuxOK, TimeOK, Beating
<1>2. S \in Nat /\ B \in Nat /\ MaxOps * S < Sixteenth /\ S + B <= Window /\ MaxOps \in Nat
      /\ Window \in Nat
  BY Parameters, DelayAssumption DEF Short, Time
<1>3. ops * S \in Nat /\ (ops + 1) * S = ops * S + S /\ (ops + 1) * S <= MaxOps * S
  BY <1>1, <1>2, BlockBound
<1>4. MaxOps * S \in Nat
  BY <1>2, BlockShort
<1>5. ~skip_jump /\ count_write = NoCount
  BY <1>1 DEF CheckOK, SlotOK
<1> QED
  BY <1>1, <1>2, <1>3, <1>4, <1>5, Thresholds

\* Where nothing is checked, an access that brings no CHECK event.
LEMMA Unchecked ==
  ASSUME NEW S, NEW B, Short(S, B), IInv, CheckOK(S), Straight, NoCheck(ev'.q),
         skip_jump' = skip_jump, count_write' = count_write, saved' # NoSave => NoCheck(saved'.q)
  PROVE  CheckOK(S)'
<1>1. ~skip_jump /\ count_write = NoCount /\ ops' <= MaxOps
  BY CheckBlock
<1> QED
  BY <1>1 DEF CheckOK, SlotOK

\* No CHECK event waits where the registers are written.
LEMMA NothingChecked ==
  ASSUME NEW S, CheckOK(S), pc = "run", ~CheckWaits
  PROVE  NoCheck(ev.q)
BY DEF CheckOK, OneCheck, CheckWaits

\* A CHECK event that waits stays the head while the block goes on.
LEMMA StaysReady ==
  ASSUME NEW S, NEW B, Short(S, B), IInv, CheckOK(S), Straight, OneCheck(S),
         \E d \in StoreCycles \cup {0} : core_Count' = Plus(core_Count, d),
         Checked(ev, core_Count') /\ core_Count' - ev.next < Sixteenth
           => Checked(ev', core_Count') /\ ev'.next = ev.next,
         HasOne(ev.q, "CHECK") => HasOne(ev'.q, "CHECK"),
         UNCHANGED <<status, ip, skip_jump, pc, count_write, saved>>
  PROVE  CheckOK(S)'
<1>1. /\ ops' <= MaxOps /\ ops' * S = ops * S + S /\ ops * S \in Nat
      /\ ops' * S \in Nat /\ ops' * S < Sixteenth
      /\ pc = "run" /\ ~skip_jump /\ count_write = NoCount
      /\ core_Count < M - Window /\ core_Count \in Time /\ ev \in Queue /\ S \in Nat
  BY CheckBlock
<1>2. Checked(ev, core_Count) /\ core_Count - ev.next <= ops * S
  BY <1>1 DEF OneCheck, Ready
<1>3. /\ core_Count' \in Time /\ core_Count <= core_Count'
      /\ core_Count' - core_Count <= S /\ core_Count' < M - Window + S
  <2>1. CASE \E d \in StoreCycles : core_Count' = Plus(core_Count, d)
    BY <1>1, <2>1, StoreMoves
  <2>2. CASE core_Count' = Plus(core_Count, 0)
    <3>1. core_Count' = core_Count
      BY <1>1, <2>2, Wrap, ModulusAssumption DEF Plus, Time
    <3> QED
      BY <1>1, <3>1, ModulusAssumption, DelayAssumption DEF Time
  <2> QED
    BY <2>1, <2>2
<1>4. core_Count \in Nat /\ core_Count' \in Nat /\ ev.next \in Nat
  BY <1>1, <1>3 DEF Queue, Time
<1>5. Checked(ev, core_Count') /\ core_Count' - ev.next <= ops' * S
  <2>1. Checked(ev, core_Count')
    BY <1>2, <1>3, <1>4 DEF Checked
  <2>2. core_Count' - ev.next <= ops * S + S
    BY <1>1, <1>2, <1>3, <1>4, FurtherBehind
  <2> QED
    BY <1>1, <2>1, <2>2
<1>6. core_Count' - ev.next < Sixteenth
  BY <1>1, <1>4, <1>5, Thresholds
<1>7. Ready(S)'
  BY <1>3, <1>5, <1>6 DEF Ready
<1>8. OneCheck(S)'
  BY <1>1, <1>7 DEF OneCheck, Enabled, Ready, Checked
<1>9. SlotOK'
  BY <1>1 DEF SlotOK
<1> QED
  BY <1>8, <1>9 DEF CheckOK

\* An access that calls check_interrupt(), and gen_interrupt() when it is due.
LEMMA CheckedAndTaken ==
  ASSUME NEW S, NEW B, Short(S, B), IInv, CheckOK(S), Straight, NoCheck(ev.q), NEW m, NEW st,
         CheckInterrupt(m, st, ip, ev, core_Count),
         \E d \in StoreCycles : core_Count' = Plus(core_Count, d), ThenGen,
         UNCHANGED <<skip_jump, count_write, saved>>
  PROVE  CheckOK(S)'
<1>1. /\ ~skip_jump /\ count_write = NoCount /\ ev \in Queue /\ ops' <= MaxOps
      /\ core_Count \in Time /\ core_Count < M - Window
  BY CheckBlock
<1>2. core_Count' \in Time /\ core_Count <= core_Count'
  BY <1>1, StoreMoves
<1>3. SlotOK'
  BY <1>1 DEF SlotOK
<1>4. ASSUME ~NoCheck(ev'.q) PROVE OneCheck(S)'
  <2>1. /\ Checked(ev', core_Count) /\ HasOne(ev'.q, "CHECK") /\ ev'.next = core_Count
        /\ Enabled(status') /\ status'.im \cap ip' # {}
    BY <1>1, <1>4, CheckPushes
  <2>2. pc' = "gen"
    BY <1>2, <2>1 DEF ThenGen, Due
  <2> QED
    BY <1>1, <2>1, <2>2 DEF OneCheck, Enabled, Checked
<1> QED
  BY <1>3, <1>4 DEF CheckOK

\* An access that calls check_interrupt() and goes on.
LEMMA CheckedAndLeft ==
  ASSUME NEW S, NEW B, Short(S, B), IInv, CheckOK(S), Straight, NoCheck(ev.q), NEW m, NEW st,
         CheckInterrupt(m, st, ip, ev, core_Count),
         UNCHANGED <<core_Count, skip_jump, pc, count_write, saved>>
  PROVE  CheckOK(S)'
<1>1. /\ ~skip_jump /\ count_write = NoCount /\ ev \in Queue /\ ops' <= MaxOps
      /\ core_Count \in Time /\ core_Count < M - Window /\ pc = "run"
      /\ ops' * S \in Nat /\ S \in Nat
  BY CheckBlock
<1>2. SlotOK'
  BY <1>1 DEF SlotOK
<1>3. ASSUME ~NoCheck(ev'.q) PROVE OneCheck(S)'
  <2>1. /\ Checked(ev', core_Count) /\ HasOne(ev'.q, "CHECK") /\ ev'.next = core_Count
        /\ Enabled(status') /\ status'.im \cap ip' # {}
    BY <1>1, <1>3, CheckPushes
  <2>2. core_Count < M - Window + S /\ core_Count - core_Count <= ops' * S
    BY <1>1, ModulusAssumption, DelayAssumption DEF Time
  <2>3. Ready(S)'
    BY <2>1, <2>2 DEF Ready
  <2> QED
    BY <1>1, <2>1, <2>3 DEF OneCheck, Enabled, Checked
<1> QED
  BY <1>2, <1>3 DEF CheckOK

\* The game's steps.
LEMMA CheckBranch ==
  ASSUME NEW S, NEW B, Short(S, B), IInv, CheckOK(S), Branch
  PROVE  CheckOK(S)'
<1>1. PICK d \in BlockCycles : core_Count' = Plus(core_Count, d)
  BY DEF Branch
<1>2. /\ pc = "run" /\ pc' = (IF Due(ev, core_Count') THEN "gen" ELSE "run")
      /\ ev' = ev /\ status' = status /\ ip' = ip /\ skip_jump' = skip_jump
      /\ count_write' = count_write /\ saved' = saved /\ ops' = 0
  BY DEF Branch, cpuVars, stVars
<1>3. core_Count' \in Time
  BY <1>1, Parameters, TimeArithmetic DEF IInv, TimeOK
<1>4. SlotOK'
  <2>1. skip_jump => pc' = "gen"
    BY <1>2, <1>3 DEF CheckOK, SlotOK, Due, Time
  <2> QED
    BY <1>2, <2>1, Parameters DEF CheckOK, SlotOK
<1>5. ASSUME OneCheck(S) PROVE OneCheck(S)'
  <2>1. Checked(ev, core_Count) /\ core_Count < M - Window + S
    BY <1>2, <1>5 DEF OneCheck, Ready
  <2>2. core_Count <= core_Count' /\ core_Count \in Nat /\ core_Count' \in Nat /\ ev.next \in Nat
    BY <1>1, <1>3, <2>1, BranchMoves DEF IInv, TimeOK, Beating, Queue, Time
  <2>3. pc' = "gen"
    BY <1>2, <2>1, <2>2 DEF Due, Checked
  <2> QED
    BY <1>2, <1>5, <2>3 DEF OneCheck, Enabled
<1> QED
  BY <1>2, <1>4, <1>5 DEF CheckOK

\* An idle loop does not jump while a CHECK event waits: nothing lies ahead of it.
LEMMA CheckIdle ==
  ASSUME NEW S, NEW B, Short(S, B), IInv, CheckOK(S), IdleSkip
  PROVE  CheckOK(S)'
<1> DEFINE skip == Minus(ev.next, core_Count)
<1>1. /\ pc = "run" /\ skip >= IdleGrain /\ skip < Half
      /\ ev' = ev /\ skip_jump' = skip_jump /\ UNCHANGED auxVars /\ saved' = saved
  BY DEF IdleSkip, cpuVars, stVars
<1>2. ~OneCheck(S)
  <2> SUFFICES ASSUME OneCheck(S) PROVE FALSE
    OBVIOUS
  <2>1. /\ ev.next <= core_Count /\ core_Count - ev.next <= ops * S /\ ops <= MaxOps
        /\ ev.next \in Time /\ core_Count \in Time /\ ops \in Nat /\ S \in Nat
        /\ MaxOps * S < Sixteenth
    BY <1>1 DEF CheckOK, OneCheck, Ready, SlotOK, Checked, IInv, Beating, Queue, TimeOK, AuxOK, Short
  <2>2. ops * S \in Nat /\ ops * S <= MaxOps * S /\ MaxOps \in Nat /\ MaxOps * S \in Nat
    BY <2>1, BlockShort, Parameters
  <2>3. core_Count - ev.next < Sixteenth
    BY <2>1, <2>2, Thresholds DEF Time
  <2>4. CASE ev.next = core_Count
    <3>1. skip = 0
      BY <2>1, <2>4, Wrap, ModulusAssumption DEF Minus, Time
    <3> QED
      BY <1>1, <3>1, Parameters
  <2>5. CASE ev.next < core_Count
    <3>1. skip = ev.next - core_Count + M
      BY <2>1, <2>5, Wrap, ModulusAssumption DEF Minus, Time
    <3> QED
      BY <1>1, <2>1, <2>3, <3>1, Thresholds, ModulusAssumption DEF Time
  <2> QED
    BY <2>1, <2>4, <2>5 DEF Time
<1>3. NoCheck(ev.q)
  BY <1>2 DEF CheckOK
<1> QED
  BY <1>1, <1>3 DEF CheckOK, SlotOK, auxVars

\* A write of Count takes a CHECK event that waits first.
LEMMA CheckCount ==
  ASSUME NEW S, NEW B, Short(S, B), IInv, CheckOK(S), Mtc0Count
  PROVE  CheckOK(S)'
<1>1. PICK d \in StoreCycles : core_Count' = Plus(core_Count, d)
  BY DEF Mtc0Count
<1>2. /\ Straight /\ pc' = (IF Due(ev, core_Count') THEN "gen" ELSE "translate")
      /\ slot' = slot /\ ev' = ev /\ status' = status /\ ip' = ip
      /\ skip_jump' = skip_jump /\ saved' = saved
  BY DEF Mtc0Count, cpuVars, stVars
<1>3. ops' <= MaxOps /\ ~skip_jump /\ ~slot /\ pc = "run" /\ core_Count < M - Window
  BY <1>2, CheckBlock
<1>4. SlotOK'
  BY <1>2, <1>3 DEF SlotOK
<1>5. ASSUME OneCheck(S) PROVE OneCheck(S)'
  <2>1. Checked(ev, core_Count)
    BY <1>3, <1>5 DEF OneCheck, Ready
  <2>2. core_Count <= core_Count' /\ core_Count \in Nat /\ core_Count' \in Nat /\ ev.next \in Nat
    BY <1>1, <1>3, StoreMoves DEF IInv, TimeOK, Beating, Queue, Time
  <2>3. pc' = "gen"
    BY <1>2, <2>1, <2>2 DEF Due, Checked
  <2> QED
    BY <1>2, <1>5, <2>3 DEF OneCheck, Enabled
<1> QED
  BY <1>2, <1>4, <1>5 DEF CheckOK

LEMMA CheckTranslate ==
  ASSUME NEW S, IInv, CheckOK(S), TranslateCount
  PROVE  CheckOK(S)'
<1>1. /\ pc = "translate" /\ pc' = "run" /\ count_write' = NoCount /\ slot' = slot
      /\ ev' = Translate(ev, count_write, core_Compare, core_Count)
      /\ skip_jump' = skip_jump /\ saved' = saved /\ ops' = ops
  BY DEF TranslateCount, cpuVars, stVars
<1>2. count_write \in Time /\ ev \in Queue /\ core_Compare \in Time /\ core_Count \in Time
  BY <1>1 DEF IInv, AuxOK, Beating, TimeOK
<1>3. ~skip_jump
  BY <1>1, <1>2 DEF CheckOK, SlotOK, NoCount, Time
<1>4. NoCheck(ev.q)
  BY <1>1 DEF CheckOK, OneCheck
<1>5. NoCheck(ev'.q)
  BY <1>1, <1>2, <1>4, NoCheckTranslate
<1>6. SlotOK'
  BY <1>1, <1>3 DEF CheckOK, SlotOK
<1> QED
  BY <1>1, <1>5, <1>6 DEF CheckOK

LEMMA CheckCompare ==
  ASSUME NEW S, NEW B, Short(S, B), IInv, CheckOK(S), Mtc0Compare, ~CheckWaits
  PROVE  CheckOK(S)'
<1> DEFINE a == RemoveEvent(ev, "COMPARE")
<1>1. /\ Straight /\ ev' = AddEventCount(a, "COMPARE", core_Compare', core_Count')
      /\ UNCHANGED <<skip_jump, count_write, saved>>
  BY DEF Mtc0Compare, stVars
<1>2. /\ core_Count' \in Time /\ core_Compare' \in Time
  BY Parameters, TimeArithmetic DEF Mtc0Compare, IInv, TimeOK
<1>3. NoCheck(ev.q) /\ ev \in Queue
  BY <1>1, NothingChecked, CheckBlock DEF Straight
<1>4. a \in Queue /\ NoCheck(a.q)
  BY <1>3, RemoveEventRemoves, RemoveEventKeeps, KeepsNone DEF NoCheck
<1> HIDE DEF a
<1>5. NoCheck(ev'.q)
  BY <1>1, <1>2, <1>4, NoCheckAddCount DEF IntType
<1>6. saved' # NoSave => NoCheck(saved'.q)
  BY <1>1 DEF CheckOK
<1> QED
  BY <1>1, <1>5, <1>6, Unchecked

\* A device that starts, and audio that is queued.
LEMMA CheckAdded ==
  ASSUME NEW S, NEW B, Short(S, B), IInv, CheckOK(S), Straight,
         NEW type \in IntType, type # "CHECK", NEW delay \in Time,
         \/ UNCHANGED <<core_Count, ev>>
         \/ /\ \E d \in StoreCycles : core_Count' = Plus(core_Count, d)
            /\ ev' = AddEvent(ev, type, delay, core_Count'),
         UNCHANGED <<status, ip, skip_jump, pc, count_write, saved>>
  PROVE  CheckOK(S)'
<1>1. ev \in Queue /\ core_Count \in Time
  BY CheckBlock
<1>2. ASSUME NoCheck(ev.q) PROVE CheckOK(S)'
  <2>1. NoCheck(ev'.q)
    <3>1. CASE UNCHANGED <<core_Count, ev>>
      BY <1>2, <3>1
    <3>2. CASE /\ \E d \in StoreCycles : core_Count' = Plus(core_Count, d)
               /\ ev' = AddEvent(ev, type, delay, core_Count')
      <4>1. core_Count' \in Time
        BY <1>1, <3>2, Parameters, TimeArithmetic
      <4> QED
        BY <1>1, <1>2, <3>2, <4>1, NoCheckAdd
    <3> QED
      BY <3>1, <3>2
  <2>2. saved' # NoSave => NoCheck(saved'.q)
    BY DEF CheckOK
  <2> QED
    BY <2>1, <2>2, Unchecked
<1>3. ASSUME OneCheck(S) PROVE CheckOK(S)'
  <2>1. CASE UNCHANGED <<core_Count, ev>>
    <3>1. core_Count' = Plus(core_Count, 0)
      BY <1>1, <2>1, Wrap, ModulusAssumption DEF Plus, Time
    <3>2. Checked(ev, core_Count') /\ core_Count' - ev.next < Sixteenth
            => Checked(ev', core_Count') /\ ev'.next = ev.next
      BY <2>1
    <3> QED
      BY <1>3, <2>1, <3>1, <3>2, StaysReady
  <2>2. CASE /\ \E d \in StoreCycles : core_Count' = Plus(core_Count, d)
             /\ ev' = AddEvent(ev, type, delay, core_Count')
    <3>1. core_Count' \in Time
      BY <1>1, <2>2, Parameters, TimeArithmetic
    <3>2. Checked(ev, core_Count') /\ core_Count' - ev.next < Sixteenth
            => Checked(ev', core_Count') /\ ev'.next = ev.next
      BY <1>1, <2>2, <3>1, AddEventHead
    <3>3. HasOne(ev.q, "CHECK") => HasOne(ev'.q, "CHECK")
      BY <1>1, <2>2, <3>1, AddKeeps DEF Keeps
    <3> QED
      BY <1>3, <2>2, <3>2, <3>3, StaysReady
  <2> QED
    BY <2>1, <2>2
<1> QED
  BY <1>2, <1>3 DEF CheckOK

LEMMA CheckStarts ==
  ASSUME NEW S, NEW B, Short(S, B), IInv, CheckOK(S), StartDevice \/ WriteAiLen \/ SiRead
  PROVE  CheckOK(S)'
<1>1. \A type \in {"SI", "PI", "SP", "DP", "AI"} : type \in IntType /\ type # "CHECK"
  BY DEF IntType
<1>2. CASE StartDevice
  <2>1. PICK b \in Devices \ {"SI"} : ev' = AddEvent(ev, b, DeviceDelay, core_Count')
    BY <1>2 DEF StartDevice
  <2>2. /\ Straight /\ UNCHANGED <<status, ip, skip_jump, pc, count_write, saved>>
        /\ \E d \in StoreCycles : core_Count' = Plus(core_Count, d)
    BY <1>2 DEF StartDevice, cpuVars, stVars
  <2>3. b \in IntType /\ b # "CHECK"
    BY <1>1, Parameters
  <2> QED
    BY <2>1, <2>2, <2>3, Parameters, CheckAdded
<1>3. CASE WriteAiLen
  <2>1. PICK delay \in AiDelays :
          \/ UNCHANGED <<core_Count, ev>>
          \/ /\ \E d \in StoreCycles : core_Count' = Plus(core_Count, d)
             /\ ev' = AddEvent(ev, "AI", delay, core_Count')
    BY <1>3 DEF WriteAiLen
  <2>2. Straight /\ UNCHANGED <<status, ip, skip_jump, pc, count_write, saved>>
    BY <1>3 DEF WriteAiLen, stVars
  <2> QED
    BY <1>1, <2>1, <2>2, Parameters, CheckAdded
<1>4. CASE SiRead
  <2>1. /\ Straight /\ UNCHANGED <<status, ip, skip_jump, pc, count_write, saved>>
        /\ \E d \in StoreCycles : core_Count' = Plus(core_Count, d)
        /\ ev' = AddEvent(ev, "SI", DeviceDelay, core_Count')
    BY <1>4 DEF SiRead, StartSiRead, cpuVars, stVars
  <2> QED
    BY <1>1, <2>1, Parameters, CheckAdded
<1> QED
  BY <1>2, <1>3, <1>4

\* A savestate that is made while nothing is checked holds no CHECK event.
LEMMA CheckSave ==
  ASSUME NEW S, NEW B, Short(S, B), IInv, CheckOK(S), SiReadSave, ~CheckWaits
  PROVE  CheckOK(S)'
<1>1. /\ Straight /\ UNCHANGED <<skip_jump, count_write>> /\ saved'.q = ev.q
      /\ ev' = AddEvent(ev, "SI", DeviceDelay, core_Count')
  BY DEF SiReadSave, StartSiRead, cpuVars
<1>2. core_Count' \in Time
  BY Parameters, TimeArithmetic DEF SiReadSave, IInv, TimeOK
<1>3. NoCheck(ev.q) /\ ev \in Queue
  BY <1>1, NothingChecked, CheckBlock DEF Straight
<1>4. NoCheck(ev'.q)
  BY <1>1, <1>2, <1>3, NoCheckAdd, Parameters DEF IntType
<1> QED
  BY <1>1, <1>3, <1>4, Unchecked

\* A load brings back a queue that was saved then.
LEMMA CheckLoad ==
  ASSUME NEW S, NEW B, Short(S, B), IInv, CheckOK(S), SiReadLoad
  PROVE  CheckOK(S)'
<1>1. /\ Straight /\ saved # NoSave /\ saved \in Saved /\ saved' = saved
      /\ UNCHANGED <<skip_jump, count_write>>
  BY DEF SiReadLoad, StartSiRead, IInv, StoreOK
<1>2. /\ saved.q \in Seq(Event) /\ saved.next \in Time /\ saved.count \in Time
      /\ ev \in Queue /\ core_Count \in Time
  BY <1>1 DEF Saved, IInv, Beating, TimeOK
<1> DEFINE base   == LoadQueue(ev, saved.q, core_Count)
           loaded == [base EXCEPT !.next = saved.next]
<1>3. base \in Queue /\ EventSet(base.q) = EventSet(saved.q)
  BY <1>2, LoadQueueCounts, LoadQueueEvents
<1>4. NoCheck(base.q)
  <2>1. NoCheck(saved.q)
    BY <1>1 DEF CheckOK
  <2> HIDE DEF base
  <2> QED
    BY <1>3, <2>1, NoneInEvents DEF NoCheck
<1> HIDE DEF base
<1>5. loaded \in Queue /\ NoCheck(loaded.q)
  BY <1>2, <1>3, <1>4 DEF Queue
<1>6. ev' = IF saved.manuf THEN loaded ELSE AddEvent(loaded, "SI", DeviceDelay, saved.count)
  BY DEF SiReadLoad, base
<1> HIDE DEF loaded
<1>7. NoCheck(ev'.q)
  BY <1>2, <1>5, <1>6, NoCheckAdd, Parameters DEF IntType
<1>8. saved' # NoSave => NoCheck(saved'.q)
  BY <1>1 DEF CheckOK
<1> QED
  BY <1>1, <1>7, <1>8, Unchecked

LEMMA CheckRegisters ==
  ASSUME NEW S, NEW B, Short(S, B), IInv, CheckOK(S), ~CheckWaits,
         Mtc0Status \/ WriteMiMask \/ WriteRcpIntr
  PROVE  CheckOK(S)'
<1>1. CASE Mtc0Status
  <2>1. PICK st : CheckInterrupt(mi, st, ip, ev, core_Count)
    BY <1>1 DEF Mtc0Status
  <2>2. /\ Straight /\ ThenGen /\ UNCHANGED <<skip_jump, count_write, saved>>
        /\ \E d \in StoreCycles : core_Count' = Plus(core_Count, d)
    BY <1>1 DEF Mtc0Status, stVars
  <2> QED
    BY <2>1, <2>2, NothingChecked, CheckedAndTaken DEF Straight
<1>2. CASE WriteMiMask
  <2>1. PICK m : CheckInterrupt(m, status, ip, ev, core_Count)
    BY <1>2 DEF WriteMiMask
  <2>2. /\ Straight /\ ThenGen /\ UNCHANGED <<skip_jump, count_write, saved>>
        /\ \E d \in StoreCycles : core_Count' = Plus(core_Count, d)
    BY <1>2 DEF WriteMiMask, stVars
  <2> QED
    BY <2>1, <2>2, NothingChecked, CheckedAndTaken DEF Straight
<1>3. CASE WriteRcpIntr
  <2>1. PICK m : CheckInterrupt(m, status, ip, ev, core_Count)
    BY <1>3 DEF WriteRcpIntr
  <2>2. Straight /\ UNCHANGED <<core_Count, skip_jump, pc, count_write, saved>>
    BY <1>3 DEF WriteRcpIntr, stVars
  <2> QED
    BY <2>1, <2>2, NothingChecked, CheckedAndLeft DEF Straight
<1> QED
  BY <1>1, <1>2, <1>3

\* ERET runs with interrupts disabled: no CHECK event waits.  It ends its block,
\* and what it lets through is taken at once.
LEMMA CheckEret ==
  ASSUME NEW S, IInv, CheckOK(S), Eret
  PROVE  CheckOK(S)'
<1> DEFINE st == [status EXCEPT !.exl = FALSE]
<1>1. /\ pc = "run" /\ ~slot /\ CheckInterrupt(mi, st, ip, ev, core_Count')
      /\ ThenGen /\ UNCHANGED <<skip_jump, slot, count_write, saved>> /\ ops' = 0
      /\ \E d \in BlockCycles : core_Count' = Plus(core_Count, d)
  BY DEF Eret, stVars
<1> HIDE DEF st
<1>2. core_Count' \in Time /\ ev \in Queue
  BY <1>1, Parameters, TimeArithmetic DEF IInv, TimeOK, Beating
<1>3. NoCheck(ev.q) /\ ~skip_jump /\ count_write = NoCount
  BY <1>1 DEF CheckOK, SlotOK, OneCheck, Enabled, Eret
<1>4. SlotOK'
  BY <1>1, <1>3, Parameters DEF SlotOK
<1>5. ASSUME ~NoCheck(ev'.q) PROVE OneCheck(S)'
  <2>1. /\ Checked(ev', core_Count') /\ HasOne(ev'.q, "CHECK") /\ ev'.next = core_Count'
        /\ Enabled(status') /\ status'.im \cap ip' # {}
    BY <1>1, <1>2, <1>3, <1>5, CheckPushes
  <2>2. pc' = "gen"
    BY <1>1, <1>2, <2>1 DEF ThenGen, Due, Time
  <2> QED
    BY <1>1, <1>3, <2>1, <2>2 DEF OneCheck, Enabled, Checked
<1> QED
  BY <1>1, <1>4, <1>5 DEF CheckOK

\* gen_interrupt() leaves no CHECK event.
LEMMA CheckFinish ==
  ASSUME NEW S, IInv, CheckOK(S), pc = "gen", NEW type, NEW m, NEW e \in Queue, NoCheck(e.q),
         Finish(type, e, m), Return
  PROVE  CheckOK(S)'
<1>1. /\ slot' = slot /\ saved' = saved /\ count_write' = count_write
      /\ pc' = IF count_write # NoCount THEN "translate" ELSE "run"
  BY DEF Return, stVars
<1>2. /\ skip_jump' => slot /\ ev' = [e EXCEPT !.next = 0]
      /\ ops' \in {ops, MaxOps} /\ MaxOps \in Nat
      /\ ev' \in {e, [e EXCEPT !.next = 0]}
  BY Parameters DEF Finish
<1>3. [e EXCEPT !.next = 0].next = 0 /\ [e EXCEPT !.next = 0].q = e.q
  BY DEF Queue
<1>4. NoCheck(ev'.q)
  BY <1>2, <1>3
<1>5. SlotOK'
  <2>1. ops' <= MaxOps
    BY <1>2 DEF CheckOK, SlotOK
  <2>2. ev'.next = 0 \/ ~skip_jump'
    BY <1>2, <1>3
  <2> QED
    BY <1>1, <1>2, <2>1, <2>2 DEF CheckOK, SlotOK
<1> QED
  BY <1>1, <1>4, <1>5 DEF CheckOK

LEMMA CheckQuiet ==
  ASSUME NEW S, IInv, CheckOK(S), pc = "gen", Return, NoCheck(ev'.q), ~skip_jump',
         ops' \in {ops, MaxOps}
  PROVE  CheckOK(S)'
<1>1. /\ slot' = slot /\ saved' = saved /\ count_write' = count_write
      /\ pc' = IF count_write # NoCount THEN "translate" ELSE "run"
  BY DEF Return, stVars
<1>2. SlotOK'
  BY <1>1, Parameters DEF CheckOK, SlotOK
<1> QED
  BY <1>1, <1>2 DEF CheckOK

LEMMA CheckGen ==
  ASSUME NEW S, IInv, CheckOK(S), Gen
  PROVE  CheckOK(S)'
<1>1. /\ ev \in Queue /\ ev.q # <<>> /\ ev.q[1] = Head(ev.q)
      /\ core_Count \in Time /\ core_Compare \in Time
  BY BeatNotEmpty DEF IInv, Beating, TimeOK
<1>2. IntType = {"VI", "COMPARE", "CHECK", "SI", "PI", "SPECIAL", "AI", "SP", "DP"}
  BY DEF IntType
<1> DEFINE r == RemoveHead(ev, core_Count)
<1>3. r \in Queue
  BY <1>1, RemoveHeadRemoves
<1>4. NoCheck(r.q) /\ (ev.q[1].type # "CHECK" => NoCheck(ev.q))
  <2>1. CASE NoCheck(ev.q)
    <3>1. ev.q[1].type # "CHECK"
      <4>1. 1 \in 1 .. Len(ev.q)
        BY <1>1, LenProperties, EmptySeq DEF Queue
      <4> QED
        BY <2>1, <4>1 DEF NoCheck, HasNone
    <3>2. Keeps(ev.q, r.q, "CHECK")
      BY <1>1, <3>1, RemoveHeadKeeps
    <3> QED
      BY <2>1, <3>1, <3>2, KeepsNone DEF NoCheck
  <2>2. CASE OneCheck(S)
    BY <1>1, <2>2, RemoveHeadCounts DEF OneCheck, NoCheck
  <2> QED
    BY <2>1, <2>2 DEF CheckOK
<1> HIDE DEF r
<1>5. CASE GenSkipJump
  <2>1. pc = "gen" /\ Return /\ ~skip_jump' /\ skip_jump /\ ops' = MaxOps
        /\ ev' = [ev EXCEPT !.next = NextInterrupt(ev.q, core_Count)]
    BY <1>5 DEF GenSkipJump
  <2>2. NoCheck(ev.q)
    BY <2>1 DEF CheckOK, OneCheck
  <2>3. NoCheck(ev'.q)
    BY <1>1, <2>1, <2>2 DEF Queue
  <2> QED
    BY <2>1, <2>3, CheckQuiet
<1>6. CASE GenSpecial
  <2>1. /\ pc = "gen" /\ Return /\ ~skip_jump' /\ ev.q[1].type = "SPECIAL"
        /\ ev' \in {ev, AddEventCount(r, "SPECIAL", 0, core_Count)} /\ ops' = ops
    BY <1>1, <1>6 DEF GenSpecial, Generating, cpuVars, r
  <2>2. NoCheck(ev'.q)
    BY <1>1, <1>2, <1>3, <1>4, <2>1, NoCheckAddCount, ZeroTime
  <2> QED
    BY <2>1, <2>2, CheckQuiet
<1>7. CASE GenSpSilent
  <2>1. pc = "gen" /\ Return /\ ~skip_jump' /\ ev' = r /\ ops' = ops
    BY <1>7 DEF GenSpSilent, Generating, cpuVars, r
  <2> QED
    BY <1>4, <2>1, CheckQuiet
<1>8. CASE GenVI
  <2> DEFINE e == AddEventCount(r, "VI", next_vi', core_Count)
  <2>1. pc = "gen" /\ Return /\ Finish("VI", e, Raised("VI"))
    BY <1>8 DEF GenVI, Generating, r
  <2>2. next_vi' \in Time
    BY <1>8, Parameters, TimeArithmetic DEF GenVI, IInv, TimeOK
  <2>3. e \in Queue /\ NoCheck(e.q)
    BY <1>1, <1>2, <1>3, <1>4, <2>2, NoCheckAddCount
  <2> HIDE DEF e
  <2> QED
    BY <2>1, <2>3, CheckFinish
<1>9. CASE GenCompare
  <2> DEFINE e == AddEventCount(r, "COMPARE", core_Compare, Plus(core_Count, 2))
  <2>1. pc = "gen" /\ Return /\ Finish("COMPARE", e, mi)
    BY <1>9 DEF GenCompare, Generating, r
  <2>2. Plus(core_Count, 2) \in Time
    BY <1>1, Parameters, TimeArithmetic
  <2>3. e \in Queue /\ NoCheck(e.q)
    BY <1>1, <1>2, <1>3, <1>4, <2>2, NoCheckAddCount
  <2> HIDE DEF e
  <2> QED
    BY <2>1, <2>3, CheckFinish
<1>10. CASE GenCheck
  <2>1. pc = "gen" /\ Return /\ Finish("CHECK", r, mi)
    BY <1>10 DEF GenCheck, Generating, r
  <2> QED
    BY <1>3, <1>4, <2>1, CheckFinish
<1>11. ASSUME NEW b \in {"SI", "PI", "SP", "DP"}, GenDevice(b) PROVE CheckOK(S)'
  <2>1. pc = "gen" /\ Return /\ Finish(b, r, Raised(b))
    BY <1>11 DEF GenDevice, Generating, r
  <2> QED
    BY <1>3, <1>4, <2>1, CheckFinish
<1>12. CASE GenAI
  <2> DEFINE next == Plus(GetEvent(ev, "AI"), ai.next)
             e    == AddEventCount(r, "AI", next, core_Count)
  <2>1. pc = "gen" /\ Return /\ (Finish("AI", e, Raised("AI")) \/ Finish("AI", r, Raised("AI")))
    BY <1>12 DEF GenAI, Generating, r
  <2>2. next \in Time
    BY <1>1, GetEventTime, TimeArithmetic DEF IInv, CpuOK
  <2> HIDE DEF next
  <2>3. e \in Queue /\ NoCheck(e.q)
    BY <1>1, <1>2, <1>3, <1>4, <2>2, NoCheckAddCount
  <2> HIDE DEF e
  <2> QED
    BY <1>3, <1>4, <2>1, <2>3, CheckFinish
<1> QED
  BY <1>5, <1>6, <1>7, <1>8, <1>9, <1>10, <1>11, <1>12 DEF Gen

LEMMA CheckStep ==
  ASSUME NEW S, NEW B, Short(S, B), IInv, CheckOK(S), [Next]_vars,
         [CheckWaits => ~Rechecks]_vars
  PROVE  CheckOK(S)'
<1>1. CASE UNCHANGED vars
  <2>1. UNCHANGED <<ev, core_Count, status, ip, skip_jump, slot, pc, count_write, ops, saved>>
    BY <1>1 DEF vars, timeVars, cpuVars, auxVars, stVars
  <2> QED
    BY <2>1 DEF CheckOK, SlotOK, OneCheck, Ready, Checked, Enabled
<1>2. CASE Game /\ (CheckWaits => ~Rechecks)
  <2>1. CASE Rechecks
    BY <1>2, <2>1, CheckCompare, CheckSave, CheckLoad, CheckRegisters DEF Rechecks
  <2>2. CASE ~Rechecks
    BY <1>2, <2>2, CheckBranch, CheckIdle, CheckCount, CheckTranslate, CheckStarts, CheckEret
       DEF Game, Rechecks
  <2> QED
    BY <2>1, <2>2
<1>3. CASE Gen
  BY <1>3, CheckGen
<1> QED
  BY <1>1, <1>2, <1>3 DEF Next

\* A CHECK event takes an exception only when interrupts are enabled and one is
\* pending, in every game that leaves the registers of the check alone from the
\* check to its branch; meanwhile it may start units, write Count, idle and go on
\* for any number of instructions.  The code does not hold a game to this, and a
\* second check in the block breaks the promise: it finds the cause gone, or
\* pushes a second CHECK event that is taken after the exception of the first.
THEOREM ChecksAreJustified ==
  ASSUME NEW CONSTANT S, NEW CONSTANT B, Short(S, B)
  PROVE  Spec /\ Patient => CheckJustified
<1>1. Init => CheckOK(S)
  <2>1. ASSUME Init PROVE NoCheck(ev.q)
    <3>1. EventSet(ev.q) = {[type |-> "VI", count |-> BootVi], [type |-> "SPECIAL", count |-> 0]}
      BY <2>1, InitQueueEvents, Parameters DEF Init
    <3> QED
      BY <3>1, NoneInEvents DEF NoCheck
  <2> QED
    <3>1. 0 <= MaxOps
      BY Parameters
    <3> QED
      BY <2>1, <3>1 DEF Init, CheckOK, SlotOK
<1>2. IInv /\ CheckOK(S) /\ [Next]_vars /\ [CheckWaits => ~Rechecks]_vars => CheckOK(S)'
  BY CheckStep
<1>3. IInv /\ CheckOK(S) => [GenCheck => Enabled(status) /\ status.im \cap ip # {}]_vars
  <2> SUFFICES ASSUME IInv, CheckOK(S), GenCheck
               PROVE  Enabled(status) /\ status.im \cap ip # {}
    OBVIOUS
  <2>1. ev.q # <<>> /\ ev.q[1].type = "CHECK" /\ ev.q \in Seq(Event)
    BY BeatNotEmpty DEF GenCheck, Generating, IInv
  <2>2. 1 \in 1 .. Len(ev.q)
    BY <2>1, LenProperties, EmptySeq
  <2>3. ~NoCheck(ev.q)
    BY <2>1, <2>2 DEF NoCheck, HasNone
  <2> QED
    BY <2>3 DEF CheckOK, OneCheck
<1> QED
  BY <1>1, <1>2, <1>3, Inductive, PTL DEF Spec, CheckJustified, Patient
=============================================================================
