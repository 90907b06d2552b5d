--------------------------- MODULE InterruptQueue ---------------------------
(***************************************************************************)
(* The event queue of core/r4300/interrupt.cpp as operators on its value.   *)
(*                                                                         *)
(* The code keeps a linked list q ordered by the time an event fires, the   *)
(* cached time next_interrupt of its head, and the flag SPECIAL_done.  All   *)
(* three together are one record                                            *)
(*    [q |-> sequence of events, next |-> time, done |-> BOOLEAN]           *)
(* and every function of the file is an operator from such a record and the *)
(* Count register (the argument `now') to the record it leaves.  Time is    *)
(* the 32-bit Count register scaled down to a modulus M: the thresholds      *)
(* 0x80000000 and 0x10000000 become M/2 and M/16.                           *)
(***************************************************************************)
EXTENDS Integers, Sequences, SequencesExt

CONSTANT M          \* values of the Count register: 2^32 in the code

\* The two thresholds of before_event() must be distinct and positive.
ASSUME ModulusAssumption == M \in Nat /\ M >= 16 /\ M % 16 = 0

Half      == M \div 2       \* 0x80000000
Sixteenth == M \div 16      \* 0x10000000
Time      == 0 .. M - 1

\* The interrupt types of interrupt.h.
IntType == {"VI", "COMPARE", "CHECK", "SI", "PI", "SPECIAL", "AI", "SP", "DP"}

Event == [type : IntType, count : Time]
Queue == [q : Seq(Event), next : Time, done : BOOLEAN]

\* unsigned long arithmetic
\* Mutant: no wrap-around.
PlusUnwrapped(a, b) == a + b

Plus(a, b)  == (a + b) % M
Minus(a, b) == (a - b) % M

\* clear_queue() leaves next_interrupt and SPECIAL_done alone.
ClearQueue(ev) == [ev EXCEPT !.q = <<>>]

\* Mutant: the counts are compared as they are, not relative to Count.
BeforeEventAbsolute(evt1, e2, now, done) == evt1 < e2.count

\* Whether an event due at evt1 happens before the queued event e2.
BeforeEvent(evt1, e2, now, done) ==
  /\ Minus(evt1, now) < Half
  /\ IF Minus(e2.count, now) < Half
     THEN Minus(evt1, now) < Minus(e2.count, now)
     ELSE \/ Minus(now, e2.count) >= Sixteenth
          \/ e2.type = "SPECIAL" /\ done

\* get_event(): the count of the first event of a type, and 0 when there is
\* none -- or when the event is due at 0.
GetEvent(ev, type) ==
  LET i == SelectInSeq(ev.q, LAMBDA e : e.type = type)
  IN  IF i = 0 THEN 0 ELSE ev.q[i].count

\* Mutant: next_interrupt does not follow a new head.
AddEventKeepsNext(ev, type, delay, now) ==
  LET e == [type |-> type, count |-> Plus(now, delay)]
      k == SelectInSeq(ev.q, LAMBDA e2 : type # "SPECIAL"
                                /\ BeforeEvent(e.count, e2, now, ev.done))
  IN  [ev EXCEPT !.q = IF k = 0 THEN Append(@, e) ELSE InsertAt(@, k, e)]

\* add_interrupt_event(): an event goes in front of the first event it
\* precedes; SPECIAL always goes to the end.  next_interrupt follows only
\* when the new event becomes the head.
AddEvent(ev, type, delay, now) ==
  LET e     == [type |-> type, count |-> Plus(now, delay)]
      done  == ev.done /\ now <= Half
      Goes(e2) == type # "SPECIAL" /\ BeforeEvent(e.count, e2, now, done)
      k     == SelectInSubSeq(ev.q, 2, Len(ev.q), Goes)
  IN  IF ev.q = <<>> \/ Goes(ev.q[1])
      THEN [q |-> <<e>> \o ev.q, next |-> e.count, done |-> done]
      ELSE [q |-> IF k = 0 THEN Append(ev.q, e) ELSE InsertAt(ev.q, k, e),
            next |-> ev.next, done |-> done]

\* add_interrupt_event_count(): the same, at an absolute time.
AddEventCount(ev, type, count, now) ==
  AddEvent(ev, type, Minus(count, now), now)

\* What the end of remove_interrupt_event() and the skip_jump branch of
\* gen_interrupt() compute: the head's time, or 0 ("at every check") when the
\* head lies beyond the next roll-over of Count.
NextInterrupt(q, now) ==
  IF q # <<>> /\ (q[1].count > now \/ Minus(now, q[1].count) < Half)
  THEN q[1].count ELSE 0

\* Mutant: the removed event's time stays in next_interrupt.
RemoveHeadKeepsNext(ev, now) == [ev EXCEPT !.q = Tail(@)]

\* remove_interrupt_event(): drop the head.
RemoveHead(ev, now) ==
  [q    |-> Tail(ev.q),
   next |-> NextInterrupt(Tail(ev.q), now),
   done |-> ev.done \/ ev.q[1].type = "SPECIAL"]

\* remove_event(): drop the first event of a type, wherever it is;
\* next_interrupt and SPECIAL_done are not touched.
RemoveEvent(ev, type) ==
  [ev EXCEPT !.q = RemoveFirstMatch(@, LAMBDA e : e.type = type)]

\* Mutant: next_interrupt is not brought forward.
PushCheckKeepsNext(ev, now) ==
  [ev EXCEPT !.q = <<[type |-> "CHECK", count |-> now]>> \o @]

\* The CHECK_INT event check_interrupt() pushes in front of everything.
PushCheck(ev, now) ==
  [ev EXCEPT !.q = <<[type |-> "CHECK", count |-> now]>> \o @, !.next = now]

\* Mutant: the shift has the wrong sign.
TranslateBackwards(ev, base, compare, now) ==
  [ev EXCEPT !.q = [i \in 1 .. Len(@) |->
                      [@[i] EXCEPT !.count = Plus(Minus(@, base), now)]]]

\* translate_event_queue(): shift every event from the time base `now' to the
\* base `base'; COMPARE and SPECIAL keep their absolute time.  The two are
\* added again while Count still holds `now'.
Translate(ev, base, compare, now) ==
  LET dropped == RemoveEvent(RemoveEvent(ev, "COMPARE"), "SPECIAL")
      Shift(e) == [e EXCEPT !.count = Plus(Minus(@, now), base)]
      shifted == [dropped EXCEPT !.q = [i \in 1 .. Len(@) |-> Shift(@[i])]]
      timer   == AddEventCount(shifted, "COMPARE", compare, now)
  IN  AddEventCount(timer, "SPECIAL", 0, now)

\* init_interrupt(): the queue of a machine that starts, next_vi being `vi'.
InitQueue(vi, now) ==
  AddEventCount(
    AddEventCount([q |-> <<>>, next |-> vi, done |-> TRUE], "VI", vi, now),
    "SPECIAL", 0, now)

\* Mutant: the running machine's events are not cleared first.
LoadQueueOnTop(ev, saved, now) ==
  LET f[i \in 0 .. Len(saved)] ==
        IF i = 0 THEN ev
        ELSE AddEventCount(f[i - 1], saved[i].type, saved[i].count, now)
  IN  f[Len(saved)]

\* load_eventqueue_infos(): re-adds the saved events one by one, under the
\* SPECIAL_done the running machine happens to have.
LoadQueue(ev, saved, now) ==
  LET f[i \in 0 .. Len(saved)] ==
        IF i = 0 THEN ClearQueue(ev)
        ELSE AddEventCount(f[i - 1], saved[i].type, saved[i].count, now)
  IN  f[Len(saved)]

\* Exactly one event of a type is queued; none is.
HasOne(q, type) ==
  \E i \in 1 .. Len(q) : \A j \in 1 .. Len(q) : q[j].type = type <=> j = i
HasNone(q, type) == \A j \in 1 .. Len(q) : q[j].type # type

\* The queued events, without their order.
EventSet(q) == {q[i] : i \in 1 .. Len(q)}
=============================================================================
