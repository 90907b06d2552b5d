------------------------- MODULE InterpreterProofs -------------------------
(***************************************************************************)
(* Whatever program they run within ProgramOK, both interpreters refine     *)
(* ControlFlow: however blocks end and wherever an exception is noted, the  *)
(* instructions are run in the order that the processor runs them.          *)
(***************************************************************************)
EXTENDS Interpreter, SequenceTheorems, TLAPS

-----------------------------------------------------------------------------
(* Programs.                                                               *)

Jumps  == {"j", "jal", "jr", "jalr", "beq", "beql"}
Simple == {"nop", "load", "syscall", "cop1"}

\* The handlers, and the rest; a word of which the next one is also a word of
\* it may be run by itself, the others only as delay slots.
Handlers == {RefillVector, RefillVector + 1, GeneralVector, GeneralVector + 1}
Prog(f)  == DOMAIN f.code \ Handlers
Heads(f) == {a \in Prog(f) : a + 1 \in Prog(f)}

HandlersOK(f) ==
  /\ Handlers \subseteq DOMAIN f.code /\ Handlers \cap MappedWords = {}
  /\ RefillVector \in Nat \ {0} /\ GeneralVector \in Nat \ {0}
  /\ f.code[RefillVector].op = "tlbw" /\ f.code[RefillVector + 1].op = "eret"
  /\ f.code[GeneralVector].op = "epc" /\ f.code[GeneralVector + 1].op = "eret"

\* What may follow the instruction at a.
FollowOK(f, a) ==
  LET op == f.code[a].op  next == f.code[a + 1].op IN
  /\ op \in Jumps \cup Simple \cup {"mtc0"}
  /\ op \notin Jumps => a + 1 \in Heads(f)
  /\ op \in Jumps => next \in Simple
  /\ op \in {"j", "jal", "beq", "beql"} => f.code[a].to \in Heads(f)
  /\ op \in Jumps /\ (op \notin {"j", "jr"} \/ next \in {"syscall", "cop1"}) => a + 2 \in Heads(f)
  /\ \A b \in {a, a + 1} : b \notin MappedWords => b + 1 \notin MappedWords

\* A delay slot in the next page stays mapped.
SlotsOK(f) ==
  \A a \in Heads(f) :
    f.code[a].op \in Jumps /\ a + 1 \in MappedWords /\ Page(a + 1) # Page(a)
      => Page(a + 1) \in f.tlb /\ Page(a + 1) \notin f.code[RefillVector].evict

ProgramOK(f) ==
  /\ f.core \in {"cached", "pure"} /\ DOMAIN f.code \subseteq Nat
  /\ HandlersOK(f) /\ SlotsOK(f)
  /\ \A a \in Heads(f) : FollowOK(f, a)
  /\ f.start \in Heads(f) /\ (f.start \in MappedWords => Page(f.start) \in f.tlb)

\* Pages are mapped as wholes; the first is not.
MapOK ==
  /\ W \in Nat \ {0} /\ MappedWords \subseteq Nat
  /\ \A a \in MappedWords : Page(a) # 0 /\ \A b \in Nat : Page(b) = Page(a) => b \in MappedWords

Limits == MapOK /\ \A f \in Sessions : ProgramOK(f)

-----------------------------------------------------------------------------
(* Pages and nodes.                                                        *)

Base(p) == W * p

LEMMA Pages ==
  ASSUME MapOK, NEW a \in Nat
  PROVE  /\ Page(a) \in Nat /\ Base(Page(a)) \in Nat
         /\ Base(Page(a)) <= a /\ a < Base(Page(a)) + W
BY SMTT(30) DEF MapOK, Page, Base

LEMMA SamePage ==
  ASSUME MapOK, NEW p \in Nat, NEW i \in Nat, i < W
  PROVE  Page(Base(p) + i) = p
BY SMTT(30) DEF MapOK, Page, Base

LEMMA BasePositive ==
  ASSUME MapOK, NEW p \in Nat
  PROVE  Base(p) \in Nat /\ (Base(p) = 0 <=> p = 0)
BY SMTT(30) DEF MapOK, Base

-----------------------------------------------------------------------------
(* The invariant.                                                          *)

Nodes == [start : Nat, i : Nat]

\* A record of all the variables that c stands for.
Whole(t) ==
  t = [PC |-> t.PC, delay_slot |-> t.delay_slot, skip_jump |-> t.skip_jump, frames |-> t.frames,
       at |-> t.at, dest |-> t.dest, epc |-> t.epc, bd |-> t.bd, exl |-> t.exl, cause |-> t.cause,
       ra |-> t.ra, tlb |-> t.tlb, done |-> t.done]
Typed(f, t) ==
  /\ Whole(t) /\ t.PC \in Nodes /\ t.delay_slot \in BOOLEAN /\ t.dest \in Nat
  /\ t.exl \in BOOLEAN /\ t.ra \in Heads(f)

\* The slots in another page can be run.
Needs(f, t) ==
  \A a \in Heads(f) :
    f.code[a].op \in Jumps /\ a + 1 \in MappedWords /\ Page(a + 1) # Page(a)
      => Page(a + 1) \in t.tlb

\* n is in a block that is mapped, or in unmapped code.
Block(f, t, n) ==
  /\ n \in Nodes
  /\ IF n.start = 0 THEN f.core = "cached" => addr(n) \notin MappedWords
     ELSE f.core = "cached" /\ \E p \in Nat : /\ p \in t.tlb /\ n.start = Base(p)
                                              /\ \A k \in Nat : k < W => Base(p) + k \in MappedWords

\* Where the handler at v goes back to.
Resume(t) ==
  IF t.cause[1] \in {"syscall", "cop1"} THEN t.epc + (IF t.bd THEN 2 ELSE 1) ELSE t.epc
Handling(f, t, v) ==
  \/ v \in Handlers \ {GeneralVector} /\ t.epc \in Heads(f)
  \/ v = GeneralVector /\ Resume(t) \in Heads(f)

\* br is the frame of the branch at b, fin that of the FIN_BLOCK it called.
BranchFrame(f, br) ==
  /\ br = [op |-> br.op, to |-> br.to, taken |-> br.taken, link |-> br.link, out |-> br.out,
           start |-> br.start]
  /\ br.op = "branch" /\ br.to \in Nat /\ br.start \in Nat
  /\ br.taken \in BOOLEAN /\ br.link \in BOOLEAN /\ br.out \in BOOLEAN
  /\ (br.link => br.taken) /\ (f.core = "cached" \/ br.start = 0)
FinFrame(fin) == fin = [op |-> fin.op, PC |-> fin.PC] /\ fin.op = "FIN_BLOCK" /\ fin.PC \in Nodes
Calls(f, t, br, b) ==
  /\ b \in Heads(f) /\ f.code[b].op \in Jumps /\ BranchFrame(f, br)
  /\ br.taken => br.to \in Heads(f)
  /\ ~br.taken \/ br.link => b + 2 \in Heads(f)
  /\ ~br.out /\ br.start # 0
       => br.to >= br.start /\ Block(f, t, [start |-> br.start, i |-> br.to - br.start])
Stack(f, t, br, b) ==
  \/ t.frames = <<br>>
  \/ \E fin : /\ t.frames = <<fin, br>>
              /\ FinFrame(fin) /\ Block(f, t, fin.PC) /\ addr(fin.PC) = b + 2

\* Between two instructions; in a delay slot; back from it; with a handler
\* pending; at a jump.
Ready(f, t) ==
  /\ t.at \in {"op", "due"} /\ t.frames = <<>> /\ ~t.delay_slot /\ t.skip_jump = 0
  /\ Block(f, t, t.PC)
  /\ IF t.exl THEN Handling(f, t, addr(t.PC)) ELSE addr(t.PC) \in Heads(f)
InDelay(f, t, br, b) ==
  /\ t.at = "op" /\ t.delay_slot /\ t.skip_jump = 0 /\ ~t.exl /\ t.done = b
  /\ Calls(f, t, br, b) /\ Stack(f, t, br, b) /\ addr(t.PC) = b + 1 /\ Block(f, t, t.PC)
  /\ Present(t, b) /\ (Fin(t.PC) => t.frames = <<br>>)
BackFrom(f, t, br, b) ==
  /\ t.at = "back" /\ t.delay_slot /\ t.skip_jump = 0 /\ ~t.exl
  /\ Calls(f, t, br, b) /\ Stack(f, t, br, b) /\ addr(t.PC) = b + 2
  /\ t.frames = <<br>> => Block(f, t, t.PC)
Pending(f, t) ==
  /\ t.skip_jump \in {RefillVector, GeneralVector} /\ t.exl /\ Handling(f, t, t.skip_jump)
  /\ \/ /\ t.at = "back" /\ t.delay_slot
        /\ \E br : /\ BranchFrame(f, br)
                   /\ t.frames = <<br>> \/ \E fin : FinFrame(fin) /\ t.frames = <<fin, br>>
     \/ t.at = "due" /\ ~t.delay_slot /\ t.frames = <<>>
     \/ t.at = "jump" /\ ~t.delay_slot /\ t.frames = <<>> /\ f.core = "pure"
Leaving(f, t) ==
  /\ t.at = "jump" /\ t.frames = <<>> /\ ~t.delay_slot /\ t.skip_jump = 0 /\ ~t.exl
  /\ t.dest \in Heads(f)

Going(f, t) ==
  \/ Ready(f, t) \/ Pending(f, t) \/ Leaving(f, t)
  \/ \E br, b : InDelay(f, t, br, b) \/ BackFrom(f, t, br, b)
IInv == session \in Sessions /\ Typed(session, c) /\ Needs(session, c) /\ Going(session, c)

FlowStep == Flow!Next \/ UNCHANGED Flow!vars

-----------------------------------------------------------------------------
(* Frames.                                                                 *)

LEMMA Tuples ==
  ASSUME NEW x, NEW y
  PROVE  /\ Len(<<x>>) = 1 /\ <<x>>[Len(<<x>>)] = x /\ Head(<<x>>) = x /\ Tail(<<x>>) = <<>>
         /\ Len(<<x, y>>) = 2 /\ <<x, y>>[Len(<<x, y>>)] = y /\ Head(<<x, y>>) = x
         /\ Tail(<<x, y>>) = <<y>> /\ <<x>> # <<>> /\ <<x, y>> # <<>> /\ <<y>> # <<x, y>>
         /\ <<x>> \o <<>> = <<x>> /\ <<x>> \o <<y>> = <<x, y>>
<1>1. Len(<<x>>) = 1 /\ <<x>>[Len(<<x>>)] = x /\ Head(<<x>>) = x /\ Tail(<<x>>) = <<>>
  OBVIOUS
<1>2. Len(<<x, y>>) = 2 /\ <<x, y>>[Len(<<x, y>>)] = y /\ Head(<<x, y>>) = x
  OBVIOUS
<1>3. Tail(<<x, y>>) = <<y>> /\ <<x>> # <<>> /\ <<x, y>> # <<>> /\ <<y>> # <<x, y>>
  OBVIOUS
<1>4. <<x>> \o <<>> = <<x>>
  OBVIOUS
<1>5. <<x>> \o <<y>> = <<x, y>>
  <2> DEFINE z == <<x>> \o <<y>>
  <2>1. {<<x>>, <<y>>, <<x, y>>} \subseteq Seq({x, y})
    OBVIOUS
  <2>2. z \in Seq({x, y}) /\ Len(z) = 2 /\ z[1] = x /\ z[2] = y
    BY <2>1, ConcatProperties
  <2> HIDE DEF z
  <2>3. z = <<x, y>>
    BY <2>2
  <2>4. QED
    BY <2>3 DEF z
<1>6. QED
  BY <1>1, <1>2, <1>3, <1>4, <1>5

LEMMA StackFrames ==
  ASSUME NEW f, NEW t, NEW br, NEW b, Stack(f, t, br, b)
  PROVE  /\ t.frames # <<>> /\ t.frames[Len(t.frames)] = br
         /\ t.frames = <<br>> => Head(t.frames) = br /\ Tail(t.frames) = <<>>
         /\ t.frames # <<br>> =>
              /\ Tail(t.frames) = <<br>> /\ FinFrame(Head(t.frames))
              /\ Block(f, t, Head(t.frames).PC) /\ addr(Head(t.frames).PC) = b + 2
<1>1. CASE t.frames = <<br>>
  BY <1>1, Tuples
<1>2. CASE t.frames # <<br>>
  <2>1. PICK fin : /\ t.frames = <<fin, br>>
                   /\ FinFrame(fin) /\ Block(f, t, fin.PC) /\ addr(fin.PC) = b + 2
    BY <1>2 DEF Stack
  <2>2. QED
    BY <1>2, <2>1, Tuples
<1>3. QED
  BY <1>1, <1>2

-----------------------------------------------------------------------------
(* Blocks.                                                                 *)

LEMMA NodeFields ==
  ASSUME NEW n \in Nodes, NEW k \in Nat
  PROVE  /\ n = [start |-> n.start, i |-> n.i] /\ n.start \in Nat /\ n.i \in Nat
         /\ addr(n) = n.start + n.i /\ addr(n) \in Nat
         /\ Plus(n, k) \in Nodes /\ Plus(n, k).start = n.start /\ Plus(n, k).i = n.i + k
         /\ addr(Plus(n, k)) = addr(n) + k
BY DEF Nodes, addr, Plus

LEMMA PlusOne ==
  ASSUME NEW n \in Nodes
  PROVE  addr(n) \in Nat /\ addr(Plus(n, 1)) = addr(n) + 1 /\ addr(Plus(n, 1)) - 1 = addr(n)
BY DEF Nodes, addr, Plus

LEMMA NodeBlock ==
  ASSUME MapOK, NEW a \in Nat, NEW t,
         session.core \in {"cached", "pure"}, Cached => Present(t, a)
  PROVE  /\ Node(a) \in Nodes /\ addr(Node(a)) = a /\ ~Fin(Node(a))
         /\ Block(session, t, Node(a))
<1>1. CASE Cached /\ a \in MappedWords
  <2> DEFINE p == Page(a)
             n == [start |-> Base(p), i |-> a - Base(p)]
  <2>1. /\ p \in Nat /\ Base(p) \in Nat /\ Base(p) <= a /\ a < Base(p) + W /\ W \in Nat
    BY Pages DEF MapOK
  <2>2. p # 0 /\ \A x \in Nat : Page(x) = p => x \in MappedWords
    BY <1>1 DEF MapOK
  <2>3. Base(p) # 0
    BY <2>1, <2>2, BasePositive
  <2>4. p \in t.tlb
    BY <1>1 DEF Present
  <2>5. Node(a) = n
    BY <1>1 DEF Node, Base
  <2> HIDE DEF p
  <2>6. n \in Nodes /\ n.start = Base(p) /\ n.i = a - Base(p) /\ addr(n) = a /\ ~(n.i >= W)
    BY <2>1 DEF Nodes, addr
  <2> HIDE DEF n
  <2>7. \A k \in Nat : k < W => Base(p) + k \in MappedWords
    BY <2>1, <2>2, SamePage
  <2>8. QED
    BY <1>1, <2>1, <2>3, <2>4, <2>5, <2>6, <2>7 DEF Block, Fin, Cached
<1>2. CASE ~(Cached /\ a \in MappedWords)
  <2>1. Node(a) = [start |-> 0, i |-> a]
    BY <1>2 DEF Node
  <2>2. Node(a) \in Nodes /\ Node(a).start = 0 /\ addr(Node(a)) = a
    BY <2>1 DEF Nodes, addr
  <2>3. QED
    BY <1>2, <2>2 DEF Block, Fin, Cached
<1>3. QED
  BY <1>1, <1>2

LEMMA BlockGoesOn ==
  ASSUME NEW f, NEW t, NEW n, NEW k \in Nat, Block(f, t, n),
         n.start = 0 /\ f.core = "cached" => addr(n) + k \notin MappedWords
  PROVE  Block(f, t, Plus(n, k))
<1>1. /\ n \in Nodes /\ Plus(n, k) \in Nodes /\ Plus(n, k).start = n.start
      /\ addr(Plus(n, k)) = addr(n) + k
  BY NodeFields DEF Block
<1>2. QED
  BY <1>1 DEF Block

LEMMA BlockKept ==
  ASSUME NEW f, NEW t, NEW u, NEW n, Block(f, t, n),
         t.tlb = u.tlb \/ n.start = 0
  PROVE  Block(f, u, n)
BY DEF Block

\* A node that is not behind the block is in the block's page.
LEMMA InBlock ==
  ASSUME MapOK, NEW f, NEW t, NEW n, Block(f, t, n), ~Fin(n), n.start # 0
  PROVE  /\ Page(addr(n)) \in t.tlb /\ addr(n) \in MappedWords /\ f.core = "cached"
         /\ n.start = Base(Page(addr(n))) /\ n.i < W
<1>1. PICK p \in Nat : /\ p \in t.tlb /\ n.start = Base(p)
                       /\ \A k \in Nat : k < W => Base(p) + k \in MappedWords
  BY DEF Block
<1>2. n \in Nodes /\ n.i \in Nat /\ n.start \in Nat /\ addr(n) = n.start + n.i
  BY NodeFields DEF Block
<1>3. W \in Nat /\ n.i < W
  BY <1>2 DEF Fin, MapOK
<1>4. Page(addr(n)) = p
  BY <1>1, <1>2, <1>3, SamePage
<1>5. addr(n) \in MappedWords
  BY <1>1, <1>2, <1>3
<1>6. f.core = "cached"
  BY DEF Block
<1>7. QED
  BY <1>1, <1>3, <1>4, <1>5, <1>6

-----------------------------------------------------------------------------
(* What ControlFlow has of a state.                                        *)

PcOf(t) == IF t.skip_jump # 0 THEN t.skip_jump
           ELSE IF t.at = "jump" THEN t.dest
           ELSE IF t.frames # <<>> /\ t.at = "back"
                THEN IF t.frames[Len(t.frames)].taken THEN t.frames[Len(t.frames)].to ELSE addr(t.PC)
           ELSE addr(t.PC)
SlotOf(t) == IF t.frames # <<>> /\ t.skip_jump = 0 /\ t.at = "op"
             THEN <<[to   |-> IF t.frames[Len(t.frames)].taken
                              THEN t.frames[Len(t.frames)].to ELSE t.done + 2,
                     link |-> t.frames[Len(t.frames)].link]>>
             ELSE <<>>
RaOf(t) == IF t.frames # <<>> /\ t.skip_jump = 0 /\ t.at = "back" /\ t.frames[Len(t.frames)].link
           THEN addr(t.PC) ELSE t.ra
Sees(t, p, sl, r) == PcOf(t) = p /\ SlotOf(t) = sl /\ RaOf(t) = r
SameStatus(t, u) == u.epc = t.epc /\ u.bd = t.bd /\ u.exl = t.exl /\ u.cause = t.cause

LEMMA Mapping ==
  /\ Pc = PcOf(c) /\ Slot = SlotOf(c) /\ Ra = RaOf(c)
  /\ Pc' = PcOf(c') /\ Slot' = SlotOf(c') /\ Ra' = RaOf(c')
<1>1. Pc = PcOf(c) /\ Pc' = PcOf(c')
  BY DEF Pc, PcOf, InSlot, Past, Frame
<1>2. Slot = SlotOf(c) /\ Slot' = SlotOf(c')
  BY DEF Slot, SlotOf, InSlot, Frame
<1>3. Ra = RaOf(c) /\ Ra' = RaOf(c')
  BY DEF Ra, RaOf, InSlot, Frame
<1>4. QED
  BY <1>1, <1>2, <1>3

LEMMA MappedState ==
  ASSUME NEW p, NEW sl, NEW r, Sees(c, p, sl, r)
  PROVE  Pc = p /\ Slot = sl /\ Ra = r
BY Mapping DEF Sees

LEMMA MappedNext ==
  ASSUME NEW p, NEW sl, NEW r, Sees(c', p, sl, r)
  PROVE  Pc' = p /\ Slot' = sl /\ Ra' = r
BY Mapping DEF Sees

LEMMA ReadySees ==
  ASSUME NEW f, NEW t, Ready(f, t)
  PROVE  Sees(t, addr(t.PC), <<>>, t.ra)
BY DEF Ready, Sees, PcOf, SlotOf, RaOf

LEMMA LeavingSees ==
  ASSUME NEW f, NEW t, Leaving(f, t)
  PROVE  Sees(t, t.dest, <<>>, t.ra)
BY DEF Leaving, Sees, PcOf, SlotOf, RaOf

LEMMA PendingSees ==
  ASSUME NEW f, HandlersOK(f), NEW t, Pending(f, t)
  PROVE  Sees(t, t.skip_jump, <<>>, t.ra)
<1>1. t.skip_jump # 0
  BY DEF Pending, HandlersOK
<1>2. QED
  BY <1>1 DEF Sees, PcOf, SlotOf, RaOf

DelaySlot(br, b) == <<[to |-> IF br.taken THEN br.to ELSE b + 2, link |-> br.link]>>
AfterBranch(br, b) == IF br.taken THEN br.to ELSE b + 2

LEMMA InDelaySees ==
  ASSUME NEW f, NEW t, NEW br, NEW b, InDelay(f, t, br, b)
  PROVE  Sees(t, b + 1, DelaySlot(br, b), t.ra)
<1>1. t.frames # <<>> /\ t.frames[Len(t.frames)] = br
  BY StackFrames DEF InDelay
<1>2. t.at = "op" /\ t.skip_jump = 0 /\ t.done = b /\ addr(t.PC) = b + 1
  BY DEF InDelay
<1>3. QED
  BY <1>1, <1>2 DEF Sees, PcOf, SlotOf, RaOf, DelaySlot

LEMMA BackFromSees ==
  ASSUME NEW f, NEW t, NEW br, NEW b, BackFrom(f, t, br, b)
  PROVE  Sees(t, AfterBranch(br, b), <<>>, IF br.link THEN b + 2 ELSE t.ra)
<1>1. t.frames # <<>> /\ t.frames[Len(t.frames)] = br
  BY StackFrames DEF BackFrom
<1>2. t.at = "back" /\ t.skip_jump = 0 /\ addr(t.PC) = b + 2
  BY DEF BackFrom
<1>3. QED
  BY <1>1, <1>2 DEF Sees, PcOf, SlotOf, RaOf, AfterBranch

LEMMA Stutters ==
  ASSUME NEW p, NEW sl, NEW r, Sees(c, p, sl, r), Sees(c', p, sl, r), session' = session,
         SameStatus(c, c'), c'.tlb = c.tlb, c'.done = c.done
  PROVE  FlowStep
<1>1. Pc' = Pc /\ Slot' = Slot /\ Ra' = Ra
  BY MappedState, MappedNext
<1>2. QED
  BY <1>1 DEF FlowStep, Flow!vars, SameStatus

LEMMA FlowCompletes ==
  ASSUME NEW p, NEW sl, NEW r, Sees(c, p, sl, r), c'.done = p,
         \/ sl = <<>> /\ Sees(c', p + 1, <<>>, r)
         \/ sl # <<>> /\ Sees(c', sl[1].to, <<>>, IF sl[1].link THEN p + 1 ELSE r)
  PROVE  Flow!Complete
<1>1. Pc = p /\ Slot = sl /\ Ra = r
  BY MappedState
<1>2. CASE sl = <<>> /\ Sees(c', p + 1, <<>>, r)
  <2>1. Pc' = p + 1 /\ Slot' = <<>> /\ Ra' = r
    BY <1>2, MappedNext
  <2>2. QED
    BY <1>1, <1>2, <2>1 DEF Flow!Complete
<1>3. CASE sl # <<>> /\ Sees(c', sl[1].to, <<>>, IF sl[1].link THEN p + 1 ELSE r)
  <2>1. Pc' = sl[1].to /\ Slot' = <<>> /\ Ra' = IF sl[1].link THEN p + 1 ELSE r
    BY <1>3, MappedNext
  <2>2. QED
    BY <1>1, <1>3, <2>1 DEF Flow!Complete
<1>4. QED
  BY <1>2, <1>3

\* A trap, with the branch before it if p is its delay slot.
LEMMA FlowTraps ==
  ASSUME NEW p, NEW sl, NEW r, NEW why, NEW page, NEW v,
         Sees(c, p, sl, r), Sees(c', v, <<>>, r), session' = session,
         ~c.exl, c'.exl, c'.exl \in BOOLEAN, c'.cause = <<why, page>>, c'.bd = (sl # <<>>),
         c'.epc = (IF sl # <<>> THEN p - 1 ELSE p), c'.tlb = c.tlb, c'.done = c.done
  PROVE  Flow!Trap(why, page, v)
<1>1. Pc = p /\ Slot = sl /\ Ra = r
  BY MappedState
<1>2. Pc' = v /\ Slot' = <<>> /\ Ra' = r
  BY MappedNext
<1>3. c'.exl = TRUE
  OBVIOUS
<1>4. QED
  BY <1>1, <1>2, <1>3 DEF Flow!Trap

-----------------------------------------------------------------------------
(* An instruction that runs to its end.                                    *)

LEMMA Context ==
  ASSUME Limits, IInv
  PROVE  /\ MapOK /\ ProgramOK(session) /\ HandlersOK(session) /\ Typed(session, c)
         /\ Needs(session, c) /\ session.core \in {"cached", "pure"} /\ c.PC \in Nodes
         /\ Heads(session) \subseteq Nat /\ Handlers \subseteq Nat
BY DEF Limits, IInv, ProgramOK, HandlersOK, Typed, Heads, Prog, Handlers

LEMMA AtOp ==
  ASSUME IInv, c.at = "op"
  PROVE  Ready(session, c) \/ \E br, b : InDelay(session, c, br, b)
BY DEF IInv, Going, Pending, Leaving, BackFrom

LEMMA RunsHere ==
  ASSUME Limits, IInv, NEW name, Running(name)
  PROVE  /\ c.at = "op" /\ ~Fin(c.PC) /\ session' = session /\ c.skip_jump = 0
         /\ Block(session, c, c.PC) /\ session.code[addr(c.PC)].op = name
         /\ Pc = addr(c.PC) /\ Flow!Op(name) /\ Present(c, addr(c.PC))
<1>1. c.at = "op" /\ ~Fin(c.PC) /\ session' = session /\ session.code[addr(c.PC)].op = name
  BY DEF Running, I
<1>2. Block(session, c, c.PC) /\ c.skip_jump = 0
  BY <1>1, AtOp DEF Ready, InDelay
<1>3. Pc = addr(c.PC)
  BY <1>1, <1>2, Mapping DEF PcOf
<1>4. Present(c, addr(c.PC))
  <2>1. CASE c.PC.start = 0
    BY <2>1, <1>2 DEF Running, Block, Present, Cached
  <2>2. CASE c.PC.start # 0
    BY <2>2, <1>1, <1>2, Context, InBlock DEF Present
  <2>3. QED
    BY <2>1, <2>2
<1>5. Flow!Op(name)
  BY <1>1, <1>3, <1>4 DEF Flow!Op, Flow!Present, Present, Flow!Page, Page
<1>6. QED
  BY <1>1, <1>2, <1>3, <1>4, <1>5

Ran(t, e, pages) == [t EXCEPT !.PC = Plus(@, 1), !.done = addr(t.PC), !.epc = e, !.tlb = pages]

\* The instruction of t has run, and u follows.
Advanced(t, u) ==
  /\ Whole(u) /\ u.PC = Plus(t.PC, 1) /\ u.done = addr(t.PC)
  /\ u.delay_slot = t.delay_slot /\ u.skip_jump = t.skip_jump /\ u.frames = t.frames
  /\ u.dest = t.dest /\ u.bd = t.bd /\ u.exl = t.exl /\ u.cause = t.cause /\ u.ra = t.ra

LEMMA RanAdvances ==
  ASSUME NEW t, Whole(t), NEW e, NEW pages, NEW x, NEW u, u = At(Ran(t, e, pages), x)
  PROVE  Advanced(t, u) /\ u.epc = e /\ u.tlb = pages /\ u.at = x
<1>1. u = [PC |-> Plus(t.PC, 1), delay_slot |-> t.delay_slot, skip_jump |-> t.skip_jump,
           frames |-> t.frames, at |-> x, dest |-> t.dest, epc |-> e, bd |-> t.bd,
           exl |-> t.exl, cause |-> t.cause, ra |-> t.ra, tlb |-> pages, done |-> addr(t.PC)]
  BY DEF Whole, At, Ran
<1>2. QED
  BY <1>1 DEF Advanced, Whole

LEMMA EndedRan ==
  ASSUME NEW t, Whole(t), NEW e, NEW pages
  PROVE  Ended(Ran(t, e, pages)) = At(Ran(t, e, pages), IF t.frames = <<>> THEN "op" ELSE "back")
<1>1. Ran(t, e, pages).frames = t.frames
  BY DEF Whole, Ran
<1>2. QED
  BY <1>1 DEF Ended

LEMMA RunRan ==
  ASSUME Whole(c)
  PROVE  Run = Ran(c, c.epc, c.tlb)
BY DEF Run, Ran, Whole

LEMMA TypedAdvances ==
  ASSUME NEW f, NEW t, NEW u, Typed(f, t), Advanced(t, u)
  PROVE  Typed(f, u)
<1>1. Plus(t.PC, 1) \in Nodes
  BY NodeFields DEF Typed
<1>2. QED
  BY <1>1 DEF Typed, Advanced

LEMMA ReadyAdvances ==
  ASSUME NEW f, NEW t, NEW u, Ready(f, t), Typed(f, t), Advanced(t, u), u.at \in {"op", "due"},
         u.tlb = t.tlb \/ t.PC.start = 0,
         t.PC.start = 0 /\ f.core = "cached" => addr(t.PC) + 1 \notin MappedWords,
         IF t.exl THEN Handling(f, u, addr(t.PC) + 1) ELSE addr(t.PC) + 1 \in Heads(f)
  PROVE  Ready(f, u) /\ Sees(u, addr(t.PC) + 1, <<>>, t.ra)
<1>1. u.PC = Plus(t.PC, 1) /\ addr(u.PC) = addr(t.PC) + 1 /\ u.PC.start = t.PC.start
  <2>1. t.PC \in Nodes /\ u.PC = Plus(t.PC, 1) /\ 1 \in Nat
    BY DEF Typed, Advanced
  <2>2. QED
    BY <2>1, NodeFields
<1>2. Block(f, t, u.PC)
  BY <1>1, BlockGoesOn DEF Ready
<1>3. Block(f, u, u.PC)
  BY <1>1, <1>2, BlockKept
<1>4. Ready(f, u)
  BY <1>1, <1>3 DEF Ready, Advanced
<1>5. u.ra = t.ra
  BY DEF Advanced
<1>6. QED
  BY <1>1, <1>4, <1>5, ReadySees

LEMMA StackKept ==
  ASSUME NEW f, NEW t, NEW u, NEW br, NEW b, Stack(f, t, br, b),
         u.frames = t.frames, u.tlb = t.tlb
  PROVE  Stack(f, u, br, b)
BY BlockKept DEF Stack

LEMMA CallsKept ==
  ASSUME NEW f, NEW t, NEW u, NEW br, NEW b, Calls(f, t, br, b), u.tlb = t.tlb
  PROVE  Calls(f, u, br, b)
BY BlockKept DEF Calls

LEMMA DelayAdvances ==
  ASSUME NEW f, NEW t, NEW u, NEW br, NEW b, InDelay(f, t, br, b), Typed(f, t), Advanced(t, u),
         u.at = "back", u.tlb = t.tlb, Heads(f) \subseteq Nat,
         t.PC.start = 0 /\ f.core = "cached" => addr(t.PC) + 1 \notin MappedWords
  PROVE  BackFrom(f, u, br, b) /\ Sees(u, AfterBranch(br, b), <<>>, IF br.link THEN b + 2 ELSE t.ra)
<1>1. /\ u.PC = Plus(t.PC, 1) /\ addr(u.PC) = addr(t.PC) + 1 /\ addr(t.PC) = b + 1 /\ b \in Nat
      /\ u.frames = t.frames /\ u.ra = t.ra
  <2>1. /\ t.PC \in Nodes /\ u.PC = Plus(t.PC, 1) /\ 1 \in Nat /\ addr(t.PC) = b + 1
        /\ u.frames = t.frames /\ u.ra = t.ra /\ b \in Heads(f)
    BY DEF Typed, Advanced, InDelay, Calls
  <2>2. addr(u.PC) = addr(t.PC) + 1
    BY <2>1, PlusOne
  <2>3. QED
    BY <2>1, <2>2
<1>2. Block(f, t, u.PC)
  BY <1>1, BlockGoesOn DEF InDelay
<1>3. Block(f, u, u.PC) /\ Stack(f, u, br, b) /\ Calls(f, u, br, b)
  BY <1>1, <1>2, BlockKept, StackKept, CallsKept DEF InDelay
<1>4. BackFrom(f, u, br, b)
  BY <1>1, <1>3 DEF BackFrom, InDelay, Advanced
<1>5. QED
  BY <1>1, <1>4, BackFromSees

-----------------------------------------------------------------------------
(* An exception.                                                           *)

Before(t, a) == IF t.delay_slot THEN a - 1 ELSE a

\* The exception of the instruction at a is noted, and u follows t.
Noted(t, u, why, page, v, a) ==
  /\ Whole(u) /\ u.PC = Node(v) /\ u.cause = <<why, page>> /\ u.exl = TRUE
  /\ u.bd = t.delay_slot /\ u.epc = Before(t, a)
  /\ u.skip_jump = (IF t.delay_slot THEN v ELSE 0) /\ u.dest \in Nat
  /\ u.delay_slot = t.delay_slot /\ u.frames = t.frames /\ u.ra = t.ra
  /\ u.tlb = t.tlb /\ u.done = t.done

LEMMA VectorNode ==
  ASSUME Limits, session \in Sessions, NEW v \in Handlers, NEW t
  PROVE  /\ Node(v) \in Nodes /\ addr(Node(v)) = v /\ Present(t, v) /\ v \in Nat \ {0}
         /\ Block(session, t, Node(v)) /\ ~Fin(Node(v)) /\ Node(v).start = 0
<1>1. ProgramOK(session) /\ MapOK
  BY DEF Limits
<1>2. v \notin MappedWords /\ v \in Nat \ {0}
  BY <1>1 DEF ProgramOK, HandlersOK, Handlers
<1>3. Present(t, v) /\ session.core \in {"cached", "pure"}
  BY <1>1, <1>2 DEF Present, ProgramOK
<1>4. Node(v) \in Nodes /\ addr(Node(v)) = v /\ ~Fin(Node(v)) /\ Block(session, t, Node(v))
  BY <1>1, <1>2, <1>3, NodeBlock
<1>5. Node(v) = [start |-> 0, i |-> v]
  BY <1>2 DEF Node
<1>6. QED
  BY <1>2, <1>3, <1>4, <1>5

LEMMA GeneralNotes ==
  ASSUME NEW t, Whole(t), t.skip_jump = 0, t.delay_slot \in BOOLEAN, t.dest \in Nat,
         addr(Node(GeneralVector)) = GeneralVector, NEW why, NEW x, NEW u,
         u = At(exception_general(t, why), x)
  PROVE  Noted(t, u, why, 0, GeneralVector, addr(t.PC)) /\ u.at = x
<1>1. u = [PC |-> Node(GeneralVector), delay_slot |-> t.delay_slot,
           skip_jump |-> IF t.delay_slot THEN GeneralVector ELSE 0,
           frames |-> t.frames, at |-> x, dest |-> t.dest, epc |-> Before(t, addr(t.PC)),
           bd |-> t.delay_slot, exl |-> TRUE, cause |-> <<why, 0>>, ra |-> t.ra,
           tlb |-> t.tlb, done |-> t.done]
  BY DEF Whole, At, exception_general, Slotted, Before
<1>2. QED
  BY <1>1 DEF Noted, Whole

LEMMA FetchFields ==
  ASSUME NEW t, Whole(t), t.skip_jump = 0, t.delay_slot \in BOOLEAN, ~t.exl,
         addr(Node(RefillVector)) = RefillVector, NEW page, NEW a, NEW u,
         u = TLB_refill_exception(t, "fetch", page, a)
  PROVE  u = [PC |-> Node(RefillVector), delay_slot |-> t.delay_slot,
              skip_jump |-> IF t.delay_slot THEN RefillVector ELSE 0,
              frames |-> t.frames, at |-> t.at, dest |-> t.dest, epc |-> Before(t, a),
              bd |-> t.delay_slot, exl |-> TRUE, cause |-> <<"fetch", page>>, ra |-> t.ra,
              tlb |-> t.tlb, done |-> t.done]
BY DEF Whole, TLB_refill_exception, Slotted, Before

LEMMA FetchNotes ==
  ASSUME NEW t, Whole(t), t.skip_jump = 0, t.delay_slot \in BOOLEAN, t.dest \in Nat, ~t.exl,
         addr(Node(RefillVector)) = RefillVector, NEW page, NEW a, NEW u,
         u = TLB_refill_exception(t, "fetch", page, a)
  PROVE  Noted(t, u, "fetch", page, RefillVector, a) /\ u.at = t.at
<1>1. u = [PC |-> Node(RefillVector), delay_slot |-> t.delay_slot,
           skip_jump |-> IF t.delay_slot THEN RefillVector ELSE 0,
           frames |-> t.frames, at |-> t.at, dest |-> t.dest, epc |-> Before(t, a),
           bd |-> t.delay_slot, exl |-> TRUE, cause |-> <<"fetch", page>>, ra |-> t.ra,
           tlb |-> t.tlb, done |-> t.done]
  BY FetchFields
<1>2. QED
  BY <1>1 DEF Noted, Whole

Advance(t) == [t EXCEPT !.PC = Plus(@, 1), !.done = addr(t.PC)]
Missed(t, page) == [TLB_refill_exception(Advance(t), "load", page, 0) EXCEPT !.done = t.done]

LEMMA LoadNotes ==
  ASSUME NEW t, Whole(t), t.skip_jump = 0, t.delay_slot \in BOOLEAN, t.dest \in Nat, ~t.exl,
         t.PC \in Nodes, addr(Node(RefillVector)) = RefillVector, NEW page, NEW x, NEW u,
         u = At(Missed(t, page), x)
  PROVE  /\ Noted(t, u, "load", page, RefillVector, addr(t.PC)) /\ u.at = x
         /\ Missed(t, page).frames = t.frames
<1> DEFINE r == Advance(t)
           m == Missed(t, page)
<1>a. r = [t EXCEPT !.PC = Plus(@, 1), !.done = addr(t.PC)]
  BY DEF Advance
<1>b. m = [TLB_refill_exception(r, "load", page, 0) EXCEPT !.done = t.done]
  BY DEF Missed
<1>c. u = At(m, x)
  OBVIOUS
<1> HIDE DEF r, m
<1>1. addr(Plus(t.PC, 1)) - 1 = addr(t.PC)
  BY PlusOne
<1>2. r = [PC |-> Plus(t.PC, 1), delay_slot |-> t.delay_slot, skip_jump |-> 0,
           frames |-> t.frames, at |-> t.at, dest |-> t.dest, epc |-> t.epc, bd |-> t.bd,
           exl |-> t.exl, cause |-> t.cause, ra |-> t.ra, tlb |-> t.tlb, done |-> addr(t.PC)]
  BY <1>a DEF Whole
<1>3. m =
          [PC |-> Node(RefillVector), delay_slot |-> t.delay_slot,
           skip_jump |-> IF t.delay_slot THEN RefillVector ELSE 0,
           frames |-> t.frames, at |-> t.at, dest |-> t.dest, epc |-> Before(t, addr(t.PC)),
           bd |-> t.delay_slot, exl |-> TRUE, cause |-> <<"load", page>>, ra |-> t.ra,
           tlb |-> t.tlb, done |-> t.done]
  <2> DEFINE w == TLB_refill_exception(r, "load", page, 0)
             y == [PC |-> Node(RefillVector), delay_slot |-> t.delay_slot, skip_jump |-> 0,
                   frames |-> t.frames, at |-> t.at, dest |-> t.dest, epc |-> addr(t.PC),
                   bd |-> t.bd, exl |-> TRUE, cause |-> <<"load", page>>, ra |-> t.ra,
                   tlb |-> t.tlb, done |-> addr(t.PC)]
  <2>1. r.exl = t.exl /\ addr(r.PC) - 1 = addr(t.PC)
    BY <1>1, <1>2
  <2>2. w = Slotted([r EXCEPT !.cause = <<"load", page>>, !.exl = TRUE,
                              !.epc = addr(t.PC), !.PC = Node(RefillVector)])
    BY <2>1 DEF TLB_refill_exception
  <2> HIDE DEF w
  <2> DEFINE z == [r EXCEPT !.cause = <<"load", page>>, !.exl = TRUE,
                            !.epc = addr(t.PC), !.PC = Node(RefillVector)]
  <2>a. z = [r EXCEPT !.cause = <<"load", page>>, !.exl = TRUE,
                      !.epc = addr(t.PC), !.PC = Node(RefillVector)]
    OBVIOUS
  <2>b. w = Slotted(z)
    BY <2>2
  <2> HIDE DEF z
  <2>c. z = y
    BY <1>2, <2>a
  <2>3. w = Slotted(y)
    BY <2>b, <2>c
  <2>4. w = [PC |-> Node(RefillVector), delay_slot |-> t.delay_slot,
             skip_jump |-> IF t.delay_slot THEN RefillVector ELSE 0,
             frames |-> t.frames, at |-> t.at, dest |-> t.dest, epc |-> Before(t, addr(t.PC)),
             bd |-> t.delay_slot, exl |-> TRUE, cause |-> <<"load", page>>, ra |-> t.ra,
             tlb |-> t.tlb, done |-> addr(t.PC)]
    <3>1. CASE t.delay_slot
      BY <2>3, <3>1 DEF Slotted, Before
    <3>2. CASE ~t.delay_slot
      BY <2>3, <3>2 DEF Slotted, Before
    <3>3. QED
      BY <3>1, <3>2
  <2>5. m = [w EXCEPT !.done = t.done]
    BY <1>b DEF w
  <2>6. QED
    BY <2>4, <2>5
<1>4. m.frames = t.frames
  BY <1>3
<1>5. u = [PC |-> Node(RefillVector), delay_slot |-> t.delay_slot,
           skip_jump |-> IF t.delay_slot THEN RefillVector ELSE 0,
           frames |-> t.frames, at |-> x, dest |-> t.dest, epc |-> Before(t, addr(t.PC)),
           bd |-> t.delay_slot, exl |-> TRUE, cause |-> <<"load", page>>, ra |-> t.ra,
           tlb |-> t.tlb, done |-> t.done]
  BY <1>c, <1>3 DEF At
<1>6. Noted(t, u, "load", page, RefillVector, addr(t.PC)) /\ u.at = x
  BY <1>5 DEF Noted, Whole
<1>7. QED
  BY <1>4, <1>6 DEF m

LEMMA TypedNotes ==
  ASSUME NEW f, NEW t, NEW u, NEW why, NEW page, NEW v, NEW a, Typed(f, t),
         Noted(t, u, why, page, v, a), Node(v) \in Nodes
  PROVE  Typed(f, u)
BY DEF Typed, Noted

\* Where the handler of an exception of the instruction at a, or of the branch
\* at a, goes back to.
HandlesOK(f, why, v, bd, a) ==
  \/ v = RefillVector /\ a \in Heads(f)
  \/ /\ v = GeneralVector
     /\ (IF why \in {"syscall", "cop1"} THEN a + (IF bd THEN 2 ELSE 1) ELSE a) \in Heads(f)

LEMMA NotedHandling ==
  ASSUME NEW f, HandlersOK(f), NEW t, NEW u, NEW why, NEW page, NEW v, NEW a,
         Noted(t, u, why, page, v, a), HandlesOK(f, why, v, t.delay_slot, Before(t, a))
  PROVE  Handling(f, u, v)
<1>1. RefillVector # GeneralVector
  BY DEF HandlersOK
<1>2. CASE v = RefillVector
  BY <1>1, <1>2 DEF HandlesOK, Handling, Noted, Handlers
<1>3. CASE v = GeneralVector
  <2>1. u.cause[1] = why /\ u.bd = t.delay_slot /\ u.epc = Before(t, a)
    BY DEF Noted
  <2>2. QED
    BY <1>1, <1>3, <2>1 DEF HandlesOK, Handling, Resume
<1>4. QED
  BY <1>2, <1>3 DEF HandlesOK

LEMMA ReadyNotes ==
  ASSUME Limits, session \in Sessions, NEW t, NEW u, NEW why, NEW page, NEW v \in Handlers, NEW a,
         t.frames = <<>>, ~t.delay_slot, Noted(t, u, why, page, v, a),
         u.at \in {"op", "due"}, HandlesOK(session, why, v, FALSE, a)
  PROVE  Ready(session, u) /\ Sees(u, v, <<>>, t.ra)
<1>2. HandlersOK(session) /\ Before(t, a) = a
  BY DEF Limits, ProgramOK, Before
<1>3. Node(v) \in Nodes /\ addr(Node(v)) = v /\ Block(session, u, Node(v))
  BY VectorNode
<1>4. Handling(session, u, v)
  BY <1>2, NotedHandling DEF HandlesOK
<1>5. Ready(session, u)
  BY <1>3, <1>4 DEF Ready, Noted
<1>6. QED
  BY <1>3, <1>5, ReadySees DEF Noted

LEMMA DelayNotes ==
  ASSUME Limits, session \in Sessions, NEW t, NEW u, NEW why, NEW page,
         NEW v \in {RefillVector, GeneralVector}, NEW br, NEW b, InDelay(session, t, br, b),
         Noted(t, u, why, page, v, addr(t.PC)), u.at = "back",
         HandlesOK(session, why, v, TRUE, b)
  PROVE  Pending(session, u) /\ Sees(u, v, <<>>, t.ra)
<1>1. HandlersOK(session) /\ Heads(session) \subseteq Nat
  BY DEF Limits, ProgramOK, Heads, Prog
<1>2. b \in Nat /\ addr(t.PC) = b + 1 /\ t.delay_slot /\ Before(t, addr(t.PC)) = b
  BY <1>1 DEF InDelay, Calls, Before
<1>3. HandlesOK(session, why, v, t.delay_slot, b)
  BY <1>2 DEF HandlesOK
<1>4. Handling(session, u, v)
  BY <1>1, <1>2, <1>3, NotedHandling
<1>5. \/ u.frames = <<br>>
      \/ \E fin : FinFrame(fin) /\ u.frames = <<fin, br>>
  BY DEF InDelay, Stack, Noted
<1>6. BranchFrame(session, br)
  BY DEF InDelay, Calls
<1>7. u.skip_jump = v /\ u.exl /\ u.delay_slot
  BY <1>2 DEF Noted
<1>8. Pending(session, u)
  BY <1>4, <1>5, <1>6, <1>7 DEF Pending
<1>9. QED
  BY <1>1, <1>7, <1>8, PendingSees DEF Noted

-----------------------------------------------------------------------------
(* The instructions that a delay slot may hold.                            *)

LEMMA Keeps ==
  ASSUME IInv, session' = session, Typed(session, c'), Needs(session, c'), Going(session, c')
  PROVE  IInv'
BY DEF IInv

LEMMA NeedsKept ==
  ASSUME NEW f, NEW t, NEW u, Needs(f, t), u.tlb = t.tlb
  PROVE  Needs(f, u)
BY DEF Needs

LEMMA HeadFollows ==
  ASSUME Limits, session \in Sessions, NEW a \in Heads(session)
  PROVE  /\ FollowOK(session, a) /\ a \in Nat /\ a \notin Handlers
         /\ session.code[a].op \in Jumps \cup Simple \cup {"mtc0"}
         /\ session.code[a].op \in Jumps =>
              /\ session.code[a + 1].op \in Simple
              /\ session.code[a + 1].op \in {"syscall", "cop1"} => a + 2 \in Heads(session)
BY DEF Limits, ProgramOK, FollowOK, Heads, Prog

\* In a program, and in the handlers.
ReadyHead(name, a) ==
  /\ ~c.exl /\ a \in Heads(session) /\ name \in Jumps \cup Simple \cup {"mtc0"}
  /\ c.PC.start = 0 /\ session.core = "cached" => a + 1 \notin MappedWords
ReadyHandler(name, a) ==
  /\ c.exl /\ c.PC.start = 0
  /\ \/ a = RefillVector /\ name = "tlbw" /\ c.epc \in Heads(session)
     \/ a = GeneralVector /\ name = "epc" /\ Resume(c) \in Heads(session)
     \/ a \in {RefillVector + 1, GeneralVector + 1} /\ name = "eret" /\ c.epc \in Heads(session)

LEMMA ReadyRuns ==
  ASSUME Limits, IInv, NEW name, Running(name), Ready(session, c)
  PROVE  ReadyHead(name, addr(c.PC)) \/ ReadyHandler(name, addr(c.PC))
<1> DEFINE a == addr(c.PC)
<1>1. session \in Sessions /\ c.exl \in BOOLEAN
  BY DEF IInv, Typed
<1>2. session.code[a].op = name /\ ~Fin(c.PC) /\ Block(session, c, c.PC)
  BY RunsHere
<1>3. CASE ~c.exl
  <2>1. a \in Heads(session)
    BY <1>3 DEF Ready
  <2>2. name \in Jumps \cup Simple \cup {"mtc0"} /\ FollowOK(session, a)
    BY <1>1, <1>2, <2>1, HeadFollows
  <2>3. c.PC.start = 0 /\ session.core = "cached" => a + 1 \notin MappedWords
    BY <1>2, <2>2 DEF Block, FollowOK
  <2>4. QED
    BY <1>3, <2>1, <2>2, <2>3 DEF ReadyHead
<1>4. CASE c.exl
  <2>1. Handling(session, c, a)
    BY <1>4 DEF Ready
  <2>2. HandlersOK(session)
    BY Context
  <2>3. a \in Handlers
    BY <2>1 DEF Handling, Handlers
  <2>4. c.PC.start = 0
    BY <1>2, <2>2, <2>3, Context, InBlock DEF HandlersOK
  <2>5. CASE a = GeneralVector
    <3>1. Resume(c) \in Heads(session) /\ name = "epc"
      BY <1>2, <2>1, <2>2, <2>5 DEF Handling, HandlersOK
    <3>2. QED
      BY <1>4, <2>4, <2>5, <3>1 DEF ReadyHandler
  <2>6. CASE a # GeneralVector
    <3>1. c.epc \in Heads(session)
      BY <2>1, <2>6 DEF Handling
    <3>2. \/ a = RefillVector /\ name = "tlbw"
          \/ a \in {RefillVector + 1, GeneralVector + 1} /\ name = "eret"
      BY <1>2, <2>2, <2>3, <2>6 DEF HandlersOK, Handlers
    <3>3. QED
      BY <1>4, <2>4, <3>1, <3>2 DEF ReadyHandler
  <2>7. QED
    BY <2>5, <2>6
<1>5. QED
  BY <1>3, <1>4

LEMMA DelayRuns ==
  ASSUME Limits, IInv, NEW name, Running(name), NEW br, NEW b, InDelay(session, c, br, b)
  PROVE  /\ name \in Simple /\ b \in Heads(session) /\ addr(c.PC) = b + 1
         /\ name \in {"syscall", "cop1"} => b + 2 \in Heads(session)
         /\ c.PC.start = 0 /\ session.core = "cached" => addr(c.PC) + 1 \notin MappedWords
<1>1. b \in Heads(session) /\ session.code[b].op \in Jumps /\ addr(c.PC) = b + 1
  BY DEF InDelay, Calls
<1>2. session \in Sessions
  BY DEF IInv
<1>3. session.code[b + 1].op = name /\ Block(session, c, c.PC)
  BY <1>1, RunsHere
<1>4. /\ name \in Simple /\ FollowOK(session, b) /\ b \in Nat
      /\ name \in {"syscall", "cop1"} => b + 2 \in Heads(session)
  BY <1>1, <1>2, <1>3, HeadFollows
<1>5. c.PC.start = 0 /\ session.core = "cached" => addr(c.PC) + 1 \notin MappedWords
  BY <1>1, <1>3, <1>4 DEF Block, FollowOK
<1>6. QED
  BY <1>1, <1>4, <1>5

LEMMA SimpleFollows ==
  ASSUME Limits, session \in Sessions, NEW a \in Heads(session), session.code[a].op \in Simple \cup {"mtc0"}
  PROVE  a + 1 \in Heads(session)
BY HeadFollows DEF FollowOK, Simple, Jumps

LEMMA Completes ==
  ASSUME Limits, IInv, NEW name \in Simple, Running(name), c' = Ended(Run)
  PROVE  IInv' /\ Flow!Complete /\ SameStatus(c, c') /\ c'.tlb = c.tlb /\ session' = session
<1>1. /\ Typed(session, c) /\ Needs(session, c) /\ Whole(c) /\ session \in Sessions
      /\ Heads(session) \subseteq Nat
  BY Context DEF Typed, IInv
<1>2. /\ session' = session /\ c.at = "op" /\ session.code[addr(c.PC)].op = name
  BY RunsHere
<1>3. c' = At(Ran(c, c.epc, c.tlb), IF c.frames = <<>> THEN "op" ELSE "back")
  BY <1>1, RunRan, EndedRan
<1>4. /\ Advanced(c, c') /\ c'.epc = c.epc /\ c'.tlb = c.tlb
      /\ c'.at = IF c.frames = <<>> THEN "op" ELSE "back"
  BY <1>1, <1>3, RanAdvances
<1>5. Typed(session, c') /\ Needs(session, c')
  BY <1>1, <1>4, TypedAdvances, NeedsKept
<1>6. SameStatus(c, c') /\ c'.done = addr(c.PC)
  BY <1>4 DEF Advanced, SameStatus
<1>7. CASE Ready(session, c)
  <2>1. ReadyHead(name, addr(c.PC))
    BY <1>7, ReadyRuns DEF ReadyHandler, Simple
  <2>2. addr(c.PC) + 1 \in Heads(session)
    BY <1>1, <1>2, <2>1, SimpleFollows DEF ReadyHead
  <2>3. c'.at = "op"
    BY <1>4, <1>7 DEF Ready
  <2>4. Ready(session, c') /\ Sees(c', addr(c.PC) + 1, <<>>, c.ra)
    BY <1>1, <1>4, <1>7, <2>1, <2>2, <2>3, ReadyAdvances DEF ReadyHead
  <2>5. Sees(c, addr(c.PC), <<>>, c.ra)
    BY <1>7, ReadySees
  <2>6. Flow!Complete
    BY <1>6, <2>4, <2>5, FlowCompletes
  <2>7. Going(session, c')
    BY <2>4 DEF Going
  <2>8. IInv'
    BY <1>2, <1>5, <2>7, Keeps
  <2>9. QED
    BY <1>2, <1>4, <1>6, <2>6, <2>8
<1>8. ASSUME NEW br, NEW b, InDelay(session, c, br, b)
      PROVE  IInv' /\ Flow!Complete
  <2>1. /\ addr(c.PC) = b + 1
        /\ c.PC.start = 0 /\ session.core = "cached" => addr(c.PC) + 1 \notin MappedWords
    BY <1>8, DelayRuns
  <2>2. c'.at = "back"
    BY <1>4, <1>8, StackFrames DEF InDelay
  <2>3. BackFrom(session, c', br, b) /\ Sees(c', AfterBranch(br, b), <<>>, IF br.link THEN b + 2 ELSE c.ra)
    BY <1>1, <1>4, <1>8, <2>1, <2>2, DelayAdvances
  <2>4. Sees(c, b + 1, DelaySlot(br, b), c.ra)
    BY <1>8, InDelaySees
  <2>5. /\ DelaySlot(br, b) # <<>> /\ DelaySlot(br, b)[1].to = AfterBranch(br, b)
        /\ DelaySlot(br, b)[1].link = br.link
    BY DEF DelaySlot, AfterBranch
  <2>6. b \in Nat
    BY <1>1, <1>8 DEF InDelay, Calls
  <2>7. b + 1 + 1 = b + 2
    BY <2>6
  <2>8. Sees(c', DelaySlot(br, b)[1].to, <<>>, IF DelaySlot(br, b)[1].link THEN b + 1 + 1 ELSE c.ra)
    BY <2>3, <2>5, <2>7
  <2>9. Flow!Complete
    BY <1>6, <2>1, <2>4, <2>5, <2>8, FlowCompletes
  <2>10. Going(session, c')
    BY <2>3 DEF Going
  <2>11. IInv'
    BY <1>2, <1>5, <2>10, Keeps
  <2>12. QED
    BY <2>9, <2>11
<1>9. Ready(session, c) \/ \E br, b : InDelay(session, c, br, b)
  BY <1>2, AtOp
<1>10. QED
  BY <1>2, <1>4, <1>6, <1>7, <1>8, <1>9

LEMMA Noticed ==
  ASSUME Limits, IInv, NEW name, Running(name), NEW why, NEW page, NEW v,
         Noted(c, c', why, page, v, addr(c.PC)), c'.at = IF c.frames = <<>> THEN "op" ELSE "back",
         \/ name = "load" /\ why = "load" /\ v = RefillVector
         \/ name \in {"syscall", "cop1"} /\ why = name /\ v = GeneralVector
  PROVE  IInv' /\ Flow!Trap(why, page, v) /\ session' = session
<1>1. /\ Typed(session, c) /\ Needs(session, c) /\ session \in Sessions
      /\ Heads(session) \subseteq Nat /\ v \in Handlers
  BY Context DEF IInv, Handlers
<1>2. /\ session' = session /\ c.at = "op" /\ session.code[addr(c.PC)].op = name
  BY RunsHere
<1>3. Node(v) \in Nodes
  BY <1>1, VectorNode
<1>4. Typed(session, c') /\ Needs(session, c')
  BY <1>1, <1>3, TypedNotes, NeedsKept DEF Noted
<1>5. /\ c'.exl /\ c'.exl \in BOOLEAN /\ c'.cause = <<why, page>> /\ c'.bd = c.delay_slot
      /\ c'.epc = Before(c, addr(c.PC)) /\ c'.tlb = c.tlb /\ c'.done = c.done
  BY DEF Noted
<1>6. CASE Ready(session, c)
  <2>1. ReadyHead(name, addr(c.PC)) /\ c.frames = <<>> /\ c.delay_slot = FALSE
    BY <1>1, <1>6, ReadyRuns DEF ReadyHandler, Ready, Typed
  <2>2. addr(c.PC) + 1 \in Heads(session)
    BY <1>1, <1>2, <2>1, SimpleFollows DEF ReadyHead, Simple
  <2>3. HandlesOK(session, why, v, FALSE, addr(c.PC))
    BY <2>1, <2>2 DEF HandlesOK, ReadyHead
  <2>4. Ready(session, c') /\ Sees(c', v, <<>>, c.ra)
    BY <1>1, <2>1, <2>3, ReadyNotes
  <2>5. Sees(c, addr(c.PC), <<>>, c.ra)
    BY <1>6, ReadySees
  <2>6. c'.epc = addr(c.PC) /\ ~c.exl
    BY <1>5, <2>1 DEF Before, ReadyHead
  <2>7. Flow!Trap(why, page, v)
    BY <1>2, <1>5, <2>1, <2>4, <2>5, <2>6, FlowTraps
  <2>8. Going(session, c')
    BY <2>4 DEF Going
  <2>9. IInv'
    BY <1>2, <1>4, <2>8, Keeps
  <2>10. QED
    BY <1>2, <2>7, <2>9
<1>7. ASSUME NEW br, NEW b, InDelay(session, c, br, b)
      PROVE  IInv' /\ Flow!Trap(why, page, v)
  <2>1. /\ addr(c.PC) = b + 1 /\ b \in Heads(session)
        /\ name \in {"syscall", "cop1"} => b + 2 \in Heads(session)
    BY <1>7, DelayRuns
  <2>2. c'.at = "back" /\ c.delay_slot = TRUE /\ ~c.exl
    BY <1>1, <1>7, StackFrames DEF InDelay, Typed
  <2>3. HandlesOK(session, why, v, TRUE, b)
    BY <2>1 DEF HandlesOK
  <2>4. Pending(session, c') /\ Sees(c', v, <<>>, c.ra)
    BY <1>1, <1>7, <2>2, <2>3, DelayNotes
  <2>5. Sees(c, b + 1, DelaySlot(br, b), c.ra) /\ DelaySlot(br, b) # <<>>
    BY <1>7, InDelaySees DEF DelaySlot
  <2> DEFINE sl == DelaySlot(br, b)
  <2>6. Before(c, addr(c.PC)) = addr(c.PC) - 1
    BY <2>2 DEF Before
  <2>7. /\ c'.bd = (sl # <<>>) /\ c'.epc = IF sl # <<>> THEN addr(c.PC) - 1 ELSE addr(c.PC)
        /\ Sees(c, addr(c.PC), sl, c.ra)
    BY <1>5, <2>1, <2>2, <2>5, <2>6
  <2> HIDE DEF sl
  <2>8. Flow!Trap(why, page, v)
    BY <1>2, <1>5, <2>2, <2>4, <2>7, FlowTraps
  <2>9. Going(session, c')
    BY <2>4 DEF Going
  <2>10. IInv'
    BY <1>2, <1>4, <2>9, Keeps
  <2>11. QED
    BY <2>8, <2>10
<1>8. Ready(session, c) \/ \E br, b : InDelay(session, c, br, b)
  BY <1>2, AtOp
<1>9. QED
  BY <1>2, <1>6, <1>7, <1>8

LEMMA FramesKept ==
  ASSUME NEW t, Whole(t), NEW why, NEW page, NEW a
  PROVE  /\ exception_general(t, why).frames = t.frames
         /\ TLB_refill_exception(t, why, page, a).frames = t.frames
<1>1. exception_general(t, why).frames = t.frames
  BY DEF exception_general, Slotted, Whole
<1>2. TLB_refill_exception(t, why, page, a).frames = t.frames
  BY DEF TLB_refill_exception, Slotted, Whole
<1>3. QED
  BY <1>1, <1>2

LEMMA NOP_keeps ==
  ASSUME Limits, IInv, NOP
  PROVE  IInv' /\ FlowStep
<1>1. Running("nop") /\ c' = Ended(Run) /\ "nop" \in Simple
  BY DEF NOP, Simple
<1>2. IInv' /\ Flow!Complete /\ SameStatus(c, c') /\ c'.tlb = c.tlb /\ session' = session
  BY <1>1, Completes
<1>3. Flow!Op("nop")
  BY <1>1, RunsHere
<1>4. Flow!Ordinary
  BY <1>2, <1>3 DEF Flow!Ordinary, SameStatus, Flow!status
<1>5. QED
  BY <1>2, <1>4 DEF FlowStep, Flow!Next

\* What every exception needs of c.
LEMMA MayTrap ==
  ASSUME Limits, IInv, c.at = "op"
  PROVE  /\ Whole(c) /\ c.skip_jump = 0 /\ c.delay_slot \in BOOLEAN /\ c.dest \in Nat
         /\ c.PC \in Nodes /\ session \in Sessions
         /\ addr(Node(GeneralVector)) = GeneralVector /\ addr(Node(RefillVector)) = RefillVector
<1>1. c.skip_jump = 0
  BY AtOp DEF Ready, InDelay
<1>2. session \in Sessions /\ Typed(session, c)
  BY DEF IInv
<1>3. {RefillVector, GeneralVector} \subseteq Handlers
  BY DEF Handlers
<1>4. addr(Node(GeneralVector)) = GeneralVector /\ addr(Node(RefillVector)) = RefillVector
  BY <1>2, <1>3, VectorNode
<1>5. QED
  BY <1>1, <1>2, <1>4 DEF Typed

LEMMA NotHandling ==
  ASSUME Limits, IInv, NEW name \in Simple, Running(name)
  PROVE  ~c.exl
<1>1. CASE Ready(session, c)
  BY <1>1, ReadyRuns DEF ReadyHead, ReadyHandler, Simple
<1>2. CASE \E br, b : InDelay(session, c, br, b)
  BY <1>2 DEF InDelay
<1>3. QED
  BY <1>1, <1>2, RunsHere, AtOp

LEMMA GeneralTraps ==
  ASSUME Limits, IInv, NEW name \in {"syscall", "cop1"}, Running(name),
         c' = Ended(exception_general(c, name))
  PROVE  IInv' /\ Flow!Op(name) /\ Flow!Trap(name, 0, GeneralVector)
<1>1. c.at = "op" /\ Flow!Op(name)
  BY RunsHere
<1>2. Whole(c)
  BY <1>1, MayTrap
<1> DEFINE x == IF c.frames = <<>> THEN "op" ELSE "back"
<1>3. c' = At(exception_general(c, name), x)
  BY <1>2, FramesKept DEF Ended
<1> HIDE DEF x
<1>4. Noted(c, c', name, 0, GeneralVector, addr(c.PC)) /\ c'.at = x
  BY <1>1, <1>3, MayTrap, GeneralNotes
<1>5. c'.at = IF c.frames = <<>> THEN "op" ELSE "back"
  BY <1>4 DEF x
<1>6. IInv' /\ Flow!Trap(name, 0, GeneralVector)
  BY <1>4, <1>5, Noticed
<1>7. QED
  BY <1>1, <1>6

LEMMA SYSCALL_keeps ==
  ASSUME Limits, IInv, SYSCALL
  PROVE  IInv' /\ FlowStep
<1>1. IInv' /\ Flow!Op("syscall") /\ Flow!Trap("syscall", 0, GeneralVector)
  BY GeneralTraps DEF SYSCALL
<1>2. QED
  BY <1>1 DEF FlowStep, Flow!Next, Flow!Traps

LEMMA COP1_keeps ==
  ASSUME Limits, IInv, COP1
  PROVE  IInv' /\ FlowStep
<1>1. Running("cop1") /\ "cop1" \in Simple
  BY DEF COP1, Simple
<1>2. CASE c' = Ended(Run)
  <2>1. IInv' /\ Flow!Complete /\ SameStatus(c, c') /\ c'.tlb = c.tlb /\ session' = session
    BY <1>1, <1>2, Completes
  <2>2. Flow!Op("cop1")
    BY <1>1, RunsHere
  <2>3. Flow!Ordinary
    BY <2>1, <2>2 DEF Flow!Ordinary, SameStatus, Flow!status
  <2>4. QED
    BY <2>1, <2>3 DEF FlowStep, Flow!Next
<1>3. CASE c' = Ended(exception_general(c, "cop1"))
  <2>1. IInv' /\ Flow!Op("cop1") /\ Flow!Trap("cop1", 0, GeneralVector)
    BY <1>1, <1>3, GeneralTraps
  <2>2. QED
    BY <2>1 DEF FlowStep, Flow!Next, Flow!Traps
<1>4. QED
  BY <1>2, <1>3 DEF COP1

LEMMA Load_keeps ==
  ASSUME Limits, IInv, Load
  PROVE  IInv' /\ FlowStep
<1>1. Running("load") /\ "load" \in Simple
  BY DEF Load, Simple
<1>2. c.at = "op" /\ Flow!Op("load") /\ Pc = addr(c.PC)
  BY <1>1, RunsHere
<1>3. CASE I.page \in c.tlb
  <2>1. c' = Ended(Run)
    BY <1>3 DEF Load
  <2>2. IInv' /\ Flow!Complete /\ SameStatus(c, c') /\ c'.tlb = c.tlb /\ session' = session
    BY <1>1, <2>1, Completes
  <2>3. session.code[Pc].page \in c.tlb
    BY <1>2, <1>3 DEF I
  <2>4. Flow!Ordinary
    BY <1>2, <2>2, <2>3 DEF Flow!Ordinary, SameStatus, Flow!status
  <2>5. QED
    BY <2>2, <2>4 DEF FlowStep, Flow!Next
<1>4. CASE I.page \notin c.tlb
  <2> DEFINE x == IF c.frames = <<>> THEN "op" ELSE "back"
             pg == I.page
  <2>1. c' = Ended(Missed(c, pg))
    BY <1>4 DEF Load, Missed, Advance, Run
  <2>2. Whole(c) /\ ~c.exl
    BY <1>1, <1>2, MayTrap, NotHandling
  <2>3. /\ c.skip_jump = 0 /\ c.delay_slot \in BOOLEAN /\ c.dest \in Nat /\ c.PC \in Nodes
        /\ addr(Node(RefillVector)) = RefillVector
    BY <1>2, MayTrap
  <2> HIDE DEF pg
  <2>4. Missed(c, pg).frames = c.frames
    BY <2>2, <2>3, LoadNotes
  <2>5. c' = At(Missed(c, pg), x)
    BY <2>1, <2>4 DEF Ended
  <2> HIDE DEF x
  <2>6. Noted(c, c', "load", pg, RefillVector, addr(c.PC)) /\ c'.at = x
    BY <2>2, <2>3, <2>5, LoadNotes
  <2>7. Noted(c, c', "load", I.page, RefillVector, addr(c.PC))
    BY <2>6 DEF pg
  <2>8. c'.at = IF c.frames = <<>> THEN "op" ELSE "back"
    BY <2>6 DEF x
  <2>9. IInv' /\ Flow!Trap("load", I.page, RefillVector)
    BY <1>1, <2>7, <2>8, Noticed
  <2>10. I.page = session.code[Pc].page
    BY <1>2 DEF I
  <2>11. Flow!Traps
    BY <1>2, <1>4, <2>9, <2>10 DEF Flow!Traps
  <2>12. QED
    BY <2>9, <2>11 DEF FlowStep, Flow!Next
<1>5. QED
  BY <1>3, <1>4

-----------------------------------------------------------------------------
(* The instructions outside delay slots.                                   *)

LEMMA RunForms ==
  ASSUME Whole(c), NEW e, NEW pages
  PROVE  /\ [Run EXCEPT !.epc = e] = Ran(c, e, c.tlb)
         /\ [Run EXCEPT !.tlb = pages] = Ran(c, c.epc, pages)
<1> DEFINE r == Run
<1>1. r = [c EXCEPT !.PC = Plus(@, 1), !.done = addr(c.PC)]
  BY DEF Run
<1> HIDE DEF r
<1>2. r = [PC |-> Plus(c.PC, 1), delay_slot |-> c.delay_slot, skip_jump |-> c.skip_jump,
           frames |-> c.frames, at |-> c.at, dest |-> c.dest, epc |-> c.epc, bd |-> c.bd,
           exl |-> c.exl, cause |-> c.cause, ra |-> c.ra, tlb |-> c.tlb, done |-> addr(c.PC)]
  BY <1>1 DEF Whole
<1>3. ASSUME NEW y, y = [r EXCEPT !.epc = e], NEW z, z = Ran(c, e, c.tlb) PROVE y = z
  <2>1. y = [PC |-> Plus(c.PC, 1), delay_slot |-> c.delay_slot, skip_jump |-> c.skip_jump,
             frames |-> c.frames, at |-> c.at, dest |-> c.dest, epc |-> e, bd |-> c.bd,
             exl |-> c.exl, cause |-> c.cause, ra |-> c.ra, tlb |-> c.tlb, done |-> addr(c.PC)]
    BY <1>2, <1>3
  <2>2. z = [PC |-> Plus(c.PC, 1), delay_slot |-> c.delay_slot, skip_jump |-> c.skip_jump,
             frames |-> c.frames, at |-> c.at, dest |-> c.dest, epc |-> e, bd |-> c.bd,
             exl |-> c.exl, cause |-> c.cause, ra |-> c.ra, tlb |-> c.tlb, done |-> addr(c.PC)]
    BY <1>3 DEF Ran, Whole
  <2>3. QED
    BY <2>1, <2>2
<1>4. ASSUME NEW y, y = [r EXCEPT !.tlb = pages], NEW z, z = Ran(c, c.epc, pages) PROVE y = z
  <2>1. y = [PC |-> Plus(c.PC, 1), delay_slot |-> c.delay_slot, skip_jump |-> c.skip_jump,
             frames |-> c.frames, at |-> c.at, dest |-> c.dest, epc |-> c.epc, bd |-> c.bd,
             exl |-> c.exl, cause |-> c.cause, ra |-> c.ra, tlb |-> pages, done |-> addr(c.PC)]
    BY <1>2, <1>4
  <2>2. z = [PC |-> Plus(c.PC, 1), delay_slot |-> c.delay_slot, skip_jump |-> c.skip_jump,
             frames |-> c.frames, at |-> c.at, dest |-> c.dest, epc |-> c.epc, bd |-> c.bd,
             exl |-> c.exl, cause |-> c.cause, ra |-> c.ra, tlb |-> pages, done |-> addr(c.PC)]
    BY <1>4 DEF Ran, Whole
  <2>3. QED
    BY <2>1, <2>2
<1>5. QED
  BY <1>3, <1>4 DEF r

LEMMA ReadyCompletes ==
  ASSUME Limits, IInv, NEW name, Running(name), Ready(session, c), NEW e, NEW pages,
         NEW x \in {"op", "due"}, c' = At(Ran(c, e, pages), x),
         pages = c.tlb \/ c.PC.start = 0,
         c.PC.start = 0 /\ session.core = "cached" => addr(c.PC) + 1 \notin MappedWords,
         IF c.exl THEN Handling(session, c', addr(c.PC) + 1) ELSE addr(c.PC) + 1 \in Heads(session)
  PROVE  /\ Going(session, c') /\ Typed(session, c') /\ Flow!Complete
         /\ session' = session /\ c'.bd = c.bd /\ c'.exl = c.exl /\ c'.cause = c.cause
         /\ c'.epc = e /\ c'.tlb = pages
<1>1. Typed(session, c) /\ Whole(c)
  BY DEF IInv, Typed
<1>2. Advanced(c, c') /\ c'.epc = e /\ c'.tlb = pages /\ c'.at = x
  BY <1>1, RanAdvances
<1>3. Typed(session, c')
  BY <1>1, <1>2, TypedAdvances
<1>4. Ready(session, c') /\ Sees(c', addr(c.PC) + 1, <<>>, c.ra)
  BY <1>1, <1>2, ReadyAdvances
<1>5. Sees(c, addr(c.PC), <<>>, c.ra)
  BY ReadySees
<1>6. c'.done = addr(c.PC) /\ c'.bd = c.bd /\ c'.exl = c.exl /\ c'.cause = c.cause
  BY <1>2 DEF Advanced
<1>7. Flow!Complete
  BY <1>4, <1>5, <1>6, FlowCompletes
<1>8. session' = session
  BY RunsHere
<1>9. QED
  BY <1>2, <1>3, <1>4, <1>6, <1>7, <1>8 DEF Going

LEMMA OnlyReady ==
  ASSUME Limits, IInv, NEW name, Running(name), name \notin Simple
  PROVE  Ready(session, c)
BY RunsHere, AtOp, DelayRuns

LEMMA MTC0_keeps ==
  ASSUME Limits, IInv, MTC0
  PROVE  IInv' /\ FlowStep
<1>1. Whole(c) /\ Needs(session, c) /\ session \in Sessions
  BY DEF IInv, Typed
<1>2. CASE Running("mtc0") /\ c' = At(Run, "due")
  <2>1. Ready(session, c) /\ session.code[addr(c.PC)].op = "mtc0" /\ Flow!Op("mtc0")
    BY <1>2, OnlyReady, RunsHere DEF Simple
  <2>2. ReadyHead("mtc0", addr(c.PC))
    BY <1>2, <2>1, ReadyRuns DEF ReadyHandler
  <2>3. addr(c.PC) + 1 \in Heads(session)
    BY <1>1, <2>1, <2>2, SimpleFollows DEF ReadyHead
  <2>4. c' = At(Ran(c, c.epc, c.tlb), "due")
    BY <1>1, <1>2, RunRan
  <2>5. /\ Going(session, c') /\ Typed(session, c') /\ Flow!Complete
        /\ session' = session /\ c'.bd = c.bd /\ c'.exl = c.exl /\ c'.cause = c.cause
        /\ c'.epc = c.epc /\ c'.tlb = c.tlb
    BY <1>2, <2>1, <2>2, <2>3, <2>4, ReadyCompletes DEF ReadyHead
  <2>6. IInv'
    BY <1>1, <2>5, Keeps, NeedsKept
  <2>7. Flow!Ordinary
    BY <2>1, <2>5 DEF Flow!Ordinary, Flow!status
  <2>8. QED
    BY <2>6, <2>7 DEF FlowStep, Flow!Next
<1>3. CASE Running("epc") /\ c' = Ended([Run EXCEPT !.epc =
             IF c.cause[1] \in {"syscall", "cop1"} THEN @ + (IF c.bd THEN 2 ELSE 1) ELSE @])
  <2>1. Ready(session, c) /\ Flow!Op("epc")
    BY <1>3, OnlyReady, RunsHere DEF Simple
  <2>2. ReadyHandler("epc", addr(c.PC))
    BY <1>3, <2>1, ReadyRuns DEF ReadyHead, Jumps, Simple
  <2>3. /\ c.exl /\ c.PC.start = 0 /\ addr(c.PC) = GeneralVector /\ Resume(c) \in Heads(session)
    BY <2>2 DEF ReadyHandler
  <2>4. Run.epc = c.epc
    BY <1>1, RunRan DEF Ran, Whole
  <2>5. c' = Ended([Run EXCEPT !.epc = Resume(c)])
    BY <1>3, <2>4 DEF Resume
  <2>6. c' = Ended(Ran(c, Resume(c), c.tlb))
    BY <1>1, <2>5, RunForms
  <2>7. c' = At(Ran(c, Resume(c), c.tlb), "op")
    BY <1>1, <2>1, <2>6, EndedRan DEF Ready
  <2>8. c'.epc = Resume(c)
    BY <1>1, <2>7, RanAdvances
  <2>9. GeneralVector + 1 \in Handlers \ {GeneralVector} /\ GeneralVector + 1 \notin MappedWords
    BY Context DEF Handlers, HandlersOK
  <2>10. Handling(session, c', addr(c.PC) + 1)
    BY <2>3, <2>8, <2>9 DEF Handling
  <2>11. /\ Going(session, c') /\ Typed(session, c') /\ Flow!Complete
         /\ session' = session /\ c'.bd = c.bd /\ c'.exl = c.exl /\ c'.cause = c.cause
         /\ c'.epc = Resume(c) /\ c'.tlb = c.tlb
    BY <1>3, <2>1, <2>3, <2>7, <2>9, <2>10, ReadyCompletes
  <2>12. IInv'
    BY <1>1, <2>11, Keeps, NeedsKept
  <2>13. Flow!SetEpc
    BY <2>1, <2>11 DEF Flow!SetEpc, Flow!Past, Resume
  <2>14. QED
    BY <2>12, <2>13 DEF FlowStep, Flow!Next
<1>4. QED
  BY <1>2, <1>3 DEF MTC0

LEMMA TLBWR_keeps ==
  ASSUME Limits, IInv, TLBWR
  PROVE  IInv' /\ FlowStep
<1>1. Running("tlbw")
  BY DEF TLBWR
<1>2. Whole(c) /\ Needs(session, c) /\ session \in Sessions
  BY DEF IInv, Typed
<1>3. Ready(session, c) /\ Flow!Op("tlbw") /\ Pc = addr(c.PC)
  BY <1>1, OnlyReady, RunsHere DEF Simple
<1>4. ReadyHandler("tlbw", addr(c.PC))
  BY <1>1, <1>3, ReadyRuns DEF ReadyHead, Jumps, Simple
<1>5. c.exl /\ c.PC.start = 0 /\ addr(c.PC) = RefillVector /\ c.epc \in Heads(session)
  BY <1>4 DEF ReadyHandler
<1>6. PICK evicted \in {{}} \cup {{p} : p \in I.evict} :
        c' = Ended([Run EXCEPT !.tlb = (@ \ evicted) \cup {c.cause[2]}])
  BY DEF TLBWR
<1> DEFINE pages == (c.tlb \ evicted) \cup {c.cause[2]}
<1>7. Run.tlb = c.tlb
  BY <1>2, RunRan DEF Ran, Whole
<1>8. c' = Ended([Run EXCEPT !.tlb = pages])
  BY <1>6, <1>7
<1>9. I = session.code[RefillVector] /\ I = session.code[Pc]
  BY <1>3, <1>5 DEF I
<1>10. evicted \subseteq session.code[RefillVector].evict
  BY <1>6, <1>9
<1>11. \E x \in {{}} \cup {{p} : p \in session.code[Pc].evict} : pages = (c.tlb \ x) \cup {c.cause[2]}
  BY <1>6, <1>9
<1>12. \A a \in Heads(session) :
         session.code[a].op \in Jumps /\ a + 1 \in MappedWords /\ Page(a + 1) # Page(a)
           => Page(a + 1) \in pages
  <2>1. SlotsOK(session)
    BY Context DEF ProgramOK
  <2>2. QED
    BY <1>2, <1>10, <2>1 DEF Needs, SlotsOK
<1> HIDE DEF pages
<1>13. c' = At(Ran(c, c.epc, pages), "op")
  BY <1>2, <1>3, <1>8, RunForms, EndedRan DEF Ready
<1>14. c'.epc = c.epc
  BY <1>2, <1>13, RanAdvances
<1>15. /\ RefillVector + 1 \in Handlers \ {GeneralVector} /\ RefillVector + 1 \notin MappedWords
  BY Context DEF Handlers, HandlersOK
<1>16. Handling(session, c', addr(c.PC) + 1)
  BY <1>5, <1>14, <1>15 DEF Handling
<1>17. /\ Going(session, c') /\ Typed(session, c') /\ Flow!Complete
       /\ session' = session /\ c'.bd = c.bd /\ c'.exl = c.exl /\ c'.cause = c.cause
       /\ c'.epc = c.epc /\ c'.tlb = pages
  BY <1>1, <1>3, <1>5, <1>13, <1>15, <1>16, ReadyCompletes
<1>18. Needs(session, c')
  BY <1>12, <1>17 DEF Needs
<1>19. IInv'
  BY <1>17, <1>18, Keeps
<1>20. Flow!Tlbw
  BY <1>3, <1>11, <1>17 DEF Flow!Tlbw, Flow!Refilled, Flow!status
<1>21. QED
  BY <1>19, <1>20 DEF FlowStep, Flow!Next

LEMMA ERET_keeps ==
  ASSUME Limits, IInv, ERET
  PROVE  IInv' /\ FlowStep
<1>1. Running("eret") /\ c' = [At(Run, "jump") EXCEPT !.exl = FALSE, !.dest = c.epc]
  BY DEF ERET
<1>2. Whole(c) /\ Needs(session, c) /\ session \in Sessions /\ Typed(session, c) /\ Heads(session) \subseteq Nat
  BY Context DEF IInv, Typed
<1>3. Ready(session, c) /\ Flow!Op("eret") /\ Pc = addr(c.PC) /\ session' = session
  BY <1>1, OnlyReady, RunsHere DEF Simple
<1>4. ReadyHandler("eret", addr(c.PC))
  BY <1>1, <1>3, ReadyRuns DEF ReadyHead, Jumps, Simple
<1>5. c.epc \in Heads(session)
  BY <1>4 DEF ReadyHandler
<1> DEFINE u == At(Ran(c, c.epc, c.tlb), "jump")
<1>6. c' = [u EXCEPT !.exl = FALSE, !.dest = c.epc]
  BY <1>1, <1>2, RunRan
<1>7. Advanced(c, u) /\ u.epc = c.epc /\ u.tlb = c.tlb /\ u.at = "jump"
  BY <1>2, RanAdvances
<1> HIDE DEF u
<1>8. c' = [PC |-> Plus(c.PC, 1), delay_slot |-> c.delay_slot, skip_jump |-> c.skip_jump,
            frames |-> c.frames, at |-> "jump", dest |-> c.epc, epc |-> c.epc, bd |-> c.bd,
            exl |-> FALSE, cause |-> c.cause, ra |-> c.ra, tlb |-> c.tlb, done |-> addr(c.PC)]
  BY <1>6, <1>7 DEF Advanced, Whole
<1>9. Plus(c.PC, 1) \in Nodes
  BY <1>2, NodeFields DEF Typed
<1>10. Typed(session, c')
  BY <1>2, <1>5, <1>8, <1>9 DEF Typed, Whole
<1>11. c'.tlb = c.tlb /\ c'.dest = c.epc /\ c'.ra = c.ra
  BY <1>8
<1>12. Leaving(session, c')
  BY <1>3, <1>5, <1>8 DEF Leaving, Ready
<1>13. IInv'
  BY <1>2, <1>3, <1>10, <1>11, <1>12, Keeps, NeedsKept DEF Going
<1>14. Pc' = c.epc /\ Slot' = <<>> /\ Ra' = c.ra
  BY <1>11, <1>12, LeavingSees, MappedNext
<1>15. Slot = <<>> /\ Ra = c.ra
  BY <1>3, ReadySees, MappedState
<1>16. Flow!Eret
  BY <1>3, <1>8, <1>14, <1>15 DEF Flow!Eret
<1>17. QED
  BY <1>13, <1>16 DEF FlowStep, Flow!Next

-----------------------------------------------------------------------------
(* Branches.                                                               *)

FrameOf(to, taken, link) ==
  [op |-> "branch", to |-> to, taken |-> taken, link |-> link, out |-> Out, start |-> c.PC.start]

LEMMA CalledFields ==
  ASSUME Whole(c), c.frames = <<>>, NEW to, NEW taken, NEW link, Called(to, taken, link)
  PROVE  c' = [PC |-> Plus(c.PC, 1), delay_slot |-> TRUE, skip_jump |-> c.skip_jump,
               frames |-> <<FrameOf(to, taken, link)>>, at |-> c.at, dest |-> c.dest,
               epc |-> c.epc, bd |-> c.bd, exl |-> c.exl, cause |-> c.cause, ra |-> c.ra,
               tlb |-> c.tlb, done |-> addr(c.PC)]
<1> DEFINE r == Run
           br == FrameOf(to, taken, link)
<1>1. r = [c EXCEPT !.PC = Plus(@, 1), !.done = addr(c.PC)]
  BY DEF Run
<1>2. c' = [r EXCEPT !.delay_slot = TRUE, !.frames = <<br>> \o @]
  BY DEF Called, FrameOf
<1> HIDE DEF r, br
<1>3. r = [PC |-> Plus(c.PC, 1), delay_slot |-> c.delay_slot, skip_jump |-> c.skip_jump,
           frames |-> c.frames, at |-> c.at, dest |-> c.dest, epc |-> c.epc, bd |-> c.bd,
           exl |-> c.exl, cause |-> c.cause, ra |-> c.ra, tlb |-> c.tlb, done |-> addr(c.PC)]
  BY <1>1 DEF Whole
<1>4. <<br>> \o c.frames = <<br>>
  BY Tuples
<1>5. r.frames = c.frames
  BY <1>3
<1>6. c' = [r EXCEPT !.delay_slot = TRUE, !.frames = <<br>>]
  BY <1>2, <1>4, <1>5
<1>7. c' = [PC |-> Plus(c.PC, 1), delay_slot |-> TRUE, skip_jump |-> c.skip_jump,
            frames |-> <<br>>, at |-> c.at, dest |-> c.dest, epc |-> c.epc, bd |-> c.bd,
            exl |-> c.exl, cause |-> c.cause, ra |-> c.ra, tlb |-> c.tlb, done |-> addr(c.PC)]
  BY <1>3, <1>6
<1>8. QED
  BY <1>7 DEF br

LEMMA Branches ==
  ASSUME Limits, IInv, NEW name \in Jumps, Running(name), NEW to \in Nat, NEW taken \in BOOLEAN,
         NEW link \in BOOLEAN, Called(to, taken, link), taken => to \in Heads(session),
         link => taken, ~taken \/ link => addr(c.PC) + 2 \in Heads(session),
         name \in {"beq", "beql"} => to = I.to
  PROVE  IInv' /\ Flow!Branch(IF taken THEN to ELSE Pc + 2, link) /\ session' = session
<1> DEFINE a == addr(c.PC)
           br == FrameOf(to, taken, link)
<1>1. /\ Typed(session, c) /\ Needs(session, c) /\ Whole(c) /\ session \in Sessions
      /\ Heads(session) \subseteq Nat /\ MapOK /\ c.PC \in Nodes
  BY Context DEF IInv, Typed
<1>2. Ready(session, c) /\ session' = session /\ ~Fin(c.PC) /\ session.code[a].op = name /\ Pc = a
      /\ c.at = "op" /\ Block(session, c, c.PC)
  BY OnlyReady, RunsHere DEF Simple, Jumps
<1>3. ReadyHead(name, a)
  BY <1>2, ReadyRuns DEF ReadyHandler, Jumps
<1>4. /\ a \in Heads(session) /\ a \in Nat /\ ~c.exl /\ c.frames = <<>> /\ c.skip_jump = 0
      /\ c.PC.start = 0 /\ session.core = "cached" => a + 1 \notin MappedWords
  BY <1>1, <1>2, <1>3 DEF ReadyHead, Ready
<1>5. c' = [PC |-> Plus(c.PC, 1), delay_slot |-> TRUE, skip_jump |-> c.skip_jump,
            frames |-> <<br>>, at |-> c.at, dest |-> c.dest, epc |-> c.epc, bd |-> c.bd,
            exl |-> c.exl, cause |-> c.cause, ra |-> c.ra, tlb |-> c.tlb, done |-> a]
  BY <1>1, <1>4, CalledFields
<1>6. /\ br = [op |-> "branch", to |-> to, taken |-> taken, link |-> link, out |-> Out,
               start |-> c.PC.start]
      /\ Out \in BOOLEAN
  BY DEF FrameOf, Out
<1> HIDE DEF br
<1>7. /\ c.PC.start \in Nat /\ addr(Plus(c.PC, 1)) = a + 1 /\ Plus(c.PC, 1) \in Nodes
  BY <1>1, NodeFields
<1>8. c.PC.start # 0 =>
        /\ session.core = "cached" /\ c.PC.start = Base(Page(a)) /\ Base(Page(a)) \in Nat
  BY <1>1, <1>2, <1>4, InBlock, Pages
<1>9. BranchFrame(session, br)
  <2>1. session.core = "cached" \/ c.PC.start = 0
    BY <1>8
  <2>2. QED
    BY <1>6, <1>7, <2>1 DEF BranchFrame
<1>10. ASSUME ~br.out, br.start # 0
       PROVE  br.to >= br.start /\ Block(session, c', [start |-> br.start, i |-> br.to - br.start])
  <2>1. br.start = c.PC.start /\ br.to = to /\ Page(to) = Page(a)
    <3>1. ~Out /\ br.start = c.PC.start /\ br.to = to
      BY <1>6, <1>10
    <3>2. I.op \notin {"j", "jal", "jr", "jalr"} /\ Page(I.to) = Page(a)
      BY <3>1 DEF Out
    <3>3. name \in {"beq", "beql"}
      BY <1>2, <3>2 DEF I, Jumps
    <3>4. QED
      BY <3>1, <3>2, <3>3
  <2>2. c.PC.start = Base(Page(to)) /\ Base(Page(to)) \in Nat /\ Base(Page(to)) <= to
    BY <1>1, <1>8, <1>10, <2>1, Pages
  <2> DEFINE n == [start |-> c.PC.start, i |-> to - c.PC.start]
  <2>3. n \in Nodes /\ n.start = c.PC.start
    BY <1>7, <2>2 DEF Nodes
  <2> HIDE DEF n
  <2>4. Block(session, c, n)
    BY <1>2, <1>10, <2>1, <2>3 DEF Block
  <2>5. c'.tlb = c.tlb
    BY <1>5
  <2>6. Block(session, c', n)
    BY <2>4, <2>5, BlockKept
  <2>7. to >= c.PC.start
    BY <1>7, <2>2
  <2>8. QED
    BY <2>1, <2>6, <2>7 DEF n
<1>11. Calls(session, c', br, a)
  <2>1. br.to = to /\ br.taken = taken /\ br.link = link
    BY <1>6
  <2>2. QED
    BY <1>2, <1>4, <1>9, <1>10, <2>1 DEF Calls
<1>12. c'.tlb = c.tlb /\ c'.PC = Plus(c.PC, 1) /\ c'.frames = <<br>>
  BY <1>5
<1>13. Block(session, c', c'.PC)
  <2>1. Block(session, c, Plus(c.PC, 1))
    BY <1>2, <1>4, BlockGoesOn
  <2>2. QED
    BY <1>12, <2>1, BlockKept
<1>14. Present(c', a)
  BY <1>12, RunsHere DEF Present
<1>15. InDelay(session, c', br, a)
  <2>1. c'.at = "op" /\ c'.delay_slot /\ c'.skip_jump = 0 /\ ~c'.exl /\ c'.done = a
    BY <1>2, <1>4, <1>5
  <2>2. Stack(session, c', br, a)
    BY <1>12 DEF Stack
  <2>3. addr(c'.PC) = a + 1
    BY <1>7, <1>12
  <2>4. QED
    BY <1>11, <1>12, <1>13, <1>14, <2>1, <2>2, <2>3 DEF InDelay
<1>16. Typed(session, c')
  BY <1>1, <1>5, <1>7 DEF Typed, Whole
<1>17. IInv'
  BY <1>1, <1>2, <1>12, <1>15, <1>16, Keeps, NeedsKept DEF Going
<1>18. Pc' = a + 1 /\ Slot' = DelaySlot(br, a) /\ Ra' = c.ra
  <2>1. Sees(c', a + 1, DelaySlot(br, a), c'.ra) /\ c'.ra = c.ra
    BY <1>5, <1>15, InDelaySees
  <2>2. QED
    BY <2>1, MappedNext
<1>19. Slot = <<>> /\ Ra = c.ra
  BY <1>2, ReadySees, MappedState
<1>20. DelaySlot(br, a) = <<[to |-> IF taken THEN to ELSE Pc + 2, link |-> link]>>
  BY <1>2, <1>6 DEF DelaySlot
<1>21. c'.epc = c.epc /\ c'.bd = c.bd /\ c'.exl = c.exl /\ c'.cause = c.cause /\ c'.done = a
  BY <1>5
<1>22. Flow!Branch(IF taken THEN to ELSE Pc + 2, link)
  BY <1>2, <1>12, <1>18, <1>19, <1>20, <1>21 DEF Flow!Branch, Flow!status
<1>23. QED
  BY <1>2, <1>17, <1>22

\* What ProgramOK says of a branch.
LEMMA JumpHere ==
  ASSUME Limits, IInv, NEW name \in Jumps, Running(name)
  PROVE  /\ name \in {"j", "jal", "beq", "beql"} => I.to \in Heads(session)
         /\ name \notin {"j", "jr"} => addr(c.PC) + 2 \in Heads(session)
         /\ c.ra \in Heads(session) /\ Heads(session) \subseteq Nat
         /\ I = session.code[Pc] /\ I.op = name /\ Flow!Op(name) /\ Ra = c.ra
         /\ Ready(session, c) /\ ReadyHead(name, addr(c.PC)) /\ Pc = addr(c.PC)
<1>1. Ready(session, c) /\ session.code[addr(c.PC)].op = name /\ Pc = addr(c.PC) /\ Flow!Op(name)
  BY OnlyReady, RunsHere DEF Simple, Jumps
<1>2. ReadyHead(name, addr(c.PC))
  BY <1>1, ReadyRuns DEF ReadyHandler, Jumps
<1>3. FollowOK(session, addr(c.PC))
  BY <1>2, HeadFollows DEF ReadyHead, IInv
<1>4. c.ra \in Heads(session) /\ Heads(session) \subseteq Nat
  BY Context DEF Typed
<1>5. Ra = c.ra
  BY <1>1, ReadySees, MappedState
<1>6. QED
  BY <1>1, <1>2, <1>3, <1>4, <1>5 DEF FollowOK, I

LEMMA J_keeps ==
  ASSUME Limits, IInv, J
  PROVE  IInv' /\ FlowStep
<1>1. Running("j") /\ Called(I.to, TRUE, FALSE) /\ "j" \in Jumps
  BY DEF J, Jumps
<1>2. I.to \in Heads(session) /\ I.to \in Nat /\ I = session.code[Pc] /\ I.op = "j" /\ Flow!Op("j")
  BY <1>1, JumpHere
<1>3. IInv' /\ Flow!Branch(I.to, FALSE)
  BY <1>1, <1>2, Branches
<1>4. Flow!Branches
  BY <1>2, <1>3 DEF Flow!Branches, Flow!Target
<1>5. QED
  BY <1>3, <1>4 DEF FlowStep, Flow!Next

LEMMA JAL_keeps ==
  ASSUME Limits, IInv, JAL
  PROVE  IInv' /\ FlowStep
<1>1. Running("jal") /\ Called(I.to, TRUE, TRUE) /\ "jal" \in Jumps
  BY DEF JAL, Jumps
<1>2. /\ I.to \in Heads(session) /\ I.to \in Nat /\ I = session.code[Pc] /\ I.op = "jal"
      /\ Flow!Op("jal") /\ addr(c.PC) + 2 \in Heads(session)
  BY <1>1, JumpHere
<1>3. IInv' /\ Flow!Branch(I.to, TRUE)
  BY <1>1, <1>2, Branches
<1>4. Flow!Branches
  BY <1>2, <1>3 DEF Flow!Branches, Flow!Target
<1>5. QED
  BY <1>3, <1>4 DEF FlowStep, Flow!Next

LEMMA JALR_keeps ==
  ASSUME Limits, IInv, JALR
  PROVE  IInv' /\ FlowStep
<1>1. Running("jalr") /\ Called(c.ra, TRUE, TRUE) /\ "jalr" \in Jumps
  BY DEF JALR, Jumps
<1>2. /\ c.ra \in Heads(session) /\ c.ra \in Nat /\ I = session.code[Pc] /\ I.op = "jalr"
      /\ Flow!Op("jalr") /\ addr(c.PC) + 2 \in Heads(session) /\ Ra = c.ra
  BY <1>1, JumpHere
<1>3. IInv' /\ Flow!Branch(c.ra, TRUE)
  BY <1>1, <1>2, Branches
<1>4. Flow!Branches
  BY <1>2, <1>3 DEF Flow!Branches, Flow!Target
<1>5. QED
  BY <1>3, <1>4 DEF FlowStep, Flow!Next

LEMMA JR_keeps ==
  ASSUME Limits, IInv, JR
  PROVE  IInv' /\ FlowStep
<1>1. Running("jr") /\ Called(c.ra, TRUE, FALSE) /\ "jr" \in Jumps
  BY DEF JR, Jumps
<1>2. /\ c.ra \in Heads(session) /\ c.ra \in Nat /\ I = session.code[Pc] /\ I.op = "jr"
      /\ Flow!Op("jr") /\ Ra = c.ra
  BY <1>1, JumpHere
<1>3. IInv' /\ Flow!Branch(c.ra, FALSE)
  BY <1>1, <1>2, Branches
<1>4. Flow!Branches
  BY <1>2, <1>3 DEF Flow!Branches, Flow!Target
<1>5. QED
  BY <1>3, <1>4 DEF FlowStep, Flow!Next

LEMMA BEQ_keeps ==
  ASSUME Limits, IInv, BEQ
  PROVE  IInv' /\ FlowStep
<1>1. PICK taken \in BOOLEAN : Running("beq") /\ Called(I.to, taken, FALSE)
  BY DEF BEQ
<1>2. /\ I.to \in Heads(session) /\ I.to \in Nat /\ I = session.code[Pc] /\ I.op = "beq"
      /\ Flow!Op("beq") /\ addr(c.PC) + 2 \in Heads(session)
  BY <1>1, JumpHere DEF Jumps
<1>3. IInv' /\ Flow!Branch(IF taken THEN I.to ELSE Pc + 2, FALSE)
  BY <1>1, <1>2, Branches DEF Jumps
<1>4. (IF taken THEN I.to ELSE Pc + 2) \in {Flow!Target, Pc + 2}
  BY <1>2 DEF Flow!Target
<1>5. Flow!Branches
  BY <1>2, <1>3, <1>4 DEF Flow!Branches
<1>6. QED
  BY <1>3, <1>5 DEF FlowStep, Flow!Next

LEMMA BEQL_keeps ==
  ASSUME Limits, IInv, BEQL
  PROVE  IInv' /\ FlowStep
<1>1. Running("beql") /\ "beql" \in Jumps
  BY DEF BEQL, Jumps
<1>2. /\ I.to \in Heads(session) /\ I.to \in Nat /\ I = session.code[Pc] /\ I.op = "beql"
      /\ Flow!Op("beql") /\ addr(c.PC) + 2 \in Heads(session)
      /\ Ready(session, c) /\ ReadyHead("beql", addr(c.PC)) /\ Pc = addr(c.PC)
  BY <1>1, JumpHere
<1>3. CASE Called(I.to, TRUE, FALSE)
  <2>1. IInv' /\ Flow!Branch(I.to, FALSE)
    BY <1>1, <1>2, <1>3, Branches
  <2>2. Flow!Branches
    BY <1>2, <2>1 DEF Flow!Branches, Flow!Target
  <2>3. QED
    BY <2>1, <2>2 DEF FlowStep, Flow!Next
<1>4. CASE c' = At([Run EXCEPT !.PC = Plus(c.PC, 2)], "due")
  <2>1. /\ Whole(c) /\ Typed(session, c) /\ Needs(session, c) /\ session' = session
        /\ c.PC \in Nodes /\ session \in Sessions
    BY <1>1, Context, RunsHere DEF Typed, IInv
  <2> DEFINE r == Run
  <2>2. r = [c EXCEPT !.PC = Plus(@, 1), !.done = addr(c.PC)]
    BY DEF Run
  <2>3. c' = At([r EXCEPT !.PC = Plus(c.PC, 2)], "due")
    BY <1>4
  <2> HIDE DEF r
  <2>4. r = [PC |-> Plus(c.PC, 1), delay_slot |-> c.delay_slot, skip_jump |-> c.skip_jump,
             frames |-> c.frames, at |-> c.at, dest |-> c.dest, epc |-> c.epc, bd |-> c.bd,
             exl |-> c.exl, cause |-> c.cause, ra |-> c.ra, tlb |-> c.tlb, done |-> addr(c.PC)]
    BY <2>1, <2>2 DEF Whole
  <2>5. c' = [PC |-> Plus(c.PC, 2), delay_slot |-> c.delay_slot, skip_jump |-> c.skip_jump,
              frames |-> c.frames, at |-> "due", dest |-> c.dest, epc |-> c.epc, bd |-> c.bd,
              exl |-> c.exl, cause |-> c.cause, ra |-> c.ra, tlb |-> c.tlb, done |-> addr(c.PC)]
    BY <2>3, <2>4 DEF At
  <2>6. Plus(c.PC, 2) \in Nodes /\ addr(Plus(c.PC, 2)) = addr(c.PC) + 2
    BY <2>1, NodeFields
  <2>7. FollowOK(session, addr(c.PC))
    BY <1>2, <2>1, HeadFollows DEF ReadyHead
  <2>8. c.PC.start = 0 /\ session.core = "cached" => addr(c.PC) + 2 \notin MappedWords
    <3>1. addr(c.PC) \in Nat
      BY <2>1, PlusOne
    <3>2. addr(c.PC) + 1 \notin MappedWords => addr(c.PC) + 1 + 1 \notin MappedWords
      BY <2>7 DEF FollowOK
    <3>3. addr(c.PC) + 1 + 1 = addr(c.PC) + 2
      BY <3>1
    <3>4. QED
      BY <1>2, <3>2, <3>3 DEF ReadyHead
  <2>9. Block(session, c, Plus(c.PC, 2))
    BY <1>2, <2>8, BlockGoesOn DEF Ready
  <2>10. c'.PC = Plus(c.PC, 2) /\ c'.tlb = c.tlb /\ c'.ra = c.ra
    BY <2>5
  <2>11. Block(session, c', c'.PC)
    BY <2>9, <2>10, BlockKept
  <2>12. ~c'.exl /\ addr(c'.PC) = addr(c.PC) + 2
    BY <1>2, <2>5, <2>6 DEF ReadyHead
  <2>13. Ready(session, c')
    BY <1>2, <2>5, <2>11, <2>12 DEF Ready
  <2>14. Typed(session, c')
    BY <2>1, <2>5, <2>6 DEF Typed, Whole
  <2>15. IInv'
    BY <2>1, <2>10, <2>13, <2>14, Keeps, NeedsKept DEF Going
  <2>16. Pc' = addr(c.PC) + 2 /\ Slot' = <<>> /\ Ra' = c.ra
    BY <2>10, <2>12, <2>13, ReadySees, MappedNext
  <2>17. Slot = <<>> /\ Ra = c.ra
    BY <1>2, ReadySees, MappedState
  <2>18. Flow!Nullify
    BY <1>2, <2>1, <2>5, <2>16, <2>17 DEF Flow!Nullify, Flow!status
  <2>19. QED
    BY <2>15, <2>18 DEF FlowStep, Flow!Next
<1>5. QED
  BY <1>3, <1>4 DEF BEQL

-----------------------------------------------------------------------------
(* Fetches and the ends of blocks.                                         *)

LEMMA ReadyMissing ==
  ASSUME Limits, IInv, Ready(session, c), ~Present(c, addr(c.PC))
  PROVE  ~c.exl /\ addr(c.PC) \in Heads(session)
<1>1. addr(c.PC) \notin Handlers
  BY VectorNode DEF IInv
<1>2. ~c.exl
  BY <1>1 DEF Ready, Handling, Handlers
<1>3. QED
  BY <1>2 DEF Ready

\* The word of a delay slot is there.
LEMMA SlotPresent ==
  ASSUME Limits, IInv, NEW br, NEW b, InDelay(session, c, br, b)
  PROVE  Present(c, b + 1) /\ addr(c.PC) = b + 1 /\ b \in Heads(session) /\ b \in Nat
<1>1. /\ b \in Heads(session) /\ session.code[b].op \in Jumps /\ Present(c, b) /\ addr(c.PC) = b + 1
      /\ Needs(session, c) /\ MapOK /\ b \in Nat
  BY Context DEF InDelay, Calls
<1>2. CASE Page(b + 1) = Page(b)
  BY <1>1, <1>2 DEF Present, MapOK
<1>3. CASE Page(b + 1) # Page(b)
  BY <1>1, <1>3 DEF Present, Needs
<1>4. QED
  BY <1>1, <1>2, <1>3

LEMMA ReadyFetches ==
  ASSUME Limits, IInv, Ready(session, c), ~Present(c, addr(c.PC)), session' = session,
         Noted(c, c', "fetch", Page(addr(c.PC)), RefillVector, addr(c.PC)), c'.at = c.at
  PROVE  IInv' /\ FlowStep
<1> DEFINE a == addr(c.PC)
           page == Page(a)
<1>1. /\ Typed(session, c) /\ Needs(session, c) /\ session \in Sessions /\ RefillVector \in Handlers
  BY DEF IInv, Handlers
<1>2. ~c.exl /\ a \in Heads(session)
  BY ReadyMissing
<1>3. c.frames = <<>> /\ c.delay_slot = FALSE /\ c'.at \in {"op", "due"}
  BY <1>1 DEF Ready, Typed
<1>4. HandlesOK(session, "fetch", RefillVector, FALSE, a)
  BY <1>2 DEF HandlesOK
<1>5. Ready(session, c') /\ Sees(c', RefillVector, <<>>, c.ra)
  BY <1>1, <1>3, <1>4, ReadyNotes
<1>6. Node(RefillVector) \in Nodes
  BY <1>1, VectorNode
<1>7. Typed(session, c') /\ Needs(session, c')
  BY <1>1, <1>6, TypedNotes, NeedsKept DEF Noted
<1>8. /\ c'.exl /\ c'.exl \in BOOLEAN /\ c'.cause = <<"fetch", page>> /\ c'.bd = FALSE
      /\ c'.epc = a /\ c'.tlb = c.tlb /\ c'.done = c.done
  BY <1>3 DEF Noted, Before
<1>9. Sees(c, a, <<>>, c.ra)
  BY ReadySees
<1> HIDE DEF a, page
<1>10. Flow!Trap("fetch", page, RefillVector)
  BY <1>2, <1>5, <1>8, <1>9, FlowTraps
<1>11. Pc = a
  BY <1>9, MappedState
<1>12. ~Flow!Present(Pc) /\ page = Flow!Page(Pc)
  BY <1>11 DEF Flow!Present, Present, Flow!Page, Page, page, a
<1>13. Flow!Traps
  BY <1>10, <1>12 DEF Flow!Traps
<1>14. IInv'
  BY <1>5, <1>7, Keeps DEF Going
<1>15. QED
  BY <1>13, <1>14 DEF FlowStep, Flow!Next

LEMMA Fetch_keeps ==
  ASSUME Limits, IInv, Fetch
  PROVE  IInv' /\ FlowStep
<1>1. /\ c.at = "op" /\ ~Present(c, addr(c.PC)) /\ session' = session
      /\ c' = TLB_refill_exception(c, "fetch", Page(addr(c.PC)), addr(c.PC))
  BY DEF Fetch
<1>2. Ready(session, c)
  BY <1>1, AtOp, SlotPresent
<1>3. ~c.exl
  BY <1>1, <1>2, ReadyMissing
<1>4. /\ Whole(c) /\ c.skip_jump = 0 /\ c.delay_slot \in BOOLEAN /\ c.dest \in Nat
      /\ addr(Node(RefillVector)) = RefillVector
  BY <1>1, MayTrap
<1>5. /\ Noted(c, c', "fetch", Page(addr(c.PC)), RefillVector, addr(c.PC)) /\ c'.at = c.at
  BY <1>1, <1>3, <1>4, FetchNotes
<1>6. QED
  BY <1>1, <1>2, <1>5, ReadyFetches

\* A state that is as c but for where the instruction is found.
MovedTo(t, u, n) ==
  u = [PC |-> n, delay_slot |-> t.delay_slot, skip_jump |-> t.skip_jump, frames |-> t.frames,
       at |-> t.at, dest |-> t.dest, epc |-> t.epc, bd |-> t.bd, exl |-> t.exl,
       cause |-> t.cause, ra |-> t.ra, tlb |-> t.tlb, done |-> t.done]

LEMMA FIN_BLOCK_keeps ==
  ASSUME Limits, IInv, FIN_BLOCK
  PROVE  IInv' /\ FlowStep
<1> DEFINE a == addr(c.PC)
           t == Jumped(c, a)
<1>1. c.at = "op" /\ Fin(c.PC) /\ session' = session
  BY DEF FIN_BLOCK
<1>2. c' = IF c.delay_slot /\ t.skip_jump = 0
           THEN [t EXCEPT !.frames = <<[op |-> "FIN_BLOCK", PC |-> Plus(c.PC, 1)]>> \o @]
           ELSE t
  BY DEF FIN_BLOCK
<1>3. /\ Whole(c) /\ c.skip_jump = 0 /\ c.delay_slot \in BOOLEAN /\ c.dest \in Nat
      /\ addr(Node(RefillVector)) = RefillVector /\ c.PC \in Nodes
      /\ Typed(session, c) /\ Needs(session, c)
  BY <1>1, MayTrap DEF IInv
<1>4. Cached /\ c.PC.start # 0 /\ Block(session, c, c.PC)
  BY <1>1, AtOp DEF Ready, InDelay, Block, Fin, Cached
<1>5. a \in Nat
  BY <1>3, PlusOne
<1>6. t = IF Present(c, a) THEN [c EXCEPT !.PC = Node(a)]
          ELSE TLB_refill_exception(c, "fetch", Page(a), a)
  BY <1>3, <1>4 DEF Jumped
<1> HIDE DEF t
<1>7. CASE ~Present(c, a)
  <2>1. Ready(session, c)
    BY <1>1, <1>7, AtOp, SlotPresent
  <2>2. ~c.exl /\ ~c.delay_slot
    BY <1>7, <2>1, ReadyMissing DEF Ready
  <2>3. c' = TLB_refill_exception(c, "fetch", Page(a), a)
    BY <1>2, <1>6, <1>7, <2>2
  <2>4. Noted(c, c', "fetch", Page(a), RefillVector, a) /\ c'.at = c.at
    BY <1>3, <2>2, <2>3, FetchNotes
  <2>5. QED
    BY <1>1, <1>7, <2>1, <2>4, ReadyFetches
<1>8. CASE Present(c, a)
  <2>1. MovedTo(c, t, Node(a))
    BY <1>3, <1>6, <1>8 DEF MovedTo, Whole
  <2>2. Node(a) \in Nodes /\ addr(Node(a)) = a /\ ~Fin(Node(a)) /\ Block(session, c, Node(a))
    BY <1>5, <1>8, Context, NodeBlock
  <2>3. CASE Ready(session, c)
    <3>1. c' = t
      BY <1>2, <2>3 DEF Ready
    <3>2. MovedTo(c, c', Node(a))
      BY <2>1, <3>1
    <3>3. /\ Typed(session, c') /\ Needs(session, c') /\ SameStatus(c, c') /\ c'.tlb = c.tlb
          /\ c'.done = c.done /\ c'.ra = c.ra /\ c'.PC = Node(a)
      BY <1>3, <2>2, <3>2 DEF MovedTo, Typed, Whole, Needs, SameStatus
    <3>4. Block(session, c', c'.PC)
      BY <2>2, <3>3, BlockKept
    <3>5. IF c'.exl THEN Handling(session, c', addr(c'.PC)) ELSE addr(c'.PC) \in Heads(session)
      BY <2>2, <2>3, <3>3 DEF Ready, Handling, Resume, SameStatus
    <3>6. Ready(session, c')
      BY <2>3, <3>2, <3>4, <3>5 DEF Ready, MovedTo
    <3>7. Sees(c, a, <<>>, c.ra) /\ Sees(c', a, <<>>, c.ra)
      BY <2>2, <2>3, <3>3, <3>6, ReadySees
    <3>8. FlowStep
      BY <1>1, <3>3, <3>7, Stutters
    <3>9. QED
      BY <1>1, <3>3, <3>6, <3>8, Keeps DEF Going
  <2>4. ASSUME NEW br, NEW b, InDelay(session, c, br, b)
        PROVE  IInv' /\ FlowStep
    <3> DEFINE fin == [op |-> "FIN_BLOCK", PC |-> Plus(c.PC, 1)]
    <3>1. a = b + 1 /\ b \in Nat /\ c.frames = <<br>> /\ c.delay_slot
      BY <1>1, <2>4, SlotPresent DEF InDelay
    <3>2. t.skip_jump = 0 /\ t.frames = <<br>>
      BY <1>3, <2>1, <3>1 DEF MovedTo
    <3>3. c' = [t EXCEPT !.frames = <<fin>> \o @]
      BY <1>2, <3>1, <3>2
    <3>4. /\ Plus(c.PC, 1) \in Nodes /\ addr(Plus(c.PC, 1)) = b + 2
          /\ Plus(c.PC, 1).start = c.PC.start
      <4>1. Plus(c.PC, 1) \in Nodes /\ Plus(c.PC, 1).start = c.PC.start
        BY <1>3, NodeFields
      <4>2. addr(Plus(c.PC, 1)) = a + 1
        BY <1>3, PlusOne
      <4>3. QED
        BY <3>1, <4>1, <4>2
    <3>5. FinFrame(fin) /\ fin.PC = Plus(c.PC, 1)
      BY <3>4 DEF FinFrame
    <3> HIDE DEF fin
    <3>6. c' = [t EXCEPT !.frames = <<fin, br>>]
      BY <3>2, <3>3, Tuples
    <3>7. c' = [PC |-> Node(a), delay_slot |-> c.delay_slot, skip_jump |-> c.skip_jump,
                frames |-> <<fin, br>>, at |-> c.at, dest |-> c.dest, epc |-> c.epc, bd |-> c.bd,
                exl |-> c.exl, cause |-> c.cause, ra |-> c.ra, tlb |-> c.tlb, done |-> c.done]
      BY <2>1, <3>6 DEF MovedTo
    <3>8. /\ Typed(session, c') /\ Needs(session, c') /\ SameStatus(c, c') /\ c'.tlb = c.tlb
          /\ c'.done = c.done /\ c'.ra = c.ra /\ c'.PC = Node(a) /\ c'.frames = <<fin, br>>
      BY <1>3, <2>2, <3>7 DEF Typed, Whole, Needs, SameStatus
    <3>9. Block(session, c, fin.PC)
      BY <1>4, <3>4, <3>5, BlockGoesOn
    <3>10. Block(session, c', c'.PC) /\ Block(session, c', fin.PC) /\ Calls(session, c', br, b)
      BY <2>2, <2>4, <3>8, <3>9, BlockKept, CallsKept DEF InDelay
    <3>11. Stack(session, c', br, b)
      BY <3>4, <3>5, <3>8, <3>10 DEF Stack
    <3>12. Present(c', b) /\ addr(c'.PC) = b + 1 /\ ~Fin(c'.PC)
      BY <2>2, <2>4, <3>1, <3>8 DEF InDelay, Present
    <3>13. InDelay(session, c', br, b)
      BY <2>4, <3>7, <3>10, <3>11, <3>12 DEF InDelay
    <3>14. Sees(c, b + 1, DelaySlot(br, b), c.ra) /\ Sees(c', b + 1, DelaySlot(br, b), c.ra)
      BY <2>4, <3>8, <3>13, InDelaySees
    <3>15. FlowStep
      BY <1>1, <3>8, <3>14, Stutters
    <3>16. QED
      BY <1>1, <3>8, <3>13, <3>15, Keeps DEF Going
  <2>5. QED
    BY <1>1, <2>3, <2>4, AtOp
<1>9. QED
  BY <1>7, <1>8

-----------------------------------------------------------------------------
(* The rest of an op.                                                      *)

LEMMA AtBack ==
  ASSUME IInv, c.at = "back"
  PROVE  Pending(session, c) \/ \E br, b : BackFrom(session, c, br, b)
BY DEF IInv, Going, Ready, Leaving, InDelay

\* What a handler needs is in the status and in skip_jump.
LEMMA HandlingKept ==
  ASSUME NEW f, NEW t, NEW u, NEW v, Handling(f, t, v), SameStatus(t, u)
  PROVE  Handling(f, u, v)
BY DEF Handling, Resume, SameStatus

\* An instruction's end leaves everything that ControlFlow has as it was.
Quiet(t, u) ==
  /\ Whole(u) /\ SameStatus(t, u) /\ u.tlb = t.tlb /\ u.done = t.done
  /\ u.skip_jump = t.skip_jump /\ u.PC \in Nodes /\ u.dest \in Nat

LEMMA QuietKept ==
  ASSUME IInv, Quiet(c, c'), c'.delay_slot \in BOOLEAN, c'.ra \in Heads(session)
  PROVE  Typed(session, c') /\ Needs(session, c')
<1>1. Typed(session, c) /\ Needs(session, c)
  BY DEF IInv
<1>2. Typed(session, c')
  BY <1>1 DEF Typed, Quiet, SameStatus
<1>3. Needs(session, c')
  BY <1>1, NeedsKept DEF Quiet
<1>4. QED
  BY <1>2, <1>3

LEMMA PendingKept ==
  ASSUME Limits, IInv, Pending(session, c), Pending(session, c'), Quiet(c, c'),
         c'.delay_slot \in BOOLEAN, c'.ra = c.ra, session' = session
  PROVE  IInv' /\ FlowStep
<1>1. HandlersOK(session) /\ c.ra \in Heads(session)
  BY Context DEF Typed
<1>2. Sees(c, c.skip_jump, <<>>, c.ra) /\ Sees(c', c'.skip_jump, <<>>, c'.ra)
  BY <1>1, PendingSees
<1>3. Sees(c', c.skip_jump, <<>>, c.ra)
  BY <1>2 DEF Quiet
<1>4. SameStatus(c, c') /\ c'.tlb = c.tlb /\ c'.done = c.done
  BY DEF Quiet
<1>5. FlowStep
  BY <1>2, <1>3, <1>4, Stutters
<1>6. Typed(session, c') /\ Needs(session, c')
  BY <1>1, QuietKept
<1>7. QED
  BY <1>5, <1>6, Keeps DEF Going

LEMMA FIN_BLOCK_back_keeps ==
  ASSUME Limits, IInv, FIN_BLOCK_back
  PROVE  IInv' /\ FlowStep
<1>1. c.at = "back" /\ session' = session /\ Head(c.frames).op = "FIN_BLOCK"
  BY DEF FIN_BLOCK_back, Back
<1> DEFINE n == Head(c.frames).PC
           rest == Tail(c.frames)
           u == [Popped EXCEPT !.PC = n]
<1>2. c' = Ended(u)
  BY DEF FIN_BLOCK_back
<1>3. Whole(c) /\ Typed(session, c)
  BY DEF IInv, Typed
<1>4. u = [PC |-> n, delay_slot |-> c.delay_slot, skip_jump |-> c.skip_jump, frames |-> rest,
           at |-> c.at, dest |-> c.dest, epc |-> c.epc, bd |-> c.bd, exl |-> c.exl,
           cause |-> c.cause, ra |-> c.ra, tlb |-> c.tlb, done |-> c.done]
  <2> DEFINE w == Popped
  <2>1. w = [c EXCEPT !.frames = rest]
    BY DEF Popped
  <2>2. u = [w EXCEPT !.PC = n]
    OBVIOUS
  <2> HIDE DEF w, u, n, rest
  <2>3. w = [PC |-> c.PC, delay_slot |-> c.delay_slot, skip_jump |-> c.skip_jump, frames |-> rest,
             at |-> c.at, dest |-> c.dest, epc |-> c.epc, bd |-> c.bd, exl |-> c.exl,
             cause |-> c.cause, ra |-> c.ra, tlb |-> c.tlb, done |-> c.done]
    BY <1>3, <2>1 DEF Whole
  <2>4. QED
    BY <2>2, <2>3
<1> HIDE DEF u
<1>5. ASSUME rest # <<>>
      PROVE  c' = [PC |-> n, delay_slot |-> c.delay_slot, skip_jump |-> c.skip_jump,
                   frames |-> rest, at |-> "back", dest |-> c.dest, epc |-> c.epc, bd |-> c.bd,
                   exl |-> c.exl, cause |-> c.cause, ra |-> c.ra, tlb |-> c.tlb, done |-> c.done]
  <2>1. u.frames = rest
    BY <1>4
  <2>2. c' = At(u, "back")
    BY <1>2, <1>5, <2>1 DEF Ended
  <2>3. QED
    BY <1>4, <2>2 DEF At
<1> HIDE DEF n, rest
<1>6. ASSUME NEW br, NEW b, BackFrom(session, c, br, b)
      PROVE  IInv' /\ FlowStep
  <2>1. Stack(session, c, br, b) /\ Calls(session, c, br, b)
    BY <1>6 DEF BackFrom
  <2>2. Head(c.frames) # br
    BY <1>1, <2>1 DEF Calls, BranchFrame
  <2>3. rest = <<br>> /\ FinFrame(Head(c.frames)) /\ Block(session, c, n) /\ addr(n) = b + 2
    BY <2>1, <2>2, StackFrames DEF rest, n
  <2>4. rest # <<>> /\ n \in Nodes
    BY <2>3, Tuples DEF FinFrame, n
  <2>5. c' = [PC |-> n, delay_slot |-> c.delay_slot, skip_jump |-> c.skip_jump,
              frames |-> rest, at |-> "back", dest |-> c.dest, epc |-> c.epc, bd |-> c.bd,
              exl |-> c.exl, cause |-> c.cause, ra |-> c.ra, tlb |-> c.tlb, done |-> c.done]
    BY <1>5, <2>4
  <2>6. /\ Typed(session, c') /\ Needs(session, c') /\ SameStatus(c, c') /\ c'.tlb = c.tlb
        /\ c'.done = c.done /\ c'.ra = c.ra /\ c'.PC = n /\ c'.frames = <<br>>
    BY <1>3, <2>3, <2>4, <2>5 DEF Typed, Whole, Needs, SameStatus, IInv
  <2>7. Block(session, c', c'.PC) /\ Calls(session, c', br, b)
    BY <2>1, <2>3, <2>6, BlockKept, CallsKept
  <2>8. BackFrom(session, c', br, b)
    BY <1>6, <2>3, <2>5, <2>6, <2>7 DEF BackFrom, Stack
  <2>9. /\ Sees(c, AfterBranch(br, b), <<>>, IF br.link THEN b + 2 ELSE c.ra)
        /\ Sees(c', AfterBranch(br, b), <<>>, IF br.link THEN b + 2 ELSE c.ra)
    BY <1>6, <2>6, <2>8, BackFromSees
  <2>10. FlowStep
    BY <1>1, <2>6, <2>9, Stutters
  <2>11. QED
    BY <1>1, <2>6, <2>8, <2>10, Keeps DEF Going
<1>7. CASE Pending(session, c)
  <2>1. PICK br : /\ BranchFrame(session, br)
                  /\ c.frames = <<br>> \/ \E fin : FinFrame(fin) /\ c.frames = <<fin, br>>
    BY <1>1, <1>7 DEF Pending
  <2>2. c.frames # <<br>>
    BY <1>1, <2>1, Tuples DEF BranchFrame
  <2>3. PICK fin : FinFrame(fin) /\ c.frames = <<fin, br>>
    BY <2>1, <2>2
  <2>4. rest = <<br>> /\ rest # <<>> /\ n = fin.PC /\ n \in Nodes
    BY <2>3, Tuples DEF rest, n, FinFrame
  <2>5. c' = [PC |-> n, delay_slot |-> c.delay_slot, skip_jump |-> c.skip_jump,
              frames |-> rest, at |-> "back", dest |-> c.dest, epc |-> c.epc, bd |-> c.bd,
              exl |-> c.exl, cause |-> c.cause, ra |-> c.ra, tlb |-> c.tlb, done |-> c.done]
    BY <1>5, <2>4
  <2>6. /\ Quiet(c, c') /\ c'.delay_slot = c.delay_slot /\ c'.ra = c.ra /\ c'.frames = <<br>>
        /\ c'.at = "back" /\ c'.exl = c.exl /\ c'.skip_jump = c.skip_jump
    BY <1>3, <2>4, <2>5 DEF Quiet, Whole, SameStatus, Typed
  <2>7. Handling(session, c', c'.skip_jump)
    BY <1>7, <2>6, HandlingKept DEF Pending, Quiet
  <2>8. Pending(session, c')
    BY <1>1, <1>7, <2>1, <2>6, <2>7 DEF Pending
  <2>9. QED
    BY <1>1, <1>3, <1>7, <2>6, <2>8, PendingKept DEF Typed
<1>8. QED
  BY <1>1, <1>6, <1>7, AtBack

\* The branch's op has ended: at n, with x to come next.
Returned(n, x, d, r) ==
  [PC |-> n, delay_slot |-> FALSE, skip_jump |-> c.skip_jump, frames |-> Tail(c.frames),
   at |-> x, dest |-> d, epc |-> c.epc, bd |-> c.bd, exl |-> c.exl, cause |-> c.cause,
   ra |-> r, tlb |-> c.tlb, done |-> c.done]
Linked(f) == IF f.link THEN addr(c.PC) ELSE c.ra

LEMMA BranchReturns ==
  ASSUME Whole(c), Branch_back, NEW f, f = Head(c.frames)
  PROVE  c' = IF ~f.taken \/ (c.skip_jump # 0 /\ (Cached \/ f.link))
              THEN Returned(c.PC, "due", c.dest, c.ra)
              ELSE IF f.out \/ f.start = 0 THEN Returned(c.PC, "jump", f.to, Linked(f))
              ELSE Returned([start |-> f.start, i |-> f.to - f.start], "due", c.dest, Linked(f))
<1> DEFINE w == Popped
           t == [w EXCEPT !.delay_slot = FALSE]
           linked == IF f.link THEN [t EXCEPT !.ra = addr(t.PC)] ELSE t
           rest == Tail(c.frames)
           n == [start |-> f.start, i |-> f.to - f.start]
<1>1. c' = IF ~f.taken \/ (c.skip_jump # 0 /\ (Cached \/ f.link)) THEN At(t, "due")
           ELSE IF f.out \/ f.start = 0 THEN [At(linked, "jump") EXCEPT !.dest = f.to]
           ELSE [At(linked, "due") EXCEPT !.PC = n]
  BY DEF Branch_back
<1>2. w = [c EXCEPT !.frames = rest]
  BY DEF Popped
<1>3. t = [w EXCEPT !.delay_slot = FALSE]
  OBVIOUS
<1> HIDE DEF w, t, rest
<1>4. t = [PC |-> c.PC, delay_slot |-> FALSE, skip_jump |-> c.skip_jump, frames |-> rest,
           at |-> c.at, dest |-> c.dest, epc |-> c.epc, bd |-> c.bd, exl |-> c.exl,
           cause |-> c.cause, ra |-> c.ra, tlb |-> c.tlb, done |-> c.done]
  <2>1. w = [PC |-> c.PC, delay_slot |-> c.delay_slot, skip_jump |-> c.skip_jump, frames |-> rest,
             at |-> c.at, dest |-> c.dest, epc |-> c.epc, bd |-> c.bd, exl |-> c.exl,
             cause |-> c.cause, ra |-> c.ra, tlb |-> c.tlb, done |-> c.done]
    BY <1>2 DEF Whole
  <2>2. QED
    BY <1>3, <2>1
<1>5. linked = [PC |-> c.PC, delay_slot |-> FALSE, skip_jump |-> c.skip_jump, frames |-> rest,
                at |-> c.at, dest |-> c.dest, epc |-> c.epc, bd |-> c.bd, exl |-> c.exl,
                cause |-> c.cause, ra |-> Linked(f), tlb |-> c.tlb, done |-> c.done]
  <2>1. CASE f.link
    <3>1. linked = [t EXCEPT !.ra = addr(c.PC)] /\ Linked(f) = addr(c.PC)
      BY <1>4, <2>1 DEF Linked
    <3> HIDE DEF linked
    <3>2. QED
      BY <1>4, <3>1
  <2>2. CASE ~f.link
    BY <1>4, <2>2 DEF Linked
  <2>3. QED
    BY <2>1, <2>2
<1> HIDE DEF linked, n
<1>6. ASSUME NEW y, y = At(t, "due")
      PROVE  y = Returned(c.PC, "due", c.dest, c.ra)
  BY <1>4, <1>6 DEF At, Returned, rest
<1>7. ASSUME NEW z, z = At(linked, "jump"), NEW y, y = [z EXCEPT !.dest = f.to]
      PROVE  y = Returned(c.PC, "jump", f.to, Linked(f))
  <2>1. z = [PC |-> c.PC, delay_slot |-> FALSE, skip_jump |-> c.skip_jump, frames |-> rest,
             at |-> "jump", dest |-> c.dest, epc |-> c.epc, bd |-> c.bd, exl |-> c.exl,
             cause |-> c.cause, ra |-> Linked(f), tlb |-> c.tlb, done |-> c.done]
    BY <1>5, <1>7 DEF At
  <2>2. y = [PC |-> c.PC, delay_slot |-> FALSE, skip_jump |-> c.skip_jump, frames |-> rest,
             at |-> "jump", dest |-> f.to, epc |-> c.epc, bd |-> c.bd, exl |-> c.exl,
             cause |-> c.cause, ra |-> Linked(f), tlb |-> c.tlb, done |-> c.done]
    <3>1. y = [z EXCEPT !.dest = f.to]
      BY <1>7
    <3>2. QED
      BY <2>1, <3>1
  <2>3. QED
    BY <2>2 DEF Returned, rest
<1>8. ASSUME NEW z, z = At(linked, "due"), NEW y, y = [z EXCEPT !.PC = n]
      PROVE  y = Returned(n, "due", c.dest, Linked(f))
  <2>1. z = [PC |-> c.PC, delay_slot |-> FALSE, skip_jump |-> c.skip_jump, frames |-> rest,
             at |-> "due", dest |-> c.dest, epc |-> c.epc, bd |-> c.bd, exl |-> c.exl,
             cause |-> c.cause, ra |-> Linked(f), tlb |-> c.tlb, done |-> c.done]
    BY <1>5, <1>8 DEF At
  <2>2. y = [PC |-> n, delay_slot |-> FALSE, skip_jump |-> c.skip_jump, frames |-> rest,
             at |-> "due", dest |-> c.dest, epc |-> c.epc, bd |-> c.bd, exl |-> c.exl,
             cause |-> c.cause, ra |-> Linked(f), tlb |-> c.tlb, done |-> c.done]
    <3>1. y = [z EXCEPT !.PC = n]
      BY <1>8
    <3>2. QED
      BY <2>1, <3>1
  <2>3. QED
    BY <2>2 DEF Returned, rest
<1>9. QED
  BY <1>1, <1>6, <1>7, <1>8 DEF n

Returns(t, u, n, x, d, r) ==
  /\ Whole(u) /\ u.PC = n /\ u.at = x /\ u.dest = d /\ u.ra = r
  /\ ~u.delay_slot /\ u.delay_slot \in BOOLEAN /\ u.skip_jump = t.skip_jump
  /\ u.frames = Tail(t.frames) /\ SameStatus(t, u) /\ u.tlb = t.tlb
  /\ u.done = t.done /\ u.exl = t.exl

LEMMA ReturnedFields ==
  ASSUME NEW n, NEW x, NEW d, NEW r, c' = Returned(n, x, d, r)
  PROVE  Returns(c, c', n, x, d, r)
BY DEF Returned, Returns, Whole, SameStatus

LEMMA Branch_back_keeps ==
  ASSUME Limits, IInv, Branch_back
  PROVE  IInv' /\ FlowStep
<1> DEFINE f == Head(c.frames)
<1>1. c.at = "back" /\ session' = session /\ f.op = "branch"
  BY DEF Branch_back, Back
<1>2. Whole(c) /\ Typed(session, c) /\ Needs(session, c) /\ Heads(session) \subseteq Nat
  BY Context DEF IInv, Typed
<1>3. c' = IF ~f.taken \/ (c.skip_jump # 0 /\ (Cached \/ f.link))
           THEN Returned(c.PC, "due", c.dest, c.ra)
           ELSE IF f.out \/ f.start = 0 THEN Returned(c.PC, "jump", f.to, Linked(f))
           ELSE Returned([start |-> f.start, i |-> f.to - f.start], "due", c.dest, Linked(f))
  BY <1>2, BranchReturns
<1> HIDE DEF f
<1>4. ASSUME NEW br, NEW b, BackFrom(session, c, br, b)
      PROVE  IInv' /\ FlowStep
  <2>1. Stack(session, c, br, b) /\ Calls(session, c, br, b) /\ c.skip_jump = 0 /\ ~c.exl
        /\ addr(c.PC) = b + 2 /\ (c.frames = <<br>> => Block(session, c, c.PC))
    BY <1>4 DEF BackFrom
  <2>2. c.frames = <<br>>
    <3>1. c.frames # <<br>> => FinFrame(Head(c.frames))
      BY <2>1, StackFrames
    <3>2. FinFrame(Head(c.frames)) => f.op = "FIN_BLOCK"
      BY DEF FinFrame, f
    <3>3. QED
      BY <1>1, <3>1, <3>2
  <2>3. f = br /\ Tail(c.frames) = <<>> /\ Block(session, c, c.PC)
    BY <2>1, <2>2, Tuples DEF f
  <2>4. BranchFrame(session, br)
    BY <2>1 DEF Calls
  <2>5. Sees(c, AfterBranch(br, b), <<>>, IF br.link THEN b + 2 ELSE c.ra)
    BY <1>4, BackFromSees
  <2>6. CASE ~br.taken
    <3>1. c' = Returned(c.PC, "due", c.dest, c.ra)
      BY <1>3, <2>3, <2>6
    <3>2. /\ Whole(c') /\ c'.PC = c.PC /\ c'.at = "due" /\ c'.dest = c.dest /\ c'.ra = c.ra
          /\ ~c'.delay_slot /\ c'.delay_slot \in BOOLEAN /\ c'.skip_jump = c.skip_jump
          /\ c'.frames = <<>> /\ SameStatus(c, c') /\ c'.tlb = c.tlb
          /\ c'.done = c.done /\ c'.exl = c.exl
      <4>1. Returns(c, c', c.PC, "due", c.dest, c.ra)
        BY <3>1, ReturnedFields
      <4>2. QED
        BY <2>3, <4>1 DEF Returns
    <3>3. b + 2 \in Heads(session)
      BY <2>1, <2>6 DEF Calls
    <3>4. Block(session, c', c'.PC)
      BY <2>3, <3>2, BlockKept
    <3>5. Ready(session, c')
      BY <2>1, <3>2, <3>3, <3>4 DEF Ready
    <3>6. Typed(session, c') /\ Needs(session, c')
      BY <1>2, <3>2, NeedsKept DEF Typed
    <3>7. ~br.link /\ AfterBranch(br, b) = b + 2
      BY <2>4, <2>6 DEF BranchFrame, AfterBranch
    <3>8. Sees(c', b + 2, <<>>, c.ra)
      BY <2>1, <3>2, <3>5, ReadySees
    <3>9. Sees(c, b + 2, <<>>, c.ra)
      BY <2>5, <3>7
    <3>10. FlowStep
      BY <1>1, <3>2, <3>8, <3>9, Stutters
    <3>11. QED
      BY <1>1, <3>5, <3>6, <3>10, Keeps DEF Going
  <2>7. CASE br.taken /\ (br.out \/ br.start = 0)
    <3>1. c' = Returned(c.PC, "jump", br.to, Linked(br))
      BY <1>3, <2>1, <2>3, <2>7
    <3>2. /\ Whole(c') /\ c'.PC = c.PC /\ c'.at = "jump" /\ c'.dest = br.to /\ c'.ra = Linked(br)
          /\ ~c'.delay_slot /\ c'.delay_slot \in BOOLEAN /\ c'.skip_jump = c.skip_jump
          /\ c'.frames = <<>> /\ SameStatus(c, c') /\ c'.tlb = c.tlb
          /\ c'.done = c.done /\ c'.exl = c.exl
      <4>1. Returns(c, c', c.PC, "jump", br.to, Linked(br))
        BY <3>1, ReturnedFields
      <4>2. QED
        BY <2>3, <4>1 DEF Returns
    <3>3. br.to \in Heads(session) /\ br.to \in Nat
      BY <1>2, <2>1, <2>7 DEF Calls
    <3>4. Leaving(session, c')
      BY <2>1, <3>2, <3>3 DEF Leaving
    <3>5. Linked(br) = (IF br.link THEN b + 2 ELSE c.ra) /\ Linked(br) \in Heads(session)
      BY <1>2, <2>1 DEF Linked, Calls, Typed
    <3>6. Typed(session, c') /\ Needs(session, c')
      BY <1>2, <3>2, <3>3, <3>5, NeedsKept DEF Typed
    <3>7. Sees(c', br.to, <<>>, Linked(br))
      BY <3>2, <3>4, LeavingSees
    <3>8. Sees(c, br.to, <<>>, Linked(br))
      BY <2>5, <2>7, <3>5 DEF AfterBranch
    <3>9. FlowStep
      BY <1>1, <3>2, <3>7, <3>8, Stutters
    <3>10. QED
      BY <1>1, <3>4, <3>6, <3>9, Keeps DEF Going
  <2>8. CASE br.taken /\ ~br.out /\ br.start # 0
    <3> DEFINE n == [start |-> br.start, i |-> br.to - br.start]
    <3>1. c' = Returned(n, "due", c.dest, Linked(br))
      BY <1>3, <2>1, <2>3, <2>8
    <3>2. Block(session, c, n) /\ br.to >= br.start /\ br.start \in Nat /\ br.to \in Heads(session)
      BY <2>1, <2>4, <2>8 DEF Calls, BranchFrame
    <3>3. n \in Nodes /\ addr(n) = br.to
      <4>1. addr(n) = br.start + (br.to - br.start) /\ br.to \in Nat
        BY <1>2, <3>2 DEF addr
      <4>2. QED
        BY <3>2, <4>1 DEF Block
    <3> HIDE DEF n
    <3>4. /\ Whole(c') /\ c'.PC = n /\ c'.at = "due" /\ c'.dest = c.dest /\ c'.ra = Linked(br)
          /\ ~c'.delay_slot /\ c'.delay_slot \in BOOLEAN /\ c'.skip_jump = c.skip_jump
          /\ c'.frames = <<>> /\ SameStatus(c, c') /\ c'.tlb = c.tlb
          /\ c'.done = c.done /\ c'.exl = c.exl
      <4>1. Returns(c, c', n, "due", c.dest, Linked(br))
        BY <3>1, ReturnedFields
      <4>2. QED
        BY <2>3, <4>1 DEF Returns
    <3>5. Block(session, c', c'.PC)
      BY <3>2, <3>4, BlockKept
    <3>6. Ready(session, c')
      BY <2>1, <3>2, <3>3, <3>4, <3>5 DEF Ready
    <3>7. Linked(br) = (IF br.link THEN b + 2 ELSE c.ra) /\ Linked(br) \in Heads(session)
      BY <1>2, <2>1 DEF Linked, Calls, Typed
    <3>8. Typed(session, c') /\ Needs(session, c')
      BY <1>2, <3>3, <3>4, <3>7, NeedsKept DEF Typed
    <3>9. Sees(c', br.to, <<>>, Linked(br))
      BY <3>3, <3>4, <3>6, ReadySees
    <3>10. Sees(c, br.to, <<>>, Linked(br))
      BY <2>5, <2>8, <3>7 DEF AfterBranch
    <3>11. FlowStep
      BY <1>1, <3>4, <3>9, <3>10, Stutters
    <3>12. QED
      BY <1>1, <3>6, <3>8, <3>11, Keeps DEF Going
  <2>9. QED
    BY <2>6, <2>7, <2>8
<1>5. CASE Pending(session, c)
  <2>1. PICK br : /\ BranchFrame(session, br)
                  /\ c.frames = <<br>> \/ \E fin : FinFrame(fin) /\ c.frames = <<fin, br>>
    BY <1>1, <1>5 DEF Pending
  <2>2. c.frames = <<br>>
    BY <1>1, <2>1, Tuples DEF FinFrame, f
  <2>3. f = br /\ Tail(c.frames) = <<>>
    BY <2>2, Tuples DEF f
  <2>4. c.skip_jump # 0
    BY <1>5, Context DEF Pending, HandlersOK
  <2>5. session.core \in {"cached", "pure"}
    BY Context
  <2>6. /\ br.to \in Nat /\ (session.core = "cached" \/ br.start = 0)
    BY <2>1 DEF BranchFrame
  <2>7. ASSUME NEW x, NEW d \in Nat, c' = Returned(c.PC, x, d, c.ra),
               x = "due" \/ (x = "jump" /\ session.core = "pure")
        PROVE  IInv' /\ FlowStep
    <3>1. /\ Whole(c') /\ c'.PC = c.PC /\ c'.at = x /\ c'.dest = d /\ c'.ra = c.ra
          /\ ~c'.delay_slot /\ c'.delay_slot \in BOOLEAN /\ c'.skip_jump = c.skip_jump
          /\ c'.frames = <<>> /\ SameStatus(c, c') /\ c'.tlb = c.tlb
          /\ c'.done = c.done /\ c'.exl = c.exl
      <4>1. c' = Returned(c.PC, x, d, c.ra)
        BY <2>7
      <4>2. Returns(c, c', c.PC, x, d, c.ra)
        BY <4>1, ReturnedFields
      <4>3. QED
        BY <2>3, <4>2 DEF Returns
    <3>2. Quiet(c, c')
      BY <1>2, <3>1 DEF Quiet, Typed
    <3>3. Handling(session, c', c'.skip_jump)
      BY <1>5, <3>1, HandlingKept DEF Pending
    <3>4. Pending(session, c')
      BY <1>5, <2>7, <3>1, <3>3 DEF Pending
    <3>5. QED
      BY <1>1, <1>5, <3>1, <3>2, <3>4, PendingKept
  <2>8. CASE ~br.taken \/ Cached \/ br.link
    <3>1. c' = Returned(c.PC, "due", c.dest, c.ra)
      BY <1>3, <2>3, <2>4, <2>8
    <3>2. QED
      BY <1>2, <2>7, <3>1 DEF Typed
  <2>9. CASE br.taken /\ ~Cached /\ ~br.link
    <3>1. session.core = "pure" /\ br.start = 0
      BY <2>5, <2>6, <2>9 DEF Cached
    <3>2. Linked(br) = c.ra
      BY <2>9 DEF Linked
    <3>3. c' = Returned(c.PC, "jump", br.to, c.ra)
      BY <1>3, <2>3, <2>9, <3>1, <3>2
    <3>4. QED
      BY <2>6, <2>7, <3>1, <3>3
  <2>10. QED
    BY <2>8, <2>9
<1>6. QED
  BY <1>1, <1>4, <1>5, AtBack

\* A jump is followed by the look at the interrupts.
GoesOn(t, u) ==
  /\ Whole(u) /\ u.at = "due" /\ u.dest = 0 /\ u.PC = t.PC /\ u.delay_slot = t.delay_slot
  /\ u.skip_jump = t.skip_jump /\ u.frames = t.frames /\ SameStatus(t, u)
  /\ u.ra = t.ra /\ u.tlb = t.tlb /\ u.done = t.done

LEMMA ThenDue ==
  ASSUME NEW t, Whole(t), NEW u, u = [At(t, "due") EXCEPT !.dest = 0]
  PROVE  GoesOn(t, u)
<1>1. u = [PC |-> t.PC, delay_slot |-> t.delay_slot, skip_jump |-> t.skip_jump,
           frames |-> t.frames, at |-> "due", dest |-> 0, epc |-> t.epc, bd |-> t.bd,
           exl |-> t.exl, cause |-> t.cause, ra |-> t.ra, tlb |-> t.tlb, done |-> t.done]
  BY DEF Whole, At
<1>2. QED
  BY <1>1 DEF GoesOn, Whole, SameStatus

LEMMA jump_to_keeps ==
  ASSUME Limits, IInv, jump_to
  PROVE  IInv' /\ FlowStep
<1> DEFINE a == c.dest
           t == Jumped(c, a)
<1>1. c.at = "jump" /\ session' = session /\ c' = [At(t, "due") EXCEPT !.dest = 0]
  BY DEF jump_to
<1>2. /\ Whole(c) /\ a \in Nat /\ Typed(session, c) /\ Needs(session, c) /\ session \in Sessions
      /\ session.core \in {"cached", "pure"} /\ MapOK /\ HandlersOK(session)
      /\ c.delay_slot \in BOOLEAN /\ c.ra \in Heads(session) /\ RefillVector \in Handlers
  BY Context DEF IInv, Typed, Handlers
<1>3. Leaving(session, c) \/ Pending(session, c)
  BY <1>1 DEF IInv, Going, Ready, InDelay, BackFrom
<1>4. t = IF ~Cached THEN [c EXCEPT !.PC = Node(a)]
          ELSE IF c.skip_jump # 0 THEN c
          ELSE IF ~Present(c, a) THEN TLB_refill_exception(c, "fetch", Page(a), a)
          ELSE [c EXCEPT !.PC = Node(a)]
  BY DEF Jumped
<1> HIDE DEF t
<1>5. ASSUME t = [c EXCEPT !.PC = Node(a)], Node(a) \in Nodes
      PROVE  /\ c'.at = "due" /\ c'.PC = Node(a) /\ c'.delay_slot = c.delay_slot /\ c'.exl = c.exl
             /\ c'.frames = c.frames /\ c'.ra = c.ra /\ Quiet(c, c')
             /\ Typed(session, c') /\ Needs(session, c')
  <2>1. MovedTo(c, t, Node(a))
    BY <1>2, <1>5 DEF MovedTo, Whole
  <2>2. /\ Whole(t) /\ t.PC = Node(a) /\ t.delay_slot = c.delay_slot /\ t.skip_jump = c.skip_jump
        /\ t.frames = c.frames /\ SameStatus(c, t) /\ t.ra = c.ra /\ t.tlb = c.tlb
        /\ t.done = c.done
    BY <2>1 DEF MovedTo, Whole, SameStatus
  <2>3. /\ Whole(c') /\ c'.at = "due" /\ c'.dest = 0 /\ c'.PC = t.PC /\ c'.delay_slot = t.delay_slot
        /\ c'.skip_jump = t.skip_jump /\ c'.frames = t.frames /\ SameStatus(t, c')
        /\ c'.ra = t.ra /\ c'.tlb = t.tlb /\ c'.done = t.done
    <3>1. GoesOn(t, c')
      BY <1>1, <2>2, ThenDue
    <3>2. QED
      BY <3>1 DEF GoesOn
  <2>4. SameStatus(c, c')
    BY <2>2, <2>3 DEF SameStatus
  <2>5. Quiet(c, c')
    BY <1>5, <2>2, <2>3, <2>4 DEF Quiet
  <2>6. Typed(session, c') /\ Needs(session, c')
    BY <1>2, <2>2, <2>3, <2>5, QuietKept
  <2>7. QED
    BY <2>2, <2>3, <2>4, <2>5, <2>6 DEF SameStatus
<1>6. CASE Pending(session, c)
  <2>1. ~Cached /\ t = [c EXCEPT !.PC = Node(a)]
    BY <1>1, <1>4, <1>6 DEF Pending, Cached
  <2>2. Node(a) \in Nodes
    BY <1>2, <2>1, NodeBlock
  <2>3. /\ c'.at = "due" /\ c'.delay_slot = c.delay_slot /\ c'.exl = c.exl
        /\ c'.frames = c.frames /\ c'.ra = c.ra /\ Quiet(c, c')
    BY <1>5, <2>1, <2>2
  <2>4. Handling(session, c', c'.skip_jump)
    BY <1>6, <2>3, HandlingKept DEF Pending, Quiet
  <2>5. Pending(session, c')
    BY <1>1, <1>6, <2>3, <2>4 DEF Pending, Quiet
  <2>6. QED
    BY <1>1, <1>2, <1>6, <2>3, <2>5, PendingKept
<1>7. CASE Leaving(session, c)
  <2>1. a \in Heads(session) /\ c.frames = <<>> /\ ~c.delay_slot /\ c.skip_jump = 0 /\ ~c.exl
    BY <1>7 DEF Leaving
  <2>2. Sees(c, a, <<>>, c.ra)
    BY <1>7, LeavingSees
  <2>3. CASE ~Cached \/ Present(c, a)
    <3>1. t = [c EXCEPT !.PC = Node(a)]
      BY <1>4, <2>1, <2>3
    <3>2. Node(a) \in Nodes /\ addr(Node(a)) = a /\ Block(session, c, Node(a))
      BY <1>2, <2>3, NodeBlock
    <3>3. /\ c'.at = "due" /\ c'.PC = Node(a) /\ c'.delay_slot = c.delay_slot /\ c'.exl = c.exl
          /\ c'.frames = c.frames /\ c'.ra = c.ra /\ Quiet(c, c')
          /\ Typed(session, c') /\ Needs(session, c')
      BY <1>5, <3>1, <3>2
    <3>4. Block(session, c', c'.PC)
      BY <3>2, <3>3, BlockKept DEF Quiet
    <3>5. Ready(session, c')
      BY <2>1, <3>2, <3>3, <3>4 DEF Ready, Quiet
    <3>6. Sees(c', a, <<>>, c.ra)
      BY <3>2, <3>3, <3>5, ReadySees
    <3>7. FlowStep
      BY <1>1, <2>2, <3>3, <3>6, Stutters DEF Quiet
    <3>8. QED
      BY <1>1, <3>3, <3>5, <3>7, Keeps DEF Going
  <2>4. CASE Cached /\ ~Present(c, a)
    <3>1. t = TLB_refill_exception(c, "fetch", Page(a), a)
      BY <1>4, <2>1, <2>4
    <3>2. Node(RefillVector) \in Nodes /\ addr(Node(RefillVector)) = RefillVector
      BY <1>2, VectorNode
    <3>3. Noted(c, t, "fetch", Page(a), RefillVector, a) /\ Whole(t)
      <4>1. Noted(c, t, "fetch", Page(a), RefillVector, a)
        BY <1>2, <2>1, <3>1, <3>2, FetchNotes
      <4>2. QED
        BY <4>1 DEF Noted
    <3>4. /\ Whole(c') /\ c'.at = "due" /\ c'.dest = 0 /\ c'.PC = t.PC
          /\ c'.delay_slot = t.delay_slot /\ c'.skip_jump = t.skip_jump /\ c'.frames = t.frames
          /\ SameStatus(t, c') /\ c'.ra = t.ra /\ c'.tlb = t.tlb /\ c'.done = t.done
      <4>1. GoesOn(t, c')
        BY <1>1, <3>3, ThenDue
      <4>2. QED
        BY <4>1 DEF GoesOn
    <3>5. Noted(c, c', "fetch", Page(a), RefillVector, a)
      BY <3>3, <3>4 DEF Noted, SameStatus
    <3>6. HandlesOK(session, "fetch", RefillVector, FALSE, a)
      BY <2>1 DEF HandlesOK
    <3>7. Ready(session, c') /\ Sees(c', RefillVector, <<>>, c.ra)
      BY <1>2, <2>1, <3>4, <3>5, <3>6, ReadyNotes
    <3>8. Typed(session, c') /\ Needs(session, c')
      BY <1>2, <3>2, <3>5, TypedNotes, NeedsKept DEF Noted
    <3>9. /\ c'.exl /\ c'.exl \in BOOLEAN /\ c'.cause = <<"fetch", Page(a)>> /\ c'.bd = FALSE
          /\ c'.epc = a /\ c'.tlb = c.tlb /\ c'.done = c.done
      BY <1>2, <2>1, <3>5 DEF Noted, Before
    <3> DEFINE page == Page(a)
    <3>10. Flow!Trap("fetch", page, RefillVector)
      <4>1. c'.cause = <<"fetch", page>> /\ session' = session /\ ~c.exl
        BY <1>1, <2>1, <3>9
      <4> HIDE DEF a, page
      <4>2. QED
        BY <2>2, <3>7, <3>9, <4>1, FlowTraps
    <3>11. Pc = a
      BY <2>2, MappedState
    <3>12. ~Flow!Present(Pc) /\ Page(a) = Flow!Page(Pc)
      BY <2>4, <3>11 DEF Flow!Present, Present, Flow!Page, Page
    <3>13. Flow!Traps
      BY <3>10, <3>12 DEF Flow!Traps
    <3>14. IInv'
      BY <1>1, <3>7, <3>8, Keeps DEF Going
    <3>15. QED
      BY <3>13, <3>14 DEF FlowStep, Flow!Next
  <2>5. QED
    BY <2>3, <2>4
<1>8. QED
  BY <1>3, <1>6, <1>7

LEMMA gen_interrupt_keeps ==
  ASSUME Limits, IInv, gen_interrupt
  PROVE  IInv' /\ FlowStep
<1>1. c.at = "due" /\ session' = session
  BY DEF gen_interrupt
<1>2. /\ Whole(c) /\ Typed(session, c) /\ Needs(session, c) /\ session \in Sessions
      /\ HandlersOK(session) /\ c.PC \in Nodes /\ c.dest \in Nat
      /\ c.delay_slot \in BOOLEAN /\ c.ra \in Heads(session)
      /\ {RefillVector, GeneralVector} \subseteq Handlers
  BY Context DEF IInv, Typed, Handlers
<1>3. Ready(session, c) \/ Pending(session, c)
  BY <1>1 DEF IInv, Going, Leaving, InDelay, BackFrom
<1>4. CASE Pending(session, c)
  <2> DEFINE v == c.skip_jump
             u == [c EXCEPT !.skip_jump = 0]
             t == Jumped(u, v)
  <2>1. v \in Handlers /\ v # 0 /\ c.frames = <<>> /\ ~c.delay_slot /\ c.exl
        /\ Handling(session, c, v)
    BY <1>1, <1>2, <1>4 DEF Pending, HandlersOK
  <2>2. c' = Ended(t)
    BY <2>1 DEF gen_interrupt
  <2>3. u = [PC |-> c.PC, delay_slot |-> c.delay_slot, skip_jump |-> 0, frames |-> c.frames,
             at |-> c.at, dest |-> c.dest, epc |-> c.epc, bd |-> c.bd, exl |-> c.exl,
             cause |-> c.cause, ra |-> c.ra, tlb |-> c.tlb, done |-> c.done]
    BY <1>2 DEF Whole
  <2> HIDE DEF u, v
  <2>4. /\ Node(v) \in Nodes /\ addr(Node(v)) = v /\ Present(u, v) /\ Block(session, c', Node(v))
    BY <1>2, <2>1, VectorNode
  <2>5. t = [u EXCEPT !.PC = Node(v)]
    BY <2>3, <2>4 DEF Jumped
  <2> HIDE DEF t
  <2>6. t = [PC |-> Node(v), delay_slot |-> c.delay_slot, skip_jump |-> 0, frames |-> c.frames,
             at |-> c.at, dest |-> c.dest, epc |-> c.epc, bd |-> c.bd, exl |-> c.exl,
             cause |-> c.cause, ra |-> c.ra, tlb |-> c.tlb, done |-> c.done]
    BY <2>3, <2>5
  <2>7. c' = [t EXCEPT !.at = "op"]
    BY <2>1, <2>2, <2>6 DEF Ended, At
  <2>8. c' = [PC |-> Node(v), delay_slot |-> c.delay_slot, skip_jump |-> 0, frames |-> c.frames,
              at |-> "op", dest |-> c.dest, epc |-> c.epc, bd |-> c.bd, exl |-> c.exl,
              cause |-> c.cause, ra |-> c.ra, tlb |-> c.tlb, done |-> c.done]
    BY <2>6, <2>7
  <2>9. /\ Typed(session, c') /\ Needs(session, c') /\ SameStatus(c, c') /\ c'.tlb = c.tlb
        /\ c'.done = c.done /\ c'.ra = c.ra /\ c'.PC = Node(v)
    BY <1>2, <2>4, <2>8 DEF Typed, Whole, Needs, SameStatus
  <2>10. Handling(session, c', v)
    BY <2>1, <2>9, HandlingKept
  <2>11. Ready(session, c')
    BY <2>1, <2>4, <2>8, <2>9, <2>10 DEF Ready
  <2>12. Sees(c', v, <<>>, c.ra)
    BY <2>4, <2>9, <2>11, ReadySees
  <2>13. Sees(c, v, <<>>, c.ra)
    BY <1>2, <1>4, PendingSees DEF v
  <2>14. FlowStep
    BY <1>1, <2>9, <2>12, <2>13, Stutters
  <2>15. QED
    BY <1>1, <2>9, <2>11, <2>14, Keeps DEF Going
<1>5. CASE Ready(session, c)
  <2>1. c.skip_jump = 0 /\ c.frames = <<>> /\ ~c.delay_slot /\ Block(session, c, c.PC)
    BY <1>5 DEF Ready
  <2>2. Sees(c, addr(c.PC), <<>>, c.ra)
    BY <1>5, ReadySees
  <2>3. CASE c' = Ended(c)
    <3>1. c' = [c EXCEPT !.at = "op"]
      BY <2>1, <2>3 DEF Ended, At
    <3>2. c' = [PC |-> c.PC, delay_slot |-> c.delay_slot, skip_jump |-> c.skip_jump,
                frames |-> c.frames, at |-> "op", dest |-> c.dest, epc |-> c.epc, bd |-> c.bd,
                exl |-> c.exl, cause |-> c.cause, ra |-> c.ra, tlb |-> c.tlb, done |-> c.done]
      BY <1>2, <3>1 DEF Whole
    <3>3. /\ Typed(session, c') /\ Needs(session, c') /\ SameStatus(c, c') /\ c'.tlb = c.tlb
          /\ c'.done = c.done /\ c'.ra = c.ra /\ c'.PC = c.PC
      BY <1>2, <3>2 DEF Typed, Whole, Needs, SameStatus
    <3>4. Block(session, c', c'.PC)
      BY <2>1, <3>3, BlockKept
    <3>5. IF c'.exl THEN Handling(session, c', addr(c'.PC)) ELSE addr(c'.PC) \in Heads(session)
      BY <1>5, <3>3 DEF Ready, Handling, Resume, SameStatus
    <3>6. Ready(session, c')
      BY <2>1, <3>2, <3>4, <3>5 DEF Ready
    <3>7. Sees(c', addr(c.PC), <<>>, c.ra)
      BY <3>3, <3>6, ReadySees
    <3>8. FlowStep
      BY <1>1, <2>2, <3>3, <3>7, Stutters
    <3>9. QED
      BY <1>1, <3>3, <3>6, <3>8, Keeps DEF Going
  <2>4. CASE ~c.exl /\ c' = Ended(exception_general(c, "interrupt"))
    <3>1. c' = At(exception_general(c, "interrupt"), "op")
      BY <1>2, <2>1, <2>4, FramesKept DEF Ended
    <3>2. Node(GeneralVector) \in Nodes /\ addr(Node(GeneralVector)) = GeneralVector
      BY <1>2, VectorNode
    <3>3. Noted(c, c', "interrupt", 0, GeneralVector, addr(c.PC)) /\ c'.at = "op"
      BY <1>2, <2>1, <3>1, <3>2, GeneralNotes
    <3>4. HandlesOK(session, "interrupt", GeneralVector, FALSE, addr(c.PC))
      BY <1>5, <2>4 DEF HandlesOK, Ready
    <3>5. Ready(session, c') /\ Sees(c', GeneralVector, <<>>, c.ra)
      BY <1>2, <2>1, <3>3, <3>4, ReadyNotes
    <3>6. Typed(session, c') /\ Needs(session, c')
      BY <1>2, <3>2, <3>3, TypedNotes, NeedsKept DEF Noted
    <3>7. /\ c'.exl /\ c'.exl \in BOOLEAN /\ c'.cause = <<"interrupt", 0>> /\ c'.bd = FALSE
          /\ c'.epc = addr(c.PC) /\ c'.tlb = c.tlb /\ c'.done = c.done
      BY <1>2, <2>1, <3>3 DEF Noted, Before
    <3>8. Flow!Trap("interrupt", 0, GeneralVector)
      BY <1>1, <2>2, <2>4, <3>5, <3>7, FlowTraps
    <3>9. Slot = <<>>
      BY <2>2, MappedState
    <3>10. Flow!Traps
      BY <3>8, <3>9 DEF Flow!Traps
    <3>11. IInv'
      BY <1>1, <3>5, <3>6, Keeps DEF Going
    <3>12. QED
      BY <3>10, <3>11 DEF FlowStep, Flow!Next
  <2>5. QED
    BY <2>1, <2>3, <2>4 DEF gen_interrupt
<1>6. QED
  BY <1>3, <1>4, <1>5

-----------------------------------------------------------------------------
(* All programs.                                                           *)

LEMMA InitKeeps ==
  ASSUME Limits, Init
  PROVE  IInv /\ Flow!Init
<1> DEFINE f == session
           n == Node(f.start)
<1>1. /\ f \in Sessions /\ MapOK /\ ProgramOK(f) /\ f.core \in {"cached", "pure"}
      /\ f.start \in Heads(f) /\ f.start \in Nat /\ SlotsOK(f)
      /\ (f.start \in MappedWords => Page(f.start) \in f.tlb)
  BY DEF Init, Limits, ProgramOK, Heads, Prog
<1>2. c = [PC |-> n, delay_slot |-> FALSE, skip_jump |-> 0, frames |-> <<>>, at |-> "op",
           dest |-> 0, epc |-> 0, bd |-> FALSE, exl |-> FALSE, cause |-> <<"none", 0>>,
           ra |-> f.start, tlb |-> f.tlb, done |-> 0]
  BY DEF Init
<1>3. Present(c, f.start)
  BY <1>1, <1>2 DEF Present
<1>4. n \in Nodes /\ addr(n) = f.start /\ Block(f, c, n)
  BY <1>1, <1>3, NodeBlock
<1> HIDE DEF n
<1>5. Typed(f, c)
  BY <1>1, <1>2, <1>4 DEF Typed, Whole
<1>6. Needs(f, c)
  BY <1>1, <1>2 DEF Needs, SlotsOK
<1>7. Ready(f, c)
  BY <1>1, <1>2, <1>4 DEF Ready
<1>8. IInv
  BY <1>1, <1>5, <1>6, <1>7 DEF IInv, Going
<1>9. Slot = <<>>
  BY <1>7, ReadySees, MappedState
<1>10. Flow!Init
  BY <1>2, <1>9 DEF Flow!Init
<1>11. QED
  BY <1>8, <1>10

LEMMA StepKeeps ==
  ASSUME Limits, IInv, [Next]_vars
  PROVE  IInv' /\ [Flow!Next]_(Flow!vars)
<1>1. CASE Next
  <2>1. IInv' /\ FlowStep
    BY <1>1, Fetch_keeps, FIN_BLOCK_keeps, NOP_keeps, Load_keeps, SYSCALL_keeps, COP1_keeps,
       MTC0_keeps, TLBWR_keeps, ERET_keeps, J_keeps, JAL_keeps, JALR_keeps, JR_keeps,
       BEQ_keeps, BEQL_keeps, FIN_BLOCK_back_keeps, Branch_back_keeps, jump_to_keeps,
       gen_interrupt_keeps DEF Next
  <2>2. QED
    BY <2>1 DEF FlowStep
<1>2. CASE UNCHANGED vars
  <2>1. session' = session /\ c' = c
    BY <1>2 DEF vars
  <2>2. IInv'
    BY <2>1 DEF IInv
  <2>3. Pc' = Pc /\ Slot' = Slot /\ Ra' = Ra
    BY <2>1, Mapping
  <2>4. UNCHANGED Flow!vars
    BY <2>1, <2>3 DEF Flow!vars
  <2>5. QED
    BY <2>2, <2>4
<1>3. QED
  BY <1>1, <1>2

LEMMA Types ==
  ASSUME Limits, IInv
  PROVE  TypeOK
<1> DEFINE Framed == \A i \in 1 .. Len(c.frames) :
             c.frames[i].op = IF i = Len(c.frames) THEN "branch" ELSE "FIN_BLOCK"
<1>1. Typed(session, c) /\ HandlersOK(session)
  BY Context
<1>2. ASSUME c.frames = <<>>
      PROVE  Len(c.frames) <= 2 /\ Framed
  BY <1>2
<1>3. ASSUME NEW br, br.op = "branch", c.frames = <<br>>
      PROVE  Len(c.frames) <= 2 /\ Framed /\ c.frames # <<>>
  <2>1. Len(c.frames) = 1 /\ c.frames[1] = br
    BY <1>3
  <2>2. QED
    BY <1>3, <2>1
<1>4. ASSUME NEW fin, NEW br, fin.op = "FIN_BLOCK", br.op = "branch", c.frames = <<fin, br>>
      PROVE  Len(c.frames) <= 2 /\ Framed /\ c.frames # <<>>
  <2>1. Len(c.frames) = 2 /\ c.frames[1] = fin /\ c.frames[2] = br
    BY <1>4
  <2>2. QED
    BY <1>4, <2>1
<1>5. ASSUME NEW br, NEW b, Calls(session, c, br, b), Stack(session, c, br, b)
      PROVE  Len(c.frames) <= 2 /\ Framed /\ c.frames # <<>>
  BY <1>3, <1>4, <1>5 DEF Calls, Stack, BranchFrame, FinFrame
<1> DEFINE Delayed == c.frames # <<>> <=> c.delay_slot
<1>6. Len(c.frames) <= 2 /\ Framed /\ Delayed
  <2>1. CASE Ready(session, c) \/ Leaving(session, c)
    BY <1>2, <2>1 DEF Ready, Leaving
  <2>2. CASE Pending(session, c)
    <3>1. CASE c.frames = <<>>
      BY <1>2, <2>2, <3>1, Tuples DEF Pending
    <3>2. CASE c.frames # <<>>
      BY <1>3, <1>4, <2>2, <3>2 DEF Pending, BranchFrame, FinFrame
    <3>3. QED
      BY <3>1, <3>2
  <2>3. ASSUME NEW br, NEW b, InDelay(session, c, br, b) \/ BackFrom(session, c, br, b)
        PROVE  Len(c.frames) <= 2 /\ Framed /\ Delayed
    <3>1. Calls(session, c, br, b) /\ Stack(session, c, br, b) /\ c.delay_slot
      BY <2>3 DEF InDelay, BackFrom
    <3>2. QED
      BY <1>5, <3>1
  <2>4. QED
    BY <2>1, <2>2, <2>3 DEF IInv, Going
<1>7. c.delay_slot = (c.frames # <<>>)
  BY <1>1, <1>6 DEF Typed
<1>8. /\ c.at \in {"op", "back", "jump", "due"}
      /\ c.skip_jump \in {0, RefillVector, GeneralVector} /\ (c.exl \/ c.skip_jump = 0)
  BY DEF IInv, Going, Ready, Pending, Leaving, InDelay, BackFrom
<1>9. c.at = "back" => c.delay_slot
  BY DEF IInv, Going, Ready, Pending, Leaving, InDelay, BackFrom
<1>10. QED
  BY <1>1, <1>6, <1>7, <1>8, <1>9 DEF TypeOK

LEMMA Inductive ==
  ASSUME Limits
  PROVE  Spec => []IInv
<1>1. Init => IInv
  BY InitKeeps
<1>2. IInv /\ [Next]_vars => IInv'
  BY StepKeeps
<1> QED
  BY <1>1, <1>2, PTL DEF Spec

\* An op that has been called is in its caller's frame, whichever program runs.
THEOREM TypesHold ==
  ASSUME Limits
  PROVE  Spec => []TypeOK
<1>1. IInv => TypeOK
  BY Types
<1> QED
  BY <1>1, Inductive, PTL

\* Both interpreters run every program in the order that the processor does:
\* delay slots, ends of blocks and exceptions that wait for their branch to
\* end lose no instruction, run none twice, and come back to where they left.
THEOREM FlowIsKept ==
  ASSUME Limits
  PROVE  Spec => KeepsFlow
<1>1. Init => Flow!Init
  BY InitKeeps
<1>2. IInv /\ [Next]_vars => [Flow!Next]_(Flow!vars)
  BY StepKeeps
<1> QED
  BY <1>1, <1>2, Inductive, PTL DEF Spec, KeepsFlow, Flow!Spec
=============================================================================
