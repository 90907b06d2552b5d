---------------------------- MODULE Interpreter ----------------------------
(* Control flow of the two interpreters: branches that call the op of their *)
(* delay slot, blocks with FIN_BLOCK behind their last word, exceptions     *)
(* that are taken inside a delay slot and carried out after it (skip_jump). *)
(* An op is interrupted by the ops it calls, so it is a frame and several   *)
(* steps; `at' is what runs next.  core is "cached" or "pure".              *)
EXTENDS Integers, Sequences

CONSTANTS W, MappedWords, RefillVector, GeneralVector,
          Sessions    \* programs: core, code, start, tlb

VARIABLES session,
          c           \* PC, delay_slot, skip_jump, the frames, cop0 and the TLB

vars == <<session, c>>

Cached     == session.core = "cached"
Page(a)    == a \div W
Present(t, a) == a \in MappedWords => Page(a) \in t.tlb

\* PC is an instruction of a block; the pure interpreter has an address.  A
\* block of unmapped code runs on behind its page.
Node(a) == IF Cached /\ a \in MappedWords THEN [start |-> W * Page(a), i |-> a - W * Page(a)]
           ELSE [start |-> 0, i |-> a]
addr(n) == n.start + n.i
Plus(n, k) == [n EXCEPT !.i = @ + k]
Fin(n)  == n.start # 0 /\ n.i >= W
At(t, where) == [t EXCEPT !.at = where]
Ended(t) == At(t, IF t.frames = <<>> THEN "op" ELSE "back")

-----------------------------------------------------------------------------
(* Exceptions.                                                              *)

\* Mutant: the return address is the delay slot.
SlottedAfter(t) ==
  IF t.delay_slot THEN [t EXCEPT !.bd = TRUE, !.skip_jump = addr(t.PC)]
  ELSE [t EXCEPT !.bd = FALSE]

\* An exception in a delay slot is carried out when its branch ends: skip_jump
\* holds the handler, and next_interrupt is zero so that the branch asks.
Slotted(t) ==
  IF t.delay_slot THEN [t EXCEPT !.bd = TRUE, !.epc = @ - 1, !.skip_jump = addr(t.PC)]
  ELSE [t EXCEPT !.bd = FALSE]

\* why is "load" (w = 0 or 1: PC is already behind the instruction) or "fetch".
TLB_refill_exception(t, why, page, address) ==
  LET e == IF t.exl THEN t.epc ELSE IF why = "fetch" THEN address ELSE addr(t.PC) IN
  Slotted([t EXCEPT
    !.cause = <<why, page>>, !.exl = TRUE,
    !.epc = IF why = "fetch" THEN e ELSE e - 1,
    !.PC = Node(IF t.exl THEN GeneralVector ELSE RefillVector)])

exception_general(t, why) ==
  Slotted([t EXCEPT !.cause = <<why, 0>>, !.exl = TRUE, !.epc = addr(t.PC),
                    !.PC = Node(GeneralVector)])

\* jump_to(); the pure interpreter looks an address up when it fetches.
Jumped(t, a) ==
  IF ~Cached THEN [t EXCEPT !.PC = Node(a)]
  ELSE IF t.skip_jump # 0 THEN t
  ELSE IF ~Present(t, a) THEN TLB_refill_exception(t, "fetch", Page(a), a)
  ELSE [t EXCEPT !.PC = Node(a)]

-----------------------------------------------------------------------------
(* Ops.                                                                     *)

\* What PC->ops() will run: the pure interpreter fetches first.
I == session.code[addr(c.PC)]
Running(name) ==
  /\ c.at = "op" /\ ~Fin(c.PC) /\ (Cached \/ Present(c, addr(c.PC)))
  /\ I.op = name
  /\ UNCHANGED session
Run == [c EXCEPT !.PC = Plus(@, 1), !.done = addr(c.PC)]

Fetch ==
  /\ c.at = "op" /\ ~Cached /\ ~Present(c, addr(c.PC))
  /\ c' = TLB_refill_exception(c, "fetch", Page(addr(c.PC)), addr(c.PC))
  /\ UNCHANGED session

\* FIN_BLOCK: on to the next block, from a delay slot and back.
FIN_BLOCK ==
  /\ c.at = "op" /\ Fin(c.PC)
  /\ LET t == Jumped(c, addr(c.PC)) IN
     c' = IF c.delay_slot /\ t.skip_jump = 0
          THEN [t EXCEPT !.frames = <<[op |-> "FIN_BLOCK", PC |-> Plus(c.PC, 1)]>> \o @]
          ELSE t
  /\ UNCHANGED session

NOP == Running("nop") /\ c' = Ended(Run)

Load ==
  /\ Running("load")
  /\ c' = Ended(IF I.page \in c.tlb THEN Run
                ELSE [TLB_refill_exception(Run, "load", I.page, 0) EXCEPT !.done = c.done])

SYSCALL == Running("syscall") /\ c' = Ended(exception_general(c, "syscall"))

COP1 ==
  /\ Running("cop1")
  /\ c' = Ended(Run) \/ c' = Ended(exception_general(c, "cop1"))

\* MTC0 to Status may let an interrupt through at once; to EPC, in a handler.
MTC0 ==
  \/ Running("mtc0") /\ c' = At(Run, "due")
  \/ Running("epc") /\ c' = Ended([Run EXCEPT !.epc =
       IF c.cause[1] \in {"syscall", "cop1"} THEN @ + (IF c.bd THEN 2 ELSE 1) ELSE @])

TLBWR ==
  /\ Running("tlbw")
  /\ \E evicted \in {{}} \cup {{p} : p \in I.evict} :
       c' = Ended([Run EXCEPT !.tlb = (@ \ evicted) \cup {c.cause[2]}])

ERET ==
  /\ Running("eret")
  /\ c' = [At(Run, "jump") EXCEPT !.exl = FALSE, !.dest = c.epc]

\* A branch reads its registers, and calls the op of its delay slot.  A target
\* in its own block is reached without a look at the TLB, but not from the
\* block's last word, nor by J, JAL, JR and JALR.
Out == I.op \in {"j", "jal", "jr", "jalr"} \/ Page(I.to) # Page(addr(c.PC)) \/ c.PC.i = W - 1
Called(to, taken, link) ==
  c' = [Run EXCEPT !.delay_slot = TRUE,
          !.frames = <<[op |-> "branch", to |-> to, taken |-> taken, link |-> link,
                        out |-> Out, start |-> c.PC.start]>> \o @]

J    == Running("j") /\ Called(I.to, TRUE, FALSE)
JAL  == Running("jal") /\ Called(I.to, TRUE, TRUE)
JALR == Running("jalr") /\ Called(c.ra, TRUE, TRUE)
JR   == Running("jr") /\ Called(c.ra, TRUE, FALSE)
BEQ  == Running("beq") /\ \E taken \in BOOLEAN : Called(I.to, taken, FALSE)
BEQL ==
  /\ Running("beql")
  /\ \/ Called(I.to, TRUE, FALSE)
     \/ c' = At([Run EXCEPT !.PC = Plus(c.PC, 2)], "due")

-----------------------------------------------------------------------------
(* The rest of an op, when the one it called is back.                       *)

Popped == [c EXCEPT !.frames = Tail(@)]
Back == c.at = "back" /\ UNCHANGED session

FIN_BLOCK_back ==
  /\ Back /\ Head(c.frames).op = "FIN_BLOCK"
  /\ c' = Ended([Popped EXCEPT !.PC = Head(c.frames).PC])

\* In the pure interpreter only calls see that there was an exception.
Branch_back ==
  /\ Back /\ Head(c.frames).op = "branch"
  /\ LET f == Head(c.frames)  t == [Popped EXCEPT !.delay_slot = FALSE]
         linked == IF f.link THEN [t EXCEPT !.ra = addr(t.PC)] ELSE t IN
     c' = IF ~f.taken \/ (c.skip_jump # 0 /\ (Cached \/ f.link)) THEN At(t, "due")
          ELSE IF f.out \/ f.start = 0 THEN [At(linked, "jump") EXCEPT !.dest = f.to]
          ELSE [At(linked, "due") EXCEPT !.PC = [start |-> f.start, i |-> f.to - f.start]]

jump_to ==
  /\ c.at = "jump" /\ UNCHANGED session
  /\ c' = [At(Jumped(c, c.dest), "due") EXCEPT !.dest = 0]

\* if (next_interrupt <= core_Count) gen_interrupt(); an interrupt is taken
\* when it is enabled, which it is here unless EXL is set.
gen_interrupt ==
  /\ c.at = "due" /\ UNCHANGED session
  /\ IF c.skip_jump # 0
     THEN c' = Ended(Jumped([c EXCEPT !.skip_jump = 0], c.skip_jump))
     ELSE \/ c' = Ended(c)
          \/ ~c.exl /\ c' = Ended(exception_general(c, "interrupt"))

-----------------------------------------------------------------------------
Init ==
  /\ session \in Sessions
  /\ c = [PC |-> Node(session.start), delay_slot |-> FALSE, skip_jump |-> 0,
          frames |-> <<>>, at |-> "op", dest |-> 0,
          epc |-> 0, bd |-> FALSE, exl |-> FALSE, cause |-> <<"none", 0>>,
          ra |-> session.start, tlb |-> session.tlb, done |-> 0]

Next ==
  \/ Fetch \/ FIN_BLOCK \/ NOP \/ Load \/ SYSCALL \/ COP1 \/ MTC0 \/ TLBWR \/ ERET
  \/ J \/ JAL \/ JALR \/ JR \/ BEQ \/ BEQL
  \/ FIN_BLOCK_back \/ Branch_back \/ jump_to \/ gen_interrupt

Spec == Init /\ [][Next]_vars

-----------------------------------------------------------------------------
\* The branch whose op is running, under the FIN_BLOCK it may have called, and
\* what an instruction stream has of it.
Frame  == c.frames[Len(c.frames)]
InSlot == c.frames # <<>> /\ c.skip_jump = 0
Past   == IF Frame.taken THEN Frame.to ELSE addr(c.PC)

Pc == IF c.skip_jump # 0 THEN c.skip_jump
      ELSE IF c.at = "jump" THEN c.dest
      ELSE IF InSlot /\ c.at = "back" THEN Past
      ELSE addr(c.PC)
Slot == IF InSlot /\ c.at = "op"
        THEN <<[to |-> IF Frame.taken THEN Frame.to ELSE c.done + 2, link |-> Frame.link]>>
        ELSE <<>>
Ra == IF InSlot /\ c.at = "back" /\ Frame.link THEN addr(c.PC) ELSE c.ra

Flow == INSTANCE ControlFlow WITH
  code <- session.code, pc <- Pc, branch <- Slot, ra <- Ra,
  epc  <- c.epc, bd <- c.bd, exl <- c.exl, cause <- c.cause, tlb <- c.tlb, done <- c.done

\* Both interpreters run the instructions in the order that the processor
\* does, whatever traps in a delay slot or where a block ends: no slot is lost
\* or run twice, and handlers return to where they can resume.
KeepsFlow == Flow!Spec

\* An op that has been called is in its caller's frame, and a pending handler
\* is one of the vectors.
TypeOK ==
  /\ Len(c.frames) <= 2 /\ c.delay_slot = (c.frames # <<>>)
  /\ \A i \in 1 .. Len(c.frames) :
       c.frames[i].op = IF i = Len(c.frames) THEN "branch" ELSE "FIN_BLOCK"
  /\ c.at \in {"op", "back", "jump", "due"} /\ (c.at = "back" => c.frames # <<>>)
  /\ c.skip_jump \in {0, RefillVector, GeneralVector}
  /\ c.exl \/ c.skip_jump = 0
=============================================================================
