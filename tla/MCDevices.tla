----------------------------- MODULE MCDevices -----------------------------
(* An instance of the parts of the machine that keep copies of memory:      *)
(* save files (Storage), decoded and compiled code with the TLB (CodeCache) *)
(* and the recompiler's registers (RegCache), and of the interpreters'      *)
(* control flow (Interpreter).  They share no state in these models: a      *)
(* behaviour plays one session of one of them.                              *)
EXTENDS Integers, Sequences

VARIABLES part,
          saveSession, rom, disk, stream, buf, flash, mem, saved, stop, answer, filled,
          codeSession, rdram, tlb_e, tlb_LUT_r, tlb_LUT_w, invalid_code, blocks,
          adler32, slot, executed,
          regsSession, entry, dst, delay, s,
          flowSession, c

saveVars == <<saveSession, rom, disk, stream, buf, flash, mem, saved, stop, answer, filled>>
codeVars == <<codeSession, rdram, tlb_e, tlb_LUT_r, tlb_LUT_w, invalid_code, blocks,
              adler32, slot, executed>>
regsVars == <<regsSession, entry, dst, delay, s>>
flowVars == <<flowSession, c>>

-----------------------------------------------------------------------------
\* Save files: games, operations, places of DMA, and what the .fla file holds.
S(games, ops, places, fla) == [games |-> games, ops |-> ops, places |-> places, fla |-> fla]
SavePlays == {
  S({"A","B"}, {"eep","wipe","crash"}, {}, <<>>),
  S({"A","B"}, {"mpk","wipe"}, {}, <<>>),
  S({"A","B"}, {"sram","wipe","crash"}, {}, <<>>),
  S({"A","B"}, {"flash"}, {1}, <<>>),
  S({"A"}, {"flash","wipe"}, {1,2}, <<>>),
  S({"A"}, {"flash","crash"}, {1}, <<>>),
  S({"A"}, {"flash","cpu"}, {1}, <<>>),
  S({"A"}, {"flash","state"}, {1}, <<>>),
  S({"A"}, {"flash","sram"}, {1}, <<0,0>>)}

Saves == INSTANCE StorageProofs WITH
  Games <- {"A","B"}, Values <- {0,1}, PakWipe <- 1, PakBlocks <- {1,3},
  Size <- [eep |-> 2, sram |-> 1, flash |-> 2, mpk |-> 4],
  Sessions <- SavePlays, session <- saveSession, slot <- saved

\* Code: kinds of pages that are jumped to and stored to, direct pages in use,
\* and what the program writes to an entry of the TLB.
T(jumps, stores, pages, entries) ==
  [jumps |-> jumps, stores |-> stores, pages |-> pages, entries |-> entries]
Ent(us, ps, ds) == {{m} : m \in [u : us, p : ps, d : ds]}
Both(d) == {[u |-> 1, p |-> 1, d |-> TRUE], [u |-> 2, p |-> 2, d |-> d]}
CodePlays == {
  T({"k0"}, {"k0","dma","m","all"}, {1}, Ent({1},{1,2},{TRUE})),
  T({"k0","k1"}, {"dma","all"}, {1}, {}),
  T({"m"}, {"m","k0","dma"}, {1}, {{}} \cup Ent({1},{1},{TRUE})),
  T({"k0","m"}, {"m"}, {1}, Ent({1},{1},{TRUE})),
  T({"m"}, {"dma","save"}, {1}, Ent({1},{1},{TRUE})),
  T({"k0"}, {"k0","start"}, {1}, Ent({1},{1},BOOLEAN)),
  T({}, {}, {}, {{}, Both(TRUE), Both(FALSE)} \cup Ent({1,2},{1,2},BOOLEAN)),
  T({}, {"save","start"}, {}, {{}, Both(FALSE)} \cup Ent({1},{1,2},{TRUE}))}

Code == INSTANCE CodeCacheProofs WITH
  Pages <- {1,2}, Words <- {1,2}, Codes <- {0,1}, Entries <- {1,2},
  Mapped <- {1,2}, InState <- {1}, Sessions <- CodePlays, session <- codeSession

\* Compiled blocks: forms of instructions, N64 and x86 registers, the registers
\* that hold 32 bit values, the length.  Only a block without a 64 bit value
\* is entered in its middle (README, "Compiled code").
All  == {32, 33, 0, 1, 2, 3}        \* hi, lo and general registers
Wide == {32, 33, 0, 1}
Seven == {0,1,2,3,5,6,7}
P(forms, regs, x86, narrow, n) ==
  [forms |-> forms, regs |-> regs, x86 |-> x86, narrow |-> narrow, length |-> n,
   entries |-> IF narrow = Wide THEN {1} ELSE 1..n]
RegsPlays == {
  P({"addiu","lui"}, {1,2,3}, {0,1}, All, 4),
  P({"addu","lw"}, {0,1,2}, {0,1,2}, All, 3),
  P({"ori","sll"}, {1,2,3}, {0,1,2,3}, All, 3),
  P({"and","lui"}, {1,2}, Seven, All, 4),
  P({"daddu","addiu"}, {1,2}, Seven, Wide, 3),
  P({"slt","dsll32","dsrl32","dsra32"}, {1,2}, {0,1,2,3,5}, All, 3),
  P({"slti","daddiu","dsll"}, {1,2,3}, {0,1,2,3}, Wide, 3),
  P({"sllv","mult"}, {0,1,2}, {0,1,2,3}, All, 3),
  P({"dsllv","lui"}, {0,1,2}, Seven, All, 3),
  P({"move","mult"}, {1,2}, {0,1,2,3,5,6}, All, 3),
  P({"ld","call","sw","addiu"}, {0,1,2}, {0,1,2}, All, 3),
  P({"branch","addiu"}, {0,1,2}, {0,1,2,3}, All, 3),
  P({"branch","ori"}, {0,1,2}, {0,1,2,3}, Wide, 3)}

Regs == INSTANCE RegCacheProofs WITH
  Sessions <- RegsPlays, session <- regsSession, slot <- delay

\* Programs at 1.. and, mapped, 12..17, with handlers that map the missing page
\* at the expense of one of `evict', and return past a fault.
I(op)     == [op |-> op]
L(page)   == [op |-> "load", page |-> page]
B(op, to) == [op |-> op, to |-> to]
Program(ops, start, evict, tlb) ==
  {[core |-> core, start |-> start, tlb |-> tlb,
    code |-> [i \in start..(start + Len(ops) - 1) \cup {50, 51, 60, 61} |->
       IF i < 50 THEN ops[i - start + 1]
       ELSE IF i = 50 THEN [op |-> "tlbw", evict |-> evict]
       ELSE I(IF i = 60 THEN "epc" ELSE "eret")]] : core \in {"cached", "pure"}}
FlowPlays == UNION {
  Program(<<L(7), B("jal",6), L(7), B("j",1), I("nop"), B("jr",0), L(8)>>, 1, {7,8}, {}),
  Program(<<B("beq",4), I("syscall"), I("nop"), B("beql",1), I("cop1"), B("j",1), I("nop")>>, 1, {}, {}),
  Program(<<L(7), B("beq",15), L(8), I("nop"), B("j",12), L(7)>>, 12, {4,5,7,8}, {4}),
  Program(<<I("nop"), L(7), B("beql",12), L(8), B("beq",13), L(7), B("j",12), I("nop")>>, 12, {7,8}, {4,5}),
  Program(<<I("mtc0"), B("jal",15), I("cop1"), I("mtc0"), B("jalr",0), L(7), B("j",12), I("nop")>>, 12, {4,5,7}, {4})}

Flow == INSTANCE InterpreterProofs WITH
  W <- 3, MappedWords <- 12..17, RefillVector <- 50, GeneralVector <- 60,
  Sessions <- FlowPlays, session <- flowSession

ASSUME SavesAssumption ==
  /\ Saves!ValuesAssumption /\ Saves!SizeAssumption
  /\ Saves!GamesAssumption /\ Saves!SessionsAssumption
ASSUME CodeAssumption  ==
  /\ Code!PagesAssumption /\ Code!InStateAssumption /\ Code!WordsAssumption
  /\ Code!CodesAssumption /\ Code!SessionsAssumption

-----------------------------------------------------------------------------
\* A part that is not played stays in one of its initial states.
Idle(sessions) == CHOOSE x \in sessions : TRUE

Init ==
  /\ part \in {"saves", "code", "regs", "flow"}
  /\ Saves!Init /\ Code!Init /\ Regs!Init /\ Flow!Init
  /\ part = "saves" \/ saveSession = Idle(SavePlays)
  /\ part = "code"  \/ codeSession = Idle(CodePlays)
  /\ part = "regs"  \/ (regsSession = Idle(RegsPlays) /\ entry = 1)
  /\ part = "flow"  \/ flowSession = Idle(FlowPlays)

Next ==
  \/ part = "saves" /\ Saves!Next /\ UNCHANGED <<part, codeVars, regsVars, flowVars>>
  \/ part = "code"  /\ Code!Next  /\ UNCHANGED <<part, saveVars, regsVars, flowVars>>
  \/ part = "regs"  /\ Regs!Next  /\ UNCHANGED <<part, saveVars, codeVars, flowVars>>
  \/ part = "flow"  /\ Flow!Next  /\ UNCHANGED <<part, saveVars, codeVars, regsVars>>

Spec == Init /\ [][Next]_<<part, saveVars, codeVars, regsVars, flowVars>>

-----------------------------------------------------------------------------
\* Each part's type invariant.
TypeOK ==
  /\ part = "saves" => Saves!TypeOK
  /\ part = "code"  => Code!TypeOK
  /\ part = "regs"  => Regs!TypeOK
  /\ part = "flow"  => Flow!TypeOK

\* Storage refines SaveMemory: a game reads back from EEPROM, SRAM and paks
\* what it wrote, across ROMs, resets, ends of the program and crashes.  (It is
\* Saves!KeepsSaves; only steps of that part are looked at, as in KeepsFlow.)
KeepsSaves ==
  /\ Saves!Memory!Init
  /\ [][part = "saves" => UNCHANGED Saves!Memory!vars \/ Saves!Memory!Next]_saveVars

\* Flash RAM filled from the game's own file reads back what was programmed.
FlashReadsBack == Saves!FlashReadsBack

\* What a jump runs is the instruction in RDRAM.
JumpsFresh == part = "code" => Code!JumpsFresh

\* An address is translated only as an entry of the TLB says, but for what a
\* savestate leaves out and for stores after a program is started again.
LutFollowsTlb == part = "code" => Code!LutFollowsTlb

\* A block that keeps a check sum was decoded from what the sum was taken of.
SumsTrue == part = "code" => Code!SumsTrue

\* Interpreter refines ControlFlow: instructions run in the processor's order,
\* and an exception returns to where the program can resume.
KeepsFlow ==
  /\ Flow!Flow!Init
  /\ [][part = "flow" => UNCHANGED Flow!Flow!vars \/ Flow!Flow!Next]_flowVars

\* Emitted code takes current values from registers and from memory.
OperandsCurrent == part = "regs" => Regs!OperandsCurrent

\* A value that memory does not have is in a register that will be written.
MemoryCurrent == part = "regs" => Regs!MemoryCurrent

\* A block entered in its middle finds the registers its code expects.
EntryLoads == part = "regs" => Regs!EntryLoads
=============================================================================
