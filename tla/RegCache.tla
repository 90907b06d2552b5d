------------------------------ MODULE RegCache ------------------------------
(* The recompiler's register cache: which x86 register stands for which     *)
(* word of an N64 register while a block of code is emitted, and the        *)
(* registers that a jump into the middle of the block has to load.          *)
(* Emitted code is run as it is emitted, from the instruction at which the  *)
(* block is entered; a value is the word whose current value it is.         *)
EXTENDS Integers, SequencesExt, FiniteSetsExt

CONSTANT Sessions     \* what is compiled: forms of instructions, N64 and x86
                      \* registers, those with a 32 bit value, entries, length

VARIABLES session,
          entry,      \* the instruction where the block is entered
          dst,        \* the instruction that is compiled
          slot,       \* it is the delay slot of the one before it
          s           \* the register cache and the state of emitted code

vars == <<session, entry, dst, slot, s>>

EAX == 0  ECX == 1  EDX == 2  EBX == 3   \* 4 is ESP, which is not used
None == -1
NoWord == <<>>
Zero == 0                                \* the N64 register r0
HI == 32                                 \* hi and lo
LO == 33
Lo(r) == <<r, 0>>
Hi(r) == <<r, 1>>

X     == session.x86
Regs  == session.regs \cup {HI, LO}
Word  == {Lo(r) : r \in Regs} \cup {Hi(r) : r \in Regs}

\* What a register may hold, besides the current value of a word.
Junk   == <<-1, 0>>
Loaded == <<-1, 1>>        \* what it held at the entry: what the wrapper loads

-----------------------------------------------------------------------------
(* Emitted code.  It runs from the entry on; loads[x] is what it takes x to *)
(* have been at the entry, wrong the reads that got something else.         *)

Run(t, x, v) == [t EXCEPT !.hold[x] = v]

\* An instruction reads x as the word w.
Use(t, x, w) ==
  IF t.hold[x] = Loaded THEN [t EXCEPT !.hold[x] = w, !.loads[x] = w]
  ELSE IF t.hold[x] = w THEN t ELSE [t EXCEPT !.wrong = @ \cup {w}]

\* The instruction gives w a new value, in x.
Give(t, w, x) ==
  [t EXCEPT !.mem[w] = FALSE,
            !.hold = [y \in X |->
               IF y = x THEN w
               ELSE IF @[y] = w \/ (@[y] = Loaded /\ t.reg_content[y] = w) THEN Junk ELSE @[y]]]

\* A 32 bit result: the upper word is its sign.
Give32(t, r, x) == [Give(Give(t, Hi(r), None), Lo(r), x) EXCEPT !.narrow = @ \cup {r}]
Give64(t, r, x1, x2) == [Give(Give(t, Lo(r), x1), Hi(r), x2) EXCEPT !.narrow = @ \ {r}]

\* mov reg, [w] (or xor reg, reg for r0), mov [w], reg and sar reg, 31.
Fetch(t, x, w) == Run(t, x, IF t.mem[w] THEN w ELSE Junk)
Copied(t, x)   == IF t.hold[x] = Loaded THEN Use(t, x, t.reg_content[x]) ELSE t
Moved(t, x, w) == [t EXCEPT !.mem[w] = (t.hold[x] = w)]
Put(t, x, w)   == Moved(Copied(t, x), x, w)
Sign(t, x, r)  == IF t.hold[x] = Lo(r) /\ r \in t.narrow THEN Hi(r) ELSE Junk

-----------------------------------------------------------------------------
(* regcache.cpp.  needed is needed_registers[] of the entry.                *)

\* The instructions from first to dst need v in x, or nothing.
Need(t, x, first, v) ==
  IF first <= entry /\ entry <= dst THEN [t EXCEPT !.needed[x] = v] ELSE t

Live(t, x)     == t.last_access[x] # 0
Paired(t, x)   == t.r64[x] # None
Access(t, x)   == [t EXCEPT !.last_access[x] = dst]
Release(t, x)  == [t EXCEPT !.last_access[x] = 0, !.free_since[x] = dst + 1]
Holders(t, w)  == {x \in X : Live(t, x) /\ t.reg_content[x] = w}
Cached(t, w)   == Holders(t, w) # {}
Holder(t, w)   == Min(Holders(t, w))

\* What the instructions since the last access find in x.
Found(t, x) == Need(t, x, t.last_access[x] + 1, t.reg_content[x])

\* Mutant: the pair is forgotten.
KeptLow(t, x) == Found(t, x)

\* ... and in its pair.
Kept(t, x) == IF Paired(t, x) THEN Found(Found(t, x), t.r64[x]) ELSE Found(t, x)

\* What they find where x is written back if it is dirty.
DirtyWord(t, x) == IF t.dirty[x] THEN t.reg_content[x] ELSE NoWord
Left(t, x, first) == Need(t, x, first, DirtyWord(t, x))
Saved(t, x) == Put(t, x, t.reg_content[x])

Signed(t, x, r) == [t EXCEPT !.mem[Hi(r)] = (Sign(t, x, r) = Hi(r)), !.hold[x] = Sign(t, x, r)]

\* x and its pair, of which memory gets both or neither.
Split(t, x) ==
  LET first == t.last_access[x] + 1
      Spill(u) == IF t.dirty[x] THEN Saved(Saved(u, x), t.r64[x]) ELSE u
  IN  Spill(Left(Left(t, x, first), t.r64[x], first))

Freed(t, x) ==
  LET Spill(u) == IF t.dirty[x] THEN Signed(Saved(u, x), x, t.reg_content[x][1]) ELSE u
  IN  IF Paired(t, x) THEN Release(Release(Split(t, x), x), t.r64[x])
      ELSE Release(Spill(Left(t, x, t.last_access[x] + 1)), x)

\* The low register of a pair.
LowOf(t, x) == IF Paired(t, x) /\ t.reg_content[x] = Hi(t.reg_content[x][1]) THEN t.r64[x] ELSE x

free_register(t, x) ==
  IF Live(t, x) THEN Freed(t, LowOf(t, x))
  ELSE [Need(t, x, t.free_since[x], NoWord) EXCEPT !.free_since[x] = dst + 1]

free_all_registers(t) == FoldSet(LAMBDA x, u : free_register(u, x), t, X)

lru(t, xs) == CHOOSE x \in xs : \A y \in xs :
  \/ t.last_access[x] < t.last_access[y]
  \/ t.last_access[x] = t.last_access[y] /\ x <= y
lru_register(t) == lru(t, X)

\* The least recently used register, cleared for the word w.
Taken(t, x, w, d) ==
  [free_register(t, x) EXCEPT !.last_access[x] = dst, !.reg_content[x] = w,
                              !.dirty[x] = d, !.r64[x] = None]
Filled(t, x, w) == IF w = NoWord THEN t ELSE Fetch(t, x, w)

\* Each of these returns the new state, its member x the register.
At(t, x) == [t EXCEPT !.x = x]

Hit(t, x) == At(IF Paired(t, x) THEN Access(Access(t, x), t.r64[x]) ELSE Access(t, x), x)
Missed(t, x, w) == At(Filled(Taken(t, x, w, FALSE), x, w), x)

allocate_register(t, w) ==
  IF w # NoWord /\ Cached(t, w) THEN Hit(Kept(t, Holder(t, w)), Holder(t, w))
  ELSE Missed(t, lru_register(t), w)

Pair(t, x1, x2) == [t EXCEPT !.r64[x1] = x2, !.r64[x2] = x1]

\* The register t.x becomes the upper word of the value in i.
Joined(t, i) == At(Pair(t, i, t.x), i)
Extended(t, i, r) ==
  Joined(Run([t EXCEPT !.reg_content[t.x] = Hi(r), !.dirty[t.x] = TRUE], t.x, Sign(t, i, r)), i)
Upper(t, r, extend) ==
  IF extend THEN Extended(Copied(allocate_register(t, NoWord), t.x), t.x, r)
  ELSE Joined(allocate_register(t, Hi(r)), t.x)

\* A dirty 32 bit value, which is sign extended to be one of 64 bits.
DirtyLow(t, r) == \E x \in Holders(t, Lo(r)) : ~Paired(t, x) /\ t.dirty[x]

\* Both registers of a 64 bit value; the low one's number is returned.
allocate_64_register(t, r) == Upper(allocate_register(t, Lo(r)), r, DirtyLow(t, r))

\* A register that is about to be written: its pair is dropped.
Unpaired(t, i) ==
  IF ~Paired(t, i) THEN t
  ELSE Release([Need(t, t.r64[i], t.last_access[t.r64[i]] + 1, NoWord) EXCEPT !.r64[i] = None],
               t.r64[i])
Written(t, i) == At(Unpaired(Access(Need(t, i, t.last_access[i] + 1, NoWord), i), i), i)

\* Mutant: a register that is read first stays clean.
allocate_register_wClean(t, w) ==
  IF Cached(t, w) THEN Written(t, Holder(t, w))
  ELSE At(Taken(t, lru_register(t), w, TRUE), lru_register(t))

Dirtied(t, x) == [t EXCEPT !.dirty[x] = TRUE]

allocate_register_w(t, w) ==
  IF Cached(t, w) THEN Dirtied(Written(t, Holder(t, w)), Holder(t, w))
  ELSE At(Taken(t, lru_register(t), w, TRUE), lru_register(t))

\* The least recently used register is freed unless a 32 bit value was cached.
Second(t, r, widen) ==
  LET j == lru_register(t)
      Upped(u) == Run([u EXCEPT !.x = j, !.last_access[j] = dst, !.reg_content[j] = Hi(r),
                                !.dirty[j] = TRUE], j, Junk)
  IN  Joined(Upped(IF widen /\ ~Live(t, j) THEN t ELSE free_register(t, j)), t.x)

PairWritten(t, i) == At(Dirtied(Dirtied(Access(Access(t, i), t.r64[i]), i), t.r64[i]), i)

allocate_64_register_w(t, r) ==
  IF Cached(t, Lo(r)) /\ Paired(t, Holder(t, Lo(r))) THEN PairWritten(t, Holder(t, Lo(r)))
  ELSE Second(allocate_register_w(t, Lo(r)), r, Cached(t, Lo(r)))

\* x takes over what the register i has.
Inherits(t, x, i, w) ==
  Release([t EXCEPT !.hold[x] = t.hold[i], !.last_access[x] = dst,
                    !.dirty[x] = t.dirty[i], !.reg_content[x] = w,
                    !.r64 = [y \in X |-> IF y = x THEN t.r64[i] ELSE IF y = t.r64[i] THEN x ELSE @[y]]], i)
Claimed(t, x, w) ==
  IF Cached(t, w) THEN Inherits(Copied(allocate_register(t, w), Holder(t, w)), x, Holder(t, w), w)
  ELSE Fetch(Taken(t, x, w, FALSE), x, w)

allocate_register_manually(t, x, w) ==
  IF Live(t, x) /\ t.reg_content[x] = w THEN allocate_register(t, w)
  ELSE Claimed(free_register(t, x), x, w)

\* Without load, as every caller has it.
Claimed_w(t, x, w) ==
  LET Drop(i) == Release(Unpaired(Need(t, i, t.last_access[i] + 1, w), i), i)
  IN  Taken(IF Cached(t, w) THEN Drop(Holder(t, w)) ELSE t, x, w, TRUE)
Reused(t, x) ==
  IF Paired(t, x) THEN [Release(t, t.r64[x]) EXCEPT !.r64[x] = None] ELSE t

allocate_register_manually_w(t, x, w) ==
  IF Live(t, x) /\ t.reg_content[x] = w THEN Dirtied(Reused(Access(Kept(t, x), x), x), x)
  ELSE Claimed_w(free_register(t, x), x, w)

set_register_state(t, x, w) ==
  [t EXCEPT !.last_access[x] = dst, !.reg_content[x] = w, !.dirty[x] = TRUE, !.r64[x] = None]
set_64_register_state(t, x1, x2, r) ==
  Pair(set_register_state(set_register_state(t, x1, Lo(r)), x2, Hi(r)), x1, x2)

force_32(t, x) ==
  IF ~Paired(t, x) THEN t
  ELSE Release([Split(t, x) EXCEPT !.dirty[x] = FALSE, !.r64[x] = None], t.r64[x])

\* The code of an instruction starts: where the block is entered, with every
\* word in memory and in the registers what the wrapper loads.
Started(t) ==
  [t EXCEPT !.hold   = [x \in X |-> Loaded],
            !.loads  = [x \in X |-> NoWord],
            !.mem    = [w \in Word |-> TRUE],
            !.narrow = session.narrow,
            !.wrong  = {}]
Entered(t) == IF dst = entry /\ ~slot THEN Started(t) ELSE t

Simplest(t) == IF slot THEN t ELSE Started(t)
simplify_access(t) ==
  IF dst # entry THEN t ELSE Simplest([t EXCEPT !.needed = [x \in X |-> NoWord]])

-----------------------------------------------------------------------------
(* Instructions.  The recompiler's code for one is a sequence of calls; the *)
(* registers these allocate are v[1], v[2] and so on, each with its pair.   *)

\* Mutant: without free_register().
ScratchKept(t, x) == Run(t, x, Junk)

\* temp: its old value is gone.
Scratch(t, x) == Run(free_register(t, x), x, Junk)

FromMemory(t, ws) == [t EXCEPT !.wrong = @ \cup {w \in ws : ~t.mem[w]}]
Words64(rs) == {Lo(r) : r \in rs} \cup {Hi(r) : r \in rs}

R32(r) == [call |-> "allocate_register", r |-> r]
W32(r) == [call |-> "allocate_register_w", r |-> r]
R64(r) == [call |-> "allocate_64_register", r |-> r]
W64(r) == [call |-> "allocate_64_register_w", r |-> r]
Manually(x, r)   == [call |-> "allocate_register_manually", x |-> x, r |-> r]
Manually_w(x, r) == [call |-> "allocate_register_manually_w", x |-> x, r |-> r]
Set32(r) == [call |-> "set_register_state", r |-> r]
Set64(r) == [call |-> "set_64_register_state", r |-> r]
TempIf(ks) == [call |-> "temp", ks |-> ks]          \* if v[3] is one of these
Temps      == [call |-> "temps"]
FreeAll    == [call |-> "free_all_registers"]
\* free_all_registers(), simplify_access() and code that works on memory.
Simplified(ws) == [call |-> "simplify_access", ws |-> ws]
Mem(ws)        == [call |-> "mem", ws |-> ws]
Narrow(rs)     == [call |-> "narrow", rs |-> rs]
Havoc(rd, n)   == [call |-> "havoc", rd |-> rd, n |-> n]
\* Emitted code: v[k] is read as a word of r or as both, or gets a new value.
Reads(k, r)    == [call |-> "reads", k |-> k, r |-> r]
ReadsHi(k, r)  == [call |-> "readsHi", k |-> k, r |-> r]
Gives32(k, r)  == [call |-> "gives32", k |-> k, r |-> r]
Gives64(k, r)  == [call |-> "gives64", k |-> k, r |-> r]
Reads64(k, r)  == <<Reads(k, r), ReadsHi(k, r)>>

New(t) == [t EXCEPT !.v = Append(@, <<t.x, t.r64[t.x]>>)]

\* Two free registers, if ECX is one of those of the result.
TwoScratch(t, x) == Scratch(Scratch(t, x), lru(t, X \ {x}))
TwoTemps(t) ==
  LET Forced(f) == TwoScratch(f, lru_register(f))
  IN  IF ECX \in {t.v[3][1], t.v[3][2]} THEN Forced(force_32(t, ECX)) ELSE t

Call(t, o) ==
  CASE o.call = "allocate_register"      -> New(allocate_register(t, Lo(o.r)))
    [] o.call = "allocate_register_w"    -> New(allocate_register_w(t, Lo(o.r)))
    [] o.call = "allocate_64_register"   -> New(allocate_64_register(t, o.r))
    [] o.call = "allocate_64_register_w" -> New(allocate_64_register_w(t, o.r))
    [] o.call = "allocate_register_manually" ->
         New(At(allocate_register_manually(t, o.x, Lo(o.r)), o.x))
    [] o.call = "allocate_register_manually_w" ->
         New(At(allocate_register_manually_w(t, o.x, Lo(o.r)), o.x))
    [] o.call = "set_register_state"     -> New(At(set_register_state(t, EAX, Lo(o.r)), EAX))
    [] o.call = "set_64_register_state"  -> New(At(set_64_register_state(t, EAX, ECX, o.r), EAX))
    [] o.call = "temp"    -> IF \E k \in o.ks : t.v[k][1] = t.v[3][1] THEN Scratch(t, lru_register(t)) ELSE t
    [] o.call = "temps"   -> TwoTemps(t)
    [] o.call = "free_all_registers" -> free_all_registers(t)
    [] o.call = "simplify_access"    -> FromMemory(simplify_access(free_all_registers(t)), o.ws)
    [] o.call = "mem"     -> FromMemory(t, o.ws)
    [] o.call = "narrow"  -> [t EXCEPT !.wrong = @ \cup {Hi(r) : r \in o.rs \ t.narrow}]
    [] o.call = "havoc"     -> [t EXCEPT !.narrow = IF o.n THEN @ \cup o.rd ELSE @ \ o.rd]
    [] o.call = "reads"   -> Use(t, t.v[o.k][1], Lo(o.r))
    [] o.call = "readsHi" -> Use(t, t.v[o.k][2], Hi(o.r))
    [] o.call = "gives32" -> Give32(t, o.r, t.v[o.k][1])
    [] o.call = "gives64" -> Give64(t, o.r, t.v[o.k][1], t.v[o.k][2])

Emitted(t, code) == FoldLeft(Call, t, code)

\* addi, addiu and andi; sll, srl and sra alike.
genaddiu(rs, rt) == <<R32(rs), W32(rt), Reads(1, rs), Gives32(2, rt)>>
gensll(rt, rd)   == genaddiu(rt, rd)

\* ori and xori; daddi, daddiu and the short 64 bit shifts alike.
genori(rs, rt)    == <<R64(rs), W64(rt)>> \o Reads64(1, rs) \o <<Gives64(2, rt)>>
gendaddiu(rs, rt) == genori(rs, rt)
gendsll(rt, rd)   == genori(rt, rd)
genslti(rs, rt)   == <<R64(rs), W32(rt)>> \o Reads64(1, rs) \o <<Gives32(2, rt)>>

gendsll32(rt, rd) == <<R64(rt), W64(rd), Reads(1, rt), Gives64(2, rd)>>
gendsrl32(rt, rd) == <<R64(rt), W64(rd), ReadsHi(1, rt), Gives64(2, rd)>>
gendsra32(rt, rd) == <<R64(rt), W32(rd), ReadsHi(1, rt), Gives32(2, rd)>>

\* mfhi, mflo, mthi and mtlo.
genmfhi(from, to) == <<W64(to), R64(from)>> \o Reads64(2, from) \o <<Gives64(1, to)>>

genlw(rs, rt) == <<Simplified({Lo(rs)}), Set32(rt), Gives32(1, rt)>>
genld(rs, rt) == <<Simplified({Lo(rs)}), Set64(rt), Gives64(1, rt)>>
gensw(rs, rt) == <<Simplified({Lo(rs), Lo(rt)})>>

\* add, addu, sub and subu.
genaddu(rs, rt, rd) ==
  <<R32(rs), R32(rt), W32(rd), TempIf({1, 2}), Reads(1, rs), Reads(2, rt), Gives32(3, rd)>>

gensllv(rs, rt, rd) ==
  <<Manually(ECX, rs), R32(rt), W32(rd), TempIf({1}), Reads(1, rs), Reads(2, rt), Gives32(3, rd)>>

\* dadd, daddu, dsub and dsubu; and, or, xor and nor alike.
gendaddu(rs, rt, rd) ==
  <<R64(rs), R64(rt), W64(rd), TempIf({1, 2})>> \o Reads64(1, rs) \o Reads64(2, rt) \o <<Gives64(3, rd)>>
genand(rs, rt, rd) == gendaddu(rs, rt, rd)
genslt(rs, rt, rd) ==
  <<R64(rs), R64(rt), W32(rd)>> \o Reads64(1, rs) \o Reads64(2, rt) \o <<Gives32(3, rd)>>

gendsllv(rs, rt, rd) ==
  <<Manually(ECX, rs), R64(rt), W64(rd), Temps, Reads(1, rs)>> \o Reads64(2, rt) \o <<Gives64(3, rd)>>

genmult(rs, rt) ==
  <<Manually_w(EAX, LO), Manually_w(EDX, HI), R32(rs), R32(rt),
    Reads(3, rs), Reads(4, rt), Gives32(1, LO), Gives32(2, HI)>>

\* An interpreted instruction may leave any value in rd.
gencallinterp(rd, n) == <<Simplified(Word), Havoc(rd, n)>>

genlui(rt) == <<W32(rt), Gives32(1, rt)>>
genjr(rs)  == <<Simplified({Lo(rs)})>>

\* -1, 0 and 1 in the code.
is64(t, r) == IF ~Cached(t, Lo(r)) THEN "no" ELSE IF Paired(t, Holder(t, Lo(r))) THEN "64" ELSE "32"

\* Low words that are compared stand for their registers.
genbeq_test(t, rs, rt) ==
  LET Read(k, r) == <<R64(r)>> \o Reads64(k, r)
  IN  CASE is64(t, rs) = "32" /\ is64(t, rt) = "32" ->
             <<R32(rs), R32(rt), Reads(1, rs), Reads(2, rt), Narrow({rs, rt})>>
        [] is64(t, rs) = "no" -> Read(1, rt) \o <<Mem(Words64({rs}))>>
        [] is64(t, rs) # "no" /\ is64(t, rt) = "no" -> Read(1, rs) \o <<Mem(Words64({rt}))>>
        [] is64(t, rs) = "32" /\ is64(t, rt) = "64" -> Read(1, rt) \o Read(2, rs)
        [] is64(t, rs) = "64" /\ is64(t, rt) # "no" -> Read(1, rs) \o Read(2, rt)

genbltz_test(t, rs) ==
  CASE is64(t, rs) = "32" -> <<R32(rs), Reads(1, rs), Narrow({rs})>>
    [] is64(t, rs) = "no" -> <<Mem({Hi(rs)})>>
    [] is64(t, rs) = "64" -> <<R64(rs), ReadsHi(1, rs)>>

\* The link is an address, whose upper word is its sign.
genbranchlink(t, r31) ==
  CASE is64(t, r31) = "32" -> <<W32(r31), Gives32(Len(t.v) + 1, r31)>>
    [] is64(t, r31) = "no" -> <<Havoc({r31}, TRUE)>>
    [] is64(t, r31) = "64" -> <<W64(r31), Gives64(Len(t.v) + 1, r31), Havoc({r31}, TRUE)>>
Linked(t, r31) == Emitted(t, genbranchlink(t, r31))

-----------------------------------------------------------------------------
(* recompile_block().                                                       *)

\* What no instruction looks at again is forgotten.
Forgotten(t, dead) ==
  [t EXCEPT !.reg_content = [x \in X |-> IF x \in dead THEN NoWord ELSE @[x]],
            !.dirty = [x \in X |-> x \notin dead /\ @[x]],
            !.r64   = [x \in X |-> IF x \in dead THEN None ELSE @[x]],
            !.hold  = [x \in X |-> IF x \in dead THEN Junk ELSE @[x]],
            !.x     = 0,
            !.v     = <<>>]
Tidied(t, running) ==
  LET Start(u) == IF running THEN u ELSE Started(u)
  IN  Start(Forgotten(t, {x \in X : ~Live(t, x)}))

\* The code runs from the entry on, at which a delay slot stands by itself.
Running == IF slot THEN dst > entry ELSE dst >= entry

\* A delay slot is compiled with its branch, then again by itself.
Compiled(t) ==
  /\ dst <= session.length
  /\ s' = Tidied(IF slot THEN free_all_registers(t) ELSE t, Running)
  /\ dst' = IF slot THEN dst ELSE dst + 1
  /\ slot' = FALSE
  /\ UNCHANGED <<session, entry>>
Emit(code) == Compiled(Emitted(Entered(s), code))

Now == Entered(s)
Sources == session.regs
Targets == session.regs \ {Zero}

\* Instructions by their operands.  Not a 64 bit shift into the register that
\* holds the amount (README).
Code2(form, rs, rd) ==
  CASE form = "addiu"  -> genaddiu(rs, rd)   [] form = "sll"    -> gensll(rs, rd)
    [] form = "ori"    -> genori(rs, rd)     [] form = "daddiu" -> gendaddiu(rs, rd)
    [] form = "slti"   -> genslti(rs, rd)    [] form = "dsll"   -> gendsll(rs, rd)
    [] form = "dsll32" -> gendsll32(rs, rd)  [] form = "dsrl32" -> gendsrl32(rs, rd)
    [] form = "dsra32" -> gendsra32(rs, rd)
    [] form = "lw"     -> genlw(rs, rd)      [] form = "ld"     -> genld(rs, rd)
Code3(form, rs, rt, rd) ==
  CASE form = "addu"  -> genaddu(rs, rt, rd)   [] form = "sllv" -> gensllv(rs, rt, rd)
    [] form = "daddu" -> gendaddu(rs, rt, rd)  [] form = "and"  -> genand(rs, rt, rd)
    [] form = "slt"   -> genslt(rs, rt, rd)    [] form = "dsllv" -> gendsllv(rs, rt, rd)

Alu2 == \E form \in session.forms \cap {"addiu", "sll", "ori", "daddiu", "slti", "dsll",
                                        "dsll32", "dsrl32", "dsra32", "lw", "ld"},
           rs \in Sources, rd \in Targets : Emit(Code2(form, rs, rd))
Alu3 == \E form \in session.forms \cap {"addu", "sllv", "daddu", "and", "slt", "dsllv"},
           rs, rt \in Sources, rd \in Targets :
             (form = "dsllv" => rd # rs) /\ Emit(Code3(form, rs, rt, rd))
Stores ==  \E form \in session.forms \cap {"mult", "sw"}, rs, rt \in Sources :
  Emit(IF form = "mult" THEN genmult(rs, rt) ELSE gensw(rs, rt))
Lui == "lui" \in session.forms /\ \E rt \in Targets : Emit(genlui(rt))
Move == "move" \in session.forms /\ \E r \in {HI, LO}, g \in Sources, to \in BOOLEAN :
  (to \/ g # Zero) /\ Emit(IF to THEN genmfhi(g, r) ELSE genmfhi(r, g))
Interpreted == "call" \in session.forms /\ \E rd \in {{}} \cup {{r} : r \in Targets}, n \in BOOLEAN :
  Emit(gencallinterp(rd, n))

\* A branch leaves its delay slot to the next instruction; a likely one frees
\* the registers first.
Branch(t) ==
  /\ "branch" \in session.forms /\ dst < session.length /\ ~slot
  /\ s' = Tidied(t, Running)
  /\ dst' = dst + 1 /\ slot' = TRUE
  /\ UNCHANGED <<session, entry>>

Tests(test, rs, rt) ==
  CASE test = "beq"  -> genbeq_test(Now, rs, rt)
    [] test = "beql" -> genbeq_test(Now, rs, rt) \o <<FreeAll>>
    [] test = "bltz" -> genbltz_test(Now, rs)
    [] test = "jr"   -> genjr(rs)

Branches == \E rs, rt \in Sources :
  \/ \E test \in {"beq", "beql", "bltz", "jr"} : Branch(Emitted(Now, Tests(test, rs, rt)))
  \/ rt # Zero /\ Branch(Linked(Emitted(Now, genbltz_test(Now, rs)), rt))

Init ==
  /\ session \in Sessions
  /\ entry \in session.entries
  /\ dst = 1 /\ slot = FALSE
  /\ s = Tidied(Started(
       [last_access |-> [x \in X |-> 0], reg_content |-> [x \in X |-> NoWord],
        free_since |-> [x \in X |-> 1], dirty |-> [x \in X |-> FALSE],
        r64 |-> [x \in X |-> None], needed |-> [x \in X |-> NoWord],
        hold |-> <<>>, loads |-> <<>>, mem |-> <<>>, narrow |-> {}, wrong |-> {}, x |-> 0, v |-> <<>>]), FALSE)

Next == Alu2 \/ Alu3 \/ Stores \/ Lui \/ Move \/ Interpreted \/ Branches

Spec == Init /\ [][Next]_vars

-----------------------------------------------------------------------------
\* Whatever emitted code takes from a register or from memory is the current
\* value of the word it stands for, wherever the block was entered.
OperandsCurrent == s.wrong = {}

\* What memory does not have is in a dirty register that will be written back.
MemoryCurrent == \A w \in Word : ~s.mem[w] =>
  \E x \in X : Live(s, x) /\ s.dirty[x]
    /\ s.reg_content[x] \in {w} \cup (IF Paired(s, x) THEN {} ELSE {Lo(w[1])})

\* A jump into the block finds in the registers what the code there expects:
\* the wrapper loads every register that is used before it is written.
EntryLoads == \A x \in X : s.loads[x] # NoWord => s.needed[x] = s.loads[x]

TypeOK ==
  /\ \A x \in X : Live(s, x) =>
       /\ s.reg_content[x] \in Word
       /\ Paired(s, x) => Live(s, s.r64[x]) /\ s.r64[s.r64[x]] = x
  /\ \A w \in Word : Cardinality(Holders(s, w)) <= 1
=============================================================================
