----------------------------- MODULE CodeCache -----------------------------
(* The cached interpreter's blocks and the TLB: a page of code is decoded   *)
(* once per virtual page, under its KSEG0 and KSEG1 addresses and under     *)
(* those the TLB maps to it, and thrown away when invalid_code says so.     *)
(* A page holds few words; a word is its instruction.  The recompiler shares*)
(* this code; the pure interpreter has no blocks and is left out.           *)
EXTENDS Integers, FiniteSets, TLC

CONSTANTS Pages,      \* physical pages of RDRAM
          Words,      \* words of a page, 1..n
          Codes,      \* instructions
          Entries,    \* TLB entries that the program writes
          Mapped,     \* virtual pages the TLB may map
          InState,    \* those whose LUT entries a savestate holds
          Sessions    \* what the program does

NoPage == 0
PagesAssumption == NoPage \notin Pages
InStateAssumption == InState \subseteq Mapped
WordsAssumption == Words \subseteq Int
CodesAssumption == Codes # {}
\* The two halves of an entry map different virtual pages.
SessionsAssumption == \A x \in Sessions :
  /\ x.pages \subseteq Pages
  /\ \A maps \in x.entries :
       /\ maps \subseteq [u : Mapped, p : Pages, d : BOOLEAN]
       /\ \A a, b \in maps : a.u = b.u => a = b

VARIABLES session,
          rdram,          \* page -> word -> instruction
          tlb_e,          \* entry -> its page, and where and how it maps it
          tlb_LUT_r,      \* virtual page -> physical page, or NoPage
          tlb_LUT_w,
          invalid_code,   \* virtual page -> BOOLEAN
          blocks,         \* virtual page -> word -> what is in ops
          adler32,        \* virtual page -> the page it was decoded from, or None
          slot,           \* a savestate
          executed        \* at the last jump: the instruction run, the one in RDRAM

vars == <<session, rdram, tlb_e, tlb_LUT_r, tlb_LUT_w, invalid_code, blocks,
          adler32, slot, executed>>
cache == <<invalid_code, blocks, adler32>>

K0(p) == <<"k0", p>>
K1(p) == <<"k1", p>>
Other(k) == IF k[1] = "k0" THEN K1(k[2]) ELSE K0(k[2])
Direct  == {K0(p) : p \in Pages} \cup {K1(p) : p \in Pages}
M(u)    == <<"m", u>>
Virtual == Direct \cup {M(u) : u \in Mapped}

NotCompiled  == "NOTCOMPILED"
NotCompiled2 == "NOTCOMPILED2"
Op(c)   == ToString(c)
Empty   == [w \in Words |-> NotCompiled]
NoSum   == <<>>

-----------------------------------------------------------------------------
(* Decoding.                                                                *)

\* The physical page behind a virtual one, by the LUT for reads.
Behind(v) == IF v \in Direct THEN v[2] ELSE tlb_LUT_r[v[2]]
\* The virtual pages of the kinds that the session uses.
Reached(kinds) ==
  {v \in Virtual : v[1] \in kinds /\ (v \in Direct => v[2] \in session.pages)}
Decoded(v, w) == blocks[v][w] # NotCompiled

\* update_invalid_addr(): what is invalid under one address is so under another.
Updated(v) ==
  LET k    == IF v \in Direct THEN v ELSE K0(Behind(v))
      both == invalid_code[k] \/ invalid_code[Other(k)]
      self == invalid_code[v] \/ both
  IN  [x \in Virtual |->
         IF x = v THEN self
         ELSE IF x = k THEN both \/ self
         ELSE IF x = Other(k) THEN both ELSE invalid_code[x]]

\* init_block(): the block, the one in KSEG0 of a mapped page, and the other
\* segment's if that is invalid.
Initialised(v, invalid) ==
  LET k == IF v \in Direct THEN v ELSE K0(Behind(v))
  IN  {v, k} \cup {x \in {Other(k)} : invalid[x]}

\* recompile_block() from word w up to the end of a function.
Recompiled(v, w, last, ops) ==
  LET p == Behind(v) IN
  [x \in Virtual |-> [j \in Words |->
     IF j \notin w..last THEN ops[x][j]
     ELSE IF x = v THEN Op(rdram[p][j])
     ELSE IF v \notin Direct /\ x = K0(p) /\ ops[x][j] = NotCompiled THEN NotCompiled2
     ELSE ops[x][j]]]

\* jump_to(), and NOTCOMPILED() where nothing is decoded yet.
Jump == \E v \in Reached(session.jumps), w \in Words :
  /\ Behind(v) # NoPage
  /\ LET invalid == Updated(v)
         fresh   == IF invalid[v] THEN Initialised(v, invalid) ELSE {}
         ops     == [x \in Virtual |-> IF x \in fresh THEN Empty ELSE blocks[x]]
     IN  /\ invalid_code' = [x \in Virtual |-> invalid[x] /\ x \notin fresh]
         /\ IF ops[v][w] \in {NotCompiled, NotCompiled2}
            THEN /\ \E last \in Words : last >= w /\ blocks' = Recompiled(v, w, last, ops)
                 /\ adler32' = [adler32 EXCEPT ![v] = NoSum]
            ELSE blocks' = ops /\ UNCHANGED adler32
  /\ executed' = <<blocks'[v][w], Op(rdram[Behind(v)][w])>>
  /\ UNCHANGED <<session, rdram, tlb_e, tlb_LUT_r, tlb_LUT_w, slot>>

-----------------------------------------------------------------------------
(* Writes.  A store checks the address it was given and, when the TLB       *)
(* translates it, that in KSEG0; a cartridge DMA checks both segments.      *)

Noticed(vs, w) == [x \in Virtual |-> invalid_code[x] \/ (x \in vs /\ Decoded(x, w))]

Put(p, w, c) == rdram' = [rdram EXCEPT ![p][w] = c]

Store == \E v \in Reached(session.stores), w \in Words, c \in Codes :
  /\ \/ /\ v \in Direct
        /\ Put(v[2], w, c)
        /\ invalid_code' = Noticed({v}, w)
     \/ /\ v \notin Direct /\ tlb_LUT_w[v[2]] # NoPage
        /\ Put(tlb_LUT_w[v[2]], w, c)
        /\ invalid_code' = Noticed({v, K0(tlb_LUT_w[v[2]])}, w)
     \/ /\ v \notin Direct /\ tlb_LUT_w[v[2]] = NoPage
        /\ UNCHANGED rdram
        /\ invalid_code' = Noticed({v}, w)
  /\ UNCHANGED <<session, tlb_e, tlb_LUT_r, tlb_LUT_w, blocks, adler32, slot, executed>>

\* Mutant: only one of the two segments is checked.
CartDmaCached == "dma" \in session.stores /\ \E p \in session.pages, w \in Words, c \in Codes :
  /\ Put(p, w, c)
  /\ invalid_code' = Noticed({K0(p)}, w)
  /\ UNCHANGED <<session, tlb_e, tlb_LUT_r, tlb_LUT_w, blocks, adler32, slot, executed>>

CartDma == "dma" \in session.stores /\ \E p \in session.pages, w \in Words, c \in Codes :
  /\ Put(p, w, c)
  /\ invalid_code' = Noticed({K0(p), K1(p)}, w)
  /\ UNCHANGED <<session, tlb_e, tlb_LUT_r, tlb_LUT_w, blocks, adler32, slot, executed>>

InvalidateAll == [x \in Virtual |-> TRUE]

\* The first frame buffer the video plugin reports.
FrameBuffer == "all" \in session.stores
  /\ invalid_code' = InvalidateAll
  /\ UNCHANGED <<session, rdram, tlb_e, tlb_LUT_r, tlb_LUT_w, blocks, adler32, slot, executed>>

-----------------------------------------------------------------------------
(* TLBWI and TLBWR: an entry is the set of its valid halves.                *)

Halves(e)    == {m.u : m \in tlb_e[e]}

\* Mutant: every mapping allows stores.
DirtyAll(maps) == maps

Dirty(maps) == {m \in maps : m.d}

\* Mutant: the direct addresses of the page are not looked at.
UnmappedBlind(u) ==
  IF invalid_code[M(u)] \/ tlb_LUT_r[u] = NoPage THEN NoSum ELSE rdram[tlb_LUT_r[u]]

\* A page that loses its mapping keeps its block, with a check sum.
Unmapped(u) ==
  LET p == tlb_LUT_r[u] IN
  IF invalid_code[M(u)] \/ p = NoPage \/ invalid_code[K0(p)] \/ invalid_code[K1(p)]
  THEN NoSum ELSE rdram[p]

\* The page that m maps is what its block was decoded from.
Same(m, sums) == sums[M(m.u)] # NoSum /\ sums[M(m.u)] = rdram[m.p]

TlbWrite(e, maps) ==
  LET sums == [x \in Virtual |-> IF x \notin Direct /\ x[2] \in Halves(e)
                                 THEN Unmapped(x[2]) ELSE adler32[x]]
      Mapping(ms, lut, gone) == [u \in Mapped |->
         IF \E m \in ms : m.u = u THEN (CHOOSE m \in ms : m.u = u).p
         ELSE IF u \in gone THEN NoPage ELSE lut[u]]
  IN  /\ tlb_e' = [tlb_e EXCEPT ![e] = maps]
      /\ tlb_LUT_r' = Mapping(maps, tlb_LUT_r, Halves(e))
      /\ tlb_LUT_w' = Mapping(Dirty(maps), tlb_LUT_w, {m.u : m \in Dirty(tlb_e[e])})
      /\ adler32' = sums
      /\ invalid_code' = [x \in Virtual |->
           /\ invalid_code[x] \/ (x \notin Direct /\ x[2] \in Halves(e))
           /\ ~\E m \in maps : x = M(m.u) /\ Same(m, sums)]

Tlbw == \E e \in Entries, maps \in session.entries :
  /\ TlbWrite(e, maps)
  /\ UNCHANGED <<session, rdram, blocks, slot, executed>>

-----------------------------------------------------------------------------
(* Savestates hold a quarter of the LUTs; a start clears one of them.       *)

SaveState == "save" \in session.stores
  /\ slot' = [rdram |-> rdram, tlb_e |-> tlb_e, r |-> tlb_LUT_r, w |-> tlb_LUT_w]
  /\ UNCHANGED <<session, rdram, tlb_e, tlb_LUT_r, tlb_LUT_w, cache, executed>>

LoadState == "save" \in session.stores /\ DOMAIN slot # {}
  /\ rdram' = slot.rdram /\ tlb_e' = slot.tlb_e
  /\ tlb_LUT_r' = [u \in Mapped |-> IF u \in InState THEN slot.r[u] ELSE tlb_LUT_r[u]]
  /\ tlb_LUT_w' = [u \in Mapped |-> IF u \in InState THEN slot.w[u] ELSE tlb_LUT_w[u]]
  /\ invalid_code' = InvalidateAll
  /\ UNCHANGED <<session, blocks, adler32, slot, executed>>

Cold == [p \in Pages |-> [w \in Words |-> CHOOSE c \in Codes : TRUE]]

CoreStart == "start" \in session.stores
  /\ rdram' = Cold
  /\ tlb_e' = [e \in Entries |-> {}]
  /\ tlb_LUT_r' = [u \in Mapped |-> NoPage]
  /\ invalid_code' = InvalidateAll
  /\ blocks' = [x \in Virtual |-> Empty]
  /\ adler32' = [x \in Virtual |-> NoSum]
  /\ UNCHANGED <<session, tlb_LUT_w, slot, executed>>

-----------------------------------------------------------------------------
Init ==
  /\ session \in Sessions
  /\ rdram = Cold
  /\ tlb_e = [e \in Entries |-> {}]
  /\ tlb_LUT_r = [u \in Mapped |-> NoPage]
  /\ tlb_LUT_w = [u \in Mapped |-> NoPage]
  /\ invalid_code = InvalidateAll
  /\ blocks = [x \in Virtual |-> Empty]
  /\ adler32 = [x \in Virtual |-> NoSum]
  /\ slot = <<>>
  /\ executed = <<NotCompiled, NotCompiled>>

Next ==
  \/ Jump \/ Store \/ CartDma \/ FrameBuffer \/ Tlbw
  \/ SaveState \/ LoadState \/ CoreStart

Spec == Init /\ [][Next]_vars

-----------------------------------------------------------------------------
\* What a jump runs is the instruction in RDRAM.
JumpsFresh == executed[1] = executed[2]

\* What the table `lut' has for u is what an entry of `tlb' says, one that
\* allows stores if `dirty'.
FollowsAt(lut, tlb, dirty, u) == lut[u] # NoPage =>
  \E e \in Entries : \E m \in tlb[e] : m.u = u /\ m.p = lut[u] /\ (dirty => m.d)

\* An address is translated only as an entry of the TLB says, for stores by an
\* entry that allows them.  The code does not promise it of two kinds of
\* translations: those that savestates leave out (savestates.cpp:161 saves a
\* quarter of each table) and, once a program is started again, those for
\* stores (core_start() clears tlb_LUT_r alone, r4300.cpp:1751).
LutFollowsTlb == \A u \in Mapped : u \in InState \/ "save" \notin session.stores =>
  /\ FollowsAt(tlb_LUT_r, tlb_e, FALSE, u)
  /\ "start" \notin session.stores => FollowsAt(tlb_LUT_w, tlb_e, TRUE, u)

\* A check sum is kept with a block only as long as what is decoded in the
\* block is what the page held when the sum was taken.
SumsTrue == \A x \in Virtual : adler32[x] # NoSum =>
  \A w \in Words : blocks[x][w] \in {NotCompiled, NotCompiled2, Op(adler32[x][w])}

TypeOK ==
  /\ \A e \in Entries : tlb_e[e] \in session.entries \cup {{}}
  /\ tlb_LUT_r \in [Mapped -> Pages \cup {NoPage}] /\ tlb_LUT_w \in [Mapped -> Pages \cup {NoPage}]
  /\ invalid_code \in [Virtual -> BOOLEAN]
  /\ blocks \in [Virtual -> [Words -> {Op(c) : c \in Codes} \cup {NotCompiled, NotCompiled2}]]
  /\ \A x \in Direct : adler32[x] = NoSum
=============================================================================
