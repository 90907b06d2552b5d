-------------------------- MODULE CodeCacheProofs --------------------------
(***************************************************************************)
(* Jumps run what is in RDRAM, check sums speak of what they were taken of, *)
(* and the translation tables follow the TLB, for every size of the machine *)
(* and for every program within the limits of Coherent (the tables: for all).*)
EXTENDS CodeCache, TLAPS

\* What a program may mix.  Stores under KSEG1 addresses are noticed there
\* alone; so are stores under KSEG0 addresses, and those the TLB maps, when
\* code runs under KSEG1; and of the mapped addresses of a page, one may have
\* code, if the page's own addresses run none or are not stored to.
Private(s) == \A a, b \in UNION s.entries : a.u = b.u <=> a.p = b.p
Coherent(s) ==
  /\ "k1" \notin s.stores
  /\ "k1" \in s.jumps => s.stores \cap {"k0", "m"} = {}
  /\ "m" \in s.jumps => /\ Private(s) /\ "k1" \notin s.jumps
                        /\ "k0" \in s.jumps => s.stores \cap {"k0", "dma"} = {}

-----------------------------------------------------------------------------
(* The inductive invariant.                                                *)

Ops == {Op(c) : c \in Codes} \cup {NotCompiled, NotCompiled2}
Page == [Words -> Codes]
Lut  == [Mapped -> Pages \cup {NoPage}]
Tlb  == [Entries -> session.entries \cup {{}}]

\* Some half of some entry maps u to p.
Home(u, p) == \E m \in UNION session.entries : m.u = u /\ m.p = p
Maps(lut) == \A u \in Mapped : lut[u] # NoPage => Home(u, lut[u])

StateOK ==
  /\ session \in Sessions
  /\ rdram \in [Pages -> Page]
  /\ tlb_e \in Tlb
  /\ tlb_LUT_r \in Lut /\ Maps(tlb_LUT_r)
  /\ tlb_LUT_w \in Lut /\ Maps(tlb_LUT_w)
  /\ invalid_code \in [Virtual -> BOOLEAN]
  /\ blocks \in [Virtual -> [Words -> Ops]]
  /\ adler32 \in [Virtual -> Page \cup {NoSum}]
  /\ \A x \in Direct : adler32[x] = NoSum
  /\ DOMAIN slot # {} =>
       /\ slot.rdram \in [Pages -> Page] /\ slot.tlb_e \in Tlb
       /\ slot.r \in Lut /\ Maps(slot.r)
       /\ slot.w \in Lut /\ Maps(slot.w)

\* What is decoded under x is what page p holds; nothing is.
Clean(x, p) == \A w \in Words : blocks[x][w] \in {NotCompiled, NotCompiled2, Op(rdram[p][w])}
Bare(x)     == blocks[x] = Empty

\* Code under the addresses that the program does not jump to.
BareOK ==
  /\ "k1" \notin session.jumps => \A p \in Pages : Bare(K1(p))
  /\ "m" \notin session.jumps => \A u \in Mapped : Bare(M(u))

\* Valid code under a page's own addresses.
DirectOK == \A x \in Direct : ~invalid_code[x] => Clean(x, x[2])

\* Valid code of a mapped page, unless stores have yet to reach it through the
\* page's KSEG0 address.
MappedOK == \A u \in Mapped :
  ~invalid_code[M(u)] =>
    /\ tlb_LUT_r[u] # NoPage
    /\ "k0" \in session.jumps \/ ~invalid_code[K0(tlb_LUT_r[u])] => Clean(M(u), tlb_LUT_r[u])

\* They reach it: what is decoded there is marked as decoded in KSEG0.
MarkedOK == "k0" \notin session.jumps =>
  \A u \in Mapped, p \in Pages : Home(u, p) /\ ~invalid_code[K0(p)] =>
    \A w \in Words : Decoded(M(u), w) => Decoded(K0(p), w)

\* The inductive invariant.
IInv == StateOK /\ BareOK /\ DirectOK /\ MappedOK /\ MarkedOK /\ SumsTrue /\ JumpsFresh

\* What the constants are, and what the programs mix.
Limits == PagesAssumption /\ WordsAssumption /\ CodesAssumption /\ SessionsAssumption
          /\ \A x \in Sessions : Coherent(x)

-----------------------------------------------------------------------------
(* Virtual pages.                                                          *)

\* The two direct addresses of a page, its kind and number read back from them.
LEMMA DirectPages ==
  \A p \in Pages :
    /\ K0(p) \in Direct /\ K1(p) \in Direct
    /\ K0(p)[1] = "k0" /\ K0(p)[2] = p /\ K1(p)[1] = "k1" /\ K1(p)[2] = p
    /\ Other(K0(p)) = K1(p) /\ Other(K1(p)) = K0(p)
BY DEF K0, K1, Direct, Other

\* Every direct page is one of those.
LEMMA DirectForms == \A x \in Direct : \E p \in Pages : x = K0(p) \/ x = K1(p)
BY DEF Direct

\* The mapped ones are no direct pages.
LEMMA MappedPages ==
  \A u \in Mapped : M(u) \in Virtual /\ M(u) \notin Direct /\ M(u)[1] = "m" /\ M(u)[2] = u
BY DEF M, Direct, Virtual, K0, K1

\* A virtual page is direct or mapped.
LEMMA VirtualForms ==
  /\ Direct \subseteq Virtual
  /\ \A x \in Virtual : x \in Direct \/ \E u \in Mapped : x = M(u)
BY DEF Virtual

-----------------------------------------------------------------------------
(* What the limits and the types give to every step.                       *)

LEMMA Mixing ==
  ASSUME Limits, StateOK
  PROVE  /\ "k1" \notin session.stores
         /\ "k1" \in session.jumps =>
              "k0" \notin session.stores /\ "m" \notin session.stores /\ "m" \notin session.jumps
         /\ "m" \in session.jumps /\ "k0" \in session.jumps =>
              "k0" \notin session.stores /\ "dma" \notin session.stores
         /\ "m" \in session.jumps =>
              \A u1, u2, p1, p2 : Home(u1, p1) /\ Home(u2, p2) => (u1 = u2 <=> p1 = p2)
BY DEF Limits, StateOK, Coherent, Private, Home

\* A translation leads to a page that some entry maps.
LEMMA Translations ==
  ASSUME StateOK
  PROVE  \A u \in Mapped :
           /\ tlb_LUT_r[u] # NoPage => tlb_LUT_r[u] \in Pages /\ Home(u, tlb_LUT_r[u])
           /\ tlb_LUT_w[u] # NoPage => tlb_LUT_w[u] \in Pages /\ Home(u, tlb_LUT_w[u])
BY DEF StateOK, Lut, Maps

\* The page behind a virtual one that is translated.
LEMMA BehindPage ==
  ASSUME StateOK, NEW v \in Virtual, Behind(v) # NoPage
  PROVE  /\ Behind(v) \in Pages
         /\ v \in Direct => Behind(v) = v[2]
         /\ \A u \in Mapped : v = M(u) => Behind(v) = tlb_LUT_r[u]
BY Translations, DirectForms, DirectPages, MappedPages, VirtualForms DEF Behind

LEMMA Reaches ==
  ASSUME NEW kinds, NEW v \in Reached(kinds)
  PROVE  v \in Virtual /\ v[1] \in kinds
BY DEF Reached

-----------------------------------------------------------------------------
(* A jump.                                                                 *)

\* What is invalid stays so until the block is initialised; then it is valid
\* under the address of the jump and the page's own addresses.
LEMMA UpdatedFacts ==
  ASSUME Limits, StateOK, NEW v \in Virtual, Behind(v) # NoPage,
         NEW k, k = IF v \in Direct THEN v ELSE K0(Behind(v))
  PROVE  /\ Updated(v) \in [Virtual -> BOOLEAN]
         /\ \A x \in Virtual : invalid_code[x] => Updated(v)[x]
         /\ k \in Direct /\ Other(k) \in Direct
         /\ ~Updated(v)[v] => ~invalid_code[v] /\ ~invalid_code[k]
<1>1. k \in Direct /\ Other(k) \in Direct /\ k # Other(k)
  BY BehindPage, DirectForms, DirectPages, "k0" # "k1"
<1>2. invalid_code \in [Virtual -> BOOLEAN]
  BY DEF StateOK
<1>3. k \in Virtual /\ Other(k) \in Virtual
  BY <1>1, VirtualForms
<1> DEFINE b == invalid_code[k] \/ invalid_code[Other(k)]
<1>4. Updated(v) = [x \in Virtual |->
         IF x = v THEN invalid_code[v] \/ b
         ELSE IF x = k THEN b \/ (invalid_code[v] \/ b)
         ELSE IF x = Other(k) THEN b ELSE invalid_code[x]]
  BY DEF Updated
<1> HIDE DEF b
<1>5. b \in BOOLEAN
  BY <1>2, <1>3 DEF b
<1>6. Updated(v) \in [Virtual -> BOOLEAN]
  BY <1>2, <1>4, <1>5
<1>7. \A x \in Virtual : invalid_code[x] => Updated(v)[x]
  BY <1>2, <1>3, <1>4, <1>5 DEF b
<1>8. ~Updated(v)[v] => ~invalid_code[v] /\ ~invalid_code[k]
  BY <1>2, <1>3, <1>4, <1>5 DEF b
<1> QED
  BY <1>1, <1>6, <1>7, <1>8

\* Recompiling decodes the page behind v under v, and marks it in KSEG0.
LEMMA RecompiledFacts ==
  ASSUME Limits, StateOK, NEW v \in Virtual, Behind(v) # NoPage,
         NEW w \in Words, NEW last \in Words, last >= w,
         NEW ops \in [Virtual -> [Words -> Ops]]
  PROVE  LET new == Recompiled(v, w, last, ops)  p == Behind(v) IN
         /\ new \in [Virtual -> [Words -> Ops]]
         /\ new[v][w] = Op(rdram[p][w])
         /\ \A x \in Virtual, j \in Words :
              \/ new[x][j] = ops[x][j]
              \/ x = v /\ new[x][j] = Op(rdram[p][j])
              \/ v \notin Direct /\ x = K0(p) /\ new[x][j] = NotCompiled2
         /\ \A j \in Words : v \notin Direct /\ new[v][j] # ops[v][j] => new[K0(p)][j] # NotCompiled
<1> DEFINE new == Recompiled(v, w, last, ops)
           p == Behind(v)
<1>1. p \in Pages /\ K0(p) \in Direct /\ K0(p) \in Virtual
  BY BehindPage, DirectPages, VirtualForms
<1>2. rdram \in [Pages -> [Words -> Codes]]
  BY DEF StateOK, Page
<1>3. \A j \in Words : Op(rdram[p][j]) \in Ops
  BY <1>1, <1>2 DEF Ops
<1>4. NotCompiled2 \in Ops /\ NotCompiled2 # NotCompiled
  BY DEF Ops, NotCompiled, NotCompiled2
<1>5. \A x \in Virtual, j \in Words : new[x][j] =
     IF j \notin w..last THEN ops[x][j]
     ELSE IF x = v THEN Op(rdram[p][j])
     ELSE IF v \notin Direct /\ x = K0(p) /\ ops[x][j] = NotCompiled THEN NotCompiled2
     ELSE ops[x][j]
  BY DEF Recompiled
<1>6. new \in [Virtual -> [Words -> Ops]]
  <2>1. \A x \in Virtual, j \in Words : (
     IF j \notin w..last THEN ops[x][j]
     ELSE IF x = v THEN Op(rdram[p][j])
     ELSE IF v \notin Direct /\ x = K0(p) /\ ops[x][j] = NotCompiled THEN NotCompiled2
     ELSE ops[x][j]) \in Ops
    BY <1>3, <1>4
  <2> QED
    BY <2>1 DEF Recompiled
<1>7. w \in w..last
  BY DEF Limits, WordsAssumption
<1>8. \A j \in Words : v \notin Direct /\ new[v][j] # ops[v][j] => new[K0(p)][j] # NotCompiled
  BY <1>1, <1>4, <1>5
<1> HIDE DEF new, p
<1> QED
  <2>1. new[v][w] = Op(rdram[p][w])
    BY <1>5, <1>7
  <2> QED
    BY <1>5, <1>6, <1>8, <2>1 DEF new, p

\* A jump to v: the blocks in `fresh' are emptied, v among them with the page's
\* own address, unless both are valid; then v may be recompiled.
JumpTo(v, w, fresh, k, p, ops) ==
  /\ v \in Virtual /\ v[1] \in session.jumps /\ w \in Words
  /\ p = Behind(v) /\ p # NoPage /\ k = (IF v \in Direct THEN v ELSE K0(p))
  /\ k \in Direct /\ Other(k) \in Direct
  /\ \/ fresh = {} /\ ~invalid_code[v] /\ ~invalid_code[k]
     \/ v \in fresh /\ k \in fresh /\ fresh \subseteq {v, k, Other(k)}
  /\ invalid_code' \in [Virtual -> BOOLEAN]
  /\ \A x \in Virtual : ~invalid_code'[x] => x \in fresh \/ ~invalid_code[x]
  /\ \A x \in fresh : ~invalid_code'[x]
  /\ ops \in [Virtual -> [Words -> Ops]]
  /\ \A x \in Virtual :
       \/ x \in fresh /\ ops[x] = Empty
       \/ x \notin fresh /\ ops[x] = blocks[x]
  /\ blocks' \in [Virtual -> [Words -> Ops]]
  /\ blocks'[v][w] = (IF ops[v][w] \in {NotCompiled, NotCompiled2}
                      THEN Op(rdram[p][w]) ELSE ops[v][w])
  /\ \A x \in Virtual, j \in Words :
       \/ blocks'[x][j] = ops[x][j]
       \/ x = v /\ blocks'[x][j] = Op(rdram[p][j])
       \/ v \notin Direct /\ x = K0(p) /\ blocks'[x][j] = NotCompiled2
  /\ \A j \in Words : v \notin Direct /\ blocks'[v][j] # ops[v][j] => blocks'[K0(p)][j] # NotCompiled
  /\ \/ blocks' = ops /\ adler32' = adler32
     \/ adler32' = [adler32 EXCEPT ![v] = NoSum]
  /\ executed' = <<blocks'[v][w], Op(rdram[p][w])>>
  /\ UNCHANGED <<session, rdram, tlb_e, tlb_LUT_r, tlb_LUT_w, slot>>

LEMMA JumpEffect ==
  ASSUME Limits, StateOK, Jump
  PROVE  \E v, w, fresh, k, p, ops : JumpTo(v, w, fresh, k, p, ops)
<1>1. PICK v \in Reached(session.jumps), w \in Words :
  /\ Behind(v) # NoPage
  /\ LET invalid == Updated(v)
         fresh   == IF invalid[v] THEN Initialised(v, invalid) ELSE {}
         ops     == [x \in Virtual |-> IF x \in fresh THEN Empty ELSE blocks[x]]
     IN  /\ invalid_code' = [x \in Virtual |-> invalid[x] /\ x \notin fresh]
         /\ IF ops[v][w] \in {NotCompiled, NotCompiled2}
            THEN /\ \E last \in Words : last >= w /\ blocks' = Recompiled(v, w, last, ops)
                 /\ adler32' = [adler32 EXCEPT ![v] = NoSum]
            ELSE blocks' = ops /\ UNCHANGED adler32
  /\ executed' = <<blocks'[v][w], Op(rdram[Behind(v)][w])>>
  /\ UNCHANGED <<session, rdram, tlb_e, tlb_LUT_r, tlb_LUT_w, slot>>
  BY DEF Jump
<1> DEFINE p       == Behind(v)
           k       == IF v \in Direct THEN v ELSE K0(p)
           invalid == Updated(v)
           fresh   == IF invalid[v] THEN Initialised(v, invalid) ELSE {}
           ops     == [x \in Virtual |-> IF x \in fresh THEN Empty ELSE blocks[x]]
<1>2. v \in Virtual /\ v[1] \in session.jumps
  BY Reaches
<1>3. /\ invalid \in [Virtual -> BOOLEAN]
      /\ \A x \in Virtual : invalid_code[x] => invalid[x]
      /\ k \in Direct /\ Other(k) \in Direct
      /\ ~invalid[v] => ~invalid_code[v] /\ ~invalid_code[k]
  BY <1>1, <1>2, UpdatedFacts
<1>4. Initialised(v, invalid) = {v, k} \cup {x \in {Other(k)} : invalid[x]}
  BY DEF Initialised
<1>5. \/ fresh = {} /\ ~invalid_code[v] /\ ~invalid_code[k]
      \/ v \in fresh /\ k \in fresh /\ fresh \subseteq {v, k, Other(k)}
  <2> HIDE DEF k, invalid
  <2> QED
    BY <1>3, <1>4
<1>6. fresh \subseteq Virtual
  BY <1>2, <1>3, <1>5, VirtualForms
<1>7. ops \in [Virtual -> [Words -> Ops]]
  <2>1. Empty \in [Words -> Ops]
    BY DEF Empty, Ops
  <2>2. blocks \in [Virtual -> [Words -> Ops]]
    BY DEF StateOK
  <2> HIDE DEF fresh
  <2> QED
    BY <2>1, <2>2
<1> HIDE DEF k
<1>8. /\ invalid_code' \in [Virtual -> BOOLEAN]
      /\ \A x \in Virtual : ~invalid_code'[x] => x \in fresh \/ ~invalid_code[x]
      /\ \A x \in fresh : ~invalid_code'[x]
  <2>1. invalid_code' = [x \in Virtual |-> invalid[x] /\ x \notin fresh]
    BY <1>1
  <2> HIDE DEF invalid, fresh
  <2> QED
    BY <1>3, <1>6, <2>1
<1>9. \/ /\ ops[v][w] \in {NotCompiled, NotCompiled2}
         /\ \E last \in Words : last >= w /\ blocks' = Recompiled(v, w, last, ops)
         /\ adler32' = [adler32 EXCEPT ![v] = NoSum]
      \/ /\ ops[v][w] \notin {NotCompiled, NotCompiled2}
         /\ blocks' = ops /\ adler32' = adler32
  BY <1>1
<1>10. \A x \in Virtual :
     \/ x \in fresh /\ ops[x] = Empty
     \/ x \notin fresh /\ ops[x] = blocks[x]
  OBVIOUS
<1>11. p # NoPage /\ executed' = <<blocks'[v][w], Op(rdram[p][w])>>
       /\ UNCHANGED <<session, rdram, tlb_e, tlb_LUT_r, tlb_LUT_w, slot>>
  BY <1>1
<1> HIDE DEF ops, fresh, invalid
<1>12. /\ blocks' \in [Virtual -> [Words -> Ops]]
       /\ blocks'[v][w] = (IF ops[v][w] \in {NotCompiled, NotCompiled2}
                           THEN Op(rdram[p][w]) ELSE ops[v][w])
       /\ \A x \in Virtual, j \in Words :
            \/ blocks'[x][j] = ops[x][j]
            \/ x = v /\ blocks'[x][j] = Op(rdram[p][j])
            \/ v \notin Direct /\ x = K0(p) /\ blocks'[x][j] = NotCompiled2
       /\ \A j \in Words : v \notin Direct /\ blocks'[v][j] # ops[v][j] => blocks'[K0(p)][j] # NotCompiled
  <2>1. CASE ops[v][w] \in {NotCompiled, NotCompiled2}
    <3>1. PICK last \in Words : last >= w /\ blocks' = Recompiled(v, w, last, ops)
      BY <1>9, <2>1
    <3> QED
      BY <1>1, <1>2, <1>7, <2>1, <3>1, RecompiledFacts
  <2>2. CASE ops[v][w] \notin {NotCompiled, NotCompiled2}
    BY <1>7, <1>9, <2>2
  <2> QED
    BY <2>1, <2>2
<1>13. k = (IF v \in Direct THEN v ELSE K0(p))
  BY DEF k
<1> HIDE DEF p
<1>14. p = Behind(v)
  BY DEF p
<1>15. JumpTo(v, w, fresh, k, p, ops)
  BY <1>2, <1>3, <1>5, <1>7, <1>8, <1>9, <1>10, <1>11, <1>12, <1>13, <1>14 DEF JumpTo
<1> QED
  BY <1>15

LEMMA JumpStep ==
  ASSUME Limits, IInv, Jump
  PROVE  IInv'
<1>1. PICK v, w, fresh, k, p, ops : JumpTo(v, w, fresh, k, p, ops)
  BY JumpEffect DEF IInv
<1>2. StateOK /\ BareOK /\ DirectOK /\ MappedOK /\ MarkedOK /\ SumsTrue
  BY DEF IInv
<1>3. /\ v \in Virtual /\ p \in Pages /\ K0(p) \in Virtual
      /\ v \in Direct => p = v[2]
      /\ \A u \in Mapped : v = M(u) => p = tlb_LUT_r[u] /\ Home(u, p)
  BY <1>1, <1>2, BehindPage, Translations, DirectPages, VirtualForms DEF JumpTo
<1>4. \A x \in Virtual :
     \/ x \in fresh /\ ops[x] = Empty
     \/ x \notin fresh /\ ops[x] = blocks[x]
  BY <1>1 DEF JumpTo
<1>5. \A j \in Words : Empty[j] = NotCompiled
  BY DEF Empty
<1>6. StateOK'
  <2>1. adler32' \in [Virtual -> Page \cup {NoSum}]
        /\ \A x \in Direct : adler32'[x] = NoSum
    BY <1>1, <1>2, <1>3, VirtualForms, ZenonT(40) DEF JumpTo, StateOK
  <2>2. UNCHANGED <<session, rdram, tlb_e, tlb_LUT_r, tlb_LUT_w, slot>>
    BY <1>1 DEF JumpTo
  <2>3. blocks' \in [Virtual -> [Words -> Ops]] /\ invalid_code' \in [Virtual -> BOOLEAN]
    BY <1>1 DEF JumpTo
  <2> QED
    BY <1>2, <2>1, <2>2, <2>3 DEF StateOK, Tlb, Maps, Home
<1>7. BareOK'
  <2>1. \A x \in Virtual : x # v /\ x # K0(p) /\ Bare(x) => Bare(x)'
    <3> SUFFICES ASSUME NEW x \in Virtual, x # v, x # K0(p), blocks[x] = Empty
                 PROVE  blocks'[x] = Empty
      BY DEF Bare, Empty
    <3>1. ops[x] = Empty /\ blocks'[x] \in [Words -> Ops]
      BY <1>1, <1>4 DEF JumpTo
    <3>2. \A j \in Words : blocks'[x][j] = ops[x][j]
      BY <1>1 DEF JumpTo
    <3> QED
      BY <3>1, <3>2 DEF Empty
  <2>2. session' = session /\ v[1] \in session.jumps
    BY <1>1 DEF JumpTo
  <2>3. ASSUME "k1" \notin session.jumps, NEW q \in Pages
        PROVE  Bare(K1(q))'
    <3>1. K1(q) \in Virtual /\ K1(q) # v /\ K1(q) # K0(p)
      BY <1>3, <2>2, <2>3, DirectPages, VirtualForms, "k0" # "k1"
    <3> QED
      BY <1>2, <2>1, <2>3, <3>1 DEF BareOK
  <2>4. ASSUME "m" \notin session.jumps, NEW u \in Mapped
        PROVE  Bare(M(u))'
    <3>1. M(u) \in Virtual /\ M(u) # v /\ M(u) # K0(p)
      BY <1>3, <2>2, <2>4, DirectPages, MappedPages
    <3> QED
      BY <1>2, <2>1, <2>4, <3>1 DEF BareOK
  <2> QED
    BY <2>2, <2>3, <2>4 DEF BareOK
<1>8. ASSUME NEW x \in Virtual, NEW q, x = v => q = p, x \in fresh \/ Clean(x, q)
      PROVE  Clean(x, q)'
  <2>1. rdram' = rdram
    BY <1>1 DEF JumpTo
  <2>2. ASSUME NEW j \in Words
        PROVE  blocks'[x][j] \in {NotCompiled, NotCompiled2, Op(rdram[q][j])}
    <3>1. ops[x][j] \in {NotCompiled, NotCompiled2, Op(rdram[q][j])}
      BY <1>4, <1>5, <1>8 DEF Clean
    <3> QED
      BY <1>1, <1>8, <3>1 DEF JumpTo
  <2> QED
    BY <2>1, <2>2 DEF Clean
<1>9. DirectOK'
  BY <1>1, <1>2, <1>3, <1>8, VirtualForms DEF JumpTo, DirectOK
<1>10. MappedOK'
  <2> SUFFICES ASSUME NEW u \in Mapped, ~invalid_code'[M(u)], NEW q, q = tlb_LUT_r[u]
               PROVE  /\ q # NoPage
                      /\ "k0" \in session.jumps \/ ~invalid_code'[K0(q)] => Clean(M(u), q)'
    BY <1>1 DEF JumpTo, MappedOK, Clean
  <2>1. M(u) \in Virtual /\ M(u) \notin Direct
    BY MappedPages
  <2>2. q # NoPage
    BY <1>1, <1>2, <1>3, <2>1, DirectPages DEF JumpTo, MappedOK
  <2>3. q \in Pages /\ Home(u, q) /\ K0(q) \in Virtual
    BY <1>2, <2>2, Translations, DirectPages, VirtualForms
  <2>4. ASSUME "k0" \in session.jumps \/ ~invalid_code'[K0(q)]
        PROVE  M(u) \in fresh \/ Clean(M(u), q)
    <3>1. CASE M(u) \in fresh
      BY <3>1
    <3>2. CASE "k0" \in session.jumps \/ ~invalid_code[K0(q)]
      BY <1>1, <1>2, <2>1, <3>2 DEF JumpTo, MappedOK
    <3>3. CASE M(u) \notin fresh /\ "k0" \notin session.jumps /\ K0(q) \in fresh
      <4>1. CASE v \in Direct
        <5>1. v[1] \in session.jumps /\ v[1] # "k0"
          BY <1>1, <3>3 DEF JumpTo
        <5>2. v[1] = "k1"
          BY <4>1, <5>1, DirectForms, DirectPages
        <5>3. "m" \notin session.jumps
          BY <1>2, <5>1, <5>2, Mixing
        <5>4. Bare(M(u))
          BY <1>2, <5>3 DEF BareOK
        <5> QED
          BY <1>5, <5>4 DEF Bare, Clean
      <4>2. CASE v \notin Direct
        <5>1. PICK u2 \in Mapped : v = M(u2)
          BY <1>3, <4>2, VirtualForms
        <5>2. "m" \in session.jumps /\ Home(u2, p)
          BY <1>1, <1>3, <5>1, MappedPages DEF JumpTo
        <5>3. k = K0(p) /\ K0(q) \in {v, k, Other(k)}
          BY <1>1, <3>3, <4>2 DEF JumpTo
        <5>4. q = p
          BY <1>3, <2>3, <4>2, <5>3, DirectPages
        <5>5. M(u) = v
          BY <1>2, <2>3, <5>1, <5>2, <5>4, Mixing
        <5> QED
          BY <1>1, <3>3, <5>5 DEF JumpTo
      <4> QED
        BY <4>1, <4>2
    <3> QED
      BY <1>1, <2>3, <2>4, <3>1, <3>2, <3>3 DEF JumpTo
  <2> QED
    BY <1>3, <1>8, <2>1, <2>2, <2>4
<1>11. MarkedOK'
  <2>1. session' = session
    BY <1>1 DEF JumpTo
  <2> SUFFICES ASSUME "k0" \notin session.jumps, NEW u \in Mapped, NEW q \in Pages, Home(u, q),
                      ~invalid_code'[K0(q)], NEW j \in Words, blocks'[M(u)][j] # NotCompiled
               PROVE  blocks'[K0(q)][j] # NotCompiled
    BY <2>1 DEF MarkedOK, Home, Decoded
  <2>2. /\ M(u) \in Virtual /\ M(u) \notin Direct
        /\ K0(q) \in Virtual /\ K0(q) \in Direct /\ K0(q) # v
    BY <1>1, MappedPages, DirectPages, VirtualForms DEF JumpTo
  <2>3. NotCompiled2 # NotCompiled
    BY DEF NotCompiled, NotCompiled2
  <2>4. ops[K0(q)][j] # NotCompiled => blocks'[K0(q)][j] # NotCompiled
    BY <1>1, <2>2, <2>3 DEF JumpTo
  <2>5. CASE v = M(u)
    <3>1. "m" \in session.jumps /\ p = q /\ k = K0(q)
      BY <1>1, <1>2, <1>3, <2>2, <2>5, MappedPages, Mixing DEF JumpTo
    <3>2. CASE ops[M(u)][j] = blocks'[M(u)][j]
      <4>1. M(u) \notin fresh /\ ~invalid_code[K0(q)]
        BY <1>1, <1>4, <1>5, <2>2, <2>5, <3>1, <3>2 DEF JumpTo
      <4>2. blocks[M(u)][j] # NotCompiled
        BY <1>4, <2>2, <3>2, <4>1
      <4>3. blocks[K0(q)][j] # NotCompiled
        BY <1>2, <4>1, <4>2 DEF MarkedOK, Decoded
      <4>4. K0(q) \notin fresh
        BY <1>1, <2>5, <4>1 DEF JumpTo
      <4> QED
        BY <1>4, <2>2, <2>4, <4>3, <4>4
    <3>3. CASE ops[M(u)][j] # blocks'[M(u)][j]
      BY <1>1, <2>2, <2>5, <3>1, <3>3 DEF JumpTo
    <3> QED
      BY <3>2, <3>3
  <2>6. CASE v # M(u)
    <3>1. blocks'[M(u)][j] = ops[M(u)][j]
      BY <1>1, <2>2, <2>6, <1>3, DirectPages DEF JumpTo
    <3>2. M(u) \notin fresh /\ blocks[M(u)][j] # NotCompiled
      BY <1>4, <1>5, <2>2, <3>1
    <3>3. "m" \in session.jumps
      BY <1>2, <1>5, <3>2 DEF BareOK, Bare
    <3>4. K0(q) \notin fresh
      <4>1. SUFFICES ASSUME K0(q) \in fresh
                     PROVE  FALSE
        OBVIOUS
      <4>2. K0(q) \in {v, k, Other(k)}
        BY <1>1, <4>1 DEF JumpTo
      <4>3. v[1] # "k1"
        BY <1>1, <1>2, <3>3, Mixing DEF JumpTo
      <4>4. v \notin Direct
        <5>1. v[1] # "k0"
          BY <1>1 DEF JumpTo
        <5> QED
          BY <4>3, <5>1, DirectForms, DirectPages
      <4>5. PICK u2 \in Mapped : v = M(u2)
        BY <1>3, <4>4, VirtualForms
      <4>6. k = K0(p)
        BY <1>1, <4>4 DEF JumpTo
      <4>7. q = p /\ Home(u2, p)
        BY <1>3, <2>2, <4>2, <4>4, <4>5, <4>6, DirectPages
      <4> QED
        BY <1>2, <2>6, <3>3, <4>5, <4>7, Mixing
    <3>5. ~invalid_code[K0(q)] /\ ops[K0(q)] = blocks[K0(q)]
      BY <1>1, <1>4, <2>2, <3>4 DEF JumpTo
    <3>6. blocks[K0(q)][j] # NotCompiled
      BY <1>2, <3>2, <3>5 DEF MarkedOK, Decoded
    <3> QED
      BY <2>4, <3>5, <3>6
  <2> QED
    BY <2>5, <2>6
<1>12. SumsTrue'
  <2> SUFFICES ASSUME NEW x \in Virtual, adler32'[x] # NoSum, NEW j \in Words
               PROVE  blocks'[x][j] \in {NotCompiled, NotCompiled2, Op(adler32'[x][j])}
    BY DEF SumsTrue
  <2>1. adler32'[x] = adler32[x] /\ (x # v \/ blocks' = ops)
    BY <1>1, <1>2, <1>3 DEF JumpTo, StateOK
  <2>2. ops[x][j] \in {NotCompiled, NotCompiled2, Op(adler32[x][j])}
    BY <1>2, <1>4, <1>5, <2>1 DEF SumsTrue
  <2> QED
    BY <1>1, <2>1, <2>2 DEF JumpTo
<1>13. JumpsFresh'
  <2>1. CASE ops[v][w] \in {NotCompiled, NotCompiled2}
    BY <1>1, <2>1 DEF JumpTo, JumpsFresh
  <2>2. CASE ops[v][w] \notin {NotCompiled, NotCompiled2}
    <3>1. w \in Words /\ v \notin fresh /\ ~invalid_code[v] /\ ~invalid_code[k] /\ ops[v] = blocks[v]
      BY <1>1, <1>4, <1>5, <2>2 DEF JumpTo
    <3>2. Clean(v, p)
      <4>1. CASE v \in Direct
        BY <1>2, <1>3, <3>1, <4>1 DEF DirectOK
      <4>2. CASE v \notin Direct
        <5>1. PICK u \in Mapped : v = M(u)
          BY <1>3, <4>2, VirtualForms
        <5> QED
          BY <1>1, <1>2, <1>3, <3>1, <4>2, <5>1 DEF MappedOK, JumpTo
      <4> QED
        BY <4>1, <4>2
    <3> QED
      BY <1>1, <2>2, <3>1, <3>2 DEF JumpTo, JumpsFresh, Clean
  <2> QED
    BY <2>1, <2>2
<1> QED
  BY <1>6, <1>7, <1>9, <1>10, <1>11, <1>12, <1>13 DEF IInv

-----------------------------------------------------------------------------
(* Stores and DMA.                                                         *)

\* Marking blocks invalid disturbs nothing.
LEMMA MarkStep ==
  ASSUME IInv, invalid_code' \in [Virtual -> BOOLEAN],
         \A x \in Virtual : ~invalid_code'[x] => ~invalid_code[x],
         UNCHANGED <<session, rdram, tlb_e, tlb_LUT_r, tlb_LUT_w, blocks, adler32, slot, executed>>
  PROVE  IInv'
<1>1. StateOK' /\ BareOK' /\ SumsTrue' /\ JumpsFresh'
  BY DEF IInv, StateOK, Tlb, Maps, Home, BareOK, Bare, SumsTrue, JumpsFresh
<1>2. DirectOK'
  BY VirtualForms DEF IInv, DirectOK, Clean
<1>3. MappedOK'
  <2> SUFFICES ASSUME NEW u \in Mapped, ~invalid_code'[M(u)]
               PROVE  /\ tlb_LUT_r[u] # NoPage
                      /\ "k0" \in session.jumps \/ ~invalid_code'[K0(tlb_LUT_r[u])]
                           => Clean(M(u), tlb_LUT_r[u])
    BY DEF MappedOK, Clean
  <2>1. tlb_LUT_r[u] # NoPage
    BY MappedPages DEF IInv, MappedOK
  <2>2. K0(tlb_LUT_r[u]) \in Virtual
    BY <2>1, Translations, DirectPages, VirtualForms DEF IInv
  <2> QED
    BY <2>1, <2>2, MappedPages DEF IInv, MappedOK
<1>4. MarkedOK'
  BY DirectPages, VirtualForms DEF IInv, MarkedOK, Home, Decoded
<1> QED
  BY <1>1, <1>2, <1>3, <1>4 DEF IInv

LEMMA NoticedFacts ==
  ASSUME StateOK, NEW vs, NEW w
  PROVE  /\ Noticed(vs, w) \in [Virtual -> BOOLEAN]
         /\ \A x \in Virtual : ~Noticed(vs, w)[x] =>
              ~invalid_code[x] /\ (x \in vs => blocks[x][w] = NotCompiled)
<1>1. \A x \in Virtual : (invalid_code[x] \/ (x \in vs /\ Decoded(x, w))) \in BOOLEAN
  OBVIOUS
<1> QED
  BY <1>1 DEF Noticed, StateOK, Decoded

\* A write that is noticed under the page's KSEG0 address, under KSEG1 if code
\* runs there, and under the mapped address unless the KSEG0 one runs no code.
LEMMA WriteStep ==
  ASSUME Limits, IInv, NEW p \in Pages, NEW w \in Words, NEW c \in Codes, NEW vs,
         Put(p, w, c), invalid_code' = Noticed(vs, w),
         UNCHANGED <<session, tlb_e, tlb_LUT_r, tlb_LUT_w, blocks, adler32, slot, executed>>,
         K0(p) \in vs,
         "k1" \in session.jumps => K1(p) \in vs,
         "m" \in session.jumps /\ "k0" \in session.jumps =>
           \A u \in Mapped : Home(u, p) => M(u) \in vs
  PROVE  IInv'
<1>1. StateOK /\ BareOK /\ DirectOK /\ MappedOK /\ MarkedOK /\ SumsTrue /\ JumpsFresh
  BY DEF IInv
<1>2. /\ invalid_code' \in [Virtual -> BOOLEAN]
      /\ \A x \in Virtual : ~invalid_code'[x] =>
           ~invalid_code[x] /\ (x \in vs => blocks[x][w] = NotCompiled)
  BY <1>1, NoticedFacts
<1>3. /\ rdram' \in [Pages -> Page]
      /\ \A q \in Pages, j \in Words : q # p \/ j # w => rdram'[q][j] = rdram[q][j]
  <2>1. rdram \in [Pages -> [Words -> Codes]]
    BY <1>1 DEF StateOK, Page
  <2>2. rdram' = [rdram EXCEPT ![p] = [rdram[p] EXCEPT ![w] = c]]
    BY <2>1 DEF Put
  <2>3. [rdram[p] EXCEPT ![w] = c] \in [Words -> Codes]
    BY <2>1
  <2> QED
    BY <2>1, <2>2, <2>3 DEF Page
<1>4. ASSUME NEW x, NEW q \in Pages, Clean(x, q), q = p => blocks[x][w] = NotCompiled
      PROVE  Clean(x, q)'
  BY <1>3, <1>4 DEF Clean
<1>5. ASSUME NEW x, NEW q \in Pages, Bare(x)
      PROVE  Clean(x, q)'
  BY <1>5 DEF Clean, Bare, Empty
<1>6. StateOK' /\ BareOK' /\ SumsTrue' /\ JumpsFresh'
  BY <1>1, <1>2, <1>3 DEF StateOK, Tlb, Maps, Home, BareOK, Bare, SumsTrue, JumpsFresh
<1>7. DirectOK'
  <2> SUFFICES ASSUME NEW x \in Direct, ~invalid_code'[x]
               PROVE  Clean(x, x[2])'
    BY DEF DirectOK
  <2>1. x \in Virtual
    BY VirtualForms
  <2>2. PICK q \in Pages : x = K0(q) \/ x = K1(q)
    BY DirectForms
  <2>3. Clean(x, q) /\ x[2] = q
    BY <1>1, <1>2, <2>1, <2>2, DirectPages DEF DirectOK
  <2>4. CASE x = K1(p) /\ "k1" \notin session.jumps
    BY <1>1, <1>5, <2>3, <2>4 DEF BareOK
  <2>5. CASE ~(x = K1(p) /\ "k1" \notin session.jumps)
    <3>1. q = p => x \in vs
      BY <2>2, <2>5
    <3> QED
      BY <1>2, <1>4, <2>1, <2>3, <3>1
  <2> QED
    BY <2>4, <2>5
<1>8. MappedOK'
  <2> SUFFICES ASSUME NEW u \in Mapped, ~invalid_code'[M(u)], NEW q, q = tlb_LUT_r[u]
               PROVE  /\ q # NoPage
                      /\ "k0" \in session.jumps \/ ~invalid_code'[K0(q)] => Clean(M(u), q)'
    BY DEF MappedOK, Clean
  <2>1. M(u) \in Virtual
    BY MappedPages
  <2>2. q # NoPage
    BY <1>1, <1>2, <2>1 DEF MappedOK
  <2>3. q \in Pages /\ Home(u, q) /\ K0(q) \in Virtual
    BY <1>1, <2>2, Translations, DirectPages, VirtualForms
  <2>4. CASE "m" \notin session.jumps
    BY <1>1, <1>5, <2>2, <2>3, <2>4 DEF BareOK
  <2>5. ASSUME "m" \in session.jumps, "k0" \in session.jumps \/ ~invalid_code'[K0(q)]
        PROVE  Clean(M(u), q)'
    <3>1. Clean(M(u), q)
      BY <1>1, <1>2, <2>1, <2>3, <2>5 DEF MappedOK
    <3>2. ASSUME q = p
          PROVE  blocks[M(u)][w] = NotCompiled
      <4>1. CASE "k0" \in session.jumps
        BY <1>2, <2>1, <2>3, <2>5, <3>2, <4>1
      <4>2. CASE "k0" \notin session.jumps
        <5>1. ~invalid_code[K0(p)] /\ blocks[K0(p)][w] = NotCompiled
          BY <1>2, <2>3, <2>5, <3>2, <4>2
        <5> QED
          BY <1>1, <2>3, <3>2, <4>2, <5>1 DEF MarkedOK, Decoded
      <4> QED
        BY <4>1, <4>2
    <3> QED
      BY <1>4, <2>3, <3>1, <3>2
  <2> QED
    BY <2>2, <2>4, <2>5
<1>9. MarkedOK'
  BY <1>1, <1>2, DirectPages, VirtualForms DEF MarkedOK, Home, Decoded
<1> QED
  BY <1>6, <1>7, <1>8, <1>9 DEF IInv

LEMMA StoreStep ==
  ASSUME Limits, IInv, Store
  PROVE  IInv'
<1>1. PICK v \in Reached(session.stores), w \in Words, c \in Codes :
  /\ \/ /\ v \in Direct
        /\ Put(v[2], w, c)
        /\ invalid_code' = Noticed({v}, w)
     \/ /\ v \notin Direct /\ tlb_LUT_w[v[2]] # NoPage
        /\ Put(tlb_LUT_w[v[2]], w, c)
        /\ invalid_code' = Noticed({v, K0(tlb_LUT_w[v[2]])}, w)
     \/ /\ v \notin Direct /\ tlb_LUT_w[v[2]] = NoPage
        /\ UNCHANGED rdram
        /\ invalid_code' = Noticed({v}, w)
  /\ UNCHANGED <<session, tlb_e, tlb_LUT_r, tlb_LUT_w, blocks, adler32, slot, executed>>
  BY DEF Store
<1>2. v \in Virtual /\ v[1] \in session.stores /\ StateOK
  BY Reaches DEF IInv
<1>3. CASE v \in Direct
  <2>1. PICK p \in Pages : v = K0(p) \/ v = K1(p)
    BY <1>3, DirectForms
  <2>2. v = K0(p) /\ v[1] = "k0" /\ v[2] = p
    BY <1>2, <2>1, DirectPages, Mixing
  <2>3. "k1" \notin session.jumps /\ ~("m" \in session.jumps /\ "k0" \in session.jumps)
    BY <1>2, <2>2, Mixing
  <2>4. Put(p, w, c) /\ invalid_code' = Noticed({v}, w)
    BY <1>1, <1>3, <2>2
  <2> QED
    BY <1>1, <2>2, <2>3, <2>4, WriteStep
<1>4. ASSUME v \notin Direct, tlb_LUT_w[v[2]] # NoPage
      PROVE  IInv'
  <2>1. PICK u \in Mapped : v = M(u)
    BY <1>2, <1>4, VirtualForms
  <2> DEFINE p == tlb_LUT_w[u]
             vs == {v, K0(p)}
  <2>2. v[1] = "m" /\ v[2] = u
    BY <2>1, MappedPages
  <2>3. p \in Pages /\ Home(u, p)
    BY <1>2, <1>4, <2>2, Translations
  <2>4. "k1" \notin session.jumps
    BY <1>2, <2>2, Mixing
  <2>5. Put(p, w, c) /\ invalid_code' = Noticed(vs, w) /\ K0(p) \in vs
    BY <1>1, <1>4, <2>2
  <2>6. "m" \in session.jumps => \A u2 \in Mapped : Home(u2, p) => M(u2) \in vs
    BY <1>2, <2>1, <2>3, Mixing
  <2> HIDE DEF p, vs
  <2> QED
    BY <1>1, <2>3, <2>4, <2>5, <2>6, WriteStep
<1>5. CASE v \notin Direct /\ tlb_LUT_w[v[2]] = NoPage
  <2>1. rdram' = rdram /\ invalid_code' = Noticed({v}, w)
    BY <1>1, <1>5
  <2> QED
    BY <1>1, <1>2, <2>1, NoticedFacts, MarkStep
<1> QED
  BY <1>3, <1>4, <1>5

LEMMA CartDmaStep ==
  ASSUME Limits, IInv, CartDma
  PROVE  IInv'
<1>1. PICK p \in session.pages, w \in Words, c \in Codes :
  /\ Put(p, w, c)
  /\ invalid_code' = Noticed({K0(p), K1(p)}, w)
  /\ UNCHANGED <<session, tlb_e, tlb_LUT_r, tlb_LUT_w, blocks, adler32, slot, executed>>
  BY DEF CartDma
<1>2. "dma" \in session.stores /\ StateOK /\ p \in Pages
  BY DEF CartDma, IInv, StateOK, Limits, SessionsAssumption
<1>3. ~("m" \in session.jumps /\ "k0" \in session.jumps)
  BY <1>2, Mixing
<1> DEFINE vs == {K0(p), K1(p)}
<1>4. K0(p) \in vs /\ K1(p) \in vs /\ invalid_code' = Noticed(vs, w)
  BY <1>1
<1> HIDE DEF vs
<1> QED
  BY <1>1, <1>2, <1>3, <1>4, WriteStep

LEMMA FrameBufferStep ==
  ASSUME IInv, FrameBuffer
  PROVE  IInv'
BY MarkStep DEF FrameBuffer, InvalidateAll

-----------------------------------------------------------------------------
(* TLB entries.                                                            *)

\* What the LUT says after entry `e' is written: mapped by a half in ms, or no
\* longer by one in gone, or as before.
Remapped(ms, lut, gone) == [u \in Mapped |->
  IF \E m \in ms : m.u = u THEN (CHOOSE m \in ms : m.u = u).p
  ELSE IF u \in gone THEN NoPage ELSE lut[u]]

LEMMA RemappedFacts ==
  ASSUME Limits, StateOK, NEW maps, maps \in session.entries, NEW ms, ms \subseteq maps,
         NEW gone, NEW lut, lut \in Lut, Maps(lut)
  PROVE  /\ Remapped(ms, lut, gone) \in Lut /\ Maps(Remapped(ms, lut, gone))
         /\ \A m \in ms : m.u \in Mapped /\ m.p \in Pages /\ Remapped(ms, lut, gone)[m.u] = m.p
<1> DEFINE new == Remapped(ms, lut, gone)
<1>1. /\ \A m \in ms : m.u \in Mapped /\ m.p \in Pages /\ Home(m.u, m.p)
      /\ \A a, b \in ms : a.u = b.u => a = b
  <2>1. /\ maps \subseteq [u : Mapped, p : Pages, d : BOOLEAN]
        /\ \A a, b \in maps : a.u = b.u => a = b
    BY DEF Limits, SessionsAssumption, StateOK
  <2> QED
    BY <2>1 DEF Home
<1>2. ASSUME NEW m \in ms
      PROVE  new[m.u] = m.p
  <2>1. (CHOOSE m2 \in ms : m2.u = m.u) = m
    BY <1>1
  <2> QED
    BY <1>1, <2>1 DEF Remapped
<1>3. \A u \in Mapped : new[u] \in Pages \cup {NoPage} /\ (new[u] # NoPage => Home(u, new[u]))
  <2> TAKE u \in Mapped
  <2>1. CASE \E m \in ms : m.u = u
    BY <1>1, <1>2, <2>1
  <2>2. CASE \A m \in ms : m.u # u
    <3>1. new[u] = NoPage \/ new[u] = lut[u]
      BY <2>2 DEF Remapped
    <3> QED
      BY <3>1 DEF Lut, Maps
  <2> QED
    BY <2>1, <2>2
<1>4. new = [u \in Mapped |-> new[u]]
  BY DEF Remapped
<1> HIDE DEF new
<1>5. new \in Lut /\ Maps(new)
  BY <1>3, <1>4 DEF Lut, Maps
<1> QED
  BY <1>1, <1>2, <1>5 DEF new

LEMMA DirtyFacts ==
  ASSUME Limits, StateOK, NEW maps, maps \in session.entries, NEW gone
  PROVE  Remapped(Dirty(maps), tlb_LUT_w, gone) \in Lut /\ Maps(Remapped(Dirty(maps), tlb_LUT_w, gone))
<1>1. tlb_LUT_w \in Lut /\ Maps(tlb_LUT_w)
  BY DEF StateOK
<1> DEFINE ms == Dirty(maps)
<1>2. ms \subseteq maps
  BY DEF Dirty
<1> HIDE DEF ms
<1>3. Remapped(ms, tlb_LUT_w, gone) \in Lut /\ Maps(Remapped(ms, tlb_LUT_w, gone))
  BY <1>1, <1>2, RemappedFacts
<1> QED
  BY <1>3 DEF ms

\* A half is unmapped with a check sum only if its block is what the sum is of.
LEMMA UnmappedFacts ==
  ASSUME Limits, IInv, NEW u \in Mapped
  PROVE  /\ Unmapped(u) \in Page \cup {NoSum}
         /\ Unmapped(u) # NoSum =>
              \A w \in Words : blocks[M(u)][w] \in {NotCompiled, NotCompiled2, Op(Unmapped(u)[w])}
<1> DEFINE p == tlb_LUT_r[u]
<1>1. p # NoPage => p \in Pages
  BY Translations DEF IInv
<1>2. CASE invalid_code[M(u)] \/ p = NoPage \/ invalid_code[K0(p)] \/ invalid_code[K1(p)]
  BY <1>2 DEF Unmapped
<1>3. CASE ~(invalid_code[M(u)] \/ p = NoPage \/ invalid_code[K0(p)] \/ invalid_code[K1(p)])
  <2>1. Unmapped(u) = rdram[p]
    BY <1>3 DEF Unmapped
  <2>2. Clean(M(u), p)
    BY <1>3 DEF IInv, MappedOK
  <2> QED
    BY <1>1, <1>3, <2>1, <2>2 DEF Clean, IInv, StateOK
<1> QED
  BY <1>2, <1>3

LEMMA TlbwStep ==
  ASSUME Limits, IInv, Tlbw
  PROVE  IInv'
<1>1. PICK e \in Entries, maps \in session.entries :
        TlbWrite(e, maps) /\ UNCHANGED <<session, rdram, blocks, slot, executed>>
  BY DEF Tlbw
<1>2. StateOK /\ BareOK /\ DirectOK /\ MappedOK /\ MarkedOK /\ SumsTrue /\ JumpsFresh
  BY DEF IInv
<1> DEFINE sums == [x \in Virtual |-> IF x \notin Direct /\ x[2] \in Halves(e)
                                     THEN Unmapped(x[2]) ELSE adler32[x]]
<1>3. /\ tlb_e' = [tlb_e EXCEPT ![e] = maps]
      /\ tlb_LUT_r' = Remapped(maps, tlb_LUT_r, Halves(e))
      /\ tlb_LUT_w' = Remapped(Dirty(maps), tlb_LUT_w, {m.u : m \in Dirty(tlb_e[e])})
      /\ adler32' = sums
      /\ invalid_code' = [x \in Virtual |->
           /\ invalid_code[x] \/ (x \notin Direct /\ x[2] \in Halves(e))
           /\ ~\E m \in maps : x = M(m.u) /\ Same(m, sums)]
  BY <1>1 DEF TlbWrite, Remapped
<1>4. /\ tlb_LUT_r' \in Lut /\ Maps(tlb_LUT_r')
      /\ \A m \in maps : m.u \in Mapped /\ m.p \in Pages /\ tlb_LUT_r'[m.u] = m.p
      /\ \A u \in Mapped : (\A m \in maps : m.u # u) =>
           \/ u \in Halves(e) /\ tlb_LUT_r'[u] = NoPage
           \/ u \notin Halves(e) /\ tlb_LUT_r'[u] = tlb_LUT_r[u]
  <2>1. tlb_LUT_r \in Lut /\ Maps(tlb_LUT_r) /\ maps \subseteq maps
    BY <1>2 DEF StateOK
  <2> DEFINE gone == Halves(e)
  <2> HIDE DEF gone
  <2>2. /\ Remapped(maps, tlb_LUT_r, gone) \in Lut
        /\ Maps(Remapped(maps, tlb_LUT_r, gone))
    BY <1>2, <2>1, RemappedFacts
  <2>3. \A m \in maps : /\ m.u \in Mapped /\ m.p \in Pages
                        /\ Remapped(maps, tlb_LUT_r, gone)[m.u] = m.p
    BY <1>2, <2>1, RemappedFacts
  <2>4. \A u \in Mapped :
          \/ \E m \in maps : m.u = u
          \/ u \in gone /\ Remapped(maps, tlb_LUT_r, gone)[u] = NoPage
          \/ u \notin gone /\ Remapped(maps, tlb_LUT_r, gone)[u] = tlb_LUT_r[u]
    BY DEF Remapped
  <2>5. tlb_LUT_r' = Remapped(maps, tlb_LUT_r, gone)
    BY <1>3 DEF gone
  <2> QED
    BY <2>2, <2>3, <2>4, <2>5 DEF gone
<1>5. tlb_LUT_w' \in Lut /\ Maps(tlb_LUT_w')
  <2> DEFINE gone == {m.u : m \in Dirty(tlb_e[e])}
  <2> HIDE DEF gone
  <2>2. /\ Remapped(Dirty(maps), tlb_LUT_w, gone) \in Lut
        /\ Maps(Remapped(Dirty(maps), tlb_LUT_w, gone))
    BY <1>2, DirtyFacts
  <2>3. tlb_LUT_w' = Remapped(Dirty(maps), tlb_LUT_w, gone)
    BY <1>3 DEF gone
  <2> QED
    BY <2>2, <2>3
<1>6. sums \in [Virtual -> Page \cup {NoSum}] /\ \A x \in Direct : sums[x] = NoSum
  <2>1. \A x \in Virtual : sums[x] \in Page \cup {NoSum}
    <3> TAKE x \in Virtual
    <3>1. CASE x \in Direct
      BY <1>2, <3>1 DEF StateOK
    <3>2. CASE x \notin Direct
      <4>1. PICK u \in Mapped : x = M(u)
        BY <3>2, VirtualForms
      <4> QED
        BY <1>2, <3>2, <4>1, MappedPages, UnmappedFacts DEF StateOK
    <3> QED
      BY <3>1, <3>2
  <2>2. \A x \in Direct : sums[x] = NoSum
    BY <1>2, VirtualForms DEF StateOK
  <2> QED
    BY <2>1, <2>2
<1>7. \A x \in Virtual : sums[x] # NoSum =>
        \A w \in Words : blocks[x][w] \in {NotCompiled, NotCompiled2, Op(sums[x][w])}
  <2> TAKE x \in Virtual
  <2>1. CASE x \notin Direct /\ x[2] \in Halves(e)
    <3>1. PICK u \in Mapped : x = M(u)
      BY <2>1, VirtualForms
    <3> QED
      BY <2>1, <3>1, MappedPages, UnmappedFacts
  <2>2. CASE ~(x \notin Direct /\ x[2] \in Halves(e))
    BY <1>2, <2>2 DEF SumsTrue
  <2> QED
    BY <2>1, <2>2
<1> HIDE DEF sums
<1>8. invalid_code' \in [Virtual -> BOOLEAN]
  BY <1>2, <1>3 DEF StateOK
<1>9. tlb_e' \in Tlb
  BY <1>2, <1>3 DEF StateOK, Tlb
<1>10. StateOK' /\ BareOK' /\ SumsTrue' /\ JumpsFresh'
  <2>1. StateOK'
    BY <1>1, <1>2, <1>3, <1>4, <1>5, <1>6, <1>8, <1>9, ZenonT(40) DEF StateOK, Tlb, Maps, Home
  <2> QED
    BY <1>1, <1>2, <1>3, <1>7, <2>1 DEF BareOK, Bare, SumsTrue, JumpsFresh
<1>11. \A x \in Direct : invalid_code'[x] = invalid_code[x]
  <2> TAKE x \in Direct
  <2>1. x \in Virtual /\ \A m \in maps : x # M(m.u)
    BY <1>4, VirtualForms, MappedPages
  <2>2. invalid_code[x] \in BOOLEAN
    BY <1>2, <2>1 DEF StateOK
  <2> QED
    BY <1>3, <2>1, <2>2
<1>12. DirectOK' /\ MarkedOK'
  BY <1>1, <1>2, <1>11, DirectPages DEF DirectOK, MarkedOK, Clean, Decoded, Home
<1>13. MappedOK'
  <2> SUFFICES ASSUME NEW u \in Mapped, ~invalid_code'[M(u)], NEW q, q = tlb_LUT_r'[u]
               PROVE  /\ q # NoPage
                      /\ "k0" \in session.jumps \/ ~invalid_code[K0(q)] => Clean(M(u), q)
    <3>1. \A u \in Mapped : tlb_LUT_r'[u] # NoPage =>
            invalid_code'[K0(tlb_LUT_r'[u])] = invalid_code[K0(tlb_LUT_r'[u])]
      BY <1>4, <1>11, DirectPages DEF Lut
    <3> QED
      BY <1>1, <3>1 DEF MappedOK, Clean
  <2>1. M(u) \in Virtual /\ M(u) \notin Direct /\ M(u)[2] = u
    BY MappedPages
  <2>2. \A m \in maps : M(u) = M(m.u) => m.u = u
    BY <1>4, MappedPages
  <2>3. CASE \E m \in maps : m.u = u /\ Same(m, sums)
    <3>1. PICK m \in maps : m.u = u /\ Same(m, sums)
      BY <2>3
    <3>2. q = m.p /\ m.p \in Pages /\ m.p # NoPage
      BY <1>4, <3>1 DEF Limits, PagesAssumption
    <3>3. sums[M(u)] # NoSum /\ sums[M(u)] = rdram[q]
      BY <3>1, <3>2 DEF Same
    <3> QED
      BY <1>7, <2>1, <3>2, <3>3 DEF Clean
  <2>4. CASE ~\E m \in maps : m.u = u /\ Same(m, sums)
    <3>1. ~invalid_code[M(u)] /\ u \notin Halves(e)
      BY <1>3, <2>1, <2>2, <2>4
    <3>2. /\ tlb_LUT_r[u] # NoPage
          /\ "k0" \in session.jumps \/ ~invalid_code[K0(tlb_LUT_r[u])] => Clean(M(u), tlb_LUT_r[u])
      BY <1>2, <3>1 DEF MappedOK
    <3>3. CASE \A m \in maps : m.u # u
      BY <1>4, <3>1, <3>2, <3>3
    <3>4. CASE \E m \in maps : m.u = u
      <4>1. PICK m \in maps : m.u = u
        BY <3>4
      <4>2. q = m.p /\ q # NoPage /\ Home(u, q)
        BY <1>4, <4>1 DEF Limits, PagesAssumption, Home
      <4>3. CASE "m" \in session.jumps
        BY <1>2, <3>2, <4>2, <4>3, Mixing, Translations
      <4>4. CASE "m" \notin session.jumps
        <5>1. Bare(M(u))
          BY <1>2, <4>4 DEF BareOK
        <5> QED
          BY <4>2, <5>1 DEF Clean, Bare, Empty
      <4> QED
        BY <4>3, <4>4
    <3> QED
      BY <3>3, <3>4
  <2> QED
    BY <2>3, <2>4
<1> QED
  BY <1>10, <1>12, <1>13 DEF IInv

-----------------------------------------------------------------------------
(* Savestates, starts, and the theorems.                                   *)

LEMMA SaveStateStep ==
  ASSUME IInv, SaveState
  PROVE  IInv'
<1>1. UNCHANGED <<session, rdram, tlb_e, tlb_LUT_r, tlb_LUT_w, invalid_code, blocks, adler32, executed>>
  BY DEF SaveState, cache
<1>2. slot' = [rdram |-> rdram, tlb_e |-> tlb_e, r |-> tlb_LUT_r, w |-> tlb_LUT_w]
  BY DEF SaveState
<1>3. StateOK'
  BY <1>1, <1>2 DEF IInv, StateOK, Tlb, Maps, Home
<1> QED
  BY <1>1, <1>3 DEF IInv, BareOK, DirectOK, MappedOK, MarkedOK, SumsTrue, JumpsFresh,
                    Bare, Clean, Decoded, Home

\* Nothing is valid any more: only the types and what is decoded matter.
LEMMA AllInvalid ==
  ASSUME StateOK', BareOK', SumsTrue', JumpsFresh', invalid_code' = InvalidateAll
  PROVE  IInv'
<1>1. \A x \in Virtual : invalid_code'[x]
  BY DEF InvalidateAll
<1>2. DirectOK' /\ MappedOK'
  BY <1>1, VirtualForms, MappedPages DEF DirectOK, MappedOK
<1>3. MarkedOK'
  BY <1>1, VirtualForms, DirectPages DEF MarkedOK
<1> QED
  BY <1>2, <1>3 DEF IInv

LEMMA LoadStateStep ==
  ASSUME IInv, LoadState
  PROVE  IInv'
<1>1. /\ rdram' = slot.rdram /\ tlb_e' = slot.tlb_e
      /\ tlb_LUT_r' = [u \in Mapped |-> IF u \in InState THEN slot.r[u] ELSE tlb_LUT_r[u]]
      /\ tlb_LUT_w' = [u \in Mapped |-> IF u \in InState THEN slot.w[u] ELSE tlb_LUT_w[u]]
      /\ invalid_code' = InvalidateAll /\ DOMAIN slot # {}
      /\ UNCHANGED <<session, blocks, adler32, slot, executed>>
  BY DEF LoadState
<1>2. slot.rdram \in [Pages -> Page] /\ slot.tlb_e \in Tlb
  BY <1>1 DEF IInv, StateOK
<1>3. slot.r \in Lut /\ Maps(slot.r) /\ slot.w \in Lut /\ Maps(slot.w)
  BY <1>1 DEF IInv, StateOK
<1>4. tlb_LUT_r \in Lut /\ Maps(tlb_LUT_r) /\ tlb_LUT_w \in Lut /\ Maps(tlb_LUT_w)
  BY DEF IInv, StateOK
<1>5. /\ tlb_LUT_r' \in Lut /\ Maps(tlb_LUT_r')
      /\ tlb_LUT_w' \in Lut /\ Maps(tlb_LUT_w')
  BY <1>1, <1>3, <1>4 DEF Lut, Maps
<1>6. invalid_code' \in [Virtual -> BOOLEAN]
  BY <1>1 DEF InvalidateAll
<1>7. StateOK'
  BY <1>1, <1>2, <1>5, <1>6 DEF IInv, StateOK, Tlb, Maps, Home
<1> QED
  BY <1>1, <1>7, AllInvalid DEF IInv, BareOK, Bare, SumsTrue, JumpsFresh

LEMMA ColdPages ==
  ASSUME Limits
  PROVE  Cold \in [Pages -> Page]
BY DEF Limits, CodesAssumption, Cold, Page

LEMMA CoreStartStep ==
  ASSUME Limits, IInv, CoreStart
  PROVE  IInv'
<1>1. /\ rdram' = Cold
      /\ tlb_e' = [e \in Entries |-> {}]
      /\ tlb_LUT_r' = [u \in Mapped |-> NoPage]
      /\ invalid_code' = InvalidateAll
      /\ blocks' = [x \in Virtual |-> Empty]
      /\ adler32' = [x \in Virtual |-> NoSum]
      /\ UNCHANGED <<session, tlb_LUT_w, slot, executed>>
  BY DEF CoreStart
<1>2. tlb_LUT_r' \in Lut /\ Maps(tlb_LUT_r')
  BY <1>1 DEF Lut, Maps
<1>3. blocks' \in [Virtual -> [Words -> Ops]]
  BY <1>1 DEF Empty, Ops
<1>4. adler32' \in [Virtual -> Page \cup {NoSum}] /\ \A x \in Direct : adler32'[x] = NoSum
  BY <1>1, VirtualForms
<1>5. invalid_code' \in [Virtual -> BOOLEAN]
  BY <1>1 DEF InvalidateAll
<1>6. tlb_e' \in Tlb
  BY <1>1 DEF Tlb
<1>7. StateOK'
  BY <1>1, <1>2, <1>3, <1>4, <1>5, <1>6, ColdPages DEF IInv, StateOK, Tlb, Maps, Home
<1>8. BareOK' /\ SumsTrue'
  BY <1>1, DirectPages, MappedPages, VirtualForms DEF BareOK, Bare, SumsTrue, Empty
<1> QED
  BY <1>1, <1>7, <1>8, AllInvalid DEF IInv, JumpsFresh

LEMMA Start ==
  ASSUME Limits, Init
  PROVE  IInv
<1>1. tlb_LUT_r \in Lut /\ Maps(tlb_LUT_r) /\ tlb_LUT_w \in Lut /\ Maps(tlb_LUT_w)
  BY DEF Init, Lut, Maps
<1>2. blocks \in [Virtual -> [Words -> Ops]]
  BY DEF Init, Empty, Ops
<1>3. /\ adler32 \in [Virtual -> Page \cup {NoSum}] /\ \A x \in Direct : adler32[x] = NoSum
      /\ invalid_code = InvalidateAll /\ invalid_code \in [Virtual -> BOOLEAN] /\ tlb_e \in Tlb
  BY VirtualForms DEF Init, InvalidateAll, Tlb
<1>4. DOMAIN slot = {}
  BY DEF Init
<1>5. StateOK
  BY <1>1, <1>2, <1>3, <1>4, ColdPages DEF Init, StateOK
<1>6. BareOK /\ SumsTrue /\ JumpsFresh
  BY DirectPages, MappedPages, VirtualForms DEF Init, BareOK, Bare, SumsTrue, Empty, JumpsFresh
<1>7. \A x \in Virtual : invalid_code[x]
  BY <1>3 DEF InvalidateAll
<1>8. DirectOK /\ MappedOK /\ MarkedOK
  BY <1>7, VirtualForms, MappedPages, DirectPages DEF DirectOK, MappedOK, MarkedOK
<1> QED
  BY <1>5, <1>6, <1>8 DEF IInv

LEMMA Step ==
  ASSUME Limits, IInv, [Next]_vars
  PROVE  IInv'
<1>1. CASE Jump
  BY <1>1, JumpStep
<1>2. CASE Store
  BY <1>2, StoreStep
<1>3. CASE CartDma
  BY <1>3, CartDmaStep
<1>4. CASE FrameBuffer
  BY <1>4, FrameBufferStep
<1>5. CASE Tlbw
  BY <1>5, TlbwStep
<1>6. CASE SaveState
  BY <1>6, SaveStateStep
<1>7. CASE LoadState
  BY <1>7, LoadStateStep
<1>8. CASE CoreStart
  BY <1>8, CoreStartStep
<1>9. CASE UNCHANGED vars
  <2>1. invalid_code \in [Virtual -> BOOLEAN]
    BY DEF IInv, StateOK
  <2> QED
    BY <1>9, <2>1, MarkStep DEF vars
<1> QED
  BY <1>1, <1>2, <1>3, <1>4, <1>5, <1>6, <1>7, <1>8, <1>9 DEF Next

\* The inductive invariant is one.
THEOREM Inductive ==
  ASSUME Limits
  PROVE  Spec => []IInv
<1>1. Init => IInv
  BY Start
<1>2. IInv /\ [Next]_vars => IInv'
  BY Step
<1> QED
  BY <1>1, <1>2, PTL DEF Spec

\* Where programs keep to the limits, a jump runs the instruction that is in
\* RDRAM: no store, DMA, remapping or savestate leaves a stale block behind.
THEOREM JumpsRunMemory ==
  ASSUME Limits
  PROVE  Spec => []JumpsFresh
<1>1. IInv => JumpsFresh
  BY DEF IInv
<1> QED
  BY <1>1, Inductive, PTL

\* A check sum that is kept with a block is one of what was decoded in it.
THEOREM SumsHold ==
  ASSUME Limits
  PROVE  Spec => []SumsTrue
<1>1. IInv => SumsTrue
  BY DEF IInv
<1> QED
  BY <1>1, Inductive, PTL

LEMMA Typed == IInv => TypeOK
BY DEF IInv, StateOK, TypeOK, Tlb, Lut, Ops

\* The types hold; the LUTs lead only to pages of RDRAM.
THEOREM TypesHold ==
  ASSUME Limits
  PROVE  Spec => []TypeOK
<1>1. IInv => TypeOK
  BY Typed
<1> QED
  BY <1>1, Inductive, PTL

-----------------------------------------------------------------------------
(* The LUTs and the TLB.                                                   *)

\* The pages of which the tables are to agree with the TLB: a savestate has
\* their translations, or is never loaded.
Covered == {u \in Mapped : u \in InState \/ "save" \notin session.stores}

\* Both tables agree there; so do those of the savestate.
Agree(r, w, tlb) == \A u \in Covered :
  /\ FollowsAt(r, tlb, FALSE, u)
  /\ "start" \notin session.stores => FollowsAt(w, tlb, TRUE, u)
FollowOK ==
  /\ session \in Sessions /\ tlb_e \in Tlb /\ (DOMAIN slot # {} => slot.tlb_e \in Tlb)
  /\ Agree(tlb_LUT_r, tlb_LUT_w, tlb_e)
  /\ DOMAIN slot # {} => Agree(slot.r, slot.w, slot.tlb_e)

\* A table written by an entry keeps what it has of every page that agreed.
LEMMA RemappedFollows ==
  ASSUME SessionsAssumption, session \in Sessions, tlb_e \in Tlb,
         NEW e \in Entries, NEW maps \in session.entries,
         NEW ms, NEW old, NEW gone, NEW lut, NEW dirty \in BOOLEAN,
         ms \subseteq maps, dirty => \A m \in ms : m.d,
         gone = {m.u : m \in old}, old \subseteq tlb_e[e],
         \A m \in tlb_e[e] : m \in old \/ (dirty /\ ~m.d),
         NEW u \in Mapped, FollowsAt(lut, tlb_e, dirty, u)
  PROVE  FollowsAt(Remapped(ms, lut, gone), [tlb_e EXCEPT ![e] = maps], dirty, u)
<1> DEFINE new == Remapped(ms, lut, gone)
           tlb == [tlb_e EXCEPT ![e] = maps]
<1>1. tlb_e \in [Entries -> session.entries \cup {{}}]
  BY DEF Tlb
<1>2. tlb[e] = maps /\ \A e2 \in Entries : e2 # e => tlb[e2] = tlb_e[e2]
  BY <1>1
<1> SUFFICES ASSUME new[u] # NoPage
             PROVE  \E e2 \in Entries : \E m \in tlb[e2] : m.u = u /\ m.p = new[u] /\ (dirty => m.d)
  BY DEF FollowsAt
<1>3. CASE \E m \in ms : m.u = u
  <2>1. PICK m \in ms : m.u = u
    BY <1>3
  <2>2. \A a, b \in maps : a.u = b.u => a = b
    BY DEF SessionsAssumption
  <2>3. (CHOOSE m2 \in ms : m2.u = u) = m
    BY <2>1, <2>2
  <2>4. new[u] = m.p
    BY <2>1, <2>3 DEF Remapped
  <2> QED
    BY <1>2, <2>1, <2>4
<1>4. CASE ~\E m \in ms : m.u = u
  <2>1. u \notin gone /\ new[u] = lut[u]
    BY <1>4 DEF Remapped
  <2>2. PICK e2 \in Entries : \E m \in tlb_e[e2] : m.u = u /\ m.p = lut[u] /\ (dirty => m.d)
    BY <2>1 DEF FollowsAt
  <2>3. e2 # e
    BY <2>1, <2>2
  <2> QED
    BY <1>2, <2>1, <2>2, <2>3
<1> QED
  BY <1>3, <1>4

\* So do both tables when the program writes an entry.
LEMMA TlbwFollows ==
  ASSUME SessionsAssumption, session \in Sessions, tlb_e \in Tlb, Tlbw, NEW u \in Mapped
  PROVE  /\ FollowsAt(tlb_LUT_r, tlb_e, FALSE, u) => FollowsAt(tlb_LUT_r', tlb_e', FALSE, u)
         /\ FollowsAt(tlb_LUT_w, tlb_e, TRUE, u) => FollowsAt(tlb_LUT_w', tlb_e', TRUE, u)
<1>1. PICK e \in Entries, maps \in session.entries :
        TlbWrite(e, maps) /\ UNCHANGED <<session, rdram, blocks, slot, executed>>
  BY DEF Tlbw
<1>2. /\ tlb_e' = [tlb_e EXCEPT ![e] = maps]
      /\ tlb_LUT_r' = Remapped(maps, tlb_LUT_r, Halves(e))
      /\ tlb_LUT_w' = Remapped(Dirty(maps), tlb_LUT_w, {m.u : m \in Dirty(tlb_e[e])})
  BY <1>1 DEF TlbWrite, Remapped
<1> DEFINE halves == Halves(e)
           old    == tlb_e[e]
           ms     == Dirty(maps)
           dirty  == Dirty(tlb_e[e])
           gone   == {m.u : m \in dirty}
<1>3. halves = {m.u : m \in old} /\ gone = {m.u : m \in dirty}
  BY DEF Halves
<1>4. /\ ms \subseteq maps /\ \A m \in ms : m.d
      /\ dirty \subseteq tlb_e[e] /\ \A m \in tlb_e[e] : m \in dirty \/ ~m.d
  BY DEF Dirty
<1>5. /\ tlb_LUT_r' = Remapped(maps, tlb_LUT_r, halves)
      /\ tlb_LUT_w' = Remapped(ms, tlb_LUT_w, gone)
  BY <1>2
<1>6. old \subseteq tlb_e[e] /\ \A m \in tlb_e[e] : m \in old
  OBVIOUS
<1> HIDE DEF halves, old, ms, dirty, gone
<1>7. FollowsAt(tlb_LUT_r, tlb_e, FALSE, u)
        => FollowsAt(Remapped(maps, tlb_LUT_r, halves), [tlb_e EXCEPT ![e] = maps], FALSE, u)
  BY <1>3, <1>6, RemappedFollows
<1>8. FollowsAt(tlb_LUT_w, tlb_e, TRUE, u)
        => FollowsAt(Remapped(ms, tlb_LUT_w, gone), [tlb_e EXCEPT ![e] = maps], TRUE, u)
  BY <1>3, <1>4, RemappedFollows
<1> QED
  BY <1>2, <1>5, <1>7, <1>8

LEMMA FollowStart ==
  ASSUME Init
  PROVE  FollowOK
BY DEF Init, FollowOK, Agree, Covered, FollowsAt, Tlb

LEMMA FollowStep ==
  ASSUME SessionsAssumption, FollowOK, [Next]_vars
  PROVE  FollowOK'
<1>1. CASE Tlbw
  <2>1. PICK e \in Entries, maps \in session.entries :
          TlbWrite(e, maps) /\ UNCHANGED <<session, rdram, blocks, slot, executed>>
    BY <1>1 DEF Tlbw
  <2>2. session' = session /\ slot' = slot /\ tlb_e' = [tlb_e EXCEPT ![e] = maps]
    BY <2>1 DEF TlbWrite
  <2>3. session \in Sessions /\ tlb_e \in Tlb /\ tlb_e' \in Tlb /\ Tlb' = Tlb
    BY <2>2 DEF FollowOK, Tlb
  <2>4. \A u \in Mapped :
          /\ FollowsAt(tlb_LUT_r, tlb_e, FALSE, u) => FollowsAt(tlb_LUT_r', tlb_e', FALSE, u)
          /\ FollowsAt(tlb_LUT_w, tlb_e, TRUE, u) => FollowsAt(tlb_LUT_w', tlb_e', TRUE, u)
    BY <1>1, <2>3, TlbwFollows
  <2> QED
    BY <2>2, <2>3, <2>4 DEF FollowOK, Agree, Covered, FollowsAt
<1>2. CASE LoadState
  <2>1. /\ tlb_e' = slot.tlb_e
        /\ tlb_LUT_r' = [u \in Mapped |-> IF u \in InState THEN slot.r[u] ELSE tlb_LUT_r[u]]
        /\ tlb_LUT_w' = [u \in Mapped |-> IF u \in InState THEN slot.w[u] ELSE tlb_LUT_w[u]]
        /\ DOMAIN slot # {} /\ slot' = slot /\ session' = session /\ "save" \in session.stores
    BY <1>2 DEF LoadState
  <2>2. \A u \in Covered : tlb_LUT_r'[u] = slot.r[u] /\ tlb_LUT_w'[u] = slot.w[u]
    BY <2>1 DEF Covered
  <2> QED
    BY <2>1, <2>2 DEF FollowOK, Agree, Covered, FollowsAt, Tlb
<1>3. CASE CoreStart
  <2>1. /\ tlb_LUT_r' = [u \in Mapped |-> NoPage]
        /\ tlb_e' = [e \in Entries |-> {}]
        /\ UNCHANGED <<session, slot>> /\ "start" \in session.stores
    BY <1>3 DEF CoreStart
  <2> QED
    BY <2>1 DEF FollowOK, Agree, Covered, FollowsAt, Tlb
<1>4. CASE SaveState
  <2>1. UNCHANGED <<session, tlb_e, tlb_LUT_r, tlb_LUT_w>>
        /\ slot' = [rdram |-> rdram, tlb_e |-> tlb_e, r |-> tlb_LUT_r, w |-> tlb_LUT_w]
    BY <1>4 DEF SaveState
  <2> QED
    BY <2>1 DEF FollowOK, Agree, Covered, FollowsAt, Tlb
<1>5. CASE Jump \/ Store \/ CartDma \/ FrameBuffer \/ UNCHANGED vars
  <2>1. UNCHANGED <<session, tlb_e, tlb_LUT_r, tlb_LUT_w, slot>>
    BY <1>5 DEF Jump, Store, CartDma, FrameBuffer, vars
  <2> QED
    BY <2>1 DEF FollowOK, Agree, Covered, FollowsAt, Tlb
<1> QED
  BY <1>1, <1>2, <1>3, <1>4, <1>5 DEF Next

\* Translations follow the TLB, whatever the program maps, saves and loads, for
\* every page whose translations a savestate has and, without savestates, for
\* every page; those for stores until a program is started again.
THEOREM LutsFollow ==
  ASSUME SessionsAssumption
  PROVE  Spec => []LutFollowsTlb
<1>1. Init => FollowOK
  BY FollowStart
<1>2. FollowOK /\ [Next]_vars => FollowOK'
  BY FollowStep
<1>3. FollowOK => LutFollowsTlb
  BY DEF FollowOK, Agree, Covered, LutFollowsTlb
<1> QED
  BY <1>1, <1>2, <1>3, PTL DEF Spec

\* A step after which a table no longer agrees with the TLB about u.
Parts(lut, lut2, dirty, u) == FollowsAt(lut, tlb_e, dirty, u) /\ ~FollowsAt(lut2, tlb_e', dirty, u)
OnlyLoadsPart == \A u \in Mapped :
  /\ Parts(tlb_LUT_r, tlb_LUT_r', FALSE, u) =>
       LoadState /\ (u \in InState => ~FollowsAt(slot.r, slot.tlb_e, FALSE, u))
  /\ Parts(tlb_LUT_w, tlb_LUT_w', TRUE, u) =>
       CoreStart \/ (LoadState /\ (u \in InState => ~FollowsAt(slot.w, slot.tlb_e, TRUE, u)))

\* With any savestates and any starts, the table for loads comes to disagree
\* with the TLB only at a load, of a page the savestate leaves out or had wrong;
\* that for stores there or at a start.  No write of an entry does it.
THEOREM LutsPart ==
  ASSUME SessionsAssumption
  PROVE  Spec => [][OnlyLoadsPart]_vars
<1>1. FollowOK => session \in Sessions /\ tlb_e \in Tlb
  BY DEF FollowOK
<1>2. FollowOK /\ [Next]_vars => [OnlyLoadsPart]_vars
  <2> SUFFICES ASSUME FollowOK, Next, NEW u \in Mapped
               PROVE  /\ Parts(tlb_LUT_r, tlb_LUT_r', FALSE, u) =>
                           LoadState /\ (u \in InState => ~FollowsAt(slot.r, slot.tlb_e, FALSE, u))
                      /\ Parts(tlb_LUT_w, tlb_LUT_w', TRUE, u) =>
                           CoreStart \/ (LoadState /\ (u \in InState => ~FollowsAt(slot.w, slot.tlb_e, TRUE, u)))
    BY DEF OnlyLoadsPart
  <2>1. CASE Tlbw
    BY <1>1, <2>1, TlbwFollows DEF Parts
  <2>2. CASE LoadState
    <3>1. /\ tlb_e' = slot.tlb_e
          /\ tlb_LUT_r' = [x \in Mapped |-> IF x \in InState THEN slot.r[x] ELSE tlb_LUT_r[x]]
          /\ tlb_LUT_w' = [x \in Mapped |-> IF x \in InState THEN slot.w[x] ELSE tlb_LUT_w[x]]
      BY <2>2 DEF LoadState
    <3>2. u \in InState => tlb_LUT_r'[u] = slot.r[u] /\ tlb_LUT_w'[u] = slot.w[u]
      BY <3>1
    <3> QED
      BY <2>2, <3>1, <3>2 DEF Parts, FollowsAt
  <2>3. CASE CoreStart
    <3>1. tlb_LUT_r' = [x \in Mapped |-> NoPage]
      BY <2>3 DEF CoreStart
    <3> QED
      BY <2>3, <3>1 DEF Parts, FollowsAt
  <2>4. CASE Jump \/ Store \/ CartDma \/ FrameBuffer \/ SaveState
    <3>1. UNCHANGED <<tlb_e, tlb_LUT_r, tlb_LUT_w>>
      BY <2>4 DEF Jump, Store, CartDma, FrameBuffer, SaveState
    <3> QED
      BY <3>1 DEF Parts, FollowsAt
  <2> QED
    BY <2>1, <2>2, <2>3, <2>4 DEF Next
<1>3. Init => FollowOK
  BY FollowStart
<1>4. FollowOK /\ [Next]_vars => FollowOK'
  BY FollowStep
<1> QED
  BY <1>2, <1>3, <1>4, PTL DEF Spec
=============================================================================
