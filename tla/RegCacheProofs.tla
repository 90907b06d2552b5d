--------------------------- MODULE RegCacheProofs ---------------------------
(***************************************************************************)
(* The register cache: whatever block is compiled, and wherever it is       *)
(* entered, emitted code takes current values, nothing that memory does not *)
(* have is lost, and the wrapper of an entry loads what the code there uses.*)
(* First what the functions of regcache.cpp and the code that an            *)
(* instruction emits do to registers, to memory and to what the entry is    *)
(* told; then that every instruction keeps the invariant.                   *)
(***************************************************************************)
EXTENDS RegCache, FiniteSetTheorems, SequenceTheorems, WellFoundedInduction, TLAPS

-----------------------------------------------------------------------------
(* Sessions.                                                               *)

Pairing == {"ori", "daddiu", "slti", "dsll", "dsll32", "dsrl32", "dsra32", "ld",
            "daddu", "and", "slt", "dsllv", "move", "branch"}
Widening == {"ori", "daddiu", "dsll", "dsll32", "dsrl32", "ld", "daddu", "and",
             "dsllv", "move", "call"}
Low      == {"addiu", "sll", "addu", "sllv", "dsllv", "mult"}

Pairs(f)  == f.forms \cap Pairing # {}
Testing(f)  == "branch" \in f.forms
RegsOf(f) == f.regs \cup {HI, LO}
Narrow0(f) == Testing(f) /\ f.forms \cap Low # {}

\* The registers an instruction has in use at once.
Two(f) == IF Pairs(f) THEN 2 ELSE 1
InUse(f, form) ==
  CASE form \in {"addiu", "sll"} -> Two(f) + 1
    [] form = "lui" -> 1
    [] form = "addu" -> 2 * Two(f) + 1
    [] form = "sllv" -> 2 * Two(f) + 1
    [] form \in {"slti", "dsra32"} -> 3
    [] form \in {"ori", "daddiu", "dsll", "dsll32", "dsrl32", "move", "branch"} -> 4
    [] form = "slt" -> 5
    [] form \in {"daddu", "and", "dsllv"} -> 6
    [] form = "mult" -> 2 + 2 * Two(f)
    [] form = "lw" -> 1
    [] form = "ld" -> 2
    [] OTHER -> 0
ByName(form) ==
  CASE form = "lw" -> {EAX} [] form = "ld" -> {EAX, ECX}
    [] form \in {"sllv", "dsllv"} -> {ECX} [] form = "mult" -> {EAX, EDX}
    [] OTHER -> {}

LimitsOf(f) ==
  /\ f.regs \subseteq Nat \ {HI, LO}
  /\ IsFiniteSet(f.x86) /\ f.x86 \subseteq Nat
  /\ f.length \in Nat /\ f.entries \subseteq Nat
  /\ \A form \in f.forms : /\ InUse(f, form) <= Cardinality(f.x86)
                           /\ ByName(form) \subseteq f.x86
  /\ f.entries \subseteq {1} \/ RegsOf(f) \subseteq f.narrow
  /\ Narrow0(f) => RegsOf(f) \subseteq f.narrow /\ f.forms \cap Widening = {}

-----------------------------------------------------------------------------
(* The invariant.                                                          *)

Fields == {"last_access", "reg_content", "free_since", "dirty", "r64", "needed", "hold", "loads",
           "mem", "narrow", "wrong", "x", "v"}
Held   == Word \cup {Junk, Loaded}
States ==
  [last_access : [X -> Nat], reg_content : [X -> Word \cup {NoWord}], free_since : [X -> Nat],
   dirty : [X -> BOOLEAN], r64 : [X -> X \cup {None}], needed : [X -> Word \cup {NoWord}],
   hold : [X -> Held], loads : [X -> Word \cup {NoWord}], mem : [Word -> BOOLEAN],
   narrow : SUBSET (Regs \cup session.narrow), wrong : SUBSET Word, x : Int,
   v : Seq(X \X (X \cup {None}))]

LowWord(w)  == \E r \in Regs : w = Lo(r)
Partners(w, w2) == \E r \in Regs : \/ w = Lo(r) /\ w2 = Hi(r)
                                   \/ w = Hi(r) /\ w2 = Lo(r)

\* A register of a pair.
PairOK(t, x) ==
  LET y == t.r64[x]
  IN  /\ y \in X /\ y # x /\ Live(t, y) /\ t.r64[y] = x
      /\ t.last_access[y] = t.last_access[x] /\ t.dirty[y] = t.dirty[x]
      /\ Partners(t.reg_content[x], t.reg_content[y])
PairsOK(t) == \A x \in X : Live(t, x) /\ Paired(t, x) => Pairs(session) /\ PairOK(t, x)

\* No word is in two registers.
Distinct(t) == \A x, y \in X :
  Live(t, x) /\ Live(t, y) /\ t.reg_content[x] = t.reg_content[y] => x = y

\* What will be written to memory.
Backs(t, x, w) == /\ Live(t, x) /\ t.dirty[x]
                  /\ t.reg_content[x] = w \/ (~Paired(t, x) /\ t.reg_content[x] = Lo(w[1]))
MemOK(t) == \A w \in Word : t.mem[w] \/ \E x \in X : Backs(t, x, w)

\* The entry's instruction has been told of x.
Told(t, x) == IF Live(t, x) THEN t.last_access[x] >= entry ELSE t.free_since[x] > entry

LoadsOK(t) == \A x \in X : t.loads[x] # NoWord => t.needed[x] = t.loads[x] /\ Told(t, x)

\* The state while instruction d is compiled, the code before it having run.
Core(t, d, run) ==
  /\ t \in States
  /\ \A x \in X : t.last_access[x] <= d
  /\ PairsOK(t) /\ Distinct(t) /\ MemOK(t) /\ t.wrong = {}
  /\ run => LoadsOK(t)

\* A register has what it stands for.
Fit(t, x, run) == Live(t, x) =>
  /\ t.reg_content[x] \in Word
  /\ ~Paired(t, x) => LowWord(t.reg_content[x])
  /\ t.hold[x] \in {t.reg_content[x], Loaded}
  /\ ~Paired(t, x) /\ (t.dirty[x] \/ Testing(session)) => t.reg_content[x][1] \in t.narrow
  /\ run /\ t.hold[x] = Loaded /\ Told(t, x) => t.needed[x] = t.reg_content[x]

NarrowOK(t) == Narrow0(session) => Regs \subseteq t.narrow

\* The state within an instruction.  P are the registers in the making: accessed
\* by this instruction, their value not given yet.
Good(t, P) ==
  /\ Core(t, dst, Running)
  /\ P \subseteq X /\ \A x \in P : t.last_access[x] = dst
  /\ \A x \in X \ P : Fit(t, x, Running)

Only(t, u, F) == \A f \in Fields \ F : u[f] = t[f]

\* Where the compiler is.
Here == LimitsOf(session) /\ entry \in Nat /\ dst \in Nat \ {0} /\ slot \in BOOLEAN

-----------------------------------------------------------------------------
(* Words, registers and the state.                                         *)

\* Words and what else a register holds are told apart.
LEMMA Words ==
  ASSUME Here
  PROVE  /\ \A r \in Regs : Lo(r) \in Word /\ Hi(r) \in Word /\ Lo(r)[1] = r /\ Hi(r)[1] = r
         /\ \A r, q \in Regs : Lo(r) # Hi(q) /\ (Lo(r) = Lo(q) => r = q) /\ (Hi(r) = Hi(q) => r = q)
         /\ \A w \in Word : \E r \in Regs : w = Lo(r) \/ w = Hi(r)
         /\ Junk \notin Word /\ Loaded \notin Word /\ NoWord \notin Word /\ Junk # Loaded
<1>1. Regs \subseteq Nat
  BY DEF Here, LimitsOf, Regs, HI, LO
<1>2. \A w \in Word : Len(w) = 2
  BY DEF Word, Lo, Hi
<1>3. NoWord \notin Word
  BY <1>2 DEF NoWord
<1>4. Junk \notin Word /\ Loaded \notin Word /\ Junk # Loaded
  BY <1>1 DEF Word, Lo, Hi, Junk, Loaded
<1> QED
  BY <1>1, <1>3, <1>4 DEF Word, Lo, Hi

\* Registers are numbers, and code runs from the entry on.
LEMMA Numbers ==
  ASSUME Here
  PROVE  /\ X \subseteq Nat /\ IsFiniteSet(X) /\ None \notin X
         /\ Regs \subseteq Nat
         /\ entry \in Nat /\ dst \in Nat /\ dst # 0
         /\ Running => entry <= dst
<1>1. X \subseteq Nat /\ IsFiniteSet(X)
  BY DEF Here, LimitsOf, X
<1>2. Regs \subseteq Nat
  BY DEF Here, LimitsOf, Regs, HI, LO
<1>3. None \notin X
  BY <1>1 DEF None
<1>4. Running => entry <= dst
  BY DEF Running, Here
<1> QED
  BY <1>1, <1>2, <1>3, <1>4 DEF Here

\* A register that is told of stays so when it is accessed or let go.
LEMMA NeedFields ==
  ASSUME Here, NEW t \in States, NEW x \in X, NEW first, NEW v \in Word \cup {NoWord}
  PROVE  /\ Need(t, x, first, v) \in States
         /\ Only(t, Need(t, x, first, v), {"needed"})
         /\ Need(t, x, first, v).needed =
              IF first <= entry /\ entry <= dst THEN [t.needed EXCEPT ![x] = v] ELSE t.needed
BY DEF Need, States, Only, Fields

\* A read of what a register stands for.
LEMMA UseFields ==
  ASSUME Here, NEW t \in States, NEW x \in X, NEW w \in Word, t.hold[x] \in {w, Loaded}
  PROVE  /\ Use(t, x, w) \in States
         /\ Only(t, Use(t, x, w), {"hold", "loads"})
         /\ Use(t, x, w).hold = [t.hold EXCEPT ![x] = w]
         /\ Use(t, x, w).loads = IF t.hold[x] = Loaded THEN [t.loads EXCEPT ![x] = w] ELSE t.loads
<1>1. CASE t.hold[x] = Loaded
  BY <1>1 DEF Use, States, Only, Fields, Held
<1>2. CASE t.hold[x] # Loaded
  BY <1>2 DEF Use, States, Only, Fields, Held
<1> QED
  BY <1>1, <1>2

\* A register is written back.
LEMMA SavedFields ==
  ASSUME Here, NEW t \in States, NEW x \in X, t.reg_content[x] \in Word,
         t.hold[x] \in {t.reg_content[x], Loaded}
  PROVE  /\ Saved(t, x) \in States
         /\ Only(t, Saved(t, x), {"hold", "loads", "mem"})
         /\ Saved(t, x).hold = [t.hold EXCEPT ![x] = t.reg_content[x]]
         /\ Saved(t, x).loads =
              IF t.hold[x] = Loaded THEN [t.loads EXCEPT ![x] = t.reg_content[x]] ELSE t.loads
         /\ Saved(t, x).mem = [t.mem EXCEPT ![t.reg_content[x]] = TRUE]
<1> DEFINE w == t.reg_content[x]
           u == Copied(t, x)
<1>1. /\ u \in States /\ Only(t, u, {"hold", "loads"})
      /\ u.hold = [t.hold EXCEPT ![x] = w]
      /\ u.loads = IF t.hold[x] = Loaded THEN [t.loads EXCEPT ![x] = w] ELSE t.loads
  <2>1. CASE t.hold[x] = Loaded
    BY <2>1, UseFields DEF Copied
  <2>2. CASE t.hold[x] # Loaded
    BY <2>2 DEF Copied, States, Only
  <2> QED
    BY <2>1, <2>2
<1>2. u.hold[x] = w /\ u.mem = t.mem
  BY <1>1 DEF States, Only, Fields
<1> HIDE DEF u
<1>3. /\ Moved(u, x, w) \in States /\ Only(u, Moved(u, x, w), {"mem"})
      /\ Moved(u, x, w).mem = [u.mem EXCEPT ![w] = TRUE]
  BY <1>1, <1>2 DEF Moved, States, Only, Fields
<1>4. Saved(t, x) = Moved(u, x, w)
  BY DEF Saved, Put, u
<1> QED
  BY <1>1, <1>2, <1>3, <1>4 DEF Only, Fields

-----------------------------------------------------------------------------
(* Registers that are freed.                                               *)

\* What a register is found to hold where it is written back.
Due(t, x) == IF Live(t, x) THEN DirtyWord(t, x) ELSE NoWord

\* From t to u the registers Z are freed.
Frees(t, u, Z) ==
  /\ u \in States
  /\ Only(t, u, {"last_access", "free_since", "needed", "hold", "loads", "mem"})
  /\ \A y \in X \ Z :
       /\ u.last_access[y] = t.last_access[y] /\ u.free_since[y] = t.free_since[y]
       /\ u.needed[y] = t.needed[y] /\ u.hold[y] = t.hold[y] /\ u.loads[y] = t.loads[y]
  /\ \A y \in Z :
       /\ u.last_access[y] = 0 /\ u.free_since[y] = dst + 1
       /\ Running => u.needed[y] = IF Told(t, y) THEN t.needed[y] ELSE Due(t, y)
       /\ \/ u.loads[y] = t.loads[y]
          \/ u.loads[y] = t.reg_content[y] /\ Live(t, y) /\ t.dirty[y] /\ t.hold[y] = Loaded
       /\ Live(t, y) /\ t.dirty[y] =>
            /\ u.mem[t.reg_content[y]]
            /\ ~Paired(t, y) => u.mem[Hi(t.reg_content[y][1])]
  /\ \A w \in Word : t.mem[w] => u.mem[w]

\* Where no pair is torn the registers that remain are as good as before.
LEMMA FreesGood ==
  ASSUME Here, NEW t, NEW u, NEW P, NEW Z \in SUBSET X, Good(t, P), Frees(t, u, Z), Z \cap P = {},
         \A y \in Z : Live(t, y) /\ Paired(t, y) => t.r64[y] \in Z
  PROVE  Good(u, P)
<1> USE DEF Live, Paired
<1>1. /\ t \in States /\ u \in States
      /\ u.reg_content = t.reg_content /\ u.dirty = t.dirty /\ u.r64 = t.r64
      /\ u.narrow = t.narrow /\ u.wrong = t.wrong
  BY DEF Frees, Only, Fields, Good, Core
<1>2. /\ dst \in Nat /\ dst # 0 /\ entry \in Nat /\ (Running => entry <= dst) /\ None \notin X /\ X \subseteq Nat
  BY Numbers
<1>3. \A y \in X : \/ y \in Z /\ u.last_access[y] = 0
                   \/ /\ y \notin Z /\ u.last_access[y] = t.last_access[y]
                      /\ u.free_since[y] = t.free_since[y]
                      /\ u.needed[y] = t.needed[y] /\ u.hold[y] = t.hold[y] /\ u.loads[y] = t.loads[y]
  BY DEF Frees
<1>4. \A x \in X : u.last_access[x] <= dst
  <2>1. \A x \in X : t.last_access[x] <= dst
    BY DEF Good, Core
  <2>2. 0 <= dst
    BY <1>2
  <2> QED
    BY <1>3, <2>1, <2>2
<1>5. PairsOK(u)
  <2> SUFFICES ASSUME NEW x \in X, Live(u, x), Paired(u, x)
               PROVE  Pairs(session) /\ PairOK(u, x)
    BY DEF PairsOK
  <2> DEFINE y == t.r64[x]
  <2>1. x \notin Z /\ Live(t, x) /\ Paired(t, x) /\ Pairs(session) /\ PairOK(t, x)
    BY <1>1, <1>3 DEF Good, Core, PairsOK
  <2>2. y \in X /\ t.r64[y] = x /\ Live(t, y) /\ Paired(t, y)
    BY <2>1, <1>2 DEF PairOK
  <2>3. y \notin Z
    BY <2>1, <2>2
  <2> QED
    BY <1>1, <1>3, <2>1, <2>2, <2>3 DEF PairOK
<1>6. Distinct(u)
  BY <1>1, <1>3 DEF Good, Core, Distinct
<1>7. MemOK(u)
  <2> SUFFICES ASSUME NEW w \in Word, ~u.mem[w]
               PROVE  \E x \in X : Backs(u, x, w)
    BY DEF MemOK
  <2>1. ~t.mem[w]
    BY DEF Frees
  <2>2. PICK x \in X : Backs(t, x, w)
    BY <2>1 DEF Good, Core, MemOK
  <2>3. CASE x \in Z
    <3>1. /\ u.mem[t.reg_content[x]]
          /\ ~Paired(t, x) => u.mem[Hi(t.reg_content[x][1])]
      BY <2>2, <2>3 DEF Backs, Frees
    <3>2. t.reg_content[x] # w /\ ~Paired(t, x) /\ t.reg_content[x] = Lo(w[1])
      BY <2>2, <3>1 DEF Backs
    <3>3. PICK r \in Regs : w = Lo(r) \/ w = Hi(r)
      BY Words
    <3>4. w[1] = r /\ w = Hi(r)
      BY <3>2, <3>3, Words
    <3>5. t.reg_content[x][1] = r
      BY <3>2, <3>4, Words
    <3> QED
      BY <3>1, <3>2, <3>4, <3>5
  <2>4. CASE x \notin Z
    BY <1>1, <1>3, <2>2, <2>4 DEF Backs
  <2> QED
    BY <2>3, <2>4
<1>8. ASSUME Running PROVE LoadsOK(u)
  <2> SUFFICES ASSUME NEW x \in X, u.loads[x] # NoWord
               PROVE  u.needed[x] = u.loads[x] /\ Told(u, x)
    BY DEF LoadsOK
  <2>1. LoadsOK(t)
    BY <1>8 DEF Good, Core
  <2>2. CASE x \notin Z
    BY <1>1, <1>3, <2>1, <2>2 DEF LoadsOK, Told
  <2>3. CASE x \in Z
    <3>1. Told(u, x)
      BY <1>2, <1>8, <2>3 DEF Told, Frees
    <3>2. u.needed[x] = IF Told(t, x) THEN t.needed[x] ELSE Due(t, x)
      BY <1>8, <2>3 DEF Frees
    <3>3. CASE u.loads[x] = t.loads[x]
      BY <2>1, <3>1, <3>2, <3>3 DEF LoadsOK
    <3>4. CASE u.loads[x] = t.reg_content[x] /\ Live(t, x) /\ t.dirty[x] /\ t.hold[x] = Loaded
      <4>1. Fit(t, x, Running)
        BY <2>3 DEF Good
      <4>2. Told(t, x) => t.needed[x] = t.reg_content[x]
        BY <1>8, <3>4, <4>1 DEF Fit
      <4>3. Due(t, x) = t.reg_content[x]
        BY <3>4 DEF Due, DirtyWord
      <4> QED
        BY <3>1, <3>2, <3>4, <4>2, <4>3
    <3> QED
      BY <2>3, <3>3, <3>4 DEF Frees
  <2> QED
    BY <2>2, <2>3
<1>9. Core(u, dst, Running)
  BY <1>1, <1>4, <1>5, <1>6, <1>7, <1>8 DEF Good, Core
<1>10. \A x \in P : u.last_access[x] = dst
  BY <1>3 DEF Good
<1>11. \A x \in X \ P : Fit(u, x, Running)
  <2> SUFFICES ASSUME NEW x \in X \ P, Live(u, x)
               PROVE  Fit(u, x, Running)
    BY DEF Fit
  <2>1. Fit(t, x, Running)
    BY DEF Good
  <2> QED
    BY <1>1, <1>3, <2>1 DEF Fit, Told
<1> QED
  BY <1>9, <1>10, <1>11 DEF Good

\* The registers that free_register(x) frees.
Group(t, x) == IF Live(t, x) /\ Paired(t, x) THEN {x, t.r64[x]} ELSE {x}

\* It frees them.
LEMMA FreeIdle ==
  ASSUME Here, NEW t \in States, NEW x \in X, ~Live(t, x)
  PROVE  Frees(t, free_register(t, x), {x})
<1> DEFINE n == Need(t, x, t.free_since[x], NoWord)
           u == free_register(t, x)
<1>1. /\ n \in States /\ Only(t, n, {"needed"})
      /\ n.needed = IF t.free_since[x] <= entry /\ entry <= dst THEN [t.needed EXCEPT ![x] = NoWord] ELSE t.needed
  BY NeedFields
<1>2. u = [n EXCEPT !.free_since[x] = dst + 1]
  BY DEF free_register
<1> HIDE DEF n, u
<1>3. /\ u \in States /\ Only(n, u, {"free_since"}) /\ u.free_since = [n.free_since EXCEPT ![x] = dst + 1]
  <2>1. dst + 1 \in Nat
    BY Numbers
  <2> QED
    BY <1>1, <1>2, <2>1 DEF States, Only, Fields
<1>4. /\ u.last_access = t.last_access /\ u.hold = t.hold /\ u.loads = t.loads /\ u.mem = t.mem
      /\ u.needed = n.needed /\ n.free_since = t.free_since
  BY <1>1, <1>3 DEF Only, Fields
<1>5. Only(t, u, {"last_access", "free_since", "needed", "hold", "loads", "mem"})
  BY <1>1, <1>3 DEF Only, Fields
<1>6. /\ t.last_access[x] = 0
      /\ t.needed \in [X -> Word \cup {NoWord}] /\ t.free_since \in [X -> Nat]
  BY DEF Live, States
<1>7. Running => u.needed[x] = IF Told(t, x) THEN t.needed[x] ELSE Due(t, x)
  <2> SUFFICES ASSUME Running
               PROVE  u.needed[x] = IF Told(t, x) THEN t.needed[x] ELSE Due(t, x)
    OBVIOUS
  <2>1. Due(t, x) = NoWord /\ (Told(t, x) <=> t.free_since[x] > entry)
    BY DEF Due, Told
  <2> QED
    BY <1>1, <1>4, <1>6, <2>1, Numbers
<1>8. \A y \in X \ {x} : u.free_since[y] = t.free_since[y] /\ u.needed[y] = t.needed[y]
  BY <1>1, <1>3, <1>4, <1>6
<1>9. u.free_since[x] = dst + 1
  BY <1>3, <1>4, <1>6
<1>10. \A y \in X \ {x} :
         /\ u.last_access[y] = t.last_access[y] /\ u.free_since[y] = t.free_since[y]
         /\ u.needed[y] = t.needed[y] /\ u.hold[y] = t.hold[y] /\ u.loads[y] = t.loads[y]
  BY <1>4, <1>8
<1>11. u.last_access[x] = 0 /\ u.loads[x] = t.loads[x]
  BY <1>4, <1>6
<1>12. \A w \in Word : t.mem[w] => u.mem[w]
  BY <1>4
<1> QED
  BY <1>3, <1>5, <1>7, <1>9, <1>10, <1>11, <1>12 DEF Frees, u

\* What Left, with the register live, does to needed.
LEMMA LeftFields ==
  ASSUME Here, NEW t \in States, NEW x \in X, Live(t, x)
  PROVE  LET u == Left(t, x, t.last_access[x] + 1) IN
         /\ u \in States /\ Only(t, u, {"needed"})
         /\ \A y \in X \ {x} : u.needed[y] = t.needed[y]
         /\ Running => u.needed[x] = IF Told(t, x) THEN t.needed[x] ELSE Due(t, x)
<1> DEFINE u == Left(t, x, t.last_access[x] + 1)
           v == DirtyWord(t, x)
           f == t.last_access[x] + 1
<1>1. v \in Word \cup {NoWord} /\ v = Due(t, x)
  BY DEF DirtyWord, Due, States
<1>2. u = Need(t, x, f, v)
  BY DEF Left
<1> HIDE DEF u, v
<1>3. /\ u \in States /\ Only(t, u, {"needed"})
      /\ u.needed = IF f <= entry /\ entry <= dst THEN [t.needed EXCEPT ![x] = v] ELSE t.needed
  BY <1>1, <1>2, NeedFields
<1>4. t.needed \in [X -> Word \cup {NoWord}] /\ t.last_access[x] \in Nat
  BY DEF States
<1>5. Told(t, x) <=> t.last_access[x] >= entry
  BY DEF Told
<1> QED
  BY <1>1, <1>3, <1>4, <1>5, Numbers DEF u

\* A register is let go.
LEMMA ReleaseFields ==
  ASSUME Here, NEW t \in States, NEW x \in X
  PROVE  LET u == Release(t, x) IN
         /\ u \in States /\ Only(t, u, {"last_access", "free_since"})
         /\ u.last_access = [t.last_access EXCEPT ![x] = 0]
         /\ u.free_since = [t.free_since EXCEPT ![x] = dst + 1]
<1>1. dst + 1 \in Nat /\ 0 \in Nat
  BY Numbers
<1> QED
  BY <1>1 DEF Release, States, Only, Fields

\* The sign of a low word is stored.
LEMMA SignedFields ==
  ASSUME Here, NEW t \in States, NEW x \in X, NEW r \in Regs, t.hold[x] = Lo(r), r \in t.narrow
  PROVE  LET u == Signed(t, x, r) IN
         /\ u \in States /\ Only(t, u, {"mem", "hold"})
         /\ u.mem = [t.mem EXCEPT ![Hi(r)] = TRUE]
         /\ u.hold = [t.hold EXCEPT ![x] = Hi(r)]
<1>1. Sign(t, x, r) = Hi(r) /\ Hi(r) \in Word
  BY Words DEF Sign
<1> QED
  BY <1>1 DEF Signed, States, Only, Fields, Held

LEMMA FreeSingle ==
  ASSUME Here, NEW t, NEW x \in X, NEW P, Good(t, P), x \notin P, Live(t, x), ~Paired(t, x)
  PROVE  Frees(t, free_register(t, x), {x})
<1> DEFINE n == Left(t, x, t.last_access[x] + 1)
           a == Saved(n, x)
           r == t.reg_content[x][1]
           b == Signed(a, x, r)
           c == IF t.dirty[x] THEN b ELSE n
           u == Release(c, x)
<1>0. free_register(t, x) = u
  BY DEF free_register, LowOf, Freed
<1>1. t \in States /\ Fit(t, x, Running)
  BY DEF Good, Core
<1>2. /\ r \in Regs /\ t.reg_content[x] = Lo(r) /\ Lo(r) \in Word /\ Hi(r) \in Word
      /\ t.hold[x] \in {Lo(r), Loaded}
      /\ t.dirty[x] => r \in t.narrow
  BY <1>1, Words DEF Fit, LowWord
<1> HIDE DEF r
<1>3. /\ n \in States /\ Only(t, n, {"needed"})
      /\ \A y \in X \ {x} : n.needed[y] = t.needed[y]
      /\ Running => n.needed[x] = IF Told(t, x) THEN t.needed[x] ELSE Due(t, x)
  BY <1>1, LeftFields
<1> HIDE DEF n
<1>4. /\ n.last_access = t.last_access /\ n.reg_content = t.reg_content /\ n.hold = t.hold
      /\ n.narrow = t.narrow /\ n.loads = t.loads /\ n.mem = t.mem /\ n.free_since = t.free_since
  BY <1>3 DEF Only, Fields
<1>5. /\ a \in States /\ Only(n, a, {"hold", "loads", "mem"})
      /\ a.hold = [t.hold EXCEPT ![x] = Lo(r)]
      /\ a.loads = IF t.hold[x] = Loaded THEN [t.loads EXCEPT ![x] = Lo(r)] ELSE t.loads
      /\ a.mem = [t.mem EXCEPT ![Lo(r)] = TRUE]
  BY <1>2, <1>3, <1>4, SavedFields
<1> HIDE DEF a
<1>6. t.hold \in [X -> Held] /\ t.loads \in [X -> Word \cup {NoWord}] /\ t.mem \in [Word -> BOOLEAN]
  BY <1>1 DEF States
<1>7. a.hold[x] = Lo(r) /\ a.narrow = t.narrow
  BY <1>4, <1>5, <1>6 DEF Only, Fields
<1>8. t.dirty[x] => /\ b \in States /\ Only(a, b, {"mem", "hold"})
                    /\ b.mem = [a.mem EXCEPT ![Hi(r)] = TRUE]
                    /\ b.hold = [a.hold EXCEPT ![x] = Hi(r)]
  <2> SUFFICES ASSUME t.dirty[x]
               PROVE  /\ b \in States /\ Only(a, b, {"mem", "hold"})
                      /\ b.mem = [a.mem EXCEPT ![Hi(r)] = TRUE]
                      /\ b.hold = [a.hold EXCEPT ![x] = Hi(r)]
    OBVIOUS
  <2>1. r \in a.narrow
    BY <1>2, <1>7
  <2>2. a \in States /\ a.hold[x] = Lo(r) /\ r \in Regs
    BY <1>2, <1>5, <1>7
  <2> QED
    BY <2>1, <2>2, SignedFields
<1> HIDE DEF b
<1>9. /\ c \in States /\ Only(t, c, {"needed", "hold", "loads", "mem"})
      /\ c.needed = n.needed
      /\ \A y \in X \ {x} : c.hold[y] = t.hold[y] /\ c.loads[y] = t.loads[y]
      /\ \/ c.loads[x] = t.loads[x]
         \/ c.loads[x] = Lo(r) /\ t.dirty[x] /\ t.hold[x] = Loaded
      /\ \A w \in Word : t.mem[w] => c.mem[w]
      /\ t.dirty[x] => c.mem[Lo(r)] /\ c.mem[Hi(r)]
  <2>1. CASE t.dirty[x]
    <3>1. /\ b \in States /\ Only(t, b, {"needed", "hold", "loads", "mem"})
          /\ b.needed = n.needed /\ b.loads = a.loads
      BY <1>3, <1>5, <1>8, <2>1 DEF Only, Fields
    <3>2. \A y \in X \ {x} : b.hold[y] = t.hold[y] /\ b.loads[y] = t.loads[y]
      BY <1>5, <1>6, <1>8, <2>1, <3>1
    <3>3. \A w \in Word : t.mem[w] => b.mem[w]
      BY <1>2, <1>5, <1>6, <1>8, <2>1
    <3>4. b.mem[Lo(r)] /\ b.mem[Hi(r)]
      BY <1>2, <1>5, <1>6, <1>8, <2>1
    <3>5. \/ b.loads[x] = t.loads[x]
          \/ b.loads[x] = Lo(r) /\ t.hold[x] = Loaded
      BY <1>5, <1>6, <3>1
    <3> QED
      BY <2>1, <3>1, <3>2, <3>3, <3>4, <3>5
  <2>2. CASE ~t.dirty[x]
    BY <1>3, <1>4, <2>2 DEF Only
  <2> QED
    BY <2>1, <2>2
<1> HIDE DEF c
<1>10. /\ u \in States /\ Only(c, u, {"last_access", "free_since"})
       /\ u.last_access = [c.last_access EXCEPT ![x] = 0]
       /\ u.free_since = [c.free_since EXCEPT ![x] = dst + 1]
  BY <1>9, ReleaseFields
<1> HIDE DEF u
<1>11. Only(t, u, {"last_access", "free_since", "needed", "hold", "loads", "mem"})
  BY <1>9, <1>10 DEF Only, Fields
<1>12. /\ u.needed = n.needed /\ u.hold = c.hold /\ u.loads = c.loads /\ u.mem = c.mem
       /\ c.last_access = t.last_access /\ c.free_since = t.free_since
  BY <1>9, <1>10 DEF Only, Fields
<1>13. /\ \A y \in X \ {x} : u.last_access[y] = t.last_access[y] /\ u.free_since[y] = t.free_since[y]
       /\ u.last_access[x] = 0 /\ u.free_since[x] = dst + 1
  BY <1>1, <1>10, <1>12 DEF States
<1> QED
  BY <1>0, <1>2, <1>3, <1>9, <1>10, <1>11, <1>12, <1>13 DEF Frees, r

LEMMA SplitFields ==
  ASSUME Here, NEW t, NEW z \in X, NEW P, Good(t, P), z \notin P, t.r64[z] \notin P,
         Live(t, z), Paired(t, z)
  PROVE  LET c == Split(t, z)
             y == t.r64[z] IN
         /\ c \in States /\ Only(t, c, {"needed", "hold", "loads", "mem"})
         /\ \A i \in X \ {z, y} :
              c.needed[i] = t.needed[i] /\ c.hold[i] = t.hold[i] /\ c.loads[i] = t.loads[i]
         /\ \A i \in {z, y} :
              /\ Running => c.needed[i] = IF Told(t, i) THEN t.needed[i] ELSE Due(t, i)
              /\ \/ c.loads[i] = t.loads[i]
                 \/ c.loads[i] = t.reg_content[i] /\ Live(t, i) /\ t.dirty[i] /\ t.hold[i] = Loaded
              /\ t.dirty[i] => c.mem[t.reg_content[i]]
         /\ \A w \in Word : t.mem[w] => c.mem[w]
<1> DEFINE y == t.r64[z]
           f == t.last_access[z] + 1
           n == Left(t, z, f)
           m == Left(n, y, f)
           a == Saved(m, z)
           b == Saved(a, y)
           c == Split(t, z)
           w1 == t.reg_content[z]
           w2 == t.reg_content[y]
<1>0. c = IF t.dirty[z] THEN b ELSE m
  BY DEF Split
<1> HIDE DEF c
<1>1. t \in States /\ Fit(t, z, Running) /\ PairOK(t, z)
  BY DEF Good, Core, PairsOK
<1>2. /\ y \in X /\ y # z /\ Live(t, y) /\ t.last_access[y] = t.last_access[z] /\ t.dirty[y] = t.dirty[z]
      /\ w1 \in Word /\ t.hold[z] \in {w1, Loaded}
  BY <1>1 DEF PairOK, Fit
<1>3. Fit(t, y, Running)
  BY <1>2 DEF Good
<1>4. w2 \in Word /\ t.hold[y] \in {w2, Loaded}
  BY <1>2, <1>3 DEF Fit
<1>5. w1 # w2
  BY <1>1, <1>2 DEF Good, Core, Distinct
<1> HIDE DEF y
<1>6. /\ n \in States /\ Only(t, n, {"needed"})
      /\ \A i \in X \ {z} : n.needed[i] = t.needed[i]
      /\ Running => n.needed[z] = IF Told(t, z) THEN t.needed[z] ELSE Due(t, z)
  BY <1>1, LeftFields
<1> HIDE DEF n
<1>7. /\ n.last_access = t.last_access /\ n.reg_content = t.reg_content /\ n.dirty = t.dirty
      /\ n.free_since = t.free_since /\ n.r64 = t.r64 /\ n.hold = t.hold
      /\ n.loads = t.loads /\ n.mem = t.mem
  BY <1>6 DEF Only, Fields
<1>8. Live(n, y) /\ (Told(n, y) <=> Told(t, y)) /\ Due(n, y) = Due(t, y) /\ f = n.last_access[y] + 1
  BY <1>2, <1>7 DEF Live, Told, Due, DirtyWord
<1>9. /\ m \in States /\ Only(n, m, {"needed"})
      /\ \A i \in X \ {y} : m.needed[i] = n.needed[i]
      /\ Running => m.needed[y] = IF Told(n, y) THEN n.needed[y] ELSE Due(n, y)
  BY <1>2, <1>6, <1>8, LeftFields
<1> HIDE DEF m, f
<1>10. /\ m.reg_content = t.reg_content /\ m.dirty = t.dirty /\ m.r64 = t.r64 /\ m.hold = t.hold
       /\ m.loads = t.loads /\ m.mem = t.mem /\ Only(t, m, {"needed"})
  BY <1>6, <1>7, <1>9 DEF Only, Fields
<1>11. /\ a \in States /\ Only(m, a, {"hold", "loads", "mem"})
       /\ a.hold = [t.hold EXCEPT ![z] = w1]
       /\ a.loads = IF t.hold[z] = Loaded THEN [t.loads EXCEPT ![z] = w1] ELSE t.loads
       /\ a.mem = [t.mem EXCEPT ![w1] = TRUE]
  <2>1. m \in States /\ m.reg_content[z] \in Word /\ m.hold[z] \in {m.reg_content[z], Loaded}
    BY <1>2, <1>9, <1>10
  <2> QED
    BY <1>10, <2>1, SavedFields
<1> HIDE DEF a
<1>12. t.hold \in [X -> Held] /\ t.loads \in [X -> Word \cup {NoWord}] /\ t.mem \in [Word -> BOOLEAN]
  BY <1>1 DEF States
<1>13. a.reg_content = t.reg_content /\ a.hold[y] = t.hold[y]
  BY <1>2, <1>10, <1>11, <1>12 DEF Only, Fields
<1>14. /\ b \in States /\ Only(a, b, {"hold", "loads", "mem"})
       /\ b.hold = [a.hold EXCEPT ![y] = w2]
       /\ b.loads = IF a.hold[y] = Loaded THEN [a.loads EXCEPT ![y] = w2] ELSE a.loads
       /\ b.mem = [a.mem EXCEPT ![w2] = TRUE]
  <2>1. a \in States /\ y \in X /\ a.reg_content[y] \in Word /\ a.hold[y] \in {a.reg_content[y], Loaded}
    BY <1>2, <1>4, <1>11, <1>13
  <2>2. /\ b \in States /\ Only(a, b, {"hold", "loads", "mem"})
        /\ b.hold = [a.hold EXCEPT ![y] = a.reg_content[y]]
        /\ b.loads = IF a.hold[y] = Loaded THEN [a.loads EXCEPT ![y] = a.reg_content[y]] ELSE a.loads
        /\ b.mem = [a.mem EXCEPT ![a.reg_content[y]] = TRUE]
    BY <2>1, SavedFields
  <2>3. a.reg_content[y] = w2
    BY <1>13
  <2> HIDE DEF b, w1, w2
  <2> QED
    BY <2>2, <2>3
<1> HIDE DEF b, w1, w2
<1>15. /\ c \in States /\ Only(t, c, {"needed", "hold", "loads", "mem"}) /\ c.needed = m.needed
       /\ \A i \in X \ {z, y} : c.hold[i] = t.hold[i] /\ c.loads[i] = t.loads[i]
       /\ \/ c.loads[z] = t.loads[z]
          \/ c.loads[z] = w1 /\ t.dirty[z] /\ t.hold[z] = Loaded
       /\ \/ c.loads[y] = t.loads[y]
          \/ c.loads[y] = w2 /\ t.dirty[z] /\ t.hold[y] = Loaded
       /\ t.dirty[z] => c.mem[w1] /\ c.mem[w2]
       /\ \A w \in Word : t.mem[w] => c.mem[w]
  <2>1. CASE ~t.dirty[z]
    BY <1>0, <1>9, <1>10, <2>1 DEF Only
  <2>2. CASE t.dirty[z]
    <3>1. c = b
      BY <1>0, <2>2
    <3>2. Only(t, b, {"needed", "hold", "loads", "mem"}) /\ b.needed = m.needed
      BY <1>10, <1>11, <1>14 DEF Only, Fields
    <3>3. \A i \in X \ {z, y} : b.hold[i] = t.hold[i] /\ b.loads[i] = t.loads[i]
      BY <1>11, <1>12, <1>14
    <3>4. b.mem[w1] /\ b.mem[w2] /\ \A w \in Word : t.mem[w] => b.mem[w]
      BY <1>2, <1>4, <1>11, <1>12, <1>14 DEF w1, w2
    <3>5. \/ b.loads[z] = t.loads[z]
          \/ b.loads[z] = w1 /\ t.hold[z] = Loaded
      BY <1>2, <1>11, <1>12, <1>14
    <3>6. \/ b.loads[y] = t.loads[y]
          \/ b.loads[y] = w2 /\ t.hold[y] = Loaded
      BY <1>2, <1>11, <1>12, <1>13, <1>14
    <3> QED
      BY <1>14, <2>2, <3>1, <3>2, <3>3, <3>4, <3>5, <3>6
  <2> QED
    BY <2>1, <2>2
<1>17. \A i \in X \ {z, y} : m.needed[i] = t.needed[i]
  BY <1>6, <1>9
<1>18. \A i \in {z, y} : Running => m.needed[i] = IF Told(t, i) THEN t.needed[i] ELSE Due(t, i)
  BY <1>2, <1>6, <1>8, <1>9
<1>19. \A i \in X \ {z, y} :
         c.needed[i] = t.needed[i] /\ c.hold[i] = t.hold[i] /\ c.loads[i] = t.loads[i]
  BY <1>15, <1>17
<1>20. ASSUME NEW i \in {z, y}
       PROVE  /\ Running => c.needed[i] = IF Told(t, i) THEN t.needed[i] ELSE Due(t, i)
              /\ \/ c.loads[i] = t.loads[i]
                 \/ c.loads[i] = t.reg_content[i] /\ Live(t, i) /\ t.dirty[i] /\ t.hold[i] = Loaded
              /\ t.dirty[i] => c.mem[t.reg_content[i]]
  <2>1. Running => c.needed[i] = IF Told(t, i) THEN t.needed[i] ELSE Due(t, i)
    BY <1>15, <1>18
  <2>2. CASE i = z
    BY <2>1, <2>2, <1>15 DEF w1
  <2>3. CASE i = y
    BY <2>1, <2>3, <1>2, <1>15 DEF w2
  <2> QED
    BY <2>2, <2>3
<1> QED
  BY <1>15, <1>19, <1>20 DEF c, y

LEMMA FreePair ==
  ASSUME Here, NEW t, NEW z \in X, NEW P, Good(t, P), z \notin P, t.r64[z] \notin P,
         Live(t, z), Paired(t, z)
  PROVE  Frees(t, Freed(t, z), {z, t.r64[z]})
<1> DEFINE y == t.r64[z]
           c == Split(t, z)
           d == Release(c, z)
           u == Release(d, y)
<1>1. t \in States /\ PairOK(t, z) /\ y \in X /\ y # z /\ t.r64[y] = z /\ Live(t, y)
  BY DEF Good, Core, PairsOK, PairOK
<1>2. Paired(t, y)
  BY <1>1, Numbers DEF Paired
<1>3. /\ c \in States /\ Only(t, c, {"needed", "hold", "loads", "mem"})
      /\ \A i \in X \ {z, y} :
           c.needed[i] = t.needed[i] /\ c.hold[i] = t.hold[i] /\ c.loads[i] = t.loads[i]
      /\ \A i \in {z, y} :
           /\ Running => c.needed[i] = IF Told(t, i) THEN t.needed[i] ELSE Due(t, i)
           /\ \/ c.loads[i] = t.loads[i]
              \/ c.loads[i] = t.reg_content[i] /\ Live(t, i) /\ t.dirty[i] /\ t.hold[i] = Loaded
           /\ t.dirty[i] => c.mem[t.reg_content[i]]
      /\ \A w \in Word : t.mem[w] => c.mem[w]
  BY SplitFields
<1>4. Freed(t, z) = u
  BY DEF Freed
<1> HIDE DEF c, y
<1>5. /\ d \in States /\ Only(c, d, {"last_access", "free_since"})
      /\ d.last_access = [c.last_access EXCEPT ![z] = 0]
      /\ d.free_since = [c.free_since EXCEPT ![z] = dst + 1]
  BY <1>3, ReleaseFields
<1> HIDE DEF d
<1>6. /\ u \in States /\ Only(d, u, {"last_access", "free_since"})
      /\ u.last_access = [d.last_access EXCEPT ![y] = 0]
      /\ u.free_since = [d.free_since EXCEPT ![y] = dst + 1]
  BY <1>1, <1>5, ReleaseFields
<1> HIDE DEF u
<1>7. /\ Only(t, u, {"last_access", "free_since", "needed", "hold", "loads", "mem"})
      /\ u.needed = c.needed /\ u.hold = c.hold /\ u.loads = c.loads /\ u.mem = c.mem
      /\ c.last_access = t.last_access /\ c.free_since = t.free_since
  BY <1>3, <1>5, <1>6 DEF Only, Fields
<1>8. /\ \A i \in X \ {z, y} : u.last_access[i] = t.last_access[i] /\ u.free_since[i] = t.free_since[i]
      /\ \A i \in {z, y} : u.last_access[i] = 0 /\ u.free_since[i] = dst + 1
  BY <1>1, <1>5, <1>6, <1>7 DEF States
<1>9. Frees(t, u, {z, y})
  BY <1>1, <1>2, <1>3, <1>6, <1>7, <1>8 DEF Frees
<1> QED
  BY <1>4, <1>9 DEF y

\* free_register(): of a pair it frees both.
LEMMA FreeRegister ==
  ASSUME Here, NEW t, NEW x \in X, NEW P, Good(t, P), Group(t, x) \cap P = {}
  PROVE  /\ Frees(t, free_register(t, x), Group(t, x))
         /\ Good(free_register(t, x), P)
         /\ Group(t, x) \subseteq X
<1> DEFINE u == free_register(t, x)
           Z == Group(t, x)
<1>1. t \in States
  BY DEF Good, Core
<1>2. x \in Z
  BY DEF Group
<1>3. CASE ~Live(t, x)
  <2>1. Z = {x}
    BY <1>3 DEF Group
  <2>2. Frees(t, u, Z)
    BY <1>1, <1>3, <2>1, FreeIdle
  <2> QED
    BY <1>3, <2>1, <2>2, FreesGood
<1>4. CASE Live(t, x) /\ ~Paired(t, x)
  <2>1. Z = {x} /\ x \notin P
    BY <1>2, <1>4 DEF Group
  <2>2. Frees(t, u, Z)
    BY <1>4, <2>1, FreeSingle
  <2> QED
    BY <1>4, <2>1, <2>2, FreesGood
<1>5. CASE Live(t, x) /\ Paired(t, x)
  <2> DEFINE y == t.r64[x]
  <2>1. Z = {x, y} /\ x \notin P /\ y \notin P
    BY <1>2, <1>5 DEF Group
  <2>2. y \in X /\ t.r64[y] = x /\ Live(t, y)
    BY <1>5 DEF Good, Core, PairsOK, PairOK
  <2>3. Paired(t, y)
    BY <2>2, Numbers DEF Paired
  <2>4. u = Freed(t, x) \/ u = Freed(t, y)
    BY <1>5 DEF free_register, LowOf
  <2>5. Frees(t, Freed(t, x), {x, y})
    BY <1>5, <2>1, FreePair
  <2>6. Frees(t, Freed(t, y), {y, t.r64[y]})
    BY <2>1, <2>2, <2>3, FreePair
  <2>7. {y, t.r64[y]} = {x, y}
    BY <2>2
  <2>8. Frees(t, u, Z)
    BY <2>1, <2>4, <2>5, <2>6, <2>7
  <2>9. Z \subseteq X /\ Z \cap P = {} /\ \A i \in Z : t.r64[i] \in Z
    BY <2>1, <2>2
  <2> QED
    BY <2>8, <2>9, FreesGood
<1> QED
  BY <1>3, <1>4, <1>5

-----------------------------------------------------------------------------
(* Registers that are taken.                                               *)

Accessed(t, x) == t.last_access[x] = dst

\* From t to u x alone changes: it is taken for w.
Places(t, u, x, w) ==
  /\ u \in States /\ Only(t, u, {"last_access", "reg_content", "dirty", "r64", "hold"})
  /\ \A y \in X \ {x} :
       /\ u.last_access[y] = t.last_access[y] /\ u.reg_content[y] = t.reg_content[y]
       /\ u.dirty[y] = t.dirty[y] /\ u.r64[y] = t.r64[y] /\ u.hold[y] = t.hold[y]
  /\ u.last_access[x] = dst /\ u.reg_content[x] = w /\ u.r64[x] = None

\* Until its value is there it is one of those in the making.
LEMMA PlacesGood ==
  ASSUME Here, NEW t, NEW u, NEW P, NEW x \in X, NEW w, Good(t, P), Places(t, u, x, w),
         Live(t, x) => ~Paired(t, x) /\ ~t.dirty[x],
         \A y \in X \ {x} : Live(t, y) => t.reg_content[y] # w
  PROVE  Good(u, P \cup {x})
<1> USE DEF Live, Paired
<1>1. /\ t \in States /\ u \in States
      /\ u.free_since = t.free_since /\ u.needed = t.needed /\ u.loads = t.loads /\ u.mem = t.mem
      /\ u.narrow = t.narrow /\ u.wrong = t.wrong
  BY DEF Places, Only, Fields, Good, Core
<1>2. /\ dst \in Nat /\ dst # 0 /\ entry \in Nat /\ (Running => entry <= dst) /\ None \notin X /\ X \subseteq Nat
  BY Numbers
<1>3. /\ \A y \in X \ {x} :
           /\ u.last_access[y] = t.last_access[y] /\ u.reg_content[y] = t.reg_content[y]
           /\ u.dirty[y] = t.dirty[y] /\ u.r64[y] = t.r64[y] /\ u.hold[y] = t.hold[y]
      /\ u.last_access[x] = dst /\ u.reg_content[x] = w /\ u.r64[x] = None
  BY DEF Places
<1>4. \A y \in X : u.last_access[y] <= dst
  <2>1. \A y \in X : t.last_access[y] <= dst
    BY DEF Good, Core
  <2>2. dst <= dst
    BY <1>2
  <2> QED
    BY <1>3, <2>1, <2>2
<1>5. PairsOK(u)
  <2> SUFFICES ASSUME NEW y \in X, Live(u, y), Paired(u, y)
               PROVE  Pairs(session) /\ PairOK(u, y)
    BY DEF PairsOK
  <2> DEFINE z == t.r64[y]
  <2>1. y # x /\ Live(t, y) /\ Paired(t, y) /\ Pairs(session) /\ PairOK(t, y)
    BY <1>3 DEF Good, Core, PairsOK
  <2>2. z \in X /\ t.r64[z] = y /\ Live(t, z)
    BY <2>1 DEF PairOK
  <2>3. z # x
    BY <1>2, <2>2
  <2> QED
    BY <1>3, <2>1, <2>2, <2>3 DEF PairOK
<1>6. Distinct(u)
  BY <1>3 DEF Good, Core, Distinct
<1>7. MemOK(u)
  BY <1>1, <1>3 DEF Good, Core, MemOK, Backs
<1>8. ASSUME Running PROVE LoadsOK(u)
  <2>1. LoadsOK(t)
    BY <1>8 DEF Good, Core
  <2>2. \A y \in X : Told(t, y) => Told(u, y)
    BY <1>1, <1>2, <1>3, <1>8 DEF Told
  <2> QED
    BY <1>1, <2>1, <2>2 DEF LoadsOK
<1>9. Core(u, dst, Running)
  BY <1>1, <1>4, <1>5, <1>6, <1>7, <1>8 DEF Good, Core
<1>10. P \cup {x} \subseteq X /\ \A y \in P \cup {x} : u.last_access[y] = dst
  BY <1>3 DEF Good
<1>11. ASSUME NEW y \in X \ (P \cup {x}) PROVE Fit(u, y, Running)
  <2>1. Fit(t, y, Running)
    BY DEF Good
  <2> QED
    BY <1>1, <1>3, <2>1 DEF Fit, Told
<1> QED
  BY <1>9, <1>10, <1>11 DEF Good

\* x is taken for a new value of r; Z, which had its words, are let go.
Drops(t, u, Z, x, r) ==
  /\ u \in States
  /\ Only(t, u, {"last_access", "free_since", "needed", "reg_content", "dirty", "r64", "x"})
  /\ \A y \in X \ (Z \cup {x}) :
       /\ u.last_access[y] = t.last_access[y] /\ u.free_since[y] = t.free_since[y]
       /\ u.needed[y] = t.needed[y] /\ u.dirty[y] = t.dirty[y] /\ u.r64[y] = t.r64[y]
  /\ \A y \in X \ {x} : u.reg_content[y] = t.reg_content[y]
  /\ \A y \in Z : u.last_access[y] = 0 /\ u.free_since[y] = dst + 1
  /\ u.last_access[x] = dst /\ u.reg_content[x] = Lo(r) /\ u.dirty[x] /\ u.r64[x] = None
  /\ \A y \in Z \cup {x} : Running /\ Told(t, y) => u.needed[y] = t.needed[y]

\* They are all that had them.
Owners(t, Z, r) ==
  \A y \in X : /\ Live(t, y) /\ t.reg_content[y] \in {Lo(r), Hi(r)} => y \in Z
               /\ Live(t, y) /\ y \in Z => t.reg_content[y] \in {Lo(r), Hi(r)}
               /\ Live(t, y) /\ Paired(t, y) /\ y \in Z => t.r64[y] \in Z

LEMMA DropsGood ==
  ASSUME Here, NEW t, NEW u, NEW P, NEW Z \in SUBSET X, NEW x \in X, NEW r \in Regs,
         Good(t, P), Drops(t, u, Z, x, r), Owners(t, Z \cup {x}, r), x \notin Z, Z \cap P = {}
  PROVE  Good(u, P \cup {x})
<1> USE DEF Live, Paired
<1>1. /\ t \in States /\ u \in States
      /\ u.hold = t.hold /\ u.loads = t.loads /\ u.mem = t.mem /\ u.narrow = t.narrow /\ u.wrong = t.wrong
  BY DEF Drops, Only, Fields, Good, Core
<1>2. /\ dst \in Nat /\ dst # 0 /\ entry \in Nat /\ (Running => entry <= dst) /\ None \notin X /\ X \subseteq Nat
  BY Numbers
<1>3. /\ \A y \in X : \/ y = x
                      \/ y \in Z /\ u.last_access[y] = 0
                      \/ /\ y \notin Z /\ y # x
                         /\ u.last_access[y] = t.last_access[y] /\ u.free_since[y] = t.free_since[y]
                         /\ u.needed[y] = t.needed[y] /\ u.dirty[y] = t.dirty[y] /\ u.r64[y] = t.r64[y]
                         /\ u.reg_content[y] = t.reg_content[y]
      /\ u.last_access[x] = dst /\ u.reg_content[x] = Lo(r) /\ u.dirty[x] /\ u.r64[x] = None
  BY DEF Drops
<1>4. \A y \in X : u.last_access[y] <= dst
  <2>1. \A y \in X : t.last_access[y] <= dst
    BY DEF Good, Core
  <2>2. dst <= dst /\ 0 <= dst
    BY <1>2
  <2> QED
    BY <1>3, <2>1, <2>2
<1>5. PairsOK(u)
  <2> SUFFICES ASSUME NEW y \in X, Live(u, y), Paired(u, y)
               PROVE  Pairs(session) /\ PairOK(u, y)
    BY DEF PairsOK
  <2> DEFINE z == t.r64[y]
  <2>1. y # x /\ y \notin Z /\ Live(t, y) /\ Paired(t, y) /\ Pairs(session) /\ PairOK(t, y)
    BY <1>3 DEF Good, Core, PairsOK
  <2>2. z \in X /\ t.r64[z] = y /\ Live(t, z) /\ Paired(t, z)
    BY <1>2, <2>1 DEF PairOK
  <2>3. z \notin Z \cup {x}
    BY <2>1, <2>2 DEF Owners
  <2> QED
    BY <1>3, <2>1, <2>2, <2>3 DEF PairOK
<1>6. Distinct(u)
  <2> SUFFICES ASSUME NEW y \in X, NEW z \in X, Live(u, y), Live(u, z), u.reg_content[y] = u.reg_content[z]
               PROVE  y = z
    BY DEF Distinct
  <2>1. \A i \in X : Live(u, i) /\ i # x => Live(t, i) /\ u.reg_content[i] = t.reg_content[i] /\ i \notin Z
    BY <1>3
  <2>2. \A i \in X : Live(u, i) /\ i # x => u.reg_content[i] # Lo(r)
    BY <2>1 DEF Owners
  <2> QED
    BY <1>3, <2>1, <2>2 DEF Good, Core, Distinct
<1>7. MemOK(u)
  <2> SUFFICES ASSUME NEW w \in Word, ~u.mem[w]
               PROVE  \E y \in X : Backs(u, y, w)
    BY DEF MemOK
  <2>1. PICK y \in X : Backs(t, y, w)
    BY <1>1 DEF Good, Core, MemOK
  <2>2. CASE y \in Z \cup {x}
    <3>1. t.reg_content[y] \in {Lo(r), Hi(r)}
      BY <2>1, <2>2 DEF Owners, Backs
    <3>2. PICK q \in Regs : w = Lo(q) \/ w = Hi(q)
      BY Words
    <3>3. w[1] = q
      BY <3>2, Words
    <3>4. q = r
      BY <2>1, <3>1, <3>2, <3>3, Words DEF Backs
    <3>5. Backs(u, x, w)
      BY <1>2, <1>3, <3>3, <3>4 DEF Backs
    <3> QED
      BY <3>5
  <2>3. CASE y \notin Z \cup {x}
    BY <1>3, <2>1, <2>3 DEF Backs
  <2> QED
    BY <2>2, <2>3
<1>8. ASSUME Running PROVE LoadsOK(u)
  <2>1. LoadsOK(t)
    BY <1>8 DEF Good, Core
  <2>2. \A y \in X : Told(t, y) => Told(u, y)
    <3>1. Told(u, x)
      BY <1>2, <1>3, <1>8 DEF Told
    <3>2. \A y \in Z : Told(u, y)
      BY <1>2, <1>8 DEF Told, Drops
    <3> QED
      BY <1>3, <3>1, <3>2 DEF Told
  <2>3. \A y \in X : Told(t, y) => u.needed[y] = t.needed[y]
    BY <1>3, <1>8 DEF Drops
  <2> QED
    BY <1>1, <2>1, <2>2, <2>3 DEF LoadsOK
<1>9. Core(u, dst, Running)
  BY <1>1, <1>4, <1>5, <1>6, <1>7, <1>8 DEF Good, Core
<1>10. P \cup {x} \subseteq X /\ \A y \in P \cup {x} : u.last_access[y] = dst
  BY <1>3 DEF Good
<1>11. ASSUME NEW y \in X \ (P \cup {x}) PROVE Fit(u, y, Running)
  <2> SUFFICES ASSUME Live(u, y)
               PROVE  Fit(u, y, Running)
    BY DEF Fit
  <2>1. Fit(t, y, Running)
    BY DEF Good
  <2> QED
    BY <1>1, <1>3, <2>1 DEF Fit, Told
<1> QED
  BY <1>9, <1>10, <1>11 DEF Good

-----------------------------------------------------------------------------
(* What an instruction holds on to.                                        *)

\* The instruction may read x as w.
Ready(t, x, w) ==
  /\ x \in X /\ t.reg_content[x] = w
  /\ t.hold[x] = w \/ (t.hold[x] = Loaded /\ (Running => t.needed[x] = w /\ Told(t, x)))

\* What may be read may still be.
Readies(t, u) == \A y \in X, w \in Word : Ready(t, y, w) => Ready(u, y, w)

\* The other registers hold what they held.
Elsewhere(t, u, x) == \A y \in X \ {x} : u.hold[y] = t.hold[y]

\* From t to u what the instruction has accessed stays, and memory loses nothing.
Stays(t, u, P) ==
  /\ \A y \in X : Accessed(t, y) =>
       /\ Accessed(u, y) /\ u.reg_content[y] = t.reg_content[y] /\ u.dirty[y] = t.dirty[y]
       /\ Paired(t, y) \/ y \in P => u.r64[y] = t.r64[y]
       /\ \A w \in Word : Ready(t, y, w) => Ready(u, y, w)
  /\ \A w \in Word : t.mem[w] => u.mem[w]
  /\ u.narrow = t.narrow /\ u.v = t.v

\* Only S is accessed besides.
Grows(t, u, S) == \A y \in X : Accessed(u, y) => Accessed(t, y) \/ y \in S

\* Live registers besides S are those of before.
Leaves(t, u, S) == \A y \in X \ S : Live(u, y) =>
  Live(t, y) /\ u.reg_content[y] = t.reg_content[y] /\ u.dirty[y] = t.dirty[y] /\ u.r64[y] = t.r64[y]

LEMMA StaysStays ==
  ASSUME NEW t, NEW u, NEW a, NEW P, Stays(t, u, P), Stays(u, a, P)
  PROVE  Stays(t, a, P)
BY DEF Stays, Paired

LEMMA GrowsGrows ==
  ASSUME NEW t, NEW u, NEW a, NEW S, NEW Z, Grows(t, u, S), Grows(u, a, Z)
  PROVE  Grows(t, a, S \cup Z)
BY DEF Grows

\* A register that this instruction has not accessed is freed.
LEMMA FreeOther ==
  ASSUME Here, NEW t, NEW x \in X, NEW P, Good(t, P), ~Accessed(t, x)
  PROVE  LET u == free_register(t, x) IN
         /\ Good(u, P) /\ ~Live(u, x) /\ (Running => Told(u, x))
         /\ Stays(t, u, P) /\ Grows(t, u, {}) /\ Leaves(t, u, {}) /\ u.x = t.x /\ u.free_since[x] = dst + 1
<1> DEFINE u == free_register(t, x)
           Z == Group(t, x)
<1>1. \A y \in Z : y \in X /\ ~Accessed(t, y)
  <2>1. CASE Live(t, x) /\ Paired(t, x)
    <3>1. t.r64[x] \in X /\ t.last_access[t.r64[x]] = t.last_access[x]
      BY <2>1 DEF Good, Core, PairsOK, PairOK
    <3> QED
      BY <2>1, <3>1 DEF Group, Accessed
  <2>2. CASE ~(Live(t, x) /\ Paired(t, x))
    BY <2>2 DEF Group
  <2> QED
    BY <2>1, <2>2
<1>2. Z \cap P = {}
  BY <1>1 DEF Good, Accessed
<1>3. Frees(t, u, Z) /\ Good(u, P)
  BY <1>2, FreeRegister
<1>4. x \in Z
  BY DEF Group
<1> HIDE DEF u, Z
<1>5. /\ u.reg_content = t.reg_content /\ u.dirty = t.dirty /\ u.r64 = t.r64
      /\ u.narrow = t.narrow /\ u.v = t.v /\ u.x = t.x
  BY <1>3 DEF Frees, Only, Fields
<1>6. \A y \in X : \/ y \in Z /\ u.last_access[y] = 0
                   \/ /\ y \notin Z /\ u.last_access[y] = t.last_access[y]
                      /\ u.free_since[y] = t.free_since[y]
                      /\ u.needed[y] = t.needed[y] /\ u.hold[y] = t.hold[y]
  BY <1>3 DEF Frees
<1>7. u.last_access[x] = 0 /\ u.free_since[x] = dst + 1 /\ dst # 0
  BY <1>3, <1>4, Numbers DEF Frees
<1>8. ~Live(u, x) /\ (Running => Told(u, x))
  <2>1. Running => dst + 1 > entry
    BY Numbers
  <2> QED
    BY <1>7, <2>1 DEF Live, Told
<1>9. Stays(t, u, P)
  <2>1. ASSUME NEW y \in X, Accessed(t, y)
        PROVE  /\ Accessed(u, y) /\ u.reg_content[y] = t.reg_content[y] /\ u.dirty[y] = t.dirty[y]
               /\ Paired(t, y) \/ y \in P => u.r64[y] = t.r64[y]
               /\ \A w \in Word : Ready(t, y, w) => Ready(u, y, w)
    <3>1. y \notin Z
      BY <1>1, <2>1
    <3> QED
      BY <1>5, <1>6, <2>1, <3>1 DEF Accessed, Ready, Told, Live
  <2>2. \A w \in Word : t.mem[w] => u.mem[w]
    BY <1>3 DEF Frees
  <2> QED
    BY <1>5, <2>1, <2>2 DEF Stays
<1>10. Grows(t, u, {}) /\ Leaves(t, u, {})
  BY <1>5, <1>6, Numbers DEF Grows, Leaves, Live, Accessed
<1> QED
  BY <1>3, <1>5, <1>7, <1>8, <1>9, <1>10 DEF u

\* It is read as what it stands for.
LEMMA UseGood ==
  ASSUME Here, NEW t, NEW x, NEW w \in Word, NEW P, Good(t, P), Ready(t, x, w)
  PROVE  LET u == Use(t, x, w) IN
         /\ Good(u, P) /\ Only(t, u, {"hold", "loads"}) /\ Elsewhere(t, u, x)
         /\ u.hold[x] = w
         /\ Readies(t, u)
<1> DEFINE u == Use(t, x, w)
<1>1. /\ t \in States /\ x \in X /\ t.hold[x] \in {w, Loaded} /\ t.reg_content[x] = w
      /\ t.hold[x] = Loaded /\ Running => t.needed[x] = w /\ Told(t, x)
  BY Words DEF Good, Core, Ready
<1>2. /\ u \in States /\ Only(t, u, {"hold", "loads"})
      /\ u.hold = [t.hold EXCEPT ![x] = w]
      /\ u.loads = IF t.hold[x] = Loaded THEN [t.loads EXCEPT ![x] = w] ELSE t.loads
  BY <1>1, UseFields
<1> HIDE DEF u
<1>3. /\ u.last_access = t.last_access /\ u.reg_content = t.reg_content /\ u.free_since = t.free_since
      /\ u.dirty = t.dirty /\ u.r64 = t.r64 /\ u.needed = t.needed /\ u.mem = t.mem
      /\ u.narrow = t.narrow /\ u.wrong = t.wrong
  BY <1>2 DEF Only, Fields
<1>4. /\ t.hold \in [X -> Held] /\ t.loads \in [X -> Word \cup {NoWord}]
  BY <1>1 DEF States
<1>5. u.hold[x] = w /\ \A y \in X \ {x} : u.hold[y] = t.hold[y] /\ u.loads[y] = t.loads[y]
  BY <1>1, <1>2, <1>4
<1>6. u.loads[x] = t.loads[x] \/ (u.loads[x] = w /\ t.hold[x] = Loaded)
  BY <1>1, <1>2, <1>4
<1>7. \A y \in X : Told(u, y) <=> Told(t, y)
  BY <1>3 DEF Told, Live
<1>8. PairsOK(u) /\ Distinct(u) /\ MemOK(u)
  <2>1. PairsOK(t) /\ Distinct(t) /\ MemOK(t)
    BY DEF Good, Core
  <2> QED
    BY <1>3, <2>1 DEF PairsOK, PairOK, Distinct, MemOK, Backs, Live, Paired
<1>9. ASSUME Running PROVE LoadsOK(u)
  <2>1. LoadsOK(t)
    BY <1>9 DEF Good, Core
  <2> QED
    BY <1>1, <1>3, <1>5, <1>6, <1>7, <1>9, <2>1 DEF LoadsOK
<1>10. Core(u, dst, Running)
  BY <1>2, <1>3, <1>8, <1>9 DEF Good, Core
<1>11. ASSUME NEW y \in X \ P PROVE Fit(u, y, Running)
  <2>1. Fit(t, y, Running)
    BY DEF Good
  <2>2. CASE y = x
    BY <1>1, <1>3, <1>5, <1>7, <2>1, <2>2, Words DEF Fit, Live, Paired
  <2>3. CASE y # x
    BY <1>3, <1>5, <1>7, <2>1, <2>3 DEF Fit, Live, Paired
  <2> QED
    BY <2>2, <2>3
<1>12. Good(u, P)
  BY <1>3, <1>10, <1>11 DEF Good
<1>13. ASSUME NEW y \in X, NEW a \in Word, Ready(t, y, a) PROVE Ready(u, y, a)
  <2>1. CASE y = x
    BY <1>1, <1>3, <1>5, <1>13, <2>1 DEF Ready
  <2>2. CASE y # x
    BY <1>3, <1>5, <1>7, <1>13, <2>2 DEF Ready
  <2> QED
    BY <2>1, <2>2
<1> QED
  BY <1>2, <1>5, <1>12, <1>13 DEF u, Readies, Elsewhere

\* x and v are not looked at.
LEMMA GoodSame ==
  ASSUME NEW t, NEW u, NEW P, Good(t, P), u \in States, Only(t, u, {"x", "v"})
  PROVE  Good(u, P)
<1>1. /\ u.last_access = t.last_access /\ u.reg_content = t.reg_content /\ u.free_since = t.free_since
      /\ u.dirty = t.dirty /\ u.r64 = t.r64 /\ u.needed = t.needed /\ u.mem = t.mem
      /\ u.narrow = t.narrow /\ u.wrong = t.wrong /\ u.hold = t.hold /\ u.loads = t.loads
  BY DEF Only, Fields
<1>2. /\ PairsOK(t) /\ Distinct(t) /\ MemOK(t)
      /\ Running => LoadsOK(t)
  BY DEF Good, Core
<1>3. PairsOK(u) /\ Distinct(u) /\ MemOK(u)
  BY <1>1, <1>2 DEF PairsOK, PairOK, Distinct, MemOK, Backs, Live, Paired
<1>4. Running => LoadsOK(u)
  BY <1>1, <1>2 DEF LoadsOK, Told, Live
<1>5. \A y \in X : Fit(t, y, Running) => Fit(u, y, Running)
  BY <1>1 DEF Fit, Told, Live, Paired
<1>6. Core(u, dst, Running)
  BY <1>1, <1>3, <1>4 DEF Good, Core
<1> QED
  BY <1>1, <1>5, <1>6 DEF Good

\* The returned register.
LEMMA AtGood ==
  ASSUME Here, NEW t, NEW P, Good(t, P), NEW x \in X
  PROVE  Good(At(t, x), P) /\ Only(t, At(t, x), {"x"}) /\ At(t, x).x = x
<1>1. t \in States /\ x \in Int
  BY Numbers DEF Good, Core
<1>2. At(t, x) \in States /\ Only(t, At(t, x), {"x"}) /\ At(t, x).x = x
  BY <1>1 DEF At, States, Only, Fields
<1>3. Only(t, At(t, x), {"x", "v"})
  BY <1>2 DEF Only
<1> QED
  BY <1>2, <1>3, GoodSame

\* Registers in the making that have what they stand for are made.
LEMMA Settle ==
  ASSUME NEW t, NEW P, NEW Q, Good(t, P), Q \subseteq P, \A z \in P \ Q : Fit(t, z, Running)
  PROVE  Good(t, Q)
BY DEF Good

\* Those in the making may have any values.
LEMMA RunGood ==
  ASSUME Here, NEW t, NEW P, NEW x \in P, NEW v \in Held, Good(t, P)
  PROVE  LET u == Run(t, x, v) IN
         Good(u, P) /\ Only(t, u, {"hold"}) /\ u.hold = [t.hold EXCEPT ![x] = v] /\ u.hold[x] = v
<1> DEFINE u == Run(t, x, v)
<1>1. t \in States /\ x \in X /\ t.hold \in [X -> Held]
  BY DEF Good, Core, States
<1>2. u \in States /\ Only(t, u, {"hold"}) /\ u.hold = [t.hold EXCEPT ![x] = v]
  BY <1>1 DEF Run, States, Only, Fields
<1> HIDE DEF u
<1>3. /\ u.last_access = t.last_access /\ u.reg_content = t.reg_content /\ u.free_since = t.free_since
      /\ u.dirty = t.dirty /\ u.r64 = t.r64 /\ u.needed = t.needed /\ u.mem = t.mem
      /\ u.narrow = t.narrow /\ u.wrong = t.wrong /\ u.loads = t.loads
  BY <1>2 DEF Only, Fields
<1>4. u.hold[x] = v /\ \A y \in X \ {x} : u.hold[y] = t.hold[y]
  BY <1>1, <1>2
<1>5. /\ PairsOK(t) /\ Distinct(t) /\ MemOK(t)
      /\ Running => LoadsOK(t)
  BY DEF Good, Core
<1>6. PairsOK(u) /\ Distinct(u) /\ MemOK(u)
  BY <1>3, <1>5 DEF PairsOK, PairOK, Distinct, MemOK, Backs, Live, Paired
<1>7. Running => LoadsOK(u)
  BY <1>3, <1>5 DEF LoadsOK, Told, Live
<1>8. \A y \in X \ {x} : Fit(t, y, Running) => Fit(u, y, Running)
  BY <1>3, <1>4 DEF Fit, Told, Live, Paired
<1>9. Core(u, dst, Running)
  BY <1>2, <1>3, <1>6, <1>7 DEF Good, Core
<1>10. Good(u, P)
  BY <1>3, <1>8, <1>9 DEF Good
<1> QED
  BY <1>2, <1>4, <1>10 DEF u

\* What is not held on to does not matter.
LEMMA StaysBut ==
  ASSUME NEW t, NEW a, NEW u, NEW P, Stays(t, a, P), Only(a, u, {"hold", "loads", "x"}),
         \A y \in X : Accessed(t, y) => u.hold[y] = a.hold[y]
  PROVE  Stays(t, u, P)
<1>1. /\ u.last_access = a.last_access /\ u.reg_content = a.reg_content /\ u.free_since = a.free_since
      /\ u.dirty = a.dirty /\ u.r64 = a.r64 /\ u.needed = a.needed /\ u.mem = a.mem
      /\ u.narrow = a.narrow /\ u.v = a.v
  BY DEF Only, Fields
<1>2. \A y \in X, w \in Word : Accessed(t, y) /\ Ready(a, y, w) => Ready(u, y, w)
  BY <1>1 DEF Ready, Told, Live
<1> QED
  BY <1>1, <1>2 DEF Stays, Accessed

\* The least recently used register is cleared and taken for w.
LEMMA TakenGood ==
  ASSUME Here, NEW t, NEW x \in X, NEW w \in Word \cup {NoWord}, NEW d \in BOOLEAN, NEW P,
         Good(t, P), ~Accessed(t, x), \A y \in X : Live(t, y) => t.reg_content[y] # w
  PROVE  LET u == Taken(t, x, w, d) IN
         /\ Good(u, P \cup {x}) /\ Accessed(u, x) /\ Live(u, x)
         /\ u.reg_content[x] = w /\ u.dirty[x] = d /\ ~Paired(u, x)
         /\ Stays(t, u, P) /\ Grows(t, u, {x}) /\ Leaves(t, u, {x})
<1> DEFINE f == free_register(t, x)
           u == Taken(t, x, w, d)
<1>1. /\ Good(f, P) /\ ~Live(f, x)
      /\ Stays(t, f, P) /\ Grows(t, f, {}) /\ Leaves(t, f, {})
  BY FreeOther
<1> HIDE DEF f
<1>2. f \in States
  BY <1>1 DEF Good, Core
<1>3. /\ u \in States /\ Only(f, u, {"last_access", "reg_content", "dirty", "r64"})
      /\ u.last_access = [f.last_access EXCEPT ![x] = dst]
      /\ u.reg_content = [f.reg_content EXCEPT ![x] = w]
      /\ u.dirty = [f.dirty EXCEPT ![x] = d] /\ u.r64 = [f.r64 EXCEPT ![x] = None]
  <2>1. u = [f EXCEPT !.last_access[x] = dst, !.reg_content[x] = w, !.dirty[x] = d, !.r64[x] = None]
    BY DEF Taken, f
  <2>2. dst \in Nat
    BY Numbers
  <2> HIDE DEF u
  <2> QED
    BY <1>2, <2>1, <2>2 DEF States, Only, Fields
<1> HIDE DEF u
<1>4. /\ u.hold = f.hold /\ u.needed = f.needed /\ u.free_since = f.free_since /\ u.mem = f.mem
      /\ u.narrow = f.narrow /\ u.v = f.v
  BY <1>3 DEF Only, Fields
<1>5. /\ \A y \in X \ {x} :
           /\ u.last_access[y] = f.last_access[y] /\ u.reg_content[y] = f.reg_content[y]
           /\ u.dirty[y] = f.dirty[y] /\ u.r64[y] = f.r64[y] /\ u.hold[y] = f.hold[y]
      /\ u.last_access[x] = dst /\ u.reg_content[x] = w /\ u.dirty[x] = d /\ u.r64[x] = None
  BY <1>2, <1>3, <1>4 DEF States
<1>6. Places(f, u, x, w)
  BY <1>3, <1>5 DEF Places, Only
<1>7. \A y \in X : Live(f, y) => f.reg_content[y] # w
  BY <1>1 DEF Leaves
<1>8. Good(u, P \cup {x})
  BY <1>1, <1>6, <1>7, PlacesGood
<1>9. Stays(t, u, P)
  <2>1. \A y \in X : Accessed(t, y) => Accessed(f, y) /\ y # x
    BY <1>1 DEF Stays
  <2>2. \A y \in X \ {x}, a \in Word : Ready(f, y, a) => Ready(u, y, a)
    BY <1>4, <1>5 DEF Ready, Told, Live
  <2> QED
    BY <1>1, <1>4, <1>5, <2>1, <2>2 DEF Stays, Accessed
<1>10. Grows(t, u, {x})
  BY <1>1, <1>5 DEF Grows, Accessed
<1>11. Leaves(t, u, {x})
  BY <1>1, <1>5 DEF Leaves, Live
<1> QED
  BY <1>5, <1>8, <1>9, <1>10, <1>11, Numbers DEF u, Accessed, Live, Paired

\* A register that is not cached is loaded from memory.
LEMMA MissGood ==
  ASSUME Here, NEW t, NEW x \in X, NEW w \in Word \cup {NoWord}, NEW P,
         Good(t, P), ~Accessed(t, x), \A y \in X : Live(t, y) => t.reg_content[y] # w
  PROVE  LET u == Missed(t, x, w) IN
         /\ Good(u, P \cup {x}) /\ Accessed(u, x) /\ Live(u, x) /\ u.x = x
         /\ u.reg_content[x] = w /\ ~u.dirty[x] /\ ~Paired(u, x)
         /\ w \in Word /\ t.mem[w] => u.hold[x] = w
         /\ Stays(t, u, P) /\ Grows(t, u, {x}) /\ Leaves(t, u, {x})
<1> DEFINE a == Taken(t, x, w, FALSE)
           b == Filled(a, x, w)
           u == Missed(t, x, w)
<1>1. /\ Good(a, P \cup {x}) /\ Accessed(a, x) /\ Live(a, x)
      /\ a.reg_content[x] = w /\ a.dirty[x] = FALSE /\ ~Paired(a, x)
      /\ Stays(t, a, P) /\ Grows(t, a, {x}) /\ Leaves(t, a, {x})
  BY TakenGood
<1> HIDE DEF a
<1>2. /\ Good(b, P \cup {x}) /\ Only(a, b, {"hold"})
      /\ \A y \in X \ {x} : b.hold[y] = a.hold[y]
      /\ w \in Word /\ t.mem[w] => b.hold[x] = w
  <2>1. CASE w = NoWord
    BY <1>1, <2>1, Words DEF Filled, Only
  <2>2. CASE w \in Word
    <3> DEFINE v == IF a.mem[w] THEN w ELSE Junk
    <3>1. v \in Held
      BY <2>2 DEF Held
    <3>2. b = Run(a, x, v)
      BY <2>2, Words DEF Filled, Fetch
    <3>3. t.mem[w] => v = w
      BY <1>1, <2>2 DEF Stays
    <3> HIDE DEF v
    <3>4. Good(b, P \cup {x}) /\ Only(a, b, {"hold"}) /\ b.hold = [a.hold EXCEPT ![x] = v] /\ b.hold[x] = v
      BY <1>1, <3>1, <3>2, RunGood
    <3>5. a.hold \in [X -> Held]
      BY <1>1 DEF Good, Core, States
    <3> QED
      BY <3>3, <3>4, <3>5
  <2> QED
    BY <2>1, <2>2
<1> HIDE DEF b
<1>3. u = At(b, x)
  BY DEF Missed, a, b
<1>4. Good(u, P \cup {x}) /\ Only(b, u, {"x"}) /\ u.x = x
  BY <1>2, <1>3, AtGood
<1> HIDE DEF u
<1>5. /\ Only(a, u, {"hold", "loads", "x"}) /\ u.hold = b.hold
      /\ u.last_access = a.last_access /\ u.reg_content = a.reg_content /\ u.dirty = a.dirty /\ u.r64 = a.r64
  BY <1>2, <1>4 DEF Only, Fields
<1>6. Stays(t, u, P)
  BY <1>1, <1>2, <1>5, StaysBut
<1>7. Grows(t, u, {x}) /\ Leaves(t, u, {x})
  BY <1>1, <1>5 DEF Grows, Leaves, Accessed, Live
<1> QED
  BY <1>1, <1>2, <1>4, <1>5, <1>6, <1>7 DEF u, Accessed, Live, Paired

\* From t to u the registers Z are accessed, their contents kept.
Hits(t, u, Z) ==
  /\ u \in States /\ Only(t, u, {"last_access", "needed", "x"})
  /\ \A y \in X \ Z : u.last_access[y] = t.last_access[y] /\ u.needed[y] = t.needed[y]
  /\ \A y \in Z :
       /\ u.last_access[y] = dst
       /\ Running => u.needed[y] = IF Told(t, y) THEN t.needed[y] ELSE t.reg_content[y]

\* They have what they stand for, or the wrapper loads it.
LEMMA HitsGood ==
  ASSUME Here, NEW t, NEW u, NEW P, NEW Z \in SUBSET X, Good(t, P), Hits(t, u, Z), Z \cap P = {},
         \A y \in Z : Live(t, y) /\ (Paired(t, y) => t.r64[y] \in Z)
  PROVE  /\ Good(u, P) /\ \A y \in Z : Accessed(u, y) /\ Ready(u, y, t.reg_content[y])
         /\ Stays(t, u, P) /\ Grows(t, u, Z) /\ Leaves(t, u, {})
<1> USE DEF Live, Paired
<1>1. /\ t \in States /\ u \in States
      /\ u.reg_content = t.reg_content /\ u.dirty = t.dirty /\ u.r64 = t.r64 /\ u.hold = t.hold
      /\ u.narrow = t.narrow /\ u.wrong = t.wrong /\ u.mem = t.mem /\ u.loads = t.loads
      /\ u.free_since = t.free_since /\ u.v = t.v
  BY DEF Hits, Only, Fields, Good, Core
<1>2. /\ dst \in Nat /\ dst # 0 /\ entry \in Nat /\ (Running => entry <= dst) /\ None \notin X /\ X \subseteq Nat
  BY Numbers
<1>3. \A y \in X : \/ y \in Z /\ u.last_access[y] = dst
                   \/ y \notin Z /\ u.last_access[y] = t.last_access[y] /\ u.needed[y] = t.needed[y]
  BY DEF Hits
<1>4. \A y \in X : u.last_access[y] <= dst
  <2>1. \A y \in X : t.last_access[y] <= dst
    BY DEF Good, Core
  <2>2. dst <= dst
    BY <1>2
  <2> QED
    BY <1>3, <2>1, <2>2
<1>5. \A y \in X : Live(u, y) <=> Live(t, y)
  BY <1>2, <1>3
<1>6. ASSUME Running
      PROVE  \A y \in X : /\ Told(t, y) => Told(u, y) /\ u.needed[y] = t.needed[y]
                          /\ y \in Z => /\ Told(u, y)
                                        /\ ~Told(t, y) => u.needed[y] = t.reg_content[y]
  <2>1. \A y \in Z : Told(u, y)
    BY <1>2, <1>3, <1>6 DEF Told
  <2>2. \A y \in X \ Z : Told(t, y) => Told(u, y)
    BY <1>1, <1>3 DEF Told
  <2> QED
    BY <1>3, <1>6, <2>1, <2>2 DEF Hits
<1>7. PairsOK(u)
  <2> SUFFICES ASSUME NEW x \in X, Live(u, x), Paired(u, x)
               PROVE  Pairs(session) /\ PairOK(u, x)
    BY DEF PairsOK
  <2> DEFINE y == t.r64[x]
  <2>1. Live(t, x) /\ Paired(t, x) /\ Pairs(session) /\ PairOK(t, x)
    BY <1>1, <1>5 DEF Good, Core, PairsOK
  <2>2. y \in X /\ t.r64[y] = x /\ Live(t, y) /\ Paired(t, y)
    BY <1>2, <2>1 DEF PairOK
  <2>3. y \in Z <=> x \in Z
    BY <2>1, <2>2
  <2> QED
    BY <1>1, <1>3, <1>5, <2>1, <2>2, <2>3 DEF PairOK
<1>8. Distinct(u) /\ MemOK(u)
  <2>1. Distinct(t) /\ MemOK(t)
    BY DEF Good, Core
  <2>2. Distinct(u)
    BY <1>1, <1>5, <2>1 DEF Distinct
  <2>3. MemOK(u)
    BY <1>1, <1>5, <2>1 DEF MemOK, Backs
  <2> QED
    BY <2>2, <2>3
<1>9. Running => LoadsOK(u)
  BY <1>1, <1>6 DEF Good, Core, LoadsOK
<1>10. Core(u, dst, Running)
  BY <1>1, <1>4, <1>7, <1>8, <1>9 DEF Good, Core
<1>11. ASSUME NEW y \in X \ P PROVE Fit(u, y, Running)
  <2>1. Fit(t, y, Running)
    BY DEF Good
  <2>2. Running /\ Live(t, y) /\ t.hold[y] = Loaded /\ Told(u, y) => u.needed[y] = t.reg_content[y]
    BY <1>3, <1>1, <1>6, <2>1 DEF Fit, Told
  <2> QED
    BY <1>1, <1>5, <2>1, <2>2 DEF Fit
<1>12. \A y \in P : u.last_access[y] = dst
  BY <1>3 DEF Good
<1>13. Good(u, P)
  BY <1>10, <1>11, <1>12 DEF Good
<1>14. ASSUME NEW y \in Z PROVE Accessed(u, y) /\ Ready(u, y, t.reg_content[y])
  <2>1. Fit(t, y, Running) /\ Live(t, y) /\ y \in X
    BY DEF Good
  <2>2. t.hold[y] = Loaded /\ Running => u.needed[y] = t.reg_content[y] /\ Told(u, y)
    BY <1>6, <2>1 DEF Fit
  <2> QED
    BY <1>1, <1>3, <2>1, <2>2 DEF Fit, Ready, Accessed
<1>15. Stays(t, u, P)
  <2>1. \A y \in X, w \in Word : Ready(t, y, w) => Ready(u, y, w)
    BY <1>1, <1>6 DEF Ready
  <2>2. \A y \in X : Accessed(t, y) => Accessed(u, y)
    BY <1>3 DEF Accessed
  <2> QED
    BY <1>1, <2>1, <2>2 DEF Stays
<1>16. Grows(t, u, Z) /\ Leaves(t, u, {})
  BY <1>1, <1>3, <1>5 DEF Grows, Leaves, Accessed
<1> QED
  BY <1>13, <1>14, <1>15, <1>16

\* A live register is found.
LEMMA FoundFields ==
  ASSUME Here, NEW t \in States, NEW x \in X, Live(t, x)
  PROVE  LET u == Found(t, x) IN
         /\ u \in States /\ Only(t, u, {"needed"})
         /\ \A y \in X \ {x} : u.needed[y] = t.needed[y]
         /\ Running => u.needed[x] = IF Told(t, x) THEN t.needed[x] ELSE t.reg_content[x]
<1> DEFINE u == Found(t, x)
           v == t.reg_content[x]
           f == t.last_access[x] + 1
<1>1. v \in Word \cup {NoWord} /\ t.needed \in [X -> Word \cup {NoWord}] /\ t.last_access[x] \in Nat
  BY DEF States
<1>2. u = Need(t, x, f, v)
  BY DEF Found
<1> HIDE DEF u, v
<1>3. /\ u \in States /\ Only(t, u, {"needed"})
      /\ u.needed = IF f <= entry /\ entry <= dst THEN [t.needed EXCEPT ![x] = v] ELSE t.needed
  BY <1>1, <1>2, NeedFields
<1>4. Told(t, x) <=> t.last_access[x] >= entry
  BY DEF Told
<1> QED
  BY <1>1, <1>3, <1>4, Numbers DEF u, v

LEMMA AccessFields ==
  ASSUME Here, NEW t \in States, NEW x \in X
  PROVE  LET u == Access(t, x) IN
         /\ u \in States /\ Only(t, u, {"last_access"})
         /\ u.last_access = [t.last_access EXCEPT ![x] = dst]
BY Numbers DEF Access, States, Only, Fields

-----------------------------------------------------------------------------
(* Registers that are read.                                                *)

\* The register that holds a word.
LEMMA HolderOf ==
  ASSUME Here, NEW t, NEW P, Good(t, P), NEW w
  PROVE  /\ Cached(t, w) => /\ Holder(t, w) \in X /\ Live(t, Holder(t, w))
                            /\ t.reg_content[Holder(t, w)] = w
         /\ \A x \in X : Live(t, x) /\ t.reg_content[x] = w => Cached(t, w) /\ Holder(t, w) = x
<1>1. ASSUME NEW x \in X, Live(t, x), t.reg_content[x] = w
      PROVE  Cached(t, w) /\ Holder(t, w) = x
  <2>1. Holders(t, w) = {x}
    BY <1>1 DEF Holders, Good, Core, Distinct
  <2>2. x \in Nat
    BY Numbers
  <2>3. Min({x}) = x
    BY <2>2 DEF Min
  <2> QED
    BY <2>1, <2>3 DEF Cached, Holder
<1>2. ASSUME Cached(t, w)
      PROVE  /\ Holder(t, w) \in X /\ Live(t, Holder(t, w))
             /\ t.reg_content[Holder(t, w)] = w
  <2>1. PICK x \in X : Live(t, x) /\ t.reg_content[x] = w
    BY <1>2 DEF Cached, Holders
  <2> QED
    BY <1>1, <2>1
<1> QED
  BY <1>1, <1>2

\* A hit accesses a register and its pair.
LEMMA KeptFields ==
  ASSUME Here, NEW t, NEW P, Good(t, P), NEW x \in X, Live(t, x)
  PROVE  LET u == Kept(t, x) IN
         /\ u \in States /\ Only(t, u, {"needed"}) /\ Group(t, x) \subseteq X
         /\ \A y \in X \ Group(t, x) : u.needed[y] = t.needed[y]
         /\ \A y \in Group(t, x) : Running =>
              u.needed[y] = IF Told(t, y) THEN t.needed[y] ELSE t.reg_content[y]
<1> DEFINE a == Found(t, x)
           y == t.r64[x]
           b == Found(a, y)
<1>0. t \in States
  BY DEF Good, Core
<1>1. /\ a \in States /\ Only(t, a, {"needed"})
      /\ \A i \in X \ {x} : a.needed[i] = t.needed[i]
      /\ Running => a.needed[x] = IF Told(t, x) THEN t.needed[x] ELSE t.reg_content[x]
  BY <1>0, FoundFields
<1> HIDE DEF a
<1>2. /\ a.r64 = t.r64 /\ a.last_access = t.last_access /\ a.free_since = t.free_since
      /\ a.reg_content = t.reg_content
  BY <1>1 DEF Only, Fields
<1>3. CASE Paired(t, x)
  <2>1. y \in X /\ y # x /\ Live(t, y)
    BY <1>3 DEF Good, Core, PairsOK, PairOK
  <2>2. Live(a, y)
    BY <1>2, <2>1 DEF Live
  <2> HIDE DEF y
  <2>3. /\ b \in States /\ Only(a, b, {"needed"})
        /\ \A i \in X \ {y} : b.needed[i] = a.needed[i]
        /\ Running => b.needed[y] = IF Told(a, y) THEN a.needed[y] ELSE a.reg_content[y]
    BY <1>1, <2>1, <2>2, FoundFields
  <2>4. Told(a, y) <=> Told(t, y)
    BY <1>2 DEF Told, Live
  <2>5. Kept(t, x) = b
    BY <1>2, <1>3 DEF Kept, y, a
  <2>6. Group(t, x) = {x, y}
    BY <1>3 DEF Group, y
  <2> HIDE DEF b
  <2>7. Only(t, b, {"needed"})
    BY <1>1, <2>3 DEF Only
  <2>8. \A i \in {x, y} : Running => b.needed[i] = IF Told(t, i) THEN t.needed[i] ELSE t.reg_content[i]
    BY <1>1, <1>2, <2>1, <2>3, <2>4
  <2>9. \A i \in X \ {x, y} : b.needed[i] = t.needed[i]
    BY <1>1, <2>3
  <2> QED
    BY <2>1, <2>3, <2>5, <2>6, <2>7, <2>8, <2>9
<1>4. CASE ~Paired(t, x)
  <2>1. Kept(t, x) = a /\ Group(t, x) = {x}
    BY <1>4 DEF Kept, Group, a
  <2> QED
    BY <1>1, <2>1
<1> QED
  BY <1>3, <1>4

LEMMA HitGood ==
  ASSUME Here, NEW t, NEW P, Good(t, P), NEW x \in X, Live(t, x), Group(t, x) \cap P = {}
  PROVE  LET u == Hit(Kept(t, x), x) IN
         /\ Hits(t, u, Group(t, x)) /\ u.x = x
         /\ Good(u, P) /\ \A y \in Group(t, x) : Accessed(u, y) /\ Ready(u, y, t.reg_content[y])
         /\ Stays(t, u, P) /\ Grows(t, u, Group(t, x)) /\ Leaves(t, u, {})
<1> DEFINE k == Kept(t, x)
           y == t.r64[x]
           a == Access(k, x)
           b == IF Paired(t, x) THEN Access(a, y) ELSE a
           u == Hit(k, x)
           Z == Group(t, x)
<1>1. /\ k \in States /\ Only(t, k, {"needed"}) /\ Z \subseteq X
      /\ \A i \in X \ Z : k.needed[i] = t.needed[i]
      /\ \A i \in Z : Running => k.needed[i] = IF Told(t, i) THEN t.needed[i] ELSE t.reg_content[i]
  BY KeptFields
<1> HIDE DEF k
<1>2. k.r64 = t.r64 /\ k.last_access = t.last_access
  BY <1>1 DEF Only, Fields
<1>3. /\ a \in States /\ Only(k, a, {"last_access"})
      /\ a.last_access = [t.last_access EXCEPT ![x] = dst]
  BY <1>1, <1>2, AccessFields
<1>4. t.last_access \in [X -> Nat]
  BY DEF Good, Core, States
<1>5. a.r64 = t.r64
  BY <1>2, <1>3 DEF Only, Fields
<1>6. u = At(b, x)
  BY <1>2, <1>5 DEF Hit, Paired
<1> HIDE DEF a
<1>7. /\ b \in States /\ Only(k, b, {"last_access"})
      /\ \A i \in X \ Z : b.last_access[i] = t.last_access[i]
      /\ \A i \in Z : b.last_access[i] = dst
  <2>1. CASE Paired(t, x)
    <3>1. y \in X /\ Z = {x, y}
      BY <2>1 DEF Group, Good, Core, PairsOK, PairOK
    <3> HIDE DEF y, Z
    <3>2. /\ Access(a, y) \in States /\ Only(a, Access(a, y), {"last_access"})
          /\ Access(a, y).last_access = [a.last_access EXCEPT ![y] = dst]
      BY <1>3, <3>1, AccessFields
    <3>3. Only(k, Access(a, y), {"last_access"})
      BY <1>3, <3>2 DEF Only
    <3>4. \A i \in X : Access(a, y).last_access[i] = IF i \in Z THEN dst ELSE t.last_access[i]
      BY <1>3, <1>4, <3>1, <3>2
    <3> QED
      BY <2>1, <1>1, <3>1, <3>2, <3>3, <3>4
  <2>2. CASE ~Paired(t, x)
    <3>1. Z = {x}
      BY <2>2 DEF Group
    <3> HIDE DEF Z
    <3>2. \A i \in X : a.last_access[i] = IF i \in Z THEN dst ELSE t.last_access[i]
      BY <1>3, <1>4, <3>1
    <3> QED
      BY <2>2, <1>1, <1>3, <3>1, <3>2
  <2> QED
    BY <2>1, <2>2
<1> HIDE DEF b, u
<1>8. u \in States /\ Only(b, u, {"x"}) /\ u.x = x
  <2>1. x \in Int /\ u = [b EXCEPT !.x = x]
    BY <1>6, Numbers DEF At
  <2> QED
    BY <1>7, <2>1 DEF States, Only, Fields
<1>9. /\ Only(t, u, {"last_access", "needed", "x"})
      /\ u.needed = k.needed /\ u.last_access = b.last_access
  BY <1>1, <1>7, <1>8 DEF Only, Fields
<1>10. Hits(t, u, Z)
  BY <1>1, <1>7, <1>8, <1>9 DEF Hits
<1>11. \A i \in Z : Live(t, i) /\ (Paired(t, i) => t.r64[i] \in Z)
  <2>1. CASE Paired(t, x)
    <3>1. Live(t, y) /\ t.r64[y] = x
      BY <2>1 DEF Good, Core, PairsOK, PairOK
    <3> QED
      BY <2>1, <3>1 DEF Group
  <2>2. CASE ~Paired(t, x)
    BY <2>2 DEF Group
  <2> QED
    BY <2>1, <2>2
<1> HIDE DEF Z
<1>12. /\ Good(u, P) /\ \A i \in Z : Accessed(u, i) /\ Ready(u, i, t.reg_content[i])
       /\ Stays(t, u, P) /\ Grows(t, u, Z) /\ Leaves(t, u, {})
  BY <1>1, <1>10, <1>11, HitsGood DEF Z
<1> QED
  BY <1>8, <1>10, <1>12 DEF u, k, Z

\* Two registers become a pair.
LEMMA PairGood ==
  ASSUME Here, NEW t, NEW P, Good(t, P), NEW x1 \in X, NEW x2 \in X, NEW r \in Regs, x1 # x2,
         Accessed(t, x1), Accessed(t, x2), ~Paired(t, x1), ~Paired(t, x2), t.dirty[x1] = t.dirty[x2],
         t.reg_content[x1] = Lo(r), t.reg_content[x2] = Hi(r), Pairs(session)
  PROVE  LET u == Pair(t, x1, x2) IN
         /\ Good(u, P) /\ Only(t, u, {"r64"})
         /\ u.r64 = [t.r64 EXCEPT ![x1] = x2, ![x2] = x1]
         /\ u.r64[x1] = x2 /\ u.r64[x2] = x1
<1> DEFINE u == Pair(t, x1, x2)
<1>1. t \in States /\ t.r64 \in [X -> X \cup {None}]
  BY DEF Good, Core, States
<1>2. u \in States /\ Only(t, u, {"r64"}) /\ u.r64 = [t.r64 EXCEPT ![x1] = x2, ![x2] = x1]
  BY <1>1 DEF Pair, States, Only, Fields
<1> HIDE DEF u
<1>3. /\ u.last_access = t.last_access /\ u.reg_content = t.reg_content /\ u.free_since = t.free_since
      /\ u.dirty = t.dirty /\ u.hold = t.hold /\ u.needed = t.needed /\ u.mem = t.mem
      /\ u.narrow = t.narrow /\ u.wrong = t.wrong /\ u.loads = t.loads
  BY <1>2 DEF Only, Fields
<1>4. u.r64[x1] = x2 /\ u.r64[x2] = x1 /\ \A y \in X \ {x1, x2} : u.r64[y] = t.r64[y]
  BY <1>1, <1>2
<1>5. Live(t, x1) /\ Live(t, x2) /\ None \notin X
  BY Numbers DEF Live, Accessed
<1>6. PairsOK(u)
  <2> SUFFICES ASSUME NEW x \in X, Live(u, x), Paired(u, x)
               PROVE  Pairs(session) /\ PairOK(u, x)
    BY DEF PairsOK
  <2>1. CASE x \in {x1, x2}
    BY <1>3, <1>4, <1>5, <2>1 DEF PairOK, Live, Accessed, Partners
  <2>2. CASE x \notin {x1, x2}
    <3> DEFINE y == t.r64[x]
    <3>1. Live(t, x) /\ Paired(t, x) /\ PairOK(t, x)
      BY <1>3, <1>4, <2>2 DEF Good, Core, PairsOK, Live, Paired
    <3>2. y \in X /\ t.r64[y] = x /\ Paired(t, y)
      BY <1>5, <3>1 DEF PairOK, Paired
    <3>3. y \notin {x1, x2}
      BY <3>2
    <3> QED
      BY <1>3, <1>4, <2>2, <3>1, <3>2, <3>3 DEF PairOK, Live
  <2> QED
    BY <2>1, <2>2
<1>7. Distinct(u)
  BY <1>3 DEF Good, Core, Distinct, Live
<1>8. MemOK(u)
  <2> SUFFICES ASSUME NEW w \in Word, ~u.mem[w]
               PROVE  \E y \in X : Backs(u, y, w)
    BY DEF MemOK
  <2>1. PICK y \in X : Backs(t, y, w)
    BY <1>3 DEF Good, Core, MemOK
  <2>2. CASE t.reg_content[y] = w
    BY <1>3, <2>1, <2>2 DEF Backs, Live
  <2>3. CASE t.reg_content[y] # w /\ y = x1
    <3>1. PICK q \in Regs : w = Lo(q) \/ w = Hi(q)
      BY Words
    <3>2. w = Hi(r)
      BY <2>1, <2>3, <3>1, Words DEF Backs
    <3>3. Backs(u, x2, w)
      BY <1>3, <1>5, <2>1, <2>3, <3>2 DEF Backs, Live
    <3> QED
      BY <3>3
  <2>4. CASE t.reg_content[y] # w /\ y = x2
    <3>1. t.reg_content[x2] = Lo(w[1])
      BY <2>1, <2>4 DEF Backs
    <3>2. w[1] \in Regs
      BY Words
    <3> QED
      BY <3>1, <3>2, Words
  <2>5. CASE y \notin {x1, x2}
    BY <1>3, <1>4, <2>1, <2>5 DEF Backs, Live, Paired
  <2> QED
    BY <2>2, <2>3, <2>4, <2>5
<1>9. Running => LoadsOK(u)
  BY <1>3 DEF Good, Core, LoadsOK, Told, Live
<1>10. Core(u, dst, Running)
  BY <1>2, <1>3, <1>6, <1>7, <1>8, <1>9 DEF Good, Core
<1>11. ASSUME NEW y \in X \ P PROVE Fit(u, y, Running)
  <2>1. Fit(t, y, Running)
    BY DEF Good
  <2>2. Paired(u, y) <=> Paired(t, y) \/ y \in {x1, x2}
    BY <1>4, <1>5 DEF Paired
  <2> QED
    BY <1>3, <2>1, <2>2 DEF Fit, Told, Live
<1>12. Good(u, P)
  BY <1>3, <1>10, <1>11 DEF Good
<1> QED
  BY <1>2, <1>4, <1>12 DEF u

-----------------------------------------------------------------------------
(* Registers that are left.                                                *)

\* A set of numbers that is not empty has a smallest.
LEMMA SmallestOf ==
  ASSUME NEW S \in SUBSET Nat, S # {}
  PROVE  \E m \in S : \A k \in S : m <= k
<1>1. PICK m \in S : \A k \in S : <<k, m>> \notin OpToRel(<, Nat)
  BY NatLessThanWellFounded, WFMin
<1>2. \A k \in S : k \in Nat /\ m \in Nat /\ ~ (k < m)
  BY <1>1 DEF OpToRel
<1> QED
  BY <1>2

Used(t) == {y \in X : Accessed(t, y)}

\* An instruction has accessed at most n registers.
Room(t, n) == Cardinality(Used(t)) <= n

LEMMA UsedFinite ==
  ASSUME Here, NEW t
  PROVE  IsFiniteSet(Used(t)) /\ Cardinality(Used(t)) \in Nat
<1>1. Used(t) \subseteq X /\ IsFiniteSet(X)
  BY Numbers DEF Used
<1> QED
  BY <1>1, FS_Subset, FS_CardinalityType

\* Of more the least recently used is another one.
LEMMA LruOther ==
  ASSUME Here, NEW t, NEW P, Good(t, P), NEW n \in Nat, Room(t, n), n < Cardinality(X)
  PROVE  lru_register(t) \in X /\ ~Accessed(t, lru_register(t))
<1> DEFINE A == {t.last_access[x] : x \in X}
<1>1. IsFiniteSet(X) /\ X \subseteq Nat /\ Cardinality(X) \in Nat /\ dst \in Nat
  BY Numbers, FS_CardinalityType
<1>2. t.last_access \in [X -> Nat] /\ \A x \in X : t.last_access[x] <= dst
  BY DEF Good, Core, States
<1>3. PICK y \in X : ~Accessed(t, y)
  <2>1. CASE X \subseteq Used(t)
    <3>1. X = Used(t)
      BY <2>1 DEF Used
    <3> QED
      BY <3>1, <1>1 DEF Room
  <2> QED
    BY <2>1 DEF Used
<1>4. A \in SUBSET Nat /\ A # {}
  BY <1>2, <1>3
<1>5. PICK m \in A : \A k \in A : m <= k
  BY <1>4, SmallestOf
<1> DEFINE B == {x \in X : t.last_access[x] = m}
<1>6. B \in SUBSET Nat /\ B # {}
  BY <1>1, <1>5
<1>7. PICK x \in B : \A k \in B : x <= k
  BY <1>6, SmallestOf
<1>8. \A k \in X : \/ t.last_access[x] < t.last_access[k]
                   \/ t.last_access[x] = t.last_access[k] /\ x <= k
  <2> SUFFICES ASSUME NEW k \in X
               PROVE  \/ t.last_access[x] < t.last_access[k]
                      \/ t.last_access[x] = t.last_access[k] /\ x <= k
    OBVIOUS
  <2>1. t.last_access[x] = m /\ m <= t.last_access[k] /\ m \in Nat /\ t.last_access[k] \in Nat
    BY <1>2, <1>4, <1>5, <1>7
  <2>2. CASE t.last_access[k] = m
    BY <1>7, <2>1, <2>2
  <2>3. CASE t.last_access[k] # m
    BY <2>1, <2>3
  <2> QED
    BY <2>2, <2>3
<1>9. x \in X
  BY <1>7
<1> DEFINE l == lru_register(t)
<1>10. l \in X /\ \A k \in X : \/ t.last_access[l] < t.last_access[k]
                               \/ t.last_access[l] = t.last_access[k] /\ l <= k
  BY <1>8, <1>9 DEF lru_register, lru
<1> HIDE DEF l
<1>11. t.last_access[y] # dst /\ t.last_access[y] <= dst /\ t.last_access[l] <= t.last_access[y]
  BY <1>2, <1>3, <1>10 DEF Accessed
<1>12. t.last_access[l] # dst
  BY <1>1, <1>2, <1>10, <1>11
<1> QED
  BY <1>10, <1>12 DEF Accessed, l

\* An access takes one, a pair two.
LEMMA RoomOne ==
  ASSUME Here, NEW t, NEW u, NEW n \in Nat, NEW x, Room(t, n), Grows(t, u, {x})
  PROVE  Room(u, n + 1)
<1>1. IsFiniteSet(Used(t)) /\ Cardinality(Used(t)) \in Nat /\ Cardinality(Used(u)) \in Nat
  BY UsedFinite
<1>2. Used(u) \subseteq Used(t) \cup {x}
  BY DEF Used, Grows
<1>3. /\ IsFiniteSet(Used(t) \cup {x})
      /\ Cardinality(Used(t) \cup {x}) = IF x \in Used(t) THEN Cardinality(Used(t)) ELSE Cardinality(Used(t)) + 1
  BY <1>1, FS_AddElement
<1>4. Cardinality(Used(u)) <= Cardinality(Used(t) \cup {x})
  BY <1>2, <1>3, FS_Subset
<1> QED
  BY <1>1, <1>3, <1>4 DEF Room

LEMMA RoomTwo ==
  ASSUME Here, NEW t, NEW u, NEW n \in Nat, NEW x, NEW y, Room(t, n), Grows(t, u, {x, y})
  PROVE  Room(u, n + 2)
<1>1. IsFiniteSet(Used(t)) /\ Cardinality(Used(t)) \in Nat /\ Cardinality(Used(u)) \in Nat
  BY UsedFinite
<1>2. Used(u) \subseteq (Used(t) \cup {x}) \cup {y}
  BY DEF Used, Grows
<1> DEFINE A == Used(t) \cup {x}
<1>3. /\ IsFiniteSet(A)
      /\ Cardinality(A) = IF x \in Used(t) THEN Cardinality(Used(t)) ELSE Cardinality(Used(t)) + 1
  BY <1>1, FS_AddElement
<1> HIDE DEF A
<1>4. /\ IsFiniteSet(A \cup {y})
      /\ Cardinality(A \cup {y}) = IF y \in A THEN Cardinality(A) ELSE Cardinality(A) + 1
  BY <1>3, FS_AddElement
<1>5. Cardinality(Used(u)) <= Cardinality(A \cup {y})
  BY <1>2, <1>4, FS_Subset DEF A
<1> QED
  BY <1>1, <1>3, <1>4, <1>5 DEF Room

LEMMA RoomSame ==
  ASSUME Here, NEW t, NEW u, NEW n \in Nat, NEW S, Room(t, n), Grows(t, u, S), \A y \in S : Accessed(t, y)
  PROVE  Room(u, n)
<1>1. IsFiniteSet(Used(t)) /\ Cardinality(Used(t)) \in Nat /\ Cardinality(Used(u)) \in Nat
  BY UsedFinite
<1>2. Used(u) \subseteq Used(t)
  BY DEF Used, Grows
<1>3. Cardinality(Used(u)) <= Cardinality(Used(t))
  BY <1>1, <1>2, FS_Subset
<1> QED
  BY <1>1, <1>3 DEF Room

\* The words of those in the making are others.
Apart(t, P, r) == \A y \in P : t.reg_content[y] \in Word \ {Lo(r), Hi(r)}

\* allocate_register(): the low word of r is read.
LEMMA R32Good ==
  ASSUME Here, NEW t, NEW P, Good(t, P), NEW r \in Regs, NEW n \in Nat, Room(t, n), Apart(t, P, r),
         n < Cardinality(X) \/ Cached(t, Lo(r)),
         Testing(session) => r \in t.narrow \/ Cached(t, Lo(r))
  PROVE  LET u == allocate_register(t, Lo(r))
             x == u.x IN
         /\ x \in X /\ Good(u, P) /\ Ready(u, x, Lo(r)) /\ Accessed(u, x)
         /\ Stays(t, u, P) /\ Room(u, n + Two(session))
         /\ x \notin P /\ Leaves(t, u, {x}) /\ Live(u, x)
<1> DEFINE u == allocate_register(t, Lo(r))
           w == Lo(r)
<1>1. w \in Word /\ w # NoWord /\ dst # 0
  BY Words, Numbers
<1>2. CASE Cached(t, w)
  <2> DEFINE x == Holder(t, w)
             Z == Group(t, x)
             P1 == P
  <2>1. x \in X /\ Live(t, x) /\ t.reg_content[x] = w
    BY <1>2, HolderOf
  <2>2. u = Hit(Kept(t, x), x)
    BY <1>1, <1>2 DEF allocate_register
  <2> HIDE DEF x, u
  <2>3. Z \cap P = {}
    <3>1. x \notin P
      BY <2>1 DEF Apart
    <3>2. Paired(t, x) => t.reg_content[t.r64[x]] = Hi(r)
      <4> SUFFICES ASSUME Paired(t, x)
                   PROVE  t.reg_content[t.r64[x]] = Hi(r)
        OBVIOUS
      <4>1. Partners(w, t.reg_content[t.r64[x]])
        BY <2>1 DEF Good, Core, PairsOK, PairOK
      <4> QED
        BY <4>1, Words DEF Partners
    <3>3. Paired(t, x) => t.r64[x] \notin P
      BY <3>2 DEF Apart
    <3> QED
      BY <3>1, <3>3 DEF Group
  <2>4. /\ u.x = x /\ Good(u, P) /\ \A y \in Z : Accessed(u, y) /\ Ready(u, y, t.reg_content[y])
        /\ Stays(t, u, P) /\ Grows(t, u, Z) /\ Leaves(t, u, {})
    BY <2>1, <2>2, <2>3, HitGood
  <2>5. x \in Z
    BY DEF Group
  <2>6. Room(u, n + Two(session))
    <3>1. CASE Paired(t, x)
      <4>1. Z = {x, t.r64[x]} /\ Two(session) = 2
        BY <2>1, <3>1 DEF Group, Two, Good, Core, PairsOK
      <4>2. Grows(t, u, {x, t.r64[x]})
        BY <2>4, <4>1
      <4>3. Room(u, n + 2)
        BY <4>2, RoomTwo
      <4> QED
        BY <4>1, <4>3
    <3>2. CASE ~Paired(t, x)
      <4>1. Z = {x}
        BY <3>2 DEF Group
      <4>2. Room(u, n + 1)
        BY <2>4, <4>1, RoomOne
      <4>3. Cardinality(Used(u)) \in Nat
        BY UsedFinite
      <4> QED
        BY <4>2, <4>3 DEF Room, Two
    <3> QED
      BY <3>1, <3>2
  <2>7. x \notin P
    BY <2>1 DEF Apart
  <2>8. Leaves(t, u, {x})
    BY <2>4 DEF Leaves
  <2> QED
    BY <1>1, <2>1, <2>4, <2>5, <2>6, <2>7, <2>8 DEF Accessed, Live, u
<1>3. CASE ~Cached(t, w)
  <2> DEFINE x == lru_register(t)
  <2>1. x \in X /\ ~Accessed(t, x)
    BY <1>3, LruOther
  <2>2. u = Missed(t, x, w)
    BY <1>1, <1>3 DEF allocate_register
  <2>3. \A y \in X : Live(t, y) => t.reg_content[y] # w
    BY <1>3, HolderOf
  <2>4. t.mem[w]
    <3>1. \A y \in X : ~Backs(t, y, w)
      BY <2>3, Words DEF Backs
    <3> QED
      BY <1>1, <3>1 DEF Good, Core, MemOK
  <2> HIDE DEF x, u
  <2>5. /\ Good(u, P \cup {x}) /\ Accessed(u, x) /\ Live(u, x) /\ u.x = x
        /\ u.reg_content[x] = w /\ ~u.dirty[x] /\ ~Paired(u, x)
        /\ u.hold[x] = w
        /\ Stays(t, u, P) /\ Grows(t, u, {x}) /\ Leaves(t, u, {x})
    <3>1. w \in Word \cup {NoWord}
      BY <1>1
    <3> DEFINE m == Missed(t, x, w)
    <3> HIDE DEF w
    <3>2. /\ Good(m, P \cup {x}) /\ Accessed(m, x) /\ Live(m, x) /\ m.x = x
          /\ m.reg_content[x] = w /\ ~m.dirty[x] /\ ~Paired(m, x)
          /\ w \in Word /\ t.mem[w] => m.hold[x] = w
          /\ Stays(t, m, P) /\ Grows(t, m, {x}) /\ Leaves(t, m, {x})
      BY <2>1, <2>3, <3>1, MissGood
    <3> QED
      BY <1>1, <2>2, <2>4, <3>2
  <2>6. Fit(u, x, Running)
    <3>1. LowWord(w) /\ w[1] = r
      BY Words DEF LowWord
    <3>2. Testing(session) => r \in u.narrow
      BY <1>3, <2>5 DEF Stays
    <3> QED
      BY <1>1, <2>5, <3>1, <3>2, Words DEF Fit
  <2>7. x \notin P
    BY <2>1 DEF Good, Accessed
  <2>8. Good(u, P)
    <3>1. (P \cup {x}) \ P = {x}
      BY <2>7
    <3> QED
      BY <2>5, <2>6, <3>1, Settle
  <2>9. Ready(u, x, w)
    BY <2>1, <2>5 DEF Ready
  <2>10. Room(u, n + 1)
    BY <2>5, RoomOne
  <2>11. Room(u, n + Two(session))
    <3>1. Cardinality(Used(u)) \in Nat
      BY UsedFinite
    <3> QED
      BY <2>10, <3>1 DEF Room, Two
  <2> QED
    BY <2>1, <2>5, <2>7, <2>8, <2>9, <2>11 DEF u
<1> QED
  BY <1>2, <1>3

\* A value's two registers, when both have theirs, become a pair.
LEMMA JoinGood ==
  ASSUME Here, NEW t, NEW P, NEW i \in X, NEW j \in X, NEW r \in Regs, Good(t, P \cup {i} \cup {j}), i # j,
         i \notin P, j \notin P,
         Accessed(t, i), Accessed(t, j), ~Paired(t, i), ~Paired(t, j), t.dirty[i] = t.dirty[j],
         t.reg_content[j] = Hi(r), t.hold[j] = Hi(r), Ready(t, i, Lo(r)), t.x = j, Pairs(session)
  PROVE  LET u == Joined(t, i) IN
         /\ Good(u, P) /\ u.x = i /\ u.r64[i] = j /\ Paired(u, i)
         /\ Ready(u, i, Lo(r)) /\ Ready(u, j, Hi(r)) /\ Accessed(u, i) /\ Accessed(u, j)
         /\ \A a, Q : Stays(a, t, Q) /\ ~Accessed(a, j) /\ i \notin Q /\ ~Paired(a, i) => Stays(a, u, Q)
         /\ \A a, S : Grows(a, t, S) => Grows(a, u, S)
         /\ \A a, S : Leaves(a, t, S) => Leaves(a, u, S \cup {i, j})
<1> DEFINE b == Pair(t, i, j)
           u == Joined(t, i)
           PP == P \cup {i} \cup {j}
<1>1. t.reg_content[i] = Lo(r)
  BY DEF Ready
<1>2. /\ Good(b, PP) /\ Only(t, b, {"r64"})
      /\ b.r64 = [t.r64 EXCEPT ![i] = j, ![j] = i]
      /\ b.r64[i] = j /\ b.r64[j] = i
  BY <1>1, PairGood
<1> HIDE DEF b
<1>3. u = At(b, i)
  BY DEF Joined, b
<1>4. Good(u, PP) /\ Only(b, u, {"x"}) /\ u.x = i
  BY <1>2, <1>3, AtGood
<1> HIDE DEF u
<1>5. /\ u.last_access = t.last_access /\ u.reg_content = t.reg_content /\ u.free_since = t.free_since
      /\ u.dirty = t.dirty /\ u.hold = t.hold /\ u.needed = t.needed /\ u.mem = t.mem
      /\ u.narrow = t.narrow /\ u.v = t.v /\ u.r64 = b.r64
  BY <1>2, <1>4 DEF Only, Fields
<1>6. t.r64 \in [X -> X \cup {None}]
  BY DEF Good, Core, States
<1>7. \A y \in X \ {i, j} : u.r64[y] = t.r64[y]
  BY <1>2, <1>5, <1>6
<1>8. Paired(u, i) /\ Paired(u, j) /\ u.r64[i] = j /\ u.r64[j] = i
  BY <1>2, <1>5, Numbers DEF Paired
<1>9. \A y \in X, w \in Word : Ready(t, y, w) => Ready(u, y, w)
  BY <1>5 DEF Ready, Told, Live
<1>10. Lo(r) \in Word /\ Hi(r) \in Word
  BY Words
<1>11. Ready(u, i, Lo(r)) /\ Ready(u, j, Hi(r))
  BY <1>5, <1>9, <1>10 DEF Ready
<1>12. Fit(u, i, Running) /\ Fit(u, j, Running)
  BY <1>8, <1>10, <1>11, Words DEF Fit, Ready
<1>13. Good(u, P)
  <2>1. PP \ P \subseteq {i, j} /\ P \subseteq PP
    OBVIOUS
  <2> HIDE DEF PP
  <2> QED
    BY <1>4, <1>12, <2>1, Settle
<1>14. ASSUME NEW a, NEW Q, Stays(a, t, Q), ~Accessed(a, j), i \notin Q, ~Paired(a, i)
       PROVE  Stays(a, u, Q)
  BY <1>5, <1>7, <1>9, <1>14 DEF Stays, Accessed
<1>15. ASSUME NEW a, NEW S, Grows(a, t, S)
       PROVE  Grows(a, u, S)
  BY <1>5, <1>15 DEF Grows, Accessed
<1>16. ASSUME NEW a, NEW S, Leaves(a, t, S)
       PROVE  Leaves(a, u, S \cup {i, j})
  BY <1>5, <1>7, <1>16 DEF Leaves, Live
<1>17. Accessed(u, i) /\ Accessed(u, j)
  BY <1>5 DEF Accessed
<1> QED
  BY <1>2, <1>4, <1>8, <1>11, <1>13, <1>14, <1>15, <1>16, <1>17 DEF u

Alike(t, u, j) ==
  \A y \in X \ {j} : u.reg_content[y] = t.reg_content[y] /\ u.dirty[y] = t.dirty[y]
ReadiesBut(t, u, j) == \A y \in X \ {j}, w \in Word : Ready(t, y, w) => Ready(u, y, w)

LEMMA StaysLess ==
  ASSUME NEW t, NEW u, NEW P, NEW Q, Stays(t, u, Q), P \subseteq Q
  PROVE  Stays(t, u, P)
BY DEF Stays

\* A new upper register gets the sign of a 32 bit value.
Extension(t, i, r) ==
  LET c == Copied(t, i)
  IN  Run([c EXCEPT !.reg_content[c.x] = Hi(r), !.dirty[c.x] = TRUE], c.x, Sign(c, i, r))

\* No register holds w.
Absent(t, w) == \A y \in X : Live(t, y) => t.reg_content[y] # w

LEMMA ExtendGood ==
  ASSUME Here, NEW t, NEW P, NEW i \in X, NEW j \in X, NEW r \in Regs,
         Good(t, P), j \in P, i # j, t.x = j, Accessed(t, j), ~Paired(t, j), ~t.dirty[j],
         Ready(t, i, Lo(r)), r \in t.narrow, Absent(t, Hi(r))
  PROVE  LET f == Extension(t, i, r) IN
         /\ Extended(Copied(t, i), i, r) = Joined(f, i)
         /\ Good(f, P) /\ f.x = j
         /\ f.reg_content[j] = Hi(r) /\ f.dirty[j] /\ f.hold[j] = Hi(r)
         /\ f.last_access = t.last_access /\ f.r64 = t.r64 /\ f.mem = t.mem
         /\ f.narrow = t.narrow /\ f.v = t.v
         /\ Alike(t, f, j)
         /\ ReadiesBut(t, f, j)
<1> DEFINE c == Copied(t, i)
           f == Run([c EXCEPT !.reg_content[c.x] = Hi(r), !.dirty[c.x] = TRUE], c.x, Sign(c, i, r))
<1>1. Lo(r) \in Word /\ Hi(r) \in Word /\ t.reg_content[i] = Lo(r)
  BY Words DEF Ready
<1>2. /\ Good(c, P) /\ Only(t, c, {"hold", "loads"}) /\ c.hold[i] = Lo(r)
      /\ Readies(t, c)
  <2>1. CASE t.hold[i] = Loaded
    <3>1. c = Use(t, i, Lo(r))
      BY <1>1, <2>1 DEF Copied
    <3> DEFINE m == Use(t, i, Lo(r))
    <3>3. Ready(t, i, Lo(r)) /\ Lo(r) \in Word
      BY <1>1
    <3>4. /\ Good(m, P) /\ Only(t, m, {"hold", "loads"}) /\ m.hold[i] = Lo(r)
          /\ Readies(t, m)
      BY <3>3, UseGood
    <3> HIDE DEF m
    <3> QED
      BY <3>1, <3>4 DEF m
  <2>2. CASE t.hold[i] # Loaded
    BY <2>2 DEF Copied, Ready, Readies, Only
  <2> QED
    BY <2>1, <2>2
<1>3. Extended(c, i, r) = Joined(f, i)
  BY DEF Extended
<1> HIDE DEF c
<1>4. /\ c.last_access = t.last_access /\ c.reg_content = t.reg_content /\ c.free_since = t.free_since
      /\ c.dirty = t.dirty /\ c.r64 = t.r64 /\ c.needed = t.needed /\ c.mem = t.mem
      /\ c.narrow = t.narrow /\ c.v = t.v /\ c.x = j
  BY <1>2 DEF Only, Fields
<1>5. Sign(c, i, r) = Hi(r)
  BY <1>2, <1>4 DEF Sign
<1>6. c \in States
  BY <1>2 DEF Good, Core
<1>7. /\ f \in States /\ Only(c, f, {"reg_content", "dirty", "hold"})
      /\ f.reg_content = [c.reg_content EXCEPT ![j] = Hi(r)] /\ f.dirty = [c.dirty EXCEPT ![j] = TRUE]
      /\ f.hold = [c.hold EXCEPT ![j] = Hi(r)]
  <2>1. f = [c EXCEPT !.reg_content[j] = Hi(r), !.dirty[j] = TRUE, !.hold[j] = Hi(r)]
    BY <1>4, <1>5, <1>6 DEF Run, States
  <2> HIDE DEF f
  <2> QED
    BY <1>1, <1>6, <2>1 DEF States, Only, Fields, Held
<1> HIDE DEF f
<1>8. /\ f.last_access = t.last_access /\ f.r64 = t.r64 /\ f.mem = t.mem /\ f.narrow = t.narrow /\ f.v = t.v
      /\ f.needed = t.needed /\ f.free_since = t.free_since /\ f.x = j
  BY <1>4, <1>7 DEF Only, Fields
<1>9. /\ \A y \in X \ {j} : /\ f.reg_content[y] = t.reg_content[y] /\ f.dirty[y] = t.dirty[y]
                            /\ f.hold[y] = c.hold[y]
      /\ f.reg_content[j] = Hi(r) /\ f.dirty[j] /\ f.hold[j] = Hi(r)
  BY <1>4, <1>6, <1>7, SMTT(30) DEF States
<1>10. Places(c, f, j, Hi(r))
  BY <1>4, <1>7, <1>8, <1>9 DEF Places, Only, Accessed, Paired
<1>11. ~Paired(c, j) /\ ~c.dirty[j] /\ \A y \in X \ {j} : Live(c, y) => c.reg_content[y] # Hi(r)
  BY <1>4 DEF Live, Paired, Absent
<1>12. Good(f, P)
  <2>1. P \cup {j} = P
    OBVIOUS
  <2>2. Good(f, P \cup {j})
    BY <1>2, <1>10, <1>11, PlacesGood
  <2> QED
    BY <2>1, <2>2
<1>13. \A y \in X \ {j}, w \in Word : Ready(t, y, w) => Ready(f, y, w)
  <2>1. \A y \in X \ {j}, w \in Word : Ready(c, y, w) => Ready(f, y, w)
    BY <1>4, <1>8, <1>9 DEF Ready, Told, Live
  <2> QED
    BY <1>2, <2>1 DEF Readies
<1> QED
  BY <1>3, <1>8, <1>9, <1>12, <1>13 DEF c, f, ReadiesBut, Alike, Extension

\* Whether the value of i is extended is known.
Widens(t, i, r, e) == /\ e => t.dirty[i] /\ r \in t.narrow
                      /\ ~e => ~t.dirty[i] /\ t.mem[Hi(r)]

\* Another register has become the upper word of the value in i.
Widened(t, u, P, i, r) ==
  LET j == u.r64[i]
  IN  /\ Good(u, P) /\ u.x = i /\ j \in X /\ i # j /\ Paired(u, i) /\ j \notin P
      /\ Ready(u, i, Lo(r)) /\ Ready(u, j, Hi(r)) /\ Accessed(u, i) /\ Accessed(u, j)
      /\ Stays(t, u, P) /\ Grows(t, u, {j})

LEMMA UpperGood ==
  ASSUME Here, NEW t, NEW P, NEW i \in X, NEW r \in Regs, NEW e \in BOOLEAN, NEW n \in Nat,
         Good(t, P \cup {i}), i \notin P, t.x = i, Accessed(t, i), ~Paired(t, i), Ready(t, i, Lo(r)),
         Absent(t, Hi(r)), Apart(t, P, r),
         Room(t, n), n < Cardinality(X), Pairs(session),
         Widens(t, i, r, e)
  PROVE  Widened(t, Upper(t, r, e), P, i, r)
<1> USE DEF Widens
<1> DEFINE j == lru_register(t)
           w == IF e THEN NoWord ELSE Hi(r)
           b == allocate_register(t, w)
           f == IF e THEN Extension(b, i, r) ELSE b
           u == Upper(t, r, e)
           PP == P \cup {i}
<1>1. j \in X /\ ~Accessed(t, j)
  BY LruOther
<1>2. w \in Word \cup {NoWord} /\ Lo(r) \in Word /\ Hi(r) \in Word /\ Hi(r) # NoWord
  BY Words
<1>3. \A y \in X : Live(t, y) => t.reg_content[y] # w
  <2> SUFFICES ASSUME NEW y \in X, Live(t, y), e
               PROVE  t.reg_content[y] # NoWord
    BY DEF Absent
  <2>1. CASE y \in P
    BY <2>1, Words DEF Apart
  <2>2. CASE y = i
    BY <1>2, <2>2, Words DEF Ready
  <2>3. CASE y \notin P \cup {i}
    BY <2>3, Words DEF Good, Fit
  <2> QED
    BY <2>1, <2>2, <2>3
<1>4. b = Missed(t, j, w)
  <2>1. CASE e
    BY <2>1 DEF allocate_register
  <2>2. CASE ~e
    <3>1. ~Cached(t, Hi(r))
      BY HolderOf DEF Absent
    <3> QED
      BY <2>2, <3>1 DEF allocate_register
  <2> QED
    BY <2>1, <2>2
<1>5. u = IF e THEN Extended(Copied(b, i), i, r) ELSE Joined(b, i)
  BY DEF Upper
<1> HIDE DEF u, b, j, w
<1>6. /\ Good(b, PP \cup {j}) /\ Accessed(b, j) /\ Live(b, j) /\ b.x = j
      /\ b.reg_content[j] = w /\ ~b.dirty[j] /\ ~Paired(b, j)
      /\ w \in Word /\ t.mem[w] => b.hold[j] = w
      /\ Stays(t, b, PP) /\ Grows(t, b, {j}) /\ Leaves(t, b, {j})
  <2> DEFINE m == Missed(t, j, w)
  <2> HIDE DEF PP
  <2>1. Good(t, PP)
    BY DEF PP
  <2>2. /\ Good(m, PP \cup {j}) /\ Accessed(m, j) /\ Live(m, j) /\ m.x = j
        /\ m.reg_content[j] = w /\ ~m.dirty[j] /\ ~Paired(m, j)
        /\ w \in Word /\ t.mem[w] => m.hold[j] = w
        /\ Stays(t, m, PP) /\ Grows(t, m, {j}) /\ Leaves(t, m, {j})
    BY <1>1, <1>2, <1>3, <2>1, MissGood
  <2> QED
    BY <1>4, <2>2
<1>7. /\ i # j /\ Accessed(b, i) /\ b.dirty[i] = t.dirty[i] /\ ~Paired(b, i) /\ Ready(b, i, Lo(r))
      /\ b.narrow = t.narrow /\ (t.mem[Hi(r)] => b.mem[Hi(r)])
  BY <1>1, <1>2, <1>6 DEF Stays, Paired
<1>8. /\ Good(f, PP \cup {j}) /\ f.x = j
      /\ f.reg_content[j] = Hi(r) /\ f.hold[j] = Hi(r) /\ f.dirty[j] = f.dirty[i]
      /\ f.last_access = b.last_access /\ f.r64 = b.r64 /\ f.mem = b.mem
      /\ f.narrow = b.narrow /\ f.v = b.v
      /\ Alike(b, f, j)
      /\ ReadiesBut(b, f, j)
      /\ u = Joined(f, i)
  <2>1. CASE e
    <3>1. Absent(b, Hi(r))
      BY <1>2, <1>6, <2>1 DEF Leaves, w, Absent
    <3>2. Good(b, PP \cup {j}) /\ r \in b.narrow /\ j \in PP \cup {j}
      BY <1>6, <1>7, <2>1
    <3>3. b.dirty \in [X -> BOOLEAN]
      BY <1>6 DEF Good, Core, States
    <3>9. /\ j \in X /\ i # j /\ b.x = j /\ Accessed(b, j) /\ ~Paired(b, j) /\ ~b.dirty[j]
          /\ Ready(b, i, Lo(r))
      BY <1>1, <1>6, <1>7
    <3> HIDE DEF f, PP
    <3> DEFINE c == Copied(b, i)
               g == Extension(b, i, r)
    <3>4. /\ Extended(c, i, r) = Joined(g, i)
          /\ Good(g, PP \cup {j}) /\ g.x = j
          /\ g.reg_content[j] = Hi(r) /\ g.dirty[j] /\ g.hold[j] = Hi(r)
          /\ g.last_access = b.last_access /\ g.r64 = b.r64 /\ g.mem = b.mem
          /\ g.narrow = b.narrow /\ g.v = b.v
          /\ Alike(b, g, j)
          /\ ReadiesBut(b, g, j)
      BY <3>1, <3>2, <3>9, ExtendGood
    <3>5. f = g
      BY <2>1 DEF f
    <3>6. u = Extended(c, i, r)
      BY <1>5, <2>1
    <3> HIDE DEF c, g
    <3>7. g.dirty \in [X -> BOOLEAN]
      BY <3>4 DEF Good, Core, States
    <3>8. g.dirty[j] = g.dirty[i]
      BY <1>7, <2>1, <3>3, <3>4, <3>7 DEF Alike
    <3> QED
      BY <3>4, <3>5, <3>6, <3>8
  <2>2. CASE ~e
    <3>1. b.dirty \in [X -> BOOLEAN]
      BY <1>6 DEF Good, Core, States
    <3>2. b.reg_content[j] = Hi(r) /\ b.hold[j] = Hi(r) /\ b.dirty[j] = b.dirty[i]
      BY <1>1, <1>2, <1>6, <1>7, <2>2, <3>1 DEF w
    <3> QED
      BY <1>5, <1>6, <2>2, <3>2 DEF Alike, ReadiesBut
  <2> QED
    BY <2>1, <2>2
<1> HIDE DEF f
<1>9. /\ Accessed(f, i) /\ Accessed(f, j) /\ ~Paired(f, i) /\ ~Paired(f, j) /\ Ready(f, i, Lo(r))
  BY <1>1, <1>2, <1>6, <1>7, <1>8 DEF Accessed, Paired, ReadiesBut
<1>10. Stays(t, f, P)
  <2>1. Stays(t, b, P)
    BY <1>6, StaysLess
  <2>2. \A y \in X : Accessed(t, y) => y # j
    BY <1>1
  <2> QED
    BY <1>8, <2>1, <2>2 DEF Stays, Accessed, Alike, ReadiesBut
<1>11. Grows(t, f, {j}) /\ Leaves(t, f, {j})
  BY <1>6, <1>8 DEF Grows, Leaves, Accessed, Live, Alike
<1>12. j \notin P
  BY <1>1 DEF Good, Accessed
<1> DEFINE q == Joined(f, i)
<1>13. /\ Good(q, P) /\ q.x = i /\ q.r64[i] = j /\ Paired(q, i)
       /\ Ready(q, i, Lo(r)) /\ Ready(q, j, Hi(r)) /\ Accessed(q, i) /\ Accessed(q, j)
       /\ \A a, Q : Stays(a, f, Q) /\ ~Accessed(a, j) /\ i \notin Q /\ ~Paired(a, i) => Stays(a, q, Q)
       /\ \A a, S : Grows(a, f, S) => Grows(a, q, S)
       /\ \A a, S : Leaves(a, f, S) => Leaves(a, q, S \cup {i, j})
  <2>1. Good(f, P \cup {i} \cup {j})
    BY <1>8
  <2> QED
    BY <1>1, <1>7, <1>8, <1>9, <1>12, <2>1, JoinGood
<1>14. u = q
  BY <1>8
<1> HIDE DEF q
<1>15. Stays(t, q, P) /\ Grows(t, q, {j})
  BY <1>1, <1>10, <1>11, <1>13
<1>16. Leaves(t, q, {i, j})
  <2>1. Leaves(t, q, {j} \cup {i, j})
    BY <1>11, <1>13
  <2>2. {j} \cup {i, j} = {i, j}
    OBVIOUS
  <2> QED
    BY <2>1, <2>2
<1> QED
  BY <1>1, <1>7, <1>12, <1>13, <1>14, <1>15, <1>16 DEF u, Widened

\* allocate_64_register() returns both registers of r.
Read64(t, u, P, r) ==
  LET i == u.x
      j == u.r64[i]
  IN  /\ Good(u, P) /\ i \in X /\ j \in X /\ i # j /\ Paired(u, i) /\ i \notin P /\ j \notin P
      /\ Ready(u, i, Lo(r)) /\ Ready(u, j, Hi(r)) /\ Accessed(u, i) /\ Accessed(u, j)
      /\ Stays(t, u, P) /\ Grows(t, u, {i, j})

\* A register of an upper word is paired with the one of its lower word.
LEMMA PartnerOf ==
  ASSUME Here, NEW t, NEW P, Good(t, P), NEW r \in Regs, NEW x \in X, Live(t, x), Paired(t, x)
  PROVE  LET y == t.r64[x] IN
         /\ y \in X /\ y # x /\ Live(t, y) /\ t.r64[y] = x /\ Paired(t, y) /\ t.dirty[y] = t.dirty[x]
         /\ t.last_access[y] = t.last_access[x]
         /\ t.reg_content[x] = Lo(r) => t.reg_content[y] = Hi(r)
         /\ t.reg_content[x] = Hi(r) => t.reg_content[y] = Lo(r)
<1> DEFINE y == t.r64[x]
<1>1. PairOK(t, x)
  BY DEF Good, Core, PairsOK
<1>2. /\ y \in X /\ y # x /\ Live(t, y) /\ t.r64[y] = x /\ t.dirty[y] = t.dirty[x]
      /\ t.last_access[y] = t.last_access[x]
      /\ Partners(t.reg_content[x], t.reg_content[y])
  BY <1>1 DEF PairOK
<1>3. Paired(t, y)
  BY <1>2, Numbers DEF Paired
<1>4. /\ t.reg_content[x] = Lo(r) => t.reg_content[y] = Hi(r)
      /\ t.reg_content[x] = Hi(r) => t.reg_content[y] = Lo(r)
  BY <1>2, Words DEF Partners
<1> QED
  BY <1>2, <1>3, <1>4

\* A value that has both its registers.
LEMMA R64Hit ==
  ASSUME Here, NEW t, NEW P, Good(t, P), NEW r \in Regs, Apart(t, P, r), Cached(t, Lo(r)),
         Paired(t, Holder(t, Lo(r)))
  PROVE  Read64(t, allocate_64_register(t, r), P, r)
<1> DEFINE x == Holder(t, Lo(r))
           y == t.r64[x]
           Z == {x, y}
           a == allocate_register(t, Lo(r))
           b == allocate_register(a, Hi(r))
           u == allocate_64_register(t, r)
<1>1. Lo(r) \in Word /\ Hi(r) \in Word /\ Lo(r) # NoWord /\ Hi(r) # NoWord /\ dst # 0 /\ dst \in Nat
  BY Words, Numbers
<1>2. x \in X /\ Live(t, x) /\ t.reg_content[x] = Lo(r) /\ Paired(t, x)
  BY HolderOf
<1>3. a = Hit(Kept(t, x), x)
  BY <1>1 DEF allocate_register
<1>4. DirtyLow(t, r) = FALSE
  <2>1. \A z \in Holders(t, Lo(r)) : z = x
    BY HolderOf DEF Holders
  <2> QED
    BY <1>2, <2>1 DEF DirtyLow
<1>5. u = Joined(b, a.x)
  BY <1>4 DEF allocate_64_register, Upper
<1> HIDE DEF x, a, b, u
<1>6. /\ y \in X /\ y # x /\ Live(t, y) /\ t.r64[y] = x /\ t.reg_content[y] = Hi(r)
  BY <1>2, PartnerOf
<1>7. Group(t, x) = Z
  BY <1>2 DEF Group
<1>8. Z \cap P = {}
  BY <1>2, <1>6 DEF Apart
<1>9. /\ a.x = x /\ Good(a, P) /\ Stays(t, a, P) /\ Grows(t, a, Z)
      /\ \A z \in Z : Accessed(a, z) /\ Ready(a, z, t.reg_content[z])
      /\ Hits(t, a, Z)
  BY <1>2, <1>3, <1>7, <1>8, HitGood
<1>10. a.r64 = t.r64 /\ a.reg_content = t.reg_content
  BY <1>9 DEF Hits, Only, Fields
<1>11. Live(a, y) /\ Live(a, x) /\ Paired(a, y) /\ Ready(a, x, Lo(r))
  BY <1>1, <1>2, <1>6, <1>9, <1>10, Numbers DEF Accessed, Live, Paired
<1>12. Cached(a, Hi(r)) /\ Holder(a, Hi(r)) = y
  BY <1>6, <1>9, <1>10, <1>11, HolderOf
<1>13. b = Hit(Kept(a, y), y)
  BY <1>1, <1>12 DEF allocate_register, b
<1>14. Group(a, y) = {y, x}
  BY <1>6, <1>10, <1>11 DEF Group
<1>15. /\ b.x = y /\ Good(b, P) /\ Stays(a, b, P) /\ Grows(a, b, {y, x})
       /\ \A z \in {y, x} : Accessed(b, z) /\ Ready(b, z, a.reg_content[z])
       /\ Hits(a, b, {y, x})
  <2> DEFINE m == Hit(Kept(a, y), y)
             G == Group(a, y)
  <2>1. y \in X /\ G \cap P = {} /\ Live(a, y) /\ Good(a, P)
    BY <1>6, <1>8, <1>9, <1>11, <1>14
  <2> HIDE DEF y
  <2>2. /\ m.x = y /\ Good(m, P) /\ Stays(a, m, P) /\ Grows(a, m, G)
        /\ \A z \in G : Accessed(m, z) /\ Ready(m, z, a.reg_content[z])
        /\ Hits(a, m, G)
    BY <2>1, HitGood
  <2> HIDE DEF m, G
  <2>3. b = m /\ G = {y, x}
    BY <1>13, <1>14 DEF m, G
  <2> QED
    BY <2>2, <2>3
<1>16. b.r64 = t.r64
  BY <1>10, <1>15 DEF Hits, Only, Fields
<1>17. b \in States /\ b.r64 \in [X -> X \cup {None}]
  BY <1>15 DEF Hits, States
<1>18. u = [b EXCEPT !.x = x]
  <2>1. u = At([b EXCEPT !.r64[x] = y, !.r64[y] = x], x)
    BY <1>5, <1>9, <1>15 DEF Joined, Pair
  <2>2. [b EXCEPT !.r64[x] = y, !.r64[y] = x] = b
    BY <1>2, <1>6, <1>16, <1>17 DEF States
  <2> QED
    BY <2>1, <2>2 DEF At
<1>19. u \in States /\ Only(b, u, {"x"}) /\ u.x = x
  <2>1. x \in Int
    BY <1>2, Numbers
  <2> QED
    BY <1>17, <1>18, <2>1 DEF States, Only, Fields
<1>20. Good(u, P)
  <2>1. Only(b, u, {"x", "v"})
    BY <1>19 DEF Only
  <2> QED
    BY <1>15, <1>19, <2>1, GoodSame
<1>21. /\ u.last_access = b.last_access /\ u.r64 = b.r64 /\ u.reg_content = b.reg_content
       /\ u.hold = b.hold /\ u.needed = b.needed /\ u.free_since = b.free_since
  BY <1>19 DEF Only, Fields
<1>22. Ready(u, x, Lo(r)) /\ Ready(u, y, Hi(r)) /\ Accessed(u, x) /\ Accessed(u, y) /\ Paired(u, x)
  <2>1. Ready(b, x, Lo(r)) /\ Ready(b, y, Hi(r)) /\ Accessed(b, x) /\ Accessed(b, y)
    BY <1>2, <1>6, <1>10, <1>15
  <2> QED
    BY <1>2, <1>16, <1>21, <2>1 DEF Ready, Accessed, Paired, Told, Live
<1>23. Stays(t, u, P)
  <2>1. Stays(t, b, P)
    BY <1>9, <1>15, StaysStays
  <2>2. Only(b, u, {"hold", "loads", "x"})
    BY <1>19 DEF Only
  <2> QED
    BY <1>21, <2>1, <2>2, StaysBut
<1>24. Grows(t, u, {x, y})
  BY <1>9, <1>15, <1>21 DEF Grows, Accessed
<1>25. u.r64[x] = y
  BY <1>16, <1>21
<1>26. Read64(t, u, P, r)
  BY <1>2, <1>6, <1>8, <1>19, <1>20, <1>22, <1>23, <1>24, <1>25 DEF Read64
<1> QED
  BY <1>26 DEF u

\* A value that has not.
LEMMA R64Made ==
  ASSUME Here, NEW t, NEW P, Good(t, P), NEW r \in Regs, Apart(t, P, r), NEW n \in Nat, Room(t, n),
         n + 2 <= Cardinality(X), ~(Cached(t, Lo(r)) /\ Paired(t, Holder(t, Lo(r)))), Pairs(session)
  PROVE  Read64(t, allocate_64_register(t, r), P, r)
<1> DEFINE a == allocate_register(t, Lo(r))
           i == a.x
           e == DirtyLow(t, r)
           u == allocate_64_register(t, r)
           j == u.r64[i]
<1>1. /\ Lo(r) \in Word /\ Hi(r) \in Word /\ Lo(r) # NoWord /\ Lo(r) # Hi(r)
      /\ Hi(r)[1] = r /\ Lo(r)[1] = r /\ dst # 0
  BY Words, Numbers
<1>0. n < Cardinality(X) /\ n + 1 < Cardinality(X)
  <2>1. Cardinality(X) \in Nat
    BY Numbers, FS_CardinalityType
  <2> QED
    BY <2>1
<1>2. u = Upper(a, r, e)
  BY DEF allocate_64_register
<1>3. Absent(t, Hi(r))
  <2> SUFFICES ASSUME NEW y \in X, Live(t, y), t.reg_content[y] = Hi(r)
               PROVE  FALSE
    BY DEF Absent
  <2>1. y \notin P
    BY <1>1 DEF Apart
  <2>2. Paired(t, y)
    BY <2>1, Words DEF Good, Fit, LowWord
  <2> DEFINE x == t.r64[y]
  <2>3. x \in X /\ Live(t, x) /\ Paired(t, x) /\ t.reg_content[x] = Lo(r)
    BY <2>2, PartnerOf
  <2> QED
    BY <2>3, HolderOf
<1>4. ~e => t.mem[Hi(r)]
  <2> SUFFICES ASSUME ~t.mem[Hi(r)]
               PROVE  e
    OBVIOUS
  <2>1. PICK x \in X : Backs(t, x, Hi(r))
    BY <1>1 DEF Good, Core, MemOK
  <2>2. Live(t, x) /\ t.dirty[x] /\ ~Paired(t, x) /\ t.reg_content[x] = Lo(r)
    BY <1>1, <1>3, <2>1 DEF Backs, Absent
  <2> QED
    BY <2>2 DEF DirtyLow, Holders
<1> HIDE DEF e
<1>5. /\ i \in X /\ i \notin P /\ Accessed(a, i) /\ ~Paired(a, i) /\ Good(a, P \cup {i})
      /\ Ready(a, i, Lo(r)) /\ Absent(a, Hi(r)) /\ Stays(t, a, P) /\ Grows(t, a, {i})
      /\ e => a.dirty[i] /\ r \in a.narrow
      /\ ~e => ~a.dirty[i]
  <2>1. CASE Cached(t, Lo(r))
    <3> DEFINE x == Holder(t, Lo(r))
               Z == Group(t, x)
    <3>1. x \in X /\ Live(t, x) /\ t.reg_content[x] = Lo(r) /\ ~Paired(t, x)
      BY <2>1, HolderOf
    <3>2. a = Hit(Kept(t, x), x)
      BY <1>1, <2>1 DEF allocate_register
    <3>3. \A y \in X : Live(t, y) /\ t.reg_content[y] = Lo(r) => y = x
      BY HolderOf
    <3> HIDE DEF x, a
    <3>4. Z = {x}
      BY <3>1 DEF Group
    <3>5. x \notin P
      BY <3>1 DEF Apart
    <3>6. /\ a.x = x /\ Good(a, P) /\ Stays(t, a, P) /\ Grows(t, a, Z)
          /\ \A z \in Z : Accessed(a, z) /\ Ready(a, z, t.reg_content[z])
          /\ Hits(t, a, Z) /\ Leaves(t, a, {})
      <4>1. Z \cap P = {}
        BY <3>4, <3>5
      <4> QED
        BY <3>1, <3>2, <4>1, HitGood
    <3>7. a.dirty = t.dirty /\ a.r64 = t.r64 /\ a.narrow = t.narrow
      BY <3>6 DEF Hits, Only, Fields
    <3>8. Absent(a, Hi(r))
      BY <1>3, <3>6 DEF Absent, Leaves
    <3>9. e = t.dirty[x]
      <4>1. t.dirty[x] \in BOOLEAN
        BY <3>1 DEF Good, Core, States
      <4>2. e => t.dirty[x]
        BY <3>3 DEF e, DirtyLow, Holders
      <4>3. t.dirty[x] => e
        BY <3>1 DEF e, DirtyLow, Holders
      <4>4. e \in BOOLEAN
        BY DEF e, DirtyLow
      <4> QED
        BY <4>1, <4>2, <4>3, <4>4
    <3>10. e => r \in t.narrow
      BY <1>1, <3>1, <3>5, <3>9 DEF Good, Fit
    <3>11. Good(a, P \cup {x})
      BY <3>1, <3>4, <3>6 DEF Good, Accessed
    <3> QED
      BY <3>1, <3>4, <3>5, <3>6, <3>7, <3>8, <3>9, <3>10, <3>11 DEF Paired
  <2>2. CASE ~Cached(t, Lo(r))
    <3> DEFINE x == lru_register(t)
               w == Lo(r)
               m == Missed(t, x, w)
    <3>1. x \in X /\ ~Accessed(t, x)
      BY <1>0, LruOther
    <3>2. a = m
      BY <1>1, <2>2 DEF allocate_register
    <3>3. \A y \in X : Live(t, y) => t.reg_content[y] # Lo(r)
      BY <2>2, HolderOf
    <3>4. t.mem[Lo(r)]
      <4>1. \A y \in X : ~Backs(t, y, Lo(r))
        BY <1>1, <3>3 DEF Backs
      <4> QED
        BY <1>1, <4>1 DEF Good, Core, MemOK
    <3>5. ~e
      BY <3>3 DEF e, DirtyLow, Holders
    <3>6. Lo(r) \in Word \cup {NoWord}
      BY <1>1
    <3> HIDE DEF x
    <3>7. /\ Good(m, P \cup {x}) /\ Accessed(m, x) /\ m.x = x
          /\ m.reg_content[x] = Lo(r) /\ ~m.dirty[x] /\ ~Paired(m, x)
          /\ Lo(r) \in Word /\ t.mem[Lo(r)] => m.hold[x] = Lo(r)
          /\ Stays(t, m, P) /\ Grows(t, m, {x}) /\ Leaves(t, m, {x})
      <4> HIDE DEF w
      <4>1. w \in Word \cup {NoWord} /\ \A y \in X : Live(t, y) => t.reg_content[y] # w
        BY <3>3, <3>6 DEF w
      <4>2. /\ Good(m, P \cup {x}) /\ Accessed(m, x) /\ Live(m, x) /\ m.x = x
            /\ m.reg_content[x] = w /\ ~m.dirty[x] /\ ~Paired(m, x)
            /\ w \in Word /\ t.mem[w] => m.hold[x] = w
            /\ Stays(t, m, P) /\ Grows(t, m, {x}) /\ Leaves(t, m, {x})
        BY <3>1, <4>1, MissGood
      <4> HIDE DEF m
      <4> QED
        BY <4>2 DEF w
    <3> HIDE DEF m, a
    <3>8. x \notin P
      BY <3>1 DEF Good, Accessed
    <3>9. Absent(a, Hi(r))
      BY <1>1, <1>3, <3>2, <3>7 DEF Absent, Leaves
    <3>10. Ready(a, x, Lo(r))
      BY <1>1, <3>1, <3>2, <3>4, <3>7 DEF Ready
    <3> QED
      BY <3>1, <3>2, <3>5, <3>7, <3>8, <3>9, <3>10
  <2> QED
    BY <2>1, <2>2
<1>6. Room(a, n + 1) /\ n + 1 \in Nat /\ n + 1 < Cardinality(X)
  <2>1. Room(a, n + 1)
    BY <1>5, RoomOne
  <2> QED
    BY <1>0, <2>1
<1>7. Apart(a, P, r)
  <2>1. \A y \in P : a.reg_content[y] = t.reg_content[y]
    BY <1>5 DEF Good, Stays, Accessed
  <2> QED
    BY <2>1 DEF Apart
<1>8. ~e => a.mem[Hi(r)]
  BY <1>1, <1>4, <1>5 DEF Stays
<1>9. e \in BOOLEAN
  BY DEF e, DirtyLow
<1>30. a.x = i
  OBVIOUS
<1> HIDE DEF a, u, i
<1>31. PICK ee \in BOOLEAN : ee = e
  BY <1>9
<1>32. Widens(a, i, r, ee)
  BY <1>5, <1>8, <1>31 DEF Widens
<1>33. /\ i \in X /\ i \notin P /\ Accessed(a, i) /\ ~Paired(a, i) /\ Good(a, P \cup {i})
       /\ Ready(a, i, Lo(r)) /\ Absent(a, Hi(r))
  BY <1>5
<1> DEFINE q == Upper(a, r, ee)
           k == q.r64[i]
           nn == n + 1
<1> HIDE DEF nn
<1>34. nn \in Nat /\ Room(a, nn) /\ nn < Cardinality(X)
  BY <1>6 DEF nn
<1>35. Widened(a, q, P, i, r)
  BY <1>30, <1>32, <1>33, <1>34, <1>7, UpperGood
<1> HIDE DEF q
<1>10. /\ Good(q, P) /\ q.x = i /\ k \in X /\ i # k /\ Paired(q, i) /\ k \notin P
       /\ Ready(q, i, Lo(r)) /\ Ready(q, k, Hi(r)) /\ Accessed(q, i) /\ Accessed(q, k)
       /\ Stays(a, q, P) /\ Grows(a, q, {k})
  BY <1>35 DEF Widened
<1>11. Stays(t, q, P)
  BY <1>5, <1>10, StaysStays
<1>12. Grows(t, q, {i, k})
  BY <1>5, <1>10 DEF Grows
<1>13. Read64(t, q, P, r)
  BY <1>5, <1>10, <1>11, <1>12 DEF Read64
<1> QED
  BY <1>2, <1>13, <1>31 DEF u, q

\* allocate_64_register(): both words of r are read.
LEMMA R64Good ==
  ASSUME Here, NEW t, NEW P, Good(t, P), NEW r \in Regs, Apart(t, P, r), NEW n \in Nat, Room(t, n),
         n + 2 <= Cardinality(X), Pairs(session)
  PROVE  /\ Read64(t, allocate_64_register(t, r), P, r)
         /\ Room(allocate_64_register(t, r), n + 2)
<1>1. Read64(t, allocate_64_register(t, r), P, r)
  BY R64Hit, R64Made
<1> DEFINE u == allocate_64_register(t, r)
<1> HIDE DEF u
<1>2. Read64(t, u, P, r)
  BY <1>1 DEF u
<1>3. Grows(t, u, {u.x, u.r64[u.x]})
  BY <1>2 DEF Read64
<1>4. Room(u, n + 2)
  BY <1>3, RoomTwo
<1> QED
  BY <1>2, <1>4 DEF u

-----------------------------------------------------------------------------
(* Values that are given.                                                  *)

\* x is to get a 32 bit value of r.
Made32(t, x, r) ==
  /\ x \in X /\ Accessed(t, x) /\ ~Paired(t, x) /\ t.dirty[x] /\ t.reg_content[x] = Lo(r)

\* x1 and x2 are to get a value of r.
Made64(t, x1, x2, r) ==
  /\ x1 \in X /\ x2 \in X /\ x1 # x2
  /\ Accessed(t, x1) /\ Accessed(t, x2) /\ t.r64[x1] = x2 /\ t.r64[x2] = x1
  /\ t.dirty[x1] /\ t.dirty[x2] /\ t.reg_content[x1] = Lo(r) /\ t.reg_content[x2] = Hi(r)

\* No other register has a word of r.
LEMMA MadeAlone ==
  ASSUME Here, NEW t, NEW P, NEW r \in Regs, Good(t, P), NEW x \in X, Live(t, x),
         t.reg_content[x] = Lo(r), Apart(t, P \ {x}, r), NEW y \in X, y # x, Live(t, y)
  PROVE  /\ t.reg_content[y] # Lo(r)
         /\ t.reg_content[y] = Hi(r) => Paired(t, x) /\ y = t.r64[x]
<1>1. t.reg_content[y] # Lo(r)
  BY DEF Good, Core, Distinct
<1>2. ASSUME t.reg_content[y] = Hi(r)
      PROVE  Paired(t, x) /\ y = t.r64[x]
  <2>1. y \notin P
    BY <1>2 DEF Apart
  <2>2. Paired(t, y)
    BY <1>2, <2>1, Words DEF Good, Fit, LowWord
  <2> DEFINE z == t.r64[y]
  <2>3. z \in X /\ Live(t, z) /\ t.reg_content[z] = Lo(r) /\ t.r64[z] = y /\ Paired(t, z)
    BY <1>2, <2>2, PartnerOf
  <2>4. z = x
    BY <2>3 DEF Good, Core, Distinct
  <2> QED
    BY <2>3, <2>4
<1> QED
  BY <1>1, <1>2

\* A new value of w is in x alone.
Gave(t, u, w, x) ==
  /\ u.mem = [t.mem EXCEPT ![w] = FALSE]
  /\ \A y \in X : u.hold[y] =
       IF y = x THEN w
       ELSE IF t.hold[y] = w \/ (t.hold[y] = Loaded /\ t.reg_content[y] = w) THEN Junk
       ELSE t.hold[y]

LEMMA GiveFields ==
  ASSUME Here, NEW t \in States, NEW w \in Word, NEW x
  PROVE  LET u == Give(t, w, x) IN
         u \in States /\ Only(t, u, {"mem", "hold"}) /\ Gave(t, u, w, x)
<1> DEFINE u == Give(t, w, x)
           h == [y \in X |-> IF y = x THEN w
                             ELSE IF t.hold[y] = w \/ (t.hold[y] = Loaded /\ t.reg_content[y] = w) THEN Junk
                             ELSE t.hold[y]]
<1>1. u = [t EXCEPT !.mem[w] = FALSE, !.hold = h]
  BY DEF Give, States
<1>2. h \in [X -> Held]
  BY DEF Held, States
<1> HIDE DEF u, h
<1>3. /\ u \in States /\ Only(t, u, {"mem", "hold"})
      /\ u.mem = [t.mem EXCEPT ![w] = FALSE] /\ u.hold = h
  BY <1>1, <1>2 DEF States, Only, Fields
<1> QED
  BY <1>3 DEF h, u, Gave

\* Give32() makes a register.
LEMMA Give32Good ==
  ASSUME Here, NEW t, NEW P, NEW r \in Regs, NEW x \in P, Good(t, P), Made32(t, x, r),
         Apart(t, P \ {x}, r)
  PROVE  LET u == Give32(t, r, x) IN
         /\ Good(u, P \ {x}) /\ Only(t, u, {"mem", "hold", "narrow"})
         /\ u.narrow = t.narrow \cup {r}
<1> DEFINE a == Give(t, Hi(r), None)
           b == Give(a, Lo(r), x)
           u == Give32(t, r, x)
<1>1. Lo(r) \in Word /\ Hi(r) \in Word /\ Lo(r) # Hi(r) /\ Lo(r)[1] = r /\ Hi(r)[1] = r
  BY Words
<1>2. t \in States /\ x \in X /\ None \notin X
  BY Numbers DEF Good, Core, Made32
<1>3. a \in States /\ Only(t, a, {"mem", "hold"}) /\ Gave(t, a, Hi(r), None)
  BY <1>1, <1>2, GiveFields
<1> HIDE DEF a
<1>4. b \in States /\ Only(a, b, {"mem", "hold"}) /\ Gave(a, b, Lo(r), x)
  BY <1>1, <1>2, <1>3, GiveFields
<1> HIDE DEF b
<1>5. u = [b EXCEPT !.narrow = @ \cup {r}]
  BY DEF Give32, a, b
<1> HIDE DEF u
<1>6. u \in States /\ Only(b, u, {"narrow"}) /\ u.narrow = b.narrow \cup {r}
  BY <1>4, <1>5 DEF States, Only, Fields
<1>7. Only(t, u, {"mem", "hold", "narrow"})
  BY <1>3, <1>4, <1>6 DEF Only
<1>8. /\ u.last_access = t.last_access /\ u.reg_content = t.reg_content /\ u.free_since = t.free_since
      /\ u.dirty = t.dirty /\ u.r64 = t.r64 /\ u.needed = t.needed /\ u.loads = t.loads /\ u.wrong = t.wrong
  BY <1>7 DEF Only, Fields
<1>9. /\ u.narrow = t.narrow \cup {r} /\ u.mem = b.mem /\ u.hold = b.hold /\ a.reg_content = t.reg_content
  BY <1>3, <1>4, <1>6 DEF Only, Fields
<1>10. \A w \in Word \ {Lo(r), Hi(r)} : u.mem[w] = t.mem[w]
  <2>1. /\ t.mem \in [Word -> BOOLEAN] /\ a.mem \in [Word -> BOOLEAN]
        /\ a.mem = [t.mem EXCEPT ![Hi(r)] = FALSE] /\ u.mem = [a.mem EXCEPT ![Lo(r)] = FALSE]
    BY <1>2, <1>3, <1>4, <1>9 DEF States, Gave
  <2> QED
    BY <2>1
<1>11. x \in X /\ Live(t, x) /\ ~Paired(t, x) /\ t.dirty[x] /\ t.reg_content[x] = Lo(r)
  BY Numbers DEF Made32, Accessed, Live
<1>12. \A y \in X \ {x} : Live(t, y) => t.reg_content[y] \notin {Lo(r), Hi(r)}
  BY <1>11, MadeAlone
<1>13. MemOK(u)
  <2> SUFFICES ASSUME NEW w \in Word
               PROVE  u.mem[w] \/ \E y \in X : Backs(u, y, w)
    BY DEF MemOK
  <2>1. CASE w \in {Lo(r), Hi(r)}
    <3>1. Backs(u, x, w)
      BY <1>1, <1>8, <1>11, <2>1 DEF Backs, Live, Paired
    <3> QED
      BY <1>11, <3>1
  <2>2. CASE w \notin {Lo(r), Hi(r)}
    <3>1. t.mem[w] \/ \E y \in X : Backs(t, y, w)
      BY DEF Good, Core, MemOK
    <3>2. \A y \in X : Backs(t, y, w) => Backs(u, y, w)
      BY <1>8 DEF Backs, Live, Paired
    <3> QED
      BY <1>10, <2>2, <3>1, <3>2
  <2> QED
    BY <2>1, <2>2
<1>14. Core(u, dst, Running)
  BY <1>6, <1>8, <1>13 DEF Good, Core, PairsOK, PairOK, Paired, Live, Distinct, LoadsOK, Told
<1>15. Fit(u, x, Running)
  <2>1. LowWord(Lo(r)) /\ u.hold[x] = Lo(r)
    BY <1>4, <1>9, <1>11 DEF LowWord, Gave
  <2> QED
    BY <1>1, <1>8, <1>9, <1>11, <2>1, Words DEF Fit, Paired
<1>16. ASSUME NEW y \in X, y \notin P
       PROVE  Fit(u, y, Running)
  <2>1. Fit(t, y, Running) /\ y # x
    BY <1>16 DEF Good
  <2>2. Live(t, y) => u.hold[y] = t.hold[y]
    BY <1>2, <1>3, <1>4, <1>9, <1>12, <2>1, Words DEF Fit, Gave
  <2> QED
    BY <1>8, <1>9, <2>1, <2>2 DEF Fit, Live, Paired, Told
<1>17. P \ {x} \subseteq X /\ \A y \in P \ {x} : u.last_access[y] = dst
  BY <1>8 DEF Good
<1>18. Good(u, P \ {x})
  BY <1>14, <1>15, <1>16, <1>17 DEF Good
<1> QED
  BY <1>7, <1>9, <1>18 DEF u

\* Give64() makes a pair.
LEMMA Give64Good ==
  ASSUME Here, NEW t, NEW P, NEW r \in Regs, NEW x1 \in P, NEW x2 \in P, Good(t, P),
         Made64(t, x1, x2, r), Apart(t, P \ {x1, x2}, r)
  PROVE  LET u == Give64(t, r, x1, x2) IN
         /\ Good(u, P \ {x1, x2}) /\ Only(t, u, {"mem", "hold", "narrow"})
         /\ u.narrow = t.narrow \ {r}
<1> DEFINE a == Give(t, Lo(r), x1)
           b == Give(a, Hi(r), x2)
           u == Give64(t, r, x1, x2)
<1>1. Lo(r) \in Word /\ Hi(r) \in Word /\ Lo(r) # Hi(r) /\ Lo(r)[1] = r /\ Hi(r)[1] = r
  BY Words
<1>2. t \in States /\ x1 \in X /\ x2 \in X /\ x1 # x2 /\ None \notin X
  BY Numbers DEF Good, Core, Made64
<1>3. a \in States /\ Only(t, a, {"mem", "hold"}) /\ Gave(t, a, Lo(r), x1)
  BY <1>1, <1>2, GiveFields
<1> HIDE DEF a
<1>4. b \in States /\ Only(a, b, {"mem", "hold"}) /\ Gave(a, b, Hi(r), x2)
  BY <1>1, <1>2, <1>3, GiveFields
<1> HIDE DEF b
<1>5. u = [b EXCEPT !.narrow = @ \ {r}]
  BY DEF Give64, a, b
<1> HIDE DEF u
<1>6. u \in States /\ Only(b, u, {"narrow"}) /\ u.narrow = b.narrow \ {r}
  BY <1>4, <1>5 DEF States, Only, Fields
<1>7. Only(t, u, {"mem", "hold", "narrow"})
  BY <1>3, <1>4, <1>6 DEF Only
<1>8. /\ u.last_access = t.last_access /\ u.reg_content = t.reg_content /\ u.free_since = t.free_since
      /\ u.dirty = t.dirty /\ u.r64 = t.r64 /\ u.needed = t.needed /\ u.loads = t.loads /\ u.wrong = t.wrong
  BY <1>7 DEF Only, Fields
<1>9. /\ u.narrow = t.narrow \ {r} /\ u.mem = b.mem /\ u.hold = b.hold /\ a.reg_content = t.reg_content
  BY <1>3, <1>4, <1>6 DEF Only, Fields
<1>10. \A w \in Word \ {Lo(r), Hi(r)} : u.mem[w] = t.mem[w]
  <2>1. /\ t.mem \in [Word -> BOOLEAN] /\ a.mem \in [Word -> BOOLEAN]
        /\ a.mem = [t.mem EXCEPT ![Lo(r)] = FALSE] /\ u.mem = [a.mem EXCEPT ![Hi(r)] = FALSE]
    BY <1>2, <1>3, <1>4, <1>9 DEF States, Gave
  <2> QED
    BY <2>1
<1>11. /\ Live(t, x1) /\ Live(t, x2) /\ Paired(t, x1) /\ Paired(t, x2) /\ t.dirty[x1] /\ t.dirty[x2]
       /\ t.reg_content[x1] = Lo(r) /\ t.reg_content[x2] = Hi(r)
       /\ t.r64[x1] = x2 /\ t.r64[x2] = x1
  BY Numbers DEF Made64, Accessed, Live, Paired
<1>12. \A y \in X \ {x1, x2} : Live(t, y) => t.reg_content[y] \notin {Lo(r), Hi(r)}
  BY <1>2, <1>11 DEF Good, Core, Distinct
<1>13. MemOK(u)
  <2> SUFFICES ASSUME NEW w \in Word
               PROVE  u.mem[w] \/ \E y \in X : Backs(u, y, w)
    BY DEF MemOK
  <2>1. Backs(u, x1, Lo(r)) /\ Backs(u, x2, Hi(r))
    BY <1>8, <1>11 DEF Backs, Live, Paired
  <2>2. CASE w \notin {Lo(r), Hi(r)}
    <3>1. t.mem[w] \/ \E y \in X : Backs(t, y, w)
      BY DEF Good, Core, MemOK
    <3>2. \A y \in X : Backs(t, y, w) => Backs(u, y, w)
      BY <1>8 DEF Backs, Live, Paired
    <3> QED
      BY <1>10, <2>2, <3>1, <3>2
  <2> QED
    BY <1>2, <2>1, <2>2
<1>14. Core(u, dst, Running)
  BY <1>6, <1>8, <1>13 DEF Good, Core, PairsOK, PairOK, Paired, Live, Distinct, LoadsOK, Told
<1>15. Fit(u, x1, Running) /\ Fit(u, x2, Running)
  <2>1. u.hold[x1] = Lo(r) /\ u.hold[x2] = Hi(r)
    BY <1>1, <1>2, <1>3, <1>4, <1>9, Words DEF Gave
  <2> QED
    BY <1>1, <1>8, <1>11, <2>1, Words DEF Fit, Paired
<1>16. ASSUME NEW y \in X, y \notin P
       PROVE  Fit(u, y, Running)
  <2>1. Fit(t, y, Running) /\ y \notin {x1, x2}
    BY <1>16 DEF Good
  <2>2. Live(t, y) => u.hold[y] = t.hold[y]
    BY <1>2, <1>3, <1>4, <1>9, <1>12, <2>1, Words DEF Fit, Gave
  <2>3. Live(t, y) /\ ~Paired(t, y) => t.reg_content[y][1] # r
    BY <1>12, <2>1, Words DEF Fit, LowWord
  <2> QED
    BY <1>8, <1>9, <2>1, <2>2, <2>3 DEF Fit, Live, Paired, Told
<1>17. P \ {x1, x2} \subseteq X /\ \A y \in P \ {x1, x2} : u.last_access[y] = dst
  BY <1>8 DEF Good
<1>18. Good(u, P \ {x1, x2})
  BY <1>14, <1>15, <1>16, <1>17 DEF Good
<1> QED
  BY <1>7, <1>9, <1>18 DEF u

-----------------------------------------------------------------------------
(* Registers that are written.                                             *)

\* What has been accessed may still be read, its low words are kept.
ReadsOn(t, u) == \A y \in X, w \in Word : Accessed(t, y) /\ Ready(t, y, w) => Ready(u, y, w)
LowsOn(t, u)  == \A y \in X : Accessed(t, y) /\ LowWord(t.reg_content[y]) => Accessed(u, y)
AllOn(t, u)   == \A y \in X : Accessed(t, y) => Accessed(u, y)

LEMMA StaysOn ==
  ASSUME NEW t, NEW u, NEW P, Stays(t, u, P)
  PROVE  ReadsOn(t, u) /\ AllOn(t, u) /\ LowsOn(t, u)
BY DEF Stays, ReadsOn, AllOn, LowsOn

LEMMA OnOn ==
  ASSUME NEW t, NEW u, NEW a, ReadsOn(t, u), AllOn(t, u), ReadsOn(u, a), AllOn(u, a)
  PROVE  ReadsOn(t, a) /\ AllOn(t, a)
BY DEF ReadsOn, AllOn

\* Where the words of r are let go they may still be read.
LEMMA DropsReads ==
  ASSUME Here, NEW t, NEW u, NEW Z \in SUBSET X, NEW x \in X, NEW r \in Regs,
         Drops(t, u, Z, x, r), t.reg_content[x] = Lo(r)
  PROVE  Readies(t, u)
<1>1. u.hold = t.hold /\ \A y \in X : u.reg_content[y] = t.reg_content[y]
  <2>1. u.hold = t.hold
    BY DEF Drops, Only, Fields
  <2> QED
    BY <2>1 DEF Drops
<1>2. \A y \in X : Running /\ Told(t, y) => Told(u, y) /\ u.needed[y] = t.needed[y]
  <2> SUFFICES ASSUME NEW y \in X, Running, Told(t, y)
               PROVE  Told(u, y) /\ u.needed[y] = t.needed[y]
    OBVIOUS
  <2>1. entry \in Nat /\ dst \in Nat /\ dst # 0 /\ entry <= dst
    BY Numbers
  <2>2. CASE y \in Z
    BY <2>1, <2>2 DEF Drops, Told, Live
  <2>3. CASE y = x
    BY <2>1, <2>3 DEF Drops, Told, Live
  <2>4. CASE y \notin Z \cup {x}
    BY <2>4 DEF Drops, Told, Live
  <2> QED
    BY <2>2, <2>3, <2>4
<1> QED
  BY <1>1, <1>2 DEF Readies, Ready

\* What an instruction leaves behind when it is told of a live register.
LEMMA NeedTold ==
  ASSUME Here, NEW t \in States, NEW x \in X, Live(t, x), NEW v \in Word \cup {NoWord}
  PROVE  LET u == Need(t, x, t.last_access[x] + 1, v) IN
         /\ u \in States /\ Only(t, u, {"needed"})
         /\ \A y \in X \ {x} : u.needed[y] = t.needed[y]
         /\ Running /\ Told(t, x) => u.needed[x] = t.needed[x]
<1> DEFINE f == t.last_access[x] + 1
           u == Need(t, x, f, v)
<1>1. t.needed \in [X -> Word \cup {NoWord}] /\ t.last_access[x] \in Nat
  BY DEF States
<1> HIDE DEF f
<1>2. /\ u \in States /\ Only(t, u, {"needed"})
      /\ u.needed = IF f <= entry /\ entry <= dst THEN [t.needed EXCEPT ![x] = v] ELSE t.needed
  BY NeedFields
<1>3. Told(t, x) => ~(f <= entry)
  BY <1>1, Numbers DEF f, Told
<1> QED
  BY <1>1, <1>2, <1>3 DEF f

\* A pair is dropped.
LEMMA UnpairedFields ==
  ASSUME Here, NEW t \in States, NEW x \in X, Paired(t, x), t.r64[x] # x, Live(t, t.r64[x])
  PROVE  LET u == Unpaired(t, x)
             y == t.r64[x] IN
         /\ u \in States /\ Only(t, u, {"last_access", "free_since", "needed", "r64"})
         /\ u.last_access = [t.last_access EXCEPT ![y] = 0]
         /\ u.free_since = [t.free_since EXCEPT ![y] = dst + 1]
         /\ u.r64 = [t.r64 EXCEPT ![x] = None]
         /\ \A z \in X \ {y} : u.needed[z] = t.needed[z]
         /\ Running /\ Told(t, y) => u.needed[y] = t.needed[y]
<1> DEFINE y == t.r64[x]
           n == Need(t, y, t.last_access[y] + 1, NoWord)
           m == [n EXCEPT !.r64[x] = None]
           u == Unpaired(t, x)
<1>1. y \in X
  BY DEF States, Paired
<1>2. u = Release([Need(t, t.r64[x], t.last_access[t.r64[x]] + 1, NoWord) EXCEPT !.r64[x] = None], t.r64[x])
  BY DEF Unpaired
<1>3. u = Release(m, y)
  BY <1>2
<1>4. /\ n \in States /\ Only(t, n, {"needed"})
      /\ \A z \in X \ {y} : n.needed[z] = t.needed[z]
      /\ Running /\ Told(t, y) => n.needed[y] = t.needed[y]
  <2> HIDE DEF y
  <2>1. NoWord \in Word \cup {NoWord} /\ Live(t, y)
    BY DEF y
  <2> QED
    BY <1>1, <2>1, NeedTold
<1> HIDE DEF n, u
<1>5. /\ m \in States /\ Only(n, m, {"r64"}) /\ m.r64 = [n.r64 EXCEPT ![x] = None]
  BY <1>4 DEF States, Only, Fields
<1> HIDE DEF m, y
<1> DEFINE q == Release(m, y)
<1>6. /\ q \in States /\ Only(m, q, {"last_access", "free_since"})
      /\ q.last_access = [m.last_access EXCEPT ![y] = 0]
      /\ q.free_since = [m.free_since EXCEPT ![y] = dst + 1]
  BY <1>1, <1>5, ReleaseFields
<1> HIDE DEF q
<1>7. Only(t, q, {"last_access", "free_since", "needed", "r64"})
  BY <1>4, <1>5, <1>6 DEF Only
<1>8. /\ m.last_access = t.last_access /\ m.free_since = t.free_since
      /\ q.r64 = m.r64 /\ n.r64 = t.r64 /\ q.needed = m.needed /\ m.needed = n.needed
  BY <1>4, <1>5, <1>6 DEF Only, Fields
<1>9. /\ q.last_access = [t.last_access EXCEPT ![y] = 0]
      /\ q.free_since = [t.free_since EXCEPT ![y] = dst + 1]
      /\ q.r64 = [t.r64 EXCEPT ![x] = None]
  BY <1>5, <1>6, <1>8
<1> QED
  BY <1>3, <1>4, <1>6, <1>7, <1>8, <1>9 DEF y, q, u

\* allocate_register_w(): where the word is cached, its pair is dropped.
LEMMA WrittenDrops ==
  ASSUME Here, NEW t, NEW P, Good(t, P), NEW r \in Regs, NEW x \in X, Live(t, x),
         t.reg_content[x] = Lo(r), NEW Z, Z = Group(t, x) \ {x}
  PROVE  LET u == Dirtied(Written(t, x), x) IN
         Drops(t, u, Z, x, r) /\ u.x = x
<1> DEFINE n == Need(t, x, t.last_access[x] + 1, NoWord)
           a == Access(n, x)
           b == Unpaired(a, x)
           u == Dirtied(Written(t, x), x)
           c == At(b, x)
<1>1. t \in States
  BY DEF Good, Core
<1>2. /\ n \in States /\ Only(t, n, {"needed"})
      /\ \A y \in X \ {x} : n.needed[y] = t.needed[y]
      /\ Running /\ Told(t, x) => n.needed[x] = t.needed[x]
  <2>1. NoWord \in Word \cup {NoWord}
    OBVIOUS
  <2> QED
    BY <1>1, <2>1, NeedTold
<1>3. u = Dirtied(c, x)
  BY DEF Written
<1> HIDE DEF n, u
<1>4. a \in States /\ Only(n, a, {"last_access"}) /\ a.last_access = [n.last_access EXCEPT ![x] = dst]
  BY <1>2, AccessFields
<1> HIDE DEF a
<1>5. Only(t, a, {"last_access", "needed"})
  BY <1>2, <1>4 DEF Only
<1>6. /\ a.r64 = t.r64 /\ a.free_since = t.free_since /\ a.needed = n.needed /\ n.last_access = t.last_access
      /\ a.reg_content = t.reg_content
  BY <1>2, <1>4 DEF Only, Fields
<1>7. a.last_access = [t.last_access EXCEPT ![x] = dst]
  BY <1>4, <1>6
<1>8. /\ b \in States /\ Only(a, b, {"last_access", "free_since", "needed", "r64"})
      /\ \A y \in X \ (Z \cup {x}) :
           /\ b.last_access[y] = t.last_access[y] /\ b.free_since[y] = t.free_since[y]
           /\ b.needed[y] = t.needed[y] /\ b.r64[y] = t.r64[y]
      /\ \A y \in Z : b.last_access[y] = 0 /\ b.free_since[y] = dst + 1
      /\ b.last_access[x] = dst /\ b.r64[x] = None
      /\ \A y \in Z \cup {x} : Running /\ Told(t, y) => b.needed[y] = t.needed[y]
      /\ Z \subseteq X
  <2>1. CASE Paired(t, x)
    <3> DEFINE y == t.r64[x]
    <3>1. y \in X /\ y # x /\ Live(t, y)
      BY <2>1, PartnerOf
    <3>2. Z = {y}
      BY <2>1, <3>1 DEF Group
    <3>3. Paired(a, x) /\ a.r64[x] = y /\ Live(a, y)
      BY <1>1, <1>6, <1>7, <2>1, <3>1 DEF Paired, Live, States
    <3> HIDE DEF b, y
    <3>4. /\ b \in States /\ Only(a, b, {"last_access", "free_since", "needed", "r64"})
          /\ b.last_access = [a.last_access EXCEPT ![y] = 0]
          /\ b.free_since = [a.free_since EXCEPT ![y] = dst + 1]
          /\ b.r64 = [a.r64 EXCEPT ![x] = None]
          /\ \A z \in X \ {y} : b.needed[z] = a.needed[z]
          /\ Running /\ Told(a, y) => b.needed[y] = a.needed[y]
      <4> DEFINE m == Unpaired(a, x)
                 z == a.r64[x]
      <4>1. z # x /\ Live(a, z)
        BY <3>1, <3>3
      <4>2. /\ m \in States /\ Only(a, m, {"last_access", "free_since", "needed", "r64"})
            /\ m.last_access = [a.last_access EXCEPT ![z] = 0]
            /\ m.free_since = [a.free_since EXCEPT ![z] = dst + 1]
            /\ m.r64 = [a.r64 EXCEPT ![x] = None]
            /\ \A i \in X \ {z} : m.needed[i] = a.needed[i]
            /\ Running /\ Told(a, z) => m.needed[z] = a.needed[z]
        BY <1>4, <3>3, <4>1, UnpairedFields
      <4> HIDE DEF m, z
      <4>3. b = m /\ z = y
        BY <3>3 DEF b, m, z
      <4> QED
        BY <4>2, <4>3
    <3>5. Told(t, y) => Told(a, y)
      BY <1>1, <1>6, <1>7, <3>1, <3>3 DEF Told, Live, States
    <3>6. /\ a.last_access \in [X -> Nat] /\ a.free_since \in [X -> Nat] /\ a.r64 \in [X -> X \cup {None}]
          /\ t.last_access \in [X -> Nat]
      BY <1>1, <1>4 DEF States
    <3>7. \A z \in X \ {x, y} : /\ b.last_access[z] = t.last_access[z] /\ b.free_since[z] = t.free_since[z]
                                /\ b.r64[z] = t.r64[z]
      BY <1>6, <1>7, <3>4, <3>6
    <3>8. b.last_access[y] = 0 /\ b.free_since[y] = dst + 1 /\ b.last_access[x] = dst /\ b.r64[x] = None
      BY <1>6, <1>7, <3>1, <3>4, <3>6
    <3>9. \A z \in X \ {x, y} : b.needed[z] = t.needed[z]
      BY <1>2, <1>6, <3>4
    <3>10. \A z \in {x, y} : Running /\ Told(t, z) => b.needed[z] = t.needed[z]
      BY <1>2, <1>6, <3>1, <3>4, <3>5
    <3> QED
      BY <3>1, <3>2, <3>4, <3>7, <3>8, <3>9, <3>10
  <2>2. CASE ~Paired(t, x)
    <3>1. Z = {}
      BY <2>2 DEF Group
    <3>2. ~Paired(a, x)
      BY <1>6, <2>2 DEF Paired
    <3>3. b = a
      BY <3>2 DEF Unpaired
    <3>4. t.last_access \in [X -> Nat] /\ a.r64[x] = None
      BY <1>1, <3>2 DEF States, Paired
    <3> HIDE DEF b
    <3> QED
      BY <1>2, <1>4, <1>6, <1>7, <3>1, <3>3, <3>4 DEF Only
  <2> QED
    BY <2>1, <2>2
<1> HIDE DEF b
<1>9. c \in States /\ Only(b, c, {"x"}) /\ c.x = x
  <2>1. x \in Int
    BY Numbers
  <2> QED
    BY <1>8, <2>1 DEF At, States, Only, Fields
<1> HIDE DEF c
<1>10. /\ u \in States /\ Only(c, u, {"dirty"}) /\ u.dirty = [c.dirty EXCEPT ![x] = TRUE]
  BY <1>3, <1>9 DEF Dirtied, States, Only, Fields
<1>11. Only(t, u, {"last_access", "free_since", "needed", "reg_content", "dirty", "r64", "x"})
  BY <1>5, <1>8, <1>9, <1>10 DEF Only
<1>12. /\ u.last_access = b.last_access /\ u.free_since = b.free_since /\ u.needed = b.needed
       /\ u.r64 = b.r64 /\ u.reg_content = t.reg_content /\ u.x = x /\ c.dirty = t.dirty
  BY <1>5, <1>8, <1>9, <1>10 DEF Only, Fields
<1>13. u.dirty[x] /\ \A y \in X \ {x} : u.dirty[y] = t.dirty[y]
  BY <1>1, <1>10, <1>12 DEF States
<1>14. Drops(t, u, Z, x, r)
  <2>1. \A y \in X \ (Z \cup {x}) :
          /\ u.last_access[y] = t.last_access[y] /\ u.free_since[y] = t.free_since[y]
          /\ u.needed[y] = t.needed[y] /\ u.dirty[y] = t.dirty[y] /\ u.r64[y] = t.r64[y]
    BY <1>8, <1>12, <1>13
  <2>2. \A y \in X \ {x} : u.reg_content[y] = t.reg_content[y]
    BY <1>12
  <2>3. \A y \in Z : u.last_access[y] = 0 /\ u.free_since[y] = dst + 1
    BY <1>8, <1>12
  <2>4. u.last_access[x] = dst /\ u.reg_content[x] = Lo(r) /\ u.dirty[x] /\ u.r64[x] = None
    BY <1>8, <1>12, <1>13
  <2>5. \A y \in Z \cup {x} : Running /\ Told(t, y) => u.needed[y] = t.needed[y]
    BY <1>8, <1>12
  <2> QED
    BY <1>10, <1>11, <2>1, <2>2, <2>3, <2>4, <2>5 DEF Drops
<1> QED
  BY <1>12, <1>14 DEF u

\* allocate_register_w() returns a register for a 32 bit value of r.
Write32(t, u, r) ==
  LET x == u.x
  IN  /\ Good(u, {x}) /\ Made32(u, x, r)
      /\ ReadsOn(t, u) /\ LowsOn(t, u) /\ Grows(t, u, {x})
      /\ u.narrow = t.narrow /\ u.v = t.v

Whole(t, r) == Cached(t, Lo(r)) /\ Paired(t, Holder(t, Lo(r)))

LEMMA W32Good ==
  ASSUME Here, NEW t, Good(t, {}), NEW r \in Regs, NEW n \in Nat, Room(t, n),
         n < Cardinality(X) \/ Cached(t, Lo(r))
  PROVE  LET u == allocate_register_w(t, Lo(r)) IN
         /\ Write32(t, u, r) /\ Room(u, n + 1)
         /\ ~Whole(t, r) => AllOn(t, u) /\ ~(Accessed(t, u.x) /\ Paired(t, u.x))
<1> DEFINE w == Lo(r)
           u == allocate_register_w(t, w)
<1>1. w \in Word /\ w # NoWord /\ LowWord(w) /\ w # Hi(r)
  BY Words DEF LowWord
<1>2. /\ Write32(t, u, r) /\ Grows(t, u, {u.x})
      /\ ~Whole(t, r) => AllOn(t, u) /\ ~(Accessed(t, u.x) /\ Paired(t, u.x))
  <2>1. CASE Cached(t, w)
    <3> DEFINE x == Holder(t, w)
               Z == Group(t, x) \ {x}
               m == Dirtied(Written(t, x), x)
    <3>1. x \in X /\ Live(t, x) /\ t.reg_content[x] = w
      BY <2>1, HolderOf
    <3>2. u = m
      BY <2>1 DEF allocate_register_w
    <3>3. (~Paired(t, x) /\ Z = {}) \/ (Paired(t, x) /\ Z = {t.r64[x]} /\ t.r64[x] # x)
      BY <3>1, PartnerOf DEF Group
    <3>4. /\ Whole(t, r) <=> Paired(t, x)
          /\ \A y \in X : Live(t, y) /\ t.reg_content[y] = w => y = x
      BY <2>1, HolderOf DEF Whole
    <3> HIDE DEF x, u
    <3>5. Drops(t, m, Z, x, r) /\ m.x = x
      <4> HIDE DEF m
      <4> DEFINE q == Dirtied(Written(t, x), x)
      <4>1. Drops(t, q, Z, x, r) /\ q.x = x
        BY <3>1, WrittenDrops
      <4> QED
        BY <4>1 DEF m
    <3>6. /\ Z \subseteq X /\ x \notin Z
          /\ \A y \in Z : Paired(t, x) /\ y = t.r64[x] /\ Live(t, y) /\ t.r64[y] = x /\ t.reg_content[y] = Hi(r)
      BY <3>1, <3>3, PartnerOf
    <3> HIDE DEF m
    <3>7. Owners(t, Z \cup {x}, r)
      <4> SUFFICES ASSUME NEW y \in X, Live(t, y)
                   PROVE  /\ t.reg_content[y] \in {Lo(r), Hi(r)} => y \in Z \cup {x}
                          /\ y \in Z \cup {x} => t.reg_content[y] \in {Lo(r), Hi(r)}
                          /\ Paired(t, y) /\ y \in Z \cup {x} => t.r64[y] \in Z \cup {x}
        BY DEF Owners
      <4>1. y \in Z \cup {x} => t.reg_content[y] \in {Lo(r), Hi(r)}
        BY <3>1, <3>6
      <4>2. Paired(t, y) /\ y \in Z \cup {x} => t.r64[y] \in Z \cup {x}
        BY <3>3, <3>6
      <4>3. t.reg_content[y] = Hi(r) => y \in Z
        <5> SUFFICES ASSUME t.reg_content[y] = Hi(r), y # x
                     PROVE  y \in Z
          BY <1>1, <3>1
        <5>1. Apart(t, {} \ {x}, r)
          BY DEF Apart
        <5>2. Paired(t, x) /\ y = t.r64[x]
          BY <3>1, <5>1, MadeAlone
        <5> QED
          BY <3>3, <5>2
      <4> QED
        BY <3>4, <4>1, <4>2, <4>3
    <3>8. Good(m, {x})
      <4>1. Good(m, {} \cup {x})
        BY <3>1, <3>5, <3>6, <3>7, DropsGood
      <4>2. {} \cup {x} = {x}
        OBVIOUS
      <4> QED
        BY <4>1, <4>2
    <3>9. Readies(t, m)
      BY <3>1, <3>5, <3>6, DropsReads
    <3>10. LowsOn(t, m)
      <4> SUFFICES ASSUME NEW y \in X, Accessed(t, y), LowWord(t.reg_content[y])
                   PROVE  Accessed(m, y)
        BY DEF LowsOn
      <4>1. y \notin Z
        BY <3>6, Words DEF LowWord
      <4> QED
        BY <3>5, <4>1 DEF Drops, Accessed
    <3>11. Grows(t, m, {x})
      BY <3>5, Numbers DEF Drops, Grows, Accessed
    <3>12. ~Whole(t, r) => AllOn(t, m)
      <4> SUFFICES ASSUME ~Whole(t, r), NEW y \in X, Accessed(t, y)
                   PROVE  Accessed(m, y)
        BY DEF AllOn
      <4>1. y \notin Z
        BY <3>4, <3>6
      <4> QED
        BY <3>5, <4>1 DEF Drops, Accessed
    <3>13. Made32(m, x, r) /\ m.narrow = t.narrow /\ m.v = t.v
      BY <3>1, <3>5 DEF Drops, Made32, Accessed, Paired, Only, Fields
    <3>14. Write32(t, m, r)
      BY <3>5, <3>8, <3>9, <3>10, <3>11, <3>13 DEF Write32, Readies, ReadsOn
    <3> QED
      BY <3>2, <3>4, <3>5, <3>11, <3>12, <3>14
  <2>2. CASE ~Cached(t, w)
    <3> DEFINE x == lru_register(t)
               b == Taken(t, x, w, TRUE)
               c == At(b, x)
    <3>1. x \in X /\ ~Accessed(t, x)
      BY <2>2, LruOther
    <3>2. u = c
      BY <2>2 DEF allocate_register_w
    <3>3. \A y \in X : Live(t, y) => t.reg_content[y] # w
      BY <2>2, HolderOf
    <3> HIDE DEF x, u, w
    <3>4. /\ Good(b, {} \cup {x}) /\ Accessed(b, x)
          /\ b.reg_content[x] = w /\ b.dirty[x] = TRUE /\ ~Paired(b, x)
          /\ Stays(t, b, {}) /\ Grows(t, b, {x})
      <4>1. w \in Word \cup {NoWord} /\ TRUE \in BOOLEAN
        BY <1>1
      <4> HIDE DEF b
      <4> DEFINE q == Taken(t, x, w, TRUE)
      <4>2. /\ Good(q, {} \cup {x}) /\ Accessed(q, x) /\ Live(q, x)
            /\ q.reg_content[x] = w /\ q.dirty[x] = TRUE /\ ~Paired(q, x)
            /\ Stays(t, q, {}) /\ Grows(t, q, {x}) /\ Leaves(t, q, {x})
        BY <3>1, <3>3, <4>1, TakenGood
      <4> QED
        BY <4>2 DEF b
    <3> HIDE DEF b
    <3>5. Good(b, {x})
      <4>1. {} \cup {x} = {x}
        OBVIOUS
      <4> QED
        BY <3>4, <4>1
    <3>6. Good(c, {x}) /\ Only(b, c, {"x"}) /\ c.x = x
      BY <3>1, <3>5, AtGood
    <3> HIDE DEF c
    <3>7. Stays(t, c, {})
      <4>1. Only(b, c, {"hold", "loads", "x"}) /\ b.hold = c.hold
        BY <3>6 DEF Only, Fields
      <4> QED
        BY <3>4, <4>1, StaysBut
    <3>8. ReadsOn(t, c) /\ LowsOn(t, c) /\ AllOn(t, c) /\ c.narrow = t.narrow /\ c.v = t.v
      <4>1. ReadsOn(t, c) /\ LowsOn(t, c) /\ AllOn(t, c)
        BY <3>7, StaysOn
      <4> QED
        BY <3>7, <4>1 DEF Stays
    <3>9. /\ c.last_access = b.last_access /\ c.reg_content = b.reg_content /\ c.dirty = b.dirty
          /\ c.r64 = b.r64
      BY <3>6 DEF Only, Fields
    <3>10. Made32(c, x, r) /\ Grows(t, c, {x})
      BY <3>1, <3>4, <3>9 DEF Made32, Accessed, Paired, Grows, w
    <3> QED
      BY <3>1, <3>2, <3>6, <3>8, <3>10 DEF Write32
  <2> QED
    BY <2>1, <2>2
<1> HIDE DEF u
<1>3. Room(u, n + 1)
  BY <1>2, RoomOne
<1> QED
  BY <1>2, <1>3 DEF u

\* allocate_64_register_w() returns two registers for a value of r.
Write64(t, u, r) ==
  LET i == u.x
      j == u.r64[i]
  IN  /\ Good(u, {i, j}) /\ Made64(u, i, j, r)
      /\ ReadsOn(t, u) /\ AllOn(t, u) /\ Grows(t, u, {i, j})
      /\ u.narrow = t.narrow /\ u.v = t.v
      /\ Accessed(t, i) /\ Paired(t, i) => j = t.r64[i]

\* A pair is written.
LEMMA PairWrittenGood ==
  ASSUME Here, NEW t, Good(t, {}), NEW r \in Regs, NEW i \in X, Live(t, i), Paired(t, i),
         t.reg_content[i] = Lo(r)
  PROVE  Write64(t, PairWritten(t, i), r)
<1> DEFINE j == t.r64[i]
           a == Access(t, i)
           b == Access(a, j)
           c == Dirtied(b, i)
           d == Dirtied(c, j)
           u == At(d, i)
<1>1. /\ j \in X /\ j # i /\ Live(t, j) /\ t.r64[j] = i /\ Paired(t, j) /\ t.reg_content[j] = Hi(r)
      /\ t \in States
  <2>1. t \in States
    BY DEF Good, Core
  <2> QED
    BY <2>1, PartnerOf
<1>2. a \in States /\ Only(t, a, {"last_access"}) /\ a.last_access = [t.last_access EXCEPT ![i] = dst]
  BY <1>1, AccessFields
<1>3. a.r64[i] = j /\ a.last_access \in [X -> Nat]
  BY <1>2 DEF Only, Fields, States
<1> HIDE DEF j
<1> HIDE DEF a
<1>4. b \in States /\ Only(a, b, {"last_access"}) /\ b.last_access = [a.last_access EXCEPT ![j] = dst]
  BY <1>1, <1>2, AccessFields
<1> HIDE DEF b
<1>5. /\ c \in States /\ Only(b, c, {"dirty"}) /\ c.dirty = [b.dirty EXCEPT ![i] = TRUE]
  BY <1>4 DEF Dirtied, States, Only, Fields
<1> HIDE DEF c
<1>6. /\ d \in States /\ Only(c, d, {"dirty"}) /\ d.dirty = [c.dirty EXCEPT ![j] = TRUE]
  BY <1>1, <1>5 DEF Dirtied, States, Only, Fields
<1> HIDE DEF d
<1>7. u \in States /\ Only(d, u, {"x"}) /\ u.x = i
  <2>1. i \in Int
    BY Numbers
  <2> QED
    BY <1>6, <2>1 DEF At, States, Only, Fields
<1>8. PairWritten(t, i) = u
  <2>1. b.r64[i] = j
    BY <1>3, <1>4 DEF Only, Fields
  <2>2. PairWritten(t, i) = At(Dirtied(Dirtied(Access(Access(t, i), t.r64[i]), i), t.r64[i]), i)
    BY DEF PairWritten
  <2> QED
    BY <2>2 DEF a, b, c, d, j
<1> HIDE DEF u
<1>9. Only(t, u, {"last_access", "dirty", "x"})
  BY <1>2, <1>4, <1>5, <1>6, <1>7 DEF Only
<1>10. /\ u.reg_content = t.reg_content /\ u.free_since = t.free_since /\ u.r64 = t.r64
       /\ u.needed = t.needed /\ u.hold = t.hold /\ u.loads = t.loads /\ u.mem = t.mem
       /\ u.narrow = t.narrow /\ u.wrong = t.wrong /\ u.v = t.v
  BY <1>9 DEF Only, Fields
<1>11. /\ u.last_access[i] = dst /\ u.last_access[j] = dst
       /\ \A y \in X \ {i, j} : u.last_access[y] = t.last_access[y]
  <2>1. u.last_access = b.last_access
    BY <1>5, <1>6, <1>7 DEF Only, Fields
  <2>2. t.last_access \in [X -> Nat]
    BY <1>1 DEF States
  <2> QED
    BY <1>1, <1>2, <1>3, <1>4, <2>1, <2>2
<1>12. u.dirty[i] /\ u.dirty[j] /\ \A y \in X \ {i, j} : u.dirty[y] = t.dirty[y]
  <2>1. u.dirty = d.dirty /\ b.dirty = t.dirty
    BY <1>2, <1>4, <1>7 DEF Only, Fields
  <2>2. t.dirty \in [X -> BOOLEAN] /\ c.dirty \in [X -> BOOLEAN]
    BY <1>1, <1>5 DEF States
  <2> QED
    <3>1. u.dirty[j] = TRUE /\ u.dirty[i] = c.dirty[i] /\ \A y \in X \ {i, j} : u.dirty[y] = c.dirty[y]
      BY <1>1, <1>6, <2>1, <2>2
    <3>2. c.dirty[i] = TRUE /\ \A y \in X \ {i, j} : c.dirty[y] = t.dirty[y]
      BY <1>1, <1>5, <2>1, <2>2
    <3> QED
      BY <3>1, <3>2
<1>13. dst \in Nat /\ dst # 0 /\ (Running => entry <= dst) /\ entry \in Nat
  BY Numbers
<1>14. \A y \in X : /\ Live(u, y) <=> Live(t, y)
                    /\ Paired(u, y) <=> Paired(t, y)
                    /\ Running /\ Told(t, y) => Told(u, y)
                    /\ t.dirty[y] => u.dirty[y]
  BY <1>1, <1>10, <1>11, <1>12, <1>13 DEF Live, Paired, Told
<1>15. \A y \in X : y \notin {i, j} /\ Live(t, y) /\ Paired(t, y) => t.r64[y] \notin {i, j}
  <2> SUFFICES ASSUME NEW y \in X, y \notin {i, j}, Live(t, y), Paired(t, y)
               PROVE  t.r64[y] \notin {i, j}
    OBVIOUS
  <2>1. t.r64[t.r64[y]] = y
    BY PartnerOf
  <2> QED
    BY <1>1, <2>1 DEF j
<1>16. PairsOK(u)
  <2> SUFFICES ASSUME NEW y \in X, Live(u, y), Paired(u, y)
               PROVE  Pairs(session) /\ PairOK(u, y)
    BY DEF PairsOK
  <2>1. Pairs(session) /\ PairOK(t, y)
    BY <1>14 DEF Good, Core, PairsOK
  <2>2. CASE y \in {i, j}
    <3>1. t.r64[y] \in {i, j}
      BY <1>1, <2>2 DEF j
    <3>2. u.last_access[t.r64[y]] = u.last_access[y]
      BY <1>11, <2>2, <3>1
    <3>3. u.dirty[t.r64[y]] = u.dirty[y]
      <4>1. u.dirty \in [X -> BOOLEAN]
        BY <1>7 DEF States
      <4> QED
        BY <1>1, <1>12, <2>2, <3>1, <4>1
    <3> QED
      BY <1>10, <1>14, <2>1, <3>2, <3>3 DEF PairOK
  <2>3. CASE y \notin {i, j}
    <3>1. t.r64[y] \notin {i, j} /\ t.r64[y] \in X
      BY <1>14, <1>15, <2>1, <2>3 DEF PairOK
    <3> QED
      BY <1>10, <1>11, <1>12, <1>14, <2>1, <2>3, <3>1 DEF PairOK
  <2> QED
    BY <2>2, <2>3
<1>17. MemOK(u)
  <2>1. \A y \in X, w \in Word : Backs(t, y, w) => Backs(u, y, w)
    BY <1>10, <1>14 DEF Backs
  <2> QED
    BY <1>10, <2>1 DEF Good, Core, MemOK
<1>18. Core(u, dst, Running)
  <2>1. \A y \in X : u.last_access[y] <= dst
    BY <1>11, <1>13 DEF Good, Core
  <2>2. Distinct(u)
    BY <1>10, <1>14 DEF Good, Core, Distinct
  <2>3. Running => LoadsOK(u)
    BY <1>10, <1>14 DEF Good, Core, LoadsOK
  <2> QED
    BY <1>7, <1>10, <1>16, <1>17, <2>1, <2>2, <2>3 DEF Good, Core
<1>19. Good(u, {i, j})
  <2>1. \A y \in X \ {i, j} : Fit(u, y, Running)
    BY <1>10, <1>11, <1>12, <1>14 DEF Good, Fit, Told, Live
  <2> QED
    BY <1>1, <1>11, <1>18, <2>1 DEF Good
<1>20. Made64(u, i, j, r)
  BY <1>1, <1>10, <1>11, <1>12 DEF Made64, Accessed, j
<1>21. ReadsOn(t, u) /\ AllOn(t, u) /\ Grows(t, u, {i, j})
  <2>1. AllOn(t, u) /\ Grows(t, u, {i, j})
    BY <1>11 DEF AllOn, Grows, Accessed
  <2>2. ReadsOn(t, u)
    BY <1>10, <1>14 DEF ReadsOn, Ready
  <2> QED
    BY <2>1, <2>2
<1>22. Write64(t, u, r)
  BY <1>7, <1>10, <1>19, <1>20, <1>21 DEF Write64, j
<1> QED
  BY <1>8, <1>22

\* The register of the upper word is one that is free.
Seconds(t, u, i, r) ==
  LET j == u.r64[i]
  IN  /\ Good(u, {i, j}) /\ Made64(u, i, j, r) /\ u.x = i
      /\ ReadsOn(t, u) /\ AllOn(t, u) /\ Grows(t, u, {j})
      /\ u.narrow = t.narrow /\ u.v = t.v

LEMMA SecondGood ==
  ASSUME Here, NEW t, NEW i, NEW r \in Regs, Good(t, {i}), Made32(t, i, r), t.x = i,
         NEW n \in Nat, Room(t, n), n < Cardinality(X), Pairs(session), NEW widen
  PROVE  Seconds(t, Second(t, r, widen), i, r)
<1> DEFINE j == lru_register(t)
           b == IF widen /\ ~Live(t, j) THEN t ELSE free_register(t, j)
           a == Run([b EXCEPT !.x = j, !.last_access[j] = dst, !.reg_content[j] = Hi(r),
                              !.dirty[j] = TRUE], j, Junk)
           c == [a EXCEPT !.r64[j] = None]
           q == Pair(c, i, j)
           u == At(q, i)
<1>1. j \in X /\ ~Accessed(t, j)
  BY LruOther
<1>2. Lo(r) \in Word /\ Hi(r) \in Word /\ i \in X /\ i # j /\ dst \in Nat /\ j \in Int
  BY <1>1, Words, Numbers DEF Made32
<1>3. Second(t, r, widen) = Joined(a, i)
  BY DEF Second
<1> HIDE DEF j
<1>4. /\ Good(b, {i}) /\ ~Live(b, j) /\ Stays(t, b, {i}) /\ Grows(t, b, {}) /\ b.x = t.x
  <2>1. CASE widen /\ ~Live(t, j)
    BY <2>1 DEF Stays, Grows
  <2>2. CASE ~(widen /\ ~Live(t, j))
    <3> DEFINE m == free_register(t, j)
               P == {i}
    <3>1. b = m
      BY <2>2
    <3> HIDE DEF b, P
    <3>2. Good(t, P)
      BY DEF P
    <3>3. /\ Good(m, P) /\ ~Live(m, j) /\ Stays(t, m, P) /\ Grows(t, m, {}) /\ m.x = t.x
      BY <1>1, <3>2, FreeOther
    <3> HIDE DEF m
    <3> QED
      BY <3>1, <3>3 DEF P
  <2> QED
    BY <2>1, <2>2
<1> HIDE DEF b
<1>5. b \in States
  BY <1>4 DEF Good, Core
<1>6. /\ a \in States /\ Only(b, a, {"x", "last_access", "reg_content", "dirty", "hold"})
      /\ a.last_access = [b.last_access EXCEPT ![j] = dst]
      /\ a.reg_content = [b.reg_content EXCEPT ![j] = Hi(r)]
      /\ a.dirty = [b.dirty EXCEPT ![j] = TRUE]
      /\ a.hold = [b.hold EXCEPT ![j] = Junk]
  <2>1. a = [b EXCEPT !.x = j, !.last_access[j] = dst, !.reg_content[j] = Hi(r),
                      !.dirty[j] = TRUE, !.hold[j] = Junk]
    BY <1>5 DEF Run, States
  <2>2. Junk \in Held
    BY DEF Held
  <2> HIDE DEF a
  <2> QED
    BY <1>1, <1>2, <1>5, <2>1, <2>2 DEF States, Only, Fields
<1> HIDE DEF a
<1>7. /\ c \in States /\ Only(a, c, {"r64"}) /\ c.r64 = [a.r64 EXCEPT ![j] = None]
  BY <1>6 DEF States, Only, Fields
<1>8. Joined(a, i) = u
  <2>1. a.x = j
    <3>1. a = [b EXCEPT !.x = j, !.last_access[j] = dst, !.reg_content[j] = Hi(r),
                        !.dirty[j] = TRUE, !.hold[j] = Junk]
      BY <1>5 DEF Run, States, a
    <3> QED
      BY <1>5, <3>1 DEF States
  <2>2. Pair(a, i, j) = Pair(c, i, j)
    <3>1. [a EXCEPT !.r64[i] = j, !.r64[j] = i] = [c EXCEPT !.r64[i] = j, !.r64[j] = i]
      <4> DEFINE f == a.r64
                 g == [f EXCEPT ![j] = None]
      <4>1. a.r64 \in [X -> X \cup {None}] /\ a = [a EXCEPT !.r64 = a.r64]
        BY <1>6 DEF States
      <4> HIDE DEF f
      <4>2. [[f EXCEPT ![i] = j] EXCEPT ![j] = i] = [[g EXCEPT ![i] = j] EXCEPT ![j] = i]
        BY <1>1, <1>2, <4>1 DEF f
      <4> DEFINE k == [[f EXCEPT ![i] = j] EXCEPT ![j] = i]
      <4>3. [a EXCEPT !.r64[i] = j, !.r64[j] = i] = [a EXCEPT !.r64 = k]
        BY <1>6 DEF f, States
      <4>4. [c EXCEPT !.r64[i] = j, !.r64[j] = i] = [a EXCEPT !.r64 = [[g EXCEPT ![i] = j] EXCEPT ![j] = i]]
        BY <1>6 DEF f, States
      <4> QED
        BY <4>2, <4>3, <4>4
    <3> QED
      BY <3>1 DEF Pair
  <2> QED
    BY <2>1, <2>2 DEF Joined
<1> HIDE DEF c
<1>9. /\ c.last_access = a.last_access /\ c.reg_content = a.reg_content /\ c.dirty = a.dirty
      /\ c.hold = a.hold /\ a.r64 = b.r64 /\ c.x = a.x
  BY <1>6, <1>7 DEF Only, Fields
<1>10. /\ \A y \in X \ {j} :
            /\ c.last_access[y] = b.last_access[y] /\ c.reg_content[y] = b.reg_content[y]
            /\ c.dirty[y] = b.dirty[y] /\ c.r64[y] = b.r64[y] /\ c.hold[y] = b.hold[y]
       /\ c.last_access[j] = dst /\ c.reg_content[j] = Hi(r) /\ c.r64[j] = None /\ c.dirty[j] = TRUE
  BY <1>1, <1>5, <1>6, <1>7, <1>9 DEF States
<1> DEFINE d == [c EXCEPT !.x = b.x]
<1>11. d \in States /\ Only(c, d, {"x"}) /\ d.x = b.x
  BY <1>5, <1>7 DEF States, Only, Fields
<1> HIDE DEF d
<1>12. Places(b, d, j, Hi(r))
  <2>1. Only(b, d, {"last_access", "reg_content", "dirty", "r64", "hold"})
    BY <1>6, <1>7, <1>11 DEF Only, Fields
  <2>2. /\ d.last_access = c.last_access /\ d.reg_content = c.reg_content /\ d.dirty = c.dirty
        /\ d.r64 = c.r64 /\ d.hold = c.hold
    BY <1>11 DEF Only, Fields
  <2> QED
    BY <1>10, <1>11, <2>1, <2>2 DEF Places
<1>13. /\ Accessed(b, i) /\ b.reg_content[i] = Lo(r) /\ b.dirty[i] /\ ~Paired(b, i) /\ Live(b, i)
  <2>1. Accessed(t, i) /\ t.reg_content[i] = Lo(r) /\ t.dirty[i] /\ ~Paired(t, i)
    BY DEF Made32
  <2> QED
    BY <1>2, <1>4, <2>1, Numbers DEF Stays, Paired, Accessed, Live
<1>14. \A y \in X \ {j} : Live(b, y) => b.reg_content[y] # Hi(r)
  <2> SUFFICES ASSUME NEW y \in X, Live(b, y), b.reg_content[y] = Hi(r)
               PROVE  FALSE
    OBVIOUS
  <2>1. y # i
    BY <1>13, Words
  <2>2. Apart(b, {i} \ {i}, r)
    BY DEF Apart
  <2>3. Paired(b, i)
    BY <1>2, <1>4, <1>13, <2>1, <2>2, MadeAlone
  <2> QED
    BY <1>13, <2>3
<1>15. Good(d, {i} \cup {j})
  BY <1>1, <1>4, <1>12, <1>14, PlacesGood
<1>16. Good(c, {i, j})
  <2>1. Only(d, c, {"x", "v"})
    BY <1>11 DEF Only
  <2>2. Good(c, {i} \cup {j})
    BY <1>7, <1>15, <2>1, GoodSame
  <2>3. {i} \cup {j} = {i, j}
    OBVIOUS
  <2> QED
    BY <2>2, <2>3
<1>17. /\ Accessed(c, i) /\ Accessed(c, j) /\ ~Paired(c, i) /\ ~Paired(c, j)
       /\ c.dirty[i] /\ c.dirty[j] /\ c.reg_content[i] = Lo(r) /\ c.reg_content[j] = Hi(r)
  BY <1>2, <1>10, <1>13 DEF Accessed, Paired
<1>18. c.dirty[i] = c.dirty[j]
  BY <1>1, <1>2, <1>7, <1>17 DEF States
<1> DEFINE PP == {i, j}
<1> HIDE DEF q, PP
<1>19. /\ Good(q, PP) /\ Only(c, q, {"r64"}) /\ q.r64[i] = j /\ q.r64[j] = i
  <2>1. /\ Good(c, PP) /\ j \in X /\ i \in X /\ i # j /\ c.dirty[i] = c.dirty[j]
        /\ c.reg_content[i] = Lo(r) /\ c.reg_content[j] = Hi(r)
        /\ Accessed(c, i) /\ Accessed(c, j) /\ ~Paired(c, i) /\ ~Paired(c, j)
    BY <1>1, <1>2, <1>16, <1>17, <1>18 DEF PP
  <2> DEFINE m == Pair(c, i, j)
  <2>2. /\ Good(m, PP) /\ Only(c, m, {"r64"})
        /\ m.r64 = [c.r64 EXCEPT ![i] = j, ![j] = i]
        /\ m.r64[i] = j /\ m.r64[j] = i
    BY <2>1, PairGood
  <2> HIDE DEF m
  <2> QED
    BY <2>2 DEF m, q
<1>20. Good(u, PP) /\ Only(q, u, {"x"}) /\ u.x = i
  BY <1>2, <1>19, AtGood
<1> HIDE DEF u
<1>21. /\ u.last_access = c.last_access /\ u.reg_content = c.reg_content /\ u.dirty = c.dirty
       /\ u.hold = c.hold /\ u.needed = b.needed /\ u.free_since = b.free_since
       /\ u.narrow = b.narrow /\ u.v = b.v /\ u.r64 = q.r64
  BY <1>6, <1>7, <1>19, <1>20 DEF Only, Fields
<1>22. Made64(u, i, j, r) /\ u.r64[i] = j
  BY <1>1, <1>2, <1>17, <1>19, <1>21 DEF Made64, Accessed
<1>23. ReadsOn(b, u) /\ AllOn(b, u)
  <2>1. ~Accessed(b, j)
    BY <1>1, <1>4 DEF Grows
  <2>2. \A y \in X : Accessed(b, y) => y # j
    BY <2>1
  <2>3. AllOn(b, u)
    BY <1>10, <1>21, <2>2 DEF AllOn, Accessed
  <2>4. ReadsOn(b, u)
    BY <1>10, <1>21, <2>2 DEF ReadsOn, Accessed, Ready, Told, Live
  <2> QED
    BY <2>3, <2>4
<1>24. ReadsOn(t, u) /\ AllOn(t, u)
  <2>1. ReadsOn(t, b) /\ AllOn(t, b)
    BY <1>4, StaysOn
  <2> QED
    BY <1>23, <2>1, OnOn
<1>25. Grows(t, u, {j})
  BY <1>4, <1>10, <1>21 DEF Grows, Accessed
<1>26. u.narrow = t.narrow /\ u.v = t.v
  BY <1>4, <1>21 DEF Stays
<1>27. Second(t, r, widen) = u
  BY <1>3, <1>8
<1> QED
  BY <1>20, <1>22, <1>24, <1>25, <1>26, <1>27 DEF PP, Seconds

LEMMA W64Good ==
  ASSUME Here, NEW t, Good(t, {}), NEW r \in Regs, NEW n \in Nat, Room(t, n),
         n + 2 <= Cardinality(X), Pairs(session)
  PROVE  LET u == allocate_64_register_w(t, r) IN
         /\ Write64(t, u, r) /\ Room(u, n + 2)
<1> DEFINE u == allocate_64_register_w(t, r)
<1>1. n < Cardinality(X) /\ n + 1 < Cardinality(X)
  <2>1. Cardinality(X) \in Nat
    BY Numbers, FS_CardinalityType
  <2> QED
    BY <2>1
<1>2. Write64(t, u, r)
  <2>1. CASE Whole(t, r)
    <3> DEFINE i == Holder(t, Lo(r))
               q == PairWritten(t, i)
    <3>1. i \in X /\ Live(t, i) /\ Paired(t, i) /\ t.reg_content[i] = Lo(r)
      BY <2>1, HolderOf DEF Whole
    <3>2. u = q
      BY <2>1 DEF Whole, allocate_64_register_w
    <3> HIDE DEF i, u
    <3>3. Write64(t, q, r)
      BY <3>1, PairWrittenGood
    <3> QED
      BY <3>2, <3>3
  <2>2. CASE ~Whole(t, r)
    <3> DEFINE a == allocate_register_w(t, Lo(r))
               widen == Cached(t, Lo(r))
               q == Second(a, r, widen)
               i == a.x
               j == q.r64[i]
    <3>1. Write32(t, a, r) /\ Room(a, n + 1) /\ AllOn(t, a) /\ ~(Accessed(t, a.x) /\ Paired(t, a.x))
      BY <1>1, <2>2, W32Good
    <3>2. u = q
      BY <2>2 DEF Whole, allocate_64_register_w
    <3> HIDE DEF u, a, widen
    <3>3. /\ Good(a, {i}) /\ Made32(a, i, r) /\ ReadsOn(t, a) /\ Grows(t, a, {i})
          /\ a.narrow = t.narrow /\ a.v = t.v
      BY <3>1 DEF Write32
    <3>4. a.x = i
      OBVIOUS
    <3> HIDE DEF i
    <3> DEFINE nn == n + 1
    <3>5. nn \in Nat /\ Room(a, nn) /\ nn < Cardinality(X)
      BY <1>1, <3>1
    <3> HIDE DEF nn
    <3>6. /\ Good(q, {i, j}) /\ Made64(q, i, j, r) /\ q.x = i
          /\ ReadsOn(a, q) /\ AllOn(a, q) /\ Grows(a, q, {j})
          /\ q.narrow = a.narrow /\ q.v = a.v
      <4>1. Seconds(a, q, i, r)
        BY <3>3, <3>4, <3>5, SecondGood
      <4> QED
        BY <4>1 DEF Seconds
    <3> HIDE DEF q
    <3>7. ReadsOn(t, q) /\ AllOn(t, q)
      BY <3>1, <3>3, <3>6, OnOn
    <3>8. Grows(t, q, {i, j})
      BY <3>3, <3>6 DEF Grows
    <3>9. ~(Accessed(t, i) /\ Paired(t, i))
      BY <3>1, <3>4
    <3> QED
      BY <3>2, <3>3, <3>6, <3>7, <3>8, <3>9 DEF Write64
  <2> QED
    BY <2>1, <2>2
<1> HIDE DEF u
<1>3. Room(u, n + 2)
  <2>1. Grows(t, u, {u.x, u.r64[u.x]})
    BY <1>2 DEF Write64
  <2> QED
    BY <2>1, RoomTwo
<1> QED
  BY <1>2, <1>3 DEF u

-----------------------------------------------------------------------------
(* Registers that are asked for by name, and those for a scratch value.    *)

\* What an idle register holds does not matter.
LEMMA IdleRun ==
  ASSUME Here, NEW t, NEW P, Good(t, P), NEW x \in X \ P, ~Live(t, x)
  PROVE  LET u == Run(t, x, Junk) IN
         Good(u, P) /\ Only(t, u, {"hold"}) /\ \A y \in X \ {x} : u.hold[y] = t.hold[y]
<1> DEFINE u == Run(t, x, Junk)
<1>1. t \in States
  BY DEF Good, Core
<1>2. u \in States /\ Only(t, u, {"hold"}) /\ u.hold = [t.hold EXCEPT ![x] = Junk]
  BY <1>1 DEF Run, States, Held, Only, Fields
<1> HIDE DEF u
<1>3. \A y \in X \ {x} : u.hold[y] = t.hold[y]
  BY <1>1, <1>2 DEF States
<1>4. /\ u.last_access = t.last_access /\ u.reg_content = t.reg_content /\ u.free_since = t.free_since
      /\ u.dirty = t.dirty /\ u.r64 = t.r64 /\ u.needed = t.needed /\ u.loads = t.loads /\ u.wrong = t.wrong
      /\ u.mem = t.mem /\ u.narrow = t.narrow
  BY <1>2 DEF Only, Fields
<1>5. Core(u, dst, Running)
  BY <1>2, <1>4 DEF Good, Core, PairsOK, PairOK, Paired, Live, Distinct, LoadsOK, Told, MemOK, Backs
<1>6. \A y \in X \ P : Fit(u, y, Running)
  BY <1>3, <1>4 DEF Good, Fit, Live, Paired, Told
<1> QED
  BY <1>2, <1>3, <1>4, <1>5, <1>6 DEF Good, u

\* A register for a scratch value.
LEMMA ScratchGood ==
  ASSUME Here, NEW t, NEW P, Good(t, P), NEW n \in Nat, Room(t, n), n < Cardinality(X)
  PROVE  LET u == Scratch(t, lru_register(t)) IN
         Good(u, P) /\ Stays(t, u, P)
<1> DEFINE x == lru_register(t)
           m == free_register(t, x)
           u == Run(m, x, Junk)
<1>1. x \in X /\ ~Accessed(t, x)
  BY LruOther
<1> HIDE DEF x
<1>2. Good(m, P) /\ ~Live(m, x) /\ Stays(t, m, P)
  BY <1>1, FreeOther
<1> HIDE DEF m
<1>3. x \notin P
  BY <1>1 DEF Good, Accessed
<1>4. Good(u, P) /\ Only(m, u, {"hold"}) /\ \A y \in X \ {x} : u.hold[y] = m.hold[y]
  BY <1>1, <1>2, <1>3, IdleRun
<1> HIDE DEF u
<1>5. Stays(t, u, P)
  <2>1. Only(m, u, {"hold", "loads", "x"})
    BY <1>4 DEF Only
  <2>2. \A y \in X : Accessed(t, y) => u.hold[y] = m.hold[y]
    BY <1>1, <1>4
  <2> QED
    BY <1>2, <2>1, <2>2, StaysBut
<1> QED
  BY <1>4, <1>5 DEF u, m, x, Scratch

\* A low word that is not cached is loaded.
LEMMA MissLow ==
  ASSUME Here, NEW t, NEW P, Good(t, P), NEW r \in Regs, NEW x \in X, ~Accessed(t, x),
         ~Cached(t, Lo(r)), Testing(session) => r \in t.narrow
  PROVE  LET u == Missed(t, x, Lo(r)) IN
         /\ Good(u, P) /\ Ready(u, x, Lo(r)) /\ Accessed(u, x) /\ u.x = x
         /\ Stays(t, u, P) /\ Grows(t, u, {x})
<1> DEFINE w == Lo(r)
           u == Missed(t, x, w)
<1>1. w \in Word /\ w # NoWord /\ w[1] = r /\ LowWord(w)
  BY Words DEF LowWord
<1>2. \A y \in X : Live(t, y) => t.reg_content[y] # w
  BY HolderOf
<1>3. t.mem[w]
  <2>1. \A y \in X : ~Backs(t, y, w)
    BY <1>1, <1>2 DEF Backs
  <2> QED
    BY <1>1, <2>1 DEF Good, Core, MemOK
<1> HIDE DEF w
<1>4. /\ Good(u, P \cup {x}) /\ Accessed(u, x) /\ Live(u, x) /\ u.x = x
      /\ u.reg_content[x] = w /\ ~u.dirty[x] /\ ~Paired(u, x)
      /\ w \in Word /\ t.mem[w] => u.hold[x] = w
      /\ Stays(t, u, P) /\ Grows(t, u, {x}) /\ Leaves(t, u, {x})
  <2>1. w \in Word \cup {NoWord}
    BY <1>1
  <2> QED
    BY <1>2, <2>1, MissGood
<1> HIDE DEF u
<1>5. Fit(u, x, Running)
  BY <1>1, <1>3, <1>4, Words DEF Fit, Stays
<1>6. x \notin P
  BY DEF Good, Accessed
<1>7. Good(u, P)
  <2>1. P \subseteq P \cup {x} /\ \A z \in (P \cup {x}) \ P : Fit(u, z, Running)
    BY <1>5, <1>6
  <2> QED
    BY <1>4, <2>1, Settle
<1> QED
  BY <1>1, <1>3, <1>4, <1>7 DEF Ready, u, w

\* From t to u the register x takes over what i has.
Moves(t, u, x, i, w) ==
  /\ u \in States /\ Only(t, u, {"last_access", "free_since", "reg_content", "dirty", "r64", "hold"})
  /\ \A y \in X \ {x, i} :
       /\ u.last_access[y] = t.last_access[y] /\ u.free_since[y] = t.free_since[y]
       /\ u.reg_content[y] = t.reg_content[y] /\ u.dirty[y] = t.dirty[y] /\ u.hold[y] = t.hold[y]
       /\ u.r64[y] = IF y = t.r64[i] THEN x ELSE t.r64[y]
  /\ u.last_access[x] = dst /\ u.reg_content[x] = w /\ u.dirty[x] = t.dirty[i]
  /\ u.hold[x] = t.hold[i] /\ u.r64[x] = t.r64[i]
  /\ u.last_access[i] = 0 /\ u.free_since[i] = dst + 1

LEMMA InheritsMoves ==
  ASSUME Here, NEW t \in States, NEW x \in X, NEW i \in X, x # i, NEW w \in Word
  PROVE  Moves(t, Inherits(t, x, i, w), x, i, w)
<1> DEFINE f == [y \in X |-> IF y = x THEN t.r64[i] ELSE IF y = t.r64[i] THEN x ELSE t.r64[y]]
           a == [t EXCEPT !.hold[x] = t.hold[i], !.last_access[x] = dst,
                          !.dirty[x] = t.dirty[i], !.reg_content[x] = w, !.r64 = f]
           u == Release(a, i)
<1>1. Inherits(t, x, i, w) = u
  BY DEF Inherits, States
<1>2. f \in [X -> X \cup {None}]
  BY DEF States
<1>3. f[x] = t.r64[i] /\ \A y \in X \ {x, i} : f[y] = IF y = t.r64[i] THEN x ELSE t.r64[y]
  OBVIOUS
<1> HIDE DEF f
<1>4. /\ a \in States /\ Only(t, a, {"last_access", "reg_content", "dirty", "r64", "hold"})
      /\ a.last_access = [t.last_access EXCEPT ![x] = dst]
      /\ a.reg_content = [t.reg_content EXCEPT ![x] = w]
      /\ a.dirty = [t.dirty EXCEPT ![x] = t.dirty[i]]
      /\ a.hold = [t.hold EXCEPT ![x] = t.hold[i]]
      /\ a.r64 = f
  BY <1>2, Numbers DEF States, Only, Fields
<1> HIDE DEF a
<1>5. /\ u \in States /\ Only(a, u, {"last_access", "free_since"})
      /\ u.last_access = [a.last_access EXCEPT ![i] = 0]
      /\ u.free_since = [a.free_since EXCEPT ![i] = dst + 1]
  BY <1>4, ReleaseFields
<1> HIDE DEF u
<1>6. /\ u.reg_content = a.reg_content /\ u.dirty = a.dirty /\ u.hold = a.hold /\ u.r64 = a.r64
      /\ a.free_since = t.free_since
  BY <1>4, <1>5 DEF Only, Fields
<1>7. Only(t, u, {"last_access", "free_since", "reg_content", "dirty", "r64", "hold"})
  BY <1>4, <1>5 DEF Only
<1>8. /\ \A y \in X \ {x, i} : u.last_access[y] = t.last_access[y] /\ u.free_since[y] = t.free_since[y]
      /\ u.last_access[x] = dst /\ u.last_access[i] = 0 /\ u.free_since[i] = dst + 1
  <2>1. /\ t.last_access \in [X -> Nat] /\ a.last_access \in [X -> Nat] /\ t.free_since \in [X -> Nat]
    BY <1>4 DEF States
  <2> QED
    BY <1>4, <1>5, <1>6, <2>1
<1>9. /\ \A y \in X \ {x, i} :
           u.reg_content[y] = t.reg_content[y] /\ u.dirty[y] = t.dirty[y] /\ u.hold[y] = t.hold[y]
      /\ u.reg_content[x] = w /\ u.dirty[x] = t.dirty[i] /\ u.hold[x] = t.hold[i]
  BY <1>4, <1>6 DEF States
<1>10. /\ \A y \in X \ {x, i} : u.r64[y] = IF y = t.r64[i] THEN x ELSE t.r64[y]
       /\ u.r64[x] = t.r64[i]
  BY <1>3, <1>4, <1>6
<1>11. Moves(t, u, x, i, w)
  BY <1>5, <1>7, <1>8, <1>9, <1>10 DEF Moves
<1> QED
  BY <1>1, <1>11

\* It is as good there.
LEMMA MovesGood ==
  ASSUME Here, NEW t, NEW u, Good(t, {}), NEW x \in X, NEW i \in X, x # i, NEW w \in Word,
         Moves(t, u, x, i, w), ~Live(t, x), Accessed(t, i), t.reg_content[i] = w, t.hold[i] = w
  PROVE  Good(u, {}) /\ Accessed(u, x) /\ Ready(u, x, w)
<1>1. /\ u.needed = t.needed /\ u.loads = t.loads /\ u.mem = t.mem
      /\ u.narrow = t.narrow /\ u.wrong = t.wrong
  BY DEF Moves, Only, Fields
<1>2. /\ u \in States /\ t \in States
      /\ \A y \in X \ {x, i} :
           /\ u.last_access[y] = t.last_access[y] /\ u.free_since[y] = t.free_since[y]
           /\ u.reg_content[y] = t.reg_content[y] /\ u.dirty[y] = t.dirty[y] /\ u.hold[y] = t.hold[y]
           /\ u.r64[y] = IF y = t.r64[i] THEN x ELSE t.r64[y]
      /\ u.last_access[x] = dst /\ u.reg_content[x] = w /\ u.dirty[x] = t.dirty[i]
      /\ u.hold[x] = t.hold[i] /\ u.r64[x] = t.r64[i]
      /\ u.last_access[i] = 0 /\ u.free_since[i] = dst + 1
  BY DEF Moves, Good, Core
<1>3. /\ dst \in Nat /\ dst # 0 /\ (Running => entry <= dst) /\ entry \in Nat /\ None \notin X
  BY Numbers
<1>4. Live(t, i) /\ Live(u, x) /\ ~Live(u, i) /\ (Paired(u, x) <=> Paired(t, i))
  BY <1>2, <1>3 DEF Live, Accessed, Paired
<1>5. \A y \in X \ {x, i} : /\ Live(u, y) <=> Live(t, y)
                            /\ Told(u, y) <=> Told(t, y)
  BY <1>2 DEF Live, Told
<1>6. \A y \in X : Live(t, y) /\ Paired(t, y) => Pairs(session) /\ PairOK(t, y)
  BY DEF Good, Core, PairsOK
<1>7. \A y \in X \ {x, i} : Live(t, y) => (Paired(u, y) <=> Paired(t, y))
  <2> SUFFICES ASSUME NEW y \in X \ {x, i}, Live(t, y)
               PROVE  Paired(u, y) <=> Paired(t, y)
    OBVIOUS
  <2>1. CASE y = t.r64[i]
    <3>1. PairOK(t, i)
      BY <1>3, <1>4, <1>6, <2>1 DEF Paired
    <3>2. t.r64[y] = i
      BY <2>1, <3>1 DEF PairOK
    <3> QED
      BY <1>2, <1>3, <2>1, <3>2 DEF Paired
  <2>2. CASE y # t.r64[i]
    BY <1>2, <2>2 DEF Paired
  <2> QED
    BY <2>1, <2>2
<1>8. PairsOK(u)
  <2> SUFFICES ASSUME NEW y \in X, Live(u, y), Paired(u, y)
               PROVE  Pairs(session) /\ PairOK(u, y)
    BY DEF PairsOK
  <2>1. CASE y = x
    <3>1. Pairs(session) /\ PairOK(t, i)
      BY <1>4, <1>6, <2>1
    <3> DEFINE j == t.r64[i]
    <3>2. /\ j \in X /\ j # i /\ Live(t, j) /\ t.r64[j] = i /\ t.last_access[j] = t.last_access[i]
          /\ t.dirty[j] = t.dirty[i] /\ Partners(w, t.reg_content[j])
      BY <3>1 DEF PairOK
    <3>3. j # x
      BY <3>2
    <3>4. /\ u.r64[x] = j /\ u.r64[j] = x /\ u.last_access[j] = dst /\ u.dirty[j] = t.dirty[j]
          /\ u.reg_content[j] = t.reg_content[j] /\ Live(u, j)
      BY <1>2, <1>5, <3>2, <3>3 DEF Accessed
    <3> QED
      BY <1>2, <2>1, <3>1, <3>2, <3>3, <3>4 DEF PairOK
  <2>2. CASE y # x
    <3>1. y # i /\ Live(t, y) /\ Paired(t, y)
      BY <1>4, <1>5, <1>7, <2>2
    <3>2. Pairs(session) /\ PairOK(t, y)
      BY <1>6, <3>1
    <3> DEFINE j == t.r64[y]
    <3>3. /\ j \in X /\ j # y /\ Live(t, j) /\ t.r64[j] = y /\ t.last_access[j] = t.last_access[y]
          /\ t.dirty[j] = t.dirty[y] /\ Partners(t.reg_content[y], t.reg_content[j])
      BY <3>2 DEF PairOK
    <3>4. CASE y = t.r64[i]
      <4>1. PairOK(t, i)
        BY <1>3, <1>4, <1>6, <3>4 DEF Paired
      <4>2. j = i
        BY <3>4, <4>1 DEF PairOK
      <4>3. u.r64[y] = x /\ u.r64[x] = y
        BY <1>2, <2>2, <3>1, <3>4
      <4>4. u.last_access[y] = dst /\ u.dirty[y] = u.dirty[x] /\ u.reg_content[y] = t.reg_content[y]
        BY <1>2, <2>2, <3>1, <3>3, <4>2 DEF Accessed
      <4>5. Partners(u.reg_content[y], u.reg_content[x])
        BY <1>2, <3>3, <4>2, <4>4
      <4> QED
        BY <1>2, <1>4, <2>2, <3>2, <4>3, <4>4, <4>5 DEF PairOK
    <3>5. CASE y # t.r64[i]
      <4>1. j # i /\ j # x
        BY <3>3, <3>5
      <4>2. u.r64[y] = j
        BY <1>2, <2>2, <3>1, <3>5
      <4>3. j # t.r64[i]
        <5> SUFFICES ASSUME j = t.r64[i]
                     PROVE  FALSE
          OBVIOUS
        <5>1. PairOK(t, i)
          BY <1>3, <1>4, <1>6, <3>3 DEF Paired
        <5> QED
          BY <3>1, <3>3, <5>1 DEF PairOK
      <4>4. u.r64[j] = y
        BY <1>2, <3>3, <4>1, <4>3
      <4>5. Live(u, j) /\ u.last_access[j] = u.last_access[y] /\ u.dirty[j] = u.dirty[y]
            /\ Partners(u.reg_content[y], u.reg_content[j])
        BY <1>2, <1>5, <2>2, <3>1, <3>3, <4>1
      <4> QED
        BY <3>2, <3>3, <4>2, <4>4, <4>5 DEF PairOK
    <3> QED
      BY <3>4, <3>5
  <2> QED
    BY <2>1, <2>2
<1>9. Distinct(u)
  <2> SUFFICES ASSUME NEW y \in X, NEW z \in X, Live(u, y), Live(u, z), u.reg_content[y] = u.reg_content[z]
               PROVE  y = z
    BY DEF Distinct
  <2> DEFINE Old(k) == IF k = x THEN i ELSE k
  <2>1. \A k \in {y, z} : Old(k) \in X /\ Live(t, Old(k)) /\ t.reg_content[Old(k)] = u.reg_content[k] /\ k # i
    BY <1>2, <1>4, <1>5
  <2>2. Old(y) = Old(z)
    BY <2>1 DEF Good, Core, Distinct
  <2> QED
    BY <2>1, <2>2
<1>10. MemOK(u)
  <2> SUFFICES ASSUME NEW v \in Word, ~t.mem[v]
               PROVE  \E y \in X : Backs(u, y, v)
    BY <1>1 DEF MemOK
  <2>1. PICK y \in X : Backs(t, y, v)
    BY DEF Good, Core, MemOK
  <2>2. CASE y = i
    BY <1>2, <1>4, <2>1, <2>2 DEF Backs
  <2>3. CASE y # i
    <3>1. y # x
      BY <2>1 DEF Backs
    <3> QED
      BY <1>2, <1>5, <1>7, <2>1, <2>3, <3>1 DEF Backs
  <2> QED
    BY <2>2, <2>3
<1>11. ASSUME Running
       PROVE  LoadsOK(u)
  <2>1. \A y \in X : Told(t, y) => Told(u, y)
    BY <1>2, <1>3, <1>4, <1>5, <1>11 DEF Told
  <2> QED
    BY <1>1, <1>11, <2>1 DEF Good, Core, LoadsOK
<1>12. \A y \in X : u.last_access[y] <= dst
  BY <1>2, <1>3 DEF Good, Core
<1>13. Core(u, dst, Running)
  BY <1>1, <1>2, <1>8, <1>9, <1>10, <1>11, <1>12 DEF Good, Core
<1>14. Fit(u, x, Running)
  <2>1. Fit(t, i, Running)
    BY DEF Good
  <2> QED
    BY <1>1, <1>2, <1>4, <2>1, Words DEF Fit
<1>15. ASSUME NEW y \in X, y # x
       PROVE  Fit(u, y, Running)
  <2>1. CASE y = i
    BY <1>4, <2>1 DEF Fit
  <2>2. CASE y # i
    <3>1. Fit(t, y, Running)
      BY DEF Good
    <3> QED
      BY <1>1, <1>2, <1>5, <1>7, <1>15, <2>2, <3>1 DEF Fit
  <2> QED
    BY <2>1, <2>2
<1>16. Good(u, {})
  BY <1>13, <1>14, <1>15 DEF Good
<1> QED
  BY <1>2, <1>16 DEF Accessed, Ready

\* x is returned for the low word of r.
Manual(t, u, x, r) ==
  /\ Good(u, {}) /\ Accessed(u, x) /\ Ready(u, x, Lo(r)) /\ Room(u, Two(session))
  /\ u.narrow = t.narrow /\ u.v = t.v

LEMMA ManualHas ==
  ASSUME Here, NEW t, Good(t, {}), NEW r \in Regs, NEW x \in X, Room(t, 0), Live(t, x),
         t.reg_content[x] = Lo(r)
  PROVE  Manual(t, allocate_register(t, Lo(r)), x, r)
<1> DEFINE u == allocate_register(t, Lo(r))
<1>1. Cached(t, Lo(r)) /\ Holder(t, Lo(r)) = x
  BY HolderOf
<1>2. u.x = x
  <2>1. Lo(r) # NoWord
    BY Words
  <2>2. u = Hit(Kept(t, x), x)
    BY <1>1, <2>1 DEF allocate_register
  <2> DEFINE k == Kept(t, x)
             h == IF Paired(k, x) THEN Access(Access(k, x), k.r64[x]) ELSE Access(k, x)
  <2>3. u = At(h, x)
    BY <2>2 DEF Hit
  <2>4. k \in States
    BY KeptFields
  <2> HIDE DEF k
  <2>5. Access(k, x) \in States
    BY <2>4, AccessFields
  <2>6. k.r64[x] \in X \cup {None}
    BY <2>4 DEF States
  <2>7. h \in States
    BY <2>4, <2>5, <2>6, AccessFields DEF Paired
  <2> HIDE DEF h, u
  <2> QED
    BY <2>3, <2>7 DEF At, States
<1>3. Apart(t, {}, r)
  BY DEF Apart
<1>4. /\ Good(u, {}) /\ Ready(u, u.x, Lo(r)) /\ Accessed(u, u.x)
      /\ Stays(t, u, {}) /\ Room(u, 0 + Two(session))
  BY <1>1, <1>3, R32Good
<1> HIDE DEF u
<1>5. 0 + Two(session) = Two(session)
  BY DEF Two
<1> QED
  BY <1>2, <1>4, <1>5 DEF Manual, Stays, u

LEMMA ManualMoves ==
  ASSUME Here, NEW t, Good(t, {}), NEW r \in Regs, NEW x \in X, Room(t, 0), ~Live(t, x), Cached(t, Lo(r))
  PROVE  LET i == Holder(t, Lo(r)) IN
         Manual(t, Inherits(Copied(allocate_register(t, Lo(r)), i), x, i, Lo(r)), x, r)
<1> DEFINE i == Holder(t, Lo(r))
           w == Lo(r)
           Z == Group(t, i)
           a == allocate_register(t, w)
           c == Copied(a, i)
           u == Inherits(c, x, i, w)
<1>1. /\ i \in X /\ Live(t, i) /\ t.reg_content[i] = w /\ x # i
  BY HolderOf
<1>2. w \in Word /\ w # NoWord
  BY Words
<1>3. a = Hit(Kept(t, i), i)
  BY <1>2 DEF allocate_register
<1> HIDE DEF i, w, a
<1>4. /\ Hits(t, a, Z) /\ Good(a, {}) /\ Accessed(a, i) /\ Ready(a, i, w)
      /\ Stays(t, a, {}) /\ Grows(t, a, Z) /\ Leaves(t, a, {})
  <2> DEFINE m == Hit(Kept(t, i), i)
  <2>1. Group(t, i) \cap {} = {} /\ i \in Group(t, i)
    BY DEF Group
  <2>2. /\ Hits(t, m, Group(t, i))
        /\ Good(m, {}) /\ \A y \in Group(t, i) : Accessed(m, y) /\ Ready(m, y, t.reg_content[y])
        /\ Stays(t, m, {}) /\ Grows(t, m, Group(t, i)) /\ Leaves(t, m, {})
    BY <1>1, <2>1, HitGood
  <2> HIDE DEF m
  <2>3. a = m
    BY <1>3 DEF m
  <2> QED
    BY <1>1, <2>1, <2>2, <2>3
<1>5. Good(c, {}) /\ Only(a, c, {"hold", "loads"}) /\ c.hold[i] = w
  <2>1. CASE a.hold[i] = Loaded
    <3> DEFINE m == Use(a, i, w)
    <3>1. c = m
      BY <1>4, <2>1 DEF Copied, Ready
    <3>2. /\ Good(m, {}) /\ Only(a, m, {"hold", "loads"}) /\ m.hold[i] = w
      BY <1>2, <1>4, UseGood
    <3> HIDE DEF m, c
    <3> QED
      BY <3>1, <3>2
  <2>2. CASE a.hold[i] # Loaded
    BY <1>4, <2>2 DEF Copied, Ready, Only
  <2> QED
    BY <2>1, <2>2
<1> HIDE DEF c
<1>6. /\ c.last_access = a.last_access /\ c.reg_content = a.reg_content /\ c.r64 = t.r64
      /\ c.narrow = t.narrow /\ c.v = t.v /\ a.reg_content[i] = w
  BY <1>4, <1>5 DEF Only, Hits, Fields, Ready
<1>7. ~Live(c, x) /\ Accessed(c, i) /\ c.reg_content[i] = w
  BY <1>4, <1>6 DEF Leaves, Live, Accessed
<1>8. Moves(c, u, x, i, w)
  <2>1. c \in States
    BY <1>5 DEF Good, Core
  <2> QED
    BY <1>1, <1>2, <2>1, InheritsMoves
<1> HIDE DEF u
<1>9. Good(u, {}) /\ Accessed(u, x) /\ Ready(u, x, w)
  BY <1>1, <1>2, <1>5, <1>7, <1>8, MovesGood
<1>10. u.narrow = t.narrow /\ u.v = t.v
  BY <1>6, <1>8 DEF Moves, Only, Fields
<1>11. Grows(t, u, {x} \cup (Z \ {i}))
  <2> SUFFICES ASSUME NEW y \in X, Accessed(u, y), ~Accessed(t, y), y # x
               PROVE  y \in Z \ {i}
    BY DEF Grows
  <2>1. y # i
    BY <1>8, Numbers DEF Moves, Accessed
  <2>2. Accessed(a, y)
    BY <1>6, <1>8, <2>1 DEF Moves, Accessed
  <2> QED
    BY <1>4, <2>1, <2>2 DEF Grows
<1>12. Room(u, Two(session))
  <2>1. CASE Paired(t, i)
    <3>1. t.r64[i] # i /\ Two(session) = 2
      BY <1>1, <2>1 DEF Good, Core, PairsOK, PairOK, Two
    <3> DEFINE j == t.r64[i]
    <3>2. {x} \cup (Z \ {i}) = {x, j}
      BY <1>1, <2>1, <3>1 DEF Group
    <3> HIDE DEF j
    <3>3. Grows(t, u, {x, j})
      BY <1>11, <3>2
    <3>4. Room(u, 0 + 2)
      BY <3>3, RoomTwo
    <3> QED
      BY <3>1, <3>4
  <2>2. CASE ~Paired(t, i)
    <3>1. {x} \cup (Z \ {i}) = {x}
      BY <2>2 DEF Group
    <3>2. Grows(t, u, {x})
      BY <1>11, <3>1
    <3>3. Room(u, 0 + 1)
      BY <3>2, RoomOne
    <3>4. Cardinality(Used(u)) \in Nat
      BY UsedFinite
    <3> QED
      BY <3>3, <3>4 DEF Room, Two
  <2> QED
    BY <2>1, <2>2
<1> QED
  BY <1>9, <1>10, <1>12 DEF Manual, u, c, a, i, w

LEMMA ManualAt ==
  ASSUME Here, NEW t, NEW u, NEW r \in Regs, NEW x \in X, Manual(t, u, x, r)
  PROVE  Manual(t, At(u, x), x, r)
<1> DEFINE q == At(u, x)
<1>1. Good(u, {})
  BY DEF Manual
<1>2. Good(q, {}) /\ Only(u, q, {"x"})
  BY <1>1, AtGood
<1> HIDE DEF q
<1>3. /\ q.last_access = u.last_access /\ q.reg_content = u.reg_content /\ q.hold = u.hold
      /\ q.needed = u.needed /\ q.free_since = u.free_since /\ q.narrow = u.narrow /\ q.v = u.v
  BY <1>2 DEF Only, Fields
<1>4. Accessed(q, x) /\ Ready(q, x, Lo(r)) /\ Room(q, Two(session))
  BY <1>3 DEF Manual, Accessed, Ready, Told, Live, Room, Used
<1> QED
  BY <1>2, <1>3, <1>4 DEF Manual, q

\* allocate_register_manually(): at the start of an instruction.
LEMMA ManuallyGood ==
  ASSUME Here, NEW t, Good(t, {}), NEW r \in Regs, NEW x \in X, Room(t, 0),
         Testing(session) => r \in t.narrow
  PROVE  Manual(t, At(allocate_register_manually(t, x, Lo(r)), x), x, r)
<1> DEFINE b == allocate_register_manually(t, x, Lo(r))
           u == At(b, x)
<1>1. Manual(t, u, x, r)
  <2>1. CASE Live(t, x) /\ t.reg_content[x] = Lo(r)
    <3>1. Manual(t, b, x, r)
      BY <2>1, ManualHas DEF allocate_register_manually
    <3> HIDE DEF b
    <3> QED
      BY <3>1, ManualAt
  <2>2. CASE ~(Live(t, x) /\ t.reg_content[x] = Lo(r))
    <3> DEFINE m == free_register(t, x)
    <3>1. b = Claimed(m, x, Lo(r))
      BY <2>2 DEF allocate_register_manually
    <3> HIDE DEF b
    <3>2. ~Accessed(t, x)
      <4>1. Used(t) = {}
        <5>1. IsFiniteSet(Used(t)) /\ Cardinality(Used(t)) = 0
          BY UsedFinite DEF Room
        <5> QED
          BY <5>1, FS_EmptySet
      <4> QED
        BY <4>1 DEF Used
    <3>3. /\ Good(m, {}) /\ ~Live(m, x) /\ Stays(t, m, {}) /\ Grows(t, m, {})
      BY <3>2, FreeOther
    <3> HIDE DEF m
    <3>4. Room(m, 0)
      BY <3>3, RoomSame
    <3>5. m.narrow = t.narrow /\ m.v = t.v
      BY <3>3 DEF Stays
    <3>6. Manual(m, u, x, r)
      <4>1. CASE Cached(m, Lo(r))
        <5> DEFINE i == Holder(m, Lo(r))
                   q == Inherits(Copied(allocate_register(m, Lo(r)), i), x, i, Lo(r))
        <5>1. b = q
          BY <3>1, <4>1 DEF Claimed
        <5>2. Manual(m, q, x, r)
          BY <3>3, <3>4, <4>1, ManualMoves
        <5>3. Manual(m, b, x, r)
          BY <5>1, <5>2
        <5> QED
          BY <5>3, ManualAt
      <4>2. CASE ~Cached(m, Lo(r))
        <5> DEFINE q == Missed(m, x, Lo(r))
                   k == Taken(m, x, Lo(r), FALSE)
        <5>1. b = Fetch(k, x, Lo(r))
          BY <3>1, <4>2 DEF Claimed
        <5>2. q = At(b, x)
          <6>1. Lo(r) # NoWord
            BY Words
          <6> QED
            BY <5>1, <6>1 DEF Missed, Filled
        <5>3. ~Accessed(m, x)
          BY <3>3, Numbers DEF Live, Accessed
        <5> HIDE DEF q
        <5>4. /\ Good(q, {}) /\ Ready(q, x, Lo(r)) /\ Accessed(q, x)
              /\ Stays(m, q, {}) /\ Grows(m, q, {x})
          <6> DEFINE p == Missed(m, x, Lo(r))
          <6>1. /\ Good(p, {}) /\ Ready(p, x, Lo(r)) /\ Accessed(p, x) /\ p.x = x
                /\ Stays(m, p, {}) /\ Grows(m, p, {x})
            BY <3>3, <3>5, <4>2, <5>3, MissLow
          <6> QED
            BY <6>1 DEF q
        <5>5. Room(q, 0 + 1)
          BY <3>4, <5>4, RoomOne
        <5>6. Room(q, Two(session))
          <6>1. Cardinality(Used(q)) \in Nat
            BY UsedFinite
          <6> QED
            BY <5>5, <6>1 DEF Room, Two
        <5>7. Manual(m, q, x, r)
          BY <5>4, <5>6 DEF Manual, Stays
        <5> QED
          BY <5>2, <5>7
      <4> QED
        BY <4>1, <4>2
    <3> QED
      BY <3>5, <3>6 DEF Manual
  <2> QED
    BY <2>1, <2>2
<1> QED
  BY <1>1

\* x is returned for a 32 bit value of r; those in the making stay.
Manual_w(t, u, P, x, r) ==
  /\ Good(u, P \cup {x}) /\ Made32(u, x, r) /\ Grows(t, u, {x})
  /\ \A y \in P : u.r64[y] = t.r64[y] /\ u.reg_content[y] = t.reg_content[y] /\ u.dirty[y] = t.dirty[y]
  /\ u.narrow = t.narrow /\ u.v = t.v

\* Where the words of r are let go x is good.
LEMMA DropsManual ==
  ASSUME Here, NEW t, NEW u, NEW P, Good(t, P), NEW r \in Regs, NEW x \in X, NEW Z \in SUBSET X,
         x \notin P, x \notin Z, Apart(t, P, r), Drops(t, u, Z, x, r), Owners(t, Z \cup {x}, r),
         \A y \in Z : t.reg_content[y] \in {Lo(r), Hi(r)}
  PROVE  Manual_w(t, u, P, x, r)
<1>1. Z \cap P = {}
  BY DEF Apart
<1>2. Good(u, P \cup {x})
  BY <1>1, DropsGood
<1>3. Made32(u, x, r) /\ u.narrow = t.narrow /\ u.v = t.v
  BY DEF Drops, Made32, Accessed, Paired, Only, Fields
<1>4. Grows(t, u, {x})
  BY Numbers DEF Drops, Grows, Accessed
<1>5. \A y \in P : u.r64[y] = t.r64[y] /\ u.reg_content[y] = t.reg_content[y] /\ u.dirty[y] = t.dirty[y]
  BY <1>1 DEF Drops, Good
<1> QED
  BY <1>2, <1>3, <1>4, <1>5 DEF Manual_w

\* x has the word: its pair is dropped.
LEMMA ReusedDrops ==
  ASSUME Here, NEW t, NEW P, Good(t, P), NEW r \in Regs, NEW x \in X, Live(t, x),
         t.reg_content[x] = Lo(r), NEW Z, Z = Group(t, x) \ {x}
  PROVE  Drops(t, Dirtied(Reused(Access(Kept(t, x), x), x), x), Z, x, r)
<1> DEFINE k == Kept(t, x)
           a == Access(k, x)
           b == Reused(a, x)
           u == Dirtied(b, x)
<1>1. t \in States
  BY DEF Good, Core
<1>2. /\ k \in States /\ Only(t, k, {"needed"})
      /\ \A y \in X \ Group(t, x) : k.needed[y] = t.needed[y]
      /\ \A y \in Group(t, x) : Running => k.needed[y] = IF Told(t, y) THEN t.needed[y] ELSE t.reg_content[y]
  BY KeptFields
<1> HIDE DEF k
<1>3. a \in States /\ Only(k, a, {"last_access"}) /\ a.last_access = [k.last_access EXCEPT ![x] = dst]
  BY <1>2, AccessFields
<1> HIDE DEF a
<1>4. Only(t, a, {"last_access", "needed"})
  BY <1>2, <1>3 DEF Only
<1>5. /\ a.r64 = t.r64 /\ a.free_since = t.free_since /\ a.needed = k.needed /\ k.last_access = t.last_access
      /\ a.dirty = t.dirty
  BY <1>2, <1>3 DEF Only, Fields
<1>6. /\ b \in States /\ Only(a, b, {"last_access", "free_since", "r64"})
      /\ \A y \in X \ (Z \cup {x}) :
           /\ b.last_access[y] = t.last_access[y] /\ b.free_since[y] = t.free_since[y]
           /\ b.r64[y] = t.r64[y]
      /\ \A y \in Z : b.last_access[y] = 0 /\ b.free_since[y] = dst + 1
      /\ b.last_access[x] = dst /\ b.r64[x] = None
      /\ Z \subseteq X
  <2>0. t.last_access \in [X -> Nat] /\ t.free_since \in [X -> Nat] /\ t.r64 \in [X -> X \cup {None}]
    BY <1>1 DEF States
  <2>1. CASE Paired(t, x)
    <3> DEFINE y == t.r64[x]
               m == Release(a, y)
    <3>1. y \in X /\ y # x /\ Live(t, y)
      BY <2>1, PartnerOf
    <3>2. Z = {y}
      BY <2>1, <3>1 DEF Group
    <3>3. b = [m EXCEPT !.r64[x] = None]
      BY <1>5, <2>1 DEF Reused, Paired
    <3> HIDE DEF b, y
    <3>4. /\ m \in States /\ Only(a, m, {"last_access", "free_since"})
          /\ m.last_access = [a.last_access EXCEPT ![y] = 0]
          /\ m.free_since = [a.free_since EXCEPT ![y] = dst + 1]
      BY <1>3, <3>1, ReleaseFields
    <3> HIDE DEF m
    <3>5. b \in States /\ Only(m, b, {"r64"}) /\ b.r64 = [m.r64 EXCEPT ![x] = None]
      BY <3>3, <3>4 DEF States, Only, Fields
    <3>6. b.last_access = m.last_access /\ b.free_since = m.free_since /\ m.r64 = t.r64
      BY <1>5, <3>4, <3>5 DEF Only, Fields
    <3>7. Only(a, b, {"last_access", "free_since", "r64"})
      BY <3>4, <3>5 DEF Only
    <3>8. a.last_access = [t.last_access EXCEPT ![x] = dst]
      BY <1>3, <1>5
    <3>9. b.last_access = [[t.last_access EXCEPT ![x] = dst] EXCEPT ![y] = 0]
      BY <3>4, <3>6, <3>8
    <3>10. b.free_since = [t.free_since EXCEPT ![y] = dst + 1] /\ b.r64 = [t.r64 EXCEPT ![x] = None]
      BY <1>5, <3>4, <3>5, <3>6
    <3> QED
      BY <2>0, <3>1, <3>2, <3>5, <3>7, <3>9, <3>10
  <2>2. CASE ~Paired(t, x)
    <3>1. Z = {}
      BY <2>2 DEF Group
    <3>2. b = a
      BY <1>5, <2>2 DEF Reused, Paired
    <3> HIDE DEF b
    <3>3. a.r64[x] = None
      BY <1>5, <2>2 DEF Paired
    <3> QED
      BY <1>3, <1>5, <2>0, <3>1, <3>2, <3>3 DEF Only
  <2> QED
    BY <2>1, <2>2
<1> HIDE DEF b
<1>7. u \in States /\ Only(b, u, {"dirty"}) /\ u.dirty = [b.dirty EXCEPT ![x] = TRUE]
  BY <1>6 DEF Dirtied, States, Only, Fields
<1> HIDE DEF u
<1>8. Only(t, u, {"last_access", "free_since", "needed", "reg_content", "dirty", "r64", "x"})
  BY <1>4, <1>6, <1>7 DEF Only
<1>9. /\ u.last_access = b.last_access /\ u.free_since = b.free_since /\ u.needed = k.needed
      /\ u.r64 = b.r64 /\ u.reg_content = t.reg_content /\ b.dirty = t.dirty
  BY <1>4, <1>5, <1>6, <1>7 DEF Only, Fields
<1>10. Group(t, x) = Z \cup {x}
  BY DEF Group
<1>11. \A y \in X \ (Z \cup {x}) : u.needed[y] = t.needed[y] /\ u.dirty[y] = t.dirty[y]
  BY <1>1, <1>2, <1>7, <1>9, <1>10 DEF States
<1>12. \A y \in Z \cup {x} : Running /\ Told(t, y) => u.needed[y] = t.needed[y]
  BY <1>2, <1>9, <1>10
<1>13. u.dirty[x]
  BY <1>1, <1>7, <1>9 DEF States
<1>14. Drops(t, u, Z, x, r)
  <2>1. \A y \in X \ (Z \cup {x}) :
          /\ u.last_access[y] = t.last_access[y] /\ u.free_since[y] = t.free_since[y]
          /\ u.needed[y] = t.needed[y] /\ u.dirty[y] = t.dirty[y] /\ u.r64[y] = t.r64[y]
    BY <1>6, <1>9, <1>11
  <2>2. \A y \in X \ {x} : u.reg_content[y] = t.reg_content[y]
    BY <1>9
  <2>3. \A y \in Z : u.last_access[y] = 0 /\ u.free_since[y] = dst + 1
    BY <1>6, <1>9
  <2>4. u.last_access[x] = dst /\ u.reg_content[x] = Lo(r) /\ u.dirty[x] /\ u.r64[x] = None
    BY <1>6, <1>9, <1>13
  <2> QED
    BY <1>7, <1>8, <1>12, <2>1, <2>2, <2>3, <2>4 DEF Drops
<1> QED
  BY <1>14 DEF u, b, a, k

\* The registers that have the words of r, when x is one of none of them.
LEMMA GroupOwners ==
  ASSUME Here, NEW t, NEW P, Good(t, P), NEW r \in Regs, Apart(t, P, r), NEW i \in X, Live(t, i),
         t.reg_content[i] = Lo(r)
  PROVE  /\ Owners(t, Group(t, i), r) /\ Group(t, i) \subseteq X
         /\ \A y \in Group(t, i) : Live(t, y) /\ t.reg_content[y] \in {Lo(r), Hi(r)}
<1>1. Paired(t, i) => /\ t.r64[i] \in X /\ t.r64[i] # i /\ Live(t, t.r64[i]) /\ t.r64[t.r64[i]] = i
                      /\ t.reg_content[t.r64[i]] = Hi(r)
  BY PartnerOf
<1>2. \A y \in Group(t, i) : Live(t, y) /\ t.reg_content[y] \in {Lo(r), Hi(r)} /\ y \in X
  BY <1>1 DEF Group
<1>3. ASSUME NEW y \in X, Live(t, y), t.reg_content[y] \in {Lo(r), Hi(r)}
      PROVE  y \in Group(t, i)
  <2>1. Apart(t, P \ {i}, r)
    BY DEF Apart
  <2>2. CASE y = i
    BY <2>2 DEF Group
  <2>3. CASE y # i
    <3>1. Paired(t, i) /\ y = t.r64[i]
      BY <1>3, <2>1, <2>3, MadeAlone
    <3> QED
      BY <3>1 DEF Group
  <2> QED
    BY <2>2, <2>3
<1>4. \A y \in X : Live(t, y) /\ Paired(t, y) /\ y \in Group(t, i) => t.r64[y] \in Group(t, i)
  BY <1>1 DEF Group
<1> QED
  BY <1>2, <1>3, <1>4 DEF Owners

\* Another register has the word: it is dropped with its pair.
LEMMA DroppedFields ==
  ASSUME Here, NEW t, NEW P, Good(t, P), NEW r \in Regs, NEW i \in X, Live(t, i),
         t.reg_content[i] = Lo(r), NEW Z, Z = Group(t, i)
  PROVE  LET d == Release(Unpaired(Need(t, i, t.last_access[i] + 1, Lo(r)), i), i) IN
         /\ d \in States /\ Only(t, d, {"last_access", "free_since", "needed", "r64"})
         /\ \A y \in X \ Z :
              /\ d.last_access[y] = t.last_access[y] /\ d.free_since[y] = t.free_since[y]
              /\ d.needed[y] = t.needed[y] /\ d.r64[y] = t.r64[y]
         /\ \A y \in Z : d.last_access[y] = 0 /\ d.free_since[y] = dst + 1
         /\ \A y \in Z : Running /\ Told(t, y) => d.needed[y] = t.needed[y]
<1> DEFINE n == Need(t, i, t.last_access[i] + 1, Lo(r))
           p == Unpaired(n, i)
           d == Release(p, i)
<1>1. t \in States /\ Lo(r) \in Word \cup {NoWord}
  BY Words DEF Good, Core
<1>2. /\ n \in States /\ Only(t, n, {"needed"})
      /\ \A y \in X \ {i} : n.needed[y] = t.needed[y]
      /\ Running /\ Told(t, i) => n.needed[i] = t.needed[i]
  <2> DEFINE w == Lo(r)
             q == Need(t, i, t.last_access[i] + 1, w)
  <2>1. w \in Word \cup {NoWord}
    BY <1>1
  <2> HIDE DEF w
  <2>2. /\ q \in States /\ Only(t, q, {"needed"})
        /\ \A y \in X \ {i} : q.needed[y] = t.needed[y]
        /\ Running /\ Told(t, i) => q.needed[i] = t.needed[i]
    BY <1>1, <2>1, NeedTold
  <2> QED
    BY <2>2 DEF w
<1> HIDE DEF n
<1>3. n.r64 = t.r64 /\ n.free_since = t.free_since /\ n.last_access = t.last_access
  BY <1>2 DEF Only, Fields
<1>4. t.last_access \in [X -> Nat] /\ t.free_since \in [X -> Nat] /\ t.r64 \in [X -> X \cup {None}]
  BY <1>1 DEF States
<1>5. /\ p \in States /\ Only(n, p, {"last_access", "free_since", "needed", "r64"})
      /\ \A y \in X \ Z :
           /\ p.last_access[y] = t.last_access[y] /\ p.free_since[y] = t.free_since[y]
           /\ p.needed[y] = t.needed[y] /\ p.r64[y] = t.r64[y]
      /\ \A y \in Z \ {i} : p.last_access[y] = 0 /\ p.free_since[y] = dst + 1
      /\ \A y \in Z : Running /\ Told(t, y) => p.needed[y] = t.needed[y]
      /\ i \in Z
  <2>1. CASE Paired(t, i)
    <3> DEFINE y == t.r64[i]
               z == n.r64[i]
               q == Unpaired(n, i)
    <3>1. y \in X /\ y # i /\ Live(t, y)
      BY <2>1, PartnerOf
    <3>2. Z = {i, y}
      BY <2>1 DEF Group
    <3>3. z = y /\ Paired(n, i) /\ Live(n, y) /\ (Told(t, y) => Told(n, y))
      BY <1>3, <2>1, <3>1 DEF Paired, Live, Told
    <3>4. z # i /\ Live(n, z)
      BY <3>1, <3>3
    <3>5. /\ q \in States /\ Only(n, q, {"last_access", "free_since", "needed", "r64"})
          /\ q.last_access = [n.last_access EXCEPT ![z] = 0]
          /\ q.free_since = [n.free_since EXCEPT ![z] = dst + 1]
          /\ q.r64 = [n.r64 EXCEPT ![i] = None]
          /\ \A k \in X \ {z} : q.needed[k] = n.needed[k]
          /\ Running /\ Told(n, z) => q.needed[z] = n.needed[z]
      BY <1>2, <3>3, <3>4, UnpairedFields
    <3> HIDE DEF q, z, y
    <3>6. p = q
      BY DEF q
    <3> HIDE DEF p
    <3>7. /\ \A k \in X \ Z : q.last_access[k] = t.last_access[k] /\ q.free_since[k] = t.free_since[k]
                              /\ q.r64[k] = t.r64[k]
          /\ q.last_access[y] = 0 /\ q.free_since[y] = dst + 1
      BY <1>3, <1>4, <3>1, <3>2, <3>3, <3>5
    <3>8. \A k \in X \ Z : q.needed[k] = t.needed[k]
      BY <1>2, <3>2, <3>3, <3>5
    <3>9. \A k \in Z : Running /\ Told(t, k) => q.needed[k] = t.needed[k]
      BY <1>2, <3>1, <3>2, <3>3, <3>5
    <3> QED
      BY <3>2, <3>5, <3>6, <3>7, <3>8, <3>9
  <2>2. CASE ~Paired(t, i)
    <3>1. Z = {i}
      BY <2>2 DEF Group
    <3>2. p = n
      BY <1>3, <2>2 DEF Unpaired, Paired
    <3> HIDE DEF p
    <3> QED
      BY <1>2, <1>3, <3>1, <3>2 DEF Only
  <2> QED
    BY <2>1, <2>2
<1> HIDE DEF p
<1>6. /\ d \in States /\ Only(p, d, {"last_access", "free_since"})
      /\ d.last_access = [p.last_access EXCEPT ![i] = 0]
      /\ d.free_since = [p.free_since EXCEPT ![i] = dst + 1]
  BY <1>5, ReleaseFields
<1> HIDE DEF d
<1>7. Only(t, d, {"last_access", "free_since", "needed", "r64"})
  BY <1>2, <1>5, <1>6 DEF Only
<1>8. d.needed = p.needed /\ d.r64 = p.r64
  BY <1>6 DEF Only, Fields
<1>9. p.last_access \in [X -> Nat] /\ p.free_since \in [X -> Nat]
  BY <1>5 DEF States
<1>10. Z \subseteq X
  <2>1. i \in X /\ t.r64[i] \in X \cup {None}
    BY <1>4
  <2> QED
    BY <2>1 DEF Group, Paired
<1>11. \A y \in X \ Z : /\ d.last_access[y] = t.last_access[y] /\ d.free_since[y] = t.free_since[y]
                        /\ d.needed[y] = t.needed[y] /\ d.r64[y] = t.r64[y]
  BY <1>5, <1>6, <1>8, <1>9
<1>12. \A y \in Z : d.last_access[y] = 0 /\ d.free_since[y] = dst + 1
  BY <1>5, <1>6, <1>9, <1>10
<1> QED
  BY <1>5, <1>6, <1>7, <1>8, <1>11, <1>12, ZenonT(40) DEF d, p, n

\* A register that was freed already is taken.
LEMMA TakenIdle ==
  ASSUME Here, NEW t \in States, NEW x \in X, ~Live(t, x), t.free_since[x] = dst + 1, NEW w \in Word
  PROVE  LET u == Taken(t, x, w, TRUE) IN
         /\ u \in States /\ Only(t, u, {"last_access", "reg_content", "dirty", "r64"})
         /\ u.last_access = [t.last_access EXCEPT ![x] = dst]
         /\ u.reg_content = [t.reg_content EXCEPT ![x] = w]
         /\ u.dirty = [t.dirty EXCEPT ![x] = TRUE]
         /\ u.r64 = [t.r64 EXCEPT ![x] = None]
<1> DEFINE u == Taken(t, x, w, TRUE)
<1>1. entry \in Nat /\ dst \in Nat
  BY Numbers
<1>2. Need(t, x, dst + 1, NoWord) = t
  BY <1>1 DEF Need
<1>3. free_register(t, x) = t
  <2>1. free_register(t, x) = [t EXCEPT !.free_since[x] = dst + 1]
    BY <1>2 DEF free_register
  <2>2. [t.free_since EXCEPT ![x] = dst + 1] = t.free_since
    BY DEF States
  <2> QED
    BY <2>1, <2>2 DEF States
<1>4. u = [t EXCEPT !.last_access[x] = dst, !.reg_content[x] = w, !.dirty[x] = TRUE, !.r64[x] = None]
  BY <1>3 DEF Taken
<1> HIDE DEF u
<1>5. /\ u \in States /\ Only(t, u, {"last_access", "reg_content", "dirty", "r64"})
      /\ u.last_access = [t.last_access EXCEPT ![x] = dst]
      /\ u.reg_content = [t.reg_content EXCEPT ![x] = w]
      /\ u.dirty = [t.dirty EXCEPT ![x] = TRUE]
      /\ u.r64 = [t.r64 EXCEPT ![x] = None]
  BY <1>1, <1>4 DEF States, Only, Fields
<1> QED
  BY <1>5 DEF u

LEMMA ClaimedDrops ==
  ASSUME Here, NEW t, NEW P, Good(t, P), NEW r \in Regs, NEW i \in X, Live(t, i),
         t.reg_content[i] = Lo(r), NEW x \in X, ~Live(t, x), t.free_since[x] = dst + 1
  PROVE  LET d == Release(Unpaired(Need(t, i, t.last_access[i] + 1, Lo(r)), i), i) IN
         Drops(t, Taken(d, x, Lo(r), TRUE), Group(t, i), x, r)
<1> DEFINE d == Release(Unpaired(Need(t, i, t.last_access[i] + 1, Lo(r)), i), i)
           Z == Group(t, i)
           u == Taken(d, x, Lo(r), TRUE)
<1>1. Lo(r) \in Word
  BY Words
<1>2. /\ d \in States /\ Only(t, d, {"last_access", "free_since", "needed", "r64"})
      /\ \A y \in X \ Z :
           /\ d.last_access[y] = t.last_access[y] /\ d.free_since[y] = t.free_since[y]
           /\ d.needed[y] = t.needed[y] /\ d.r64[y] = t.r64[y]
      /\ \A y \in Z : d.last_access[y] = 0 /\ d.free_since[y] = dst + 1
      /\ \A y \in Z : Running /\ Told(t, y) => d.needed[y] = t.needed[y]
  <2> HIDE DEF Z
  <2>1. Z = Group(t, i)
    BY DEF Z
  <2> DEFINE q == Release(Unpaired(Need(t, i, t.last_access[i] + 1, Lo(r)), i), i)
  <2>2. /\ q \in States /\ Only(t, q, {"last_access", "free_since", "needed", "r64"})
        /\ \A y \in X \ Z :
             /\ q.last_access[y] = t.last_access[y] /\ q.free_since[y] = t.free_since[y]
             /\ q.needed[y] = t.needed[y] /\ q.r64[y] = t.r64[y]
        /\ \A y \in Z : q.last_access[y] = 0 /\ q.free_since[y] = dst + 1
        /\ \A y \in Z : Running /\ Told(t, y) => q.needed[y] = t.needed[y]
    BY <2>1, DroppedFields
  <2> QED
    BY <2>2
<1>3. x \notin Z /\ \A y \in Z : Live(t, y)
  BY PartnerOf DEF Group
<1> HIDE DEF d
<1>4. ~Live(d, x) /\ d.free_since[x] = dst + 1
  BY <1>2, <1>3 DEF Live
<1> DEFINE w == Lo(r)
           v == Taken(d, x, w, TRUE)
<1> HIDE DEF w, u
<1>5. /\ v \in States /\ Only(d, v, {"last_access", "reg_content", "dirty", "r64"})
      /\ v.last_access = [d.last_access EXCEPT ![x] = dst]
      /\ v.reg_content = [d.reg_content EXCEPT ![x] = w]
      /\ v.dirty = [d.dirty EXCEPT ![x] = TRUE]
      /\ v.r64 = [d.r64 EXCEPT ![x] = None]
  <2>1. w \in Word
    BY <1>1 DEF w
  <2> QED
    BY <1>2, <1>4, <2>1, TakenIdle
<1>6. u = v
  BY DEF u, w
<1> HIDE DEF v, Z
<1>7. Only(t, u, {"last_access", "free_since", "needed", "reg_content", "dirty", "r64", "x"})
  BY <1>2, <1>5, <1>6 DEF Only
<1>8. /\ d.reg_content = t.reg_content /\ d.dirty = t.dirty
      /\ v.needed = d.needed /\ v.free_since = d.free_since
  BY <1>2, <1>5 DEF Only, Fields
<1>9. /\ \A y \in X \ {x} : /\ v.last_access[y] = d.last_access[y] /\ v.reg_content[y] = t.reg_content[y]
                            /\ v.dirty[y] = t.dirty[y] /\ v.r64[y] = d.r64[y]
      /\ v.last_access[x] = dst /\ v.reg_content[x] = Lo(r) /\ v.dirty[x] /\ v.r64[x] = None
  BY <1>2, <1>5, <1>8 DEF States, w
<1>10. \A y \in X \ (Z \cup {x}) :
         /\ v.last_access[y] = t.last_access[y] /\ v.free_since[y] = t.free_since[y]
         /\ v.needed[y] = t.needed[y] /\ v.dirty[y] = t.dirty[y] /\ v.r64[y] = t.r64[y]
  BY <1>2, <1>8, <1>9
<1>11. Z \subseteq X
  <2>1. t.r64 \in [X -> X \cup {None}]
    BY DEF Good, Core, States
  <2> QED
    BY <2>1 DEF Z, Group, Paired
<1>12. \A y \in Z : v.last_access[y] = 0 /\ v.free_since[y] = dst + 1
  BY <1>2, <1>3, <1>8, <1>9, <1>11
<1>13. \A y \in Z \cup {x} : Running /\ Told(t, y) => v.needed[y] = t.needed[y]
  BY <1>2, <1>3, <1>8
<1>14. Drops(t, v, Z, x, r)
  BY <1>5, <1>6, <1>7, <1>9, <1>10, <1>12, <1>13 DEF Drops
<1> QED
  BY <1>6, <1>14 DEF u, d, Z

\* allocate_register_manually_w().
LEMMA Manually_wGood ==
  ASSUME Here, NEW t, NEW P, Good(t, P), NEW r \in Regs, Apart(t, P, r), NEW x \in X, x \notin P,
         ~Accessed(t, x)
  PROVE  Manual_w(t, allocate_register_manually_w(t, x, Lo(r)), P, x, r)
<1> DEFINE w == Lo(r)
           u == allocate_register_manually_w(t, x, w)
<1>1. w \in Word
  BY Words
<1>2. CASE Live(t, x) /\ t.reg_content[x] = w
  <2> DEFINE Z == Group(t, x) \ {x}
             q == Dirtied(Reused(Access(Kept(t, x), x), x), x)
  <2>1. u = q
    BY <1>2 DEF allocate_register_manually_w
  <2> HIDE DEF u, Z
  <2>2. Z = Group(t, x) \ {x}
    BY DEF Z
  <2>3. Drops(t, q, Z, x, r)
    BY <1>2, <2>2, ReusedDrops
  <2> HIDE DEF q
  <2>4. /\ Owners(t, Group(t, x), r) /\ Group(t, x) \subseteq X
        /\ \A y \in Group(t, x) : Live(t, y) /\ t.reg_content[y] \in {Lo(r), Hi(r)}
    BY <1>2, GroupOwners
  <2>5. x \notin Z /\ Z \cup {x} = Group(t, x) /\ Z \in SUBSET X
    BY <2>2, <2>4 DEF Group
  <2>6. Manual_w(t, q, P, x, r)
    <3>1. Owners(t, Z \cup {x}, r) /\ \A y \in Z : t.reg_content[y] \in {Lo(r), Hi(r)}
      BY <2>4, <2>5
    <3> QED
      BY <2>3, <2>5, <3>1, DropsManual
  <2> QED
    BY <2>1, <2>6 DEF u
<1>3. CASE ~(Live(t, x) /\ t.reg_content[x] = w)
  <2> DEFINE m == free_register(t, x)
  <2>1. u = Claimed_w(m, x, w)
    BY <1>3 DEF allocate_register_manually_w
  <2>2. /\ Good(m, P) /\ ~Live(m, x) /\ Stays(t, m, P) /\ Grows(t, m, {})
        /\ m.free_since[x] = dst + 1
    BY FreeOther
  <2> HIDE DEF m, u
  <2>3. /\ Apart(m, P, r) /\ m.narrow = t.narrow /\ m.v = t.v
        /\ \A y \in P : m.r64[y] = t.r64[y] /\ m.reg_content[y] = t.reg_content[y] /\ m.dirty[y] = t.dirty[y]
    BY <2>2 DEF Stays, Apart, Good, Accessed
  <2>4. Manual_w(m, u, P, x, r)
    <3>1. CASE Cached(m, w)
      <4> DEFINE i == Holder(m, w)
                 Z == Group(m, i)
                 d == Release(Unpaired(Need(m, i, m.last_access[i] + 1, w), i), i)
                 q == Taken(d, x, w, TRUE)
      <4>1. i \in X /\ Live(m, i) /\ m.reg_content[i] = w
        BY <2>2, <3>1, HolderOf
      <4>2. u = q
        BY <2>1, <3>1 DEF Claimed_w
      <4> HIDE DEF i
      <4>3. Drops(m, q, Z, x, r)
        <5> HIDE DEF q, Z
        <5> DEFINE dd == Release(Unpaired(Need(m, i, m.last_access[i] + 1, Lo(r)), i), i)
                   qq == Taken(dd, x, Lo(r), TRUE)
        <5>1. Drops(m, qq, Group(m, i), x, r)
          BY <2>2, <4>1, ClaimedDrops
        <5> QED
          BY <5>1 DEF q, Z
      <4> HIDE DEF q, Z
      <4>4. /\ Owners(m, Z, r) /\ Z \subseteq X
            /\ \A y \in Z : Live(m, y) /\ m.reg_content[y] \in {Lo(r), Hi(r)}
        BY <2>2, <2>3, <4>1, GroupOwners DEF Z
      <4>5. Owners(m, Z \cup {x}, r) /\ x \notin Z
        BY <2>2, <4>4 DEF Owners
      <4>6. Manual_w(m, q, P, x, r)
        BY <2>2, <2>3, <4>3, <4>4, <4>5, DropsManual
      <4> QED
        BY <4>2, <4>6
    <3>2. CASE ~Cached(m, w)
      <4> DEFINE q == Taken(m, x, w, TRUE)
      <4>1. u = q
        BY <2>1, <3>2 DEF Claimed_w
      <4>2. ~Accessed(m, x)
        BY <2>2, Numbers DEF Accessed, Live
      <4>3. \A y \in X : Live(m, y) => m.reg_content[y] # w
        BY <2>2, <3>2, HolderOf
      <4> HIDE DEF w
      <4>4. /\ Good(q, P \cup {x}) /\ Accessed(q, x)
            /\ q.reg_content[x] = w /\ q.dirty[x] = TRUE /\ ~Paired(q, x)
            /\ Stays(m, q, P) /\ Grows(m, q, {x})
        <5>1. w \in Word \cup {NoWord} /\ TRUE \in BOOLEAN
          BY <1>1
        <5>2. /\ Good(q, P \cup {x}) /\ Accessed(q, x) /\ Live(q, x)
              /\ q.reg_content[x] = w /\ q.dirty[x] = TRUE /\ ~Paired(q, x)
              /\ Stays(m, q, P) /\ Grows(m, q, {x}) /\ Leaves(m, q, {x})
          BY <2>2, <4>2, <4>3, <5>1, TakenGood
        <5> HIDE DEF q
        <5> QED
          BY <5>2
      <4> HIDE DEF q
      <4>5. \A y \in P : q.r64[y] = m.r64[y] /\ q.reg_content[y] = m.reg_content[y] /\ q.dirty[y] = m.dirty[y]
        BY <2>2, <4>4 DEF Stays, Good, Accessed
      <4>6. Made32(q, x, r)
        BY <4>4 DEF Made32, w
      <4>7. q.narrow = m.narrow /\ q.v = m.v
        BY <4>4 DEF Stays
      <4> QED
        BY <4>1, <4>4, <4>5, <4>6, <4>7 DEF Manual_w
    <3> QED
      BY <3>1, <3>2
  <2>5. Grows(t, u, {x})
    BY <2>2, <2>4 DEF Grows, Manual_w
  <2>6. Manual_w(t, u, P, x, r)
    BY <2>3, <2>4, <2>5 DEF Manual_w
  <2> QED
    BY <2>6 DEF u
<1> QED
  BY <1>2, <1>3

-----------------------------------------------------------------------------
(* All registers are freed.                                                *)

\* g is the state after each set of registers has been freed.
Chosen(S) == CHOOSE x \in S : TRUE
FreedStep(g, t, S) == IF S = {} THEN t ELSE free_register(g[S \ {Chosen(S)}], Chosen(S))
UpTo(n) == {S \in SUBSET X : Cardinality(S) <= n}
IsFreeing(g, t, D) == g = [S \in D |-> FreedStep(g, t, S)]

\* A set is smaller without one of its registers.
LEMMA Smaller ==
  ASSUME Here, NEW S \in SUBSET X, S # {}
  PROVE  /\ Chosen(S) \in S /\ S \ {Chosen(S)} \in SUBSET X
         /\ Cardinality(S) \in Nat \ {0} /\ Cardinality(S \ {Chosen(S)}) = Cardinality(S) - 1
<1>1. Chosen(S) \in S
  BY DEF Chosen
<1>2. IsFiniteSet(S)
  BY Numbers, FS_Subset
<1> DEFINE x == Chosen(S)
<1> HIDE DEF x
<1>3. Cardinality(S \ {x}) = Cardinality(S) - 1
  <2>1. x \in S
    BY <1>1 DEF x
  <2> QED
    BY <1>2, <2>1, FS_RemoveElement
<1>4. Cardinality(S) \in Nat /\ Cardinality(S) # 0
  BY <1>2, FS_CardinalityType, FS_EmptySet
<1> QED
  BY <1>1, <1>3, <1>4 DEF x

LEMMA FreeingUpTo ==
  ASSUME Here, NEW t, NEW n \in Nat
  PROVE  \E g : IsFreeing(g, t, UpTo(n))
<1> DEFINE Ok(m) == \E g : IsFreeing(g, t, UpTo(m))
           T == {m \in Nat : ~ Ok(m)}
<1>1. SUFFICES T = {}
  OBVIOUS
<1>2. SUFFICES ASSUME T # {}
               PROVE  FALSE
  OBVIOUS
<1>3. PICK m \in T : \A k \in T : m <= k
  <2>1. T \in SUBSET Nat
    OBVIOUS
  <2> HIDE DEF T
  <2> QED
    BY <1>2, <2>1, SmallestOf
<1>4. m \in Nat
  BY <1>3
<1>5. CASE m = 0
  <2> DEFINE g == [S \in UpTo(0) |-> t]
  <2>1. \A S \in UpTo(0) : S = {}
    <3> SUFFICES ASSUME NEW S \in SUBSET X, Cardinality(S) <= 0, S # {}
                 PROVE  FALSE
      BY DEF UpTo
    <3>1. Cardinality(S) \in Nat \ {0}
      BY Smaller
    <3> QED
      BY <3>1
  <2>2. \A S \in UpTo(0) : g[S] = FreedStep(g, t, S)
    BY <2>1 DEF FreedStep
  <2>3. g = [S \in UpTo(0) |-> FreedStep(g, t, S)]
    BY <2>2
  <2>4. Ok(0)
    BY <2>3 DEF IsFreeing
  <2> QED
    BY <1>3, <1>5, <2>4
<1>6. CASE m # 0
  <2>1. m - 1 \in Nat /\ ~ (m <= m - 1)
    BY <1>4, <1>6
  <2>2. Ok(m - 1)
    BY <1>3, <2>1
  <2> DEFINE D == UpTo(m - 1)
             E == UpTo(m)
  <2>3. PICK g : g = [S \in D |-> FreedStep(g, t, S)]
    BY <2>2 DEF IsFreeing
  <2> DEFINE h == [S \in E |-> FreedStep(g, t, S)]
  <2>4. \A S \in D : S \in E /\ h[S] = g[S]
    <3>1. \A S \in SUBSET X : Cardinality(S) <= m - 1 => Cardinality(S) <= m
      <4> SUFFICES ASSUME NEW S \in SUBSET X, Cardinality(S) <= m - 1
                   PROVE  Cardinality(S) <= m
        OBVIOUS
      <4>1. Cardinality(S) \in Nat
        BY Numbers, FS_Subset, FS_CardinalityType
      <4> QED
        BY <1>4, <4>1
    <3>2. \A S \in D : S \in E
      BY <3>1 DEF UpTo
    <3> HIDE DEF D, E
    <3>3. \A S \in D : g[S] = FreedStep(g, t, S)
      BY <2>3
    <3> QED
      BY <3>2, <3>3
  <2>5. \A S \in E : S # {} => S \ {Chosen(S)} \in D
    <3> SUFFICES ASSUME NEW S \in SUBSET X, Cardinality(S) <= m, S # {}
                 PROVE  S \ {Chosen(S)} \in D
      BY DEF UpTo
    <3>1. /\ S \ {Chosen(S)} \in SUBSET X /\ Cardinality(S) \in Nat
          /\ Cardinality(S \ {Chosen(S)}) = Cardinality(S) - 1
      BY Smaller
    <3>2. Cardinality(S \ {Chosen(S)}) <= m - 1
      BY <1>4, <3>1
    <3> QED
      BY <3>1, <3>2 DEF UpTo
  <2>6. \A S \in E : h[S] = FreedStep(h, t, S)
    <3> SUFFICES ASSUME NEW S \in E
                 PROVE  h[S] = FreedStep(h, t, S)
      OBVIOUS
    <3>1. h[S] = FreedStep(g, t, S)
      OBVIOUS
    <3>2. S # {} => h[S \ {Chosen(S)}] = g[S \ {Chosen(S)}]
      BY <2>4, <2>5
    <3> HIDE DEF h
    <3> QED
      BY <3>1, <3>2 DEF FreedStep
  <2>7. h = [S \in E |-> FreedStep(h, t, S)]
    <3>1. h = [S \in E |-> h[S]]
      OBVIOUS
    <3> HIDE DEF h, E
    <3> QED
      BY <2>6, <3>1
  <2>8. Ok(m)
    BY <2>7 DEF IsFreeing
  <2> QED
    BY <1>3, <2>8
<1> QED
  BY <1>5, <1>6

LEMMA FreeingExists ==
  ASSUME Here, NEW t
  PROVE  \E g : /\ IsFreeing(g, t, SUBSET X) /\ free_all_registers(t) = g[X]
<1> DEFINE n == Cardinality(X)
           g == CHOOSE f : IsFreeing(f, t, SUBSET X)
<1>1. UpTo(n) = SUBSET X
  <2>1. \A S \in SUBSET X : Cardinality(S) <= n
    BY Numbers, FS_Subset
  <2> QED
    BY <2>1 DEF UpTo
<1>2. n \in Nat
  BY Numbers, FS_CardinalityType
<1>3. \E f : IsFreeing(f, t, SUBSET X)
  <2>1. \E f : IsFreeing(f, t, UpTo(n))
    BY <1>2, FreeingUpTo
  <2> QED
    BY <1>1, <2>1
<1>4. IsFreeing(g, t, SUBSET X)
  BY <1>3
<1>5. free_all_registers(t) = g[X]
  BY DEF free_all_registers, FoldSet, MapThenFoldSet, IsFreeing, FreedStep, Chosen
<1> QED
  BY <1>4, <1>5

\* From t to u the registers S are freed, and maybe others.
Cleared(t, u, S) ==
  /\ Good(u, {}) /\ u.narrow = t.narrow /\ u.v = t.v
  /\ \A y \in S : ~Live(u, y) /\ u.free_since[y] = dst + 1

LEMMA ClearedMore ==
  ASSUME Here, NEW t, NEW u, NEW S \in SUBSET X, NEW x \in X, Cleared(t, u, S)
  PROVE  Cleared(t, free_register(u, x), S \cup {x})
<1> DEFINE a == free_register(u, x)
           Z == Group(u, x)
<1>1. Good(u, {})
  BY DEF Cleared
<1>2. Frees(u, a, Z) /\ Good(a, {})
  <2> DEFINE m == free_register(u, x)
  <2>1. Group(u, x) \cap {} = {}
    OBVIOUS
  <2>2. Frees(u, m, Group(u, x)) /\ Good(m, {}) /\ Group(u, x) \subseteq X
    BY <1>1, <2>1, FreeRegister
  <2> QED
    BY <2>2
<1>3. x \in Z
  BY DEF Group
<1> HIDE DEF a, Z
<1>4. a.narrow = t.narrow /\ a.v = t.v
  BY <1>2 DEF Frees, Only, Fields, Cleared
<1>5. \A y \in S \cup {x} : ~Live(a, y) /\ a.free_since[y] = dst + 1
  BY <1>2, <1>3 DEF Frees, Live, Cleared
<1> QED
  BY <1>2, <1>4, <1>5 DEF Cleared, a

\* free_all_registers(): no register is live, and memory has all.
LEMMA FreeAllGood ==
  ASSUME Here, NEW t, Good(t, {})
  PROVE  LET u == free_all_registers(t) IN
         Cleared(t, u, X) /\ \A w \in Word : u.mem[w]
<1>1. PICK g : IsFreeing(g, t, SUBSET X) /\ free_all_registers(t) = g[X]
  BY FreeingExists
<1> DEFINE Ok(S) == Cleared(t, g[S], S)
           T == {Cardinality(S) : S \in {R \in SUBSET X : ~Ok(R)}}
<1>2. \A S \in SUBSET X : g[S] = FreedStep(g, t, S)
  BY <1>1 DEF IsFreeing
<1>3. T = {}
  <2> SUFFICES ASSUME T # {}
               PROVE  FALSE
    OBVIOUS
  <2>1. T \in SUBSET Nat
    BY Numbers, FS_Subset, FS_CardinalityType
  <2>2. PICK m \in T : \A k \in T : m <= k
    <3> HIDE DEF T
    <3> QED
      BY <2>1, SmallestOf
  <2>3. PICK S \in SUBSET X : ~Ok(S) /\ m = Cardinality(S)
    BY <2>2
  <2>4. S # {}
    <3> SUFFICES ASSUME S = {}
                 PROVE  FALSE
      OBVIOUS
    <3>1. g[S] = t
      BY <1>2 DEF FreedStep
    <3> QED
      BY <2>3, <3>1 DEF Cleared
  <2> DEFINE x == Chosen(S)
             R == S \ {x}
  <2>5. x \in S /\ R \in SUBSET X /\ Cardinality(S) \in Nat /\ Cardinality(R) = Cardinality(S) - 1
    BY <2>4, Smaller
  <2>6. Ok(R)
    <3> SUFFICES ASSUME ~Ok(R)
                 PROVE  FALSE
      OBVIOUS
    <3>1. Cardinality(R) \in T
      BY <2>5
    <3>2. m <= Cardinality(R)
      BY <2>2, <3>1
    <3> QED
      BY <2>3, <2>5, <3>2
  <2>7. g[S] = free_register(g[R], x)
    BY <1>2, <2>4 DEF FreedStep
  <2>8. Cleared(t, free_register(g[R], x), R \cup {x})
    <3> HIDE DEF R, x
    <3>1. x \in X
      BY <2>5
    <3> QED
      BY <2>5, <2>6, <3>1, ClearedMore
  <2>9. R \cup {x} = S
    BY <2>5
  <2> QED
    BY <2>3, <2>7, <2>8, <2>9
<1>4. Ok(X)
  <2>1. X \in SUBSET X
    OBVIOUS
  <2> QED
    BY <1>3, <2>1
<1> DEFINE u == free_all_registers(t)
<1>5. Cleared(t, u, X)
  BY <1>1, <1>4
<1> HIDE DEF u
<1>6. \A w \in Word : u.mem[w]
  BY <1>5 DEF Cleared, Good, Core, MemOK, Backs
<1> QED
  BY <1>5, <1>6 DEF u

-----------------------------------------------------------------------------
(* Code that works on memory.                                              *)

\* Nothing is in a register, everything in memory.
Bare(t) == (\A y \in X : ~Live(t, y)) /\ (\A w \in Word : t.mem[w])

\* Words in memory are read there.
LEMMA FromMemorySame ==
  ASSUME Here, NEW t \in States, NEW ws \in SUBSET Word, \A w \in ws : t.mem[w]
  PROVE  FromMemory(t, ws) = t
<1>1. {w \in ws : ~t.mem[w]} = {}
  OBVIOUS
<1>2. FromMemory(t, ws) = [t EXCEPT !.wrong = t.wrong]
  <2> DEFINE z == {w \in ws : ~t.mem[w]}
  <2>1. t.wrong \cup z = t.wrong
    BY <1>1
  <2> QED
    BY <2>1 DEF FromMemory
<1>3. [t EXCEPT !.wrong = t.wrong] = t
  BY DEF States
<1> QED
  BY <1>2, <1>3

\* simplify_access(): where the block is entered nothing is needed.
LEMMA SimplifyGood ==
  ASSUME Here, NEW t, Good(t, {}), Bare(t)
  PROVE  LET u == simplify_access(t) IN
         /\ Good(u, {}) /\ Bare(u) /\ u.v = t.v /\ u.narrow \in {t.narrow, session.narrow}
<1> DEFINE u == simplify_access(t)
<1>1. t \in States /\ \A y \in X : t.last_access[y] <= dst
  BY DEF Good, Core
<1>2. CASE dst # entry
  BY <1>2 DEF simplify_access
<1>3. CASE dst = entry
  <2> DEFINE c == [t EXCEPT !.needed = [x \in X |-> NoWord]]
  <2>1. c \in States /\ Only(t, c, {"needed"}) /\ c.needed = [x \in X |-> NoWord]
    BY <1>1 DEF States, Only, Fields
  <2> HIDE DEF c
  <2>2. /\ u \in States
        /\ u.last_access = t.last_access /\ u.v = t.v
        /\ u.narrow \in {t.narrow, session.narrow} /\ u.wrong = {} /\ \A w \in Word : u.mem[w]
        /\ Running => u.loads = [x \in X |-> NoWord]
    <3>1. u = Simplest(c)
      BY <1>3 DEF simplify_access, c
    <3>2. CASE slot
      <4>1. u = c /\ ~Running
        BY <1>3, <3>1, <3>2 DEF Simplest, Running, Here
      <4>2. t.wrong = {}
        BY DEF Good, Core
      <4> QED
        BY <2>1, <4>1, <4>2 DEF Only, Fields, Bare
    <3>3. CASE ~slot
      <4>1. u = Started(c)
        BY <3>1, <3>3 DEF Simplest
      <4>2. c.last_access = t.last_access /\ c.v = t.v
        BY <2>1 DEF Only, Fields
      <4>3. /\ u.last_access = c.last_access /\ u.v = c.v
            /\ u.narrow = session.narrow /\ u.wrong = {} /\ u.loads = [x \in X |-> NoWord]
            /\ u.mem = [w \in Word |-> TRUE] /\ u \in States
        <5>1. /\ Only(c, u, {"hold", "loads", "mem", "narrow", "wrong"})
              /\ u.hold = [x \in X |-> Loaded] /\ u.loads = [x \in X |-> NoWord]
              /\ u.mem = [w \in Word |-> TRUE] /\ u.narrow = session.narrow /\ u.wrong = {}
              /\ DOMAIN u = DOMAIN c
              /\ u = [f \in DOMAIN c |-> u[f]]
          BY <2>1, <4>1 DEF Started, States, Only, Fields
        <5>2. u.last_access = c.last_access /\ u.v = c.v
          BY <5>1 DEF Only, Fields
        <5>3. u \in States
          <6>1. session.narrow \in SUBSET (Regs \cup session.narrow)
            OBVIOUS
          <6>2. /\ [x \in X |-> Loaded] \in [X -> Held] /\ [w \in Word |-> TRUE] \in [Word -> BOOLEAN]
                /\ [x \in X |-> NoWord] \in [X -> Word \cup {NoWord}]
            BY DEF Held
          <6> QED
            BY <2>1, <4>1, <6>1, <6>2 DEF Started, States
        <5> QED
          BY <5>1, <5>2, <5>3
      <4> QED
        BY <4>2, <4>3
    <3> QED
      BY <3>2, <3>3
  <2> HIDE DEF u
  <2>3. \A y \in X : ~Live(u, y)
    BY <2>2 DEF Live, Bare
  <2>4. Core(u, dst, Running)
    <3>1. PairsOK(u) /\ Distinct(u)
      BY <2>3 DEF PairsOK, Distinct
    <3>2. MemOK(u)
      BY <2>2 DEF MemOK
    <3>3. Running => LoadsOK(u)
      BY <2>2 DEF LoadsOK
    <3> QED
      BY <1>1, <2>2, <3>1, <3>2, <3>3 DEF Core
  <2>5. \A y \in X : Fit(u, y, Running)
    BY <2>3 DEF Fit
  <2> QED
    BY <2>2, <2>3, <2>4, <2>5 DEF Good, Bare, u
<1> QED
  BY <1>2, <1>3

\* Registers are freed, and words read from memory.
LEMMA SimplifiedGood ==
  ASSUME Here, NEW t, Good(t, {}), NEW ws \in SUBSET Word
  PROVE  LET u == FromMemory(simplify_access(free_all_registers(t)), ws) IN
         /\ Good(u, {}) /\ Bare(u) /\ u.v = t.v /\ u.narrow \in {t.narrow, session.narrow}
<1> DEFINE a == free_all_registers(t)
<1>1. Cleared(t, a, X) /\ \A w \in Word : a.mem[w]
  BY FreeAllGood
<1> HIDE DEF a
<1>2. Good(a, {}) /\ Bare(a) /\ a.v = t.v /\ a.narrow = t.narrow
  BY <1>1 DEF Cleared, Bare
<1> DEFINE b == simplify_access(a)
<1>3. Good(b, {}) /\ Bare(b) /\ b.v = a.v /\ b.narrow \in {a.narrow, session.narrow}
  BY <1>2, SimplifyGood
<1> HIDE DEF b
<1>4. FromMemory(b, ws) = b
  BY <1>3, FromMemorySame DEF Bare, Good, Core
<1> QED
  BY <1>2, <1>3, <1>4 DEF a, b

\* An idle register is said to have a new value of w.
LEMMA SetPlaces ==
  ASSUME Here, NEW t \in States, NEW x \in X, NEW w \in Word
  PROVE  LET u == set_register_state(t, x, w) IN
         /\ u \in States /\ Only(t, u, {"last_access", "reg_content", "dirty", "r64"})
         /\ u.last_access = [t.last_access EXCEPT ![x] = dst]
         /\ u.reg_content = [t.reg_content EXCEPT ![x] = w]
         /\ u.dirty = [t.dirty EXCEPT ![x] = TRUE]
         /\ u.r64 = [t.r64 EXCEPT ![x] = None]
<1>1. dst \in Nat
  BY Numbers
<1> QED
  BY <1>1 DEF set_register_state, States, Only, Fields

\* From t to u it is; those in the making stay.
Sets(t, u, P, x, w) ==
  /\ Good(u, P \cup {x}) /\ Accessed(u, x) /\ ~Paired(u, x) /\ u.dirty[x] = TRUE /\ u.reg_content[x] = w
  /\ \A y \in X \ {x} : u.last_access[y] = t.last_access[y] /\ u.reg_content[y] = t.reg_content[y]
                        /\ u.dirty[y] = t.dirty[y] /\ u.r64[y] = t.r64[y]
  /\ u.v = t.v /\ u.narrow = t.narrow

LEMMA SetGood ==
  ASSUME Here, NEW t, NEW P, Good(t, P), NEW x \in X, NEW w \in Word, ~Live(t, x), Absent(t, w)
  PROVE  Sets(t, set_register_state(t, x, w), P, x, w)
<1> DEFINE u == set_register_state(t, x, w)
<1>1. t \in States
  BY DEF Good, Core
<1>2. /\ u \in States /\ Only(t, u, {"last_access", "reg_content", "dirty", "r64"})
      /\ u.last_access = [t.last_access EXCEPT ![x] = dst]
      /\ u.reg_content = [t.reg_content EXCEPT ![x] = w]
      /\ u.dirty = [t.dirty EXCEPT ![x] = TRUE]
      /\ u.r64 = [t.r64 EXCEPT ![x] = None]
  BY <1>1, SetPlaces
<1> HIDE DEF u
<1>3. /\ \A y \in X \ {x} : u.last_access[y] = t.last_access[y] /\ u.reg_content[y] = t.reg_content[y]
                            /\ u.dirty[y] = t.dirty[y] /\ u.r64[y] = t.r64[y]
      /\ u.last_access[x] = dst /\ u.reg_content[x] = w /\ u.dirty[x] = TRUE /\ u.r64[x] = None
  BY <1>1, <1>2 DEF States
<1>4. u.hold = t.hold /\ u.v = t.v /\ u.narrow = t.narrow
  BY <1>2 DEF Only, Fields
<1>5. Places(t, u, x, w)
  <2>1. Only(t, u, {"last_access", "reg_content", "dirty", "r64", "hold"})
    BY <1>2 DEF Only
  <2> QED
    BY <1>2, <1>3, <1>4, <2>1 DEF Places
<1>6. Good(u, P \cup {x})
  BY <1>5, PlacesGood DEF Absent
<1>7. Accessed(u, x) /\ ~Paired(u, x)
  BY <1>3 DEF Accessed, Paired
<1>8. Sets(t, u, P, x, w)
  BY <1>3, <1>4, <1>6, <1>7 DEF Sets
<1> QED
  BY <1>8 DEF u

\* set_register_state() and set_64_register_state(), nothing being cached.
LEMMA Set32Good ==
  ASSUME Here, NEW t, NEW P, P = {}, Good(t, P), Bare(t), NEW r \in Regs, NEW x \in X
  PROVE  LET u == At(set_register_state(t, x, Lo(r)), x) IN
         /\ Good(u, {x}) /\ Made32(u, x, r) /\ u.x = x /\ u.v = t.v /\ u.narrow = t.narrow
<1> DEFINE a == set_register_state(t, x, Lo(r))
<1>1. Lo(r) \in Word
  BY Words
<1>2. Sets(t, a, P, x, Lo(r))
  <2>1. ~Live(t, x) /\ Absent(t, Lo(r))
    BY DEF Bare, Absent
  <2> QED
    BY <1>1, <2>1, SetGood
<1> HIDE DEF a
<1>3. Good(a, {x}) /\ Made32(a, x, r) /\ a.v = t.v /\ a.narrow = t.narrow
  <2>1. P \cup {x} = {x}
    OBVIOUS
  <2> QED
    BY <1>2, <2>1 DEF Sets, Made32
<1> DEFINE u == At(a, x)
<1>4. Good(u, {x}) /\ Only(a, u, {"x"}) /\ u.x = x
  BY <1>3, AtGood
<1> HIDE DEF u
<1>5. Made32(u, x, r) /\ u.v = a.v /\ u.narrow = a.narrow
  BY <1>3, <1>4 DEF Only, Fields, Made32, Accessed, Paired
<1> QED
  BY <1>3, <1>4, <1>5 DEF u, a

\* x1 and x2 alone are in use in u, to become the words of r.
Becomes64(t, u, x1, x2, r) ==
  /\ Good(u, {x1, x2}) /\ Made64(u, x1, x2, r)
  /\ u.x = x1 /\ u.v = t.v /\ u.narrow = t.narrow

LEMMA Set64Good ==
  ASSUME Here, NEW t, Good(t, {}), Bare(t), NEW r \in Regs, NEW x1 \in X, NEW x2 \in X,
         x1 # x2, Pairs(session)
  PROVE  Becomes64(t, At(set_64_register_state(t, x1, x2, r), x1), x1, x2, r)
<1> DEFINE P == {}
           a == set_register_state(t, x1, Lo(r))
<1>1. Lo(r) \in Word /\ Hi(r) \in Word /\ Lo(r) # Hi(r)
  BY Words
<1>2. Sets(t, a, P, x1, Lo(r))
  <2>1. ~Live(t, x1) /\ Absent(t, Lo(r))
    BY DEF Bare, Absent
  <2> QED
    BY <1>1, <2>1, SetGood
<1> HIDE DEF a
<1> DEFINE Q == P \cup {x1}
<1>3. Good(a, Q) /\ ~Live(a, x2) /\ Absent(a, Hi(r))
  BY <1>1, <1>2 DEF Bare, Absent, Live, Sets
<1> DEFINE b == set_register_state(a, x2, Hi(r))
<1>4. Sets(a, b, Q, x2, Hi(r))
  <2> HIDE DEF Q
  <2> QED
    BY <1>1, <1>3, SetGood
<1> HIDE DEF b
<1> DEFINE R == {x1, x2}
<1>5. /\ Good(b, R) /\ Accessed(b, x1) /\ ~Paired(b, x1) /\ b.dirty[x1] = TRUE /\ b.reg_content[x1] = Lo(r)
      /\ Accessed(b, x2) /\ ~Paired(b, x2) /\ b.dirty[x2] = TRUE /\ b.reg_content[x2] = Hi(r)
      /\ b.v = t.v /\ b.narrow = t.narrow
  <2>1. Q \cup {x2} = R
    OBVIOUS
  <2> QED
    BY <1>2, <1>4, <2>1 DEF Sets, Accessed, Paired
<1> DEFINE c == Pair(b, x1, x2)
<1> HIDE DEF R
<1>6. Good(c, R) /\ Only(b, c, {"r64"}) /\ c.r64[x1] = x2 /\ c.r64[x2] = x1
  <2>1. b.dirty[x1] = b.dirty[x2]
    BY <1>5
  <2>2. /\ Good(c, R) /\ Only(b, c, {"r64"})
        /\ c.r64 = [b.r64 EXCEPT ![x1] = x2, ![x2] = x1]
        /\ c.r64[x1] = x2 /\ c.r64[x2] = x1
    BY <1>5, <2>1, PairGood
  <2> QED
    BY <2>2
<1> HIDE DEF c
<1>7. Made64(c, x1, x2, r) /\ c.v = b.v /\ c.narrow = b.narrow
  BY <1>5, <1>6 DEF Only, Fields, Made64, Accessed
<1> DEFINE u == At(c, x1)
<1>8. Good(u, R) /\ Only(c, u, {"x"}) /\ u.x = x1
  BY <1>6, AtGood
<1> HIDE DEF u
<1>9. Made64(u, x1, x2, r) /\ u.v = c.v /\ u.narrow = c.narrow
  BY <1>7, <1>8 DEF Only, Fields, Made64, Accessed
<1>10. u = At(set_64_register_state(t, x1, x2, r), x1)
  BY DEF u, c, b, a, set_64_register_state
<1>11. Becomes64(t, u, x1, x2, r)
  BY <1>5, <1>7, <1>8, <1>9 DEF R, Becomes64
<1> QED
  BY <1>10, <1>11

-----------------------------------------------------------------------------
(* The calls of an instruction, one after the other.                       *)

\* g is the state after the calls whose numbers are in a set.
EmitStep(g, t, code, S) == IF S = {} THEN t ELSE Call(g[S \ {Max(S)}], code[Max(S)])
IsEmitting(g, t, code, D) == g = [S \in D |-> EmitStep(g, t, code, S)]

LEMMA MaxOf ==
  ASSUME NEW m \in Nat, NEW S \in SUBSET (1 .. m), S # {}
  PROVE  Max(S) \in S /\ \A y \in S : y <= Max(S)
<1> DEFINE T == {m - y : y \in S}
<1>1. T \in SUBSET Nat /\ T # {}
  <2>1. \A y \in S : y \in Nat /\ y <= m
    OBVIOUS
  <2>2. \A y \in S : m - y \in Nat
    BY <2>1
  <2>3. PICK z \in S : TRUE
    OBVIOUS
  <2>4. m - z \in T
    BY <2>3
  <2> QED
    BY <2>2, <2>4
<1>2. PICK k \in T : \A i \in T : k <= i
  <2> HIDE DEF T
  <2> QED
    BY <1>1, SmallestOf
<1>3. PICK x \in S : k = m - x
  BY <1>2
<1>4. \A y \in S : x >= y
  <2> SUFFICES ASSUME NEW y \in S
               PROVE  x >= y
    OBVIOUS
  <2>1. m - x <= m - y
    BY <1>2, <1>3
  <2>2. x \in Nat /\ y \in Nat
    OBVIOUS
  <2> QED
    BY <2>1, <2>2
<1>5. Max(S) \in S /\ \A y \in S : Max(S) >= y
  BY <1>4 DEF Max
<1>6. \A y \in S : y \in Nat
  OBVIOUS
<1> QED
  BY <1>5, <1>6

LEMMA MaxOfAll ==
  ASSUME NEW m \in Nat, m # 0
  PROVE  Max(1 .. m) = m /\ (1 .. m) \ {Max(1 .. m)} = 1 .. m - 1
<1>1. m \in 1 .. m
  OBVIOUS
<1> DEFINE S == 1 .. m
           x == Max(S)
<1>2. x \in S /\ \A y \in S : y <= x
  BY <1>1, MaxOf
<1> HIDE DEF x
<1>3. x = m
  BY <1>1, <1>2
<1>4. (1 .. m) \ {m} = 1 .. m - 1
  OBVIOUS
<1> QED
  BY <1>3, <1>4 DEF x

LEMMA EmittingExists ==
  ASSUME NEW t, NEW code, NEW n \in Nat
  PROVE  \E g : IsEmitting(g, t, code, SUBSET (1 .. n))
<1> DEFINE Ok(m) == \E g : IsEmitting(g, t, code, SUBSET (1 .. m))
           T == {m \in Nat : ~ Ok(m)}
<1>1. SUFFICES T = {}
  OBVIOUS
<1>2. SUFFICES ASSUME T # {}
               PROVE  FALSE
  OBVIOUS
<1>3. PICK m \in T : \A k \in T : m <= k
  <2>1. T \in SUBSET Nat
    OBVIOUS
  <2> HIDE DEF T
  <2> QED
    BY <1>2, <2>1, SmallestOf
<1>4. m \in Nat
  BY <1>3
<1>5. CASE m = 0
  <2> DEFINE D == SUBSET (1 .. 0)
             g == [S \in D |-> t]
  <2>1. \A S \in D : S = {}
    OBVIOUS
  <2>2. \A S \in D : g[S] = EmitStep(g, t, code, S)
    BY <2>1 DEF EmitStep
  <2>3. g = [S \in D |-> EmitStep(g, t, code, S)]
    BY <2>2
  <2>4. Ok(0)
    BY <2>3 DEF IsEmitting
  <2> QED
    BY <1>3, <1>5, <2>4
<1>6. CASE m # 0
  <2>1. m - 1 \in Nat /\ ~ (m <= m - 1)
    BY <1>4, <1>6
  <2>2. Ok(m - 1)
    BY <1>3, <2>1
  <2> DEFINE D == SUBSET (1 .. m - 1)
             E == SUBSET (1 .. m)
  <2>3. PICK g : g = [S \in D |-> EmitStep(g, t, code, S)]
    BY <2>2 DEF IsEmitting
  <2> DEFINE h == [S \in E |-> EmitStep(g, t, code, S)]
  <2>4. \A S \in D : S \in E /\ h[S] = g[S]
    <3>1. \A S \in D : S \in E
      BY <1>4
    <3> HIDE DEF D, E
    <3>2. \A S \in D : g[S] = EmitStep(g, t, code, S)
      BY <2>3
    <3> QED
      BY <3>1, <3>2
  <2>5. \A S \in E : S # {} => S \ {Max(S)} \in D
    <3> SUFFICES ASSUME NEW S \in SUBSET (1 .. m), S # {}
                 PROVE  \A y \in S \ {Max(S)} : y \in 1 .. m - 1
      OBVIOUS
    <3>1. Max(S) \in S /\ \A y \in S : y <= Max(S)
      BY <1>4, MaxOf
    <3> DEFINE x == Max(S)
    <3> HIDE DEF x
    <3>2. x \in 1 .. m /\ \A y \in S : y <= x /\ y \in 1 .. m
      BY <3>1 DEF x
    <3> QED
      BY <1>4, <3>2 DEF x
  <2>6. \A S \in E : h[S] = EmitStep(h, t, code, S)
    <3> SUFFICES ASSUME NEW S \in E
                 PROVE  h[S] = EmitStep(h, t, code, S)
      OBVIOUS
    <3>1. h[S] = EmitStep(g, t, code, S)
      OBVIOUS
    <3>2. S # {} => h[S \ {Max(S)}] = g[S \ {Max(S)}]
      BY <2>4, <2>5
    <3> HIDE DEF h
    <3> QED
      BY <3>1, <3>2 DEF EmitStep
  <2>7. h = [S \in E |-> EmitStep(h, t, code, S)]
    <3>1. h = [S \in E |-> h[S]]
      OBVIOUS
    <3> HIDE DEF h, E
    <3> QED
      BY <2>6, <3>1
  <2>8. Ok(m)
    BY <2>7 DEF IsEmitting
  <2> QED
    BY <1>3, <2>8
<1> QED
  BY <1>5, <1>6

\* f[k] is the state after the first k calls.
Emits(f, t, code) ==
  /\ f[0] = t /\ Emitted(t, code) = f[Len(code)]
  /\ \A k \in 1 .. Len(code) : f[k] = Call(f[k - 1], code[k])

LEMMA EmittedBy ==
  ASSUME NEW t, NEW code, Len(code) \in Nat, DOMAIN code = 1 .. Len(code)
  PROVE  \E f : Emits(f, t, code)
<1> DEFINE n == Len(code)
           g == CHOOSE f : IsEmitting(f, t, code, SUBSET (1 .. n))
           f == [k \in 0 .. n |-> g[1 .. k]]
<1>1. IsEmitting(g, t, code, SUBSET (1 .. n))
  BY EmittingExists
<1>2. Emitted(t, code) = g[1 .. n]
  BY DEF Emitted, FoldLeft, MapThenFoldSet, IsEmitting, EmitStep
<1> HIDE DEF g
<1>3. \A S \in SUBSET (1 .. n) : g[S] = EmitStep(g, t, code, S)
  BY <1>1 DEF IsEmitting
<1>4. f[0] = t
  <2>1. 1 .. 0 = {} /\ 0 \in 0 .. n
    OBVIOUS
  <2>2. g[{}] = t
    BY <1>3 DEF EmitStep
  <2> QED
    BY <2>1, <2>2
<1>5. \A k \in 1 .. n : f[k] = Call(f[k - 1], code[k])
  <2> SUFFICES ASSUME NEW k \in 1 .. n
               PROVE  f[k] = Call(f[k - 1], code[k])
    OBVIOUS
  <2>1. k \in Nat /\ k # 0 /\ k \in 0 .. n /\ k - 1 \in 0 .. n
    OBVIOUS
  <2>2. 1 .. k \in SUBSET (1 .. n) /\ 1 .. k # {}
    <3>1. n \in Nat
      OBVIOUS
    <3> HIDE DEF n
    <3>2. \A i \in 1 .. k : i \in 1 .. n
      BY <3>1
    <3>3. 1 \in 1 .. k
      BY <2>1
    <3> QED
      BY <3>2, <3>3
  <2>3. g[1 .. k] = Call(g[(1 .. k) \ {Max(1 .. k)}], code[Max(1 .. k)])
    BY <1>3, <2>2 DEF EmitStep
  <2>4. Max(1 .. k) = k /\ (1 .. k) \ {Max(1 .. k)} = 1 .. k - 1
    BY <2>1, MaxOfAll
  <2>5. g[1 .. k] = Call(g[1 .. k - 1], code[k])
    BY <2>3, <2>4
  <2> QED
    BY <2>1, <2>5
<1>6. f[n] = g[1 .. n]
  OBVIOUS
<1> HIDE DEF f
<1>7. Emits(f, t, code)
  BY <1>2, <1>4, <1>5, <1>6 DEF Emits
<1> QED
  BY <1>7

-----------------------------------------------------------------------------
(* The invariant.                                                          *)

\* The sessions, as LimitsOf has it.
Limits == \A f \in Sessions : LimitsOf(f)

\* The state between instructions; d is the last one that was compiled.
Between(t, d, run) ==
  /\ Core(t, d, run) /\ NarrowOK(t) /\ t.v = <<>>
  /\ \A x \in X : Fit(t, x, run)
  /\ run \/ t.loads = [x \in X |-> NoWord]

IInv ==
  /\ session \in Sessions /\ entry \in session.entries /\ dst \in Nat \ {0} /\ slot \in BOOLEAN
  /\ slot => dst > 1
  /\ Between(s, dst - 1, entry <= dst - 1)
  /\ dst = 1 => \A x \in X : ~Live(s, x)

-----------------------------------------------------------------------------
(* Registers that the calls return.                                        *)

\* v[k] is a register for the low word of r, or for its upper word.
ReadBy(t, k, r) == Ready(t, t.v[k][1], Lo(r)) /\ Accessed(t, t.v[k][1])
ReadHi(t, k, r) == Ready(t, t.v[k][2], Hi(r)) /\ Accessed(t, t.v[k][2])
\* ... or for both.
ReadBoth(t, k, r) ==
  /\ ReadBy(t, k, r) /\ ReadHi(t, k, r)
  /\ Paired(t, t.v[k][1]) /\ t.r64[t.v[k][1]] = t.v[k][2]

\* Registers that were returned.
Past(t) == 1 .. Len(t.v)
Adds(t, u) == /\ Len(u.v) = Len(t.v) + 1
              /\ \A k \in Past(t) : u.v[k] = t.v[k]

\* From t to u the registers that have been returned are kept.
Keeps(t, u) == \A k \in Past(t), r \in Regs :
  /\ ReadBy(t, k, r) => ReadBy(u, k, r)
  /\ ReadHi(t, k, r) => ReadHi(u, k, r)
  /\ ReadBoth(t, k, r) => ReadBoth(u, k, r)

\* An instruction that has accessed n registers, none in the making.
Opened(t, n) == Good(t, {}) /\ Room(t, n) /\ NarrowOK(t)

LEMMA NewGood ==
  ASSUME Here, NEW t, NEW P, Good(t, P), t.x \in X
  PROVE  LET u == New(t) IN
         /\ Good(u, P) /\ Only(t, u, {"v"}) /\ Adds(t, u)
         /\ u.v[Len(t.v) + 1] = <<t.x, t.r64[t.x]>>
<1> DEFINE u == New(t)
           e == <<t.x, t.r64[t.x]>>
           S == X \X (X \cup {None})
<1>1. t \in States
  BY DEF Good, Core
<1>2. e \in S /\ t.v \in Seq(S)
  BY <1>1 DEF States
<1> HIDE DEF e, S
<1> DEFINE v == Append(t.v, e)
<1>3. /\ v \in Seq(S) /\ Len(v) = Len(t.v) + 1 /\ v[Len(t.v) + 1] = e
      /\ \A k \in 1 .. Len(t.v) : v[k] = t.v[k]
  BY <1>2, AppendProperties
<1> HIDE DEF v
<1>4. u \in States /\ Only(t, u, {"v"}) /\ u.v = v
  <2>1. u = [t EXCEPT !.v = v]
    BY DEF New, v, e
  <2> QED
    BY <1>1, <1>3, <2>1 DEF States, Only, Fields, S
<1> HIDE DEF u
<1>5. Good(u, P)
  <2>1. Only(t, u, {"x", "v"})
    BY <1>4 DEF Only
  <2> QED
    BY <1>4, <2>1, GoodSame
<1>6. Adds(t, u)
  BY <1>3, <1>4 DEF Adds, Past
<1> QED
  BY <1>3, <1>4, <1>5, <1>6 DEF u, e

\* What is returned is not looked at.
LEMMA NewSame ==
  ASSUME NEW t, NEW u, Only(t, u, {"v"})
  PROVE  /\ Used(u) = Used(t) /\ u.narrow = t.narrow /\ u.r64 = t.r64
         /\ \A y : /\ Accessed(u, y) = Accessed(t, y) /\ Paired(u, y) = Paired(t, y)
                   /\ \A w : Ready(u, y, w) = Ready(t, y, w)
<1>1. /\ u.last_access = t.last_access /\ u.r64 = t.r64 /\ u.hold = t.hold /\ u.needed = t.needed
      /\ u.free_since = t.free_since /\ u.narrow = t.narrow /\ u.reg_content = t.reg_content
  BY DEF Only, Fields
<1> QED
  BY <1>1 DEF Used, Accessed, Paired, Ready, Told, Live

\* Registers are kept where what has been accessed stays.
LEMMA StaysKeeps ==
  ASSUME Here, NEW t, NEW a, NEW u, NEW P, Stays(t, a, P), Only(a, u, {"v"}), Adds(a, u)
  PROVE  Adds(t, u) /\ Keeps(t, u)
<1>1. a.v = t.v
  BY DEF Stays
<1>2. Adds(t, u)
  BY <1>1 DEF Adds, Past
<1>3. ASSUME NEW y \in X, NEW w \in Word, Accessed(t, y), Ready(t, y, w)
      PROVE  Ready(u, y, w) /\ Accessed(u, y) /\ (Paired(t, y) => Paired(u, y) /\ u.r64[y] = t.r64[y])
  <2>1. Ready(a, y, w) /\ Accessed(a, y) /\ (Paired(t, y) => a.r64[y] = t.r64[y])
    BY <1>3 DEF Stays
  <2>2. Ready(u, y, w) /\ Accessed(u, y) /\ u.r64 = a.r64
    BY <2>1, NewSame
  <2> QED
    BY <2>1, <2>2 DEF Paired
<1>4. Keeps(t, u)
  <2> SUFFICES ASSUME NEW k \in Past(t), NEW r \in Regs
               PROVE  /\ ReadBy(t, k, r) => ReadBy(u, k, r)
                      /\ ReadHi(t, k, r) => ReadHi(u, k, r)
                      /\ ReadBoth(t, k, r) => ReadBoth(u, k, r)
    BY DEF Keeps
  <2>1. u.v[k] = t.v[k]
    BY <1>2 DEF Adds
  <2>2. Lo(r) \in Word /\ Hi(r) \in Word
    BY Words
  <2>3. ReadBy(t, k, r) => ReadBy(u, k, r)
    BY <1>3, <2>1, <2>2 DEF ReadBy, Ready
  <2>4. ReadHi(t, k, r) => ReadHi(u, k, r)
    BY <1>3, <2>1, <2>2 DEF ReadHi, Ready
  <2>5. ReadBoth(t, k, r) => Paired(u, t.v[k][1]) /\ u.r64[t.v[k][1]] = t.r64[t.v[k][1]]
    BY <1>3, <2>2 DEF ReadBoth, ReadBy, Ready
  <2> QED
    BY <2>1, <2>3, <2>4, <2>5 DEF ReadBoth
<1> QED
  BY <1>2, <1>4

\* A call returns a register for the low word of r.
LEMMA R32Call ==
  ASSUME Here, NEW t, NEW P, Good(t, P), NEW r \in Regs, NEW n \in Nat, Room(t, n), Apart(t, P, r),
         n < Cardinality(X) \/ Cached(t, Lo(r)),
         Testing(session) => r \in t.narrow \/ Cached(t, Lo(r))
  PROVE  LET u == Call(t, R32(r)) IN
         /\ Good(u, P) /\ Room(u, n + Two(session)) /\ Adds(t, u) /\ Keeps(t, u)
         /\ ReadBy(u, Len(t.v) + 1, r) /\ u.narrow = t.narrow
         /\ \A y \in P : Accessed(t, y) => /\ u.reg_content[y] = t.reg_content[y]
                                           /\ u.dirty[y] = t.dirty[y] /\ u.r64[y] = t.r64[y]
<1> DEFINE a == allocate_register(t, Lo(r))
<1>1. /\ a.x \in X /\ Good(a, P) /\ Ready(a, a.x, Lo(r)) /\ Accessed(a, a.x)
      /\ Stays(t, a, P) /\ Room(a, n + Two(session))
      /\ a.x \notin P /\ Leaves(t, a, {a.x}) /\ Live(a, a.x)
  BY R32Good
<1> HIDE DEF a
<1> DEFINE u == New(a)
<1>2. /\ Good(u, P) /\ Only(a, u, {"v"}) /\ Adds(a, u)
      /\ u.v[Len(a.v) + 1] = <<a.x, a.r64[a.x]>>
  BY <1>1, NewGood
<1> HIDE DEF u
<1>3. /\ Used(u) = Used(a) /\ u.narrow = a.narrow /\ u.r64 = a.r64
      /\ \A y : /\ Accessed(u, y) = Accessed(a, y)
                /\ \A w : Ready(u, y, w) = Ready(a, y, w)
  BY <1>2, NewSame
<1>4. Adds(t, u) /\ Keeps(t, u)
  BY <1>1, <1>2, StaysKeeps
<1>5. Room(u, n + Two(session))
  BY <1>1, <1>3 DEF Room
<1>6. ReadBy(u, Len(t.v) + 1, r)
  <2>1. a.v = t.v
    BY <1>1 DEF Stays
  <2>2. u.v[Len(t.v) + 1][1] = a.x
    BY <1>2, <2>1
  <2> QED
    BY <1>1, <1>3, <2>2 DEF ReadBy
<1>7. u.narrow = t.narrow
  BY <1>1, <1>3 DEF Stays
<1>8. \A y \in P : Accessed(t, y) => /\ u.reg_content[y] = t.reg_content[y]
                                     /\ u.dirty[y] = t.dirty[y] /\ u.r64[y] = t.r64[y]
  <2>1. u.reg_content = a.reg_content /\ u.dirty = a.dirty
    BY <1>2 DEF Only, Fields
  <2>2. P \subseteq X
    BY DEF Good
  <2> QED
    BY <1>1, <1>3, <2>1, <2>2 DEF Stays
<1>9. u = Call(t, R32(r))
  BY DEF u, a, Call, R32
<1> QED
  BY <1>2, <1>4, <1>5, <1>6, <1>7, <1>8, <1>9

\* A call returns registers for both words of r.
LEMMA R64Call ==
  ASSUME Here, NEW t, NEW P, Good(t, P), NEW r \in Regs, NEW n \in Nat, Room(t, n), Apart(t, P, r),
         n + 2 <= Cardinality(X), Pairs(session)
  PROVE  LET u == Call(t, R64(r)) IN
         /\ Good(u, P) /\ Room(u, n + 2) /\ Adds(t, u) /\ Keeps(t, u)
         /\ ReadBoth(u, Len(t.v) + 1, r) /\ u.narrow = t.narrow
         /\ \A y \in P : Accessed(t, y) => /\ u.reg_content[y] = t.reg_content[y]
                                           /\ u.dirty[y] = t.dirty[y] /\ u.r64[y] = t.r64[y]
<1> DEFINE a == allocate_64_register(t, r)
           i == a.x
           j == a.r64[i]
<1>1. Read64(t, a, P, r) /\ Room(a, n + 2)
  BY R64Good
<1> HIDE DEF a
<1>2. /\ Good(a, P) /\ i \in X /\ j \in X /\ Paired(a, i)
      /\ Ready(a, i, Lo(r)) /\ Ready(a, j, Hi(r)) /\ Accessed(a, i) /\ Accessed(a, j)
      /\ Stays(t, a, P)
  BY <1>1 DEF Read64
<1> DEFINE u == New(a)
<1>3. /\ Good(u, P) /\ Only(a, u, {"v"}) /\ Adds(a, u)
      /\ u.v[Len(a.v) + 1] = <<a.x, a.r64[a.x]>>
  BY <1>2, NewGood
<1> HIDE DEF u
<1>4. /\ Used(u) = Used(a) /\ u.narrow = a.narrow /\ u.r64 = a.r64
      /\ \A y : /\ Accessed(u, y) = Accessed(a, y) /\ Paired(u, y) = Paired(a, y)
                /\ \A w : Ready(u, y, w) = Ready(a, y, w)
  BY <1>3, NewSame
<1>5. Adds(t, u) /\ Keeps(t, u)
  BY <1>2, <1>3, StaysKeeps
<1>6. Room(u, n + 2)
  BY <1>1, <1>4 DEF Room
<1>7. ReadBoth(u, Len(t.v) + 1, r)
  <2>1. a.v = t.v
    BY <1>2 DEF Stays
  <2>2. u.v[Len(t.v) + 1][1] = i /\ u.v[Len(t.v) + 1][2] = j
    BY <1>3, <2>1
  <2> HIDE DEF i, j
  <2>3. u.r64[i] = j
    BY <1>4 DEF i, j
  <2> QED
    BY <1>2, <1>4, <2>2, <2>3 DEF ReadBoth, ReadBy, ReadHi
<1>8. u.narrow = t.narrow
  BY <1>2, <1>4 DEF Stays
<1>9. \A y \in P : Accessed(t, y) => /\ u.reg_content[y] = t.reg_content[y]
                                     /\ u.dirty[y] = t.dirty[y] /\ u.r64[y] = t.r64[y]
  <2>1. u.reg_content = a.reg_content /\ u.dirty = a.dirty
    BY <1>3 DEF Only, Fields
  <2>2. P \subseteq X
    BY DEF Good
  <2> QED
    BY <1>2, <1>4, <2>1, <2>2 DEF Stays
<1>10. u = Call(t, R64(r))
  BY DEF u, a, Call, R64
<1> QED
  BY <1>3, <1>5, <1>6, <1>7, <1>8, <1>9, <1>10

\* v[k] is to get a value of r, of 64 bits or of 32.
Making(t, k, wide) == IF wide THEN {t.v[k][1], t.v[k][2]} ELSE {t.v[k][1]}
Writing(t, k, r, wide) ==
  /\ NarrowOK(t) /\ Good(t, Making(t, k, wide))
  /\ IF wide THEN Made64(t, t.v[k][1], t.v[k][2], r) ELSE Made32(t, t.v[k][1], r)

\* What was read may still be, its low words are kept.
KeepsLow(t, u) == \A k \in Past(t), r \in Regs :
  /\ ReadBy(t, k, r) => ReadBy(u, k, r)
  /\ ReadHi(t, k, r) => Ready(u, u.v[k][2], Hi(r))
KeepsOn(t, u) == \A k \in Past(t), r \in Regs :
  /\ ReadBy(t, k, r) => ReadBy(u, k, r)
  /\ ReadHi(t, k, r) => ReadHi(u, k, r)

\* A call returns a register for a new 32 bit value.
LEMMA W32Call ==
  ASSUME Here, NEW t, NEW n \in Nat, Opened(t, n), NEW r \in Regs,
         n < Cardinality(X) \/ Cached(t, Lo(r))
  PROVE  LET u == Call(t, W32(r))
             k == Len(t.v) + 1 IN
         /\ Writing(u, k, r, FALSE) /\ Adds(t, u) /\ KeepsLow(t, u) /\ Room(u, n + 1)
         /\ Accessed(t, u.v[k][1]) => Room(u, n)
<1> DEFINE a == allocate_register_w(t, Lo(r))
           x == a.x
           k == Len(t.v) + 1
<1>1. Write32(t, a, r) /\ Room(a, n + 1)
  <2> DEFINE b == allocate_register_w(t, Lo(r))
  <2>1. /\ Write32(t, b, r) /\ Room(b, n + 1)
        /\ ~Whole(t, r) => AllOn(t, b) /\ ~(Accessed(t, b.x) /\ Paired(t, b.x))
    BY W32Good DEF Opened
  <2> QED
    BY <2>1
<1> HIDE DEF a
<1>2. /\ Good(a, {x}) /\ Made32(a, x, r) /\ ReadsOn(t, a) /\ LowsOn(t, a) /\ Grows(t, a, {x})
      /\ a.narrow = t.narrow /\ a.v = t.v /\ x \in X
  BY <1>1 DEF Write32, Made32
<1> DEFINE u == New(a)
<1>3. /\ Good(u, {x}) /\ Only(a, u, {"v"}) /\ Adds(a, u)
      /\ u.v[Len(a.v) + 1] = <<a.x, a.r64[a.x]>>
  <2> DEFINE P == {x}
  <2>1. Good(a, P)
    BY <1>2
  <2> HIDE DEF P
  <2>2. /\ Good(u, P) /\ Only(a, u, {"v"}) /\ Adds(a, u)
        /\ u.v[Len(a.v) + 1] = <<a.x, a.r64[a.x]>>
    BY <1>2, <2>1, NewGood
  <2> QED
    BY <2>2 DEF P
<1> HIDE DEF u
<1>4. /\ Used(u) = Used(a) /\ u.narrow = a.narrow /\ u.r64 = a.r64
      /\ \A y : /\ Accessed(u, y) = Accessed(a, y) /\ Paired(u, y) = Paired(a, y)
                /\ \A w : Ready(u, y, w) = Ready(a, y, w)
  BY <1>3, NewSame
<1>5. u.v[k][1] = x /\ Adds(t, u)
  BY <1>2, <1>3 DEF Adds, Past
<1>6. Writing(u, k, r, FALSE)
  <2>1. Made32(u, x, r)
    <3>1. u.dirty = a.dirty /\ u.reg_content = a.reg_content
      BY <1>3 DEF Only, Fields
    <3> QED
      BY <1>2, <1>4, <3>1 DEF Made32
  <2>2. NarrowOK(u)
    BY <1>2, <1>4 DEF NarrowOK, Opened
  <2> QED
    BY <1>3, <1>5, <2>1, <2>2 DEF Writing, Making
<1>7. KeepsLow(t, u)
  <2> SUFFICES ASSUME NEW h \in Past(t), NEW q \in Regs
               PROVE  /\ ReadBy(t, h, q) => ReadBy(u, h, q)
                      /\ ReadHi(t, h, q) => Ready(u, u.v[h][2], Hi(q))
    BY DEF KeepsLow
  <2>1. u.v[h] = t.v[h]
    BY <1>5 DEF Adds
  <2>2. Lo(q) \in Word /\ Hi(q) \in Word
    BY Words
  <2>3. \A y \in X, w \in Word : Accessed(t, y) /\ Ready(t, y, w) => Ready(u, y, w)
    BY <1>2, <1>4 DEF ReadsOn
  <2>4. \A y \in X : Accessed(t, y) /\ Ready(t, y, Lo(q)) => Accessed(u, y)
    BY <1>2, <1>4 DEF LowsOn, LowWord, Ready
  <2>5. ReadBy(t, h, q) => ReadBy(u, h, q)
    BY <2>1, <2>2, <2>3, <2>4 DEF ReadBy, Ready
  <2>6. ReadHi(t, h, q) => Ready(u, u.v[h][2], Hi(q))
    BY <2>1, <2>2, <2>3 DEF ReadHi, Ready
  <2> QED
    BY <2>5, <2>6
<1>8. Room(u, n + 1) /\ (Accessed(t, x) => Room(u, n))
  <2>1. Accessed(t, x) => Room(a, n)
    <3> SUFFICES ASSUME Accessed(t, x)
                 PROVE  Room(a, n)
      OBVIOUS
    <3> DEFINE S == {x}
    <3>1. Grows(t, a, S) /\ \A y \in S : Accessed(t, y)
      BY <1>2
    <3> HIDE DEF S
    <3> QED
      BY <3>1, RoomSame DEF Opened
  <2> QED
    BY <1>1, <1>4, <2>1 DEF Room
<1>9. u = Call(t, W32(r))
  BY DEF u, a, Call, W32
<1> HIDE DEF x
<1> QED
  BY <1>5, <1>6, <1>7, <1>8, <1>9

\* A call returns registers for a new value.
LEMMA W64Call ==
  ASSUME Here, NEW t, NEW n \in Nat, Opened(t, n), NEW r \in Regs, n + 2 <= Cardinality(X), Pairs(session)
  PROVE  LET u == Call(t, W64(r))
             k == Len(t.v) + 1 IN
         /\ Writing(u, k, r, TRUE) /\ Adds(t, u) /\ KeepsOn(t, u) /\ Room(u, n + 2)
         /\ Accessed(t, u.v[k][1]) /\ Paired(t, u.v[k][1]) => Room(u, n)
<1> DEFINE a == allocate_64_register_w(t, r)
           i == a.x
           j == a.r64[i]
           k == Len(t.v) + 1
<1>1. Write64(t, a, r) /\ Room(a, n + 2)
  <2> DEFINE b == allocate_64_register_w(t, r)
  <2>1. Write64(t, b, r) /\ Room(b, n + 2)
    BY W64Good DEF Opened
  <2> QED
    BY <2>1
<1> HIDE DEF a
<1>2. /\ Good(a, {i, j}) /\ Made64(a, i, j, r) /\ ReadsOn(t, a) /\ AllOn(t, a) /\ Grows(t, a, {i, j})
      /\ a.narrow = t.narrow /\ a.v = t.v /\ i \in X /\ j \in X
      /\ Accessed(t, i) /\ Paired(t, i) => j = t.r64[i]
  BY <1>1 DEF Write64, Made64
<1> DEFINE u == New(a)
<1>3. /\ Good(u, {i, j}) /\ Only(a, u, {"v"}) /\ Adds(a, u)
      /\ u.v[Len(a.v) + 1] = <<a.x, a.r64[a.x]>>
  <2> DEFINE P == {i, j}
  <2>1. Good(a, P)
    BY <1>2
  <2> HIDE DEF P
  <2>2. /\ Good(u, P) /\ Only(a, u, {"v"}) /\ Adds(a, u)
        /\ u.v[Len(a.v) + 1] = <<a.x, a.r64[a.x]>>
    BY <1>2, <2>1, NewGood
  <2> QED
    BY <2>2 DEF P
<1> HIDE DEF u
<1>4. /\ Used(u) = Used(a) /\ u.narrow = a.narrow /\ u.r64 = a.r64
      /\ \A y : /\ Accessed(u, y) = Accessed(a, y) /\ Paired(u, y) = Paired(a, y)
                /\ \A w : Ready(u, y, w) = Ready(a, y, w)
  BY <1>3, NewSame
<1>5. u.v[k][1] = i /\ u.v[k][2] = j /\ Adds(t, u)
  BY <1>2, <1>3 DEF Adds, Past
<1> HIDE DEF i, j
<1>6. Writing(u, k, r, TRUE)
  <2>1. Made64(u, i, j, r)
    <3>1. u.dirty = a.dirty /\ u.reg_content = a.reg_content
      BY <1>3 DEF Only, Fields
    <3> QED
      BY <1>2, <1>4, <3>1 DEF Made64
  <2>2. NarrowOK(u)
    BY <1>2, <1>4 DEF NarrowOK, Opened
  <2> QED
    BY <1>3, <1>5, <2>1, <2>2 DEF Writing, Making
<1>7. KeepsOn(t, u)
  <2> SUFFICES ASSUME NEW h \in Past(t), NEW q \in Regs
               PROVE  /\ ReadBy(t, h, q) => ReadBy(u, h, q)
                      /\ ReadHi(t, h, q) => ReadHi(u, h, q)
    BY DEF KeepsOn
  <2>1. u.v[h] = t.v[h]
    BY <1>5 DEF Adds
  <2>2. Lo(q) \in Word /\ Hi(q) \in Word
    BY Words
  <2>3. \A y \in X, w \in Word : Accessed(t, y) /\ Ready(t, y, w) => Ready(u, y, w) /\ Accessed(u, y)
    BY <1>2, <1>4 DEF ReadsOn, AllOn
  <2>4. ReadBy(t, h, q) => ReadBy(u, h, q)
    BY <2>1, <2>2, <2>3 DEF ReadBy, Ready
  <2>5. ReadHi(t, h, q) => ReadHi(u, h, q)
    BY <2>1, <2>2, <2>3 DEF ReadHi, Ready
  <2> QED
    BY <2>4, <2>5
<1>8. Room(u, n + 2) /\ (Accessed(t, i) /\ Paired(t, i) => Room(u, n))
  <2>1. Accessed(t, i) /\ Paired(t, i) => Room(a, n)
    <3> SUFFICES ASSUME Accessed(t, i), Paired(t, i)
                 PROVE  Room(a, n)
      OBVIOUS
    <3>1. PairOK(t, i)
      <4>1. Live(t, i)
        BY Numbers DEF Live, Accessed
      <4> QED
        BY <1>2, <4>1 DEF Opened, Good, Core, PairsOK
    <3>2. Accessed(t, j)
      BY <1>2, <3>1 DEF PairOK, Accessed
    <3> DEFINE S == {i, j}
    <3>3. Grows(t, a, S) /\ \A y \in S : Accessed(t, y)
      BY <1>2, <3>2
    <3> HIDE DEF S
    <3> QED
      BY <3>3, RoomSame DEF Opened
  <2> QED
    BY <1>1, <1>4, <2>1 DEF Room
<1>9. u = Call(t, W64(r))
  BY DEF u, a, Call, W64
<1> QED
  BY <1>5, <1>6, <1>7, <1>8, <1>9

\* A scratch register, where one of those that are read is written.
LEMMA TempCall ==
  ASSUME Here, NEW t, NEW r \in Regs, NEW wide \in BOOLEAN, Writing(t, 3, r, wide), NEW ks,
         NEW n \in Nat, n < Cardinality(X), (\E k \in ks : t.v[k][1] = t.v[3][1]) => Room(t, n)
  PROVE  LET u == Call(t, TempIf(ks)) IN
         Writing(u, 3, r, wide) /\ u.v = t.v /\ KeepsOn(t, u)
<1> DEFINE u == Call(t, TempIf(ks))
           e == \E k \in ks : t.v[k][1] = t.v[3][1]
           P == Making(t, 3, wide)
<1>1. u = IF e THEN Scratch(t, lru_register(t)) ELSE t
  BY DEF Call, TempIf
<1>2. CASE ~e
  <2>1. u = t
    BY <1>1, <1>2
  <2> QED
    BY <2>1 DEF KeepsOn
<1>3. CASE e
  <2> DEFINE a == Scratch(t, lru_register(t))
  <2>1. Good(t, P) /\ NarrowOK(t)
    BY DEF Writing
  <2> HIDE DEF P
  <2>2. Good(a, P) /\ Stays(t, a, P)
    BY <1>3, <2>1, ScratchGood
  <2> HIDE DEF a
  <2>3. P \subseteq X /\ \A y \in P : Accessed(t, y)
    BY <2>1 DEF Good, Accessed
  <2>4. /\ a.v = t.v /\ a.narrow = t.narrow
        /\ \A y \in X : Accessed(t, y) =>
             /\ Accessed(a, y) /\ a.reg_content[y] = t.reg_content[y] /\ a.dirty[y] = t.dirty[y]
             /\ y \in P => a.r64[y] = t.r64[y]
             /\ \A w \in Word : Ready(t, y, w) => Ready(a, y, w)
    BY <2>2 DEF Stays
  <2>5. Writing(a, 3, r, wide)
    <3>1. NarrowOK(a)
      BY <2>1, <2>4 DEF NarrowOK
    <3>2. Making(a, 3, wide) = P
      BY <2>4 DEF Making, P
    <3>3. CASE wide
      <4>1. Made64(t, t.v[3][1], t.v[3][2], r) /\ t.v[3][1] \in P /\ t.v[3][2] \in P
        BY <3>3 DEF Writing, P, Making
      <4>2. Made64(a, t.v[3][1], t.v[3][2], r)
        BY <2>3, <2>4, <4>1 DEF Made64
      <4> QED
        BY <2>2, <2>4, <3>1, <3>2, <3>3, <4>2 DEF Writing
    <3>4. CASE ~wide
      <4>1. Made32(t, t.v[3][1], r) /\ t.v[3][1] \in P
        BY <3>4 DEF Writing, P, Making
      <4>2. Made32(a, t.v[3][1], r)
        BY <2>3, <2>4, <4>1 DEF Made32, Paired
      <4> QED
        BY <2>2, <2>4, <3>1, <3>2, <3>4, <4>2 DEF Writing
    <3> QED
      BY <3>3, <3>4
  <2>6. KeepsOn(t, a)
    <3>1. \A q \in Regs : Lo(q) \in Word /\ Hi(q) \in Word
      BY Words
    <3> QED
      BY <2>4, <3>1 DEF KeepsOn, ReadBy, ReadHi, Ready
  <2>7. u = a
    BY <1>1, <1>3 DEF a
  <2> QED
    BY <2>4, <2>5, <2>6, <2>7
<1> QED
  BY <1>2, <1>3

-----------------------------------------------------------------------------
(* Code that is emitted.                                                   *)

\* The end of an instruction.
Ends(t) == Good(t, {}) /\ NarrowOK(t)

\* A register is read.
UsesOnly(t, u) == Only(t, u, {"hold", "loads"}) /\ Readies(t, u)

LEMMA ReadsCall ==
  ASSUME Here, NEW t, NEW P, Good(t, P), NEW k, NEW r \in Regs, Ready(t, t.v[k][1], Lo(r))
  PROVE  Good(Call(t, Reads(k, r)), P) /\ UsesOnly(t, Call(t, Reads(k, r)))
<1> DEFINE x == t.v[k][1]
           w == Lo(r)
           u == Use(t, x, w)
<1>1. Ready(t, x, w) /\ w \in Word
  BY Words
<1> HIDE DEF x, w
<1>2. /\ Good(u, P) /\ Only(t, u, {"hold", "loads"}) /\ Elsewhere(t, u, x)
      /\ u.hold[x] = w
      /\ Readies(t, u)
  BY <1>1, UseGood
<1> HIDE DEF u
<1>3. u = Call(t, Reads(k, r))
  BY DEF u, x, w, Call, Reads
<1> QED
  BY <1>2, <1>3 DEF UsesOnly

LEMMA ReadsHiCall ==
  ASSUME Here, NEW t, NEW P, Good(t, P), NEW k, NEW r \in Regs, Ready(t, t.v[k][2], Hi(r))
  PROVE  Good(Call(t, ReadsHi(k, r)), P) /\ UsesOnly(t, Call(t, ReadsHi(k, r)))
<1> DEFINE x == t.v[k][2]
           w == Hi(r)
           u == Use(t, x, w)
<1>1. Ready(t, x, w) /\ w \in Word
  BY Words
<1> HIDE DEF x, w
<1>2. /\ Good(u, P) /\ Only(t, u, {"hold", "loads"}) /\ Elsewhere(t, u, x)
      /\ u.hold[x] = w
      /\ Readies(t, u)
  BY <1>1, UseGood
<1> HIDE DEF u
<1>3. u = Call(t, ReadsHi(k, r))
  BY DEF u, x, w, Call, ReadsHi
<1> QED
  BY <1>2, <1>3 DEF UsesOnly

\* It changes nothing else.
LEMMA UsesSame ==
  ASSUME NEW t, NEW u, UsesOnly(t, u)
  PROVE  /\ u.v = t.v /\ u.narrow = t.narrow
         /\ \A k, r, wide : Writing(t, k, r, wide) /\ Good(u, Making(t, k, wide)) => Writing(u, k, r, wide)
         /\ \A k : \A r \in Regs : Ready(t, t.v[k][1], Lo(r)) /\ Lo(r) \in Word => Ready(u, u.v[k][1], Lo(r))
         /\ \A k : \A r \in Regs : Ready(t, t.v[k][2], Hi(r)) /\ Hi(r) \in Word => Ready(u, u.v[k][2], Hi(r))
<1>1. /\ u.v = t.v /\ u.narrow = t.narrow /\ u.r64 = t.r64 /\ u.dirty = t.dirty
      /\ u.reg_content = t.reg_content /\ u.last_access = t.last_access
  BY DEF UsesOnly, Only, Fields
<1>2. ASSUME NEW k, NEW r, NEW wide, Writing(t, k, r, wide), Good(u, Making(t, k, wide))
      PROVE  Writing(u, k, r, wide)
  <2>1. Making(u, k, wide) = Making(t, k, wide) /\ NarrowOK(u)
    BY <1>1, <1>2 DEF Making, Writing, NarrowOK
  <2>2. CASE wide
    BY <1>1, <1>2, <2>1, <2>2 DEF Writing, Made64, Accessed
  <2>3. CASE ~wide
    BY <1>1, <1>2, <2>1, <2>3 DEF Writing, Made32, Accessed, Paired
  <2> QED
    BY <2>2, <2>3
<1>3. \A y \in X, w \in Word : Ready(t, y, w) => Ready(u, y, w)
  BY DEF UsesOnly, Readies
<1>4. ASSUME NEW k, NEW r \in Regs, Ready(t, t.v[k][1], Lo(r)), Lo(r) \in Word
      PROVE  Ready(u, u.v[k][1], Lo(r))
  <2>1. t.v[k][1] \in X
    BY <1>4 DEF Ready
  <2> QED
    BY <1>1, <1>3, <1>4, <2>1
<1>5. ASSUME NEW k, NEW r \in Regs, Ready(t, t.v[k][2], Hi(r)), Hi(r) \in Word
      PROVE  Ready(u, u.v[k][2], Hi(r))
  <2>1. t.v[k][2] \in X
    BY <1>5 DEF Ready
  <2> QED
    BY <1>1, <1>3, <1>5, <2>1
<1>6. u.v = t.v /\ u.narrow = t.narrow
  BY <1>1
<1> QED
  BY <1>2, <1>4, <1>5, <1>6

\* What is still to be read, for one of the two registers that the code reads.
Lows(t, k, r)  == Ready(t, t.v[k][1], Lo(r))
Highs(t, k, r) == Ready(t, t.v[k][2], Hi(r))

\* From t to u code has read.
Reading(t, u) ==
  /\ u.v = t.v
  /\ \A k : \A r \in Regs : (Lows(t, k, r) => Lows(u, k, r)) /\ (Highs(t, k, r) => Highs(u, k, r))

LEMMA WritingReads ==
  ASSUME Here, NEW t, NEW k, NEW r, NEW wide, Writing(t, k, r, wide), NEW h, NEW q \in Regs, Lows(t, h, q)
  PROVE  Writing(Call(t, Reads(h, q)), k, r, wide) /\ Reading(t, Call(t, Reads(h, q)))
<1> DEFINE u == Call(t, Reads(h, q))
           P == Making(t, k, wide)
<1>1. Good(t, P)
  BY DEF Writing
<1> HIDE DEF P
<1>2. Good(u, P) /\ UsesOnly(t, u)
  BY <1>1, ReadsCall DEF Lows
<1> HIDE DEF u
<1>3. /\ u.v = t.v
      /\ \A m, o, b : Writing(t, m, o, b) /\ Good(u, Making(t, m, b)) => Writing(u, m, o, b)
      /\ \A m : \A o \in Regs : Ready(t, t.v[m][1], Lo(o)) /\ Lo(o) \in Word => Ready(u, u.v[m][1], Lo(o))
      /\ \A m : \A o \in Regs : Ready(t, t.v[m][2], Hi(o)) /\ Hi(o) \in Word => Ready(u, u.v[m][2], Hi(o))
  BY <1>2, UsesSame
<1>4. \A o \in Regs : Lo(o) \in Word /\ Hi(o) \in Word
  BY Words
<1>5. Writing(u, k, r, wide)
  BY <1>2, <1>3 DEF P
<1>6. Reading(t, u)
  BY <1>3, <1>4 DEF Reading, Lows, Highs
<1> QED
  BY <1>5, <1>6 DEF u

LEMMA WritingReadsHi ==
  ASSUME Here, NEW t, NEW k, NEW r, NEW wide, Writing(t, k, r, wide), NEW h, NEW q \in Regs, Highs(t, h, q)
  PROVE  Writing(Call(t, ReadsHi(h, q)), k, r, wide) /\ Reading(t, Call(t, ReadsHi(h, q)))
<1> DEFINE u == Call(t, ReadsHi(h, q))
           P == Making(t, k, wide)
<1>1. Good(t, P)
  BY DEF Writing
<1> HIDE DEF P
<1>2. Good(u, P) /\ UsesOnly(t, u)
  BY <1>1, ReadsHiCall DEF Highs
<1> HIDE DEF u
<1>3. /\ u.v = t.v
      /\ \A m, o, b : Writing(t, m, o, b) /\ Good(u, Making(t, m, b)) => Writing(u, m, o, b)
      /\ \A m : \A o \in Regs : Ready(t, t.v[m][1], Lo(o)) /\ Lo(o) \in Word => Ready(u, u.v[m][1], Lo(o))
      /\ \A m : \A o \in Regs : Ready(t, t.v[m][2], Hi(o)) /\ Hi(o) \in Word => Ready(u, u.v[m][2], Hi(o))
  BY <1>2, UsesSame
<1>4. \A o \in Regs : Lo(o) \in Word /\ Hi(o) \in Word
  BY Words
<1>5. Writing(u, k, r, wide)
  BY <1>2, <1>3 DEF P
<1>6. Reading(t, u)
  BY <1>3, <1>4 DEF Reading, Lows, Highs
<1> QED
  BY <1>5, <1>6 DEF u

LEMMA ReadingOn ==
  ASSUME NEW t, NEW u, NEW a, Reading(t, u), Reading(u, a)
  PROVE  Reading(t, a)
BY DEF Reading

\* The value is there.
LEMMA Gives32Call ==
  ASSUME Here, NEW t, NEW k, NEW r \in Regs, Writing(t, k, r, FALSE)
  PROVE  Ends(Call(t, Gives32(k, r)))
<1> DEFINE x == t.v[k][1]
           P == {x}
           u == Give32(t, r, x)
<1>1. Good(t, P) /\ Made32(t, x, r) /\ x \in P /\ NarrowOK(t)
  BY DEF Writing, Making
<1>2. Apart(t, P \ {x}, r)
  BY DEF Apart
<1>3. P \ {x} = {}
  OBVIOUS
<1> HIDE DEF x, P
<1>4. /\ Good(u, P \ {x}) /\ Only(t, u, {"mem", "hold", "narrow"})
      /\ u.narrow = t.narrow \cup {r}
  BY <1>1, <1>2, Give32Good
<1> HIDE DEF u
<1>5. Ends(u)
  BY <1>1, <1>3, <1>4 DEF Ends, NarrowOK
<1>6. u = Call(t, Gives32(k, r))
  BY DEF u, x, Call, Gives32
<1> QED
  BY <1>5, <1>6

LEMMA Gives64Call ==
  ASSUME Here, NEW t, NEW k, NEW r \in Regs, Writing(t, k, r, TRUE)
  PROVE  LET u == Call(t, Gives64(k, r)) IN
         Good(u, {}) /\ u.narrow = t.narrow \ {r}
<1> DEFINE x1 == t.v[k][1]
           x2 == t.v[k][2]
           P == {x1, x2}
           u == Give64(t, r, x1, x2)
<1>1. Good(t, P) /\ Made64(t, x1, x2, r) /\ x1 \in P /\ x2 \in P
  BY DEF Writing, Making
<1>2. Apart(t, P \ {x1, x2}, r)
  BY DEF Apart
<1>3. P \ {x1, x2} = {}
  OBVIOUS
<1> HIDE DEF x1, x2, P
<1>4. /\ Good(u, P \ {x1, x2}) /\ Only(t, u, {"mem", "hold", "narrow"})
      /\ u.narrow = t.narrow \ {r}
  BY <1>1, <1>2, Give64Good, SMTT(30)
<1> HIDE DEF u
<1>5. u = Call(t, Gives64(k, r))
  BY DEF u, x1, x2, Call, Gives64
<1> QED
  BY <1>3, <1>4, <1>5

-----------------------------------------------------------------------------
(* Instructions.                                                           *)

\* The start of an instruction.
Begin(t) == Opened(t, 0) /\ t.v = <<>>

\* Registers suffice for its form.
LEMMA Fits ==
  ASSUME Here, NEW form \in session.forms
  PROVE  /\ InUse(session, form) <= Cardinality(X) /\ ByName(form) \subseteq X
         /\ Cardinality(X) \in Nat /\ Two(session) \in {1, 2}
         /\ form \in Pairing => Pairs(session)
<1>1. Cardinality(X) \in Nat
  BY Numbers, FS_CardinalityType
<1> QED
  BY <1>1 DEF Here, LimitsOf, X, Two, Pairs

\* A 32 bit read, then another.
LEMMA R32Open ==
  ASSUME Here, NEW t, NEW n \in Nat, Opened(t, n), NEW r \in Regs, n < Cardinality(X),
         session.forms \cap Low # {}, NEW m, m = n + Two(session), NEW k, k = Len(t.v) + 1
  PROVE  LET u == Call(t, R32(r)) IN
         Opened(u, m) /\ Adds(t, u) /\ Keeps(t, u) /\ ReadBy(u, k, r)
<1> DEFINE u == Call(t, R32(r))
           P == {}
<1>1. Good(t, P) /\ Room(t, n) /\ NarrowOK(t)
  BY DEF Opened
<1>2. Apart(t, P, r)
  BY DEF Apart
<1>3. Testing(session) => r \in t.narrow
  BY <1>1 DEF NarrowOK, Narrow0
<1> HIDE DEF P
<1>4. /\ Good(u, P) /\ Room(u, n + Two(session)) /\ Adds(t, u) /\ Keeps(t, u)
      /\ ReadBy(u, Len(t.v) + 1, r) /\ u.narrow = t.narrow
      /\ \A y \in P : Accessed(t, y) => /\ u.reg_content[y] = t.reg_content[y]
                                        /\ u.dirty[y] = t.dirty[y] /\ u.r64[y] = t.r64[y]
  BY <1>1, <1>2, <1>3, R32Call
<1> HIDE DEF u
<1>5. Opened(u, m)
  BY <1>1, <1>4 DEF Opened, NarrowOK, P
<1> QED
  BY <1>4, <1>5 DEF u

LEMMA R64Open ==
  ASSUME Here, NEW t, NEW n \in Nat, Opened(t, n), NEW r \in Regs, n + 2 <= Cardinality(X),
         Pairs(session), NEW m, m = n + 2, NEW k, k = Len(t.v) + 1
  PROVE  LET u == Call(t, R64(r)) IN
         Opened(u, m) /\ Adds(t, u) /\ Keeps(t, u) /\ ReadBoth(u, k, r)
<1> DEFINE u == Call(t, R64(r))
           P == {}
<1>1. Good(t, P) /\ Room(t, n) /\ NarrowOK(t)
  BY DEF Opened
<1>2. Apart(t, P, r)
  BY DEF Apart
<1> HIDE DEF P
<1>3. /\ Good(u, P) /\ Room(u, n + 2) /\ Adds(t, u) /\ Keeps(t, u)
      /\ ReadBoth(u, Len(t.v) + 1, r) /\ u.narrow = t.narrow
      /\ \A y \in P : Accessed(t, y) => /\ u.reg_content[y] = t.reg_content[y]
                                        /\ u.dirty[y] = t.dirty[y] /\ u.r64[y] = t.r64[y]
  BY <1>1, <1>2, R64Call
<1> HIDE DEF u
<1>4. Opened(u, m)
  BY <1>1, <1>3 DEF Opened, NarrowOK, P
<1> QED
  BY <1>3, <1>4 DEF u

\* The registers of the result; what was read first may still be.
LEMMA W32Open ==
  ASSUME Here, NEW t, NEW n \in Nat, Opened(t, n), NEW r \in Regs, n < Cardinality(X),
         NEW k, k = Len(t.v) + 1
  PROVE  LET u == Call(t, W32(r)) IN
         /\ Writing(u, k, r, FALSE) /\ Adds(t, u) /\ KeepsLow(t, u)
         /\ Accessed(t, u.v[k][1]) => Room(u, n)
<1> DEFINE u == Call(t, W32(r))
<1>1. /\ Writing(u, Len(t.v) + 1, r, FALSE) /\ Adds(t, u) /\ KeepsLow(t, u) /\ Room(u, n + 1)
      /\ Accessed(t, u.v[Len(t.v) + 1][1]) => Room(u, n)
  BY W32Call
<1> HIDE DEF u
<1> QED
  BY <1>1 DEF u

LEMMA W64Open ==
  ASSUME Here, NEW t, NEW n \in Nat, Opened(t, n), NEW r \in Regs, n + 2 <= Cardinality(X), Pairs(session),
         NEW k, k = Len(t.v) + 1
  PROVE  LET u == Call(t, W64(r)) IN
         /\ Writing(u, k, r, TRUE) /\ Adds(t, u) /\ KeepsOn(t, u)
         /\ Accessed(t, u.v[k][1]) /\ Paired(t, u.v[k][1]) => Room(u, n)
<1> DEFINE u == Call(t, W64(r))
<1>1. /\ Writing(u, Len(t.v) + 1, r, TRUE) /\ Adds(t, u) /\ KeepsOn(t, u) /\ Room(u, n + 2)
      /\ Accessed(t, u.v[Len(t.v) + 1][1]) /\ Paired(t, u.v[Len(t.v) + 1][1]) => Room(u, n)
  BY W64Call
<1> HIDE DEF u
<1> QED
  BY <1>1 DEF u

\* A 64 bit result, where no 32 bit read takes a value to be narrow.
LEMMA Gives64Ends ==
  ASSUME Here, NEW t, NEW k, NEW r \in Regs, Writing(t, k, r, TRUE), ~Narrow0(session)
  PROVE  Ends(Call(t, Gives64(k, r)))
BY Gives64Call DEF Ends, NarrowOK

LEMMA WideSession ==
  ASSUME Here, session.forms \cap Widening # {}
  PROVE  ~Narrow0(session)
BY DEF Here, LimitsOf

\* addi, addiu and andi, the short shifts.
LEMMA AddiuGood ==
  ASSUME Here, NEW t, Begin(t), NEW rs \in Regs, NEW rt \in Regs, session.forms \cap {"addiu", "sll"} # {}
  PROVE  Ends(Emitted(t, genaddiu(rs, rt)))
<1> DEFINE code == genaddiu(rs, rt)
           two == Two(session)
<1>1. /\ Len(code) = 4 /\ Len(code) \in Nat /\ DOMAIN code = 1 .. Len(code)
      /\ code[1] = R32(rs) /\ code[2] = W32(rt) /\ code[3] = Reads(1, rs) /\ code[4] = Gives32(2, rt)
  BY DEF genaddiu
<1> HIDE DEF code
<1>2. PICK f : Emits(f, t, code)
  BY <1>1, EmittedBy
<1>3. /\ f[1] = Call(t, R32(rs)) /\ f[2] = Call(f[1], W32(rt)) /\ f[3] = Call(f[2], Reads(1, rs))
      /\ f[4] = Call(f[3], Gives32(2, rt)) /\ Emitted(t, code) = f[4]
  BY <1>1, <1>2 DEF Emits
<1>4. /\ two + 1 <= Cardinality(X) /\ Cardinality(X) \in Nat /\ two \in {1, 2}
      /\ session.forms \cap Low # {}
  BY Fits DEF InUse, Low
<1> HIDE DEF two
<1>5. Opened(t, 0) /\ Len(t.v) = 0 /\ 0 < Cardinality(X) /\ two = 0 + two /\ 1 = Len(t.v) + 1
  BY <1>4 DEF Begin
<1>6. Opened(f[1], two) /\ Adds(t, f[1]) /\ ReadBy(f[1], 1, rs)
  BY <1>3, <1>4, <1>5, R32Open DEF two
<1>7. Len(f[1].v) = 1 /\ 1 \in Past(f[1]) /\ two < Cardinality(X) /\ two \in Nat
  BY <1>4, <1>5, <1>6 DEF Adds, Past
<1>8. Writing(f[2], 2, rt, FALSE) /\ KeepsLow(f[1], f[2])
  <2>1. 2 = Len(f[1].v) + 1
    BY <1>7
  <2> QED
    BY <1>3, <1>6, <1>7, <2>1, W32Open
<1>9. Lows(f[2], 1, rs)
  BY <1>6, <1>7, <1>8 DEF KeepsLow, ReadBy, Lows
<1>10. Writing(f[3], 2, rt, FALSE)
  BY <1>3, <1>8, <1>9, WritingReads
<1>11. Ends(f[4])
  BY <1>3, <1>10, Gives32Call
<1> QED
  BY <1>3, <1>11 DEF code

\* A 64 bit value is read, then there are registers for a result.
LEMMA ReadWrite64 ==
  ASSUME Here, NEW t, Begin(t), NEW r \in Regs, NEW q \in Regs, 4 <= Cardinality(X),
         Cardinality(X) \in Nat, Pairs(session)
  PROVE  LET u == Call(Call(t, R64(r)), W64(q)) IN
         Writing(u, 2, q, TRUE) /\ Lows(u, 1, r) /\ Highs(u, 1, r)
<1> DEFINE a == Call(t, R64(r))
           u == Call(a, W64(q))
<1>1. Opened(t, 0) /\ Len(t.v) = 0 /\ 0 + 2 <= Cardinality(X) /\ 2 = 0 + 2 /\ 1 = Len(t.v) + 1
  BY DEF Begin
<1>2. Opened(a, 2) /\ Adds(t, a) /\ ReadBoth(a, 1, r)
  BY <1>1, R64Open
<1> HIDE DEF a
<1>3. Len(a.v) = 1 /\ 1 \in Past(a) /\ 2 + 2 <= Cardinality(X) /\ 2 = Len(a.v) + 1
  BY <1>1, <1>2 DEF Adds, Past
<1>4. Writing(u, 2, q, TRUE) /\ KeepsOn(a, u)
  BY <1>2, <1>3, W64Open
<1> HIDE DEF u
<1>5. Lows(u, 1, r) /\ Highs(u, 1, r)
  BY <1>2, <1>3, <1>4 DEF KeepsOn, ReadBoth, ReadBy, ReadHi, Lows, Highs
<1> QED
  BY <1>4, <1>5 DEF u, a

LEMMA ReadWrite32 ==
  ASSUME Here, NEW t, Begin(t), NEW r \in Regs, NEW q \in Regs, 3 <= Cardinality(X),
         Cardinality(X) \in Nat, Pairs(session)
  PROVE  LET u == Call(Call(t, R64(r)), W32(q)) IN
         Writing(u, 2, q, FALSE) /\ Lows(u, 1, r) /\ Highs(u, 1, r)
<1> DEFINE a == Call(t, R64(r))
           u == Call(a, W32(q))
<1>1. Opened(t, 0) /\ Len(t.v) = 0 /\ 0 + 2 <= Cardinality(X) /\ 2 = 0 + 2 /\ 1 = Len(t.v) + 1
  BY DEF Begin
<1>2. Opened(a, 2) /\ Adds(t, a) /\ ReadBoth(a, 1, r)
  BY <1>1, R64Open
<1> HIDE DEF a
<1>3. Len(a.v) = 1 /\ 1 \in Past(a) /\ 2 < Cardinality(X) /\ 2 = Len(a.v) + 1
  BY <1>1, <1>2 DEF Adds, Past
<1>4. Writing(u, 2, q, FALSE) /\ KeepsLow(a, u)
  BY <1>2, <1>3, W32Open
<1> HIDE DEF u
<1>5. Lows(u, 1, r) /\ Highs(u, 1, r)
  BY <1>2, <1>3, <1>4 DEF KeepsLow, ReadBoth, ReadBy, ReadHi, Lows, Highs
<1> QED
  BY <1>4, <1>5 DEF u, a

\* ori and xori, daddi and daddiu, the short 64 bit shifts.
LEMMA OriGood ==
  ASSUME Here, NEW t, Begin(t), NEW r \in Regs, NEW q \in Regs,
         session.forms \cap {"ori", "daddiu", "dsll"} # {}
  PROVE  Ends(Emitted(t, genori(r, q)))
<1> DEFINE code == genori(r, q)
<1>1. /\ Len(code) = 5 /\ Len(code) \in Nat /\ DOMAIN code = 1 .. Len(code)
      /\ code[1] = R64(r) /\ code[2] = W64(q)
      /\ code[3] = Reads(1, r) /\ code[4] = ReadsHi(1, r)
      /\ code[5] = Gives64(2, q)
  BY DEF genori, Reads64
<1> HIDE DEF code
<1>2. PICK f : Emits(f, t, code)
  BY <1>1, EmittedBy
<1>3. /\ f[2] = Call(Call(t, R64(r)), W64(q))
      /\ f[3] = Call(f[2], Reads(1, r))
      /\ f[4] = Call(f[3], ReadsHi(1, r))
      /\ f[5] = Call(f[4], Gives64(2, q))
      /\ Emitted(t, code) = f[5]
  BY <1>1, <1>2 DEF Emits
<1>4. 4 <= Cardinality(X) /\ Cardinality(X) \in Nat /\ Pairs(session) /\ ~Narrow0(session)
  BY Fits, WideSession DEF InUse, Pairing, Widening
<1>5. Writing(f[2], 2, q, TRUE) /\ Lows(f[2], 1, r) /\ Highs(f[2], 1, r)
  BY <1>3, <1>4, ReadWrite64
<1>6. Writing(f[3], 2, q, TRUE) /\ Reading(f[2], f[3])
  BY <1>3, <1>5, WritingReads
<1>7. Highs(f[3], 1, r)
  BY <1>5, <1>6 DEF Reading
<1>8. Writing(f[4], 2, q, TRUE)
  BY <1>3, <1>6, <1>7, WritingReadsHi
<1>9. Ends(f[5])
  BY <1>3, <1>4, <1>8, Gives64Ends
<1> QED
  BY <1>3, <1>9 DEF code

\* Shifts by 32 and more.
LEMMA Dsll32Good ==
  ASSUME Here, NEW t, Begin(t), NEW r \in Regs, NEW q \in Regs,
         session.forms \cap {"dsll32"} # {}
  PROVE  Ends(Emitted(t, gendsll32(r, q)))
<1> DEFINE code == gendsll32(r, q)
<1>1. /\ Len(code) = 4 /\ Len(code) \in Nat /\ DOMAIN code = 1 .. Len(code)
      /\ code[1] = R64(r) /\ code[2] = W64(q)
      /\ code[3] = Reads(1, r) /\ code[4] = Gives64(2, q)
  BY DEF gendsll32
<1> HIDE DEF code
<1>2. PICK f : Emits(f, t, code)
  BY <1>1, EmittedBy
<1>3. /\ f[2] = Call(Call(t, R64(r)), W64(q))
      /\ f[3] = Call(f[2], Reads(1, r))
      /\ f[4] = Call(f[3], Gives64(2, q))
      /\ Emitted(t, code) = f[4]
  BY <1>1, <1>2 DEF Emits
<1>4. 4 <= Cardinality(X) /\ Cardinality(X) \in Nat /\ Pairs(session) /\ ~Narrow0(session)
  BY Fits, WideSession DEF InUse, Pairing, Widening
<1>5. Writing(f[2], 2, q, TRUE) /\ Lows(f[2], 1, r) /\ Highs(f[2], 1, r)
  BY <1>3, <1>4, ReadWrite64
<1>6. Writing(f[3], 2, q, TRUE) /\ Reading(f[2], f[3])
  BY <1>3, <1>5, WritingReads
<1>7. Ends(f[4])
  BY <1>3, <1>4, <1>6, Gives64Ends
<1> QED
  BY <1>3, <1>7 DEF code

LEMMA Dsrl32Good ==
  ASSUME Here, NEW t, Begin(t), NEW r \in Regs, NEW q \in Regs,
         session.forms \cap {"dsrl32"} # {}
  PROVE  Ends(Emitted(t, gendsrl32(r, q)))
<1> DEFINE code == gendsrl32(r, q)
<1>1. /\ Len(code) = 4 /\ Len(code) \in Nat /\ DOMAIN code = 1 .. Len(code)
      /\ code[1] = R64(r) /\ code[2] = W64(q)
      /\ code[3] = ReadsHi(1, r) /\ code[4] = Gives64(2, q)
  BY DEF gendsrl32
<1> HIDE DEF code
<1>2. PICK f : Emits(f, t, code)
  BY <1>1, EmittedBy
<1>3. /\ f[2] = Call(Call(t, R64(r)), W64(q))
      /\ f[3] = Call(f[2], ReadsHi(1, r))
      /\ f[4] = Call(f[3], Gives64(2, q))
      /\ Emitted(t, code) = f[4]
  BY <1>1, <1>2 DEF Emits
<1>4. 4 <= Cardinality(X) /\ Cardinality(X) \in Nat /\ Pairs(session) /\ ~Narrow0(session)
  BY Fits, WideSession DEF InUse, Pairing, Widening
<1>5. Writing(f[2], 2, q, TRUE) /\ Lows(f[2], 1, r) /\ Highs(f[2], 1, r)
  BY <1>3, <1>4, ReadWrite64
<1>6. Writing(f[3], 2, q, TRUE)
  BY <1>3, <1>5, WritingReadsHi
<1>7. Ends(f[4])
  BY <1>3, <1>4, <1>6, Gives64Ends
<1> QED
  BY <1>3, <1>7 DEF code

LEMMA Dsra32Good ==
  ASSUME Here, NEW t, Begin(t), NEW r \in Regs, NEW q \in Regs,
         session.forms \cap {"dsra32"} # {}
  PROVE  Ends(Emitted(t, gendsra32(r, q)))
<1> DEFINE code == gendsra32(r, q)
<1>1. /\ Len(code) = 4 /\ Len(code) \in Nat /\ DOMAIN code = 1 .. Len(code)
      /\ code[1] = R64(r) /\ code[2] = W32(q)
      /\ code[3] = ReadsHi(1, r) /\ code[4] = Gives32(2, q)
  BY DEF gendsra32
<1> HIDE DEF code
<1>2. PICK f : Emits(f, t, code)
  BY <1>1, EmittedBy
<1>3. /\ f[2] = Call(Call(t, R64(r)), W32(q))
      /\ f[3] = Call(f[2], ReadsHi(1, r))
      /\ f[4] = Call(f[3], Gives32(2, q))
      /\ Emitted(t, code) = f[4]
  BY <1>1, <1>2 DEF Emits
<1>4. 3 <= Cardinality(X) /\ Cardinality(X) \in Nat /\ Pairs(session)
  BY Fits DEF InUse, Pairing
<1>5. Writing(f[2], 2, q, FALSE) /\ Lows(f[2], 1, r) /\ Highs(f[2], 1, r)
  BY <1>3, <1>4, ReadWrite32
<1>6. Writing(f[3], 2, q, FALSE)
  BY <1>3, <1>5, WritingReadsHi
<1>7. Ends(f[4])
  BY <1>3, <1>6, Gives32Call
<1> QED
  BY <1>3, <1>7 DEF code

\* slti and sltiu.
LEMMA SltiGood ==
  ASSUME Here, NEW t, Begin(t), NEW r \in Regs, NEW q \in Regs,
         session.forms \cap {"slti"} # {}
  PROVE  Ends(Emitted(t, genslti(r, q)))
<1> DEFINE code == genslti(r, q)
<1>1. /\ Len(code) = 5 /\ Len(code) \in Nat /\ DOMAIN code = 1 .. Len(code)
      /\ code[1] = R64(r) /\ code[2] = W32(q)
      /\ code[3] = Reads(1, r) /\ code[4] = ReadsHi(1, r)
      /\ code[5] = Gives32(2, q)
  BY DEF genslti, Reads64
<1> HIDE DEF code
<1>2. PICK f : Emits(f, t, code)
  BY <1>1, EmittedBy
<1>3. /\ f[2] = Call(Call(t, R64(r)), W32(q))
      /\ f[3] = Call(f[2], Reads(1, r))
      /\ f[4] = Call(f[3], ReadsHi(1, r))
      /\ f[5] = Call(f[4], Gives32(2, q))
      /\ Emitted(t, code) = f[5]
  BY <1>1, <1>2 DEF Emits
<1>4. 3 <= Cardinality(X) /\ Cardinality(X) \in Nat /\ Pairs(session)
  BY Fits DEF InUse, Pairing
<1>5. Writing(f[2], 2, q, FALSE) /\ Lows(f[2], 1, r) /\ Highs(f[2], 1, r)
  BY <1>3, <1>4, ReadWrite32
<1>6. Writing(f[3], 2, q, FALSE) /\ Reading(f[2], f[3])
  BY <1>3, <1>5, WritingReads
<1>7. Highs(f[3], 1, r)
  BY <1>5, <1>6 DEF Reading
<1>8. Writing(f[4], 2, q, FALSE)
  BY <1>3, <1>6, <1>7, WritingReadsHi
<1>9. Ends(f[5])
  BY <1>3, <1>8, Gives32Call
<1> QED
  BY <1>3, <1>9 DEF code

\* lui.
LEMMA LuiGood ==
  ASSUME Here, NEW t, Begin(t), NEW r \in Regs, "lui" \in session.forms
  PROVE  Ends(Emitted(t, genlui(r)))
<1> DEFINE code == genlui(r)
<1>1. /\ Len(code) = 2 /\ Len(code) \in Nat /\ DOMAIN code = 1 .. Len(code)
      /\ code[1] = W32(r) /\ code[2] = Gives32(1, r)
  BY DEF genlui
<1> HIDE DEF code
<1>2. PICK f : Emits(f, t, code)
  BY <1>1, EmittedBy
<1>3. f[1] = Call(t, W32(r)) /\ f[2] = Call(f[1], Gives32(1, r)) /\ Emitted(t, code) = f[2]
  BY <1>1, <1>2 DEF Emits
<1>4. 1 <= Cardinality(X) /\ Cardinality(X) \in Nat
  BY Fits DEF InUse
<1>5. Opened(t, 0) /\ 0 < Cardinality(X) /\ 1 = Len(t.v) + 1
  BY <1>4 DEF Begin
<1>6. Writing(f[1], 1, r, FALSE)
  BY <1>3, <1>5, W32Open
<1>7. Ends(f[2])
  BY <1>3, <1>6, Gives32Call
<1> QED
  BY <1>3, <1>7 DEF code

\* Both words of a value are read.
LEMMA ReadsPair ==
  ASSUME Here, NEW t, NEW k, NEW r, NEW wide, Writing(t, k, r, wide), NEW h, NEW q \in Regs,
         Lows(t, h, q), Highs(t, h, q)
  PROVE  LET u == Call(Call(t, Reads(h, q)), ReadsHi(h, q)) IN
         Writing(u, k, r, wide) /\ Reading(t, u)
<1> DEFINE a == Call(t, Reads(h, q))
           u == Call(a, ReadsHi(h, q))
<1>1. Writing(a, k, r, wide) /\ Reading(t, a)
  BY WritingReads
<1> HIDE DEF a
<1>2. Highs(a, h, q)
  BY <1>1 DEF Reading
<1>3. Writing(u, k, r, wide) /\ Reading(a, u)
  BY <1>1, <1>2, WritingReadsHi
<1> HIDE DEF u
<1>4. Reading(t, u)
  BY <1>1, <1>3, ReadingOn
<1> QED
  BY <1>3, <1>4 DEF u, a

\* Two 32 bit values have been read: the register of the result, and a scratch
\* register where it is one of theirs.
LEMMA Result32 ==
  ASSUME Here, NEW t, NEW n \in Nat, Opened(t, n), n < Cardinality(X), Len(t.v) = 2,
         NEW rs \in Regs, NEW rt \in Regs, NEW rd \in Regs, ReadBy(t, 1, rs), ReadBy(t, 2, rt),
         NEW ks \in SUBSET {1, 2}
  PROVE  LET u == Call(Call(t, W32(rd)), TempIf(ks)) IN
         Writing(u, 3, rd, FALSE) /\ Lows(u, 1, rs) /\ Lows(u, 2, rt)
<1> DEFINE a == Call(t, W32(rd))
           u == Call(a, TempIf(ks))
<1>1. 3 = Len(t.v) + 1 /\ Past(t) = {1, 2}
  BY DEF Past
<1>2. /\ Writing(a, 3, rd, FALSE) /\ Adds(t, a) /\ KeepsLow(t, a)
      /\ Accessed(t, a.v[3][1]) => Room(a, n)
  BY <1>1, W32Open
<1> HIDE DEF a
<1>3. ReadBy(a, 1, rs) /\ ReadBy(a, 2, rt)
  BY <1>1, <1>2 DEF KeepsLow
<1>4. (\E k \in ks : a.v[k][1] = a.v[3][1]) => Room(a, n)
  <2> SUFFICES ASSUME NEW k \in ks, a.v[k][1] = a.v[3][1]
               PROVE  Room(a, n)
    OBVIOUS
  <2>1. a.v[k] = t.v[k] /\ Accessed(t, t.v[k][1])
    BY <1>1, <1>2 DEF Adds, ReadBy
  <2> QED
    BY <1>2, <2>1
<1>5. Writing(u, 3, rd, FALSE) /\ u.v = a.v /\ KeepsOn(a, u)
  <2> DEFINE wide == FALSE
  <2>1. Writing(a, 3, rd, wide) /\ wide \in BOOLEAN
    BY <1>2
  <2> HIDE DEF wide
  <2>2. Writing(u, 3, rd, wide) /\ u.v = a.v /\ KeepsOn(a, u)
    BY <1>4, <2>1, TempCall
  <2> QED
    BY <2>2 DEF wide
<1> HIDE DEF u
<1>6. 1 \in Past(a) /\ 2 \in Past(a)
  BY <1>2 DEF Adds, Past
<1>7. ReadBy(u, 1, rs) /\ ReadBy(u, 2, rt)
  BY <1>3, <1>5, <1>6 DEF KeepsOn
<1> QED
  BY <1>5, <1>7 DEF u, a, ReadBy, Lows

\* Two calls.
Calls(t, o1, o2) == Call(Call(t, o1), o2)

LEMMA Ends32 ==
  ASSUME Here, NEW t, NEW rs \in Regs, NEW rt \in Regs, NEW rd \in Regs,
         Writing(t, 3, rd, FALSE), Lows(t, 1, rs), Lows(t, 2, rt)
  PROVE  Ends(Call(Calls(t, Reads(1, rs), Reads(2, rt)), Gives32(3, rd)))
<1> DEFINE a == Call(t, Reads(1, rs))
           b == Call(a, Reads(2, rt))
<1>1. Writing(a, 3, rd, FALSE) /\ Reading(t, a)
  BY WritingReads
<1> HIDE DEF a
<1>2. Lows(a, 2, rt)
  BY <1>1 DEF Reading
<1>3. Writing(b, 3, rd, FALSE)
  BY <1>1, <1>2, WritingReads
<1> HIDE DEF b
<1>4. Ends(Call(b, Gives32(3, rd)))
  BY <1>3, Gives32Call
<1>5. b = Calls(t, Reads(1, rs), Reads(2, rt))
  BY DEF b, a, Calls
<1> QED
  BY <1>4, <1>5

\* add and addu, sub and subu.
LEMMA AdduGood ==
  ASSUME Here, NEW t, Begin(t), NEW rs \in Regs, NEW rt \in Regs, NEW rd \in Regs, "addu" \in session.forms
  PROVE  Ends(Emitted(t, genaddu(rs, rt, rd)))
<1> DEFINE code == genaddu(rs, rt, rd)
           two == Two(session)
           four == two + two
<1>1. /\ Len(code) = 7 /\ Len(code) \in Nat /\ DOMAIN code = 1 .. Len(code)
      /\ code[1] = R32(rs) /\ code[2] = R32(rt) /\ code[3] = W32(rd) /\ code[4] = TempIf({1, 2})
      /\ code[5] = Reads(1, rs) /\ code[6] = Reads(2, rt) /\ code[7] = Gives32(3, rd)
  BY DEF genaddu
<1> HIDE DEF code
<1>2. PICK f : Emits(f, t, code)
  BY <1>1, EmittedBy
<1>3. /\ f[1] = Call(t, R32(rs)) /\ f[2] = Call(f[1], R32(rt))
      /\ f[4] = Call(Call(f[2], W32(rd)), TempIf({1, 2}))
      /\ f[7] = Call(Calls(f[4], Reads(1, rs), Reads(2, rt)), Gives32(3, rd))
      /\ Emitted(t, code) = f[7]
  BY <1>1, <1>2 DEF Emits, Calls
<1>4. /\ 2 * two + 1 <= Cardinality(X) /\ Cardinality(X) \in Nat /\ two \in {1, 2}
      /\ session.forms \cap Low # {}
  BY Fits DEF InUse, Low
<1> HIDE DEF two
<1>5. two \in Nat /\ two < Cardinality(X) /\ four \in Nat /\ four < Cardinality(X)
  BY <1>4
<1>6. Opened(f[1], two) /\ Len(f[1].v) = 1 /\ ReadBy(f[1], 1, rs)
  <2>1. Opened(t, 0) /\ Len(t.v) = 0 /\ 0 < Cardinality(X) /\ two = 0 + two /\ 1 = Len(t.v) + 1
    BY <1>4 DEF Begin
  <2>2. Opened(f[1], two) /\ Adds(t, f[1]) /\ ReadBy(f[1], 1, rs)
    BY <1>3, <1>4, <2>1, R32Open DEF two
  <2> QED
    BY <2>1, <2>2 DEF Adds
<1>7. 1 \in Past(f[1]) /\ 2 = Len(f[1].v) + 1
  BY <1>6 DEF Past
<1>8. Opened(f[2], four) /\ Adds(f[1], f[2]) /\ Keeps(f[1], f[2]) /\ ReadBy(f[2], 2, rt)
  <2>1. four = two + Two(session)
    BY DEF two
  <2> HIDE DEF four
  <2> QED
    BY <1>3, <1>4, <1>5, <1>6, <1>7, <2>1, R32Open
<1> HIDE DEF four
<1>9. ReadBy(f[2], 1, rs) /\ Len(f[2].v) = 2
  BY <1>6, <1>7, <1>8 DEF Keeps, Adds
<1>10. Writing(f[4], 3, rd, FALSE) /\ Lows(f[4], 1, rs) /\ Lows(f[4], 2, rt)
  <2> DEFINE ks == {1, 2}
  <2>1. ks \in SUBSET {1, 2}
    OBVIOUS
  <2>2. f[4] = Call(Call(f[2], W32(rd)), TempIf(ks))
    BY <1>3
  <2> HIDE DEF ks
  <2> QED
    BY <1>5, <1>8, <1>9, <2>1, <2>2, Result32
<1>11. Ends(f[7])
  BY <1>3, <1>10, Ends32
<1> QED
  BY <1>3, <1>11 DEF code

\* The register that holds the amount of a shift.
LEMMA ManuallyOpen ==
  ASSUME Here, NEW t, Begin(t), NEW r \in Regs, NEW x \in X, session.forms \cap Low # {}
  PROVE  LET u == Call(t, Manually(x, r)) IN
         Opened(u, Two(session)) /\ Len(u.v) = 1 /\ ReadBy(u, 1, r) /\ u.v[1][1] = x
<1> DEFINE a == At(allocate_register_manually(t, x, Lo(r)), x)
           P == {}
           u == New(a)
<1>1. Good(t, P) /\ Room(t, 0) /\ NarrowOK(t) /\ t.v = <<>>
  BY DEF Begin, Opened
<1>2. Testing(session) => r \in t.narrow
  BY <1>1 DEF NarrowOK, Narrow0
<1>3. Manual(t, a, x, r) /\ a.x = x
  <2>1. Manual(t, a, x, r)
    BY <1>1, <1>2, ManuallyGood
  <2>2. a.x = x
    <3> DEFINE b == allocate_register_manually(t, x, Lo(r))
    <3>1. a = [b EXCEPT !.x = x]
      BY DEF At
    <3>2. a \in States
      BY <2>1 DEF Manual, Good, Core
    <3> HIDE DEF b
    <3> QED
      BY <3>1, <3>2 DEF States
  <2> QED
    BY <2>1, <2>2
<1> HIDE DEF a
<1>4. /\ Good(a, P) /\ Accessed(a, x) /\ Ready(a, x, Lo(r)) /\ Room(a, Two(session))
      /\ a.narrow = t.narrow /\ a.v = t.v
  BY <1>3 DEF Manual
<1> HIDE DEF P
<1>5. /\ Good(u, P) /\ Only(a, u, {"v"}) /\ Adds(a, u)
      /\ u.v[Len(a.v) + 1] = <<a.x, a.r64[a.x]>>
  BY <1>3, <1>4, NewGood
<1> HIDE DEF u
<1>6. /\ Used(u) = Used(a) /\ u.narrow = a.narrow /\ u.r64 = a.r64
      /\ \A y : /\ Accessed(u, y) = Accessed(a, y) /\ Paired(u, y) = Paired(a, y)
                /\ \A w : Ready(u, y, w) = Ready(a, y, w)
  BY <1>5, NewSame
<1>7. Len(u.v) = 1 /\ u.v[1][1] = x
  BY <1>1, <1>3, <1>4, <1>5 DEF Adds
<1>8. Opened(u, Two(session))
  BY <1>1, <1>4, <1>5, <1>6 DEF Opened, Room, NarrowOK, P
<1>9. ReadBy(u, 1, r)
  BY <1>4, <1>6, <1>7 DEF ReadBy
<1>10. u = Call(t, Manually(x, r))
  BY DEF u, a, Call, Manually
<1> QED
  BY <1>7, <1>8, <1>9, <1>10

\* A 32 bit shift by a register, whose amount is in ECX.
LEMMA SllvGood ==
  ASSUME Here, NEW t, Begin(t), NEW rs \in Regs, NEW rt \in Regs, NEW rd \in Regs, "sllv" \in session.forms
  PROVE  Ends(Emitted(t, gensllv(rs, rt, rd)))
<1> DEFINE code == gensllv(rs, rt, rd)
           two == Two(session)
           four == two + two
<1>1. /\ Len(code) = 7 /\ Len(code) \in Nat /\ DOMAIN code = 1 .. Len(code)
      /\ code[1] = Manually(ECX, rs) /\ code[2] = R32(rt) /\ code[3] = W32(rd) /\ code[4] = TempIf({1})
      /\ code[5] = Reads(1, rs) /\ code[6] = Reads(2, rt) /\ code[7] = Gives32(3, rd)
  BY DEF gensllv
<1> HIDE DEF code
<1>2. PICK f : Emits(f, t, code)
  BY <1>1, EmittedBy
<1>3. /\ f[1] = Call(t, Manually(ECX, rs)) /\ f[2] = Call(f[1], R32(rt))
      /\ f[4] = Call(Call(f[2], W32(rd)), TempIf({1}))
      /\ f[7] = Call(Calls(f[4], Reads(1, rs), Reads(2, rt)), Gives32(3, rd))
      /\ Emitted(t, code) = f[7]
  BY <1>1, <1>2 DEF Emits, Calls
<1>4. /\ 2 * two + 1 <= Cardinality(X) /\ Cardinality(X) \in Nat /\ two \in {1, 2}
      /\ session.forms \cap Low # {} /\ ECX \in X
  BY Fits DEF InUse, Low, ByName
<1> HIDE DEF two
<1>5. two \in Nat /\ two < Cardinality(X) /\ four \in Nat /\ four < Cardinality(X)
  BY <1>4
<1>6. Opened(f[1], two) /\ Len(f[1].v) = 1 /\ ReadBy(f[1], 1, rs)
  BY <1>3, <1>4, ManuallyOpen DEF two
<1>7. 1 \in Past(f[1]) /\ 2 = Len(f[1].v) + 1
  BY <1>6 DEF Past
<1>8. Opened(f[2], four) /\ Adds(f[1], f[2]) /\ Keeps(f[1], f[2]) /\ ReadBy(f[2], 2, rt)
  <2>1. four = two + Two(session)
    BY DEF two
  <2> HIDE DEF four
  <2> QED
    BY <1>3, <1>4, <1>5, <1>6, <1>7, <2>1, R32Open
<1> HIDE DEF four
<1>9. ReadBy(f[2], 1, rs) /\ Len(f[2].v) = 2
  BY <1>6, <1>7, <1>8 DEF Keeps, Adds
<1>10. Writing(f[4], 3, rd, FALSE) /\ Lows(f[4], 1, rs) /\ Lows(f[4], 2, rt)
  <2> DEFINE ks == {1}
  <2>1. ks \in SUBSET {1, 2}
    OBVIOUS
  <2>2. f[4] = Call(Call(f[2], W32(rd)), TempIf(ks))
    BY <1>3
  <2> HIDE DEF ks
  <2> QED
    BY <1>5, <1>8, <1>9, <2>1, <2>2, Result32
<1>11. Ends(f[7])
  BY <1>3, <1>10, Ends32
<1> QED
  BY <1>3, <1>11 DEF code

\* Two values are read.
LEMMA Read64Twice ==
  ASSUME Here, NEW t, Begin(t), NEW rs \in Regs, NEW rt \in Regs, 4 <= Cardinality(X),
         Cardinality(X) \in Nat, Pairs(session)
  PROVE  LET u == Call(Call(t, R64(rs)), R64(rt)) IN
         Opened(u, 4) /\ Len(u.v) = 2 /\ ReadBoth(u, 1, rs) /\ ReadBoth(u, 2, rt)
<1> DEFINE a == Call(t, R64(rs))
           u == Call(a, R64(rt))
<1>1. Opened(t, 0) /\ Len(t.v) = 0 /\ 0 + 2 <= Cardinality(X) /\ 2 = 0 + 2 /\ 1 = Len(t.v) + 1
  BY DEF Begin
<1>2. Opened(a, 2) /\ Adds(t, a) /\ ReadBoth(a, 1, rs)
  BY <1>1, R64Open
<1> HIDE DEF a
<1>3. Len(a.v) = 1 /\ 1 \in Past(a) /\ 2 + 2 <= Cardinality(X) /\ 4 = 2 + 2 /\ 2 = Len(a.v) + 1
  BY <1>1, <1>2 DEF Adds, Past
<1>4. Opened(u, 4) /\ Adds(a, u) /\ Keeps(a, u) /\ ReadBoth(u, 2, rt)
  BY <1>2, <1>3, R64Open
<1> HIDE DEF u
<1>5. Len(u.v) = 2 /\ ReadBoth(u, 1, rs)
  BY <1>2, <1>3, <1>4 DEF Adds, Keeps
<1> QED
  BY <1>4, <1>5 DEF u, a

\* Registers for a 64 bit result, and a scratch register where one is theirs.
LEMMA Result64 ==
  ASSUME Here, NEW t, Opened(t, 4), 6 <= Cardinality(X), Cardinality(X) \in Nat, Pairs(session),
         Len(t.v) = 2, NEW rs \in Regs, NEW rt \in Regs, NEW rd \in Regs,
         ReadBoth(t, 1, rs), ReadBoth(t, 2, rt)
  PROVE  LET u == Call(Call(t, W64(rd)), TempIf({1, 2})) IN
         Writing(u, 3, rd, TRUE) /\ Lows(u, 1, rs) /\ Highs(u, 1, rs) /\ Lows(u, 2, rt) /\ Highs(u, 2, rt)
<1> DEFINE ks == {1, 2}
           a == Call(t, W64(rd))
           u == Call(a, TempIf(ks))
<1>1. 3 = Len(t.v) + 1 /\ Past(t) = {1, 2} /\ 4 + 2 <= Cardinality(X) /\ 4 < Cardinality(X)
  BY DEF Past
<1>2. /\ Writing(a, 3, rd, TRUE) /\ Adds(t, a) /\ KeepsOn(t, a)
      /\ Accessed(t, a.v[3][1]) /\ Paired(t, a.v[3][1]) => Room(a, 4)
  BY <1>1, W64Open
<1> HIDE DEF a
<1>3. ReadBy(a, 1, rs) /\ ReadHi(a, 1, rs) /\ ReadBy(a, 2, rt) /\ ReadHi(a, 2, rt)
  BY <1>1, <1>2 DEF KeepsOn, ReadBoth
<1>4. (\E k \in ks : a.v[k][1] = a.v[3][1]) => Room(a, 4)
  <2> SUFFICES ASSUME NEW k \in ks, a.v[k][1] = a.v[3][1]
               PROVE  Room(a, 4)
    OBVIOUS
  <2>1. a.v[k] = t.v[k] /\ Accessed(t, t.v[k][1]) /\ Paired(t, t.v[k][1])
    BY <1>1, <1>2 DEF Adds, ReadBoth, ReadBy
  <2> QED
    BY <1>2, <2>1
<1> HIDE DEF ks
<1>5. Writing(u, 3, rd, TRUE) /\ u.v = a.v /\ KeepsOn(a, u)
  <2> DEFINE wide == TRUE
  <2>1. Writing(a, 3, rd, wide) /\ wide \in BOOLEAN
    BY <1>2
  <2> HIDE DEF wide
  <2>2. Writing(u, 3, rd, wide) /\ u.v = a.v /\ KeepsOn(a, u)
    BY <1>1, <1>4, <2>1, TempCall
  <2> QED
    BY <2>2 DEF wide
<1> HIDE DEF u
<1>6. 1 \in Past(a) /\ 2 \in Past(a)
  BY <1>2 DEF Adds, Past
<1>7. ReadBy(u, 1, rs) /\ ReadHi(u, 1, rs) /\ ReadBy(u, 2, rt) /\ ReadHi(u, 2, rt)
  BY <1>3, <1>5, <1>6 DEF KeepsOn
<1>8. u = Call(Call(t, W64(rd)), TempIf({1, 2}))
  BY DEF u, a, ks
<1> QED
  BY <1>5, <1>7, <1>8 DEF ReadBy, ReadHi, Lows, Highs

\* Both values are taken.
LEMMA ReadsTwo ==
  ASSUME Here, NEW t, NEW rs \in Regs, NEW rt \in Regs, NEW rd \in Regs, NEW wide,
         Writing(t, 3, rd, wide), Lows(t, 1, rs), Highs(t, 1, rs), Lows(t, 2, rt), Highs(t, 2, rt)
  PROVE  Writing(Calls(Calls(t, Reads(1, rs), ReadsHi(1, rs)), Reads(2, rt), ReadsHi(2, rt)), 3, rd, wide)
<1> DEFINE a == Call(Call(t, Reads(1, rs)), ReadsHi(1, rs))
           b == Call(Call(a, Reads(2, rt)), ReadsHi(2, rt))
<1>1. Writing(a, 3, rd, wide) /\ Reading(t, a)
  BY ReadsPair
<1> HIDE DEF a
<1>2. Lows(a, 2, rt) /\ Highs(a, 2, rt)
  BY <1>1 DEF Reading
<1>3. Writing(b, 3, rd, wide)
  BY <1>1, <1>2, ReadsPair
<1>4. b = Calls(Calls(t, Reads(1, rs), ReadsHi(1, rs)), Reads(2, rt), ReadsHi(2, rt))
  BY DEF b, a, Calls
<1> QED
  BY <1>3, <1>4

\* dadd, daddu, dsub and dsubu, and the logical ones.
LEMMA DadduGood ==
  ASSUME Here, NEW t, Begin(t), NEW rs \in Regs, NEW rt \in Regs, NEW rd \in Regs,
         session.forms \cap {"daddu", "and"} # {}
  PROVE  Ends(Emitted(t, gendaddu(rs, rt, rd)))
<1> DEFINE code == gendaddu(rs, rt, rd)
<1>1. /\ Len(code) = 9 /\ Len(code) \in Nat /\ DOMAIN code = 1 .. Len(code)
      /\ code[1] = R64(rs) /\ code[2] = R64(rt) /\ code[3] = W64(rd) /\ code[4] = TempIf({1, 2})
      /\ code[5] = Reads(1, rs) /\ code[6] = ReadsHi(1, rs) /\ code[7] = Reads(2, rt)
      /\ code[8] = ReadsHi(2, rt) /\ code[9] = Gives64(3, rd)
  BY DEF gendaddu, Reads64
<1> HIDE DEF code
<1>2. PICK f : Emits(f, t, code)
  BY <1>1, EmittedBy
<1>3. /\ f[2] = Call(Call(t, R64(rs)), R64(rt))
      /\ f[4] = Call(Call(f[2], W64(rd)), TempIf({1, 2}))
      /\ f[8] = Calls(Calls(f[4], Reads(1, rs), ReadsHi(1, rs)), Reads(2, rt), ReadsHi(2, rt))
      /\ f[9] = Call(f[8], Gives64(3, rd)) /\ Emitted(t, code) = f[9]
  BY <1>1, <1>2 DEF Emits, Calls
<1>4. 6 <= Cardinality(X) /\ Cardinality(X) \in Nat /\ Pairs(session) /\ ~Narrow0(session)
  BY Fits, WideSession DEF InUse, Pairing, Widening
<1>5. 4 <= Cardinality(X)
  BY <1>4
<1>6. Opened(f[2], 4) /\ Len(f[2].v) = 2 /\ ReadBoth(f[2], 1, rs) /\ ReadBoth(f[2], 2, rt)
  BY <1>3, <1>4, <1>5, Read64Twice
<1>7. /\ Writing(f[4], 3, rd, TRUE)
      /\ Lows(f[4], 1, rs) /\ Highs(f[4], 1, rs) /\ Lows(f[4], 2, rt) /\ Highs(f[4], 2, rt)
  BY <1>3, <1>4, <1>6, Result64
<1>8. Writing(f[8], 3, rd, TRUE)
  BY <1>3, <1>7, ReadsTwo
<1>9. Ends(f[9])
  BY <1>3, <1>4, <1>8, Gives64Ends
<1> QED
  BY <1>3, <1>9 DEF code

\* slt and sltu.
LEMMA SltGood ==
  ASSUME Here, NEW t, Begin(t), NEW rs \in Regs, NEW rt \in Regs, NEW rd \in Regs, "slt" \in session.forms
  PROVE  Ends(Emitted(t, genslt(rs, rt, rd)))
<1> DEFINE code == genslt(rs, rt, rd)
<1>1. /\ Len(code) = 8 /\ Len(code) \in Nat /\ DOMAIN code = 1 .. Len(code)
      /\ code[1] = R64(rs) /\ code[2] = R64(rt) /\ code[3] = W32(rd)
      /\ code[4] = Reads(1, rs) /\ code[5] = ReadsHi(1, rs) /\ code[6] = Reads(2, rt)
      /\ code[7] = ReadsHi(2, rt) /\ code[8] = Gives32(3, rd)
  BY DEF genslt, Reads64
<1> HIDE DEF code
<1>2. PICK f : Emits(f, t, code)
  BY <1>1, EmittedBy
<1>3. /\ f[2] = Call(Call(t, R64(rs)), R64(rt)) /\ f[3] = Call(f[2], W32(rd))
      /\ f[7] = Calls(Calls(f[3], Reads(1, rs), ReadsHi(1, rs)), Reads(2, rt), ReadsHi(2, rt))
      /\ f[8] = Call(f[7], Gives32(3, rd)) /\ Emitted(t, code) = f[8]
  BY <1>1, <1>2 DEF Emits, Calls
<1>4. 5 <= Cardinality(X) /\ Cardinality(X) \in Nat /\ Pairs(session)
  BY Fits DEF InUse, Pairing
<1>5. 4 <= Cardinality(X) /\ 4 < Cardinality(X)
  BY <1>4
<1>6. Opened(f[2], 4) /\ Len(f[2].v) = 2 /\ ReadBoth(f[2], 1, rs) /\ ReadBoth(f[2], 2, rt)
  BY <1>3, <1>4, <1>5, Read64Twice
<1>7. 3 = Len(f[2].v) + 1 /\ 1 \in Past(f[2]) /\ 2 \in Past(f[2])
  BY <1>6 DEF Past
<1>8. Writing(f[3], 3, rd, FALSE) /\ KeepsLow(f[2], f[3])
  BY <1>3, <1>5, <1>6, <1>7, W32Open
<1>9. Lows(f[3], 1, rs) /\ Highs(f[3], 1, rs) /\ Lows(f[3], 2, rt) /\ Highs(f[3], 2, rt)
  BY <1>6, <1>7, <1>8 DEF KeepsLow, ReadBoth, ReadBy, Lows, Highs
<1>10. Writing(f[7], 3, rd, FALSE)
  BY <1>3, <1>8, <1>9, ReadsTwo
<1>11. Ends(f[8])
  BY <1>3, <1>10, Gives32Call
<1> QED
  BY <1>3, <1>11 DEF code

\* No scratch register is needed.
LEMMA NoTemps ==
  ASSUME NEW t, ECX \notin {t.v[3][1], t.v[3][2]}
  PROVE  Call(t, Temps) = t
<1> DEFINE o == Temps
<1>0. o.call = "temps"
  BY DEF Temps
<1> HIDE DEF o
<1>1. Call(t, o) = TwoTemps(t)
  BY <1>0 DEF Call
<1>2. TwoTemps(t) = t
  BY DEF TwoTemps
<1> QED
  BY <1>1, <1>2 DEF o

\* A 64 bit shift by a register; the amount is not in those of the result.
LEMMA DsllvGood ==
  ASSUME Here, NEW t, Begin(t), NEW rs \in Regs, NEW rt \in Regs, NEW rd \in Regs, rd # rs,
         "dsllv" \in session.forms
  PROVE  Ends(Emitted(t, gendsllv(rs, rt, rd)))
<1> DEFINE code == gendsllv(rs, rt, rd)
<1>1. /\ Len(code) = 8 /\ Len(code) \in Nat /\ DOMAIN code = 1 .. Len(code)
      /\ code[1] = Manually(ECX, rs) /\ code[2] = R64(rt) /\ code[3] = W64(rd) /\ code[4] = Temps
      /\ code[5] = Reads(1, rs) /\ code[6] = Reads(2, rt) /\ code[7] = ReadsHi(2, rt)
      /\ code[8] = Gives64(3, rd)
  BY DEF gendsllv, Reads64
<1> HIDE DEF code
<1>2. PICK f : Emits(f, t, code)
  BY <1>1, EmittedBy
<1>3. /\ f[1] = Call(t, Manually(ECX, rs)) /\ f[2] = Call(f[1], R64(rt)) /\ f[3] = Call(f[2], W64(rd))
      /\ f[4] = Call(f[3], Temps) /\ f[5] = Call(f[4], Reads(1, rs))
      /\ f[7] = Call(Call(f[5], Reads(2, rt)), ReadsHi(2, rt))
      /\ f[8] = Call(f[7], Gives64(3, rd)) /\ Emitted(t, code) = f[8]
  BY <1>1, <1>2 DEF Emits
<1>4. /\ 6 <= Cardinality(X) /\ Cardinality(X) \in Nat /\ Pairs(session) /\ ~Narrow0(session)
      /\ ECX \in X /\ session.forms \cap Low # {}
  BY Fits, WideSession DEF InUse, Pairing, Widening, ByName, Low
<1>5. Two(session) = 2 /\ 2 + 2 <= Cardinality(X) /\ 4 = 2 + 2 /\ 4 + 2 <= Cardinality(X)
  BY <1>4 DEF Two
<1>6. Opened(f[1], 2) /\ Len(f[1].v) = 1 /\ ReadBy(f[1], 1, rs) /\ f[1].v[1][1] = ECX
  BY <1>3, <1>4, <1>5, ManuallyOpen
<1>7. 1 \in Past(f[1]) /\ 2 = Len(f[1].v) + 1
  BY <1>6 DEF Past
<1>8. Opened(f[2], 4) /\ Adds(f[1], f[2]) /\ Keeps(f[1], f[2]) /\ ReadBoth(f[2], 2, rt)
  BY <1>3, <1>4, <1>5, <1>6, <1>7, R64Open
<1>9. ReadBy(f[2], 1, rs) /\ Len(f[2].v) = 2 /\ f[2].v[1][1] = ECX
  BY <1>6, <1>7, <1>8 DEF Keeps, Adds
<1>10. 1 \in Past(f[2]) /\ 2 \in Past(f[2]) /\ 3 = Len(f[2].v) + 1
  BY <1>9 DEF Past
<1>11. Writing(f[3], 3, rd, TRUE) /\ Adds(f[2], f[3]) /\ KeepsOn(f[2], f[3])
  BY <1>3, <1>4, <1>5, <1>8, <1>10, W64Open
<1>12. ReadBy(f[3], 1, rs) /\ Lows(f[3], 2, rt) /\ Highs(f[3], 2, rt) /\ f[3].v[1][1] = ECX
  BY <1>8, <1>9, <1>10, <1>11 DEF Adds, KeepsOn, ReadBoth, ReadBy, ReadHi, Lows, Highs
<1>13. ECX \notin {f[3].v[3][1], f[3].v[3][2]}
  <2>1. f[3].reg_content[ECX] = Lo(rs)
    BY <1>12 DEF ReadBy, Ready
  <2>2. f[3].reg_content[f[3].v[3][1]] = Lo(rd) /\ f[3].reg_content[f[3].v[3][2]] = Hi(rd)
    BY <1>11 DEF Writing, Made64
  <2>3. Lo(rs) # Lo(rd) /\ Lo(rs) # Hi(rd)
    BY Words
  <2> QED
    BY <2>1, <2>2, <2>3
<1>14. f[4] = f[3]
  BY <1>3, <1>13, NoTemps
<1>15. Writing(f[5], 3, rd, TRUE) /\ Reading(f[3], f[5])
  BY <1>3, <1>11, <1>12, <1>14, WritingReads DEF ReadBy, Lows
<1>16. Lows(f[5], 2, rt) /\ Highs(f[5], 2, rt)
  BY <1>12, <1>15 DEF Reading
<1>17. Writing(f[7], 3, rd, TRUE)
  BY <1>3, <1>15, <1>16, ReadsPair
<1>18. Ends(f[8])
  BY <1>3, <1>4, <1>17, Gives64Ends
<1> QED
  BY <1>3, <1>18 DEF code

\* mfhi, mflo, mthi and mtlo: the registers of the result come first.
LEMMA MoveGood ==
  ASSUME Here, NEW t, Begin(t), NEW from \in Regs, NEW to \in Regs, from # to, "move" \in session.forms
  PROVE  Ends(Emitted(t, genmfhi(from, to)))
<1> DEFINE code == genmfhi(from, to)
<1>1. /\ Len(code) = 5 /\ Len(code) \in Nat /\ DOMAIN code = 1 .. Len(code)
      /\ code[1] = W64(to) /\ code[2] = R64(from)
      /\ code[3] = Reads(2, from) /\ code[4] = ReadsHi(2, from) /\ code[5] = Gives64(1, to)
  BY DEF genmfhi, Reads64
<1> HIDE DEF code
<1>2. PICK f : Emits(f, t, code)
  BY <1>1, EmittedBy
<1>3. /\ f[1] = Call(t, W64(to)) /\ f[2] = Call(f[1], R64(from))
      /\ f[4] = Call(Call(f[2], Reads(2, from)), ReadsHi(2, from))
      /\ f[5] = Call(f[4], Gives64(1, to)) /\ Emitted(t, code) = f[5]
  BY <1>1, <1>2 DEF Emits
<1>4. /\ 4 <= Cardinality(X) /\ Cardinality(X) \in Nat /\ Pairs(session) /\ ~Narrow0(session)
  BY Fits, WideSession DEF InUse, Pairing, Widening
<1>5. Opened(t, 0) /\ Len(t.v) = 0 /\ 0 + 2 <= Cardinality(X) /\ 1 = Len(t.v) + 1
  BY <1>4 DEF Begin
<1>6. Writing(f[1], 1, to, TRUE) /\ Adds(t, f[1]) /\ Room(f[1], 2)
  <2> DEFINE n == 0
             u == Call(t, W64(to))
  <2>1. n \in Nat /\ Opened(t, n) /\ n + 2 <= Cardinality(X) /\ n + 2 = 2
    BY <1>5
  <2> HIDE DEF n
  <2>2. /\ Writing(u, Len(t.v) + 1, to, TRUE) /\ Adds(t, u) /\ KeepsOn(t, u) /\ Room(u, n + 2)
        /\ Accessed(t, u.v[Len(t.v) + 1][1]) /\ Paired(t, u.v[Len(t.v) + 1][1]) => Room(u, n)
    BY <1>4, <2>1, W64Call
  <2> HIDE DEF u
  <2>3. Writing(u, 1, to, TRUE) /\ Adds(t, u) /\ Room(u, 2)
    BY <1>5, <2>1, <2>2
  <2> QED
    BY <1>3, <2>3 DEF u
<1> DEFINE P == Making(f[1], 1, TRUE)
<1>7. /\ Good(f[1], P) /\ NarrowOK(f[1]) /\ Made64(f[1], f[1].v[1][1], f[1].v[1][2], to)
      /\ P = {f[1].v[1][1], f[1].v[1][2]}
  BY <1>6 DEF Writing, Making
<1> HIDE DEF P
<1>8. Apart(f[1], P, from)
  <2>1. {Lo(to), Hi(to)} \subseteq Word \ {Lo(from), Hi(from)}
    BY Words
  <2>2. \A y \in P : f[1].reg_content[y] \in {Lo(to), Hi(to)}
    BY <1>7 DEF Made64
  <2> QED
    BY <2>1, <2>2 DEF Apart
<1>9. 2 + 2 <= Cardinality(X) /\ Len(f[1].v) = 1 /\ 2 = Len(f[1].v) + 1
  BY <1>4, <1>5, <1>6 DEF Adds
<1>10. /\ Good(f[2], P) /\ Adds(f[1], f[2]) /\ ReadBoth(f[2], 2, from) /\ f[2].narrow = f[1].narrow
       /\ \A y \in P : Accessed(f[1], y) => /\ f[2].reg_content[y] = f[1].reg_content[y]
                                            /\ f[2].dirty[y] = f[1].dirty[y] /\ f[2].r64[y] = f[1].r64[y]
  <2> DEFINE a == f[1]
             u == Call(a, R64(from))
  <2>1. Good(a, P) /\ Room(a, 2) /\ Apart(a, P, from) /\ 2 + 2 <= Cardinality(X) /\ Pairs(session)
    BY <1>4, <1>6, <1>7, <1>8, <1>9
  <2> HIDE DEF a
  <2>2. /\ Good(u, P) /\ Adds(a, u) /\ ReadBoth(u, Len(a.v) + 1, from) /\ u.narrow = a.narrow
        /\ \A y \in P : Accessed(a, y) => /\ u.reg_content[y] = a.reg_content[y]
                                          /\ u.dirty[y] = a.dirty[y] /\ u.r64[y] = a.r64[y]
    BY <2>1, R64Call
  <2>3. u = f[2] /\ Len(a.v) + 1 = 2
    BY <1>3, <1>9 DEF a
  <2> HIDE DEF u
  <2> QED
    BY <2>2, <2>3 DEF a
<1>11. f[2].v[1] = f[1].v[1]
  BY <1>9, <1>10 DEF Adds, Past
<1>12. Made64(f[2], f[2].v[1][1], f[2].v[1][2], to)
  <2> DEFINE y1 == f[1].v[1][1]
             y2 == f[1].v[1][2]
  <2>1. y1 \in P /\ y2 \in P
    BY <1>7
  <2>2. Accessed(f[2], y1) /\ Accessed(f[2], y2)
    BY <1>10, <2>1 DEF Good, Accessed
  <2>3. Made64(f[1], y1, y2, to)
    BY <1>7
  <2> HIDE DEF y1, y2
  <2>4. Made64(f[2], y1, y2, to)
    BY <1>10, <2>1, <2>2, <2>3 DEF Made64
  <2> QED
    BY <1>11, <2>4 DEF y1, y2
<1>13. Writing(f[2], 1, to, TRUE)
  BY <1>7, <1>10, <1>11, <1>12 DEF Writing, Making, NarrowOK
<1>14. Lows(f[2], 2, from) /\ Highs(f[2], 2, from)
  BY <1>10 DEF ReadBoth, ReadBy, ReadHi, Lows, Highs
<1>15. Writing(f[4], 1, to, TRUE)
  BY <1>3, <1>13, <1>14, ReadsPair
<1>16. Ends(f[5])
  BY <1>3, <1>4, <1>15, Gives64Ends
<1> QED
  BY <1>3, <1>16 DEF code

\* Memory is accessed with no register cached.
LEMMA SimplifiedCall ==
  ASSUME Here, NEW t, Good(t, {}), NarrowOK(t), NEW ws \in SUBSET Word
  PROVE  LET u == Call(t, Simplified(ws)) IN
         Good(u, {}) /\ Bare(u) /\ NarrowOK(u) /\ u.v = t.v
<1> DEFINE u == FromMemory(simplify_access(free_all_registers(t)), ws)
<1>1. Good(u, {}) /\ Bare(u) /\ u.v = t.v /\ u.narrow \in {t.narrow, session.narrow}
  BY SimplifiedGood
<1>2. Call(t, Simplified(ws)) = u
  <2> DEFINE o == Simplified(ws)
  <2>1. o.call = "simplify_access" /\ o.ws = ws
    BY DEF Simplified
  <2> HIDE DEF o
  <2>2. Call(t, o) = FromMemory(simplify_access(free_all_registers(t)), o.ws)
    BY <2>1 DEF Call
  <2> QED
    BY <2>1, <2>2 DEF o
<1> HIDE DEF u
<1>3. NarrowOK(u)
  BY <1>1 DEF NarrowOK, Here, LimitsOf, RegsOf, Regs
<1> QED
  BY <1>1, <1>2, <1>3

\* The word that was loaded is said to be in EAX, two in EAX and ECX.
LEMMA Set32Call ==
  ASSUME Here, NEW t, Good(t, {}), Bare(t), NarrowOK(t), t.v = <<>>, NEW r \in Regs, EAX \in X
  PROVE  Writing(Call(t, Set32(r)), 1, r, FALSE)
<1> DEFINE x == EAX
           P == {}
           a == At(set_register_state(t, x, Lo(r)), x)
           u == New(a)
<1>1. Good(t, P) /\ x \in X /\ P = {}
  OBVIOUS
<1>2. Call(t, Set32(r)) = u
  <2> DEFINE o == Set32(r)
  <2>1. o.call = "set_register_state" /\ o.r = r
    BY DEF Set32
  <2> HIDE DEF o
  <2>2. Call(t, o) = New(At(set_register_state(t, EAX, Lo(o.r)), EAX))
    BY <2>1 DEF Call
  <2> QED
    BY <2>1, <2>2 DEF o
<1> HIDE DEF x, P
<1>3. /\ Good(a, {x}) /\ Made32(a, x, r) /\ a.x = x /\ a.v = t.v /\ a.narrow = t.narrow
  BY <1>1, Set32Good
<1> HIDE DEF a
<1>4. Good(u, {x}) /\ Only(a, u, {"v"}) /\ u.v[Len(a.v) + 1] = <<a.x, a.r64[a.x]>>
  BY <1>1, <1>3, NewGood
<1>5. Len(a.v) + 1 = 1
  BY <1>3
<1>6. u.v[1][1] = x
  BY <1>3, <1>4, <1>5
<1>7. Made32(u, x, r) /\ u.narrow = t.narrow
  BY <1>3, <1>4 DEF Made32, Accessed, Paired, Only, Fields
<1> HIDE DEF u
<1> QED
  BY <1>2, <1>4, <1>6, <1>7 DEF Writing, Making, NarrowOK

LEMMA Set64Call ==
  ASSUME Here, NEW t, Good(t, {}), Bare(t), NarrowOK(t), t.v = <<>>, NEW r \in Regs,
         EAX \in X, ECX \in X, Pairs(session)
  PROVE  Writing(Call(t, Set64(r)), 1, r, TRUE)
<1> DEFINE x1 == EAX
           x2 == ECX
           a == At(set_64_register_state(t, x1, x2, r), x1)
           u == New(a)
<1>1. Good(t, {}) /\ x1 \in X /\ x2 \in X /\ x1 # x2
  BY DEF EAX, ECX
<1>8. Pairs(session) /\ Bare(t)
  OBVIOUS
<1>2. Call(t, Set64(r)) = u
  <2> DEFINE o == Set64(r)
  <2>1. o.call = "set_64_register_state" /\ o.r = r
    BY DEF Set64
  <2> HIDE DEF o
  <2>2. Call(t, o) = New(At(set_64_register_state(t, EAX, ECX, o.r), EAX))
    BY <2>1 DEF Call
  <2> QED
    BY <2>1, <2>2 DEF o
<1> HIDE DEF x1, x2
<1>3. /\ Good(a, {x1, x2}) /\ Made64(a, x1, x2, r) /\ a.x = x1 /\ a.v = t.v /\ a.narrow = t.narrow
  <2>1. Becomes64(t, a, x1, x2, r)
    BY <1>1, <1>8, Set64Good
  <2> HIDE DEF a
  <2> QED
    BY <2>1 DEF Becomes64
<1> HIDE DEF a
<1>4. Good(u, {x1, x2}) /\ Only(a, u, {"v"}) /\ u.v[Len(a.v) + 1] = <<a.x, a.r64[a.x]>>
  BY <1>1, <1>3, NewGood
<1>5. Len(a.v) + 1 = 1 /\ a.r64[x1] = x2
  BY <1>3 DEF Made64
<1>6. u.v[1][1] = x1 /\ u.v[1][2] = x2
  BY <1>3, <1>4, <1>5
<1>7. Made64(u, x1, x2, r) /\ u.narrow = t.narrow
  BY <1>3, <1>4 DEF Made64, Accessed, Only, Fields
<1> HIDE DEF u
<1> QED
  BY <1>2, <1>4, <1>6, <1>7 DEF Writing, Making, NarrowOK

\* Loads.
LEMMA LwGood ==
  ASSUME Here, NEW t, Begin(t), NEW rs \in Regs, NEW rt \in Regs, "lw" \in session.forms
  PROVE  Ends(Emitted(t, genlw(rs, rt)))
<1> DEFINE ws == {Lo(rs)}
           code == genlw(rs, rt)
<1>1. /\ Len(code) = 3 /\ Len(code) \in Nat /\ DOMAIN code = 1 .. Len(code)
      /\ code[1] = Simplified(ws) /\ code[2] = Set32(rt) /\ code[3] = Gives32(1, rt)
  BY DEF genlw
<1>2. ws \in SUBSET Word
  BY Words
<1> HIDE DEF code, ws
<1>3. PICK f : Emits(f, t, code)
  BY <1>1, EmittedBy
<1>4. /\ f[1] = Call(t, Simplified(ws)) /\ f[2] = Call(f[1], Set32(rt))
      /\ f[3] = Call(f[2], Gives32(1, rt)) /\ Emitted(t, code) = f[3]
  BY <1>1, <1>3 DEF Emits
<1>5. EAX \in X
  BY Fits DEF ByName
<1>6. Good(t, {}) /\ NarrowOK(t) /\ t.v = <<>>
  BY DEF Begin, Opened
<1>7. Good(f[1], {}) /\ Bare(f[1]) /\ NarrowOK(f[1]) /\ f[1].v = <<>>
  BY <1>2, <1>4, <1>6, SimplifiedCall
<1>8. Writing(f[2], 1, rt, FALSE)
  BY <1>4, <1>5, <1>7, Set32Call
<1>9. Ends(f[3])
  BY <1>4, <1>8, Gives32Call
<1> QED
  BY <1>4, <1>9 DEF code

LEMMA LdGood ==
  ASSUME Here, NEW t, Begin(t), NEW rs \in Regs, NEW rt \in Regs, "ld" \in session.forms
  PROVE  Ends(Emitted(t, genld(rs, rt)))
<1> DEFINE ws == {Lo(rs)}
           code == genld(rs, rt)
<1>1. /\ Len(code) = 3 /\ Len(code) \in Nat /\ DOMAIN code = 1 .. Len(code)
      /\ code[1] = Simplified(ws) /\ code[2] = Set64(rt) /\ code[3] = Gives64(1, rt)
  BY DEF genld
<1>2. ws \in SUBSET Word
  BY Words
<1> HIDE DEF code, ws
<1>3. PICK f : Emits(f, t, code)
  BY <1>1, EmittedBy
<1>4. /\ f[1] = Call(t, Simplified(ws)) /\ f[2] = Call(f[1], Set64(rt))
      /\ f[3] = Call(f[2], Gives64(1, rt)) /\ Emitted(t, code) = f[3]
  BY <1>1, <1>3 DEF Emits
<1>5. EAX \in X /\ ECX \in X /\ Pairs(session) /\ ~Narrow0(session)
  BY Fits, WideSession DEF ByName, Pairing, Widening
<1>6. Good(t, {}) /\ NarrowOK(t) /\ t.v = <<>>
  BY DEF Begin, Opened
<1>7. Good(f[1], {}) /\ Bare(f[1]) /\ NarrowOK(f[1]) /\ f[1].v = <<>>
  BY <1>2, <1>4, <1>6, SimplifiedCall
<1>8. Writing(f[2], 1, rt, TRUE)
  BY <1>4, <1>5, <1>7, Set64Call
<1>9. Ends(f[3])
  BY <1>4, <1>5, <1>8, Gives64Ends
<1> QED
  BY <1>4, <1>9 DEF code

\* Stores and jumps to a register work on memory.
LEMMA SimplifiedEnds ==
  ASSUME Here, NEW t, Begin(t), NEW ws \in SUBSET Word
  PROVE  Ends(Emitted(t, <<Simplified(ws)>>))
<1> DEFINE code == <<Simplified(ws)>>
<1>1. /\ Len(code) = 1 /\ Len(code) \in Nat /\ DOMAIN code = 1 .. Len(code)
      /\ code[1] = Simplified(ws)
  OBVIOUS
<1> HIDE DEF code
<1>2. PICK f : Emits(f, t, code)
  BY <1>1, EmittedBy
<1>3. f[1] = Call(t, Simplified(ws)) /\ Emitted(t, code) = f[1]
  BY <1>1, <1>2 DEF Emits
<1>4. Good(t, {}) /\ NarrowOK(t)
  BY DEF Begin, Opened
<1>5. Ends(f[1])
  BY <1>3, <1>4, SimplifiedCall DEF Ends
<1> QED
  BY <1>3, <1>5 DEF code

LEMMA SwGood ==
  ASSUME Here, NEW t, Begin(t), NEW rs \in Regs, NEW rt \in Regs
  PROVE  Ends(Emitted(t, gensw(rs, rt)))
BY Words, SimplifiedEnds DEF gensw

LEMMA JrGood ==
  ASSUME Here, NEW t, Begin(t), NEW rs \in Regs
  PROVE  Ends(Emitted(t, genjr(rs)))
BY Words, SimplifiedEnds DEF genjr

\* Values that are not known to be narrow, or no longer.
LEMMA HavocGood ==
  ASSUME Here, NEW t, Good(t, {}), NEW rd \in SUBSET Regs, NEW n \in BOOLEAN, n = TRUE \/ Bare(t)
  PROVE  LET u == Call(t, Havoc(rd, n)) IN
         /\ Good(u, {}) /\ Only(t, u, {"narrow"})
         /\ n = TRUE => u.narrow = t.narrow \cup rd
<1> DEFINE m == IF n THEN t.narrow \cup rd ELSE t.narrow \ rd
           u == [t EXCEPT !.narrow = m]
<1>1. Call(t, Havoc(rd, n)) = u
  <2> DEFINE o == Havoc(rd, n)
  <2>1. o.call = "havoc" /\ o.rd = rd /\ o.n = n
    BY DEF Havoc
  <2> HIDE DEF o
  <2>2. Call(t, o) = [t EXCEPT !.narrow = IF o.n THEN t.narrow \cup o.rd ELSE t.narrow \ o.rd]
    BY <2>1 DEF Call
  <2> QED
    BY <2>1, <2>2 DEF o
<1>2. t \in States /\ m \subseteq Regs \cup session.narrow
  BY DEF Good, Core, States
<1> HIDE DEF m
<1>3. u \in States /\ Only(t, u, {"narrow"}) /\ u.narrow = m
  BY <1>2 DEF States, Only, Fields
<1> HIDE DEF u
<1>4. /\ u.last_access = t.last_access /\ u.reg_content = t.reg_content /\ u.free_since = t.free_since
      /\ u.dirty = t.dirty /\ u.r64 = t.r64 /\ u.needed = t.needed /\ u.hold = t.hold
      /\ u.loads = t.loads /\ u.mem = t.mem /\ u.wrong = t.wrong
  BY <1>3 DEF Only, Fields
<1>5. Core(u, dst, Running)
  <2>1. Core(t, dst, Running)
    BY DEF Good
  <2> QED
    BY <1>3, <1>4, <2>1 DEF Core, PairsOK, PairOK, Distinct, MemOK, Backs, LoadsOK, Told, Live, Paired
<1>6. ASSUME NEW y \in X PROVE Fit(u, y, Running)
  <2>1. Fit(t, y, Running)
    BY DEF Good
  <2>2. CASE n
    <3>1. t.narrow \subseteq u.narrow
      BY <1>3, <2>2 DEF m
    <3> QED
      BY <1>4, <2>1, <3>1 DEF Fit, Told, Live, Paired
  <2>3. CASE Bare(t)
    BY <1>4, <2>3 DEF Fit, Bare, Live
  <2> QED
    BY <2>2, <2>3
<1> QED
  BY <1>1, <1>3, <1>5, <1>6 DEF Good, m

\* An instruction that is interpreted.
LEMMA InterpretedGood ==
  ASSUME Here, NEW t, Begin(t), NEW rd \in SUBSET Regs, NEW n \in BOOLEAN, "call" \in session.forms
  PROVE  Ends(Emitted(t, gencallinterp(rd, n)))
<1> DEFINE ws == Word
           code == gencallinterp(rd, n)
<1>1. /\ Len(code) = 2 /\ Len(code) \in Nat /\ DOMAIN code = 1 .. Len(code)
      /\ code[1] = Simplified(ws) /\ code[2] = Havoc(rd, n)
  BY DEF gencallinterp
<1>2. ws \in SUBSET Word
  OBVIOUS
<1> HIDE DEF code, ws
<1>3. PICK f : Emits(f, t, code)
  BY <1>1, EmittedBy
<1>4. f[1] = Call(t, Simplified(ws)) /\ f[2] = Call(f[1], Havoc(rd, n)) /\ Emitted(t, code) = f[2]
  BY <1>1, <1>3 DEF Emits
<1>5. Good(t, {}) /\ NarrowOK(t)
  BY DEF Begin, Opened
<1>6. Good(f[1], {}) /\ Bare(f[1])
  BY <1>2, <1>4, <1>5, SimplifiedCall
<1>7. Good(f[2], {})
  <2> DEFINE a == f[1]
             u == Call(a, Havoc(rd, n))
  <2>1. Good(a, {}) /\ (n = TRUE \/ Bare(a))
    BY <1>6
  <2> HIDE DEF a
  <2>2. /\ Good(u, {}) /\ Only(a, u, {"narrow"})
        /\ n = TRUE => u.narrow = a.narrow \cup rd
    BY <2>1, HavocGood
  <2> QED
    BY <1>4, <2>2 DEF a
<1>8. ~Narrow0(session)
  BY WideSession DEF Widening
<1> QED
  BY <1>4, <1>7, <1>8 DEF code, Ends, NarrowOK

-----------------------------------------------------------------------------
(* Branches.                                                               *)

\* Memory keeps what it has.
MemOn(t, u) == \A w \in Word : t.mem[w] => u.mem[w]

LEMMA R64Memory ==
  ASSUME Here, NEW t, Good(t, {}), NEW r \in Regs, NEW n \in Nat, Room(t, n), n + 2 <= Cardinality(X),
         Pairs(session)
  PROVE  MemOn(t, Call(t, R64(r)))
<1> DEFINE P == {}
           a == allocate_64_register(t, r)
           u == New(a)
<1>1. Good(t, P) /\ Apart(t, P, r)
  BY DEF Apart
<1> HIDE DEF P
<1>2. Read64(t, a, P, r)
  BY <1>1, R64Good
<1>3. Call(t, R64(r)) = u
  BY DEF u, a, Call, R64
<1> HIDE DEF a
<1>4. Good(a, P) /\ a.x \in X /\ MemOn(t, a)
  BY <1>2 DEF Read64, Stays, MemOn
<1>5. Only(a, u, {"v"})
  BY <1>4, NewGood
<1> HIDE DEF u
<1>6. u.mem = a.mem
  BY <1>5 DEF Only, Fields
<1> QED
  BY <1>3, <1>4, <1>6 DEF MemOn

\* Emitted code that reads two words.
Whole64(t, k, r) == Call(Calls(t, R64(r), Reads(k, r)), ReadsHi(k, r))

\* A value is read as a whole.
LEMMA WholeOpen ==
  ASSUME Here, NEW t, NEW n \in Nat, Opened(t, n), NEW r \in Regs, n + 2 <= Cardinality(X),
         Cardinality(X) \in Nat, Pairs(session), NEW m, m = n + 2, NEW k, k = Len(t.v) + 1
  PROVE  LET u == Whole64(t, k, r) IN
         Opened(u, m) /\ Len(u.v) = k /\ MemOn(t, u)
<1> DEFINE a == Call(t, R64(r))
           b == Call(a, Reads(k, r))
           u == Call(b, ReadsHi(k, r))
           P == {}
<1>1. Opened(a, m) /\ Adds(t, a) /\ ReadBoth(a, k, r)
  BY R64Open
<1>2. MemOn(t, a)
  BY R64Memory DEF Opened
<1>3. u = Whole64(t, k, r)
  BY DEF Whole64, Calls
<1> HIDE DEF a
<1>4. Good(a, P) /\ Room(a, m) /\ NarrowOK(a) /\ Ready(a, a.v[k][1], Lo(r)) /\ Ready(a, a.v[k][2], Hi(r))
  BY <1>1 DEF Opened, ReadBoth, ReadBy, ReadHi
<1> HIDE DEF P
<1>5. Good(b, P) /\ UsesOnly(a, b)
  BY <1>4, ReadsCall
<1> HIDE DEF b
<1>6. Ready(b, b.v[k][2], Hi(r)) /\ b.v = a.v
  BY <1>4, <1>5, UsesSame, Words
<1>7. Good(u, P) /\ UsesOnly(b, u)
  BY <1>5, <1>6, ReadsHiCall
<1> HIDE DEF u
<1>8. /\ u.v = a.v /\ u.narrow = a.narrow /\ u.mem = a.mem /\ u.last_access = a.last_access
  BY <1>5, <1>7 DEF UsesOnly, Only, Fields
<1>9. Room(u, m) /\ NarrowOK(u)
  BY <1>4, <1>8 DEF Room, Used, Accessed, NarrowOK
<1>10. Len(u.v) = k
  BY <1>1, <1>8 DEF Adds
<1>11. MemOn(t, u)
  BY <1>2, <1>8 DEF MemOn
<1> QED
  BY <1>3, <1>7, <1>9, <1>10, <1>11 DEF P, Opened

\* A value of which no register has the low word is in memory.
LEMMA InMemory ==
  ASSUME Here, NEW t, Good(t, {}), NEW r \in Regs, is64(t, r) = "no"
  PROVE  t.mem[Lo(r)] /\ t.mem[Hi(r)]
<1> DEFINE P == {}
<1>1. Good(t, P) /\ ~Cached(t, Lo(r))
  BY DEF is64
<1> HIDE DEF P
<1>2. \A x \in X : Live(t, x) => t.reg_content[x] # Lo(r)
  BY <1>1, HolderOf
<1>3. Lo(r) \in Word /\ Hi(r) \in Word /\ Lo(r)[1] = r /\ Hi(r)[1] = r
  BY Words
<1>4. MemOK(t) /\ PairsOK(t) /\ \A x \in X : Fit(t, x, Running)
  BY DEF Good, Core
<1>5. \A x \in X : Live(t, x) => t.reg_content[x] # Hi(r)
  <2> SUFFICES ASSUME NEW x \in X, Live(t, x), t.reg_content[x] = Hi(r)
               PROVE  FALSE
    OBVIOUS
  <2>1. Paired(t, x)
    <3>1. ~LowWord(t.reg_content[x])
      BY Words DEF LowWord
    <3> QED
      BY <1>4, <3>1 DEF Fit
  <2>2. PairOK(t, x)
    BY <1>4, <2>1 DEF PairsOK
  <2> DEFINE y == t.r64[x]
  <2>3. y \in X /\ Live(t, y) /\ Partners(Hi(r), t.reg_content[y])
    BY <2>2 DEF PairOK
  <2> HIDE DEF y
  <2>4. t.reg_content[y] = Lo(r)
    BY <2>3, Words DEF Partners
  <2> QED
    BY <1>2, <2>3, <2>4
<1>6. ASSUME NEW w \in Word, w[1] = r, ~t.mem[w], \A x \in X : Live(t, x) => t.reg_content[x] # w
      PROVE  FALSE
  <2>1. PICK x \in X : Backs(t, x, w)
    BY <1>4, <1>6 DEF MemOK
  <2> QED
    BY <1>2, <1>6, <2>1 DEF Backs
<1> QED
  BY <1>2, <1>3, <1>5, <1>6

\* A branch that tests a 32 bit value that is cached takes it to be one.
LEMMA Narrow32 ==
  ASSUME Here, NEW t, Good(t, {}), NEW r \in Regs, is64(t, r) = "32", Testing(session)
  PROVE  r \in t.narrow
<1> DEFINE P == {}
           x == Holder(t, Lo(r))
<1>1. Good(t, P) /\ Cached(t, Lo(r)) /\ ~Paired(t, x)
  BY DEF is64
<1> HIDE DEF P
<1>2. x \in X /\ Live(t, x) /\ t.reg_content[x] = Lo(r)
  BY <1>1, HolderOf
<1> HIDE DEF x
<1>3. Fit(t, x, Running)
  BY <1>2 DEF Good
<1> QED
  BY <1>1, <1>2, <1>3, Words DEF Fit

\* Low words are compared instead of their registers.
LEMMA NarrowCall ==
  ASSUME NEW t, NEW rs, rs \subseteq t.narrow, t.wrong = {}, t \in States
  PROVE  Call(t, Narrow(rs)) = t
<1> DEFINE o == Narrow(rs)
<1>1. o.call = "narrow" /\ o.rs = rs
  BY DEF Narrow
<1> HIDE DEF o
<1>2. Call(t, o) = [t EXCEPT !.wrong = t.wrong \cup {Hi(r) : r \in o.rs \ t.narrow}]
  BY <1>1 DEF Call
<1>3. t.wrong \cup {Hi(r) : r \in o.rs \ t.narrow} = t.wrong
  BY <1>1
<1>4. [t EXCEPT !.wrong = t.wrong] = t
  BY DEF States
<1> QED
  BY <1>2, <1>3, <1>4 DEF o

\* Words are read in memory.
LEMMA MemCall ==
  ASSUME Here, NEW t, NEW ws \in SUBSET Word, t \in States, \A w \in ws : t.mem[w]
  PROVE  Call(t, Mem(ws)) = t
<1> DEFINE o == Mem(ws)
<1>1. o.call = "mem" /\ o.ws = ws
  BY DEF Mem
<1> HIDE DEF o
<1>2. Call(t, o) = FromMemory(t, o.ws)
  BY <1>1 DEF Call
<1>3. FromMemory(t, ws) = t
  BY FromMemorySame
<1> QED
  BY <1>1, <1>2, <1>3 DEF o

\* The states while code is emitted.
Runs(f, t, code) == /\ f[0] = t
                    /\ \A k \in 1 .. Len(code) : f[k] = Call(f[k - 1], code[k])
IsCode(code) == Len(code) \in Nat /\ DOMAIN code = 1 .. Len(code)

\* The test of two 32 bit values.
Test32(rs, rt) == <<R32(rs), R32(rt), Reads(1, rs), Reads(2, rt), Narrow({rs, rt})>>
\* Of a value in registers and one in memory.
TestMem(r, q) == <<R64(r)>> \o Reads64(1, r) \o <<Mem(Words64({q}))>>
\* Of two values in registers.
Test64(r, q) == <<R64(r)>> \o Reads64(1, r) \o (<<R64(q)>> \o Reads64(2, q))

LEMMA Test32Good ==
  ASSUME Here, NEW t, Begin(t), NEW rs \in Regs, NEW rt \in Regs, "branch" \in session.forms,
         is64(t, rs) = "32", is64(t, rt) = "32", NEW f, Runs(f, t, Test32(rs, rt))
  PROVE  Ends(f[5])
<1> DEFINE code == Test32(rs, rt)
           P == {}
<1>1. /\ Len(code) = 5
      /\ code[1] = R32(rs) /\ code[2] = R32(rt) /\ code[3] = Reads(1, rs) /\ code[4] = Reads(2, rt)
      /\ code[5] = Narrow({rs, rt})
  BY DEF Test32
<1>2. Runs(f, t, code)
  OBVIOUS
<1> HIDE DEF code
<1>3. /\ f[1] = Call(t, R32(rs)) /\ f[2] = Call(f[1], R32(rt))
      /\ f[3] = Call(f[2], Reads(1, rs)) /\ f[4] = Call(f[3], Reads(2, rt))
      /\ f[5] = Call(f[4], Narrow({rs, rt}))
  BY <1>1, <1>2 DEF Runs
<1>4. /\ 4 <= Cardinality(X) /\ Cardinality(X) \in Nat /\ Two(session) \in {1, 2} /\ Testing(session)
  BY Fits DEF InUse, Testing
<1>5. Good(t, {}) /\ Room(t, 0) /\ NarrowOK(t) /\ t.v = <<>>
  BY DEF Begin, Opened
<1>6. rs \in t.narrow /\ rt \in t.narrow
  BY <1>4, <1>5, Narrow32
<1>7. Good(t, P) /\ Apart(t, P, rs) /\ P = {}
  BY <1>5 DEF Apart
<1> HIDE DEF P
<1>8. /\ Good(f[1], P) /\ Room(f[1], Two(session)) /\ Adds(t, f[1]) /\ ReadBy(f[1], 1, rs)
      /\ f[1].narrow = t.narrow
  <2> DEFINE u == Call(t, R32(rs))
             n == 0
  <2>1. n \in Nat /\ Room(t, n) /\ n < Cardinality(X) /\ n + Two(session) = Two(session) /\ Len(t.v) + 1 = 1
    BY <1>4, <1>5
  <2> HIDE DEF n
  <2>2. /\ Good(u, P) /\ Room(u, n + Two(session)) /\ Adds(t, u) /\ Keeps(t, u)
        /\ ReadBy(u, Len(t.v) + 1, rs) /\ u.narrow = t.narrow
    BY <1>6, <1>7, <2>1, R32Call
  <2> HIDE DEF u
  <2> QED
    BY <1>3, <2>1, <2>2 DEF u
<1>9. /\ Good(f[2], P) /\ ReadBy(f[2], 1, rs) /\ ReadBy(f[2], 2, rt) /\ f[2].narrow = t.narrow
  <2> DEFINE a == f[1]
             u == Call(a, R32(rt))
             n == Two(session)
  <2>1. /\ n \in Nat /\ Room(a, n) /\ n < Cardinality(X) /\ Len(a.v) + 1 = 2 /\ 1 \in Past(a)
        /\ Good(a, P) /\ Apart(a, P, rt) /\ rt \in a.narrow /\ ReadBy(a, 1, rs) /\ a.narrow = t.narrow
    BY <1>4, <1>5, <1>6, <1>7, <1>8 DEF Adds, Past, Apart
  <2>2. u = f[2]
    BY <1>3
  <2> HIDE DEF n, a
  <2>3. /\ Good(u, P) /\ Adds(a, u) /\ Keeps(a, u)
        /\ ReadBy(u, Len(a.v) + 1, rt) /\ u.narrow = a.narrow
    BY <2>1, R32Call
  <2> HIDE DEF u
  <2> QED
    BY <2>1, <2>2, <2>3 DEF Keeps
<1>10. Ready(f[2], f[2].v[1][1], Lo(rs)) /\ Ready(f[2], f[2].v[2][1], Lo(rt))
  BY <1>9 DEF ReadBy
<1>11. Good(f[3], P) /\ UsesOnly(f[2], f[3])
  BY <1>3, <1>9, <1>10, ReadsCall
<1>12. Ready(f[3], f[3].v[2][1], Lo(rt)) /\ f[3].narrow = t.narrow
  <2>1. Lo(rt) \in Word
    BY Words
  <2>2. f[3].v = f[2].v /\ f[3].narrow = f[2].narrow
    BY <1>11 DEF UsesOnly, Only, Fields
  <2>3. f[2].v[2][1] \in X
    BY <1>10 DEF Ready
  <2> QED
    BY <1>9, <1>10, <1>11, <2>1, <2>2, <2>3 DEF UsesOnly, Readies
<1>13. Good(f[4], P) /\ UsesOnly(f[3], f[4])
  BY <1>3, <1>11, <1>12, ReadsCall
<1>14. f[4].narrow = t.narrow
  BY <1>12, <1>13 DEF UsesOnly, Only, Fields
<1>15. f[5] = f[4]
  <2>1. f[4] \in States /\ f[4].wrong = {} /\ {rs, rt} \subseteq f[4].narrow
    BY <1>6, <1>13, <1>14 DEF Good, Core
  <2> QED
    BY <1>3, <2>1, NarrowCall
<1> QED
  BY <1>5, <1>7, <1>13, <1>14, <1>15 DEF Ends, NarrowOK

LEMMA TestMemGood ==
  ASSUME Here, NEW t, Begin(t), NEW r \in Regs, NEW q \in Regs, "branch" \in session.forms,
         is64(t, q) = "no", NEW f, Runs(f, t, TestMem(r, q))
  PROVE  Ends(f[4])
<1> DEFINE code == TestMem(r, q)
           ws == Words64({q})
<1>1. /\ Len(code) = 4
      /\ code[1] = R64(r) /\ code[2] = Reads(1, r) /\ code[3] = ReadsHi(1, r) /\ code[4] = Mem(ws)
  BY DEF TestMem, Reads64
<1>2. Runs(f, t, code)
  OBVIOUS
<1>3. ws = {Lo(q), Hi(q)}
  BY DEF Words64
<1> HIDE DEF code, ws
<1>4. f[3] = Whole64(t, 1, r) /\ f[4] = Call(f[3], Mem(ws))
  BY <1>1, <1>2 DEF Runs, Whole64, Calls
<1>5. /\ 0 + 2 <= Cardinality(X) /\ Cardinality(X) \in Nat /\ Pairs(session) /\ 2 = 0 + 2
      /\ Opened(t, 0) /\ Good(t, {}) /\ 1 = Len(t.v) + 1
  BY Fits DEF InUse, Pairing, Begin, Opened
<1>6. Opened(f[3], 2) /\ MemOn(t, f[3])
  BY <1>4, <1>5, WholeOpen
<1>7. t.mem[Lo(q)] /\ t.mem[Hi(q)] /\ Lo(q) \in Word /\ Hi(q) \in Word
  BY <1>5, InMemory, Words
<1>8. ws \in SUBSET Word /\ \A w \in ws : f[3].mem[w]
  BY <1>3, <1>6, <1>7 DEF MemOn
<1>9. f[3] \in States
  BY <1>6 DEF Opened, Good, Core
<1>10. f[4] = f[3]
  BY <1>4, <1>8, <1>9, MemCall
<1> QED
  BY <1>6, <1>10 DEF Opened, Ends

LEMMA Test64Good ==
  ASSUME Here, NEW t, Begin(t), NEW r \in Regs, NEW q \in Regs, "branch" \in session.forms,
         NEW f, Runs(f, t, Test64(r, q))
  PROVE  Ends(f[6])
<1> DEFINE code == Test64(r, q)
<1>1. /\ Len(code) = 6
      /\ code[1] = R64(r) /\ code[2] = Reads(1, r) /\ code[3] = ReadsHi(1, r)
      /\ code[4] = R64(q) /\ code[5] = Reads(2, q) /\ code[6] = ReadsHi(2, q)
  BY DEF Test64, Reads64
<1>2. Runs(f, t, code)
  OBVIOUS
<1> HIDE DEF code
<1>3. f[3] = Whole64(t, 1, r)
  BY <1>1, <1>2 DEF Runs, Whole64, Calls
<1>4. f[6] = Whole64(f[3], 2, q)
  BY <1>1, <1>2 DEF Runs, Whole64, Calls
<1>5. /\ 0 + 2 <= Cardinality(X) /\ Cardinality(X) \in Nat /\ Pairs(session)
      /\ 2 = 0 + 2 /\ Opened(t, 0) /\ 1 = Len(t.v) + 1
  BY Fits DEF InUse, Pairing, Begin
<1>6. Opened(f[3], 2) /\ Len(f[3].v) = 1
  <2> DEFINE n == 0
             m == 2
             k == 1
             u == Whole64(t, k, r)
  <2>1. n \in Nat /\ Opened(t, n) /\ n + 2 <= Cardinality(X) /\ m = n + 2 /\ k = Len(t.v) + 1
    BY <1>5
  <2> HIDE DEF n, m, k
  <2>2. Opened(u, m) /\ Len(u.v) = k /\ MemOn(t, u)
    BY <1>5, <2>1, WholeOpen
  <2> QED
    BY <1>3, <2>2 DEF m, k
<1>7. 2 = Len(f[3].v) + 1 /\ 2 + 2 <= Cardinality(X) /\ Cardinality(X) \in Nat /\ Pairs(session) /\ 4 = 2 + 2
  BY <1>6, Fits DEF InUse, Pairing
<1>8. Opened(f[6], 4)
  <2> DEFINE n == 2
             m == 4
             k == 2
             a == f[3]
             u == Whole64(a, k, q)
  <2>1. n \in Nat /\ Opened(a, n) /\ n + 2 <= Cardinality(X) /\ m = n + 2 /\ k = Len(a.v) + 1
    BY <1>6, <1>7
  <2> HIDE DEF n, m, k, a
  <2>2. Opened(u, m) /\ Len(u.v) = k /\ MemOn(a, u)
    BY <1>7, <2>1, WholeOpen
  <2> QED
    BY <1>4, <2>2 DEF m, k, a
<1> QED
  BY <1>8 DEF Opened, Ends

\* beq and bne.
LEMMA BeqGood ==
  ASSUME Here, NEW t, Begin(t), NEW rs \in Regs, NEW rt \in Regs, "branch" \in session.forms,
         NEW f, NEW code, code = genbeq_test(t, rs, rt), Runs(f, t, code)
  PROVE  Ends(f[Len(code)])
<1> DEFINE a == is64(t, rs)
           b == is64(t, rt)
<1>1. a \in {"no", "32", "64"} /\ b \in {"no", "32", "64"}
  BY DEF is64
<1>2. /\ a = "32" /\ b = "32" => code = Test32(rs, rt)
      /\ a = "no" => code = TestMem(rt, rs)
      /\ a # "no" /\ b = "no" => code = TestMem(rs, rt)
      /\ a = "32" /\ b = "64" => code = Test64(rt, rs)
      /\ a = "64" /\ b # "no" => code = Test64(rs, rt)
  <2>1. ASSUME a = "32" /\ b = "32" PROVE code = Test32(rs, rt)
    BY <2>1 DEF genbeq_test, Test32
  <2>2. ASSUME a = "no" PROVE code = TestMem(rt, rs)
    BY <2>2 DEF genbeq_test, TestMem
  <2>3. ASSUME a # "no" /\ b = "no" PROVE code = TestMem(rs, rt)
    BY <2>3 DEF genbeq_test, TestMem
  <2>4. ASSUME a = "32" /\ b = "64" PROVE code = Test64(rt, rs)
    BY <2>4 DEF genbeq_test, Test64
  <2>5. ASSUME a = "64" /\ b # "no" PROVE code = Test64(rs, rt)
    BY <1>1, <2>5 DEF genbeq_test, Test64
  <2> QED
    BY <2>1, <2>2, <2>3, <2>4, <2>5
<1>3. CASE a = "32" /\ b = "32"
  <2>1. code = Test32(rs, rt) /\ Len(Test32(rs, rt)) = 5
    BY <1>2, <1>3 DEF Test32
  <2> QED
    BY <1>3, <2>1, Test32Good
<1>4. CASE a = "no"
  <2>1. code = TestMem(rt, rs) /\ Len(TestMem(rt, rs)) = 4
    BY <1>2, <1>4 DEF TestMem, Reads64
  <2> QED
    BY <1>4, <2>1, TestMemGood
<1>5. CASE a # "no" /\ b = "no"
  <2>1. code = TestMem(rs, rt) /\ Len(TestMem(rs, rt)) = 4
    BY <1>2, <1>5 DEF TestMem, Reads64
  <2> QED
    BY <1>5, <2>1, TestMemGood
<1>6. CASE a = "32" /\ b = "64"
  <2>1. code = Test64(rt, rs) /\ Len(Test64(rt, rs)) = 6
    BY <1>2, <1>6 DEF Test64, Reads64
  <2> QED
    BY <2>1, Test64Good
<1>7. CASE a = "64" /\ b # "no"
  <2>1. code = Test64(rs, rt) /\ Len(Test64(rs, rt)) = 6
    BY <1>2, <1>7 DEF Test64, Reads64
  <2> QED
    BY <2>1, Test64Good
<1> HIDE DEF a, b
<1> QED
  BY <1>1, <1>3, <1>4, <1>5, <1>6, <1>7

\* One more call.
Followed(code, o, more) ==
  /\ IsCode(code) /\ IsCode(more) /\ Len(more) = Len(code) + 1 /\ more[Len(more)] = o
  /\ \A k \in 1 .. Len(code) : more[k] = code[k]

LEMMA BeqFollowed ==
  ASSUME NEW t, NEW rs, NEW rt, NEW o
  PROVE  Followed(genbeq_test(t, rs, rt), o, genbeq_test(t, rs, rt) \o <<o>>)
<1> DEFINE a == is64(t, rs)
           b == is64(t, rt)
           code == genbeq_test(t, rs, rt)
<1>1. a \in {"no", "32", "64"} /\ b \in {"no", "32", "64"}
  BY DEF is64
<1>2. \/ code = Test32(rs, rt) \/ code = TestMem(rt, rs) \/ code = TestMem(rs, rt)
      \/ code = Test64(rt, rs) \/ code = Test64(rs, rt)
  <2>1. CASE a = "32" /\ b = "32"
    BY <2>1 DEF genbeq_test, Test32
  <2>2. CASE a = "no"
    BY <2>2 DEF genbeq_test, TestMem
  <2>3. CASE a # "no" /\ b = "no"
    BY <2>3 DEF genbeq_test, TestMem
  <2>4. CASE a = "32" /\ b = "64"
    BY <2>4 DEF genbeq_test, Test64
  <2>5. CASE a = "64" /\ b # "no"
    BY <1>1, <2>5 DEF genbeq_test, Test64
  <2> QED
    BY <1>1, <2>1, <2>2, <2>3, <2>4, <2>5
<1>3. ASSUME NEW r, NEW q PROVE Followed(Test32(r, q), o, Test32(r, q) \o <<o>>)
  <2> DEFINE c == Test32(r, q)
             d == c \o <<o>>
  <2>1. /\ Len(c) = 5 /\ DOMAIN c = 1 .. Len(c) /\ Len(d) = 6 /\ DOMAIN d = 1 .. Len(d)
        /\ d[1] = c[1] /\ d[2] = c[2] /\ d[3] = c[3] /\ d[4] = c[4] /\ d[5] = c[5] /\ d[6] = o
    BY DEF Test32
  <2> HIDE DEF c, d
  <2> QED
    BY <2>1 DEF Followed, IsCode, c, d
<1>4. ASSUME NEW r, NEW q PROVE Followed(TestMem(r, q), o, TestMem(r, q) \o <<o>>)
  <2> DEFINE c == TestMem(r, q)
             d == c \o <<o>>
  <2>1. /\ Len(c) = 4 /\ DOMAIN c = 1 .. Len(c) /\ Len(d) = 5 /\ DOMAIN d = 1 .. Len(d)
        /\ d[1] = c[1] /\ d[2] = c[2] /\ d[3] = c[3] /\ d[4] = c[4] /\ d[5] = o
    BY DEF TestMem, Reads64
  <2> HIDE DEF c, d
  <2> QED
    BY <2>1 DEF Followed, IsCode, c, d
<1>5. ASSUME NEW r, NEW q PROVE Followed(Test64(r, q), o, Test64(r, q) \o <<o>>)
  <2> DEFINE c == Test64(r, q)
             d == c \o <<o>>
  <2>1. /\ Len(c) = 6 /\ DOMAIN c = 1 .. Len(c) /\ Len(d) = 7 /\ DOMAIN d = 1 .. Len(d)
        /\ d[1] = c[1] /\ d[2] = c[2] /\ d[3] = c[3] /\ d[4] = c[4] /\ d[5] = c[5] /\ d[6] = c[6]
        /\ d[7] = o
    BY DEF Test64, Reads64
  <2> HIDE DEF c, d
  <2> QED
    BY <2>1 DEF Followed, IsCode, c, d
<1> HIDE DEF code
<1> QED
  BY <1>2, <1>3, <1>4, <1>5 DEF code

\* beq and bne, with their likely forms.
LEMMA BeqEnds ==
  ASSUME Here, NEW t, Begin(t), NEW rs \in Regs, NEW rt \in Regs, "branch" \in session.forms
  PROVE  Ends(Emitted(t, genbeq_test(t, rs, rt)))
<1> DEFINE code == genbeq_test(t, rs, rt)
<1>1. IsCode(code)
  BY BeqFollowed DEF Followed
<1>2. code = genbeq_test(t, rs, rt)
  OBVIOUS
<1> HIDE DEF code
<1>3. PICK f : Emits(f, t, code)
  BY <1>1, EmittedBy DEF IsCode
<1>4. Runs(f, t, code) /\ Emitted(t, code) = f[Len(code)]
  BY <1>3 DEF Emits, Runs
<1>5. Ends(f[Len(code)])
  BY <1>2, <1>4, BeqGood
<1> QED
  BY <1>2, <1>4, <1>5

LEMMA BeqlEnds ==
  ASSUME Here, NEW t, Begin(t), NEW rs \in Regs, NEW rt \in Regs, "branch" \in session.forms
  PROVE  Ends(Emitted(t, genbeq_test(t, rs, rt) \o <<FreeAll>>))
<1> DEFINE code == genbeq_test(t, rs, rt)
           more == code \o <<FreeAll>>
<1>1. Followed(code, FreeAll, more)
  BY BeqFollowed
<1>2. code = genbeq_test(t, rs, rt)
  OBVIOUS
<1> HIDE DEF code, more
<1>3. PICK f : Emits(f, t, more)
  BY <1>1, EmittedBy DEF Followed, IsCode
<1>4. Runs(f, t, code)
  BY <1>1, <1>3 DEF Emits, Runs, Followed, IsCode
<1>5. Ends(f[Len(code)])
  BY <1>2, <1>4, BeqGood
<1>6. Emitted(t, more) = Call(f[Len(code)], FreeAll)
  BY <1>1, <1>3 DEF Emits, Followed, IsCode
<1> DEFINE a == f[Len(code)]
<1>7. Good(a, {}) /\ NarrowOK(a)
  BY <1>5 DEF Ends
<1>8. Emitted(t, more) = free_all_registers(a)
  <2> DEFINE o == FreeAll
  <2>1. o.call = "free_all_registers"
    BY DEF FreeAll
  <2> HIDE DEF o, a
  <2>2. Call(a, o) = free_all_registers(a)
    BY <2>1 DEF Call
  <2> QED
    BY <1>6, <2>2 DEF o, a
<1> HIDE DEF a
<1>9. Cleared(a, free_all_registers(a), X)
  BY <1>7, FreeAllGood
<1> QED
  BY <1>7, <1>8, <1>9 DEF Ends, Cleared, NarrowOK, more, code

\* What is in use is still so with more room.
LEMMA MoreRoom ==
  ASSUME Here, NEW t, NEW n \in Nat, NEW m \in Nat, Room(t, n), n <= m
  PROVE  Room(t, m)
<1>1. Used(t) \in SUBSET X /\ IsFiniteSet(X)
  BY Numbers DEF Used
<1>2. Cardinality(Used(t)) \in Nat
  BY <1>1, FS_Subset, FS_CardinalityType
<1> QED
  BY <1>2 DEF Room

\* bltz, bgez, blez and bgtz.
LEMMA Bltz32 ==
  ASSUME Here, NEW t, Begin(t), NEW r \in Regs, "branch" \in session.forms, is64(t, r) = "32",
         NEW f, Runs(f, t, <<R32(r), Reads(1, r), Narrow({r})>>)
  PROVE  Opened(f[3], 2)
<1> DEFINE code == <<R32(r), Reads(1, r), Narrow({r})>>
           P == {}
           two == Two(session)
<1>1. Len(code) = 3 /\ code[1] = R32(r) /\ code[2] = Reads(1, r) /\ code[3] = Narrow({r})
  OBVIOUS
<1>2. Runs(f, t, code)
  OBVIOUS
<1> HIDE DEF code
<1>3. f[1] = Call(t, R32(r)) /\ f[2] = Call(f[1], Reads(1, r)) /\ f[3] = Call(f[2], Narrow({r}))
  BY <1>1, <1>2 DEF Runs
<1>4. /\ 4 <= Cardinality(X) /\ Cardinality(X) \in Nat /\ two \in {1, 2} /\ Testing(session)
  BY Fits DEF InUse, Testing
<1>5. Good(t, P) /\ Room(t, 0) /\ NarrowOK(t) /\ t.v = <<>> /\ Apart(t, P, r) /\ P = {}
  BY DEF Begin, Opened, Apart
<1>6. r \in t.narrow
  BY <1>4, <1>5, Narrow32
<1> HIDE DEF P, two
<1>7. /\ Good(f[1], P) /\ Room(f[1], two) /\ ReadBy(f[1], 1, r) /\ f[1].narrow = t.narrow
  <2> DEFINE u == Call(t, R32(r))
             n == 0
  <2>1. n \in Nat /\ Room(t, n) /\ n < Cardinality(X) /\ n + two = two /\ Len(t.v) + 1 = 1
    BY <1>4, <1>5
  <2> HIDE DEF n
  <2>2. /\ Good(u, P) /\ Room(u, n + two) /\ Adds(t, u) /\ Keeps(t, u)
        /\ ReadBy(u, Len(t.v) + 1, r) /\ u.narrow = t.narrow
    BY <1>5, <1>6, <2>1, R32Call DEF two
  <2> HIDE DEF u
  <2> QED
    BY <1>3, <2>1, <2>2 DEF u
<1>8. Good(f[2], P) /\ UsesOnly(f[1], f[2])
  BY <1>3, <1>7, ReadsCall DEF ReadBy
<1>9. f[2].narrow = t.narrow /\ f[2].last_access = f[1].last_access
  BY <1>7, <1>8 DEF UsesOnly, Only, Fields
<1>10. f[3] = f[2]
  <2>1. f[2] \in States /\ f[2].wrong = {} /\ {r} \subseteq f[2].narrow
    BY <1>6, <1>8, <1>9 DEF Good, Core
  <2> QED
    BY <1>3, <2>1, NarrowCall
<1>11. Room(f[2], two)
  BY <1>7, <1>9 DEF Room, Used, Accessed
<1>12. Room(f[2], 2)
  BY <1>4, <1>11, MoreRoom
<1> QED
  BY <1>5, <1>8, <1>9, <1>10, <1>12 DEF Opened, NarrowOK

LEMMA Bltz64 ==
  ASSUME Here, NEW t, Begin(t), NEW r \in Regs, "branch" \in session.forms,
         NEW f, Runs(f, t, <<R64(r), ReadsHi(1, r)>>)
  PROVE  Opened(f[2], 2)
<1> DEFINE code == <<R64(r), ReadsHi(1, r)>>
           P == {}
<1>1. Len(code) = 2 /\ code[1] = R64(r) /\ code[2] = ReadsHi(1, r)
  OBVIOUS
<1>2. Runs(f, t, code)
  OBVIOUS
<1> HIDE DEF code
<1>3. f[1] = Call(t, R64(r)) /\ f[2] = Call(f[1], ReadsHi(1, r))
  BY <1>1, <1>2 DEF Runs
<1>4. /\ 0 + 2 <= Cardinality(X) /\ Cardinality(X) \in Nat /\ Pairs(session) /\ 2 = 0 + 2
      /\ Opened(t, 0) /\ 1 = Len(t.v) + 1
  BY Fits DEF InUse, Pairing, Begin
<1>5. Opened(f[1], 2) /\ Adds(t, f[1]) /\ ReadBoth(f[1], 1, r)
  BY <1>3, <1>4, R64Open
<1>6. Good(f[1], P) /\ Room(f[1], 2) /\ NarrowOK(f[1]) /\ Ready(f[1], f[1].v[1][2], Hi(r)) /\ P = {}
  BY <1>5 DEF Opened, ReadBoth, ReadHi
<1> HIDE DEF P
<1>7. Good(f[2], P) /\ UsesOnly(f[1], f[2])
  BY <1>3, <1>6, ReadsHiCall
<1>8. f[2].narrow = f[1].narrow /\ f[2].last_access = f[1].last_access
  BY <1>7 DEF UsesOnly, Only, Fields
<1> QED
  BY <1>6, <1>7, <1>8 DEF Opened, NarrowOK, Room, Used, Accessed

LEMMA BltzEnds ==
  ASSUME Here, NEW t, Begin(t), NEW r \in Regs, "branch" \in session.forms
  PROVE  Opened(Emitted(t, genbltz_test(t, r)), 2)
<1> DEFINE a == is64(t, r)
           code == genbltz_test(t, r)
<1>1. a \in {"no", "32", "64"}
  BY DEF is64
<1>2. CASE a = "32"
  <2> DEFINE c == <<R32(r), Reads(1, r), Narrow({r})>>
  <2>1. code = c
    BY <1>2 DEF genbltz_test
  <2>2. Len(c) = 3 /\ Len(c) \in Nat /\ DOMAIN c = 1 .. Len(c)
    OBVIOUS
  <2>3. c = <<R32(r), Reads(1, r), Narrow({r})>>
    OBVIOUS
  <2> HIDE DEF c
  <2>4. PICK f : Emits(f, t, c)
    BY <2>2, EmittedBy
  <2>5. Runs(f, t, c) /\ Emitted(t, c) = f[3]
    BY <2>2, <2>4 DEF Emits, Runs
  <2>6. Opened(f[3], 2)
    BY <1>2, <2>3, <2>5, Bltz32
  <2> QED
    BY <2>1, <2>5, <2>6
<1>3. CASE a = "64"
  <2> DEFINE c == <<R64(r), ReadsHi(1, r)>>
  <2>1. code = c
    BY <1>3 DEF genbltz_test
  <2>2. Len(c) = 2 /\ Len(c) \in Nat /\ DOMAIN c = 1 .. Len(c)
    OBVIOUS
  <2>3. c = <<R64(r), ReadsHi(1, r)>>
    OBVIOUS
  <2> HIDE DEF c
  <2>4. PICK f : Emits(f, t, c)
    BY <2>2, EmittedBy
  <2>5. Runs(f, t, c) /\ Emitted(t, c) = f[2]
    BY <2>2, <2>4 DEF Emits, Runs
  <2>6. Opened(f[2], 2)
    BY <2>3, <2>5, Bltz64
  <2> QED
    BY <2>1, <2>5, <2>6
<1>4. CASE a = "no"
  <2> DEFINE ws == {Hi(r)}
             c == <<Mem(ws)>>
  <2>1. code = c
    BY <1>4 DEF genbltz_test
  <2>2. Len(c) = 1 /\ Len(c) \in Nat /\ DOMAIN c = 1 .. Len(c) /\ c[1] = Mem(ws)
    OBVIOUS
  <2> HIDE DEF c
  <2>3. PICK f : Emits(f, t, c)
    BY <2>2, EmittedBy
  <2>4. Emitted(t, c) = Call(t, Mem(ws))
    BY <2>2, <2>3 DEF Emits
  <2>5. Good(t, {}) /\ Room(t, 0) /\ NarrowOK(t) /\ t \in States
    BY DEF Begin, Opened, Good, Core
  <2>6. t.mem[Hi(r)] /\ Hi(r) \in Word
    BY <1>4, <2>5, InMemory, Words
  <2>7. ws \in SUBSET Word /\ \A w \in ws : t.mem[w]
    BY <2>6
  <2> HIDE DEF ws
  <2>8. Call(t, Mem(ws)) = t
    BY <2>5, <2>7, MemCall
  <2>9. Room(t, 2)
    BY <2>5, MoreRoom
  <2> QED
    BY <2>1, <2>4, <2>5, <2>8, <2>9 DEF Opened
<1> QED
  BY <1>1, <1>2, <1>3, <1>4

\* The link is written where the register of its low word is, or to memory.
LEMMA Link32 ==
  ASSUME Here, NEW t, Opened(t, 2), NEW r \in Regs, "branch" \in session.forms, NEW k, k = Len(t.v) + 1
  PROVE  Ends(Emitted(t, <<W32(r), Gives32(k, r)>>))
<1> DEFINE code == <<W32(r), Gives32(k, r)>>
           n == 2
<1>1. /\ Len(code) = 2 /\ Len(code) \in Nat /\ DOMAIN code = 1 .. Len(code)
      /\ code[1] = W32(r) /\ code[2] = Gives32(k, r)
  OBVIOUS
<1> HIDE DEF code
<1>2. PICK f : Emits(f, t, code)
  BY <1>1, EmittedBy
<1>3. f[1] = Call(t, W32(r)) /\ f[2] = Call(f[1], Gives32(k, r)) /\ Emitted(t, code) = f[2]
  BY <1>1, <1>2 DEF Emits
<1>4. n \in Nat /\ Opened(t, n) /\ n < Cardinality(X)
  BY Fits DEF InUse
<1> HIDE DEF n
<1>5. Writing(f[1], k, r, FALSE)
  BY <1>3, <1>4, W32Open
<1>6. Ends(f[2])
  BY <1>3, <1>5, Gives32Call
<1> QED
  BY <1>3, <1>6 DEF code

LEMMA LinkMem ==
  ASSUME Here, NEW t, Opened(t, 2), NEW r \in Regs
  PROVE  Ends(Emitted(t, <<Havoc({r}, TRUE)>>))
<1> DEFINE rd == {r}
           b == TRUE
           code == <<Havoc(rd, b)>>
<1>1. Len(code) = 1 /\ Len(code) \in Nat /\ DOMAIN code = 1 .. Len(code) /\ code[1] = Havoc(rd, b)
  OBVIOUS
<1>2. rd \in SUBSET Regs /\ b = TRUE /\ b \in BOOLEAN
  OBVIOUS
<1> HIDE DEF code, rd, b
<1>3. PICK f : Emits(f, t, code)
  BY <1>1, EmittedBy
<1>4. f[1] = Call(t, Havoc(rd, b)) /\ Emitted(t, code) = f[1]
  BY <1>1, <1>3 DEF Emits
<1>5. Good(t, {}) /\ NarrowOK(t)
  BY DEF Opened
<1> DEFINE u == Call(t, Havoc(rd, b))
<1>6. Good(u, {}) /\ Only(t, u, {"narrow"}) /\ (b = TRUE => u.narrow = t.narrow \cup rd)
  BY <1>2, <1>5, HavocGood
<1> QED
  BY <1>2, <1>4, <1>5, <1>6 DEF code, rd, b, Ends, NarrowOK

LEMMA Link64 ==
  ASSUME Here, NEW t, Opened(t, 2), NEW r \in Regs, "branch" \in session.forms, NEW k, k = Len(t.v) + 1
  PROVE  Ends(Emitted(t, <<W64(r), Gives64(k, r), Havoc({r}, TRUE)>>))
<1> DEFINE rd == {r}
           b == TRUE
           code == <<W64(r), Gives64(k, r), Havoc(rd, b)>>
           n == 2
<1>1. /\ Len(code) = 3 /\ Len(code) \in Nat /\ DOMAIN code = 1 .. Len(code)
      /\ code[1] = W64(r) /\ code[2] = Gives64(k, r) /\ code[3] = Havoc(rd, b)
  OBVIOUS
<1>2. rd \in SUBSET Regs /\ b = TRUE /\ b \in BOOLEAN
  OBVIOUS
<1>3. n \in Nat /\ Opened(t, n) /\ n + 2 <= Cardinality(X) /\ Pairs(session)
  BY Fits DEF InUse, Pairing
<1> HIDE DEF code, n, b, rd
<1>4. PICK f : Emits(f, t, code)
  BY <1>1, EmittedBy
<1>5. /\ f[1] = Call(t, W64(r)) /\ f[2] = Call(f[1], Gives64(k, r)) /\ f[3] = Call(f[2], Havoc(rd, b))
      /\ Emitted(t, code) = f[3]
  BY <1>1, <1>4 DEF Emits
<1>6. Writing(f[1], k, r, TRUE)
  BY <1>5, <1>3, W64Open
<1>7. Good(f[2], {}) /\ f[2].narrow = f[1].narrow \ {r}
  <2> DEFINE a == f[1]
             u == Call(a, Gives64(k, r))
  <2>1. Writing(a, k, r, TRUE)
    BY <1>6
  <2> HIDE DEF a
  <2>2. Good(u, {}) /\ u.narrow = a.narrow \ {r}
    BY <2>1, Gives64Call
  <2> QED
    BY <1>5, <2>2 DEF a
<1>8. Good(f[3], {}) /\ Only(f[2], f[3], {"narrow"}) /\ (b = TRUE => f[3].narrow = f[2].narrow \cup rd)
  <2> DEFINE a == f[2]
             u == Call(a, Havoc(rd, b))
  <2>1. Good(a, {})
    BY <1>7
  <2> HIDE DEF a
  <2>2. Good(u, {}) /\ Only(a, u, {"narrow"}) /\ (b = TRUE => u.narrow = a.narrow \cup rd)
    BY <1>2, <2>1, HavocGood
  <2> QED
    BY <1>5, <2>2 DEF a
<1>9. NarrowOK(f[3])
  BY <1>2, <1>6, <1>7, <1>8 DEF NarrowOK, Writing, rd
<1> QED
  BY <1>5, <1>8, <1>9 DEF Ends, code, b, rd

LEMMA LinkedEnds ==
  ASSUME Here, NEW t, Opened(t, 2), NEW r \in Regs, "branch" \in session.forms
  PROVE  Ends(Linked(t, r))
<1> DEFINE a == is64(t, r)
           k == Len(t.v) + 1
<1>1. a \in {"no", "32", "64"}
  BY DEF is64
<1>2. CASE a = "32"
  <2>1. Linked(t, r) = Emitted(t, <<W32(r), Gives32(k, r)>>)
    BY <1>2 DEF Linked, genbranchlink
  <2> QED
    BY <2>1, Link32
<1>3. CASE a = "no"
  <2>1. Linked(t, r) = Emitted(t, <<Havoc({r}, TRUE)>>)
    BY <1>3 DEF Linked, genbranchlink
  <2> QED
    BY <2>1, LinkMem
<1>4. CASE a = "64"
  <2>1. Linked(t, r) = Emitted(t, <<W64(r), Gives64(k, r), Havoc({r}, TRUE)>>)
    BY <1>4 DEF Linked, genbranchlink
  <2> QED
    BY <2>1, Link64
<1> QED
  BY <1>1, <1>2, <1>3, <1>4

-----------------------------------------------------------------------------
(* mult.                                                                   *)

\* A register taken by name for a result.
Taking(t, P) == Good(t, P) /\ NarrowOK(t)

LEMMA Manually_wCall ==
  ASSUME Here, NEW t, NEW P, Taking(t, P), NEW r \in Regs, Apart(t, P, r), NEW x \in X, x \notin P,
         ~Accessed(t, x), NEW n \in Nat, Room(t, n)
  PROVE  LET u == Call(t, Manually_w(x, r)) IN
         /\ Taking(u, P \cup {x}) /\ Made32(u, x, r) /\ Grows(t, u, {x}) /\ Room(u, n + 1)
         /\ \A y \in P : u.r64[y] = t.r64[y] /\ u.reg_content[y] = t.reg_content[y] /\ u.dirty[y] = t.dirty[y]
         /\ Adds(t, u) /\ u.v[Len(t.v) + 1][1] = x
<1> DEFINE a == allocate_register_manually_w(t, x, Lo(r))
           b == At(a, x)
           u == New(b)
           Q == P \cup {x}
<1>1. Good(t, P) /\ NarrowOK(t)
  BY DEF Taking
<1>2. Manual_w(t, a, P, x, r)
  BY <1>1, Manually_wGood
<1>3. Call(t, Manually_w(x, r)) = u
  BY DEF Call, Manually_w
<1> HIDE DEF a
<1>4. Good(a, Q)
  BY <1>2 DEF Manual_w
<1> HIDE DEF Q
<1>5. Good(b, Q) /\ Only(a, b, {"x"}) /\ b.x = x
  BY <1>4, AtGood
<1> HIDE DEF b
<1>6. Good(u, Q) /\ Only(b, u, {"v"}) /\ Adds(b, u) /\ u.v[Len(b.v) + 1] = <<b.x, b.r64[b.x]>>
  BY <1>5, NewGood
<1> HIDE DEF u
<1>7. /\ u.last_access = a.last_access /\ u.reg_content = a.reg_content /\ u.dirty = a.dirty
      /\ u.r64 = a.r64 /\ u.narrow = a.narrow /\ b.v = a.v
  BY <1>5, <1>6 DEF Only, Fields
<1>8. Made32(u, x, r) /\ Grows(t, u, {x}) /\ u.narrow = t.narrow /\ b.v = t.v
  BY <1>2, <1>7 DEF Manual_w, Made32, Accessed, Paired, Grows
<1>9. Room(u, n + 1)
  BY <1>8, RoomOne
<1>10. \A y \in P : u.r64[y] = t.r64[y] /\ u.reg_content[y] = t.reg_content[y] /\ u.dirty[y] = t.dirty[y]
  BY <1>2, <1>7 DEF Manual_w
<1>11. Adds(t, u) /\ u.v[Len(t.v) + 1][1] = x
  BY <1>5, <1>6, <1>8 DEF Adds, Past
<1> QED
  BY <1>1, <1>3, <1>6, <1>8, <1>9, <1>10, <1>11 DEF Q, Taking, NarrowOK

\* A block's instruction starts with no register accessed.
LEMMA NoneUsed ==
  ASSUME Here, NEW t, Room(t, 0), NEW x \in X
  PROVE  ~Accessed(t, x)
<1>1. Used(t) \in SUBSET X /\ IsFiniteSet(X)
  BY Numbers DEF Used
<1>2. IsFiniteSet(Used(t)) /\ Cardinality(Used(t)) \in Nat
  BY <1>1, FS_Subset, FS_CardinalityType
<1>3. Cardinality(Used(t)) = 0
  BY <1>2 DEF Room
<1>4. Used(t) = {}
  BY <1>2, <1>3, FS_EmptySet
<1> QED
  BY <1>4 DEF Used

\* The registers of lo and hi.
Product(t, P, x1, x2) ==
  /\ Taking(t, P) /\ P = {x1, x2} /\ x1 # x2 /\ Made32(t, x1, LO) /\ Made32(t, x2, HI)
  /\ Len(t.v) \in Nat /\ 2 <= Len(t.v) /\ t.v[1][1] = x1 /\ t.v[2][1] = x2

LEMMA ProductOpen ==
  ASSUME Here, NEW t, Begin(t), NEW x1 \in X, NEW x2 \in X, x1 # x2
  PROVE  LET u == Calls(t, Manually_w(x1, LO), Manually_w(x2, HI)) IN
         Product(u, {x1, x2}, x1, x2) /\ Room(u, 2) /\ Len(u.v) = 2
<1> DEFINE a == Call(t, Manually_w(x1, LO))
           u == Call(a, Manually_w(x2, HI))
           P0 == {}
           P1 == {x1}
           n0 == 0
           n1 == 1
           lo == LO
           hi == HI
<1>1. /\ Taking(t, P0) /\ Room(t, n0) /\ Apart(t, P0, lo) /\ x1 \notin P0 /\ n0 \in Nat
  BY DEF Begin, Opened, Taking, Apart
<1>2. ~Accessed(t, x1) /\ ~Accessed(t, x2)
  BY <1>1, NoneUsed
<1>3. lo \in Regs /\ hi \in Regs /\ lo # hi
  BY DEF Regs, LO, HI
<1>4. P0 \cup {x1} = P1 /\ x1 \in P1 /\ P1 \cup {x2} = {x1, x2} /\ x2 \notin P1 /\ \A y \in P1 : y = x1
  OBVIOUS
<1>5. n0 + 1 = n1 /\ n1 + 1 = 2 /\ n1 \in Nat
  OBVIOUS
<1>6. u = Calls(t, Manually_w(x1, lo), Manually_w(x2, hi))
  BY DEF Calls
<1>7. Len(t.v) + 1 = 1
  BY DEF Begin
<1> HIDE DEF P0, n0, P1, n1, lo, hi, u
<1>8. /\ Taking(a, P0 \cup {x1}) /\ Made32(a, x1, lo) /\ Grows(t, a, {x1}) /\ Room(a, n0 + 1)
      /\ Adds(t, a) /\ a.v[Len(t.v) + 1][1] = x1
  BY <1>1, <1>2, <1>3, Manually_wCall, ZenonT(40) DEF lo
<1> HIDE DEF a
<1>9. /\ Taking(a, P1) /\ Room(a, n1)
  BY <1>4, <1>5, <1>8
<1>10. Len(a.v) = 1 /\ a.v[1][1] = x1
  BY <1>7, <1>8 DEF Adds
<1>11. Apart(a, P1, hi)
  <2>1. a.reg_content[x1] = Lo(lo)
    BY <1>8 DEF Made32
  <2>2. Lo(lo) \in Word \ {Lo(hi), Hi(hi)}
    BY <1>3, Words
  <2> QED
    BY <1>4, <2>1, <2>2 DEF Apart
<1>12. ~Accessed(a, x2)
  BY <1>2, <1>8 DEF Grows
<1>13. /\ Taking(u, P1 \cup {x2}) /\ Made32(u, x2, hi) /\ Grows(a, u, {x2}) /\ Room(u, n1 + 1)
       /\ \A y \in P1 : u.r64[y] = a.r64[y] /\ u.reg_content[y] = a.reg_content[y] /\ u.dirty[y] = a.dirty[y]
       /\ Adds(a, u) /\ u.v[Len(a.v) + 1][1] = x2
  <2> DEFINE c == Call(a, Manually_w(x2, hi))
  <2>1. hi \in Regs /\ x2 \notin P1 /\ n1 \in Nat
    BY <1>3, <1>4, <1>5
  <2>2. /\ Taking(c, P1 \cup {x2}) /\ Made32(c, x2, hi) /\ Grows(a, c, {x2}) /\ Room(c, n1 + 1)
        /\ \A y \in P1 : c.r64[y] = a.r64[y] /\ c.reg_content[y] = a.reg_content[y] /\ c.dirty[y] = a.dirty[y]
        /\ Adds(a, c) /\ c.v[Len(a.v) + 1][1] = x2
    BY <2>1, <1>9, <1>11, <1>12, Manually_wCall, ZenonT(40)
  <2>3. u = c
    BY DEF u, hi
  <2> HIDE DEF c
  <2> QED
    BY <2>2, <2>3
<1>14. Taking(u, {x1, x2}) /\ Room(u, 2)
  BY <1>4, <1>5, <1>13
<1>15. Made32(u, x1, lo)
  <2>1. Accessed(u, x1)
    BY <1>14 DEF Taking, Good, Accessed
  <2> QED
    BY <1>4, <1>8, <1>13, <2>1 DEF Made32, Paired
<1>16. Len(u.v) = 2 /\ u.v[1][1] = x1 /\ u.v[2][1] = x2
  BY <1>10, <1>13 DEF Adds, Past
<1>17. Product(u, {x1, x2}, x1, x2)
  BY <1>13, <1>14, <1>15, <1>16 DEF Product, lo, hi
<1> QED
  BY <1>6, <1>14, <1>16, <1>17 DEF lo, hi

\* A factor.
LEMMA ProductRead ==
  ASSUME Here, NEW t, NEW P, NEW x1 \in X, NEW x2 \in X, Product(t, P, x1, x2), NEW r \in session.regs,
         session.forms \cap Low # {}, NEW n \in Nat, Room(t, n), n < Cardinality(X)
  PROVE  LET u == Call(t, R32(r)) IN
         /\ Product(u, P, x1, x2) /\ Room(u, n + Two(session)) /\ Adds(t, u) /\ Keeps(t, u)
         /\ ReadBy(u, Len(t.v) + 1, r)
<1> DEFINE u == Call(t, R32(r))
<1>1. Good(t, P) /\ NarrowOK(t) /\ P = {x1, x2} /\ Made32(t, x1, LO) /\ Made32(t, x2, HI)
  BY DEF Product, Taking
<1>2. LO \in Regs /\ HI \in Regs /\ LO # HI /\ r \in Regs /\ r # LO /\ r # HI
  BY DEF Regs, LO, HI, Here, LimitsOf
<1>3. Apart(t, P, r)
  <2>1. t.reg_content[x1] = Lo(LO) /\ t.reg_content[x2] = Lo(HI)
    BY <1>1 DEF Made32
  <2>2. Lo(LO) \in Word \ {Lo(r), Hi(r)} /\ Lo(HI) \in Word \ {Lo(r), Hi(r)}
    BY <1>2, Words
  <2> QED
    BY <1>1, <2>1, <2>2 DEF Apart
<1>4. Testing(session) => r \in t.narrow
  BY <1>1, <1>2 DEF NarrowOK, Narrow0
<1>5. /\ Good(u, P) /\ Room(u, n + Two(session)) /\ Adds(t, u) /\ Keeps(t, u)
      /\ ReadBy(u, Len(t.v) + 1, r) /\ u.narrow = t.narrow
      /\ \A y \in P : Accessed(t, y) => /\ u.reg_content[y] = t.reg_content[y]
                                        /\ u.dirty[y] = t.dirty[y] /\ u.r64[y] = t.r64[y]
  BY <1>1, <1>2, <1>3, <1>4, R32Call
<1> HIDE DEF u
<1>6. ASSUME NEW x \in P, NEW q, Made32(t, x, q) PROVE Made32(u, x, q)
  <2>1. Accessed(u, x)
    BY <1>5 DEF Good, Accessed
  <2> QED
    BY <1>5, <1>6, <2>1 DEF Made32, Paired
<1>7. Made32(u, x1, LO) /\ Made32(u, x2, HI)
  BY <1>1, <1>6
<1>8. Taking(u, P)
  BY <1>1, <1>5 DEF Taking, NarrowOK
<1>9. Len(u.v) \in Nat /\ 2 <= Len(u.v) /\ u.v[1][1] = x1 /\ u.v[2][1] = x2
  BY <1>5 DEF Product, Adds, Past
<1> QED
  BY <1>5, <1>7, <1>8, <1>9 DEF Product, u

LEMMA ProductReads ==
  ASSUME Here, NEW t, NEW P, NEW x1 \in X, NEW x2 \in X, Product(t, P, x1, x2), NEW k, NEW r \in Regs,
         Ready(t, t.v[k][1], Lo(r))
  PROVE  Product(Call(t, Reads(k, r)), P, x1, x2) /\ UsesOnly(t, Call(t, Reads(k, r)))
<1> DEFINE u == Call(t, Reads(k, r))
<1>1. Good(t, P) /\ NarrowOK(t)
  BY DEF Product, Taking
<1>2. Good(u, P) /\ UsesOnly(t, u)
  BY <1>1, ReadsCall
<1> HIDE DEF u
<1>3. /\ u.v = t.v /\ u.narrow = t.narrow /\ u.last_access = t.last_access /\ u.reg_content = t.reg_content
      /\ u.dirty = t.dirty /\ u.r64 = t.r64
  BY <1>2 DEF UsesOnly, Only, Fields
<1> QED
  BY <1>1, <1>2, <1>3 DEF Product, Taking, NarrowOK, Made32, Accessed, Paired, u

LEMMA ProductGives ==
  ASSUME Here, NEW t, NEW P, NEW x1 \in X, NEW x2 \in X, Product(t, P, x1, x2)
  PROVE  Ends(Calls(t, Gives32(1, LO), Gives32(2, HI)))
<1> DEFINE a == Give32(t, LO, x1)
           Q == {x2}
           u == Give32(a, HI, x2)
<1>1. /\ Good(t, P) /\ NarrowOK(t) /\ P = {x1, x2} /\ x1 # x2 /\ Made32(t, x1, LO) /\ Made32(t, x2, HI)
      /\ t.v[1][1] = x1 /\ t.v[2][1] = x2
  BY DEF Product, Taking
<1>2. LO \in Regs /\ HI \in Regs /\ LO # HI
  BY DEF Regs, LO, HI
<1>3. x1 \in P /\ P \ {x1} = Q /\ x2 \in Q /\ Q \ {x2} = {}
  BY <1>1
<1>4. Apart(t, P \ {x1}, LO)
  <2>1. t.reg_content[x2] = Lo(HI)
    BY <1>1 DEF Made32
  <2>2. Lo(HI) \in Word \ {Lo(LO), Hi(LO)}
    BY <1>2, Words
  <2> QED
    BY <1>3, <2>1, <2>2 DEF Apart
<1>5. a = Call(t, Gives32(1, LO))
  BY <1>1 DEF Call, Gives32
<1>6. /\ Good(a, P \ {x1}) /\ Only(t, a, {"mem", "hold", "narrow"})
      /\ a.narrow = t.narrow \cup {LO}
  BY <1>1, <1>2, <1>3, <1>4, Give32Good
<1> HIDE DEF a, Q
<1>7. Good(a, Q) /\ Made32(a, x2, HI) /\ a.v[2][1] = x2 /\ Apart(a, Q \ {x2}, HI)
  BY <1>1, <1>3, <1>6 DEF Only, Fields, Made32, Accessed, Paired, Apart
<1>8. u = Call(a, Gives32(2, HI))
  BY <1>7 DEF Call, Gives32
<1>9. /\ Good(u, Q \ {x2}) /\ Only(a, u, {"mem", "hold", "narrow"})
      /\ u.narrow = a.narrow \cup {HI}
  BY <1>2, <1>3, <1>7, Give32Good
<1> HIDE DEF u
<1>10. Ends(u)
  BY <1>1, <1>3, <1>6, <1>9 DEF Ends, NarrowOK
<1> QED
  BY <1>5, <1>8, <1>10 DEF Calls

\* The factors are read.
LEMMA ProductReadTwice ==
  ASSUME Here, NEW t, NEW P, NEW x1 \in X, NEW x2 \in X, Product(t, P, x1, x2), NEW k, NEW r \in Regs,
         Lows(t, k, r), NEW h, NEW q \in Regs, Lows(t, h, q)
  PROVE  Product(Calls(t, Reads(k, r), Reads(h, q)), P, x1, x2)
<1> DEFINE a == Call(t, Reads(k, r))
           u == Call(a, Reads(h, q))
<1>1. Product(a, P, x1, x2) /\ UsesOnly(t, a)
  BY ProductReads DEF Lows
<1> HIDE DEF a
<1>2. Ready(a, a.v[h][1], Lo(q))
  BY <1>1, UsesSame, Words DEF Lows
<1>3. Product(u, P, x1, x2)
  BY <1>1, <1>2, ProductReads
<1>4. u = Calls(t, Reads(k, r), Reads(h, q))
  BY DEF Calls, a
<1> QED
  BY <1>3, <1>4

LEMMA MultGood ==
  ASSUME Here, NEW t, Begin(t), NEW rs \in session.regs, NEW rt \in session.regs, "mult" \in session.forms
  PROVE  Ends(Emitted(t, genmult(rs, rt)))
<1> DEFINE code == genmult(rs, rt)
           two == Two(session)
           n2 == 2
           n4 == n2 + two
           x1 == EAX
           x2 == EDX
           P == {x1, x2}
<1>1. /\ Len(code) = 8 /\ Len(code) \in Nat /\ DOMAIN code = 1 .. Len(code)
      /\ code[1] = Manually_w(EAX, LO) /\ code[2] = Manually_w(EDX, HI)
      /\ code[3] = R32(rs) /\ code[4] = R32(rt) /\ code[5] = Reads(3, rs) /\ code[6] = Reads(4, rt)
      /\ code[7] = Gives32(1, LO) /\ code[8] = Gives32(2, HI)
  BY DEF genmult
<1> HIDE DEF code
<1>2. PICK f : Emits(f, t, code)
  BY <1>1, EmittedBy
<1>3. /\ f[2] = Calls(t, Manually_w(x1, LO), Manually_w(x2, HI))
      /\ f[3] = Call(f[2], R32(rs)) /\ f[4] = Call(f[3], R32(rt))
      /\ f[6] = Calls(f[4], Reads(3, rs), Reads(4, rt))
      /\ f[8] = Calls(f[6], Gives32(1, LO), Gives32(2, HI))
      /\ Emitted(t, code) = f[8]
  BY <1>1, <1>2 DEF Emits, Calls
<1>4. /\ 2 + 2 * two <= Cardinality(X) /\ Cardinality(X) \in Nat /\ two \in {1, 2}
      /\ session.forms \cap Low # {} /\ x1 \in X /\ x2 \in X /\ x1 # x2
  BY Fits DEF InUse, Low, ByName, EAX, EDX
<1> HIDE DEF two
<1>5. two \in Nat /\ n2 \in Nat /\ n2 < Cardinality(X) /\ n4 \in Nat /\ n4 < Cardinality(X)
  BY <1>4
<1>6. rs \in Regs /\ rt \in Regs
  BY DEF Regs
<1> DEFINE a == f[2]
           b == f[3]
           c == f[4]
           d == f[6]
<1>7. /\ a = Calls(t, Manually_w(x1, LO), Manually_w(x2, HI))
      /\ b = Call(a, R32(rs)) /\ c = Call(b, R32(rt)) /\ d = Calls(c, Reads(3, rs), Reads(4, rt))
      /\ Emitted(t, code) = Calls(d, Gives32(1, LO), Gives32(2, HI))
  BY <1>3
<1> HIDE DEF a, b, c, d
<1>8. Product(a, P, x1, x2) /\ Room(a, n2) /\ Len(a.v) = 2
  BY <1>4, <1>7, ProductOpen
<1> HIDE DEF x1, x2, n2, P
<1>9. Product(b, P, x1, x2) /\ Room(b, n4) /\ Adds(a, b) /\ ReadBy(b, Len(a.v) + 1, rs)
  <2>1. /\ Product(b, P, x1, x2) /\ Room(b, n2 + Two(session)) /\ Adds(a, b) /\ Keeps(a, b)
        /\ ReadBy(b, Len(a.v) + 1, rs)
    BY <1>4, <1>5, <1>7, <1>8, ProductRead
  <2> QED
    BY <2>1 DEF two
<1>10. Len(b.v) = 3 /\ ReadBy(b, 3, rs) /\ 3 \in Past(b)
  BY <1>8, <1>9 DEF Adds, Past
<1> HIDE DEF n4
<1>11. /\ Product(c, P, x1, x2) /\ Adds(b, c) /\ Keeps(b, c) /\ ReadBy(c, Len(b.v) + 1, rt)
  <2>1. /\ Product(c, P, x1, x2) /\ Room(c, n4 + Two(session)) /\ Adds(b, c) /\ Keeps(b, c)
        /\ ReadBy(c, Len(b.v) + 1, rt)
    BY <1>4, <1>5, <1>7, <1>9, ProductRead
  <2> QED
    BY <2>1
<1>12. Lows(c, 3, rs) /\ Lows(c, 4, rt)
  BY <1>6, <1>10, <1>11 DEF Keeps, ReadBy, Lows
<1>13. Product(d, P, x1, x2)
  <2> DEFINE k == 3
             h == 4
  <2>1. Lows(c, k, rs) /\ Lows(c, h, rt) /\ d = Calls(c, Reads(k, rs), Reads(h, rt))
    BY <1>7, <1>12
  <2> HIDE DEF k, h
  <2> QED
    BY <1>4, <1>6, <1>11, <2>1, ProductReadTwice
<1>14. Ends(Calls(d, Gives32(1, LO), Gives32(2, HI)))
  BY <1>4, <1>13, ProductGives
<1> QED
  BY <1>7, <1>14 DEF code

-----------------------------------------------------------------------------
(* An instruction, from its first call to the next instruction.            *)

\* Where the code starts, memory has every word.
LEMMA StartedFields ==
  ASSUME Here, NEW c \in States
  PROVE  LET u == Started(c) IN
         /\ u \in States /\ Only(c, u, {"hold", "loads", "mem", "narrow", "wrong"})
         /\ u.hold = [x \in X |-> Loaded] /\ u.loads = [x \in X |-> NoWord]
         /\ u.mem = [w \in Word |-> TRUE] /\ u.narrow = session.narrow /\ u.wrong = {}
<1> DEFINE u == Started(c)
<1>1. /\ Only(c, u, {"hold", "loads", "mem", "narrow", "wrong"})
      /\ u.hold = [x \in X |-> Loaded] /\ u.loads = [x \in X |-> NoWord]
      /\ u.mem = [w \in Word |-> TRUE] /\ u.narrow = session.narrow /\ u.wrong = {}
  BY DEF Started, States, Only, Fields
<1>2. u \in States
  <2>1. session.narrow \in SUBSET (Regs \cup session.narrow)
    OBVIOUS
  <2>2. /\ [x \in X |-> Loaded] \in [X -> Held] /\ [w \in Word |-> TRUE] \in [Word -> BOOLEAN]
        /\ [x \in X |-> NoWord] \in [X -> Word \cup {NoWord}]
    BY DEF Held
  <2> QED
    BY <2>1, <2>2 DEF Started, States
<1> QED
  BY <1>1, <1>2

\* What the registers stand for is loaded there.
LEMMA StartedGood ==
  ASSUME Here, NEW c, NEW d, Core(c, d, FALSE), \A x \in X : Fit(c, x, FALSE), c.v = <<>>,
         (\A x \in X : ~Live(c, x)) \/ Regs \subseteq session.narrow,
         NEW run, \A x \in X : run /\ Live(c, x) => ~Told(c, x)
  PROVE  Between(Started(c), d, run) /\ Started(c).last_access = c.last_access
<1> DEFINE u == Started(c)
<1>1. c \in States
  BY DEF Core
<1>2. /\ u \in States /\ Only(c, u, {"hold", "loads", "mem", "narrow", "wrong"})
      /\ u.hold = [x \in X |-> Loaded] /\ u.loads = [x \in X |-> NoWord]
      /\ u.mem = [w \in Word |-> TRUE] /\ u.narrow = session.narrow /\ u.wrong = {}
  BY <1>1, StartedFields
<1> HIDE DEF u
<1>3. /\ u.last_access = c.last_access /\ u.reg_content = c.reg_content /\ u.dirty = c.dirty
      /\ u.r64 = c.r64 /\ u.free_since = c.free_since /\ u.needed = c.needed /\ u.v = c.v
  BY <1>2 DEF Only, Fields
<1>4. Core(u, d, run)
  <2>1. PairsOK(u) /\ Distinct(u)
    BY <1>3 DEF Core, PairsOK, PairOK, Distinct, Live, Paired
  <2>2. MemOK(u) /\ LoadsOK(u)
    BY <1>2 DEF MemOK, LoadsOK
  <2> QED
    BY <1>2, <1>3, <2>1, <2>2 DEF Core
<1>5. ASSUME NEW x \in X PROVE Fit(u, x, run)
  <2>1. SUFFICES ASSUME Live(u, x) PROVE Fit(u, x, run)
    BY DEF Fit
  <2>2. Live(c, x) /\ Fit(c, x, FALSE) /\ ~(run /\ Told(c, x))
    BY <1>3, <2>1 DEF Live
  <2>3. u.reg_content[x] \in Word /\ (~Paired(u, x) => LowWord(u.reg_content[x]))
    BY <1>3, <2>2 DEF Fit, Paired
  <2>4. u.reg_content[x][1] \in u.narrow
    BY <1>2, <2>2, <2>3, Words
  <2>5. ~(run /\ Told(u, x))
    BY <1>3, <2>2 DEF Told, Live
  <2> QED
    BY <1>2, <2>3, <2>4, <2>5 DEF Fit
<1>6. NarrowOK(u)
  BY <1>2 DEF NarrowOK, Here, LimitsOf, RegsOf, Regs
<1> QED
  BY <1>2, <1>3, <1>4, <1>5, <1>6 DEF Between, u

\* An instruction begins.
LEMMA EnteredGood ==
  ASSUME Here, entry \in session.entries, Between(s, dst - 1, entry <= dst - 1),
         dst = 1 => \A x \in X : ~Live(s, x)
  PROVE  Begin(Entered(s))
<1> DEFINE u == Entered(s)
<1>1. entry \in Nat /\ dst \in Nat /\ dst # 0 /\ X \subseteq Nat
  BY Numbers
<1>2. /\ Core(s, dst - 1, entry <= dst - 1) /\ NarrowOK(s) /\ s.v = <<>>
      /\ \A x \in X : Fit(s, x, entry <= dst - 1)
  BY DEF Between
<1>3. s \in States /\ \A x \in X : s.last_access[x] \in Nat /\ s.last_access[x] <= dst - 1
  BY <1>2 DEF Core, States
<1>4. Between(u, dst - 1, Running) /\ u.last_access = s.last_access
  <2>1. CASE dst = entry /\ ~slot
    <3>1. u = Started(s) /\ Running
      BY <1>1, <2>1 DEF Entered, Running
    <3>2. ASSUME NEW x \in X, Live(s, x) PROVE ~Told(s, x)
      BY <1>1, <1>3, <2>1, <3>2 DEF Told
    <3>3. Core(s, dst - 1, FALSE) /\ \A x \in X : Fit(s, x, FALSE)
      BY <1>2 DEF Core, Fit
    <3>4. (\A x \in X : ~Live(s, x)) \/ Regs \subseteq session.narrow
      BY <2>1 DEF Here, LimitsOf, RegsOf, Regs
    <3> DEFINE d == dst - 1
               run == Running
    <3>5. Core(s, d, FALSE)
      BY <3>3
    <3>6. \A x \in X : run /\ Live(s, x) => ~Told(s, x)
      BY <3>2
    <3> HIDE DEF d, run
    <3>7. Between(Started(s), d, run) /\ Started(s).last_access = s.last_access
      BY <1>2, <3>3, <3>4, <3>5, <3>6, StartedGood
    <3> QED
      BY <3>1, <3>7 DEF d, run
  <2>2. CASE ~(dst = entry /\ ~slot)
    <3>1. u = s
      BY <2>2 DEF Entered
    <3>2. Running <=> entry <= dst - 1
      BY <1>1, <2>2 DEF Running
    <3>3. Running = (entry <= dst - 1)
      BY <3>2 DEF Running
    <3> QED
      BY <3>1, <3>3
  <2> QED
    BY <2>1, <2>2
<1> HIDE DEF u
<1>5. Good(u, {})
  <2>1. \A x \in X : u.last_access[x] <= dst
    BY <1>1, <1>3, <1>4
  <2> QED
    BY <1>4, <2>1 DEF Good, Core, Between
<1>6. Room(u, 0)
  <2>1. Used(u) = {}
    <3>1. \A x \in X : ~Accessed(u, x)
      BY <1>1, <1>3, <1>4 DEF Accessed
    <3> QED
      BY <3>1 DEF Used
  <2>2. Cardinality({}) = 0
    BY FS_EmptySet
  <2> QED
    BY <2>1, <2>2 DEF Room
<1> QED
  BY <1>4, <1>5, <1>6 DEF Begin, Opened, Between, u

\* What no instruction looks at again is forgotten.
LEMMA ForgottenGood ==
  ASSUME Here, NEW t, Ends(t)
  PROVE  LET u == Forgotten(t, {x \in X : ~Live(t, x)}) IN
         /\ Core(u, dst, Running) /\ NarrowOK(u) /\ u.v = <<>>
         /\ \A x \in X : Fit(u, x, Running)
         /\ u.last_access = t.last_access
<1> DEFINE dead == {x \in X : ~Live(t, x)}
           u == Forgotten(t, dead)
<1>1. Core(t, dst, Running) /\ NarrowOK(t) /\ \A x \in X : Fit(t, x, Running)
  BY DEF Ends, Good
<1>2. t \in States
  BY <1>1 DEF Core
<1>3. dead \subseteq X /\ \A x \in X : x \in dead <=> ~Live(t, x)
  OBVIOUS
<1> HIDE DEF dead
<1>4. /\ u \in States /\ Only(t, u, {"reg_content", "dirty", "r64", "hold", "x", "v"}) /\ u.v = <<>>
      /\ \A x \in X : x \notin dead => /\ u.reg_content[x] = t.reg_content[x]
                                       /\ u.dirty[x] = t.dirty[x] /\ u.r64[x] = t.r64[x]
                                       /\ u.hold[x] = t.hold[x]
  <2>1. Only(t, u, {"reg_content", "dirty", "r64", "hold", "x", "v"}) /\ u.v = <<>>
    BY <1>2 DEF Forgotten, States, Only, Fields
  <2>2. \A x \in X : x \notin dead => /\ u.reg_content[x] = t.reg_content[x]
                                      /\ u.dirty[x] = t.dirty[x] /\ u.r64[x] = t.r64[x]
                                      /\ u.hold[x] = t.hold[x]
    BY <1>2 DEF Forgotten, States
  <2>3. /\ [x \in X |-> IF x \in dead THEN NoWord ELSE t.reg_content[x]] \in [X -> Word \cup {NoWord}]
        /\ [x \in X |-> x \notin dead /\ t.dirty[x]] \in [X -> BOOLEAN]
        /\ [x \in X |-> IF x \in dead THEN None ELSE t.r64[x]] \in [X -> X \cup {None}]
        /\ [x \in X |-> IF x \in dead THEN Junk ELSE t.hold[x]] \in [X -> Held]
    BY <1>2 DEF States, Held
  <2>4. <<>> \in Seq(X \X (X \cup {None})) /\ 0 \in Int
    OBVIOUS
  <2>5. u \in States
    BY <1>2, <2>3, <2>4 DEF Forgotten, States
  <2> QED
    BY <2>1, <2>2, <2>5
<1> HIDE DEF u
<1>5. /\ u.last_access = t.last_access /\ u.free_since = t.free_since /\ u.needed = t.needed
      /\ u.loads = t.loads /\ u.mem = t.mem /\ u.narrow = t.narrow /\ u.wrong = t.wrong
  BY <1>4 DEF Only, Fields
<1>6. \A x \in X : Live(t, x) => /\ Live(u, x) /\ u.reg_content[x] = t.reg_content[x]
                                 /\ u.dirty[x] = t.dirty[x] /\ u.r64[x] = t.r64[x]
                                 /\ u.hold[x] = t.hold[x] /\ (Paired(u, x) <=> Paired(t, x))
  BY <1>3, <1>4, <1>5 DEF Live, Paired
<1>7. \A x \in X : Live(u, x) => Live(t, x)
  BY <1>5 DEF Live
<1>8. \A x \in X : Told(u, x) <=> Told(t, x)
  BY <1>5 DEF Told, Live
<1>9. Core(u, dst, Running)
  <2>1. PairsOK(u)
    <3> SUFFICES ASSUME NEW x \in X, Live(u, x), Paired(u, x) PROVE Pairs(session) /\ PairOK(u, x)
      BY DEF PairsOK
    <3>1. Live(t, x) /\ Paired(t, x) /\ u.r64[x] = t.r64[x]
      BY <1>6, <1>7
    <3>2. Pairs(session) /\ PairOK(t, x)
      BY <1>1, <3>1 DEF Core, PairsOK
    <3> QED
      BY <1>5, <1>6, <3>1, <3>2 DEF PairOK
  <2>2. Distinct(u)
    BY <1>1, <1>6, <1>7 DEF Core, Distinct
  <2>3. MemOK(u)
    <3>1. \A x \in X, w \in Word : Backs(t, x, w) => Backs(u, x, w)
      BY <1>6 DEF Backs
    <3> QED
      BY <1>1, <1>5, <3>1 DEF Core, MemOK
  <2>4. Running => LoadsOK(u)
    BY <1>1, <1>5, <1>8 DEF Core, LoadsOK
  <2> QED
    BY <1>1, <1>4, <1>5, <2>1, <2>2, <2>3, <2>4 DEF Core
<1>10. \A x \in X : Fit(u, x, Running)
  BY <1>1, <1>5, <1>6, <1>7, <1>8 DEF Fit
<1>11. NarrowOK(u)
  BY <1>1, <1>5 DEF NarrowOK
<1> QED
  BY <1>4, <1>5, <1>9, <1>10, <1>11 DEF u, dead

\* An instruction ends.
LEMMA TidiedGood ==
  ASSUME Here, NEW t, Ends(t), entry \in session.entries, (\A x \in X : ~Live(t, x)) \/ ~slot
  PROVE  Between(Tidied(t, Running), dst, Running) /\ Tidied(t, Running).last_access = t.last_access
<1> DEFINE c == Forgotten(t, {x \in X : ~Live(t, x)})
           u == Tidied(t, Running)
           run == Running
<1>1. /\ Core(c, dst, run) /\ NarrowOK(c) /\ c.v = <<>>
      /\ \A x \in X : Fit(c, x, run)
      /\ c.last_access = t.last_access
  BY ForgottenGood
<1>2. u = IF run THEN c ELSE Started(c)
  BY DEF Tidied
<1> HIDE DEF c, u
<1>3. ASSUME run PROVE Between(u, dst, run) /\ u.last_access = t.last_access
  <2> HIDE DEF run
  <2> QED
    BY <1>1, <1>2, <1>3 DEF Between
<1>4. ASSUME ~run PROVE Between(u, dst, run) /\ u.last_access = t.last_access
  <2>1. Core(c, dst, FALSE) /\ \A x \in X : Fit(c, x, FALSE)
    BY <1>1 DEF Core, Fit
  <2>2. (\A x \in X : ~Live(c, x)) \/ Regs \subseteq session.narrow
    <3>1. CASE slot
      BY <1>1, <3>1 DEF Live
    <3>2. CASE ~slot
      <4>1. entry # 1
        BY <1>4, <3>2 DEF Running, Here
      <4> QED
        BY <4>1 DEF Here, LimitsOf, RegsOf, Regs
    <3> QED
      BY <3>1, <3>2
  <2>3. \A x \in X : run /\ Live(c, x) => ~Told(c, x)
    BY <1>4
  <2> DEFINE d == dst
  <2>4. Core(c, d, FALSE)
    BY <2>1
  <2> HIDE DEF d, run
  <2>5. Between(Started(c), d, run) /\ Started(c).last_access = c.last_access
    BY <1>1, <2>1, <2>2, <2>3, <2>4, StartedGood
  <2> QED
    BY <1>1, <1>2, <1>4, <2>5 DEF d
<1> QED
  BY <1>3, <1>4 DEF u, run

-----------------------------------------------------------------------------
(* Every step preserves the invariant.                                     *)

LEMMA PrimedBetween ==
  ASSUME session' = session, entry' = entry, NEW u, s' = u, NEW d, dst' - 1 = d, NEW run,
         Between(u, d, run), run <=> entry <= d
  PROVE  Between(s, dst - 1, entry <= dst - 1)'
<1>1. X' = X /\ Regs' = Regs
  BY DEF X, Regs
<1>2. Word' = Word
  BY <1>1 DEF Word
<1>3. States' = States
  BY <1>1, <1>2 DEF States, Held
<1>4. /\ Core(u, d, run) /\ NarrowOK(u) /\ u.v = <<>> /\ \A x \in X : Fit(u, x, run)
      /\ run \/ u.loads = [x \in X |-> NoWord]
  BY DEF Between
<1>5. Core(s, dst - 1, entry <= dst - 1)'
  <2>1. PairsOK(s)'
    BY <1>1, <1>4 DEF Core, PairsOK, PairOK, Partners, Live, Paired
  <2>2. Distinct(s)'
    BY <1>1, <1>4 DEF Core, Distinct, Live
  <2>3. MemOK(s)'
    BY <1>1, <1>2, <1>4 DEF Core, MemOK, Backs, Live, Paired
  <2>4. run => LoadsOK(s)'
    BY <1>1, <1>4 DEF Core, LoadsOK, Told, Live
  <2>5. (s \in States /\ s.wrong = {} /\ \A x \in X : s.last_access[x] <= dst - 1)'
    BY <1>1, <1>3, <1>4 DEF Core
  <2> QED
    BY <2>1, <2>2, <2>3, <2>4, <2>5 DEF Core
<1>6. (\A x \in X : Fit(s, x, entry <= dst - 1))'
  BY <1>1, <1>2, <1>4 DEF Fit, Live, Paired, Told, LowWord, Testing
<1>7. (NarrowOK(s) /\ s.v = <<>>)'
  BY <1>1, <1>4 DEF NarrowOK, Narrow0, Testing
<1>8. (entry <= dst - 1 \/ s.loads = [x \in X |-> NoWord])'
  BY <1>1, <1>4
<1> QED
  BY <1>5, <1>6, <1>7, <1>8 DEF Between

\* Where the compiler is.
LEMMA IsHere ==
  ASSUME Limits, IInv
  PROVE  /\ Here /\ session \in Sessions /\ entry \in session.entries
         /\ entry \in Nat /\ dst \in Nat /\ dst # 0
<1>1. LimitsOf(session)
  BY DEF Limits, IInv
<1> QED
  BY <1>1 DEF Here, IInv, LimitsOf

LEMMA EntersGood ==
  ASSUME Limits, IInv
  PROVE  Begin(Entered(s))
<1>1. Here /\ entry \in session.entries
  BY IsHere
<1> QED
  BY <1>1, EnteredGood DEF IInv

LEMMA CompiledStep ==
  ASSUME Limits, IInv, NEW t, Ends(t), Compiled(t)
  PROVE  IInv'
<1> DEFINE c == IF slot THEN free_all_registers(t) ELSE t
           u == Tidied(c, Running)
           run == Running
<1>1. /\ Here /\ session \in Sessions /\ entry \in session.entries /\ entry \in Nat /\ dst \in Nat /\ dst # 0
  BY IsHere
<1>2. /\ session' = session /\ entry' = entry /\ s' = u /\ slot' = FALSE
      /\ dst' = IF slot THEN dst ELSE dst + 1
  BY DEF Compiled
<1>3. Ends(c) /\ (slot => \A x \in X : ~Live(c, x))
  <2>1. CASE slot
    <3> DEFINE a == free_all_registers(t)
    <3>1. Cleared(t, a, X)
      BY <1>1, FreeAllGood DEF Ends
    <3> HIDE DEF a
    <3>2. Good(a, {}) /\ a.narrow = t.narrow /\ \A x \in X : ~Live(a, x)
      BY <3>1 DEF Cleared
    <3>3. c = a
      BY <2>1 DEF a
    <3> HIDE DEF c
    <3> QED
      BY <3>2, <3>3 DEF Ends, NarrowOK
  <2>2. CASE ~slot
    BY <2>2
  <2> QED
    BY <2>1, <2>2
<1> HIDE DEF c
<1>4. Between(u, dst, run) /\ u.last_access = c.last_access
  BY <1>1, <1>3, TidiedGood
<1>5. run <=> IF slot THEN dst > entry ELSE dst >= entry
  BY DEF Running
<1> HIDE DEF u, run
<1> DEFINE d == dst' - 1
<1>6. Between(u, d, run) /\ (run <=> entry <= d)
  <2>1. CASE slot
    <3>1. d = dst - 1
      BY <1>2, <2>1
    <3>2. \A x \in X : u.last_access[x] = 0
      BY <1>3, <1>4, <2>1 DEF Live
    <3> HIDE DEF d
    <3>3. Core(u, d, run)
      BY <1>1, <1>4, <3>1, <3>2 DEF Between, Core
    <3> QED
      BY <1>1, <1>4, <1>5, <2>1, <3>1, <3>3 DEF Between
  <2>2. CASE ~slot
    <3>1. d = dst
      BY <1>1, <1>2, <2>2
    <3> HIDE DEF d
    <3> QED
      BY <1>1, <1>4, <1>5, <2>2, <3>1
  <2> QED
    BY <2>1, <2>2
<1>7. dst' - 1 = d
  OBVIOUS
<1> HIDE DEF d
<1>8. Between(s, dst - 1, entry <= dst - 1)'
  BY <1>2, <1>6, <1>7, PrimedBetween
<1>9. dst' \in Nat /\ dst' # 1 /\ dst' # 0
  BY <1>1, <1>2 DEF IInv
<1> QED
  BY <1>1, <1>2, <1>8, <1>9 DEF IInv

LEMMA BranchStep ==
  ASSUME Limits, IInv, NEW t, Ends(t), Branch(t)
  PROVE  IInv'
<1> DEFINE u == Tidied(t, Running)
           run == Running
<1>1. /\ Here /\ session \in Sessions /\ entry \in session.entries /\ entry \in Nat /\ dst \in Nat /\ dst # 0
  BY IsHere
<1>2. /\ session' = session /\ entry' = entry /\ s' = u /\ slot' = TRUE /\ dst' = dst + 1 /\ ~slot
  BY DEF Branch
<1>3. Between(u, dst, run) /\ u.last_access = t.last_access
  BY <1>1, <1>2, TidiedGood
<1>4. run <=> entry <= dst
  BY <1>1, <1>2 DEF Running
<1>5. dst' - 1 = dst /\ dst' > 1 /\ dst' \in Nat
  BY <1>1, <1>2
<1> HIDE DEF u, run
<1>6. Between(s, dst - 1, entry <= dst - 1)'
  <2> DEFINE d == dst
  <2>1. Between(u, d, run) /\ (run <=> entry <= d) /\ dst' - 1 = d
    BY <1>3, <1>4, <1>5
  <2> HIDE DEF d
  <2> QED
    BY <1>2, <2>1, PrimedBetween
<1> QED
  BY <1>1, <1>2, <1>5, <1>6 DEF IInv

LEMMA Code2Ends ==
  ASSUME Here, NEW t, Begin(t), NEW rs \in Regs, NEW rd \in Regs,
         NEW form \in session.forms \cap {"addiu", "sll", "ori", "daddiu", "slti", "dsll",
                                          "dsll32", "dsrl32", "dsra32", "lw", "ld"}
  PROVE  Ends(Emitted(t, Code2(form, rs, rd)))
<1> DEFINE F == session.forms
<1>1. ASSUME form = "addiu" PROVE Ends(Emitted(t, Code2(form, rs, rd)))
  <2>1. Code2(form, rs, rd) = genaddiu(rs, rd) /\ F \cap {"addiu", "sll"} # {}
    BY <1>1 DEF Code2
  <2> QED
    BY <2>1, AddiuGood
<1>2. ASSUME form = "sll" PROVE Ends(Emitted(t, Code2(form, rs, rd)))
  <2>1. Code2(form, rs, rd) = genaddiu(rs, rd) /\ F \cap {"addiu", "sll"} # {}
    BY <1>2 DEF Code2, gensll
  <2> QED
    BY <2>1, AddiuGood
<1>3. ASSUME form = "ori" PROVE Ends(Emitted(t, Code2(form, rs, rd)))
  <2>1. Code2(form, rs, rd) = genori(rs, rd) /\ F \cap {"ori", "daddiu", "dsll"} # {}
    BY <1>3 DEF Code2
  <2> QED
    BY <2>1, OriGood
<1>4. ASSUME form = "daddiu" PROVE Ends(Emitted(t, Code2(form, rs, rd)))
  <2>1. Code2(form, rs, rd) = genori(rs, rd) /\ F \cap {"ori", "daddiu", "dsll"} # {}
    BY <1>4 DEF Code2, gendaddiu
  <2> QED
    BY <2>1, OriGood
<1>5. ASSUME form = "slti" PROVE Ends(Emitted(t, Code2(form, rs, rd)))
  <2>1. Code2(form, rs, rd) = genslti(rs, rd) /\ F \cap {"slti"} # {}
    BY <1>5 DEF Code2
  <2> QED
    BY <2>1, SltiGood
<1>6. ASSUME form = "dsll" PROVE Ends(Emitted(t, Code2(form, rs, rd)))
  <2>1. Code2(form, rs, rd) = genori(rs, rd) /\ F \cap {"ori", "daddiu", "dsll"} # {}
    BY <1>6 DEF Code2, gendsll
  <2> QED
    BY <2>1, OriGood
<1>7. ASSUME form = "dsll32" PROVE Ends(Emitted(t, Code2(form, rs, rd)))
  <2>1. Code2(form, rs, rd) = gendsll32(rs, rd) /\ F \cap {"dsll32"} # {}
    BY <1>7 DEF Code2
  <2> QED
    BY <2>1, Dsll32Good
<1>8. ASSUME form = "dsrl32" PROVE Ends(Emitted(t, Code2(form, rs, rd)))
  <2>1. Code2(form, rs, rd) = gendsrl32(rs, rd) /\ F \cap {"dsrl32"} # {}
    BY <1>8 DEF Code2
  <2> QED
    BY <2>1, Dsrl32Good
<1>9. ASSUME form = "dsra32" PROVE Ends(Emitted(t, Code2(form, rs, rd)))
  <2>1. Code2(form, rs, rd) = gendsra32(rs, rd) /\ F \cap {"dsra32"} # {}
    BY <1>9 DEF Code2
  <2> QED
    BY <2>1, Dsra32Good
<1>10. ASSUME form = "lw" PROVE Ends(Emitted(t, Code2(form, rs, rd)))
  <2>1. Code2(form, rs, rd) = genlw(rs, rd) /\ "lw" \in F
    BY <1>10 DEF Code2
  <2> QED
    BY <2>1, LwGood
<1>11. ASSUME form = "ld" PROVE Ends(Emitted(t, Code2(form, rs, rd)))
  <2>1. Code2(form, rs, rd) = genld(rs, rd) /\ "ld" \in F
    BY <1>11 DEF Code2
  <2> QED
    BY <2>1, LdGood
<1> QED
  BY <1>1, <1>2, <1>3, <1>4, <1>5, <1>6, <1>7, <1>8, <1>9, <1>10, <1>11

LEMMA Code3Ends ==
  ASSUME Here, NEW t, Begin(t), NEW rs \in Regs, NEW rt \in Regs, NEW rd \in Regs,
         NEW form \in session.forms \cap {"addu", "sllv", "daddu", "and", "slt", "dsllv"},
         form = "dsllv" => rd # rs
  PROVE  Ends(Emitted(t, Code3(form, rs, rt, rd)))
<1> DEFINE F == session.forms
<1>1. ASSUME form = "addu" PROVE Ends(Emitted(t, Code3(form, rs, rt, rd)))
  <2>1. Code3(form, rs, rt, rd) = genaddu(rs, rt, rd) /\ "addu" \in F
    BY <1>1 DEF Code3
  <2> QED
    BY <2>1, AdduGood
<1>2. ASSUME form = "sllv" PROVE Ends(Emitted(t, Code3(form, rs, rt, rd)))
  <2>1. Code3(form, rs, rt, rd) = gensllv(rs, rt, rd) /\ "sllv" \in F
    BY <1>2 DEF Code3
  <2> QED
    BY <2>1, SllvGood
<1>3. ASSUME form = "daddu" PROVE Ends(Emitted(t, Code3(form, rs, rt, rd)))
  <2>1. Code3(form, rs, rt, rd) = gendaddu(rs, rt, rd) /\ F \cap {"daddu", "and"} # {}
    BY <1>3 DEF Code3
  <2> QED
    BY <2>1, DadduGood
<1>4. ASSUME form = "and" PROVE Ends(Emitted(t, Code3(form, rs, rt, rd)))
  <2>1. Code3(form, rs, rt, rd) = gendaddu(rs, rt, rd) /\ F \cap {"daddu", "and"} # {}
    BY <1>4 DEF Code3, genand
  <2> QED
    BY <2>1, DadduGood
<1>5. ASSUME form = "slt" PROVE Ends(Emitted(t, Code3(form, rs, rt, rd)))
  <2>1. Code3(form, rs, rt, rd) = genslt(rs, rt, rd) /\ "slt" \in F
    BY <1>5 DEF Code3
  <2> QED
    BY <2>1, SltGood
<1>6. ASSUME form = "dsllv" PROVE Ends(Emitted(t, Code3(form, rs, rt, rd)))
  <2>1. Code3(form, rs, rt, rd) = gendsllv(rs, rt, rd) /\ "dsllv" \in F /\ rd # rs
    BY <1>6 DEF Code3
  <2> QED
    BY <2>1, DsllvGood
<1> QED
  BY <1>1, <1>2, <1>3, <1>4, <1>5, <1>6

LEMMA TestsEnd ==
  ASSUME Here, Begin(Now), NEW rs \in Regs, NEW rt \in Regs, "branch" \in session.forms,
         NEW test \in {"beq", "beql", "bltz", "jr"}
  PROVE  Ends(Emitted(Now, Tests(test, rs, rt)))
<1> DEFINE t == Now
<1>1. ASSUME test = "beq" PROVE Ends(Emitted(t, Tests(test, rs, rt)))
  <2>1. Tests(test, rs, rt) = genbeq_test(t, rs, rt)
    BY <1>1 DEF Tests
  <2> HIDE DEF t
  <2> QED
    BY <2>1, BeqEnds DEF t
<1>2. ASSUME test = "beql" PROVE Ends(Emitted(t, Tests(test, rs, rt)))
  <2>1. Tests(test, rs, rt) = genbeq_test(t, rs, rt) \o <<FreeAll>>
    BY <1>2 DEF Tests
  <2> QED
    BY <2>1, BeqlEnds
<1>3. ASSUME test = "bltz" PROVE Ends(Emitted(t, Tests(test, rs, rt)))
  <2>1. Tests(test, rs, rt) = genbltz_test(t, rs)
    BY <1>3 DEF Tests
  <2>2. Opened(Emitted(t, genbltz_test(t, rs)), 2)
    BY BltzEnds
  <2> QED
    BY <2>1, <2>2 DEF Opened, Ends
<1>4. ASSUME test = "jr" PROVE Ends(Emitted(t, Tests(test, rs, rt)))
  <2>1. Tests(test, rs, rt) = genjr(rs)
    BY <1>4 DEF Tests
  <2> QED
    BY <2>1, JrGood
<1> QED
  BY <1>1, <1>2, <1>3, <1>4

LEMMA StepKeeps ==
  ASSUME Limits, IInv, Next
  PROVE  IInv'
<1> DEFINE t == Entered(s)
<1>1. Here /\ Begin(t) /\ Now = t
  BY IsHere, EntersGood DEF Now
<1>2. /\ Sources \subseteq Regs /\ Targets \subseteq Regs /\ Sources = session.regs
      /\ HI \in Regs /\ LO \in Regs /\ HI \notin session.regs /\ LO \notin session.regs
  BY <1>1 DEF Sources, Targets, Regs, Here, LimitsOf
<1> HIDE DEF t
<1>3. ASSUME NEW code, Emit(code), Ends(Emitted(t, code)) PROVE IInv'
  <2> DEFINE u == Emitted(t, code)
  <2>1. Compiled(u) /\ Ends(u)
    BY <1>3 DEF Emit, t
  <2> HIDE DEF u
  <2> QED
    BY <2>1, CompiledStep
<1>4. ASSUME Alu2 PROVE IInv'
  <2>1. PICK form \in session.forms \cap {"addiu", "sll", "ori", "daddiu", "slti", "dsll",
                                          "dsll32", "dsrl32", "dsra32", "lw", "ld"},
             rs \in Sources, rd \in Targets : Emit(Code2(form, rs, rd))
    BY <1>4 DEF Alu2
  <2>2. Ends(Emitted(t, Code2(form, rs, rd)))
    BY <1>1, <1>2, Code2Ends
  <2> QED
    BY <1>3, <2>1, <2>2
<1>5. ASSUME Alu3 PROVE IInv'
  <2>1. PICK form \in session.forms \cap {"addu", "sllv", "daddu", "and", "slt", "dsllv"},
             rs \in Sources, rt \in Sources, rd \in Targets :
               (form = "dsllv" => rd # rs) /\ Emit(Code3(form, rs, rt, rd))
    BY <1>5 DEF Alu3
  <2>2. Ends(Emitted(t, Code3(form, rs, rt, rd)))
    BY <1>1, <1>2, <2>1, Code3Ends
  <2> QED
    BY <1>3, <2>1, <2>2
<1>6. ASSUME Stores PROVE IInv'
  <2>1. PICK form \in session.forms \cap {"mult", "sw"}, rs \in Sources, rt \in Sources :
          Emit(IF form = "mult" THEN genmult(rs, rt) ELSE gensw(rs, rt))
    BY <1>6 DEF Stores
  <2>2. CASE form = "mult"
    <3>1. Ends(Emitted(t, genmult(rs, rt)))
      BY <1>1, <1>2, <2>2, MultGood
    <3> QED
      BY <1>3, <2>1, <2>2, <3>1
  <2>3. CASE form # "mult"
    <3>1. Ends(Emitted(t, gensw(rs, rt)))
      BY <1>1, <1>2, SwGood
    <3> QED
      BY <1>3, <2>1, <2>3, <3>1
  <2> QED
    BY <2>2, <2>3
<1>7. ASSUME Lui PROVE IInv'
  <2>1. PICK rt \in Targets : Emit(genlui(rt))
    BY <1>7 DEF Lui
  <2>2. Ends(Emitted(t, genlui(rt)))
    BY <1>1, <1>2, <1>7, LuiGood DEF Lui
  <2> QED
    BY <1>3, <2>1, <2>2
<1>8. ASSUME Move PROVE IInv'
  <2>1. PICK r \in {HI, LO}, g \in Sources, to \in BOOLEAN :
          Emit(IF to THEN genmfhi(g, r) ELSE genmfhi(r, g))
    BY <1>8 DEF Move
  <2>2. "move" \in session.forms /\ r \in Regs /\ g \in Regs /\ r # g
    BY <1>2, <1>8 DEF Move
  <2>3. Ends(Emitted(t, genmfhi(g, r))) /\ Ends(Emitted(t, genmfhi(r, g)))
    BY <1>1, <2>2, MoveGood
  <2> QED
    BY <1>3, <2>1, <2>3
<1>9. ASSUME Interpreted PROVE IInv'
  <2>1. PICK rd \in {{}} \cup {{r} : r \in Targets}, n \in BOOLEAN : Emit(gencallinterp(rd, n))
    BY <1>9 DEF Interpreted
  <2>2. "call" \in session.forms /\ rd \in SUBSET Regs
    BY <1>2, <1>9 DEF Interpreted
  <2>3. Ends(Emitted(t, gencallinterp(rd, n)))
    BY <1>1, <2>2, InterpretedGood
  <2> QED
    BY <1>3, <2>1, <2>3
<1>10. ASSUME NEW u, Branch(u), Ends(u) PROVE IInv'
  BY <1>10, BranchStep
<1>11. ASSUME Branches PROVE IInv'
  <2>1. PICK rs \in Sources, rt \in Sources :
          \/ \E test \in {"beq", "beql", "bltz", "jr"} : Branch(Emitted(Now, Tests(test, rs, rt)))
          \/ rt # Zero /\ Branch(Linked(Emitted(Now, genbltz_test(Now, rs)), rt))
    BY <1>11 DEF Branches
  <2>2. rs \in Regs /\ rt \in Regs /\ Begin(Now)
    BY <1>1, <1>2
  <2>3. ASSUME NEW test \in {"beq", "beql", "bltz", "jr"}, Branch(Emitted(Now, Tests(test, rs, rt)))
        PROVE  IInv'
    <3> DEFINE u == Emitted(Now, Tests(test, rs, rt))
    <3>1. "branch" \in session.forms
      BY <2>3 DEF Branch
    <3>2. Ends(u)
      BY <1>1, <2>2, <3>1, TestsEnd
    <3> HIDE DEF u
    <3>3. Branch(u)
      BY <2>3 DEF u
    <3> QED
      BY <1>10, <3>2, <3>3
  <2>4. ASSUME Branch(Linked(Emitted(Now, genbltz_test(Now, rs)), rt)) PROVE IInv'
    <3> DEFINE a == Emitted(Now, genbltz_test(Now, rs))
               u == Linked(a, rt)
    <3>1. "branch" \in session.forms
      BY <2>4 DEF Branch
    <3>2. Opened(a, 2)
      BY <1>1, <2>2, <3>1, BltzEnds
    <3> HIDE DEF a
    <3>3. Ends(u)
      BY <1>1, <2>2, <3>1, <3>2, LinkedEnds
    <3> HIDE DEF u
    <3>4. Branch(u)
      BY <2>4 DEF u, a
    <3> QED
      BY <1>10, <3>3, <3>4
  <2> QED
    BY <2>1, <2>3, <2>4
<1> QED
  BY <1>4, <1>5, <1>6, <1>7, <1>8, <1>9, <1>11 DEF Next

LEMMA InitKeeps ==
  ASSUME Limits, Init
  PROVE  IInv
<1>1. session \in Sessions /\ entry \in session.entries /\ dst = 1 /\ slot = FALSE
  BY DEF Init
<1>2. LimitsOf(session)
  BY <1>1 DEF Limits
<1>3. Here /\ entry \in Nat
  <2>1. entry \in Nat
    BY <1>1, <1>2 DEF LimitsOf
  <2>2. dst \in Nat \ {0}
    BY <1>1
  <2>3. slot \in BOOLEAN
    BY <1>1, Zenon
  <2> QED
    BY <1>2, <2>1, <2>2, <2>3 DEF Here
<1>4. /\ s.last_access = [x \in X |-> 0] /\ s.reg_content = [x \in X |-> NoWord]
      /\ s.free_since = [x \in X |-> 1] /\ s.dirty = [x \in X |-> FALSE]
      /\ s.r64 = [x \in X |-> None] /\ s.needed = [x \in X |-> NoWord]
      /\ s.hold = [x \in X |-> Loaded] /\ s.loads = [x \in X |-> NoWord]
      /\ s.mem = [w \in Word |-> TRUE] /\ s.narrow = session.narrow
      /\ s.wrong = {} /\ s.x = 0 /\ s.v = <<>>
      /\ s = [last_access |-> s.last_access, reg_content |-> s.reg_content,
              free_since |-> s.free_since, dirty |-> s.dirty, r64 |-> s.r64, needed |-> s.needed,
              hold |-> s.hold, loads |-> s.loads, mem |-> s.mem, narrow |-> s.narrow,
              wrong |-> s.wrong, x |-> s.x, v |-> s.v]
  BY ZenonT(40) DEF Init, Tidied, Started, Forgotten, Live
<1>5. s \in States
  <2>1. s.narrow \in SUBSET (Regs \cup session.narrow) /\ s.wrong \in SUBSET Word
    BY <1>4
  <2>2. s.v \in Seq(X \X (X \cup {None})) /\ s.x \in Int
    BY <1>4
  <2>3. s.hold \in [X -> Held] /\ s.mem \in [Word -> BOOLEAN]
    BY <1>4 DEF Held
  <2>4. /\ s.last_access \in [X -> Nat] /\ s.free_since \in [X -> Nat] /\ s.dirty \in [X -> BOOLEAN]
        /\ s.reg_content \in [X -> Word \cup {NoWord}] /\ s.r64 \in [X -> X \cup {None}]
        /\ s.needed \in [X -> Word \cup {NoWord}] /\ s.loads \in [X -> Word \cup {NoWord}]
    BY <1>4
  <2> QED
    BY <1>4, <2>1, <2>2, <2>3, <2>4 DEF States
<1>6. \A x \in X : ~Live(s, x)
  BY <1>4 DEF Live
<1>7. Core(s, 0, entry <= 0)
  <2>1. PairsOK(s) /\ Distinct(s)
    BY <1>6 DEF PairsOK, Distinct
  <2>2. MemOK(s) /\ LoadsOK(s)
    BY <1>4 DEF MemOK, LoadsOK
  <2> QED
    BY <1>4, <1>5, <2>1, <2>2 DEF Core
<1>8. \A x \in X : Fit(s, x, entry <= 0)
  BY <1>6 DEF Fit
<1>9. NarrowOK(s)
  BY <1>2, <1>4 DEF NarrowOK, LimitsOf, RegsOf, Regs
<1>10. dst - 1 = 0
  BY <1>1
<1>11. Between(s, 0, entry <= 0)
  BY <1>4, <1>7, <1>8, <1>9 DEF Between
<1>12. Between(s, dst - 1, entry <= dst - 1)
  BY <1>10, <1>11
<1>13. slot => dst > 1
  BY <1>1
<1> QED
  BY <1>1, <1>3, <1>6, <1>12, <1>13 DEF IInv, Here

\* Nothing happens.
LEMMA StutterKeeps ==
  ASSUME Limits, IInv, UNCHANGED vars
  PROVE  IInv'
<1> DEFINE d == dst - 1
           run == entry <= dst - 1
           u == s
<1>1. session' = session /\ entry' = entry /\ dst' = dst /\ slot' = slot /\ s' = u
  BY DEF vars
<1>2. Between(u, d, run) /\ dst' - 1 = d /\ (run <=> entry <= d)
  BY <1>1 DEF IInv
<1>3. X' = X
  BY <1>1 DEF X
<1> HIDE DEF d, run
<1>4. Between(s, dst - 1, entry <= dst - 1)'
  <2> HIDE DEF u
  <2> QED
    BY <1>1, <1>2, PrimedBetween
<1>5. (dst = 1 => \A x \in X : ~Live(s, x))'
  BY <1>1, <1>3 DEF IInv, Live
<1> QED
  BY <1>1, <1>4, <1>5 DEF IInv

LEMMA Inductive ==
  ASSUME Limits
  PROVE  Spec => []IInv
<1>1. Init => IInv
  BY InitKeeps
<1>2. IInv /\ [Next]_vars => IInv'
  BY StepKeeps, StutterKeeps
<1> QED
  BY <1>1, <1>2, PTL DEF Spec

\* What the invariant says of each property.
LEMMA Current ==
  ASSUME IInv
  PROVE  OperandsCurrent /\ MemoryCurrent /\ EntryLoads
<1> DEFINE d == dst - 1
           run == entry <= d
<1>1. Core(s, d, run) /\ (run \/ s.loads = [x \in X |-> NoWord])
  BY DEF IInv, Between
<1> HIDE DEF d, run
<1>2. OperandsCurrent
  BY <1>1 DEF Core, OperandsCurrent
<1>3. MemoryCurrent
  <2> SUFFICES ASSUME NEW w \in Word, ~s.mem[w]
               PROVE  \E x \in X : Live(s, x) /\ s.dirty[x]
                        /\ s.reg_content[x] \in {w} \cup (IF Paired(s, x) THEN {} ELSE {Lo(w[1])})
    BY DEF MemoryCurrent
  <2>1. PICK x \in X : Backs(s, x, w)
    BY <1>1 DEF Core, MemOK
  <2> QED
    BY <2>1 DEF Backs
<1>4. EntryLoads
  <2>1. CASE run
    BY <1>1, <2>1 DEF Core, LoadsOK, EntryLoads
  <2>2. CASE ~run
    BY <1>1, <2>2 DEF EntryLoads
  <2> QED
    BY <2>1, <2>2
<1> QED
  BY <1>2, <1>3, <1>4

LEMMA Typed ==
  ASSUME Limits, IInv
  PROVE  TypeOK
<1> DEFINE d == dst - 1
           run == entry <= d
<1>1. Core(s, d, run) /\ \A x \in X : Fit(s, x, run)
  BY DEF IInv, Between
<1> HIDE DEF d, run
<1>2. ASSUME NEW x \in X, Live(s, x)
      PROVE  /\ s.reg_content[x] \in Word
             /\ Paired(s, x) => Live(s, s.r64[x]) /\ s.r64[s.r64[x]] = x
  BY <1>1, <1>2 DEF Fit, Core, PairsOK, PairOK
<1>3. ASSUME NEW w \in Word PROVE Cardinality(Holders(s, w)) <= 1
  <2>1. \A x, y \in Holders(s, w) : x = y
    BY <1>1 DEF Holders, Core, Distinct
  <2>2. CASE Holders(s, w) = {}
    BY <2>2, FS_EmptySet
  <2>3. CASE Holders(s, w) # {}
    <3>1. PICK x : x \in Holders(s, w)
      BY <2>3
    <3>2. Holders(s, w) = {x}
      BY <2>1, <3>1
    <3> QED
      BY <3>2, FS_Singleton
  <2> QED
    BY <2>2, <2>3
<1> QED
  BY <1>2, <1>3 DEF TypeOK

-----------------------------------------------------------------------------
(* The theorems.  Limits is what is asked of the sessions (README).        *)

\* A register that is in use holds a word, with its pair if it has one, and no
\* word is in two registers (allocate_register() and its kin, free_register()).
THEOREM Types ==
  ASSUME Limits
  PROVE  Spec => []TypeOK
<1>1. IInv => TypeOK
  BY Typed
<1> QED
  BY <1>1, Inductive, PTL

\* Wherever a block is entered, emitted code takes from a register or from
\* memory the current value of the word that it stands for.
THEOREM Operands ==
  ASSUME Limits
  PROVE  Spec => []OperandsCurrent
<1>1. IInv => OperandsCurrent
  BY Current
<1> QED
  BY <1>1, Inductive, PTL

\* A value that memory does not have is in a dirty register, which
\* free_register() writes back: none is lost.
THEOREM NothingLost ==
  ASSUME Limits
  PROVE  Spec => []MemoryCurrent
<1>1. IInv => MemoryCurrent
  BY Current
<1> QED
  BY <1>1, Inductive, PTL

\* needed_registers[] of the entry, from which build_wrapper() makes the loads
\* for a jump into the block, names what the code there uses.
THEOREM Loads ==
  ASSUME Limits
  PROVE  Spec => []EntryLoads
<1>1. IInv => EntryLoads
  BY Current
<1> QED
  BY <1>1, Inductive, PTL
=============================================================================
