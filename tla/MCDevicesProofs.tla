-------------------------- MODULE MCDevicesProofs --------------------------
(***************************************************************************)
(* The sessions that Devices.cfg plays are within the limits of             *)
(* StorageProofs, CodeCacheProofs, RegCacheProofs and InterpreterProofs:    *)
(* what those prove of every machine holds of this one, in the words of     *)
(* MCDevices' properties.                                                   *)
(***************************************************************************)
EXTENDS MCDevices, TLAPS

allVars == <<part, saveVars, codeVars, regsVars, flowVars>>

-----------------------------------------------------------------------------
(* Code: the limits of the sessions.                                       *)

\* The fields of a session.
LEMMA Fields ==
  \A j, s1, p, e : LET x == T(j, s1, p, e) IN
    x.jumps = j /\ x.stores = s1 /\ x.pages = p /\ x.entries = e
BY DEF T

\* Half of an entry is written.
Half == Ent({1,2},{1,2},BOOLEAN)

\* What each session maps, jumps to and stores to.
LEMMA Plays ==
  ASSUME NEW x \in CodePlays
  PROVE  /\ x.pages \subseteq {1,2}
         /\ \A maps \in x.entries : maps \in {{}, Both(TRUE), Both(FALSE)} \cup Half
         /\ "k1" \notin x.stores
         /\ "k1" \in x.jumps => x.stores \cap {"k0", "m"} = {}
         /\ "m" \in x.jumps => /\ "k1" \notin x.jumps
                               /\ x.entries \subseteq {{}} \cup Ent({1},{1},{TRUE})
                               /\ "k0" \in x.jumps => x.stores \cap {"k0", "dma"} = {}
<1> DEFINE A == Ent({1},{1},{TRUE})
           B1 == Ent({1},{1},BOOLEAN)
           C == Ent({1},{1,2},{TRUE})
<1>1. A \subseteq Half /\ B1 \subseteq Half /\ C \subseteq Half
  BY DEF Ent, Half
<1> DEFINE Two(d) == Both(d)
           H == Ent({1,2},{1,2},BOOLEAN)
<1>2. H = Half
  BY DEF Half
<1>3. \/ x = T({"k0"}, {"k0","dma","m","all"}, {1}, Ent({1},{1,2},{TRUE}))
      \/ x = T({"k0","k1"}, {"dma","all"}, {1}, {})
      \/ x = T({"m"}, {"m","k0","dma"}, {1}, {{}} \cup Ent({1},{1},{TRUE}))
      \/ x = T({"k0","m"}, {"m"}, {1}, Ent({1},{1},{TRUE}))
      \/ x = T({"m"}, {"dma","save"}, {1}, Ent({1},{1},{TRUE}))
      \/ x = T({"k0"}, {"k0","start"}, {1}, Ent({1},{1},BOOLEAN))
      \/ x = T({}, {}, {}, {{}, Both(TRUE), Both(FALSE)} \cup Ent({1,2},{1,2},BOOLEAN))
      \/ x = T({}, {"save","start"}, {}, {{}, Both(FALSE)} \cup Ent({1},{1,2},{TRUE}))
  BY DEF CodePlays
<1>4. \/ x = T({"k0"}, {"k0","dma","m","all"}, {1}, C)
      \/ x = T({"k0","k1"}, {"dma","all"}, {1}, {})
      \/ x = T({"m"}, {"m","k0","dma"}, {1}, {{}} \cup A)
      \/ x = T({"k0","m"}, {"m"}, {1}, A)
      \/ x = T({"m"}, {"dma","save"}, {1}, A)
      \/ x = T({"k0"}, {"k0","start"}, {1}, B1)
      \/ x = T({}, {}, {}, {{}, Two(TRUE), Two(FALSE)} \cup H)
      \/ x = T({}, {"save","start"}, {}, {{}, Two(FALSE)} \cup C)
  BY <1>3
<1>5. A = Ent({1},{1},{TRUE}) /\ Two(TRUE) = Both(TRUE) /\ Two(FALSE) = Both(FALSE)
  OBVIOUS
<1> HIDE DEF A, B1, C, Two, H
<1>6. /\ x.pages \subseteq {1,2}
      /\ x.entries \subseteq {{}, Two(TRUE), Two(FALSE)} \cup Half
      /\ "k1" \notin x.stores
      /\ "k1" \in x.jumps => x.stores \cap {"k0", "m"} = {}
      /\ "m" \in x.jumps => /\ "k1" \notin x.jumps
                            /\ x.entries \subseteq {{}} \cup A
                            /\ "k0" \in x.jumps => x.stores \cap {"k0", "dma"} = {}
  <2>1. CASE x = T({"k0"}, {"k0","dma","m","all"}, {1}, C)
    BY <1>1, <1>2, <2>1 DEF T
  <2>2. CASE x = T({"k0","k1"}, {"dma","all"}, {1}, {})
    BY <1>1, <1>2, <2>2 DEF T
  <2>3. CASE x = T({"m"}, {"m","k0","dma"}, {1}, {{}} \cup A)
    BY <1>1, <1>2, <2>3 DEF T
  <2>4. CASE x = T({"k0","m"}, {"m"}, {1}, A)
    BY <1>1, <1>2, <2>4 DEF T
  <2>5. CASE x = T({"m"}, {"dma","save"}, {1}, A)
    BY <1>1, <1>2, <2>5 DEF T
  <2>6. CASE x = T({"k0"}, {"k0","start"}, {1}, B1)
    BY <1>1, <1>2, <2>6 DEF T
  <2>7. CASE x = T({}, {}, {}, {{}, Two(TRUE), Two(FALSE)} \cup H)
    BY <1>1, <1>2, <2>7 DEF T
  <2>8. CASE x = T({}, {"save","start"}, {}, {{}, Two(FALSE)} \cup C)
    BY <1>1, <1>2, <2>8 DEF T
  <2> QED
    BY <1>4, <2>1, <2>2, <2>3, <2>4, <2>5, <2>6, <2>7, <2>8
<1> QED
  BY <1>6 DEF Two, A

\* A program maps one half of an entry, or both, and never one page twice.
LEMMA Mappings ==
  ASSUME NEW maps \in {{}, Both(TRUE), Both(FALSE)} \cup Half
  PROVE  /\ maps \subseteq [u : {1,2}, p : {1,2}, d : BOOLEAN]
         /\ \A a, b \in maps : a.u = b.u => a = b
<1>1. CASE maps \in Half
  BY <1>1 DEF Half, Ent
<1>2. CASE maps = {}
  BY <1>2
<1>3. CASE maps = Both(TRUE)
  BY <1>3 DEF Both
<1>4. CASE maps = Both(FALSE)
  BY <1>4 DEF Both
<1> QED
  BY <1>1, <1>2, <1>3, <1>4

\* Every session keeps the limits.
LEMMA CodeLimits == Code!Limits /\ Code!SessionsAssumption
<1>1. Code!SessionsAssumption
  <2> SUFFICES ASSUME NEW x \in CodePlays
               PROVE  /\ x.pages \subseteq {1,2}
                      /\ \A maps \in x.entries :
                           /\ maps \subseteq [u : {1,2}, p : {1,2}, d : BOOLEAN]
                           /\ \A a, b \in maps : a.u = b.u => a = b
    BY DEF Code!SessionsAssumption
  <2> QED
    BY Plays, Mappings
<1>2. Code!PagesAssumption /\ Code!WordsAssumption /\ Code!CodesAssumption
  BY DEF Code!PagesAssumption, Code!WordsAssumption, Code!CodesAssumption, Code!NoPage
<1>3. ASSUME NEW x \in CodePlays
      PROVE  Code!Coherent(x)
  <2>1. "m" \in x.jumps => Code!Private(x)
    <3> SUFFICES ASSUME "m" \in x.jumps, NEW a \in UNION x.entries, NEW b \in UNION x.entries
                 PROVE  a.u = b.u <=> a.p = b.p
      BY DEF Code!Private
    <3>1. x.entries \subseteq {{}} \cup Ent({1},{1},{TRUE})
      BY Plays
    <3>2. ASSUME NEW e \in Ent({1},{1},{TRUE}), NEW m \in e
          PROVE  m.u = 1 /\ m.p = 1
      BY <3>2 DEF Ent
    <3>3. \A m \in UNION x.entries : m.u = 1 /\ m.p = 1
      BY <3>1, <3>2
    <3> QED
      BY <3>3
  <2> QED
    BY <2>1, Plays DEF Code!Coherent
<1> QED
  BY <1>1, <1>2, <1>3 DEF Code!Limits

\* A step of the machine is one of the cache, or leaves it alone.
LEMMA CodeSteps ==
  ASSUME [Next]_allVars
  PROVE  [Code!Next]_(Code!vars)
<1>1. Code!Next \/ UNCHANGED codeVars
  BY DEF Next, allVars
<1> QED
  BY <1>1 DEF codeVars, Code!vars

\* The cache's invariants hold of it in the machine.
LEMMA CodeInductive == Spec => [](Code!IInv /\ Code!FollowOK)
<1>1. Init => Code!IInv /\ Code!FollowOK
  <2> SUFFICES ASSUME Init
               PROVE  Code!IInv /\ Code!FollowOK
    OBVIOUS
  <2>1. Code!Init
    BY DEF Init
  <2> QED
    BY <2>1, CodeLimits, Code!Start, Code!FollowStart
<1>2. (Code!IInv /\ Code!FollowOK) /\ [Next]_allVars => (Code!IInv /\ Code!FollowOK)'
  <2> SUFFICES ASSUME Code!IInv, Code!FollowOK, [Next]_allVars
               PROVE  (Code!IInv /\ Code!FollowOK)'
    OBVIOUS
  <2>1. [Code!Next]_(Code!vars)
    BY CodeSteps
  <2> QED
    BY <2>1, CodeLimits, Code!Step, Code!FollowStep
<1> QED
  BY <1>1, <1>2, PTL DEF Spec, allVars

\* What a jump runs is the instruction in RDRAM.
THEOREM JumpsAreFresh == Spec => []JumpsFresh
<1>1. Code!IInv => JumpsFresh
  BY DEF Code!IInv, JumpsFresh
<1> QED
  BY <1>1, CodeInductive, PTL

\* A block that keeps a check sum was decoded from what the sum was taken of.
THEOREM SumsAreTrue == Spec => []SumsTrue
<1>1. Code!IInv => SumsTrue
  BY DEF Code!IInv, SumsTrue
<1> QED
  BY <1>1, CodeInductive, PTL

\* An address is translated only as an entry of the TLB says, but for what a
\* savestate leaves out and for stores after a program is started again.
THEOREM LutsFollowTlb == Spec => []LutFollowsTlb
<1>1. Code!FollowOK => LutFollowsTlb
  BY DEF Code!FollowOK, Code!Agree, Code!Covered, LutFollowsTlb, Code!LutFollowsTlb
<1> QED
  BY <1>1, CodeInductive, PTL

-----------------------------------------------------------------------------
(* Save files.                                                             *)

\* The sizes, and the files of the sessions.
LEMMA SavesConstants == Saves!Constants
<1>1. Saves!ValuesAssumption /\ Saves!GamesAssumption
  BY DEF Saves!ValuesAssumption, Saves!GamesAssumption, Saves!NoGame, Saves!Erased
<1>2. Saves!SizeAssumption
  BY DEF Saves!SizeAssumption
<1>3. Saves!SessionsAssumption
  <2> SUFFICES ASSUME NEW x \in SavePlays
               PROVE  x.games \subseteq {"A","B"} /\ x.places \subseteq {1,2} /\ x.fla \in Seq({0,1})
    BY DEF Saves!SessionsAssumption, Saves!Places
  <2>1. <<>> \in Seq({0,1}) /\ <<0,0>> \in Seq({0,1})
    OBVIOUS
  <2>2. x.games \subseteq {"A","B"} /\ x.places \subseteq {1,2} /\ (x.fla = <<>> \/ x.fla = <<0,0>>)
    BY DEF SavePlays, S
  <2> QED
    BY <2>1, <2>2
<1> QED
  BY <1>1, <1>2, <1>3 DEF Saves!Constants

\* A step of the machine is one of the save files, or leaves them alone.
LEMMA SavesSteps ==
  ASSUME [Next]_allVars
  PROVE  [Saves!Next]_(Saves!vars)
<1>1. Saves!Next \/ UNCHANGED saveVars
  BY DEF Next, allVars
<1> QED
  BY <1>1 DEF saveVars, Saves!vars

\* The machine starts as they do.
LEMMA SavesStart ==
  ASSUME Init
  PROVE  Saves!IInv /\ Saves!Memory!Init
<1>1. Saves!Init
  BY DEF Init
<1> QED
  BY <1>1, SavesConstants, Saves!Start

\* Their invariant holds of them in the machine.
LEMMA SavesInductive == Spec => []Saves!IInv
<1>1. Init => Saves!IInv
  BY SavesStart
<1>2. Saves!IInv /\ [Next]_allVars => Saves!IInv'
  <2> SUFFICES ASSUME Saves!IInv, [Next]_allVars
               PROVE  Saves!IInv'
    OBVIOUS
  <2>1. [Saves!Next]_(Saves!vars)
    BY SavesSteps
  <2> QED
    BY <2>1, SavesConstants, Saves!Step
<1> QED
  BY <1>1, <1>2, PTL DEF Spec, allVars

\* A game reads back from save memory what it wrote (Storage refines SaveMemory).
THEOREM SavesKept == Spec => KeepsSaves
<1>1. Init => Saves!Memory!Init
  BY SavesStart
<1>2. Saves!IInv /\ [Next]_allVars =>
        [part = "saves" => UNCHANGED Saves!Memory!vars \/ Saves!Memory!Next]_saveVars
  <2> SUFFICES ASSUME Saves!IInv, [Next]_allVars
               PROVE  UNCHANGED Saves!Memory!vars \/ Saves!Memory!Next
    OBVIOUS
  <2>1. [Saves!Next]_(Saves!vars)
    BY SavesSteps
  <2>2. Saves!MemoryStep
    BY <2>1, SavesConstants, Saves!Step
  <2> QED
    BY <2>2 DEF Saves!MemoryStep
<1> QED
  BY <1>1, <1>2, SavesInductive, PTL DEF Spec, allVars, KeepsSaves

\* Flash RAM filled from the game's own file reads back what was programmed.
THEOREM FlashRead == Spec => FlashReadsBack
<1>1. Saves!IInv /\ [Next]_allVars =>
        [\A p \in Saves!Places, i \in 1..[eep |-> 2, sram |-> 1, flash |-> 2, mpk |-> 4]["flash"] :
           rom # Saves!NoGame /\ filled = rom /\ saveSession.fla = <<>> /\ Saves!FlashDmaOut /\ Saves!FlashRead(p, i)
             => mem'[p] = stream["sra"][i]]_(Saves!vars)
  <2> SUFFICES ASSUME Saves!IInv,
                      NEW p \in Saves!Places, NEW i \in 1..[eep |-> 2, sram |-> 1, flash |-> 2, mpk |-> 4]["flash"],
                      rom # Saves!NoGame, filled = rom, saveSession.fla = <<>>, Saves!FlashRead(p, i)
               PROVE  mem'[p] = stream["sra"][i]
    OBVIOUS
  <2> QED
    BY SavesConstants, Saves!ReadBack
<1> QED
  BY <1>1, SavesInductive, PTL DEF Spec, allVars, FlashReadsBack, Saves!FlashReadsBack

-----------------------------------------------------------------------------
(* Compiled code.                                                          *)

\* Counting.
LEMMA More ==
  ASSUME NEW A, Regs!IsFiniteSet(A), NEW n \in Nat, Regs!Cardinality(A) = n, NEW x, x \notin A
  PROVE  Regs!IsFiniteSet(A \cup {x}) /\ Regs!Cardinality(A \cup {x}) = n + 1
BY Regs!FS_AddElement

\* The x86 registers of the sessions.
LEMMA Sizes ==
  /\ Regs!IsFiniteSet({0,1}) /\ Regs!Cardinality({0,1}) = 2
  /\ Regs!IsFiniteSet({0,1,2}) /\ Regs!Cardinality({0,1,2}) = 3
  /\ Regs!IsFiniteSet({0,1,2,3}) /\ Regs!Cardinality({0,1,2,3}) = 4
  /\ Regs!IsFiniteSet({0,1,2,3,5}) /\ Regs!Cardinality({0,1,2,3,5}) = 5
  /\ Regs!IsFiniteSet({0,1,2,3,5,6}) /\ Regs!Cardinality({0,1,2,3,5,6}) = 6
  /\ Regs!IsFiniteSet(Seven) /\ Regs!Cardinality(Seven) = 7
<1> DEFINE Is(A, n) == Regs!IsFiniteSet(A) /\ Regs!Cardinality(A) = n
<1>1. Is({0}, 1)
  BY Regs!FS_Singleton
<1>2. ASSUME NEW A, NEW n \in Nat, Is(A, n), NEW x, x \notin A PROVE Is(A \cup {x}, n + 1)
  BY <1>2, More
<1> HIDE DEF Is
<1>3. Is({0,1}, 2)
  <2>1. {0} \cup {1} = {0,1} /\ 1 \notin {0} /\ 1 \in Nat /\ 1 + 1 = 2
    OBVIOUS
  <2> QED
    BY <1>1, <1>2, <2>1
<1>4. Is({0,1,2}, 3)
  <2>1. {0,1} \cup {2} = {0,1,2} /\ 2 \notin {0,1} /\ 2 \in Nat /\ 2 + 1 = 3
    OBVIOUS
  <2> QED
    BY <1>2, <1>3, <2>1
<1>5. Is({0,1,2,3}, 4)
  <2>1. {0,1,2} \cup {3} = {0,1,2,3} /\ 3 \notin {0,1,2} /\ 3 \in Nat /\ 3 + 1 = 4
    OBVIOUS
  <2> QED
    BY <1>2, <1>4, <2>1
<1>6. Is({0,1,2,3,5}, 5)
  <2>1. {0,1,2,3} \cup {5} = {0,1,2,3,5} /\ 5 \notin {0,1,2,3} /\ 4 \in Nat /\ 4 + 1 = 5
    OBVIOUS
  <2> QED
    BY <1>2, <1>5, <2>1
<1>7. Is({0,1,2,3,5,6}, 6)
  <2>1. {0,1,2,3,5} \cup {6} = {0,1,2,3,5,6} /\ 6 \notin {0,1,2,3,5} /\ 5 \in Nat /\ 5 + 1 = 6
    OBVIOUS
  <2> QED
    BY <1>2, <1>6, <2>1
<1>8. Is(Seven, 7)
  <2>1. {0,1,2,3,5,6} \cup {7} = Seven /\ 7 \notin {0,1,2,3,5,6} /\ 6 \in Nat /\ 6 + 1 = 7
    BY DEF Seven
  <2> QED
    BY <1>2, <1>7, <2>1
<1> QED
  BY <1>3, <1>4, <1>5, <1>6, <1>7, <1>8 DEF Is

\* The fields of a session.
LEMMA Play ==
  ASSUME NEW forms, NEW regs, NEW x86, NEW narrow, NEW n
  PROVE  LET f == P(forms, regs, x86, narrow, n) IN
         /\ f.forms = forms /\ f.regs = regs /\ f.x86 = x86 /\ f.narrow = narrow /\ f.length = n
         /\ f.entries = IF narrow = Wide THEN {1} ELSE 1..n
BY DEF P

\* A session with n x86 registers.
LEMMA Within ==
  ASSUME NEW forms, NEW regs, regs \subseteq {0,1,2,3}, NEW x86, x86 \subseteq Seven, NEW n \in Nat,
         Regs!IsFiniteSet(x86), NEW k \in Nat, Regs!Cardinality(x86) = k,
         NEW narrow \in {All, Wide},
         LET f == P(forms, regs, x86, narrow, n) IN
           /\ \A form \in forms : Regs!InUse(f, form) <= k /\ Regs!ByName(form) \subseteq x86
           /\ Regs!Narrow0(f) => narrow = All /\ forms \cap Regs!Widening = {}
  PROVE  Regs!LimitsOf(P(forms, regs, x86, narrow, n))
<1> DEFINE f == P(forms, regs, x86, narrow, n)
<1>1. /\ f.forms = forms /\ f.regs = regs /\ f.x86 = x86 /\ f.narrow = narrow /\ f.length = n
      /\ f.entries = IF narrow = Wide THEN {1} ELSE 1..n
  BY DEF P
<1>2. /\ \A form \in forms : Regs!InUse(f, form) <= k /\ Regs!ByName(form) \subseteq x86
      /\ Regs!Narrow0(f) => narrow = All /\ forms \cap Regs!Widening = {}
  OBVIOUS
<1> HIDE DEF f
<1>3. f.regs \subseteq Nat \ {Regs!HI, Regs!LO}
  BY <1>1 DEF Regs!HI, Regs!LO
<1>4. narrow = All => Regs!RegsOf(f) \subseteq f.narrow
  BY <1>1 DEF All, Regs!RegsOf, Regs!HI, Regs!LO
<1>5. x86 \subseteq Nat /\ f.entries \subseteq Nat
  BY <1>1 DEF Seven
<1>6. f.entries \subseteq {1} \/ Regs!RegsOf(f) \subseteq f.narrow
  BY <1>1, <1>4
<1>7. Regs!LimitsOf(f)
  BY <1>1, <1>2, <1>3, <1>4, <1>5, <1>6 DEF Regs!LimitsOf
<1> QED
  BY <1>7 DEF f

\* What an instruction has in use, by whether it shares a block with pairs.
LEMMA Uses ==
  ASSUME NEW f
  PROVE  /\ Regs!InUse(f, "lui") = 1 /\ Regs!InUse(f, "lw") = 1 /\ Regs!InUse(f, "ld") = 2
         /\ Regs!InUse(f, "call") = 0 /\ Regs!InUse(f, "sw") = 0
         /\ Regs!InUse(f, "slti") = 3 /\ Regs!InUse(f, "dsra32") = 3 /\ Regs!InUse(f, "slt") = 5
         /\ Regs!InUse(f, "ori") = 4 /\ Regs!InUse(f, "daddiu") = 4 /\ Regs!InUse(f, "dsll") = 4
         /\ Regs!InUse(f, "dsll32") = 4 /\ Regs!InUse(f, "dsrl32") = 4
         /\ Regs!InUse(f, "move") = 4 /\ Regs!InUse(f, "branch") = 4
         /\ Regs!InUse(f, "daddu") = 6 /\ Regs!InUse(f, "and") = 6 /\ Regs!InUse(f, "dsllv") = 6
         /\ Regs!InUse(f, "addiu") \in {2, 3} /\ Regs!InUse(f, "sll") \in {2, 3}
         /\ Regs!InUse(f, "addu") \in {3, 5} /\ Regs!InUse(f, "sllv") \in {3, 5}
         /\ Regs!InUse(f, "mult") \in {4, 6}
         /\ ~Regs!Pairs(f) => /\ Regs!InUse(f, "addiu") = 2
                              /\ Regs!InUse(f, "addu") = 3 /\ Regs!InUse(f, "sllv") = 3
                              /\ Regs!InUse(f, "mult") = 4
BY DEF Regs!InUse, Regs!Two

\* Every session keeps the limits.
LEMMA RegsLimits == Regs!Limits
<1> USE DEF Regs!ByName, Regs!EAX, Regs!ECX, Regs!EDX
<1> SUFFICES ASSUME NEW x \in RegsPlays
             PROVE  Regs!LimitsOf(x)
  BY DEF Regs!Limits
<1>1. ASSUME x = P({"addiu","lui"}, {1,2,3}, {0,1}, All, 4) PROVE Regs!LimitsOf(x)
  <2> DEFINE forms == {"addiu","lui"}
             regs == {1,2,3}
             x86 == {0,1}
             n == 4
             k == 2
             f == P(forms, regs, x86, All, n)
  <2>1. /\ regs \subseteq {0,1,2,3} /\ x86 \subseteq Seven /\ Regs!IsFiniteSet(x86)
        /\ Regs!Cardinality(x86) = k /\ n \in Nat /\ k \in Nat
    BY Sizes DEF Seven
  <2>2. f.forms = forms
    BY Play
  <2>3. ~Regs!Pairs(f)
    BY <2>2 DEF Regs!Pairs, Regs!Pairing
  <2> HIDE DEF f
  <2>4. \A form \in forms : Regs!InUse(f, form) <= k
    BY <2>3, Uses
  <2>5. \A form \in forms : Regs!ByName(form) \subseteq x86
    BY DEF Seven
  <2>6. Regs!Narrow0(f) => All = All /\ forms \cap Regs!Widening = {}
    BY <2>2 DEF Regs!Narrow0, Regs!Testing, Regs!Low, Regs!Widening
  <2> HIDE DEF forms, regs, x86, n, k
  <2>7. Regs!LimitsOf(f)
    BY <2>1, <2>4, <2>5, <2>6, Within DEF f
  <2> QED
    BY <1>1, <2>7 DEF f, forms, regs, x86, n
<1>2. ASSUME x = P({"addu","lw"}, {0,1,2}, {0,1,2}, All, 3) PROVE Regs!LimitsOf(x)
  <2> DEFINE forms == {"addu","lw"}
             regs == {0,1,2}
             x86 == {0,1,2}
             n == 3
             k == 3
             f == P(forms, regs, x86, All, n)
  <2>1. /\ regs \subseteq {0,1,2,3} /\ x86 \subseteq Seven /\ Regs!IsFiniteSet(x86)
        /\ Regs!Cardinality(x86) = k /\ n \in Nat /\ k \in Nat
    BY Sizes DEF Seven
  <2>2. f.forms = forms
    BY Play
  <2>3. ~Regs!Pairs(f)
    BY <2>2 DEF Regs!Pairs, Regs!Pairing
  <2> HIDE DEF f
  <2>4. \A form \in forms : Regs!InUse(f, form) <= k
    BY <2>3, Uses
  <2>5. \A form \in forms : Regs!ByName(form) \subseteq x86
    BY DEF Seven
  <2>6. Regs!Narrow0(f) => All = All /\ forms \cap Regs!Widening = {}
    BY <2>2 DEF Regs!Narrow0, Regs!Testing, Regs!Low, Regs!Widening
  <2> HIDE DEF forms, regs, x86, n, k
  <2>7. Regs!LimitsOf(f)
    BY <2>1, <2>4, <2>5, <2>6, Within DEF f
  <2> QED
    BY <1>2, <2>7 DEF f, forms, regs, x86, n
<1>3. ASSUME x = P({"ori","sll"}, {1,2,3}, {0,1,2,3}, All, 3) PROVE Regs!LimitsOf(x)
  <2> DEFINE forms == {"ori","sll"}
             regs == {1,2,3}
             x86 == {0,1,2,3}
             n == 3
             k == 4
             f == P(forms, regs, x86, All, n)
  <2>1. /\ regs \subseteq {0,1,2,3} /\ x86 \subseteq Seven /\ Regs!IsFiniteSet(x86)
        /\ Regs!Cardinality(x86) = k /\ n \in Nat /\ k \in Nat
    BY Sizes DEF Seven
  <2>2. f.forms = forms
    BY Play
  <2> HIDE DEF f
  <2>4. \A form \in forms : Regs!InUse(f, form) <= k
    BY Uses
  <2>5. \A form \in forms : Regs!ByName(form) \subseteq x86
    BY DEF Seven
  <2>6. Regs!Narrow0(f) => All = All /\ forms \cap Regs!Widening = {}
    BY <2>2 DEF Regs!Narrow0, Regs!Testing, Regs!Low, Regs!Widening
  <2> HIDE DEF forms, regs, x86, n, k
  <2>7. Regs!LimitsOf(f)
    BY <2>1, <2>4, <2>5, <2>6, Within DEF f
  <2> QED
    BY <1>3, <2>7 DEF f, forms, regs, x86, n
<1>4. ASSUME x = P({"and","lui"}, {1,2}, Seven, All, 4) PROVE Regs!LimitsOf(x)
  <2> DEFINE forms == {"and","lui"}
             regs == {1,2}
             x86 == Seven
             n == 4
             k == 7
             f == P(forms, regs, x86, All, n)
  <2>1. /\ regs \subseteq {0,1,2,3} /\ x86 \subseteq Seven /\ Regs!IsFiniteSet(x86)
        /\ Regs!Cardinality(x86) = k /\ n \in Nat /\ k \in Nat
    BY Sizes DEF Seven
  <2>2. f.forms = forms
    BY Play
  <2> HIDE DEF f
  <2>4. \A form \in forms : Regs!InUse(f, form) <= k
    BY Uses
  <2>5. \A form \in forms : Regs!ByName(form) \subseteq x86
    BY DEF Seven
  <2>6. Regs!Narrow0(f) => All = All /\ forms \cap Regs!Widening = {}
    BY <2>2 DEF Regs!Narrow0, Regs!Testing, Regs!Low, Regs!Widening
  <2> HIDE DEF forms, regs, x86, n, k
  <2>7. Regs!LimitsOf(f)
    BY <2>1, <2>4, <2>5, <2>6, Within DEF f
  <2> QED
    BY <1>4, <2>7 DEF f, forms, regs, x86, n
<1>5. ASSUME x = P({"daddu","addiu"}, {1,2}, Seven, Wide, 3) PROVE Regs!LimitsOf(x)
  <2> DEFINE forms == {"daddu","addiu"}
             regs == {1,2}
             x86 == Seven
             n == 3
             k == 7
             f == P(forms, regs, x86, Wide, n)
  <2>1. /\ regs \subseteq {0,1,2,3} /\ x86 \subseteq Seven /\ Regs!IsFiniteSet(x86)
        /\ Regs!Cardinality(x86) = k /\ n \in Nat /\ k \in Nat
    BY Sizes DEF Seven
  <2>2. f.forms = forms
    BY Play
  <2> HIDE DEF f
  <2>4. \A form \in forms : Regs!InUse(f, form) <= k
    BY Uses
  <2>5. \A form \in forms : Regs!ByName(form) \subseteq x86
    BY DEF Seven
  <2>6. Regs!Narrow0(f) => Wide = All /\ forms \cap Regs!Widening = {}
    BY <2>2 DEF Regs!Narrow0, Regs!Testing, Regs!Low, Regs!Widening
  <2> HIDE DEF forms, regs, x86, n, k
  <2>7. Regs!LimitsOf(f)
    BY <2>1, <2>4, <2>5, <2>6, Within DEF f
  <2> QED
    BY <1>5, <2>7 DEF f, forms, regs, x86, n
<1>6. ASSUME x = P({"slt","dsll32","dsrl32","dsra32"}, {1,2}, {0,1,2,3,5}, All, 3) PROVE Regs!LimitsOf(x)
  <2> DEFINE forms == {"slt","dsll32","dsrl32","dsra32"}
             regs == {1,2}
             x86 == {0,1,2,3,5}
             n == 3
             k == 5
             f == P(forms, regs, x86, All, n)
  <2>1. /\ regs \subseteq {0,1,2,3} /\ x86 \subseteq Seven /\ Regs!IsFiniteSet(x86)
        /\ Regs!Cardinality(x86) = k /\ n \in Nat /\ k \in Nat
    BY Sizes DEF Seven
  <2>2. f.forms = forms
    BY Play
  <2> HIDE DEF f
  <2>4. \A form \in forms : Regs!InUse(f, form) <= k
    BY Uses
  <2>5. \A form \in forms : Regs!ByName(form) \subseteq x86
    BY DEF Seven
  <2>6. Regs!Narrow0(f) => All = All /\ forms \cap Regs!Widening = {}
    BY <2>2 DEF Regs!Narrow0, Regs!Testing, Regs!Low, Regs!Widening
  <2> HIDE DEF forms, regs, x86, n, k
  <2>7. Regs!LimitsOf(f)
    BY <2>1, <2>4, <2>5, <2>6, Within DEF f
  <2> QED
    BY <1>6, <2>7 DEF f, forms, regs, x86, n
<1>7. ASSUME x = P({"slti","daddiu","dsll"}, {1,2,3}, {0,1,2,3}, Wide, 3) PROVE Regs!LimitsOf(x)
  <2> DEFINE forms == {"slti","daddiu","dsll"}
             regs == {1,2,3}
             x86 == {0,1,2,3}
             n == 3
             k == 4
             f == P(forms, regs, x86, Wide, n)
  <2>1. /\ regs \subseteq {0,1,2,3} /\ x86 \subseteq Seven /\ Regs!IsFiniteSet(x86)
        /\ Regs!Cardinality(x86) = k /\ n \in Nat /\ k \in Nat
    BY Sizes DEF Seven
  <2>2. f.forms = forms
    BY Play
  <2> HIDE DEF f
  <2>4. \A form \in forms : Regs!InUse(f, form) <= k
    BY Uses
  <2>5. \A form \in forms : Regs!ByName(form) \subseteq x86
    BY DEF Seven
  <2>6. Regs!Narrow0(f) => Wide = All /\ forms \cap Regs!Widening = {}
    BY <2>2 DEF Regs!Narrow0, Regs!Testing, Regs!Low, Regs!Widening
  <2> HIDE DEF forms, regs, x86, n, k
  <2>7. Regs!LimitsOf(f)
    BY <2>1, <2>4, <2>5, <2>6, Within DEF f
  <2> QED
    BY <1>7, <2>7 DEF f, forms, regs, x86, n
<1>8. ASSUME x = P({"sllv","mult"}, {0,1,2}, {0,1,2,3}, All, 3) PROVE Regs!LimitsOf(x)
  <2> DEFINE forms == {"sllv","mult"}
             regs == {0,1,2}
             x86 == {0,1,2,3}
             n == 3
             k == 4
             f == P(forms, regs, x86, All, n)
  <2>1. /\ regs \subseteq {0,1,2,3} /\ x86 \subseteq Seven /\ Regs!IsFiniteSet(x86)
        /\ Regs!Cardinality(x86) = k /\ n \in Nat /\ k \in Nat
    BY Sizes DEF Seven
  <2>2. f.forms = forms
    BY Play
  <2>3. ~Regs!Pairs(f)
    BY <2>2 DEF Regs!Pairs, Regs!Pairing
  <2> HIDE DEF f
  <2>4. \A form \in forms : Regs!InUse(f, form) <= k
    BY <2>3, Uses
  <2>5. \A form \in forms : Regs!ByName(form) \subseteq x86
    BY DEF Seven
  <2>6. Regs!Narrow0(f) => All = All /\ forms \cap Regs!Widening = {}
    BY <2>2 DEF Regs!Narrow0, Regs!Testing, Regs!Low, Regs!Widening
  <2> HIDE DEF forms, regs, x86, n, k
  <2>7. Regs!LimitsOf(f)
    BY <2>1, <2>4, <2>5, <2>6, Within DEF f
  <2> QED
    BY <1>8, <2>7 DEF f, forms, regs, x86, n
<1>9. ASSUME x = P({"dsllv","lui"}, {0,1,2}, Seven, All, 3) PROVE Regs!LimitsOf(x)
  <2> DEFINE forms == {"dsllv","lui"}
             regs == {0,1,2}
             x86 == Seven
             n == 3
             k == 7
             f == P(forms, regs, x86, All, n)
  <2>1. /\ regs \subseteq {0,1,2,3} /\ x86 \subseteq Seven /\ Regs!IsFiniteSet(x86)
        /\ Regs!Cardinality(x86) = k /\ n \in Nat /\ k \in Nat
    BY Sizes DEF Seven
  <2>2. f.forms = forms
    BY Play
  <2> HIDE DEF f
  <2>4. \A form \in forms : Regs!InUse(f, form) <= k
    BY Uses
  <2>5. \A form \in forms : Regs!ByName(form) \subseteq x86
    BY DEF Seven
  <2>6. Regs!Narrow0(f) => All = All /\ forms \cap Regs!Widening = {}
    BY <2>2 DEF Regs!Narrow0, Regs!Testing, Regs!Low, Regs!Widening
  <2> HIDE DEF forms, regs, x86, n, k
  <2>7. Regs!LimitsOf(f)
    BY <2>1, <2>4, <2>5, <2>6, Within DEF f
  <2> QED
    BY <1>9, <2>7 DEF f, forms, regs, x86, n
<1>10. ASSUME x = P({"move","mult"}, {1,2}, {0,1,2,3,5,6}, All, 3) PROVE Regs!LimitsOf(x)
  <2> DEFINE forms == {"move","mult"}
             regs == {1,2}
             x86 == {0,1,2,3,5,6}
             n == 3
             k == 6
             f == P(forms, regs, x86, All, n)
  <2>1. /\ regs \subseteq {0,1,2,3} /\ x86 \subseteq Seven /\ Regs!IsFiniteSet(x86)
        /\ Regs!Cardinality(x86) = k /\ n \in Nat /\ k \in Nat
    BY Sizes DEF Seven
  <2>2. f.forms = forms
    BY Play
  <2> HIDE DEF f
  <2>4. \A form \in forms : Regs!InUse(f, form) <= k
    BY Uses
  <2>5. \A form \in forms : Regs!ByName(form) \subseteq x86
    BY DEF Seven
  <2>6. Regs!Narrow0(f) => All = All /\ forms \cap Regs!Widening = {}
    BY <2>2 DEF Regs!Narrow0, Regs!Testing, Regs!Low, Regs!Widening
  <2> HIDE DEF forms, regs, x86, n, k
  <2>7. Regs!LimitsOf(f)
    BY <2>1, <2>4, <2>5, <2>6, Within DEF f
  <2> QED
    BY <1>10, <2>7 DEF f, forms, regs, x86, n
<1>11. ASSUME x = P({"ld","call","sw","addiu"}, {0,1,2}, {0,1,2}, All, 3) PROVE Regs!LimitsOf(x)
  <2> DEFINE forms == {"ld","call","sw","addiu"}
             regs == {0,1,2}
             x86 == {0,1,2}
             n == 3
             k == 3
             f == P(forms, regs, x86, All, n)
  <2>1. /\ regs \subseteq {0,1,2,3} /\ x86 \subseteq Seven /\ Regs!IsFiniteSet(x86)
        /\ Regs!Cardinality(x86) = k /\ n \in Nat /\ k \in Nat
    BY Sizes DEF Seven
  <2>2. f.forms = forms
    BY Play
  <2> HIDE DEF f
  <2>4. \A form \in forms : Regs!InUse(f, form) <= k
    BY Uses
  <2>5. \A form \in forms : Regs!ByName(form) \subseteq x86
    BY DEF Seven
  <2>6. Regs!Narrow0(f) => All = All /\ forms \cap Regs!Widening = {}
    BY <2>2 DEF Regs!Narrow0, Regs!Testing, Regs!Low, Regs!Widening
  <2> HIDE DEF forms, regs, x86, n, k
  <2>7. Regs!LimitsOf(f)
    BY <2>1, <2>4, <2>5, <2>6, Within DEF f
  <2> QED
    BY <1>11, <2>7 DEF f, forms, regs, x86, n
<1>12. ASSUME x = P({"branch","addiu"}, {0,1,2}, {0,1,2,3}, All, 3) PROVE Regs!LimitsOf(x)
  <2> DEFINE forms == {"branch","addiu"}
             regs == {0,1,2}
             x86 == {0,1,2,3}
             n == 3
             k == 4
             f == P(forms, regs, x86, All, n)
  <2>1. /\ regs \subseteq {0,1,2,3} /\ x86 \subseteq Seven /\ Regs!IsFiniteSet(x86)
        /\ Regs!Cardinality(x86) = k /\ n \in Nat /\ k \in Nat
    BY Sizes DEF Seven
  <2>2. f.forms = forms
    BY Play
  <2> HIDE DEF f
  <2>4. \A form \in forms : Regs!InUse(f, form) <= k
    BY Uses
  <2>5. \A form \in forms : Regs!ByName(form) \subseteq x86
    BY DEF Seven
  <2>6. Regs!Narrow0(f) => All = All /\ forms \cap Regs!Widening = {}
    BY <2>2 DEF Regs!Narrow0, Regs!Testing, Regs!Low, Regs!Widening
  <2> HIDE DEF forms, regs, x86, n, k
  <2>7. Regs!LimitsOf(f)
    BY <2>1, <2>4, <2>5, <2>6, Within DEF f
  <2> QED
    BY <1>12, <2>7 DEF f, forms, regs, x86, n
<1>13. ASSUME x = P({"branch","ori"}, {0,1,2}, {0,1,2,3}, Wide, 3) PROVE Regs!LimitsOf(x)
  <2> DEFINE forms == {"branch","ori"}
             regs == {0,1,2}
             x86 == {0,1,2,3}
             n == 3
             k == 4
             f == P(forms, regs, x86, Wide, n)
  <2>1. /\ regs \subseteq {0,1,2,3} /\ x86 \subseteq Seven /\ Regs!IsFiniteSet(x86)
        /\ Regs!Cardinality(x86) = k /\ n \in Nat /\ k \in Nat
    BY Sizes DEF Seven
  <2>2. f.forms = forms
    BY Play
  <2> HIDE DEF f
  <2>4. \A form \in forms : Regs!InUse(f, form) <= k
    BY Uses
  <2>5. \A form \in forms : Regs!ByName(form) \subseteq x86
    BY DEF Seven
  <2>6. Regs!Narrow0(f) => Wide = All /\ forms \cap Regs!Widening = {}
    BY <2>2 DEF Regs!Narrow0, Regs!Testing, Regs!Low, Regs!Widening
  <2> HIDE DEF forms, regs, x86, n, k
  <2>7. Regs!LimitsOf(f)
    BY <2>1, <2>4, <2>5, <2>6, Within DEF f
  <2> QED
    BY <1>13, <2>7 DEF f, forms, regs, x86, n
<1> QED
  BY <1>1, <1>2, <1>3, <1>4, <1>5, <1>6, <1>7, <1>8, <1>9, <1>10, <1>11, <1>12, <1>13 DEF RegsPlays

\* A step of the machine is one of the compiler, or leaves it alone.
LEMMA RegsSteps ==
  ASSUME [Next]_allVars
  PROVE  [Regs!Next]_(Regs!vars)
<1>1. Regs!Next \/ UNCHANGED regsVars
  BY DEF Next, allVars
<1> QED
  BY <1>1 DEF regsVars, Regs!vars

\* The invariant of the register cache holds of it in the machine.
LEMMA RegsInductive == Spec => []Regs!IInv
<1>1. Init => Regs!IInv
  <2> SUFFICES ASSUME Init
               PROVE  Regs!IInv
    OBVIOUS
  <2>1. Regs!Init
    BY DEF Init
  <2> QED
    BY <2>1, RegsLimits, Regs!InitKeeps
<1>2. Regs!IInv /\ [Next]_allVars => Regs!IInv'
  <2> SUFFICES ASSUME Regs!IInv, [Next]_allVars
               PROVE  Regs!IInv'
    OBVIOUS
  <2>1. Regs!Next \/ UNCHANGED Regs!vars
    BY RegsSteps
  <2> QED
    BY <2>1, RegsLimits, Regs!StepKeeps, Regs!StutterKeeps
<1> QED
  BY <1>1, <1>2, PTL DEF Spec, allVars

\* Emitted code takes current values from registers and from memory.
THEOREM RegsOperands == Spec => []OperandsCurrent
<1>1. Regs!IInv => OperandsCurrent
  BY Regs!Current DEF OperandsCurrent
<1> QED
  BY <1>1, RegsInductive, PTL

\* A value that memory does not have is in a register that will be written.
THEOREM RegsNothingLost == Spec => []MemoryCurrent
<1>1. Regs!IInv => MemoryCurrent
  BY Regs!Current DEF MemoryCurrent
<1> QED
  BY <1>1, RegsInductive, PTL

\* A block entered in its middle finds the registers its code expects.
THEOREM RegsLoads == Spec => []EntryLoads
<1>1. Regs!IInv => EntryLoads
  BY Regs!Current DEF EntryLoads
<1> QED
  BY <1>1, RegsInductive, PTL

-----------------------------------------------------------------------------
(* Control flow.                                                           *)

\* A program with the handlers behind it.
Loaded(f, ops, start, evict, tlb) ==
  LET own == start..(start + Len(ops) - 1) IN
  /\ f.core \in {"cached", "pure"} /\ f.start = start /\ f.tlb = tlb
  /\ DOMAIN f.code = own \cup {50, 51, 60, 61} /\ \A i \in own : f.code[i] = ops[i - start + 1]
  /\ f.code[50] = [op |-> "tlbw", evict |-> evict] /\ f.code[51] = [op |-> "eret"]
  /\ f.code[60] = [op |-> "epc"] /\ f.code[61] = [op |-> "eret"]

LEMMA Programs ==
  ASSUME NEW ops, NEW start, NEW evict, NEW tlb,
         Len(ops) \in Nat, start \in Nat, start + Len(ops) < 50,
         NEW f, f \in Program(ops, start, evict, tlb)
  PROVE  Loaded(f, ops, start, evict, tlb)
<1> DEFINE n == Len(ops)
           own == start..(start + n - 1)
           code == [i \in own \cup {50, 51, 60, 61} |->
                      IF i < 50 THEN ops[i - start + 1]
                      ELSE IF i = 50 THEN [op |-> "tlbw", evict |-> evict]
                      ELSE I(IF i = 60 THEN "epc" ELSE "eret")]
<1>1. f.core \in {"cached", "pure"} /\ f.start = start /\ f.tlb = tlb /\ f.code = code
  BY DEF Program
<1>2. n \in Nat /\ start + n < 50
  OBVIOUS
<1> HIDE DEF n
<1>3. DOMAIN code = own \cup {50, 51, 60, 61}
  OBVIOUS
<1>4. ASSUME NEW i \in own PROVE code[i] = ops[i - start + 1]
  BY <1>2, <1>4
<1>5. /\ code[50] = [op |-> "tlbw", evict |-> evict] /\ code[51] = [op |-> "eret"]
      /\ code[60] = [op |-> "epc"] /\ code[61] = [op |-> "eret"]
  BY DEF I
<1> HIDE DEF code
<1> QED
  BY <1>1, <1>3, <1>4, <1>5 DEF Loaded, n

LEMMA FlowMap == Flow!MapOK
<1>1. ASSUME NEW a \in 12..17
      PROVE  a \div 3 \in {4, 5}
  BY <1>1
<1>2. ASSUME NEW b \in Nat, b \div 3 \in {4, 5}
      PROVE  b \in 12..17
  BY <1>2
<1> QED
  BY <1>1, <1>2 DEF Flow!MapOK, Flow!Page

\* Its instructions, but for the last, may be run by themselves.
LEMMA ProgramHeads ==
  ASSUME NEW f, NEW ops, NEW start, NEW evict, NEW tlb, Loaded(f, ops, start, evict, tlb),
         Len(ops) \in Nat, Len(ops) > 1, start \in Nat, start + Len(ops) < 50
  PROVE  Flow!Handlers = {50, 51, 60, 61} /\ Flow!Heads(f) = start..(start + Len(ops) - 2)
<1> DEFINE n == Len(ops)
<1>1. n \in Nat /\ n > 1 /\ start \in Nat /\ start + n < 50
  OBVIOUS
<1>2. DOMAIN f.code = start..(start + n - 1) \cup {50, 51, 60, 61}
  BY DEF Loaded
<1> HIDE DEF n
<1>3. Flow!Handlers = {50, 51, 60, 61}
  BY DEF Flow!Handlers
<1>4. Flow!Prog(f) = start..(start + n - 1)
  BY <1>1, <1>2, <1>3 DEF Flow!Prog
<1>5. Flow!Heads(f) = start..(start + n - 2)
  BY <1>1, <1>4 DEF Flow!Heads
<1> QED
  BY <1>3, <1>5 DEF n

\* Its handlers are where they should be.
LEMMA ProgramLimits ==
  ASSUME NEW f, NEW ops, NEW start, NEW evict, NEW tlb, Loaded(f, ops, start, evict, tlb),
         Len(ops) \in Nat, Len(ops) > 1, start \in Nat, start + Len(ops) < 50,
         start \in 12..17 => start \div 3 \in tlb,
         \A a \in Flow!Heads(f) : Flow!FollowOK(f, a),
         \A a \in Flow!Heads(f) :
           f.code[a].op \in Flow!Jumps /\ a + 1 \in 12..17 /\ (a + 1) \div 3 # a \div 3
             => (a + 1) \div 3 \in tlb /\ (a + 1) \div 3 \notin evict
  PROVE  Flow!ProgramOK(f)
<1> DEFINE n == Len(ops)
<1>1. n \in Nat /\ n > 1 /\ start \in Nat /\ start + n < 50
  OBVIOUS
<1>2. /\ f.core \in {"cached", "pure"} /\ f.start = start /\ f.tlb = tlb
      /\ DOMAIN f.code = start..(start + n - 1) \cup {50, 51, 60, 61}
      /\ f.code[50] = [op |-> "tlbw", evict |-> evict] /\ f.code[51] = [op |-> "eret"]
      /\ f.code[60] = [op |-> "epc"] /\ f.code[61] = [op |-> "eret"]
  BY DEF Loaded
<1>3. Flow!Handlers = {50, 51, 60, 61} /\ Flow!Heads(f) = start..(start + n - 2)
  BY ProgramHeads
<1> HIDE DEF n
<1>4. Flow!HandlersOK(f)
  BY <1>2, <1>3 DEF Flow!HandlersOK
<1>5. f.code[50].evict = evict
  BY <1>2
<1>6. Flow!SlotsOK(f)
  BY <1>2, <1>5 DEF Flow!SlotsOK, Flow!Page
<1>7. f.start \in Flow!Heads(f)
  BY <1>1, <1>2, <1>3
<1>8. DOMAIN f.code \subseteq Nat
  BY <1>1, <1>2
<1>9. f.start \in 12..17 => Flow!Page(f.start) \in f.tlb
  BY <1>2 DEF Flow!Page
<1> QED
  BY <1>2, <1>4, <1>6, <1>7, <1>8, <1>9 DEF Flow!ProgramOK

\* The fields of an instruction.
LEMMA Instructions ==
  /\ \A o : I(o).op = o
  /\ \A p : L(p).op = "load"
  /\ \A o, to : B(o, to).op = o /\ B(o, to).to = to
BY DEF I, L, B

\* Each program keeps to them: targets and slots are what they should be.
LEMMA FlowLimits == Flow!Limits
<1>1. ASSUME NEW f \in Program(<<L(7), B("jal",6), L(7), B("j",1), I("nop"), B("jr",0), L(8)>>, 1, {7,8}, {})
      PROVE  Flow!ProgramOK(f)
  <2> DEFINE ops == <<L(7), B("jal",6), L(7), B("j",1), I("nop"), B("jr",0), L(8)>>
             evict == {7,8}
             tlb == {}
  <2>1. /\ Len(ops) = 7 /\ f \in Program(ops, 1, evict, tlb)
        /\ 1 \in Nat /\ Len(ops) \in Nat /\ Len(ops) > 1 /\ 1 + Len(ops) < 50
    OBVIOUS
  <2>2. /\ ops[1].op = "load" /\ ops[2].op = "jal" /\ ops[2].to = 6 /\ ops[3].op = "load"
        /\ ops[4].op = "j" /\ ops[4].to = 1 /\ ops[5].op = "nop" /\ ops[6].op = "jr"
        /\ ops[6].to = 0 /\ ops[7].op = "load"
    BY Instructions
  <2> HIDE DEF ops, evict, tlb
  <2>3. Loaded(f, ops, 1, evict, tlb)
    BY <2>1, Programs
  <2>4. /\ f.code[1].op = "load" /\ f.code[2].op = "jal" /\ f.code[2].to = 6
        /\ f.code[3].op = "load" /\ f.code[4].op = "j" /\ f.code[4].to = 1
        /\ f.code[5].op = "nop" /\ f.code[6].op = "jr" /\ f.code[6].to = 0
        /\ f.code[7].op = "load"
    BY <2>1, <2>2, <2>3 DEF Loaded
  <2>5. Flow!Heads(f) = 1..6
    <3>1. Flow!Heads(f) = 1..(1 + Len(ops) - 2)
      BY <2>1, <2>3, ProgramHeads
    <3> QED
      BY <2>1, <3>1
  <2>6. \A a \in Flow!Heads(f) : Flow!FollowOK(f, a)
    BY <2>4, <2>5 DEF Flow!FollowOK, Flow!Jumps, Flow!Simple
  <2>7. \A a \in Flow!Heads(f) :
          f.code[a].op \in Flow!Jumps /\ a + 1 \in 12..17 /\ (a + 1) \div 3 # a \div 3
            => (a + 1) \div 3 \in tlb /\ (a + 1) \div 3 \notin evict
    BY <2>4, <2>5 DEF Flow!Jumps, evict, tlb
  <2> QED
    <3>1. 1 \in 12..17 => 1 \div 3 \in tlb
      BY DEF tlb
    <3> QED
      BY <2>1, <2>3, <2>6, <2>7, <3>1, ProgramLimits
<1>2. ASSUME NEW f \in Program(<<B("beq",4), I("syscall"), I("nop"), B("beql",1), I("cop1"), B("j",1), I("nop")>>, 1, {}, {})
      PROVE  Flow!ProgramOK(f)
  <2> DEFINE ops == <<B("beq",4), I("syscall"), I("nop"), B("beql",1), I("cop1"), B("j",1), I("nop")>>
             evict == {}
             tlb == {}
  <2>1. /\ Len(ops) = 7 /\ f \in Program(ops, 1, evict, tlb)
        /\ 1 \in Nat /\ Len(ops) \in Nat /\ Len(ops) > 1 /\ 1 + Len(ops) < 50
    OBVIOUS
  <2>2. /\ ops[1].op = "beq" /\ ops[1].to = 4 /\ ops[2].op = "syscall" /\ ops[3].op = "nop"
        /\ ops[4].op = "beql" /\ ops[4].to = 1 /\ ops[5].op = "cop1" /\ ops[6].op = "j"
        /\ ops[6].to = 1 /\ ops[7].op = "nop"
    BY Instructions
  <2> HIDE DEF ops, evict, tlb
  <2>3. Loaded(f, ops, 1, evict, tlb)
    BY <2>1, Programs
  <2>4. /\ f.code[1].op = "beq" /\ f.code[1].to = 4 /\ f.code[2].op = "syscall"
        /\ f.code[3].op = "nop" /\ f.code[4].op = "beql" /\ f.code[4].to = 1
        /\ f.code[5].op = "cop1" /\ f.code[6].op = "j" /\ f.code[6].to = 1
        /\ f.code[7].op = "nop"
    BY <2>1, <2>2, <2>3 DEF Loaded
  <2>5. Flow!Heads(f) = 1..6
    <3>1. Flow!Heads(f) = 1..(1 + Len(ops) - 2)
      BY <2>1, <2>3, ProgramHeads
    <3> QED
      BY <2>1, <3>1
  <2>6. \A a \in Flow!Heads(f) : Flow!FollowOK(f, a)
    BY <2>4, <2>5 DEF Flow!FollowOK, Flow!Jumps, Flow!Simple
  <2>7. \A a \in Flow!Heads(f) :
          f.code[a].op \in Flow!Jumps /\ a + 1 \in 12..17 /\ (a + 1) \div 3 # a \div 3
            => (a + 1) \div 3 \in tlb /\ (a + 1) \div 3 \notin evict
    BY <2>4, <2>5 DEF Flow!Jumps, evict, tlb
  <2> QED
    <3>1. 1 \in 12..17 => 1 \div 3 \in tlb
      BY DEF tlb
    <3> QED
      BY <2>1, <2>3, <2>6, <2>7, <3>1, ProgramLimits
<1>3. ASSUME NEW f \in Program(<<L(7), B("beq",15), L(8), I("nop"), B("j",12), L(7)>>, 12, {4,5,7,8}, {4})
      PROVE  Flow!ProgramOK(f)
  <2> DEFINE ops == <<L(7), B("beq",15), L(8), I("nop"), B("j",12), L(7)>>
             evict == {4,5,7,8}
             tlb == {4}
  <2>1. /\ Len(ops) = 6 /\ f \in Program(ops, 12, evict, tlb)
        /\ 12 \in Nat /\ Len(ops) \in Nat /\ Len(ops) > 1 /\ 12 + Len(ops) < 50
    OBVIOUS
  <2>2. /\ ops[1].op = "load" /\ ops[2].op = "beq" /\ ops[2].to = 15 /\ ops[3].op = "load"
        /\ ops[4].op = "nop" /\ ops[5].op = "j" /\ ops[5].to = 12 /\ ops[6].op = "load"
    BY Instructions
  <2> HIDE DEF ops, evict, tlb
  <2>3. Loaded(f, ops, 12, evict, tlb)
    BY <2>1, Programs
  <2>4. /\ f.code[12].op = "load" /\ f.code[13].op = "beq" /\ f.code[13].to = 15
        /\ f.code[14].op = "load" /\ f.code[15].op = "nop" /\ f.code[16].op = "j"
        /\ f.code[16].to = 12 /\ f.code[17].op = "load"
    BY <2>1, <2>2, <2>3 DEF Loaded
  <2>5. Flow!Heads(f) = 12..16
    <3>1. Flow!Heads(f) = 12..(12 + Len(ops) - 2)
      BY <2>1, <2>3, ProgramHeads
    <3> QED
      BY <2>1, <3>1
  <2>6. \A a \in Flow!Heads(f) : Flow!FollowOK(f, a)
    BY <2>4, <2>5 DEF Flow!FollowOK, Flow!Jumps, Flow!Simple
  <2>7. \A a \in Flow!Heads(f) :
          f.code[a].op \in Flow!Jumps /\ a + 1 \in 12..17 /\ (a + 1) \div 3 # a \div 3
            => (a + 1) \div 3 \in tlb /\ (a + 1) \div 3 \notin evict
    BY <2>4, <2>5 DEF Flow!Jumps, evict, tlb
  <2> QED
    <3>1. 12 \in 12..17 => 12 \div 3 \in tlb
      BY DEF tlb
    <3> QED
      BY <2>1, <2>3, <2>6, <2>7, <3>1, ProgramLimits
<1>4. ASSUME NEW f \in Program(<<I("nop"), L(7), B("beql",12), L(8), B("beq",13), L(7), B("j",12), I("nop")>>, 12, {7,8}, {4,5})
      PROVE  Flow!ProgramOK(f)
  <2> DEFINE ops == <<I("nop"), L(7), B("beql",12), L(8), B("beq",13), L(7), B("j",12), I("nop")>>
             evict == {7,8}
             tlb == {4,5}
  <2>1. /\ Len(ops) = 8 /\ f \in Program(ops, 12, evict, tlb)
        /\ 12 \in Nat /\ Len(ops) \in Nat /\ Len(ops) > 1 /\ 12 + Len(ops) < 50
    OBVIOUS
  <2>2. /\ ops[1].op = "nop" /\ ops[2].op = "load" /\ ops[3].op = "beql" /\ ops[3].to = 12
        /\ ops[4].op = "load" /\ ops[5].op = "beq" /\ ops[5].to = 13 /\ ops[6].op = "load"
        /\ ops[7].op = "j" /\ ops[7].to = 12 /\ ops[8].op = "nop"
    BY Instructions
  <2> HIDE DEF ops, evict, tlb
  <2>3. Loaded(f, ops, 12, evict, tlb)
    BY <2>1, Programs
  <2>4. /\ f.code[12].op = "nop" /\ f.code[13].op = "load" /\ f.code[14].op = "beql"
        /\ f.code[14].to = 12 /\ f.code[15].op = "load" /\ f.code[16].op = "beq"
        /\ f.code[16].to = 13 /\ f.code[17].op = "load" /\ f.code[18].op = "j"
        /\ f.code[18].to = 12 /\ f.code[19].op = "nop"
    BY <2>1, <2>2, <2>3 DEF Loaded
  <2>5. Flow!Heads(f) = 12..18
    <3>1. Flow!Heads(f) = 12..(12 + Len(ops) - 2)
      BY <2>1, <2>3, ProgramHeads
    <3> QED
      BY <2>1, <3>1
  <2>6. \A a \in Flow!Heads(f) : Flow!FollowOK(f, a)
    BY <2>4, <2>5 DEF Flow!FollowOK, Flow!Jumps, Flow!Simple
  <2>7. \A a \in Flow!Heads(f) :
          f.code[a].op \in Flow!Jumps /\ a + 1 \in 12..17 /\ (a + 1) \div 3 # a \div 3
            => (a + 1) \div 3 \in tlb /\ (a + 1) \div 3 \notin evict
    BY <2>4, <2>5 DEF Flow!Jumps, evict, tlb
  <2> QED
    <3>1. 12 \in 12..17 => 12 \div 3 \in tlb
      BY DEF tlb
    <3> QED
      BY <2>1, <2>3, <2>6, <2>7, <3>1, ProgramLimits
<1>5. ASSUME NEW f \in Program(<<I("mtc0"), B("jal",15), I("cop1"), I("mtc0"), B("jalr",0), L(7), B("j",12), I("nop")>>, 12, {4,5,7}, {4})
      PROVE  Flow!ProgramOK(f)
  <2> DEFINE ops == <<I("mtc0"), B("jal",15), I("cop1"), I("mtc0"), B("jalr",0), L(7), B("j",12), I("nop")>>
             evict == {4,5,7}
             tlb == {4}
  <2>1. /\ Len(ops) = 8 /\ f \in Program(ops, 12, evict, tlb)
        /\ 12 \in Nat /\ Len(ops) \in Nat /\ Len(ops) > 1 /\ 12 + Len(ops) < 50
    OBVIOUS
  <2>2. /\ ops[1].op = "mtc0" /\ ops[2].op = "jal" /\ ops[2].to = 15 /\ ops[3].op = "cop1"
        /\ ops[4].op = "mtc0" /\ ops[5].op = "jalr" /\ ops[5].to = 0 /\ ops[6].op = "load"
        /\ ops[7].op = "j" /\ ops[7].to = 12 /\ ops[8].op = "nop"
    BY Instructions
  <2> HIDE DEF ops, evict, tlb
  <2>3. Loaded(f, ops, 12, evict, tlb)
    BY <2>1, Programs
  <2>4. /\ f.code[12].op = "mtc0" /\ f.code[13].op = "jal" /\ f.code[13].to = 15
        /\ f.code[14].op = "cop1" /\ f.code[15].op = "mtc0" /\ f.code[16].op = "jalr"
        /\ f.code[16].to = 0 /\ f.code[17].op = "load" /\ f.code[18].op = "j"
        /\ f.code[18].to = 12 /\ f.code[19].op = "nop"
    BY <2>1, <2>2, <2>3 DEF Loaded
  <2>5. Flow!Heads(f) = 12..18
    <3>1. Flow!Heads(f) = 12..(12 + Len(ops) - 2)
      BY <2>1, <2>3, ProgramHeads
    <3> QED
      BY <2>1, <3>1
  <2>6. \A a \in Flow!Heads(f) : Flow!FollowOK(f, a)
    BY <2>4, <2>5 DEF Flow!FollowOK, Flow!Jumps, Flow!Simple
  <2>7. \A a \in Flow!Heads(f) :
          f.code[a].op \in Flow!Jumps /\ a + 1 \in 12..17 /\ (a + 1) \div 3 # a \div 3
            => (a + 1) \div 3 \in tlb /\ (a + 1) \div 3 \notin evict
    BY <2>4, <2>5 DEF Flow!Jumps, evict, tlb
  <2> QED
    <3>1. 12 \in 12..17 => 12 \div 3 \in tlb
      BY DEF tlb
    <3> QED
      BY <2>1, <2>3, <2>6, <2>7, <3>1, ProgramLimits
<1>6. \A f \in FlowPlays : Flow!ProgramOK(f)
  BY <1>1, <1>2, <1>3, <1>4, <1>5 DEF FlowPlays
<1> QED
  BY <1>6, FlowMap DEF Flow!Limits

\* A step of the machine is one of the interpreters, or leaves them alone.
LEMMA FlowSteps ==
  ASSUME [Next]_allVars
  PROVE  [Flow!Next]_(Flow!vars)
<1>1. Flow!Next \/ UNCHANGED flowVars
  BY DEF Next, allVars
<1> QED
  BY <1>1 DEF flowVars, Flow!vars

\* The machine starts as they do.
LEMMA FlowStart ==
  ASSUME Init
  PROVE  Flow!IInv /\ Flow!Flow!Init
<1>1. Flow!Init
  BY DEF Init
<1> QED
  BY <1>1, FlowLimits, Flow!InitKeeps

\* Their invariant holds of them in the machine.
LEMMA FlowInductive == Spec => []Flow!IInv
<1>1. Init => Flow!IInv
  BY FlowStart
<1>2. Flow!IInv /\ [Next]_allVars => Flow!IInv'
  <2> SUFFICES ASSUME Flow!IInv, [Next]_allVars
               PROVE  Flow!IInv'
    OBVIOUS
  <2>1. [Flow!Next]_(Flow!vars)
    BY FlowSteps
  <2> QED
    BY <2>1, FlowLimits, Flow!StepKeeps
<1> QED
  BY <1>1, <1>2, PTL DEF Spec, allVars

\* Both interpreters run instructions in the processor's order, and exceptions
\* return to where the program can resume (Interpreter refines ControlFlow).
THEOREM FlowKept == Spec => KeepsFlow
<1>1. Init => Flow!Flow!Init
  BY FlowStart
<1>2. Flow!IInv /\ [Next]_allVars =>
        [part = "flow" => UNCHANGED Flow!Flow!vars \/ Flow!Flow!Next]_flowVars
  <2> SUFFICES ASSUME Flow!IInv, [Next]_allVars
               PROVE  UNCHANGED Flow!Flow!vars \/ Flow!Flow!Next
    OBVIOUS
  <2>1. [Flow!Next]_(Flow!vars)
    BY FlowSteps
  <2> QED
    BY <2>1, FlowLimits, Flow!StepKeeps
<1> QED
  BY <1>1, <1>2, FlowInductive, PTL DEF Spec, allVars, KeepsFlow

-----------------------------------------------------------------------------
(* All of the machine.                                                     *)

\* The state of the part that is played is one that its code can have.
THEOREM TypesHold == Spec => []TypeOK
<1>1. Saves!IInv => Saves!TypeOK
  BY SavesConstants, Saves!Typed
<1>2. Code!IInv => Code!TypeOK
  BY Code!Typed
<1>3. Regs!IInv => Regs!TypeOK
  BY RegsLimits, Regs!Typed
<1>4. Flow!IInv => Flow!TypeOK
  BY FlowLimits, Flow!Types
<1>5. Saves!IInv /\ Code!IInv /\ Regs!IInv /\ Flow!IInv => TypeOK
  BY <1>1, <1>2, <1>3, <1>4 DEF TypeOK
<1> QED
  BY <1>5, SavesInductive, CodeInductive, RegsInductive, FlowInductive, PTL
=============================================================================
