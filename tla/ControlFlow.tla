---------------------------- MODULE ControlFlow ----------------------------
(* The order in which the R4300 runs instructions: delay slots, likely      *)
(* branches, exceptions with their return address, and TLB refills.  What   *)
(* an instruction computes is left out, and so whether a branch is taken.   *)
EXTENDS Integers, Sequences

CONSTANTS W,          \* words of a page
          MappedWords,  \* the addresses of code that the TLB maps
          RefillVector, GeneralVector

VARIABLES code,       \* address -> instruction
          pc,
          branch,     \* the branch whose delay slot pc is, if any
          epc, bd, exl, \* EPC, and bits of Cause and Status
          cause,      \* why the exception was taken, and for what page
          ra,         \* the link register
          tlb,        \* the mapped pages
          done        \* the instruction that was completed last

vars == <<code, pc, branch, epc, bd, exl, cause, ra, tlb, done>>
status == <<epc, bd, exl, cause>>

Page(a)    == a \div W
Present(a) == a \in MappedWords => Page(a) \in tlb
Op(name)   == Present(pc) /\ code[pc].op = name

\* The instruction completes: what follows is the branch's target after a
\* delay slot, which is when a call is linked, or the next instruction.
Complete ==
  /\ done' = pc
  /\ branch' = <<>>
  /\ IF branch = <<>> THEN pc' = pc + 1 /\ UNCHANGED ra
     ELSE /\ pc' = branch[1].to
          /\ ra' = IF branch[1].link THEN pc + 1 ELSE ra

Ordinary ==
  /\ Op("nop") \/ Op("mtc0") \/ Op("cop1") \/ (Op("load") /\ code[pc].page \in tlb)
  /\ Complete /\ UNCHANGED <<code, status, tlb>>

\* A branch goes to its target, or past its delay slot, after that slot.
Target == IF code[pc].op \in {"jr", "jalr"} THEN ra ELSE code[pc].to
Branch(to, link) ==
  /\ branch = <<>>
  /\ branch' = <<[to |-> to, link |-> link]>>
  /\ pc' = pc + 1 /\ done' = pc
  /\ UNCHANGED <<code, status, ra, tlb>>

Branches ==
  \/ Op("j") /\ Branch(Target, FALSE)
  \/ (Op("jal") \/ Op("jalr")) /\ Branch(Target, TRUE)
  \/ Op("jr") /\ Branch(Target, FALSE)
  \/ Op("beq") /\ \E to \in {Target, pc + 2} : Branch(to, FALSE)
  \/ Op("beql") /\ Branch(Target, FALSE)

\* A likely branch that is not taken skips its delay slot.
Nullify ==
  /\ Op("beql") /\ branch = <<>>
  /\ pc' = pc + 2 /\ done' = pc
  /\ UNCHANGED <<code, branch, status, ra, tlb>>

\* An exception returns to the instruction that could not run, or to the
\* branch before it.
Trap(why, page, vector) ==
  /\ ~exl
  /\ exl' = TRUE /\ cause' = <<why, page>>
  /\ bd' = (branch # <<>>)
  /\ epc' = IF branch # <<>> THEN pc - 1 ELSE pc
  /\ pc' = vector /\ branch' = <<>>
  /\ UNCHANGED <<code, ra, tlb, done>>

Traps ==
  \/ ~Present(pc) /\ Trap("fetch", Page(pc), RefillVector)
  \/ Op("load") /\ code[pc].page \notin tlb /\ Trap("load", code[pc].page, RefillVector)
  \/ Op("syscall") /\ Trap("syscall", 0, GeneralVector)
  \/ Op("cop1") /\ Trap("cop1", 0, GeneralVector)
  \/ branch = <<>> /\ Trap("interrupt", 0, GeneralVector)

\* What handlers do: map the missing page, at the expense of another; return
\* past a fault; return.
Refilled(evicted) == (tlb \ evicted) \cup {cause[2]}
Tlbw ==
  /\ Op("tlbw")
  /\ \E evicted \in {{}} \cup {{p} : p \in code[pc].evict} : tlb' = Refilled(evicted)
  /\ Complete /\ UNCHANGED <<code, status>>
Past == IF cause[1] \in {"syscall", "cop1"} THEN epc + (IF bd THEN 2 ELSE 1) ELSE epc
SetEpc ==
  /\ Op("epc") /\ epc' = Past
  /\ Complete /\ UNCHANGED <<code, bd, exl, cause, tlb>>
Eret ==
  /\ Op("eret")
  /\ pc' = epc /\ exl' = FALSE /\ done' = pc
  /\ UNCHANGED <<code, branch, epc, bd, cause, ra, tlb>>

Init ==
  /\ branch = <<>> /\ epc = 0 /\ bd = FALSE /\ exl = FALSE
  /\ cause = <<"none", 0>> /\ done = 0

Next == Ordinary \/ Branches \/ Nullify \/ Traps \/ Tlbw \/ SetEpc \/ Eret

Spec == Init /\ [][Next]_vars
=============================================================================
