----------------------------- MODULE Interrupts -----------------------------
(***************************************************************************)
(* The interrupt machinery of the emulated CPU: core/r4300/interrupt.cpp    *)
(* with the COP0 and RCP register writes that feed it (cop0.cpp, tlb.cpp    *)
(* ERET, memory.cpp, dma.cpp) and the part of savestates.cpp that saves and *)
(* restores the event queue.                                                *)
(*                                                                         *)
(* One thread runs all of it.  A basic block of the game ends in a branch,  *)
(* which advances Count and calls gen_interrupt() when next_interrupt has   *)
(* been reached; the instructions inside a block may write registers.       *)
(***************************************************************************)
EXTENDS InterruptQueue, FiniteSets

CONSTANTS
  BlockCycles,     \* Count cycles a branch's update_count() may add
  StoreCycles,     \* ... and one between two branches
  IdleGrain,       \* granularity of an idle loop's jump (4)
  BootCount,       \* Count of a machine that starts (0x5000)
  BootVi,          \* its next_vi (5000): already past
  ViDelay,         \* vi_register.vi_delay
  Devices,         \* the RCP units the game starts, of {"SI","PI","SP","DP"}
  DeviceDelay,     \* cycles until their event
  AiDelays,        \* playing times of the audio buffers the game queues
  TimerOffsets,    \* how far ahead of Count the game writes Compare
  RewriteHead,     \* whether it does so while COMPARE is the next event
  CountWrites,     \* values the game writes to Count
  Window,          \* bound: nothing is due in the last cycles before a roll-over
  MaxOps,          \* bound: register accesses inside one basic block
  PoolSize,        \* bound: events in the queue (g_pool has 128)
  Maskable,        \* the units whose mask bit the game writes
  Ackable,         \* the units whose interrupt it acknowledges
  StatusWrites,    \* the <<ie, exl, im>> the game writes to Status
  Sessions         \* bound: what a session uses, of {"timer","count","saves"}

NoCount == -1

ASSUME DelayAssumption ==
  /\ BlockCycles \subseteq 1 .. Sixteenth /\ StoreCycles \subseteq 0 .. Sixteenth
  /\ IdleGrain \in Nat \ {0} /\ BootCount \in Time /\ BootVi \in Time
  /\ ViDelay \in 1 .. Half - 1 /\ DeviceDelay \in 0 .. Half - 1
  /\ AiDelays \subseteq 0 .. Half - 1
  /\ Devices \subseteq {"SI", "PI", "SP", "DP"}
  /\ TimerOffsets \subseteq Time /\ CountWrites \subseteq Time
  /\ MaxOps \in Nat /\ Window \in Time /\ PoolSize \in Nat
  /\ Sessions \subseteq SUBSET {"timer", "count", "saves"}
  /\ RewriteHead \in BOOLEAN

RcpBits == {"VI", "SI", "PI", "AI", "SP", "DP"}
Lines   == {"RCP", "TIMER"}       \* Cause bits IP2 (0x400) and IP7 (0x8000)

ASSUME MaskAssumption ==
  /\ Maskable \subseteq RcpBits /\ Ackable \subseteq RcpBits
  /\ StatusWrites \subseteq BOOLEAN \X BOOLEAN \X SUBSET Lines

VARIABLES
  core_Count, core_Compare,
  ev,              \* q, next_interrupt and SPECIAL_done
  next_vi,
  mi,              \* MI_register: [intr, mask], sets of RCP units
  status,          \* core_Status: [ie, exl, im]
  ip,              \* the pending lines of core_Cause
  ai,              \* ai_status: idle, busy or full; next_delay when full
  skip_jump,       \* a delay slot's exception awaits the branch
  slot,            \* the instruction just run sits in a delay slot
  pc,              \* "run", "gen" (in gen_interrupt), "translate"
  count_write,     \* the value MTC0 Count is about to store
  ops,             \* register accesses since the last branch
  saved,           \* the savestate on disk
  manuf,           \* the "DMA already done" bit in rdram_device_manuf
  session          \* which of Compare, Count and savestates are used

timeVars == <<core_Count, core_Compare, ev, next_vi>>
cpuVars  == <<mi, status, ip, ai, skip_jump>>
auxVars  == <<slot, pc, count_write, ops>>
stVars   == <<saved, manuf, session>>
vars     == <<timeVars, cpuVars, auxVars, stVars>>

NoSave == [q |-> <<>>]
Idle   == [state |-> "idle", next |-> 0]

Init ==
  /\ core_Count = BootCount /\ core_Compare = 0
  /\ next_vi = BootVi /\ ev = InitQueue(BootVi, BootCount)
  /\ mi = [intr |-> {}, mask |-> {}]
  /\ status = [ie |-> FALSE, exl |-> FALSE, im |-> {}]
  /\ ip = {} /\ ai = Idle
  /\ skip_jump = FALSE /\ slot = FALSE
  /\ pc = "run" /\ count_write = NoCount /\ ops = 0
  /\ saved = NoSave /\ manuf = FALSE /\ session \in Sessions

Enabled(st)     == st.ie /\ ~st.exl                  \* (Status & 7) == 1
Asserted(m)     == m.intr \cap m.mask # {}           \* intr & mask
Room(n)         == Len(ev.q) + n <= PoolSize
Due(e, now)     == e.next <= now                     \* next_interrupt <= Count
\* An event due in the last cycles before Count rolls over can be jumped
\* across (see NotMissed); with Window > 0 the game is one that starts none.
Clear(t)        == t < M - Window
\* Inside a block, but not in the slot whose branch is still to come.
Straight        == pc = "run" /\ ~slot /\ Clear(core_Count)
                   /\ ops < MaxOps /\ ops' = ops + 1
Has(type)       == \E i \in 1 .. Len(ev.q) : ev.q[i].type = type

\* Mutant: the CHECK event is pushed whether or not interrupts are enabled.
CheckInterruptAlways(m, st, lines, e, now) ==
  LET new == IF Asserted(m) THEN lines \cup {"RCP"} ELSE lines \ {"RCP"}
  IN  /\ mi' = m /\ status' = st /\ ip' = new
      /\ ev' = IF st.im \cap new # {} THEN PushCheck(e, now) ELSE e

\* check_interrupt(), with the registers the caller has just written.
CheckInterrupt(m, st, lines, e, now) ==
  LET new == IF Asserted(m) THEN lines \cup {"RCP"} ELSE lines \ {"RCP"}
  IN  /\ mi' = m /\ status' = st /\ ip' = new
      /\ ev' = IF Enabled(st) /\ st.im \cap new # {}
               THEN PushCheck(e, now) ELSE e

\* `if (next_interrupt <= core_Count) gen_interrupt();'
ThenGen == pc' = IF Due(ev', core_Count') THEN "gen" ELSE "run"

-----------------------------------------------------------------------------
(* The game.                                                               *)

\* A branch: update_count() and the interrupt check.
Branch ==
  /\ pc = "run"
  /\ \E d \in BlockCycles : core_Count' = Plus(core_Count, d)
  /\ pc' = IF Due(ev, core_Count') THEN "gen" ELSE "run"
  /\ slot' = FALSE /\ ops' = 0
  /\ UNCHANGED <<core_Compare, ev, next_vi, cpuVars, count_write, stVars>>

\* Mutant: the distance to next_interrupt is not looked at as a signed number.
IdleSkipUnsigned ==
  /\ pc = "run" /\ ~slot
  /\ LET skip == Minus(ev.next, core_Count)
     IN  /\ skip >= IdleGrain
         /\ core_Count' = Plus(core_Count, skip - (skip % IdleGrain))
  /\ UNCHANGED <<core_Compare, ev, next_vi, cpuVars, auxVars, stVars>>

\* A branch to itself (J_IDLE, BEQ_IDLE, ...): Count jumps to just before
\* next_interrupt, and nothing is checked until the branch runs again.
IdleSkip ==
  /\ pc = "run" /\ ~slot
  /\ LET skip == Minus(ev.next, core_Count)
     IN  /\ skip >= IdleGrain /\ skip < Half
         /\ core_Count' = Plus(core_Count, skip - (skip % IdleGrain))
  /\ UNCHANGED <<core_Compare, ev, next_vi, cpuVars, auxVars, stVars>>

\* MTC0 Count: the pending interrupt first, then the translation.
Mtc0Count ==
  /\ Straight /\ Room(1) /\ "count" \in session
  /\ \E d \in StoreCycles : core_Count' = Plus(core_Count, d)
  /\ \E v \in CountWrites : count_write' = v
  /\ pc' = IF Due(ev, core_Count') THEN "gen" ELSE "translate"
  /\ UNCHANGED <<core_Compare, ev, next_vi, cpuVars, slot, stVars>>

TranslateCount ==
  /\ pc = "translate"
  /\ ev' = Translate(ev, count_write, core_Compare, core_Count)
  /\ core_Count' = count_write
  /\ pc' = "run" /\ count_write' = NoCount
  /\ UNCHANGED <<core_Compare, next_vi, cpuVars, slot, ops, stVars>>

\* MTC0 Compare: no interrupt check follows.
Mtc0Compare ==
  /\ Straight /\ Room(1) /\ "timer" \in session
  /\ RewriteHead \/ Head(ev.q).type # "COMPARE"
  /\ \E d \in StoreCycles : core_Count' = Plus(core_Count, d)
  /\ \E off \in TimerOffsets : core_Compare' = Plus(core_Count', off)
  /\ Clear(core_Compare')
  /\ ev' = AddEventCount(RemoveEvent(ev, "COMPARE"), "COMPARE",
                         core_Compare', core_Count')
  /\ ip' = ip \ {"TIMER"}
  /\ UNCHANGED <<next_vi, mi, status, ai, skip_jump, slot, pc, count_write, stVars>>

\* MTC0 Status: check_interrupt(), update_count(), gen_interrupt() if due.
Mtc0Status ==
  /\ Straight /\ Room(1)
  /\ \E s \in StatusWrites :
       CheckInterrupt(mi, [ie |-> s[1], exl |-> s[2], im |-> s[3]], ip, ev,
                      core_Count)
  /\ \E d \in StoreCycles : core_Count' = Plus(core_Count, d)
  /\ slot' \in BOOLEAN /\ ThenGen
  /\ UNCHANGED <<core_Compare, next_vi, ai, skip_jump, count_write, stVars>>

\* ERET leaves the exception level and checks again.
Eret ==
  /\ pc = "run" /\ ~slot /\ Room(1) /\ status.exl /\ ops < MaxOps
  /\ \E d \in BlockCycles : core_Count' = Plus(core_Count, d)
  /\ Clear(core_Count')
  /\ CheckInterrupt(mi, [status EXCEPT !.exl = FALSE], ip, ev, core_Count')
  /\ ThenGen /\ ops' = 0
  /\ UNCHANGED <<core_Compare, next_vi, ai, skip_jump, slot, count_write, stVars>>

\* A store to MI_INTR_MASK enables or disables one unit.
WriteMiMask ==
  /\ Straight /\ Room(1)
  /\ \E b \in Maskable :
       \E mask \in {mi.mask \cup {b}, mi.mask \ {b}} :
         CheckInterrupt([mi EXCEPT !.mask = mask], status, ip, ev, core_Count)
  /\ \E d \in StoreCycles : core_Count' = Plus(core_Count, d)
  /\ slot' \in BOOLEAN /\ ThenGen
  /\ UNCHANGED <<core_Compare, next_vi, ai, skip_jump, count_write, stVars>>

\* A store that acknowledges one unit (VI_CURRENT, SI_STATUS, PI_STATUS,
\* AI_STATUS, MI_INIT_MODE, SP_STATUS); SP_STATUS can also raise its own bit.
\* No gen_interrupt() follows before the next branch.
WriteRcpIntr ==
  /\ Straight /\ Room(1)
  /\ \/ \E b \in mi.intr \cap Ackable :
          CheckInterrupt([mi EXCEPT !.intr = @ \ {b}], status, ip, ev, core_Count)
     \/ /\ "SP" \in Devices \cap Ackable
        /\ CheckInterrupt([mi EXCEPT !.intr = @ \cup {"SP"}], status, ip, ev,
                          core_Count)
  /\ UNCHANGED <<core_Count, core_Compare, next_vi, ai, skip_jump, slot, pc,
                 count_write, stVars>>

\* A transfer or task of a unit other than SI reads starts; its event follows.
StartDevice ==
  /\ Straight /\ Room(1)
  /\ \E d \in StoreCycles : core_Count' = Plus(core_Count, d)
  /\ \E b \in Devices \ {"SI"} :
       /\ ~Has(b) /\ Clear(Plus(core_Count', DeviceDelay))
       /\ ev' = AddEvent(ev, b, DeviceDelay, core_Count')
  /\ UNCHANGED <<core_Compare, next_vi, cpuVars, slot, pc, count_write, stVars>>

\* Mutant: the busy flag is not looked at.
WriteAiLenAlways ==
  /\ Straight /\ Room(1)
  /\ \E delay \in AiDelays :
       /\ \E d \in StoreCycles : core_Count' = Plus(core_Count, d)
       /\ ev' = AddEvent(ev, "AI", delay, core_Count')
       /\ ai' = [ai EXCEPT !.state = "busy"]
  /\ UNCHANGED <<core_Compare, next_vi, mi, status, ip, skip_jump, slot, pc, count_write, stVars>>

\* A store to AI_LEN: a second buffer waits in the registers.
WriteAiLen ==
  /\ Straight /\ Room(1)
  /\ \E delay \in AiDelays :
       IF ai.state # "idle"
       THEN /\ Clear(Plus(GetEvent(ev, "AI"), delay))
            /\ ai' = [state |-> "full", next |-> delay]
            /\ UNCHANGED <<core_Count, ev>>
       ELSE /\ \E d \in StoreCycles : core_Count' = Plus(core_Count, d)
            /\ Clear(Plus(core_Count', delay))
            /\ ev' = AddEvent(ev, "AI", delay, core_Count')
            /\ ai' = [ai EXCEPT !.state = "busy"]
  /\ UNCHANGED <<core_Compare, next_vi, mi, status, ip, skip_jump, slot, pc, count_write, stVars>>

-----------------------------------------------------------------------------
(* A serial read: dma_si_read().  update_pif_read() may run savestate work   *)
(* before the SI event is added, and g_st_skip_dma then suppresses it.  The  *)
(* driver starts no read while one is under way.                            *)

StartSiRead == Straight /\ Room(1) /\ "SI" \in Devices /\ ~Has("SI")

SiRead ==
  /\ StartSiRead
  /\ \E d \in StoreCycles : core_Count' = Plus(core_Count, d)
  /\ Clear(Plus(core_Count', DeviceDelay))
  /\ ev' = AddEvent(ev, "SI", DeviceDelay, core_Count')
  /\ UNCHANGED <<core_Compare, next_vi, cpuVars, slot, pc, count_write, stVars>>

\* generate_savestate(): the queue is copied to its buffer, then the SI event
\* is added to the running machine and the bit is set, then the registers
\* (Count and next_interrupt among them) are written.
SiReadSave ==
  /\ "saves" \in session /\ StartSiRead
  /\ \E d \in StoreCycles : core_Count' = Plus(core_Count, d)
  /\ LET absent == GetEvent(ev, "SI") = 0
         hack   == IF absent THEN AddEvent(ev, "SI", DeviceDelay, core_Count')
                   ELSE ev
     IN  /\ manuf' = (manuf \/ absent)
         /\ saved' = [q |-> ev.q, count |-> core_Count', compare |-> core_Compare,
                      next |-> hack.next, next_vi |-> next_vi, mi |-> mi,
                      status |-> status, ip |-> ip, ai |-> ai, manuf |-> manuf']
         /\ ev' = IF absent THEN hack
                  ELSE AddEvent(ev, "SI", DeviceDelay, core_Count')
  /\ UNCHANGED <<core_Compare, next_vi, cpuVars, slot, pc, count_write, session>>

\* savestates_load_immediate_impl(): load_eventqueue_infos() runs before
\* load_memory_from_buffer() brings the saved Count.
SiReadLoad ==
  /\ "saves" \in session /\ StartSiRead /\ saved # NoSave
  /\ core_Count' = saved.count /\ core_Compare' = saved.compare
  /\ next_vi' = saved.next_vi
  /\ mi' = saved.mi /\ status' = saved.status /\ ip' = saved.ip /\ ai' = saved.ai
  /\ manuf' = FALSE
  /\ LET loaded == [LoadQueue(ev, saved.q, core_Count) EXCEPT !.next = saved.next]
     IN  ev' = IF saved.manuf THEN loaded
               ELSE AddEvent(loaded, "SI", DeviceDelay, saved.count)
  /\ UNCHANGED <<skip_jump, slot, pc, count_write, saved, session>>

-----------------------------------------------------------------------------
(* gen_interrupt(): the event at the head of the queue.                     *)

\* The common end: Cause, then exception_general() unless masked.  The code at
\* the exception vector begins with a jump: nothing else runs before a branch.
Finish(type, e, m) ==
  LET timer == IF type = "COMPARE" THEN ip \cup {"TIMER"} ELSE ip
      new   == IF type # "CHECK" /\ Asserted(m) THEN timer \cup {"RCP"} ELSE timer
      raise == \/ type = "CHECK"
               \/ Asserted(m) /\ Enabled(status) /\ status.im \cap new # {}
  IN  /\ mi' = m /\ ip' = new
      /\ status' = [status EXCEPT !.exl = @ \/ raise]
      /\ skip_jump' = (raise /\ slot)
      /\ ev' = IF raise /\ slot THEN [e EXCEPT !.next = 0] ELSE e
      /\ ops' = IF raise THEN MaxOps ELSE ops

Raised(b) == [mi EXCEPT !.intr = @ \cup {b}]

Generating(type) == pc = "gen" /\ ~skip_jump /\ Head(ev.q).type = type

Return == /\ pc' = IF count_write # NoCount THEN "translate" ELSE "run"
          /\ UNCHANGED <<core_Count, core_Compare, slot, count_write, stVars>>

\* The branch whose delay slot took an exception.
GenSkipJump ==
  /\ pc = "gen" /\ skip_jump
  /\ ev' = [ev EXCEPT !.next = NextInterrupt(ev.q, core_Count)]
  /\ skip_jump' = FALSE
  /\ ops' = MaxOps
  /\ Return /\ UNCHANGED <<next_vi, mi, status, ip, ai>>

\* Spammed until Count has rolled over, then rescheduled for the next time.
GenSpecial ==
  /\ Generating("SPECIAL")
  /\ ev' = IF core_Count > Sixteenth THEN ev
           ELSE AddEventCount(RemoveHead(ev, core_Count), "SPECIAL", 0, core_Count)
  /\ Return /\ UNCHANGED <<next_vi, cpuVars, ops>>

\* Mutants: the next VI event is forgotten; it is counted from Count.
GenVILost ==
  /\ Generating("VI")
  /\ next_vi' = Plus(next_vi, ViDelay)
  /\ Finish("VI", RemoveHead(ev, core_Count), Raised("VI"))
  /\ Return /\ UNCHANGED ai

GenVIDrifting ==
  /\ Generating("VI")
  /\ next_vi' = Plus(next_vi, ViDelay)
  /\ Finish("VI", AddEvent(RemoveHead(ev, core_Count), "VI", ViDelay, core_Count),
            Raised("VI"))
  /\ Return /\ UNCHANGED ai

GenVI ==
  /\ Generating("VI")
  /\ next_vi' = Plus(next_vi, ViDelay)
  /\ Finish("VI", AddEventCount(RemoveHead(ev, core_Count), "VI", next_vi', core_Count),
            Raised("VI"))
  /\ Return /\ UNCHANGED ai

\* Count is moved on by 2 while COMPARE is added for the next round.
GenCompare ==
  /\ Generating("COMPARE")
  /\ Finish("COMPARE",
            AddEventCount(RemoveHead(ev, core_Count), "COMPARE", core_Compare,
                          Plus(core_Count, 2)), mi)
  /\ Return /\ UNCHANGED <<next_vi, ai>>

GenCheck ==
  /\ Generating("CHECK")
  /\ Finish("CHECK", RemoveHead(ev, core_Count), mi)
  /\ Return /\ UNCHANGED <<next_vi, ai>>

GenDevice(b) ==
  /\ Generating(b)
  /\ Finish(b, RemoveHead(ev, core_Count), Raised(b))
  /\ Return /\ UNCHANGED <<next_vi, ai>>

\* An RSP task that ended without asking for an interrupt: nothing follows.
GenSpSilent ==
  /\ Generating("SP")
  /\ ev' = RemoveHead(ev, core_Count)
  /\ Return /\ UNCHANGED <<next_vi, cpuVars, ops>>

\* The next buffer starts where the one just played ended.
GenAI ==
  /\ Generating("AI")
  /\ LET rest == RemoveHead(ev, core_Count)
         next == Plus(GetEvent(ev, "AI"), ai.next)
     IN  IF ai.state = "full"
         THEN /\ ai' = [ai EXCEPT !.state = "busy"]
              /\ Finish("AI", AddEventCount(rest, "AI", next, core_Count), Raised("AI"))
         ELSE /\ ai' = Idle
              /\ Finish("AI", rest, Raised("AI"))
  /\ Return /\ UNCHANGED next_vi

Gen == GenSkipJump \/ GenSpecial \/ GenVI \/ GenCompare \/ GenCheck \/ GenSpSilent
       \/ GenAI \/ \E b \in {"SI", "PI", "SP", "DP"} : GenDevice(b)

Game == Branch \/ IdleSkip \/ Mtc0Count \/ TranslateCount \/ Mtc0Compare \/ Mtc0Status \/ Eret
        \/ WriteMiMask \/ WriteRcpIntr \/ StartDevice \/ WriteAiLen
        \/ SiRead \/ SiReadSave \/ SiReadLoad

Next == Game \/ Gen

Spec == Init /\ [][Next]_vars

\* The processor runs on, and the program it runs branches again and again.
FairSpec == Spec /\ WF_vars(Gen) /\ WF_vars(TranslateCount) /\ SF_vars(Branch)

-----------------------------------------------------------------------------
(* Properties.                                                             *)

Saved == [q : Seq(Event), count : Time, compare : Time, next : Time,
          next_vi : Time, mi : [intr : SUBSET RcpBits, mask : SUBSET RcpBits],
          status : [ie : BOOLEAN, exl : BOOLEAN, im : SUBSET Lines],
          ip : SUBSET Lines, manuf : BOOLEAN,
          ai : [state : {"idle", "busy", "full"}, next : Time]]

\* Every register and every queued event stays within the width of Count.
TypeOK ==
  /\ core_Count \in Time /\ core_Compare \in Time /\ next_vi \in Time
  /\ ev \in Queue
  /\ mi \in [intr : SUBSET RcpBits, mask : SUBSET RcpBits]
  /\ status \in [ie : BOOLEAN, exl : BOOLEAN, im : SUBSET Lines]
  /\ ip \in SUBSET Lines
  /\ ai \in [state : {"idle", "busy", "full"}, next : Time]
  /\ skip_jump \in BOOLEAN /\ slot \in BOOLEAN
  /\ pc \in {"run", "gen", "translate"}
  /\ count_write \in Time \cup {NoCount}
  /\ (pc = "translate" => count_write \in Time)
  /\ ops \in Nat /\ manuf \in BOOLEAN
  /\ saved \in Saved \cup {NoSave} /\ session \in Sessions

Events(type) == {i \in 1 .. Len(ev.q) : ev.q[i].type = type}

\* The VI and SPECIAL events keep each other alive only by being re-added from
\* their own handlers: exactly one of each is queued at any time, so
\* gen_interrupt() never finds the queue empty (it reads q->type unchecked).
Heartbeat == HasOne(ev.q, "VI") /\ HasOne(ev.q, "SPECIAL")

\* The audio double buffer: an AI event is queued exactly while the unit is
\* busy, never two, whatever the order of AI_LEN stores and AI interrupts.
AudioPairing ==
  Cardinality(Events("AI")) = IF ai.state = "idle" THEN 0 ELSE 1

\* No event is handled before Count has reached its time (SPECIAL, which is
\* polled, excepted).
Reached(e) == Minus(core_Count, e.count) < Half
NotEarly ==
  [][pc = "gen" /\ ~skip_jump /\ ev' # ev /\ Head(ev.q).type # "SPECIAL"
       => Reached(Head(ev.q))]_vars

\* An event whose time has come is never left behind: once Count has passed it
\* the next branch calls gen_interrupt().  (COMPARE is armed again at the very
\* count it fired at, for the next round: OnTime covers it.)
NotMissed ==
  pc = "run" => \A i \in 1 .. Len(ev.q) :
    ev.q[i].type \notin {"SPECIAL", "COMPARE"}
    /\ Minus(core_Count, ev.q[i].count) < Sixteenth
      => Due(ev, core_Count)

\* At the moment Count reaches or passes the time of any event, the interrupt
\* check is due.
Crossed(e) == Minus(e.count, core_Count) \in 1 .. Minus(core_Count', core_Count)
OnTime ==
  [][Branch => \A i \in 1 .. Len(ev.q) :
       ev.q[i].type # "SPECIAL" /\ Crossed(ev.q[i]) => pc' = "gen"]_vars

\* The jump of an idle loop passes over no event.
IdleSafe ==
  [][IdleSkip => \A i \in 1 .. Len(ev.q) :
       ev.q[i].type # "SPECIAL" => ~Crossed(ev.q[i]) \/ ev.q[i].count = core_Count']_vars

\* The events ahead of Count are queued in the order they are due, separately
\* on each side of the roll-over that SPECIAL marks.
Ahead(i)   == Minus(ev.q[i].count, core_Count) \in 1 .. Half - 1
Barrier(i) == \E j \in 1 .. i - 1 : ev.q[j].type = "SPECIAL"
Sorted ==
  \A i, j \in 1 .. Len(ev.q) :
    /\ i < j /\ Barrier(i) = Barrier(j) /\ Ahead(i) /\ Ahead(j)
    /\ "SPECIAL" \notin {ev.q[i].type, ev.q[j].type}
    => Minus(ev.q[i].count, core_Count) <= Minus(ev.q[j].count, core_Count)

\* The VI event is due at next_vi, so that fields follow each other at
\* intervals of exactly vi_delay and VI_CURRENT is computed from the right base.
ViSchedule == \A i \in Events("VI") : ev.q[i].count = next_vi

\* Writing Count moves the time base and nothing else: every unit's event stays
\* as far away as it was.
Delays(e, now) == {<<e.q[i].type, Minus(e.q[i].count, now)>> :
                     i \in {j \in 1 .. Len(e.q) : e.q[j].type \notin {"COMPARE", "SPECIAL"}}}
CountWriteKeepsDelays ==
  [][TranslateCount => Delays(ev', core_Count') = Delays(ev, core_Count)]_vars

\* A load brings back exactly the saved events, at their saved times, whatever
\* the queue and the Count of the machine it is loaded into.
LoadKeepsEvents ==
  [][SiReadLoad => {e \in EventSet(ev'.q) : e.type # "SI"}
                     = {e \in EventSet(saved.q) : e.type # "SI"}]_vars

\* An unmasked RCP interrupt is never forgotten: while the processor accepts
\* it, the next branch takes it.
RcpDelivered ==
  pc = "run" /\ Enabled(status) /\ "RCP" \in ip \cap status.im
    => Due(ev, core_Count)

\* The same for the COMPARE timer.
TimerDelivered ==
  pc = "run" /\ Enabled(status) /\ "TIMER" \in ip \cap status.im
    => Due(ev, core_Count)

\* A CHECK event takes an exception only when interrupts are enabled and one
\* is pending.
CheckJustified ==
  [][GenCheck => Enabled(status) /\ status.im \cap ip # {}]_vars

\* A state that tells dma_si_read() not to add the SI event carries that event.
SavedSiPaired ==
  saved # NoSave /\ saved.manuf => \E i \in 1 .. Len(saved.q) : saved.q[i].type = "SI"

\* Vertical interrupts never stop.
ViForever == []<><<GenVI>>_vars
=============================================================================
