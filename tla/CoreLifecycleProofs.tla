------------------------ MODULE CoreLifecycleProofs ------------------------
(***************************************************************************)
(* Starting, closing and resetting keep the save files open while the core  *)
(* runs, never assign over a live thread, and keep CoreContract, for every  *)
(* number of calls and of files.                                            *)
EXTENDS CoreLifecycle, FiniteSetTheorems, TLAPS

-----------------------------------------------------------------------------
(* The inductive invariant.                                                *)

\* What the thread that holds emu_cs is doing.
Inside == {"begin", "check", "close", "audio", "signal", "join", "files", "load", "open",
           "spawn", "spin"}
Place   == IF owner = NoJob THEN "free" ELSE call[owner].at
Purpose == IF owner = NoJob THEN "none" ELSE call[owner].op

\* Where core.launched and core.executing are set.
Up      == {"load", "tell", "start", "run", "op", "poll", "wait", "paused", "unload"}
Running == {"run", "op", "poll", "wait", "paused"}

Faulty(f) == f \in session.faults
Failed == \E j \in Jobs : call[j].op = "reset" /\ call[j].answer \in {"Error", "NotRunning"}
Saving == {j \in Jobs : call[j].op = "save" /\ call[j].at # "done"}

Ops     == {"none", "start", "close", "reset", "save", "exit"}
Answers == {"none", "Ok", "Busy", "NotRunning", "Error"}
Call    == [op : Ops, wait : BOOLEAN, at : CallPlaces, answer : Answers]
CallOK  == call \in [Jobs -> Call]

\* The types of the rest.
CoreFlags == [launched : BOOLEAN, paused : BOOLEAN, executing : BOOLEAN, stop : BOOLEAN,
              resetting : BOOLEAN, frame : BOOLEAN, wait : Nat]
StateOK ==
  /\ session \in Sessions
  /\ core \in CoreFlags
  /\ emu \in EmuPlaces
  /\ audio \in [thread : {"none", "run", "finished"}, stop : BOOLEAN]
  /\ owner \in Jobs \cup {NoJob} /\ worker \in Jobs \cup {NoJob}
  /\ queue \in Seq([key : Keys, job : Jobs])
  /\ handles \in [1..Files -> Nat]
  /\ told \in [launched : BOOLEAN, starting : BOOLEAN]
  /\ process \in {"pump", "destroy", "gone", "aborted"}
  /\ users \in 0..MaxUser

\* One thread is inside the lock, and it is the owner's.
LockOK == \A j \in Jobs : owner = j <=> call[j].at \in Inside

JobOK(c) ==
  /\ c.at = "none" <=> c = NoCall
  /\ c.op = "none" => c.at = "none"
  /\ c.at # "done" => c.answer = "none"
  /\ c.at \in Inside => c.op # "save"
  /\ c.at = "check" => c.op # "start"
  /\ c.at \in {"begin", "load", "open", "spawn", "spin"} => c.op \in {"start", "reset"}
JobsOK == \A j \in Jobs : JobOK(call[j])

QueueOK ==
  \A i \in DOMAIN queue :
    /\ call[queue[i].job].at = "queued"
    /\ \A k \in DOMAIN queue : queue[i].job = queue[k].job => i = k

\* The parts of the invariant that speak of the calls alone.
CallsOK == CallOK /\ LockOK /\ JobsOK /\ QueueOK

\* The poll waits for as many jobs as there are.
WaitOK == core.wait = Cardinality(Saving)

\* The core's flags say where its thread is.
FlagsOK ==
  /\ core.launched <=> emu \in Up
  /\ core.executing <=> emu \in Running
  /\ core.resetting => Purpose = "reset" /\ Place \in Inside \ {"begin", "check"}

\* What a call does fits where the thread is: a machine that is not faulty
\* ends because a call has told it to, and while that call waits for it.
StageOK ==
  /\ emu \in {"load", "tell", "start"} => Place = "spin"
  /\ Place \in {"audio", "signal", "join"} => emu \notin {"none", "load", "tell", "start"}
  /\ Place = "files" => emu = "none"
  /\ Place \in {"load", "open", "spawn"} => emu \in {"none", "ended", "finished"}
  /\ Place = "spin" => emu # "none"
  /\ ~Faulty("cpu") =>
       /\ Place = "close" => emu \in Running
       /\ Place \in {"load", "open", "spawn"} => emu = "none"
       /\ emu \in Running /\ core.stop => Place = "join"
       /\ emu \in {"unload", "ended", "finished"} => Place = "join"

\* The audio thread lives from the load to the first join of a close.
AudioOK ==
  /\ audio.stop <=> Place = "audio"
  /\ audio.thread = "finished" => Place = "audio"
  /\ audio.thread # "none" => emu \notin {"none", "load"}
  /\ Place \in {"signal", "join"} => audio.thread = "none"

\* The files are open from before the spawn to after the join.
Opened == (IF emu # "none" \/ Place = "files" THEN 1 ELSE 0) + (IF Place = "spawn" THEN 1 ELSE 0)
FilesOK ==
  \A f \in 1..Files :
    /\ handles[f] >= Opened
    /\ ~Faulty("open") => handles[f] = Opened

ToldOK == emu \in {"none", "finished"} /\ told.launched => Failed \/ core.resetting

Order == FlagsOK /\ StageOK /\ AudioOK /\ FilesOK /\ ToldOK

\* The end of the program by a thread assigned over another.
AbortOK == Faulty("cpu") /\ emu # "none" /\ \A f \in 1..Files : handles[f] >= 1

IInv ==
  /\ StateOK /\ CallsOK /\ WaitOK
  /\ process # "aborted" => Order
  /\ process = "aborted" => AbortOK

-----------------------------------------------------------------------------
(* What a change of one call leaves alone.                                 *)

LEMMA InsidePlaces == Inside \subseteq CallPlaces /\ {"free", "none", "queued", "lock", "done"} \cap Inside = {}
  BY DEF Inside, CallPlaces

LEMMA JobsAreNumbers == Jobs \subseteq Nat \ {NoJob} /\ IsFiniteSet(Jobs)
  BY CoreBounds, FS_Interval DEF Jobs, NoJob

LEMMA SavingFinite == IsFiniteSet(Saving)
  BY JobsAreNumbers, FS_Subset DEF Saving

\* Where the holder of the lock is.
LEMMA AtPlace ==
  ASSUME LockOK, NEW j \in Jobs, call[j].at \in Inside
  PROVE  owner = j /\ Place = call[j].at /\ Purpose = call[j].op
  BY JobsAreNumbers DEF LockOK, Place, Purpose

LEMMA PlaceInside ==
  ASSUME LockOK, owner \in Jobs \cup {NoJob}
  PROVE  Place \in Inside \cup {"free"} /\ (Place \in Inside <=> owner # NoJob)
  BY InsidePlaces DEF LockOK, Place

\* The holder goes from one place to another.
LEMMA GoToStep ==
  ASSUME CallsOK, NEW j \in Jobs, call[j].at \in Inside,
         NEW p \in Inside, GoTo(j, p), UNCHANGED <<owner, queue>>,
         p = "check" => call[j].op # "start",
         p \in {"begin", "load", "open", "spawn", "spin"} => call[j].op \in {"start", "reset"}
  PROVE  /\ CallsOK'
         /\ Saving' = Saving
         /\ Place' = p /\ Purpose' = Purpose
         /\ Failed' = Failed
<1> DEFINE c == [call[j] EXCEPT !.at = p]
<1>1. call' = [call EXCEPT ![j] = c] /\ call[j] \in Call
  BY DEF GoTo, CallsOK, CallOK, Call
<1>2. c \in Call /\ c.at = p /\ c.op = call[j].op /\ c.answer = call[j].answer /\ c.wait = call[j].wait
  BY <1>1, InsidePlaces DEF Call
<1>3. \A k \in Jobs : call'[k] = IF k = j THEN c ELSE call[k]
  BY <1>1 DEF CallsOK, CallOK
<1>4. CallOK'
  BY <1>1, <1>2 DEF CallsOK, CallOK, Call
<1>5. owner = j /\ Purpose = call[j].op
  BY AtPlace DEF CallsOK
<1> HIDE DEF c
<1>6. LockOK'
  BY <1>2, <1>3 DEF CallsOK, LockOK
<1>7. JobOK(call[j])
  BY DEF CallsOK, JobsOK
<1>8. p # "none" /\ p # "done" /\ call[j].at \notin {"none", "done"}
  BY DEF Inside
<1>9. JobOK(c)
  BY <1>2, <1>7, <1>8 DEF JobOK, NoCall
<1>10. JobsOK'
  BY <1>3, <1>9 DEF CallsOK, JobsOK
<1>11. QueueOK'
  <2>1. \A i \in DOMAIN queue : queue[i].job # j
    BY InsidePlaces DEF CallsOK, QueueOK
  <2>2. \A i \in DOMAIN queue : call'[queue[i].job] = call[queue[i].job]
    BY <1>1, <2>1 DEF CallsOK, CallOK
  <2> QED
    BY <2>2 DEF CallsOK, QueueOK
<1>12. Saving' = Saving
  BY <1>2, <1>3, <1>8 DEF Saving
<1>13. Place' = p /\ Purpose' = Purpose
  BY <1>2, <1>3, <1>5, JobsAreNumbers DEF Place, Purpose
<1>14. Failed' = Failed
  BY <1>2, <1>3 DEF Failed
<1> QED
  BY <1>4, <1>6, <1>10, <1>11, <1>12, <1>13, <1>14 DEF CallsOK

\* The holder returns.
LEMMA ReturnStep ==
  ASSUME CallsOK, NEW j \in Jobs, call[j].at \in Inside,
         NEW r \in Answers \ {"none"}, Return(j, r), UNCHANGED queue
  PROVE  /\ CallsOK'
         /\ Saving' = Saving
         /\ Place' = "free" /\ Purpose' = "none" /\ owner' = NoJob
         /\ Failed => Failed'
         /\ Purpose = "reset" /\ r \in {"Error", "NotRunning"} => Failed'
<1> DEFINE c == [call[j] EXCEPT !.at = "done", !.answer = r]
<1>1. call' = [call EXCEPT ![j] = c] /\ call[j] \in Call
  BY DEF Return, CallsOK, CallOK, Call
<1>2. c \in Call /\ c.at = "done" /\ c.op = call[j].op /\ c.answer = r /\ c.wait = call[j].wait
  BY <1>1 DEF Call, CallPlaces
<1>3. \A k \in Jobs : call'[k] = IF k = j THEN c ELSE call[k]
  BY <1>1 DEF CallsOK, CallOK
<1>4. CallOK'
  BY <1>1, <1>2 DEF CallsOK, CallOK, Call
<1>5. owner = j /\ Purpose = call[j].op
  BY AtPlace DEF CallsOK
<1> HIDE DEF c
<1>6. owner' = NoJob
  BY <1>5 DEF Return
<1>7. LockOK'
  <2>1. \A k \in Jobs : call'[k].at \notin Inside
    BY <1>2, <1>3, <1>5, InsidePlaces DEF CallsOK, LockOK
  <2> QED
    BY <1>6, <2>1, JobsAreNumbers DEF LockOK
<1>8. JobOK(call[j])
  BY DEF CallsOK, JobsOK
<1>9. call[j].at \notin {"none", "done"}
  BY DEF Inside
<1>10. JobOK(c)
  BY <1>2, <1>8, <1>9, InsidePlaces DEF JobOK, NoCall
<1>11. JobsOK'
  BY <1>3, <1>10 DEF CallsOK, JobsOK
<1>12. QueueOK'
  <2>1. \A i \in DOMAIN queue : queue[i].job # j
    BY InsidePlaces DEF CallsOK, QueueOK
  <2>2. \A i \in DOMAIN queue : call'[queue[i].job] = call[queue[i].job]
    BY <1>1, <2>1 DEF CallsOK, CallOK
  <2> QED
    BY <2>2 DEF CallsOK, QueueOK
<1>13. call[j].op # "save"
  BY <1>8 DEF JobOK
<1>14. Saving' = Saving
  BY <1>2, <1>3, <1>13 DEF Saving
<1>15. Place' = "free" /\ Purpose' = "none"
  BY <1>6 DEF Place, Purpose
<1>16. call[j].answer = "none"
  BY <1>8, <1>9 DEF JobOK
<1>17. Failed => Failed'
  BY <1>2, <1>3, <1>16 DEF Failed
<1>18. Purpose = "reset" /\ r \in {"Error", "NotRunning"} => Failed'
  BY <1>2, <1>3, <1>5 DEF Failed
<1> QED
  BY <1>4, <1>6, <1>7, <1>11, <1>12, <1>14, <1>15, <1>17, <1>18 DEF CallsOK

\* A call outside the lock stays outside of it.
LEMMA OutsideStep ==
  ASSUME CallsOK, NEW j \in Jobs, call[j].at \notin Inside \cup {"done"},
         NEW c \in Call, c.at \notin Inside, JobOK(c),
         call' = [call EXCEPT ![j] = c], owner' = owner
  PROVE  /\ CallOK' /\ LockOK' /\ JobsOK'
         /\ \A k \in Jobs : call'[k] = IF k = j THEN c ELSE call[k]
         /\ Place' = Place /\ Purpose' = Purpose
         /\ Failed => Failed'
<1>1. CallOK'
  BY DEF CallsOK, CallOK, Call
<1>2. \A k \in Jobs : call'[k] = IF k = j THEN c ELSE call[k]
  BY DEF CallsOK, CallOK
<1>3. LockOK'
  BY <1>2 DEF CallsOK, LockOK
<1>4. JobsOK'
  BY <1>2 DEF CallsOK, JobsOK
<1>5. owner # j
  BY DEF CallsOK, LockOK
<1>6. owner # NoJob => call'[owner] = call[owner]
  BY <1>5 DEF CallsOK, CallOK
<1>7. Place' = Place /\ Purpose' = Purpose
  BY <1>6 DEF Place, Purpose
<1>8. call[j].answer = "none"
  BY DEF CallsOK, JobsOK, JobOK
<1>9. Failed => Failed'
  BY <1>2, <1>8 DEF Failed
<1> QED
  BY <1>1, <1>2, <1>3, <1>4, <1>7, <1>9

\* A step that touches no call.
LEMMA NoCallStep ==
  ASSUME UNCHANGED <<call, owner, queue>>
  PROVE  /\ CallsOK' = CallsOK
         /\ Saving' = Saving
         /\ Place' = Place /\ Purpose' = Purpose
         /\ Failed' = Failed
  BY DEF CallsOK, CallOK, LockOK, JobsOK, JobOK, QueueOK, Saving, Place, Purpose, Failed

-----------------------------------------------------------------------------
(* The callers.                                                            *)

LEMMA AliveOrder == IInv /\ Alive => Order
  BY DEF IInv, Alive

LEMMA KeepAlive ==
  ASSUME Alive, process' = process, StateOK', CallsOK', WaitOK', Order'
  PROVE  IInv'
  BY DEF Alive, IInv

LEMMA CheckStep == ASSUME IInv, NEW j \in Jobs, Check(j) PROVE IInv'
<1>1. CallsOK /\ call[j].at = "check" /\ call[j].at \in Inside /\ Alive
  BY DEF Check, IInv, Inside
<1>2. Place = "check" /\ Purpose = call[j].op /\ owner = j /\ Order /\ core \in CoreFlags
  BY <1>1, AtPlace, AliveOrder DEF CallsOK, IInv, StateOK
<1>3. CASE core.launched
  <2>1. GoTo(j, "close") /\ UNCHANGED <<owner, queue>> /\ "close" \in Inside
    BY <1>3 DEF Check, Inside
  <2>2. CallsOK' /\ Saving' = Saving /\ Place' = "close" /\ Purpose' = Purpose /\ Failed' = Failed
    BY <1>1, <2>1, GoToStep
  <2>3. core' \in CoreFlags /\ core' = [core EXCEPT !.frame = core'.frame, !.resetting = core'.resetting]
        /\ (core'.resetting => core.resetting \/ call[j].op = "reset")
        /\ (core.resetting => core'.resetting)
    BY <1>2, <1>3 DEF Check, CoreFlags
  <2>4. StateOK'
    BY <1>3, <2>1, <2>3 DEF Check, IInv, StateOK
  <2>5. WaitOK'
    BY <1>2, <2>2, <2>3 DEF CoreFlags, IInv, WaitOK
  <2>6. process' = process /\ process # "aborted"
    BY <1>1 DEF Check, Alive
  <2>7. Order'
    <3>1. FlagsOK'
      BY <1>2, <2>2, <2>3 DEF Check, CoreFlags, Order, FlagsOK, Inside
    <3>2. StageOK'
      BY <1>2, <1>3, <2>2, <2>3 DEF Check, CoreFlags, Order, FlagsOK, StageOK, Faulty, Up, Running
    <3>3. AudioOK'
      BY <1>2, <2>2 DEF Check, Order, AudioOK
    <3>4. FilesOK'
      BY <1>2, <2>2 DEF Check, Order, FilesOK, Opened, Faulty
    <3>5. ToldOK'
      BY <1>2, <2>2, <2>3 DEF Check, Order, ToldOK
    <3> QED
      BY <3>1, <3>2, <3>3, <3>4, <3>5 DEF Order
  <2> QED
    BY <2>2, <2>4, <2>5, <2>6, <2>7 DEF IInv
<1>4. CASE ~core.launched
  <2>1. Return(j, "NotRunning") /\ UNCHANGED <<core, queue>> /\ "NotRunning" \in Answers \ {"none"}
    BY <1>4 DEF Check, Answers
  <2>2. CallsOK' /\ Saving' = Saving /\ Place' = "free" /\ Purpose' = "none" /\ (Failed => Failed') /\ owner' = NoJob
    BY <1>1, <2>1, ReturnStep
  <2>3. StateOK'
    BY <2>1, <2>2 DEF Check, Return, IInv, StateOK
  <2>4. WaitOK'
    BY <2>1, <2>2 DEF IInv, WaitOK
  <2>5. process' = process /\ process # "aborted"
    BY <1>1 DEF Check, Alive
  <2>6. Order'
    <3>1. FlagsOK'
      BY <1>2, <2>1, <2>2 DEF Check, Order, FlagsOK
    <3>2. StageOK'
      BY <1>2, <1>4, <2>1, <2>2 DEF Check, Order, FlagsOK, StageOK, Faulty, Up, Running
    <3>3. AudioOK'
      BY <1>2, <2>2 DEF Check, Order, AudioOK
    <3>4. FilesOK'
      BY <1>2, <2>2 DEF Check, Order, FilesOK, Opened, Faulty
    <3>5. ToldOK'
      BY <1>2, <2>1, <2>2 DEF Check, Order, ToldOK
    <3> QED
      BY <3>1, <3>2, <3>3, <3>4, <3>5 DEF Order
  <2> QED
    BY <2>2, <2>3, <2>4, <2>5, <2>6 DEF IInv
<1> QED
  BY <1>3, <1>4

LEMMA StartBeginStep == ASSUME IInv, NEW j \in Jobs, StartBegin(j) PROVE IInv'
<1>1. CallsOK /\ call[j].at = "begin" /\ call[j].at \in Inside /\ Alive
  BY DEF StartBegin, IInv, Inside
<1>2. Place = "begin" /\ Purpose = call[j].op /\ owner = j /\ Order
  BY <1>1, AtPlace, AliveOrder DEF CallsOK
<1>3. call[j].op \in {"start", "reset"}
  BY <1>1 DEF CallsOK, JobsOK, JobOK
<1> DEFINE p == IF core.launched THEN "close" ELSE "load"
<1>4. GoTo(j, p) /\ UNCHANGED <<core, owner, queue>> /\ p \in Inside \ {"check"}
  BY DEF StartBegin, Inside
<1>5. CallsOK' /\ Saving' = Saving /\ Place' = p /\ Purpose' = Purpose /\ Failed' = Failed
  BY <1>1, <1>3, <1>4, GoToStep
<1>6. StateOK'
  BY DEF StartBegin, IInv, StateOK
<1>7. WaitOK'
  BY <1>4, <1>5 DEF IInv, WaitOK
<1>8. Order'
  <2>1. FlagsOK'
    BY <1>2, <1>4, <1>5 DEF StartBegin, Order, FlagsOK, Inside
  <2>2. StageOK'
    BY <1>2, <1>4, <1>5 DEF StartBegin, IInv, StateOK, EmuPlaces, Order, FlagsOK, StageOK, Faulty, Up, Running
  <2>3. AudioOK'
    BY <1>2, <1>5 DEF StartBegin, Order, AudioOK
  <2>4. FilesOK'
    BY <1>2, <1>5 DEF StartBegin, Order, FilesOK, Opened, Faulty
  <2>5. ToldOK'
    BY <1>2, <1>5 DEF StartBegin, Order, ToldOK
  <2> QED
    BY <2>1, <2>2, <2>3, <2>4, <2>5 DEF Order
<1>9. process' = process
  BY DEF StartBegin
<1> QED
  BY <1>1, <1>5, <1>6, <1>7, <1>8, <1>9, KeepAlive

LEMMA CloseResumeStep == ASSUME IInv, NEW j \in Jobs, CloseResume(j) PROVE IInv'
<1>1. CallsOK /\ call[j].at = "close" /\ call[j].at \in Inside /\ Alive /\ process' = process
  BY DEF CloseResume, IInv, Inside
<1>2. Place = "close" /\ Purpose = call[j].op /\ owner = j /\ Order /\ core \in CoreFlags
  BY <1>1, AtPlace, AliveOrder DEF CallsOK, IInv, StateOK
<1>3. CASE core.launched
  <2>1. GoTo(j, "audio") /\ UNCHANGED <<owner, queue>> /\ "audio" \in Inside
    BY <1>3 DEF CloseResume, Inside
  <2>2. CallsOK' /\ Saving' = Saving /\ Place' = "audio" /\ Purpose' = Purpose /\ Failed' = Failed
    BY <1>1, <2>1, GoToStep
  <2>3. core' \in CoreFlags /\ core' = [core EXCEPT !.paused = core'.paused]
    BY <1>2, <1>3 DEF CloseResume, Resumed, CoreFlags
  <2>4. audio' = [audio EXCEPT !.stop = TRUE]
    BY <1>3 DEF CloseResume
  <2>5. StateOK'
    BY <1>3, <2>1, <2>3, <2>4 DEF CloseResume, IInv, StateOK
  <2>6. WaitOK'
    BY <1>2, <2>2, <2>3 DEF CoreFlags, IInv, WaitOK
  <2>7. FlagsOK'
    BY <1>2, <2>2, <2>3 DEF CloseResume, CoreFlags, Order, FlagsOK, Inside
  <2>8. StageOK'
    BY <1>2, <1>3, <2>2, <2>3 DEF CloseResume, CoreFlags, Order, FlagsOK, StageOK, Faulty, Up, Running
  <2>9. AudioOK'
    BY <1>2, <2>2, <2>4 DEF CloseResume, Order, AudioOK, IInv, StateOK
  <2>10. FilesOK'
    BY <1>2, <2>2 DEF CloseResume, Order, FilesOK, Opened, Faulty
  <2>11. ToldOK'
    BY <1>2, <2>2, <2>3 DEF CloseResume, CoreFlags, Order, ToldOK
  <2> QED
    BY <1>1, <2>2, <2>5, <2>6, <2>7, <2>8, <2>9, <2>10, <2>11, KeepAlive DEF Order
<1>4. CASE ~core.launched
  <2>1. Return(j, "NotRunning") /\ UNCHANGED queue /\ "NotRunning" \in Answers \ {"none"}
    BY <1>4 DEF CloseResume, Answers
  <2>2. CallsOK' /\ Saving' = Saving /\ Place' = "free" /\ Purpose' = "none" /\ (Failed => Failed') /\ owner' = NoJob
        /\ (Purpose = "reset" => Failed')
    BY <1>1, <2>1, ReturnStep
  <2>3. core' = [core EXCEPT !.resetting = FALSE] /\ core' \in CoreFlags
    BY <1>2, <1>4 DEF CloseResume, CoreFlags
  <2>4. StateOK'
    BY <1>4, <2>1, <2>2, <2>3 DEF CloseResume, Return, IInv, StateOK
  <2>5. WaitOK'
    BY <1>2, <2>2, <2>3 DEF IInv, WaitOK, CoreFlags
  <2>6. FlagsOK'
    BY <1>2, <2>2, <2>3 DEF CloseResume, Order, FlagsOK, CoreFlags
  <2>7. StageOK'
    BY <1>2, <1>4, <2>2, <2>3 DEF CloseResume, Order, FlagsOK, StageOK, Faulty, Up, Running, CoreFlags
  <2>8. AudioOK'
    BY <1>2, <1>4, <2>2 DEF CloseResume, Order, AudioOK
  <2>9. FilesOK'
    BY <1>2, <2>2 DEF CloseResume, Order, FilesOK, Opened, Faulty
  <2>10. ToldOK'
    BY <1>2, <2>2, <2>3 DEF CloseResume, Order, FlagsOK, ToldOK
  <2> QED
    BY <1>1, <2>2, <2>4, <2>5, <2>6, <2>7, <2>8, <2>9, <2>10, KeepAlive DEF Order
<1> QED
  BY <1>3, <1>4

LEMMA JoinAudioStep == ASSUME IInv, NEW j \in Jobs, JoinAudio(j) PROVE IInv'
<1>1. CallsOK /\ call[j].at = "audio" /\ call[j].at \in Inside /\ Alive /\ process' = process
  BY DEF JoinAudio, IInv, Inside
<1>2. Place = "audio" /\ Purpose = call[j].op /\ owner = j /\ Order
  BY <1>1, AtPlace, AliveOrder DEF CallsOK
<1>3. GoTo(j, "signal") /\ UNCHANGED <<core, owner, queue>> /\ "signal" \in Inside
  BY DEF JoinAudio, Inside
<1>4. CallsOK' /\ Saving' = Saving /\ Place' = "signal" /\ Purpose' = Purpose /\ Failed' = Failed
  BY <1>1, <1>3, GoToStep
<1>5. StateOK'
  BY DEF JoinAudio, IInv, StateOK
<1>6. WaitOK'
  BY <1>3, <1>4 DEF IInv, WaitOK
<1>7. FlagsOK'
  BY <1>2, <1>4 DEF JoinAudio, Order, FlagsOK, Inside
<1>8. StageOK'
  BY <1>2, <1>4 DEF JoinAudio, Order, StageOK, Faulty, Running
<1>9. AudioOK'
  BY <1>2, <1>4 DEF JoinAudio, Order, AudioOK
<1>10. FilesOK'
  BY <1>2, <1>4 DEF JoinAudio, Order, FilesOK, Opened, Faulty
<1>11. ToldOK'
  BY <1>2, <1>4 DEF JoinAudio, Order, ToldOK
<1> QED
  BY <1>1, <1>4, <1>5, <1>6, <1>7, <1>8, <1>9, <1>10, <1>11, KeepAlive DEF Order

LEMMA TerminateEmuStep == ASSUME IInv, NEW j \in Jobs, TerminateEmu(j) PROVE IInv'
<1>1. CallsOK /\ call[j].at = "signal" /\ call[j].at \in Inside /\ Alive /\ process' = process
  BY DEF TerminateEmu, IInv, Inside
<1>2. Place = "signal" /\ Purpose = call[j].op /\ owner = j /\ Order
  BY <1>1, AtPlace, AliveOrder DEF CallsOK
<1>3. GoTo(j, "join") /\ UNCHANGED <<owner, queue>> /\ "join" \in Inside
  BY DEF TerminateEmu, Inside
<1>4. CallsOK' /\ Saving' = Saving /\ Place' = "join" /\ Purpose' = Purpose /\ Failed' = Failed
  BY <1>1, <1>3, GoToStep
<1>5. core' = [core EXCEPT !.stop = TRUE] /\ core \in CoreFlags /\ core' \in CoreFlags
  BY DEF TerminateEmu, IInv, StateOK, CoreFlags
<1>6. StateOK'
  BY <1>5 DEF TerminateEmu, IInv, StateOK
<1>7. WaitOK'
  BY <1>4, <1>5 DEF CoreFlags, IInv, WaitOK
<1>8. FlagsOK'
  BY <1>2, <1>4, <1>5 DEF TerminateEmu, CoreFlags, Order, FlagsOK, Inside
<1>9. StageOK'
  BY <1>2, <1>4, <1>5 DEF TerminateEmu, CoreFlags, Order, StageOK, Faulty, Running
<1>10. AudioOK'
  BY <1>2, <1>4 DEF TerminateEmu, Order, AudioOK
<1>11. FilesOK'
  BY <1>2, <1>4 DEF TerminateEmu, Order, FilesOK, Opened, Faulty
<1>12. ToldOK'
  BY <1>2, <1>4, <1>5 DEF TerminateEmu, CoreFlags, Order, ToldOK
<1> QED
  BY <1>1, <1>4, <1>6, <1>7, <1>8, <1>9, <1>10, <1>11, <1>12, KeepAlive DEF Order

LEMMA JoinEmuStep == ASSUME IInv, NEW j \in Jobs, JoinEmu(j) PROVE IInv'
<1>1. CallsOK /\ call[j].at = "join" /\ call[j].at \in Inside /\ Alive /\ process' = process
  BY DEF JoinEmu, IInv, Inside
<1>2. Place = "join" /\ Purpose = call[j].op /\ owner = j /\ Order
  BY <1>1, AtPlace, AliveOrder DEF CallsOK
<1>3. GoTo(j, "files") /\ UNCHANGED <<core, owner, queue>> /\ "files" \in Inside
  BY DEF JoinEmu, Inside
<1>4. CallsOK' /\ Saving' = Saving /\ Place' = "files" /\ Purpose' = Purpose /\ Failed' = Failed
  BY <1>1, <1>3, GoToStep
<1>5. StateOK'
  BY DEF JoinEmu, IInv, StateOK, EmuPlaces
<1>6. WaitOK'
  BY <1>3, <1>4 DEF IInv, WaitOK
<1>7. FlagsOK'
  BY <1>2, <1>4 DEF JoinEmu, Order, FlagsOK, Inside, Up, Running
<1>8. StageOK'
  BY <1>2, <1>4 DEF JoinEmu, Order, StageOK, Faulty, Running
<1>9. AudioOK'
  BY <1>2, <1>4 DEF JoinEmu, Order, AudioOK
<1>10. FilesOK'
  BY <1>2, <1>4 DEF JoinEmu, Order, FilesOK, Opened, Faulty
<1>11. ToldOK'
  BY <1>2, <1>4 DEF JoinEmu, Order, ToldOK
<1> QED
  BY <1>1, <1>4, <1>5, <1>6, <1>7, <1>8, <1>9, <1>10, <1>11, KeepAlive DEF Order

LEMMA CloseFilesStep == ASSUME IInv, NEW j \in Jobs, CloseFiles(j) PROVE IInv'
<1>1. CallsOK /\ call[j].at = "files" /\ call[j].at \in Inside /\ Alive /\ process' = process
  BY DEF CloseFiles, IInv, Inside
<1>2. Place = "files" /\ Purpose = call[j].op /\ owner = j /\ Order
  BY <1>1, AtPlace, AliveOrder DEF CallsOK
<1>3. emu = "none" /\ Opened = 1
  BY <1>2 DEF Order, StageOK, Opened
<1>4. handles' = [f \in 1..Files |-> handles[f] - 1] /\ handles \in [1..Files -> Nat]
  BY DEF CloseFiles, IInv, StateOK
<1>5. \A f \in 1..Files : handles[f] \in Nat /\ handles[f] >= 1 /\ (~Faulty("open") => handles[f] = 1)
  BY <1>2, <1>3, <1>4 DEF Order, FilesOK
<1>6. handles' \in [1..Files -> Nat] /\ \A f \in 1..Files : ~Faulty("open") => handles'[f] = 0
  BY <1>4, <1>5
<1>7. CASE call[j].op \in {"close", "exit"}
  <2>1. Return(j, "Ok") /\ UNCHANGED <<core, queue>> /\ "Ok" \in Answers \ {"none"}
    BY <1>7 DEF CloseFiles, Answers
  <2>2. CallsOK' /\ Saving' = Saving /\ Place' = "free" /\ Purpose' = "none" /\ (Failed => Failed') /\ owner' = NoJob
    BY <1>1, <2>1, ReturnStep
  <2>3. StateOK'
    BY <1>6, <2>1, <2>2 DEF CloseFiles, Return, IInv, StateOK
  <2>4. WaitOK'
    BY <2>1, <2>2 DEF IInv, WaitOK
  <2>5. FlagsOK'
    BY <1>2, <1>7, <2>2 DEF CloseFiles, Order, FlagsOK
  <2>6. StageOK'
    BY <1>2, <1>3, <2>2 DEF CloseFiles, Order, StageOK, Faulty, Running
  <2>7. AudioOK'
    BY <1>2, <2>2 DEF CloseFiles, Order, AudioOK
  <2>8. Opened' = 0
    BY <1>3, <2>2 DEF CloseFiles, Opened
  <2>9. FilesOK'
    BY <1>6, <2>8 DEF CloseFiles, FilesOK, Faulty
  <2>10. ToldOK'
    BY <1>2, <2>2 DEF CloseFiles, Order, ToldOK
  <2> QED
    BY <1>1, <2>2, <2>3, <2>4, <2>5, <2>6, <2>7, <2>9, <2>10, KeepAlive DEF Order
<1>8. CASE call[j].op \notin {"close", "exit"}
  <2>1. GoTo(j, "load") /\ UNCHANGED <<core, owner, worker, queue>> /\ "load" \in Inside
    BY <1>8 DEF CloseFiles, Inside
  <2>2. call[j].op \in {"start", "reset"}
    BY <1>1, <1>8 DEF CallsOK, CallOK, Call, Ops, JobsOK, JobOK, Inside
  <2>3. CallsOK' /\ Saving' = Saving /\ Place' = "load" /\ Purpose' = Purpose /\ Failed' = Failed
    BY <1>1, <2>1, <2>2, GoToStep
  <2>4. StateOK'
    BY <1>6, <2>1 DEF CloseFiles, IInv, StateOK
  <2>5. WaitOK'
    BY <2>1, <2>3 DEF IInv, WaitOK
  <2>6. FlagsOK'
    BY <1>2, <2>3 DEF CloseFiles, Order, FlagsOK, Inside
  <2>7. StageOK'
    BY <1>2, <1>3, <2>3 DEF CloseFiles, Order, StageOK, Faulty, Running
  <2>8. AudioOK'
    BY <1>2, <2>3 DEF CloseFiles, Order, AudioOK
  <2>9. Opened' = 0
    BY <1>3, <2>3 DEF CloseFiles, Opened
  <2>10. FilesOK'
    BY <1>6, <2>9 DEF CloseFiles, FilesOK, Faulty
  <2>11. ToldOK'
    BY <1>2, <2>3 DEF CloseFiles, Order, ToldOK
  <2> QED
    BY <1>1, <2>3, <2>4, <2>5, <2>6, <2>7, <2>8, <2>10, <2>11, KeepAlive DEF Order
<1> QED
  BY <1>7, <1>8

\* A start that fails before its core runs: the machine is off or is a dead
\* one's, and the files that are open stay so.
LEMMA StartFailsStep ==
  ASSUME IInv, Alive, NEW j \in Jobs, call[j].at \in {"load", "open"}, StartFails(j),
         UNCHANGED <<session, emu, audio, queue, process, users>>,
         handles' \in [1..Files -> Nat],
         \A f \in 1..Files : handles'[f] >= handles[f],
         ~Faulty("open") => handles' = handles
  PROVE  IInv'
<1>1. CallsOK /\ call[j].at \in Inside
  BY DEF IInv, Inside
<1>2. Place = call[j].at /\ Purpose = call[j].op /\ owner = j /\ Order
  BY <1>1, AtPlace, AliveOrder DEF CallsOK
<1>3. Return(j, "Error") /\ "Error" \in Answers \ {"none"}
  BY DEF StartFails, Answers
<1>4. CallsOK' /\ Saving' = Saving /\ Place' = "free" /\ Purpose' = "none" /\ (Failed => Failed') /\ owner' = NoJob
      /\ (Purpose = "reset" => Failed')
  BY <1>1, <1>3, ReturnStep
<1>5. core' = [core EXCEPT !.resetting = FALSE] /\ core \in CoreFlags /\ core' \in CoreFlags
  BY DEF StartFails, IInv, StateOK, CoreFlags
<1>6. told' = [told EXCEPT !.starting = FALSE] /\ told \in [launched : BOOLEAN, starting : BOOLEAN]
  BY DEF StartFails, IInv, StateOK
<1>7. StateOK'
  BY <1>3, <1>4, <1>5, <1>6 DEF Return, IInv, StateOK
<1>8. WaitOK'
  BY <1>4, <1>5 DEF IInv, WaitOK, CoreFlags
<1>9. FlagsOK'
  BY <1>2, <1>4, <1>5 DEF Order, FlagsOK, CoreFlags
<1>10. StageOK'
  BY <1>2, <1>4, <1>5 DEF Order, StageOK, Faulty, Up, Running, CoreFlags
<1>11. AudioOK'
  BY <1>2, <1>4 DEF Order, AudioOK
<1>12. Opened' = Opened /\ Opened \in Nat
  BY <1>2, <1>4 DEF Opened
<1>13. FilesOK'
  BY <1>2, <1>12 DEF IInv, StateOK, Order, FilesOK, Faulty
<1>14. ToldOK'
  BY <1>2, <1>4, <1>5, <1>6 DEF Order, FlagsOK, ToldOK
<1> QED
  BY <1>4, <1>7, <1>8, <1>9, <1>10, <1>11, <1>13, <1>14, KeepAlive DEF Order

LEMMA LoadRomStep == ASSUME IInv, NEW j \in Jobs, LoadRom(j) PROVE IInv'
<1>1. CallsOK /\ call[j].at = "load" /\ call[j].at \in Inside /\ Alive /\ process' = process
  BY DEF LoadRom, IInv, Inside, Pumping, Alive
<1>2. Place = "load" /\ Purpose = call[j].op /\ owner = j /\ Order
  BY <1>1, AtPlace, AliveOrder DEF CallsOK
<1>3. CASE StartFails(j)
  BY <1>1, <1>3, StartFailsStep DEF LoadRom, IInv, StateOK
<1>4. CASE /\ told' = [told EXCEPT !.starting = TRUE]
           /\ GoTo(j, "open")
           /\ UNCHANGED <<core, owner, worker>>
  <2>1. GoTo(j, "open") /\ UNCHANGED <<core, owner, queue>> /\ "open" \in Inside
    BY <1>4 DEF LoadRom, Inside
  <2>2. call[j].op \in {"start", "reset"}
    BY <1>1 DEF CallsOK, JobsOK, JobOK
  <2>3. CallsOK' /\ Saving' = Saving /\ Place' = "open" /\ Purpose' = Purpose /\ Failed' = Failed
    BY <1>1, <2>1, <2>2, GoToStep
  <2>4. StateOK'
    BY <1>4 DEF LoadRom, IInv, StateOK
  <2>5. WaitOK'
    BY <2>1, <2>3 DEF IInv, WaitOK
  <2>6. FlagsOK'
    BY <1>2, <2>1, <2>3 DEF LoadRom, Order, FlagsOK, Inside
  <2>7. StageOK'
    BY <1>2, <2>1, <2>3 DEF LoadRom, Order, StageOK, Faulty, Running
  <2>8. AudioOK'
    BY <1>2, <2>3 DEF LoadRom, Order, AudioOK
  <2>9. FilesOK'
    BY <1>2, <2>3 DEF LoadRom, Order, FilesOK, Opened, Faulty
  <2>10. told'.launched = told.launched
    BY <1>4 DEF IInv, StateOK
  <2>11. ToldOK'
    BY <1>2, <2>1, <2>3, <2>10 DEF LoadRom, Order, ToldOK
  <2> QED
    BY <1>1, <2>3, <2>4, <2>5, <2>6, <2>7, <2>8, <2>9, <2>11, KeepAlive DEF Order
<1> QED
  BY <1>3, <1>4 DEF LoadRom

LEMMA OpenFilesStep == ASSUME IInv, NEW j \in Jobs, OpenFiles(j) PROVE IInv'
<1>1. CallsOK /\ call[j].at = "open" /\ call[j].at \in Inside /\ Alive /\ process' = process
  BY DEF OpenFiles, IInv, Inside, Pumping, Alive
<1>2. Place = "open" /\ Purpose = call[j].op /\ owner = j /\ Order
  BY <1>1, AtPlace, AliveOrder DEF CallsOK
<1>3. handles \in [1..Files -> Nat] /\ \A f \in 1..Files : handles[f] \in Nat
  BY DEF IInv, StateOK
<1>4. CASE /\ "open" \in session.faults
           /\ \E bad \in 1..Files :
                handles' = [f \in 1..Files |-> IF f < bad THEN handles[f] + 1 ELSE handles[f]]
           /\ StartFails(j)
  <2>1. handles' \in [1..Files -> Nat] /\ \A f \in 1..Files : handles'[f] >= handles[f]
    BY <1>3, <1>4
  <2> QED
    BY <1>1, <1>4, <2>1, StartFailsStep DEF OpenFiles, Faulty
<1>5. CASE /\ handles' = [f \in 1..Files |-> handles[f] + 1]
           /\ GoTo(j, "spawn")
           /\ UNCHANGED <<core, owner, worker, told>>
  <2>1. GoTo(j, "spawn") /\ UNCHANGED <<core, owner, queue>> /\ "spawn" \in Inside
    BY <1>5 DEF OpenFiles, Inside
  <2>2. call[j].op \in {"start", "reset"}
    BY <1>1 DEF CallsOK, JobsOK, JobOK
  <2>3. CallsOK' /\ Saving' = Saving /\ Place' = "spawn" /\ Purpose' = Purpose /\ Failed' = Failed
    BY <1>1, <2>1, <2>2, GoToStep
  <2>4. handles' \in [1..Files -> Nat] /\ \A f \in 1..Files : handles'[f] = handles[f] + 1
    BY <1>3, <1>5
  <2>5. StateOK'
    BY <1>5, <2>4 DEF OpenFiles, IInv, StateOK
  <2>6. WaitOK'
    BY <2>1, <2>3 DEF IInv, WaitOK
  <2>7. FlagsOK'
    BY <1>2, <2>1, <2>3 DEF OpenFiles, Order, FlagsOK, Inside
  <2>8. StageOK'
    BY <1>2, <2>1, <2>3 DEF OpenFiles, Order, StageOK, Faulty, Running
  <2>9. AudioOK'
    BY <1>2, <2>3 DEF OpenFiles, Order, AudioOK
  <2>10. Opened' = Opened + 1 /\ Opened \in Nat
    BY <1>2, <2>3 DEF OpenFiles, Opened
  <2>11. FilesOK'
    BY <1>2, <1>3, <2>4, <2>10 DEF OpenFiles, Order, FilesOK, Faulty
  <2>12. ToldOK'
    BY <1>2, <1>5, <2>1, <2>3 DEF OpenFiles, Order, ToldOK
  <2> QED
    BY <1>1, <2>3, <2>5, <2>6, <2>7, <2>8, <2>9, <2>11, <2>12, KeepAlive DEF Order
<1> QED
  BY <1>4, <1>5 DEF OpenFiles

LEMMA SpawnEmuStep == ASSUME IInv, NEW j \in Jobs, SpawnEmu(j) PROVE IInv'
<1>1. CallsOK /\ call[j].at = "spawn" /\ call[j].at \in Inside /\ Alive
  BY DEF SpawnEmu, IInv, Inside
<1>2. Place = "spawn" /\ Purpose = call[j].op /\ owner = j /\ Order
  BY <1>1, AtPlace, AliveOrder DEF CallsOK
<1>3. GoTo(j, "spin") /\ UNCHANGED <<owner, queue>> /\ "spin" \in Inside
  BY DEF SpawnEmu, Inside
<1>4. call[j].op \in {"start", "reset"}
  BY <1>1 DEF CallsOK, JobsOK, JobOK
<1>5. CallsOK' /\ Saving' = Saving /\ Place' = "spin" /\ Purpose' = Purpose /\ Failed' = Failed
  BY <1>1, <1>3, <1>4, GoToStep
<1>6. core' = [core EXCEPT !.paused = FALSE, !.launched = TRUE] /\ core \in CoreFlags /\ core' \in CoreFlags
  BY DEF SpawnEmu, IInv, StateOK, CoreFlags
<1>7. StateOK'
  BY <1>6 DEF SpawnEmu, IInv, StateOK, EmuPlaces
<1>8. WaitOK'
  BY <1>5, <1>6 DEF CoreFlags, IInv, WaitOK
<1>9. CASE emu = "none"
  <2>1. emu' = "load" /\ process' = process
    BY <1>9 DEF SpawnEmu
  <2>2. FlagsOK'
    BY <1>2, <1>5, <1>6, <1>9, <2>1 DEF CoreFlags, Order, FlagsOK, Inside, Up, Running
  <2>3. StageOK'
    BY <1>5, <2>1 DEF StageOK, Running
  <2>4. AudioOK'
    BY <1>2, <1>5, <1>9, <2>1 DEF SpawnEmu, Order, AudioOK, IInv, StateOK
  <2>5. FilesOK'
    BY <1>2, <1>5, <1>9, <2>1 DEF SpawnEmu, Order, FilesOK, Opened, Faulty
  <2>6. ToldOK'
    BY <2>1 DEF ToldOK
  <2> QED
    BY <1>1, <1>5, <1>7, <1>8, <2>1, <2>2, <2>3, <2>4, <2>5, <2>6, KeepAlive DEF Order
<1>10. CASE emu # "none"
  <2>1. emu' = emu /\ process' = "aborted"
    BY <1>10 DEF SpawnEmu
  <2>2. Faulty("cpu")
    BY <1>2, <1>10 DEF Order, StageOK
  <2>3. Opened = 2
    BY <1>2, <1>10 DEF Opened
  <2>4. \A f \in 1..Files : handles[f] >= 1
    BY <1>2, <2>3 DEF Order, FilesOK, IInv, StateOK
  <2>5. AbortOK'
    BY <1>10, <2>1, <2>2, <2>4 DEF SpawnEmu, AbortOK, Faulty
  <2> QED
    BY <1>5, <1>7, <1>8, <2>1, <2>5 DEF IInv
<1> QED
  BY <1>9, <1>10

LEMMA StartDoneStep == ASSUME IInv, NEW j \in Jobs, StartDone(j) PROVE IInv'
<1>1. CallsOK /\ call[j].at = "spin" /\ call[j].at \in Inside /\ Alive /\ process' = process
  BY DEF StartDone, IInv, Inside
<1>2. Place = "spin" /\ Purpose = call[j].op /\ owner = j /\ Order
  BY <1>1, AtPlace, AliveOrder DEF CallsOK
<1>3. Return(j, "Ok") /\ UNCHANGED queue /\ "Ok" \in Answers \ {"none"}
  BY DEF StartDone, Answers
<1>4. CallsOK' /\ Saving' = Saving /\ Place' = "free" /\ Purpose' = "none" /\ (Failed => Failed') /\ owner' = NoJob
  BY <1>1, <1>3, ReturnStep
<1>5. core' = [core EXCEPT !.resetting = FALSE] /\ core \in CoreFlags /\ core' \in CoreFlags
  BY DEF StartDone, IInv, StateOK, CoreFlags
<1>6. emu \in Running /\ emu' = emu
  BY <1>2 DEF StartDone, Order, FlagsOK
<1>7. StateOK'
  BY <1>3, <1>4, <1>5 DEF StartDone, Return, IInv, StateOK
<1>8. WaitOK'
  BY <1>4, <1>5 DEF IInv, WaitOK, CoreFlags
<1>9. FlagsOK'
  BY <1>2, <1>4, <1>5, <1>6 DEF Order, FlagsOK, CoreFlags
<1>10. StageOK'
  BY <1>2, <1>4, <1>5, <1>6 DEF StartDone, Order, StageOK, Faulty, Running, CoreFlags
<1>11. AudioOK'
  BY <1>2, <1>4 DEF StartDone, Order, AudioOK
<1>12. FilesOK'
  BY <1>2, <1>4, <1>6 DEF StartDone, Order, FilesOK, Opened, Faulty
<1>13. ToldOK'
  BY <1>6 DEF ToldOK, Running
<1> QED
  BY <1>1, <1>4, <1>7, <1>8, <1>9, <1>10, <1>11, <1>12, <1>13, KeepAlive DEF Order

-----------------------------------------------------------------------------
(* Calls that do not hold the lock, and the user interface.                *)

\* The flags that only the callers and the emulation thread write.
SameFlags ==
  /\ core' \in CoreFlags
  /\ core'.launched = core.launched /\ core'.executing = core.executing
  /\ core'.stop = core.stop /\ core'.resetting = core.resetting

LEMMA OrderKept ==
  ASSUME Order, UNCHANGED <<session, emu, audio, handles, told>>, SameFlags,
         Place' = Place, Purpose' = Purpose, Failed => Failed'
  PROVE  Order'
<1>1. FlagsOK'
  BY DEF Order, FlagsOK, SameFlags
<1>2. StageOK'
  BY DEF Order, StageOK, Faulty, SameFlags
<1>3. AudioOK'
  BY DEF Order, AudioOK
<1>4. FilesOK'
  BY DEF Order, FilesOK, Opened, Faulty
<1>5. ToldOK'
  BY DEF Order, ToldOK, SameFlags
<1> QED
  BY <1>1, <1>2, <1>3, <1>4, <1>5 DEF Order

\* A call that is not in the queue changes.
LEMMA QueueKept ==
  ASSUME CallsOK, NEW j \in Jobs, call[j].at # "queued", NEW c,
         call' = [call EXCEPT ![j] = c], queue' = queue
  PROVE  QueueOK'
<1>1. \A i \in DOMAIN queue : queue[i].job # j
  BY DEF CallsOK, QueueOK
<1>2. \A i \in DOMAIN queue : call'[queue[i].job] = call[queue[i].job]
  BY <1>1 DEF CallsOK, CallOK
<1> QED
  BY <1>2 DEF CallsOK, QueueOK

LEMMA LockStep == ASSUME IInv, NEW j \in Jobs, Lock(j) PROVE IInv'
<1> DEFINE p == IF call[j].op = "start" THEN "begin" ELSE "check"
           c == [call[j] EXCEPT !.at = p]
<1>1. CallsOK /\ call[j].at = "lock" /\ call[j] \in Call /\ call[j].op # "save" /\ Alive /\ process' = process
  BY DEF Lock, IInv, CallsOK, CallOK
<1>2. Place = "free" /\ Purpose = "none" /\ owner = NoJob /\ owner' = j /\ Order
  BY <1>1, AliveOrder DEF Lock, Place, Purpose
<1>3. call' = [call EXCEPT ![j] = c] /\ UNCHANGED <<core, queue>> /\ p \in Inside
  BY <1>1 DEF Lock, GoTo, Inside
<1>4. c \in Call /\ c.at = p /\ c.op = call[j].op /\ c.answer = call[j].answer /\ c.wait = call[j].wait
  BY <1>1, <1>3, InsidePlaces DEF Call
<1>5. \A k \in Jobs : call'[k] = IF k = j THEN c ELSE call[k]
  BY <1>1, <1>3 DEF CallsOK, CallOK
<1>6. JobOK(call[j]) /\ call[j].op # "none" /\ call[j].answer = "none"
  BY <1>1 DEF CallsOK, JobsOK, JobOK
<1>7. p \in {"begin", "check"} /\ (p = "check" => call[j].op # "start") /\ (p = "begin" => call[j].op = "start")
  OBVIOUS
<1> HIDE DEF c, p
<1>8. JobOK(c)
  BY <1>1, <1>4, <1>6, <1>7 DEF JobOK, NoCall
<1>9. CallOK'
  BY <1>1, <1>3, <1>4 DEF CallsOK, CallOK
<1>10. LockOK'
  <2>1. \A k \in Jobs : call[k].at \notin Inside
    BY <1>1, <1>2, JobsAreNumbers DEF CallsOK, LockOK
  <2> QED
    BY <1>2, <1>3, <1>4, <1>5, <2>1 DEF LockOK
<1>11. JobsOK'
  BY <1>1, <1>5, <1>8 DEF CallsOK, JobsOK
<1>12. QueueOK'
  BY <1>1, <1>3, QueueKept
<1>13. Saving' = Saving
  BY <1>1, <1>4, <1>5, <1>7 DEF Saving
<1>14. Failed' = Failed
  BY <1>4, <1>5 DEF Failed
<1>15. Place' = p /\ Purpose' = call[j].op
  BY <1>2, <1>4, <1>5, JobsAreNumbers DEF Place, Purpose
<1>16. StateOK' /\ WaitOK'
  BY <1>2, <1>13 DEF Lock, IInv, StateOK, WaitOK
<1>17. FlagsOK'
  BY <1>2, <1>3, <1>15 DEF Lock, Order, FlagsOK, Inside
<1>18. StageOK'
  BY <1>2, <1>3, <1>7, <1>15 DEF Lock, Order, StageOK, Faulty
<1>19. AudioOK'
  BY <1>2, <1>7, <1>15 DEF Lock, Order, AudioOK
<1>20. FilesOK'
  BY <1>2, <1>7, <1>15 DEF Lock, Order, FilesOK, Opened, Faulty
<1>21. ToldOK'
  BY <1>2, <1>3, <1>14 DEF Lock, Order, ToldOK
<1> QED
  BY <1>1, <1>9, <1>10, <1>11, <1>12, <1>16, <1>17, <1>18, <1>19, <1>20, <1>21, KeepAlive
     DEF Order, CallsOK

LEMMA TryLockFailsStep == ASSUME IInv, NEW j \in Jobs, TryLockFails(j) PROVE IInv'
<1> DEFINE c == [call[j] EXCEPT !.at = "done", !.answer = "Busy"]
<1>1. CallsOK /\ call[j].at = "lock" /\ call[j] \in Call /\ call[j].op # "save" /\ Alive /\ process' = process
  BY DEF TryLockFails, IInv, CallsOK, CallOK
<1>2. owner # j /\ Order
  BY <1>1, AliveOrder, InsidePlaces DEF CallsOK, LockOK
<1>3. call' = [call EXCEPT ![j] = c] /\ owner' = owner /\ UNCHANGED <<core, queue>>
  BY <1>1, <1>2 DEF TryLockFails, Return, CallsOK, CallOK
<1>4. c \in Call /\ c.at = "done" /\ c.op = call[j].op /\ c.answer = "Busy"
  BY <1>1 DEF Call, CallPlaces, Answers
<1>5. JobOK(call[j])
  BY <1>1 DEF CallsOK, JobsOK
<1> HIDE DEF c
<1>6. JobOK(c)
  BY <1>1, <1>4, <1>5, InsidePlaces DEF JobOK, NoCall
<1>7. /\ CallOK' /\ LockOK' /\ JobsOK'
      /\ \A k \in Jobs : call'[k] = IF k = j THEN c ELSE call[k]
      /\ Place' = Place /\ Purpose' = Purpose
      /\ Failed => Failed'
  BY <1>1, <1>3, <1>4, <1>6, InsidePlaces, OutsideStep
<1>8. QueueOK'
  BY <1>1, <1>3, QueueKept
<1>9. Saving' = Saving
  BY <1>1, <1>4, <1>7 DEF Saving
<1>10. StateOK' /\ WaitOK'
  BY <1>3, <1>9 DEF TryLockFails, Return, IInv, StateOK, WaitOK
<1>11. SameFlags
  BY <1>3 DEF SameFlags, IInv, StateOK
<1>12. Order'
  BY <1>2, <1>7, <1>11, OrderKept DEF TryLockFails
<1> QED
  BY <1>1, <1>7, <1>8, <1>10, <1>12, KeepAlive DEF CallsOK

LEMMA SaveJobStep == ASSUME IInv, NEW j \in Jobs, SaveJob(j) PROVE IInv'
<1> DEFINE c == [call[j] EXCEPT !.at = "done", !.answer = "Ok"]
<1>1. CallsOK /\ call[j].at = "lock" /\ call[j] \in Call /\ call[j].op = "save" /\ Alive /\ process' = process
  BY DEF SaveJob, IInv, CallsOK, CallOK
<1>2. owner # j /\ Order
  BY <1>1, AliveOrder, InsidePlaces DEF CallsOK, LockOK
<1>3. call' = [call EXCEPT ![j] = c] /\ owner' = owner /\ UNCHANGED queue
  BY <1>1, <1>2 DEF SaveJob, Return, CallsOK, CallOK
<1>4. c \in Call /\ c.at = "done" /\ c.op = call[j].op
  BY <1>1 DEF Call, CallPlaces, Answers
<1>5. JobOK(call[j])
  BY <1>1 DEF CallsOK, JobsOK
<1> HIDE DEF c
<1>6. JobOK(c)
  BY <1>1, <1>4, <1>5, InsidePlaces DEF JobOK, NoCall
<1>7. /\ CallOK' /\ LockOK' /\ JobsOK'
      /\ \A k \in Jobs : call'[k] = IF k = j THEN c ELSE call[k]
      /\ Place' = Place /\ Purpose' = Purpose
      /\ Failed => Failed'
  BY <1>1, <1>3, <1>4, <1>6, InsidePlaces, OutsideStep
<1>8. QueueOK'
  BY <1>1, <1>3, QueueKept
<1>9. Saving' = Saving \ {j} /\ j \in Saving
  BY <1>1, <1>4, <1>7 DEF Saving
<1>10. Cardinality(Saving') = Cardinality(Saving) - 1 /\ Cardinality(Saving') \in Nat
  BY <1>9, SavingFinite, FS_RemoveElement, FS_CardinalityType
<1>11. core' = [core EXCEPT !.wait = core.wait - 1] /\ core \in CoreFlags
  BY DEF SaveJob, IInv, StateOK
<1>12. core.wait - 1 = Cardinality(Saving')
  BY <1>10 DEF IInv, WaitOK
<1>13. WaitOK' /\ core' \in CoreFlags
  BY <1>10, <1>11, <1>12 DEF CoreFlags, WaitOK
<1>14. StateOK'
  BY <1>3, <1>13 DEF SaveJob, Return, IInv, StateOK
<1>15. SameFlags
  BY <1>11, <1>13 DEF SameFlags, CoreFlags
<1>16. Order'
  BY <1>2, <1>7, <1>15, OrderKept DEF SaveJob
<1> QED
  BY <1>1, <1>7, <1>8, <1>13, <1>14, <1>16, KeepAlive DEF CallsOK

LEMMA RunJobStep == ASSUME IInv, RunJob PROVE IInv'
<1> DEFINE j == Head(queue).job
           c == [call[j] EXCEPT !.at = "lock"]
<1>1. CallsOK /\ Alive /\ process' = process /\ Order
  BY AliveOrder DEF RunJob, IInv
<1>2. queue \in Seq([key : Keys, job : Jobs]) /\ queue # <<>> /\ queue' = Tail(queue)
  BY DEF RunJob, IInv, StateOK
<1>3. /\ Head(queue) = queue[1] /\ 1 \in DOMAIN queue /\ Head(queue) \in [key : Keys, job : Jobs]
      /\ queue' \in Seq([key : Keys, job : Jobs])
      /\ \A i \in DOMAIN queue' : i \in Nat /\ i + 1 \in DOMAIN queue /\ queue'[i] = queue[i + 1]
      /\ \A i \in DOMAIN queue' : queue'[i] \in [key : Keys, job : Jobs]
  <2> DEFINE E == [key : Keys, job : Jobs]
  <2>1. queue \in Seq(E) /\ queue # <<>> /\ queue' = Tail(queue)
    BY <1>2
  <2> HIDE DEF E
  <2>2. Len(queue) \in Nat \ {0} /\ DOMAIN queue = 1..Len(queue)
    BY <2>1
  <2>3. Head(queue) = queue[1] /\ 1 \in DOMAIN queue /\ Head(queue) \in E /\ queue' \in Seq(E)
    BY <2>1, <2>2
  <2>4. Len(queue') = Len(queue) - 1 /\ DOMAIN queue' = 1..Len(queue')
    BY <2>1, <2>2
  <2>5. \A i \in 1..Len(queue') : queue'[i] = queue[i + 1]
    BY <2>1, <2>2, <2>4
  <2>6. \A i \in DOMAIN queue' : queue'[i] \in E
    BY <2>3, <2>4
  <2> QED
    BY <2>2, <2>3, <2>4, <2>5, <2>6 DEF E
<1>4. j \in Jobs /\ call[j].at = "queued" /\ call[j] \in Call
  BY <1>1, <1>3 DEF CallsOK, QueueOK, CallOK
<1>5. call' = [call EXCEPT ![j] = c] /\ owner' = owner /\ core' = core
  BY <1>1, <1>4 DEF RunJob, CallsOK, CallOK
<1>6. c \in Call /\ c.at = "lock" /\ c.op = call[j].op /\ c.answer = call[j].answer
  BY <1>4 DEF Call, CallPlaces
<1>7. JobOK(call[j])
  BY <1>1, <1>4 DEF CallsOK, JobsOK
<1>8. worker' = j
  BY DEF RunJob
<1> HIDE DEF c
<1>9. JobOK(c)
  BY <1>4, <1>6, <1>7, InsidePlaces DEF JobOK, NoCall
<1>10. /\ CallOK' /\ LockOK' /\ JobsOK'
       /\ \A k \in Jobs : call'[k] = IF k = j THEN c ELSE call[k]
       /\ Place' = Place /\ Purpose' = Purpose
       /\ Failed => Failed'
  BY <1>1, <1>4, <1>5, <1>6, <1>9, InsidePlaces, OutsideStep
<1>11. QueueOK'
  <2>1. \A i \in DOMAIN queue' : queue'[i].job # j
    BY <1>1, <1>3 DEF CallsOK, QueueOK
  <2>2. \A i \in DOMAIN queue' : queue'[i].job \in Jobs
    BY <1>3
  <2> HIDE DEF j
  <2>3. \A i \in DOMAIN queue' : call'[queue'[i].job] = call[queue'[i].job]
    BY <1>10, <2>1, <2>2
  <2>4. ASSUME NEW i \in DOMAIN queue', NEW k \in DOMAIN queue', queue'[i].job = queue'[k].job
        PROVE  i = k
    <3>1. i + 1 = k + 1
      BY <1>1, <1>3, <2>4 DEF CallsOK, QueueOK
    <3> QED
      BY <1>3, <3>1
  <2>5. \A i \in DOMAIN queue' : call'[queue'[i].job].at = "queued"
    BY <1>1, <1>3, <2>3 DEF CallsOK, QueueOK
  <2> QED
    BY <2>4, <2>5 DEF QueueOK
<1> HIDE DEF j
<1>12. Saving' = Saving
  BY <1>4, <1>6, <1>10 DEF Saving
<1>13. StateOK' /\ WaitOK'
  BY <1>3, <1>4, <1>5, <1>8, <1>12 DEF RunJob, IInv, StateOK, WaitOK
<1>14. SameFlags
  BY <1>5 DEF SameFlags, IInv, StateOK
<1>15. Order'
  BY <1>1, <1>10, <1>14, OrderKept DEF RunJob
<1> QED
  BY <1>1, <1>10, <1>11, <1>13, <1>15, KeepAlive DEF CallsOK

\* A new call of r, when it is not dropped.
LEMMA NewCall ==
  ASSUME IInv, Alive, NEW j \in Jobs, call[j] = NoCall,
         NEW op \in {"start", "close", "reset", "save", "exit"}, NEW wait \in BOOLEAN,
         NEW at \in {"queued", "lock"},
         call' = [call EXCEPT ![j] = [op |-> op, wait |-> wait, at |-> at, answer |-> "none"]],
         core' = IF op = "save" THEN [core EXCEPT !.wait = @ + 1] ELSE core,
         \/ queue' = queue /\ at = "lock"
         \/ at = "queued" /\ \E key \in Keys : queue' = Append(queue, [key |-> key, job |-> j]),
         UNCHANGED <<session, emu, audio, owner, worker, handles, told, process, users>>
  PROVE  IInv'
<1> DEFINE c == [op |-> op, wait |-> wait, at |-> at, answer |-> "none"]
<1>1. CallsOK /\ Order /\ core \in CoreFlags
  BY AliveOrder DEF IInv, StateOK
<1>2. c \in Call /\ c.at = at /\ c.op = op /\ c.answer = "none"
  BY DEF Call, CallPlaces, Ops, Answers
<1>3. JobOK(c)
  BY InsidePlaces DEF JobOK, NoCall
<1>4. call[j].at = "none" /\ call[j].op = "none"
  BY DEF NoCall
<1> HIDE DEF c
<1>5. /\ CallOK' /\ LockOK' /\ JobsOK'
      /\ \A k \in Jobs : call'[k] = IF k = j THEN c ELSE call[k]
      /\ Place' = Place /\ Purpose' = Purpose
      /\ Failed => Failed'
  <2>1. call' = [call EXCEPT ![j] = c] /\ owner' = owner
    BY DEF c
  <2>2. c.at \notin Inside /\ call[j].at \notin Inside \cup {"done"}
    BY <1>2, <1>4, InsidePlaces
  <2> QED
    BY <1>1, <1>2, <1>3, <2>1, <2>2, OutsideStep
<1>6. QueueOK' /\ queue' \in Seq([key : Keys, job : Jobs])
  <2>1. queue \in Seq([key : Keys, job : Jobs])
    BY DEF IInv, StateOK
  <2>2. CASE queue' = queue
    BY <1>1, <1>4, <2>1, <2>2, QueueKept DEF c
  <2>3. CASE at = "queued" /\ \E key \in Keys : queue' = Append(queue, [key |-> key, job |-> j])
    <3>1. PICK key \in Keys : queue' = Append(queue, [key |-> key, job |-> j])
      BY <2>3
    <3> DEFINE e == [key |-> key, job |-> j]
               E == [key : Keys, job : Jobs]
    <3>2. e \in E /\ queue \in Seq(E) /\ queue' = Append(queue, e) /\ e.job = j
      BY <2>1, <3>1
    <3> HIDE DEF e, E
    <3>3. /\ queue' \in Seq(E) /\ DOMAIN queue' = DOMAIN queue \cup {Len(queue) + 1}
          /\ Len(queue) + 1 \notin DOMAIN queue
          /\ \A i \in DOMAIN queue : queue'[i] = queue[i]
          /\ queue'[Len(queue) + 1] = e
      BY <3>2
    <3>4. \A i \in DOMAIN queue : queue[i].job # j /\ queue[i].job \in Jobs
      <4>1. \A i \in DOMAIN queue : queue[i] \in E
        BY <3>2
      <4> QED
        BY <1>1, <1>4, <4>1 DEF CallsOK, QueueOK, E
    <3>5. \A i \in DOMAIN queue : call'[queue'[i].job].at = "queued"
      BY <1>1, <1>5, <3>3, <3>4 DEF CallsOK, QueueOK
    <3>6. call'[queue'[Len(queue) + 1].job].at = "queued"
      BY <1>2, <1>5, <2>3, <3>2, <3>3
    <3>7. \A i, k \in DOMAIN queue' : queue'[i].job = queue'[k].job => i = k
      BY <1>1, <3>2, <3>3, <3>4 DEF CallsOK, QueueOK
    <3>8. QueueOK'
      BY <3>3, <3>5, <3>6, <3>7 DEF QueueOK
    <3> QED
      BY <3>3, <3>8 DEF E
  <2> QED
    BY <2>2, <2>3
<1>7. WaitOK' /\ core' \in CoreFlags /\ SameFlags
  <2>1. CASE op = "save"
    <3>1. Saving' = Saving \cup {j} /\ j \notin Saving
      BY <1>2, <1>4, <1>5, <2>1 DEF Saving
    <3>2. Cardinality(Saving') = Cardinality(Saving) + 1 /\ Cardinality(Saving) \in Nat
      BY <3>1, SavingFinite, FS_AddElement, FS_CardinalityType
    <3>3. core' = [core EXCEPT !.wait = core.wait + 1] /\ core.wait = Cardinality(Saving)
      BY <2>1 DEF IInv, WaitOK
    <3> QED
      BY <1>1, <3>2, <3>3 DEF CoreFlags, WaitOK, SameFlags
  <2>2. CASE op # "save"
    <3>1. Saving' = Saving
      BY <1>2, <1>4, <1>5, <2>2 DEF Saving
    <3> QED
      BY <1>1, <2>2, <3>1 DEF IInv, WaitOK, SameFlags
  <2> QED
    BY <2>1, <2>2
<1>8. StateOK'
  BY <1>6, <1>7 DEF IInv, StateOK
<1>9. Order'
  BY <1>1, <1>5, <1>7, OrderKept
<1> QED
  BY <1>5, <1>6, <1>7, <1>8, <1>9, KeepAlive DEF CallsOK

\* A step of the machine that leaves the calls alone.
LEMMA NoCallKept ==
  ASSUME IInv, UNCHANGED <<call, owner, queue>>, core'.wait = core.wait
  PROVE  CallsOK' /\ WaitOK' /\ Place' = Place /\ Purpose' = Purpose /\ Failed' = Failed
  BY NoCallStep DEF IInv, WaitOK

LEMMA AskStep == ASSUME IInv, NEW j \in Jobs, Ask(j) PROVE IInv'
<1>1. PICK r \in session.requests :
        /\ r.op \in {"start", "close", "reset", "save"}
        /\ Invoke(j, r.op, r.wait)
        /\ core' = IF r.op = "save" THEN [core EXCEPT !.wait = @ + 1] ELSE core
  BY DEF Ask
<1>2. Alive /\ call[j] = NoCall /\ UNCHANGED <<session, emu, audio, owner, worker, handles, told, process, users>>
  BY DEF Ask, Pumping, Alive
<1>3. r.wait \in BOOLEAN
  BY SessionsAssumption DEF IInv, StateOK
<1> DEFINE key == IF r.wait \/ r.op = "save" THEN NoKey ELSE r.op
           at  == IF session.inOrder THEN "queued" ELSE "lock"
<1>4. CASE session.inOrder /\ Enqueued(queue, key)
  <2>1. UNCHANGED <<call, queue>>
    BY <1>1, <1>4 DEF Invoke
  <2>2. core' = core
    BY <1>1, <1>4 DEF Enqueued
  <2>3. CallsOK' /\ WaitOK' /\ Place' = Place /\ Purpose' = Purpose /\ Failed' = Failed
    BY <1>2, <2>1, <2>2, NoCallKept
  <2>4. StateOK' /\ SameFlags
    BY <1>2, <2>1, <2>2 DEF IInv, StateOK, SameFlags
  <2>5. Order'
    BY <1>2, <2>3, <2>4, OrderKept, AliveOrder
  <2> QED
    BY <1>2, <2>3, <2>4, <2>5, KeepAlive
<1>5. CASE ~(session.inOrder /\ Enqueued(queue, key))
  <2>1. call' = [call EXCEPT ![j] = [op |-> r.op, wait |-> r.wait, at |-> at, answer |-> "none"]]
        /\ queue' = IF session.inOrder THEN InvokeAsync(queue, key, j) ELSE queue
    BY <1>1, <1>5 DEF Invoke
  <2>2. key \in Keys
    BY <1>1 DEF NoKey, Keys
  <2> HIDE DEF key
  <2>3. \/ queue' = queue /\ at = "lock"
        \/ at = "queued" /\ queue' = Append(queue, [key |-> key, job |-> j])
    BY <1>5, <2>1 DEF InvokeAsync
  <2>4. r.op \in {"start", "close", "reset", "save", "exit"} /\ at \in {"queued", "lock"}
    BY <1>1
  <2> HIDE DEF at
  <2> QED
    BY <1>1, <1>2, <1>3, <2>1, <2>2, <2>3, <2>4, NewCall
<1> QED
  BY <1>4, <1>5

LEMMA AskExitStep == ASSUME IInv, NEW j \in Jobs, AskExit(j) PROVE IInv'
<1>1. /\ Alive /\ call[j] = NoCall
      /\ call' = [call EXCEPT ![j] = [op |-> "exit", wait |-> FALSE, at |-> "lock", answer |-> "none"]]
      /\ UNCHANGED <<session, core, emu, audio, owner, queue, worker, handles, told, process, users>>
  BY DEF AskExit, Pumping, Alive
<1> QED
  BY <1>1, NewCall, ZenonT(40)

LEMMA UserStep == ASSUME IInv, Pause \/ Resume \/ FrameAdvance PROVE IInv'
<1>1. /\ Alive /\ users' \in 0..MaxUser
      /\ UNCHANGED <<session, emu, audio, owner, call, queue, worker, handles, told, process>>
  BY CoreBounds DEF IInv, StateOK, Pause, Resume, FrameAdvance, UserDoes, Pumping, Alive
<1>2. core' \in CoreFlags /\ core'.wait = core.wait /\ SameFlags
  BY DEF IInv, StateOK, CoreFlags, SameFlags, Pause, Resume, FrameAdvance, Paused, Resumed
<1>3. CallsOK' /\ WaitOK' /\ Place' = Place /\ Purpose' = Purpose /\ Failed' = Failed
  BY <1>1, <1>2, NoCallKept
<1>4. StateOK'
  BY <1>1, <1>2 DEF IInv, StateOK
<1>5. Order'
  BY <1>1, <1>2, <1>3, OrderKept, AliveOrder
<1> QED
  BY <1>1, <1>3, <1>4, <1>5, KeepAlive

\* The main thread goes on to its end.
LEMMA ProcessStep == ASSUME IInv, ExecutorStop \/ \E j \in Jobs : Destroy(j) PROVE IInv'
<1>1. /\ Alive /\ process' \in {"destroy", "gone"}
      /\ UNCHANGED <<session, core, emu, audio, owner, call, queue, worker, handles, told, users>>
  BY DEF ExecutorStop, Destroy, Pumping, Alive
<1>2. SameFlags /\ StateOK'
  BY <1>1 DEF IInv, StateOK, SameFlags
<1>3. CallsOK' /\ WaitOK' /\ Place' = Place /\ Purpose' = Purpose /\ Failed' = Failed
  BY <1>1, NoCallKept
<1>4. Order'
  BY <1>1, <1>2, <1>3, OrderKept, AliveOrder
<1> QED
  BY <1>1, <1>2, <1>3, <1>4 DEF IInv

-----------------------------------------------------------------------------
(* The emulation thread and the audio thread.                              *)

LEMMA EmuLoadStep == ASSUME IInv, EmuLoad PROVE IInv'
<1>1. Alive /\ emu = "load" /\ emu' = "tell" /\ Order
      /\ UNCHANGED <<session, core, owner, call, queue, worker, handles, told, users>>
  BY AliveOrder DEF EmuLoad, EmuStep
<1>2. audio.thread = "none"
  BY <1>1 DEF Order, AudioOK
<1>3. audio' = [audio EXCEPT !.thread = "run"] /\ process' = process
  BY <1>2 DEF EmuLoad
<1>4. CallsOK' /\ WaitOK' /\ Place' = Place /\ Purpose' = Purpose /\ Failed' = Failed
  BY <1>1, NoCallKept
<1>5. StateOK'
  BY <1>1, <1>3 DEF IInv, StateOK, EmuPlaces
<1>6. FlagsOK'
  BY <1>1, <1>4 DEF Order, FlagsOK, Up, Running
<1>7. StageOK'
  BY <1>1, <1>4 DEF Order, StageOK, Faulty, Running
<1>8. AudioOK'
  BY <1>1, <1>3, <1>4 DEF IInv, StateOK, Order, StageOK, AudioOK
<1>9. FilesOK'
  BY <1>1, <1>4 DEF Order, FilesOK, Opened, Faulty
<1>10. ToldOK'
  BY <1>1 DEF ToldOK
<1> QED
  BY <1>1, <1>3, <1>4, <1>5, <1>6, <1>7, <1>8, <1>9, <1>10, KeepAlive DEF Order

LEMMA EmuTellStep == ASSUME IInv, EmuTell PROVE IInv'
<1>1. Alive /\ emu = "tell" /\ emu' = "start" /\ Order
      /\ UNCHANGED <<session, core, audio, process, owner, call, queue, worker, handles, users>>
  BY AliveOrder DEF EmuTell, EmuStep
<1>2. CallsOK' /\ WaitOK' /\ Place' = Place /\ Purpose' = Purpose /\ Failed' = Failed
  BY <1>1, NoCallKept
<1>3. StateOK'
  BY <1>1 DEF EmuTell, IInv, StateOK, EmuPlaces
<1>4. FlagsOK'
  BY <1>1, <1>2 DEF Order, FlagsOK, Up, Running
<1>5. StageOK'
  BY <1>1, <1>2 DEF Order, StageOK, Faulty, Running
<1>6. AudioOK'
  BY <1>1, <1>2 DEF Order, AudioOK
<1>7. FilesOK'
  BY <1>1, <1>2 DEF Order, FilesOK, Opened, Faulty
<1>8. ToldOK'
  BY <1>1 DEF ToldOK
<1> QED
  BY <1>1, <1>2, <1>3, <1>4, <1>5, <1>6, <1>7, <1>8, KeepAlive DEF Order

LEMMA CoreStartStep == ASSUME IInv, CoreStart PROVE IInv'
<1>1. Alive /\ emu = "start" /\ emu' = "run" /\ Order
      /\ UNCHANGED <<session, audio, told, process, owner, call, queue, worker, handles, users>>
  BY AliveOrder DEF CoreStart, EmuStep
<1>2. core' = [core EXCEPT !.stop = FALSE, !.executing = TRUE] /\ core \in CoreFlags /\ core' \in CoreFlags
      /\ core'.wait = core.wait
  BY DEF CoreStart, IInv, StateOK, CoreFlags
<1>3. CallsOK' /\ WaitOK' /\ Place' = Place /\ Purpose' = Purpose /\ Failed' = Failed
  BY <1>1, <1>2, NoCallKept
<1>4. Place = "spin"
  BY <1>1 DEF Order, StageOK
<1>5. StateOK'
  BY <1>1, <1>2 DEF IInv, StateOK, EmuPlaces
<1>6. FlagsOK'
  BY <1>1, <1>2, <1>3 DEF CoreFlags, Order, FlagsOK, Up, Running
<1>7. StageOK'
  BY <1>1, <1>2, <1>3, <1>4 DEF CoreFlags, Order, StageOK, Faulty, Running
<1>8. AudioOK'
  BY <1>1, <1>3 DEF Order, AudioOK
<1>9. FilesOK'
  BY <1>1, <1>3 DEF Order, FilesOK, Opened, Faulty
<1>10. ToldOK'
  BY <1>1 DEF ToldOK
<1> QED
  BY <1>1, <1>3, <1>5, <1>6, <1>7, <1>8, <1>9, <1>10, KeepAlive DEF Order

\* A step inside the loop of core_start(): only a faulty CPU sets the stop
\* flag in it.
LEMMA LoopStep ==
  ASSUME IInv,
         CoreLoop \/ CoreOp \/ CoreOpStops \/ PollOnce \/ PollPause \/ PollWaited \/ PollResumed
  PROVE  IInv'
<1>1. Alive /\ emu \in Running /\ emu' \in Running /\ Order
      /\ UNCHANGED <<session, audio, told, process, owner, call, queue, worker, handles, users>>
  BY AliveOrder DEF CoreLoop, CoreOp, CoreOpStops, PollOnce, PollPause, PollWaited, PollResumed,
     EmuStep, Running
<1>2. core \in CoreFlags
  BY DEF IInv, StateOK
<1>3. /\ core' \in CoreFlags
      /\ core'.launched = core.launched /\ core'.executing = core.executing
      /\ core'.resetting = core.resetting /\ core'.wait = core.wait
      /\ ~Faulty("cpu") => core'.stop = core.stop
  BY <1>2 DEF CoreLoop, CoreOp, CoreOpStops, PollOnce, PollPause, PollWaited, PollResumed,
     Paused, CoreFlags, Faulty
<1>4. CallsOK' /\ WaitOK' /\ Place' = Place /\ Purpose' = Purpose /\ Failed' = Failed
  BY <1>1, <1>3, NoCallKept
<1>5. StateOK'
  BY <1>1, <1>3 DEF IInv, StateOK, EmuPlaces, Running
<1>6. FlagsOK'
  BY <1>1, <1>3, <1>4 DEF Order, FlagsOK, Up, Running
<1>7. StageOK'
  BY <1>1, <1>3, <1>4 DEF Order, StageOK, Faulty, Running
<1>8. AudioOK'
  BY <1>1, <1>4 DEF Order, AudioOK, Running
<1>9. FilesOK'
  BY <1>1, <1>4 DEF Order, FilesOK, Opened, Faulty, Running
<1>10. ToldOK'
  BY <1>1 DEF ToldOK, Running
<1> QED
  BY <1>1, <1>4, <1>5, <1>6, <1>7, <1>8, <1>9, <1>10, KeepAlive DEF Order

LEMMA CoreEndStep == ASSUME IInv, CoreEnd PROVE IInv'
<1>1. Alive /\ emu = "run" /\ emu' = "unload" /\ Order /\ core.stop
      /\ UNCHANGED <<session, audio, told, process, owner, call, queue, worker, handles, users>>
  BY AliveOrder DEF CoreEnd, EmuStep
<1>2. core' = [core EXCEPT !.executing = FALSE] /\ core \in CoreFlags /\ core' \in CoreFlags
      /\ core'.wait = core.wait
  BY DEF CoreEnd, IInv, StateOK, CoreFlags
<1>3. CallsOK' /\ WaitOK' /\ Place' = Place /\ Purpose' = Purpose /\ Failed' = Failed
  BY <1>1, <1>2, NoCallKept
<1>4. StateOK'
  BY <1>1, <1>2 DEF IInv, StateOK, EmuPlaces
<1>5. FlagsOK'
  BY <1>1, <1>2, <1>3 DEF CoreFlags, Order, FlagsOK, Up, Running
<1>6. StageOK'
  BY <1>1, <1>2, <1>3 DEF CoreFlags, Order, StageOK, Faulty, Running
<1>7. AudioOK'
  BY <1>1, <1>3 DEF Order, AudioOK
<1>8. FilesOK'
  BY <1>1, <1>3 DEF Order, FilesOK, Opened, Faulty
<1>9. ToldOK'
  BY <1>1 DEF ToldOK
<1> QED
  BY <1>1, <1>3, <1>4, <1>5, <1>6, <1>7, <1>8, <1>9, KeepAlive DEF Order

LEMMA EmuUnloadStep == ASSUME IInv, EmuUnload PROVE IInv'
<1>1. Alive /\ emu = "unload" /\ emu' = "ended" /\ Order
      /\ UNCHANGED <<session, audio, told, process, owner, call, queue, worker, handles, users>>
  BY AliveOrder DEF EmuUnload, EmuStep
<1>2. core' = [core EXCEPT !.paused = TRUE, !.launched = FALSE] /\ core \in CoreFlags
      /\ core' \in CoreFlags /\ core'.wait = core.wait
  BY DEF EmuUnload, IInv, StateOK, CoreFlags
<1>3. CallsOK' /\ WaitOK' /\ Place' = Place /\ Purpose' = Purpose /\ Failed' = Failed
  BY <1>1, <1>2, NoCallKept
<1>4. StateOK'
  BY <1>1, <1>2 DEF IInv, StateOK, EmuPlaces
<1>5. FlagsOK'
  BY <1>1, <1>2, <1>3 DEF CoreFlags, Order, FlagsOK, Up, Running
<1>6. StageOK'
  BY <1>1, <1>2, <1>3 DEF CoreFlags, Order, StageOK, Faulty, Running
<1>7. AudioOK'
  BY <1>1, <1>3 DEF Order, AudioOK
<1>8. FilesOK'
  BY <1>1, <1>3 DEF Order, FilesOK, Opened, Faulty
<1>9. ToldOK'
  BY <1>1 DEF ToldOK
<1> QED
  BY <1>1, <1>3, <1>4, <1>5, <1>6, <1>7, <1>8, <1>9, KeepAlive DEF Order

LEMMA EmuEndStep == ASSUME IInv, EmuEnd PROVE IInv'
<1>1. Alive /\ emu = "ended" /\ emu' = "finished" /\ Order
      /\ UNCHANGED <<session, core, audio, process, owner, call, queue, worker, handles, users>>
  BY AliveOrder DEF EmuEnd, EmuStep
<1>2. told' \in [launched : BOOLEAN, starting : BOOLEAN] /\ (~core.resetting => ~told'.launched)
  BY DEF EmuEnd, IInv, StateOK
<1>3. CallsOK' /\ WaitOK' /\ Place' = Place /\ Purpose' = Purpose /\ Failed' = Failed
  BY <1>1, NoCallKept
<1>4. StateOK'
  BY <1>1, <1>2 DEF IInv, StateOK, EmuPlaces
<1>5. FlagsOK'
  BY <1>1, <1>3 DEF Order, FlagsOK, Up, Running
<1>6. StageOK'
  BY <1>1, <1>3 DEF Order, StageOK, Faulty, Running
<1>7. AudioOK'
  BY <1>1, <1>3 DEF Order, AudioOK
<1>8. FilesOK'
  BY <1>1, <1>3 DEF Order, FilesOK, Opened, Faulty
<1>9. ToldOK'
  BY <1>1, <1>2 DEF ToldOK
<1> QED
  BY <1>1, <1>3, <1>4, <1>5, <1>6, <1>7, <1>8, <1>9, KeepAlive DEF Order

LEMMA AudioStopStep == ASSUME IInv, AudioStop PROVE IInv'
<1>1. Alive /\ Order /\ audio.thread = "run" /\ audio.stop /\ audio' = [audio EXCEPT !.thread = "finished"]
      /\ UNCHANGED <<session, core, emu, owner, call, queue, worker, handles, told, process, users>>
  BY AliveOrder DEF AudioStop
<1>2. CallsOK' /\ WaitOK' /\ Place' = Place /\ Purpose' = Purpose /\ Failed' = Failed
  BY <1>1, NoCallKept
<1>3. StateOK' /\ audio'.thread = "finished" /\ audio'.stop = audio.stop
  BY <1>1 DEF IInv, StateOK
<1>4. FlagsOK' /\ ToldOK'
  BY <1>1, <1>2 DEF Order, FlagsOK, ToldOK
<1>5. StageOK'
  BY <1>1, <1>2 DEF Order, StageOK, Faulty
<1>6. AudioOK'
  BY <1>1, <1>2, <1>3 DEF Order, AudioOK
<1>7. FilesOK'
  BY <1>1, <1>2 DEF Order, FilesOK, Opened, Faulty
<1> QED
  BY <1>1, <1>2, <1>3, <1>4, <1>5, <1>6, <1>7, KeepAlive DEF Order

-----------------------------------------------------------------------------

LEMMA InitIInv == Init => IInv
<1> SUFFICES ASSUME Init PROVE IInv
  OBVIOUS
<1>1. StateOK
  BY CoreBounds DEF Init, StateOK, CoreFlags, EmuPlaces
<1>2. CallsOK
  BY JobsAreNumbers DEF Init, CallsOK, CallOK, Call, Ops, CallPlaces, Answers, NoCall, LockOK, JobsOK,
     JobOK, QueueOK, Inside
<1>3. Saving = {}
  BY DEF Init, Saving, NoCall
<1>4. WaitOK
  BY <1>3, FS_EmptySet DEF Init, WaitOK
<1>5. Place = "free" /\ Purpose = "none"
  BY DEF Init, Place, Purpose
<1>6. Order
  BY <1>5 DEF Init, Order, FlagsOK, StageOK, AudioOK, FilesOK, ToldOK, Opened, Up, Running
<1> QED
  BY <1>1, <1>2, <1>4, <1>6 DEF Init, IInv

LEMMA StutterStep == IInv /\ UNCHANGED vars => IInv'
<1> SUFFICES ASSUME IInv, UNCHANGED vars PROVE IInv'
  OBVIOUS
<1>1. UNCHANGED <<session, core, emu, audio, owner, call, queue, worker, handles, told, process, users>>
  BY DEF vars
<1>2. CallsOK' /\ WaitOK' /\ Place' = Place /\ Purpose' = Purpose /\ Failed' = Failed
  BY <1>1, NoCallKept
<1>3. StateOK' /\ SameFlags /\ AbortOK' = AbortOK
  BY <1>1 DEF IInv, StateOK, SameFlags, AbortOK, Faulty
<1>4. Order => Order'
  BY <1>1, <1>2, <1>3, OrderKept
<1> QED
  BY <1>1, <1>2, <1>3, <1>4 DEF IInv

LEMMA CallerStep == ASSUME IInv, NEW j \in Jobs, Caller(j) PROVE IInv'
  BY LockStep, TryLockFailsStep, SaveJobStep, StartBeginStep, CheckStep, CloseResumeStep,
     JoinAudioStep, TerminateEmuStep, JoinEmuStep, CloseFilesStep, LoadRomStep, OpenFilesStep,
     SpawnEmuStep, StartDoneStep DEF Caller

LEMMA EmulationStep == ASSUME IInv, Emulation PROVE IInv'
  BY EmuLoadStep, EmuTellStep, CoreStartStep, LoopStep, CoreEndStep, EmuUnloadStep, EmuEndStep
     DEF Emulation

LEMMA NextIInv == IInv /\ [Next]_vars => IInv'
<1> SUFFICES ASSUME IInv, [Next]_vars PROVE IInv'
  OBVIOUS
<1>1. CASE User
  BY <1>1, AskStep, AskExitStep, UserStep DEF User
<1>2. CASE \E j \in Jobs : Caller(j) \/ Destroy(j)
  BY <1>2, CallerStep, ProcessStep
<1>3. CASE ExecutorStop \/ RunJob \/ Emulation \/ AudioStop
  BY <1>3, ProcessStep, RunJobStep, EmulationStep, AudioStopStep
<1>4. CASE UNCHANGED vars
  BY <1>4, StutterStep
<1> QED
  BY <1>1, <1>2, <1>3, <1>4 DEF Next

-----------------------------------------------------------------------------

\* Every reachable state satisfies the inductive invariant.
THEOREM Inductive == Spec => []IInv
<1>1. Init => IInv
  BY InitIInv
<1>2. IInv /\ [Next]_vars => IInv'
  BY NextIInv
<1> QED
  BY <1>1, <1>2, PTL DEF Spec

\* Flags, threads, calls, queue and handles keep their types: the poll's
\* counter never goes below zero, and no file is closed more often than opened.
THEOREM TypesHold == Spec => []TypeOK
<1>1. IInv => TypeOK
  BY DEF IInv, StateOK, CallsOK, CallOK, Call, Ops, Answers, CoreFlags, TypeOK
<1> QED
  BY <1>1, Inductive, PTL

\* While the core runs and until its thread is joined, the save files it
\* writes to are open, through every close, reset, failed start and dead core.
THEOREM SavesAreOpen == Spec => []SavesOpen
<1>1. ASSUME IInv PROVE SavesOpen
  <2>1. CASE process = "aborted"
    BY <1>1, <2>1 DEF IInv, AbortOK, SavesOpen
  <2>2. CASE process # "aborted"
    <3>1. FilesOK /\ handles \in [1..Files -> Nat] /\ Order
      BY <1>1, <2>2 DEF IInv, StateOK, Order
    <3>2. emu # "none" => Opened \in Nat /\ Opened >= 1
      BY DEF Opened
    <3> QED
      BY <3>1, <3>2 DEF FilesOK, SavesOpen
  <2> QED
    BY <2>1, <2>2
<1> QED
  BY <1>1, Inductive, PTL

\* With the thread joined and no call under way no save file is left open,
\* unless opening one of them failed.
THEOREM SavesAreClosed == Spec => []SavesClosed
<1>1. ASSUME IInv PROVE SavesClosed
  <2> SUFFICES ASSUME owner = NoJob, emu = "none", ~Faulty("open") PROVE \A f \in 1..Files : handles[f] = 0
    BY DEF SavesClosed, Faulty
  <2>1. process # "aborted"
    BY <1>1 DEF IInv, AbortOK
  <2>2. Opened = 0
    BY DEF Opened, Place
  <2> QED
    BY <1>1, <2>1, <2>2 DEF IInv, Order, FilesOK
<1> QED
  BY <1>1, Inductive, PTL

\* The audio thread has left its plugin before the plugin is unloaded, unless
\* the CPU has stopped itself.
THEOREM AudioLeavesPlugin == Spec => []AudioInPlugin
<1>1. ASSUME IInv PROVE AudioInPlugin
  <2> SUFFICES ASSUME audio.thread = "run", emu \in {"ended", "finished", "none"}, ~Faulty("cpu")
               PROVE  FALSE
    BY DEF AudioInPlugin, Faulty
  <2>1. Order
    BY <1>1 DEF IInv, AbortOK
  <2>2. emu # "none" /\ Place = "join"
    BY <2>1 DEF Order, AudioOK, StageOK
  <2> QED
    BY <2>1, <2>2 DEF Order, AudioOK
<1> QED
  BY <1>1, Inductive, PTL

\* Neither thread is ever assigned over one that was not joined, which ends
\* the program, unless the CPU has stopped itself.
THEOREM NeverAborts == Spec => []NoAbort
<1>1. IInv => NoAbort
  BY DEF IInv, AbortOK, Faulty, NoAbort
<1> QED
  BY <1>1, Inductive, PTL

\* The listeners of EmuLaunchedChanged are not left with a machine that has
\* ended, unless a reset has failed in between.
THEOREM ListenersAreTold == Spec => []ListenersKnow
<1>1. ASSUME IInv PROVE ListenersKnow
  <2> SUFFICES ASSUME owner = NoJob, emu \in {"none", "finished"}, process # "aborted"
               PROVE  told.launched = core.launched \/ Failed
    BY DEF ListenersKnow, Failed
  <2>1. Order /\ core \in CoreFlags /\ told \in [launched : BOOLEAN, starting : BOOLEAN]
    BY <1>1 DEF IInv, StateOK
  <2>2. ~core.launched
    BY <2>1 DEF Order, FlagsOK, Up
  <2>3. ~core.resetting
    BY <2>1 DEF Order, FlagsOK, Purpose
  <2>4. told.launched => Failed
    BY <2>1, <2>3 DEF Order, ToldOK
  <2> QED
    BY <2>1, <2>2, <2>4 DEF CoreFlags
<1> QED
  BY <1>1, Inductive, PTL

\* A poll waits for exactly the saves and loads that were asked for and have
\* not run yet: none is forgotten, and none is waited for twice.
THEOREM PollsWaitForSaves == Spec => [](core.wait = Cardinality(Saving))
<1>1. IInv => core.wait = Cardinality(Saving)
  BY DEF IInv, WaitOK
<1> QED
  BY <1>1, Inductive, PTL

-----------------------------------------------------------------------------
(* Refinement of CoreContract.                                             *)

LEMMA FreshPlace == Fresh <=> Place = "spin" /\ core.executing
  BY DEF Fresh, Place

\* What the contract sees of a call.
LEMMA AskedOf ==
  ASSUME CallOK, NEW j \in Jobs
  PROVE  /\ Asked \in [Jobs -> [op : {"none", "start", "close", "reset"}, wait : BOOLEAN, answer : Answers]]
         /\ call[j].op = "save" => Asked[j] = Contract!Idle
         /\ call[j].op # "save" => /\ Asked[j].op = ContractOp(call[j].op)
                                   /\ Asked[j].wait = call[j].wait
                                   /\ Asked[j].answer = call[j].answer
  BY DEF CallOK, Call, Ops, Answers, Asked, ContractOp, Contract!Idle

LEMMA ContractUnchanged ==
  ASSUME UNCHANGED <<owner, session, Asked, Fresh>>, core'.executing = core.executing
  PROVE  UNCHANGED Contract!vars
  BY DEF Contract!vars, Mortal

\* The holder goes on.
LEMMA GoToImplements ==
  ASSUME IInv, NEW j \in Jobs, call[j].at \in Inside \ {"spin"}, NEW p \in Inside, GoTo(j, p),
         UNCHANGED <<owner, session>>, core'.executing = core.executing,
         p = "spin" => ~core.executing
  PROVE  UNCHANGED Contract!vars
<1>1. CallOK /\ LockOK /\ owner = j /\ Place = call[j].at
  BY AtPlace DEF IInv, CallsOK
<1>2. \A k \in Jobs : call'[k] = IF k = j THEN [call[j] EXCEPT !.at = p] ELSE call[k]
  BY <1>1 DEF GoTo, CallOK
<1>3. call[j] \in Call
  BY <1>1 DEF CallOK
<1>4. \A k \in Jobs : /\ call'[k].op = call[k].op /\ call'[k].wait = call[k].wait
                      /\ call'[k].answer = call[k].answer
  BY <1>2, <1>3 DEF Call
<1>5. Asked' = Asked
  BY <1>4 DEF Asked
<1>6. Place' = p
  BY <1>1, <1>2, <1>3, JobsAreNumbers DEF Place, Call
<1>7. Fresh' = Fresh
  BY <1>1, <1>6, FreshPlace DEF Fresh, Place
<1> QED
  BY <1>5, <1>7, ContractUnchanged

\* The holder returns with an answer the machine justifies.
LEMMA ReturnImplements ==
  ASSUME IInv, NEW j \in Jobs, call[j].at \in Inside, NEW r \in {"Ok", "NotRunning", "Error"},
         Return(j, r), UNCHANGED session, core'.executing = core.executing,
         \/ r = "Ok" /\ call[j].op \in {"start", "reset"} /\ Fresh
         \/ r = "Ok" /\ call[j].op \in {"close", "exit"} /\ ~core.executing
         \/ r = "NotRunning" /\ (call[j].op # "start" \/ Faulty("cpu")) /\ ~core.executing
         \/ r = "Error" /\ call[j].op \in {"start", "reset"} /\ ~core.executing
  PROVE  Contract!Answer(j)
<1>1. CallOK /\ LockOK /\ owner = j /\ JobOK(call[j]) /\ call[j] \in Call
  BY AtPlace DEF IInv, CallsOK, JobsOK, CallOK
<1>2. \A k \in Jobs : call'[k] = IF k = j THEN [call[j] EXCEPT !.at = "done", !.answer = r] ELSE call[k]
  BY <1>1 DEF Return, CallOK
<1>3. call[j].op \notin {"save", "none"} /\ call[j].answer = "none"
  BY <1>1, InsidePlaces DEF JobOK, CallPlaces, Inside
<1>4. call'[j].op = call[j].op /\ call'[j].wait = call[j].wait /\ call'[j].answer = r
      /\ \A k \in Jobs \ {j} : call'[k] = call[k]
  BY <1>1, <1>2 DEF Call
<1>5. Asked[j].op = ContractOp(call[j].op) /\ Asked[j].answer = "none"
      /\ Asked \in [Jobs -> [op : {"none", "start", "close", "reset"}, wait : BOOLEAN, answer : Answers]]
  BY <1>1, <1>3, AskedOf
<1>6. Asked' = [Asked EXCEPT ![j].answer = r]
  <2>1. Asked'[j] = [Asked[j] EXCEPT !.answer = r]
    BY <1>3, <1>4 DEF Asked
  <2>2. \A k \in Jobs \ {j} : Asked'[k] = Asked[k]
    BY <1>4 DEF Asked
  <2>3. DOMAIN Asked' = Jobs /\ Asked' = [k \in Jobs |-> Asked'[k]]
    BY DEF Asked
  <2> QED
    BY <1>5, <2>1, <2>2, <2>3
<1>7. call[j].op \in {"start", "close", "reset", "exit"}
  BY <1>1, <1>3 DEF Call, Ops
<1>8. owner' = NoJob /\ Fresh' = FALSE
  BY <1>1 DEF Return, Fresh
<1>9. Contract!Open(j)
  BY <1>3, <1>5, <1>7 DEF Contract!Open, ContractOp
<1>10. Fresh => core.executing
  BY DEF Fresh
<1>11. Contract!Justified(Asked[j].op, r)
  BY <1>5, <1>7, <1>10 DEF Contract!Justified, ContractOp, Mortal, Faulty
<1>12. Contract!Reply(j, r)
  BY <1>6 DEF Contract!Reply
<1> QED
  BY <1>1, <1>8, <1>9, <1>11, <1>12 DEF Contract!Answer, Mortal

LEMMA NotRunningNow ==
  ASSUME Order, ~core.launched PROVE ~core.executing
  BY DEF Order, FlagsOK, Up, Running

\* A step that touches neither a call nor the flag.
LEMMA SilentImplements ==
  ASSUME UNCHANGED <<owner, session, call>>, core'.executing = core.executing
  PROVE  UNCHANGED Contract!vars
  BY ContractUnchanged DEF Asked, Fresh

LEMMA LockImplements == ASSUME IInv, NEW j \in Jobs, Lock(j) PROVE Contract!Acquire(j)
<1> DEFINE p == IF call[j].op = "start" THEN "begin" ELSE "check"
<1>1. CallOK /\ JobOK(call[j]) /\ call[j] \in Call
  BY DEF IInv, CallsOK, JobsOK, CallOK
<1>2. \A k \in Jobs : call'[k] = IF k = j THEN [call[j] EXCEPT !.at = p] ELSE call[k]
  BY <1>1 DEF Lock, GoTo, CallOK
<1>3. \A k \in Jobs : /\ call'[k].op = call[k].op /\ call'[k].wait = call[k].wait
                      /\ call'[k].answer = call[k].answer
  BY <1>1, <1>2 DEF Call
<1>4. call'[j].at # "spin"
  BY <1>1, <1>2 DEF Call
<1>5. Asked' = Asked
  BY <1>3 DEF Asked
<1>6. owner = NoJob /\ owner' = j /\ Fresh = FALSE /\ Fresh' = FALSE
  BY <1>4 DEF Lock, Fresh
<1>7. call[j].op \notin {"save", "none"} /\ call[j].answer = "none"
  BY <1>1 DEF Lock, JobOK
<1>8. Contract!Open(j)
  BY <1>1, <1>7, AskedOf DEF Contract!Open, ContractOp
<1> QED
  BY <1>5, <1>6, <1>8 DEF Lock, Contract!Acquire, Mortal

LEMMA TryLockFailsImplements == ASSUME IInv, NEW j \in Jobs, TryLockFails(j) PROVE Contract!Refuse(j)
<1>1. CallOK /\ JobOK(call[j]) /\ call[j] \in Call /\ owner # j
  BY InsidePlaces DEF IInv, CallsOK, JobsOK, CallOK, LockOK, TryLockFails
<1>2. \A k \in Jobs : call'[k] = IF k = j THEN [call[j] EXCEPT !.at = "done", !.answer = "Busy"] ELSE call[k]
  BY <1>1 DEF TryLockFails, Return, CallOK
<1>3. call[j].op \notin {"save", "none"} /\ call[j].answer = "none" /\ ~call[j].wait
  BY <1>1 DEF TryLockFails, JobOK
<1>4. call'[j].op = call[j].op /\ call'[j].wait = call[j].wait /\ call'[j].answer = "Busy"
      /\ \A k \in Jobs \ {j} : call'[k] = call[k]
  BY <1>1, <1>2 DEF Call
<1>5. Asked[j].op = ContractOp(call[j].op) /\ Asked[j].answer = "none" /\ ~Asked[j].wait
      /\ Asked \in [Jobs -> [op : {"none", "start", "close", "reset"}, wait : BOOLEAN, answer : Answers]]
  BY <1>1, <1>3, AskedOf
<1>6. Asked' = [Asked EXCEPT ![j].answer = "Busy"]
  <2>1. Asked'[j] = [Asked[j] EXCEPT !.answer = "Busy"]
    BY <1>3, <1>4 DEF Asked
  <2>2. \A k \in Jobs \ {j} : Asked'[k] = Asked[k]
    BY <1>4 DEF Asked
  <2>3. DOMAIN Asked' = Jobs /\ Asked' = [k \in Jobs |-> Asked'[k]]
    BY DEF Asked
  <2> QED
    BY <1>5, <2>1, <2>2, <2>3
<1>7. owner' = owner /\ owner # NoJob /\ owner \in Jobs
  BY <1>1 DEF TryLockFails, Return, IInv, StateOK
<1>8. Fresh' = Fresh
  BY <1>1, <1>2, <1>7 DEF TryLockFails, Fresh
<1>9. Contract!Open(j)
  BY <1>3, <1>5 DEF Contract!Open, ContractOp
<1> QED
  BY <1>1, <1>5, <1>6, <1>7, <1>8, <1>9 DEF TryLockFails, Contract!Refuse, Contract!Reply, Mortal

\* A save, queued or run, is nothing to the contract; nor is a function that
\* the worker takes up.
LEMMA SaveJobImplements == ASSUME IInv, NEW j \in Jobs, SaveJob(j) PROVE UNCHANGED Contract!vars
<1>1. CallOK /\ call[j] \in Call /\ owner # j
  BY InsidePlaces DEF IInv, CallsOK, CallOK, LockOK, SaveJob
<1>2. \A k \in Jobs : call'[k] = IF k = j THEN [call[j] EXCEPT !.at = "done", !.answer = "Ok"] ELSE call[k]
  BY <1>1 DEF SaveJob, Return, CallOK
<1>3. call'[j].op = "save" /\ call[j].op = "save"
  BY <1>1, <1>2 DEF SaveJob, Call
<1>4. Asked' = Asked
  BY <1>2, <1>3 DEF Asked
<1>5. owner' = owner /\ core'.executing = core.executing
  BY <1>1 DEF SaveJob, Return, IInv, StateOK, CoreFlags
<1>6. owner \in Jobs \cup {NoJob}
  BY DEF IInv, StateOK
<1>7. Fresh' = Fresh
  BY <1>1, <1>2, <1>5, <1>6 DEF Fresh
<1> QED
  BY <1>4, <1>5, <1>7, ContractUnchanged DEF SaveJob

LEMMA RunJobImplements == ASSUME IInv, RunJob PROVE UNCHANGED Contract!vars
<1> DEFINE j == Head(queue).job
<1>1. CallOK /\ LockOK /\ owner \in Jobs \cup {NoJob}
  BY DEF IInv, StateOK, CallsOK
<1>2. queue \in Seq([key : Keys, job : Jobs]) /\ queue # <<>>
  BY DEF RunJob, IInv, StateOK
<1>3. Head(queue) \in [key : Keys, job : Jobs] /\ Head(queue) = queue[1] /\ 1 \in DOMAIN queue
  <2> DEFINE E == [key : Keys, job : Jobs]
  <2> HIDE DEF E
  <2>1. ASSUME NEW q \in Seq(E), q # <<>> PROVE Head(q) \in E /\ Head(q) = q[1] /\ 1 \in DOMAIN q
    BY <2>1
  <2> QED
    BY <1>2, <2>1 DEF E
<1>4. j \in Jobs /\ call[j].at = "queued" /\ call[j] \in Call
  BY <1>1, <1>3 DEF IInv, CallsOK, QueueOK, CallOK
<1>5. call' = [call EXCEPT ![j].at = "lock"]
  BY DEF RunJob
<1> HIDE DEF j
<1>6. \A k \in Jobs : call'[k] = IF k = j THEN [call[j] EXCEPT !.at = "lock"] ELSE call[k]
  BY <1>1, <1>4, <1>5 DEF CallOK
<1>7. \A k \in Jobs : /\ call'[k].op = call[k].op /\ call'[k].wait = call[k].wait
                      /\ call'[k].answer = call[k].answer
  BY <1>4, <1>6 DEF Call
<1>8. Asked' = Asked
  BY <1>7 DEF Asked
<1>9. owner # j
  BY <1>1, <1>4, InsidePlaces DEF LockOK
<1>10. Fresh' = Fresh
  BY <1>1, <1>6, <1>9 DEF RunJob, Fresh
<1> QED
  BY <1>8, <1>10, ContractUnchanged DEF RunJob

\* A new call; one that is dropped, and a save, are nothing to the contract.
LEMMA NewCallImplements ==
  ASSUME IInv, NEW j \in Jobs, call[j] = NoCall,
         NEW op \in {"start", "close", "reset", "save", "exit"}, NEW wait \in BOOLEAN,
         NEW at \in {"queued", "lock"},
         call' = [call EXCEPT ![j] = [op |-> op, wait |-> wait, at |-> at, answer |-> "none"]],
         UNCHANGED <<session, owner>>, core'.executing = core.executing
  PROVE  Contract!Ask(j) \/ UNCHANGED Contract!vars
<1>1. CallOK /\ LockOK /\ owner \in Jobs \cup {NoJob}
  BY DEF IInv, StateOK, CallsOK
<1>2. \A k \in Jobs : call'[k] = IF k = j THEN [op |-> op, wait |-> wait, at |-> at, answer |-> "none"]
                                 ELSE call[k]
  BY <1>1 DEF CallOK
<1>3. owner # j
  BY <1>1, InsidePlaces DEF LockOK, NoCall
<1>4. Fresh' = Fresh
  BY <1>1, <1>2, <1>3 DEF Fresh
<1>5. Asked[j] = Contract!Idle /\ DOMAIN Asked = Jobs
  <2>1. call[j].op = "none" /\ call[j].wait = FALSE /\ call[j].answer = "none"
    BY DEF NoCall
  <2> QED
    BY <2>1 DEF Asked, ContractOp, Contract!Idle
<1>6. \A k \in Jobs \ {j} : Asked'[k] = Asked[k]
  BY <1>2 DEF Asked
<1>7. CASE op = "save"
  <2>1. Asked'[j] = Asked[j]
    BY <1>2, <1>5, <1>7 DEF Asked, Contract!Idle
  <2>2. DOMAIN Asked' = Jobs /\ Asked' = [k \in Jobs |-> Asked'[k]] /\ Asked = [k \in Jobs |-> Asked[k]]
    BY DEF Asked
  <2>3. Asked' = Asked
    BY <1>6, <2>1, <2>2
  <2> QED
    BY <1>4, <2>3, ContractUnchanged
<1>8. CASE op # "save"
  <2> DEFINE c == [op |-> ContractOp(op), wait |-> wait, answer |-> "none"]
  <2>1. Asked'[j] = c
    BY <1>2, <1>8 DEF Asked
  <2>2. Asked' = [Asked EXCEPT ![j] = c]
    <3>1. DOMAIN Asked' = Jobs /\ Asked' = [k \in Jobs |-> Asked'[k]]
      BY DEF Asked
    <3> QED
      BY <1>5, <1>6, <2>1, <3>1
  <2>3. ContractOp(op) \in {"start", "close", "reset"}
    BY <1>8 DEF ContractOp
  <2> QED
    BY <1>4, <1>5, <2>2, <2>3 DEF Contract!Ask, Mortal
<1> QED
  BY <1>7, <1>8

\* The steps of the holder on its way to the new core.
LEMMA WayImplements ==
  ASSUME IInv, NEW j \in Jobs,
         StartBegin(j) \/ JoinAudio(j) \/ TerminateEmu(j) \/ JoinEmu(j) \/ SpawnEmu(j)
  PROVE  UNCHANGED Contract!vars
<1>1. CallOK /\ call[j] \in Call /\ core \in CoreFlags /\ LockOK
  BY DEF IInv, StateOK, CallsOK, CallOK
<1>2. call[j].at \in Inside \ {"spin"} /\ Order
  BY AliveOrder DEF StartBegin, JoinAudio, TerminateEmu, JoinEmu, SpawnEmu, Inside
<1>3. PICK q \in Inside : GoTo(j, q) /\ (q = "spin" => SpawnEmu(j))
  BY DEF StartBegin, JoinAudio, TerminateEmu, JoinEmu, SpawnEmu, Inside
<1>4. UNCHANGED <<owner, session>> /\ core'.executing = core.executing
  BY <1>1 DEF StartBegin, JoinAudio, TerminateEmu, JoinEmu, SpawnEmu, CoreFlags
<1>5. SpawnEmu(j) => ~core.executing
  <2> SUFFICES ASSUME SpawnEmu(j) PROVE ~core.executing
    OBVIOUS
  <2>1. Place = "spawn"
    BY <1>1, <1>2, AtPlace DEF SpawnEmu
  <2> QED
    BY <1>2, <2>1 DEF Order, StageOK, FlagsOK, Running
<1> QED
  BY <1>2, <1>3, <1>4, <1>5, GoToImplements

LEMMA CheckImplements ==
  ASSUME IInv, NEW j \in Jobs, Check(j) PROVE Contract!Answer(j) \/ UNCHANGED Contract!vars
<1>1. call[j].at \in Inside \ {"spin"} /\ Order /\ core \in CoreFlags /\ JobOK(call[j])
  BY AliveOrder DEF Check, Inside, IInv, StateOK, CallsOK, JobsOK
<1>2. CASE core.launched
  BY <1>1, <1>2, GoToImplements DEF Check, Inside, CoreFlags
<1>3. CASE ~core.launched
  <2>1. ~core.executing /\ call[j].op # "start"
    BY <1>1, <1>3, NotRunningNow DEF Check, JobOK
  <2>2. Return(j, "NotRunning") /\ UNCHANGED session /\ core' = core
    BY <1>3 DEF Check
  <2>3. Contract!Answer(j)
    BY <1>1, <2>1, <2>2, ReturnImplements
  <2> QED
    BY <2>3
<1> QED
  BY <1>2, <1>3

LEMMA CloseResumeImplements ==
  ASSUME IInv, NEW j \in Jobs, CloseResume(j) PROVE Contract!Answer(j) \/ UNCHANGED Contract!vars
<1>1. call[j].at \in Inside \ {"spin"} /\ call[j].at = "close" /\ Order /\ core \in CoreFlags /\ LockOK
  BY AliveOrder DEF CloseResume, Inside, IInv, StateOK, CallsOK
<1>2. CASE core.launched
  <2>1. core'.executing = core.executing /\ GoTo(j, "audio") /\ UNCHANGED <<owner, session>>
    BY <1>1, <1>2 DEF CloseResume, Resumed, CoreFlags
  <2> QED
    BY <1>1, <2>1, GoToImplements DEF Inside
<1>3. CASE ~core.launched
  <2>1. Place = "close"
    BY <1>1, AtPlace
  <2>2. ~core.executing /\ Faulty("cpu")
    BY <1>1, <1>3, <2>1 DEF Order, StageOK, FlagsOK, Running, Up
  <2>3. Return(j, "NotRunning") /\ UNCHANGED session /\ core'.executing = core.executing
    BY <1>1, <1>3 DEF CloseResume, CoreFlags
  <2>4. Contract!Answer(j)
    BY <1>1, <2>2, <2>3, ReturnImplements
  <2> QED
    BY <2>4
<1> QED
  BY <1>2, <1>3

LEMMA CloseFilesImplements ==
  ASSUME IInv, NEW j \in Jobs, CloseFiles(j) PROVE Contract!Answer(j) \/ UNCHANGED Contract!vars
<1>1. call[j].at \in Inside \ {"spin"} /\ Order /\ LockOK /\ UNCHANGED <<session, core>>
  BY AliveOrder DEF CloseFiles, Inside, IInv, CallsOK
<1>2. CASE call[j].op \in {"close", "exit"}
  <2>1. Place = "files"
    BY <1>1, AtPlace DEF CloseFiles
  <2>2. ~core.executing
    BY <1>1, <2>1 DEF Order, StageOK, FlagsOK, Running
  <2>3. Return(j, "Ok")
    BY <1>2 DEF CloseFiles
  <2>4. Contract!Answer(j)
    BY <1>1, <1>2, <2>2, <2>3, ReturnImplements
  <2> QED
    BY <2>4
<1>3. CASE call[j].op \notin {"close", "exit"}
  BY <1>1, <1>3, GoToImplements DEF CloseFiles, Inside
<1> QED
  BY <1>2, <1>3

LEMMA LoadImplements ==
  ASSUME IInv, NEW j \in Jobs, LoadRom(j) \/ OpenFiles(j)
  PROVE  Contract!Answer(j) \/ UNCHANGED Contract!vars
<1>1. call[j].at \in Inside \ {"spin"} /\ call[j].at \in {"load", "open"}
  BY DEF LoadRom, OpenFiles, Inside
<1>2. Order /\ LockOK /\ core \in CoreFlags /\ JobOK(call[j]) /\ UNCHANGED session
  BY AliveOrder DEF LoadRom, OpenFiles, Pumping, Alive, IInv, StateOK, CallsOK, JobsOK
<1>3. Place = call[j].at
  BY <1>1, <1>2, AtPlace
<1>4. ~core.executing /\ call[j].op \in {"start", "reset"}
  BY <1>1, <1>2, <1>3 DEF Order, StageOK, FlagsOK, Running, JobOK
<1>5. CASE StartFails(j)
  <2>1. Return(j, "Error") /\ core'.executing = core.executing
    BY <1>2, <1>5 DEF StartFails, CoreFlags
  <2>2. Contract!Answer(j)
    BY <1>1, <1>2, <1>4, <2>1, ReturnImplements
  <2> QED
    BY <2>2
<1>6. CASE /\ GoTo(j, "open") \/ GoTo(j, "spawn")
           /\ UNCHANGED <<core, owner>>
  BY <1>1, <1>2, <1>6, GoToImplements DEF Inside
<1> QED
  BY <1>5, <1>6 DEF LoadRom, OpenFiles

LEMMA StartDoneImplements == ASSUME IInv, NEW j \in Jobs, StartDone(j) PROVE Contract!Answer(j)
<1>1. call[j].at \in Inside /\ LockOK /\ JobOK(call[j]) /\ core \in CoreFlags
  BY DEF StartDone, Inside, IInv, StateOK, CallsOK, JobsOK
<1>2. Fresh /\ call[j].op \in {"start", "reset"}
  BY <1>1, AtPlace, FreshPlace DEF StartDone, JobOK
<1>3. Return(j, "Ok") /\ UNCHANGED session /\ core'.executing = core.executing
  BY <1>1 DEF StartDone, CoreFlags
<1> QED
  BY <1>1, <1>2, <1>3, ReturnImplements

LEMMA CoreStartImplements == ASSUME IInv, CoreStart PROVE Contract!SwitchOn
<1>1. Order /\ CallOK /\ LockOK /\ core \in CoreFlags /\ owner \in Jobs \cup {NoJob} /\ JobsOK
  BY AliveOrder DEF CoreStart, EmuStep, IInv, StateOK, CallsOK
<1>2. Place = "spin" /\ ~core.executing
  BY <1>1 DEF CoreStart, EmuStep, Order, StageOK, FlagsOK, Running
<1>3. owner # NoJob /\ call[owner].at = "spin" /\ owner \in Jobs
  BY <1>1, <1>2 DEF Place
<1>4. call[owner].op \in {"start", "reset"}
  BY <1>1, <1>3 DEF JobsOK, JobOK
<1>5. Asked[owner].op \in {"start", "reset"}
  BY <1>1, <1>3, <1>4, AskedOf DEF ContractOp
<1>6. Asked' = Asked /\ UNCHANGED <<owner, session, call>>
  BY DEF CoreStart, EmuStep, Asked
<1>7. core'.executing = TRUE
  BY <1>1 DEF CoreStart, CoreFlags
<1>8. Fresh' = TRUE
  BY <1>3, <1>6, <1>7 DEF Fresh
<1>9. core.executing \in BOOLEAN
  BY <1>1 DEF CoreFlags
<1> QED
  BY <1>2, <1>3, <1>5, <1>6, <1>7, <1>8 DEF Contract!SwitchOn, Mortal

LEMMA CoreEndImplements == ASSUME IInv, CoreEnd PROVE Contract!SwitchOff \/ Contract!Die
<1>1. Order /\ core \in CoreFlags
  BY AliveOrder DEF CoreEnd, EmuStep, IInv, StateOK
<1>2. Asked' = Asked /\ UNCHANGED <<owner, session, call>>
  BY DEF CoreEnd, EmuStep, Asked
<1>3. core.executing /\ core'.executing = FALSE /\ Fresh' = FALSE
  BY <1>1, <1>2 DEF CoreEnd, EmuStep, Order, FlagsOK, Running, CoreFlags, Fresh
<1>4. CASE Mortal
  BY <1>2, <1>3, <1>4 DEF Contract!Die, Mortal
<1>5. CASE ~Mortal
  <2>1. Place = "join"
    BY <1>1, <1>5 DEF CoreEnd, EmuStep, Order, StageOK, Running, Mortal, Faulty
  <2>2. owner # NoJob /\ Fresh = FALSE
    BY <2>1 DEF Place, Fresh
  <2> QED
    BY <1>2, <1>3, <2>2 DEF Contract!SwitchOff, Mortal
<1> QED
  BY <1>4, <1>5

LEMMA AskImplements ==
  ASSUME IInv, NEW j \in Jobs, Ask(j) \/ AskExit(j) PROVE Contract!Ask(j) \/ UNCHANGED Contract!vars
<1>1. CASE Ask(j)
  <2>1. PICK r \in session.requests :
          /\ r.op \in {"start", "close", "reset", "save"}
          /\ Invoke(j, r.op, r.wait)
          /\ core' = IF r.op = "save" THEN [core EXCEPT !.wait = @ + 1] ELSE core
    BY <1>1 DEF Ask
  <2>2. r.wait \in BOOLEAN /\ core'.executing = core.executing
    BY <2>1, SessionsAssumption DEF IInv, StateOK, CoreFlags
  <2>3. call[j] = NoCall /\ UNCHANGED <<session, owner>>
    BY <1>1 DEF Ask
  <2>4. CASE UNCHANGED call
    BY <2>2, <2>3, <2>4, SilentImplements
  <2> DEFINE at == IF session.inOrder THEN "queued" ELSE "lock"
  <2>5. at \in {"queued", "lock"} /\ r.op \in {"start", "close", "reset", "save", "exit"}
    BY <2>1
  <2>6. CASE call' = [call EXCEPT ![j] = [op |-> r.op, wait |-> r.wait, at |-> at, answer |-> "none"]]
    <3> HIDE DEF at
    <3> QED
      BY <2>2, <2>3, <2>5, <2>6, NewCallImplements
  <2> QED
    BY <2>1, <2>4, <2>6 DEF Invoke
<1>2. CASE AskExit(j)
  <2>1. /\ call[j] = NoCall
        /\ call' = [call EXCEPT ![j] = [op |-> "exit", wait |-> FALSE, at |-> "lock", answer |-> "none"]]
        /\ UNCHANGED <<session, owner, core>>
    BY <1>2 DEF AskExit
  <2> QED
    BY <2>1, NewCallImplements
<1> QED
  BY <1>1, <1>2

\* What touches neither a call nor the core's loop.
LEMMA QuietImplements ==
  ASSUME IInv,
         \/ Pause \/ Resume \/ FrameAdvance \/ ExecutorStop \/ (\E j \in Jobs : Destroy(j))
         \/ EmuLoad \/ EmuTell \/ CoreLoop \/ CoreOp \/ CoreOpStops \/ PollOnce \/ PollPause
         \/ PollWaited \/ PollResumed \/ EmuUnload \/ EmuEnd \/ AudioStop
  PROVE  UNCHANGED Contract!vars
<1>1. UNCHANGED <<owner, session, call>>
  BY DEF Pause, Resume, FrameAdvance, UserDoes, ExecutorStop, Destroy, EmuLoad, EmuTell, CoreLoop,
     CoreOp, CoreOpStops, PollOnce, PollPause, PollWaited, PollResumed, EmuUnload, EmuEnd, AudioStop,
     EmuStep
<1>2. core \in CoreFlags
  BY DEF IInv, StateOK
<1>3. core'.executing = core.executing
  BY <1>2 DEF Pause, Resume, FrameAdvance, UserDoes, ExecutorStop, Destroy, EmuLoad, EmuTell,
     CoreLoop, CoreOp, CoreOpStops, PollOnce, PollPause, PollWaited, PollResumed, EmuUnload, EmuEnd,
     AudioStop, EmuStep, Paused, Resumed, CoreFlags
<1> QED
  BY <1>1, <1>3, SilentImplements

LEMMA NextImplements == IInv /\ [Next]_vars => [Contract!Next]_(Contract!vars)
<1> SUFFICES ASSUME IInv, [Next]_vars PROVE Contract!Next \/ UNCHANGED Contract!vars
  OBVIOUS
<1>1. CASE User
  BY <1>1, AskImplements, QuietImplements DEF User, Contract!Next
<1>2. ASSUME NEW j \in Jobs, Caller(j) PROVE Contract!Next \/ UNCHANGED Contract!vars
  BY <1>2, LockImplements, TryLockFailsImplements, SaveJobImplements, WayImplements, CheckImplements,
     CloseResumeImplements, CloseFilesImplements, LoadImplements, StartDoneImplements
     DEF Caller, Contract!Next
<1>3. CASE Emulation
  BY <1>3, QuietImplements, CoreStartImplements, CoreEndImplements DEF Emulation, Contract!Next
<1>4. CASE ExecutorStop \/ RunJob \/ AudioStop \/ \E j \in Jobs : Destroy(j)
  BY <1>4, QuietImplements, RunJobImplements
<1>5. CASE UNCHANGED vars
  BY <1>5, SilentImplements DEF vars
<1> QED
  BY <1>1, <1>2, <1>3, <1>4, <1>5 DEF Next

LEMMA InitImplements == Init => Contract!Init
<1> SUFFICES ASSUME Init PROVE Contract!Init
  OBVIOUS
<1>1. \A j \in Jobs : call[j].op = "none" /\ call[j].wait = FALSE /\ call[j].answer = "none"
  BY DEF Init, NoCall
<1>2. Asked = [j \in Jobs |-> Contract!Idle]
  BY <1>1 DEF Asked, ContractOp, Contract!Idle
<1> QED
  BY <1>2 DEF Init, Contract!Init, Fresh, Mortal

\* Starting, closing and resetting keep what CoreContract promises: calls take
\* hold of the machine one after the other, and each answer is true of the
\* machine the call leaves behind.
THEOREM ContractIsKept == Spec => KeepsContract
<1>1. Init => Contract!Init
  BY InitImplements
<1>2. IInv /\ [Next]_vars => [Contract!Next]_(Contract!vars)
  BY NextImplements
<1> QED
  BY <1>1, <1>2, Inductive, PTL DEF Spec, KeepsContract, Contract!Spec
=============================================================================
