--------------------------- MODULE CoreLifecycle ---------------------------
(* Starting, closing and resetting the emulated machine (r4300.cpp), with    *)
(* the threads that take part: the callers' jobs, the emulation thread, the  *)
(* audio thread and the user interface, whose message loop every broadcast   *)
(* goes through.                                                             *)
EXTENDS Naturals, Sequences, AsyncExecutor

CONSTANTS
  MaxJobs,   \* calls made in a behaviour
  MaxUser,   \* pauses, resumes and frame advances
  Files,     \* the save files, in the order they are opened: 1..Files
  Sessions   \* [requests, faults, inOrder] of the behaviours

ASSUME CoreBounds == MaxJobs \in Nat /\ MaxUser \in Nat /\ Files \in Nat \ {0}
ASSUME SessionsAssumption == \A s \in Sessions : \A r \in s.requests : r.wait \in BOOLEAN

Jobs == 1..MaxJobs
NoJob == 0

VARIABLES
  session,  \* what the user does, what fails, whether jobs share one worker
  core,     \* the flags of r4300.cpp and pif.cpp
  emu,      \* where the emulation thread is; "none" when not joinable
  audio,    \* the audio thread and its stop flag
  owner,    \* the job that holds emu_cs
  call,     \* each job: what it calls, where it is, what it returned
  queue, worker,  \* the executor's queue, and the job its thread runs
  handles,  \* open streams per save file
  told,     \* the last EmuLaunchedChanged and EmuStartingChanged
  process,  \* the main thread: its message loop, WM_DESTROY, the end
  users     \* what the user has done so far, of MaxUser

vars == <<session, core, emu, audio, owner, call, queue, worker, handles, told,
          process, users>>

\* The user interface answers what is sent to it (SendMessage).
Pumping == process = "pump"
\* No thread runs once the process has ended.
Alive == process \in {"pump", "destroy"}

NoCall == [op |-> "none", wait |-> FALSE, at |-> "none", answer |-> "none"]

Init ==
  /\ session \in Sessions
  /\ core = [launched |-> FALSE, paused |-> FALSE, executing |-> FALSE, stop |-> FALSE,
             resetting |-> FALSE, frame |-> FALSE, wait |-> 0]
  /\ emu = "none"
  /\ audio = [thread |-> "none", stop |-> FALSE]
  /\ owner = NoJob
  /\ call = [j \in Jobs |-> NoCall]
  /\ queue = <<>> /\ worker = NoJob
  /\ handles = [f \in 1..Files |-> 0]
  /\ told = [launched |-> FALSE, starting |-> FALSE]
  /\ process = "pump"
  /\ users = 0

-----------------------------------------------------------------------------
(* The user interface.                                                       *)

Resumed(c) == [c EXCEPT !.paused = IF c.launched THEN FALSE ELSE @]
Paused(c)  == [c EXCEPT !.paused = IF c.launched THEN TRUE ELSE @]

\* A call is handed to the executor: into its queue, or to a thread of its
\* own. The user's calls have keys; those of the movie system do not.
Invoke(j, op, wait) ==
  LET key == IF wait \/ op = "save" THEN NoKey ELSE op
      at  == IF session.inOrder THEN "queued" ELSE "lock"
  IN IF session.inOrder /\ Enqueued(queue, key)
     THEN UNCHANGED <<call, queue>>
     ELSE /\ call' = [call EXCEPT ![j] = [op |-> op, wait |-> wait, at |-> at, answer |-> "none"]]
          /\ queue' = IF session.inOrder THEN InvokeAsync(queue, key, j) ELSE queue

\* IDM_CLOSE_ROM and the like, vcr.cpp's calls that wait, and a save or load,
\* which makes the next poll wait until its job has run.
Ask(j) ==
  /\ Pumping /\ call[j] = NoCall
  /\ \A k \in Jobs : call[k] = NoCall => j <= k
  /\ \E r \in session.requests :
       /\ r.op \in {"start", "close", "reset", "save"}
       /\ r.op = "save" => core.launched
       /\ Invoke(j, r.op, r.wait)
       /\ core' = IF r.op = "save" THEN [core EXCEPT !.wait = @ + 1] ELSE core
  /\ UNCHANGED <<session, emu, audio, owner, worker, handles, told, process, users>>

\* WM_CLOSE: a thread of its own closes the ROM, then has the window destroyed.
AskExit(j) ==
  /\ Pumping /\ call[j] = NoCall
  /\ \A k \in Jobs : call[k] = NoCall => j <= k
  /\ \E r \in session.requests :
       /\ r.op = "exit"
       /\ call' = [call EXCEPT ![j] = [op |-> "exit", wait |-> FALSE, at |-> "lock", answer |-> "none"]]
  /\ UNCHANGED <<session, core, emu, audio, owner, queue, worker, handles, told, process, users>>

UserDoes(what) ==
  /\ Pumping /\ users < MaxUser
  /\ \E r \in session.requests : r.op = what
  /\ users' = users + 1
  /\ UNCHANGED <<session, emu, audio, owner, call, queue, worker, handles, told, process>>

Pause  == UserDoes("pause") /\ core' = Paused(core)
Resume == UserDoes("pause") /\ core.paused /\ core' = Resumed(core)
FrameAdvance == UserDoes("frame") /\ core' = Resumed([core EXCEPT !.frame = TRUE])

\* The thread of WM_CLOSE invokes DestroyWindow; WM_DESTROY joins the worker.
Destroy(j) ==
  /\ Pumping /\ call[j].op = "exit" /\ call[j].at = "done"
  /\ process' = "destroy"
  /\ UNCHANGED <<session, core, emu, audio, owner, call, queue, worker, handles, told, users>>

ExecutorStop ==
  /\ process = "destroy" /\ worker = NoJob
  /\ process' = "gone"
  /\ UNCHANGED <<session, core, emu, audio, owner, call, queue, worker, handles, told, users>>

\* The worker takes the next function.
RunJob ==
  /\ Alive /\ worker = NoJob /\ queue # <<>>
  /\ worker' = Head(queue).job
  /\ queue' = Tail(queue)
  /\ call' = [call EXCEPT ![Head(queue).job].at = "lock"]
  /\ UNCHANGED <<session, core, emu, audio, owner, handles, told, process, users>>

-----------------------------------------------------------------------------
(* The callers.                                                              *)

GoTo(j, at) == call' = [call EXCEPT ![j].at = at]

\* The call returns r and gives the lock back; a job of the worker is over.
Return(j, r) ==
  /\ call' = [call EXCEPT ![j].at = "done", ![j].answer = r]
  /\ owner' = IF owner = j THEN NoJob ELSE owner
  /\ worker' = IF worker = j THEN NoJob ELSE worker

Lock(j) ==
  /\ Alive /\ call[j].at = "lock" /\ call[j].op # "save"
  /\ owner = NoJob
  /\ owner' = j
  /\ GoTo(j, IF call[j].op = "start" THEN "begin" ELSE "check")
  /\ UNCHANGED <<session, core, emu, audio, queue, worker, handles, told, process, users>>

TryLockFails(j) ==
  /\ Alive /\ call[j].at = "lock" /\ call[j].op # "save"
  /\ owner # NoJob /\ ~call[j].wait
  /\ Return(j, "Busy")
  /\ UNCHANGED <<session, core, emu, audio, queue, handles, told, process, users>>

\* Mutant: the poll's counter is given back twice.
SaveJobTwice(j) ==
  /\ Alive /\ call[j].at = "lock" /\ call[j].op = "save"
  /\ core' = [core EXCEPT !.wait = @ - 2]
  /\ Return(j, "Ok")
  /\ UNCHANGED <<session, emu, audio, queue, handles, told, process, users>>

SaveJob(j) ==
  /\ Alive /\ call[j].at = "lock" /\ call[j].op = "save"
  /\ core' = [core EXCEPT !.wait = @ - 1]
  /\ Return(j, "Ok")
  /\ UNCHANGED <<session, emu, audio, queue, handles, told, process, users>>

\* vr_start_rom_impl() closes what is running first.
StartBegin(j) ==
  /\ Alive /\ call[j].at = "begin"
  /\ GoTo(j, IF core.launched THEN "close" ELSE "load")
  /\ UNCHANGED <<session, core, emu, audio, owner, queue, worker, handles, told, process, users>>

\* The check at the head of vr_close_rom_impl() and vr_reset_rom_impl().
Check(j) ==
  /\ Alive /\ call[j].at = "check"
  /\ IF core.launched
     THEN /\ GoTo(j, "close")
          /\ core' = IF call[j].op = "reset"
                     THEN [core EXCEPT !.frame = FALSE, !.resetting = TRUE] ELSE core
          /\ UNCHANGED <<owner, worker>>
     ELSE Return(j, "NotRunning") /\ UNCHANGED core
  /\ UNCHANGED <<session, emu, audio, queue, handles, told, process, users>>

\* vr_close_rom_impl(): resume, stop and join the audio thread, signal and
\* join the emulation thread, close the files.
CloseResume(j) ==
  /\ Alive /\ call[j].at = "close"
  /\ IF core.launched
     THEN /\ Pumping
          /\ core' = Resumed(core)
          /\ audio' = [audio EXCEPT !.stop = TRUE]
          /\ GoTo(j, "audio")
          /\ UNCHANGED <<owner, worker>>
     ELSE /\ core' = [core EXCEPT !.resetting = FALSE]
          /\ Return(j, "NotRunning")
          /\ UNCHANGED audio
  /\ UNCHANGED <<session, emu, queue, handles, told, process, users>>

\* Mutant: the flag is set and taken back without a join.
JoinAudioNot(j) ==
  /\ Alive /\ call[j].at = "audio"
  /\ audio' = [audio EXCEPT !.stop = FALSE]
  /\ GoTo(j, "signal")
  /\ UNCHANGED <<session, core, emu, owner, queue, worker, handles, told, process, users>>

JoinAudio(j) ==
  /\ Alive /\ call[j].at = "audio" /\ audio.thread = "finished"
  /\ audio' = [thread |-> "none", stop |-> FALSE]
  /\ GoTo(j, "signal")
  /\ UNCHANGED <<session, core, emu, owner, queue, worker, handles, told, process, users>>

\* Mutant: the emulation thread is joined before it is told to stop.
TerminateEmuLate(j) ==
  /\ Alive /\ call[j].at = "signal"
  /\ GoTo(j, "join")
  /\ UNCHANGED <<session, core, emu, audio, owner, queue, worker, handles, told, process, users>>

TerminateEmu(j) ==
  /\ Alive /\ call[j].at = "signal"
  /\ core' = [core EXCEPT !.stop = TRUE]
  /\ GoTo(j, "join")
  /\ UNCHANGED <<session, emu, audio, owner, queue, worker, handles, told, process, users>>

\* Mutant: nothing waits for the emulation thread.
JoinEmuNot(j) ==
  /\ Alive /\ call[j].at = "join"
  /\ GoTo(j, "files")
  /\ UNCHANGED <<session, core, emu, audio, owner, queue, worker, handles, told, process, users>>

JoinEmu(j) ==
  /\ Alive /\ call[j].at = "join" /\ emu = "finished"
  /\ emu' = "none"
  /\ GoTo(j, "files")
  /\ UNCHANGED <<session, core, audio, owner, queue, worker, handles, told, process, users>>

\* Mutant: the last file is forgotten.
CloseFilesButOne(j) ==
  /\ Alive /\ call[j].at = "files"
  /\ handles' = [f \in 1..Files |-> IF f = Files THEN handles[f] ELSE handles[f] - 1]
  /\ IF call[j].op \in {"close", "exit"}
     THEN Return(j, "Ok")
     ELSE GoTo(j, "load") /\ UNCHANGED <<owner, worker>>
  /\ UNCHANGED <<session, core, emu, audio, queue, told, process, users>>

\* Each file is flushed and closed; a reset may then wipe the save data, for
\* which clear_save_data() opens and closes them once more.
CloseFiles(j) ==
  /\ Alive /\ call[j].at = "files"
  /\ handles' = [f \in 1..Files |-> handles[f] - 1]
  /\ IF call[j].op \in {"close", "exit"}
     THEN Return(j, "Ok")
     ELSE GoTo(j, "load") /\ UNCHANGED <<owner, worker>>
  /\ UNCHANGED <<session, core, emu, audio, queue, told, process, users>>

\* An early return of vr_start_rom_impl(), and of the reset that called it.
StartFails(j) ==
  /\ told' = [told EXCEPT !.starting = FALSE]
  /\ core' = [core EXCEPT !.resetting = FALSE]
  /\ Return(j, "Error")

\* The path, the plugins and the ROM.
LoadRom(j) ==
  /\ Pumping /\ call[j].at = "load"
  /\ \/ /\ told' = [told EXCEPT !.starting = TRUE]
        /\ GoTo(j, "open")
        /\ UNCHANGED <<core, owner, worker>>
     \/ "rom" \in session.faults /\ StartFails(j)
  /\ UNCHANGED <<session, emu, audio, queue, handles, process, users>>

\* The save files are opened one after the other; the first that fails ends
\* the start, and those before it stay open.
OpenFiles(j) ==
  /\ Pumping /\ call[j].at = "open"
  /\ \/ /\ handles' = [f \in 1..Files |-> handles[f] + 1]
        /\ GoTo(j, "spawn")
        /\ UNCHANGED <<core, owner, worker, told>>
     \/ /\ "open" \in session.faults
        /\ \E bad \in 1..Files :
             handles' = [f \in 1..Files |-> IF f < bad THEN handles[f] + 1 ELSE handles[f]]
        /\ StartFails(j)
  /\ UNCHANGED <<session, emu, audio, queue, process, users>>

\* Assigning to a thread that is still joinable ends the program.
SpawnEmu(j) ==
  /\ Alive /\ call[j].at = "spawn"
  /\ core' = [core EXCEPT !.paused = FALSE, !.launched = TRUE]
  /\ IF emu = "none"
     THEN emu' = "load" /\ UNCHANGED process
     ELSE process' = "aborted" /\ UNCHANGED emu
  /\ GoTo(j, "spin")
  /\ UNCHANGED <<session, audio, owner, queue, worker, handles, told, users>>

\* Mutant: the start returns without waiting for the core.
StartDoneEarly(j) ==
  /\ Alive /\ call[j].at = "spin"
  /\ core' = [core EXCEPT !.resetting = FALSE]
  /\ Return(j, "Ok")
  /\ UNCHANGED <<session, emu, audio, queue, handles, told, process, users>>

\* Mutant: a reset that succeeds leaves its flag set.
StartDoneResetting(j) ==
  /\ Alive /\ call[j].at = "spin" /\ core.executing
  /\ Return(j, "Ok")
  /\ UNCHANGED <<session, core, emu, audio, queue, handles, told, process, users>>

\* while (!core_executing);
StartDone(j) ==
  /\ Alive /\ call[j].at = "spin" /\ core.executing
  /\ core' = [core EXCEPT !.resetting = FALSE]
  /\ Return(j, "Ok")
  /\ UNCHANGED <<session, emu, audio, queue, handles, told, process, users>>

-----------------------------------------------------------------------------
(* The emulation thread.                                                     *)

EmuStep(from, to) ==
  /\ Alive /\ emu = from /\ emu' = to
  /\ UNCHANGED <<session, owner, call, queue, worker, handles, users>>

\* Plugins, memory, then the audio thread.
EmuLoad ==
  /\ EmuStep("load", "tell")
  /\ IF audio.thread = "none"
     THEN audio' = [audio EXCEPT !.thread = "run"] /\ UNCHANGED process
     ELSE process' = "aborted" /\ UNCHANGED audio
  /\ UNCHANGED <<core, told>>

EmuTell ==
  /\ Pumping /\ EmuStep("tell", "start")
  /\ told' = [launched |-> TRUE, starting |-> FALSE]
  /\ UNCHANGED <<core, audio, process>>

\* core_start() up to its loop.
CoreStart ==
  /\ EmuStep("start", "run")
  /\ core' = [core EXCEPT !.stop = FALSE, !.executing = TRUE]
  /\ UNCHANGED <<audio, told, process>>

\* while (!stop) PC->ops();
CoreLoop ==
  /\ EmuStep("run", "op") /\ ~core.stop
  /\ UNCHANGED <<core, audio, told, process>>

\* An instruction; one that stops the core (NI(), an address nothing maps).
CoreOp ==
  /\ EmuStep("op", "run")
  /\ UNCHANGED <<core, audio, told, process>>

CoreOpStops ==
  /\ EmuStep("op", "run") /\ "cpu" \in session.faults
  /\ core' = [core EXCEPT !.stop = TRUE]
  /\ UNCHANGED <<audio, told, process>>

\* An instruction that polls the controllers: `once` is read at the start of
\* update_pif_read() ...
PollOnce ==
  /\ EmuStep("op", "poll")
  /\ core.paused \/ core.frame \/ core.wait > 0
  /\ UNCHANGED <<core, audio, told, process>>

\* ... and acted on later: pause_emu(), wait for saves and loads, then for
\* the user.
PollPause ==
  /\ Pumping /\ EmuStep("poll", "wait")
  /\ core' = IF core.wait = 0 THEN Paused([core EXCEPT !.frame = FALSE]) ELSE core
  /\ UNCHANGED <<audio, told, process>>

PollWaited ==
  /\ EmuStep("wait", "paused") /\ core.wait = 0
  /\ UNCHANGED <<core, audio, told, process>>

PollResumed ==
  /\ EmuStep("paused", "run") /\ ~core.paused
  /\ UNCHANGED <<core, audio, told, process>>

\* The end of core_start().
CoreEnd ==
  /\ EmuStep("run", "unload") /\ core.stop
  /\ core' = [core EXCEPT !.executing = FALSE]
  /\ UNCHANGED <<audio, told, process>>

\* The plugins are closed, and the flags set.
EmuUnload ==
  /\ EmuStep("unload", "ended")
  /\ core' = [core EXCEPT !.paused = TRUE, !.launched = FALSE]
  /\ UNCHANGED <<audio, told, process>>

EmuEnd ==
  /\ EmuStep("ended", "finished")
  /\ IF core.resetting THEN UNCHANGED told
     ELSE Pumping /\ told' = [told EXCEPT !.launched = FALSE]
  /\ UNCHANGED <<core, audio, process>>

\* The audio thread: a round of its loop that finds the flag set.
AudioStop ==
  /\ Alive /\ audio.thread = "run" /\ audio.stop
  /\ audio' = [audio EXCEPT !.thread = "finished"]
  /\ UNCHANGED <<session, core, emu, owner, call, queue, worker, handles, told, process, users>>

-----------------------------------------------------------------------------
Caller(j) ==
  \/ Lock(j) \/ TryLockFails(j) \/ SaveJob(j) \/ StartBegin(j) \/ Check(j)
  \/ CloseResume(j) \/ JoinAudio(j) \/ TerminateEmu(j) \/ JoinEmu(j) \/ CloseFiles(j)
  \/ LoadRom(j) \/ OpenFiles(j) \/ SpawnEmu(j) \/ StartDone(j)

Emulation ==
  \/ EmuLoad \/ EmuTell \/ CoreStart \/ CoreLoop \/ CoreOp \/ CoreOpStops
  \/ PollOnce \/ PollPause \/ PollWaited \/ PollResumed
  \/ CoreEnd \/ EmuUnload \/ EmuEnd

User == (\E j \in Jobs : Ask(j) \/ AskExit(j)) \/ Pause \/ Resume \/ FrameAdvance

Next ==
  \/ User
  \/ \E j \in Jobs : Caller(j) \/ Destroy(j)
  \/ ExecutorStop \/ RunJob \/ Emulation \/ AudioStop

Spec == Init /\ [][Next]_vars

\* Threads run; the user does what he likes.
FairSpec ==
  /\ Spec
  /\ \A j \in Jobs : WF_vars(Caller(j)) /\ WF_vars(Destroy(j))
  /\ WF_vars(ExecutorStop) /\ WF_vars(RunJob) /\ WF_vars(Emulation) /\ WF_vars(AudioStop)

-----------------------------------------------------------------------------
(* Properties.                                                               *)

CallPlaces == {"none", "queued", "lock", "begin", "check", "close", "audio", "signal", "join",
               "files", "load", "open", "spawn", "spin", "done"}
EmuPlaces == {"none", "load", "tell", "start", "run", "op", "poll", "wait", "paused", "unload",
              "ended", "finished"}
Keys == {NoKey, "start", "close", "reset"}

TypeOK ==
  /\ core \in [launched : BOOLEAN, paused : BOOLEAN, executing : BOOLEAN, stop : BOOLEAN,
               resetting : BOOLEAN, frame : BOOLEAN, wait : Nat]
  /\ emu \in EmuPlaces
  /\ audio \in [thread : {"none", "run", "finished"}, stop : BOOLEAN]
  /\ owner \in Jobs \cup {NoJob} /\ worker \in Jobs \cup {NoJob}
  /\ \A j \in Jobs : /\ call[j].op \in {"none", "start", "close", "reset", "save", "exit"}
                     /\ call[j].wait \in BOOLEAN
                     /\ call[j].at \in CallPlaces
                     /\ call[j].answer \in {"none", "Ok", "Busy", "NotRunning", "Error"}
  /\ queue \in Seq([key : Keys, job : Jobs])
  /\ handles \in [1..Files -> Nat]
  /\ told \in [launched : BOOLEAN, starting : BOOLEAN]
  /\ process \in {"pump", "destroy", "gone", "aborted"}
  /\ users \in 0..MaxUser

\* While the emulated machine runs and until its thread is joined, the save
\* files it writes to are open, each once unless an earlier start failed.
SavesOpen ==
  emu # "none" => \A f \in 1..Files : handles[f] >= 1

\* Once the emulation thread has been joined and no call is under way, no
\* save file is left open - unless opening one failed: a start that fails
\* there leaves the files before it open.
SavesClosed ==
  owner = NoJob /\ emu = "none" /\ "open" \notin session.faults =>
    \A f \in 1..Files : handles[f] = 0

\* The audio thread calls into the audio plugin: it ends before the plugin is
\* closed, unless the CPU has stopped itself.
AudioInPlugin ==
  audio.thread = "run" /\ emu \in {"ended", "finished", "none"} => "cpu" \in session.faults

\* No thread is assigned over one that was not joined - unless the CPU has
\* stopped itself, which leaves both of them.
NoAbort == process = "aborted" => "cpu" \in session.faults

\* When no call is under way and the thread has ended, the listeners of
\* EmuLaunchedChanged know it, unless a reset has failed in between.
ListenersKnow ==
  owner = NoJob /\ emu \in {"none", "finished"} /\ process # "aborted" =>
    \/ told.launched = core.launched
    \/ \E j \in Jobs : call[j].op = "reset" /\ call[j].answer \in {"Error", "NotRunning"}

\* A call that has the lock returns, or the game is paused, or has died.
CallsReturn ==
  \A j \in Jobs :
    owner = j ~> \/ owner # j
                 \/ emu = "paused" /\ core.paused
                 \/ ~Alive
                 \/ "cpu" \in session.faults

-----------------------------------------------------------------------------
(* Refinement of the contract.                                               *)

ContractOp(op) == IF op = "exit" THEN "close" ELSE op

\* The holder has the new core running, and has not returned yet.
Fresh == owner # NoJob /\ call[owner].at = "spin" /\ core.executing

\* A save does not switch the machine.
Asked ==
  [j \in Jobs |-> IF call[j].op = "save" THEN [op |-> "none", wait |-> FALSE, answer |-> "none"]
                  ELSE [op |-> ContractOp(call[j].op), wait |-> call[j].wait, answer |-> call[j].answer]]

Mortal == "cpu" \in session.faults

Contract == INSTANCE CoreContract WITH
  on <- core.executing, holder <- owner, fresh <- Fresh, call <- Asked, mortal <- Mortal

\* Starting, closing and resetting implement CoreContract.
KeepsContract == Contract!Spec
=============================================================================
