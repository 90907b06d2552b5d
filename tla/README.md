# A verification project for Mupen64-rr-lua

Mupen64-rr-lua is a Nintendo 64 emulator for tool-assisted speedruns: it runs a game deterministically,
records the controller inputs as a movie, plays them back, and lets its user save states, go back, and
rewrite. What makes it correct is mostly *time*: emulated time (which device event fires at which cycle) and
the order in which things happen between its threads (which frame a state, a reset or an input belongs to).
These TLA+ modules model both; the calls that start and stop the machine; and, of the machine itself,
the places where something is kept twice and must agree - save files and their buffers, decoded and compiled code, the TLB and
its tables, registers of the recompiler, the two interpreters. TLC checks them on small instances, three of them against abstract
specifications they refine, and TLAPS proves
most of their safety properties, and the three refinements, for all values of the constants.

Contents: [the system](#the-system), [the plan](#the-plan), [interrupts](#interrupts),
[movies](#movies-and-savestate-tasks), [starting and stopping](#starting-and-stopping),
[the machine's copies](#the-machines-copies) ([save files](#save-files), [decoded code](#decoded-code),
[compiled code](#compiled-code), [control flow](#control-flow)), [the proofs](#the-proofs),
[divergences](#where-the-code-and-its-promises-part), [limits](#what-is-not-modelled).

Line numbers below are those of the files under `src/`.

## The system

The code has three layers (its README says so too): **core** (the emulated machine and everything that must be
in step with it), **shared** (settings, messages, background jobs, the interfaces between the layers), and
**view** (Win32 user interface, Lua, video capture). The view drives the core by function calls; the core
answers through callbacks, `Messenger` broadcasts and the service interfaces the view implements.

Threads: the user interface; the emulation thread (`emu_thread`, one per started ROM, it runs the interpreter
or the recompiled code); an audio thread; and one thread per background job (`AsyncExecutor`, which
detaches a thread per job unless `use_async_executor` makes it one queue). Locks: `emu_cs` (start and close of
the core), `vcr_mutex` (movies; recursive), `g_task_mutex` (savestate tasks; recursive), the job queue's.

| component | state | operations | hard behaviour | correct when |
|---|---|---|---|---|
| **Interrupt queue** `core/r4300/interrupt.cpp` | linked list `q` of (type, Count) sorted by time, cached `next_interrupt`, `SPECIAL_done` | add, remove head, remove by type, look up, translate to a new Count, save, load | Count wraps at 2^32: "before" is relative; the cached head time is written in six places | sorted, each event handled once, neither early nor missed; VI and SPECIAL never die |
| **Interrupt delivery** `interrupt.cpp`, `cop0.cpp`, `exception.cpp`, `dma.cpp`, `memory.cpp` | Count, Compare, Status, Cause, MI masks, AI double buffer, `skip_jump` | `gen_interrupt`, `check_interrupt`, MTC0, ERET, register writes | writes at any point of a block, delay slots, acknowledgement against re-assertion | an enabled and pending interrupt is taken, none is taken without a cause |
| **Movies** `core/r4300/vcr.cpp` | task, header and inputs, position, seek target, seek states, pending reset/load flags, warp status | start/stop record and playback, seek, warp modify, freeze/unfreeze, controller poll | four kinds of threads, callbacks, pending resets during which frames still run | machine and movie stay in step; a recording reaches its file; a seek ends |
| **Savestate tasks** `core/memory/savestates.cpp` | vector of tasks with callbacks | push from any thread, simplify, run on the emulation thread | lock held during callbacks, LIFO order, duplicates | a task asked for runs once, at one point of emulated time |
| **Background jobs** `shared/AsyncExecutor.cpp` | deque of keyed functions, worker, or detached threads | invoke, stop | no order between detached jobs; key de-duplication | every job runs |
| **Core lifecycle** `core/r4300/r4300.cpp` | `emu_launched`, `core_executing`, `stop`, `emu_paused`, threads, open files | start, close, reset ROM; pause, resume, frame advance | close against a paused or polling emulation thread; start inside a close | close returns; nothing runs twice; files are closed |
| **Memory map** `core/memory/memory.cpp` | RDRAM, device registers, handler tables | read/write per region and width | registers with side effects; self-modifying code | each access reaches its register; code caches are invalidated |
| **DMA, cartridge storage** `dma.cpp`, `flashram.cpp`, `summercart.cpp` | flash RAM mode and offsets, save type, SD-card lock | commands, block transfers | mode changes between command and transfer | what is written is what is read back |
| **PIF** `pif.cpp` | PIF RAM, EEPROM, memory paks, controller poll | read/write commands | the poll is where the emulation thread meets pause, tasks and movies | each poll reads one input |
| **TLB** `memory/tlb.cpp`, `r4300/tlb.cpp` | 32 entries, two lookup tables | map, unmap, TLBWI, TLBWR, TLBP | tables are a cache of the entries | tables agree with entries |
| **Interpreters, recompiler** `pure_interp.cpp`, `recomp.cpp`, `x86/` | registers, block tables, code cache, register cache | an operation per instruction | delay slots, invalidated blocks | the two agree |
| **Plugins, ROM** `Plugin.cpp`, `rom.cpp` | loaded DLLs, ROM image | load, initialise, byte-order | partial failure of four plugins | all or none are started |
| **Debugging aids** `debugger.cpp`, `gameshark.cpp`, `timers.cpp`, `tracelog.cpp` | step flags, cheat list, frame times | step, run cheats, limit speed | plain flags across threads | a step runs one instruction |
| **Messenger, Config** `shared/` | subscribers; settings | broadcast, subscribe; load, save | subscribing while a broadcast runs | every subscriber hears a message |
| **Main window, tool windows** `view/gui` | windows, menus, piano roll and its undo history | commands | commands from the UI thread at any moment | requests respect the core's guards |
| **Lua** `view/lua` | environments, callbacks | run, call, stop | callbacks that stop the emulator that calls them | no callback outlives its environment |
| **Capture** `view/capture` | encoder, audio/video frame counts, split files | start, stop, at VI, at sound | resampling and padding; encoder failure in the middle | audio and video stay within a frame |

How they meet: at every interrupt check the emulation thread may enter `gen_interrupt`; a VI interrupt ends a
frame (capture, Lua, frame advance); an SI access makes `update_pif_read` (pif.cpp:417) run: there the thread pauses if
it is told to, runs the savestate tasks (`do_work`), and asks the movie system for the input
(`vcr_on_controller_poll`). User interface, Lua and jobs never touch the machine directly: they set flags,
push tasks, or call `vr_reset_rom`, which ends the emulation thread and starts another.

`PROJECT.json` lists the hazards one by one, at their lines, with the properties that watch them.

## The plan

Most important first: emulated time and the movie are what this program exists for.

1. **InterruptQueue, Interrupts** - done. Runs `IntTimers`, `IntDelivery`, `IntTimeBase`, `IntTimerLost`, `IntSavedSi`.
2. **InterruptsProofs** - done, except for order and punctuality (`Sorted`, `NotMissed`, `NotEarly`, `OnTime`), whose
   argument is a bound on how late the head can be.
3. **SavestateTasks, Movie** - done. Runs `MovieSync`, `MovieLive`, `MovieTasks`, `MovieStop`, `MovieResetSave`.
4. **AsyncExecutor, CoreLifecycle**, which implements **CoreContract** - done. Run `CoreCalls`.
5. **Storage**, which implements **SaveMemory**; **CodeCache** (decoded code and the TLB's tables); **RegCache**; **Interpreter**,
   which implements **ControlFlow** - done, as four parts of one instance, `MCDevices`. Run `Devices`.
6. **CoreLifecycleProofs**, **StorageProofs**, **CodeCacheProofs**, **RegCacheProofs**, **InterpreterProofs**, **MCDevicesProofs**, **MovieProofs** - done,
   except for what [only the runs](#only-model-checked) show. Next: `Movie` with seeks (`SeekFits`, `SeekFinds`) and edits.
7. **Capture**: the audio/video balance and the failure paths of `EncodingManager.cpp`; **Tape**, an abstract movie (a sequence
   of inputs and a position) that Movie refines while nothing is pending. Neither is begun.

The project keeps to a dozen runs, and they are taken: `MovieTasks` or `IntSavedSi` would make room for another.
Everything to be proved about avoids `RECURSIVE`; recursion is written with folds.

## Interrupts

### Model and code

`InterruptQueue` is the value `ev = [q, next, done]` (list, `next_interrupt`, `SPECIAL_done`) and one operator per C
function: `AddEvent` (197), `AddEventCount` (279), `RemoveHead` (284), `GetEvent` (301), `RemoveEvent` (318),
`Translate` (339), `LoadQueue` (380), `InitQueue` (393), `PushCheck` (413, the CHECK event `check_interrupt` puts in front), and
`BeforeEvent` (163), the comparison. Time is an integer modulo the constant `M` (2^32 in the code); `Half` and
`Sixteenth` are the code's two thresholds as fractions of `M`.

`Interrupts` is the machine around it. `pc` tells where the CPU is: `"run"` between two instructions, `"gen"` inside
`gen_interrupt()`, `"translate"` between the two halves of MTC0 Count.

| action | code |
|---|---|
| `Branch`, `IdleSkip` | the end of a basic block (`update_count`, then the check `next_interrupt <= Count`), and a branch to itself, which moves Count |
| `Mtc0Count`, `TranslateCount`, `Mtc0Compare`, `Mtc0Status`, `Eret` | COP0 writes, `cop0.cpp`, `tlb.cpp` |
| `WriteMiMask`, `WriteRcpIntr` | MI mask writes, and acknowledgements and SP-raised interrupts in `memory.cpp` |
| `StartDevice`, `WriteAiLen` | DMA starts in `dma.cpp`; AI_LEN, which fills a double buffer |
| `SiRead`, `SiReadSave`, `SiReadLoad` | a serial read; one in which a state is saved or loaded at the poll |
| `GenSkipJump`, `GenSpecial`, `GenVI`, `GenCompare`, `GenCheck`, `GenDevice`, `GenAI`, `GenSpSilent` | the cases of `gen_interrupt()` (438-632), with `Finish` for its end and `Return` for `exception_general` |

### Runs

| run | what it shows |
|---|---|
| `IntTimers` | Over several roll-overs of Count, with audio, COMPARE timers and idle loops: one VI and one SPECIAL always queued (`Heartbeat`), an AI event exactly while a buffer plays (`AudioPairing`), the queue in time order (`Sorted`), `next_vi` the time of the queued VI (`ViSchedule`), nothing overtaken (`NotMissed`), an event handled neither before its time (`NotEarly`) nor later than the next check (`OnTime`), and idle loops that do not jump over an event (`IdleSafe`) |
| `IntDelivery` | With masks, Status, acknowledgements and ERET in any order: an enabled, unmasked, asserted RCP interrupt is taken (`RcpDelivered`), a CHECK event leads to an exception only if the registers ask for one (`CheckJustified`), and vertical interrupts go on forever (`ViForever`, under fairness) |
| `IntTimeBase` | Widths and shapes (`TypeOK`); writing Count leaves every event's delay (`CountWriteKeepsDelays`); loading gives back exactly the saved events and the saved head (`LoadKeepsEvents`) |
| `IntTimerLost`, `IntSavedSi` | two divergences, [below](#where-the-code-and-its-promises-part) |

### Bounds

`M` is 160 in the runs about time and 16 where only the time base matters; the code's thresholds are fractions of it.
160 makes the sixteenth larger than the greatest lateness a block can cause, as in the real machine;
with less, the model would be late in a way no game is. `Count` stays odd and delays even, so that an event
falls between two checks and both sides of `<=` occur. A VI delay of 24 gives six VIs per roll-over.
`MaxOps` bounds register accesses within one basic block: with two, two CHECK events can be in the queue at once and
the second finds its cause gone (see the list below). `PoolSize` bounds the events, as `g_pool` (128) does.
`Window` excludes a game that has an event due in the last cycles before the roll-over. `RewriteHead`
says whether Compare may be rewritten while COMPARE is the next event. `IdleGrain` is the granularity of an idle jump
(4 in the code); 160 switches idle loops off. Each of `Window`, `RewriteHead` and `MaxOps` excludes
a behaviour in which the property fails, and which is listed below; the bound is at the edge of what holds.

### Fairness

`FairSpec` asks for strong fairness of `Branch` (a game is an endless sequence of blocks; register accesses in
between are finitely many), and weak fairness of the steps of `gen_interrupt()` and of the second half of MTC0,
which are synchronous calls that return.

## Movies and savestate tasks

### Model and code

`SavestateTasks` is the vector `g_tasks` with its three ways in (`Push`, always at the front) and
`savestates_simplify_tasks` (`Duplicates`, `Erase`, `Simplify`). `Movie` is `vcr.cpp` around it.

The emulated machine is deterministic, so its state *is* the sequence of inputs consumed since power-on: `machine`. A
savestate is a pair of it and what `VCR::freeze()` returns. Frames no movie accounts for make the machine "stray".

| state | code |
|---|---|
| `vcr.task`, `.uid .start .inputs .sample` | `g_task`, `g_header`, `g_movie_inputs`, `m_current_sample`; `.origin` is the machine the movie starts from, which the code keeps as the .st file beside the movie |
| `vcr.seek .pauseEnd .loading .states` | `seek_to_frame`, `g_seek_pause_at_end`, `g_seek_savestate_loading`, `g_seek_savestates` |
| `vcr.reset .askedReset` | `g_reset_pending`, `user_requested_reset` |
| `vcr.warp .first .readonly .interval .paused` | `g_warp_modify_status`, its first difference, and the settings and flags read |
| `vcr.file`, `.st` | the .m64 file and the .st file on disk |
| `g_tasks`, `async`, `slots` | the task vector; jobs handed to `AsyncExecutor` and not run; slot files |
| `emu`, `working`, `recorder` | the emulation thread is about to run tasks or to poll; it is inside `do_work()` (holding `g_task_mutex`); `start_record()` is waiting for that mutex (holding `vcr_mutex`) |
| `misled` | history: the user loaded a state that is not of the movie, and confirmed the warning or overrode read-only |

Functions of `vcr.cpp` are operators from the globals to the globals (`StopAll`, `Unfreeze`, `Seek`, `Purge`, ...), so that a
handler that calls several of them is one action. Actions: `WorkBegin`, `WorkSave`, `WorkLoad`, `WorkLoadFails`,
`WorkEnd`, `WorkNone` (`do_work()` task by task, with each callback); `PollIdle`, `PollStarting`, `PollRecording`, `PollPlayback`
(`vcr_on_controller_poll()`); `Restart` and `Enqueue` (the jobs); and one action per request of the
user interface or a script. A callback that locks `vcr_mutex` waits for `recorder`, and a job that pushes waits for `working`.

### Runs

| run | what it shows |
|---|---|
| `MovieSync` | Eleven sessions. `InSync`: whenever a movie records or plays and nothing is pending, the machine is exactly what its inputs up to the position lead to - through recording, saves and loads, rewriting, seeks with and without seek states, recorded resets and edits. `SeekFits`: a seek only loads a state made along the present inputs. `SeekFinds`: it finds one. `SampleInRange`: the position is inside the buffer. `RecordingFlushed`: a recording ends with all its inputs in the file |
| `MovieLive` | `SeekCompletes`: a seek ends or the user has paused. `Answered`: frames are ignored only while a reset or a load is under way, and those end. Movies loop here, so a seek may meet the end of its movie |
| `MovieTasks`, `MovieStop`, `MovieResetSave` | three divergences, [below](#where-the-code-and-its-promises-part) |

### Bounds

A *session* fixes the movie on disk, the seek-state interval and which requests its user makes: all orders of up to
`MaxOps` (4) of them, against every interleaving of thread, tasks and jobs. Four requests are enough for start, save, read-only,
load or start, pause, edit, resume. Movies have up to `MaxFrames` inputs (4, or 5), two different keys, an interval of 2 and
`MaxCount` 1: the map of seek states overflows and is purged, and there is a state before and after every target.
`Patient` names the requests made only when nothing that was asked for earlier is under way; of what it excludes, much is
in the list of divergences. `AnySeek = FALSE` keeps seeks to a running movie and to no more than
interval * maximum ahead, `FirstEdit = 2` keeps edits away from the first input: beyond each of these bounds a property fails, as
listed. Edits are made as the piano roll makes them (`can_modify_inputs()`: recording, paused, read-write).
A recording that has `MaxFrames` inputs reads no more (`PollNothing`). One controller; a reset of the ROM succeeds, so the branches
of vcr.cpp:566-571 and 593-598 for one that fails are left out; movies are told apart by a counter where the code uses the second of their start.
Three steps are coarser than the code. `RecordSaves` sets the position to 0 with the request of the state, where the code does so 73 lines later (913, 986): `vcr_mutex` is held
all along, and the callback waits for it. `Restart` sets the task in the step that brings the new machine, where the code takes `vcr_mutex` when the machine has been reset (561-577) and skips the polls
in between. A movie that loops is taken to start again at its end: a refusal of `start_playback()` there (687-693) is left out.
`MovieLive` has one key, as no decision depends on which, and checks five sessions.

### Fairness

Weak fairness of the emulation thread (it runs, and the game polls again and again), strong fairness of jobs (a thread that was started
runs, and a mutex given up again and again is got), weak fairness of the end of `start_record()`. No request is ever fair.
A seek that pauses or a paused user may wait for ever; `SeekCompletes` says so.

## Starting and stopping

### Model and code

`CoreLifecycle` is `vr_start_rom`, `vr_close_rom` and `vr_reset_rom` (r4300.cpp 2181-2421) as several threads call them, with the threads
they start and join. `CoreContract` is what r4300.h:121-144 promises of them. `AsyncExecutor` is the queue of `AsyncExecutor.cpp`
with its keys; `Movie` uses the other mode, a thread per job.

| state | code |
|---|---|
| `core` | `emu_launched`, `emu_paused`, `core_executing`, `stop`, `emu_resetting`, `frame_advancing`, and `g_vr_wait_before_input_poll` |
| `emu`, `audio` | where `emu_thread` and `audio_thread` are, `"none"` when `std::thread` has nothing to join; `audio_thread_stop_requested` |
| `owner` | who holds `emu_cs` |
| `call`, `queue`, `worker` | the jobs, each with its place in the call; the executor's queue and what its worker runs |
| `handles` | open streams per save file |
| `told` | the last `EmuLaunchedChanged` and `EmuStartingChanged` |
| `process` | the main thread: its message loop, `WM_DESTROY`, the end |

A call is a sequence of actions, one per thing that another thread can see: `Lock` or `TryLockFails`, `StartBegin`/`Check`, `CloseResume`, `JoinAudio`,
`TerminateEmu`, `JoinEmu`, `CloseFiles`, `LoadRom`, `OpenFiles`, `SpawnEmu`, `StartDone`, with `StartFails` for each early
return. The emulation thread: `EmuLoad`, `EmuTell`, `CoreStart`, then `CoreLoop` and an instruction (`CoreOp`, `CoreOpStops`, `PollOnce` and its
three continuations) over and over, `CoreEnd`, `EmuUnload`, `EmuEnd`. Anything that broadcasts or touches a window waits for the message loop (`Pumping`).

`CoreContract` knows only `on` (the machine executes), `holder`, `fresh` (the holder has switched it on) and the calls. It says which answer is true of which
machine: Ok of a start means it runs *now*, Ok of a close that it does not, and only a call that does not wait is Busy, and
only because of another. The mapping: `on` is `core_executing`, `fresh` is a caller past the spawn while the core executes, a close by `WM_CLOSE` counts as a close.

### Run

`CoreCalls`: `KeepsContract`; `CallsReturn` (a call with the lock gives it back, or the user has paused a game, or the process is gone);
`SavesOpen`, `SavesClosed` (the files are open as long as the emulation thread may write to them, and closed after);
`AudioInPlugin` (the audio thread is not inside a plugin that is closed); `NoAbort` (no thread is assigned over a joinable one);
`ListenersKnow` (the last broadcast is true). The exceptions the properties make are the divergences below.

Eight sessions: three calls (`MaxJobs`) in every order out of start, close, reset, save and exit, from users (keyed, do not wait) and from the
movie system (no key, wait), against two pauses or frame advances (`MaxUser`), two save files (`Files`), with a ROM that does not load, a file that does not
open, a CPU that stops itself; seven of the sessions with a thread per job, one with the single worker. Three calls are what is needed for one to hold the lock, one
to wait for it and one to be refused; two files are enough for "the second fails to open".

Fairness: weak, of every caller, of the emulation and audio threads and of the message loop's own steps: threads run. None of the user.

## The machine's copies

Four parts of the machine that keep something twice. They share no state in these models, so `MCDevices` puts them side by side, one
run for all: a behaviour plays one session of one part (`part`), the others rest in an initial state. The parts are instanced together with what is
proved of them (`StorageProofs`, `CodeCacheProofs`, `RegCacheProofs`, `InterpreterProofs`), so that `MCDevicesProofs` speaks of the very modules the run checks. A property looks at its part only;
`KeepsSaves` and `KeepsFlow` are the refinements `Saves!Memory!Spec` and `Flow!Flow!Spec` written out, so that steps of other parts are not evaluated.

### Save files

`Storage`: EEPROM and controller paks (pif.cpp), SRAM and flash RAM (dma.cpp, flashram.cpp), their files, and everything that happens
to them: starts and closes, a reset with "clear save data", savestates, the end of the program, and a crash. A file is a sequence of blocks that
may be shorter than its memory (a fresh one is empty); a stream is the file as the program sees it, `disk` what is on disk: an `fseek` or `fclose`
brings one to the other, and a crash keeps any first blocks of what was not yet brought (`Crash`). Buffers are never cleared between games.

`SaveMemory` is the promise: per game and file, a block reads as last written, other games and sessions do not matter, a
crash costs at most the last write, "clear save data" gives zeros where the code clears. A block never written reads as anything, because the
code does just that (below). `KeepsSaves` is the refinement. `FlashReadsBack` is about the flash RAM, which reads through another file: as long as the
buffer was filled from the game's own `.sra` and there is no `.fla` file, a page reads as programmed. `TypeOK` says among others that the machine stops on a
wrong flash command only when the flash RAM is in use. The block a flash command names is one of the memory's (`FlashCommand`): flashram.cpp:87 and 94 take any sixteen bits, and a game that names another is not modelled.

Nine sessions, two games where games can get in each other's way, blocks of two values, memories of one to four blocks. A memory has more than
one block so that a write that covers more than its block shows; the pak is longer than what a reset clears.

### Decoded code

`CodeCache`: the cached interpreter's blocks (r4300.cpp, recomp.cpp), `invalid_code`, and TLBWI/TLBWR with both look-up tables and the check sums that
let a page keep its block while unmapped (r4300/tlb.cpp). A page of RDRAM is seen under KSEG0, KSEG1 and mapped addresses; a jump decodes, a store or DMA
invalidates. `JumpsFresh`: what a jump runs is what RDRAM holds. `SumsTrue`: a check sum kept with a block is of what was decoded in it.
`LutFollowsTlb`: an address is translated only as an entry says, stores only by an entry that allows them - of the addresses whose translations a savestate has (`InState`), or of
all in a session without savestates, and of stores until a program is started again: the code promises no more (below), and the sessions play the rest without that promise.

Two pages of two words, two instructions, two entries; one of the two mapped addresses is in a savestate. Each of the eight sessions takes one way of jumping and the ways of writing that the
code has a check for; the pairs it has none for (writes through KSEG1 to code run in KSEG0, two mapped pages of one physical page, ...) are divergences.
A check sum is modelled as the page's contents: two pages with equal sums and different contents are not modelled.

### Compiled code

`RegCache`: x86/regcache.cpp and the integer generators of gr4300.cpp, gregimm.cpp and gspecial.cpp as its users. An instruction is the sequence of calls
its generator makes (`genaddu` and so on), each call an operator on the state `s` of the cache: `reg_content`, `dirty`, `r64`, `last_access`, `free_since`,
and `needed_registers[]` of the entry. At the same time the model runs what is emitted: `hold` and `mem` say of which N64 word an x86 register or
memory has the *current* value. A word is 32 bits of a register; `narrow` are the registers whose upper word is the sign of the lower.

`OperandsCurrent`: code never takes a stale word. `MemoryCurrent`: what memory does not have will be written back. `EntryLoads`: a jump to the middle of a block
loads exactly what the code there reads before it writes. A delay slot is compiled with its branch; a block entered at a delay slot runs it as an
instruction by itself, so a jump to it emits no branch (`Running`). All blocks of three or four instructions of the session's forms are compiled, entered at every
instruction; x86 registers are fewer than values, so allocation evicts. Sessions that need ECX or EDX (shifts, `mult`, calls) have them.
Sessions whose registers are not all `narrow` are entered at the start only, shifts into their own amount are left out, and the one 64-bit session with tests compiles no
32-bit read before them: in each the code goes wrong (below). Not modelled: the encoding of instructions, the FPU, the jump itself.

### Control flow

`Interpreter` is both interpreters (`session.core`): a branch is an op that calls the op of its delay slot, an exception inside the slot is only noted in `skip_jump` and carried
out by `gen_interrupt()` when the branch ends; the cached one has blocks with `FIN_BLOCK` behind their last word, so a slot may be in another block; the pure one fetches
through the TLB. An op that calls another is a frame in `c.frames`; `c.at` says what the C code does next.

`ControlFlow` is the processor's rule: one instruction after the other, a branch with its slot, an exception with EPC and BD at once. What an
instruction computes is left out, and whether a branch is taken is any choice. `KeepsFlow` is the refinement: every instruction completes once and in order, and
handlers return to where the program can resume. Five programs for each core: TLB misses on load, on fetch and in slots, likely branches, calls, exceptions and
interrupts in slots, a branch out of a block, mappings that the handler takes from another page. The programs have no slot in an unmapped next page, and no write to
Status in a slot: in both the code leaves the rule (below).

## The proofs

TLAPS proves the theorems below for every value of the constants; TLC had found each formula true on the small instances first, the
inductive invariants included. A proof module belongs to one module of the model and begins with its invariant.

| module | theorems | hold for |
|---|---|---|
| `InterruptsProofs` | **TypesHold** (`TypeOK`), **HeartbeatHolds** (`Heartbeat`), **AudioIsPaired** (`AudioPairing`), **LoadsKeepEvents** (`LoadKeepsEvents`), **CountWritesKeepDelays** (`CountWriteKeepsDelays`) | every modulus, delay and program |
| | lemmas: what adding, removing, translating and loading do to the length of the queue, its events of a type, its set of events, and a CHECK event at its head | every modulus |
| | **FieldsFollow** (`ViSchedule`) | games that do not write Count (`CountIsKept`) |
| | **RcpIsDelivered** (`RcpDelivered`) | games that keep the pace (`Paced`) |
| | **ChecksAreJustified** (`CheckJustified`) | games within `Short` that leave the registers of a check alone until its branch (`Patient`) |
| `MovieProofs` | **TypesHold** (`TypeOK`) | every number of frames, keys, slots and requests, every session |
| | **RecordingsAreFlushed** (`RecordingFlushed`) | requests that wait for those before them (`Orderly`) |
| | **StaysInSync** (`InSync`), **SamplesInRange** (`SampleInRange`) | such requests, in sessions without seeks and edits (`Plain`) |
| `CoreLifecycleProofs` | **ContractIsKept** (`KeepsContract`), **SavesAreOpen**, **SavesAreClosed**, **AudioLeavesPlugin**, **NeverAborts**, **ListenersAreTold**, **TypesHold**, **PollsWaitForSaves** | every number of calls, users' requests and files, every session |
| `StorageProofs` | **SavesAreKept** (Storage implements `SaveMemory`), **FlashIsRead**, **TypesHold** | all games, contents, memory sizes and sessions |
| `CodeCacheProofs` | **JumpsRunMemory**, **SumsHold**, **TypesHold** | programs that mix segments as `Coherent` allows |
| | **LutsFollow** (`LutFollowsTlb`), **LutsPart** (where a table is lost) | every program, with all savestates and starts |
| `RegCacheProofs` | **Operands** (`OperandsCurrent`), **NothingLost** (`MemoryCurrent`), **Loads** (`EntryLoads`), **Types** | sessions within `LimitsOf`: any registers, forms, lengths of blocks and entries |
| | lemmas: what each function of `regcache.cpp` and each piece of emitted code does to registers, memory and the entry | every block within `LimitsOf` |
| `InterpreterProofs` | **FlowIsKept** (Interpreter implements `ControlFlow`), **TypesHold** | every program within `ProgramOK`, any size of pages and any place of the handlers in unmapped code |
| `MCDevicesProofs` | **JumpsAreFresh**, **SumsAreTrue**, **LutsFollowTlb**, **SavesKept**, **FlashRead**, **RegsOperands**, **RegsNothingLost**, **RegsLoads**, **FlowKept**, **TypesHold**: all the properties that run `Devices` checks, from the modules above | the sessions the run plays, shown to be within those limits |

### Assumptions

The constants' assumptions are named in the modules that declare them, and TLC evaluates them on every run: `ModulusAssumption`, `DelayAssumption`,
`MaskAssumption` (M a multiple of sixteen, delays below half of it, and the like), `CoreBounds`, and the `SessionsAssumption`s, which say what shape a session has. In
`Storage`, `CodeCache`, `RegCache` and `Interpreter` they are definitions, as `MCDevices` instantiates these modules, and theorems name them as hypotheses (`Constants`, `Limits`);
`SavesAssumption` and `CodeAssumption` of `MCDevices` make TLC evaluate them for the instances.

Some theorems ask for more, each time for what the code does not look after, and [below](#where-the-code-and-its-promises-part) is what happens without it:

* `CountIsKept`: MTC0 Count moves the queue and not `next_vi`.
* `Paced(S, B)`: no instruction takes more than S cycles and no branch more than B, `MaxOps * S` is below the sixteenth at which `before_event()` takes an event for overtaken, S + B is within
  `Window` (the distance to the roll-over that the model's games keep), and no savestate is loaded, since a load sorts the queue anew. Run `IntDelivery` is one such
  game, with S = 0 and B = 2. Count, Compare, Status and the masks may be written at any time.
* `Short(S, B)` is `Paced(S, B)` with savestates. `Patient` of `InterruptsProofs`: while a CHECK event waits for the branch of its block, the game writes none of the registers that the check has read - Status, MI_INTR_MASK, the
  interrupt bits of the units, Compare - and no state is saved or loaded. It may go on for any number of instructions, start units, write Count, idle, and return with ERET. The code holds no game to this, and without it
  `CheckJustified` is false (the divergence of the second CHECK): the theorem says that this is the only way to lose it within the pace.
* `Orderly` (movies): `recordReset`, `recordExisting`, `recordSnapshot`, `play`, `stop`, `save` and `load` are asked for when no start, reset or load is under way (`Patient`; seeks,
  edits, pauses, read-only and recorded resets need not wait, as far as this goes); movies do not loop; and a session with seeks but no seek states, where a seek starts the movie again, does
  not save or load slots (`Apart`). `vcr.cpp` has no check for any of these. Run `MovieSync` is such an instance, all eleven sessions; `MovieStop` is one that is not, and goes wrong.
* `Plain(session)`: no seek and no edit is asked for; and where states are saved or loaded, no reset is recorded, nor is one in the movie's file. The first is a limit of the proof, not of the code: the run checks `InSync`
  with seeks and edits too. The second is the divergence of `MovieResetSave`. Six of the eleven sessions of `MovieSync` are plain.
* `Coherent`: code run under one segment is not stored to through another that does not look there; one address of a page that is mapped has code.
* `LimitsOf`: the x86 registers are enough for every form of instruction in the session, those it uses by name (EAX, ECX, EDX) among them - `InUse` counts what one instruction has in use at once, six for a
  64-bit `dsllv`, and the code has seven; a block is entered at its start only, unless every register is `narrow`; and a session with tests on registers cached as 32 bits has either no 32-bit form that
  leaves one so, or only narrow registers and no form that makes a 64-bit value. The last two are the divergences of regcache.cpp:110 and gr4300.cpp:365. The number of N64 registers, the length of the block and the number of entries are free.
* `ProgramOK` (interpreters): the word behind an instruction is one too, a delay slot holds one of `Simple` (a no-op, a load, SYSCALL, a COP1 instruction), targets are instructions, and an instruction that is returned to behind
  a fault has one behind it (`FollowOK`); a slot in the next page is mapped, and stays so (`SlotsOK`); unmapped code does not run into mapped code; the handlers are those of `ControlFlow`, in unmapped code (`HandlersOK`). The
  code checks none of this; slots on an unmapped page, MTC0 in a slot and faults in a handler are divergences. `MapOK`: what the TLB maps are whole pages, and not the first. The rest is free: the program,
  its length, the mapped pages and what the handler evicts.

### Arguments

*Interrupts.* Neither types nor heartbeat are inductive alone. The handlers read the head of the queue, so types need a queue that is not empty, and that is the heartbeat; the heartbeat needs types, and
it needs the same of the queue in the savestate, as a load replaces one by the other. `IInv` joins `TimeOK`, `Beating(ev)`, `CpuOK`, `AuxOK` (which says that a value of
Count is at hand between the halves of MTC0) and `StoreOK` (a saved queue beats too). VI and SPECIAL are removed and added again by one handler (`BeatCycle`); all others touch
other types (`BeatAdd`, `BeatRemoveHead`).
`AudioOK` and `VideoOK` extend it to the AI event and to the time of the VI event, in the machine and in the savestate; `NoTranslation` says that without "count" in the session no Count write is ever half done.
`LoadsKeepEvents` and `CountWritesKeepDelays` are about one step, and rest on the lemmas that say that sorting does not lose, invent or move an event (`InsertedEvents` and those after it).

`RcpDelivered` says that the next branch enters `gen_interrupt()` and takes the exception. Its invariant is `LinesOK /\ HeadOK`: the RCP's bit in Cause follows the MI registers; an exception noted in a delay slot still
waits for its branch; and while the processor accepts the interrupt, the CHECK event that `check_interrupt()` pushed is still the head and was pushed no longer ago than the instructions of this block took (`ops * S` cycles). The hard half is that
it stays the head: an event added in between is placed by `before_event()`, which is relative to a Count that has moved on. `NotBefore` shows that nothing goes before a CHECK that is less than a sixteenth overdue, and `BlockBound` that a
block is not that long.

`CheckJustified` needs the same head and its opposite, that no CHECK event stays when its reason goes: `CheckOK` says that there is none, or one, at the head, with its reason, and either `gen_interrupt()` is about to take it or the
branch of its block is still to come and it is no longer overdue than the block is long (`OneCheck`, `Ready`); and that none is saved. What starts in between is placed behind it, and `Patient` keeps away what reads the registers anew.

*Movies.* Three invariants, each in terms of the one before. `TypesOK` types every variable; the queue, the jobs and the inputs are unbounded sequences here, the seek states a function on a finite set of frames, and `TypeOK`
follows. Its hard part is `do_work()`: that what `Simplify` erases index by index leaves some of the tasks and adds none (`SimplifyIsPart`) is an induction, written as a smallest counterexample (`SmallestNumber`), as the library's induction theorems take an operator that no prover here can instantiate.
`OrderOK` says that the pending steps of a start belong together: at most one restart job, one load of a starting state and one load of a seek are under way, each is for the movie that `task` says is to start, a restart
only while `g_reset_pending`, a seek's load only while `g_seek_savestate_loading`, and no task of a slot waits while a movie starts. It is what `RecordingFlushed` needs: a callback then never replaces a recording behind `write_movie()`'s back.
`SyncOK` says what those pending steps will do to machine and movie: `BeginOK`, that the state a start will load or the power-on its reset will bring is the movie's origin; `GoodOK`, that every slot with this movie's id
holds the machine its own inputs lead to; `ResetOK`, that while a recorded reset is pending the last input read is that reset; `RunOK`, `InSync` itself with the position in range; `UidOK`, that no other movie shares
an id with this one. Loading a slot replaces the inputs by the slot's in read-write and keeps them in read-only mode, where the code compares the two up to the saved position: `LeadsOn` and the lemmas about `Prefix` say what such inputs lead to. `misled`, a
state loaded that is not of the movie, suspends it until the next start. There is a lemma for each action, over operators on the globals (`SyncRecording`, `SyncPlayback`, `SyncLoad`, ...).

*Starting and stopping.* Who holds `emu_cs` decides what the emulation and the audio thread can be doing: `Order` (`FlagsOK`, `StageOK`, `AudioOK`, `FilesOK`, `ToldOK`) says, for each place of the
holder, where they are, which flags are up, which files are open and what the listeners were told; `LockOK`, `JobsOK` and `QueueOK` that there is one holder and that each job is in one place. `Order` cannot speak of a program that has aborted (a `std::thread` assigned over a joinable one), where `AbortOK` takes its
place: it happens only in sessions whose CPU stops itself. `WaitOK` says that the counter `g_vr_wait_before_input_poll` is the number of saves asked for and not run, which is why it does not go below zero. The refinement has one step per action:
what does not touch the lock, an answer or `core_executing` is a stutter of `CoreContract`.

*Save files.* `FillOK` says that a flash buffer filled for a game equals that game's file, and is what makes a page read as programmed; `StateOK` has the lengths of the files, which `SaveMemory`'s blocks are read from.
A crash leaves the first blocks of what was still in a stream's buffer: block by block the file then holds what the program had or what was on disk (`CrashStep`), which is what `SaveMemory` allows.

*Decoded code.* Freshness needs to know who notices a store. `DirectOK`: valid code under a page's own addresses is what the page holds. `MappedOK`: so is that of a mapped address, unless the block of KSEG0 is already marked
invalid (the mapped one is compared when it is entered). `MarkedOK`: whatever is decoded under the mapped address is marked in the block of KSEG0, so a store there is noticed. `BareOK` bounds the rest, and `SumsHold` is the
part about blocks that are unmapped and may come back. `FollowOK` is a separate, smaller invariant for the two tables, over the TLB's entries and those of the savestate: both tables agree with the entries about every
address of the promise (`Covered`), now and in the savestate. `LutsPart` is
about single steps, from any state with these types: a write of an entry leaves a table that agrees agreeing (`TlbwFollows`), so what is lost is lost at a load or a start.

*Compiled code.* Between two instructions (`Between`) the cache is whole: no two registers stand for one word, the two halves of a 64-bit value are each other's partners with one age and one dirty flag (`Core`), and each register
`Fit`s the emitted code: it holds its word, or what the entry loads into it if `needed_registers` says so, and what is not in memory is in a dirty register. The three properties are read off this. An instruction breaks it in its middle: a
register that was allocated for a result has a word it does not hold yet. `Good(t, P)` is the invariant except for a set `P` of such registers in the making; every call of `regcache.cpp` keeps `Good` (`Grows` and `Taking` say what else it leaves
alone), and the last call of a generator gives the registers of `P` their values. That an allocation never evicts a register in use by the same instruction is a count: `Room(t, n)` says that at most n registers were accessed since the instruction began, and the
least recently used of more than n is another one (`LruOther`). Calls are folds over sequences, over sets where the code loops over registers; what they do in any order is a smallest counterexample again. A register that is dirty and cached as 32 bits, or tested as such, must have a value that is the sign extension of 32 bits (`Fit`); `NarrowOK` carries that through sessions with tests, and is what the limits on tests and entries are for.

*Control flow.* `ControlFlow` has a program counter, perhaps a branch to take, and the processor's status; an interpreter has a program counter that is behind, at, or in front of it, frames of ops that were called, and
a handler that waits in `skip_jump`. `Pc`, `Slot` and `Ra` of `Interpreter` are the mapping. The invariant says which of five things is going on (`Going`). `Ready`: between two instructions, on a word that may be run by itself or in a handler.
`InDelay(br, b)`: in the slot of the branch at b, with the frame `br`, and perhaps a FIN_BLOCK that the slot was reached through; the word at b is still mapped. `BackFrom(br, b)`: the slot's op has ended. `Pending`: the slot had an
exception, and the frames are left one by one, until `gen_interrupt()` goes to the handler. `Leaving`: on the way into `jump_to()`. With it go `Typed`; `Needs`, that slots of the next page are mapped; `Block`, that PC is in a block whose page
is mapped; and `Handling`, that a handler finds an EPC to go back to - for a SYSCALL in a slot, two words behind the branch. There is one lemma per action; an op that completes, one that notes an exception, and one that changes nothing of the mapping are
`Completes`, `Noticed` and `Stutters`. Each step is then a step of `ControlFlow` or none.

### Only model-checked

* Liveness under fairness, which no installed prover does: `ViForever`, `SeekCompletes`, `Answered`, `CallsReturn`.
* `Interrupts`: `Sorted`, `NotMissed`, `NotEarly`, `OnTime` and `IdleSafe`. They hold as no event is ever later than a sixteenth, which depends on the lengths of blocks, on `Window` *and* on the devices' delays: a bound on how late the
  whole queue can be.
* `Movie`: `SeekFits` and `SeekFinds`, and `InSync` and `SampleInRange` in sessions with seeks or edits. They need the seek states in the invariant (each was made along the present inputs up to its frame, or is about to be purged)
  and hold only within `AnySeek`, `FirstEdit` and the rest of `Patient`.
  `StopStays`, `SavesFit` and `SimplifyKeeps` are false, and have runs that show it.

## Where the code and its promises part

Checked by a run whose property fails; `PROJECT.json` quotes the lines:

1. `IntTimerLost`: `gen_interrupt()` returns before raising an exception when no RCP interrupt is pending, also when a COMPARE
   event has just set its Cause bit: the timer interrupt waits until something else comes.
2. `IntSavedSi`: a savestate has the "SI done" bit and no SI event, as the queue is copied before the event is added.
3. `MovieTasks`: three tasks of one slot in the vector make the de-duplication erase one index twice and drop an unrelated task.
4. `MovieStop`: a recording stopped while its first reset is pending starts when the reset is done.
5. `MovieResetSave`: a state saved between the poll that records a reset and the reset itself is of neither side.

Met while modelling, excluded from the passing runs by the bounds above, no run spent on them:

* Interrupts. Compare rewritten while COMPARE is the head leaves `next_interrupt` at the old time (an early
  entry). A second CHECK in one block finds nothing to do. An event in the very last cycles before a roll-over is jumped over.
  A timer re-armed to the last sixteenth behind Count holds up the events after it. MTC0 Count does not move `next_vi`, nor
  `next_interrupt` until the next add or remove. A load sorts by the Count from before it. `SPECIAL_done` is not saved.
  `get_event` answers 0 both for "none" and for time 0.
* Movies. `start_record()` holds `vcr_mutex` while it waits for `g_task_mutex`, and `do_work()` calls back the other way
  round: a deadlock, the one the comments at vcr.cpp:1449 avoid elsewhere. A far forward seek makes no seek state of
  frame 0 and later seeks find none. A seek that is begun without a movie, or rejected for its interval, leaves its
  target set. A load by the user during a seek or an edit moves the position only. A save asked for while a start, a reset or a
  seek's load is pending stores machine and movie from different moments. An edit of the first input has no state to go
  back to. A new movie started while the reset of another is pending takes over its completion. Two of the starting
  tasks are not ended by `stop_all()`. `start_playback()` reads the file before `stop_all()` writes it. `stop_all()` clears the map of seek states
  without the lock the callbacks write it under. Tasks are pushed at the front, so a save and a load asked for in that order run in the other.
* Starting and stopping. A pause, or the end of a frame advance, between the `resume_emu()` of a close and the end of the instruction leaves the emulation thread in
  `while (emu_paused)`, which does not look at `stop`; the menu loop of Main.cpp:1251-1270 re-pauses 60 ms after "Close ROM" was picked. The debugger's
  `while (!Debugger::get_resumed())` does not look at it either. With `use_async_executor` a close on the one worker joins an emulation thread that waits in pif.cpp:462 for a
  save job queued behind the close. A CPU that stops itself leaves the audio thread with a closed plugin, the files open and `emu_thread` joinable, which ends
  the program at the next start; if it does so before the caller sees `core_executing`, the caller spins for ever. A start answers "not running" if the machine dies
  between its check and its close. A reset that fails never broadcasts that the machine is off. A save file that cannot be opened leaves those before it open.
  `WM_CLOSE` passes `true` for `stop_vcr`, not for `wait`, so the close may be refused and the window destroyed all the same; `IDM_EXIT` does not close at all.
  `WM_DESTROY` joins the worker, whose close waits for a thread that broadcasts to the window. `clear_save_data()` goes on when a file does not open.
* Save files. Erasing and programming flash RAM read and write the `.sra` file, a DMA from it reads the `.fla` file, which nothing writes: after a restart the flash reads back nothing until
  it is programmed again. What is programmed is what RDRAM holds at the command, not at the DMA. A fresh game reads what another left in the buffers (`format_mempacks()`
  is never called). "Clear save data" clears a quarter of each pak and nothing of the flash RAM, where r4300.h:139 speaks of save data including the mempak. The first DMA decides between SRAM and flash
  for good.
* Decoded code. Code run under one segment and changed by a store through the other; a jump that initialises a mapped page and with it the KSEG0 block of the same page, whose `NOTCOMPILED2` marks are lost;
  two mapped pages of one physical page; a store through another mapping: each runs what was decoded before. `core_start()` clears `tlb_LUT_r` twice and
  `tlb_LUT_w` never (r4300.cpp:1751-1752). A savestate has a quarter of each table. SP and SI DMA invalidate nothing. ASID is not compared. A branch inside its block does not look at `invalid_code`. A block
  of unmapped code runs up to a quarter page over its end.
* Compiled code. DSLLV, DSRLV and DSRAV with rd = rs lose their result when ECX is one of its registers: `force_32(ECX)` marks it clean (gspecial.cpp:410-417). `genbeq_test` compares the low words
  of two registers cached as 32 bits, also if one holds a 64-bit value (gr4300.cpp:365). A block entered in its middle with a register cached as dirty 32 bits while it holds 64 writes the sign over the upper
  word (regcache.cpp:110-117). DIV by zero leaves what was in EAX and EDX.
* Control flow. A delay slot on an unmapped next page: the handler's first instruction runs twice. MTC0 Status in a slot that lets an interrupt through: EPC is the slot, with BD set, and the branch is
  lost. A miss with EXL set leaves EPC and subtracts from it; `exception_general()` overwrites EPC with EXL set. MTC0 Count calls `gen_interrupt()` before it moves PC. A likely branch not taken
  does not count its cycles in BC1FL, BC1TL and the pure interpreter. Cause is assigned, which clears its IP bits. BC1x reads its condition, and JAL links, after the slot. BGEZAL on
  r31 in the pure interpreter never ends. The pure BGTZ idle test is `<= 0`. Only BEQ inside a block honours `g_vr_beq_ignore_jmp`.
* Capture. With video sync `at_vi()` returns before it appends a frame (EncodingManager.cpp:483-487), which the comment at 566 does not say. A frame that cannot be appended stops the capture and releases the
  encoder, which the same `at_vi()` uses next (457-462). `write_sound()` stops a capture that fails, and stopping it writes the sound that is left.

## What is not modelled

Instruction results and x86 encodings (the equivalence of instruction sets), the read and write handlers of `memory.cpp`, CIC tables and the layout of PIF RAM, the SummerCart, plugins, ROM loading, all
windows and drawing, Lua itself, encoders, settings: see the notes in `PROJECT.json`. A large part of the repository is out of such a model's reach or interest: more than a third of its lines are
vendored libraries, some ten thousand more are handlers that differ in width, region or arithmetic only, tables, and encoders of single x86 instructions. The models take the
parts that decide; of the lines of `src/core` they stand for about a fifth.

Of the modelled files: in `interrupt.cpp` the speed limiter and
screen update calls of a VI; in `cop0.cpp` registers other than Count, Compare and Status; in `vcr.cpp` author data,
warnings that only ask, backups, VI counts, several controllers; in `savestates.cpp` the format and write errors; in `r4300.cpp` benchmarks and speed settings;
in `recomp.cpp` everything that emits a jump; in `tlb.cpp` TLBP and TLBR.

## Running

    tlc -config MovieSync.cfg MCMovie.tla        # every .cfg names its run; Int* belong to MCInterrupts, Movie* to MCMovie
    tlc -config CoreCalls.cfg MCCore.tla
    tlc -config Devices.cfg MCDevices.tla
    tlapm InterruptsProofs.tla                   # and CoreLifecycleProofs, StorageProofs, CodeCacheProofs, InterpreterProofs, MCDevicesProofs
    tlapm MovieProofs.tla                        # about ten minutes from nothing
    tlapm RegCacheProofs.tla                     # about twenty
    tlapm --summary InterruptsProofs.tla         # what it states and on what
