-------------------------------- MODULE Movie --------------------------------
(***************************************************************************)
(* Recording, playing, seeking and rewriting movies: core/r4300/vcr.cpp with *)
(* the savestate tasks of core/memory/savestates.cpp it works by.            *)
(*                                                                         *)
(* The emulation thread alternates do_work(), which runs the queued tasks,   *)
(* with the poll of the controller, which records or plays one input.        *)
(* Every other thread asks for things: jobs handed to AsyncExecutor, and     *)
(* calls made under vcr_mutex.  The emulated machine is deterministic, so    *)
(* its state is the sequence of inputs it has consumed since power-on: a     *)
(* movie is in sync when the machine is what its inputs lead to.             *)
(***************************************************************************)
EXTENDS SavestateTasks

CONSTANTS
  Keys,           \* inputs the input plugin returns
  MaxCount,       \* seek_savestate_max_count
  Slots,          \* savestate slots
  LoopMovie,      \* is_movie_loop_enabled
  InOrder,        \* use_async_executor: jobs run one by one, in order
  Patient,        \* bound: the requests made only while nothing is under way
  AnySeek,        \* bound: seeks go too far for states to be kept, or have no movie
  FirstEdit,      \* bound: first sample the user edits in a warp modify, from 1
  MaxFrames,      \* bound: samples of a movie
  MaxMovies,      \* bound: recordings started
  MaxOps,         \* bound: requests of the user
  Sessions        \* bound: [file: the movie on disk, interval:
                  \*   seek_savestate_interval, requests: the kinds of request]

NoFrame  == -1
Boot     == <<"boot">>             \* the machine after power-on
NoState  == [mach |-> <<>>, frz |-> [uid |-> 0, sample |-> 0, inputs |-> <<>>]]
NoFreeze == NoState.frz
NoMovie  == [uid |-> 0, start |-> "reset", origin |-> <<>>, inputs |-> <<>>]

Requests == {"recordReset", "recordExisting", "recordSnapshot", "play", "stop",
             "save", "load", "seek", "stopSeek", "readonly", "reset", "warp", "pause"}

\* What is played and saved.
Inputs == Seq(Keys \cup {"reset", "garbage"})
Machines == Seq(Keys \cup {"reset", "boot", "stray", "0", "1", "garbage"})
States == [mach : Machines, frz : [uid : Nat, sample : Nat, inputs : Inputs]]
Movies == [uid : Nat, start : {"reset", "snapshot"}, origin : Machines, inputs : Inputs]

ASSUME MovieAssumption ==
  /\ MaxCount \in Nat
  /\ Patient \subseteq Requests /\ AnySeek \in BOOLEAN
  /\ LoopMovie \in BOOLEAN /\ InOrder \in BOOLEAN
  /\ MaxFrames \in Nat /\ MaxMovies \in Nat /\ MaxOps \in Nat /\ FirstEdit \in Nat \ {0}
  /\ \A s \in Sessions : s.interval \in Nat /\ s.requests \subseteq Requests
  /\ {"reset", "boot", "garbage"} \cap Keys = {}

\* A movie on disk was recorded: it has an id, and one from a reset starts there.
ASSUME FileAssumption ==
  \A s \in Sessions :
    /\ s.file \in Movies /\ "garbage" \notin Range(s.file.inputs)
    /\ s.file = NoMovie \/ (s.file.uid > 0 /\ (s.file.start = "reset" => s.file.origin = Boot))

VARIABLES
  vcr,        \* the globals of vcr.cpp, and the movie's two files
  g_tasks,    \* the savestate tasks
  async,      \* functions handed to AsyncExecutor, not yet run
  slots,      \* the savestate files of the slots
  machine,    \* the inputs consumed since power-on
  emu,        \* the emulation thread is about to "work" or to "poll"
  working,    \* ... or inside do_work(), holding g_task_mutex
  recorder,   \* start_record() holds vcr_mutex and is about to call do_file()
  misled,     \* history: the user loaded a state that is not of the movie
  ops, session

vars == <<vcr, g_tasks, async, slots, machine, emu, working, recorder, misled, ops,
          session>>

Starting  == {"start_recording_from_reset", "start_playback_from_reset"}
IsRecording(task) == task \in {"start_recording_from_reset", "recording",
                               "start_recording_from_snapshot",
                               "start_recording_from_existing_snapshot"}
StartingPlayback  == {"start_playback_from_reset", "start_playback_from_snapshot"}
IsPlayback(task)  == task \in StartingPlayback \cup {"playback"}

\* The .st file beside a movie from a snapshot.
StartState(file) ==
  [mach |-> file.origin, frz |-> [uid |-> file.uid, sample |-> 0, inputs |-> <<>>]]

Init ==
  /\ session \in Sessions
  /\ vcr = [task |-> "idle", uid |-> 0, start |-> "reset", origin |-> <<>>,
            inputs |-> <<>>, sample |-> 0, readonly |-> FALSE,
            seek |-> NoFrame, pauseEnd |-> FALSE, loading |-> FALSE,
            reset |-> FALSE, askedReset |-> FALSE, warp |-> FALSE, first |-> 0,
            interval |-> session.interval, states |-> <<>>, paused |-> FALSE,
            movies |-> session.file.uid, file |-> session.file,
            st |-> IF session.file.start = "snapshot" THEN StartState(session.file)
                   ELSE NoState]
  /\ g_tasks = <<>> /\ async = <<>> /\ slots = [s \in Slots |-> NoState]
  /\ machine = Boot /\ emu = "work" /\ working = FALSE /\ recorder = FALSE
  /\ misled = FALSE /\ ops = 0

-----------------------------------------------------------------------------
(* The functions of vcr.cpp, from the globals to the globals they leave.     *)

Prefix(s, n) == [i \in 1 .. n |-> IF i <= Len(s) THEN s[i] ELSE "garbage"]
Without(f, gone) == [k \in (DOMAIN f) \ gone |-> f[k]]
With(f, k, st) == [i \in (DOMAIN f) \cup {k} |-> IF i = k THEN st ELSE f[i]]

Header(v) == [uid |-> v.uid, start |-> v.start, origin |-> v.origin, inputs |-> v.inputs]

\* write_movie(): only while recording.
WriteMovie(v) == IF IsRecording(v.task) THEN [v EXCEPT !.file = Header(v)] ELSE v

\* Mutant: a recording ends without a last write.
StopAllUnsaved(v) ==
  LET c == [v EXCEPT !.states = <<>>]
  IN  IF v.task \in {"start_recording_from_reset", "recording"} \/ IsPlayback(v.task)
      THEN [c EXCEPT !.task = "idle"] ELSE c

\* stop_all(), with vcr_stop_record() and vcr_stop_playback(): two of the
\* tasks it does not end.
StopAll(v) ==
  LET c == [v EXCEPT !.states = <<>>]
  IN  CASE v.task = "start_recording_from_reset" ->
             [c EXCEPT !.task = "idle", !.file = NoMovie, !.st = NoState]
        [] v.task = "recording" -> [WriteMovie(c) EXCEPT !.task = "idle"]
        [] IsPlayback(v.task)   -> [c EXCEPT !.task = "idle"]
        [] OTHER -> c

\* stop_seek()
StopSeek(v) == IF v.seek = NoFrame THEN v
               ELSE [v EXCEPT !.seek = NoFrame, !.warp = FALSE]

\* Mutant: only past the target.
StopSeekTooLate(v) ==
  IF v.seek = NoFrame \/ v.sample <= v.seek THEN v
  ELSE [StopSeek(v) EXCEPT !.paused = @ \/ v.pauseEnd]

\* vcr_stop_seek_if_needed()
StopSeekIfNeeded(v) ==
  IF v.seek = NoFrame \/ v.sample < v.seek THEN v
  ELSE [StopSeek(v) EXCEPT !.paused = @ \/ v.pauseEnd]

\* freeze(): what a savestate carries of the movie.
Freeze(v) == IF v.task = "idle" THEN NoFreeze
             ELSE [uid |-> v.uid, sample |-> v.sample, inputs |-> v.inputs]

CanUnfreeze(v, f) ==
  /\ v.task # "idle" /\ f.uid = v.uid
  /\ ~(f.sample > Len(f.inputs) /\ v.readonly)

\* Mutants: one sample too many, or too few, as the frozen buffer has one more.
UnfreezeAt(v, f, sample) ==
  LET w == [v EXCEPT !.sample = sample]
  IN  IF v.readonly \/ v.task \in StartingPlayback
      THEN [WriteMovie(w) EXCEPT !.task = "playback"]
      ELSE WriteMovie([w EXCEPT !.task = "recording", !.inputs = Prefix(f.inputs, f.sample)])
UnfreezeLate(v, f)  == UnfreezeAt(v, f, f.sample + 1)
UnfreezeEarly(v, f) == UnfreezeAt(v, f, f.sample - 1)

\* unfreeze(): in a seek while recording, only the position; read-write, the
\* inputs of the state become the movie; read-only, the movie stays.
Unfreeze(v, f) ==
  LET w == [v EXCEPT !.sample = f.sample]
      r == [w EXCEPT !.task = "recording"]
  IN  IF v.task = "recording" /\ v.seek # NoFrame THEN w
      ELSE IF v.readonly \/ v.task \in StartingPlayback
      THEN [WriteMovie(w) EXCEPT !.task = "playback"]
      ELSE IF v.warp THEN r
      ELSE WriteMovie([r EXCEPT !.inputs = Prefix(f.inputs, f.sample)])

\* vcr_create_seek_savestates() and vcr_create_n_frame_savestate(): whether a
\* state is asked for, and the purge that comes before.
TooFar(v) == v.seek # NoFrame /\ v.seek - v.sample > v.interval * MaxCount
WantsState(v) ==
  v.task # "idle" /\ v.interval # 0 /\ v.sample % v.interval = 0 /\ ~TooFar(v)
\* Mutant: the first state may go.
PurgeFirst(v) ==
  LET old == {k \in DOMAIN v.states : k < Len(v.inputs)}
  IN  IF Cardinality(DOMAIN v.states) > MaxCount /\ old # {}
      THEN [v EXCEPT !.states = Without(@, {Min(old)})] ELSE v

Purge(v) ==
  LET old == {k \in DOMAIN v.states : 1 <= k /\ k < Len(v.inputs)}
  IN  IF Cardinality(DOMAIN v.states) > MaxCount /\ old # {}
      THEN [v EXCEPT !.states = Without(@, {Min(old)})] ELSE v

\* vcr_find_closest_savestate_before_frame()
Closest(v, frame) ==
  LET before == {k \in DOMAIN v.states : k < frame}
  IN  IF before = {} THEN 0 ELSE Max(before)

\* start_playback() with the core running.  The file was read before stop_all().
MovieRead(v) ==
  LET w == StopAll(v)
  IN  [w EXCEPT !.uid = v.file.uid, !.start = v.file.start,
                !.origin = v.file.origin, !.inputs = v.file.inputs]

StartedPlayback(v) ==
  LET w == [MovieRead(v) EXCEPT !.sample = 0]
  IN  IF w.start = "snapshot"
      THEN IF w.st = NoState THEN w
           ELSE [w EXCEPT !.task = "start_playback_from_snapshot"]
      ELSE [w EXCEPT !.task = "start_playback_from_reset"]

PlaybackJobs(v) ==
  IF StartedPlayback(v).task = "start_playback_from_snapshot"
  THEN <<[op |-> "loadFile", arg |-> "play"]>> ELSE <<>>

\* start_record() up to the point where the task is set.
StartedRecord(v) ==
  [StopAll(v) EXCEPT !.readonly = FALSE, !.inputs = <<>>, !.uid = v.movies + 1,
                     !.movies = @ + 1, !.origin = <<>>]

CanSeekTo(v, frame) == 0 < frame /\ frame <= Len(v.inputs)

SeekFrame(frame, pauseEnd) == IF pauseEnd THEN frame - 1 ELSE frame

SeekRejected(v, frame, pauseEnd) ==
  \/ v.seek # NoFrame \/ v.loading
  \/ ~CanSeekTo(v, frame) \/ ~CanSeekTo(v, SeekFrame(frame, pauseEnd))

\* Mutant: a warp modify goes back to where it was called.
TargetHere(frame, warp, first) == frame

\* target_sample: what the state loaded must come before.
Target(frame, warp, first) == IF warp THEN first ELSE frame

\* The seek states that inputs written at `target' make invalid.
Invalid(v, target) ==
  IF v.readonly THEN {} ELSE {k \in DOMAIN v.states : k >= target}

\* vcr_begin_seek_impl() past its checks: the globals and the jobs it leaves.
Seek(v, frame0, pauseEnd, resume, warp, first) ==
  LET frame  == SeekFrame(frame0, pauseEnd)
      s      == [v EXCEPT !.seek = frame, !.pauseEnd = pauseEnd]
      r      == IF resume THEN [s EXCEPT !.paused = FALSE] ELSE s
      target == Target(frame, warp, first)
      purged == [r EXCEPT !.states = Without(@, Invalid(r, target))]
      there  == ~warp /\ pauseEnd /\ v.sample = frame + 1
      back   == ~there /\ v.sample > frame
      load(k) == <<[op |-> "seekLoad", arg |-> k]>>
      slow   == StartedPlayback(r)
  IN  CASE back /\ v.task = "playback" /\ v.interval # 0 ->
             [v    |-> [r EXCEPT !.readonly = TRUE, !.loading = TRUE],
              jobs |-> load(Closest(r, frame))]
        [] back /\ v.task = "playback" /\ v.interval = 0 ->
             [v    |-> IF slow.task = "idle" THEN [slow EXCEPT !.seek = NoFrame] ELSE slow,
              jobs |-> PlaybackJobs(r)]
        [] back /\ v.task = "recording" /\ v.interval # 0 ->
             [v    |-> [purged EXCEPT !.loading = TRUE],
              jobs |-> load(Closest(purged, target))]
        [] OTHER -> [v |-> IF there THEN StopSeek(s) ELSE r, jobs |-> <<>>]

-----------------------------------------------------------------------------
(* The emulation thread.                                                   *)

\* A frame outside of any movie, or one a pending reset or load will undo.
Stray(m) == IF m = <<"stray", "0">> THEN <<"stray", "1">> ELSE <<"stray", "0">>

WorkBegin ==
  /\ emu = "work" /\ ~working /\ g_tasks # <<>>
  /\ g_tasks' = Simplify(g_tasks) /\ working' = TRUE
  /\ UNCHANGED <<vcr, async, slots, machine, emu, recorder, misled, ops, session>>

\* The callbacks that take vcr_mutex; start_record() holds it meanwhile.
Locking(cb) == cb \in {"seekSave", "record", "recordExisting", "play"}
Free(cb)    == Locking(cb) => ~recorder

\* The callbacks, by the task that ends.
Failed(v, t) ==
  CASE t.cb = "seekLoad" -> StopSeek([v EXCEPT !.loading = FALSE])
    [] t.cb \in {"record", "recordExisting", "play"} -> StopAll(v)
    [] OTHER -> v

\* Mutant: the end of the load is not told.
SucceededUntold(v, t, st) ==
  CASE t.cb = "seekSave" -> [v EXCEPT !.states = With(@, t.frame, st)]
    [] t.cb \in {"record", "recordExisting"} -> [v EXCEPT !.task = "recording"]
    [] t.cb = "play" -> [v EXCEPT !.task = "playback"]
    [] OTHER -> v

Succeeded(v, t, st) ==
  CASE t.cb = "seekLoad" -> [v EXCEPT !.loading = FALSE]
    [] t.cb = "seekSave" -> [v EXCEPT !.states = With(@, t.frame, st)]
    [] t.cb \in {"record", "recordExisting"} -> [v EXCEPT !.task = "recording"]
    [] t.cb = "play" -> [v EXCEPT !.task = "playback"]
    [] OTHER -> v

Working(job) == /\ working /\ g_tasks # <<>> /\ Head(g_tasks).job = job
                /\ Free(Head(g_tasks).cb)
                /\ g_tasks' = Tail(g_tasks)
                /\ UNCHANGED <<async, emu, working, recorder, ops, session>>

\* savestates_save_immediate_impl(), and its callback.
WorkSave ==
  /\ Working("Save")
  /\ LET t  == Head(g_tasks)
         st == [mach |-> machine, frz |-> Freeze(vcr)]
         v  == WriteMovie(IF t.cb = "record" THEN [vcr EXCEPT !.origin = machine] ELSE vcr)
     IN  /\ slots' = IF t.medium = "slot" THEN [slots EXCEPT ![t.slot] = st] ELSE slots
         /\ vcr' = Succeeded(IF t.medium = "path" THEN [v EXCEPT !.st = st] ELSE v, t, st)
  /\ UNCHANGED <<machine, misled>>

Source(t) == CASE t.medium = "slot" -> slots[t.slot]
               [] t.medium = "path" -> vcr.st
               [] OTHER -> t.st

\* The user is asked before a load that may desynchronise the movie.
Asks(st) == IF st.frz = NoFreeze THEN vcr.task \in {"recording", "playback"}
            ELSE vcr.task # "idle" /\ ~CanUnfreeze(vcr, st.frz)

WorkLoadFails ==
  /\ Working("Load")
  /\ LET st == Source(Head(g_tasks)) IN st = NoState \/ Asks(st)
  /\ Head(g_tasks).cb = "seekLoad" => ~recorder  \* stop_seek() takes vcr_mutex
  /\ vcr' = Failed(vcr, Head(g_tasks))
  /\ UNCHANGED <<slots, machine, misled>>

\* Loading the state keeps the movie in sync, as far as the code promises it: it
\* says of a state of another movie that it "might desynchronize the movie", and
\* of one with other inputs, read-only, that it will.
OfTheMovie(f) ==
  \/ vcr.task = "idle"
  \/ /\ CanUnfreeze(vcr, f)
     /\ vcr.readonly => Prefix(vcr.inputs, f.sample) = Prefix(f.inputs, f.sample)

\* savestates_load_immediate_impl(), and its callback.
WorkLoad ==
  /\ Working("Load")
  /\ LET t  == Head(g_tasks)
         st == Source(t)
         v  == IF CanUnfreeze(vcr, st.frz) THEN Unfreeze(vcr, st.frz) ELSE vcr
     IN  /\ st # NoState
         /\ vcr' = Succeeded(v, t, st) /\ machine' = st.mach
         /\ misled' = (misled \/ (t.cb = "user" /\ ~OfTheMovie(st.frz)))
  /\ UNCHANGED slots

\* g_tasks.clear().  A paused machine goes on working; else the poll follows.
WorkEnd ==
  /\ working /\ g_tasks = <<>>
  /\ working' = FALSE /\ emu' = IF vcr.paused THEN "work" ELSE "poll"
  /\ UNCHANGED <<vcr, g_tasks, async, slots, machine, recorder, misled, ops, session>>

WorkNone ==
  /\ emu = "work" /\ ~working /\ g_tasks = <<>> /\ ~vcr.paused
  /\ emu' = "poll"
  /\ UNCHANGED <<vcr, g_tasks, async, slots, machine, working, recorder, misled, ops, session>>

\* vcr_on_controller_poll(), up to the handlers of recording and playback: the
\* globals, and what is asked of the two other systems.
Polled(v) ==
  LET a == StopSeekIfNeeded(v)
      b == [a EXCEPT !.reset = @ \/ a.task \in Starting]
  IN  [v    |-> IF WantsState(b) THEN Purge(b) ELSE b,
       save |-> IF WantsState(b) THEN <<Memory("Save", b.sample, NoState, "seekSave")>>
                ELSE <<>>,
       jobs |-> IF a.task \in Starting THEN <<[op |-> "restart", arg |-> a.task]>>
                ELSE <<>>]

Polling == emu = "poll" /\ ~recorder /\ emu' = "work"
           /\ UNCHANGED <<slots, working, recorder, misled, ops, session>>

\* Frames before a pending reset or load, and frames without a movie.
PollIdle ==
  /\ Polling
  /\ vcr.reset \/ vcr.loading \/ vcr.task = "idle"
  /\ machine' = Stray(machine)
  /\ UNCHANGED <<vcr, g_tasks, async>>

PollMovie(task) ==
  /\ Polling /\ ~vcr.reset /\ ~vcr.loading /\ vcr.task = task
  /\ g_tasks' = Polled(vcr).save \o g_tasks

\* The task is still starting: no input is read.
PollStarting ==
  /\ \E task \in StartingPlayback \cup
                 {"start_recording_from_reset", "start_recording_from_snapshot",
                  "start_recording_from_existing_snapshot"} : PollMovie(task)
  /\ vcr' = Polled(vcr).v /\ async' = async \o Polled(vcr).jobs
  /\ machine' = Stray(machine)

\* A frame in which the game reads no input.  Bound: a recording of MaxFrames
\* samples reads no more.
AtBound == vcr.task = "recording" /\ vcr.sample >= MaxFrames
           /\ vcr.sample >= Len(vcr.inputs) /\ ~vcr.warp

PollNothing ==
  /\ Polling /\ AtBound /\ ~vcr.reset /\ ~vcr.loading
  /\ UNCHANGED <<vcr, g_tasks, async, machine>>

\* vcr_handle_recording(): one input of the buffer, if it has one, or else of
\* the plugin; or the reset the user asked for.
PollRecording ==
  /\ PollMovie("recording")
  /\ LET v        == Polled(vcr).v
         buffered == v.sample < Len(v.inputs) \/ v.warp
     IN  /\ ~AtBound
         /\ \E key \in Keys :
              LET input == IF v.askedReset THEN "reset"
                           ELSE IF buffered THEN Prefix(v.inputs, v.sample + 1)[v.sample + 1]
                           ELSE key
              IN  /\ vcr' = [v EXCEPT
                       !.inputs = IF buffered THEN @ ELSE Append(@, input),
                       !.sample = @ + 1, !.askedReset = FALSE,
                       !.reset  = v.askedReset]
                  /\ machine' = IF v.askedReset THEN Stray(machine)
                                ELSE Append(machine, input)
         /\ async' = IF v.askedReset
                     THEN Append(async, [op |-> "restart", arg |-> "recording"])
                     ELSE async

\* vcr_handle_playback(): the input of the movie, a reset among them; at its
\* end the movie stops, or starts again.
PollPlayback ==
  /\ PollMovie("playback")
  /\ LET v     == Polled(vcr).v
         over  == v.sample >= Len(v.inputs)
         ended == StopAll(v)
         again == LoopMovie /\ v.file # NoMovie
     IN  IF over
         THEN /\ vcr' = IF again THEN StartedPlayback(ended) ELSE ended
              /\ async' = IF again THEN async \o PlaybackJobs(ended) ELSE async
              /\ machine' = Stray(machine)
         ELSE LET input == v.inputs[v.sample + 1]
              IN  /\ vcr' = [v EXCEPT !.sample = @ + 1, !.reset = (input = "reset")]
                  /\ async' = IF input = "reset"
                              THEN Append(async, [op |-> "restart", arg |-> "playback"])
                              ELSE async
                  /\ machine' = IF input = "reset" THEN Stray(machine)
                                ELSE Append(machine, input)

-----------------------------------------------------------------------------
(* The jobs of AsyncExecutor.  Unless it is switched on, each has a thread    *)
(* of its own and they run in any order.                                    *)

Running(i) == /\ i \in DOMAIN async /\ (InOrder => i = 1)
              /\ async' = RemoveAt(async, i)
              /\ UNCHANGED <<slots, working, recorder, misled, ops, session>>

\* vr_reset_rom() stops the emulation thread between two frames and starts
\* another, which clears the task vector; then the job's own end.  (The machine
\* polls no controller while it boots.)
Restart(i) ==
  /\ Running(i) /\ async[i].op = "restart"
  /\ emu = "work" /\ ~working /\ ~recorder
  /\ machine' = Boot /\ g_tasks' = <<>>
  /\ vcr' = LET v == [vcr EXCEPT !.reset = FALSE, !.paused = FALSE]
            IN  CASE async[i].arg = "start_recording_from_reset" ->
                       [v EXCEPT !.task = "recording", !.sample = 0]
                  [] async[i].arg = "start_playback_from_reset" ->
                       [v EXCEPT !.task = "playback", !.sample = 0]
                  [] OTHER -> v
  /\ UNCHANGED emu

\* The do_file(), do_slot() and do_memory() calls, which wait for do_work().
\* g_seek_savestates[key] makes an entry where there is none.
Enqueue(i) ==
  /\ Running(i) /\ ~working
  /\ LET job == async[i]
         st  == IF job.arg \in DOMAIN vcr.states THEN vcr.states[job.arg] ELSE NoState
     IN  \/ /\ job.op = "loadFile"
            /\ g_tasks' = Push(g_tasks, Path("Load", job.arg)) /\ UNCHANGED vcr
         \/ /\ job.op = "slot"
            /\ g_tasks' = Push(g_tasks, Slot(job.arg[1], job.arg[2])) /\ UNCHANGED vcr
         \/ /\ job.op = "seekLoad"
            /\ g_tasks' = Push(g_tasks, Memory("Load", job.arg, st, "seekLoad"))
            /\ vcr' = [vcr EXCEPT !.states = With(@, job.arg, st)]
  /\ UNCHANGED <<machine, emu>>

-----------------------------------------------------------------------------
(* The user, and scripts.                                                  *)

\* Nothing that was asked of the movie is under way; a save or a load may be
\* asked for behind another.
Settled(kind) ==
  /\ vcr.task \in {"idle", "recording", "playback"} /\ ~vcr.loading /\ ~vcr.reset
  /\ vcr.seek = NoFrame
  /\ kind \in {"save", "load"} \/ (async = <<>> /\ g_tasks = <<>>)

Request(kind) ==
  /\ kind \in Patient => Settled(kind)
  /\ \/ kind \in session.requests /\ ops < MaxOps /\ ops' = ops + 1
     \/ kind = "pause" /\ vcr.paused /\ UNCHANGED ops
  /\ ~recorder
  /\ UNCHANGED <<slots, machine, emu, working, misled, session>>

RecordFromReset ==
  /\ Request("recordReset") /\ vcr.movies < MaxMovies
  /\ vcr' = [StartedRecord(vcr) EXCEPT !.task = "start_recording_from_reset",
                                       !.start = "reset", !.origin = Boot,
                                       !.sample = 0]
  /\ UNCHANGED <<g_tasks, async, recorder>>

RecordFromExisting ==
  /\ Request("recordExisting") /\ vcr.movies < MaxMovies
  /\ LET v == [StartedRecord(vcr) EXCEPT !.start = "snapshot"]
     IN  IF v.st = NoState
         THEN vcr' = v /\ UNCHANGED async
         ELSE /\ vcr' = [v EXCEPT !.task = "start_recording_from_existing_snapshot",
                                  !.origin = v.st.mach, !.sample = 0]
              /\ async' = Append(async, [op |-> "loadFile", arg |-> "recordExisting"])
  /\ UNCHANGED <<g_tasks, recorder>>

\* vcr_mutex is held from here ...
RecordFromSnapshot ==
  /\ Request("recordSnapshot") /\ vcr.movies < MaxMovies
  /\ vcr' = [StartedRecord(vcr) EXCEPT !.task = "start_recording_from_snapshot",
                                       !.start = "snapshot"]
  /\ recorder' = TRUE
  /\ UNCHANGED <<g_tasks, async>>

\* ... until do_file() has had g_task_mutex.
RecordSaves ==
  /\ recorder /\ ~working
  /\ g_tasks' = Push(g_tasks, Path("Save", "record"))
  /\ vcr' = [vcr EXCEPT !.sample = 0] /\ recorder' = FALSE
  /\ UNCHANGED <<async, slots, machine, emu, working, misled, ops, session>>

\* start_playback(): the user may refuse at one of its warnings.
Play ==
  /\ Request("play") /\ vcr.file # NoMovie
  /\ \/ vcr' = MovieRead(vcr) /\ UNCHANGED async
     \/ vcr' = StartedPlayback(vcr) /\ async' = async \o PlaybackJobs(vcr)
  /\ UNCHANGED <<g_tasks, recorder>>

\* stop_all() takes no lock: what comes first happens also when the emulation
\* thread holds vcr_mutex and the rest gives up.
Stop ==
  /\ Request("stop")
  /\ \/ vcr' = StopAll(vcr)
     \/ (emu = "poll" \/ working) /\ vcr' = [vcr EXCEPT !.states = <<>>]
  /\ UNCHANGED <<g_tasks, async, recorder>>

SaveOrLoad ==
  /\ \E job \in {"Save", "Load"}, s \in Slots :
       /\ Request(IF job = "Save" THEN "save" ELSE "load")
       /\ async' = Append(async, [op |-> "slot", arg |-> <<job, s>>])
  /\ UNCHANGED <<vcr, g_tasks, recorder>>

\* begin_seek()
BeginSeek ==
  /\ Request("seek")
  /\ \E frame \in 1 .. MaxFrames - 1, pauseEnd \in BOOLEAN :
       /\ ~SeekRejected(vcr, frame, pauseEnd)
       /\ AnySeek \/ (/\ vcr.task # "idle"
                      /\ frame - vcr.sample <= session.interval * MaxCount
                           \/ session.interval = 0)
       /\ LET s == Seek(vcr, frame, pauseEnd, TRUE, FALSE, 0)
          IN  vcr' = s.v /\ async' = async \o s.jobs
  /\ UNCHANGED <<g_tasks, recorder>>

EndSeek ==
  /\ Request("stopSeek") /\ vcr.seek # NoFrame /\ vcr' = StopSeek(vcr)
  /\ UNCHANGED <<g_tasks, async, recorder>>

ToggleReadonly ==
  /\ Request("readonly") /\ vcr' = [vcr EXCEPT !.readonly = ~@]
  /\ UNCHANGED <<g_tasks, async, recorder>>

\* is_reset_recording_enabled: the reset becomes an input.
ResetRequested ==
  /\ Request("reset") /\ vcr.task = "recording"
  /\ vcr' = [vcr EXCEPT !.askedReset = TRUE]
  /\ UNCHANGED <<g_tasks, async, recorder>>

\* pause_emu() under allows_core_pause(), and resume_emu().
TogglePause ==
  /\ Request("pause") \* a paused machine can always be resumed
  /\ vcr.paused \/ vcr.seek = NoFrame \/ (vcr.sample = vcr.seek - 1 /\ vcr.pauseEnd)
  /\ vcr' = [vcr EXCEPT !.paused = ~@]
  /\ UNCHANGED <<g_tasks, async, recorder>>

\* vcr_find_first_input_difference() of two different buffers.
FirstDifference(a, b) ==
  LET short == Min({Len(a), Len(b)})
      diff  == {i \in 1 .. short : a[i] # b[i]}
  IN  IF diff # {} THEN Min(diff) - 1 ELSE Max({0, short - 1})

\* begin_warp_modify() with one input edited, or with fewer inputs.  The piano
\* roll asks for it when can_modify_inputs(): recording, paused, read-write, with
\* seek states and no seek.
Edits == {ReplaceAt(vcr.inputs, i, key) : i \in FirstEdit .. Len(vcr.inputs), key \in Keys}
         \cup {Prefix(vcr.inputs, n) : n \in FirstEdit .. Len(vcr.inputs)}

WarpModify ==
  /\ Request("warp")
  /\ vcr.task = "recording" /\ ~vcr.warp /\ vcr.paused /\ ~vcr.readonly
  /\ vcr.seek = NoFrame /\ vcr.interval > 0
  /\ \E new \in Edits \ {vcr.inputs, <<>>} :
       LET first  == FirstDifference(vcr.inputs, new)
           target == Min({Len(new), vcr.sample})
           s      == Seek(vcr, target, TRUE, FALSE, TRUE, first)
       IN  IF first > vcr.sample
           THEN vcr' = [vcr EXCEPT !.inputs = new] /\ UNCHANGED async
           ELSE /\ ~SeekRejected(vcr, target, TRUE)
                /\ vcr' = [s.v EXCEPT !.warp = TRUE, !.first = first,
                                      !.inputs = new, !.paused = FALSE]
                /\ async' = async \o s.jobs
  /\ UNCHANGED <<g_tasks, recorder>>

Emulation == WorkBegin \/ WorkSave \/ WorkLoadFails \/ WorkLoad \/ WorkEnd \/ WorkNone
             \/ PollIdle \/ PollNothing \/ PollStarting \/ PollRecording \/ PollPlayback

Jobs == \E i \in 1 .. Len(async) : Restart(i) \/ Enqueue(i)

User == RecordFromReset \/ RecordFromExisting \/ RecordFromSnapshot \/ Play \/ Stop
        \/ SaveOrLoad \/ BeginSeek \/ EndSeek \/ ToggleReadonly \/ ResetRequested
        \/ TogglePause \/ WarpModify

Next == Emulation \/ Jobs \/ RecordSaves \/ User

Spec == Init /\ [][Next]_vars

\* The emulation thread runs and the game polls again and again; every thread
\* that has started runs.
FairSpec == Spec /\ WF_vars(Emulation) /\ SF_vars(Jobs) /\ WF_vars(RecordSaves)

-----------------------------------------------------------------------------
(* Properties.                                                             *)


\* Every variable has the type the code gives it: no position is below zero.
TypeOK ==
  /\ vcr \in [task : Starting \cup {"idle", "recording", "playback",
                 "start_recording_from_snapshot", "start_playback_from_snapshot",
                 "start_recording_from_existing_snapshot"},
               uid : Nat, start : {"reset", "snapshot"}, origin : Machines,
               inputs : Inputs, sample : Nat, readonly : BOOLEAN,
               seek : Nat \cup {NoFrame}, pauseEnd : BOOLEAN, loading : BOOLEAN,
               reset : BOOLEAN, askedReset : BOOLEAN, warp : BOOLEAN, first : Nat,
               interval : {session.interval}, states : {vcr.states},
               paused : BOOLEAN, movies : Nat, file : Movies, st : States]
  /\ \A k \in DOMAIN vcr.states : k \in Nat /\ vcr.states[k] \in States
  /\ g_tasks \in Seq([job : {"Save", "Load"}, medium : {"slot", "path", "memory"},
                      slot : Slots \cup {0}, frame : Nat, st : States \cup {<<>>},
                      cb : {"user", "seekSave", "seekLoad", "record",
                            "recordExisting", "play"}])
  /\ \A i \in DOMAIN async : async[i].op \in {"restart", "loadFile", "slot", "seekLoad"}
  /\ slots \in [Slots -> States] /\ machine \in Machines
  /\ emu \in {"work", "poll"} /\ working \in BOOLEAN /\ recorder \in BOOLEAN

\* What the inputs lead to: a reset among them starts afresh.
Leads(origin, inputs) ==
  LET r == Max({0} \cup {i \in DOMAIN inputs : inputs[i] = "reset"})
  IN  IF r = 0 THEN origin \o inputs ELSE Boot \o SubSeq(inputs, r + 1, Len(inputs))

Lost(v, m) == m # Leads(v.origin, Prefix(v.inputs, v.sample))

\* Unless the user loaded a state that is not of the movie, the machine stays where
\* the movie's inputs lead: through recording, playing, rewriting from an earlier
\* state, resets, seeks and edits.
InSync ==
  vcr.task \in {"recording", "playback"} /\ ~vcr.reset /\ ~vcr.loading
    => misled \/ ~Lost(vcr, machine)

\* What is saved of a running movie is in sync with it.
SavesFit ==
  [][WorkSave /\ vcr.task \in {"recording", "playback"}
       => misled \/ ~Lost(vcr, machine)]_vars

\* No task but those of slots is taken for a duplicate.
SimplifyKeeps ==
  [][WorkBegin => LET NotOfSlots(tasks) == SelectSeq(tasks, LAMBDA t : t.medium # "slot")
                  IN  NotOfSlots(g_tasks') = NotOfSlots(g_tasks)]_vars

\* A movie that was stopped starts again only because it is asked to, or loops.
StopStays ==
  [][vcr.task = "idle" /\ vcr'.task # "idle"
       => vcr'.task \in Starting \cup StartingPlayback
                       \cup {"start_recording_from_snapshot",
                             "start_recording_from_existing_snapshot"}]_vars

\* A seek loads only states made along the inputs the movie has now.
SeekFits ==
  [][WorkLoad /\ Head(g_tasks).cb = "seekLoad" /\ vcr.task \in {"recording", "playback"}
       => LET st == Source(Head(g_tasks))
          IN  /\ st.frz.uid = vcr.uid
              /\ Prefix(vcr.inputs, st.frz.sample) = Prefix(st.frz.inputs, st.frz.sample)]_vars

\* A seek finds the state it goes back to.
SeekFinds == [][WorkLoadFails => Head(g_tasks).cb # "seekLoad"]_vars

\* The position is never past the end of the input buffer, which the handlers index:
\* an edit may shorten the buffer only with the load that goes back before its end
\* under way.
SampleInRange ==
  vcr.task \in {"recording", "playback"} /\ ~misled /\ ~vcr.loading
    => vcr.sample <= Len(vcr.inputs)

\* A recording that ends is on disk with every input it had.
RecordingFlushed ==
  [][vcr.task = "recording" /\ vcr'.task # "recording"
       => vcr'.file.inputs = vcr.inputs]_vars

\* A seek comes to its end, or waits for the user to resume.
SeekCompletes == vcr.seek # NoFrame ~> vcr.seek = NoFrame \/ vcr.paused

\* Frames are ignored only for a while.
Answered == vcr.reset \/ vcr.loading ~> ~vcr.reset /\ ~vcr.loading
=============================================================================
