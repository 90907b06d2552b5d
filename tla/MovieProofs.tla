----------------------------- MODULE MovieProofs -----------------------------
(***************************************************************************)
(* Movies: every global keeps its type; a recording that ends is in its     *)
(* file; and in a session without seeks and edits the machine stays where   *)
(* the movie's inputs lead, for any number of requests, movies, savestates  *)
(* and frames.                                                             *)
(***************************************************************************)
EXTENDS Movie, SequenceTheorems, FiniteSetTheorems, WellFoundedInduction, TLAPS

-----------------------------------------------------------------------------
(* Types.                                                                  *)

Job == [op : {"restart"}, arg : Starting \cup {"recording", "playback"}]
       \cup [op : {"loadFile"}, arg : {"play", "recordExisting"}]
       \cup [op : {"slot"}, arg : {"Save", "Load"} \X Slots]
       \cup [op : {"seekLoad"}, arg : Nat]

UserTask == [job : {"Save", "Load"}, medium : {"slot"}, slot : Slots,
             frame : {0}, st : {<<>>}, cb : {"user"}]
FileTask(job, cbs) == [job : {job}, medium : {"path"}, slot : {0},
                       frame : {0}, st : {<<>>}, cb : cbs]
SeekTask(job, cb) == [job : {job}, medium : {"memory"}, slot : {0},
                      frame : Nat, st : States, cb : {cb}]
Task == UserTask \cup FileTask("Load", {"play", "recordExisting"}) \cup FileTask("Save", {"record"})
        \cup SeekTask("Save", "seekSave") \cup SeekTask("Load", "seekLoad")

Bounded(S) == \E n \in Nat : \A k \in S : k <= n
VcrTasks == Starting \cup {"idle", "recording", "playback",
              "start_recording_from_snapshot", "start_playback_from_snapshot",
              "start_recording_from_existing_snapshot"}
StateMaps == UNION {[K -> States] : K \in SUBSET Nat}
Globals == [task : VcrTasks, uid : Nat, start : {"reset", "snapshot"}, origin : Machines,
            inputs : Inputs, sample : Nat, readonly : BOOLEAN,
            seek : Nat \cup {NoFrame}, pauseEnd : BOOLEAN, loading : BOOLEAN,
            reset : BOOLEAN, askedReset : BOOLEAN, warp : BOOLEAN, first : Nat,
            interval : Nat, states : StateMaps,
            paused : BOOLEAN, movies : Nat, file : Movies, st : States]
Frozen == [uid : Nat, sample : Nat, inputs : Inputs]

\* The seek states are kept by frame, of which there are finitely many.
Known(v) == v \in Globals /\ Bounded(DOMAIN v.states)

TypesOK ==
  /\ Known(vcr) /\ vcr.interval = session.interval
  /\ async \in Seq(Job) /\ g_tasks \in Seq(Task)
  /\ slots \in [Slots -> States] /\ machine \in Machines
  /\ emu \in {"work", "poll"} /\ working \in BOOLEAN /\ recorder \in BOOLEAN
  /\ session \in Sessions /\ misled \in BOOLEAN

-----------------------------------------------------------------------------
(* Starts.                                                                 *)

\* The requests that end or begin a movie, and those whose tasks would meet it,
\* are made only when nothing is under way; a seek that starts the movie again,
\* as it has no seek states, is not made where a task of a slot may be waiting.
Apart(s) == s.interval = 0 /\ "seek" \in s.requests => {"save", "load"} \cap s.requests = {}
Orderly ==
  /\ {"recordReset", "recordExisting", "recordSnapshot", "play", "stop", "save", "load"}
       \subseteq Patient
  /\ ~LoopMovie /\ \A s \in Sessions : Apart(s)

StartCbs == {"record", "recordExisting", "play"}
StartTask(cb) == CASE cb = "record"         -> "start_recording_from_snapshot"
                   [] cb = "recordExisting" -> "start_recording_from_existing_snapshot"
                   [] cb = "play"           -> "start_playback_from_snapshot"
Starts == Starting \cup {StartTask(cb) : cb \in StartCbs}

\* The jobs and the tasks that start a movie again, start one from a state, load
\* the state of a seek, or are of a slot; and those that would start another than
\* the one to start.
Restarts         == {j \in Job : j.op = "restart"}
LoadFiles        == {j \in Job : j.op = "loadFile"}
SeekJobs         == {j \in Job : j.op = "seekLoad"}
SlotJobs         == {j \in Job : j.op = "slot"}
StartTasks       == {t \in Task : t.cb \in StartCbs}
SeekLoads        == {t \in Task : t.cb = "seekLoad"}
SlotTasks        == {t \in Task : t.cb = "user"}
BadRestarts(task)  == {j \in Restarts : j.arg \in Starting \ {task}}
BadLoadFiles(task) == {j \in LoadFiles : StartTask(j.arg) # task}
BadStarts(task)    == {t \in StartTasks : StartTask(t.cb) # task}

Absent(q, S) == \A i \in DOMAIN q : q[i] \notin S
Unique(q, S) == \A i, j \in DOMAIN q : q[i] \in S /\ q[j] \in S => i = j

Restores(s) == {"save", "load"} \cap s.requests # {}

\* One restart is under way at a time, and the movie it starts is still to start.
RestartOK(task, reset, a) ==
  /\ Unique(a, Restarts) /\ Absent(a, BadRestarts(task))
  /\ reset \/ Absent(a, Restarts)

\* So is one save or load that a start waits for.
StartOK(task, rec, a, g) ==
  /\ Unique(a, LoadFiles) /\ Absent(a, BadLoadFiles(task))
  /\ Unique(g, StartTasks) /\ Absent(g, BadStarts(task))
  /\ Absent(a, LoadFiles) \/ Absent(g, StartTasks)
  /\ rec => Absent(a, LoadFiles) /\ Absent(g, StartTasks) /\ task = StartTask("record")

\* One load of a seek is under way at a time, while `loading' says so, and none
\* when a movie starts.
LoadingOK(task, loading, a, g) ==
  /\ Unique(a, SeekJobs) /\ Unique(g, SeekLoads)
  /\ Absent(a, SeekJobs) \/ Absent(g, SeekLoads)
  /\ loading \/ (Absent(a, SeekJobs) /\ Absent(g, SeekLoads))
  /\ task \in Starts => ~loading

\* Only the user asks for slots, and none is waiting when a movie starts.
SlotsOK(task, s, a, g) ==
  ~Restores(s) \/ task \in Starts => Absent(a, SlotJobs) /\ Absent(g, SlotTasks)

Order(task, reset, loading, rec, s, a, g) ==
  /\ RestartOK(task, reset, a) /\ StartOK(task, rec, a, g)
  /\ LoadingOK(task, loading, a, g) /\ SlotsOK(task, s, a, g)

OrderOK == Order(vcr.task, vcr.reset, vcr.loading, recorder, session, async, g_tasks)

-----------------------------------------------------------------------------
(* Movie and machine.                                                      *)

\* A session without seeks and edits.  A reset is an input like any other, but a
\* savestate made while one is under way would be out of sync, so resets are not
\* recorded, nor played, where states are saved or loaded.
Plain(s) ==
  /\ {"seek", "warp"} \cap s.requests = {}
  /\ Restores(s) => "reset" \notin s.requests /\ "reset" \notin Range(s.file.inputs)

CalmOK(v, s) == /\ v.seek = NoFrame /\ ~v.loading /\ ~v.warp
                /\ v.askedReset => ~Restores(s)

Input(s) == Keys \cup IF Restores(s) THEN {} ELSE {"reset"}
InputsOK(v, sl, s) ==
  /\ v.inputs \in Seq(Input(s)) /\ v.file.inputs \in Seq(Input(s))
  /\ \A k \in Slots : sl[k].frz.inputs \in Seq(Input(s))

\* Ids tell movies apart.
UidOK(v, sl) ==
  /\ v.uid <= v.movies /\ v.file.uid <= v.movies /\ v.st.frz.uid <= v.movies
  /\ \A k \in Slots : sl[k].frz.uid <= v.movies
  /\ v.task # "idle" => v.uid > 0
  /\ v.file # NoMovie => v.file.uid > 0

\* Where movies start: at power-on or at the state of their .st file, the one in
\* memory like the one on disk.
OriginOK(v) ==
  /\ v.task # "idle" /\ v.start = "reset" => v.origin = Boot
  /\ v.file # NoMovie /\ v.file.start = "reset" => v.file.origin = Boot
  /\ v.uid # 0 /\ v.file.uid = v.uid => v.file.start = v.start /\ v.file.origin = v.origin
  /\ v.st # NoState => v.st.frz.sample = 0
  /\ v.st # NoState /\ v.task # StartTask("record") =>
       /\ v.start = "snapshot" => v.origin = v.st.mach
       /\ v.file.start = "snapshot" => v.file.origin = v.st.mach

\* Movies that are about to start.
BeginOK(v, rec, sl) ==
  /\ v.task \in Starts =>
       /\ v.sample = 0 \/ rec
       /\ IsRecording(v.task) => v.inputs = <<>>
       /\ v.start = IF v.task \in Starting THEN "reset" ELSE "snapshot"
       /\ v.task \in {StartTask("recordExisting"), StartTask("play")} => v.st # NoState
  /\ v.task = StartTask("record") => \A k \in Slots : sl[k].frz.uid # v.uid
  /\ v.task = StartTask("recordExisting") => v.st.frz.uid # v.uid

\* A savestate of a movie is where its own inputs lead.
Good(st, uid, origin) ==
  st.frz.uid = uid /\ uid # 0 =>
    /\ st.frz.sample <= Len(st.frz.inputs)
    /\ st.mach = Leads(origin, Prefix(st.frz.inputs, st.frz.sample))
GoodOK(v, sl) == \A k \in Slots : /\ Good(sl[k], v.uid, v.origin)
                                 /\ Good(sl[k], v.file.uid, v.file.origin)

\* A reset under way is that of a start, or the movie's last input.
ResetOK(v, s) == v.reset =>
  \/ v.task \in Starting
  \/ /\ ~Restores(s) /\ v.task \in {"recording", "playback"}
     /\ v.sample \in 1 .. Len(v.inputs) /\ v.inputs[v.sample] = "reset"

\* A running movie: a recording is always at its end.
RunOK(v, m) == v.task \in {"recording", "playback"} =>
  /\ v.sample <= Len(v.inputs)
  /\ v.task = "recording" => v.sample = Len(v.inputs)
  /\ v.reset \/ ~Lost(v, m)

Sync(v, sl, m, rec, s) ==
  /\ InputsOK(v, sl, s) /\ UidOK(v, sl) /\ OriginOK(v) /\ BeginOK(v, rec, sl)
  /\ GoodOK(v, sl) /\ ResetOK(v, s) /\ RunOK(v, m)

SyncOK == CalmOK(vcr, session)
          /\ (misled \/ Sync(vcr, slots, machine, recorder, session))

-----------------------------------------------------------------------------
(* Sequences.                                                              *)

\* r is q without some of its elements.
Part(q, r) ==
  \E f \in [1 .. Len(r) -> 1 .. Len(q)] :
    /\ \A i, j \in 1 .. Len(r) : f[i] = f[j] => i = j
    /\ \A i \in 1 .. Len(r) : r[i] = q[f[i]]

LEMMA PartReflexive ==
  ASSUME NEW S, NEW q \in Seq(S)
  PROVE  Part(q, q)
<1> DEFINE f == [i \in 1 .. Len(q) |-> i]
<1>1. /\ f \in [1 .. Len(q) -> 1 .. Len(q)]
      /\ \A i, j \in 1 .. Len(q) : f[i] = f[j] => i = j
      /\ \A i \in 1 .. Len(q) : q[i] = q[f[i]]
  OBVIOUS
<1> QED
  BY <1>1 DEF Part

LEMMA PartNone ==
  ASSUME NEW q
  PROVE  Part(q, <<>>)
<1> DEFINE f == [i \in {} |-> 0]
<1>1. Len(<<>>) = 0 /\ 1 .. 0 = {}
  OBVIOUS
<1>2. f \in [{} -> 1 .. Len(q)]
  OBVIOUS
<1> HIDE DEF f
<1>3. 1 .. Len(<<>>) = {}
  BY <1>1
<1>4. f \in [1 .. Len(<<>>) -> 1 .. Len(q)]
  BY <1>2, <1>3
<1>5. (\A i, j \in 1 .. Len(<<>>) : f[i] = f[j] => i = j) /\ (\A i \in 1 .. Len(<<>>) : <<>>[i] = q[f[i]])
  BY <1>3
<1> QED
  BY <1>4, <1>5 DEF Part

LEMMA PartTransitive ==
  ASSUME NEW S, NEW q \in Seq(S), NEW r \in Seq(S), NEW s \in Seq(S), Part(q, r), Part(r, s)
  PROVE  Part(q, s)
<1>1. PICK f \in [1 .. Len(r) -> 1 .. Len(q)] :
        /\ \A i, j \in 1 .. Len(r) : f[i] = f[j] => i = j
        /\ \A i \in 1 .. Len(r) : r[i] = q[f[i]]
  BY DEF Part
<1>2. PICK g \in [1 .. Len(s) -> 1 .. Len(r)] :
        /\ \A i, j \in 1 .. Len(s) : g[i] = g[j] => i = j
        /\ \A i \in 1 .. Len(s) : s[i] = r[g[i]]
  BY DEF Part
<1> DEFINE h == [i \in 1 .. Len(s) |-> f[g[i]]]
<1>3. h \in [1 .. Len(s) -> 1 .. Len(q)]
  BY <1>1, <1>2
<1>4. \A i, j \in 1 .. Len(s) : h[i] = h[j] => i = j
  BY <1>1, <1>2
<1>5. \A i \in 1 .. Len(s) : s[i] = q[h[i]]
  BY <1>1, <1>2
<1> QED
  BY <1>3, <1>4, <1>5 DEF Part

\* r is q without the elements from j to m - 1.
Cut(q, r, j, m, S) ==
  /\ r \in Seq(S)
  /\ Len(r) = IF m <= Len(q) THEN Len(q) - (m - j) ELSE j - 1
  /\ \A i \in 1 .. Len(r) : r[i] = q[IF i < j THEN i ELSE i + (m - j)]

LEMMA Around ==
  ASSUME NEW S, NEW q \in Seq(S), NEW j \in Nat, NEW m \in Nat, 0 < j, j <= m, j <= Len(q) + 1
  PROVE  Cut(q, SubSeq(q, 1, j - 1) \o SubSeq(q, m, Len(q)), j, m, S)
<1> DEFINE n == Len(q)
           a == SubSeq(q, 1, j - 1)
           b == SubSeq(q, m, n)
           r == a \o b
           k == IF m <= n THEN n - m + 1 ELSE 0
<1>0. n \in Nat /\ \A i \in 1 .. n : q[i] \in S
  BY LenProperties, ElementOfSeq
<1> HIDE DEF n
<1>1. a \in Seq(S) /\ Len(a) = j - 1 /\ \A i \in 1 .. j - 1 : a[i] = q[i]
  <2>1. j - 1 \in Int /\ 1 \in Int /\ \A i \in 1 .. j - 1 : q[i] \in S
    BY <1>0 DEF n
  <2>2. /\ SubSeq(q, 1, j - 1) \in Seq(S)
        /\ Len(SubSeq(q, 1, j - 1)) = IF 1 <= j - 1 THEN j - 1 - 1 + 1 ELSE 0
        /\ \A i \in 1 .. j - 1 - 1 + 1 : SubSeq(q, 1, j - 1)[i] = q[1 + i - 1]
    BY <2>1, SubSeqProperties
  <2>3. j - 1 - 1 + 1 = j - 1 /\ \A i \in 1 .. j - 1 : 1 + i - 1 = i
    OBVIOUS
  <2> QED
    BY <2>2, <2>3
<1>2. b \in Seq(S) /\ Len(b) = k /\ k \in Nat /\ \A i \in 1 .. k : b[i] = q[m + i - 1]
  <2>1. m \in Int /\ n \in Int /\ \A i \in m .. n : q[i] \in S
    BY <1>0
  <2>2. /\ SubSeq(q, m, n) \in Seq(S)
        /\ Len(SubSeq(q, m, n)) = IF m <= n THEN n - m + 1 ELSE 0
        /\ \A i \in 1 .. n - m + 1 : SubSeq(q, m, n)[i] = q[m + i - 1]
    BY <2>1, SubSeqProperties
  <2>3. k \in Nat /\ \A i \in 1 .. k : i \in 1 .. n - m + 1
    BY <1>0
  <2> QED
    BY <2>2, <2>3
<1>3. /\ r \in Seq(S) /\ Len(r) = Len(a) + Len(b)
      /\ \A i \in 1 .. Len(a) + Len(b) : r[i] = IF i <= Len(a) THEN a[i] ELSE b[i - Len(a)]
  BY <1>1, <1>2, ConcatProperties
<1> HIDE DEF a, b, r
<1>4. Len(r) = IF m <= n THEN n - (m - j) ELSE j - 1
  BY <1>0, <1>1, <1>2, <1>3
<1>5. ASSUME NEW i \in 1 .. Len(r) PROVE r[i] = q[IF i < j THEN i ELSE i + (m - j)]
  <2>1. CASE i < j
    <3>1. i \in 1 .. j - 1 /\ i \in 1 .. Len(a) + Len(b) /\ i <= Len(a)
      BY <2>1, <1>1, <1>2, <1>3
    <3> QED
      BY <3>1, <2>1, <1>1, <1>3
  <2>2. CASE ~ (i < j)
    <3> DEFINE d == i - (j - 1)
    <3>1. d \in 1 .. k /\ i \in 1 .. Len(a) + Len(b) /\ ~ (i <= Len(a)) /\ i - Len(a) = d
          /\ m + d - 1 = i + (m - j)
      BY <2>2, <1>1, <1>2, <1>3
    <3>2. r[i] = b[d]
      BY <3>1, <1>3
    <3>3. b[d] = q[m + d - 1]
      BY <3>1, <1>2
    <3> QED
      BY <3>1, <3>2, <3>3, <2>2
  <2> QED
    BY <2>1, <2>2
<1> QED
  BY <1>3, <1>4, <1>5 DEF r, a, b, n, Cut

\* A step of the de-duplication.
LEMMA EraseIsPart ==
  ASSUME NEW S, NEW q \in Seq(S), NEW j \in Nat, 0 < j, NEW times \in Nat, j <= Len(q) + 1
  PROVE  /\ Erase(q, j, times) \in Seq(S) /\ Part(q, Erase(q, j, times))
         /\ Len(Erase(q, j, times)) >= j - 1
<1> DEFINE m == j + times
           r == Erase(q, j, times)
           n == Len(q)
           f == [i \in 1 .. Len(r) |-> IF i < j THEN i ELSE i + (m - j)]
<1>0. m \in Nat /\ j <= m /\ r = SubSeq(q, 1, j - 1) \o SubSeq(q, m, n)
  BY DEF Erase
<1> HIDE DEF m, r
<1>1. /\ r \in Seq(S)
      /\ Len(r) = IF m <= n THEN n - (m - j) ELSE j - 1
      /\ \A i \in 1 .. Len(r) : r[i] = q[IF i < j THEN i ELSE i + (m - j)]
  <2>1. Cut(q, SubSeq(q, 1, j - 1) \o SubSeq(q, m, Len(q)), j, m, S)
    BY <1>0, Around
  <2> QED
    BY <2>1, <1>0 DEF Cut
<1>2. n \in Nat /\ Len(r) \in Nat /\ m \in Nat /\ j <= m /\ j <= n + 1
  BY <1>0, <1>1, LenProperties
<1> HIDE DEF n
<1>3. \A i \in 1 .. Len(r) : (IF i < j THEN i ELSE i + (m - j)) \in 1 .. n
  BY <1>1, <1>2
<1>4. f \in [1 .. Len(r) -> 1 .. n] /\ \A i, k \in 1 .. Len(r) : f[i] = f[k] => i = k
  BY <1>2, <1>3
<1>5. Part(q, r)
  BY <1>1, <1>4 DEF Part, n
<1> QED
  BY <1>1, <1>2, <1>5 DEF r

\* A job that is run.
LEMMA RemoveAtIsPart ==
  ASSUME NEW S, NEW q \in Seq(S), NEW j \in DOMAIN q
  PROVE  /\ RemoveAt(q, j) \in Seq(S) /\ Part(q, RemoveAt(q, j))
         /\ \A k \in DOMAIN RemoveAt(q, j) : \E i \in DOMAIN q : i # j /\ q[i] = RemoveAt(q, j)[k]
<1> DEFINE m == j + 1
           r == RemoveAt(q, j)
           n == Len(q)
<1>0. DOMAIN q = 1 .. n /\ n \in Nat /\ j \in Nat /\ 0 < j /\ j <= m /\ m \in Nat /\ j <= n
  BY LenProperties
<1>2. Part(q, r)
  <2>1. Part(q, Erase(q, j, 1))
    BY <1>0, EraseIsPart
  <2> QED
    BY <2>1 DEF Erase, RemoveAt
<1>a. r = SubSeq(q, 1, j - 1) \o SubSeq(q, m, n)
  BY DEF RemoveAt
<1> HIDE DEF m, r
<1>1. /\ r \in Seq(S)
      /\ Len(r) = IF m <= n THEN n - (m - j) ELSE j - 1
      /\ \A i \in 1 .. Len(r) : r[i] = q[IF i < j THEN i ELSE i + (m - j)]
  <2>1. Cut(q, SubSeq(q, 1, j - 1) \o SubSeq(q, m, Len(q)), j, m, S)
    BY <1>0, Around
  <2> QED
    BY <2>1, <1>0, <1>a DEF Cut
<1>3. DOMAIN r = 1 .. Len(r)
  BY <1>1, LenProperties
<1> HIDE DEF n
<1>4. \A k \in 1 .. Len(r) : /\ k < j => k \in 1 .. n /\ k # j
                            /\ ~ (k < j) => k + (m - j) \in 1 .. n /\ k + (m - j) # j
  BY <1>0, <1>1 DEF m
<1>5. \A k \in DOMAIN r : \E i \in DOMAIN q : i # j /\ q[i] = r[k]
  <2> SUFFICES ASSUME NEW k \in 1 .. Len(r) PROVE \E i \in 1 .. n : i # j /\ q[i] = r[k]
    BY <1>0, <1>3
  <2>1. CASE k < j
    <3>1. k \in 1 .. n /\ k # j
      BY <2>1, <1>0, <1>1, <1>4
    <3>2. (IF k < j THEN k ELSE k + (m - j)) = k
      BY <2>1
    <3>3. r[k] = q[k]
      BY <3>2, <1>1
    <3> QED
      BY <3>1, <3>3
  <2>2. CASE ~ (k < j)
    <3>1. r[k] = q[k + (m - j)] /\ k + (m - j) \in 1 .. n /\ k + (m - j) # j
      BY <2>2, <1>1, <1>4
    <3> QED
      BY <3>1
  <2> QED
    BY <2>1, <2>2
<1> QED
  BY <1>1, <1>2, <1>5 DEF r

LEMMA TailIsPart ==
  ASSUME NEW S, NEW q \in Seq(S), q # <<>>
  PROVE  /\ Tail(q) \in Seq(S) /\ Part(q, Tail(q)) /\ Head(q) = q[1] /\ q[1] \in S /\ 1 \in DOMAIN q
         /\ \A k \in DOMAIN Tail(q) : k + 1 \in DOMAIN q /\ Tail(q)[k] = q[k + 1]
<1> DEFINE f == [i \in 1 .. Len(Tail(q)) |-> i + 1]
<1>1. /\ Tail(q) \in Seq(S) /\ Len(Tail(q)) = Len(q) - 1 /\ Len(q) \in Nat \ {0}
      /\ \A i \in 1 .. Len(Tail(q)) : Tail(q)[i] = q[i + 1]
      /\ Head(q) = q[1] /\ q[1] \in S
  OBVIOUS
<1>2. DOMAIN Tail(q) = 1 .. Len(Tail(q)) /\ DOMAIN q = 1 .. Len(q)
  OBVIOUS
<1>3. f \in [1 .. Len(Tail(q)) -> 1 .. Len(q)] /\ \A i, j \in 1 .. Len(Tail(q)) : f[i] = f[j] => i = j
  BY <1>1
<1>4. \A i \in 1 .. Len(Tail(q)) : Tail(q)[i] = q[f[i]]
  BY <1>1
<1> HIDE DEF f
<1>5. Part(q, Tail(q))
  BY <1>3, <1>4 DEF Part
<1>6. \A k \in 1 .. Len(Tail(q)) : k + 1 \in 1 .. Len(q) /\ Tail(q)[k] = q[k + 1]
  BY <1>1
<1> QED
  BY <1>1, <1>2, <1>5, <1>6

\* The smallest member of a non-empty set of numbers exists.
LEMMA SmallestNumber ==
  ASSUME NEW I, I \subseteq Nat, I # {}
  PROVE  \E x \in I : \A y \in I : x <= y
<1>1. PICK x \in I : \A y \in I : ~ (<<y, x>> \in OpToRel(<, Nat))
  BY NatLessThanWellFounded, WFMin
<1>2. \A y \in I : ~ (y < x) /\ x \in Nat /\ y \in Nat
  BY <1>1 DEF OpToRel
<1> QED
  BY <1>2

LEMMA MinInSet ==
  ASSUME NEW I, I \subseteq Nat, I # {}
  PROVE  Min(I) \in I
<1>1. \E x \in I : \A y \in I : x <= y
  BY SmallestNumber
<1> QED
  BY <1>1 DEF Min

\* So does the largest of a bounded one.
LEMMA MaxInSet ==
  ASSUME NEW I, I \subseteq Nat, I # {}, Bounded(I)
  PROVE  Max(I) \in I /\ \A y \in I : y <= Max(I)
<1>1. PICK n \in Nat : \A k \in I : k <= n
  BY DEF Bounded
<1> DEFINE J == {k \in 0 .. n : n - k \in I}
<1>2. J \subseteq Nat /\ J # {}
  <2>1. PICK k \in I : TRUE
    OBVIOUS
  <2>2. n - k \in 0 .. n /\ n - (n - k) = k
    BY <1>1
  <2>3. n - k \in J
    BY <2>1, <2>2
  <2>4. J \subseteq Nat
    BY <1>1
  <2> HIDE DEF J
  <2> QED
    BY <2>3, <2>4
<1>3. PICK j \in J : \A y \in J : j <= y
  <2> HIDE DEF J
  <2> QED
    BY <1>2, SmallestNumber
<1>4. \A y \in I : y <= n - j /\ n - j >= y
  <2> SUFFICES ASSUME NEW y \in I PROVE y <= n - j /\ n - j >= y
    OBVIOUS
  <2>1. n - y \in 0 .. n /\ n - (n - y) = y /\ y \in Nat
    BY <1>1
  <2>2. j <= n - y
    BY <2>1, <1>3
  <2> QED
    BY <2>1, <2>2, <1>3
<1>5. n - j \in I
  BY <1>3
<1>6. \E x \in I : \A y \in I : x >= y
  BY <1>4, <1>5
<1>7. Max(I) \in I /\ \A y \in I : Max(I) >= y
  BY <1>6 DEF Max
<1> QED
  BY <1>7

\* g is the vector of tasks after each of the first n indices, from the last.
IsSimplify(g, tasks, n) ==
  g = [i \in 0 .. n |->
         IF i = 0 THEN tasks
         ELSE LET j == Len(tasks) + 1 - i
              IN  Erase(g[i - 1], j, Cardinality({p \in Duplicates(tasks) : p[2] = j}))]

\* Such a function exists, by induction on the number of indices.
LEMMA SimplifyExists ==
  ASSUME NEW tasks, NEW n \in Nat
  PROVE  \E g : IsSimplify(g, tasks, n)
<1> DEFINE J(i) == Len(tasks) + 1 - i
           Body(g, i) == IF i = 0 THEN tasks
             ELSE Erase(g[i - 1], J(i), Cardinality({p \in Duplicates(tasks) : p[2] = J(i)}))
           Ok(m) == \E g : IsSimplify(g, tasks, m)
           T == {m \in Nat : ~ Ok(m)}
<1>1. CASE T = {}
  BY <1>1
<1>2. CASE T # {}
  <2>1. PICK m \in T : \A k \in T : m <= k
    BY <1>2, SmallestNumber
  <2>2. m \in Nat
    BY <2>1
  <2>3. CASE m = 0
    <3> DEFINE g == [i \in 0 .. 0 |-> tasks]
    <3>1. \A i \in 0 .. 0 : g[i] = Body(g, i)
      OBVIOUS
    <3>2. g = [i \in 0 .. 0 |-> Body(g, i)]
      BY <3>1
    <3>3. Ok(0)
      BY <3>2 DEF IsSimplify
    <3> QED
      BY <3>3, <2>1, <2>3
  <2>4. CASE m # 0
    <3>1. m - 1 \in Nat /\ ~ (m <= m - 1)
      BY <2>2, <2>4
    <3>2. Ok(m - 1)
      BY <3>1, <2>1
    <3>3. PICK g : g = [i \in 0 .. m - 1 |-> Body(g, i)]
      BY <3>2 DEF IsSimplify
    <3> DEFINE h == [i \in 0 .. m |-> IF i = m THEN Body(g, m) ELSE g[i]]
    <3>4. ASSUME NEW i \in 0 .. m PROVE h[i] = Body(h, i)
      <4>1. CASE i = 0
        <5>1. 0 \in 0 .. m - 1 /\ g[0] = Body(g, 0)
          BY <3>1, <3>3
        <5> QED
          BY <4>1, <5>1, <2>4
      <4>2. CASE i # 0 /\ i # m
        <5>1. i \in 0 .. m - 1 /\ i - 1 \in 0 .. m /\ i - 1 # m
          BY <4>2, <2>2
        <5>2. g[i] = Body(g, i)
          BY <3>3, <5>1
        <5>3. h[i - 1] = g[i - 1] /\ h[i] = g[i]
          BY <4>2, <5>1
        <5> QED
          BY <4>2, <5>2, <5>3
      <4>3. CASE i = m
        <5>1. m - 1 \in 0 .. m /\ m - 1 # m
          BY <2>2, <2>4
        <5>2. h[m - 1] = g[m - 1] /\ h[m] = Body(g, m)
          BY <5>1, <4>3
        <5> QED
          BY <4>3, <5>2, <2>4
      <4> QED
        BY <4>1, <4>2, <4>3
    <3>5. h = [i \in 0 .. m |-> Body(h, i)]
      <4>1. h = [i \in 0 .. m |-> h[i]]
        OBVIOUS
      <4> HIDE DEF h
      <4> QED
        BY <3>4, <4>1
    <3>6. Ok(m)
      BY <3>5 DEF IsSimplify
    <3> QED
      BY <3>6, <2>1
  <2> QED
    BY <2>3, <2>4
<1> QED
  BY <1>1, <1>2

\* A task is found a duplicate a finite number of times.
LEMMA DuplicatesCount ==
  ASSUME NEW S, NEW tasks \in Seq(S), NEW j
  PROVE  Cardinality({p \in Duplicates(tasks) : p[2] = j}) \in Nat
<1> DEFINE D == DOMAIN tasks
<1>1. D = 1 .. Len(tasks) /\ Len(tasks) \in Nat
  BY LenProperties
<1>2. IsFiniteSet(D)
  <2>1. 1 \in Int /\ Len(tasks) \in Int
    BY <1>1
  <2> QED
    BY <1>1, <2>1, FS_Interval
<1>3. IsFiniteSet(D \X D)
  BY <1>2, FS_Product
<1>4. {p \in Duplicates(tasks) : p[2] = j} \subseteq D \X D
  BY DEF Duplicates
<1>5. IsFiniteSet({p \in Duplicates(tasks) : p[2] = j})
  BY <1>3, <1>4, FS_Subset
<1> QED
  BY <1>5, FS_CardinalityType

\* The de-duplication invents no task.
LEMMA SimplifyIsPart ==
  ASSUME NEW S, NEW tasks \in Seq(S)
  PROVE  Simplify(tasks) \in Seq(S) /\ Part(tasks, Simplify(tasks))
<1> DEFINE n == Len(tasks)
           g == CHOOSE f : IsSimplify(f, tasks, n)
           J(i) == n + 1 - i
           Times(i) == Cardinality({p \in Duplicates(tasks) : p[2] = J(i)})
           Ok(i) == g[i] \in Seq(S) /\ Part(tasks, g[i]) /\ Len(g[i]) >= n - i
<1>1. n \in Nat
  BY LenProperties
<1>2. IsSimplify(g, tasks, n)
  BY <1>1, SimplifyExists
<1>3. Simplify(tasks) = g[n]
  BY DEF Simplify, IsSimplify
<1> HIDE DEF g
<1>4. g[0] = tasks /\ \A i \in 1 .. n : g[i] = Erase(g[i - 1], J(i), Times(i))
  <2>1. ASSUME NEW i \in 0 .. n
        PROVE  g[i] = IF i = 0 THEN tasks ELSE Erase(g[i - 1], J(i), Times(i))
    BY <1>2 DEF IsSimplify
  <2> HIDE DEF J, Times
  <2>2. 0 \in 0 .. n /\ \A i \in 1 .. n : i \in 0 .. n /\ i # 0
    BY <1>1
  <2> QED
    BY <2>1, <2>2
<1>5. \A i \in 1 .. n : Times(i) \in Nat
  BY DuplicatesCount
<1> HIDE DEF Times
<1>6. Ok(0)
  BY <1>1, <1>4, PartReflexive
<1>7. ASSUME NEW i \in 1 .. n, Ok(i - 1) PROVE Ok(i)
  <2>1. J(i) \in Nat /\ 0 < J(i) /\ J(i) <= Len(g[i - 1]) + 1 /\ J(i) - 1 = n - i
    BY <1>1, <1>7, LenProperties
  <2> HIDE DEF J
  <2>2. /\ Erase(g[i - 1], J(i), Times(i)) \in Seq(S)
        /\ Part(g[i - 1], Erase(g[i - 1], J(i), Times(i)))
        /\ Len(Erase(g[i - 1], J(i), Times(i))) >= J(i) - 1
    BY <1>5, <1>7, <2>1, EraseIsPart
  <2>3. g[i] \in Seq(S) /\ Part(g[i - 1], g[i]) /\ Len(g[i]) >= n - i
    BY <1>4, <2>1, <2>2
  <2> QED
    BY <1>7, <2>3, PartTransitive
<1>8. \A i \in 0 .. n : Ok(i)
  <2> DEFINE T == {i \in 0 .. n : ~ Ok(i)}
  <2> SUFFICES ASSUME T # {} PROVE FALSE
    OBVIOUS
  <2>1. T \subseteq Nat
    BY <1>1
  <2>2. PICK m \in T : \A k \in T : m <= k
    BY <2>1, SmallestNumber
  <2> HIDE DEF Ok
  <2>3. m # 0 /\ m \in 1 .. n
    BY <1>1, <1>6, <2>2
  <2>4. m - 1 \in 0 .. n /\ ~ (m <= m - 1)
    BY <1>1, <2>3
  <2>5. Ok(m - 1)
    BY <2>2, <2>4
  <2> QED
    BY <1>7, <2>2, <2>3, <2>5
<1> QED
  BY <1>1, <1>3, <1>8

-----------------------------------------------------------------------------
(* The types of what the functions of vcr.cpp leave.                       *)

Fields == {"task", "uid", "start", "origin", "inputs", "sample", "readonly", "seek", "pauseEnd",
           "loading", "reset", "askedReset", "warp", "first", "interval", "states", "paused",
           "movies", "file", "st"}
\* w differs from v in the fields F only.
Only(v, w, F) == \A f \in Fields \ F : w[f] = v[f]

LEMMA NothingTypes ==
  /\ <<>> \in Inputs /\ <<>> \in Machines /\ <<>> \in StateMaps /\ Bounded(DOMAIN <<>>)
  /\ NoState \in States /\ NoMovie \in Movies /\ NoFreeze \in Frozen /\ Boot \in Machines
<1>1. <<>> \in Inputs /\ <<>> \in Machines /\ Boot \in Machines
  BY DEF Inputs, Machines, Boot
<1>2. DOMAIN <<>> = {} /\ <<>> \in [{} -> States]
  OBVIOUS
<1>3. <<>> \in StateMaps
  BY <1>2 DEF StateMaps
<1>4. Bounded(DOMAIN <<>>)
  BY <1>2 DEF Bounded
<1>5. NoState \in States /\ NoMovie \in Movies /\ NoFreeze \in Frozen
  BY <1>1 DEF NoState, NoMovie, NoFreeze, States, Movies, Frozen
<1> QED
  BY <1>1, <1>3, <1>4, <1>5

LEMMA PrefixType ==
  ASSUME NEW s \in Inputs, NEW n \in Nat
  PROVE  Prefix(s, n) \in Inputs /\ Len(Prefix(s, n)) = n
<1> DEFINE S == Keys \cup {"reset", "garbage"}
<1>1. \A i \in 1 .. n : (IF i <= Len(s) THEN s[i] ELSE "garbage") \in S
  BY DEF Inputs
<1>2. Prefix(s, n) \in [1 .. n -> S]
  BY <1>1 DEF Prefix
<1>3. Prefix(s, n) \in Seq(S)
  BY <1>2, SeqDef
<1> QED
  BY <1>2, <1>3, LenProperties DEF Inputs

LEMMA FreezeType ==
  ASSUME NEW v \in Globals
  PROVE  Freeze(v) \in Frozen
<1>1. CASE v.task = "idle"
  BY <1>1, NothingTypes DEF Freeze
<1>2. CASE v.task # "idle"
  BY <1>2 DEF Freeze, Frozen, Globals
<1> QED
  BY <1>1, <1>2

LEMMA WithType ==
  ASSUME NEW f \in StateMaps, Bounded(DOMAIN f), NEW k \in Nat, NEW st \in States
  PROVE  With(f, k, st) \in StateMaps /\ Bounded(DOMAIN With(f, k, st))
<1>1. PICK K \in SUBSET Nat : f \in [K -> States]
  BY DEF StateMaps
<1>2. With(f, k, st) \in [K \cup {k} -> States] /\ K \cup {k} \in SUBSET Nat
  BY <1>1 DEF With
<1>3. PICK n \in Nat : \A i \in K : i <= n
  BY <1>1 DEF Bounded
<1>4. \A i \in K \cup {k} : i <= n + k
  BY <1>1, <1>3
<1>5. n + k \in Nat /\ DOMAIN With(f, k, st) = K \cup {k}
  BY <1>2, <1>3
<1> QED
  BY <1>2, <1>4, <1>5 DEF StateMaps, Bounded

LEMMA WithoutType ==
  ASSUME NEW f \in StateMaps, Bounded(DOMAIN f), NEW gone
  PROVE  Without(f, gone) \in StateMaps /\ Bounded(DOMAIN Without(f, gone))
<1>1. PICK K \in SUBSET Nat : f \in [K -> States]
  BY DEF StateMaps
<1>2. Without(f, gone) \in [K \ gone -> States] /\ K \ gone \in SUBSET Nat
  BY <1>1 DEF Without
<1>3. PICK n \in Nat : \A i \in K : i <= n
  BY <1>1 DEF Bounded
<1> QED
  BY <1>2, <1>3 DEF StateMaps, Bounded

LEMMA StopSeekType ==
  ASSUME NEW v, Known(v)
  PROVE  Known(StopSeek(v)) /\ Only(v, StopSeek(v), {"seek", "warp"}) /\ StopSeek(v).seek = NoFrame
<1>1. StopSeek(v) \in Globals /\ Only(v, StopSeek(v), {"seek", "warp"}) /\ StopSeek(v).seek = NoFrame
  BY DEF StopSeek, Known, Globals, NoFrame, Only, Fields
<1>2. StopSeek(v).states = v.states
  BY <1>1 DEF Only, Fields
<1> QED
  BY <1>1, <1>2 DEF Known

LEMMA StopSeekIfNeededType ==
  ASSUME NEW v, Known(v)
  PROVE  /\ Known(StopSeekIfNeeded(v))
         /\ Only(v, StopSeekIfNeeded(v), {"seek", "warp", "paused"})
         /\ v.seek = NoFrame => StopSeekIfNeeded(v) = v
<1> DEFINE w == StopSeek(v)
<1>1. Known(w) /\ Only(v, w, {"seek", "warp"})
  BY StopSeekType
<1> HIDE DEF w
<1>2. CASE v.seek = NoFrame \/ v.sample < v.seek
  BY <1>2 DEF StopSeekIfNeeded, Only
<1>3. CASE ~ (v.seek = NoFrame \/ v.sample < v.seek)
  <2>1. StopSeekIfNeeded(v) = [w EXCEPT !.paused = @ \/ v.pauseEnd]
    BY <1>3 DEF StopSeekIfNeeded, w
  <2>2. (w.paused \/ v.pauseEnd) \in BOOLEAN
    OBVIOUS
  <2>3. StopSeekIfNeeded(v) \in Globals /\ StopSeekIfNeeded(v).states = w.states
    BY <1>1, <2>1, <2>2 DEF Known, Globals
  <2>4. Only(v, StopSeekIfNeeded(v), {"seek", "warp", "paused"})
    BY <1>1, <2>1, <2>2 DEF Only, Fields, Known, Globals
  <2> QED
    BY <1>1, <1>3, <2>3, <2>4 DEF Known
<1> QED
  BY <1>2, <1>3

LEMMA WriteMovieType ==
  ASSUME NEW v, Known(v)
  PROVE  /\ Known(WriteMovie(v)) /\ Only(v, WriteMovie(v), {"file"})
         /\ WriteMovie(v).file = IF IsRecording(v.task) THEN Header(v) ELSE v.file
<1>1. Header(v) \in Movies
  BY DEF Known, Globals, Header, Movies
<1>2. CASE IsRecording(v.task)
  <2>1. WriteMovie(v) = [v EXCEPT !.file = Header(v)]
    BY <1>2 DEF WriteMovie
  <2> HIDE DEF Header
  <2>2. /\ WriteMovie(v) \in Globals /\ WriteMovie(v).states = v.states
        /\ WriteMovie(v).file = Header(v) /\ Only(v, WriteMovie(v), {"file"})
    BY <1>1, <2>1 DEF Known, Globals, Only, Fields
  <2> QED
    BY <1>2, <2>2 DEF Known
<1>3. CASE ~ IsRecording(v.task)
  BY <1>3 DEF WriteMovie, Only
<1> QED
  BY <1>2, <1>3

Ended(task) == task \in {"start_recording_from_reset", "recording"} \/ IsPlayback(task)

\* stop_all() by the task it meets.
LEMMA StopAllCases ==
  ASSUME NEW v, Known(v)
  PROVE  /\ v.task = "start_recording_from_reset" =>
              StopAll(v) = [v EXCEPT !.states = <<>>, !.task = "idle", !.file = NoMovie, !.st = NoState]
         /\ v.task = "recording" =>
              StopAll(v) = [v EXCEPT !.states = <<>>, !.task = "idle", !.file = Header(v)]
         /\ IsPlayback(v.task) => StopAll(v) = [v EXCEPT !.states = <<>>, !.task = "idle"]
         /\ ~ Ended(v.task) => StopAll(v) = [v EXCEPT !.states = <<>>]
<1> USE DEF StopAll, WriteMovie, Known, Globals, VcrTasks, Starting, IsPlayback, StartingPlayback,
            IsRecording, Header, Ended
<1>1. CASE v.task = "start_recording_from_reset"
  BY <1>1
<1>2. CASE v.task = "recording"
  BY <1>2
<1>3. CASE v.task \notin {"start_recording_from_reset", "recording"}
  BY <1>3
<1> QED
  BY <1>1, <1>2, <1>3

LEMMA StopAllType ==
  ASSUME NEW v, Known(v)
  PROVE  /\ Known(StopAll(v)) /\ Only(v, StopAll(v), {"states", "task", "file", "st"})
         /\ StopAll(v).states = <<>>
         /\ StopAll(v).task = IF Ended(v.task) THEN "idle" ELSE v.task
         /\ v.task = "recording" => StopAll(v).file = Header(v)
         /\ v.task # "recording" => StopAll(v).file \in {v.file, NoMovie}
<1> DEFINE w == StopAll(v)
           h == Header(v)
           F == {"states", "task", "file", "st"}
<1>0. <<>> \in StateMaps /\ Bounded(DOMAIN <<>>) /\ NoState \in States /\ NoMovie \in Movies
      /\ h \in Movies /\ "idle" \in VcrTasks
  BY NothingTypes DEF Known, Globals, Header, Movies, VcrTasks
<1> HIDE DEF w, h
<1>1. CASE v.task = "start_recording_from_reset"
  <2>1. w = [v EXCEPT !.states = <<>>, !.task = "idle", !.file = NoMovie, !.st = NoState]
    BY <1>1, StopAllCases DEF w
  <2>2. w \in Globals /\ w.states = <<>> /\ w.task = "idle" /\ w.file = NoMovie
    BY <1>0, <2>1 DEF Known, Globals
  <2>3. Only(v, w, F)
    BY <2>1 DEF Only, Fields, Known, Globals
  <2> QED
    BY <1>0, <1>1, <2>2, <2>3 DEF Known, Ended, w
<1>2. CASE v.task = "recording"
  <2>1. w = [v EXCEPT !.states = <<>>, !.task = "idle", !.file = h]
    BY <1>2, StopAllCases DEF w, h
  <2>2. w \in Globals /\ w.states = <<>> /\ w.task = "idle" /\ w.file = h
    BY <1>0, <2>1 DEF Known, Globals
  <2>3. Only(v, w, F)
    BY <2>1 DEF Only, Fields, Known, Globals
  <2> QED
    BY <1>0, <1>2, <2>2, <2>3 DEF Known, Ended, w, h
<1>3. CASE IsPlayback(v.task)
  <2>1. w = [v EXCEPT !.states = <<>>, !.task = "idle"] /\ v.task # "recording"
    BY <1>3, StopAllCases DEF w, IsPlayback, StartingPlayback
  <2>2. w \in Globals /\ w.states = <<>> /\ w.task = "idle" /\ w.file = v.file
    BY <1>0, <2>1 DEF Known, Globals
  <2>3. Only(v, w, F)
    BY <2>1 DEF Only, Fields, Known, Globals
  <2> QED
    BY <1>0, <1>3, <2>1, <2>2, <2>3 DEF Known, Ended, w
<1>4. CASE ~ Ended(v.task)
  <2>1. w = [v EXCEPT !.states = <<>>] /\ v.task # "recording"
    BY <1>4, StopAllCases DEF w, Ended
  <2>2. w \in Globals /\ w.states = <<>> /\ w.task = v.task /\ w.file = v.file
    BY <1>0, <2>1 DEF Known, Globals
  <2>3. Only(v, w, F)
    BY <2>1 DEF Only, Fields, Known, Globals
  <2> QED
    BY <1>0, <1>4, <2>1, <2>2, <2>3 DEF Known, w
<1> QED
  BY <1>1, <1>2, <1>3, <1>4 DEF Ended

LEMMA UnfreezeType ==
  ASSUME NEW v, Known(v), NEW f \in Frozen
  PROVE  /\ Known(Unfreeze(v, f)) /\ Only(v, Unfreeze(v, f), {"sample", "task", "inputs", "file"})
         /\ Unfreeze(v, f).sample = f.sample
         /\ Unfreeze(v, f).task \in {"recording", "playback"}
<1> DEFINE p == Prefix(f.inputs, f.sample)
           w == [v EXCEPT !.sample = f.sample]
           r == [w EXCEPT !.task = "recording"]
           s == [r EXCEPT !.inputs = p]
           F == {"sample", "task", "inputs", "file"}
           Goal(u) == Known(u) /\ Only(v, u, F) /\ u.sample = f.sample
<1>0. p \in Inputs /\ f.sample \in Nat /\ {"recording", "playback"} \subseteq VcrTasks
  BY PrefixType DEF Frozen, VcrTasks
<1> HIDE DEF p
<1>1. w \in Globals /\ w.states = v.states /\ Only(v, w, F) /\ w.sample = f.sample /\ w.task = v.task
  BY <1>0 DEF Known, Globals, Only, Fields
<1>2. r \in Globals /\ r.states = v.states /\ Only(v, r, F) /\ r.sample = f.sample /\ r.task = "recording"
  BY <1>0 DEF Known, Globals, Only, Fields
<1>3. s \in Globals /\ s.states = v.states /\ Only(v, s, F) /\ s.sample = f.sample /\ s.task = "recording"
  BY <1>0 DEF Known, Globals, Only, Fields
<1>4. Goal(w) /\ Goal(r) /\ Goal(s)
  BY <1>1, <1>2, <1>3 DEF Known
<1>5. Unfreeze(v, f) = IF v.task = "recording" /\ v.seek # NoFrame THEN w
        ELSE IF v.readonly \/ v.task \in StartingPlayback
        THEN [WriteMovie(w) EXCEPT !.task = "playback"]
        ELSE IF v.warp THEN r ELSE WriteMovie(s)
  BY DEF Unfreeze, p
<1> HIDE DEF w, r, s
<1>6. /\ Known(WriteMovie(w)) /\ Only(w, WriteMovie(w), {"file"})
      /\ Known(WriteMovie(s)) /\ Only(s, WriteMovie(s), {"file"})
  BY <1>4, WriteMovieType
<1>7. Goal(WriteMovie(s)) /\ WriteMovie(s).task = "recording"
  BY <1>3, <1>4, <1>6 DEF Only, Fields
<1> DEFINE t == [WriteMovie(w) EXCEPT !.task = "playback"]
<1>8. Goal(t) /\ t.task = "playback"
  <2> DEFINE x == WriteMovie(w)
  <2>1. Known(x) /\ Only(v, x, F) /\ x.sample = f.sample
    BY <1>4, <1>6 DEF Only, Fields
  <2> HIDE DEF x
  <2>2. t = [x EXCEPT !.task = "playback"]
    BY DEF x
  <2> HIDE DEF t
  <2>3. t \in Globals /\ t.states = x.states /\ t.sample = x.sample /\ t.task = "playback"
    BY <1>0, <2>1, <2>2 DEF Known, Globals
  <2>4. Only(x, t, {"task"})
    BY <2>1, <2>2 DEF Only, Fields, Known, Globals
  <2>5. Only(v, t, F)
    BY <2>1, <2>4 DEF Only, Fields
  <2> QED
    BY <2>1, <2>3, <2>5 DEF Known
<1> QED
  BY <1>1, <1>2, <1>4, <1>5, <1>7, <1>8

LEMMA PurgeType ==
  ASSUME NEW v, Known(v)
  PROVE  Known(Purge(v)) /\ Only(v, Purge(v), {"states"})
<1> DEFINE gone == {Min({k \in DOMAIN v.states : 1 <= k /\ k < Len(v.inputs)})}
           m == Without(v.states, gone)
<1>1. m \in StateMaps /\ Bounded(DOMAIN m)
  BY WithoutType DEF Known, Globals
<1>2. Purge(v) = v \/ Purge(v) = [v EXCEPT !.states = m]
  BY DEF Purge
<1> HIDE DEF m
<1>3. CASE Purge(v) = v
  BY <1>3 DEF Only
<1>4. CASE Purge(v) = [v EXCEPT !.states = m]
  <2>1. Purge(v) \in Globals /\ Purge(v).states = m /\ Only(v, Purge(v), {"states"})
    BY <1>1, <1>4 DEF Known, Globals, Only, Fields
  <2> QED
    BY <1>1, <2>1 DEF Known
<1> QED
  BY <1>2, <1>3, <1>4

LEMMA ClosestType ==
  ASSUME NEW v, Known(v), NEW frame
  PROVE  Closest(v, frame) \in Nat
<1> DEFINE before == {k \in DOMAIN v.states : k < frame}
<1>1. DOMAIN v.states \subseteq Nat
  BY DEF Known, Globals, StateMaps
<1>2. before \subseteq Nat /\ Bounded(before)
  BY <1>1 DEF Known, Bounded
<1>3. CASE before = {}
  BY <1>3 DEF Closest
<1>4. CASE before # {}
  <2>1. Closest(v, frame) = Max(before)
    BY <1>4 DEF Closest
  <2> HIDE DEF before
  <2> QED
    BY <2>1, <1>2, <1>4, MaxInSet
<1> QED
  BY <1>3, <1>4

MovieFields == {"states", "task", "file", "st", "uid", "start", "origin", "inputs"}

LEMMA MovieReadType ==
  ASSUME NEW v, Known(v)
  PROVE  /\ Known(MovieRead(v)) /\ Only(v, MovieRead(v), MovieFields)
         /\ MovieRead(v).uid = v.file.uid /\ MovieRead(v).start = v.file.start
         /\ MovieRead(v).origin = v.file.origin /\ MovieRead(v).inputs = v.file.inputs
         /\ MovieRead(v).task = StopAll(v).task /\ MovieRead(v).file = StopAll(v).file
         /\ MovieRead(v).st = StopAll(v).st /\ MovieRead(v).states = <<>>
<1> DEFINE w == StopAll(v)
           u == MovieRead(v)
<1>1. Known(w) /\ Only(v, w, {"states", "task", "file", "st"}) /\ w.states = <<>>
  BY StopAllType
<1>2. u = [w EXCEPT !.uid = v.file.uid, !.start = v.file.start,
                    !.origin = v.file.origin, !.inputs = v.file.inputs]
  BY DEF MovieRead
<1> HIDE DEF w, u
<1>3. /\ v.file.uid \in Nat /\ v.file.start \in {"reset", "snapshot"}
      /\ v.file.origin \in Machines /\ v.file.inputs \in Inputs
  BY DEF Known, Globals, Movies
<1>4. u \in Globals
  BY <1>1, <1>2, <1>3 DEF Known, Globals
<1>5. /\ u.uid = v.file.uid /\ u.start = v.file.start
      /\ u.origin = v.file.origin /\ u.inputs = v.file.inputs
      /\ u.task = w.task /\ u.file = w.file /\ u.st = w.st /\ u.states = <<>> /\ u.states = w.states
  BY <1>1, <1>2 DEF Known, Globals
<1>6. Only(w, u, {"uid", "start", "origin", "inputs"})
  BY <1>1, <1>2 DEF Only, Fields, Known, Globals
<1>7. Only(v, u, MovieFields)
  BY <1>1, <1>6 DEF Only, Fields, MovieFields
<1> QED
  BY <1>1, <1>4, <1>5, <1>7 DEF Known, u, w

\* The movie just read is still to start, unless its savestate file is missing.
LEMMA StartedPlaybackType ==
  ASSUME NEW v, Known(v)
  PROVE  /\ Known(StartedPlayback(v))
         /\ Only(MovieRead(v), StartedPlayback(v), {"sample", "task"})
         /\ StartedPlayback(v).sample = 0
         /\ IF MovieRead(v).start = "reset"
            THEN StartedPlayback(v).task = "start_playback_from_reset"
            ELSE StartedPlayback(v).task = IF MovieRead(v).st = NoState THEN MovieRead(v).task
                                           ELSE "start_playback_from_snapshot"
<1> DEFINE m == MovieRead(v)
           w == [m EXCEPT !.sample = 0]
           u == StartedPlayback(v)
<1>1. Known(m)
  BY MovieReadType
<1> HIDE DEF m
<1>2. w \in Globals /\ Only(m, w, {"sample", "task"}) /\ w.sample = 0 /\ w.task = m.task
      /\ w.start = m.start /\ w.st = m.st /\ w.states = m.states
  BY <1>1 DEF Known, Globals, Only, Fields
<1>3. m.start \in {"reset", "snapshot"}
  BY <1>1 DEF Known, Globals
<1>4. u = IF w.start = "snapshot"
          THEN IF w.st = NoState THEN w
               ELSE [w EXCEPT !.task = "start_playback_from_snapshot"]
          ELSE [w EXCEPT !.task = "start_playback_from_reset"]
  BY DEF StartedPlayback, m
<1> HIDE DEF w, u
<1>5. ASSUME NEW t \in VcrTasks, u = [w EXCEPT !.task = t]
      PROVE  u \in Globals /\ Only(m, u, {"sample", "task"}) /\ u.sample = 0 /\ u.task = t
             /\ u.states = m.states
  <2>1. u \in Globals /\ u.sample = 0 /\ u.task = t /\ u.states = m.states
    BY <1>2, <1>5 DEF Globals
  <2>2. Only(w, u, {"task"})
    BY <1>2, <1>5 DEF Only, Fields, Globals
  <2> QED
    BY <1>2, <2>1, <2>2 DEF Only, Fields
<1>6. StartingPlayback \subseteq VcrTasks
  BY DEF StartingPlayback, VcrTasks, Starting
<1>7. CASE m.start = "reset"
  BY <1>1, <1>2, <1>4, <1>5, <1>6, <1>7 DEF Known, u, m, StartingPlayback
<1>8. CASE m.start = "snapshot" /\ m.st = NoState
  BY <1>1, <1>2, <1>4, <1>8 DEF Known, u, m
<1>9. CASE m.start = "snapshot" /\ m.st # NoState
  BY <1>1, <1>2, <1>4, <1>5, <1>6, <1>9 DEF Known, u, m, StartingPlayback
<1> QED
  BY <1>3, <1>7, <1>8, <1>9

LEMMA PlaybackJobsType ==
  ASSUME NEW v
  PROVE  PlaybackJobs(v) \in Seq(Job)
<1>1. [op |-> "loadFile", arg |-> "play"] \in Job
  BY DEF Job
<1> QED
  BY <1>1 DEF PlaybackJobs

LEMMA StartedRecordType ==
  ASSUME NEW v, Known(v)
  PROVE  /\ Known(StartedRecord(v))
         /\ Only(StopAll(v), StartedRecord(v), {"readonly", "inputs", "uid", "movies", "origin"})
         /\ ~ StartedRecord(v).readonly /\ StartedRecord(v).inputs = <<>>
         /\ StartedRecord(v).uid = v.movies + 1 /\ StartedRecord(v).movies = v.movies + 1
         /\ StartedRecord(v).origin = <<>>
<1> DEFINE w == StopAll(v)
           u == StartedRecord(v)
           n == v.movies + 1
<1>1. Known(w) /\ w.movies = v.movies
  BY StopAllType DEF Only, Fields
<1>2. u = [w EXCEPT !.readonly = FALSE, !.inputs = <<>>, !.uid = n, !.movies = @ + 1, !.origin = <<>>]
  BY DEF StartedRecord
<1>3. n \in Nat /\ <<>> \in Inputs /\ <<>> \in Machines
  BY NothingTypes DEF Known, Globals
<1> HIDE DEF u, w
<1>4. w.movies + 1 = n
  BY <1>1
<1>5. u = [w EXCEPT !.readonly = FALSE, !.inputs = <<>>, !.uid = n, !.movies = n, !.origin = <<>>]
  BY <1>2, <1>4
<1> HIDE DEF n
<1>6. u \in Globals
  BY <1>1, <1>3, <1>5 DEF Known, Globals
<1>7. ~ u.readonly /\ u.inputs = <<>> /\ u.uid = n /\ u.movies = n /\ u.origin = <<>> /\ u.states = w.states
  BY <1>1, <1>5 DEF Known, Globals
<1>8. Only(w, u, {"readonly", "inputs", "uid", "movies", "origin"})
  BY <1>1, <1>5 DEF Only, Fields, Known, Globals
<1> QED
  BY <1>1, <1>6, <1>7, <1>8 DEF Known, u, w, n

\* The callbacks of a task that fails and of one that succeeds.
LEMMA FailedType ==
  ASSUME NEW v, Known(v), NEW t
  PROVE  /\ Known(Failed(v, t))
         /\ Only(v, Failed(v, t), {"loading", "seek", "warp", "states", "task", "file", "st"})
         /\ t.cb = "seekLoad" => Only(v, Failed(v, t), {"loading", "seek", "warp"})
                                 /\ ~ Failed(v, t).loading
         /\ t.cb \in StartCbs => Failed(v, t) = StopAll(v)
         /\ t.cb \notin StartCbs \cup {"seekLoad"} => Failed(v, t) = v
<1> DEFINE w == [v EXCEPT !.loading = FALSE]
<1>1. w \in Globals /\ w.states = v.states /\ ~ w.loading /\ Only(v, w, {"loading"})
  BY DEF Known, Globals, Only, Fields
<1>2. Known(w)
  BY <1>1 DEF Known
<1>3. CASE t.cb = "seekLoad"
  <2>1. Failed(v, t) = StopSeek(w)
    BY <1>3 DEF Failed
  <2> HIDE DEF w
  <2>2. Known(StopSeek(w)) /\ Only(w, StopSeek(w), {"seek", "warp"})
    BY <1>2, StopSeekType
  <2>3. Only(v, StopSeek(w), {"loading", "seek", "warp"}) /\ ~ StopSeek(w).loading
    BY <1>1, <2>2 DEF Only, Fields
  <2>4. Only(v, StopSeek(w), {"loading", "seek", "warp", "states", "task", "file", "st"})
    BY <2>3 DEF Only, Fields
  <2> QED
    BY <1>3, <2>1, <2>2, <2>3, <2>4 DEF StartCbs
<1>4. CASE t.cb \in StartCbs
  <2>1. Failed(v, t) = StopAll(v) /\ t.cb # "seekLoad"
    BY <1>4 DEF Failed, StartCbs
  <2>2. Known(StopAll(v)) /\ Only(v, StopAll(v), {"states", "task", "file", "st"})
    BY StopAllType
  <2>3. Only(v, StopAll(v), {"loading", "seek", "warp", "states", "task", "file", "st"})
    BY <2>2 DEF Only, Fields
  <2> QED
    BY <1>4, <2>1, <2>2, <2>3
<1>5. CASE t.cb \notin StartCbs \cup {"seekLoad"}
  BY <1>5 DEF Failed, StartCbs, Only
<1> QED
  BY <1>3, <1>4, <1>5

LEMMA SucceededType ==
  ASSUME NEW v, Known(v), NEW t, t.cb = "seekSave" => t.frame \in Nat, NEW st \in States
  PROVE  /\ Known(Succeeded(v, t, st))
         /\ t.cb = "seekLoad" => Only(v, Succeeded(v, t, st), {"loading"})
                                 /\ ~ Succeeded(v, t, st).loading
         /\ t.cb = "seekSave" => Only(v, Succeeded(v, t, st), {"states"})
         /\ t.cb \in StartCbs => Only(v, Succeeded(v, t, st), {"task"})
              /\ Succeeded(v, t, st).task = IF t.cb = "play" THEN "playback" ELSE "recording"
         /\ t.cb \notin StartCbs \cup {"seekLoad", "seekSave"} => Succeeded(v, t, st) = v
<1> DEFINE u == Succeeded(v, t, st)
<1>1. CASE t.cb = "seekLoad"
  <2>1. u = [v EXCEPT !.loading = FALSE]
    BY <1>1 DEF Succeeded
  <2> HIDE DEF u
  <2>2. u \in Globals /\ u.states = v.states /\ ~ u.loading /\ Only(v, u, {"loading"})
    BY <2>1 DEF Known, Globals, Only, Fields
  <2> QED
    BY <1>1, <2>2 DEF Known, StartCbs, u
<1>2. CASE t.cb = "seekSave"
  <2> DEFINE m == With(v.states, t.frame, st)
  <2>1. u = [v EXCEPT !.states = m]
    BY <1>2 DEF Succeeded
  <2>2. m \in StateMaps /\ Bounded(DOMAIN m)
    BY <1>2, WithType DEF Known, Globals
  <2> HIDE DEF m, u
  <2>3. u \in Globals /\ u.states = m /\ Only(v, u, {"states"})
    BY <2>1, <2>2 DEF Known, Globals, Only, Fields
  <2> QED
    BY <1>2, <2>2, <2>3 DEF Known, StartCbs, u
<1>3. CASE t.cb \in StartCbs
  <2>1. PICK task \in {"recording", "playback"} :
          u = [v EXCEPT !.task = task] /\ task = IF t.cb = "play" THEN "playback" ELSE "recording"
    <3>1. CASE t.cb = "play"
      BY <3>1 DEF Succeeded
    <3>2. CASE t.cb \in {"record", "recordExisting"}
      BY <3>2 DEF Succeeded
    <3> QED
      BY <1>3, <3>1, <3>2 DEF StartCbs
  <2>2. task \in VcrTasks
    BY DEF VcrTasks
  <2> HIDE DEF u
  <2>3. u \in Globals /\ u.states = v.states /\ u.task = task /\ Only(v, u, {"task"})
    BY <2>1, <2>2 DEF Known, Globals, Only, Fields
  <2> QED
    BY <1>3, <2>1, <2>3 DEF Known, StartCbs, u
<1>4. CASE t.cb \notin StartCbs \cup {"seekLoad", "seekSave"}
  BY <1>4 DEF Succeeded, StartCbs
<1> QED
  BY <1>1, <1>2, <1>3, <1>4

\* What a poll does before the handlers.
LEMMA PolledType ==
  ASSUME NEW v, Known(v)
  PROVE  /\ Known(Polled(v).v)
         /\ Only(v, Polled(v).v, {"seek", "warp", "paused", "reset", "states"})
         /\ v.seek = NoFrame => Only(v, Polled(v).v, {"reset", "states"})
         /\ Polled(v).v.reset = (v.reset \/ v.task \in Starting)
         /\ Polled(v).save \in {<<>>, <<Memory("Save", v.sample, NoState, "seekSave")>>}
         /\ Polled(v).jobs = IF v.task \in Starting THEN <<[op |-> "restart", arg |-> v.task]>>
                             ELSE <<>>
<1> DEFINE a == StopSeekIfNeeded(v)
           x == a.reset \/ a.task \in Starting
           b == [a EXCEPT !.reset = x]
           u == Polled(v).v
           F == {"seek", "warp", "paused", "reset", "states"}
<1>1. /\ Known(a) /\ Only(v, a, {"seek", "warp", "paused"})
      /\ v.seek = NoFrame => a = v
  BY StopSeekIfNeededType
<1> HIDE DEF a
<1>2. b = [a EXCEPT !.reset = @ \/ a.task \in Starting]
  OBVIOUS
<1>3. x \in BOOLEAN
  OBVIOUS
<1>4. x = (v.reset \/ v.task \in Starting)
  BY <1>1 DEF Only, Fields
<1> HIDE DEF x
<1>5. b \in Globals /\ b.states = a.states /\ b.reset = x /\ Only(a, b, {"reset"})
  BY <1>1, <1>3 DEF Known, Globals, Only, Fields
<1>6. Known(b)
  BY <1>1, <1>5 DEF Known
<1>7. /\ u = IF WantsState(b) THEN Purge(b) ELSE b
      /\ Polled(v).save = IF WantsState(b) THEN <<Memory("Save", b.sample, NoState, "seekSave")>>
                          ELSE <<>>
      /\ Polled(v).jobs = IF a.task \in Starting THEN <<[op |-> "restart", arg |-> a.task]>>
                          ELSE <<>>
  BY <1>2 DEF Polled, a
<1> HIDE DEF b, u
<1>8. Known(u) /\ Only(b, u, {"states"})
  BY <1>6, <1>7, PurgeType DEF Only
<1>9. Only(v, u, F) /\ u.reset = x /\ a.task = v.task /\ b.sample = v.sample
  BY <1>1, <1>5, <1>8 DEF Only, Fields
<1>10. ASSUME v.seek = NoFrame PROVE Only(v, u, {"reset", "states"})
  BY <1>1, <1>5, <1>8, <1>10 DEF Only, Fields
<1> QED
  BY <1>4, <1>7, <1>8, <1>9, <1>10 DEF u

\* What a seek leaves: the load of a state, the movie from its start, or neither.
SeekBack(v, s) ==
  /\ Only(v, s.v, {"seek", "pauseEnd", "paused", "readonly", "loading", "states"})
  /\ s.v.loading /\ v.interval # 0 /\ v.task \in {"playback", "recording"}
  /\ \E k \in Nat : s.jobs = <<[op |-> "seekLoad", arg |-> k]>>
SeekFromStart(v, s) ==
  /\ v.task = "playback" /\ v.interval = 0
  /\ \E r : /\ Known(r) /\ Only(v, r, {"seek", "pauseEnd", "paused"})
            /\ Only(StartedPlayback(r), s.v, {"seek"})
            /\ s.jobs = PlaybackJobs(r)
SeekForward(v, s) ==
  Only(v, s.v, {"seek", "pauseEnd", "paused", "warp"}) /\ s.jobs = <<>>

LEMMA SeekType ==
  ASSUME NEW v, Known(v), NEW frame0 \in Nat \ {0}, NEW pauseEnd \in BOOLEAN, NEW resume \in BOOLEAN,
         NEW warp \in BOOLEAN, NEW first \in Nat,
         NEW s, s = Seek(v, frame0, pauseEnd, resume, warp, first)
  PROVE  /\ Known(s.v) /\ s.jobs \in Seq(Job)
         /\ SeekBack(v, s) \/ SeekFromStart(v, s) \/ SeekForward(v, s)
<1> DEFINE frame  == SeekFrame(frame0, pauseEnd)
           s0     == [v EXCEPT !.seek = frame, !.pauseEnd = pauseEnd]
           r      == IF resume THEN [s0 EXCEPT !.paused = FALSE] ELSE s0
           target == Target(frame, warp, first)
           gone   == Invalid(r, target)
           purged == [r EXCEPT !.states = Without(@, gone)]
           there  == ~warp /\ pauseEnd /\ v.sample = frame + 1
           back   == ~there /\ v.sample > frame
           load(k) == <<[op |-> "seekLoad", arg |-> k]>>
           slow   == StartedPlayback(r)
           F      == {"seek", "pauseEnd", "paused"}
<1>1. s = CASE back /\ v.task = "playback" /\ v.interval # 0 ->
                 [v    |-> [r EXCEPT !.readonly = TRUE, !.loading = TRUE],
                  jobs |-> load(Closest(r, frame))]
            [] back /\ v.task = "playback" /\ v.interval = 0 ->
                 [v    |-> IF slow.task = "idle" THEN [slow EXCEPT !.seek = NoFrame] ELSE slow,
                  jobs |-> PlaybackJobs(r)]
            [] back /\ v.task = "recording" /\ v.interval # 0 ->
                 [v    |-> [purged EXCEPT !.loading = TRUE],
                  jobs |-> load(Closest(purged, target))]
            [] OTHER -> [v |-> IF there THEN StopSeek(s0) ELSE r, jobs |-> <<>>]
  BY DEF Seek
<1>2. frame \in Nat
  BY DEF SeekFrame
<1> HIDE DEF frame
<1>3. s0 \in Globals /\ s0.states = v.states /\ Only(v, s0, F)
  BY <1>2 DEF Known, Globals, Only, Fields
<1> HIDE DEF s0
<1>4. r \in Globals /\ r.states = s0.states /\ Only(s0, r, {"paused"})
  BY <1>3 DEF Globals, Only, Fields
<1>5. Known(s0) /\ Known(r) /\ Only(v, r, F)
  BY <1>3, <1>4 DEF Known, Only, Fields
<1> HIDE DEF r
<1> DEFINE m == Without(r.states, gone)
<1>6. m \in StateMaps /\ Bounded(DOMAIN m)
  BY <1>5, WithoutType DEF Known, Globals
<1>7. purged = [r EXCEPT !.states = m]
  OBVIOUS
<1> HIDE DEF m, gone
<1>8. purged \in Globals /\ purged.states = m /\ Only(r, purged, {"states"})
  BY <1>5, <1>6, <1>7 DEF Known, Globals, Only, Fields
<1>9. Known(purged)
  BY <1>6, <1>8 DEF Known
<1> HIDE DEF purged
<1>10. ASSUME NEW k \in Nat PROVE load(k) \in Seq(Job)
  <2>1. [op |-> "seekLoad", arg |-> k] \in Job
    BY DEF Job
  <2> QED
    BY <2>1
<1> HIDE DEF slow, there, back, target
<1>11. CASE back /\ v.task = "playback" /\ v.interval # 0
  <2> DEFINE u == [r EXCEPT !.readonly = TRUE, !.loading = TRUE]
             k == Closest(r, frame)
  <2>1. s.v = u /\ s.jobs = load(k)
    BY <1>1, <1>11
  <2>2. k \in Nat
    BY <1>5, ClosestType
  <2>3. u \in Globals /\ u.states = r.states /\ u.loading /\ Only(r, u, {"readonly", "loading"})
    BY <1>5 DEF Known, Globals, Only, Fields
  <2> HIDE DEF u, k
  <2>4. Known(u)
    BY <1>5, <2>3 DEF Known
  <2>5. Only(v, u, {"seek", "pauseEnd", "paused", "readonly", "loading", "states"})
    BY <1>5, <2>3 DEF Only, Fields
  <2>6. SeekBack(v, s)
    BY <1>11, <2>1, <2>2, <2>3, <2>5 DEF SeekBack
  <2> QED
    BY <1>10, <2>1, <2>2, <2>4, <2>6
<1>12. CASE back /\ v.task = "recording" /\ v.interval # 0
  <2> DEFINE u == [purged EXCEPT !.loading = TRUE]
             k == Closest(purged, target)
  <2>0. s = [v |-> u, jobs |-> load(k)]
    BY <1>1, <1>12
  <2>1. s.v = u /\ s.jobs = load(k)
    BY <2>0
  <2>2. k \in Nat
    BY <1>9, ClosestType
  <2>3. u \in Globals /\ u.states = purged.states /\ u.loading /\ Only(purged, u, {"loading"})
    BY <1>9 DEF Known, Globals, Only, Fields
  <2> HIDE DEF u, k
  <2>4. Known(u)
    BY <1>9, <2>3 DEF Known
  <2>5. Only(v, u, {"seek", "pauseEnd", "paused", "readonly", "loading", "states"})
    BY <1>5, <1>8, <2>3 DEF Only, Fields
  <2>6. SeekBack(v, s)
    BY <1>12, <2>1, <2>2, <2>3, <2>5 DEF SeekBack
  <2> QED
    BY <1>10, <2>1, <2>2, <2>4, <2>6
<1>13. CASE back /\ v.task = "playback" /\ v.interval = 0
  <2> DEFINE u == IF slow.task = "idle" THEN [slow EXCEPT !.seek = NoFrame] ELSE slow
  <2>1. s.v = u /\ s.jobs = PlaybackJobs(r)
    BY <1>1, <1>13
  <2>2. Known(slow)
    BY <1>5, StartedPlaybackType DEF slow
  <2>3. u \in Globals /\ u.states = slow.states /\ Only(slow, u, {"seek"})
    BY <2>2 DEF Known, Globals, Only, Fields
  <2> HIDE DEF u
  <2>4. Known(u)
    BY <2>2, <2>3 DEF Known
  <2>5. SeekFromStart(v, s)
    BY <1>5, <1>13, <2>1, <2>3 DEF SeekFromStart, slow
  <2> QED
    BY <2>1, <2>4, <2>5, PlaybackJobsType
<1>14. CASE ~ (back /\ (v.task = "playback" \/ (v.task = "recording" /\ v.interval # 0)))
  <2> DEFINE u == IF there THEN StopSeek(s0) ELSE r
  <2>1. s.v = u /\ s.jobs = <<>>
    BY <1>1, <1>14
  <2>2. Known(StopSeek(s0)) /\ Only(s0, StopSeek(s0), {"seek", "warp"})
    BY <1>5, StopSeekType
  <2>3. Only(v, u, {"seek", "pauseEnd", "paused", "warp"})
    BY <1>3, <1>5, <2>2 DEF Only, Fields
  <2>4. Known(u)
    BY <1>5, <2>2
  <2>5. SeekForward(v, s)
    BY <2>1, <2>3 DEF SeekForward
  <2> QED
    BY <2>1, <2>4, <2>5
<1> QED
  BY <1>11, <1>12, <1>13, <1>14

-----------------------------------------------------------------------------
(* Every variable keeps its type.                                          *)

LEMMA TaskCases ==
  ASSUME NEW t \in Task
  PROVE  \/ t.cb = "user" /\ t.medium = "slot" /\ t.slot \in Slots
         \/ t.cb \in {"play", "recordExisting"} /\ t.medium = "path" /\ t.job = "Load"
         \/ t.cb = "record" /\ t.medium = "path" /\ t.job = "Save"
         \/ t.cb = "seekSave" /\ t.medium = "memory" /\ t.job = "Save" /\ t.frame \in Nat
              /\ t.st \in States
         \/ t.cb = "seekLoad" /\ t.medium = "memory" /\ t.job = "Load" /\ t.st \in States
BY DEF Task, UserTask, FileTask, SeekTask

LEMMA NewTasks ==
  /\ \A f \in Nat, st \in States : Memory("Save", f, st, "seekSave") \in Task
                                   /\ Memory("Load", f, st, "seekLoad") \in Task
  /\ \A cb \in {"play", "recordExisting"} : Path("Load", cb) \in Task
  /\ Path("Save", "record") \in Task
  /\ \A job \in {"Save", "Load"}, s \in Slots : Slot(job, s) \in Task
BY DEF Task, UserTask, FileTask, SeekTask, Memory, Path, Slot

LEMMA PushType ==
  ASSUME NEW tasks \in Seq(Task), NEW t \in Task
  PROVE  Push(tasks, t) \in Seq(Task)
BY DEF Push

LEMMA HeadType ==
  ASSUME TypesOK, g_tasks # <<>>
  PROVE  Head(g_tasks) \in Task /\ Tail(g_tasks) \in Seq(Task)
BY TailIsPart DEF TypesOK

LEMMA SourceType ==
  ASSUME TypesOK, NEW t \in Task
  PROVE  Source(t) \in States
<1>1. vcr.st \in States /\ slots \in [Slots -> States]
  BY DEF TypesOK, Known, Globals
<1>2. CASE t.medium = "slot"
  BY <1>1, <1>2, TaskCases DEF Source
<1>3. CASE t.medium = "path"
  BY <1>1, <1>3 DEF Source
<1>4. CASE t.medium = "memory"
  BY <1>4, TaskCases DEF Source
<1> QED
  BY <1>2, <1>3, <1>4, TaskCases

LEMMA StrayType ==
  ASSUME NEW m
  PROVE  Stray(m) \in Machines
<1> DEFINE S == Keys \cup {"reset", "boot", "stray", "0", "1", "garbage"}
<1>1. "stray" \in S /\ "0" \in S /\ "1" \in S
  OBVIOUS
<1> HIDE DEF S
<1>2. <<"stray", "0">> \in Seq(S) /\ <<"stray", "1">> \in Seq(S)
  BY <1>1
<1> QED
  BY <1>2 DEF Stray, Machines, S

LEMMA SucceededKeeps ==
  ASSUME NEW v, Known(v), NEW t \in Task, NEW st \in States
  PROVE  Known(Succeeded(v, t, st)) /\ Succeeded(v, t, st).interval = v.interval
<1> DEFINE u == Succeeded(v, t, st)
<1>1. t.cb = "seekSave" => t.frame \in Nat
  BY TaskCases
<1>2. /\ Known(u)
      /\ t.cb = "seekLoad" => Only(v, u, {"loading"})
      /\ t.cb = "seekSave" => Only(v, u, {"states"})
      /\ t.cb \in StartCbs => Only(v, u, {"task"})
      /\ t.cb \notin StartCbs \cup {"seekLoad", "seekSave"} => u = v
  BY <1>1, SucceededType
<1> HIDE DEF u
<1>3. u.interval = v.interval
  BY <1>2 DEF Only, Fields
<1> QED
  BY <1>2, <1>3 DEF u

LEMMA TypesInit ==
  ASSUME Init
  PROVE  TypesOK
<1>1. PICK s \in Sessions : session = s
  BY DEF Init
<1>2. s.interval \in Nat /\ s.file \in Movies
  BY MovieAssumption, FileAssumption
<1>3. StartState(s.file) \in States
  BY <1>2, NothingTypes DEF StartState, States, Movies
<1> DEFINE st == IF s.file.start = "snapshot" THEN StartState(s.file) ELSE NoState
<1>4. st \in States /\ s.file.uid \in Nat
  BY <1>2, <1>3, NothingTypes DEF Movies
<1>5. vcr = [task |-> "idle", uid |-> 0, start |-> "reset", origin |-> <<>>,
            inputs |-> <<>>, sample |-> 0, readonly |-> FALSE,
            seek |-> NoFrame, pauseEnd |-> FALSE, loading |-> FALSE,
            reset |-> FALSE, askedReset |-> FALSE, warp |-> FALSE, first |-> 0,
            interval |-> s.interval, states |-> <<>>, paused |-> FALSE,
            movies |-> s.file.uid, file |-> s.file, st |-> st]
  BY <1>1 DEF Init
<1> HIDE DEF st
<1>6. "idle" \in VcrTasks
  BY DEF VcrTasks
<1>7. vcr \in Globals /\ vcr.states = <<>> /\ vcr.interval = s.interval
  BY <1>2, <1>4, <1>5, <1>6, NothingTypes DEF Globals
<1>8. Known(vcr) /\ vcr.interval = session.interval
  BY <1>1, <1>7, NothingTypes DEF Known
<1>9. slots \in [Slots -> States] /\ machine \in Machines
  BY NothingTypes DEF Init
<1>10. async \in Seq(Job) /\ g_tasks \in Seq(Task)
  BY DEF Init
<1>11. emu \in {"work", "poll"} /\ working \in BOOLEAN /\ recorder \in BOOLEAN
       /\ session \in Sessions /\ misled \in BOOLEAN
  BY DEF Init
<1> QED
  BY <1>8, <1>9, <1>10, <1>11 DEF TypesOK

LEMMA TypesWork ==
  ASSUME TypesOK, WorkBegin \/ WorkSave \/ WorkLoadFails \/ WorkLoad \/ WorkEnd \/ WorkNone
  PROVE  TypesOK'
<1> USE DEF TypesOK
<1>1. CASE WorkBegin
  <2>1. Simplify(g_tasks) \in Seq(Task)
    BY SimplifyIsPart
  <2> QED
    BY <1>1, <2>1 DEF WorkBegin, Known
<1>2. CASE WorkSave
  <2> DEFINE t  == Head(g_tasks)
             st == [mach |-> machine, frz |-> Freeze(vcr)]
             w  == IF t.cb = "record" THEN [vcr EXCEPT !.origin = machine] ELSE vcr
             v  == WriteMovie(w)
             x  == IF t.medium = "path" THEN [v EXCEPT !.st = st] ELSE v
  <2>1. t \in Task /\ g_tasks' \in Seq(Task)
    BY <1>2, HeadType DEF WorkSave, Working
  <2>2. st \in States
    BY FreezeType DEF States, Frozen, Known
  <2> HIDE DEF t, st
  <2>3. w \in Globals /\ w.states = vcr.states /\ w.interval = vcr.interval
    BY DEF Known, Globals
  <2>4. Known(w)
    BY <2>3 DEF Known
  <2> HIDE DEF w
  <2>5. Known(v) /\ v.interval = vcr.interval
    BY <2>3, <2>4, WriteMovieType DEF Only, Fields
  <2> HIDE DEF v
  <2>6. x \in Globals /\ x.states = v.states /\ x.interval = v.interval
    BY <2>2, <2>5 DEF Known, Globals
  <2>7. Known(x)
    BY <2>5, <2>6 DEF Known
  <2> HIDE DEF x
  <2>8. vcr' = Succeeded(x, t, st)
    BY <1>2 DEF WorkSave, x, v, w, t, st
  <2>9. Known(vcr') /\ vcr'.interval = x.interval
    BY <2>1, <2>2, <2>7, <2>8, SucceededKeeps
  <2>10. slots' = IF t.medium = "slot" THEN [slots EXCEPT ![t.slot] = st] ELSE slots
    BY <1>2 DEF WorkSave, t, st
  <2>11. slots' \in [Slots -> States]
    BY <2>2, <2>10
  <2> QED
    BY <1>2, <2>1, <2>5, <2>6, <2>9, <2>11 DEF WorkSave, Working
<1>3. CASE WorkLoadFails
  <2>1. g_tasks' \in Seq(Task) /\ vcr' = Failed(vcr, Head(g_tasks))
    BY <1>3, HeadType DEF WorkLoadFails, Working
  <2>2. Known(vcr') /\ vcr'.interval = vcr.interval
    BY <2>1, FailedType DEF Only, Fields
  <2> QED
    BY <1>3, <2>1, <2>2 DEF WorkLoadFails, Working
<1>4. CASE WorkLoad
  <2> DEFINE t  == Head(g_tasks)
             st == Source(t)
             v  == IF CanUnfreeze(vcr, st.frz) THEN Unfreeze(vcr, st.frz) ELSE vcr
  <2>1. t \in Task /\ g_tasks' \in Seq(Task)
    BY <1>4, HeadType DEF WorkLoad, Working
  <2>2. st \in States
    BY <2>1, SourceType
  <2> HIDE DEF t, st
  <2>3. st.frz \in Frozen /\ st.mach \in Machines
    BY <2>2 DEF States, Frozen
  <2>4. Known(v) /\ v.interval = vcr.interval
    BY <2>3, UnfreezeType DEF Only, Fields
  <2> HIDE DEF v
  <2>5. vcr' = Succeeded(v, t, st) /\ machine' = st.mach
    BY <1>4 DEF WorkLoad, v, t, st
  <2>6. Known(vcr') /\ vcr'.interval = v.interval
    BY <2>1, <2>2, <2>4, <2>5, SucceededKeeps
  <2>7. misled' \in BOOLEAN
    BY <1>4 DEF WorkLoad
  <2> QED
    BY <1>4, <2>1, <2>3, <2>4, <2>5, <2>6, <2>7 DEF WorkLoad, Working
<1>5. CASE WorkEnd
  BY <1>5 DEF WorkEnd, Known
<1>6. CASE WorkNone
  BY <1>6 DEF WorkNone, Known
<1> QED
  BY <1>1, <1>2, <1>3, <1>4, <1>5, <1>6

LEMMA SavesType ==
  ASSUME NEW v, Known(v)
  PROVE  Polled(v).save \in Seq(Task) /\ Polled(v).jobs \in Seq(Job)
<1>1. v.sample \in Nat /\ NoState \in States
  BY NothingTypes DEF Known, Globals
<1>2. Memory("Save", v.sample, NoState, "seekSave") \in Task
  BY <1>1, NewTasks
<1> DEFINE t == Memory("Save", v.sample, NoState, "seekSave")
<1> HIDE DEF t
<1>3. Polled(v).save \in {<<>>, <<t>>} /\ t \in Task
  BY <1>2, PolledType DEF t
<1>4. <<t>> \in Seq(Task) /\ <<>> \in Seq(Task) /\ <<>> \in Seq(Job)
  BY <1>3
<1>5. v.task \in Starting => [op |-> "restart", arg |-> v.task] \in Job
  BY DEF Job
<1> DEFINE j == [op |-> "restart", arg |-> v.task]
<1> HIDE DEF j
<1>6. Polled(v).jobs = IF v.task \in Starting THEN <<j>> ELSE <<>>
  BY PolledType DEF j
<1>7. CASE v.task \in Starting
  <2>1. <<j>> \in Seq(Job)
    BY <1>5, <1>7 DEF j
  <2>2. Polled(v).jobs \in Seq(Job)
    BY <1>6, <1>7, <2>1
  <2> QED
    BY <1>3, <1>4, <2>2
<1>8. CASE v.task \notin Starting
  <2>1. Polled(v).jobs \in Seq(Job)
    BY <1>4, <1>6, <1>8
  <2> QED
    BY <1>3, <1>4, <2>1
<1> QED
  BY <1>7, <1>8

LEMMA RestartJobs ==
  \A task \in Starting \cup {"recording", "playback"} : [op |-> "restart", arg |-> task] \in Job
BY DEF Job

LEMMA PollMovieTypes ==
  ASSUME TypesOK, NEW task, PollMovie(task)
  PROVE  /\ g_tasks' \in Seq(Task) /\ Known(Polled(vcr).v) /\ emu' = "work"
         /\ Polled(vcr).v.interval = vcr.interval /\ Polled(vcr).jobs \in Seq(Job)
         /\ UNCHANGED <<slots, working, recorder, misled, ops, session>>
<1>1. Polled(vcr).save \in Seq(Task) /\ Polled(vcr).jobs \in Seq(Job)
  BY SavesType DEF TypesOK
<1>2. g_tasks' = Polled(vcr).save \o g_tasks /\ emu' = "work"
      /\ UNCHANGED <<slots, working, recorder, misled, ops, session>>
  BY DEF PollMovie, Polling
<1>3. Known(Polled(vcr).v) /\ Polled(vcr).v.interval = vcr.interval
  BY PolledType DEF TypesOK, Only, Fields
<1>4. g_tasks' \in Seq(Task)
  BY <1>1, <1>2 DEF TypesOK
<1> QED
  BY <1>1, <1>2, <1>3, <1>4

\* What the handler of recordings writes.
Recorded1(v, w, input, buffered) ==
  w = [v EXCEPT !.inputs = IF buffered THEN @ ELSE Append(@, input),
                !.sample = @ + 1, !.askedReset = FALSE, !.reset = v.askedReset]

LEMMA RecordedType ==
  ASSUME NEW v, Known(v), NEW input \in Keys \cup {"reset", "garbage"}, NEW buffered \in BOOLEAN,
         NEW w, Recorded1(v, w, input, buffered)
  PROVE  /\ Known(w) /\ Only(v, w, {"inputs", "sample", "askedReset", "reset"})
         /\ w.inputs = IF buffered THEN v.inputs ELSE Append(v.inputs, input)
         /\ w.sample = v.sample + 1 /\ ~ w.askedReset /\ w.reset = v.askedReset
<1> DEFINE in == IF buffered THEN v.inputs ELSE Append(v.inputs, input)
           n == v.sample + 1
<1>1. in \in Inputs
  <2>1. v.inputs \in Seq(Keys \cup {"reset", "garbage"})
    BY DEF Known, Globals, Inputs
  <2>2. Append(v.inputs, input) \in Seq(Keys \cup {"reset", "garbage"})
    BY <2>1
  <2> QED
    BY <2>1, <2>2 DEF Inputs
<1>2. n \in Nat /\ v.askedReset \in BOOLEAN
  BY DEF Known, Globals
<1>3. w = [v EXCEPT !.inputs = in, !.sample = n, !.askedReset = FALSE, !.reset = v.askedReset]
  BY DEF Recorded1, Known, Globals
<1> HIDE DEF in, n
<1>4. w \in Globals
  BY <1>1, <1>2, <1>3 DEF Known, Globals
<1>5. /\ w.inputs = in /\ w.sample = n /\ ~ w.askedReset /\ w.reset = v.askedReset
      /\ w.states = v.states
  BY <1>2, <1>3 DEF Known, Globals
<1>6. Only(v, w, {"inputs", "sample", "askedReset", "reset"})
  BY <1>2, <1>3 DEF Only, Fields, Known, Globals
<1> QED
  BY <1>4, <1>5, <1>6 DEF Known, in, n

\* ... and the handler of playbacks.
LEMMA PlayedType ==
  ASSUME NEW v, Known(v), NEW r \in BOOLEAN, NEW w, w = [v EXCEPT !.sample = @ + 1, !.reset = r]
  PROVE  /\ Known(w) /\ Only(v, w, {"sample", "reset"})
         /\ w.sample = v.sample + 1 /\ w.reset = r
<1> DEFINE n == v.sample + 1
<1>1. w = [v EXCEPT !.sample = n, !.reset = r] /\ n \in Nat
  BY DEF Known, Globals
<1> HIDE DEF n
<1>2. w \in Globals /\ w.sample = n /\ w.reset = r /\ w.states = v.states
  BY <1>1 DEF Known, Globals
<1>3. Only(v, w, {"sample", "reset"})
  BY <1>1 DEF Only, Fields, Known, Globals
<1> QED
  BY <1>2, <1>3 DEF Known, n

LEMMA AppendMachine ==
  ASSUME NEW m \in Machines, NEW input \in Keys \cup {"reset", "garbage"}
  PROVE  Append(m, input) \in Machines
<1> DEFINE S == Keys \cup {"reset", "boot", "stray", "0", "1", "garbage"}
<1>1. input \in S /\ m \in Seq(S)
  BY DEF Machines
<1> HIDE DEF S
<1>2. Append(m, input) \in Seq(S)
  BY <1>1
<1> QED
  BY <1>2 DEF S, Machines

LEMMA TypesRecording ==
  ASSUME TypesOK, PollRecording
  PROVE  TypesOK'
<1> DEFINE v        == Polled(vcr).v
           buffered == v.sample < Len(v.inputs) \/ v.warp
           input(key) == IF v.askedReset THEN "reset"
                         ELSE IF buffered THEN Prefix(v.inputs, v.sample + 1)[v.sample + 1]
                         ELSE key
<1>1. PICK key \in Keys :
        /\ Recorded1(v, vcr', input(key), buffered)
        /\ machine' = IF v.askedReset THEN Stray(machine) ELSE Append(machine, input(key))
  BY DEF PollRecording, Recorded1
<1>2. /\ g_tasks' \in Seq(Task) /\ Known(v) /\ emu' = "work" /\ v.interval = vcr.interval
      /\ UNCHANGED <<slots, working, recorder, misled, ops, session>>
  BY PollMovieTypes DEF PollRecording
<1>3. async' = IF v.askedReset THEN Append(async, [op |-> "restart", arg |-> "recording"]) ELSE async
  BY DEF PollRecording
<1>4. buffered \in BOOLEAN /\ v.inputs \in Inputs /\ v.sample \in Nat /\ v.askedReset \in BOOLEAN
  BY <1>2 DEF Known, Globals
<1> HIDE DEF v, buffered
<1>5. Prefix(v.inputs, v.sample + 1)[v.sample + 1] \in Keys \cup {"reset", "garbage"}
  <2> DEFINE n == v.sample + 1
             p == Prefix(v.inputs, n)
  <2>1. n \in Nat /\ n \in 1 .. n
    BY <1>4
  <2>2. p \in Inputs /\ Len(p) = n
    BY <1>4, <2>1, PrefixType
  <2> HIDE DEF p, n
  <2>3. p[n] \in Keys \cup {"reset", "garbage"}
    BY <2>1, <2>2, ElementOfSeq DEF Inputs
  <2> QED
    BY <2>3 DEF p, n
<1>6. input(key) \in Keys \cup {"reset", "garbage"}
  BY <1>1, <1>5
<1> HIDE DEF input
<1>7. Known(vcr') /\ vcr'.interval = v.interval
  <2>1. Known(v) /\ buffered \in BOOLEAN /\ Recorded1(v, vcr', input(key), buffered)
    BY <1>1, <1>2, <1>4
  <2>2. Known(vcr') /\ Only(v, vcr', {"inputs", "sample", "askedReset", "reset"})
    BY <2>1, <1>6, RecordedType
  <2> QED
    BY <2>2 DEF Only, Fields
<1>8. machine' \in Machines
  BY <1>1, <1>6, StrayType, AppendMachine DEF TypesOK
<1>9. async' \in Seq(Job)
  BY <1>3, RestartJobs DEF TypesOK
<1> QED
  BY <1>2, <1>7, <1>8, <1>9 DEF TypesOK

LEMMA TypesPlayback ==
  ASSUME TypesOK, PollPlayback
  PROVE  TypesOK'
<1> DEFINE v     == Polled(vcr).v
           over  == v.sample >= Len(v.inputs)
           ended == StopAll(v)
           again == LoopMovie /\ v.file # NoMovie
<1>1. /\ g_tasks' \in Seq(Task) /\ Known(v) /\ emu' = "work" /\ v.interval = vcr.interval
      /\ UNCHANGED <<slots, working, recorder, misled, ops, session>>
  BY PollMovieTypes DEF PollPlayback
<1>2. CASE over
  <2>1. /\ vcr' = IF again THEN StartedPlayback(ended) ELSE ended
        /\ async' = IF again THEN async \o PlaybackJobs(ended) ELSE async
        /\ machine' = Stray(machine)
    BY <1>2 DEF PollPlayback
  <2> HIDE DEF v, again
  <2>2. Known(ended) /\ ended.interval = v.interval
    BY <1>1, StopAllType DEF Only, Fields
  <2> HIDE DEF ended
  <2>3. Known(StartedPlayback(ended)) /\ StartedPlayback(ended).interval = ended.interval
    BY <2>2, StartedPlaybackType, MovieReadType DEF Only, Fields, MovieFields
  <2>4. async' \in Seq(Job)
    BY <2>1, PlaybackJobsType DEF TypesOK
  <2>5. Known(vcr') /\ vcr'.interval = v.interval
    BY <2>1, <2>2, <2>3
  <2>6. machine' \in Machines
    BY <2>1, StrayType
  <2> QED
    BY <1>1, <2>4, <2>5, <2>6 DEF TypesOK
<1>3. CASE ~ over
  <2> DEFINE input == v.inputs[v.sample + 1]
             r == input = "reset"
  <2>1. /\ vcr' = [v EXCEPT !.sample = @ + 1, !.reset = r]
        /\ async' = IF r THEN Append(async, [op |-> "restart", arg |-> "playback"]) ELSE async
        /\ machine' = IF r THEN Stray(machine) ELSE Append(machine, input)
    BY <1>3 DEF PollPlayback
  <2>2. v.inputs \in Inputs /\ v.sample \in Nat
    BY <1>1 DEF Known, Globals
  <2>3. v.sample + 1 \in 1 .. Len(v.inputs)
    BY <1>3, <2>2, LenProperties DEF Inputs
  <2> HIDE DEF v
  <2>4. input \in Keys \cup {"reset", "garbage"}
    BY <2>2, <2>3, ElementOfSeq DEF Inputs
  <2>5. r \in BOOLEAN
    OBVIOUS
  <2> HIDE DEF input, r
  <2>6. Known(vcr') /\ vcr'.interval = v.interval
    <3>1. Known(v) /\ r \in BOOLEAN /\ vcr' = [v EXCEPT !.sample = @ + 1, !.reset = r]
      BY <1>1, <2>1, <2>5
    <3>2. Known(vcr') /\ Only(v, vcr', {"sample", "reset"})
      BY <3>1, PlayedType
    <3> QED
      BY <3>2 DEF Only, Fields
  <2>7. machine' \in Machines
    BY <2>1, <2>4, StrayType, AppendMachine DEF TypesOK
  <2>8. async' \in Seq(Job)
    BY <2>1, RestartJobs DEF TypesOK
  <2> QED
    BY <1>1, <2>6, <2>7, <2>8 DEF TypesOK
<1> QED
  BY <1>2, <1>3

LEMMA TypesPoll ==
  ASSUME TypesOK, PollIdle \/ PollNothing \/ PollStarting \/ PollRecording \/ PollPlayback
  PROVE  TypesOK'
<1>1. CASE PollIdle
  BY <1>1, StrayType DEF PollIdle, Polling, TypesOK, Known
<1>2. CASE PollNothing
  BY <1>2 DEF PollNothing, Polling, TypesOK, Known
<1>3. CASE PollStarting
  <2>1. PICK task : PollMovie(task)
    BY <1>3 DEF PollStarting
  <2>2. vcr' = Polled(vcr).v /\ async' = async \o Polled(vcr).jobs /\ machine' = Stray(machine)
    BY <1>3 DEF PollStarting
  <2> DEFINE v == Polled(vcr).v
             jobs == Polled(vcr).jobs
  <2>3. /\ g_tasks' \in Seq(Task) /\ Known(v) /\ emu' = "work" /\ v.interval = vcr.interval
        /\ jobs \in Seq(Job) /\ UNCHANGED <<slots, working, recorder, misled, ops, session>>
    BY <2>1, PollMovieTypes
  <2> HIDE DEF v, jobs
  <2>4. async' \in Seq(Job) /\ machine' \in Machines /\ vcr' = v
    BY <2>2, <2>3, StrayType DEF TypesOK, v, jobs
  <2> QED
    BY <2>3, <2>4 DEF TypesOK
<1> QED
  BY <1>1, <1>2, <1>3, TypesRecording, TypesPlayback

LEMMA TypesJobs ==
  ASSUME TypesOK, NEW i, Restart(i) \/ Enqueue(i)
  PROVE  TypesOK'
<1>1. /\ i \in DOMAIN async /\ async' = RemoveAt(async, i)
      /\ UNCHANGED <<slots, working, recorder, misled, ops, session>>
  BY DEF Restart, Enqueue, Running
<1>2. async' \in Seq(Job)
  BY <1>1, RemoveAtIsPart DEF TypesOK
<1>3. async[i] \in Job
  BY <1>1, LenProperties, ElementOfSeq DEF TypesOK
<1>4. CASE Restart(i)
  <2> DEFINE v == [vcr EXCEPT !.reset = FALSE, !.paused = FALSE]
             R == [v EXCEPT !.task = "recording", !.sample = 0]
             P == [v EXCEPT !.task = "playback", !.sample = 0]
  <2>1. vcr' \in {v, R, P} /\ machine' = Boot /\ g_tasks' = <<>> /\ UNCHANGED emu
    BY <1>4 DEF Restart
  <2>2. "recording" \in VcrTasks /\ "playback" \in VcrTasks
    BY DEF VcrTasks
  <2>3. /\ v \in Globals /\ v.states = vcr.states /\ v.interval = vcr.interval
        /\ R \in Globals /\ R.states = vcr.states /\ R.interval = vcr.interval
        /\ P \in Globals /\ P.states = vcr.states /\ P.interval = vcr.interval
    BY <2>2 DEF TypesOK, Known, Globals
  <2> HIDE DEF v, R, P
  <2>4. Known(vcr') /\ vcr'.interval = vcr.interval
    BY <2>1, <2>3 DEF TypesOK, Known
  <2>5. machine' \in Machines /\ g_tasks' \in Seq(Task)
    BY <2>1, NothingTypes
  <2> QED
    BY <1>1, <1>2, <2>1, <2>4, <2>5 DEF TypesOK
<1>5. CASE Enqueue(i)
  <2> DEFINE job == async[i]
             st  == IF job.arg \in DOMAIN vcr.states THEN vcr.states[job.arg] ELSE NoState
  <2>1. UNCHANGED <<machine, emu>>
    BY <1>5 DEF Enqueue
  <2>2. CASE job.op = "loadFile"
    <3>1. g_tasks' = Push(g_tasks, Path("Load", job.arg)) /\ UNCHANGED vcr
      BY <1>5, <2>2 DEF Enqueue
    <3>2. job.arg \in {"play", "recordExisting"}
      BY <1>3, <2>2 DEF Job
    <3>3. Path("Load", job.arg) \in Task
      BY <3>2, NewTasks
    <3>4. g_tasks' \in Seq(Task)
      BY <3>1, <3>3, PushType DEF TypesOK
    <3> QED
      BY <1>1, <1>2, <2>1, <3>1, <3>4 DEF TypesOK, Known
  <2>3. CASE job.op = "slot"
    <3>1. g_tasks' = Push(g_tasks, Slot(job.arg[1], job.arg[2])) /\ UNCHANGED vcr
      BY <1>5, <2>3 DEF Enqueue
    <3>2. job.arg[1] \in {"Save", "Load"} /\ job.arg[2] \in Slots
      BY <1>3, <2>3 DEF Job
    <3>3. Slot(job.arg[1], job.arg[2]) \in Task
      BY <3>2, NewTasks
    <3>4. g_tasks' \in Seq(Task)
      BY <3>1, <3>3, PushType DEF TypesOK
    <3> QED
      BY <1>1, <1>2, <2>1, <3>1, <3>4 DEF TypesOK, Known
  <2>4. CASE job.op = "seekLoad"
    <3> DEFINE m == With(vcr.states, job.arg, st)
    <3>1. g_tasks' = Push(g_tasks, Memory("Load", job.arg, st, "seekLoad"))
          /\ vcr' = [vcr EXCEPT !.states = m]
      BY <1>5, <2>4 DEF Enqueue
    <3>2. job.arg \in Nat
      BY <1>3, <2>4 DEF Job
    <3>3. st \in States
      <4>1. PICK K \in SUBSET Nat : vcr.states \in [K -> States]
        BY DEF TypesOK, Known, Globals, StateMaps
      <4> QED
        BY <4>1, NothingTypes
    <3> HIDE DEF st
    <3>4. m \in StateMaps /\ Bounded(DOMAIN m)
      BY <3>2, <3>3, WithType DEF TypesOK, Known, Globals
    <3> HIDE DEF m
    <3>5. vcr' \in Globals /\ vcr'.states = m /\ vcr'.interval = vcr.interval
      BY <3>1, <3>4 DEF TypesOK, Known, Globals
    <3>6. Memory("Load", job.arg, st, "seekLoad") \in Task
      BY <3>2, <3>3, NewTasks
    <3>7. g_tasks' \in Seq(Task)
      BY <3>1, <3>6, PushType DEF TypesOK
    <3> QED
      BY <1>1, <1>2, <2>1, <3>4, <3>5, <3>7 DEF TypesOK, Known
  <2>5. job.op \in {"loadFile", "slot", "seekLoad"}
    BY <1>5 DEF Enqueue
  <2> QED
    BY <2>2, <2>3, <2>4, <2>5
<1> QED
  BY <1>4, <1>5

LEMMA RequestUnchanged ==
  ASSUME NEW kind, Request(kind)
  PROVE  UNCHANGED <<slots, machine, emu, working, misled, session>> /\ ~ recorder
BY DEF Request

\* What the requests that record leave.
Begun(u, w, task, start, origin, sample) ==
  w = [u EXCEPT !.task = task, !.start = start, !.origin = origin, !.sample = sample]

LEMMA RecordTypes ==
  ASSUME NEW v, Known(v), NEW task \in VcrTasks, NEW start \in {"reset", "snapshot"},
         NEW origin \in Machines, NEW sample \in Nat,
         NEW w, Begun(StartedRecord(v), w, task, start, origin, sample)
  PROVE  /\ Known(w) /\ Only(StartedRecord(v), w, {"task", "start", "origin", "sample"})
         /\ w.task = task /\ w.start = start /\ w.origin = origin /\ w.sample = sample
<1> DEFINE u == StartedRecord(v)
<1>1. Known(u) /\ w = [u EXCEPT !.task = task, !.start = start, !.origin = origin, !.sample = sample]
  BY StartedRecordType DEF Begun
<1> HIDE DEF u
<1>2. /\ w \in Globals /\ w.states = u.states
      /\ w.task = task /\ w.start = start /\ w.origin = origin /\ w.sample = sample
  BY <1>1 DEF Known, Globals
<1>3. Only(u, w, {"task", "start", "origin", "sample"})
  BY <1>1 DEF Only, Fields, Known, Globals
<1> QED
  BY <1>1, <1>2, <1>3 DEF Known, u

LEMMA RecordSteps ==
  ASSUME TypesOK
  PROVE  /\ RecordFromReset =>
              Begun(StartedRecord(vcr), vcr', "start_recording_from_reset", "reset", Boot, 0)
         /\ RecordFromSnapshot =>
              Begun(StartedRecord(vcr), vcr', "start_recording_from_snapshot", "snapshot", <<>>,
                    vcr.sample)
         /\ RecordFromExisting =>
              LET u == StartedRecord(vcr)
              IN  IF u.st = NoState
                  THEN Begun(u, vcr', u.task, "snapshot", <<>>, vcr.sample)
                  ELSE Begun(u, vcr', "start_recording_from_existing_snapshot", "snapshot",
                             u.st.mach, 0)
<1> DEFINE u == StartedRecord(vcr)
<1>1. Known(u) /\ u.origin = <<>> /\ u.sample = vcr.sample
  <2>1. /\ Known(u) /\ u.origin = <<>>
        /\ Only(StopAll(vcr), u, {"readonly", "inputs", "uid", "movies", "origin"})
    BY StartedRecordType DEF TypesOK
  <2>2. Only(vcr, StopAll(vcr), {"states", "task", "file", "st"})
    BY StopAllType DEF TypesOK
  <2> QED
    BY <2>1, <2>2 DEF Only, Fields
<1>2. RecordFromReset => vcr' = [u EXCEPT !.task = "start_recording_from_reset",
                                         !.start = "reset", !.origin = Boot, !.sample = 0]
  BY DEF RecordFromReset
<1>3. ASSUME RecordFromSnapshot
      PROVE  vcr' = [u EXCEPT !.task = "start_recording_from_snapshot", !.start = "snapshot",
                              !.origin = <<>>, !.sample = vcr.sample]
  <2>1. vcr' = [u EXCEPT !.task = "start_recording_from_snapshot", !.start = "snapshot"]
    BY <1>3 DEF RecordFromSnapshot
  <2> HIDE DEF u
  <2> QED
    BY <1>1, <2>1 DEF Known, Globals
<1>4. ASSUME RecordFromExisting
      PROVE  IF u.st = NoState
             THEN vcr' = [u EXCEPT !.task = u.task, !.start = "snapshot", !.origin = <<>>,
                                   !.sample = vcr.sample]
             ELSE vcr' = [u EXCEPT !.task = "start_recording_from_existing_snapshot",
                                   !.start = "snapshot", !.origin = u.st.mach, !.sample = 0]
  <2> DEFINE v == [u EXCEPT !.start = "snapshot"]
  <2>1. IF v.st = NoState THEN vcr' = v
        ELSE vcr' = [v EXCEPT !.task = "start_recording_from_existing_snapshot",
                              !.origin = v.st.mach, !.sample = 0]
    BY <1>4 DEF RecordFromExisting
  <2> HIDE DEF u
  <2>2. v.st = u.st
    BY <1>1 DEF Known, Globals
  <2>3. CASE u.st = NoState
    <3>1. vcr' = [u EXCEPT !.start = "snapshot"]
      BY <2>1, <2>2, <2>3
    <3>2. vcr' = [u EXCEPT !.task = u.task, !.start = "snapshot", !.origin = <<>>, !.sample = vcr.sample]
      BY <1>1, <3>1 DEF Known, Globals
    <3> QED
      BY <2>3, <3>2
  <2>4. CASE u.st # NoState
    <3> DEFINE o == u.st.mach
    <3>1. vcr' = [v EXCEPT !.task = "start_recording_from_existing_snapshot", !.origin = o, !.sample = 0]
      BY <2>1, <2>2, <2>4
    <3> HIDE DEF o
    <3>2. vcr' = [u EXCEPT !.task = "start_recording_from_existing_snapshot",
                           !.start = "snapshot", !.origin = o, !.sample = 0]
      BY <1>1, <3>1 DEF Known, Globals
    <3> QED
      BY <2>4, <3>2 DEF o
  <2> QED
    BY <2>3, <2>4
<1> QED
  BY <1>2, <1>3, <1>4 DEF Begun

LEMMA TypesRecord ==
  ASSUME TypesOK, RecordFromReset \/ RecordFromExisting \/ RecordFromSnapshot
  PROVE  TypesOK'
<1> DEFINE u == StartedRecord(vcr)
<1>1. Known(u) /\ u.interval = vcr.interval
  <2>1. /\ Known(u)
        /\ Only(StopAll(vcr), u, {"readonly", "inputs", "uid", "movies", "origin"})
    BY StartedRecordType DEF TypesOK
  <2>2. Only(vcr, StopAll(vcr), {"states", "task", "file", "st"})
    BY StopAllType DEF TypesOK
  <2> QED
    BY <2>1, <2>2 DEF Only, Fields
<1>2. u.task \in VcrTasks /\ u.st.mach \in Machines /\ vcr.sample \in Nat
  BY <1>1 DEF Known, Globals, States, TypesOK
<1>3. ASSUME NEW task \in VcrTasks, NEW start \in {"reset", "snapshot"},
             NEW origin \in Machines, NEW sample \in Nat,
             Begun(u, vcr', task, start, origin, sample)
      PROVE  Known(vcr') /\ vcr'.interval = vcr.interval
  <2>1. Known(vcr') /\ Only(u, vcr', {"task", "start", "origin", "sample"})
    BY <1>3, RecordTypes DEF TypesOK
  <2> QED
    BY <1>1, <2>1 DEF Only, Fields
<1>4. Known(vcr') /\ vcr'.interval = vcr.interval
  <2>1. {"start_recording_from_reset", "start_recording_from_snapshot",
         "start_recording_from_existing_snapshot"} \subseteq VcrTasks
    BY DEF VcrTasks, Starting
  <2>2. Boot \in Machines /\ <<>> \in Machines
    BY NothingTypes
  <2>3. CASE RecordFromReset
    <3>1. Begun(u, vcr', "start_recording_from_reset", "reset", Boot, 0)
      BY <2>3, RecordSteps
    <3> QED
      BY <1>3, <2>1, <2>2, <3>1
  <2>4. CASE RecordFromSnapshot
    <3>1. Begun(u, vcr', "start_recording_from_snapshot", "snapshot", <<>>, vcr.sample)
      BY <2>4, RecordSteps
    <3> QED
      BY <1>2, <1>3, <2>1, <2>2, <3>1
  <2>5. CASE RecordFromExisting /\ u.st = NoState
    <3>1. Begun(u, vcr', u.task, "snapshot", <<>>, vcr.sample)
      BY <2>5, RecordSteps
    <3> QED
      BY <1>2, <1>3, <2>2, <3>1
  <2>6. CASE RecordFromExisting /\ u.st # NoState
    <3>1. Begun(u, vcr', "start_recording_from_existing_snapshot", "snapshot", u.st.mach, 0)
      BY <2>6, RecordSteps
    <3> QED
      BY <1>2, <1>3, <2>1, <3>1
  <2> QED
    BY <2>3, <2>4, <2>5, <2>6
<1>5. UNCHANGED <<slots, machine, emu, working, misled, session, g_tasks>> /\ recorder' \in BOOLEAN
  BY RequestUnchanged DEF RecordFromReset, RecordFromExisting, RecordFromSnapshot, TypesOK
<1>6. async' \in Seq(Job)
  <2>1. [op |-> "loadFile", arg |-> "recordExisting"] \in Job
    BY DEF Job
  <2> DEFINE j == [op |-> "loadFile", arg |-> "recordExisting"]
  <2>2. async' \in {async, Append(async, j)}
    BY DEF RecordFromReset, RecordFromExisting, RecordFromSnapshot
  <2> HIDE DEF j
  <2>3. Append(async, j) \in Seq(Job)
    BY <2>1 DEF TypesOK, j
  <2> QED
    BY <2>2, <2>3 DEF TypesOK
<1> QED
  BY <1>4, <1>5, <1>6 DEF TypesOK

LEMMA TypesSimple ==
  ASSUME TypesOK,
         Play \/ Stop \/ SaveOrLoad \/ EndSeek \/ ToggleReadonly \/ ResetRequested
         \/ TogglePause \/ RecordSaves
  PROVE  TypesOK'
<1>0. Known(vcr)
  BY DEF TypesOK
<1>1. CASE Play
  <2>1. Known(MovieRead(vcr)) /\ MovieRead(vcr).interval = vcr.interval
    BY <1>0, MovieReadType DEF Only, Fields, MovieFields
  <2>2. Known(StartedPlayback(vcr)) /\ StartedPlayback(vcr).interval = MovieRead(vcr).interval
    BY <1>0, StartedPlaybackType DEF Only, Fields
  <2>3. vcr' \in {MovieRead(vcr), StartedPlayback(vcr)} /\ async' \in {async, async \o PlaybackJobs(vcr)}
        /\ UNCHANGED <<g_tasks, recorder>>
    BY <1>1 DEF Play
  <2>4. async \o PlaybackJobs(vcr) \in Seq(Job)
    BY PlaybackJobsType DEF TypesOK
  <2>5. UNCHANGED <<slots, machine, emu, working, misled, session>>
    BY <1>1, RequestUnchanged DEF Play
  <2> QED
    BY <2>1, <2>2, <2>3, <2>4, <2>5 DEF TypesOK
<1>2. CASE Stop
  <2>1. Known(StopAll(vcr)) /\ StopAll(vcr).interval = vcr.interval
    BY <1>0, StopAllType DEF Only, Fields
  <2> DEFINE e == [vcr EXCEPT !.states = <<>>]
  <2>2. e \in Globals /\ e.states = <<>> /\ e.interval = vcr.interval
    BY <1>0, NothingTypes DEF Known, Globals
  <2>3. Known(e)
    BY <2>2, NothingTypes DEF Known
  <2> HIDE DEF e
  <2>4. vcr' \in {StopAll(vcr), e} /\ UNCHANGED <<g_tasks, async, recorder>>
    BY <1>2 DEF Stop, e
  <2>5. UNCHANGED <<slots, machine, emu, working, misled, session>>
    BY <1>2, RequestUnchanged DEF Stop
  <2> QED
    BY <2>1, <2>2, <2>3, <2>4, <2>5 DEF TypesOK
<1>3. CASE SaveOrLoad
  <2>1. PICK job \in {"Save", "Load"}, s \in Slots :
          /\ \E kind \in {"save", "load"} : Request(kind)
          /\ async' = Append(async, [op |-> "slot", arg |-> <<job, s>>])
    BY <1>3 DEF SaveOrLoad
  <2>2. [op |-> "slot", arg |-> <<job, s>>] \in Job
    BY DEF Job
  <2> DEFINE j == [op |-> "slot", arg |-> <<job, s>>]
  <2> HIDE DEF j
  <2>3. async' = Append(async, j) /\ j \in Job
    BY <2>1, <2>2 DEF j
  <2>4. async' \in Seq(Job)
    BY <2>3 DEF TypesOK
  <2>5. UNCHANGED <<slots, machine, emu, working, misled, session, vcr, g_tasks, recorder>>
    BY <1>3, <2>1, RequestUnchanged DEF SaveOrLoad
  <2> QED
    BY <2>4, <2>5 DEF TypesOK, Known
<1>4. CASE EndSeek
  <2>1. Known(StopSeek(vcr)) /\ StopSeek(vcr).interval = vcr.interval
    BY <1>0, StopSeekType DEF Only, Fields
  <2>2. vcr' = StopSeek(vcr) /\ UNCHANGED <<g_tasks, async, recorder>>
    BY <1>4 DEF EndSeek
  <2>3. UNCHANGED <<slots, machine, emu, working, misled, session>>
    BY <1>4, RequestUnchanged DEF EndSeek
  <2> QED
    BY <2>1, <2>2, <2>3 DEF TypesOK
<1>5. CASE ToggleReadonly
  <2>1. vcr' = [vcr EXCEPT !.readonly = ~@] /\ UNCHANGED <<g_tasks, async, recorder>>
    BY <1>5 DEF ToggleReadonly
  <2>2. vcr' \in Globals /\ vcr'.states = vcr.states /\ vcr'.interval = vcr.interval
    BY <1>0, <2>1 DEF Known, Globals
  <2>3. UNCHANGED <<slots, machine, emu, working, misled, session>>
    BY <1>5, RequestUnchanged DEF ToggleReadonly
  <2> QED
    BY <2>1, <2>2, <2>3 DEF TypesOK, Known
<1>6. CASE ResetRequested
  <2>1. vcr' = [vcr EXCEPT !.askedReset = TRUE] /\ UNCHANGED <<g_tasks, async, recorder>>
    BY <1>6 DEF ResetRequested
  <2>2. vcr' \in Globals /\ vcr'.states = vcr.states /\ vcr'.interval = vcr.interval
    BY <1>0, <2>1 DEF Known, Globals
  <2>3. UNCHANGED <<slots, machine, emu, working, misled, session>>
    BY <1>6, RequestUnchanged DEF ResetRequested
  <2> QED
    BY <2>1, <2>2, <2>3 DEF TypesOK, Known
<1>7. CASE TogglePause
  <2>1. vcr' = [vcr EXCEPT !.paused = ~@] /\ UNCHANGED <<g_tasks, async, recorder>>
    BY <1>7 DEF TogglePause
  <2>2. vcr' \in Globals /\ vcr'.states = vcr.states /\ vcr'.interval = vcr.interval
    BY <1>0, <2>1 DEF Known, Globals
  <2>3. UNCHANGED <<slots, machine, emu, working, misled, session>>
    BY <1>7, RequestUnchanged DEF TogglePause
  <2> QED
    BY <2>1, <2>2, <2>3 DEF TypesOK, Known
<1>8. CASE RecordSaves
  <2>1. /\ vcr' = [vcr EXCEPT !.sample = 0] /\ g_tasks' = Push(g_tasks, Path("Save", "record"))
        /\ recorder' = FALSE /\ UNCHANGED <<async, slots, machine, emu, working, misled, session>>
    BY <1>8 DEF RecordSaves
  <2>2. vcr' \in Globals /\ vcr'.states = vcr.states /\ vcr'.interval = vcr.interval
    BY <1>0, <2>1 DEF Known, Globals
  <2>3. g_tasks' \in Seq(Task)
    BY <2>1, NewTasks, PushType DEF TypesOK
  <2> QED
    BY <2>1, <2>2, <2>3 DEF TypesOK, Known
<1> QED
  BY <1>1, <1>2, <1>3, <1>4, <1>5, <1>6, <1>7, <1>8

LEMMA MinOfTwo ==
  ASSUME NEW a \in Nat, NEW b \in Nat
  PROVE  Min({a, b}) \in {a, b} /\ Min({a, b}) \in Nat /\ Min({a, b}) <= a /\ Min({a, b}) <= b
<1>1. \E x \in {a, b} : \A y \in {a, b} : x <= y
  OBVIOUS
<1>2. Min({a, b}) \in {a, b} /\ \A y \in {a, b} : Min({a, b}) <= y
  BY <1>1 DEF Min
<1> QED
  BY <1>2

LEMMA FirstDifferenceType ==
  ASSUME NEW a \in Inputs, NEW b \in Inputs
  PROVE  FirstDifference(a, b) \in Nat
<1> DEFINE short == Min({Len(a), Len(b)})
           diff  == {i \in 1 .. short : a[i] # b[i]}
           top   == {0, short - 1}
<1>1. Len(a) \in Nat /\ Len(b) \in Nat
  BY LenProperties DEF Inputs
<1>2. short \in Nat
  BY <1>1, MinOfTwo
<1> HIDE DEF short
<1>3. CASE diff # {}
  <2>1. diff \subseteq Nat
    BY <1>2
  <2>2. Min(diff) \in diff
    BY <1>3, <2>1, MinInSet
  <2>3. FirstDifference(a, b) = Min(diff) - 1
    BY <1>3 DEF FirstDifference, short
  <2>4. Min(diff) \in 1 .. short
    BY <2>2
  <2> HIDE DEF diff
  <2> QED
    BY <1>2, <2>3, <2>4
<1>4. CASE diff = {}
  <2>1. \E x \in top : \A y \in top : x >= y
    BY <1>2
  <2>2. Max(top) \in top /\ \A y \in top : Max(top) >= y
    BY <2>1 DEF Max
  <2>3. FirstDifference(a, b) = Max(top)
    BY <1>4 DEF FirstDifference, short
  <2> QED
    BY <1>2, <2>2, <2>3
<1> QED
  BY <1>3, <1>4

LEMMA EditsType ==
  ASSUME Known(vcr)
  PROVE  Edits \subseteq Inputs
<1>1. vcr.inputs \in Seq(Keys \cup {"reset", "garbage"}) /\ Len(vcr.inputs) \in Nat
  BY LenProperties DEF Known, Globals, Inputs
<1>2. FirstEdit \in Nat
  BY MovieAssumption
<1>3. ASSUME NEW i \in FirstEdit .. Len(vcr.inputs), NEW key \in Keys
      PROVE  ReplaceAt(vcr.inputs, i, key) \in Inputs
  <2>1. ReplaceAt(vcr.inputs, i, key) \in Seq(Keys \cup {"reset", "garbage"})
    <3> DEFINE S == Keys \cup {"reset", "garbage"}
               n == Len(vcr.inputs)
    <3> HIDE DEF S
    <3>1. vcr.inputs \in [1 .. n -> S] /\ n \in Nat
      BY <1>1, LenProperties DEF S
    <3>2. ReplaceAt(vcr.inputs, i, key) \in [1 .. n -> S]
      BY <3>1 DEF ReplaceAt, S
    <3> QED
      BY <3>1, <3>2, SeqDef DEF S
  <2> QED
    BY <2>1 DEF Inputs
<1>4. ASSUME NEW n \in FirstEdit .. Len(vcr.inputs) PROVE Prefix(vcr.inputs, n) \in Inputs
  <2>1. n \in Nat
    BY <1>1, <1>2
  <2> QED
    BY <2>1, PrefixType DEF Known, Globals
<1> QED
  BY <1>3, <1>4 DEF Edits

LEMMA SeekInterval ==
  ASSUME NEW v, Known(v), NEW s, SeekBack(v, s) \/ SeekFromStart(v, s) \/ SeekForward(v, s)
  PROVE  s.v.interval = v.interval
<1>1. CASE SeekBack(v, s) \/ SeekForward(v, s)
  BY <1>1 DEF SeekBack, SeekForward, Only, Fields
<1>2. CASE SeekFromStart(v, s)
  <2>1. PICK r : /\ Known(r) /\ Only(v, r, {"seek", "pauseEnd", "paused"})
                 /\ Only(StartedPlayback(r), s.v, {"seek"})
    BY <1>2 DEF SeekFromStart
  <2>2. /\ Only(r, MovieRead(r), MovieFields)
        /\ Only(MovieRead(r), StartedPlayback(r), {"sample", "task"})
    BY <2>1, MovieReadType, StartedPlaybackType
  <2> QED
    BY <2>1, <2>2 DEF Only, Fields, MovieFields
<1> QED
  BY <1>1, <1>2

LEMMA TypesBeginSeek ==
  ASSUME TypesOK, BeginSeek
  PROVE  TypesOK'
<1>1. PICK frame \in 1 .. MaxFrames - 1, pauseEnd \in BOOLEAN :
        LET s == Seek(vcr, frame, pauseEnd, TRUE, FALSE, 0)
        IN  vcr' = s.v /\ async' = async \o s.jobs
  BY DEF BeginSeek
<1> DEFINE s == Seek(vcr, frame, pauseEnd, TRUE, FALSE, 0)
<1>2. vcr' = s.v /\ async' = async \o s.jobs
  BY <1>1
<1>3. frame \in Nat \ {0}
  BY MovieAssumption
<1>4. Known(s.v) /\ s.jobs \in Seq(Job) /\ (SeekBack(vcr, s) \/ SeekFromStart(vcr, s) \/ SeekForward(vcr, s))
  BY <1>3, SeekType DEF TypesOK
<1> HIDE DEF s
<1>5. s.v.interval = vcr.interval
  BY <1>4, SeekInterval DEF TypesOK
<1>6. async' \in Seq(Job)
  BY <1>2, <1>4 DEF TypesOK
<1>7. UNCHANGED <<slots, machine, emu, working, misled, session, g_tasks, recorder>>
  BY RequestUnchanged DEF BeginSeek
<1> QED
  BY <1>2, <1>4, <1>5, <1>6, <1>7 DEF TypesOK

\* What an edit writes: the inputs alone, or a seek back with them.
Edited(s, w, first, new) ==
  w = [s EXCEPT !.warp = TRUE, !.first = first, !.inputs = new, !.paused = FALSE]

LEMMA EditedType ==
  ASSUME NEW v, Known(v), NEW first \in Nat, NEW new \in Inputs, NEW w, Edited(v, w, first, new)
  PROVE  Known(w) /\ Only(v, w, {"warp", "first", "inputs", "paused"}) /\ w.inputs = new
<1>1. w \in Globals /\ w.states = v.states /\ Only(v, w, {"warp", "first", "inputs", "paused"})
      /\ w.inputs = new
  BY DEF Edited, Known, Globals, Only, Fields
<1> QED
  BY <1>1 DEF Known

LEMMA TypesWarpModify ==
  ASSUME TypesOK, WarpModify
  PROVE  TypesOK'
<1>0. Known(vcr) /\ Edits \subseteq Inputs /\ Len(vcr.inputs) \in Nat /\ vcr.sample \in Nat
  BY EditsType, LenProperties DEF TypesOK, Known, Globals, Inputs
<1>1. PICK new \in Edits \ {vcr.inputs, <<>>} :
        LET first  == FirstDifference(vcr.inputs, new)
            target == Min({Len(new), vcr.sample})
            s      == Seek(vcr, target, TRUE, FALSE, TRUE, first)
        IN  IF first > vcr.sample
            THEN vcr' = [vcr EXCEPT !.inputs = new] /\ UNCHANGED async
            ELSE /\ ~SeekRejected(vcr, target, TRUE)
                 /\ vcr' = [s.v EXCEPT !.warp = TRUE, !.first = first,
                                       !.inputs = new, !.paused = FALSE]
                 /\ async' = async \o s.jobs
  BY DEF WarpModify
<1> DEFINE first  == FirstDifference(vcr.inputs, new)
           target == Min({Len(new), vcr.sample})
           s      == Seek(vcr, target, TRUE, FALSE, TRUE, first)
<1>2. new \in Inputs /\ Len(new) \in Nat
  BY <1>0, LenProperties DEF Inputs
<1>3. first \in Nat
  BY <1>0, <1>2, FirstDifferenceType DEF Known, Globals
<1>4. UNCHANGED <<slots, machine, emu, working, misled, session, g_tasks, recorder>>
  BY RequestUnchanged DEF WarpModify
<1>5. CASE first > vcr.sample
  <2>1. vcr' = [vcr EXCEPT !.inputs = new] /\ UNCHANGED async
    BY <1>1, <1>5
  <2> HIDE DEF first, s
  <2>2. vcr' \in Globals /\ vcr'.states = vcr.states /\ vcr'.interval = vcr.interval
    BY <1>0, <1>2, <2>1 DEF Known, Globals
  <2> QED
    BY <1>4, <2>1, <2>2 DEF TypesOK, Known
<1>6. CASE ~ (first > vcr.sample)
  <2>1. ~SeekRejected(vcr, target, TRUE) /\ Edited(s.v, vcr', first, new) /\ async' = async \o s.jobs
    BY <1>1, <1>6 DEF Edited
  <2>2. target \in Nat \ {0}
    <3>1. target \in Nat
      BY <1>0, <1>2, MinOfTwo
    <3>2. 0 < target
      BY <2>1 DEF SeekRejected, CanSeekTo
    <3> QED
      BY <3>1, <3>2
  <2>3. Known(s.v) /\ s.jobs \in Seq(Job)
        /\ (SeekBack(vcr, s) \/ SeekFromStart(vcr, s) \/ SeekForward(vcr, s))
    BY <1>0, <1>3, <2>2, SeekType
  <2> HIDE DEF first, target, s
  <2>4. s.v.interval = vcr.interval
    BY <1>0, <2>3, SeekInterval
  <2>5. Known(vcr') /\ vcr'.interval = s.v.interval
    BY <1>2, <1>3, <2>1, <2>3, EditedType DEF Only, Fields
  <2>6. async' \in Seq(Job)
    BY <2>1, <2>3 DEF TypesOK
  <2> QED
    BY <1>4, <2>4, <2>5, <2>6 DEF TypesOK
<1> QED
  BY <1>5, <1>6

LEMMA TypesStep ==
  ASSUME TypesOK, [Next]_vars
  PROVE  TypesOK'
<1>1. CASE UNCHANGED vars
  BY <1>1 DEF vars, TypesOK, Known
<1>2. CASE Next
  BY <1>2, TypesWork, TypesPoll, TypesJobs, TypesRecord, TypesSimple, TypesBeginSeek, TypesWarpModify
     DEF Next, Emulation, Jobs, User
<1> QED
  BY <1>1, <1>2

LEMMA TypesInvariant == Spec => []TypesOK
<1> QED
  BY TypesInit, TypesStep, PTL DEF Spec

\* The stated type invariant follows.
LEMMA TypesGiveTypeOK ==
  ASSUME TypesOK
  PROVE  TypeOK
<1> DEFINE R == [job : {"Save", "Load"}, medium : {"slot", "path", "memory"},
                 slot : Slots \cup {0}, frame : Nat, st : States \cup {<<>>},
                 cb : {"user", "seekSave", "seekLoad", "record", "recordExisting", "play"}]
<1>1. Task \subseteq R
  BY DEF Task, UserTask, FileTask, SeekTask
<1>2. g_tasks \in Seq(R)
  <2> HIDE DEF R
  <2>1. g_tasks \in Seq(Task)
    BY DEF TypesOK
  <2>2. Len(g_tasks) \in Nat /\ DOMAIN g_tasks = 1 .. Len(g_tasks)
        /\ \A i \in 1 .. Len(g_tasks) : g_tasks[i] \in R
    BY <1>1, <2>1, LenProperties, ElementOfSeq
  <2>3. g_tasks \in [1 .. Len(g_tasks) -> R]
    BY <2>1, <2>2
  <2> QED
    BY <2>2, <2>3, SeqDef
<1>3. \A i \in DOMAIN async : async[i].op \in {"restart", "loadFile", "slot", "seekLoad"}
  <2>1. \A i \in DOMAIN async : async[i] \in Job
    BY LenProperties, ElementOfSeq DEF TypesOK
  <2> QED
    BY <2>1 DEF Job
<1>4. \A k \in DOMAIN vcr.states : k \in Nat /\ vcr.states[k] \in States
  <2>1. PICK K \in SUBSET Nat : vcr.states \in [K -> States]
    BY DEF TypesOK, Known, Globals, StateMaps
  <2> QED
    BY <2>1
<1>5. vcr \in [task : Starting \cup {"idle", "recording", "playback",
                 "start_recording_from_snapshot", "start_playback_from_snapshot",
                 "start_recording_from_existing_snapshot"},
               uid : Nat, start : {"reset", "snapshot"}, origin : Machines,
               inputs : Inputs, sample : Nat, readonly : BOOLEAN,
               seek : Nat \cup {NoFrame}, pauseEnd : BOOLEAN, loading : BOOLEAN,
               reset : BOOLEAN, askedReset : BOOLEAN, warp : BOOLEAN, first : Nat,
               interval : {session.interval}, states : {vcr.states},
               paused : BOOLEAN, movies : Nat, file : Movies, st : States]
  BY DEF TypesOK, Known, Globals, VcrTasks
<1> QED
  BY <1>2, <1>3, <1>4, <1>5 DEF TypeOK, TypesOK

\* Every variable keeps the type the code gives it: no handler, callback or job
\* leaves a position below zero, a task of no known job or a movie without its
\* inputs, however the threads' steps interleave.
THEOREM TypesHold == Spec => []TypeOK
<1> QED
  BY TypesInvariant, TypesGiveTypeOK, PTL

-----------------------------------------------------------------------------
(* What is waiting, and how often.                                         *)

LEMMA AbsentPart ==
  ASSUME NEW U, NEW q \in Seq(U), NEW r \in Seq(U), Part(q, r), NEW S, Absent(q, S)
  PROVE  Absent(r, S)
<1>1. PICK f \in [1 .. Len(r) -> 1 .. Len(q)] :
        /\ \A i, j \in 1 .. Len(r) : f[i] = f[j] => i = j
        /\ \A i \in 1 .. Len(r) : r[i] = q[f[i]]
  BY DEF Part
<1>2. DOMAIN q = 1 .. Len(q) /\ DOMAIN r = 1 .. Len(r)
  BY LenProperties
<1> QED
  BY <1>1, <1>2 DEF Absent

LEMMA UniquePart ==
  ASSUME NEW U, NEW q \in Seq(U), NEW r \in Seq(U), Part(q, r), NEW S, Unique(q, S)
  PROVE  Unique(r, S)
<1>1. PICK f \in [1 .. Len(r) -> 1 .. Len(q)] :
        /\ \A i, j \in 1 .. Len(r) : f[i] = f[j] => i = j
        /\ \A i \in 1 .. Len(r) : r[i] = q[f[i]]
  BY DEF Part
<1>2. DOMAIN q = 1 .. Len(q) /\ DOMAIN r = 1 .. Len(r)
  BY LenProperties
<1> QED
  BY <1>1, <1>2 DEF Unique

LEMMA AbsentSubset ==
  ASSUME NEW q, NEW S, NEW T, Absent(q, S), T \subseteq S
  PROVE  Absent(q, T)
BY DEF Absent

LEMMA AbsentUnique ==
  ASSUME NEW q, NEW S, Absent(q, S)
  PROVE  Unique(q, S)
BY DEF Absent, Unique

LEMMA NoneWaiting ==
  ASSUME NEW S
  PROVE  Absent(<<>>, S) /\ Unique(<<>>, S)
BY DEF Absent, Unique

LEMMA AppendWaiting ==
  ASSUME NEW U, NEW q \in Seq(U), NEW x \in U
  PROVE  /\ Append(q, x) \in Seq(U)
         /\ \A S : Absent(q, S) /\ x \notin S => Absent(Append(q, x), S)
         /\ \A S : Unique(q, S) /\ x \notin S => Unique(Append(q, x), S)
         /\ \A S : Absent(q, S) => Unique(Append(q, x), S)
<1> DEFINE n == Len(q)
           r == Append(q, x)
<1>1. n \in Nat /\ DOMAIN q = 1 .. n
  BY LenProperties
<1>2. /\ r \in Seq(U) /\ Len(r) = n + 1 /\ r[n + 1] = x
      /\ \A i \in 1 .. n : r[i] = q[i]
  BY AppendProperties
<1>3. DOMAIN r = 1 .. n + 1
  BY <1>2, LenProperties
<1> HIDE DEF r, n
<1>4. \A i \in DOMAIN r : i = n + 1 \/ (i \in DOMAIN q /\ r[i] = q[i])
  BY <1>1, <1>2, <1>3
<1> QED
  BY <1>2, <1>4 DEF Absent, Unique, r

LEMMA PushWaiting ==
  ASSUME NEW U, NEW q \in Seq(U), NEW x \in U
  PROVE  /\ <<x>> \o q \in Seq(U)
         /\ \A S : Absent(q, S) /\ x \notin S => Absent(<<x>> \o q, S)
         /\ \A S : Unique(q, S) /\ x \notin S => Unique(<<x>> \o q, S)
         /\ \A S : Absent(q, S) => Unique(<<x>> \o q, S)
<1> DEFINE n == Len(q)
           r == <<x>> \o q
<1>1. n \in Nat /\ DOMAIN q = 1 .. n
  BY LenProperties
<1>2. r \in Seq(U) /\ Len(r) = 1 + n
      /\ \A i \in 1 .. 1 + n : r[i] = IF i <= 1 THEN x ELSE q[i - 1]
  OBVIOUS
<1>3. DOMAIN r = 1 .. 1 + n
  BY <1>2, LenProperties
<1> HIDE DEF r, n
<1>4. \A i \in DOMAIN r : i \in Nat /\ ((i = 1 /\ r[i] = x) \/ (i - 1 \in DOMAIN q /\ r[i] = q[i - 1]))
  BY <1>1, <1>2, <1>3
<1>5. ASSUME NEW S, Absent(q, S), x \notin S PROVE Absent(r, S)
  BY <1>4, <1>5 DEF Absent
<1>6. ASSUME NEW S, Unique(q, S), x \notin S PROVE Unique(r, S)
  <2> SUFFICES ASSUME NEW i \in DOMAIN r, NEW j \in DOMAIN r, r[i] \in S, r[j] \in S PROVE i = j
    BY DEF Unique
  <2>1. i - 1 \in DOMAIN q /\ q[i - 1] \in S /\ j - 1 \in DOMAIN q /\ q[j - 1] \in S
    BY <1>4, <1>6
  <2>2. i - 1 = j - 1
    BY <2>1, <1>6 DEF Unique
  <2> QED
    BY <1>4, <2>2
<1>7. ASSUME NEW S, Absent(q, S) PROVE Unique(r, S)
  <2> SUFFICES ASSUME NEW i \in DOMAIN r, NEW j \in DOMAIN r, r[i] \in S, r[j] \in S PROVE i = j
    BY DEF Unique
  <2> QED
    BY <1>4, <1>7 DEF Absent
<1> QED
  BY <1>2, <1>5, <1>6, <1>7 DEF r

LEMMA TailWaiting ==
  ASSUME NEW U, NEW q \in Seq(U), q # <<>>, NEW S
  PROVE  /\ Absent(q, S) => Head(q) \notin S
         /\ Unique(q, S) /\ Head(q) \in S => Absent(Tail(q), S)
<1>1. /\ Head(q) = q[1] /\ 1 \in DOMAIN q
      /\ \A k \in DOMAIN Tail(q) : k + 1 \in DOMAIN q /\ Tail(q)[k] = q[k + 1]
  BY TailIsPart
<1>2. \A k \in DOMAIN Tail(q) : k + 1 # 1
  <2>1. Tail(q) \in Seq(U)
    BY TailIsPart
  <2>2. DOMAIN Tail(q) = 1 .. Len(Tail(q)) /\ Len(Tail(q)) \in Nat
    BY <2>1, LenProperties
  <2> QED
    BY <2>2
<1> QED
  BY <1>1, <1>2 DEF Absent, Unique

LEMMA RemoveWaiting ==
  ASSUME NEW U, NEW q \in Seq(U), NEW j \in DOMAIN q, NEW S
  PROVE  /\ Absent(q, S) => q[j] \notin S
         /\ Unique(q, S) /\ q[j] \in S => Absent(RemoveAt(q, j), S)
BY RemoveAtIsPart DEF Absent, Unique

LEMMA OrderPart ==
  ASSUME NEW task, NEW reset, NEW loading, NEW rec, NEW s,
         NEW a \in Seq(Job), NEW a2 \in Seq(Job), NEW g \in Seq(Task), NEW g2 \in Seq(Task),
         Order(task, reset, loading, rec, s, a, g), Part(a, a2), Part(g, g2)
  PROVE  Order(task, reset, loading, rec, s, a2, g2)
<1>1. \A S : (Absent(a, S) => Absent(a2, S)) /\ (Unique(a, S) => Unique(a2, S))
  BY AbsentPart, UniquePart
<1>2. \A S : (Absent(g, S) => Absent(g2, S)) /\ (Unique(g, S) => Unique(g2, S))
  BY AbsentPart, UniquePart
<1> USE DEF Order
<1>3. RestartOK(task, reset, a2)
  BY <1>1 DEF RestartOK
<1>4. StartOK(task, rec, a2, g2)
  BY <1>1, <1>2 DEF StartOK
<1>5. LoadingOK(task, loading, a2, g2)
  BY <1>1, <1>2 DEF LoadingOK
<1>6. SlotsOK(task, s, a2, g2)
  BY <1>1, <1>2 DEF SlotsOK
<1> QED
  BY <1>3, <1>4, <1>5, <1>6

\* A movie that runs or is over may become another such.
LEMMA OrderRuns ==
  ASSUME NEW task, NEW task2, NEW reset, NEW loading, NEW rec, NEW s, NEW a, NEW g,
         Order(task, reset, loading, rec, s, a, g), task2 \notin Starts,
         task \notin Starts \/ (Absent(a, LoadFiles) /\ Absent(g, StartTasks) /\ ~rec
                               /\ Absent(a, BadRestarts("idle")))
  PROVE  Order(task2, reset, loading, rec, s, a, g)
<1> DEFINE Kept == /\ Absent(a, BadRestarts(task2)) /\ Absent(a, BadLoadFiles(task2))
                   /\ Absent(g, BadStarts(task2)) /\ ~rec
<1>1. /\ BadRestarts(task2) \subseteq BadRestarts("idle")
      /\ BadLoadFiles(task2) \subseteq LoadFiles /\ BadStarts(task2) \subseteq StartTasks
  BY DEF BadRestarts, BadLoadFiles, BadStarts, Starting
<1>2. ASSUME task \notin Starts
      PROVE  /\ BadRestarts(task2) \subseteq BadRestarts(task)
             /\ BadLoadFiles(task2) \subseteq BadLoadFiles(task)
             /\ BadStarts(task2) \subseteq BadStarts(task)
             /\ StartTask("record") # task
  <2>1. \A t \in Starting : t # task
    BY <1>2 DEF Starts
  <2>2. \A cb \in StartCbs : StartTask(cb) # task
    BY <1>2 DEF Starts
  <2>3. \A j \in LoadFiles : j.arg \in StartCbs
    BY DEF LoadFiles, Job, StartCbs
  <2> QED
    BY <2>1, <2>2, <2>3 DEF BadRestarts, BadLoadFiles, BadStarts, StartTasks, StartCbs
<1>3. ASSUME task \notin Starts PROVE Kept
  BY <1>2, <1>3, AbsentSubset DEF Order, RestartOK, StartOK
<1>4. ASSUME task \in Starts PROVE Kept
  BY <1>1, <1>4, AbsentSubset
<1>5. Kept
  BY <1>3, <1>4
<1>6. RestartOK(task2, reset, a)
  BY <1>5 DEF Order, RestartOK
<1>7. StartOK(task2, rec, a, g)
  BY <1>5 DEF Order, StartOK
<1>8. LoadingOK(task2, loading, a, g)
  BY DEF Order, LoadingOK
<1>9. SlotsOK(task2, s, a, g)
  BY DEF Order, SlotsOK
<1> QED
  BY <1>6, <1>7, <1>8, <1>9 DEF Order

LEMMA StartTasksAre ==
  /\ StartTask("record") = "start_recording_from_snapshot"
  /\ StartTask("recordExisting") = "start_recording_from_existing_snapshot"
  /\ StartTask("play") = "start_playback_from_snapshot"
  /\ Starts = {"start_recording_from_reset", "start_playback_from_reset",
               "start_recording_from_snapshot", "start_recording_from_existing_snapshot",
               "start_playback_from_snapshot"}
<1>1. /\ StartTask("record") = "start_recording_from_snapshot"
      /\ StartTask("recordExisting") = "start_recording_from_existing_snapshot"
      /\ StartTask("play") = "start_playback_from_snapshot"
  BY DEF StartTask
<1>2. {StartTask(cb) : cb \in StartCbs} =
        {StartTask("record"), StartTask("recordExisting"), StartTask("play")}
  BY DEF StartCbs
<1> QED
  BY <1>1, <1>2 DEF Starts, Starting

LEMMA OrderNone ==
  ASSUME NEW task, NEW reset, NEW rec, NEW s, rec => task = StartTask("record")
  PROVE  Order(task, reset, FALSE, rec, s, <<>>, <<>>)
BY NoneWaiting DEF Order, RestartOK, StartOK, LoadingOK, SlotsOK

LEMMA OrderSeekSave ==
  ASSUME NEW task, NEW reset, NEW loading, NEW rec, NEW s, NEW a \in Seq(Job), NEW g \in Seq(Task),
         NEW g2, NEW n \in Nat, Order(task, reset, loading, rec, s, a, g),
         g2 \in {<<>> \o g, <<Memory("Save", n, NoState, "seekSave")>> \o g}
  PROVE  Order(task, reset, loading, rec, s, a, g2)
<1> DEFINE t == Memory("Save", n, NoState, "seekSave")
<1>1. t \in Task
  BY NewTasks, NothingTypes
<1>2. t.cb = "seekSave"
  BY DEF Memory
<1> HIDE DEF t
<1>3. t \notin StartTasks /\ t \notin SeekLoads /\ t \notin SlotTasks
      /\ \A task2 : t \notin BadStarts(task2)
  BY <1>2 DEF StartTasks, SeekLoads, SlotTasks, BadStarts, StartCbs
<1>4. CASE g2 = <<>> \o g
  <2>1. g2 = g
    BY <1>4
  <2> QED
    BY <2>1
<1>5. CASE g2 = <<t>> \o g
  <2>1. \A S : t \notin S => /\ Absent(g, S) => Absent(g2, S)
                             /\ Unique(g, S) => Unique(g2, S)
    BY <1>1, <1>5, PushWaiting
  <2>2. StartOK(task, rec, a, g2)
    BY <1>3, <2>1 DEF Order, StartOK
  <2>3. LoadingOK(task, loading, a, g2)
    BY <1>3, <2>1 DEF Order, LoadingOK
  <2>4. SlotsOK(task, s, a, g2)
    BY <1>3, <2>1 DEF Order, SlotsOK
  <2> QED
    BY <2>2, <2>3, <2>4 DEF Order
<1> QED
  BY <1>4, <1>5 DEF t

LEMMA OrderRestart ==
  ASSUME NEW task, NEW loading, NEW rec, NEW s, NEW a \in Seq(Job), NEW g \in Seq(Task),
         Order(task, FALSE, loading, rec, s, a, g),
         NEW arg \in Starting \cup {"recording", "playback"}, arg \in Starting => arg = task
  PROVE  Order(task, TRUE, loading, rec, s, Append(a, [op |-> "restart", arg |-> arg]), g)
<1> DEFINE j == [op |-> "restart", arg |-> arg]
           b == Append(a, j)
<1>1. j \in Job /\ j.op = "restart" /\ j.arg = arg
  BY RestartJobs
<1> HIDE DEF j
<1>2. /\ j \notin LoadFiles /\ j \notin SeekJobs /\ j \notin SlotJobs
      /\ j \notin BadRestarts(task) /\ j \notin BadLoadFiles(task)
  BY <1>1 DEF LoadFiles, SeekJobs, SlotJobs, BadRestarts, BadLoadFiles
<1>3. /\ \A S : j \notin S => (Absent(a, S) => Absent(b, S)) /\ (Unique(a, S) => Unique(b, S))
      /\ \A S : Absent(a, S) => Unique(b, S)
  BY <1>1, AppendWaiting
<1> HIDE DEF b
<1>4. RestartOK(task, TRUE, b)
  BY <1>2, <1>3 DEF Order, RestartOK
<1>5. StartOK(task, rec, b, g)
  BY <1>2, <1>3 DEF Order, StartOK
<1>6. LoadingOK(task, loading, b, g)
  BY <1>2, <1>3 DEF Order, LoadingOK
<1>7. SlotsOK(task, s, b, g)
  BY <1>2, <1>3 DEF Order, SlotsOK
<1>8. Order(task, TRUE, loading, rec, s, b, g)
  BY <1>4, <1>5, <1>6, <1>7 DEF Order
<1> QED
  BY <1>8 DEF b, j

\* What a save, and a load that fails or succeeds, do to the movie's state.
LEMMA SaveEffect ==
  ASSUME TypesOK, WorkSave, NEW t, t = Head(g_tasks)
  PROVE  /\ t \in Task /\ t.cb \in {"record", "seekSave", "user"}
         /\ vcr'.reset = vcr.reset /\ vcr'.loading = vcr.loading
         /\ vcr'.task = IF t.cb = "record" THEN "recording" ELSE vcr.task
<1> DEFINE st == [mach |-> machine, frz |-> Freeze(vcr)]
           w  == IF t.cb = "record" THEN [vcr EXCEPT !.origin = machine] ELSE vcr
           v  == WriteMovie(w)
           x  == IF t.medium = "path" THEN [v EXCEPT !.st = st] ELSE v
<1>1. t \in Task /\ t.job = "Save"
  BY HeadType DEF WorkSave, Working
<1>2. t.cb \in {"record", "seekSave", "user"} /\ (t.cb = "seekSave" => t.frame \in Nat)
  BY <1>1, TaskCases
<1>3. st \in States
  BY FreezeType DEF States, Frozen, Known, TypesOK
<1> HIDE DEF st
<1>4. /\ w \in Globals /\ w.states = vcr.states
      /\ w.task = vcr.task /\ w.reset = vcr.reset /\ w.loading = vcr.loading
  BY DEF Known, Globals, TypesOK
<1>5. Known(w)
  BY <1>4 DEF Known, TypesOK
<1> HIDE DEF w
<1>6. Known(v) /\ Only(w, v, {"file"})
  BY <1>5, WriteMovieType
<1>7. v.task = vcr.task /\ v.reset = vcr.reset /\ v.loading = vcr.loading
  BY <1>4, <1>6 DEF Only, Fields
<1> HIDE DEF v
<1>8. /\ x \in Globals /\ x.states = v.states
      /\ x.task = v.task /\ x.reset = v.reset /\ x.loading = v.loading
  BY <1>3, <1>6 DEF Known, Globals
<1>9. Known(x)
  BY <1>6, <1>8 DEF Known
<1> HIDE DEF x
<1>10. vcr' = Succeeded(x, t, st)
  BY DEF WorkSave, x, v, w, st
<1>11. /\ t.cb = "seekSave" => Only(x, vcr', {"states"})
       /\ t.cb = "record" => Only(x, vcr', {"task"}) /\ vcr'.task = "recording"
       /\ t.cb = "user" => vcr' = x
  BY <1>2, <1>3, <1>9, <1>10, SucceededType DEF StartCbs
<1>12. /\ vcr'.reset = x.reset /\ vcr'.loading = x.loading
       /\ vcr'.task = IF t.cb = "record" THEN "recording" ELSE x.task
  BY <1>2, <1>11 DEF Only, Fields
<1> QED
  BY <1>1, <1>2, <1>7, <1>8, <1>12

LEMMA LoadFailsEffect ==
  ASSUME TypesOK, WorkLoadFails, NEW t, t = Head(g_tasks)
  PROVE  /\ t \in Task /\ t.cb \in StartCbs \cup {"seekLoad", "user"}
         /\ vcr'.reset = vcr.reset
         /\ t.cb = "seekLoad" => vcr'.task = vcr.task /\ ~vcr'.loading
         /\ t.cb \in StartCbs => vcr' = StopAll(vcr) /\ vcr'.loading = vcr.loading
              /\ vcr'.task \in {vcr.task, "idle"}
         /\ t.cb = "user" => vcr' = vcr
<1>1. t \in Task /\ t.job = "Load" /\ vcr' = Failed(vcr, t) /\ Known(vcr)
  BY HeadType DEF WorkLoadFails, Working, TypesOK
<1>2. t.cb \in StartCbs \cup {"seekLoad", "user"}
  BY <1>1, TaskCases DEF StartCbs
<1>3. /\ Only(vcr, vcr', {"loading", "seek", "warp", "states", "task", "file", "st"})
      /\ t.cb = "seekLoad" => Only(vcr, vcr', {"loading", "seek", "warp"}) /\ ~vcr'.loading
      /\ t.cb \in StartCbs => vcr' = StopAll(vcr)
      /\ t.cb \notin StartCbs \cup {"seekLoad"} => vcr' = vcr
  BY <1>1, FailedType
<1>4. Only(vcr, StopAll(vcr), {"states", "task", "file", "st"})
      /\ StopAll(vcr).task \in {vcr.task, "idle"}
  BY <1>1, StopAllType
<1>5. StopAll(vcr).loading = vcr.loading
  BY <1>4 DEF Only, Fields
<1>6. vcr'.reset = vcr.reset
  BY <1>3 DEF Only, Fields
<1>7. t.cb = "seekLoad" => vcr'.task = vcr.task /\ ~vcr'.loading
  BY <1>3 DEF Only, Fields
<1>8. t.cb \in StartCbs => vcr' = StopAll(vcr) /\ vcr'.loading = vcr.loading
        /\ vcr'.task \in {vcr.task, "idle"}
  BY <1>3, <1>4, <1>5
<1>9. t.cb = "user" => vcr' = vcr
  BY <1>3 DEF StartCbs
<1> QED
  BY <1>1, <1>2, <1>6, <1>7, <1>8, <1>9

LEMMA LoadEffect ==
  ASSUME TypesOK, WorkLoad, NEW t, t = Head(g_tasks)
  PROVE  /\ t \in Task /\ t.cb \in StartCbs \cup {"seekLoad", "user"}
         /\ vcr'.reset = vcr.reset
         /\ vcr'.loading = IF t.cb = "seekLoad" THEN FALSE ELSE vcr.loading
         /\ vcr'.task \in {vcr.task, "recording", "playback"}
         /\ t.cb \in StartCbs => vcr'.task \in {"recording", "playback"}
<1> DEFINE st == Source(t)
           v  == IF CanUnfreeze(vcr, st.frz) THEN Unfreeze(vcr, st.frz) ELSE vcr
           u  == Succeeded(v, t, st)
<1>1. t \in Task /\ t.job = "Load" /\ Known(vcr)
  BY HeadType DEF WorkLoad, Working, TypesOK
<1>2. t.cb \in StartCbs \cup {"seekLoad", "user"} /\ t.cb # "seekSave"
  BY <1>1, TaskCases DEF StartCbs
<1>3. st \in States
  BY <1>1, SourceType
<1> HIDE DEF st
<1>4. st.frz \in Frozen
  BY <1>3 DEF States, Frozen
<1>5. vcr' = u
  BY DEF WorkLoad, st
<1> DEFINE uf == Unfreeze(vcr, st.frz)
<1>6. Known(uf) /\ Only(vcr, uf, {"sample", "task", "inputs", "file"}) /\ uf.task \in {"recording", "playback"}
  BY <1>1, <1>4, UnfreezeType
<1>7. Known(v) /\ v.reset = vcr.reset /\ v.loading = vcr.loading
      /\ v.task \in {vcr.task, "recording", "playback"}
  BY <1>1, <1>6 DEF Only, Fields
<1> HIDE DEF v
<1>8. /\ t.cb = "seekLoad" => Only(v, u, {"loading"}) /\ ~u.loading
      /\ t.cb \in StartCbs => Only(v, u, {"task"}) /\ u.task \in {"recording", "playback"}
      /\ t.cb = "user" => u = v
  <2>1. /\ t.cb = "seekLoad" => Only(v, u, {"loading"}) /\ ~u.loading
        /\ t.cb \in StartCbs => Only(v, u, {"task"}) /\ u.task = IF t.cb = "play" THEN "playback" ELSE "recording"
        /\ t.cb \notin StartCbs \cup {"seekLoad", "seekSave"} => u = v
    BY <1>2, <1>3, <1>7, SucceededType
  <2> QED
    BY <2>1 DEF StartCbs
<1>9. Known(u)
  BY <1>2, <1>3, <1>7, SucceededType
<1> HIDE DEF u
<1>10. u.reset = v.reset
  BY <1>2, <1>8 DEF Only, Fields
<1>11. u.task \in {v.task, "recording", "playback"}
  BY <1>2, <1>8 DEF Only, Fields
<1>12. u.loading = IF t.cb = "seekLoad" THEN FALSE ELSE v.loading
  <2>1. CASE t.cb = "seekLoad"
    <3>1. u.loading \in BOOLEAN /\ ~u.loading
      BY <1>8, <1>9, <2>1 DEF Known, Globals
    <3> QED
      BY <2>1, <3>1
  <2>2. CASE t.cb # "seekLoad"
    <3>1. u.loading = v.loading
      BY <1>2, <1>8, <2>2 DEF Only, Fields
    <3> QED
      BY <2>2, <3>1
  <2> QED
    BY <2>1, <2>2
<1> QED
  BY <1>1, <1>2, <1>5, <1>7, <1>8, <1>10, <1>11, <1>12

LEMMA OrderWork ==
  ASSUME TypesOK, OrderOK, WorkBegin \/ WorkSave \/ WorkLoadFails \/ WorkLoad \/ WorkEnd \/ WorkNone
  PROVE  OrderOK'
<1>0. async \in Seq(Job) /\ g_tasks \in Seq(Task) /\ Known(vcr)
      /\ Part(async, async) /\ Part(g_tasks, g_tasks)
  BY PartReflexive DEF TypesOK
<1>1. CASE WorkBegin \/ WorkEnd \/ WorkNone
  <2>1. g_tasks' \in Seq(Task) /\ Part(g_tasks, g_tasks')
    BY <1>0, <1>1, SimplifyIsPart DEF WorkBegin, WorkEnd, WorkNone
  <2>2. UNCHANGED <<vcr, async, recorder, session>>
    BY <1>1 DEF WorkBegin, WorkEnd, WorkNone
  <2>3. Order(vcr.task, vcr.reset, vcr.loading, recorder, session, async, g_tasks')
    BY <1>0, <2>1, OrderPart DEF OrderOK
  <2> QED
    BY <2>2, <2>3 DEF OrderOK
<1>2. CASE WorkSave \/ WorkLoadFails \/ WorkLoad
  <2> DEFINE t == Head(g_tasks)
  <2>1. g_tasks # <<>> /\ g_tasks' = Tail(g_tasks) /\ UNCHANGED <<async, recorder, session>>
    BY <1>2 DEF WorkSave, WorkLoadFails, WorkLoad, Working
  <2>2. t \in Task /\ g_tasks' \in Seq(Task) /\ Part(g_tasks, g_tasks')
    BY <1>0, <2>1, TailIsPart
  <2>3. Order(vcr.task, vcr.reset, vcr.loading, recorder, session, async, g_tasks')
    BY <1>0, <2>2, OrderPart DEF OrderOK
  <2> HIDE DEF t
  <2>4. ASSUME t \in StartTasks
        PROVE  /\ vcr.task = StartTask(t.cb) /\ vcr.task \in Starts /\ ~recorder
               /\ Absent(async, LoadFiles) /\ Absent(g_tasks', StartTasks)
               /\ Absent(async, BadRestarts("idle")) /\ ~vcr.loading
    <3>1. \A S : /\ Absent(g_tasks, S) => t \notin S
                 /\ Unique(g_tasks, S) /\ t \in S => Absent(g_tasks', S)
      BY <1>0, <2>1, TailWaiting DEF t
    <3>2. t \notin BadStarts(vcr.task) /\ Absent(g_tasks', StartTasks)
          /\ ~Absent(g_tasks, StartTasks)
      BY <2>4, <3>1 DEF OrderOK, Order, StartOK
    <3>3. vcr.task = StartTask(t.cb) /\ t.cb \in StartCbs
      BY <2>4, <3>2 DEF BadStarts, StartTasks
    <3>4. vcr.task \in Starts
      BY <3>3 DEF Starts
    <3>5. Absent(async, LoadFiles) /\ ~recorder
      BY <3>2 DEF OrderOK, Order, StartOK
    <3>6. vcr.task \notin Starting
      BY <3>3, StartTasksAre DEF StartCbs, Starting
    <3>7. BadRestarts("idle") \subseteq BadRestarts(vcr.task)
      BY <3>6 DEF BadRestarts
    <3>8. Absent(async, BadRestarts("idle")) /\ ~vcr.loading
      BY <3>4, <3>7, AbsentSubset DEF OrderOK, Order, RestartOK, LoadingOK
    <3> QED
      BY <3>2, <3>3, <3>4, <3>5, <3>8
  <2>5. ASSUME t \in StartTasks, NEW task2, task2 \notin Starts
        PROVE  Order(task2, vcr.reset, vcr.loading, recorder, session, async, g_tasks')
    BY <2>3, <2>4, <2>5, OrderRuns
  <2>6. ASSUME t \in SlotTasks \cup SeekLoads PROVE vcr.task \notin Starts
    <3>1. \A S : Absent(g_tasks, S) => t \notin S
      BY <1>0, <2>1, TailWaiting DEF t
    <3> QED
      BY <2>6, <3>1 DEF OrderOK, Order, LoadingOK, SlotsOK
  <2>7. ASSUME t \in SeekLoads, NEW task2, task2 \notin Starts
        PROVE  Order(task2, vcr.reset, FALSE, recorder, session, async, g_tasks')
    <3>1. \A S : /\ Absent(g_tasks, S) => t \notin S
                 /\ Unique(g_tasks, S) /\ t \in S => Absent(g_tasks', S)
      BY <1>0, <2>1, TailWaiting DEF t
    <3>2. Absent(async, SeekJobs) /\ Absent(g_tasks', SeekLoads)
      BY <2>7, <3>1 DEF OrderOK, Order, LoadingOK
    <3>3. Order(task2, vcr.reset, vcr.loading, recorder, session, async, g_tasks')
      BY <2>3, <2>6, <2>7, OrderRuns
    <3>4. LoadingOK(task2, FALSE, async, g_tasks')
      BY <3>2, <3>3 DEF Order, LoadingOK
    <3> QED
      BY <3>3, <3>4 DEF Order
  <2>8. ASSUME t \in SlotTasks, NEW task2, task2 \notin Starts
        PROVE  Order(task2, vcr.reset, vcr.loading, recorder, session, async, g_tasks')
    BY <2>3, <2>6, <2>8, OrderRuns
  <2>9. t \in StartTasks \/ t \in SeekLoads \/ t \in SlotTasks \/ t.cb = "seekSave"
    BY <2>2, TaskCases DEF StartTasks, SeekLoads, SlotTasks, StartCbs
  <2> DEFINE O(task, loading) ==
               Order(task, vcr.reset, loading, recorder, session, async, g_tasks')
  <2>a. {"recording", "playback", "idle"} \cap Starts = {}
    BY StartTasksAre
  <2>b. t.cb = "seekLoad" => t \in SeekLoads
    BY <2>2 DEF SeekLoads
  <2>c. t.cb \in StartCbs => t \in StartTasks
    BY <2>2 DEF StartTasks
  <2>d. t.cb = "user" => t \in SlotTasks
    BY <2>2 DEF SlotTasks
  <2>10. CASE WorkSave
    <3>1. /\ t.cb \in {"record", "seekSave", "user"}
          /\ vcr'.reset = vcr.reset /\ vcr'.loading = vcr.loading
          /\ vcr'.task = IF t.cb = "record" THEN "recording" ELSE vcr.task
      BY <2>10, SaveEffect DEF t
    <3>2. O(vcr'.task, vcr.loading)
      <4>1. CASE t.cb = "record"
        BY <2>a, <2>c, <2>5, <3>1, <4>1 DEF StartCbs
      <4>2. CASE t.cb # "record"
        BY <2>3, <3>1, <4>2
      <4> QED
        BY <4>1, <4>2
    <3> QED
      BY <2>1, <3>1, <3>2 DEF OrderOK
  <2>11. CASE WorkLoadFails
    <3>1. /\ t.cb \in StartCbs \cup {"seekLoad", "user"}
          /\ vcr'.reset = vcr.reset
          /\ t.cb = "seekLoad" => vcr'.task = vcr.task /\ ~vcr'.loading
          /\ t.cb \in StartCbs => vcr'.loading = vcr.loading /\ vcr'.task \in {vcr.task, "idle"}
          /\ t.cb = "user" => vcr' = vcr
      BY <2>11, LoadFailsEffect DEF t
    <3>2. vcr'.loading \in BOOLEAN
      BY <2>11, TypesWork DEF TypesOK, Known, Globals
    <3>3. O(vcr'.task, vcr'.loading)
      <4>1. CASE t.cb = "seekLoad"
        <5>1. vcr'.loading = FALSE /\ vcr'.task = vcr.task /\ vcr.task \notin Starts
          BY <2>b, <2>6, <3>1, <3>2, <4>1
        <5> QED
          BY <2>b, <2>7, <4>1, <5>1
      <4>2. CASE t.cb \in StartCbs
        BY <2>a, <2>c, <2>3, <2>5, <3>1, <4>2
      <4>3. CASE t.cb = "user"
        BY <2>3, <3>1, <4>3
      <4> QED
        BY <3>1, <4>1, <4>2, <4>3
    <3> QED
      BY <2>1, <3>1, <3>3 DEF OrderOK
  <2>12. CASE WorkLoad
    <3>1. /\ t.cb \in StartCbs \cup {"seekLoad", "user"}
          /\ vcr'.reset = vcr.reset
          /\ vcr'.loading = IF t.cb = "seekLoad" THEN FALSE ELSE vcr.loading
          /\ vcr'.task \in {vcr.task, "recording", "playback"}
          /\ t.cb \in StartCbs => vcr'.task \in {"recording", "playback"}
      BY <2>12, LoadEffect DEF t
    <3>2. O(vcr'.task, vcr'.loading)
      <4>1. CASE t.cb = "seekLoad"
        <5>1. vcr'.loading = FALSE /\ vcr'.task \notin Starts
          BY <2>a, <2>b, <2>6, <3>1, <4>1
        <5> QED
          BY <2>b, <2>7, <4>1, <5>1
      <4>2. CASE t.cb \in StartCbs
        <5>1. vcr'.loading = vcr.loading /\ vcr'.task \notin Starts
          BY <2>a, <3>1, <4>2 DEF StartCbs
        <5> QED
          BY <2>c, <2>5, <4>2, <5>1
      <4>3. CASE t.cb = "user"
        <5>1. vcr'.loading = vcr.loading
          BY <3>1, <4>3
        <5>2. vcr'.task \notin Starts
          BY <2>a, <2>d, <2>6, <3>1, <4>3
        <5> QED
          BY <2>d, <2>8, <4>3, <5>1, <5>2
      <4> QED
        BY <3>1, <4>1, <4>2, <4>3
    <3> QED
      BY <2>1, <3>1, <3>2 DEF OrderOK
  <2> QED
    BY <1>2, <2>10, <2>11, <2>12
<1> QED
  BY <1>1, <1>2

\* The globals the order of starts depends on.
Phase(v) == <<v.task, v.reset, v.loading>>

LEMMA OrderSame ==
  ASSUME OrderOK, Phase(vcr') = Phase(vcr), UNCHANGED <<g_tasks, async, recorder, session>>
  PROVE  OrderOK'
<1>1. vcr'.task = vcr.task /\ vcr'.reset = vcr.reset /\ vcr'.loading = vcr.loading
  BY DEF Phase
<1> QED
  BY <1>1 DEF OrderOK

\* What a poll of a movie does to its state, before the handlers.
LEMMA PollEffect ==
  ASSUME TypesOK, NEW task, PollMovie(task)
  PROVE  /\ vcr.task = task /\ vcr.reset = FALSE /\ vcr.loading = FALSE
         /\ Known(Polled(vcr).v) /\ Polled(vcr).v.task = task /\ Polled(vcr).v.loading = FALSE
         /\ Polled(vcr).v.reset = (task \in Starting)
         /\ UNCHANGED <<recorder, session>>
         /\ g_tasks' \in {<<>> \o g_tasks,
                          <<Memory("Save", vcr.sample, NoState, "seekSave")>> \o g_tasks}
<1>1. /\ vcr.task = task /\ ~vcr.reset /\ ~vcr.loading /\ Known(vcr)
      /\ UNCHANGED <<recorder, session>> /\ g_tasks' = Polled(vcr).save \o g_tasks
  BY DEF PollMovie, Polling, TypesOK
<1>2. vcr.reset = FALSE /\ vcr.loading = FALSE
  BY <1>1 DEF Known, Globals
<1> DEFINE u == Polled(vcr).v
<1>3. /\ Known(u) /\ Only(vcr, u, {"seek", "warp", "paused", "reset", "states"})
      /\ u.reset = (vcr.reset \/ vcr.task \in Starting)
      /\ Polled(vcr).save \in {<<>>, <<Memory("Save", vcr.sample, NoState, "seekSave")>>}
  BY <1>1, PolledType
<1> HIDE DEF u
<1>4. u.task = vcr.task /\ u.loading = vcr.loading
  BY <1>3 DEF Only, Fields
<1>5. (vcr.reset \/ vcr.task \in Starting) = (task \in Starting)
  BY <1>1, <1>2
<1>6. u.reset = (task \in Starting) /\ u.task = task /\ u.loading = FALSE
  BY <1>1, <1>2, <1>3, <1>4, <1>5
<1>7. g_tasks' \in {<<>> \o g_tasks,
                    <<Memory("Save", vcr.sample, NoState, "seekSave")>> \o g_tasks}
  BY <1>1, <1>3
<1> QED
  BY <1>1, <1>2, <1>3, <1>6, <1>7 DEF u

LEMMA OrderPolled ==
  ASSUME TypesOK, OrderOK, NEW task, PollMovie(task)
  PROVE  Order(task, FALSE, FALSE, recorder, session, async, g_tasks')
<1>1. /\ vcr.task = task /\ vcr.reset = FALSE /\ vcr.loading = FALSE
      /\ g_tasks' \in {<<>> \o g_tasks,
                       <<Memory("Save", vcr.sample, NoState, "seekSave")>> \o g_tasks}
  BY PollEffect
<1>2. vcr.sample \in Nat
  BY DEF TypesOK, Known, Globals
<1>3. Order(task, FALSE, FALSE, recorder, session, async, g_tasks)
  BY <1>1 DEF OrderOK
<1> QED
  BY <1>1, <1>2, <1>3, OrderSeekSave DEF TypesOK

LEMMA OrderStarting ==
  ASSUME TypesOK, OrderOK, PollStarting
  PROVE  OrderOK'
<1>1. PICK task \in Starts : PollMovie(task)
  <2>1. StartingPlayback \cup {"start_recording_from_reset", "start_recording_from_snapshot",
          "start_recording_from_existing_snapshot"} \subseteq Starts
    BY StartTasksAre DEF StartingPlayback
  <2> QED
    BY <2>1 DEF PollStarting
<1>2. Order(task, FALSE, FALSE, recorder, session, async, g_tasks')
  BY <1>1, OrderPolled
<1>3. /\ vcr.task = task /\ vcr'.task = task /\ vcr'.loading = FALSE
      /\ vcr'.reset = (task \in Starting) /\ UNCHANGED <<recorder, session>>
  BY <1>1, PollEffect DEF PollStarting
<1>4. async' = async \o Polled(vcr).jobs
  BY DEF PollStarting
<1>5. Polled(vcr).jobs = IF vcr.task \in Starting THEN <<[op |-> "restart", arg |-> vcr.task]>> ELSE <<>>
  BY PolledType DEF TypesOK
<1>6. g_tasks' \in Seq(Task)
  BY <1>1, PollMovieTypes
<1>7. CASE task \in Starting
  <2> DEFINE j == [op |-> "restart", arg |-> task]
  <2>1. j \in Job /\ async \in Seq(Job)
    BY <1>7, RestartJobs DEF TypesOK
  <2>2. async' = async \o <<j>>
    BY <1>3, <1>4, <1>5, <1>7
  <2> HIDE DEF j
  <2>3. async' = Append(async, j)
    BY <2>1, <2>2, AppendIsConcat
  <2>4. Order(task, TRUE, FALSE, recorder, session, Append(async, j), g_tasks')
    BY <1>2, <1>6, <1>7, <2>1, OrderRestart DEF j
  <2> QED
    BY <1>3, <1>7, <2>3, <2>4 DEF OrderOK
<1>8. CASE task \notin Starting
  <2>1. async' = async \o <<>>
    BY <1>3, <1>4, <1>5, <1>8
  <2>2. async' = async
    BY <2>1 DEF TypesOK
  <2>3. (task \in Starting) = FALSE
    BY <1>8
  <2>4. vcr'.reset = FALSE
    BY <1>3, <2>3
  <2> QED
    BY <1>2, <1>3, <2>2, <2>4 DEF OrderOK
<1> QED
  BY <1>7, <1>8

LEMMA OrderRecording ==
  ASSUME TypesOK, OrderOK, PollRecording
  PROVE  OrderOK'
<1> DEFINE v        == Polled(vcr).v
           buffered == v.sample < Len(v.inputs) \/ v.warp
           input(key) == IF v.askedReset THEN "reset"
                         ELSE IF buffered THEN Prefix(v.inputs, v.sample + 1)[v.sample + 1]
                         ELSE key
<1>1. PICK key \in Keys : Recorded1(v, vcr', input(key), buffered)
  BY DEF PollRecording, Recorded1
<1>2. async' = IF v.askedReset THEN Append(async, [op |-> "restart", arg |-> "recording"]) ELSE async
  BY DEF PollRecording
<1>3. /\ Known(v) /\ v.task = "recording" /\ v.loading = FALSE /\ UNCHANGED <<recorder, session>>
  BY PollEffect DEF PollRecording
<1>4. Order("recording", FALSE, FALSE, recorder, session, async, g_tasks')
  BY OrderPolled DEF PollRecording
<1>5. g_tasks' \in Seq(Task)
  BY PollMovieTypes DEF PollRecording
<1>6. v.askedReset \in BOOLEAN
  BY <1>3 DEF Known, Globals
<1> DEFINE in == input(key)
<1> HIDE DEF v, buffered, in
<1>7. vcr'.task = "recording" /\ vcr'.loading = FALSE /\ vcr'.reset = v.askedReset
  <2>1. Recorded1(v, vcr', in, buffered)
    BY <1>1 DEF in
  <2> QED
    BY <1>3, <2>1 DEF Recorded1, Known, Globals
<1>8. CASE v.askedReset
  <2>1. Order("recording", TRUE, FALSE, recorder, session,
              Append(async, [op |-> "restart", arg |-> "recording"]), g_tasks')
    BY <1>4, <1>5, OrderRestart DEF TypesOK, Starting
  <2> QED
    BY <1>2, <1>3, <1>6, <1>7, <1>8, <2>1 DEF OrderOK
<1>9. CASE ~v.askedReset
  BY <1>2, <1>3, <1>4, <1>6, <1>7, <1>9 DEF OrderOK
<1> QED
  BY <1>8, <1>9

LEMMA OrderPlayback ==
  ASSUME Orderly, TypesOK, OrderOK, PollPlayback
  PROVE  OrderOK'
<1> DEFINE v     == Polled(vcr).v
           over  == v.sample >= Len(v.inputs)
           ended == StopAll(v)
<1>1. /\ Known(v) /\ v.task = "playback" /\ v.loading = FALSE /\ UNCHANGED <<recorder, session>>
      /\ v.reset = FALSE
  <2>1. /\ Known(v) /\ v.task = "playback" /\ v.loading = FALSE /\ UNCHANGED <<recorder, session>>
        /\ v.reset = ("playback" \in Starting)
    BY PollEffect DEF PollPlayback
  <2>2. ("playback" \in Starting) = FALSE
    BY DEF Starting
  <2> QED
    BY <2>1, <2>2
<1>2. Order("playback", FALSE, FALSE, recorder, session, async, g_tasks')
  BY OrderPolled DEF PollPlayback
<1>3. g_tasks' \in Seq(Task)
  BY PollMovieTypes DEF PollPlayback
<1>4. CASE over
  <2>1. vcr' = ended /\ async' = async
    BY <1>4 DEF PollPlayback, Orderly
  <2> HIDE DEF v
  <2>2. /\ Only(v, ended, {"states", "task", "file", "st"}) /\ ended.task = "idle"
    BY <1>1, StopAllType DEF Ended, IsPlayback
  <2> HIDE DEF ended
  <2>3. vcr'.task = "idle" /\ vcr'.reset = FALSE /\ vcr'.loading = FALSE
    BY <1>1, <2>1, <2>2 DEF Only, Fields
  <2>4. Order("idle", FALSE, FALSE, recorder, session, async, g_tasks')
    BY <1>2, OrderRuns, StartTasksAre
  <2> QED
    BY <1>1, <2>1, <2>3, <2>4 DEF OrderOK
<1>5. CASE ~over
  <2> DEFINE r == v.inputs[v.sample + 1] = "reset"
  <2>1. /\ vcr' = [v EXCEPT !.sample = @ + 1, !.reset = r]
        /\ async' = IF r THEN Append(async, [op |-> "restart", arg |-> "playback"]) ELSE async
    BY <1>5 DEF PollPlayback
  <2>2. r \in BOOLEAN
    OBVIOUS
  <2> HIDE DEF v, r
  <2>3. vcr'.task = "playback" /\ vcr'.loading = FALSE /\ vcr'.reset = r
    BY <1>1, <2>1 DEF Known, Globals
  <2>4. CASE r
    <3>1. Order("playback", TRUE, FALSE, recorder, session,
                Append(async, [op |-> "restart", arg |-> "playback"]), g_tasks')
      BY <1>2, <1>3, OrderRestart DEF TypesOK, Starting
    <3> QED
      BY <1>1, <2>1, <2>2, <2>3, <2>4, <3>1 DEF OrderOK
  <2>5. CASE ~r
    BY <1>1, <1>2, <2>1, <2>2, <2>3, <2>5 DEF OrderOK
  <2> QED
    BY <2>4, <2>5
<1> QED
  BY <1>4, <1>5

LEMMA OrderJobs ==
  ASSUME TypesOK, OrderOK, NEW i, Restart(i) \/ Enqueue(i)
  PROVE  OrderOK'
<1> DEFINE j == async[i]
<1>0. async \in Seq(Job) /\ g_tasks \in Seq(Task) /\ Known(vcr) /\ Part(g_tasks, g_tasks)
  BY PartReflexive DEF TypesOK
<1>1. /\ i \in DOMAIN async /\ async' = RemoveAt(async, i) /\ UNCHANGED <<recorder, session>>
  BY DEF Restart, Enqueue, Running
<1>2. j \in Job /\ async' \in Seq(Job) /\ Part(async, async')
  BY <1>0, <1>1, LenProperties, ElementOfSeq, RemoveAtIsPart
<1>3. Order(vcr.task, vcr.reset, vcr.loading, recorder, session, async', g_tasks)
  BY <1>0, <1>2, OrderPart DEF OrderOK
<1>4. \A S : /\ Absent(async, S) => j \notin S
             /\ Unique(async, S) /\ j \in S => Absent(async', S)
  BY <1>0, <1>1, RemoveWaiting
<1> HIDE DEF j
<1>5. CASE Restart(i)
  <2>1. /\ j.op = "restart" /\ ~recorder /\ g_tasks' = <<>>
        /\ vcr' = LET v == [vcr EXCEPT !.reset = FALSE, !.paused = FALSE]
                  IN  CASE j.arg = "start_recording_from_reset" ->
                             [v EXCEPT !.task = "recording", !.sample = 0]
                        [] j.arg = "start_playback_from_reset" ->
                             [v EXCEPT !.task = "playback", !.sample = 0]
                        [] OTHER -> v
    BY <1>5 DEF Restart, j
  <2>2. j \in Restarts
    BY <1>2, <2>1 DEF Restarts
  <2>3. Absent(async', Restarts)
    BY <1>4, <2>2 DEF OrderOK, Order, RestartOK
  <2>4. j \notin BadRestarts(vcr.task)
    BY <1>4 DEF OrderOK, Order, RestartOK
  <2>5. j.arg \in Starting => vcr.task = j.arg
    BY <2>2, <2>4 DEF BadRestarts
  <2>6. /\ vcr'.reset = FALSE /\ vcr'.loading = vcr.loading
        /\ vcr'.task = vcr.task \/ (j.arg \in Starting /\ vcr'.task \in {"recording", "playback"})
    <3>1. CASE j.arg = "start_recording_from_reset"
      BY <1>0, <2>1, <3>1 DEF Known, Globals, Starting
    <3>2. CASE j.arg = "start_playback_from_reset"
      BY <1>0, <2>1, <3>2 DEF Known, Globals, Starting
    <3>3. CASE j.arg \notin Starting
      BY <1>0, <2>1, <3>3 DEF Known, Globals, Starting
    <3> QED
      BY <3>1, <3>2, <3>3 DEF Starting
  <2>7. Part(g_tasks, g_tasks') /\ g_tasks' \in Seq(Task)
    <3>1. g_tasks' = <<>>
      BY <2>1
    <3> QED
      BY <3>1, PartNone
  <2>8. Order(vcr.task, vcr.reset, vcr.loading, recorder, session, async', g_tasks')
    <3>1. Part(async', async')
      BY <1>2, PartReflexive
    <3> QED
      BY <1>0, <1>2, <1>3, <2>7, <3>1, OrderPart
  <2>9. Order(vcr.task, FALSE, vcr.loading, recorder, session, async', g_tasks')
    BY <2>3, <2>8 DEF Order, RestartOK
  <2>10. CASE vcr'.task = vcr.task
    BY <1>1, <2>6, <2>9, <2>10 DEF OrderOK
  <2>11. CASE j.arg \in Starting /\ vcr'.task \in {"recording", "playback"}
    <3>1. vcr.task \in Starting
      BY <2>5, <2>11
    <3>2. BadLoadFiles(vcr.task) = LoadFiles
      <4>1. \A x \in LoadFiles : x.arg \in {"play", "recordExisting"}
        BY DEF LoadFiles, Job
      <4> QED
        BY <3>1, <4>1, StartTasksAre DEF BadLoadFiles, Starting
    <3>3. Absent(async', LoadFiles)
      BY <2>8, <3>2 DEF Order, StartOK
    <3>4. Absent(async', BadRestarts("idle"))
      <4>1. BadRestarts("idle") \subseteq Restarts
        BY DEF BadRestarts
      <4> QED
        BY <2>3, <4>1, AbsentSubset
    <3>5. vcr'.task \notin Starts
      BY <2>11, StartTasksAre
    <3>6. Absent(g_tasks', StartTasks)
      BY <2>1, NoneWaiting
    <3>7. ~recorder
      BY <2>1
    <3>8. Order(vcr'.task, FALSE, vcr.loading, recorder, session, async', g_tasks')
      BY <2>9, <3>3, <3>4, <3>5, <3>6, <3>7, OrderRuns
    <3> QED
      BY <1>1, <2>6, <3>8 DEF OrderOK
  <2> QED
    BY <2>6, <2>10, <2>11
<1>6. CASE Enqueue(i)
  <2> DEFINE st == IF j.arg \in DOMAIN vcr.states THEN vcr.states[j.arg] ELSE NoState
             t == CASE j.op = "loadFile" -> Path("Load", j.arg)
                    [] j.op = "slot" -> Slot(j.arg[1], j.arg[2])
                    [] j.op = "seekLoad" -> Memory("Load", j.arg, st, "seekLoad")
  <2>1. j.op \in {"loadFile", "slot", "seekLoad"}
    BY <1>6 DEF Enqueue, j
  <2>2. g_tasks' = Push(g_tasks, t)
    BY <1>6 DEF Enqueue, j
  <2>3. Phase(vcr') = Phase(vcr)
    BY <1>0, <1>6 DEF Enqueue, Phase, Known, Globals
  <2>4. t \in Task
    <3>1. CASE j.op = "loadFile"
      <4>1. j.arg \in {"play", "recordExisting"}
        BY <1>2, <3>1 DEF Job
      <4> QED
        BY <3>1, <4>1, NewTasks
    <3>2. CASE j.op = "slot"
      <4>1. j.arg[1] \in {"Save", "Load"} /\ j.arg[2] \in Slots
        BY <1>2, <3>2 DEF Job
      <4> QED
        BY <3>2, <4>1, NewTasks
    <3>3. CASE j.op = "seekLoad"
      <4>1. j.arg \in Nat
        BY <1>2, <3>3 DEF Job
      <4>2. st \in States
        <5>1. PICK K \in SUBSET Nat : vcr.states \in [K -> States]
          BY <1>0 DEF Known, Globals, StateMaps
        <5> QED
          BY <5>1, NothingTypes
      <4> QED
        BY <3>3, <4>1, <4>2, NewTasks
    <3> QED
      BY <2>1, <3>1, <3>2, <3>3
  <2>5. t.cb = CASE j.op = "loadFile" -> j.arg [] j.op = "slot" -> "user" [] j.op = "seekLoad" -> "seekLoad"
    BY <2>1 DEF Path, Slot, Memory
  <2> HIDE DEF t
  <2>6. /\ \A S : t \notin S => (Absent(g_tasks, S) => Absent(g_tasks', S))
                                /\ (Unique(g_tasks, S) => Unique(g_tasks', S))
        /\ \A S : Absent(g_tasks, S) => Unique(g_tasks', S)
    BY <1>0, <2>2, <2>4, PushWaiting DEF Push
  <2> DEFINE G == Order(vcr.task, vcr.reset, vcr.loading, recorder, session, async', g_tasks')
  <2>7. ASSUME j.op = "loadFile" PROVE G
    <3>1. j \in LoadFiles /\ t.cb = j.arg /\ j.arg \in StartCbs
      BY <1>2, <2>5, <2>7 DEF LoadFiles, Job, StartCbs
    <3>2. j \notin BadLoadFiles(vcr.task) /\ ~Absent(async, LoadFiles) /\ Absent(async', LoadFiles)
      BY <1>4, <3>1 DEF OrderOK, Order, StartOK
    <3>3. StartTask(t.cb) = vcr.task /\ Absent(g_tasks, StartTasks) /\ ~recorder
      BY <3>1, <3>2 DEF OrderOK, Order, StartOK, BadLoadFiles
    <3>4. t \notin BadStarts(vcr.task) /\ t \notin SeekLoads /\ t \notin SlotTasks
      BY <3>1, <3>3 DEF BadStarts, SeekLoads, SlotTasks, StartCbs
    <3>5. StartOK(vcr.task, recorder, async', g_tasks')
      BY <1>3, <2>6, <3>2, <3>3, <3>4 DEF Order, StartOK
    <3>6. LoadingOK(vcr.task, vcr.loading, async', g_tasks')
      BY <1>3, <2>6, <3>4 DEF Order, LoadingOK
    <3>7. SlotsOK(vcr.task, session, async', g_tasks')
      BY <1>3, <2>6, <3>4 DEF Order, SlotsOK
    <3> QED
      BY <1>3, <3>5, <3>6, <3>7 DEF Order
  <2>8. ASSUME j.op = "slot" PROVE G
    <3>1. j \in SlotJobs /\ t.cb = "user"
      BY <1>2, <2>5, <2>8 DEF SlotJobs
    <3>2. ~Absent(async, SlotJobs)
      BY <1>4, <3>1
    <3>3. ~(~Restores(session) \/ vcr.task \in Starts)
      BY <3>2 DEF OrderOK, Order, SlotsOK
    <3>4. t \notin BadStarts(vcr.task) /\ t \notin SeekLoads /\ t \notin StartTasks
      BY <3>1 DEF BadStarts, SeekLoads, StartTasks, StartCbs
    <3>5. StartOK(vcr.task, recorder, async', g_tasks')
      BY <1>3, <2>6, <3>4 DEF Order, StartOK
    <3>6. LoadingOK(vcr.task, vcr.loading, async', g_tasks')
      BY <1>3, <2>6, <3>4 DEF Order, LoadingOK
    <3>7. SlotsOK(vcr.task, session, async', g_tasks')
      BY <3>3 DEF SlotsOK
    <3> QED
      BY <1>3, <3>5, <3>6, <3>7 DEF Order
  <2>9. ASSUME j.op = "seekLoad" PROVE G
    <3>1. j \in SeekJobs /\ t.cb = "seekLoad"
      BY <1>2, <2>5, <2>9 DEF SeekJobs
    <3>2. ~Absent(async, SeekJobs) /\ Absent(async', SeekJobs)
      BY <1>4, <3>1 DEF OrderOK, Order, LoadingOK
    <3>3. Absent(g_tasks, SeekLoads) /\ vcr.loading
      BY <3>2 DEF OrderOK, Order, LoadingOK
    <3>4. t \notin BadStarts(vcr.task) /\ t \notin SlotTasks /\ t \notin StartTasks
      BY <3>1 DEF BadStarts, SlotTasks, StartTasks, StartCbs
    <3>5. StartOK(vcr.task, recorder, async', g_tasks')
      BY <1>3, <2>6, <3>4 DEF Order, StartOK
    <3>6. LoadingOK(vcr.task, vcr.loading, async', g_tasks')
      BY <1>3, <2>6, <3>2, <3>3 DEF Order, LoadingOK
    <3>7. SlotsOK(vcr.task, session, async', g_tasks')
      BY <1>3, <2>6, <3>4 DEF Order, SlotsOK
    <3> QED
      BY <1>3, <3>5, <3>6, <3>7 DEF Order
  <2>10. G
    BY <2>1, <2>7, <2>8, <2>9
  <2> QED
    BY <1>1, <2>3, <2>10 DEF OrderOK, Phase
<1> QED
  BY <1>5, <1>6

LEMMA PatientRequest ==
  ASSUME Orderly, NEW kind, Request(kind),
         kind \in {"recordReset", "recordExisting", "recordSnapshot", "play", "stop", "save", "load"}
  PROVE  /\ vcr.task \in {"idle", "recording", "playback"} /\ ~vcr.loading /\ ~vcr.reset
         /\ vcr.seek = NoFrame /\ ~recorder /\ kind \in session.requests
         /\ kind \notin {"save", "load"} => async = <<>> /\ g_tasks = <<>>
         /\ UNCHANGED <<slots, machine, emu, working, misled, session>>
BY DEF Orderly, Request, Settled

LEMMA OrderLoadFile ==
  ASSUME NEW task, NEW reset, NEW s, NEW j \in Job, j.op = "loadFile", StartTask(j.arg) = task
  PROVE  Order(task, reset, FALSE, FALSE, s, Append(<<>>, j), <<>>)
<1> DEFINE b == Append(<<>>, j)
<1>1. /\ j \notin Restarts /\ j \notin SeekJobs /\ j \notin SlotJobs
      /\ j \notin BadRestarts(task) /\ j \notin BadLoadFiles(task)
  BY DEF Restarts, SeekJobs, SlotJobs, BadRestarts, BadLoadFiles
<1>2. /\ \A S : j \notin S => (Absent(<<>>, S) => Absent(b, S)) /\ (Unique(<<>>, S) => Unique(b, S))
      /\ \A S : Absent(<<>>, S) => Unique(b, S)
  <2>1. <<>> \in Seq(Job)
    OBVIOUS
  <2> QED
    BY <2>1, AppendWaiting
<1>3. /\ \A S : j \notin S => Absent(b, S)
      /\ \A S : Unique(b, S)
  BY <1>2, NoneWaiting
<1> HIDE DEF b
<1>4. RestartOK(task, reset, b)
  BY <1>1, <1>3 DEF RestartOK
<1>5. StartOK(task, FALSE, b, <<>>)
  BY <1>1, <1>3, NoneWaiting DEF StartOK
<1>6. LoadingOK(task, FALSE, b, <<>>)
  BY <1>1, <1>3, NoneWaiting DEF LoadingOK
<1>7. SlotsOK(task, s, b, <<>>)
  BY <1>1, <1>3, NoneWaiting DEF SlotsOK
<1>8. Order(task, reset, FALSE, FALSE, s, b, <<>>)
  BY <1>4, <1>5, <1>6, <1>7 DEF Order
<1> QED
  BY <1>8 DEF b

\* The requests made only when nothing is under way.
LEMMA OrderPatient ==
  ASSUME Orderly, TypesOK, OrderOK,
         RecordFromReset \/ RecordFromExisting \/ RecordFromSnapshot \/ Play \/ Stop
  PROVE  OrderOK'
<1>0. Known(vcr)
  BY DEF TypesOK
<1>1. PICK kind \in {"recordReset", "recordExisting", "recordSnapshot", "play", "stop"} : Request(kind)
  BY DEF RecordFromReset, RecordFromExisting, RecordFromSnapshot, Play, Stop
<1>2. /\ vcr.task \in {"idle", "recording", "playback"} /\ vcr.loading = FALSE
      /\ async = <<>> /\ g_tasks = <<>> /\ recorder = FALSE /\ UNCHANGED session
  <2>1. /\ vcr.task \in {"idle", "recording", "playback"} /\ ~vcr.loading
        /\ async = <<>> /\ g_tasks = <<>> /\ ~recorder /\ UNCHANGED session
    BY <1>1, PatientRequest
  <2>2. vcr.loading \in BOOLEAN /\ recorder \in BOOLEAN
    BY <1>0 DEF TypesOK, Known, Globals
  <2> QED
    BY <2>1, <2>2
<1>3. StopAll(vcr).task = "idle" /\ StopAll(vcr).loading = FALSE /\ Known(StopAll(vcr))
  <2>1. /\ Known(StopAll(vcr)) /\ Only(vcr, StopAll(vcr), {"states", "task", "file", "st"})
        /\ StopAll(vcr).task = IF Ended(vcr.task) THEN "idle" ELSE vcr.task
    BY <1>0, StopAllType
  <2> QED
    BY <1>2, <2>1 DEF Only, Fields, Ended, IsPlayback
<1>4. ASSUME vcr'.loading = FALSE, async' = <<>>, g_tasks' = <<>>,
             recorder' => vcr'.task = StartTask("record")
      PROVE  OrderOK'
  BY <1>4, OrderNone DEF OrderOK
<1>5. CASE RecordFromReset \/ RecordFromExisting \/ RecordFromSnapshot
  <2> DEFINE u == StartedRecord(vcr)
  <2>1. /\ Known(u) /\ u.loading = FALSE /\ u.task = "idle"
    <3>1. /\ Known(u) /\ Only(StopAll(vcr), u, {"readonly", "inputs", "uid", "movies", "origin"})
      BY <1>0, StartedRecordType
    <3> QED
      BY <1>3, <3>1 DEF Only, Fields
  <2>2. u.task \in VcrTasks /\ u.st.mach \in Machines /\ vcr.sample \in Nat
    BY <1>0, <2>1 DEF Known, Globals, States
  <2>3. ASSUME NEW task, NEW start, NEW origin, NEW sample, Begun(u, vcr', task, start, origin, sample)
        PROVE  vcr'.task = task /\ vcr'.loading = FALSE
    <3> HIDE DEF u
    <3> QED
      BY <2>1, <2>3 DEF Begun, Known, Globals
  <2>4. CASE RecordFromReset
    <3>1. Begun(u, vcr', "start_recording_from_reset", "reset", Boot, 0)
      BY <2>4, RecordSteps
    <3>2. vcr'.loading = FALSE
      BY <2>3, <3>1
    <3> QED
      BY <1>2, <1>4, <2>4, <3>2 DEF RecordFromReset
  <2>5. CASE RecordFromSnapshot
    <3>1. Begun(u, vcr', "start_recording_from_snapshot", "snapshot", <<>>, vcr.sample)
      BY <2>5, RecordSteps
    <3>2. vcr'.loading = FALSE /\ vcr'.task = "start_recording_from_snapshot"
      BY <2>3, <3>1
    <3> QED
      BY <1>2, <1>4, <2>5, <3>2, StartTasksAre DEF RecordFromSnapshot
  <2>6. CASE RecordFromExisting /\ u.st = NoState
    <3>1. Begun(u, vcr', u.task, "snapshot", <<>>, vcr.sample)
      BY <2>6, RecordSteps
    <3>2. vcr'.loading = FALSE
      BY <2>3, <3>1
    <3>3. async' = async /\ UNCHANGED <<g_tasks, recorder>>
      <4>1. [u EXCEPT !.start = "snapshot"].st = u.st
        BY <2>1 DEF Known, Globals
      <4> QED
        BY <2>6, <4>1 DEF RecordFromExisting
    <3> QED
      BY <1>2, <1>4, <3>2, <3>3
  <2>7. CASE RecordFromExisting /\ u.st # NoState
    <3> DEFINE j == [op |-> "loadFile", arg |-> "recordExisting"]
               R == "start_recording_from_existing_snapshot"
    <3>1. Begun(u, vcr', R, "snapshot", u.st.mach, 0)
      BY <2>7, RecordSteps
    <3>2. vcr'.loading = FALSE /\ vcr'.task = R
      BY <2>3, <3>1
    <3>3. async' = Append(async, j) /\ UNCHANGED <<g_tasks, recorder>>
      <4>1. [u EXCEPT !.start = "snapshot"].st = u.st
        BY <2>1 DEF Known, Globals
      <4> QED
        BY <2>7, <4>1 DEF RecordFromExisting
    <3>4. j \in Job /\ j.op = "loadFile" /\ StartTask(j.arg) = R
      BY StartTasksAre DEF Job
    <3> HIDE DEF j
    <3>5. Order(R, vcr'.reset, FALSE, FALSE, session, Append(<<>>, j), <<>>)
      BY <3>4, OrderLoadFile
    <3> QED
      BY <1>2, <3>2, <3>3, <3>5 DEF OrderOK
  <2> QED
    BY <1>5, <2>4, <2>5, <2>6, <2>7
<1>6. CASE Play
  <2> DEFINE m == MovieRead(vcr)
             u == StartedPlayback(vcr)
  <2>1. m.task = "idle" /\ m.loading = FALSE
    <3>1. m.task = StopAll(vcr).task /\ Only(vcr, m, MovieFields)
      BY <1>0, MovieReadType
    <3> QED
      BY <1>2, <1>3, <3>1 DEF Only, Fields, MovieFields
  <2>2. /\ u.loading = FALSE
        /\ u.task \in {"idle", "start_playback_from_reset", "start_playback_from_snapshot"}
    <3>1. /\ Only(m, u, {"sample", "task"})
          /\ IF m.start = "reset" THEN u.task = "start_playback_from_reset"
             ELSE u.task = IF m.st = NoState THEN m.task ELSE "start_playback_from_snapshot"
      BY <1>0, StartedPlaybackType
    <3> QED
      BY <2>1, <3>1 DEF Only, Fields
  <2>3. PlaybackJobs(vcr) = IF u.task = "start_playback_from_snapshot"
                            THEN <<[op |-> "loadFile", arg |-> "play"]>> ELSE <<>>
    BY DEF PlaybackJobs
  <2>4. UNCHANGED <<g_tasks, recorder>>
        /\ ((vcr' = m /\ UNCHANGED async) \/ (vcr' = u /\ async' = async \o PlaybackJobs(vcr)))
    BY <1>6 DEF Play
  <2> HIDE DEF m, u
  <2>5. CASE vcr' = m /\ UNCHANGED async
    BY <1>2, <1>4, <2>1, <2>4, <2>5
  <2>6. CASE vcr' = u /\ async' = async \o PlaybackJobs(vcr) /\ u.task # "start_playback_from_snapshot"
    <3>1. async' = <<>> \o <<>>
      BY <1>2, <2>3, <2>6
    <3>2. <<>> \o <<>> = <<>>
      OBVIOUS
    <3>3. async' = <<>>
      BY <3>1, <3>2
    <3>4. vcr'.loading = FALSE /\ g_tasks' = <<>> /\ recorder' = FALSE
      BY <1>2, <2>2, <2>4, <2>6
    <3> QED
      BY <1>4, <3>3, <3>4
  <2>7. CASE vcr' = u /\ async' = async \o PlaybackJobs(vcr) /\ u.task = "start_playback_from_snapshot"
    <3> DEFINE j == [op |-> "loadFile", arg |-> "play"]
    <3>1. async' = <<>> \o <<j>>
      BY <1>2, <2>3, <2>7
    <3>2. j \in Job /\ j.op = "loadFile" /\ StartTask(j.arg) = u.task
      BY <2>7, StartTasksAre DEF Job
    <3> HIDE DEF j
    <3>3. async' = Append(<<>>, j)
      BY <3>1
    <3>4. Order(u.task, vcr'.reset, FALSE, FALSE, session, Append(<<>>, j), <<>>)
      BY <2>7, <3>2, OrderLoadFile
    <3> QED
      BY <1>2, <2>2, <2>4, <2>7, <3>3, <3>4 DEF OrderOK
  <2> QED
    BY <2>4, <2>5, <2>6, <2>7
<1>7. CASE Stop
  <2>1. [vcr EXCEPT !.states = <<>>].loading = FALSE
    BY <1>0, <1>2 DEF Known, Globals
  <2>2. vcr'.loading = FALSE /\ UNCHANGED <<g_tasks, async, recorder>>
    BY <1>3, <1>7, <2>1 DEF Stop
  <2> QED
    BY <1>2, <1>4, <2>2
<1> QED
  BY <1>5, <1>6, <1>7

LEMMA OrderSlot ==
  ASSUME Orderly, TypesOK, OrderOK, SaveOrLoad
  PROVE  OrderOK'
<1>1. PICK job \in {"Save", "Load"}, s \in Slots :
        /\ \E kind \in {"save", "load"} : Request(kind)
        /\ async' = Append(async, [op |-> "slot", arg |-> <<job, s>>])
  BY DEF SaveOrLoad
<1> DEFINE j == [op |-> "slot", arg |-> <<job, s>>]
           b == Append(async, j)
<1>2. /\ vcr.task \notin Starts /\ Restores(session)
      /\ UNCHANGED <<vcr, g_tasks, recorder, session>> /\ async' = b
  <2>1. PICK kind \in {"save", "load"} : Request(kind)
    BY <1>1
  <2>2. vcr.task \in {"idle", "recording", "playback"} /\ kind \in session.requests /\ UNCHANGED session
    BY <2>1, PatientRequest
  <2> QED
    BY <1>1, <2>2, StartTasksAre DEF SaveOrLoad, Restores
<1>3. j \in Job /\ j.op = "slot"
  BY DEF Job
<1> HIDE DEF j
<1>4. /\ j \notin Restarts /\ j \notin LoadFiles /\ j \notin SeekJobs
      /\ \A task : j \notin BadRestarts(task) /\ j \notin BadLoadFiles(task)
  BY <1>3 DEF Restarts, LoadFiles, SeekJobs, BadRestarts, BadLoadFiles
<1>5. \A S : j \notin S => (Absent(async, S) => Absent(b, S)) /\ (Unique(async, S) => Unique(b, S))
  BY <1>3, AppendWaiting DEF TypesOK
<1> HIDE DEF b
<1>6. RestartOK(vcr.task, vcr.reset, b)
  BY <1>4, <1>5 DEF OrderOK, Order, RestartOK
<1>7. StartOK(vcr.task, recorder, b, g_tasks)
  BY <1>4, <1>5 DEF OrderOK, Order, StartOK
<1>8. LoadingOK(vcr.task, vcr.loading, b, g_tasks)
  BY <1>4, <1>5 DEF OrderOK, Order, LoadingOK
<1>9. SlotsOK(vcr.task, session, b, g_tasks)
  BY <1>2 DEF SlotsOK
<1> QED
  BY <1>2, <1>6, <1>7, <1>8, <1>9 DEF OrderOK, Order

\* A seek back: the load of its state is the only one.
LEMMA OrderSeekBack ==
  ASSUME TypesOK, OrderOK, vcr.loading = FALSE, vcr.task \notin Starts,
         NEW k \in Nat, NEW b, b = async \o <<[op |-> "seekLoad", arg |-> k]>>
  PROVE  Order(vcr.task, vcr.reset, TRUE, recorder, session, b, g_tasks)
<1> DEFINE j == [op |-> "seekLoad", arg |-> k]
<1>1. j \in Job /\ j.op = "seekLoad"
  BY DEF Job
<1> HIDE DEF j
<1>2. b = Append(async, j)
  <2>1. b = async \o <<j>>
    BY DEF j
  <2> QED
    BY <1>1, <2>1, AppendIsConcat DEF TypesOK
<1>3. /\ j \notin Restarts /\ j \notin LoadFiles /\ j \notin SlotJobs
      /\ \A task : j \notin BadRestarts(task) /\ j \notin BadLoadFiles(task)
  BY <1>1 DEF Restarts, LoadFiles, SlotJobs, BadRestarts, BadLoadFiles
<1>4. /\ \A S : j \notin S => (Absent(async, S) => Absent(b, S)) /\ (Unique(async, S) => Unique(b, S))
      /\ \A S : Absent(async, S) => Unique(b, S)
  <2>1. async \in Seq(Job) /\ j \in Job
    BY <1>1 DEF TypesOK
  <2>2. /\ \A S : Absent(async, S) /\ j \notin S => Absent(Append(async, j), S)
        /\ \A S : Unique(async, S) /\ j \notin S => Unique(Append(async, j), S)
        /\ \A S : Absent(async, S) => Unique(Append(async, j), S)
    BY <2>1, AppendWaiting
  <2> QED
    BY <1>2, <2>2
<1>5. Absent(async, SeekJobs) /\ Absent(g_tasks, SeekLoads)
  BY DEF OrderOK, Order, LoadingOK
<1>6. RestartOK(vcr.task, vcr.reset, b)
  BY <1>3, <1>4 DEF OrderOK, Order, RestartOK
<1>7. StartOK(vcr.task, recorder, b, g_tasks)
  BY <1>3, <1>4 DEF OrderOK, Order, StartOK
<1>8. LoadingOK(vcr.task, TRUE, b, g_tasks)
  BY <1>4, <1>5, AbsentUnique DEF LoadingOK
<1>9. SlotsOK(vcr.task, session, b, g_tasks)
  BY <1>3, <1>4 DEF OrderOK, Order, SlotsOK
<1> QED
  BY <1>6, <1>7, <1>8, <1>9 DEF Order

\* A seek that starts the movie again.
LEMMA OrderFromStart ==
  ASSUME Orderly, TypesOK, OrderOK, Request("seek"), vcr.loading = FALSE,
         NEW s, Known(s.v), SeekFromStart(vcr, s),
         NEW b, b = async \o s.jobs
  PROVE  Order(s.v.task, s.v.reset, s.v.loading, recorder, session, b, g_tasks)
<1>1. PICK r : /\ Known(r) /\ Only(vcr, r, {"seek", "pauseEnd", "paused"})
               /\ Only(StartedPlayback(r), s.v, {"seek"})
               /\ s.jobs = PlaybackJobs(r)
  BY DEF SeekFromStart
<1> DEFINE m == MovieRead(r)
           u == StartedPlayback(r)
<1>2. vcr.task = "playback" /\ r.task = "playback" /\ r.loading = FALSE /\ r.reset = vcr.reset
  BY <1>1 DEF SeekFromStart, Only, Fields
<1>3. /\ m.task = StopAll(r).task /\ Only(r, m, MovieFields)
  BY <1>1, MovieReadType
<1>4. /\ Only(m, u, {"sample", "task"})
      /\ IF m.start = "reset" THEN u.task = "start_playback_from_reset"
         ELSE u.task = IF m.st = NoState THEN m.task ELSE "start_playback_from_snapshot"
  BY <1>1, StartedPlaybackType
<1>5. StopAll(r).task = "idle"
  BY <1>1, <1>2, StopAllType DEF Ended, IsPlayback
<1>6. PlaybackJobs(r) = IF u.task = "start_playback_from_snapshot"
                        THEN <<[op |-> "loadFile", arg |-> "play"]>> ELSE <<>>
  BY DEF PlaybackJobs
<1> HIDE DEF m, u
<1>7. /\ s.v.task = u.task /\ s.v.reset = vcr.reset /\ s.v.loading = FALSE
      /\ u.task \in {"idle", "start_playback_from_reset", "start_playback_from_snapshot"}
  BY <1>1, <1>2, <1>3, <1>4, <1>5 DEF Only, Fields, MovieFields, u
<1>8. ~recorder /\ "seek" \in session.requests
  BY DEF Request
<1>9. ~Restores(session)
  <2>1. session \in Sessions /\ session.interval = 0
    BY DEF TypesOK, SeekFromStart
  <2> QED
    BY <1>8, <2>1 DEF Orderly, Apart, Restores
<1>10. Absent(async, SlotJobs) /\ Absent(g_tasks, SlotTasks) /\ Absent(async, SeekJobs)
       /\ Absent(g_tasks, SeekLoads)
  BY <1>9 DEF OrderOK, Order, SlotsOK, LoadingOK
<1>11. Absent(async, LoadFiles) /\ Absent(g_tasks, StartTasks) /\ Absent(async, BadRestarts("idle"))
  <2>1. LoadFiles \subseteq BadLoadFiles("playback")
    <3>1. \A x \in LoadFiles : x.arg \in {"play", "recordExisting"}
      BY DEF LoadFiles, Job
    <3> QED
      BY <3>1, StartTasksAre DEF BadLoadFiles
  <2>2. StartTasks \subseteq BadStarts("playback")
    BY StartTasksAre DEF StartTasks, BadStarts, StartCbs
  <2>3. BadRestarts("idle") \subseteq BadRestarts("playback")
    BY DEF BadRestarts, Starting
  <2> QED
    BY <1>2, <2>1, <2>2, <2>3, AbsentSubset DEF OrderOK, Order, StartOK, RestartOK
<1>12. /\ \A task : BadLoadFiles(task) \subseteq LoadFiles /\ BadStarts(task) \subseteq StartTasks
                    /\ BadRestarts(task) \subseteq BadRestarts("idle")
  BY DEF BadLoadFiles, BadStarts, BadRestarts, Starting
<1>13. ASSUME NEW task
       PROVE  Absent(async, BadLoadFiles(task)) /\ Absent(g_tasks, BadStarts(task))
              /\ Absent(async, BadRestarts(task))
  BY <1>11, <1>12, AbsentSubset
<1>14. RestartOK(u.task, vcr.reset, async)
  BY <1>13 DEF OrderOK, Order, RestartOK
<1>15. CASE u.task # "start_playback_from_snapshot"
  <2>1. b = async
    <3>1. b = async \o <<>>
      BY <1>1, <1>6, <1>15
    <3> QED
      BY <3>1 DEF TypesOK
  <2>2. StartOK(u.task, recorder, async, g_tasks)
    BY <1>8, <1>11, <1>13, AbsentUnique DEF StartOK
  <2>3. LoadingOK(u.task, FALSE, async, g_tasks)
    BY <1>10, AbsentUnique DEF LoadingOK
  <2>4. SlotsOK(u.task, session, async, g_tasks)
    BY <1>10 DEF SlotsOK
  <2> QED
    BY <1>7, <1>14, <2>1, <2>2, <2>3, <2>4 DEF Order
<1>16. CASE u.task = "start_playback_from_snapshot"
  <2> DEFINE j == [op |-> "loadFile", arg |-> "play"]
  <2>1. j \in Job /\ j.op = "loadFile" /\ j.arg = "play"
    BY DEF Job
  <2>2. b = async \o <<j>>
    BY <1>1, <1>6, <1>16
  <2> HIDE DEF j
  <2>3. b = Append(async, j)
    BY <2>1, <2>2, AppendIsConcat DEF TypesOK
  <2>4. /\ j \notin Restarts /\ j \notin SeekJobs /\ j \notin SlotJobs
        /\ j \notin BadRestarts(u.task) /\ j \notin BadLoadFiles(u.task)
    BY <1>16, <2>1, StartTasksAre DEF Restarts, SeekJobs, SlotJobs, BadRestarts, BadLoadFiles
  <2>5. /\ \A S : j \notin S => (Absent(async, S) => Absent(b, S)) /\ (Unique(async, S) => Unique(b, S))
        /\ \A S : Absent(async, S) => Unique(b, S)
    BY <2>1, <2>3, AppendWaiting DEF TypesOK
  <2>6. RestartOK(u.task, vcr.reset, b)
    BY <1>14, <2>4, <2>5 DEF RestartOK
  <2>7. StartOK(u.task, recorder, b, g_tasks)
    BY <1>8, <1>11, <1>13, <2>4, <2>5, AbsentUnique DEF StartOK
  <2>8. LoadingOK(u.task, FALSE, b, g_tasks)
    BY <1>10, <2>4, <2>5, AbsentUnique DEF LoadingOK
  <2>9. SlotsOK(u.task, session, b, g_tasks)
    BY <1>10, <2>4, <2>5 DEF SlotsOK
  <2> QED
    BY <1>7, <2>6, <2>7, <2>8, <2>9 DEF Order
<1> QED
  BY <1>15, <1>16

\* What a seek leaves, by its jobs.
LEMMA OrderSeek ==
  ASSUME Orderly, TypesOK, OrderOK, vcr.loading = FALSE, NEW s, Known(s.v),
         SeekBack(vcr, s) \/ SeekForward(vcr, s) \/ (SeekFromStart(vcr, s) /\ Request("seek")),
         NEW b, b = async \o s.jobs
  PROVE  Order(s.v.task, s.v.reset, s.v.loading, recorder, session, b, g_tasks)
<1>1. CASE SeekBack(vcr, s)
  <2>1. PICK k \in Nat : s.jobs = <<[op |-> "seekLoad", arg |-> k]>>
    BY <1>1 DEF SeekBack
  <2>2. vcr.task \notin Starts
    BY <1>1, StartTasksAre DEF SeekBack
  <2>3. Order(vcr.task, vcr.reset, TRUE, recorder, session, b, g_tasks)
    BY <2>1, <2>2, OrderSeekBack
  <2>4. s.v.task = vcr.task /\ s.v.reset = vcr.reset
    BY <1>1 DEF SeekBack, Only, Fields
  <2>5. s.v.loading = TRUE
    BY <1>1 DEF SeekBack, Known, Globals
  <2> QED
    BY <2>3, <2>4, <2>5
<1>2. CASE SeekForward(vcr, s)
  <2>1. s.v.task = vcr.task /\ s.v.reset = vcr.reset /\ s.v.loading = vcr.loading /\ s.jobs = <<>>
    BY <1>2 DEF SeekForward, Only, Fields
  <2>2. b = async
    BY <2>1 DEF TypesOK
  <2> QED
    BY <2>1, <2>2 DEF OrderOK
<1>3. CASE SeekFromStart(vcr, s) /\ Request("seek")
  BY <1>3, OrderFromStart
<1> QED
  BY <1>1, <1>2, <1>3

LEMMA OrderBeginSeek ==
  ASSUME Orderly, TypesOK, OrderOK, BeginSeek
  PROVE  OrderOK'
<1>1. PICK frame \in 1 .. MaxFrames - 1, pauseEnd \in BOOLEAN :
        /\ ~SeekRejected(vcr, frame, pauseEnd)
        /\ LET s == Seek(vcr, frame, pauseEnd, TRUE, FALSE, 0)
           IN  vcr' = s.v /\ async' = async \o s.jobs
  BY DEF BeginSeek
<1> DEFINE s == Seek(vcr, frame, pauseEnd, TRUE, FALSE, 0)
<1>2. vcr' = s.v /\ async' = async \o s.jobs /\ UNCHANGED <<g_tasks, recorder>> /\ Request("seek")
  BY <1>1 DEF BeginSeek
<1>3. vcr.loading = FALSE
  BY <1>1 DEF SeekRejected, TypesOK, Known, Globals
<1>4. frame \in Nat \ {0}
  BY MovieAssumption
<1>5. Known(s.v) /\ (SeekBack(vcr, s) \/ SeekFromStart(vcr, s) \/ SeekForward(vcr, s))
  BY <1>4, SeekType DEF TypesOK
<1> HIDE DEF s
<1>6. Order(s.v.task, s.v.reset, s.v.loading, recorder, session, async', g_tasks)
  BY <1>2, <1>3, <1>5, OrderSeek
<1> QED
  BY <1>2, <1>6, RequestUnchanged DEF OrderOK

LEMMA OrderWarpModify ==
  ASSUME Orderly, TypesOK, OrderOK, WarpModify
  PROVE  OrderOK'
<1>0. Known(vcr) /\ Edits \subseteq Inputs /\ Len(vcr.inputs) \in Nat /\ vcr.sample \in Nat
  BY EditsType, LenProperties DEF TypesOK, Known, Globals, Inputs
<1>1. PICK new \in Edits \ {vcr.inputs, <<>>} :
        LET first  == FirstDifference(vcr.inputs, new)
            target == Min({Len(new), vcr.sample})
            s      == Seek(vcr, target, TRUE, FALSE, TRUE, first)
        IN  IF first > vcr.sample
            THEN vcr' = [vcr EXCEPT !.inputs = new] /\ UNCHANGED async
            ELSE /\ ~SeekRejected(vcr, target, TRUE)
                 /\ vcr' = [s.v EXCEPT !.warp = TRUE, !.first = first,
                                       !.inputs = new, !.paused = FALSE]
                 /\ async' = async \o s.jobs
  BY DEF WarpModify
<1> DEFINE first  == FirstDifference(vcr.inputs, new)
           target == Min({Len(new), vcr.sample})
           s      == Seek(vcr, target, TRUE, FALSE, TRUE, first)
<1>2. new \in Inputs /\ Len(new) \in Nat
  BY <1>0, LenProperties DEF Inputs
<1>3. first \in Nat
  BY <1>0, <1>2, FirstDifferenceType DEF Known, Globals
<1>4. UNCHANGED <<session, g_tasks, recorder>> /\ vcr.task = "recording"
  BY RequestUnchanged DEF WarpModify
<1>5. CASE first > vcr.sample
  <2>1. vcr' = [vcr EXCEPT !.inputs = new] /\ UNCHANGED async
    BY <1>1, <1>5
  <2> HIDE DEF first, s
  <2>2. Phase(vcr') = Phase(vcr)
    BY <1>0, <2>1 DEF Known, Globals, Phase
  <2> QED
    BY <1>4, <2>1, <2>2, OrderSame
<1>6. CASE ~ (first > vcr.sample)
  <2>1. ~SeekRejected(vcr, target, TRUE) /\ Edited(s.v, vcr', first, new) /\ async' = async \o s.jobs
    BY <1>1, <1>6 DEF Edited
  <2>2. target \in Nat \ {0}
    <3>1. target \in Nat
      BY <1>0, <1>2, MinOfTwo
    <3>2. 0 < target
      BY <2>1 DEF SeekRejected, CanSeekTo
    <3> QED
      BY <3>1, <3>2
  <2>3. Known(s.v) /\ (SeekBack(vcr, s) \/ SeekFromStart(vcr, s) \/ SeekForward(vcr, s))
    BY <1>0, <1>3, <2>2, SeekType
  <2>4. vcr.loading = FALSE
    BY <1>0, <2>1 DEF SeekRejected, Known, Globals
  <2> HIDE DEF first, target, s
  <2>5. SeekBack(vcr, s) \/ SeekForward(vcr, s)
    BY <1>4, <2>3 DEF SeekFromStart
  <2>6. Order(s.v.task, s.v.reset, s.v.loading, recorder, session, async', g_tasks)
    BY <2>1, <2>3, <2>4, <2>5, OrderSeek
  <2>7. vcr'.task = s.v.task /\ vcr'.reset = s.v.reset /\ vcr'.loading = s.v.loading
    BY <1>2, <1>3, <2>1, <2>3, EditedType DEF Only, Fields
  <2> QED
    BY <1>4, <2>6, <2>7 DEF OrderOK
<1> QED
  BY <1>5, <1>6

\* The steps that leave the order as it is.
LEMMA OrderQuiet ==
  ASSUME TypesOK, OrderOK,
         EndSeek \/ ToggleReadonly \/ ResetRequested \/ TogglePause \/ PollIdle \/ PollNothing
  PROVE  OrderOK'
<1>0. Known(vcr)
  BY DEF TypesOK
<1>1. UNCHANGED <<g_tasks, async, recorder, session>>
  BY RequestUnchanged
     DEF EndSeek, ToggleReadonly, ResetRequested, TogglePause, PollIdle, PollNothing, Polling
<1>2. CASE EndSeek
  <2>1. vcr' = StopSeek(vcr) /\ Only(vcr, StopSeek(vcr), {"seek", "warp"})
    BY <1>0, <1>2, StopSeekType DEF EndSeek
  <2>2. Phase(vcr') = Phase(vcr)
    BY <2>1 DEF Only, Fields, Phase
  <2> QED
    BY <1>1, <2>2, OrderSame
<1>3. CASE ToggleReadonly \/ ResetRequested \/ TogglePause
  <2>1. Phase(vcr') = Phase(vcr)
    BY <1>0, <1>3 DEF ToggleReadonly, ResetRequested, TogglePause, Phase, Known, Globals
  <2> QED
    BY <1>1, <2>1, OrderSame
<1>4. CASE PollIdle \/ PollNothing
  BY <1>1, <1>4, OrderSame DEF PollIdle, PollNothing, Phase
<1> QED
  BY <1>2, <1>3, <1>4

\* The save a recording starts with.
LEMMA OrderRecordSaves ==
  ASSUME TypesOK, OrderOK, RecordSaves
  PROVE  OrderOK'
<1> DEFINE t == Path("Save", "record")
<1>1. /\ recorder /\ vcr' = [vcr EXCEPT !.sample = 0] /\ g_tasks' = Push(g_tasks, t)
      /\ recorder' = FALSE /\ UNCHANGED <<async, session>>
  BY DEF RecordSaves
<1>2. t \in Task /\ t.cb = "record"
  BY NewTasks DEF Path
<1> HIDE DEF t
<1>3. vcr'.task = vcr.task /\ vcr'.reset = vcr.reset /\ vcr'.loading = vcr.loading
  BY <1>1 DEF TypesOK, Known, Globals
<1>4. Absent(async, LoadFiles) /\ Absent(g_tasks, StartTasks) /\ vcr.task = StartTask("record")
  BY <1>1 DEF OrderOK, Order, StartOK
<1>5. t \notin BadStarts(vcr.task) /\ t \notin SeekLoads /\ t \notin SlotTasks
  BY <1>2, <1>4 DEF BadStarts, SeekLoads, SlotTasks
<1>6. /\ \A S : t \notin S => (Absent(g_tasks, S) => Absent(g_tasks', S))
                              /\ (Unique(g_tasks, S) => Unique(g_tasks', S))
      /\ \A S : Absent(g_tasks, S) => Unique(g_tasks', S)
  BY <1>1, <1>2, PushWaiting DEF Push, TypesOK
<1>7. RestartOK(vcr.task, vcr.reset, async)
  BY DEF OrderOK, Order
<1>8. StartOK(vcr.task, FALSE, async, g_tasks')
  BY <1>4, <1>5, <1>6 DEF OrderOK, Order, StartOK
<1>9. LoadingOK(vcr.task, vcr.loading, async, g_tasks')
  BY <1>5, <1>6 DEF OrderOK, Order, LoadingOK
<1>10. SlotsOK(vcr.task, session, async, g_tasks')
  BY <1>5, <1>6 DEF OrderOK, Order, SlotsOK
<1> QED
  BY <1>1, <1>3, <1>7, <1>8, <1>9, <1>10 DEF OrderOK, Order

LEMMA OrderInit ==
  ASSUME Init
  PROVE  OrderOK
<1>1. g_tasks = <<>> /\ async = <<>> /\ recorder = FALSE /\ vcr.loading = FALSE
  BY DEF Init
<1> QED
  BY <1>1, OrderNone DEF OrderOK

LEMMA OrderStep ==
  ASSUME Orderly, TypesOK, OrderOK, [Next]_vars
  PROVE  OrderOK'
<1>1. CASE UNCHANGED vars
  <2>1. UNCHANGED <<vcr, g_tasks, async, recorder, session>>
    BY <1>1 DEF vars
  <2> QED
    BY <2>1, OrderSame DEF Phase
<1>2. CASE Next
  BY <1>2, OrderWork, OrderStarting, OrderRecording, OrderPlayback, OrderQuiet, OrderJobs,
     OrderRecordSaves, OrderPatient, OrderSlot, OrderBeginSeek, OrderWarpModify
     DEF Next, Emulation, Jobs, User
<1> QED
  BY <1>1, <1>2

\* Starts, loads and restarts never overtake each other.
LEMMA OrderInvariant == Orderly => (Spec => [](TypesOK /\ OrderOK))
<1> SUFFICES ASSUME Orderly PROVE Spec => [](TypesOK /\ OrderOK)
  OBVIOUS
<1>1. Init => TypesOK /\ OrderOK
  BY TypesInit, OrderInit
<1>2. TypesOK /\ OrderOK /\ [Next]_vars => (TypesOK /\ OrderOK)'
  BY TypesStep, OrderStep
<1> QED
  BY <1>1, <1>2, PTL DEF Spec

-----------------------------------------------------------------------------
(* A recording that ends is in its file.                                   *)

Flushed == vcr.task = "recording" /\ vcr'.task # "recording" => vcr'.file.inputs = vcr.inputs

LEMMA StopAllFlushes ==
  ASSUME NEW v, Known(v), v.task = "recording"
  PROVE  StopAll(v).file.inputs = v.inputs
<1>1. StopAll(v).file = Header(v)
  BY StopAllType
<1>2. Header(v).inputs = v.inputs
  BY DEF Header
<1> QED
  BY <1>1, <1>2

\* Of the loads only one that goes on read-only ends a recording: it writes it first.
LEMMA UnfreezeFlushes ==
  ASSUME NEW v, Known(v), v.task = "recording", NEW f \in Frozen
  PROVE  Unfreeze(v, f).task = "recording" \/ Unfreeze(v, f).file.inputs = v.inputs
<1> DEFINE w == [v EXCEPT !.sample = f.sample]
           r == [w EXCEPT !.task = "recording"]
           s == [r EXCEPT !.inputs = Prefix(f.inputs, f.sample)]
<1>1. f.sample \in Nat /\ "recording" \in VcrTasks /\ Prefix(f.inputs, f.sample) \in Inputs
  BY PrefixType DEF Frozen, VcrTasks
<1>2. /\ Known(w) /\ w.task = "recording" /\ w.inputs = v.inputs
      /\ Known(s) /\ s.task = "recording" /\ r.task = "recording"
  BY <1>1 DEF Known, Globals
<1>3. Unfreeze(v, f) \in {w, r, WriteMovie(s), [WriteMovie(w) EXCEPT !.task = "playback"]}
  BY DEF Unfreeze
<1> HIDE DEF w, r, s
<1>4. WriteMovie(s).task = "recording"
  BY <1>2, WriteMovieType DEF Only, Fields
<1>5. /\ Known(WriteMovie(w)) /\ WriteMovie(w).file = Header(w)
  BY <1>2, WriteMovieType DEF IsRecording
<1>6. [WriteMovie(w) EXCEPT !.task = "playback"].file = Header(w)
  BY <1>5 DEF Known, Globals
<1>7. Header(w).inputs = v.inputs
  BY <1>2 DEF Header
<1> QED
  BY <1>2, <1>3, <1>4, <1>6, <1>7

LEMMA FlushedWork ==
  ASSUME TypesOK, OrderOK, WorkSave \/ WorkLoadFails \/ WorkLoad
  PROVE  Flushed
<1> SUFFICES ASSUME vcr.task = "recording", vcr'.task # "recording"
             PROVE  vcr'.file.inputs = vcr.inputs
  BY DEF Flushed
<1> DEFINE t == Head(g_tasks)
<1>1. /\ t \in Task /\ \A S : Absent(g_tasks, S) => t \notin S
  <2>1. g_tasks \in Seq(Task) /\ g_tasks # <<>>
    BY DEF WorkSave, WorkLoadFails, WorkLoad, Working, TypesOK
  <2> QED
    BY <2>1, TailWaiting, TailIsPart
<1>2. t.cb \notin StartCbs
  <2>1. t \notin BadStarts("recording")
    BY <1>1 DEF OrderOK, Order, StartOK
  <2> QED
    BY <1>1, <2>1, StartTasksAre DEF BadStarts, StartTasks, StartCbs
<1> HIDE DEF t
<1>3. CASE WorkSave
  BY <1>2, <1>3, SaveEffect DEF t, StartCbs
<1>4. CASE WorkLoadFails
  BY <1>2, <1>4, LoadFailsEffect DEF t
<1>5. CASE WorkLoad
  <2> DEFINE st == Source(t)
             u  == Unfreeze(vcr, st.frz)
             v  == IF CanUnfreeze(vcr, st.frz) THEN u ELSE vcr
  <2>1. t.cb \in {"seekLoad", "user"} /\ st \in States /\ vcr' = Succeeded(v, t, st)
    <3>1. t.cb \in StartCbs \cup {"seekLoad", "user"}
      BY <1>5, LoadEffect DEF t
    <3> QED
      BY <1>1, <1>2, <1>5, <3>1, SourceType DEF WorkLoad, t
  <2>2. st.frz \in Frozen
    BY <2>1 DEF States, Frozen
  <2> HIDE DEF st
  <2>3. Known(vcr) /\ Known(u)
    BY <2>2, UnfreezeType DEF TypesOK
  <2>4. u.task = "recording" \/ u.file.inputs = vcr.inputs
    BY <2>2, <2>3, UnfreezeFlushes
  <2> HIDE DEF u
  <2>5. Known(v) /\ (v.task = "recording" \/ v.file.inputs = vcr.inputs)
    BY <2>3, <2>4
  <2> HIDE DEF v
  <2>6. /\ t.cb = "seekLoad" => Only(v, vcr', {"loading"})
        /\ t.cb = "user" => vcr' = v
    BY <2>1, <2>5, SucceededType DEF StartCbs
  <2>7. vcr'.task = v.task /\ vcr'.file = v.file
    BY <2>1, <2>6 DEF Only, Fields
  <2> QED
    BY <2>5, <2>7
<1> QED
  BY <1>3, <1>4, <1>5

LEMMA FlushedPoll ==
  ASSUME TypesOK, PollStarting \/ PollRecording \/ PollPlayback
  PROVE  Flushed
<1> SUFFICES ASSUME vcr.task = "recording", vcr'.task # "recording"
             PROVE  FALSE
  BY DEF Flushed
<1>1. ~PollStarting /\ ~PollPlayback
  BY DEF PollStarting, PollPlayback, PollMovie, StartingPlayback
<1>2. PollRecording
  BY <1>1
<1> DEFINE v        == Polled(vcr).v
           buffered == v.sample < Len(v.inputs) \/ v.warp
           input(key) == IF v.askedReset THEN "reset"
                         ELSE IF buffered THEN Prefix(v.inputs, v.sample + 1)[v.sample + 1]
                         ELSE key
<1>3. PICK key \in Keys : Recorded1(v, vcr', input(key), buffered)
  BY <1>2 DEF PollRecording, Recorded1
<1>4. Known(v) /\ v.task = "recording"
  BY <1>2, PollEffect DEF PollRecording
<1> DEFINE in == input(key)
<1>5. Recorded1(v, vcr', in, buffered)
  BY <1>3
<1> HIDE DEF v, buffered, in
<1>6. vcr'.task = "recording"
  BY <1>4, <1>5 DEF Recorded1, Known, Globals
<1> QED
  BY <1>6

LEMMA FlushedJobs ==
  ASSUME TypesOK, OrderOK, NEW i, Restart(i) \/ Enqueue(i)
  PROVE  Flushed
<1> SUFFICES ASSUME vcr.task = "recording"
             PROVE  vcr'.task = "recording"
  BY DEF Flushed
<1> DEFINE j == async[i]
<1>1. CASE Restart(i)
  <2>1. j \in Job /\ j.op = "restart" /\ j \notin BadRestarts("recording")
    <3>1. i \in DOMAIN async /\ async \in Seq(Job) /\ async[i].op = "restart"
      BY <1>1 DEF Restart, Running, TypesOK
    <3> QED
      BY <3>1, LenProperties, ElementOfSeq DEF OrderOK, Order, RestartOK, Absent
  <2>2. j.arg \notin Starting
    BY <2>1 DEF BadRestarts, Restarts, Starting
  <2>3. vcr' = [vcr EXCEPT !.reset = FALSE, !.paused = FALSE]
    BY <1>1, <2>2 DEF Restart, Starting
  <2> QED
    BY <2>3 DEF TypesOK, Known, Globals
<1>2. CASE Enqueue(i)
  BY <1>2 DEF Enqueue, TypesOK, Known, Globals
<1> QED
  BY <1>1, <1>2

LEMMA FlushedRequests ==
  ASSUME TypesOK, RecordFromReset \/ RecordFromExisting \/ RecordFromSnapshot \/ Play \/ Stop
  PROVE  Flushed
<1> SUFFICES ASSUME vcr.task = "recording", vcr'.task # "recording"
             PROVE  vcr'.file.inputs = vcr.inputs
  BY DEF Flushed
<1>0. Known(vcr) /\ StopAll(vcr).file.inputs = vcr.inputs
  BY StopAllFlushes DEF TypesOK
<1>1. CASE RecordFromReset \/ RecordFromExisting \/ RecordFromSnapshot
  <2> DEFINE u == StartedRecord(vcr)
  <2>1. Known(u) /\ u.file = StopAll(vcr).file
    BY <1>0, StartedRecordType DEF Only, Fields
  <2>2. PICK task, start, origin, sample : Begun(u, vcr', task, start, origin, sample)
    <3>1. \/ Begun(u, vcr', "start_recording_from_reset", "reset", Boot, 0)
          \/ Begun(u, vcr', "start_recording_from_snapshot", "snapshot", <<>>, vcr.sample)
          \/ Begun(u, vcr', u.task, "snapshot", <<>>, vcr.sample)
          \/ Begun(u, vcr', "start_recording_from_existing_snapshot", "snapshot", u.st.mach, 0)
      BY <1>1, RecordSteps
    <3> QED
      BY <3>1
  <2> HIDE DEF u
  <2>3. vcr'.file = u.file
    BY <2>1, <2>2 DEF Begun, Known, Globals
  <2> QED
    BY <1>0, <2>1, <2>3
<1>2. CASE Play
  <2>1. /\ MovieRead(vcr).file = StopAll(vcr).file
        /\ StartedPlayback(vcr).file = MovieRead(vcr).file
    BY <1>0, MovieReadType, StartedPlaybackType DEF Only, Fields
  <2>2. vcr' \in {MovieRead(vcr), StartedPlayback(vcr)}
    BY <1>2 DEF Play
  <2> QED
    BY <1>0, <2>1, <2>2
<1>3. CASE Stop
  <2>1. [vcr EXCEPT !.states = <<>>].task = "recording"
    BY <1>0 DEF Known, Globals
  <2> QED
    BY <1>0, <1>3, <2>1 DEF Stop
<1> QED
  BY <1>1, <1>2, <1>3

\* Seeks and edits leave a recording one.
LEMMA FlushedSeeks ==
  ASSUME TypesOK, BeginSeek \/ WarpModify
  PROVE  Flushed
<1> SUFFICES ASSUME vcr.task = "recording"
             PROVE  vcr'.task = "recording"
  BY DEF Flushed
<1>0. Known(vcr)
  BY DEF TypesOK
<1>1. ASSUME NEW s, SeekBack(vcr, s) \/ SeekFromStart(vcr, s) \/ SeekForward(vcr, s)
      PROVE  s.v.task = "recording"
  BY <1>1 DEF SeekBack, SeekFromStart, SeekForward, Only, Fields
<1>2. CASE BeginSeek
  <2>1. PICK frame \in 1 .. MaxFrames - 1, pauseEnd \in BOOLEAN :
          LET s == Seek(vcr, frame, pauseEnd, TRUE, FALSE, 0)
          IN  vcr' = s.v /\ async' = async \o s.jobs
    BY <1>2 DEF BeginSeek
  <2> DEFINE s == Seek(vcr, frame, pauseEnd, TRUE, FALSE, 0)
  <2>2. frame \in Nat \ {0} /\ vcr' = s.v
    BY <2>1, MovieAssumption
  <2>3. SeekBack(vcr, s) \/ SeekFromStart(vcr, s) \/ SeekForward(vcr, s)
    BY <1>0, <2>2, SeekType
  <2> HIDE DEF s
  <2> QED
    BY <1>1, <2>2, <2>3
<1>3. CASE WarpModify
  <2>0. Edits \subseteq Inputs /\ Len(vcr.inputs) \in Nat /\ vcr.sample \in Nat
    BY <1>0, EditsType, LenProperties DEF TypesOK, Known, Globals, Inputs
  <2>1. PICK new \in Edits \ {vcr.inputs, <<>>} :
          LET first  == FirstDifference(vcr.inputs, new)
              target == Min({Len(new), vcr.sample})
              s      == Seek(vcr, target, TRUE, FALSE, TRUE, first)
          IN  IF first > vcr.sample
              THEN vcr' = [vcr EXCEPT !.inputs = new] /\ UNCHANGED async
              ELSE /\ ~SeekRejected(vcr, target, TRUE)
                   /\ vcr' = [s.v EXCEPT !.warp = TRUE, !.first = first,
                                         !.inputs = new, !.paused = FALSE]
                   /\ async' = async \o s.jobs
    BY <1>3 DEF WarpModify
  <2> DEFINE first  == FirstDifference(vcr.inputs, new)
             target == Min({Len(new), vcr.sample})
             s      == Seek(vcr, target, TRUE, FALSE, TRUE, first)
  <2>2. new \in Inputs /\ Len(new) \in Nat
    BY <2>0, LenProperties DEF Inputs
  <2>3. first \in Nat
    BY <1>0, <2>0, <2>2, FirstDifferenceType DEF Known, Globals
  <2>4. CASE first > vcr.sample
    <3>1. vcr' = [vcr EXCEPT !.inputs = new]
      BY <2>1, <2>4
    <3> QED
      BY <1>0, <3>1 DEF Known, Globals
  <2>5. CASE ~ (first > vcr.sample)
    <3>1. ~SeekRejected(vcr, target, TRUE) /\ Edited(s.v, vcr', first, new)
      BY <2>1, <2>5 DEF Edited
    <3>2. target \in Nat \ {0}
      <4>1. target \in Nat
        BY <2>0, <2>2, MinOfTwo
      <4>2. 0 < target
        BY <3>1 DEF SeekRejected, CanSeekTo
      <4> QED
        BY <4>1, <4>2
    <3>3. Known(s.v) /\ (SeekBack(vcr, s) \/ SeekFromStart(vcr, s) \/ SeekForward(vcr, s))
      BY <1>0, <2>3, <3>2, SeekType
    <3> HIDE DEF first, target, s
    <3>4. vcr'.task = s.v.task
      BY <2>2, <2>3, <3>1, <3>3, EditedType DEF Only, Fields
    <3> QED
      BY <1>1, <3>3, <3>4
  <2> QED
    BY <2>4, <2>5
<1> QED
  BY <1>2, <1>3

LEMMA FlushedStep ==
  ASSUME TypesOK, OrderOK, Next
  PROVE  Flushed
<1>1. CASE \/ WorkBegin \/ WorkEnd \/ WorkNone \/ PollIdle \/ PollNothing \/ SaveOrLoad
  BY <1>1 DEF WorkBegin, WorkEnd, WorkNone, PollIdle, PollNothing, SaveOrLoad, Flushed
<1>2. CASE ToggleReadonly \/ ResetRequested \/ TogglePause \/ RecordSaves
  BY <1>2 DEF ToggleReadonly, ResetRequested, TogglePause, RecordSaves, Flushed,
              TypesOK, Known, Globals
<1>3. CASE EndSeek
  <2>1. vcr' = StopSeek(vcr) /\ Only(vcr, StopSeek(vcr), {"seek", "warp"})
    BY <1>3, StopSeekType DEF EndSeek, TypesOK
  <2> QED
    BY <2>1 DEF Only, Fields, Flushed
<1> QED
  BY <1>1, <1>2, <1>3, FlushedWork, FlushedPoll, FlushedJobs, FlushedRequests, FlushedSeeks
     DEF Next, Emulation, Jobs, User

\* Whichever way a recording ends (stopped, recorded or played over, ended by a load
\* that asks for or goes on read-only), its file has every input it had, as long as
\* starts and stops are asked for one at a time: write_movie() is called on each way.
THEOREM RecordingsAreFlushed == Orderly => (Spec => RecordingFlushed)
<1> SUFFICES ASSUME Orderly PROVE Spec => RecordingFlushed
  OBVIOUS
<1>1. Spec => [](TypesOK /\ OrderOK)
  BY OrderInvariant
<1>2. TypesOK /\ OrderOK /\ [Next]_vars
        => [vcr.task = "recording" /\ vcr'.task # "recording"
              => vcr'.file.inputs = vcr.inputs]_vars
  BY FlushedStep DEF Flushed
<1> QED
  BY <1>1, <1>2, PTL DEF Spec, RecordingFlushed

-----------------------------------------------------------------------------
(* The machine is where the movie's inputs lead.                           *)

LEMMA PrefixWithin ==
  ASSUME NEW S, NEW s \in Seq(S), NEW n \in Nat, n <= Len(s)
  PROVE  Prefix(s, n) \in Seq(S) /\ Len(Prefix(s, n)) = n /\ \A i \in 1 .. n : Prefix(s, n)[i] = s[i]
<1>1. Len(s) \in Nat /\ \A i \in 1 .. Len(s) : s[i] \in S
  BY LenProperties, ElementOfSeq
<1>2. \A i \in 1 .. n : i <= Len(s) /\ s[i] \in S
  BY <1>1
<1>3. Prefix(s, n) \in [1 .. n -> S] /\ \A i \in 1 .. n : Prefix(s, n)[i] = s[i]
  BY <1>2 DEF Prefix
<1>4. Prefix(s, n) \in Seq(S)
  BY <1>3, SeqDef
<1> QED
  BY <1>3, <1>4, LenProperties

LEMMA PrefixEqual ==
  ASSUME NEW S, NEW s \in Seq(S), NEW t \in Seq(S), Len(s) = Len(t),
         \A i \in 1 .. Len(s) : s[i] = t[i]
  PROVE  s = t
BY SeqEqual

LEMMA PrefixWhole ==
  ASSUME NEW S, NEW s \in Seq(S)
  PROVE  Prefix(s, Len(s)) = s
<1>1. Len(s) \in Nat
  BY LenProperties
<1>2. /\ Prefix(s, Len(s)) \in Seq(S) /\ Len(Prefix(s, Len(s))) = Len(s)
      /\ \A i \in 1 .. Len(s) : Prefix(s, Len(s))[i] = s[i]
  BY <1>1, PrefixWithin
<1> QED
  BY <1>2, PrefixEqual

LEMMA PrefixNone ==
  ASSUME NEW s
  PROVE  Prefix(s, 0) = <<>>
<1>1. 1 .. 0 = {}
  OBVIOUS
<1> QED
  BY <1>1 DEF Prefix

LEMMA PrefixNext ==
  ASSUME NEW S, NEW s \in Seq(S), NEW n \in Nat, n < Len(s)
  PROVE  Prefix(s, n + 1) = Append(Prefix(s, n), s[n + 1]) /\ s[n + 1] \in S
<1> DEFINE p == Prefix(s, n)
           q == Prefix(s, n + 1)
           r == Append(p, s[n + 1])
<1>0. Len(s) \in Nat /\ n + 1 \in 1 .. Len(s) /\ s[n + 1] \in S
  <2>1. Len(s) \in Nat /\ DOMAIN s = 1 .. Len(s)
    BY LenProperties
  <2>2. n + 1 \in 1 .. Len(s)
    BY <2>1
  <2> QED
    BY <2>1, <2>2, ElementOfSeq
<1>1. p \in Seq(S) /\ Len(p) = n /\ \A i \in 1 .. n : p[i] = s[i]
  BY PrefixWithin, <1>0
<1>2. q \in Seq(S) /\ Len(q) = n + 1 /\ \A i \in 1 .. n + 1 : q[i] = s[i]
  BY PrefixWithin, <1>0
<1> HIDE DEF p, q
<1>3. /\ r \in Seq(S) /\ Len(r) = n + 1 /\ r[n + 1] = s[n + 1]
      /\ \A i \in 1 .. n : r[i] = p[i]
  BY <1>0, <1>1, AppendProperties
<1> HIDE DEF r
<1>4. \A i \in 1 .. n + 1 : i \in 1 .. n \/ i = n + 1
  OBVIOUS
<1>5. \A i \in 1 .. Len(q) : q[i] = r[i]
  BY <1>1, <1>2, <1>3, <1>4
<1>6. q = r
  BY <1>2, <1>3, <1>5, PrefixEqual
<1> QED
  BY <1>0, <1>6 DEF p, q, r

LEMMA SubSeqFrom ==
  ASSUME NEW S, NEW s \in Seq(S), NEW n, n = Len(s), NEW r \in Nat, r <= n
  PROVE  /\ SubSeq(s, r + 1, n) \in Seq(S) /\ Len(SubSeq(s, r + 1, n)) = n - r
         /\ \A i \in 1 .. n - r : SubSeq(s, r + 1, n)[i] = s[r + i]
<1> DEFINE a == SubSeq(s, r + 1, n)
<1>1. n \in Nat /\ DOMAIN s = 1 .. n
  BY LenProperties
<1>2. \A i \in r + 1 .. n : s[i] \in S
  <2> TAKE i \in r + 1 .. n
  <2>1. i \in 1 .. n
    BY <1>1
  <2> QED
    BY <1>1, <2>1, ElementOfSeq
<1>3. r + 1 \in Int /\ n \in Int /\ n - (r + 1) + 1 = n - r
  BY <1>1
<1>4. /\ a \in Seq(S)
      /\ Len(a) = IF r + 1 <= n THEN n - (r + 1) + 1 ELSE 0
      /\ \A i \in 1 .. n - (r + 1) + 1 : a[i] = s[r + 1 + i - 1]
  BY <1>2, <1>3, SubSeqProperties
<1>0. r <= n /\ n \in Nat
  BY <1>1
<1> HIDE DEF a
<1>5. Len(a) = n - r
  <2>1. (IF r + 1 <= n THEN n - (r + 1) + 1 ELSE 0) = n - r
    BY <1>0
  <2> QED
    BY <2>1, <1>4
<1>6. \A i \in 1 .. n - r : r + 1 + i - 1 = r + i
  BY <1>0
<1>7. \A i \in 1 .. n - r : a[i] = s[r + i]
  BY <1>3, <1>4, <1>6
<1> QED
  BY <1>4, <1>5, <1>7 DEF a

\* The last reset among the inputs.
Resets(s) == {i \in DOMAIN s : s[i] = "reset"}
LastReset(s) == Max({0} \cup Resets(s))

LEMMA LastResetIs ==
  ASSUME NEW S, NEW s \in Seq(S), NEW r \in {0} \cup Resets(s), \A i \in Resets(s) : i <= r
  PROVE  LastReset(s) = r
<1> DEFINE R == {0} \cup Resets(s)
<1>1. DOMAIN s = 1 .. Len(s) /\ Len(s) \in Nat
  BY LenProperties
<1>2. R \subseteq Nat /\ R # {}
  BY <1>1 DEF Resets
<1>3. Bounded(R)
  <2>1. \A i \in R : i <= r
    BY <1>2
  <2> QED
    BY <1>2, <2>1 DEF Bounded
<1> HIDE DEF R
<1>4. Max(R) \in R /\ \A i \in R : i <= Max(R)
  BY <1>2, <1>3, MaxInSet
<1>5. Max(R) <= r /\ r <= Max(R)
  <2>1. r \in R
    BY DEF R
  <2>2. \A i \in R : i <= r
    BY <1>2 DEF R
  <2> QED
    BY <1>4, <2>1, <2>2
<1>6. Max(R) \in Nat /\ r \in Nat
  BY <1>2, <1>4 DEF R
<1>7. Max(R) = r
  BY <1>5, <1>6
<1> QED
  BY <1>7 DEF R, LastReset

LEMMA LastResetAppended ==
  ASSUME NEW S, NEW s \in Seq(S), NEW x \in S
  PROVE  /\ LastReset(s) \in 0 .. Len(s)
         /\ LastReset(Append(s, x)) = IF x = "reset" THEN Len(s) + 1 ELSE LastReset(s)
<1> DEFINE n == Len(s)
           t == Append(s, x)
           R == {0} \cup Resets(s)
<1>1. DOMAIN s = 1 .. n /\ n \in Nat
  BY LenProperties
<1>2. t \in Seq(S) /\ Len(t) = n + 1 /\ t[n + 1] = x /\ \A i \in 1 .. n : t[i] = s[i]
  BY AppendProperties
<1>3. DOMAIN t = 1 .. n + 1
  BY <1>2, LenProperties
<1> HIDE DEF t, n
<1>4. Resets(t) = Resets(s) \cup (IF x = "reset" THEN {n + 1} ELSE {})
  BY <1>1, <1>2, <1>3 DEF Resets
<1>5. R \subseteq 0 .. n /\ R # {}
  BY <1>1 DEF Resets
<1>6. Bounded(R) /\ R \subseteq Nat
  <2> HIDE DEF R
  <2>1. R \subseteq Nat /\ \A i \in R : i <= n
    BY <1>1, <1>5
  <2> QED
    BY <1>1, <2>1 DEF Bounded
<1> HIDE DEF R
<1>7. LastReset(s) \in R /\ \A i \in R : i <= LastReset(s)
  <2>1. Max(R) \in R /\ \A i \in R : i <= Max(R)
    BY <1>5, <1>6, MaxInSet
  <2> QED
    BY <2>1 DEF LastReset, R
<1>8. CASE x = "reset"
  <2>1. n + 1 \in {0} \cup Resets(t) /\ \A i \in Resets(t) : i <= n + 1
    BY <1>1, <1>4, <1>5, <1>8 DEF R
  <2>2. LastReset(t) = n + 1
    BY <1>2, <2>1, LastResetIs
  <2> QED
    BY <1>5, <1>7, <1>8, <2>2 DEF t, n
<1>9. CASE x # "reset"
  <2>1. LastReset(s) \in {0} \cup Resets(t) /\ \A i \in Resets(t) : i <= LastReset(s)
    BY <1>4, <1>7, <1>9 DEF R
  <2>2. LastReset(t) = LastReset(s)
    BY <1>2, <2>1, LastResetIs
  <2> QED
    BY <1>5, <1>7, <1>9, <2>2 DEF t, n
<1> QED
  BY <1>8, <1>9

LEMMA LeadsFrom ==
  ASSUME NEW o, NEW s
  PROVE  Leads(o, s) = IF LastReset(s) = 0 THEN o \o s
                       ELSE Boot \o SubSeq(s, LastReset(s) + 1, Len(s))
BY DEF Leads, LastReset, Resets

\* No input leads nowhere; each further one leads on, and a reset back to the start.
LEMMA LeadsNone ==
  ASSUME NEW M, NEW o \in Seq(M)
  PROVE  Leads(o, <<>>) = o
<1>1. Resets(<<>>) = {} /\ <<>> \in Seq({})
  BY DEF Resets
<1>2. LastReset(<<>>) = 0
  BY <1>1, LastResetIs
<1>3. o \o <<>> = o
  OBVIOUS
<1> QED
  BY <1>2, <1>3, LeadsFrom

LEMMA LeadsOn ==
  ASSUME NEW M, "boot" \in M, NEW o \in Seq(M), NEW S, S \subseteq M, NEW s \in Seq(S), NEW x \in S
  PROVE  Leads(o, Append(s, x)) = IF x = "reset" THEN Boot ELSE Append(Leads(o, s), x)
<1> DEFINE n == Len(s)
           t == Append(s, x)
           r == LastReset(s)
<1>0. n \in Nat /\ s \in Seq(M) /\ x \in M /\ Boot \in Seq(M)
  <2>1. s \in Seq(M)
    <3>1. \A i \in 1 .. Len(s) : s[i] \in M
      BY LenProperties, ElementOfSeq
    <3>2. s \in [1 .. Len(s) -> M]
      BY <3>1, LenProperties
    <3> QED
      BY <3>2, LenProperties, SeqDef
  <2> QED
    BY <2>1, LenProperties DEF Boot
<1>1. t \in Seq(M) /\ Len(t) = n + 1 /\ t[n + 1] = x /\ \A i \in 1 .. n : t[i] = s[i]
  BY <1>0, AppendProperties
<1>2. r \in 0 .. n /\ LastReset(t) = IF x = "reset" THEN n + 1 ELSE r
  BY LastResetAppended
<1> HIDE DEF n, t, r
<1>3. CASE x = "reset"
  <2>1. SubSeq(t, n + 2, n + 1) = <<>>
    BY <1>0, <1>1
  <2>2. LastReset(t) # 0 /\ LastReset(t) + 1 = n + 2
    BY <1>0, <1>2, <1>3
  <2>3. Boot \o <<>> = Boot
    BY <1>0
  <2>4. Leads(o, t) = Boot
    BY <1>1, <2>1, <2>2, <2>3, LeadsFrom
  <2> QED
    BY <1>3, <2>4 DEF t
<1>4. CASE x # "reset" /\ r = 0
  <2>1. Leads(o, t) = o \o t /\ Leads(o, s) = o \o s
    BY <1>2, <1>4, LeadsFrom DEF r
  <2>2. o \o Append(s, x) = Append(o \o s, x)
    BY <1>0
  <2> QED
    BY <1>4, <2>1, <2>2 DEF t
<1>5. CASE x # "reset" /\ r # 0
  <2> DEFINE k == n + 1
             a == SubSeq(s, r + 1, n)
             b == SubSeq(t, r + 1, k)
  <2>1. Leads(o, t) = Boot \o b /\ Leads(o, s) = Boot \o a
    BY <1>1, <1>2, <1>5, LeadsFrom DEF r, n
  <2>2. r \in Nat /\ r <= n /\ n \in Nat /\ k = n + 1 /\ k \in Nat /\ r <= k /\ Len(t) = k
    BY <1>0, <1>1, <1>2
  <2> HIDE DEF k
  <2>3. a \in Seq(M) /\ Len(a) = n - r /\ \A i \in 1 .. n - r : a[i] = s[r + i]
    <3>1. s \in Seq(M) /\ n = Len(s)
      BY <1>0 DEF n
    <3> QED
      BY <2>2, <3>1, SubSeqFrom
  <2>4. b \in Seq(M) /\ Len(b) = k - r /\ \A i \in 1 .. k - r : b[i] = t[r + i]
    BY <1>1, <2>2, SubSeqFrom
  <2> HIDE DEF a, b
  <2>5. /\ Append(a, x) \in Seq(M) /\ Len(Append(a, x)) = k - r
        /\ \A i \in 1 .. n - r : Append(a, x)[i] = a[i]
        /\ Append(a, x)[k - r] = x
    <3>1. Len(a) + 1 = k - r
      BY <2>2, <2>3
    <3> QED
      BY <1>0, <2>3, <3>1, AppendProperties
  <2>6. \A i \in 1 .. k - r : b[i] = Append(a, x)[i]
    <3> TAKE i \in 1 .. k - r
    <3>1. CASE i \in 1 .. n - r
      <4>1. r + i \in 1 .. n
        BY <2>2, <3>1
      <4> QED
        BY <1>1, <2>3, <2>4, <2>5, <3>1, <4>1
    <3>2. CASE i = k - r
      <4>1. r + i = n + 1
        BY <2>2, <3>2
      <4> QED
        BY <1>1, <2>4, <2>5, <3>2, <4>1
    <3>3. i \in 1 .. n - r \/ i = k - r
      BY <2>2
    <3> QED
      BY <3>1, <3>2, <3>3
  <2>7. b = Append(a, x)
    BY <2>4, <2>5, <2>6, PrefixEqual
  <2>8. Boot \o Append(a, x) = Append(Boot \o a, x)
    BY <1>0, <2>3
  <2> QED
    BY <1>5, <2>1, <2>7, <2>8 DEF a, b, t
<1> QED
  BY <1>3, <1>4, <1>5

\* The fields the invariant does not depend on.
Aside == {"states", "paused", "readonly", "first", "interval", "pauseEnd", "askedReset"}
\* ... and those a session without seeks and edits does.
Calm == {"seek", "loading", "warp", "askedReset"}

LEMMA CalmSame ==
  ASSUME NEW v, NEW w, Only(v, w, Fields \ Calm), NEW s, CalmOK(v, s)
  PROVE  CalmOK(w, s)
<1>1. /\ w.seek = v.seek /\ w.loading = v.loading /\ w.warp = v.warp
      /\ w.askedReset = v.askedReset
  BY DEF Only, Fields, Calm
<1> QED
  BY <1>1 DEF CalmOK

LEMMA SyncSame ==
  ASSUME NEW v, NEW w, Only(v, w, Aside), NEW sl, NEW m, NEW rec, NEW s, Sync(v, sl, m, rec, s)
  PROVE  Sync(w, sl, m, rec, s)
<1>1. /\ w.task = v.task /\ w.uid = v.uid /\ w.start = v.start /\ w.origin = v.origin
      /\ w.inputs = v.inputs /\ w.sample = v.sample /\ w.reset = v.reset
      /\ w.movies = v.movies /\ w.file = v.file /\ w.st = v.st
  BY DEF Only, Fields, Aside
<1>3. InputsOK(v, sl, s) => InputsOK(w, sl, s)
  BY <1>1 DEF InputsOK
<1>4. UidOK(v, sl) => UidOK(w, sl)
  BY <1>1 DEF UidOK
<1>5. OriginOK(v) => OriginOK(w)
  BY <1>1 DEF OriginOK
<1>6. BeginOK(v, rec, sl) => BeginOK(w, rec, sl)
  BY <1>1 DEF BeginOK
<1>7. GoodOK(v, sl) => GoodOK(w, sl)
  BY <1>1 DEF GoodOK
<1>8. ResetOK(v, s) => ResetOK(w, s)
  BY <1>1 DEF ResetOK
<1>9. RunOK(v, m) => RunOK(w, m)
  BY <1>1 DEF RunOK, Lost
<1> QED
  BY <1>3, <1>4, <1>5, <1>6, <1>7, <1>8, <1>9 DEF Sync

\* A movie written to its file.
LEMMA SyncWritten ==
  ASSUME NEW v, NEW w, Only(v, w, Aside \cup {"file"}), v.task # "idle", w.file = Header(v),
         NEW sl, NEW m, NEW rec, NEW s, Sync(v, sl, m, rec, s)
  PROVE  Sync(w, sl, m, rec, s)
<1>1. /\ w.task = v.task /\ w.uid = v.uid /\ w.start = v.start /\ w.origin = v.origin
      /\ w.inputs = v.inputs /\ w.sample = v.sample /\ w.reset = v.reset
      /\ w.movies = v.movies /\ w.st = v.st
  BY DEF Only, Fields, Aside
<1>2. /\ w.file.uid = v.uid /\ w.file.start = v.start /\ w.file.origin = v.origin
      /\ w.file.inputs = v.inputs
  BY DEF Header
<1>3. InputsOK(w, sl, s)
  BY <1>1, <1>2 DEF Sync, InputsOK
<1>4. UidOK(w, sl)
  BY <1>1, <1>2 DEF Sync, UidOK
<1>5. OriginOK(w)
  BY <1>1, <1>2 DEF Sync, OriginOK
<1>6. BeginOK(w, rec, sl)
  BY <1>1 DEF Sync, BeginOK
<1>7. GoodOK(w, sl)
  BY <1>1, <1>2 DEF Sync, GoodOK
<1>8. ResetOK(w, s)
  BY <1>1 DEF Sync, ResetOK
<1>9. RunOK(w, m)
  BY <1>1 DEF Sync, RunOK, Lost
<1> QED
  BY <1>3, <1>4, <1>5, <1>6, <1>7, <1>8, <1>9 DEF Sync

\* A movie that ends.
LEMMA SyncIdle ==
  ASSUME NEW v, NEW w, Only(v, w, Aside \cup {"task"}), w.task = "idle", ~v.reset,
         v.task # StartTask("record"), NEW sl, NEW m, NEW rec, NEW s, Sync(v, sl, m, rec, s)
  PROVE  Sync(w, sl, m, rec, s)
<1>1. /\ w.uid = v.uid /\ w.start = v.start /\ w.origin = v.origin
      /\ w.inputs = v.inputs /\ w.reset = v.reset
      /\ w.movies = v.movies /\ w.file = v.file /\ w.st = v.st
  BY DEF Only, Fields, Aside
<1>2. "idle" \notin Starts /\ "idle" # StartTask("record") /\ "idle" # StartTask("recordExisting")
  BY StartTasksAre
<1>3. InputsOK(w, sl, s)
  BY <1>1 DEF Sync, InputsOK
<1>4. UidOK(w, sl)
  BY <1>1 DEF Sync, UidOK
<1>5. OriginOK(w)
  BY <1>1 DEF Sync, OriginOK
<1>6. BeginOK(w, rec, sl)
  BY <1>1, <1>2 DEF Sync, BeginOK
<1>7. GoodOK(w, sl)
  BY <1>1 DEF Sync, GoodOK
<1>8. ResetOK(w, s)
  BY <1>1 DEF Sync, ResetOK
<1>9. RunOK(w, m)
  BY DEF RunOK
<1> QED
  BY <1>3, <1>4, <1>5, <1>6, <1>7, <1>8, <1>9 DEF Sync

\* stop_all() of a movie that is not about to start from a reset.
LEMMA SyncStopAll ==
  ASSUME NEW v, Known(v), v.task # "start_recording_from_reset", ~v.reset,
         NEW sl, NEW m, NEW rec, NEW s, Sync(v, sl, m, rec, s)
  PROVE  Sync(StopAll(v), sl, m, rec, s)
<1> DEFINE u == StopAll(v)
<1>0. <<>> \in StateMaps /\ "idle" \in VcrTasks /\ Header(v) \in Movies
  BY NothingTypes DEF VcrTasks, Known, Globals, Header, Movies
<1>1. CASE v.task = "recording"
  <2> DEFINE h == Header(v)
             w == [v EXCEPT !.file = h]
  <2>1. u = [v EXCEPT !.states = <<>>, !.task = "idle", !.file = h]
    BY <1>1, StopAllCases
  <2> HIDE DEF h, u
  <2>2. Only(v, w, Aside \cup {"file"}) /\ w.file = h /\ w.reset = v.reset /\ w.task = "recording"
    BY <1>1 DEF Only, Fields, Known, Globals
  <2>3. Only(w, u, Aside \cup {"task"}) /\ u.task = "idle"
    BY <1>0, <2>1 DEF Only, Fields, Known, Globals, Aside
  <2> HIDE DEF w
  <2>4. Sync(w, sl, m, rec, s)
    BY <1>1, <2>2, SyncWritten DEF h
  <2>5. Sync(u, sl, m, rec, s)
    BY <2>2, <2>3, <2>4, StartTasksAre, SyncIdle
  <2> QED
    BY <2>5 DEF u
<1>2. CASE IsPlayback(v.task)
  <2>1. u = [v EXCEPT !.states = <<>>, !.task = "idle"]
    BY <1>2, StopAllCases
  <2>2. Only(v, u, Aside \cup {"task"}) /\ u.task = "idle"
    BY <2>1 DEF Only, Fields, Known, Globals, Aside
  <2>3. v.task # StartTask("record")
    BY <1>2, StartTasksAre DEF IsPlayback, StartingPlayback
  <2> HIDE DEF u
  <2>4. Sync(u, sl, m, rec, s)
    BY <2>2, <2>3, SyncIdle
  <2> QED
    BY <2>4 DEF u
<1>3. CASE ~Ended(v.task)
  <2>1. u = [v EXCEPT !.states = <<>>]
    BY <1>3, StopAllCases
  <2>2. Only(v, u, Aside)
    BY <2>1 DEF Only, Fields, Known, Globals, Aside
  <2> HIDE DEF u
  <2>3. Sync(u, sl, m, rec, s)
    BY <2>2, SyncSame
  <2> QED
    BY <2>3 DEF u
<1> QED
  BY <1>1, <1>2, <1>3 DEF Ended

\* A new recording, whose id no savestate has.
LEMMA SyncBegun ==
  ASSUME NEW u, Known(u), NEW w, NEW sl, NEW m, NEW rec, NEW rec2, NEW s, Sync(u, sl, m, rec, s),
         Only(u, w, Aside \cup {"inputs", "uid", "movies", "task", "start", "origin", "sample"}),
         ~u.reset, u.task # StartTask("record"), sl \in [Slots -> States],
         w.inputs = <<>>, w.uid = u.movies + 1, w.movies = u.movies + 1,
         w.task \in {"idle", "start_recording_from_reset", StartTask("record"),
                     StartTask("recordExisting")},
         w.start = IF w.task = "start_recording_from_reset" THEN "reset" ELSE "snapshot",
         w.start = "reset" => w.origin = Boot,
         w.task = StartTask("recordExisting") => w.st # NoState,
         w.task = "idle" => w.st = NoState,
         w.task = StartTask("recordExisting") => w.origin = w.st.mach,
         w.task = StartTask("record") => rec2,
         w.task # StartTask("record") => w.sample = 0 \/ w.task = "idle"
  PROVE  Sync(w, sl, m, rec2, s)
<1>1. w.reset = u.reset /\ w.file = u.file /\ w.st = u.st
  BY DEF Only, Fields, Aside
<1>2. /\ u.movies \in Nat /\ u.uid \in Nat /\ u.file.uid \in Nat /\ u.st.frz.uid \in Nat
      /\ \A k \in Slots : sl[k].frz.uid \in Nat
  BY DEF Known, Globals, Movies, States
<1>3. InputsOK(w, sl, s)
  BY <1>1 DEF Sync, InputsOK
<1>4. UidOK(w, sl)
  BY <1>1, <1>2 DEF Sync, UidOK
<1>5. OriginOK(w)
  <2>1. w.file.uid # w.uid
    BY <1>1, <1>2 DEF Sync, UidOK
  <2>2. w.file # NoMovie /\ w.file.start = "reset" => w.file.origin = Boot
    BY <1>1 DEF Sync, OriginOK
  <2>3. w.st # NoState => w.st.frz.sample = 0
    BY <1>1 DEF Sync, OriginOK
  <2>4. w.st # NoState /\ w.file.start = "snapshot" => w.file.origin = w.st.mach
    BY <1>1 DEF Sync, OriginOK
  <2>5. w.st # NoState /\ w.task # StartTask("record") /\ w.start = "snapshot" => w.origin = w.st.mach
    OBVIOUS
  <2> QED
    BY <2>1, <2>2, <2>3, <2>4, <2>5 DEF OriginOK
<1>6. BeginOK(w, rec2, sl)
  <2>1. w.task \in Starts => w.sample = 0 \/ rec2
    BY StartTasksAre
  <2>2. w.task \in Starts => w.start = IF w.task \in Starting THEN "reset" ELSE "snapshot"
    BY StartTasksAre DEF Starting
  <2>3. w.task \in {StartTask("recordExisting"), StartTask("play")} => w.st # NoState
    BY StartTasksAre
  <2>4. \A k \in Slots : sl[k].frz.uid # w.uid
    BY <1>2 DEF Sync, UidOK
  <2>5. w.st.frz.uid # w.uid
    BY <1>1, <1>2 DEF Sync, UidOK
  <2> QED
    BY <2>1, <2>2, <2>3, <2>4, <2>5 DEF BeginOK
<1>7. GoodOK(w, sl)
  <2>1. \A k \in Slots : sl[k].frz.uid # w.uid
    BY <1>2 DEF Sync, UidOK
  <2>2. \A k \in Slots : Good(sl[k], w.uid, w.origin)
    BY <2>1 DEF Good
  <2> QED
    BY <1>1, <2>2 DEF Sync, GoodOK
<1>8. ResetOK(w, s)
  BY <1>1 DEF ResetOK
<1>9. RunOK(w, m)
  BY StartTasksAre DEF RunOK
<1> QED
  BY <1>3, <1>4, <1>5, <1>6, <1>7, <1>8, <1>9 DEF Sync

\* Frames that do not count: of no movie, or before the reset that is under way.
LEMMA SyncMachine ==
  ASSUME NEW v, NEW sl, NEW m, NEW rec, NEW s, Sync(v, sl, m, rec, s), NEW m2,
         v.reset \/ v.task \notin {"recording", "playback"}
  PROVE  Sync(v, sl, m2, rec, s)
<1>1. RunOK(v, m2)
  BY DEF Sync, RunOK
<1> QED
  BY <1>1 DEF Sync

\* A running movie goes on, from another position or with other inputs.
LEMMA SyncRun ==
  ASSUME NEW v, NEW w, NEW sl, NEW m, NEW m2, NEW rec, NEW s, Sync(v, sl, m, rec, s),
         Only(v, w, Aside \cup {"sample", "task", "inputs", "file", "reset"}),
         v.task \in {"recording", "playback"}, w.task \in {"recording", "playback"},
         w.inputs \in Seq(Input(s)),
         \/ w.file = v.file
         \/ /\ w.file.uid = v.uid /\ w.file.start = v.start /\ w.file.origin = v.origin
            /\ w.file.inputs \in Seq(Input(s)),
         ResetOK(w, s), RunOK(w, m2)
  PROVE  Sync(w, sl, m2, rec, s)
<1>1. /\ w.uid = v.uid /\ w.start = v.start /\ w.origin = v.origin
      /\ w.movies = v.movies /\ w.st = v.st
  BY DEF Only, Fields, Aside
<1>2. w.task \notin Starts /\ v.task \notin Starts /\ w.task # "idle" /\ v.task # "idle"
      /\ StartTask("record") \in Starts /\ StartTask("recordExisting") \in Starts
  BY StartTasksAre
<1>3. InputsOK(w, sl, s)
  BY DEF Sync, InputsOK
<1>4. UidOK(w, sl)
  BY <1>1, <1>2 DEF Sync, UidOK
<1>5. OriginOK(w)
  BY <1>1, <1>2 DEF Sync, OriginOK
<1>6. BeginOK(w, rec, sl)
  BY <1>2 DEF BeginOK
<1>7. GoodOK(w, sl)
  BY <1>1 DEF Sync, GoodOK
<1> QED
  BY <1>3, <1>4, <1>5, <1>6, <1>7 DEF Sync

\* A movie that was about to start, from a reset or from a state, runs.
LEMMA SyncStarts ==
  ASSUME NEW v, NEW w, Known(v), NEW sl, NEW m, NEW rec, NEW s, Sync(v, sl, m, rec, s),
         Only(v, w, Aside \cup {"sample", "task", "reset"}),
         v.task \in Starts, v.task # StartTask("record"),
         w.task \in {"recording", "playback"}, w.task = "recording" => IsRecording(v.task),
         w.sample = 0, ~w.reset
  PROVE  Sync(w, sl, v.origin, rec, s)
<1>1. /\ w.uid = v.uid /\ w.start = v.start /\ w.origin = v.origin /\ w.inputs = v.inputs
      /\ w.movies = v.movies /\ w.st = v.st /\ w.file = v.file
  BY DEF Only, Fields, Aside
<1>2. w.task \notin Starts /\ w.task # "idle" /\ v.task # "idle"
      /\ StartTask("record") \in Starts /\ StartTask("recordExisting") \in Starts
  BY StartTasksAre
<1>3. InputsOK(w, sl, s)
  BY <1>1 DEF Sync, InputsOK
<1>4. UidOK(w, sl)
  BY <1>1, <1>2 DEF Sync, UidOK
<1>5. OriginOK(w)
  BY <1>1, <1>2 DEF Sync, OriginOK
<1>6. BeginOK(w, rec, sl)
  BY <1>2 DEF BeginOK
<1>7. GoodOK(w, sl)
  BY <1>1 DEF Sync, GoodOK
<1>8. ResetOK(w, s)
  BY DEF ResetOK
<1>9. RunOK(w, v.origin)
  <2>1. w.inputs \in Inputs /\ w.origin \in Machines
    BY <1>1 DEF Known, Globals
  <2>2. Len(w.inputs) \in Nat
    BY <2>1, LenProperties DEF Inputs
  <2>3. w.task = "recording" => w.inputs = <<>>
    BY <1>1 DEF Sync, BeginOK
  <2>4. Len(<<>>) = 0
    OBVIOUS
  <2>5. Prefix(w.inputs, w.sample) = <<>>
    BY PrefixNone
  <2>6. Leads(w.origin, <<>>) = w.origin
    BY <2>1, LeadsNone DEF Machines
  <2>7. ~Lost(w, v.origin)
    BY <1>1, <2>5, <2>6 DEF Lost
  <2> QED
    BY <2>2, <2>3, <2>4, <2>7 DEF RunOK
<1> QED
  BY <1>3, <1>4, <1>5, <1>6, <1>7, <1>8, <1>9 DEF Sync

\* A movie is written to its file.
LEMMA SyncWrite ==
  ASSUME NEW v, Known(v), NEW sl, NEW m, NEW rec, NEW s, Sync(v, sl, m, rec, s)
  PROVE  Sync(WriteMovie(v), sl, m, rec, s)
<1> DEFINE w == WriteMovie(v)
<1>1. Only(v, w, {"file"}) /\ w.file = IF IsRecording(v.task) THEN Header(v) ELSE v.file
  BY WriteMovieType
<1> HIDE DEF w
<1>2. Only(v, w, Aside \cup {"file"})
  BY <1>1 DEF Only
<1>3. CASE IsRecording(v.task)
  <2>1. v.task # "idle" /\ w.file = Header(v)
    BY <1>1, <1>3 DEF IsRecording
  <2>2. Sync(w, sl, m, rec, s)
    BY <1>2, <2>1, SyncWritten
  <2> QED
    BY <2>2 DEF w
<1>4. CASE ~IsRecording(v.task)
  BY <1>4 DEF WriteMovie
<1> QED
  BY <1>3, <1>4

\* A state saved of the movie, or of no movie.
LEMMA SyncSlot ==
  ASSUME NEW v, Known(v), NEW sl \in [Slots -> States], NEW m, NEW rec, NEW s, Sync(v, sl, m, rec, s),
         v.task \in {"idle", "recording", "playback"}, ~v.reset,
         NEW k \in Slots, NEW st, st = [mach |-> m, frz |-> Freeze(v)],
         NEW sl2, sl2 = [sl EXCEPT ![k] = st]
  PROVE  Sync(v, sl2, m, rec, s)
<1>1. st.frz = Freeze(v) /\ st.mach = m
  OBVIOUS
<1>2. \A j \in Slots : sl2[j] = sl[j] \/ sl2[j] = st
  OBVIOUS
<1>3. IF v.task = "idle" THEN st.frz.uid = 0 /\ st.frz.inputs = <<>>
      ELSE /\ st.frz.uid = v.uid /\ st.frz.inputs = v.inputs /\ st.frz.sample = v.sample
  BY <1>1 DEF Freeze, NoFreeze, NoState
<1>4. InputsOK(v, sl2, s)
  <2>1. <<>> \in Seq(Input(s))
    OBVIOUS
  <2> QED
    BY <1>2, <1>3, <2>1 DEF Sync, InputsOK
<1>5. UidOK(v, sl2)
  <2>1. 0 <= v.movies /\ v.uid <= v.movies
    BY DEF Known, Globals, Sync, UidOK
  <2> QED
    BY <1>2, <1>3, <2>1 DEF Sync, UidOK
<1>6. BeginOK(v, rec, sl2)
  <2>1. v.task \notin Starts /\ StartTask("record") \in Starts /\ StartTask("recordExisting") \in Starts
    BY StartTasksAre
  <2> QED
    BY <2>1 DEF BeginOK
<1>7. GoodOK(v, sl2)
  <2>1. Good(st, v.uid, v.origin)
    <3>1. CASE v.task = "idle"
      BY <1>3, <3>1 DEF Good
    <3>2. CASE v.task # "idle"
      BY <1>1, <1>3, <3>2 DEF Sync, RunOK, Lost, Good
    <3> QED
      BY <3>1, <3>2
  <2>2. Good(st, v.file.uid, v.file.origin)
    <3>1. CASE v.task = "idle"
      BY <1>3, <3>1 DEF Good
    <3>2. CASE v.task # "idle" /\ v.file.uid = v.uid
      BY <1>3, <2>1, <3>2 DEF Sync, OriginOK, Good
    <3>3. CASE v.task # "idle" /\ v.file.uid # v.uid
      BY <1>3, <3>3 DEF Good
    <3> QED
      BY <3>1, <3>2, <3>3
  <2> QED
    BY <1>2, <2>1, <2>2 DEF Sync, GoodOK
<1> QED
  BY <1>4, <1>5, <1>6, <1>7 DEF Sync

\* The movie of the file read.
LEMMA SyncRead ==
  ASSUME NEW v, Known(v), v.task \in {"idle", "recording", "playback"}, v.file # NoMovie,
         NEW u, Known(u), ~u.reset, u.task = "idle", u.st = v.st, u.movies = v.movies,
         u.file \in {v.file, Header(v)},
         NEW sl, NEW m, NEW rec, NEW s, Sync(v, sl, m, rec, s), Sync(u, sl, m, rec, s),
         NEW w, Only(u, w, {"uid", "start", "origin", "inputs", "sample", "task"}),
         w.uid = v.file.uid, w.start = v.file.start, w.origin = v.file.origin,
         w.inputs = v.file.inputs,
         \/ w.task = "idle"
         \/ w.task = "start_playback_from_reset" /\ w.sample = 0 /\ w.start = "reset"
         \/ w.task = StartTask("play") /\ w.sample = 0 /\ w.start = "snapshot" /\ w.st # NoState
  PROVE  Sync(w, sl, m, rec, s)
<1>1. w.reset = u.reset /\ w.file = u.file /\ w.st = v.st /\ w.movies = v.movies /\ w.st = u.st
  BY DEF Only, Fields
<1>2. v.task \notin Starts /\ StartTask("record") \in Starts /\ StartTask("recordExisting") \in Starts
  BY StartTasksAre
<1>3. w.task \notin {StartTask("record"), StartTask("recordExisting")} /\ ~IsRecording(w.task)
  BY StartTasksAre DEF IsRecording
<1>4. InputsOK(w, sl, s)
  BY <1>1 DEF Sync, InputsOK
<1>5. UidOK(w, sl)
  BY <1>1 DEF Sync, UidOK
<1>6. OriginOK(w)
  <2>1. w.start = "reset" => w.origin = Boot
    BY DEF Sync, OriginOK
  <2>2. /\ w.file # NoMovie /\ w.file.start = "reset" => w.file.origin = Boot
        /\ w.st # NoState => w.st.frz.sample = 0
        /\ w.st # NoState => (w.file.start = "snapshot" => w.file.origin = w.st.mach)
    BY <1>1, StartTasksAre DEF Sync, OriginOK
  <2>3. w.uid # 0 /\ w.file.uid = w.uid => w.file.start = w.start /\ w.file.origin = w.origin
    <3>1. CASE u.file = v.file
      BY <1>1, <3>1
    <3>2. CASE u.file = Header(v)
      <4>1. u.file.uid = v.uid /\ u.file.start = v.start /\ u.file.origin = v.origin
        BY <3>2 DEF Header
      <4> QED
        BY <1>1, <4>1 DEF Sync, OriginOK
    <3> QED
      BY <3>1, <3>2
  <2>4. w.st # NoState => (w.start = "snapshot" => w.origin = w.st.mach)
    BY <1>1, <1>2 DEF Sync, OriginOK
  <2> QED
    BY <2>1, <2>2, <2>3, <2>4 DEF OriginOK
<1>7. BeginOK(w, rec, sl)
  <2>1. w.task \in Starts =>
          /\ w.sample = 0 /\ w.start = (IF w.task \in Starting THEN "reset" ELSE "snapshot")
    BY StartTasksAre DEF Starting
  <2>2. w.task \in {StartTask("recordExisting"), StartTask("play")} => w.st # NoState
    BY StartTasksAre
  <2> QED
    BY <1>3, <2>1, <2>2 DEF BeginOK
<1>8. GoodOK(w, sl)
  BY <1>1 DEF Sync, GoodOK
<1>9. ResetOK(w, s)
  BY <1>1 DEF ResetOK
<1>10. RunOK(w, m)
  BY StartTasksAre DEF RunOK
<1> QED
  BY <1>4, <1>5, <1>6, <1>7, <1>8, <1>9, <1>10 DEF Sync

\* What stop_all() leaves of a movie that runs, or of none.
LEMMA StopAllSettled ==
  ASSUME NEW v, Known(v), v.task \in {"idle", "recording", "playback"}
  PROVE  LET u == StopAll(v)
         IN  /\ Known(u) /\ u.task = "idle" /\ u.st = v.st /\ u.movies = v.movies
             /\ u.reset = v.reset /\ u.file \in {v.file, Header(v)}
<1> DEFINE u == StopAll(v)
           h == Header(v)
<1>1. Known(u) /\ Only(v, u, {"states", "task", "file", "st"})
      /\ u.task = IF Ended(v.task) THEN "idle" ELSE v.task
  BY StopAllType
<1>2. u.movies = v.movies /\ u.reset = v.reset
  BY <1>1 DEF Only, Fields
<1>3. u.task = "idle"
  BY <1>1 DEF Ended, IsPlayback
<1>4. /\ v.task = "recording" => u = [v EXCEPT !.states = <<>>, !.task = "idle", !.file = h]
      /\ v.task # "recording" => \/ u = [v EXCEPT !.states = <<>>, !.task = "idle"]
                                 \/ u = [v EXCEPT !.states = <<>>]
  BY StopAllCases DEF Ended, IsPlayback, StartingPlayback
<1> HIDE DEF u, h
<1>5. u.st = v.st /\ u.file \in {v.file, h}
  BY <1>4 DEF Known, Globals
<1> QED
  BY <1>1, <1>2, <1>3, <1>5 DEF u, h

LEMMA SyncPlay ==
  ASSUME NEW v, Known(v), v.task \in {"idle", "recording", "playback"}, ~v.reset,
         v.file # NoMovie,
         NEW sl, NEW m, NEW rec, NEW s, Sync(v, sl, m, rec, s)
  PROVE  Sync(MovieRead(v), sl, m, rec, s) /\ Sync(StartedPlayback(v), sl, m, rec, s)
<1> DEFINE u == StopAll(v)
           a == MovieRead(v)
           b == StartedPlayback(v)
<1>1. /\ Known(u) /\ u.task = "idle" /\ u.st = v.st /\ u.movies = v.movies
      /\ ~u.reset /\ u.file \in {v.file, Header(v)}
  BY StopAllSettled
<1>2. Sync(u, sl, m, rec, s)
  BY SyncStopAll
<1>3. /\ a.uid = v.file.uid /\ a.start = v.file.start /\ a.origin = v.file.origin
      /\ a.inputs = v.file.inputs /\ a.task = u.task /\ a.st = u.st /\ Known(a)
  BY MovieReadType
<1>4. Only(u, a, {"uid", "start", "origin", "inputs", "sample", "task"})
  <2>1. a = [u EXCEPT !.uid = v.file.uid, !.start = v.file.start,
                      !.origin = v.file.origin, !.inputs = v.file.inputs]
    BY DEF MovieRead
  <2> HIDE DEF u, a
  <2> QED
    BY <1>1, <2>1 DEF Only, Fields, Known, Globals
<1>5. /\ Only(a, b, {"sample", "task"}) /\ b.sample = 0
      /\ IF a.start = "reset" THEN b.task = "start_playback_from_reset"
         ELSE b.task = IF a.st = NoState THEN a.task ELSE "start_playback_from_snapshot"
  BY StartedPlaybackType
<1> HIDE DEF u, a, b
<1>6. /\ b.uid = v.file.uid /\ b.start = v.file.start /\ b.origin = v.file.origin
      /\ b.inputs = v.file.inputs /\ b.st = a.st /\ b.start = a.start
  BY <1>3, <1>5 DEF Only, Fields
<1>7. Only(u, b, {"uid", "start", "origin", "inputs", "sample", "task"})
  BY <1>4, <1>5 DEF Only
<1>8. a.start \in {"reset", "snapshot"}
  BY <1>3 DEF Known, Globals
<1>9. Sync(a, sl, m, rec, s)
  BY <1>1, <1>2, <1>3, <1>4, SyncRead
<1>10. \/ b.task = "idle"
       \/ b.task = "start_playback_from_reset" /\ b.sample = 0 /\ b.start = "reset"
       \/ b.task = StartTask("play") /\ b.sample = 0 /\ b.start = "snapshot" /\ b.st # NoState
  BY <1>1, <1>3, <1>5, <1>6, <1>8, StartTasksAre
<1>11. Sync(b, sl, m, rec, s)
  BY <1>1, <1>2, <1>6, <1>7, <1>10, SyncRead
<1> QED
  BY <1>9, <1>11 DEF a, b

\* start_record() up to where it leaves the rest to the emulation thread.
LEMMA SyncRecord ==
  ASSUME NEW v, Known(v), v.task \in {"idle", "recording", "playback"}, ~v.reset,
         NEW sl \in [Slots -> States], NEW m, NEW rec, NEW rec2, NEW s, Sync(v, sl, m, rec, s),
         NEW task, NEW start, NEW origin \in Machines, NEW sample \in Nat,
         NEW w, Begun(StartedRecord(v), w, task, start, origin, sample),
         \/ task = "idle" /\ start = "snapshot" /\ v.st = NoState
         \/ task = "start_recording_from_reset" /\ start = "reset" /\ origin = Boot /\ sample = 0
         \/ task = StartTask("record") /\ start = "snapshot" /\ rec2
         \/ /\ task = StartTask("recordExisting") /\ start = "snapshot" /\ origin = v.st.mach
            /\ sample = 0 /\ v.st # NoState
  PROVE  Sync(w, sl, m, rec2, s)
<1> DEFINE u == StopAll(v)
           r == StartedRecord(v)
<1>1. /\ Known(u) /\ u.task = "idle" /\ u.st = v.st /\ u.movies = v.movies /\ ~u.reset
  BY StopAllSettled
<1>2. Sync(u, sl, m, rec, s)
  BY SyncStopAll
<1>3. /\ Only(u, r, {"readonly", "inputs", "uid", "movies", "origin"})
      /\ r.inputs = <<>> /\ r.uid = v.movies + 1 /\ r.movies = v.movies + 1
  BY StartedRecordType
<1>4. task \in VcrTasks /\ start \in {"reset", "snapshot"}
  BY StartTasksAre DEF VcrTasks, Starting
<1>5. /\ Only(r, w, {"task", "start", "origin", "sample"})
      /\ w.task = task /\ w.start = start /\ w.origin = origin /\ w.sample = sample
  BY <1>4, RecordTypes
<1> HIDE DEF u, r
<1>6. w.inputs = <<>> /\ w.uid = u.movies + 1 /\ w.movies = u.movies + 1
  BY <1>1, <1>3, <1>5 DEF Only, Fields
<1>7. w.st = u.st
  BY <1>3, <1>5 DEF Only, Fields
<1>8. Only(u, w, Aside \cup {"inputs", "uid", "movies", "task", "start", "origin", "sample"})
  BY <1>3, <1>5 DEF Only, Aside
<1>9. u.task # StartTask("record")
  BY <1>1, StartTasksAre
<1>10. /\ w.task \in {"idle", "start_recording_from_reset", StartTask("record"),
                      StartTask("recordExisting")}
       /\ w.start = IF w.task = "start_recording_from_reset" THEN "reset" ELSE "snapshot"
       /\ w.start = "reset" => w.origin = Boot
       /\ w.task = StartTask("recordExisting") => w.st # NoState
       /\ w.task = "idle" => w.st = NoState
       /\ w.task = StartTask("recordExisting") => w.origin = w.st.mach
       /\ w.task = StartTask("record") => rec2
       /\ w.task # StartTask("record") => w.sample = 0 \/ w.task = "idle"
  BY <1>1, <1>5, <1>7, StartTasksAre
<1> QED
  BY <1>1, <1>2, <1>6, <1>8, <1>9, <1>10, SyncBegun

LEMMA LeadsKey ==
  ASSUME NEW o \in Machines, NEW s, NEW p \in Seq(Input(s)), NEW x \in Input(s), x # "reset"
  PROVE  Leads(o, Append(p, x)) = Append(Leads(o, p), x)
<1> DEFINE M == Keys \cup {"reset", "boot", "stray", "0", "1", "garbage"}
           S == Input(s)
<1>1. o \in Seq(M) /\ S \subseteq M /\ "boot" \in M
  BY DEF Machines, Input
<1> HIDE DEF M, S
<1>2. p \in Seq(S) /\ x \in S
  BY DEF S
<1> QED
  BY <1>1, <1>2, LeadsOn

\* An input recorded: the machine and the movie have one more.
LEMMA SyncRecorded ==
  ASSUME NEW v, Known(v), NEW w, NEW sl, NEW m, NEW m2, NEW rec, NEW s, Sync(v, sl, m, rec, s),
         v.task = "recording", ~v.reset, v.askedReset => ~Restores(s),
         NEW key \in Keys, NEW input, input = (IF v.askedReset THEN "reset" ELSE key),
         Only(v, w, {"inputs", "sample", "askedReset", "reset"}),
         w.inputs = Append(v.inputs, input), w.sample = v.sample + 1, w.reset = v.askedReset,
         ~v.askedReset => m2 = Append(m, input)
  PROVE  Sync(w, sl, m2, rec, s)
<1> DEFINE n == Len(v.inputs)
           S == Input(s)
           M == Keys \cup {"reset", "boot", "stray", "0", "1", "garbage"}
<1>1. w.task = "recording" /\ w.origin = v.origin /\ w.file = v.file
  BY DEF Only, Fields
<1>2. v.inputs \in Seq(S) /\ v.sample = n /\ m = Leads(v.origin, Prefix(v.inputs, v.sample))
  BY DEF Sync, InputsOK, RunOK, Lost
<1>3. input \in S /\ (input = "reset" <=> v.askedReset) /\ S \subseteq M /\ "boot" \in M
      /\ v.origin \in Seq(M)
  <2>1. "reset" \notin Keys
    BY MovieAssumption
  <2>2. v.origin \in Seq(M)
    BY DEF Known, Globals, Machines
  <2>3. Keys \subseteq S /\ (~Restores(s) => "reset" \in S) /\ S \subseteq Keys \cup {"reset"}
    BY DEF Input
  <2> QED
    BY <2>1, <2>2, <2>3
<1> HIDE DEF S, M
<1>4. /\ Append(v.inputs, input) \in Seq(S) /\ Len(Append(v.inputs, input)) = n + 1
      /\ Append(v.inputs, input)[n + 1] = input /\ n \in Nat
  BY <1>2, <1>3, AppendProperties, LenProperties
<1>5. w.inputs \in Seq(S) /\ Len(w.inputs) = n + 1 /\ w.inputs[n + 1] = input /\ w.sample = n + 1
  BY <1>2, <1>4
<1>6. ResetOK(w, s)
  BY <1>1, <1>3, <1>4, <1>5 DEF ResetOK
<1>7. RunOK(w, m2)
  <2>1. ASSUME ~w.reset PROVE ~Lost(w, m2)
    <3>1. Prefix(v.inputs, n) = v.inputs /\ Prefix(w.inputs, n + 1) = w.inputs
      BY <1>2, <1>5, PrefixWhole DEF n
    <3>2. m = Leads(v.origin, v.inputs)
      BY <1>2, <3>1
    <3>3. input # "reset"
      BY <1>3, <2>1
    <3>4. v.inputs \in Seq(S) /\ input \in S
      BY <1>2, <1>3
    <3>5. v.origin \in Machines
      BY DEF Known, Globals
    <3>6. Leads(v.origin, Append(v.inputs, input)) = Append(Leads(v.origin, v.inputs), input)
      BY <3>3, <3>4, <3>5, LeadsKey DEF S
    <3> QED
      BY <1>1, <1>5, <2>1, <3>1, <3>2, <3>6 DEF Lost
  <2> QED
    BY <1>4, <1>5, <2>1 DEF RunOK
<1>8. Only(v, w, Aside \cup {"sample", "task", "inputs", "file", "reset"})
  BY DEF Only, Aside
<1> QED
  BY <1>1, <1>5, <1>6, <1>7, <1>8, SyncRun DEF S

\* An input played.
LEMMA SyncPlayed ==
  ASSUME NEW v, Known(v), NEW w, NEW sl, NEW m, NEW m2, NEW rec, NEW s, Sync(v, sl, m, rec, s),
         v.task = "playback", ~v.reset, v.sample < Len(v.inputs),
         NEW input, input = v.inputs[v.sample + 1],
         Only(v, w, {"sample", "reset"}), w.sample = v.sample + 1, w.reset = (input = "reset"),
         input # "reset" => m2 = Append(m, input)
  PROVE  Sync(w, sl, m2, rec, s)
<1> DEFINE n == v.sample
           S == Input(s)
           M == Keys \cup {"reset", "boot", "stray", "0", "1", "garbage"}
<1>1. w.task = "playback" /\ w.origin = v.origin /\ w.file = v.file /\ w.inputs = v.inputs
  BY DEF Only, Fields
<1>2. v.inputs \in Seq(S) /\ m = Leads(v.origin, Prefix(v.inputs, n)) /\ n \in Nat
  BY DEF Sync, InputsOK, RunOK, Lost, Known, Globals
<1>3. S \subseteq M /\ "boot" \in M /\ v.origin \in Seq(M)
      /\ ("reset" \in S => ~Restores(s))
  <2>1. "reset" \notin Keys
    BY MovieAssumption
  <2>2. v.origin \in Seq(M)
    BY DEF Known, Globals, Machines
  <2> QED
    BY <2>1, <2>2 DEF Input
<1> HIDE DEF S, M
<1>4. Len(v.inputs) \in Nat
  BY <1>2, LenProperties
<1>5. Prefix(v.inputs, n + 1) = Append(Prefix(v.inputs, n), v.inputs[n + 1])
      /\ v.inputs[n + 1] \in S
  BY <1>2, PrefixNext
<1>6. Prefix(v.inputs, n) \in Seq(S)
  BY <1>2, <1>4, PrefixWithin
<1>7. ResetOK(w, s)
  <2>1. w.sample \in 1 .. Len(w.inputs) /\ w.inputs[w.sample] = input
    BY <1>1, <1>2, <1>4
  <2>2. w.reset => input = "reset" /\ ~Restores(s)
    BY <1>3, <1>5
  <2> QED
    BY <1>1, <2>1, <2>2 DEF ResetOK
<1>8. RunOK(w, m2)
  <2>1. ASSUME ~w.reset PROVE ~Lost(w, m2)
    <3>1. input \in S /\ input # "reset"
      BY <1>5, <2>1
    <3>2. v.origin \in Machines
      BY DEF Known, Globals
    <3>3. Leads(v.origin, Append(Prefix(v.inputs, n), input))
            = Append(Leads(v.origin, Prefix(v.inputs, n)), input)
      BY <1>6, <3>1, <3>2, LeadsKey DEF S
    <3> QED
      BY <1>1, <1>2, <1>5, <3>1, <3>3 DEF Lost
  <2> QED
    BY <1>1, <1>2, <1>4, <2>1 DEF RunOK
<1>9. Only(v, w, Aside \cup {"sample", "task", "inputs", "file", "reset"})
  BY DEF Only
<1> QED
  BY <1>1, <1>2, <1>7, <1>8, <1>9, SyncRun DEF S

\* The machine after a reset the movie asked for.
LEMMA SyncReset ==
  ASSUME NEW v, Known(v), NEW w, NEW sl, NEW m, NEW rec, NEW s, Sync(v, sl, m, rec, s),
         v.reset, v.task \notin Starting, Only(v, w, Aside \cup {"reset"}), ~w.reset
  PROVE  Sync(w, sl, Boot, rec, s)
<1> DEFINE S == Input(s)
           M == Keys \cup {"reset", "boot", "stray", "0", "1", "garbage"}
<1>1. /\ w.task = v.task /\ w.origin = v.origin /\ w.file = v.file /\ w.inputs = v.inputs
      /\ w.sample = v.sample
  BY DEF Only, Fields, Aside
<1>2. /\ v.task \in {"recording", "playback"} /\ v.sample \in 1 .. Len(v.inputs)
      /\ v.inputs[v.sample] = "reset" /\ v.inputs \in Seq(S)
  BY DEF Sync, ResetOK, InputsOK
<1>3. S \subseteq M /\ "boot" \in M /\ v.origin \in Seq(M)
  BY DEF Input, Known, Globals, Machines
<1> HIDE DEF S, M
<1>4. PICK n \in Nat : v.sample = n + 1 /\ n < Len(v.inputs)
  <2>1. v.sample - 1 \in Nat /\ v.sample = v.sample - 1 + 1 /\ v.sample - 1 < Len(v.inputs)
    BY <1>2, LenProperties
  <2> QED
    BY <2>1
<1>5. Prefix(v.inputs, n + 1) = Append(Prefix(v.inputs, n), v.inputs[n + 1])
      /\ v.inputs[n + 1] \in S
  BY <1>2, <1>4, PrefixNext
<1>6. Prefix(v.inputs, n) \in Seq(S)
  BY <1>2, <1>4, PrefixWithin
<1>7. v.inputs[n + 1] = "reset"
  BY <1>2, <1>4
<1>8. Leads(v.origin, Append(Prefix(v.inputs, n), "reset")) = Boot
  BY <1>3, <1>5, <1>6, <1>7, LeadsOn
<1>9. RunOK(w, Boot)
  <2>1. ~Lost(w, Boot)
    BY <1>1, <1>4, <1>5, <1>7, <1>8 DEF Lost
  <2> QED
    BY <1>1, <2>1 DEF Sync, RunOK
<1>10. ResetOK(w, s)
  BY DEF ResetOK
<1>11. Only(v, w, Aside \cup {"sample", "task", "inputs", "file", "reset"})
  BY DEF Only
<1> QED
  BY <1>1, <1>2, <1>9, <1>10, <1>11, SyncRun DEF S

\* What holds before each step.
Steady == Orderly /\ TypesOK /\ OrderOK /\ Plain(session) /\ SyncOK
SyncNow == Sync(vcr, slots, machine, recorder, session)

LEMMA SyncQuiet ==
  ASSUME Steady, Only(vcr, vcr', Aside \ {"askedReset"}),
         UNCHANGED <<slots, machine, recorder, misled, session>>
  PROVE  SyncOK'
<1>1. Only(vcr, vcr', Fields \ Calm) /\ Only(vcr, vcr', Aside)
  BY DEF Only, Aside, Calm, Fields
<1>2. CalmOK(vcr', session)
  BY <1>1, CalmSame DEF Steady, SyncOK
<1>3. SyncNow => Sync(vcr', slots, machine, recorder, session)
  BY <1>1, SyncSame DEF SyncNow
<1> QED
  BY <1>2, <1>3 DEF Steady, SyncOK, SyncNow

\* A poll, before the handlers, in a session without seeks.
LEMMA PolledCalm ==
  ASSUME Steady, NEW task, PollMovie(task)
  PROVE  LET v == Polled(vcr).v
         IN  /\ Known(v) /\ Only(vcr, v, {"reset", "states"}) /\ v.task = task /\ v.task = vcr.task
             /\ v.reset = (task \in Starting) /\ CalmOK(v, session)
             /\ task \notin Starting /\ SyncNow => Sync(v, slots, machine, recorder, session)
             /\ UNCHANGED <<slots, recorder, misled, session>>
<1> DEFINE v == Polled(vcr).v
<1>1. /\ Known(vcr) /\ vcr.seek = NoFrame /\ CalmOK(vcr, session) /\ vcr.task = task /\ ~vcr.reset
      /\ UNCHANGED <<slots, recorder, misled, session>>
  BY DEF Steady, TypesOK, SyncOK, CalmOK, PollMovie, Polling
<1>2. Known(v) /\ Only(vcr, v, {"reset", "states"}) /\ v.reset = (vcr.reset \/ vcr.task \in Starting)
  BY <1>1, PolledType
<1> HIDE DEF v
<1>3. v.task = vcr.task /\ v.reset \in BOOLEAN /\ vcr.reset \in BOOLEAN
  BY <1>1, <1>2 DEF Only, Fields, Known, Globals
<1>4. v.reset = (task \in Starting)
  BY <1>1, <1>2
<1>5. CalmOK(v, session)
  <2>1. Only(vcr, v, Fields \ Calm)
    BY <1>2 DEF Only, Calm, Fields
  <2> QED
    BY <1>1, <2>1, CalmSame
<1>6. ASSUME task \notin Starting, SyncNow PROVE Sync(v, slots, machine, recorder, session)
  <2>1. v.reset = vcr.reset
    BY <1>1, <1>3, <1>4, <1>6
  <2>2. Only(vcr, v, Aside)
    BY <1>2, <2>1 DEF Only, Aside
  <2> QED
    BY <1>6, <2>2, SyncSame DEF SyncNow
<1> QED
  BY <1>1, <1>2, <1>3, <1>4, <1>5, <1>6 DEF v

LEMMA SyncRecording ==
  ASSUME Steady, PollRecording
  PROVE  SyncOK'
<1> DEFINE v        == Polled(vcr).v
           buffered == v.sample < Len(v.inputs) \/ v.warp
           input(key) == IF v.askedReset THEN "reset"
                         ELSE IF buffered THEN Prefix(v.inputs, v.sample + 1)[v.sample + 1]
                         ELSE key
<1>1. PICK key \in Keys :
        /\ Recorded1(v, vcr', input(key), buffered)
        /\ machine' = IF v.askedReset THEN Stray(machine) ELSE Append(machine, input(key))
  BY DEF PollRecording, Recorded1
<1>2. /\ Known(v) /\ v.task = "recording" /\ ~v.reset /\ CalmOK(v, session)
      /\ SyncNow => Sync(v, slots, machine, recorder, session)
      /\ UNCHANGED <<slots, recorder, misled, session>>
  BY PolledCalm DEF PollRecording, Starting
<1>3. buffered \in BOOLEAN /\ v.inputs \in Inputs /\ v.sample \in Nat /\ v.askedReset \in BOOLEAN
      /\ v.warp \in BOOLEAN
  BY <1>2 DEF Known, Globals
<1> HIDE DEF v, buffered
<1>4. input(key) \in Keys \cup {"reset", "garbage"}
  <2> DEFINE n == v.sample + 1
             p == Prefix(v.inputs, n)
  <2>1. n \in Nat /\ n \in 1 .. n
    BY <1>3
  <2>2. p \in Inputs /\ Len(p) = n
    BY <1>3, <2>1, PrefixType
  <2> HIDE DEF p, n
  <2>3. p[n] \in Keys \cup {"reset", "garbage"}
    BY <2>1, <2>2, ElementOfSeq DEF Inputs
  <2> QED
    BY <1>1, <2>3 DEF p, n
<1>5. /\ Only(v, vcr', {"inputs", "sample", "askedReset", "reset"})
      /\ vcr'.inputs = IF buffered THEN v.inputs ELSE Append(v.inputs, input(key))
      /\ vcr'.sample = v.sample + 1 /\ ~ vcr'.askedReset /\ vcr'.reset = v.askedReset
  <2>1. Known(v) /\ buffered \in BOOLEAN /\ Recorded1(v, vcr', input(key), buffered)
    BY <1>1, <1>2, <1>3
  <2> HIDE DEF input
  <2> QED
    BY <2>1, <1>4, RecordedType
<1>6. CalmOK(vcr', session)
  <2>1. vcr'.seek = v.seek /\ vcr'.loading = v.loading /\ vcr'.warp = v.warp
    BY <1>5 DEF Only, Fields
  <2> QED
    BY <1>2, <1>5, <2>1 DEF CalmOK
<1>7. ASSUME SyncNow PROVE Sync(vcr', slots, machine', recorder, session)
  <2>1. Sync(v, slots, machine, recorder, session)
    BY <1>2, <1>7
  <2>2. v.sample = Len(v.inputs) /\ ~v.warp
    BY <1>2, <2>1 DEF Sync, RunOK, CalmOK
  <2>3. Len(v.inputs) \in Nat
    BY <1>3, LenProperties DEF Inputs
  <2>4. ~buffered
    BY <2>2, <2>3 DEF buffered
  <2> DEFINE i == input(key)
  <2>5. i = IF v.askedReset THEN "reset" ELSE key
    BY <2>4
  <2>6. /\ vcr'.inputs = Append(v.inputs, i)
        /\ ~v.askedReset => machine' = Append(machine, i)
    BY <1>1, <1>5, <2>4
  <2>7. v.askedReset => ~Restores(session)
    BY <1>2 DEF CalmOK
  <2> HIDE DEF i
  <2> QED
    BY <1>2, <1>5, <2>1, <2>5, <2>6, <2>7, SyncRecorded
<1> QED
  BY <1>2, <1>6, <1>7 DEF Steady, SyncOK, SyncNow

LEMMA SyncPlayback ==
  ASSUME Steady, PollPlayback
  PROVE  SyncOK'
<1> DEFINE v     == Polled(vcr).v
           over  == v.sample >= Len(v.inputs)
           ended == StopAll(v)
<1>1. /\ Known(v) /\ v.task = "playback" /\ ~v.reset /\ CalmOK(v, session)
      /\ SyncNow => Sync(v, slots, machine, recorder, session)
      /\ UNCHANGED <<slots, recorder, misled, session>>
  BY PolledCalm DEF PollPlayback, Starting
<1>2. CASE over
  <2>1. vcr' = ended
    BY <1>2 DEF PollPlayback, Steady, Orderly
  <2> HIDE DEF v, over
  <2>2. Known(ended) /\ ended.task = "idle"
    BY <1>1, StopAllSettled
  <2>3. Only(v, ended, {"states", "task", "file", "st"})
    BY <1>1, StopAllType
  <2>4. Only(v, ended, Fields \ Calm)
    BY <2>3 DEF Only, Calm, Fields
  <2>5. CalmOK(ended, session)
    BY <1>1, <2>4, CalmSame
  <2>6. ASSUME SyncNow PROVE Sync(ended, slots, machine', recorder, session)
    <3>1. Sync(ended, slots, machine, recorder, session)
      BY <1>1, <2>6, SyncStopAll
    <3> HIDE DEF ended
    <3> QED
      BY <2>2, <3>1, SyncMachine
  <2> QED
    BY <1>1, <2>1, <2>5, <2>6 DEF Steady, SyncOK, SyncNow
<1>3. CASE ~ over
  <2> DEFINE input == v.inputs[v.sample + 1]
             r == input = "reset"
  <2>1. /\ vcr' = [v EXCEPT !.sample = @ + 1, !.reset = r]
        /\ machine' = IF r THEN Stray(machine) ELSE Append(machine, input)
    BY <1>3 DEF PollPlayback
  <2>2. v.inputs \in Inputs /\ v.sample \in Nat
    BY <1>1 DEF Known, Globals
  <2>3. v.sample < Len(v.inputs)
    BY <1>3, <2>2, LenProperties DEF Inputs
  <2> HIDE DEF v, over
  <2>4. r \in BOOLEAN
    OBVIOUS
  <2> HIDE DEF r
  <2>5. Known(v) /\ r \in BOOLEAN /\ vcr' = [v EXCEPT !.sample = @ + 1, !.reset = r]
    BY <1>1, <2>1, <2>4
  <2>6. Only(v, vcr', {"sample", "reset"}) /\ vcr'.sample = v.sample + 1 /\ vcr'.reset = r
    BY <2>5, PlayedType
  <2>7. CalmOK(vcr', session)
    <3>1. Only(v, vcr', Fields \ Calm)
      BY <2>6 DEF Only, Calm, Fields
    <3> QED
      BY <1>1, <3>1, CalmSame
  <2> HIDE DEF input
  <2>8. ASSUME SyncNow PROVE Sync(vcr', slots, machine', recorder, session)
    <3>1. Sync(v, slots, machine, recorder, session)
      BY <1>1, <2>8
    <3>2. vcr'.reset = (input = "reset") /\ (input # "reset" => machine' = Append(machine, input))
      BY <2>1, <2>6 DEF r
    <3>3. input = v.inputs[v.sample + 1]
      BY DEF input
    <3> QED
      BY <1>1, <2>3, <2>6, <3>1, <3>2, <3>3, SyncPlayed
  <2> QED
    BY <1>1, <2>7, <2>8 DEF Steady, SyncOK, SyncNow
<1> QED
  BY <1>2, <1>3

LEMMA SyncPoll ==
  ASSUME Steady, PollIdle \/ PollNothing \/ PollStarting \/ PollRecording \/ PollPlayback
  PROVE  SyncOK'
<1>0. CalmOK(vcr, session) /\ (misled \/ SyncNow)
  BY DEF Steady, SyncOK, SyncNow
<1>1. CASE PollIdle
  <2>1. vcr.reset \/ vcr.task \notin {"recording", "playback"}
    BY <1>0, <1>1 DEF PollIdle, CalmOK
  <2>2. SyncNow => Sync(vcr, slots, machine', recorder, session)
    BY <2>1, SyncMachine DEF SyncNow
  <2> QED
    BY <1>0, <1>1, <2>2 DEF PollIdle, Polling, SyncOK
<1>2. CASE PollNothing
  <2>1. UNCHANGED <<vcr, slots, machine, recorder, misled, session>>
    BY <1>2 DEF PollNothing, Polling
  <2> QED
    BY <2>1 DEF Steady, SyncOK
<1>3. CASE PollStarting
  <2>1. PICK task \in Starts : PollMovie(task)
    BY <1>3, StartTasksAre DEF PollStarting, StartingPlayback
  <2> DEFINE v == Polled(vcr).v
  <2>2. /\ Only(vcr, v, {"reset", "states"}) /\ v.task = task /\ vcr.task = task
        /\ v.reset = (task \in Starting) /\ CalmOK(v, session)
        /\ UNCHANGED <<slots, recorder, misled, session>>
    BY <2>1, PolledCalm
  <2>3. vcr' = v
    BY <1>3 DEF PollStarting
  <2> HIDE DEF v
  <2>4. ASSUME SyncNow PROVE Sync(v, slots, machine', recorder, session)
    <3>1. /\ v.task = vcr.task /\ v.uid = vcr.uid /\ v.start = vcr.start /\ v.origin = vcr.origin
          /\ v.inputs = vcr.inputs /\ v.sample = vcr.sample
          /\ v.movies = vcr.movies /\ v.file = vcr.file /\ v.st = vcr.st
      BY <2>2 DEF Only, Fields
    <3>2. InputsOK(v, slots, session) /\ UidOK(v, slots) /\ OriginOK(v)
      BY <2>4, <3>1 DEF SyncNow, Sync, InputsOK, UidOK, OriginOK
    <3>3. BeginOK(v, recorder, slots) /\ GoodOK(v, slots)
      BY <2>4, <3>1 DEF SyncNow, Sync, BeginOK, GoodOK
    <3>4. ResetOK(v, session)
      BY <2>2 DEF ResetOK
    <3>5. RunOK(v, machine')
      BY <2>2, StartTasksAre DEF RunOK
    <3> QED
      BY <3>2, <3>3, <3>4, <3>5 DEF Sync
  <2> QED
    BY <1>0, <2>2, <2>3, <2>4 DEF SyncOK
<1> QED
  BY <1>1, <1>2, <1>3, SyncRecording, SyncPlayback

\* The restart a movie asked for, or begins with.
LEMMA SyncRestart ==
  ASSUME Steady, NEW i, Restart(i)
  PROVE  SyncOK'
<1> DEFINE a == async[i].arg
           task == CASE a = "start_recording_from_reset" -> "recording"
                     [] a = "start_playback_from_reset" -> "playback"
                     [] OTHER -> vcr.task
           sample == IF a \in Starting THEN 0 ELSE vcr.sample
<1>1. /\ Known(vcr) /\ async \in Seq(Job) /\ CalmOK(vcr, session) /\ (misled \/ SyncNow)
      /\ OrderOK /\ machine' = Boot /\ i \in DOMAIN async /\ async[i].op = "restart"
      /\ UNCHANGED <<slots, recorder, misled, session>>
  BY DEF Steady, TypesOK, SyncOK, SyncNow, Restart, Running
<1>2. async[i] \in Restarts
  <2>1. DOMAIN async = 1 .. Len(async)
    BY <1>1, LenProperties
  <2>2. async[i] \in Job
    BY <1>1, <2>1, ElementOfSeq
  <2> QED
    BY <1>1, <2>2 DEF Restarts
<1>3. vcr.reset /\ (a \in Starting => a = vcr.task)
  <2>1. vcr.reset
    BY <1>1, <1>2 DEF OrderOK, Order, RestartOK, Absent
  <2>2. async[i] \notin BadRestarts(vcr.task)
    BY <1>1 DEF OrderOK, Order, RestartOK, Absent
  <2> QED
    BY <1>2, <2>1, <2>2 DEF BadRestarts
<1>4. vcr' = [vcr EXCEPT !.reset = FALSE, !.paused = FALSE, !.task = task, !.sample = sample]
  <2> DEFINE v == [vcr EXCEPT !.reset = FALSE, !.paused = FALSE]
  <2>1. vcr' = CASE a = "start_recording_from_reset" -> [v EXCEPT !.task = "recording", !.sample = 0]
                 [] a = "start_playback_from_reset" -> [v EXCEPT !.task = "playback", !.sample = 0]
                 [] OTHER -> v
    BY DEF Restart
  <2>2. CASE a = "start_recording_from_reset"
    BY <1>1, <2>1, <2>2 DEF Known, Globals, Starting
  <2>3. CASE a = "start_playback_from_reset"
    BY <1>1, <2>1, <2>3 DEF Known, Globals, Starting
  <2>4. CASE a \notin Starting
    <3>1. vcr' = v /\ task = vcr.task /\ sample = vcr.sample
      BY <2>1, <2>4 DEF Starting
    <3> HIDE DEF task, sample
    <3> QED
      BY <1>1, <3>1 DEF Known, Globals
  <2> QED
    BY <2>2, <2>3, <2>4 DEF Starting
<1>5. /\ a \in Starting => task \in {"recording", "playback"} /\ sample = 0
           /\ (task = "recording" => a = "start_recording_from_reset")
      /\ a \notin Starting => task = vcr.task /\ sample = vcr.sample
  BY DEF Starting
<1> HIDE DEF a, task, sample
<1>6. /\ Only(vcr, vcr', {"reset", "paused", "task", "sample"})
      /\ vcr'.task = task /\ vcr'.sample = sample /\ ~vcr'.reset
  BY <1>1, <1>4 DEF Only, Fields, Known, Globals
<1>7. CalmOK(vcr', session)
  <2>1. Only(vcr, vcr', Fields \ Calm)
    BY <1>6 DEF Only, Calm, Fields
  <2> QED
    BY <1>1, <2>1, CalmSame
<1>8. ASSUME SyncNow PROVE Sync(vcr', slots, Boot, recorder, session)
  <2>1. CASE a \in Starting
    <3>1. vcr.task \in Starting /\ vcr.task \in Starts /\ vcr.task # StartTask("record")
      BY <1>3, <2>1, StartTasksAre DEF Starting
    <3>2. vcr.start = "reset" /\ vcr.origin = Boot
      BY <1>8, <3>1 DEF SyncNow, Sync, BeginOK, OriginOK, Starting
    <3>3. vcr'.task = "recording" => IsRecording(vcr.task)
      BY <1>3, <1>5, <1>6, <2>1 DEF IsRecording
    <3>4. Only(vcr, vcr', Aside \cup {"sample", "task", "reset"})
      BY <1>6 DEF Only, Aside
    <3>5. Sync(vcr', slots, vcr.origin, recorder, session)
      BY <1>1, <1>5, <1>6, <1>8, <2>1, <3>1, <3>3, <3>4, SyncStarts DEF SyncNow
    <3> QED
      BY <3>2, <3>5
  <2>2. CASE a \notin Starting /\ vcr.task \notin Starting
    <3>1. Only(vcr, vcr', Aside \cup {"reset"})
      BY <1>5, <1>6, <2>2 DEF Only, Aside, Fields
    <3> QED
      BY <1>1, <1>3, <1>6, <1>8, <2>2, <3>1, SyncReset DEF SyncNow
  <2>3. CASE a \notin Starting /\ vcr.task \in Starting
    <3>1. /\ vcr'.task = vcr.task /\ vcr'.uid = vcr.uid /\ vcr'.start = vcr.start
          /\ vcr'.origin = vcr.origin /\ vcr'.inputs = vcr.inputs /\ vcr'.sample = vcr.sample
          /\ vcr'.movies = vcr.movies /\ vcr'.file = vcr.file /\ vcr'.st = vcr.st
      BY <1>5, <1>6, <2>3 DEF Only, Fields
    <3>2. InputsOK(vcr', slots, session) /\ UidOK(vcr', slots) /\ OriginOK(vcr')
      BY <1>8, <3>1 DEF SyncNow, Sync, InputsOK, UidOK, OriginOK
    <3>3. BeginOK(vcr', recorder, slots) /\ GoodOK(vcr', slots)
      BY <1>8, <3>1 DEF SyncNow, Sync, BeginOK, GoodOK
    <3>4. ResetOK(vcr', session)
      BY <1>6 DEF ResetOK
    <3>5. RunOK(vcr', Boot)
      BY <2>3, <3>1 DEF RunOK, Starting
    <3> QED
      BY <3>2, <3>3, <3>4, <3>5 DEF Sync
  <2> QED
    BY <2>1, <2>2, <2>3
<1> QED
  BY <1>1, <1>7, <1>8 DEF SyncOK

LEMMA SyncJobs ==
  ASSUME Steady, NEW i, Restart(i) \/ Enqueue(i)
  PROVE  SyncOK'
<1>1. CASE Restart(i)
  BY <1>1, SyncRestart
<1>2. CASE Enqueue(i)
  <2>1. UNCHANGED <<slots, machine, recorder, misled, session>>
    BY <1>2 DEF Enqueue, Running
  <2>2. \/ UNCHANGED vcr
        \/ vcr' = [vcr EXCEPT !.states = With(@, async[i].arg,
             IF async[i].arg \in DOMAIN vcr.states THEN vcr.states[async[i].arg] ELSE NoState)]
    BY <1>2 DEF Enqueue
  <2>3. Only(vcr, vcr', Aside \ {"askedReset"})
    BY <2>2 DEF Only, Aside, Fields, Steady, TypesOK, Known, Globals
  <2> QED
    BY <2>1, <2>3, SyncQuiet
<1> QED
  BY <1>1, <1>2

\* What the next task tells of the movie.
LEMMA HeadTells ==
  ASSUME TypesOK, OrderOK, g_tasks # <<>>, NEW t, t = Head(g_tasks)
  PROVE  /\ t.cb \in StartCbs => vcr.task = StartTask(t.cb) /\ ~recorder
         /\ t.cb = "user" => vcr.task \notin Starts /\ Restores(session)
         /\ t.cb = "seekLoad" => vcr.loading
<1>1. t \in Task /\ g_tasks \in Seq(Task)
  BY HeadType DEF TypesOK
<1>2. \A S : Absent(g_tasks, S) => t \notin S
  BY <1>1, TailWaiting
<1>3. ASSUME t.cb \in StartCbs PROVE vcr.task = StartTask(t.cb) /\ ~recorder
  <2>1. t \in StartTasks
    BY <1>1, <1>3 DEF StartTasks
  <2>2. t \notin BadStarts(vcr.task)
    BY <1>2 DEF OrderOK, Order, StartOK
  <2>3. ~recorder
    BY <1>2, <2>1 DEF OrderOK, Order, StartOK
  <2> QED
    BY <2>1, <2>2, <2>3 DEF BadStarts
<1>4. ASSUME t.cb = "user" PROVE vcr.task \notin Starts /\ Restores(session)
  <2>1. t \in SlotTasks
    BY <1>1, <1>4 DEF SlotTasks
  <2> QED
    BY <1>2, <2>1 DEF OrderOK, Order, SlotsOK
<1>5. ASSUME t.cb = "seekLoad" PROVE vcr.loading
  <2>1. t \in SeekLoads
    BY <1>1, <1>5 DEF SeekLoads
  <2> QED
    BY <1>2, <2>1 DEF OrderOK, Order, LoadingOK
<1> QED
  BY <1>3, <1>4, <1>5

\* A save or load of the user meets a movie that runs, or none, and no reset.
LEMMA UserMeets ==
  ASSUME Steady, SyncNow, g_tasks # <<>>, Head(g_tasks).cb = "user"
  PROVE  vcr.task \in {"idle", "recording", "playback"} /\ ~vcr.reset
<1>1. vcr.task \notin Starts /\ Restores(session)
  BY HeadTells DEF Steady
<1>2. vcr.task \in VcrTasks
  BY DEF Steady, TypesOK, Known, Globals
<1>3. vcr.task \in {"idle", "recording", "playback"}
  BY <1>1, <1>2, StartTasksAre DEF VcrTasks, Starting
<1>4. ~vcr.reset
  BY <1>1, <1>3 DEF SyncNow, Sync, ResetOK, Starting
<1> QED
  BY <1>3, <1>4

\* The first state of a recording is saved: it starts from there.
LEMMA SyncSnapshot ==
  ASSUME NEW v, Known(v), NEW w, Known(w), NEW sl, NEW m \in Machines, NEW s, Sync(v, sl, m, FALSE, s),
         v.task = StartTask("record"), w.task = "recording",
         Only(v, w, {"task", "origin", "file", "st"}), w.origin = m,
         w.file.uid = v.uid, w.file.start = v.start, w.file.origin = m, w.file.inputs = v.inputs,
         w.st.mach = m, w.st.frz.uid = v.uid, w.st.frz.sample = v.sample
  PROVE  Sync(w, sl, m, FALSE, s)
<1>1. /\ w.uid = v.uid /\ w.start = v.start /\ w.inputs = v.inputs /\ w.sample = v.sample
      /\ w.movies = v.movies /\ w.reset = v.reset
  BY DEF Only, Fields
<1>2. /\ v.task \in Starts /\ w.task \notin Starts /\ v.task # "idle" /\ IsRecording(v.task)
      /\ v.task \notin Starting /\ v.task \notin {"recording", "playback"}
  BY StartTasksAre DEF IsRecording, Starting
<1>3. v.sample = 0 /\ v.inputs = <<>> /\ v.start = "snapshot"
  BY <1>2 DEF Sync, BeginOK
<1>4. InputsOK(w, sl, s)
  BY <1>1 DEF Sync, InputsOK
<1>5. UidOK(w, sl)
  BY <1>1, <1>2 DEF Sync, UidOK
<1>6. OriginOK(w)
  BY <1>1, <1>3 DEF OriginOK
<1>7. BeginOK(w, FALSE, sl)
  BY <1>2, StartTasksAre DEF BeginOK
<1>8. GoodOK(w, sl)
  BY <1>1 DEF Sync, BeginOK, GoodOK, Good
<1>9. ResetOK(w, s)
  BY <1>1, <1>2 DEF Sync, ResetOK
<1>10. RunOK(w, m)
  <2>1. Prefix(w.inputs, w.sample) = <<>>
    BY <1>1, <1>3, PrefixNone
  <2>2. Leads(w.origin, <<>>) = m
    BY LeadsNone DEF Machines
  <2>3. Len(w.inputs) = 0 /\ w.sample = 0
    BY <1>1, <1>3
  <2> QED
    BY <2>1, <2>2, <2>3 DEF RunOK, Lost
<1> QED
  BY <1>4, <1>5, <1>6, <1>7, <1>8, <1>9, <1>10 DEF Sync

LEMMA SyncSave ==
  ASSUME Steady, WorkSave
  PROVE  SyncOK'
<1> DEFINE t  == Head(g_tasks)
           st == [mach |-> machine, frz |-> Freeze(vcr)]
           w  == IF t.cb = "record" THEN [vcr EXCEPT !.origin = machine] ELSE vcr
           v  == WriteMovie(w)
           x  == IF t.medium = "path" THEN [v EXCEPT !.st = st] ELSE v
<1>1. /\ t \in Task /\ t.job = "Save" /\ g_tasks # <<>> /\ UNCHANGED <<recorder, session, machine, misled>>
      /\ Known(vcr) /\ CalmOK(vcr, session) /\ (misled \/ SyncNow)
      /\ machine \in Machines /\ slots \in [Slots -> States] /\ TypesOK /\ recorder \in BOOLEAN
  BY HeadType DEF WorkSave, Working, Steady, TypesOK, SyncOK, SyncNow
<1> HIDE DEF t
<1>2. \/ t.cb = "user" /\ t.medium = "slot" /\ t.slot \in Slots
      \/ t.cb = "record" /\ t.medium = "path"
      \/ t.cb = "seekSave" /\ t.medium = "memory" /\ t.frame \in Nat
  BY <1>1, TaskCases
<1>3. st \in States /\ st.mach = machine /\ st.frz = Freeze(vcr)
  <2>1. Freeze(vcr) \in Frozen
    BY <1>1, FreezeType DEF Known
  <2>2. st.mach = machine /\ st.frz = Freeze(vcr)
    OBVIOUS
  <2> QED
    BY <1>1, <2>1, <2>2 DEF States, Frozen
<1>4. /\ vcr' = Succeeded(x, t, st)
      /\ slots' = IF t.medium = "slot" THEN [slots EXCEPT ![t.slot] = st] ELSE slots
  BY DEF WorkSave, t
<1>5. t.cb = "record" => vcr.task = StartTask("record") /\ ~recorder
  BY <1>1, HeadTells DEF Steady, StartCbs, t
<1>6. SyncNow /\ t.cb = "user" => vcr.task \in {"idle", "recording", "playback"} /\ ~vcr.reset
  BY <1>1, UserMeets DEF t
<1>7. CASE t.cb = "user"
  <2>1. vcr' = WriteMovie(vcr)
    BY <1>2, <1>4, <1>7 DEF Succeeded
  <2>2. Only(vcr, vcr', Fields \ Calm)
    <3>1. Only(vcr, vcr', {"file"})
      BY <1>1, <2>1, WriteMovieType
    <3> QED
      BY <3>1 DEF Only, Calm, Fields
  <2>3. CalmOK(vcr', session)
    BY <1>1, <2>2, CalmSame
  <2>4. ASSUME SyncNow PROVE Sync(vcr', slots', machine, recorder, session)
    <3> DEFINE k == t.slot
    <3>1. k \in Slots /\ slots' = [slots EXCEPT ![k] = st]
      BY <1>2, <1>4, <1>7
    <3> HIDE DEF k
    <3>2. Sync(vcr, slots', machine, recorder, session)
      BY <1>1, <1>6, <1>7, <2>4, <3>1, SyncSlot DEF SyncNow
    <3> QED
      BY <1>1, <2>1, <3>2, SyncWrite
  <2> QED
    BY <1>1, <2>3, <2>4 DEF SyncOK
<1>8. CASE t.cb = "seekSave"
  <2> DEFINE y == WriteMovie(vcr)
  <2>1. vcr' = Succeeded(y, t, st) /\ slots' = slots
    BY <1>2, <1>4, <1>8
  <2>2. Known(y) /\ Only(vcr, y, {"file"})
    BY <1>1, WriteMovieType
  <2> HIDE DEF y, st
  <2>3. Only(y, vcr', {"states"})
    BY <1>2, <1>3, <1>8, <2>1, <2>2, SucceededType
  <2>4. CalmOK(vcr', session)
    <3>1. Only(vcr, vcr', Fields \ Calm)
      BY <2>2, <2>3 DEF Only, Calm, Fields
    <3> QED
      BY <1>1, <3>1, CalmSame
  <2>5. ASSUME SyncNow PROVE Sync(vcr', slots', machine, recorder, session)
    <3>1. Sync(y, slots, machine, recorder, session)
      BY <1>1, <2>5, SyncWrite DEF SyncNow, y
    <3>2. Only(y, vcr', Aside)
      BY <2>3 DEF Only, Aside
    <3> QED
      BY <2>1, <3>1, <3>2, SyncSame
  <2> QED
    BY <1>1, <2>4, <2>5 DEF SyncOK
<1>9. CASE t.cb = "record"
  <2> DEFINE a == [vcr EXCEPT !.origin = machine]
             b == WriteMovie(a)
             c == [b EXCEPT !.st = st]
  <2>1. vcr' = [c EXCEPT !.task = "recording"] /\ slots' = slots
    BY <1>2, <1>4, <1>9 DEF Succeeded
  <2>2. a \in Globals /\ a.states = vcr.states /\ Only(vcr, a, {"origin"}) /\ a.origin = machine
    BY <1>1 DEF Known, Globals, Only, Fields
  <2>3. Known(a)
    BY <1>1, <2>2 DEF Known
  <2>4. a.task = vcr.task /\ a.uid = vcr.uid /\ a.start = vcr.start /\ a.inputs = vcr.inputs
    BY <2>2 DEF Only, Fields
  <2>5. IsRecording(a.task) /\ vcr.task # "idle"
    BY <1>5, <1>9, <2>4, StartTasksAre DEF IsRecording
  <2> HIDE DEF a
  <2>6. Known(b) /\ Only(a, b, {"file"}) /\ b.file = Header(a)
    BY <2>3, <2>5, WriteMovieType
  <2>7. /\ b.file.uid = vcr.uid /\ b.file.start = vcr.start /\ b.file.origin = machine
        /\ b.file.inputs = vcr.inputs
    BY <2>2, <2>4, <2>6 DEF Header
  <2> HIDE DEF b, st
  <2>8. c \in Globals /\ c.states = b.states /\ Only(b, c, {"st"}) /\ c.st = st
    BY <1>3, <2>6 DEF Known, Globals, Only, Fields
  <2>9. Known(c)
    BY <2>6, <2>8 DEF Known
  <2> HIDE DEF c
  <2>10. vcr' \in Globals /\ vcr'.states = c.states /\ vcr'.task = "recording"
         /\ Only(c, vcr', {"task"})
    BY <2>1, <2>9 DEF Known, Globals, Only, Fields, VcrTasks
  <2>11. Known(vcr')
    BY <2>9, <2>10 DEF Known
  <2>12. Only(vcr, vcr', {"task", "origin", "file", "st"})
    BY <2>2, <2>6, <2>8, <2>10 DEF Only
  <2>13. vcr'.origin = machine /\ vcr'.file = b.file /\ vcr'.st = st
    BY <2>2, <2>6, <2>8, <2>10 DEF Only, Fields
  <2>14. st.frz.uid = vcr.uid /\ st.frz.sample = vcr.sample
    BY <1>3, <2>5 DEF Freeze
  <2>15. CalmOK(vcr', session)
    <3>1. Only(vcr, vcr', Fields \ Calm)
      BY <2>12 DEF Only, Calm, Fields
    <3> QED
      BY <1>1, <3>1, CalmSame
  <2>16. ASSUME SyncNow PROVE Sync(vcr', slots', machine, recorder, session)
    <3>1. recorder = FALSE /\ vcr.task = StartTask("record")
      BY <1>1, <1>5, <1>9
    <3>2. Sync(vcr, slots, machine, FALSE, session)
      BY <2>16, <3>1 DEF SyncNow
    <3>3. Sync(vcr', slots, machine, FALSE, session)
      BY <1>1, <1>3, <2>7, <2>10, <2>11, <2>12, <2>13, <2>14, <3>1, <3>2, SyncSnapshot
    <3> QED
      BY <2>1, <3>1, <3>3
  <2> QED
    BY <1>1, <2>15, <2>16 DEF SyncOK
<1> QED
  BY <1>2, <1>7, <1>8, <1>9

\* A movie begins from its savestate file.
LEMMA SyncLoaded ==
  ASSUME NEW v, Known(v), NEW w, NEW sl, NEW m, NEW rec, NEW s, Sync(v, sl, m, rec, s), ~rec,
         v.task \in {StartTask("play"), StartTask("recordExisting")}, v.st # NoState,
         NEW f, f = v.st.frz,
         NEW u, u = IF CanUnfreeze(v, f) THEN Unfreeze(v, f) ELSE v,
         w = [u EXCEPT !.task = IF v.task = StartTask("play") THEN "playback" ELSE "recording"]
  PROVE  Sync(w, sl, v.st.mach, rec, s)
<1> DEFINE task == IF v.task = StartTask("play") THEN "playback" ELSE "recording"
<1>1. /\ v.task \in Starts /\ v.task # StartTask("record") /\ v.task \notin Starting
      /\ v.task \notin {"recording", "playback"}
      /\ (v.task = StartTask("play") => v.task \in StartingPlayback /\ ~IsRecording(v.task))
      /\ (v.task = StartTask("recordExisting") => IsRecording(v.task) /\ v.task # StartTask("play"))
  BY StartTasksAre DEF Starting, StartingPlayback, IsRecording
<1>2. /\ v.sample = 0 /\ f.sample = 0 /\ v.start = "snapshot" /\ v.origin = v.st.mach /\ ~v.reset
      /\ (v.task = StartTask("recordExisting") => f.uid # v.uid)
  <2>1. v.sample = 0 /\ v.start = "snapshot" /\ (v.task = StartTask("recordExisting") => f.uid # v.uid)
    BY <1>1 DEF Sync, BeginOK
  <2>2. f.sample = 0 /\ v.origin = v.st.mach
    BY <1>1, <2>1 DEF Sync, OriginOK
  <2>3. ~v.reset
    BY <1>1 DEF Sync, ResetOK
  <2> QED
    BY <2>1, <2>2, <2>3
<1>3. \E t : u = [v EXCEPT !.sample = 0, !.task = t]
  <2>1. CASE ~CanUnfreeze(v, f)
    <3>1. u = v
      BY <2>1
    <3>2. v = [v EXCEPT !.sample = 0, !.task = v.task]
      BY <1>2 DEF Known, Globals
    <3> QED
      BY <3>1, <3>2
  <2>2. CASE CanUnfreeze(v, f)
    <3> DEFINE x == [v EXCEPT !.sample = f.sample]
    <3>1. v.task = StartTask("play")
      BY <1>2, <2>2 DEF CanUnfreeze
    <3>2. u = [WriteMovie(x) EXCEPT !.task = "playback"]
      BY <1>1, <2>2, <3>1 DEF Unfreeze
    <3>3. x = [v EXCEPT !.sample = 0] /\ x.task = v.task
      BY <1>2 DEF Known, Globals
    <3> HIDE DEF x
    <3>4. WriteMovie(x) = x
      BY <1>1, <3>1, <3>3 DEF WriteMovie
    <3>5. u = [x EXCEPT !.task = "playback"]
      BY <3>2, <3>4
    <3>6. u = [v EXCEPT !.sample = 0, !.task = "playback"]
      BY <3>3, <3>5 DEF Known, Globals
    <3> QED
      BY <3>6
  <2> QED
    BY <2>1, <2>2
<1> HIDE DEF task
<1>4. w = [v EXCEPT !.sample = 0, !.task = task]
  <2>1. PICK t : u = [v EXCEPT !.sample = 0, !.task = t]
    BY <1>3
  <2>2. w = [u EXCEPT !.task = task]
    BY DEF task
  <2> QED
    BY <2>1, <2>2 DEF Known, Globals
<1>5. /\ Only(v, w, Aside \cup {"sample", "task", "reset"})
      /\ w.sample = 0 /\ w.task = task /\ w.reset = v.reset
  BY <1>4 DEF Only, Fields, Known, Globals
<1>6. w.task \in {"recording", "playback"} /\ (w.task = "recording" => IsRecording(v.task))
  BY <1>1, <1>5 DEF task
<1>7. Sync(w, sl, v.origin, rec, s)
  BY <1>1, <1>2, <1>5, <1>6, SyncStarts
<1> QED
  BY <1>2, <1>7

\* A state of the movie takes the machine, and read-write the movie, back.
LEMMA SyncUnfrozen ==
  ASSUME NEW v, Known(v), NEW sl, NEW m, NEW rec, NEW s, CalmOK(v, s), Sync(v, sl, m, rec, s),
         v.task \in {"recording", "playback"}, ~v.reset, NEW st \in States,
         CanUnfreeze(v, st.frz), Good(st, v.uid, v.origin), st.frz.inputs \in Seq(Input(s)),
         v.readonly => Prefix(v.inputs, st.frz.sample) = Prefix(st.frz.inputs, st.frz.sample)
  PROVE  Sync(Unfreeze(v, st.frz), sl, st.mach, rec, s)
<1> DEFINE f == st.frz
           n == f.sample
           p == Prefix(f.inputs, n)
           u == Unfreeze(v, f)
<1>1. f \in Frozen /\ n \in Nat /\ f.uid = v.uid
  BY DEF States, Frozen, CanUnfreeze
<1>2. n <= Len(f.inputs) /\ st.mach = Leads(v.origin, p)
  BY <1>1, StartTasksAre DEF Good, Sync, UidOK
<1>3. p \in Seq(Input(s)) /\ Len(p) = n /\ \A i \in 1 .. n : p[i] = f.inputs[i]
  BY <1>1, <1>2, PrefixWithin
<1>4. /\ Only(v, u, {"sample", "task", "inputs", "file"})
      /\ u.sample = n /\ u.task \in {"recording", "playback"}
  BY <1>1, UnfreezeType
<1>5. u.origin = v.origin /\ u.reset = v.reset
  BY <1>4 DEF Only, Fields
<1>6. ResetOK(u, s)
  BY <1>5 DEF ResetOK
<1>7. Only(v, u, Aside \cup {"sample", "task", "inputs", "file", "reset"})
  BY <1>4 DEF Only
<1> DEFINE x == [v EXCEPT !.sample = n]
<1>8. /\ x \in Globals /\ x.states = v.states /\ Only(v, x, {"sample"}) /\ x.sample = n
  BY <1>1 DEF Known, Globals, Only, Fields
<1>9. Known(x)
  BY <1>8 DEF Known
<1>10. CASE v.readonly
  <2> DEFINE y == WriteMovie(x)
  <2>1. u = [y EXCEPT !.task = "playback"]
    BY <1>10 DEF Unfreeze, CalmOK
  <2> HIDE DEF x, u, p
  <2>2. Known(y) /\ Only(x, y, {"file"}) /\ y.file = IF IsRecording(x.task) THEN Header(x) ELSE x.file
    BY <1>9, WriteMovieType
  <2>3. /\ x.uid = v.uid /\ x.start = v.start /\ x.origin = v.origin /\ x.inputs = v.inputs
        /\ x.file = v.file
    BY <1>8 DEF Only, Fields
  <2>4. \/ y.file = v.file
        \/ /\ y.file.uid = v.uid /\ y.file.start = v.start /\ y.file.origin = v.origin
           /\ y.file.inputs = v.inputs
    BY <2>2, <2>3 DEF Header
  <2> HIDE DEF y
  <2>5. u.inputs = y.inputs /\ u.file = y.file /\ u.task = "playback"
    BY <2>1, <2>2 DEF Known, Globals
  <2>6. u.inputs = v.inputs
    BY <2>2, <2>3, <2>5 DEF Only, Fields
  <2>7. v.inputs \in Seq(Input(s))
    BY DEF Sync, InputsOK
  <2>8. Prefix(v.inputs, n) = p
    BY <1>10 DEF p
  <2>9. n <= Len(v.inputs)
    <3>1. SUFFICES ASSUME ~(n <= Len(v.inputs)) PROVE FALSE
      OBVIOUS
    <3>2. Len(v.inputs) \in Nat
      BY <2>7, LenProperties
    <3>3. n \in 1 .. n /\ ~(n <= Len(v.inputs))
      BY <1>1, <3>1, <3>2
    <3>4. Prefix(v.inputs, n)[n] = "garbage"
      BY <3>3 DEF Prefix
    <3>5. p[n] \in Input(s)
      BY <1>3, <3>3, ElementOfSeq
    <3>6. "garbage" \notin Input(s)
      BY MovieAssumption DEF Input
    <3> QED
      BY <2>8, <3>4, <3>5, <3>6
  <2>10. RunOK(u, st.mach)
    BY <1>2, <1>4, <1>5, <2>5, <2>6, <2>8, <2>9 DEF RunOK, Lost, p
  <2>11. Sync(u, sl, st.mach, rec, s)
    BY <1>4, <1>6, <1>7, <2>4, <2>5, <2>6, <2>7, <2>10, SyncRun
  <2> QED
    BY <2>11 DEF u
<1>11. CASE ~v.readonly
  <2> DEFINE r == [x EXCEPT !.task = "recording"]
             z == [r EXCEPT !.inputs = p]
  <2>1. u = WriteMovie(z)
    BY <1>11 DEF Unfreeze, CalmOK, StartingPlayback
  <2>2. p \in Inputs
    BY <1>1, PrefixType DEF Frozen
  <2> HIDE DEF x, u, p
  <2>3. r \in Globals /\ r.states = x.states /\ Only(x, r, {"task"}) /\ r.task = "recording"
    BY <1>9 DEF Known, Globals, Only, Fields, VcrTasks
  <2> HIDE DEF r
  <2>4. z \in Globals /\ z.states = x.states /\ Only(r, z, {"inputs"}) /\ z.inputs = p
        /\ z.task = "recording"
    BY <2>2, <2>3 DEF Globals, Only, Fields
  <2>5. Known(z)
    BY <1>9, <2>4 DEF Known
  <2> HIDE DEF z
  <2>6. Only(z, u, {"file"}) /\ u.file = Header(z)
    BY <2>1, <2>4, <2>5, WriteMovieType DEF IsRecording
  <2>7. z.uid = v.uid /\ z.start = v.start /\ z.origin = v.origin
    BY <1>8, <2>3, <2>4 DEF Only, Fields
  <2>8. u.inputs = p /\ u.task = "recording"
    BY <2>4, <2>6 DEF Only, Fields
  <2>9. /\ u.file.uid = v.uid /\ u.file.start = v.start /\ u.file.origin = v.origin
        /\ u.file.inputs = p
    BY <2>4, <2>6, <2>7 DEF Header
  <2>10. Prefix(p, n) = p
    BY <1>3, PrefixWhole DEF p
  <2>11. RunOK(u, st.mach)
    BY <1>1, <1>2, <1>3, <1>4, <1>5, <2>8, <2>10 DEF RunOK, Lost
  <2>12. Sync(u, sl, st.mach, rec, s)
    BY <1>3, <1>4, <1>6, <1>7, <2>8, <2>9, <2>11, SyncRun DEF p
  <2> QED
    BY <2>12 DEF u
<1> QED
  BY <1>10, <1>11

LEMMA SyncLoadFails ==
  ASSUME Steady, WorkLoadFails
  PROVE  SyncOK'
<1> DEFINE t == Head(g_tasks)
<1>1. /\ g_tasks # <<>> /\ UNCHANGED <<slots, machine, recorder, misled, session>>
      /\ Known(vcr) /\ CalmOK(vcr, session) /\ (misled \/ SyncNow)
      /\ TypesOK /\ OrderOK
  BY DEF WorkLoadFails, Working, Steady, TypesOK, SyncOK, SyncNow
<1>2. /\ t.cb \in StartCbs \cup {"seekLoad", "user"}
      /\ t.cb \in StartCbs => vcr' = StopAll(vcr)
      /\ t.cb = "user" => vcr' = vcr
  BY <1>1, LoadFailsEffect
<1>3. /\ t.cb \in StartCbs => vcr.task = StartTask(t.cb)
      /\ t.cb = "seekLoad" => vcr.loading
  BY <1>1, HeadTells
<1> HIDE DEF t
<1>4. CASE t.cb \in StartCbs
  <2>1. vcr.task # "start_recording_from_reset" /\ vcr.task \notin Starting
        /\ vcr.task \notin {"recording", "playback"}
    BY <1>3, <1>4, StartTasksAre DEF StartCbs, Starting
  <2>2. Only(vcr, StopAll(vcr), {"states", "task", "file", "st"})
    BY <1>1, StopAllType
  <2>3. Only(vcr, vcr', Fields \ Calm)
    BY <1>2, <1>4, <2>2 DEF Only, Calm, Fields
  <2>4. CalmOK(vcr', session)
    BY <1>1, <2>3, CalmSame
  <2>5. ASSUME SyncNow PROVE Sync(vcr', slots, machine, recorder, session)
    <3>1. ~vcr.reset
      BY <2>1, <2>5 DEF SyncNow, Sync, ResetOK
    <3> QED
      BY <1>1, <1>2, <1>4, <2>1, <2>5, <3>1, SyncStopAll DEF SyncNow
  <2> QED
    BY <1>1, <2>4, <2>5 DEF SyncOK
<1>5. CASE t.cb = "user"
  BY <1>1, <1>2, <1>5 DEF SyncOK, SyncNow
<1>6. CASE t.cb = "seekLoad"
  BY <1>1, <1>3, <1>6 DEF CalmOK
<1> QED
  BY <1>2, <1>4, <1>5, <1>6

LEMMA SyncLoad ==
  ASSUME Steady, WorkLoad
  PROVE  SyncOK'
<1> DEFINE t  == Head(g_tasks)
           st == Source(t)
           f  == st.frz
           v  == IF CanUnfreeze(vcr, f) THEN Unfreeze(vcr, f) ELSE vcr
<1>1. /\ g_tasks # <<>> /\ UNCHANGED <<slots, recorder, session>>
      /\ Known(vcr) /\ CalmOK(vcr, session) /\ (misled \/ SyncNow) /\ misled \in BOOLEAN
      /\ TypesOK /\ OrderOK /\ slots \in [Slots -> States]
      /\ t \in Task /\ t.job = "Load" /\ st \in States
  BY HeadType, SourceType DEF WorkLoad, Working, Steady, TypesOK, SyncOK, SyncNow
<1>2. /\ st # NoState /\ vcr' = Succeeded(v, t, st) /\ machine' = st.mach
      /\ misled' = (misled \/ (t.cb = "user" /\ ~OfTheMovie(f)))
  BY DEF WorkLoad
<1>3. /\ t.cb \in StartCbs => vcr.task = StartTask(t.cb) /\ ~recorder
      /\ t.cb = "user" => Restores(session)
      /\ t.cb = "seekLoad" => vcr.loading
  BY <1>1, HeadTells
<1>4. /\ t.medium = "slot" => st = slots[t.slot]
      /\ t.medium = "path" => st = vcr.st
  BY DEF Source
<1>5. SyncNow /\ t.cb = "user" => vcr.task \in {"idle", "recording", "playback"} /\ ~vcr.reset
  BY <1>1, UserMeets
<1> HIDE DEF t, st
<1>6. \/ t.cb = "user" /\ t.medium = "slot" /\ t.slot \in Slots
      \/ t.cb \in {"play", "recordExisting"} /\ t.medium = "path"
      \/ t.cb = "seekLoad"
  BY <1>1, TaskCases
<1>7. f \in Frozen
  BY <1>1 DEF States, Frozen
<1>8. Known(v) /\ Only(vcr, v, {"sample", "task", "inputs", "file"})
  <2>1. Only(vcr, vcr, {"sample", "task", "inputs", "file"})
    BY DEF Only
  <2>2. /\ Known(Unfreeze(vcr, f))
        /\ Only(vcr, Unfreeze(vcr, f), {"sample", "task", "inputs", "file"})
    BY <1>1, <1>7, UnfreezeType
  <2> QED
    BY <1>1, <2>1, <2>2
<1> HIDE DEF f
<1>9. CASE t.cb \in {"play", "recordExisting"}
  <2> DEFINE task == IF vcr.task = StartTask("play") THEN "playback" ELSE "recording"
  <2>1. /\ vcr.task \in {StartTask("play"), StartTask("recordExisting")} /\ ~recorder
        /\ (vcr.task = StartTask("play") <=> t.cb = "play")
    BY <1>3, <1>9, StartTasksAre DEF StartCbs
  <2>2. vcr' = [v EXCEPT !.task = task]
    BY <1>2, <1>9, <2>1 DEF Succeeded
  <2>3. Only(v, vcr', {"task"})
    <3> HIDE DEF v, task
    <3> QED
      BY <1>8, <2>2 DEF Only, Fields, Known, Globals
  <2>4. CalmOK(vcr', session)
    <3> HIDE DEF v
    <3>1. Only(vcr, vcr', Fields \ Calm)
      BY <1>8, <2>3 DEF Only, Calm, Fields
    <3> QED
      BY <1>1, <3>1, CalmSame
  <2>5. ASSUME SyncNow PROVE Sync(vcr', slots, machine', recorder, session)
    <3>1. st = vcr.st /\ f = vcr.st.frz
      BY <1>4, <1>6, <1>9 DEF f
    <3>2. Sync(vcr', slots, vcr.st.mach, recorder, session)
      BY <1>1, <1>2, <2>1, <2>2, <2>5, <3>1, SyncLoaded DEF SyncNow
    <3> QED
      BY <1>2, <3>1, <3>2
  <2> QED
    BY <1>1, <1>2, <1>9, <2>4, <2>5 DEF SyncOK
<1>10. CASE t.cb = "user"
  <2>1. vcr' = v
    BY <1>2, <1>10 DEF Succeeded
  <2>2. CalmOK(vcr', session)
    <3> HIDE DEF v
    <3>1. Only(vcr, vcr', Fields \ Calm)
      BY <1>8, <2>1 DEF Only, Calm, Fields
    <3> QED
      BY <1>1, <3>1, CalmSame
  <2>3. ASSUME SyncNow, OfTheMovie(f) PROVE Sync(vcr', slots, machine', recorder, session)
    <3> DEFINE k == t.slot
    <3>1. k \in Slots /\ st = slots[k] /\ f = st.frz
      BY <1>4, <1>6, <1>10 DEF f
    <3> HIDE DEF k
    <3>2. Good(st, vcr.uid, vcr.origin) /\ f.inputs \in Seq(Input(session))
      BY <2>3, <3>1 DEF SyncNow, Sync, GoodOK, InputsOK
    <3>3. CASE vcr.task = "idle"
      <4>1. vcr' = vcr
        BY <2>1, <3>3 DEF CanUnfreeze
      <4> QED
        BY <2>3, <3>3, <4>1, SyncMachine DEF SyncNow
    <3>4. CASE vcr.task # "idle"
      <4>1. CanUnfreeze(vcr, f) /\ (vcr.readonly => Prefix(vcr.inputs, f.sample) = Prefix(f.inputs, f.sample))
        BY <2>3, <3>4 DEF OfTheMovie
      <4>2. vcr.task \in {"recording", "playback"} /\ ~vcr.reset
        BY <1>5, <1>10, <2>3, <3>4
      <4>3. Sync(Unfreeze(vcr, st.frz), slots, st.mach, recorder, session)
        BY <1>1, <2>3, <3>1, <3>2, <4>1, <4>2, SyncUnfrozen DEF SyncNow
      <4> QED
        BY <1>2, <2>1, <3>1, <4>1, <4>3
    <3> QED
      BY <3>3, <3>4
  <2>4. misled' \/ (SyncNow /\ OfTheMovie(f))
    BY <1>1, <1>2, <1>10
  <2> QED
    BY <1>1, <2>2, <2>3, <2>4 DEF SyncOK
<1>11. CASE t.cb = "seekLoad"
  BY <1>1, <1>3, <1>11 DEF CalmOK
<1> QED
  BY <1>6, <1>9, <1>10, <1>11

LEMMA SyncWork ==
  ASSUME Steady, WorkBegin \/ WorkSave \/ WorkLoadFails \/ WorkLoad \/ WorkEnd \/ WorkNone
  PROVE  SyncOK'
<1>1. CASE WorkBegin \/ WorkEnd \/ WorkNone
  <2>1. UNCHANGED <<vcr, slots, machine, recorder, misled, session>>
    BY <1>1 DEF WorkBegin, WorkEnd, WorkNone
  <2> QED
    BY <2>1 DEF Steady, SyncOK
<1> QED
  BY <1>1, SyncSave, SyncLoadFails, SyncLoad

LEMMA SyncRecords ==
  ASSUME Steady, RecordFromReset \/ RecordFromExisting \/ RecordFromSnapshot
  PROVE  SyncOK'
<1>1. /\ Known(vcr) /\ CalmOK(vcr, session) /\ (misled \/ SyncNow) /\ TypesOK
      /\ vcr.task \in {"idle", "recording", "playback"} /\ ~vcr.reset
      /\ slots \in [Slots -> States] /\ UNCHANGED <<slots, machine, misled, session>>
  <2>1. /\ RecordFromReset => Request("recordReset")
        /\ RecordFromExisting => Request("recordExisting")
        /\ RecordFromSnapshot => Request("recordSnapshot")
    BY DEF RecordFromReset, RecordFromExisting, RecordFromSnapshot
  <2>2. PICK kind \in {"recordReset", "recordExisting", "recordSnapshot"} : Request(kind)
    BY <2>1
  <2> QED
    BY <2>2, PatientRequest DEF Steady, TypesOK, SyncOK, SyncNow
<1> DEFINE u == StopAll(vcr)
           r == StartedRecord(vcr)
<1>2. Known(u) /\ u.task = "idle" /\ u.st = vcr.st
  BY <1>1, StopAllSettled
<1>3. Only(vcr, u, {"states", "task", "file", "st"})
  BY <1>1, StopAllType
<1>4. Only(u, r, {"readonly", "inputs", "uid", "movies", "origin"})
  BY <1>1, StartedRecordType
<1> HIDE DEF u, r
<1>5. r.task = "idle" /\ r.st = vcr.st /\ vcr.st.mach \in Machines /\ vcr.sample \in Nat
      /\ <<>> \in Machines /\ Boot \in Machines
  BY <1>1, <1>2, <1>4, NothingTypes DEF Only, Fields, Known, Globals, States
<1>6. PICK task \in VcrTasks, start \in {"reset", "snapshot"}, origin \in Machines, sample \in Nat :
        /\ Begun(r, vcr', task, start, origin, sample)
        /\ \/ task = "idle" /\ start = "snapshot" /\ vcr.st = NoState
           \/ task = "start_recording_from_reset" /\ start = "reset" /\ origin = Boot /\ sample = 0
           \/ task = StartTask("record") /\ start = "snapshot" /\ recorder'
           \/ /\ task = StartTask("recordExisting") /\ start = "snapshot"
              /\ origin = vcr.st.mach /\ sample = 0 /\ vcr.st # NoState
  <2>1. /\ "idle" \in VcrTasks /\ "start_recording_from_reset" \in VcrTasks
        /\ "start_recording_from_snapshot" \in VcrTasks
        /\ "start_recording_from_existing_snapshot" \in VcrTasks
    BY DEF VcrTasks, Starting
  <2>2. CASE RecordFromReset
    <3>1. Begun(r, vcr', "start_recording_from_reset", "reset", Boot, 0)
      BY <1>1, <2>2, RecordSteps DEF r
    <3> QED
      BY <1>5, <2>1, <3>1
  <2>3. CASE RecordFromSnapshot
    <3>1. Begun(r, vcr', "start_recording_from_snapshot", "snapshot", <<>>, vcr.sample)
      BY <1>1, <2>3, RecordSteps DEF r
    <3>2. recorder' = TRUE /\ "start_recording_from_snapshot" = StartTask("record")
      BY <2>3, StartTasksAre DEF RecordFromSnapshot
    <3> QED
      BY <1>5, <2>1, <3>1, <3>2
  <2>4. CASE RecordFromExisting
    <3>1. IF r.st = NoState
          THEN Begun(r, vcr', r.task, "snapshot", <<>>, vcr.sample)
          ELSE Begun(r, vcr', "start_recording_from_existing_snapshot", "snapshot", r.st.mach, 0)
      BY <1>1, <2>4, RecordSteps DEF r
    <3>2. CASE vcr.st = NoState
      BY <1>5, <2>1, <3>1, <3>2
    <3>3. CASE vcr.st # NoState
      <4>1. Begun(r, vcr', "start_recording_from_existing_snapshot", "snapshot", vcr.st.mach, 0)
        BY <1>5, <3>1, <3>3
      <4>2. "start_recording_from_existing_snapshot" = StartTask("recordExisting")
        BY StartTasksAre
      <4> QED
        BY <1>5, <2>1, <3>3, <4>1, <4>2
    <3> QED
      BY <3>2, <3>3
  <2> QED
    BY <2>2, <2>3, <2>4
<1>7. Only(r, vcr', {"task", "start", "origin", "sample"})
  BY <1>1, <1>6, RecordTypes DEF r
<1>8. CalmOK(vcr', session)
  <2>1. Only(vcr, vcr', Fields \ Calm)
    BY <1>3, <1>4, <1>7 DEF Only, Calm, Fields
  <2> QED
    BY <1>1, <2>1, CalmSame
<1>9. ASSUME SyncNow PROVE Sync(vcr', slots, machine, recorder', session)
  <2>1. Begun(StartedRecord(vcr), vcr', task, start, origin, sample)
    BY <1>6 DEF r
  <2> QED
    BY <1>1, <1>6, <1>9, <2>1, SyncRecord DEF SyncNow
<1> QED
  BY <1>1, <1>8, <1>9 DEF SyncOK

LEMMA SyncPlays ==
  ASSUME Steady, Play \/ Stop
  PROVE  SyncOK'
<1>1. /\ Known(vcr) /\ CalmOK(vcr, session) /\ (misled \/ SyncNow)
      /\ vcr.task \in {"idle", "recording", "playback"} /\ ~vcr.reset
      /\ UNCHANGED <<slots, machine, misled, session, recorder>>
  <2>1. (Play => Request("play")) /\ (Stop => Request("stop")) /\ UNCHANGED recorder
    BY DEF Play, Stop
  <2>2. PICK kind \in {"play", "stop"} : Request(kind)
    BY <2>1
  <2> QED
    BY <2>1, <2>2, PatientRequest DEF Steady, TypesOK, SyncOK, SyncNow
<1>2. Only(vcr, StopAll(vcr), Fields \ Calm)
  <2>1. Only(vcr, StopAll(vcr), {"states", "task", "file", "st"})
    BY <1>1, StopAllType
  <2> QED
    BY <2>1 DEF Only, Calm, Fields
<1>3. CASE Play
  <2>1. vcr.file # NoMovie /\ vcr' \in {MovieRead(vcr), StartedPlayback(vcr)}
    BY <1>3 DEF Play
  <2>2. /\ Only(vcr, MovieRead(vcr), MovieFields)
        /\ Only(MovieRead(vcr), StartedPlayback(vcr), {"sample", "task"})
    BY <1>1, MovieReadType, StartedPlaybackType
  <2>3. Only(vcr, vcr', Fields \ Calm)
    BY <2>1, <2>2 DEF Only, Calm, Fields, MovieFields
  <2>4. CalmOK(vcr', session)
    BY <1>1, <2>3, CalmSame
  <2>5. SyncNow => Sync(vcr', slots, machine, recorder, session)
    BY <1>1, <2>1, SyncPlay DEF SyncNow
  <2> QED
    BY <1>1, <2>4, <2>5 DEF SyncOK
<1>4. CASE Stop
  <2>1. vcr' = StopAll(vcr) \/ vcr' = [vcr EXCEPT !.states = <<>>]
    BY <1>4 DEF Stop
  <2>2. CASE vcr' = StopAll(vcr)
    <3>1. CalmOK(vcr', session)
      BY <1>1, <1>2, <2>2, CalmSame
    <3>2. SyncNow => Sync(vcr', slots, machine, recorder, session)
      BY <1>1, <2>2, SyncStopAll DEF SyncNow
    <3> QED
      BY <1>1, <3>1, <3>2 DEF SyncOK
  <2>3. CASE vcr' = [vcr EXCEPT !.states = <<>>]
    <3>1. Only(vcr, vcr', Aside \ {"askedReset"})
      BY <1>1, <2>3 DEF Only, Aside, Fields, Known, Globals
    <3> QED
      BY <1>1, <3>1, SyncQuiet
  <2> QED
    BY <2>1, <2>2, <2>3
<1> QED
  BY <1>3, <1>4

\* Seeks and edits are not asked for; the rest does not touch the movie.
LEMMA SyncRest ==
  ASSUME Steady, SaveOrLoad \/ BeginSeek \/ EndSeek \/ ToggleReadonly \/ ResetRequested
                 \/ TogglePause \/ WarpModify
  PROVE  SyncOK'
<1>1. /\ Known(vcr) /\ CalmOK(vcr, session) /\ (misled \/ SyncNow) /\ Plain(session)
  BY DEF Steady, TypesOK, SyncOK, SyncNow
<1>2. ~BeginSeek /\ ~WarpModify
  BY <1>1 DEF BeginSeek, WarpModify, Request, Plain
<1>3. ~EndSeek
  BY <1>1 DEF EndSeek, CalmOK
<1>4. UNCHANGED <<slots, machine, recorder, misled, session>>
  <2>1. SaveOrLoad => UNCHANGED <<slots, machine, recorder, misled, session>>
    BY DEF SaveOrLoad, Request
  <2> QED
    BY <1>2, <1>3, <2>1 DEF ToggleReadonly, ResetRequested, TogglePause, Request
<1>5. CASE SaveOrLoad
  <2>1. UNCHANGED vcr
    BY <1>5 DEF SaveOrLoad
  <2> QED
    BY <1>1, <1>4, <2>1 DEF SyncOK, SyncNow
<1>6. CASE ToggleReadonly \/ TogglePause
  <2>1. Only(vcr, vcr', Aside \ {"askedReset"})
    BY <1>1, <1>6 DEF ToggleReadonly, TogglePause, Only, Aside, Fields, Known, Globals
  <2> QED
    BY <1>4, <2>1, SyncQuiet
<1>7. CASE ResetRequested
  <2>1. vcr' = [vcr EXCEPT !.askedReset = TRUE] /\ "reset" \in session.requests
    BY <1>7 DEF ResetRequested, Request
  <2>2. Only(vcr, vcr', {"askedReset"})
    BY <1>1, <2>1 DEF Only, Fields, Known, Globals
  <2>3. ~Restores(session)
    BY <1>1, <2>1 DEF Plain
  <2>4. vcr'.seek = vcr.seek /\ vcr'.loading = vcr.loading /\ vcr'.warp = vcr.warp
    BY <2>2 DEF Only, Fields
  <2>5. CalmOK(vcr', session)
    BY <1>1, <2>3, <2>4 DEF CalmOK
  <2>6. Only(vcr, vcr', Aside)
    BY <2>2 DEF Only, Aside
  <2>7. SyncNow => Sync(vcr', slots, machine, recorder, session)
    BY <2>6, SyncSame DEF SyncNow
  <2> QED
    BY <1>1, <1>4, <2>5, <2>7 DEF SyncOK
<1> QED
  BY <1>2, <1>3, <1>5, <1>6, <1>7

LEMMA SyncRecordSaves ==
  ASSUME Steady, RecordSaves
  PROVE  SyncOK'
<1>1. /\ Known(vcr) /\ CalmOK(vcr, session) /\ (misled \/ SyncNow) /\ OrderOK
      /\ recorder /\ vcr' = [vcr EXCEPT !.sample = 0] /\ recorder' = FALSE
      /\ UNCHANGED <<slots, machine, misled, session>>
  BY DEF Steady, TypesOK, SyncOK, SyncNow, RecordSaves
<1>2. vcr.task = StartTask("record") /\ vcr.task \notin {"recording", "playback"}
      /\ vcr.task \notin Starting /\ vcr.task \in Starts
  BY <1>1, StartTasksAre DEF OrderOK, Order, StartOK, Starting
<1>3. Only(vcr, vcr', {"sample"}) /\ vcr'.sample = 0
  BY <1>1 DEF Only, Fields, Known, Globals
<1>4. CalmOK(vcr', session)
  <2>1. Only(vcr, vcr', Fields \ Calm)
    BY <1>3 DEF Only, Calm, Fields
  <2> QED
    BY <1>1, <2>1, CalmSame
<1>5. ASSUME SyncNow PROVE Sync(vcr', slots, machine, FALSE, session)
  <2>1. /\ vcr'.task = vcr.task /\ vcr'.uid = vcr.uid /\ vcr'.start = vcr.start
        /\ vcr'.origin = vcr.origin /\ vcr'.inputs = vcr.inputs /\ vcr'.reset = vcr.reset
        /\ vcr'.movies = vcr.movies /\ vcr'.file = vcr.file /\ vcr'.st = vcr.st
    BY <1>3 DEF Only, Fields
  <2>2. InputsOK(vcr', slots, session) /\ UidOK(vcr', slots) /\ OriginOK(vcr')
    BY <1>5, <2>1 DEF SyncNow, Sync, InputsOK, UidOK, OriginOK
  <2>3. BeginOK(vcr', FALSE, slots) /\ GoodOK(vcr', slots)
    BY <1>3, <1>5, <2>1 DEF SyncNow, Sync, BeginOK, GoodOK
  <2>4. ResetOK(vcr', session)
    BY <1>2, <1>5, <2>1 DEF SyncNow, Sync, ResetOK
  <2>5. RunOK(vcr', machine)
    BY <1>2, <2>1 DEF RunOK
  <2> QED
    BY <2>2, <2>3, <2>4, <2>5 DEF Sync
<1> QED
  BY <1>1, <1>4, <1>5 DEF SyncOK

LEMMA SyncInit ==
  ASSUME Init, Plain(session)
  PROVE  SyncOK
<1> DEFINE file == session.file
<1>1. /\ session \in Sessions /\ file \in Movies /\ "garbage" \notin Range(file.inputs)
      /\ file = NoMovie \/ (file.uid > 0 /\ (file.start = "reset" => file.origin = Boot))
  BY FileAssumption DEF Init
<1>2. /\ vcr.task = "idle" /\ vcr.uid = 0 /\ vcr.start = "reset" /\ vcr.inputs = <<>>
      /\ vcr.sample = 0 /\ vcr.seek = NoFrame /\ ~vcr.loading /\ ~vcr.reset
      /\ ~vcr.askedReset /\ ~vcr.warp /\ vcr.movies = file.uid /\ vcr.file = file
      /\ vcr.st = IF file.start = "snapshot" THEN StartState(file) ELSE NoState
      /\ slots = [k \in Slots |-> NoState]
  BY DEF Init
<1>3. /\ NoState.frz.uid = 0 /\ NoState.frz.inputs = <<>> /\ NoState.frz.sample = 0
      /\ StartState(file).frz.uid = file.uid /\ StartState(file).frz.sample = 0
      /\ StartState(file).mach = file.origin
  BY DEF NoState, StartState
<1>4. \A k \in Slots : slots[k] = NoState
  BY <1>2
<1>5. CalmOK(vcr, session)
  BY <1>2 DEF CalmOK
<1>6. InputsOK(vcr, slots, session)
  <2> DEFINE S == Input(session)
             q == file.inputs
             n == Len(q)
  <2>1. q \in Seq(Keys \cup {"reset", "garbage"})
    BY <1>1 DEF Movies, Inputs
  <2>2. n \in Nat /\ DOMAIN q = 1 .. n
    BY <2>1, LenProperties
  <2>3. \A i \in 1 .. n : q[i] \in S
    <3> TAKE i \in 1 .. n
    <3>1. q[i] \in Keys \cup {"reset", "garbage"}
      BY <2>1, <2>2, ElementOfSeq
    <3>2. q[i] \in Range(q)
      BY <2>2 DEF Range
    <3>3. Restores(session) => "reset" \notin Range(q)
      BY DEF Plain
    <3> QED
      BY <1>1, <3>1, <3>2, <3>3 DEF Input
  <2> HIDE DEF S
  <2>4. q \in [1 .. n -> S]
    BY <2>1, <2>2, <2>3
  <2>5. q \in Seq(S)
    BY <2>2, <2>4, SeqDef
  <2>6. <<>> \in Seq(S)
    OBVIOUS
  <2> QED
    BY <1>2, <1>3, <1>4, <2>5, <2>6 DEF InputsOK, S
<1>7. UidOK(vcr, slots)
  <2>1. file.uid \in Nat
    BY <1>1 DEF Movies
  <2> QED
    BY <1>1, <1>2, <1>3, <1>4, <2>1 DEF UidOK
<1>8. OriginOK(vcr)
  <2>1. vcr.st # NoState => vcr.st = StartState(file)
    BY <1>2
  <2>2. vcr.st # NoState => vcr.st.frz.sample = 0 /\ vcr.st.mach = file.origin
    BY <1>3, <2>1
  <2> QED
    BY <1>1, <1>2, <2>2 DEF OriginOK
<1>9. BeginOK(vcr, recorder, slots)
  BY <1>2, StartTasksAre DEF BeginOK
<1>10. GoodOK(vcr, slots)
  BY <1>3, <1>4 DEF GoodOK, Good
<1>11. ResetOK(vcr, session) /\ RunOK(vcr, machine)
  BY <1>2 DEF ResetOK, RunOK
<1> QED
  BY <1>5, <1>6, <1>7, <1>8, <1>9, <1>10, <1>11 DEF SyncOK, Sync

LEMMA SyncStep ==
  ASSUME Orderly, TypesOK, OrderOK, Plain(session) => SyncOK, [Next]_vars
  PROVE  (Plain(session) => SyncOK)'
<1>1. session' = session
  BY RequestUnchanged
     DEF Next, Emulation, Jobs, User, vars, WorkBegin, WorkSave, WorkLoadFails, WorkLoad, Working,
         WorkEnd, WorkNone, PollIdle, PollNothing, PollStarting, PollRecording, PollPlayback,
         PollMovie, Polling, Restart, Enqueue, Running, RecordSaves, RecordFromReset,
         RecordFromExisting, RecordFromSnapshot, Play, Stop, SaveOrLoad, BeginSeek, EndSeek,
         ToggleReadonly, ResetRequested, TogglePause, WarpModify
<1> SUFFICES ASSUME Plain(session) PROVE SyncOK'
  BY <1>1
<1>2. Steady
  BY DEF Steady
<1>3. CASE Emulation
  BY <1>2, <1>3, SyncWork, SyncPoll DEF Emulation
<1>4. CASE Jobs
  BY <1>2, <1>4, SyncJobs DEF Jobs
<1>5. CASE RecordSaves
  BY <1>2, <1>5, SyncRecordSaves
<1>6. CASE User
  BY <1>2, <1>6, SyncRecords, SyncPlays, SyncRest DEF User
<1>7. CASE UNCHANGED vars
  BY <1>2, <1>7 DEF vars, Steady, SyncOK
<1> QED
  BY <1>3, <1>4, <1>5, <1>6, <1>7 DEF Next

LEMMA SyncInvariant == Orderly => (Spec => [](Plain(session) => SyncOK))
<1> SUFFICES ASSUME Orderly PROVE Spec => [](Plain(session) => SyncOK)
  OBVIOUS
<1>1. Spec => [](TypesOK /\ OrderOK)
  BY OrderInvariant
<1>2. Init => (Plain(session) => SyncOK)
  BY SyncInit
<1>3. TypesOK /\ OrderOK /\ (Plain(session) => SyncOK) /\ [Next]_vars
        => (Plain(session) => SyncOK)'
  BY SyncStep
<1> QED
  BY <1>1, <1>2, <1>3, PTL DEF Spec

\* A movie stays in sync.  Where requests wait until nothing is under way, and no
\* seek and no edit is asked for, then through any number of recordings, playbacks,
\* resets, and states saved and loaded, read-only or read-write, in any order of the
\* threads' steps, the machine is where the movie's inputs lead, unless the user
\* loaded a state that is not of the movie.
THEOREM StaysInSync == Orderly => (Spec => [](Plain(session) => InSync))
<1> SUFFICES ASSUME Orderly PROVE Spec => [](Plain(session) => InSync)
  OBVIOUS
<1>1. SyncOK => InSync
  BY DEF SyncOK, Sync, RunOK, InSync
<1> QED
  BY <1>1, SyncInvariant, PTL

\* There the position the handlers index the buffer with is never past its end.
THEOREM SamplesInRange == Orderly => (Spec => [](Plain(session) => SampleInRange))
<1> SUFFICES ASSUME Orderly PROVE Spec => [](Plain(session) => SampleInRange)
  OBVIOUS
<1>1. SyncOK => SampleInRange
  BY DEF SyncOK, Sync, RunOK, SampleInRange
<1> QED
  BY <1>1, SyncInvariant, PTL
=============================================================================
