--------------------------- MODULE SavestateTasks ---------------------------
(***************************************************************************)
(* The task vector of core/memory/savestates.cpp as operators on its value. *)
(*                                                                         *)
(* g_tasks is filled at the front by do_file, do_slot and do_memory, from    *)
(* any thread, and emptied by do_work on the emulation thread, which first   *)
(* drops tasks it takes for duplicates.  A task names its job, its medium,   *)
(* its slot or its buffer, and the callback it ends with.                    *)
(***************************************************************************)
EXTENDS Integers, Sequences, FiniteSets, SequencesExt

Slot(job, slot)       == [job |-> job, medium |-> "slot", slot |-> slot,
                          frame |-> 0, st |-> <<>>, cb |-> "user"]
Path(job, cb)         == [job |-> job, medium |-> "path", slot |-> 0,
                          frame |-> 0, st |-> <<>>, cb |-> cb]
Memory(job, f, s, cb) == [job |-> job, medium |-> "memory", slot |-> 0,
                          frame |-> f, st |-> s, cb |-> cb]

\* g_tasks.insert(g_tasks.begin(), task)
Push(tasks, t) == <<t>> \o tasks

\* <<i, j>>: task j counts as a duplicate of the slot task i before it.
Duplicates(tasks) ==
  {p \in (DOMAIN tasks) \X (DOMAIN tasks) :
     /\ p[1] < p[2]
     /\ tasks[p[1]].medium = "slot" /\ tasks[p[2]].medium = "slot"
     /\ tasks[p[1]].slot = tasks[p[2]].slot
     /\ \A k \in p[1] + 1 .. p[2] : tasks[k].job # "Load"}

\* erase_indices() at one index, as often as it was found: what moves up to it
\* goes too.
Erase(tasks, j, times) ==
  SubSeq(tasks, 1, j - 1) \o SubSeq(tasks, j + times, Len(tasks))

\* savestates_simplify_tasks(): from the last index to the first.
Simplify(tasks) ==
  LET found    == Duplicates(tasks)
      Times(j) == Cardinality({p \in found : p[2] = j})
      left[n \in 0 .. Len(tasks)] ==
        IF n = 0 THEN tasks
        ELSE LET j == Len(tasks) + 1 - n IN Erase(left[n - 1], j, Times(j))
  IN  left[Len(tasks)]
=============================================================================
