--------------------------- MODULE AsyncExecutor ---------------------------
(* The queue of AsyncExecutor.cpp: functions with a key, run in order by one *)
(* worker when use_async_executor is on. Without it each function gets a     *)
(* thread of its own and the queue is not used.                              *)
EXTENDS Naturals, Sequences

NoKey == "none"

\* A keyed function is not queued when one with its key still waits; the one
\* the worker has taken out does not count.
Enqueued(queue, key) == key # NoKey /\ \E i \in DOMAIN queue : queue[i].key = key

InvokeAsync(queue, key, job) ==
  IF Enqueued(queue, key) THEN queue
  ELSE Append(queue, [key |-> key, job |-> job])
=============================================================================
