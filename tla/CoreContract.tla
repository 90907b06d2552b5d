---------------------------- MODULE CoreContract ----------------------------
(* What vr_start_rom, vr_close_rom and vr_reset_rom promise their callers:   *)
(* the machine is on or off, calls take hold of it one after the other, and  *)
(* the result a call returns is true of the machine it leaves behind.        *)
CONSTANTS Jobs, NoJob

VARIABLES
  on,      \* the machine executes
  holder,  \* the call that may switch it
  fresh,   \* the holder has switched it on
  call,    \* op, whether it waits for its turn, and its answer
  mortal   \* the machine may stop by itself

vars == <<on, holder, fresh, call, mortal>>

Idle == [op |-> "none", wait |-> FALSE, answer |-> "none"]
Open(j) == call[j].op # "none" /\ call[j].answer = "none"
Reply(j, r) == call' = [call EXCEPT ![j].answer = r]

Init ==
  /\ on = FALSE /\ fresh = FALSE
  /\ holder = NoJob
  /\ call = [j \in Jobs |-> Idle]
  /\ mortal \in BOOLEAN

Ask(j) ==
  /\ call[j] = Idle
  /\ \E op \in {"start", "close", "reset"}, wait \in BOOLEAN :
       call' = [call EXCEPT ![j] = [op |-> op, wait |-> wait, answer |-> "none"]]
  /\ UNCHANGED <<on, holder, fresh, mortal>>

Acquire(j) ==
  /\ holder = NoJob /\ Open(j)
  /\ holder' = j
  /\ UNCHANGED <<on, fresh, call, mortal>>

\* Only a call that does not wait is turned away, and only from another one.
Refuse(j) ==
  /\ Open(j) /\ ~call[j].wait
  /\ holder \notin {NoJob, j}
  /\ Reply(j, "Busy")
  /\ UNCHANGED <<on, holder, fresh, mortal>>

SwitchOff == holder # NoJob /\ on /\ ~fresh /\ on' = FALSE
             /\ UNCHANGED <<holder, fresh, call, mortal>>

SwitchOn ==
  /\ holder # NoJob /\ ~on /\ call[holder].op \in {"start", "reset"}
  /\ on' = TRUE /\ fresh' = TRUE
  /\ UNCHANGED <<holder, call, mortal>>

Die ==
  /\ mortal /\ on
  /\ on' = FALSE /\ fresh' = FALSE
  /\ UNCHANGED <<holder, call, mortal>>

\* A start or reset succeeds when the machine it switched on is running, a
\* close when none is; a failure leaves it off. A start is told that nothing
\* runs only when the machine it was to replace has died under its hands.
Justified(op, r) ==
  \/ r = "Ok" /\ op \in {"start", "reset"} /\ on /\ fresh
  \/ r = "Ok" /\ op = "close" /\ ~on
  \/ r = "NotRunning" /\ (op \in {"close", "reset"} \/ mortal) /\ ~on
  \/ r = "Error" /\ op \in {"start", "reset"} /\ ~on

Answer(j) ==
  /\ holder = j /\ Open(j)
  /\ \E r \in {"Ok", "NotRunning", "Error"} : Justified(call[j].op, r) /\ Reply(j, r)
  /\ holder' = NoJob /\ fresh' = FALSE
  /\ UNCHANGED <<on, mortal>>

Next ==
  \/ \E j \in Jobs : Ask(j) \/ Acquire(j) \/ Refuse(j) \/ Answer(j)
  \/ SwitchOff \/ SwitchOn \/ Die

Spec == Init /\ [][Next]_vars
=============================================================================
