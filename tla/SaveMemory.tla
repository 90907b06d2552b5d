---------------------------- MODULE SaveMemory ----------------------------
(* What the cartridge's and the controllers' save memory promises a game:   *)
(* a block reads as it was last written by this game, whatever other games  *)
(* and sessions came between, and a crash costs at most the last write.     *)
(* A block that was never written reads as anything.                        *)
EXTENDS Integers

CONSTANTS Games,    \* names of cartridges
          Size,     \* blocks of each save file
          Wiped     \* its first blocks, which a reset of the save data clears

VARIABLES game,     \* the game that runs, or NoGame
          store,    \* game, file, block -> value
          safe,     \* the same, as far as the files on disk have it
          answer    \* the last read: its file, block and value

vars == <<game, store, safe, answer>>

NoGame  == "no game"
Unknown == -1
NoAnswer == <<"none", 0, 0>>

Init ==
  /\ game = NoGame
  /\ store = [g \in Games |-> [f \in DOMAIN Size |-> [i \in 1..Size[f] |-> Unknown]]]
  /\ safe = store
  /\ answer = NoAnswer

Begin == game = NoGame /\ game' \in Games /\ UNCHANGED <<store, safe, answer>>

End == game' = NoGame /\ safe' = store /\ UNCHANGED <<store, answer>>

\* Every access first brings the write before it to the disk.
Settled(f) == safe' = [safe EXCEPT ![game][f] = store[game][f]]

Write == \E f \in DOMAIN Size : \E b \in 1..Size[f] :
  /\ Settled(f)
  /\ store'[game][f][b] # Unknown
  /\ \A i \in 1..Size[f] \ {b} :
       store'[game][f][i] # store[game][f][i] => store[game][f][i] = Unknown
  /\ store' = [store EXCEPT ![game][f] = store'[game][f]]
  /\ UNCHANGED <<game, answer>>

Read == \E f \in DOMAIN Size : \E b \in 1..Size[f] :
  /\ Settled(f)
  /\ <<answer'[1], answer'[2]>> = <<f, b>>
  /\ answer'[3] # store[game][f][b] => store[game][f][b] = Unknown
  /\ UNCHANGED <<game, store>>

\* The save data of the game is reset.
Wipe(g) ==
  /\ store' = [store EXCEPT ![g] = [f \in DOMAIN Size |->
       [i \in 1..Size[f] |-> IF i <= Wiped[f] THEN 0 ELSE store[g][f][i]]]]
  /\ safe' = store'
  /\ UNCHANGED <<game, answer>>

Crash ==
  /\ game' = NoGame
  /\ \A g \in Games, f \in DOMAIN Size : \A i \in 1..Size[f] :
       store'[g][f][i] \in {store[g][f][i], safe[g][f][i]}
  /\ safe' = store'
  /\ UNCHANGED answer

Next ==
  \/ Begin \/ End \/ Crash
  \/ game # NoGame /\ (Write \/ Read)
  \/ \E g \in Games : Wipe(g)

Spec == Init /\ [][Next]_vars
=============================================================================
