------------------------------ MODULE Storage ------------------------------
(* The save files of a game and the memories behind them: EEPROM (the       *)
(* PIF's channel 4), SRAM and flash RAM (DMA to 0x08000000, flash commands) *)
(* and controller paks.  A file holds blocks and may be shorter than its    *)
(* memory; a buffer keeps what a read of a short file does not reach, from  *)
(* one game to the next.  The flash RAM's status is any value.              *)
EXTENDS Integers, Sequences, SequencesExt, FiniteSetsExt

CONSTANTS Games,      \* cartridges
          Values,     \* contents of a block; 0 and Erased among them
          Size,       \* blocks of the buffers eep, sram, flash and mpk
          PakWipe,    \* blocks of the pak file that clear_save_data() writes
          PakBlocks,  \* blocks of the pak file the games use
          Sessions    \* what is played: its games, operations and .fla files

Erased == 1           \* 0xFF in every byte
ValuesAssumption == {0, Erased} \subseteq Values /\ Values \subseteq Nat
SizeAssumption ==
  /\ Size \in [{"eep", "sram", "flash", "mpk"} -> Nat] /\ PakWipe \in Nat
  /\ Size["sram"] < Size["flash"] /\ PakWipe < Size["mpk"]
  /\ PakBlocks \subseteq 1..Size["mpk"]

VARIABLES session,
          rom,        \* the game that runs, or NoGame
          disk,       \* game, file -> its blocks on disk
          stream,     \* file -> its blocks as the open stream has them
          buf,        \* eeprom, sram, flashram and mempack
          flash,      \* the flash RAM's registers and use_flashram
          mem,        \* two places of RDRAM that DMA goes to
          slot,       \* a savestate: the same, or NoState
          stop,
          answer,     \* the last read from a save memory
          filled      \* the game whose .sra file fills the flash buffer

vars == <<session, rom, disk, stream, buf, flash, mem, slot, stop, answer, filled>>

NoGame  == "no game"
NoState == [game |-> NoGame]
NoAnswer == <<"none", 0, 0>>
Files   == {"eep", "sra", "mpk"}
Places  == {1, 2}
GamesAssumption == NoGame \notin Games
SessionsAssumption == \A s \in Sessions :
  s.games \subseteq Games /\ s.places \subseteq Places /\ s.fla \in Seq(Values)
Closed  == [f \in Files |-> <<>>]
Zeros   == [b \in DOMAIN Size |-> [i \in 1..Size[b] |-> 0]]

-----------------------------------------------------------------------------
(* Streams: fread() into a buffer leaves the rest of it when the file is    *)
(* short; fwrite() covers the file's first blocks; fseek() brings what was  *)
(* written before to the disk.                                              *)

Filled(b, file) == [i \in DOMAIN buf[b] |-> IF i <= Len(file) THEN file[i] ELSE buf[b][i]]
\* Mutant: without the seek to the start.
OverAppended(file, blocks) == file \o blocks

Over(file, blocks) == blocks \o SubSeq(file, Len(blocks) + 1, Len(file))
Settle(f) == disk' = [disk EXCEPT ![rom][f] = stream[f]]

Load(f, b) ==
  /\ Settle(f)
  /\ buf' = [buf EXCEPT ![b] = Filled(b, stream[f])]
  /\ UNCHANGED stream

Store(f, b, i, v) ==
  LET blocks == [Filled(b, stream[f]) EXCEPT ![i] = v] IN
  /\ Settle(f)
  /\ buf' = [buf EXCEPT ![b] = blocks]
  /\ stream' = [stream EXCEPT ![f] = Over(stream[f], blocks)]

Does(op) == rom # NoGame /\ ~stop /\ op \in session.ops

EepromRead == Does("eep") /\ \E i \in 1..Size["eep"] :
  /\ Load("eep", "eep")
  /\ answer' = <<"eep", i, buf'["eep"][i]>>
  /\ UNCHANGED <<session, rom, flash, mem, slot, stop, filled>>

\* Mutant: the buffer is taken to hold the file.
EepromWriteStale == Does("eep") /\ \E i \in 1..Size["eep"], v \in Values :
  /\ Settle("eep")
  /\ buf' = [buf EXCEPT !["eep"][i] = v]
  /\ stream' = [stream EXCEPT !["eep"] = Over(stream["eep"], buf'["eep"])]
  /\ UNCHANGED <<session, rom, flash, mem, slot, stop, answer, filled>>

EepromWrite == Does("eep") /\ \E i \in 1..Size["eep"], v \in Values :
  /\ Store("eep", "eep", i, v)
  /\ UNCHANGED <<session, rom, flash, mem, slot, stop, answer, filled>>

PakRead == Does("mpk") /\ \E i \in PakBlocks :
  /\ Load("mpk", "mpk")
  /\ answer' = <<"mpk", i, buf'["mpk"][i]>>
  /\ UNCHANGED <<session, rom, flash, mem, slot, stop, filled>>

PakWrite == Does("mpk") /\ \E i \in PakBlocks, v \in Values :
  /\ Store("mpk", "mpk", i, v)
  /\ UNCHANGED <<session, rom, flash, mem, slot, stop, answer, filled>>

-----------------------------------------------------------------------------
(* SRAM and flash RAM share an address: the first DMA or command decides.   *)

SramRead == Does("sram") /\ flash.use # 1 /\ \E i \in 1..Size["sram"] :
  /\ Load("sra", "sram")
  /\ flash' = [flash EXCEPT !.use = -1]
  /\ answer' = <<"sra", i, buf'["sram"][i]>>
  /\ UNCHANGED <<session, rom, mem, slot, stop, filled>>

SramWrite == Does("sram") /\ flash.use # 1 /\ \E i \in 1..Size["sram"], v \in Values :
  /\ Store("sra", "sram", i, v)
  /\ flash' = [flash EXCEPT !.use = -1]
  /\ filled' = NoGame
  /\ UNCHANGED <<session, rom, mem, slot, stop, answer>>

\* The commands that set a register, and the one that reads the status.
FlashCommand == Does("flash") /\ flash.use # -1
  /\ \/ \E i \in 1..Size["flash"] : flash' = [flash EXCEPT !.offset = i, !.use = 1]
     \/ \E m \in {"erase", "write", "status", "read"} :
          flash' = [flash EXCEPT !.mode = m, !.use = 1]
     \/ flash' = [flash EXCEPT !.use = 1]
  /\ UNCHANGED <<session, rom, disk, stream, buf, mem, slot, stop, answer, filled>>

\* Mutant: an erase or a program changes the file alone.
FlashExecuteFile == Does("flash") /\ flash.use # -1
  /\ flash.mode \in {"erase", "write"}
  /\ Settle("sra")
  /\ buf' = [buf EXCEPT !["flash"] = Filled("flash", stream["sra"])]
  /\ stream' = [stream EXCEPT !["sra"] = Over(@, [buf'["flash"] EXCEPT ![flash.offset] =
       IF flash.mode = "erase" THEN Erased ELSE mem[flash.pointer]])]
  /\ flash' = [flash EXCEPT !.mode = "nopes", !.use = 1]
  /\ filled' = rom
  /\ UNCHANGED <<session, rom, mem, slot, stop, answer>>

FlashExecute == Does("flash") /\ flash.use # -1
  /\ \/ /\ flash.mode \in {"erase", "write"}
        /\ Store("sra", "flash", flash.offset,
                 IF flash.mode = "erase" THEN Erased ELSE mem[flash.pointer])
        /\ filled' = rom
     \/ /\ flash.mode \notin {"erase", "write"}
        /\ UNCHANGED <<disk, stream, buf, filled>>
  /\ stop' = (flash.mode = "read")
  /\ flash' = [flash EXCEPT !.mode = "nopes", !.use = 1]
  /\ UNCHANGED <<session, rom, mem, slot, answer>>

\* A DMA towards the flash RAM only notes where the page is in RDRAM.
FlashDmaIn == Does("flash") /\ flash.use = 1 /\ \E p \in session.places :
  /\ IF flash.mode = "write"
     THEN flash' = [flash EXCEPT !.pointer = p] /\ UNCHANGED stop
     ELSE stop' = TRUE /\ UNCHANGED flash
  /\ UNCHANGED <<session, rom, disk, stream, buf, mem, slot, answer, filled>>

\* A DMA from the flash RAM reads the .fla file, which nothing writes.
FlashRead(p, i) ==
  /\ flash.mode = "read"
  /\ buf' = [buf EXCEPT !["flash"] = Filled("flash", session.fla)]
  /\ mem' = [mem EXCEPT ![p] = buf'["flash"][i]]
  /\ filled' = IF session.fla = <<>> THEN filled ELSE NoGame
  /\ UNCHANGED stop

FlashDmaOut == Does("flash") /\ flash.use = 1
  /\ \/ \E p \in session.places, i \in 1..Size["flash"] : FlashRead(p, i)
     \/ /\ flash.mode = "status"
        /\ \E p \in session.places, v \in Values : mem' = [mem EXCEPT ![p] = v]
        /\ UNCHANGED <<buf, stop, filled>>
     \/ flash.mode \notin {"read", "status"} /\ stop' = TRUE /\ UNCHANGED <<buf, mem, filled>>
  /\ UNCHANGED <<session, rom, disk, stream, flash, slot, answer>>

\* The game writes to RDRAM.
CpuWrites == Does("cpu") /\ \E p \in session.places, v \in Values :
  /\ mem' = [mem EXCEPT ![p] = v]
  /\ UNCHANGED <<session, rom, disk, stream, buf, flash, slot, stop, answer, filled>>

SaveState == Does("state")
  /\ slot' = [game |-> rom, flash |-> flash, mem |-> mem]
  /\ UNCHANGED <<session, rom, disk, stream, buf, flash, mem, stop, answer, filled>>

LoadState == Does("state") /\ slot.game = rom
  /\ flash' = slot.flash /\ mem' = slot.mem
  /\ UNCHANGED <<session, rom, disk, stream, buf, slot, stop, answer, filled>>

-----------------------------------------------------------------------------
(* Games come and go, the process too; the buffers outlive the game.        *)

InitFlash(f) == [f EXCEPT !.use = 0, !.mode = "nopes"]

StartRom == rom = NoGame /\ \E g \in session.games :
  /\ rom' = g
  /\ stream' = disk[g]
  /\ flash' = InitFlash(flash)
  /\ stop' = FALSE
  /\ UNCHANGED <<session, disk, buf, mem, slot, answer, filled>>

CloseRom == rom # NoGame
  /\ disk' = [disk EXCEPT ![rom] = stream]
  /\ rom' = NoGame /\ stream' = Closed
  /\ UNCHANGED <<session, buf, flash, mem, slot, stop, answer, filled>>

\* clear_save_data(), between the close and the start of a reset.
Clear(g) ==
  /\ buf' = [Zeros EXCEPT !["flash"] = buf["flash"]]
  /\ disk' = [disk EXCEPT ![g] = [eep |-> Over(stream["eep"], buf'["eep"]),
                                  sra |-> Over(stream["sra"], buf'["sram"]),
                                  mpk |-> Over(stream["mpk"], SubSeq(buf'["mpk"], 1, PakWipe))]]

ResetRom == rom # NoGame /\ "wipe" \in session.ops
  /\ Clear(rom)
  /\ stream' = disk'[rom]
  /\ flash' = InitFlash(flash)
  /\ stop' = FALSE
  /\ filled' = NoGame
  /\ UNCHANGED <<session, rom, mem, slot, answer>>

Fresh ==
  /\ buf' = Zeros
  /\ flash' = [use |-> 0, mode |-> "nopes", offset |-> 1, pointer |-> 1]
  /\ mem' = [p \in Places |-> 0]
  /\ filled' = NoGame

\* The program ends and is started again.
Quit == rom = NoGame
  /\ Fresh
  /\ UNCHANGED <<session, rom, disk, stream, slot, stop, answer>>

\* It dies: of what is in a stream's buffer, some first blocks are on disk.
Crash == rom # NoGame /\ "crash" \in session.ops
  /\ \E n \in [Files -> 0..Max({Size[b] : b \in DOMAIN Size})] :
       /\ \A f \in Files : n[f] <= Len(stream[f]) /\ (n[f] > 0 => stream[f] # disk[rom][f])
       /\ disk' = [disk EXCEPT ![rom] = [f \in Files |->
                    Over(disk[rom][f], SubSeq(stream[f], 1, n[f]))]]
  /\ rom' = NoGame /\ stream' = Closed
  /\ Fresh
  /\ UNCHANGED <<session, slot, stop, answer>>

-----------------------------------------------------------------------------
Init ==
  /\ session \in Sessions
  /\ rom = NoGame
  /\ disk = [g \in Games |-> [f \in Files |-> <<>>]]
  /\ stream = Closed
  /\ buf = Zeros
  /\ flash = [use |-> 0, mode |-> "nopes", offset |-> 1, pointer |-> 1]
  /\ mem = [p \in Places |-> 0]
  /\ slot = NoState
  /\ stop = FALSE
  /\ answer = NoAnswer
  /\ filled = NoGame

Next ==
  \/ EepromRead \/ EepromWrite \/ PakRead \/ PakWrite
  \/ SramRead \/ SramWrite
  \/ FlashCommand \/ FlashExecute \/ FlashDmaIn \/ FlashDmaOut \/ CpuWrites
  \/ SaveState \/ LoadState
  \/ StartRom \/ CloseRom \/ ResetRom \/ Quit \/ Crash

Spec == Init /\ [][Next]_vars

-----------------------------------------------------------------------------
FileSize == [eep |-> Size["eep"], sra |-> Size["flash"], mpk |-> Size["mpk"]]
Known(file, n) == [i \in 1..n |-> IF i <= Len(file) THEN file[i] ELSE -1]

\* A file as the program has it, and on disk.
Current(g, f) == IF g = rom THEN stream[f] ELSE disk[g][f]
Kept == [g \in Games |-> [f \in Files |-> Known(Current(g, f), FileSize[f])]]
Safe == [g \in Games |-> [f \in Files |-> Known(disk[g][f], FileSize[f])]]
ClearedBlocks == [eep |-> Size["eep"], sra |-> Size["sram"], mpk |-> PakWipe]

Memory == INSTANCE SaveMemory WITH
  Size <- FileSize, Wiped <- ClearedBlocks, game <- rom, store <- Kept, safe <- Safe

\* What a game reads from EEPROM, SRAM or a pak is what it last wrote there,
\* across other games, resets, ends of the program and, but for the last
\* write, crashes; erasing or programming a flash page changes no other page.
KeepsSaves == Memory!Spec

\* As long as the flash buffer was filled from the game's own file and there
\* is no .fla file, the flash RAM reads back what was programmed and erased.
FlashReadsBack ==
  [][\A p \in Places, i \in 1..Size["flash"] :
       rom # NoGame /\ filled = rom /\ session.fla = <<>> /\ FlashDmaOut /\ FlashRead(p, i)
         => mem'[p] = stream["sra"][i]]_vars

\* Every file is as long as one of the memories it holds, or empty; files and
\* flash registers of a game outlive a savestate, never another program.
TypeOK ==
  /\ rom \in session.games \cup {NoGame}
  /\ flash \in [use : -1..1, mode : {"nopes", "erase", "write", "status", "read"},
                offset : 1..Size["flash"], pointer : Places]
  /\ \A f \in Files : Len(stream[f]) \in 0..FileSize[f] /\ \A i \in DOMAIN stream[f] : stream[f][i] \in Values
  /\ stop /\ rom # NoGame => flash.use = 1
=============================================================================
