--------------------------- MODULE StorageProofs ---------------------------
(***************************************************************************)
(* For any games, sizes of memories and contents of blocks: save memory     *)
(* keeps what games write to it (Storage refines SaveMemory), and the flash *)
(* RAM reads back what was programmed.                                     *)
EXTENDS Storage, SequenceTheorems, TLAPS

-----------------------------------------------------------------------------
(* The inductive invariant.                                                *)

Memories == {"eep", "sram", "flash", "mpk"}
FlashState == [use : -1..1, mode : {"nopes", "erase", "write", "status", "read"},
               offset : 1..Size["flash"], pointer : Places]

\* A file's blocks: no more than its memory has.
FileOK(f, file) == file \in Seq(Values) /\ Len(file) <= FileSize[f]
SetOK(files)    == files \in [Files -> Seq(Values)] /\ \A f \in Files : FileOK(f, files[f])

DiskOK  == disk \in [Games -> [Files -> Seq(Values)]] /\ \A g \in Games : SetOK(disk[g])
BufOK   == DOMAIN buf = Memories /\ \A b \in Memories : buf[b] \in [1..Size[b] -> Values]
SlotOK  == slot.game # NoGame => slot.flash \in FlashState /\ slot.mem \in [Places -> Values]

StateOK ==
  /\ session \in Sessions
  /\ rom \in session.games \cup {NoGame}
  /\ DiskOK /\ SetOK(stream) /\ BufOK /\ SlotOK
  /\ flash \in FlashState
  /\ mem \in [Places -> Values]
  /\ stop \in BOOLEAN
  /\ filled \in Games \cup {NoGame}

\* What stops the program is a DMA to or from the flash RAM, or a command to it.
StopOK == stop /\ rom # NoGame => flash.use = 1

\* The flash buffer holds the file of the game that it was filled for, its
\* stream's blocks while that game runs.
FillOK == filled # NoGame =>
  /\ Len(Current(filled, "sra")) = Size["flash"]
  /\ \A i \in 1..Size["flash"] : buf["flash"][i] = Current(filled, "sra")[i]

IInv == StateOK /\ StopOK /\ FillOK

Constants == ValuesAssumption /\ SizeAssumption /\ GamesAssumption /\ SessionsAssumption

-----------------------------------------------------------------------------
(* Files and blocks.                                                       *)

LEMMA Sizes ==
  ASSUME Constants
  PROVE  /\ \A b \in Memories : Size[b] \in Nat
         /\ DOMAIN Size = Memories /\ DOMAIN FileSize = Files
         /\ Files = {"eep", "sra", "mpk"}
         /\ FileSize["eep"] = Size["eep"] /\ FileSize["sra"] = Size["flash"] /\ FileSize["mpk"] = Size["mpk"]
         /\ \A f \in Files : FileSize[f] \in Nat
         /\ Size["sram"] < Size["flash"] /\ PakWipe \in Nat /\ PakWipe < Size["mpk"]
BY DEF Constants, SizeAssumption, Memories, FileSize, Files

\* A buffer is a sequence.
LEMMA Buffer ==
  ASSUME NEW V, NEW n \in Nat, NEW blocks \in [1..n -> V]
  PROVE  blocks \in Seq(V) /\ Len(blocks) = n
<1>1. blocks \in Seq(V)
  BY SeqDef
<1>2. DOMAIN blocks = 1..Len(blocks) /\ Len(blocks) \in Nat
  BY <1>1, LenProperties
<1>3. 1..Len(blocks) = 1..n
  BY <1>2
<1>4. Len(blocks) = n
  BY <1>2, <1>3
<1> QED
  BY <1>1, <1>4

\* The blocks replace the first ones of the file.
LEMMA OverFacts ==
  ASSUME NEW V, NEW file \in Seq(V), NEW blocks \in Seq(V)
  PROVE  LET new == Over(file, blocks) IN
         /\ new \in Seq(V) /\ Len(new) \in Nat
         /\ Len(blocks) >= Len(file) => Len(new) = Len(blocks)
         /\ Len(blocks) < Len(file) => Len(new) = Len(file)
         /\ \A j \in 1..Len(blocks) : new[j] = blocks[j]
         /\ \A j \in 1..Len(file) : j > Len(blocks) => new[j] = file[j]
<1> DEFINE n == Len(blocks)
           rest == SubSeq(file, n + 1, Len(file))
<1>1. n \in Nat /\ Len(file) \in Nat
  BY LenProperties
<1>2. \A i \in (n + 1)..Len(file) : file[i] \in V
  BY <1>1, ElementOfSeq
<1>3. /\ rest \in Seq(V)
      /\ Len(rest) = IF n + 1 <= Len(file) THEN Len(file) - (n + 1) + 1 ELSE 0
      /\ \A i \in 1..(Len(file) - (n + 1) + 1) : rest[i] = file[(n + 1) + i - 1]
  BY <1>1, <1>2, SubSeqProperties
<1> HIDE DEF rest
<1>4. /\ blocks \o rest \in Seq(V)
      /\ Len(blocks \o rest) = n + Len(rest)
      /\ \A i \in 1..(n + Len(rest)) : (blocks \o rest)[i] = IF i <= n THEN blocks[i] ELSE rest[i - n]
  BY <1>3, ConcatProperties
<1>5. Over(file, blocks) = blocks \o rest
  BY DEF Over, rest
<1>6. Len(rest) \in Nat
  BY <1>1, <1>3
<1>7. \A j \in 1..n : (blocks \o rest)[j] = blocks[j]
  BY <1>1, <1>4, <1>6
<1>8. ASSUME NEW j \in 1..Len(file), j > n
      PROVE  (blocks \o rest)[j] = file[j]
  <2>1. j - n \in 1..(Len(file) - (n + 1) + 1) /\ j \in 1..(n + Len(rest))
    BY <1>1, <1>3, <1>8
  <2>2. rest[j - n] = file[j]
    BY <1>1, <1>3, <1>8, <2>1
  <2> QED
    BY <1>1, <1>4, <1>8, <2>1, <2>2
<1> QED
  BY <1>1, <1>3, <1>4, <1>5, <1>6, <1>7, <1>8

\* A short file fills the first blocks of a buffer.
LEMMA FilledFacts ==
  ASSUME Constants, BufOK, NEW b \in Memories, NEW file \in Seq(Values)
  PROVE  /\ Filled(b, file) \in [1..Size[b] -> Values]
         /\ \A j \in 1..Size[b] :
              /\ j <= Len(file) => Filled(b, file)[j] = file[j]
              /\ j > Len(file) => Filled(b, file)[j] = buf[b][j]
<1>1. buf[b] \in [1..Size[b] -> Values] /\ Size[b] \in Nat /\ Len(file) \in Nat
  BY Sizes, LenProperties DEF BufOK
<1>2. DOMAIN buf[b] = 1..Size[b]
  BY <1>1
<1>3. \A j \in 1..Size[b] : j <= Len(file) => file[j] \in Values
  BY <1>1, ElementOfSeq
<1> QED
  BY <1>1, <1>2, <1>3 DEF Filled

-----------------------------------------------------------------------------
(* A file brought to the disk, a block written, a block read.              *)

LEMMA Running ==
  ASSUME Constants, StateOK
  PROVE  rom \in Games \cup {NoGame} /\ (rom # NoGame => rom \in Games) /\ NoGame \notin Games
BY DEF Constants, GamesAssumption, SessionsAssumption, StateOK

\* Settling a file changes that of the running game only, to what the stream has.
LEMMA SettleFacts ==
  ASSUME Constants, StateOK, rom # NoGame, NEW f \in Files, Settle(f)
  PROVE  /\ disk' \in [Games -> [Files -> Seq(Values)]]
         /\ \A g \in Games, h \in Files :
              /\ g = rom /\ h = f => disk'[g][h] = stream[f]
              /\ g # rom \/ h # f => disk'[g][h] = disk[g][h]
         /\ DiskOK'
<1>1. rom \in Games
  BY Running
<1>2. /\ disk \in [Games -> [Files -> Seq(Values)]]
      /\ stream \in [Files -> Seq(Values)]
      /\ \A g \in Games, h \in Files : Len(disk[g][h]) <= FileSize[h]
      /\ \A h \in Files : Len(stream[h]) <= FileSize[h]
  BY DEF StateOK, DiskOK, SetOK, FileOK
<1> DEFINE S == Seq(Values)
<1> HIDE DEF S
<1>3. disk \in [Games -> [Files -> S]] /\ stream \in [Files -> S]
  BY <1>2 DEF S
<1>4. disk' = [disk EXCEPT ![rom] = [disk[rom] EXCEPT ![f] = stream[f]]]
  BY <1>1, <1>3 DEF Settle
<1>5. disk' \in [Games -> [Files -> S]]
  BY <1>1, <1>3, <1>4
<1>6. \A g \in Games, h \in Files :
        /\ g = rom /\ h = f => disk'[g][h] = stream[f]
        /\ g # rom \/ h # f => disk'[g][h] = disk[g][h]
  BY <1>1, <1>3, <1>4
<1>7. \A g \in Games, h \in Files : disk'[g][h] \in S /\ Len(disk'[g][h]) <= FileSize[h]
  BY <1>1, <1>2, <1>5, <1>6
<1> QED
  BY <1>5, <1>6, <1>7 DEF S, DiskOK, SetOK, FileOK

LEMMA LoadFacts ==
  ASSUME Constants, StateOK, rom # NoGame, NEW f \in Files, NEW b \in Memories, Load(f, b)
  PROVE  /\ Settle(f) /\ DiskOK' /\ SetOK(stream)' /\ BufOK' /\ stream' = stream
         /\ buf'[b] = Filled(b, stream[f])
         /\ \A c \in Memories : c # b => buf'[c] = buf[c]
<1>1. Settle(f) /\ stream' = stream /\ buf' = [buf EXCEPT ![b] = Filled(b, stream[f])]
  BY DEF Load
<1>2. stream[f] \in Seq(Values) /\ BufOK /\ SetOK(stream)
  BY DEF StateOK, SetOK, FileOK
<1>3. Filled(b, stream[f]) \in [1..Size[b] -> Values]
  BY <1>2, FilledFacts
<1>4. buf'[b] = Filled(b, stream[f]) /\ \A c \in Memories : c # b => buf'[c] = buf[c]
  BY <1>1, <1>2 DEF BufOK
<1>5. BufOK'
  BY <1>1, <1>2, <1>3, <1>4 DEF BufOK
<1>6. SetOK(stream)'
  BY <1>1, <1>2 DEF SetOK, FileOK
<1> QED
  BY <1>1, <1>4, <1>5, <1>6, SettleFacts

LEMMA StoreFacts ==
  ASSUME Constants, StateOK, rom # NoGame, NEW f \in Files, NEW b \in Memories,
         Size[b] <= FileSize[f], NEW i \in 1..Size[b], NEW v \in Values, Store(f, b, i, v)
  PROVE  /\ Settle(f) /\ DiskOK' /\ SetOK(stream)' /\ BufOK'
         /\ \A c \in Memories : c # b => buf'[c] = buf[c]
         /\ \A h \in Files : h # f => stream'[h] = stream[h]
         /\ Len(stream'[f]) >= Size[b] /\ Len(stream'[f]) >= Len(stream[f])
         /\ \A j \in 1..Size[b] : stream'[f][j] = buf'[b][j]
         /\ \A j \in 1..Len(stream[f]) : j # i => stream'[f][j] = stream[f][j]
         /\ stream'[f][i] = v
<1> DEFINE full   == Filled(b, stream[f])
           blocks == [full EXCEPT ![i] = v]
<1>1. /\ Settle(f)
      /\ buf' = [buf EXCEPT ![b] = blocks]
      /\ stream' = [stream EXCEPT ![f] = Over(stream[f], blocks)]
  BY DEF Store
<1>2. /\ stream[f] \in Seq(Values) /\ Len(stream[f]) <= FileSize[f]
      /\ BufOK /\ SetOK(stream) /\ stream \in [Files -> Seq(Values)]
  BY DEF StateOK, SetOK, FileOK
<1>3. /\ full \in [1..Size[b] -> Values]
      /\ \A j \in 1..Size[b] : j <= Len(stream[f]) => full[j] = stream[f][j]
  BY <1>2, FilledFacts
<1>4. /\ blocks \in [1..Size[b] -> Values] /\ blocks[i] = v
      /\ \A j \in 1..Size[b] : j # i => blocks[j] = full[j]
  <2> HIDE DEF full
  <2> QED
    BY <1>3
<1> HIDE DEF blocks, full
<1>5. Size[b] \in Nat /\ FileSize[f] \in Nat /\ Len(stream[f]) \in Nat
  BY <1>2, Sizes, LenProperties
<1>6. blocks \in Seq(Values) /\ Len(blocks) = Size[b]
  BY <1>4, <1>5, Buffer
<1> DEFINE new == Over(stream[f], blocks)
<1>7. /\ new \in Seq(Values) /\ Len(new) \in Nat
      /\ Size[b] >= Len(stream[f]) => Len(new) = Size[b]
      /\ Size[b] < Len(stream[f]) => Len(new) = Len(stream[f])
      /\ \A j \in 1..Size[b] : new[j] = blocks[j]
      /\ \A j \in 1..Len(stream[f]) : j > Size[b] => new[j] = stream[f][j]
  BY <1>2, <1>6, OverFacts
<1> HIDE DEF new
<1> DEFINE S == Seq(Values)
<1> HIDE DEF S
<1>8. stream' = [stream EXCEPT ![f] = new] /\ stream \in [Files -> S] /\ new \in S
  BY <1>1, <1>2, <1>7 DEF new, S
<1>9. /\ stream' \in [Files -> S] /\ stream'[f] = new
      /\ \A h \in Files : h # f => stream'[h] = stream[h]
  BY <1>8
<1>10. Len(new) <= FileSize[f] /\ Len(new) >= Size[b] /\ Len(new) >= Len(stream[f])
  BY <1>2, <1>5, <1>7
<1>11. SetOK(stream)'
  <2>1. \A h \in Files : stream'[h] \in S /\ Len(stream'[h]) <= FileSize[h]
    BY <1>2, <1>8, <1>9, <1>10 DEF SetOK, FileOK
  <2> QED
    BY <1>9, <2>1 DEF S, SetOK, FileOK
<1>12. buf'[b] = blocks /\ \A c \in Memories : c # b => buf'[c] = buf[c]
  BY <1>1, <1>2 DEF BufOK
<1>13. BufOK'
  BY <1>1, <1>2, <1>4, <1>12 DEF BufOK
<1>14. ASSUME NEW j \in 1..Len(stream[f]), j # i
       PROVE  new[j] = stream[f][j]
  <2>1. CASE j > Size[b]
    BY <1>7, <2>1
  <2>2. CASE j <= Size[b]
    <3>1. j \in 1..Size[b]
      BY <1>5, <2>2
    <3>2. new[j] = blocks[j] /\ blocks[j] = full[j]
      BY <1>4, <1>7, <1>14, <3>1
    <3>3. full[j] = stream[f][j]
      BY <1>3, <3>1, <1>5
    <3> QED
      BY <3>2, <3>3
  <2> QED
    BY <1>5, <2>1, <2>2
<1>15. new[i] = v
  BY <1>4, <1>7
<1> QED
  BY <1>1, <1>7, <1>9, <1>10, <1>11, <1>12, <1>13, <1>14, <1>15, SettleFacts

-----------------------------------------------------------------------------
(* What SaveMemory sees.                                                   *)

LEMMA KnownAt ==
  ASSUME NEW file, NEW n, NEW j \in 1..n
  PROVE  /\ j <= Len(file) => Known(file, n)[j] = file[j]
         /\ ~(j <= Len(file)) => Known(file, n)[j] = -1
BY DEF Known

\* A settled file is as safe as it is kept.
LEMMA SafeSettled ==
  ASSUME Constants, StateOK, rom # NoGame, NEW f \in Files, Settle(f)
  PROVE  Safe' = [Safe EXCEPT ![rom][f] = Kept[rom][f]]
<1>1. rom \in Games
  BY Running
<1> DEFINE K(file, h) == Known(file, FileSize[h])
<1> HIDE DEF K
<1>2. Safe = [g \in Games |-> [h \in Files |-> K(disk[g][h], h)]]
      /\ Safe' = [g \in Games |-> [h \in Files |-> K(disk'[g][h], h)]]
  BY DEF Safe, K
<1>3. Kept[rom][f] = K(stream[f], f)
  BY <1>1 DEF Kept, Current, K
<1>4. \A g \in Games, h \in Files :
        /\ g = rom /\ h = f => disk'[g][h] = stream[f]
        /\ g # rom \/ h # f => disk'[g][h] = disk[g][h]
  BY SettleFacts
<1>5. [Safe EXCEPT ![rom][f] = Kept[rom][f]] =
        [g \in Games |-> [h \in Files |-> IF g = rom /\ h = f THEN K(stream[f], f) ELSE K(disk[g][h], h)]]
  BY <1>1, <1>2, <1>3
<1>6. \A g \in Games, h \in Files :
        K(disk'[g][h], h) = IF g = rom /\ h = f THEN K(stream[f], f) ELSE K(disk[g][h], h)
  BY <1>4
<1> QED
  BY <1>2, <1>5, <1>6

\* A write to one file changes what is kept of that file only.
LEMMA KeptWritten ==
  ASSUME Constants, StateOK, rom # NoGame, NEW f \in Files, rom' = rom,
         \A h \in Files : h # f => stream'[h] = stream[h],
         \A g \in Games, h \in Files : g # rom => disk'[g][h] = disk[g][h]
  PROVE  Kept' = [Kept EXCEPT ![rom][f] = Kept'[rom][f]]
<1>1. rom \in Games
  BY Running
<1> DEFINE K(file, h) == Known(file, FileSize[h])
<1> HIDE DEF K
<1>2. Kept = [g \in Games |-> [h \in Files |-> K(Current(g, h), h)]]
      /\ Kept' = [g \in Games |-> [h \in Files |-> K(Current(g, h)', h)]]
  BY DEF Kept, K
<1>3. \A g \in Games, h \in Files : g # rom \/ h # f => Current(g, h)' = Current(g, h)
  BY DEF Current
<1>4. Kept'[rom][f] = K(Current(rom, f)', f)
  BY <1>1 DEF Kept, K, Current
<1> DEFINE new == Kept'[rom][f]
<1> HIDE DEF new
<1>5. [Kept EXCEPT ![rom][f] = new] =
        [g \in Games |-> [h \in Files |-> IF g = rom /\ h = f THEN new ELSE K(Current(g, h), h)]]
  BY <1>1, <1>2
<1>6. \A g \in Games, h \in Files :
        K(Current(g, h)', h) = IF g = rom /\ h = f THEN new ELSE K(Current(g, h), h)
  BY <1>3, <1>4 DEF new
<1>7. Kept' = [Kept EXCEPT ![rom][f] = new]
  BY <1>2, <1>5, <1>6
<1> QED
  BY <1>7 DEF new

\* A block that is stored is a write to save memory, ...
LEMMA StoreWrites ==
  ASSUME Constants, StateOK, rom # NoGame, NEW f \in Files, NEW b \in Memories,
         Size[b] <= FileSize[f], NEW i \in 1..Size[b], NEW v \in Values, Store(f, b, i, v),
         rom' = rom, answer' = answer
  PROVE  Memory!Next
<1>1. rom \in Games
  BY Running
<1>2. /\ Settle(f)
      /\ \A h \in Files : h # f => stream'[h] = stream[h]
      /\ Len(stream'[f]) >= Size[b] /\ Len(stream'[f]) >= Len(stream[f])
      /\ \A j \in 1..Len(stream[f]) : j # i => stream'[f][j] = stream[f][j]
      /\ stream'[f][i] = v /\ SetOK(stream)'
  BY StoreFacts
<1>3. /\ Size[b] \in Nat /\ FileSize[f] \in Nat
      /\ Len(stream[f]) \in Nat /\ Len(stream'[f]) \in Nat
  BY <1>2, Sizes, LenProperties DEF StateOK, SetOK, FileOK
<1>4. \A g \in Games, h \in Files : g # rom => disk'[g][h] = disk[g][h]
  BY <1>2, SettleFacts
<1>5. Safe' = [Safe EXCEPT ![rom][f] = Kept[rom][f]]
  BY <1>2, SafeSettled
<1>6. Kept' = [Kept EXCEPT ![rom][f] = Kept'[rom][f]]
  BY <1>2, <1>4, KeptWritten
<1>7. Kept[rom][f] = Known(stream[f], FileSize[f]) /\ Kept'[rom][f] = Known(stream'[f], FileSize[f])
  BY <1>1 DEF Kept, Current
<1>8. i \in 1..FileSize[f] /\ v # -1
  BY <1>3 DEF Constants, ValuesAssumption
<1>9. Kept'[rom][f][i] # -1
  BY <1>2, <1>3, <1>7, <1>8, KnownAt
<1>10. ASSUME NEW j \in 1..FileSize[f] \ {i}, Kept'[rom][f][j] # Kept[rom][f][j]
       PROVE  Kept[rom][f][j] = -1
  BY <1>2, <1>3, <1>7, <1>10, KnownAt
<1>11. Memory!Write
  BY <1>5, <1>6, <1>8, <1>9, <1>10, Sizes DEF Memory!Write, Memory!Settled, Memory!Unknown
<1> QED
  BY <1>11 DEF Memory!Next, Memory!NoGame, NoGame

\* ... a block that is loaded is a read.
LEMMA LoadReads ==
  ASSUME Constants, StateOK, rom # NoGame, NEW f \in Files, NEW b \in Memories,
         Size[b] <= FileSize[f], NEW i \in 1..Size[b], Load(f, b),
         rom' = rom, answer' = <<f, i, buf'[b][i]>>
  PROVE  Memory!Next
<1>1. rom \in Games
  BY Running
<1>2. Settle(f) /\ stream' = stream /\ buf'[b] = Filled(b, stream[f])
  BY LoadFacts
<1>3. /\ Size[b] \in Nat /\ FileSize[f] \in Nat
      /\ stream[f] \in Seq(Values) /\ Len(stream[f]) \in Nat /\ BufOK
  BY Sizes, LenProperties DEF StateOK, SetOK, FileOK
<1>4. i \in 1..FileSize[f] /\ f \in DOMAIN FileSize
  BY <1>3, Sizes
<1>5. Safe' = [Safe EXCEPT ![rom][f] = Kept[rom][f]]
  BY <1>2, SafeSettled
<1>6. Kept' = Kept
  <2>1. \A g \in Games, h \in Files : Current(g, h)' = Current(g, h)
    BY <1>2, SettleFacts DEF Current
  <2> QED
    BY <2>1 DEF Kept
<1>7. Kept[rom][f] = Known(stream[f], FileSize[f])
  BY <1>1 DEF Kept, Current
<1>8. buf'[b][i] # Kept[rom][f][i] => Kept[rom][f][i] = -1
  <2>1. i <= Len(stream[f]) => buf'[b][i] = stream[f][i]
    BY <1>2, <1>3, FilledFacts
  <2> QED
    BY <1>3, <1>4, <1>7, <2>1, KnownAt
<1>9. answer'[1] = f /\ answer'[2] = i /\ answer'[3] = buf'[b][i]
  OBVIOUS
<1>10. Memory!Read
  BY <1>4, <1>5, <1>6, <1>8, <1>9 DEF Memory!Read, Memory!Settled, Memory!Unknown
<1> QED
  BY <1>10 DEF Memory!Next, Memory!NoGame, NoGame

-----------------------------------------------------------------------------
(* Every action keeps the invariant, and is a step of SaveMemory or none.  *)

MemoryStep == Memory!Next \/ UNCHANGED Memory!vars

\* Nothing that SaveMemory sees changes.
LEMMA Stutters ==
  ASSUME UNCHANGED <<rom, disk, stream, answer>>
  PROVE  MemoryStep
<1>1. \A g, f : Current(g, f)' = Current(g, f)
  BY DEF Current
<1>2. Kept' = Kept /\ Safe' = Safe
  BY <1>1 DEF Kept, Safe
<1> QED
  BY <1>2 DEF MemoryStep, Memory!vars

LEMMA FillSame ==
  ASSUME FillOK, filled' = filled \/ filled' = NoGame,
         buf'["flash"] = buf["flash"],
         filled # NoGame => Current(filled, "sra")' = Current(filled, "sra")
  PROVE  FillOK'
BY DEF FillOK, Current

LEMMA ReadStep ==
  ASSUME Constants, IInv, EepromRead \/ PakRead \/ SramRead
  PROVE  IInv' /\ MemoryStep
<1>1. PICK f \in Files, b \in {"eep", "sram", "mpk"} :
        /\ Load(f, b) /\ Size[b] <= FileSize[f]
        /\ \E i \in 1..Size[b] : answer' = <<f, i, buf'[b][i]>>
        /\ flash' = flash \/ (flash.use # 1 /\ flash' = [flash EXCEPT !.use = -1])
        /\ ~stop /\ rom # NoGame
        /\ UNCHANGED <<session, rom, mem, slot, stop, filled>>
  <2>1. Constants /\ PakBlocks \subseteq 1..Size["mpk"]
    BY DEF Constants, SizeAssumption
  <2>2. CASE EepromRead
    BY <2>1, <2>2, Sizes DEF EepromRead, Does
  <2>3. CASE PakRead
    BY <2>1, <2>3, Sizes DEF PakRead, Does
  <2>4. CASE SramRead
    <3>1. /\ Load("sra", "sram")
          /\ \E i \in 1..Size["sram"] : answer' = <<"sra", i, buf'["sram"][i]>>
          /\ flash.use # 1 /\ flash' = [flash EXCEPT !.use = -1]
          /\ ~stop /\ rom # NoGame
          /\ UNCHANGED <<session, rom, mem, slot, stop, filled>>
      BY <2>4 DEF SramRead, Does
    <3>2. Size["sram"] <= FileSize["sra"] /\ "sra" \in Files
      BY <2>1, Sizes DEF Memories
    <3> QED
      BY <3>1, <3>2
  <2> QED
    BY <2>2, <2>3, <2>4
<1>2. StateOK /\ StopOK /\ FillOK
  BY DEF IInv
<1>3. b \in Memories /\ b # "flash" /\ "flash" \in Memories
  BY DEF Memories
<1>4. /\ DiskOK' /\ SetOK(stream)' /\ BufOK' /\ stream' = stream /\ Settle(f)
      /\ buf'["flash"] = buf["flash"]
  BY <1>1, <1>2, <1>3, LoadFacts
<1>5. flash' \in FlashState
  BY <1>1, <1>2 DEF StateOK, FlashState
<1>6. StateOK'
  BY <1>1, <1>2, <1>4, <1>5 DEF StateOK, SlotOK, FlashState
<1>7. StopOK'
  BY <1>1 DEF StopOK
<1>8. \A g \in Games, h \in Files : Current(g, h)' = Current(g, h)
  BY <1>1, <1>2, <1>4, SettleFacts DEF Current
<1>9. FillOK'
  BY <1>1, <1>2, <1>4, <1>8, FillSame DEF StateOK, Files
<1>10. Memory!Next
  BY <1>1, <1>2, <1>3, LoadReads
<1> QED
  BY <1>6, <1>7, <1>9, <1>10 DEF IInv, MemoryStep

LEMMA WriteStep ==
  ASSUME Constants, IInv, EepromWrite \/ PakWrite \/ SramWrite
  PROVE  IInv' /\ MemoryStep
<1>1. PICK f \in Files, b \in {"eep", "sram", "mpk"} :
        /\ \E i \in 1..Size[b], v \in Values : Store(f, b, i, v)
        /\ Size[b] <= FileSize[f]
        /\ (f # "sra" /\ filled' = filled) \/ filled' = NoGame
        /\ flash' = flash \/ (flash.use # 1 /\ flash' = [flash EXCEPT !.use = -1])
        /\ ~stop /\ rom # NoGame
        /\ UNCHANGED <<session, rom, mem, slot, stop, answer>>
  <2>1. Constants /\ PakBlocks \subseteq 1..Size["mpk"]
    BY DEF Constants, SizeAssumption
  <2>2. CASE EepromWrite
    BY <2>1, <2>2, Sizes DEF EepromWrite, Does
  <2>3. CASE PakWrite
    BY <2>1, <2>3, Sizes DEF PakWrite, Does
  <2>4. CASE SramWrite
    <3>1. /\ \E i \in 1..Size["sram"], v \in Values : Store("sra", "sram", i, v)
          /\ flash.use # 1 /\ flash' = [flash EXCEPT !.use = -1]
          /\ ~stop /\ rom # NoGame /\ filled' = NoGame
          /\ UNCHANGED <<session, rom, mem, slot, stop, answer>>
      BY <2>4 DEF SramWrite, Does
    <3>2. Size["sram"] <= FileSize["sra"] /\ "sra" \in Files
      BY <2>1, Sizes DEF Memories
    <3> QED
      BY <3>1, <3>2
  <2> QED
    BY <2>2, <2>3, <2>4
<1>2. StateOK /\ StopOK /\ FillOK
  BY DEF IInv
<1>3. b \in Memories /\ b # "flash" /\ "flash" \in Memories
  BY DEF Memories
<1>4. PICK i \in 1..Size[b], v \in Values : Store(f, b, i, v)
  BY <1>1
<1>5. /\ DiskOK' /\ SetOK(stream)' /\ BufOK' /\ Settle(f)
      /\ \A h \in Files : h # f => stream'[h] = stream[h]
      /\ buf'["flash"] = buf["flash"]
  BY <1>1, <1>2, <1>3, <1>4, StoreFacts
<1>6. flash' \in FlashState
  BY <1>1, <1>2 DEF StateOK, FlashState
<1>7. StateOK'
  BY <1>1, <1>2, <1>5, <1>6 DEF StateOK, SlotOK, FlashState
<1>8. StopOK'
  BY <1>1 DEF StopOK
<1>9. FillOK'
  <2>1. CASE filled' = NoGame
    BY <2>1 DEF FillOK
  <2>2. CASE filled' # NoGame
    <3>1. f # "sra" /\ filled' = filled /\ filled \in Games
      BY <1>1, <1>2, <2>2 DEF StateOK
    <3>2. Current(filled, "sra")' = Current(filled, "sra")
      BY <1>1, <1>2, <1>5, <3>1, SettleFacts DEF Current, Files
    <3> QED
      BY <1>2, <1>5, <3>1, <3>2, FillSame
  <2> QED
    BY <2>1, <2>2
<1>10. Memory!Next
  BY <1>1, <1>2, <1>3, <1>4, StoreWrites
<1> QED
  BY <1>7, <1>8, <1>9, <1>10 DEF IInv, MemoryStep

\* The flash registers are set one or two at a time.
LEMMA FlashUpdates ==
  ASSUME NEW u \in {-1, 0, 1}, NEW m \in {"nopes", "erase", "write", "status", "read"},
         NEW i \in 1..Size["flash"], flash \in FlashState
  PROVE  LET a == [flash EXCEPT !.use = u]
             b == [flash EXCEPT !.mode = m, !.use = u]
             c == [flash EXCEPT !.offset = i, !.use = u]
             d == [flash EXCEPT !.use = u, !.mode = m]
         IN  /\ a \in FlashState /\ b \in FlashState /\ c \in FlashState /\ d \in FlashState
             /\ a.use = u /\ b.use = u /\ c.use = u /\ d.use = u
<1>1. u \in -1..1
  OBVIOUS
<1>2. [flash EXCEPT !.use = u] \in FlashState /\ [flash EXCEPT !.use = u].use = u
  BY <1>1 DEF FlashState
<1>3. /\ [flash EXCEPT !.mode = m, !.use = u] \in FlashState
      /\ [flash EXCEPT !.mode = m, !.use = u].use = u
  BY <1>1 DEF FlashState
<1>4. /\ [flash EXCEPT !.offset = i, !.use = u] \in FlashState
      /\ [flash EXCEPT !.offset = i, !.use = u].use = u
  BY <1>1 DEF FlashState
<1>5. /\ [flash EXCEPT !.use = u, !.mode = m] \in FlashState
      /\ [flash EXCEPT !.use = u, !.mode = m].use = u
  BY <1>1 DEF FlashState
<1> QED
  BY <1>2, <1>3, <1>4, <1>5

LEMMA FlashExecuteStep ==
  ASSUME Constants, IInv, FlashExecute
  PROVE  IInv' /\ MemoryStep
<1>1. /\ flash.use # -1 /\ ~stop /\ rom # NoGame
      /\ flash' = [flash EXCEPT !.mode = "nopes", !.use = 1]
      /\ UNCHANGED <<session, rom, mem, slot, answer>>
      /\ stop' \in BOOLEAN
  BY DEF FlashExecute, Does
<1>2. StateOK /\ StopOK /\ FillOK
  BY DEF IInv
<1>3. flash \in FlashState /\ flash' \in FlashState /\ flash'.use = 1
  <2>1. flash \in FlashState
    BY <1>2 DEF StateOK
  <2>2. flash.offset \in 1..Size["flash"]
    BY <2>1 DEF FlashState
  <2> QED
    BY <1>1, <2>1, <2>2, FlashUpdates
<1>4. StopOK'
  BY <1>3 DEF StopOK
<1>5. CASE flash.mode \notin {"erase", "write"}
  <2>1. UNCHANGED <<disk, stream, buf, filled>>
    BY <1>5 DEF FlashExecute
  <2>2. StateOK' /\ FillOK'
    BY <1>1, <1>2, <1>3, <2>1 DEF StateOK, DiskOK, SetOK, FileOK, BufOK, SlotOK, FlashState,
                                  FillOK, Current
  <2> QED
    BY <1>1, <1>4, <2>1, <2>2, Stutters DEF IInv
<1>6. CASE flash.mode \in {"erase", "write"}
  <2> DEFINE v == IF flash.mode = "erase" THEN Erased ELSE mem[flash.pointer]
             i == flash.offset
  <2>1. Store("sra", "flash", i, v) /\ filled' = rom
    BY <1>6 DEF FlashExecute
  <2>2. v \in Values /\ i \in 1..Size["flash"]
    BY <1>2, <1>3 DEF Constants, ValuesAssumption, StateOK, FlashState
  <2>3. /\ "sra" \in Files /\ "flash" \in Memories
        /\ Size["flash"] = FileSize["sra"] /\ Size["flash"] \in Nat
    BY Sizes DEF Memories
  <2> HIDE DEF v, i
  <2>4. /\ DiskOK' /\ SetOK(stream)' /\ BufOK'
        /\ Len(stream'["sra"]) >= Size["flash"]
        /\ \A j \in 1..Size["flash"] : stream'["sra"][j] = buf'["flash"][j]
    BY <1>1, <1>2, <2>1, <2>2, <2>3, StoreFacts
  <2>5. rom \in Games
    BY <1>1, <1>2, Running
  <2>6. StateOK'
    BY <1>1, <1>2, <1>3, <2>1, <2>4, <2>5 DEF StateOK, SlotOK, FlashState
  <2>7. FillOK'
    <3>1. Len(stream'["sra"]) \in Nat /\ Len(stream'["sra"]) <= Size["flash"]
      BY <2>3, <2>4, LenProperties DEF SetOK, FileOK
    <3>2. Len(stream'["sra"]) = Size["flash"]
      BY <2>3, <2>4, <3>1
    <3> QED
      BY <1>1, <2>1, <2>4, <3>2 DEF FillOK, Current
  <2>8. Memory!Next
    BY <1>1, <1>2, <2>1, <2>2, <2>3, StoreWrites
  <2> QED
    BY <1>4, <2>6, <2>7, <2>8 DEF IInv, MemoryStep
<1> QED
  BY <1>5, <1>6

\* Steps that leave the files and the flash buffer alone.
LEMMA QuietStep ==
  ASSUME Constants, IInv,
         FlashCommand \/ FlashDmaIn \/ CpuWrites \/ SaveState \/ LoadState \/ UNCHANGED vars
  PROVE  IInv' /\ MemoryStep
<1>1. StateOK /\ StopOK /\ FillOK
  BY DEF IInv
<1>2. UNCHANGED <<session, rom, disk, stream, buf, answer, filled>>
  BY DEF FlashCommand, FlashDmaIn, CpuWrites, SaveState, LoadState, vars
<1>3. MemoryStep
  BY <1>2, Stutters
<1>4. FillOK' /\ DiskOK' /\ SetOK(stream)' /\ BufOK'
  BY <1>1, <1>2 DEF FillOK, Current, StateOK, DiskOK, SetOK, FileOK, BufOK
<1>5. flash \in FlashState /\ mem \in [Places -> Values] /\ SlotOK /\ session.places \subseteq Places
  BY <1>1 DEF StateOK, Constants, SessionsAssumption
<1>6. flash' \in FlashState /\ mem' \in [Places -> Values] /\ SlotOK' /\ stop' \in BOOLEAN /\ StopOK'
  <2>1. CASE FlashCommand
    <3>1. \/ \E i \in 1..Size["flash"] : flash' = [flash EXCEPT !.offset = i, !.use = 1]
          \/ \E m \in {"erase", "write", "status", "read"} :
               flash' = [flash EXCEPT !.mode = m, !.use = 1]
          \/ flash' = [flash EXCEPT !.use = 1]
      BY <2>1 DEF FlashCommand
    <3>2. flash' \in FlashState /\ flash'.use = 1
      <4>1. flash.offset \in 1..Size["flash"]
        BY <1>5 DEF FlashState
      <4>2. CASE \E i \in 1..Size["flash"] : flash' = [flash EXCEPT !.offset = i, !.use = 1]
        BY <1>5, <4>2, FlashUpdates
      <4>3. CASE \E m \in {"erase", "write", "status", "read"} :
                   flash' = [flash EXCEPT !.mode = m, !.use = 1]
        <5>1. PICK m \in {"erase", "write", "status", "read"} :
                flash' = [flash EXCEPT !.mode = m, !.use = 1]
          BY <4>3
        <5>2. m \in {"nopes", "erase", "write", "status", "read"} /\ 1 \in {-1, 0, 1}
          OBVIOUS
        <5> QED
          BY <1>5, <4>1, <5>1, <5>2, FlashUpdates
      <4>4. CASE flash' = [flash EXCEPT !.use = 1]
        BY <1>5, <4>1, <4>4, FlashUpdates
      <4> QED
        BY <3>1, <4>2, <4>3, <4>4
    <3>3. ~stop /\ UNCHANGED <<mem, slot, stop>>
      BY <2>1 DEF FlashCommand, Does
    <3> QED
      BY <1>1, <1>5, <3>2, <3>3 DEF SlotOK, StopOK, StateOK
  <2>2. CASE FlashDmaIn
    BY <1>1, <1>5, <2>2 DEF FlashDmaIn, Does, FlashState, SlotOK, StateOK, StopOK
  <2>3. CASE CpuWrites
    <3>1. PICK p \in session.places, v \in Values : mem' = [mem EXCEPT ![p] = v]
      BY <2>3 DEF CpuWrites
    <3>2. mem' \in [Places -> Values]
      BY <1>5, <3>1
    <3>3. UNCHANGED <<flash, slot, stop, rom>>
      BY <2>3 DEF CpuWrites
    <3> QED
      BY <1>1, <1>5, <3>2, <3>3 DEF SlotOK, StateOK, StopOK, FlashState
  <2>4. CASE SaveState
    BY <1>1, <1>5, <2>4 DEF SaveState, Does, FlashState, SlotOK, StateOK, StopOK
  <2>5. CASE LoadState
    BY <1>1, <1>5, <2>5 DEF LoadState, Does, FlashState, SlotOK, StateOK, StopOK
  <2>6. CASE UNCHANGED vars
    BY <1>1, <1>5, <2>6 DEF vars, FlashState, SlotOK, StateOK, StopOK
  <2> QED
    BY <2>1, <2>2, <2>3, <2>4, <2>5, <2>6
<1>7. StateOK'
  BY <1>1, <1>2, <1>4, <1>6 DEF StateOK, FlashState
<1> QED
  BY <1>3, <1>4, <1>6, <1>7 DEF IInv

\* A read of the flash RAM fills its buffer from the .fla file, if there is one.
LEMMA FlashReadFacts ==
  ASSUME Constants, StateOK, NEW p \in Places, NEW i \in 1..Size["flash"], FlashRead(p, i)
  PROVE  /\ BufOK' /\ mem' \in [Places -> Values] /\ mem'[p] = buf'["flash"][i]
         /\ session.fla = <<>> => buf'["flash"] = buf["flash"] /\ filled' = filled
         /\ session.fla # <<>> => filled' = NoGame
<1>1. /\ buf' = [buf EXCEPT !["flash"] = Filled("flash", session.fla)]
      /\ mem' = [mem EXCEPT ![p] = buf'["flash"][i]]
      /\ filled' = IF session.fla = <<>> THEN filled ELSE NoGame
  BY DEF FlashRead
<1>2. session.fla \in Seq(Values) /\ BufOK /\ mem \in [Places -> Values] /\ "flash" \in Memories
  BY DEF StateOK, Constants, SessionsAssumption, Memories
<1>3. Filled("flash", session.fla) \in [1..Size["flash"] -> Values]
  BY <1>2, FilledFacts
<1>4. buf'["flash"] = Filled("flash", session.fla) /\ BufOK'
  BY <1>1, <1>2, <1>3 DEF BufOK
<1>5. mem' \in [Places -> Values] /\ mem'[p] = buf'["flash"][i]
  BY <1>1, <1>2, <1>3, <1>4
<1>6. ASSUME session.fla = <<>>
      PROVE  Filled("flash", session.fla) = buf["flash"]
  <2>1. Len(session.fla) = 0
    BY <1>6, EmptySeq
  <2>2. \A j \in 1..Size["flash"] : Filled("flash", session.fla)[j] = buf["flash"][j]
    BY <1>2, <2>1, FilledFacts
  <2>3. buf["flash"] \in [1..Size["flash"] -> Values]
    BY <1>2 DEF BufOK
  <2> DEFINE full == Filled("flash", session.fla)
  <2> HIDE DEF full
  <2>4. full \in [1..Size["flash"] -> Values] /\ \A j \in 1..Size["flash"] : full[j] = buf["flash"][j]
    BY <1>3, <2>2 DEF full
  <2>5. full = buf["flash"]
    <3> DEFINE old == buf["flash"]
               N == 1..Size["flash"]
    <3>1. full \in [N -> Values] /\ old \in [N -> Values] /\ \A j \in N : full[j] = old[j]
      BY <2>3, <2>4
    <3> HIDE DEF old, N
    <3>2. full = old
      BY <3>1
    <3> QED
      BY <3>2 DEF old
  <2> QED
    BY <2>5 DEF full
<1> QED
  BY <1>1, <1>4, <1>5, <1>6

LEMMA FlashDmaOutStep ==
  ASSUME Constants, IInv, FlashDmaOut
  PROVE  IInv' /\ MemoryStep
<1>1. /\ UNCHANGED <<session, rom, disk, stream, flash, slot, answer>> /\ flash.use = 1
      /\ \/ \E p \in session.places, i \in 1..Size["flash"] : FlashRead(p, i)
         \/ /\ \E p \in session.places, v \in Values : mem' = [mem EXCEPT ![p] = v]
            /\ UNCHANGED <<buf, stop, filled>>
         \/ stop' = TRUE /\ UNCHANGED <<buf, mem, filled>>
  BY DEF FlashDmaOut
<1>2. StateOK /\ StopOK /\ FillOK /\ session.places \subseteq Places
  BY DEF IInv, StateOK, Constants, SessionsAssumption
<1>3. MemoryStep
  BY <1>1, Stutters
<1>4. /\ BufOK' /\ mem' \in [Places -> Values] /\ stop' \in BOOLEAN
      /\ filled' = NoGame \/ (filled' = filled /\ buf'["flash"] = buf["flash"])
  <2>1. CASE \E p \in session.places, i \in 1..Size["flash"] : FlashRead(p, i)
    <3>1. PICK p \in session.places, i \in 1..Size["flash"] : FlashRead(p, i)
      BY <2>1
    <3>2. stop' = stop
      BY <3>1 DEF FlashRead
    <3> QED
      BY <1>2, <3>1, <3>2, FlashReadFacts DEF StateOK
  <2>2. CASE /\ \E p \in session.places, v \in Values : mem' = [mem EXCEPT ![p] = v]
             /\ UNCHANGED <<buf, stop, filled>>
    <3>1. PICK p \in session.places, v \in Values : mem' = [mem EXCEPT ![p] = v]
      BY <2>2
    <3>2. mem' \in [Places -> Values]
      BY <1>2, <3>1 DEF StateOK
    <3> QED
      BY <1>2, <2>2, <3>2 DEF StateOK, BufOK
  <2>3. CASE stop' = TRUE /\ UNCHANGED <<buf, mem, filled>>
    BY <1>2, <2>3 DEF StateOK, BufOK
  <2> QED
    BY <1>1, <2>1, <2>2, <2>3
<1>5. FillOK'
  BY <1>1, <1>2, <1>4 DEF FillOK, Current
<1>6. StateOK' /\ StopOK'
  BY <1>1, <1>2, <1>4 DEF StateOK, StopOK, DiskOK, SetOK, FileOK, SlotOK, FlashState
<1> QED
  BY <1>3, <1>5, <1>6 DEF IInv

-----------------------------------------------------------------------------
(* Games come and go.                                                      *)

LEMMA InitFlashOK ==
  ASSUME flash \in FlashState
  PROVE  InitFlash(flash) \in FlashState
<1>1. flash.offset \in 1..Size["flash"]
  BY DEF FlashState
<1>2. 0 \in {-1, 0, 1} /\ "nopes" \in {"nopes", "erase", "write", "status", "read"}
  OBVIOUS
<1> QED
  BY <1>1, <1>2, FlashUpdates DEF InitFlash

LEMMA StartRomStep ==
  ASSUME Constants, IInv, StartRom
  PROVE  IInv' /\ MemoryStep
<1>1. PICK g \in session.games :
        /\ rom = NoGame /\ rom' = g /\ stream' = disk[g] /\ flash' = InitFlash(flash) /\ stop' = FALSE
        /\ UNCHANGED <<session, disk, buf, mem, slot, answer, filled>>
  BY DEF StartRom
<1>2. StateOK /\ FillOK /\ NoGame \notin Games /\ g \in Games
  BY Running DEF IInv, StateOK, Constants, SessionsAssumption
<1>3. \A h \in Games, f \in Files : Current(h, f)' = Current(h, f)
  BY <1>1, <1>2 DEF Current
<1>4. Kept' = Kept /\ Safe' = Safe
  BY <1>1, <1>3 DEF Kept, Safe
<1>5. Memory!Begin
  BY <1>1, <1>2, <1>4 DEF Memory!Begin, Memory!NoGame, NoGame
<1>6. flash' \in FlashState
  BY <1>1, <1>2, InitFlashOK DEF StateOK
<1>7. SetOK(stream)'
  BY <1>1, <1>2 DEF StateOK, DiskOK, SetOK, FileOK
<1>8. StateOK' /\ StopOK'
  BY <1>1, <1>2, <1>6, <1>7 DEF StateOK, StopOK, DiskOK, SetOK, FileOK, BufOK, SlotOK, FlashState
<1>9. FillOK'
  BY <1>1, <1>2, <1>3, FillSame DEF StateOK, Files
<1> QED
  BY <1>5, <1>8, <1>9 DEF IInv, MemoryStep, Memory!Next

LEMMA ClosedOK ==
  ASSUME Constants
  PROVE  SetOK(Closed)
<1>1. <<>> \in Seq(Values) /\ Len(<<>>) = 0
  BY EmptySeq
<1> QED
  BY <1>1, Sizes DEF SetOK, FileOK, Closed

LEMMA CloseRomStep ==
  ASSUME Constants, IInv, CloseRom
  PROVE  IInv' /\ MemoryStep
<1>1. /\ rom # NoGame /\ disk' = [disk EXCEPT ![rom] = stream] /\ rom' = NoGame /\ stream' = Closed
      /\ UNCHANGED <<session, buf, flash, mem, slot, stop, answer, filled>>
  BY DEF CloseRom
<1>2. StateOK /\ FillOK /\ NoGame \notin Games /\ rom \in Games
  BY <1>1, Running DEF IInv
<1>3. /\ disk \in [Games -> [Files -> Seq(Values)]] /\ stream \in [Files -> Seq(Values)]
  BY <1>2 DEF StateOK, DiskOK, SetOK
<1>4. disk'[rom] = stream /\ \A g \in Games : g # rom => disk'[g] = disk[g]
  BY <1>1, <1>2, <1>3
<1>5. \A g \in Games, f \in Files : Current(g, f)' = disk'[g][f] /\ disk'[g][f] = Current(g, f)
  BY <1>1, <1>2, <1>4 DEF Current
<1>6. Kept' = Kept /\ Safe' = Kept
  BY <1>5 DEF Kept, Safe
<1>7. Memory!End
  BY <1>1, <1>6 DEF Memory!End, Memory!NoGame, NoGame
<1>8. DiskOK'
  BY <1>1, <1>2, <1>3, <1>4 DEF StateOK, DiskOK, SetOK, FileOK
<1>9. SetOK(stream)'
  BY <1>1, ClosedOK
<1>10. StateOK' /\ StopOK'
  BY <1>1, <1>2, <1>8, <1>9 DEF StateOK, StopOK, BufOK, SlotOK, FlashState
<1>11. FillOK'
  BY <1>1, <1>2, <1>5, FillSame DEF StateOK, Files
<1> QED
  BY <1>7, <1>10, <1>11 DEF IInv, MemoryStep, Memory!Next

\* Cleared blocks read as 0, the ones behind them as before.
LEMMA ClearedFacts ==
  ASSUME Constants, NEW f \in Files, NEW file \in Seq(Values), Len(file) <= FileSize[f],
         NEW blocks \in Seq(Values), Len(blocks) = ClearedBlocks[f],
         \A i \in 1..Len(blocks) : blocks[i] = 0
  PROVE  /\ Over(file, blocks) \in Seq(Values) /\ Len(Over(file, blocks)) <= FileSize[f]
         /\ Known(Over(file, blocks), FileSize[f]) =
              [i \in 1..FileSize[f] |-> IF i <= ClearedBlocks[f] THEN 0 ELSE Known(file, FileSize[f])[i]]
<1> DEFINE new == Over(file, blocks)
           c   == ClearedBlocks[f]
<1>1. /\ new \in Seq(Values) /\ Len(new) \in Nat
      /\ Len(blocks) >= Len(file) => Len(new) = Len(blocks)
      /\ Len(blocks) < Len(file) => Len(new) = Len(file)
      /\ \A j \in 1..Len(blocks) : new[j] = blocks[j]
      /\ \A j \in 1..Len(file) : j > Len(blocks) => new[j] = file[j]
  BY OverFacts
<1>2. c \in Nat /\ FileSize[f] \in Nat /\ c <= FileSize[f] /\ Len(file) \in Nat
  BY Sizes, LenProperties DEF ClearedBlocks, Memories
<1> HIDE DEF new, c
<1>3. Len(blocks) = c
  BY DEF c
<1>4. Len(new) <= FileSize[f]
  BY <1>1, <1>2, <1>3
<1>5. ASSUME NEW i \in 1..FileSize[f]
      PROVE  /\ i <= c => Known(new, FileSize[f])[i] = 0
             /\ ~(i <= c) => Known(new, FileSize[f])[i] = Known(file, FileSize[f])[i]
  <2>1. CASE i <= c
    <3>1. i \in 1..Len(blocks) /\ i <= Len(new)
      BY <1>1, <1>2, <1>3, <2>1
    <3>2. new[i] = 0
      BY <1>1, <3>1
    <3> QED
      BY <2>1, <3>1, <3>2, KnownAt
  <2>2. CASE ~(i <= c) /\ i <= Len(file)
    <3>1. i \in 1..Len(file) /\ i > Len(blocks) /\ i <= Len(new)
      BY <1>1, <1>2, <1>3, <2>2
    <3>2. new[i] = file[i]
      BY <1>1, <3>1
    <3> QED
      BY <2>2, <3>1, <3>2, KnownAt
  <2>3. CASE ~(i <= c) /\ ~(i <= Len(file))
    <3>1. ~(i <= Len(new))
      BY <1>1, <1>2, <1>3, <2>3
    <3> QED
      BY <2>3, <3>1, KnownAt
  <2> QED
    BY <2>1, <2>2, <2>3
<1>6. Known(new, FileSize[f]) =
        [i \in 1..FileSize[f] |-> IF i <= c THEN 0 ELSE Known(file, FileSize[f])[i]]
  <2> DEFINE K(i) == Known(file, FileSize[f])[i]
             N(i) == Known(new, FileSize[f])[i]
  <2>1. Known(new, FileSize[f]) = [i \in 1..FileSize[f] |-> N(i)]
    BY DEF Known
  <2>2. \A i \in 1..FileSize[f] : /\ i <= c => N(i) = 0
                                  /\ ~(i <= c) => N(i) = K(i)
    BY <1>5
  <2> HIDE DEF K, N
  <2>3. [i \in 1..FileSize[f] |-> N(i)] = [i \in 1..FileSize[f] |-> IF i <= c THEN 0 ELSE K(i)]
    BY <2>2
  <2> QED
    BY <2>1, <2>3 DEF K
<1> QED
  BY <1>1, <1>4, <1>6 DEF new, c

LEMMA ResetRomStep ==
  ASSUME Constants, IInv, ResetRom
  PROVE  IInv' /\ MemoryStep
<1>1. /\ rom # NoGame /\ Clear(rom) /\ stream' = disk'[rom] /\ flash' = InitFlash(flash)
      /\ stop' = FALSE /\ filled' = NoGame
      /\ UNCHANGED <<session, rom, mem, slot, answer>>
  BY DEF ResetRom
<1>2. StateOK /\ rom \in Games /\ BufOK
  BY <1>1, Running DEF IInv, StateOK
<1>3. buf' = [Zeros EXCEPT !["flash"] = buf["flash"]]
  BY <1>1 DEF Clear
<1> DEFINE zeros(b) == [i \in 1..Size[b] |-> 0]
<1>4. \A b \in Memories : zeros(b) \in [1..Size[b] -> Values]
  BY DEF Constants, ValuesAssumption
<1>5. Zeros = [b \in Memories |-> zeros(b)]
  BY Sizes DEF Zeros
<1> HIDE DEF zeros
<1>6. /\ DOMAIN buf' = Memories /\ buf'["flash"] = buf["flash"]
      /\ \A b \in Memories : b # "flash" => buf'[b] = zeros(b)
  BY <1>3, <1>5 DEF Memories
<1>7. BufOK'
  BY <1>2, <1>4, <1>6 DEF BufOK
<1> DEFINE cut == SubSeq(buf'["mpk"], 1, PakWipe)
           blocks == [f \in Files |-> IF f = "eep" THEN buf'["eep"]
                                     ELSE IF f = "sra" THEN buf'["sram"] ELSE cut]
<1>8. \A b \in Memories : b # "flash" => /\ buf'[b] \in Seq(Values) /\ Len(buf'[b]) = Size[b]
                                        /\ \A i \in 1..Size[b] : buf'[b][i] = 0
  <2> TAKE b \in Memories
  <2> HAVE b # "flash"
  <2>1. buf'[b] \in [1..Size[b] -> Values] /\ Size[b] \in Nat /\ buf'[b] = zeros(b)
    BY <1>4, <1>6, Sizes
  <2>2. \A i \in 1..Size[b] : zeros(b)[i] = 0
    BY DEF zeros
  <2> QED
    BY <2>1, <2>2, Buffer
<1>9. cut \in Seq(Values) /\ Len(cut) = PakWipe /\ \A i \in 1..PakWipe : cut[i] = 0
  <2> DEFINE pak == buf'["mpk"]
  <2>1. pak \in Seq(Values) /\ Len(pak) = Size["mpk"] /\ \A i \in 1..Size["mpk"] : pak[i] = 0
    BY <1>8 DEF Memories
  <2>2. PakWipe \in Nat /\ Size["mpk"] \in Nat /\ PakWipe < Size["mpk"]
    BY Sizes DEF Memories
  <2> HIDE DEF pak
  <2>3. \A i \in 1..PakWipe : pak[i] \in Values
    BY <2>1, <2>2 DEF Constants, ValuesAssumption
  <2>4. /\ SubSeq(pak, 1, PakWipe) \in Seq(Values)
        /\ Len(SubSeq(pak, 1, PakWipe)) = IF 1 <= PakWipe THEN PakWipe - 1 + 1 ELSE 0
        /\ \A i \in 1..(PakWipe - 1 + 1) : SubSeq(pak, 1, PakWipe)[i] = pak[1 + i - 1]
    BY <2>1, <2>2, <2>3, SubSeqProperties
  <2> QED
    BY <2>1, <2>2, <2>4 DEF pak
<1> HIDE DEF cut
<1>10. \A f \in Files : /\ blocks[f] \in Seq(Values) /\ Len(blocks[f]) = ClearedBlocks[f]
                        /\ \A i \in 1..Len(blocks[f]) : blocks[f][i] = 0
  BY <1>8, <1>9 DEF Files, ClearedBlocks, Memories
<1>11. disk' = [disk EXCEPT ![rom] = [eep |-> Over(stream["eep"], buf'["eep"]),
                                      sra |-> Over(stream["sra"], buf'["sram"]),
                                      mpk |-> Over(stream["mpk"], cut)]]
  BY <1>1 DEF Clear, cut
<1> DEFINE wiped == [f \in Files |-> Over(stream[f], blocks[f])]
<1>12. disk' = [disk EXCEPT ![rom] = wiped]
  <2> DEFINE o(a, b) == Over(a, b)
  <2> HIDE DEF o
  <2>1. [eep |-> o(stream["eep"], buf'["eep"]), sra |-> o(stream["sra"], buf'["sram"]),
         mpk |-> o(stream["mpk"], cut)] = [f \in Files |-> o(stream[f], blocks[f])]
    BY DEF Files
  <2> QED
    BY <1>11, <2>1 DEF o
<1>13. stream \in [Files -> Seq(Values)] /\ \A f \in Files : stream[f] \in Seq(Values) /\ Len(stream[f]) <= FileSize[f]
  BY <1>2 DEF StateOK, SetOK, FileOK
<1>14. \A f \in Files :
         /\ wiped[f] \in Seq(Values) /\ Len(wiped[f]) <= FileSize[f]
         /\ Known(wiped[f], FileSize[f]) =
              [i \in 1..FileSize[f] |-> IF i <= ClearedBlocks[f] THEN 0 ELSE Known(stream[f], FileSize[f])[i]]
  <2> TAKE f \in Files
  <2> DEFINE file == stream[f]
             bl   == blocks[f]
  <2>1. wiped[f] = Over(file, bl)
    OBVIOUS
  <2>2. /\ file \in Seq(Values) /\ Len(file) <= FileSize[f]
        /\ bl \in Seq(Values) /\ Len(bl) = ClearedBlocks[f] /\ \A i \in 1..Len(bl) : bl[i] = 0
    BY <1>10, <1>13
  <2> HIDE DEF file, bl, wiped, blocks
  <2>3. /\ Over(file, bl) \in Seq(Values) /\ Len(Over(file, bl)) <= FileSize[f]
        /\ Known(Over(file, bl), FileSize[f]) =
             [i \in 1..FileSize[f] |-> IF i <= ClearedBlocks[f] THEN 0 ELSE Known(file, FileSize[f])[i]]
    BY <2>2, ClearedFacts
  <2> QED
    BY <2>1, <2>3 DEF file
<1> HIDE DEF blocks
<1>15. DOMAIN wiped = Files
  OBVIOUS
<1> HIDE DEF wiped
<1>16. disk'[rom] = wiped /\ (\A g \in Games : g # rom => disk'[g] = disk[g]) /\ DOMAIN disk' = Games
       /\ disk' = [g \in Games |-> disk'[g]]
  BY <1>2, <1>12 DEF StateOK, DiskOK
<1>17. wiped \in [Files -> Seq(Values)] /\ SetOK(wiped)
  <2>1. wiped = [f \in Files |-> wiped[f]]
    BY DEF wiped
  <2>2. wiped \in [Files -> Seq(Values)]
    BY <1>14, <2>1
  <2> QED
    BY <1>14, <2>2 DEF SetOK, FileOK
<1>18. DiskOK' /\ SetOK(stream)'
  <2>1. \A g \in Games : SetOK(disk[g]) /\ disk[g] \in [Files -> Seq(Values)]
    BY <1>2 DEF StateOK, DiskOK
  <2>2. \A g \in Games : SetOK(disk'[g]) /\ disk'[g] \in [Files -> Seq(Values)]
    BY <1>16, <1>17, <2>1
  <2>3. disk' \in [Games -> [Files -> Seq(Values)]]
    BY <1>16, <2>2
  <2>4. stream' = wiped
    BY <1>1, <1>16
  <2> QED
    BY <1>17, <2>2, <2>3, <2>4 DEF DiskOK, SetOK, FileOK
<1>19. flash' \in FlashState
  BY <1>1, <1>2, InitFlashOK DEF StateOK
<1>20. IInv'
  BY <1>1, <1>2, <1>7, <1>18, <1>19 DEF IInv, StateOK, StopOK, FillOK, SlotOK, FlashState
<1>21. \A g \in Games, f \in Files :
         /\ Current(g, f)' = disk'[g][f]
         /\ g # rom => disk'[g][f] = Current(g, f)
         /\ Current(rom, f) = stream[f]
  BY <1>1, <1>16 DEF Current
<1>22. Safe' = Kept'
  BY <1>21 DEF Kept, Safe
<1> DEFINE K(file, f) == Known(file, FileSize[f])
           clean(f) == [i \in 1..FileSize[f] |-> IF i <= ClearedBlocks[f] THEN 0 ELSE K(stream[f], f)[i]]
           C(f) == [i \in 1..FileSize[f] |-> IF i <= ClearedBlocks[f] THEN 0 ELSE Kept[rom][f][i]]
<1>23. \A f \in Files : K(wiped[f], f) = clean(f)
  BY <1>14
<1>24. \A f \in Files : C(f) = clean(f)
  BY <1>2, <1>21 DEF Kept
<1> HIDE DEF clean, C, K
<1>25. Kept = [g \in Games |-> [f \in Files |-> K(Current(g, f), f)]]
       /\ Kept' = [g \in Games |-> [f \in Files |-> K(disk'[g][f], f)]]
  BY <1>21 DEF Kept, K
<1>26. Kept' = [Kept EXCEPT ![rom] = [f \in Files |-> C(f)]]
  <2>1. [Kept EXCEPT ![rom] = [f \in Files |-> C(f)]] =
          [g \in Games |-> [f \in Files |-> IF g = rom THEN C(f) ELSE K(Current(g, f), f)]]
    BY <1>2, <1>25
  <2>2. \A g \in Games, f \in Files :
          K(disk'[g][f], f) = IF g = rom THEN C(f) ELSE K(Current(g, f), f)
    BY <1>16, <1>21, <1>23, <1>24
  <2> QED
    BY <1>25, <2>1, <2>2
<1>27. Memory!Wipe(rom)
  BY <1>1, <1>22, <1>26, Sizes DEF Memory!Wipe, C
<1> QED
  BY <1>2, <1>20, <1>27 DEF MemoryStep, Memory!Next

\* What a new program starts with.
LEMMA FreshFacts ==
  ASSUME Constants, Fresh
  PROVE  BufOK' /\ (flash \in FlashState)' /\ mem' \in [Places -> Values] /\ filled' = NoGame
<1>1. /\ buf' = Zeros /\ mem' = [p \in Places |-> 0] /\ filled' = NoGame
      /\ flash' = [use |-> 0, mode |-> "nopes", offset |-> 1, pointer |-> 1]
  BY DEF Fresh
<1>2. 0 \in Values /\ Size["flash"] \in Nat /\ Size["sram"] \in Nat /\ Size["sram"] < Size["flash"]
  BY Sizes DEF Constants, ValuesAssumption, Memories
<1>3. DOMAIN buf' = Memories /\ \A b \in Memories : buf'[b] = [i \in 1..Size[b] |-> 0]
  BY <1>1, Sizes DEF Zeros
<1>4. BufOK'
  BY <1>2, <1>3 DEF BufOK
<1>5. 1 \in 1..Size["flash"] /\ 0 \in -1..1 /\ 1 \in Places
  BY <1>2 DEF Places
<1>6. (flash \in FlashState)'
  BY <1>1, <1>5 DEF FlashState
<1> QED
  BY <1>1, <1>2, <1>4, <1>6

LEMMA QuitStep ==
  ASSUME Constants, IInv, Quit
  PROVE  IInv' /\ MemoryStep
<1>1. rom = NoGame /\ Fresh /\ UNCHANGED <<session, rom, disk, stream, slot, stop, answer>>
  BY DEF Quit
<1>2. StateOK
  BY DEF IInv
<1>3. BufOK' /\ (flash \in FlashState)' /\ mem' \in [Places -> Values] /\ filled' = NoGame
  BY <1>1, FreshFacts
<1>4. StateOK'
  BY <1>1, <1>2, <1>3 DEF StateOK, DiskOK, SetOK, FileOK, SlotOK, FlashState
<1>5. IInv'
  BY <1>1, <1>3, <1>4 DEF IInv, StopOK, FillOK
<1> QED
  BY <1>1, <1>5, Stutters

\* A file after a crash: every block as it was kept or as it was safe.
LEMMA TornFacts ==
  ASSUME Constants, NEW f \in Files,
         NEW old \in Seq(Values), Len(old) <= FileSize[f],
         NEW file \in Seq(Values), Len(file) <= FileSize[f],
         NEW n \in Nat, n <= Len(file)
  PROVE  LET torn == Over(old, SubSeq(file, 1, n)) IN
         /\ torn \in Seq(Values) /\ Len(torn) <= FileSize[f]
         /\ \A i \in 1..FileSize[f] :
              Known(torn, FileSize[f])[i] \in {Known(file, FileSize[f])[i], Known(old, FileSize[f])[i]}
<1> DEFINE first == SubSeq(file, 1, n)
           torn  == Over(old, first)
<1>1. Len(file) \in Nat /\ Len(old) \in Nat /\ FileSize[f] \in Nat
  BY Sizes, LenProperties
<1>2. \A i \in 1..n : file[i] \in Values
  BY <1>1, ElementOfSeq
<1>3. /\ first \in Seq(Values)
      /\ Len(first) = IF 1 <= n THEN n - 1 + 1 ELSE 0
      /\ \A i \in 1..(n - 1 + 1) : first[i] = file[1 + i - 1]
  BY <1>1, <1>2, SubSeqProperties
<1> HIDE DEF first
<1>4. Len(first) = n /\ \A i \in 1..n : first[i] = file[i]
  BY <1>1, <1>3
<1>5. /\ torn \in Seq(Values) /\ Len(torn) \in Nat
      /\ n >= Len(old) => Len(torn) = n
      /\ n < Len(old) => Len(torn) = Len(old)
      /\ \A j \in 1..n : torn[j] = first[j]
      /\ \A j \in 1..Len(old) : j > n => torn[j] = old[j]
  BY <1>3, <1>4, OverFacts
<1> HIDE DEF torn
<1>6. Len(torn) <= FileSize[f]
  BY <1>1, <1>5
<1>7. ASSUME NEW i \in 1..FileSize[f]
      PROVE  Known(torn, FileSize[f])[i] \in {Known(file, FileSize[f])[i], Known(old, FileSize[f])[i]}
  <2>1. CASE i <= n
    <3>1. i \in 1..n /\ i <= Len(file) /\ i <= Len(torn)
      BY <1>1, <1>5, <2>1
    <3>2. torn[i] = file[i]
      BY <1>4, <1>5, <3>1
    <3>3. Known(torn, FileSize[f])[i] = torn[i] /\ Known(file, FileSize[f])[i] = file[i]
      BY <3>1, KnownAt
    <3> QED
      BY <3>2, <3>3
  <2>2. CASE ~(i <= n) /\ i <= Len(old)
    <3>1. i \in 1..Len(old) /\ i > n /\ i <= Len(torn)
      BY <1>1, <1>5, <2>2
    <3>2. torn[i] = old[i]
      BY <1>5, <3>1
    <3>3. Known(torn, FileSize[f])[i] = torn[i] /\ Known(old, FileSize[f])[i] = old[i]
      BY <2>2, <3>1, KnownAt
    <3> QED
      BY <3>2, <3>3
  <2>3. CASE ~(i <= n) /\ ~(i <= Len(old))
    <3>1. ~(i <= Len(torn))
      BY <1>1, <1>5, <2>3
    <3>2. Known(torn, FileSize[f])[i] = -1 /\ Known(old, FileSize[f])[i] = -1
      BY <2>3, <3>1, KnownAt
    <3> QED
      BY <3>2
  <2> QED
    BY <2>1, <2>2, <2>3
<1> QED
  BY <1>5, <1>6, <1>7 DEF torn, first

LEMMA CrashStep ==
  ASSUME Constants, IInv, Crash
  PROVE  IInv' /\ MemoryStep
<1>1. PICK n \in [Files -> 0..Max({Size[b] : b \in DOMAIN Size})] :
        /\ \A f \in Files : n[f] <= Len(stream[f])
        /\ disk' = [disk EXCEPT ![rom] = [f \in Files |-> Over(disk[rom][f], SubSeq(stream[f], 1, n[f]))]]
  BY DEF Crash
<1>2. rom # NoGame /\ rom' = NoGame /\ stream' = Closed /\ Fresh /\ UNCHANGED <<session, slot, stop, answer>>
  BY DEF Crash
<1>3. StateOK /\ rom \in Games /\ NoGame \notin Games
  BY <1>2, Running DEF IInv
<1>4. \A f \in Files : n[f] \in Nat
  <2> DEFINE most == Max({Size[b] : b \in DOMAIN Size})
  <2>1. n \in [Files -> 0..most]
    BY <1>1
  <2> HIDE DEF most
  <2>2. \A x \in 0..most : x \in Nat
    OBVIOUS
  <2> QED
    BY <2>1, <2>2
<1> DEFINE torn == [f \in Files |-> Over(disk[rom][f], SubSeq(stream[f], 1, n[f]))]
<1>5. disk' = [disk EXCEPT ![rom] = torn] /\ DOMAIN torn = Files
  BY <1>1
<1>6. \A f \in Files : /\ stream[f] \in Seq(Values) /\ Len(stream[f]) <= FileSize[f]
                       /\ disk[rom][f] \in Seq(Values) /\ Len(disk[rom][f]) <= FileSize[f]
  BY <1>3 DEF StateOK, DiskOK, SetOK, FileOK
<1> DEFINE K(file, f) == Known(file, FileSize[f])
<1>7. \A f \in Files :
        /\ torn[f] \in Seq(Values) /\ Len(torn[f]) <= FileSize[f]
        /\ \A i \in 1..FileSize[f] : K(torn[f], f)[i] \in {K(stream[f], f)[i], K(disk[rom][f], f)[i]}
  <2> TAKE f \in Files
  <2> DEFINE old  == disk[rom][f]
             file == stream[f]
             m    == n[f]
             new  == torn[f]
  <2>1. new = Over(old, SubSeq(file, 1, m))
    OBVIOUS
  <2>2. /\ old \in Seq(Values) /\ Len(old) <= FileSize[f]
        /\ file \in Seq(Values) /\ Len(file) <= FileSize[f]
        /\ m \in Nat /\ m <= Len(file)
    BY <1>1, <1>4, <1>6
  <2> HIDE DEF old, file, m, new
  <2>3. /\ Over(old, SubSeq(file, 1, m)) \in Seq(Values)
        /\ Len(Over(old, SubSeq(file, 1, m))) <= FileSize[f]
        /\ \A i \in 1..FileSize[f] :
             Known(Over(old, SubSeq(file, 1, m)), FileSize[f])[i]
               \in {Known(file, FileSize[f])[i], Known(old, FileSize[f])[i]}
    BY <2>2, TornFacts
  <2>4. new \in Seq(Values) /\ Len(new) <= FileSize[f]
        /\ \A i \in 1..FileSize[f] : K(new, f)[i] \in {K(file, f)[i], K(old, f)[i]}
    BY <2>1, <2>3
  <2> QED
    BY <2>4 DEF new, file, old
<1> HIDE DEF torn
<1>8. /\ disk'[rom] = torn /\ (\A g \in Games : g # rom => disk'[g] = disk[g])
      /\ disk' = [g \in Games |-> disk'[g]]
  BY <1>3, <1>5 DEF StateOK, DiskOK
<1>9. DiskOK'
  <2>1. torn = [f \in Files |-> torn[f]]
    BY DEF torn
  <2>2. torn \in [Files -> Seq(Values)]
    BY <1>7, <2>1
  <2>3. SetOK(torn)
    BY <1>7, <2>2 DEF SetOK, FileOK
  <2>4. \A g \in Games : SetOK(disk[g]) /\ disk[g] \in [Files -> Seq(Values)]
    BY <1>3 DEF StateOK, DiskOK
  <2>5. \A g \in Games : SetOK(disk'[g]) /\ disk'[g] \in [Files -> Seq(Values)]
    BY <1>8, <2>2, <2>3, <2>4
  <2>6. disk' \in [Games -> [Files -> Seq(Values)]]
    BY <1>8, <2>5
  <2> QED
    BY <2>5, <2>6 DEF DiskOK, SetOK, FileOK
<1>10. SetOK(stream)'
  BY <1>2, ClosedOK
<1>11. IInv'
  BY <1>2, <1>3, <1>9, <1>10, FreshFacts DEF IInv, StateOK, StopOK, FillOK, SlotOK, FlashState
<1>12. \A g \in Games, f \in Files :
         /\ Current(g, f)' = disk'[g][f]
         /\ g # rom => disk'[g][f] = Current(g, f)
         /\ Current(rom, f) = stream[f]
  BY <1>2, <1>3, <1>8 DEF Current
<1>13. Safe' = Kept'
  BY <1>12 DEF Kept, Safe
<1> HIDE DEF K
<1>14. /\ Kept = [g \in Games |-> [f \in Files |-> K(Current(g, f), f)]]
       /\ Kept' = [g \in Games |-> [f \in Files |-> K(disk'[g][f], f)]]
       /\ Safe = [g \in Games |-> [f \in Files |-> K(disk[g][f], f)]]
  BY <1>12 DEF Kept, Safe, K
<1>15. \A g \in Games, f \in Files : \A i \in 1..FileSize[f] :
         Kept'[g][f][i] \in {Kept[g][f][i], Safe[g][f][i]}
  <2> TAKE g \in Games, f \in Files
  <2>1. CASE g = rom
    <3>1. Kept'[g][f] = K(torn[f], f) /\ Kept[g][f] = K(stream[f], f) /\ Safe[g][f] = K(disk[rom][f], f)
      BY <1>8, <1>12, <1>14, <2>1
    <3> QED
      BY <1>7, <3>1
  <2>2. CASE g # rom
    <3>1. Kept'[g][f] = Kept[g][f]
      BY <1>12, <1>14, <2>2
    <3> QED
      BY <3>1
  <2> QED
    BY <2>1, <2>2
<1>16. Memory!Crash
  BY <1>2, <1>13, <1>15, Sizes DEF Memory!Crash, Memory!NoGame, NoGame
<1> QED
  BY <1>11, <1>16 DEF MemoryStep, Memory!Next

-----------------------------------------------------------------------------
LEMMA Start ==
  ASSUME Constants, Init
  PROVE  IInv /\ Memory!Init
<1>1. /\ session \in Sessions /\ rom = NoGame /\ stream = Closed /\ buf = Zeros
      /\ disk = [g \in Games |-> [f \in Files |-> <<>>]]
      /\ flash = [use |-> 0, mode |-> "nopes", offset |-> 1, pointer |-> 1]
      /\ mem = [p \in Places |-> 0] /\ slot = NoState /\ stop = FALSE
      /\ answer = NoAnswer /\ filled = NoGame
  BY DEF Init
<1>2. 0 \in Values /\ Size["flash"] \in Nat /\ Size["sram"] \in Nat /\ Size["sram"] < Size["flash"]
  BY Sizes DEF Constants, ValuesAssumption, Memories
<1>3. DOMAIN buf = Memories /\ \A b \in Memories : buf[b] = [i \in 1..Size[b] |-> 0]
  BY <1>1, Sizes DEF Zeros
<1>4. BufOK
  BY <1>2, <1>3 DEF BufOK
<1>5. 1 \in 1..Size["flash"] /\ 0 \in -1..1 /\ 1 \in Places
  BY <1>2 DEF Places
<1>6. flash \in FlashState
  BY <1>1, <1>5 DEF FlashState
<1>7. SetOK(Closed)
  BY ClosedOK
<1>8. DiskOK
  <2>1. disk = [g \in Games |-> Closed]
    BY <1>1 DEF Closed
  <2> QED
    BY <1>7, <2>1 DEF DiskOK, SetOK
<1>9. IInv
  BY <1>1, <1>2, <1>4, <1>6, <1>7, <1>8 DEF IInv, StateOK, StopOK, FillOK, SlotOK, NoState
<1>10. \A g \in Games, f \in Files : Current(g, f) = <<>> /\ disk[g][f] = <<>>
  BY <1>1 DEF Current, Closed
<1>11. \A f \in Files : Known(<<>>, FileSize[f]) = [i \in 1..FileSize[f] |-> -1]
  <2> TAKE f \in Files
  <2>1. FileSize[f] \in Nat /\ Len(<<>>) = 0
    BY Sizes, EmptySeq
  <2>2. \A i \in 1..FileSize[f] : ~(i <= Len(<<>>))
    BY <2>1
  <2> QED
    BY <2>2 DEF Known
<1>12. /\ Kept = [g \in Games |-> [f \in Files |-> Known(<<>>, FileSize[f])]]
       /\ Safe = [g \in Games |-> [f \in Files |-> Known(<<>>, FileSize[f])]]
  BY <1>10 DEF Kept, Safe
<1>13. Memory!Init
  BY <1>1, <1>11, <1>12, Sizes
     DEF Memory!Init, Memory!NoGame, NoGame, Memory!NoAnswer, NoAnswer, Memory!Unknown
<1> QED
  BY <1>9, <1>13

LEMMA Step ==
  ASSUME Constants, IInv, [Next]_vars
  PROVE  IInv' /\ MemoryStep
BY ReadStep, WriteStep, FlashExecuteStep, FlashDmaOutStep, QuietStep,
   StartRomStep, CloseRomStep, ResetRomStep, QuitStep, CrashStep DEF Next

\* What a DMA reads from the flash RAM is the page of the game's file.
LEMMA ReadBack ==
  ASSUME Constants, IInv, NEW p \in Places, NEW i \in 1..Size["flash"],
         rom # NoGame, filled = rom, session.fla = <<>>, FlashRead(p, i)
  PROVE  mem'[p] = stream["sra"][i]
<1>1. mem'[p] = buf'["flash"][i] /\ buf'["flash"] = buf["flash"]
  BY FlashReadFacts DEF IInv
<1>2. Current(filled, "sra") = stream["sra"]
  BY DEF Current
<1>3. buf["flash"][i] = stream["sra"][i]
  BY <1>2 DEF IInv, FillOK
<1> QED
  BY <1>1, <1>3

-----------------------------------------------------------------------------
\* The inductive invariant holds in every state that is played to.
THEOREM Inductive ==
  ASSUME Constants
  PROVE  Spec => []IInv
<1>1. Init => IInv
  BY Start
<1>2. IInv /\ [Next]_vars => IInv'
  BY Step
<1> QED
  BY <1>1, <1>2, PTL DEF Spec

LEMMA Typed ==
  ASSUME Constants, IInv
  PROVE  TypeOK
<1>1. ASSUME NEW f \in Files
      PROVE  Len(stream[f]) \in 0..FileSize[f] /\ \A i \in DOMAIN stream[f] : stream[f][i] \in Values
  <2>1. stream[f] \in Seq(Values) /\ Len(stream[f]) <= FileSize[f] /\ FileSize[f] \in Nat
    BY Sizes DEF IInv, StateOK, SetOK, FileOK
  <2>2. Len(stream[f]) \in Nat /\ DOMAIN stream[f] = 1..Len(stream[f])
    BY <2>1, LenProperties
  <2> QED
    BY <2>1, <2>2, ElementOfSeq
<1> QED
  BY <1>1 DEF IInv, StateOK, StopOK, FlashState, TypeOK

\* Files never outgrow the memory they hold, and only the flash RAM's DMA and
\* commands stop the program.
THEOREM TypesHold ==
  ASSUME Constants
  PROVE  Spec => []TypeOK
<1>1. IInv => TypeOK
  BY Typed
<1> QED
  BY <1>1, Inductive, PTL

\* Save memory keeps what is written to it: EEPROM, SRAM, flash RAM and paks,
\* with their short files, shared buffers, resets and crashes, do what
\* SaveMemory promises.
THEOREM SavesAreKept ==
  ASSUME Constants
  PROVE  Spec => KeepsSaves
<1>1. Init => Memory!Init
  BY Start
<1>2. IInv /\ [Next]_vars => [Memory!Next]_(Memory!vars)
  BY Step DEF MemoryStep
<1> QED
  BY <1>1, <1>2, Inductive, PTL DEF Spec, KeepsSaves, Memory!Spec

\* The flash RAM reads back what was programmed and erased.
THEOREM FlashIsRead ==
  ASSUME Constants
  PROVE  Spec => FlashReadsBack
<1>1. IInv /\ [Next]_vars =>
        [\A p \in Places, i \in 1..Size["flash"] :
           rom # NoGame /\ filled = rom /\ session.fla = <<>> /\ FlashDmaOut /\ FlashRead(p, i)
             => mem'[p] = stream["sra"][i]]_vars
  BY ReadBack
<1> QED
  BY <1>1, Inductive, PTL DEF Spec, FlashReadsBack
=============================================================================
