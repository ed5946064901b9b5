--------------------------- MODULE SdSoundProofs ---------------------------
(***************************************************************************)
(* Proofs about SdSound for buffers, sound files and heaps of any size:    *)
(* what is heard is the file in its order, its end is cut by no more than  *)
(* a buffer, a refill never goes to the buffer that is played, and both    *)
(* buffers are kept while they are played and returned at the end.         *)
(*                                                                         *)
(* The invariant is about an undisturbed playback.  It follows the file    *)
(* position Base at which the buffer being played begins: the file is read *)
(* to the end of this buffer or, once the other one is refilled, of that;  *)
(* what was read last is how far the interrupt may play.                   *)
(*                                                                         *)
(* Then about SpiDriver, which carries the card's bytes, for FIFOs and     *)
(* jobs of any size: a job completes with the answers to its own bytes,    *)
(* all of them and in their order, and the driver never waits for what     *)
(* cannot come.                                                            *)
(***************************************************************************)
EXTENDS SdSound, SpiDriver, SequenceTheorems, WellFoundedInduction, TLAPS

-----------------------------------------------------------------------------
(* The inductive invariant *)

Starting == {"pwmdone", "sptr", "noread", "malloc1", "malloc2", "open", "first", "setup",
             "timer", "ready"}
Pcs == Starting \union {"loop", "read", "clear", "picture"}

SdTypeOK ==
  /\ pc \in Pcs
  /\ sndLen \in Nat /\ sndPos \in 0..sndLen /\ ulSptr \in Nat /\ ulSndBytes \in Nat
  /\ bSndReady \in 0..2 /\ ucReadSndBuff \in 0..2
  /\ pbSoundbuff \in [1..2 -> Blocks \union {0}]
  /\ mem \in [Blocks -> [1..BufSize -> Nat]]
  /\ out \in Seq(Nat)
  /\ live \subseteq Blocks

\* A playback is starting as long as vSoundfromSD runs; until it is, nothing is heard.
StartInv ==
  /\ playback = "starting" <=> pc \in Starting
  /\ playback = "starting" => out = <<>>
  /\ playback = "ended" => cPwmDone = 1

\* What vSoundfromSD has set up so far.
SetUp ==
  playback = "starting" /\ Undisturbed =>
    /\ pc # "pwmdone" => cPwmDone = 0
    /\ pc \notin {"pwmdone", "sptr", "noread"} => ucReadSndBuff = 0
    /\ pc \notin {"pwmdone", "sptr", "noread", "malloc1"} => pbSoundbuff[1] \in live
    /\ pc \in {"open", "first", "setup", "timer", "ready"} =>
         pbSoundbuff[2] \in live /\ pbSoundbuff[1] # pbSoundbuff[2]
    /\ pc \in {"first", "setup", "timer", "ready"} =>
         fileHandle = "snd" /\ sndOpen /\ sndLen \in Lengths
    /\ pc = "first" => sndPos = 0
    /\ pc \in {"setup", "timer", "ready"} =>
         sndPos = BufSize /\ \A i \in 1..BufSize : mem[pbSoundbuff[1]][i] = i
    /\ pc \in {"timer", "ready"} => ulSndBytes = BufSize /\ ucSoundFirst = 1 /\ ulSptr = 0

\* File position before the buffer being played, the positions at which buffers
\* begin, and the end of a read from p on
Base == Len(out) - ulSptr
Multiple(n) == \E q \in 0..n : n = q * BufSize
ReadTo(p) == IF p + BufSize < sndLen THEN p + BufSize ELSE sndLen
Idle == IF bSndReady = 1 THEN 2 ELSE 1
\* The block holds the file from p on, as far as there is any.
Holds(block, p) == \A i \in 1..BufSize : p + i <= sndLen => mem[block][i] = p + i
\* The idle buffer has been refilled.
Refilled == ucSoundFirst # 1 /\ (ucReadSndBuff = 0 \/ pc = "clear")

InPlay == playback = "playing" /\ Undisturbed
Playing ==
  InPlay =>
    /\ pc \in {"loop", "read", "clear"}
    /\ cPwmDone = 0 /\ fileHandle = "snd" /\ sndOpen /\ sndLen \in Lengths
    /\ pbSoundbuff[1] \in live /\ pbSoundbuff[2] \in live /\ pbSoundbuff[1] # pbSoundbuff[2]
    /\ bSndReady \in 1..2
    /\ ulSptr \in 0..BufSize /\ Base \in Nat /\ Multiple(Base)
    /\ Base <= sndLen /\ Len(out) <= sndLen
    /\ ucSoundFirst = 1 =>
         pc = "loop" /\ ulSptr = 0 /\ Base = 0 /\ bSndReady = 1 /\ ucReadSndBuff = 0
    /\ ucReadSndBuff \in {0, Idle}
    /\ pc = "read" => ucReadSndBuff # 0 /\ rdTarget = pbSoundbuff[Idle]
    /\ pc = "clear" => ucReadSndBuff # 0
    /\ Holds(pbSoundbuff[bSndReady], Base)
    /\ IF Refilled
         THEN /\ Holds(pbSoundbuff[Idle], Base + BufSize)
              /\ sndPos = ReadTo(Base + BufSize)
              /\ ulSndBytes = IF Base + BufSize < sndLen THEN sndPos - (Base + BufSize) ELSE 0
         ELSE sndPos = ReadTo(Base) /\ ulSndBytes = sndPos - Base
    \* a buffer that the file does not fill is not played to its end
    /\ Base + BufSize > sndLen => Base + ulSptr < sndLen

Heard == PlaysInOrder /\ TailLossBounded
Returned == playback = "ended" /\ Undisturbed => {pbSoundbuff[1], pbSoundbuff[2]} \intersect live = {}

SdInv == SdTypeOK /\ StartInv /\ SetUp /\ Playing /\ Heard /\ Returned

-----------------------------------------------------------------------------
(* Numbers and blocks                                                      *)

\* A set of numbers has a least one: malloc takes the first free block.
LEMMA LeastNumber ==
  ASSUME NEW S \in SUBSET Nat, S # {}
  PROVE  \E n \in S : \A m \in S : n <= m
<1>1. PICK n \in S : \A m \in S : ~ (<<m, n>> \in OpToRel(<, Nat))
  BY NatLessThanWellFounded, WFMin
<1>2. \A m \in S : ~ (m < n)
  BY <1>1 DEF OpToRel
<1> QED
  BY <1>2

\* So malloc's block is one that was not allocated.
LEMMA FirstFreeIsFree ==
  ASSUME FreeBlocks # {}
  PROVE  FirstFree \in Blocks /\ FirstFree \notin live /\ FirstFree # 0
<1>1. FreeBlocks \in SUBSET Nat
  BY BlocksAssumption DEF FreeBlocks
<1>2. \E b \in FreeBlocks : \A c \in FreeBlocks : b <= c
  BY <1>1, LeastNumber
<1>3. FirstFree \in FreeBlocks
  BY <1>2 DEF FirstFree
<1> QED
  BY <1>3, BlocksAssumption DEF FreeBlocks

\* The file positions at which buffers begin are multiples of the buffer.
LEMMA NextMultiple ==
  ASSUME NEW n \in Nat, Multiple(n)
  PROVE  Multiple(n + BufSize)
<1>1. PICK q \in 0..n : n = q * BufSize
  BY DEF Multiple
<1>2. q + 1 \in 0..(n + BufSize) /\ n + BufSize = (q + 1) * BufSize
  BY <1>1, BufSizeAssumption, Z3
<1> QED
  BY <1>2 DEF Multiple

\* The first of them
LEMMA ZeroMultiple == Multiple(0)
<1>1. 0 \in 0..0 /\ 0 = 0 * BufSize
  BY BufSizeAssumption
<1> QED
  BY <1>1 DEF Multiple

\* A file that ends with a full buffer
LEMMA MultipleModulo ==
  ASSUME NEW n \in Nat, Multiple(n)
  PROVE  n % BufSize = 0
<1>1. PICK q \in 0..n : n = q * BufSize
  BY DEF Multiple
<1>2. (q * BufSize) % BufSize = 0
  BY BufSizeAssumption, Z3
<1> QED
  BY <1>1, <1>2

\* A read returns no more than there is, nor than the buffer holds.
LEMMA ChunkRead ==
  ASSUME SdTypeOK
  PROVE  /\ ChunkLen \in 0..BufSize /\ sndPos + ChunkLen \in 0..sndLen
         /\ sndPos + BufSize < sndLen => ChunkLen = BufSize
         /\ ~(sndPos + BufSize < sndLen) => sndPos + ChunkLen = sndLen
  BY BufSizeAssumption DEF SdTypeOK, ChunkLen

\* What malloc returns, and what it leaves of the heap.
LEMMA MallocTypes ==
  ASSUME SdTypeOK, NEW n \in 1..2, NEW here, NEW next \in Pcs, SoundMalloc(n, here, next)
  PROVE  SdTypeOK'
<1>1. /\ sndLen' \in Nat /\ sndPos' \in 0..sndLen' /\ ulSptr' \in Nat /\ ulSndBytes' \in Nat
      /\ bSndReady' \in 0..2 /\ ucReadSndBuff' \in 0..2 /\ out' \in Seq(Nat)
  BY DEF SdTypeOK, SoundMalloc, fileVars, soundVars
<1>2. CASE FreeBlocks # {}
  <2>1. FirstFree \in Blocks
    BY <1>2, FirstFreeIsFree
  <2>2. Garbage \in [1..BufSize -> Nat]
    BY DEF Garbage
  <2>3. /\ pbSoundbuff' = [pbSoundbuff EXCEPT ![n] = FirstFree]
        /\ live' = live \union {FirstFree} /\ mem' = [mem EXCEPT ![FirstFree] = Garbage]
        /\ pc' = next
    BY <1>2 DEF SoundMalloc
  <2> HIDE DEF FirstFree, Garbage
  <2>4. /\ pc' \in Pcs /\ pbSoundbuff' \in [1..2 -> Blocks \union {0}]
        /\ mem' \in [Blocks -> [1..BufSize -> Nat]] /\ live' \subseteq Blocks
    BY <2>1, <2>2, <2>3 DEF SdTypeOK
  <2> QED
    BY <1>1, <2>4 DEF SdTypeOK
<1>3. CASE FreeBlocks = {}
  <2>1. /\ pc' \in Pcs /\ pbSoundbuff' \in [1..2 -> Blocks \union {0}]
        /\ mem' \in [Blocks -> [1..BufSize -> Nat]] /\ live' \subseteq Blocks
    BY <1>3 DEF SdTypeOK, SoundMalloc, Pcs
  <2> QED
    BY <1>1, <2>1 DEF SdTypeOK
<1> QED
  BY <1>2, <1>3

\* A block that has been read into holds file positions.
LEMMA FilledTypes ==
  ASSUME SdTypeOK, NEW block
  PROVE  [mem EXCEPT ![block] = Filled(block)] \in [Blocks -> [1..BufSize -> Nat]]
<1>1. CASE block \in Blocks
  <2>1. Filled(block) \in [1..BufSize -> Nat]
    <3>1. ASSUME NEW i \in 1..BufSize
          PROVE  (IF i <= ChunkLen THEN sndPos + i ELSE mem[block][i]) \in Nat
      <4>1. mem[block][i] \in Nat /\ sndPos + i \in Nat
        BY <1>1, BufSizeAssumption DEF SdTypeOK
      <4> QED
        BY <4>1
    <3> QED
      BY <3>1 DEF Filled
  <2> QED
    BY <2>1 DEF SdTypeOK
<1>2. CASE block \notin Blocks
  <2>1. [mem EXCEPT ![block] = Filled(block)] = mem
    BY <1>2 DEF SdTypeOK
  <2> QED
    BY <2>1 DEF SdTypeOK
<1> QED
  BY <1>1, <1>2

\* The byte output is a file position, or 0.
LEMMA PlayedTypes ==
  ASSUME SdTypeOK
  PROVE  PlayFrom \in 0..2 /\ PlayAt \in 0..(BufSize - 1) /\ Played \in Nat /\ Request \in 0..2
<1>1. PlayFrom \in 0..2 /\ PlayAt \in 0..(BufSize - 1) /\ Request \in 0..2
  BY BufSizeAssumption DEF SdTypeOK, PlayFrom, PlayAt, UsedUp, Request
<1>2. Played \in Nat
  BY <1>1, BufSizeAssumption DEF SdTypeOK, Played
<1> QED
  BY <1>1, <1>2

\* Every step keeps the types.
LEMMA SdTypes == SdTypeOK /\ [Next]_vars => SdTypeOK'
<1> SUFFICES ASSUME SdTypeOK, [Next]_vars PROVE SdTypeOK'
  OBVIOUS
<1> USE DEF SdTypeOK, Pcs, Starting, sdVars, fileVars, soundVars, heapVars, countVars
<1>1. CASE UNCHANGED vars
  BY <1>1 DEF vars
<1>2. CASE SD_State
  BY <1>2 DEF SD_State, SdMount, SdIdle
<1>3. CASE RdTest \/ RdClear
  BY <1>3 DEF RdTest, RdClear
<1>4. CASE RdFill
  <2>1. mem' \in [Blocks -> [1..BufSize -> Nat]]
    <3>1. mem' = [mem EXCEPT ![rdTarget] = Filled(rdTarget)] \/ mem' = mem
      BY <1>4 DEF RdFill
    <3> QED
      BY <3>1, FilledTypes, ZenonT(60)
  <2>2. sndPos' \in 0..sndLen /\ ulSndBytes' \in Nat
    BY <1>4, ChunkRead, BufSizeAssumption DEF RdFill, ReadFailed
  <2> QED
    BY <1>4, <2>1, <2>2 DEF RdFill
<1>5. CASE SoundStart
  BY <1>5 DEF SoundStart
<1>6. CASE SoundPwmDone \/ SoundSptr \/ SoundNoRead
  BY <1>6 DEF SoundPwmDone, SoundSptr, SoundNoRead
<1>7. CASE SoundMalloc1 \/ SoundMalloc2
  BY <1>7, MallocTypes DEF SoundMalloc1, SoundMalloc2
<1>8. CASE SoundOpen
  BY <1>8, LengthsAssumption DEF SoundOpen
<1>9. CASE SoundNoFile \/ SoundReady
  BY <1>9 DEF SoundNoFile, SoundReady
<1>10. CASE SoundFirst
  <2>1. mem' \in [Blocks -> [1..BufSize -> Nat]]
    <3>1. mem' = [mem EXCEPT ![pbSoundbuff[1]] = Filled(pbSoundbuff[1])] \/ mem' = mem
      BY <1>10 DEF SoundFirst
    <3>2. [mem EXCEPT ![pbSoundbuff[1]] = Filled(pbSoundbuff[1])] \in [Blocks -> [1..BufSize -> Nat]]
      BY FilledTypes
    <3> QED
      BY <3>1, <3>2
  <2>2. sndPos' \in 0..sndLen
    BY <1>10, ChunkRead DEF SoundFirst
  <2> QED
    BY <1>10, <2>1, <2>2 DEF SoundFirst
<1>11. CASE SoundSetup \/ SoundTimer
  <2>1. ulSndBytes' \in Nat /\ ulSptr' \in Nat
    BY <1>11, BufSizeAssumption DEF SoundSetup, SoundTimer
  <2>2. UNCHANGED <<sndLen, sndPos, bSndReady, ucReadSndBuff, pbSoundbuff, mem, out, live>>
    BY <1>11 DEF SoundSetup, SoundTimer
  <2>3. pc' \in Pcs
    BY <1>11 DEF SoundSetup, SoundTimer
  <2> QED
    BY <2>1, <2>2, <2>3
<1>12. CASE vPicturefromSD
  BY <1>12 DEF vPicturefromSD, PictureOpen, PictureClose
<1>13. CASE TickSilent
  BY <1>13, PlayedTypes DEF TickSilent
<1>14. CASE TickPlay
  <2>1. out' \in Seq(Nat)
    BY <1>14, PlayedTypes, AppendProperties DEF TickPlay
  <2>2. live' \subseteq Blocks
    BY <1>14 DEF TickPlay, FreeBoth
  <2>3. ulSptr' \in Nat /\ bSndReady' \in 0..2 /\ ucReadSndBuff' \in 0..2
    <3>1. PlayFrom \in 0..2 /\ PlayAt + 1 \in Nat /\ Request \in 0..2
      BY PlayedTypes, BufSizeAssumption
    <3> QED
      BY <1>14, <3>1 DEF TickPlay
  <2> QED
    BY <1>14, <2>1, <2>2, <2>3 DEF TickPlay
<1> QED
  BY <1>1, <1>2, <1>3, <1>4, <1>5, <1>6, <1>7, <1>8, <1>9, <1>10, <1>11, <1>12, <1>13, <1>14
     DEF Next, vSndRd, vSoundfromSD, timer4_handler

-----------------------------------------------------------------------------
(* The steps of the main loop                                              *)

\* All of the invariant but the types
Rest == StartInv /\ SetUp /\ Playing /\ Heard /\ Returned

\* Nothing of a playback is touched while one is starting or played.
LEMMA CardSteps ==
  ASSUME SdInv, SD_State \/ RdTest \/ RdClear \/ PictureClose
  PROVE  Rest'
<1> USE DEF SD_State, SdMount, SdIdle, RdTest, RdClear, PictureClose,
            sdVars, fileVars, soundVars, heapVars, countVars
<1> DEFINE others == <<sndLen, sndPos, sndOpen, cPwmDone, ulSptr, ulSndBytes, bSndReady,
                       ucSoundFirst, pbSoundbuff, live, mem, playback, out, disturbed>>
<1>1. UNCHANGED others /\ pc \notin Starting /\ pc' \notin Starting
  BY DEF Starting
<1>2. StartInv' /\ SetUp'
  BY <1>1 DEF SdInv, StartInv, SetUp, Undisturbed
<1>3. Heard' /\ Returned'
  BY <1>1 DEF SdInv, Heard, PlaysInOrder, TailLossBounded, Returned, Undisturbed
<1>4. Playing'
  <2> SUFFICES ASSUME InPlay PROVE Playing'
    BY <1>1 DEF InPlay, Undisturbed, Playing
  <2>1. Base' = Base /\ Idle' = Idle /\ \A p : ReadTo(p)' = ReadTo(p)
    BY <1>1 DEF Base, Idle, ReadTo
  <2>2. \A b, p : Holds(b, p) => Holds(b, p)'
    BY <1>1 DEF Holds
  <2>3. pc # "picture" /\ fileHandle' = fileHandle
    BY DEF SdInv, Playing
  <2>4. Refilled' <=> Refilled
    BY <1>1, <2>3 DEF SdInv, Playing, Refilled, InPlay
  <2>5. /\ pc' \in {"loop", "read", "clear"}
        /\ ucSoundFirst' = 1 => pc' = "loop" /\ ucReadSndBuff' = 0
        /\ ucReadSndBuff' \in {0, Idle'}
        /\ pc' = "read" => ucReadSndBuff' # 0 /\ rdTarget' = pbSoundbuff[Idle]
        /\ pc' = "clear" => ucReadSndBuff' # 0
    BY <1>1, <2>1, <2>3 DEF SdInv, Playing, InPlay
  <2> HIDE DEF SD_State, SdMount, SdIdle, RdTest, RdClear, PictureClose
  <2>6. Holds(pbSoundbuff[bSndReady], Base)'
    BY <1>1, <2>1, <2>2 DEF SdInv, Playing, Holds
  <2> QED
    BY <1>1, <2>1, <2>2, <2>3, <2>4, <2>5, <2>6 DEF SdInv, Playing, InPlay
<1> QED
  BY <1>2, <1>3, <1>4 DEF Rest

\* A picture taken during a playback is what `disturbed` records.
LEMMA PictureStep ==
  ASSUME SdInv, PictureOpen
  PROVE  Rest'
<1>1. StartInv'
  BY DEF SdInv, StartInv, PictureOpen, soundVars, Starting
<1>2. playback' = playback /\ (InPlayback \/ disturbed' = disturbed)
  BY DEF PictureOpen
<1>3. InPlayback => disturbed' # {}
  BY DEF PictureOpen
<1>4. SetUp' /\ Playing'
  BY <1>2, <1>3 DEF SetUp, Playing, InPlay, Undisturbed, InPlayback, PictureOpen, StartInv, SdInv
<1>5. UNCHANGED <<out, sndLen, pbSoundbuff, live>>
  BY DEF PictureOpen, heapVars
<1>6. Heard' /\ Returned'
  BY <1>2, <1>3, <1>5 DEF SdInv, Heard, PlaysInOrder, TailLossBounded, Returned, Undisturbed, InPlayback
<1> QED
  BY <1>1, <1>4, <1>6 DEF Rest

\* The end of a read from where the read before it ended.
LEMMA ReadsOn ==
  ASSUME NEW b \in Nat, NEW c \in 0..BufSize, sndLen \in Nat, sndPos = ReadTo(b),
         sndPos + BufSize < sndLen => c = BufSize,
         ~(sndPos + BufSize < sndLen) => sndPos + c = sndLen
  PROVE  /\ sndPos = ReadTo(b) /\ sndPos + c = ReadTo(b + BufSize)
         /\ c = IF b + BufSize < sndLen THEN sndPos + c - (b + BufSize) ELSE 0
<1>1. CASE b + BufSize < sndLen
  BY <1>1, BufSizeAssumption DEF ReadTo
<1>2. CASE ~(b + BufSize < sndLen)
  BY <1>2, BufSizeAssumption DEF ReadTo
<1> QED
  BY <1>1, <1>2

\* The refill: the idle buffer gets the file from the end of the one played on.
LEMMA FillStep ==
  ASSUME SdInv, RdFill
  PROVE  Rest'
<1>1. UNCHANGED <<sndLen, sndOpen, fileHandle, cPwmDone, ulSptr, bSndReady, ucReadSndBuff,
                  ucSoundFirst, pbSoundbuff, live, playback, out>>
  BY DEF RdFill
<1>2. pc = "read" /\ pc' = "clear" /\ playback # "starting"
  BY DEF RdFill, SdInv, StartInv, Starting
<1>3. disturbed' = {} => disturbed = {}
  BY DEF RdFill
<1>4. StartInv' /\ SetUp'
  BY <1>1, <1>2 DEF SdInv, StartInv, SetUp, Starting
<1>5. Heard' /\ Returned'
  BY <1>1, <1>3 DEF SdInv, Heard, PlaysInOrder, TailLossBounded, Returned, Undisturbed
<1>6. Playing'
  <2> SUFFICES ASSUME InPlay' PROVE Playing'
    BY DEF Playing
  <2>1. InPlay /\ disturbed = {} /\ disturbed' = {}
    BY <1>1, <1>3 DEF InPlay, Undisturbed
  <2>2. /\ mem' = [mem EXCEPT ![rdTarget] = Filled(rdTarget)]
        /\ sndPos' = sndPos + ChunkLen /\ ulSndBytes' = ChunkLen
    BY <2>1 DEF RdFill
  <2>3. /\ ucReadSndBuff = Idle /\ Idle # 0 /\ rdTarget = pbSoundbuff[Idle] /\ ucSoundFirst # 1
        /\ ~Refilled /\ sndPos = ReadTo(Base) /\ Base \in Nat /\ Base <= sndLen
        /\ bSndReady \in 1..2 /\ Holds(pbSoundbuff[bSndReady], Base)
        /\ pbSoundbuff[1] \in Blocks /\ pbSoundbuff[2] \in Blocks /\ pbSoundbuff[1] # pbSoundbuff[2]
        /\ mem \in [Blocks -> [1..BufSize -> Nat]] /\ sndLen \in Nat /\ sndPos \in 0..sndLen
    BY <1>2, <2>1 DEF SdInv, SdTypeOK, Playing, Refilled, Idle
  <2>4. Base' = Base /\ Idle' = Idle /\ \A p : ReadTo(p)' = ReadTo(p)
    BY <1>1 DEF Base, Idle, ReadTo
  <2>5. Refilled'
    BY <1>1, <1>2, <2>3 DEF Refilled
  <2>6. pbSoundbuff[bSndReady] # rdTarget /\ rdTarget \in Blocks /\ pbSoundbuff[bSndReady] \in Blocks
    BY <2>3 DEF Idle
  <2>7. /\ ChunkLen \in 0..BufSize
        /\ sndPos + BufSize < sndLen => ChunkLen = BufSize
        /\ ~(sndPos + BufSize < sndLen) => sndPos + ChunkLen = sndLen
    BY ChunkRead DEF SdInv
  <2>8. Holds(pbSoundbuff[bSndReady], Base)'
    BY <1>1, <2>2, <2>3, <2>4, <2>6 DEF Holds
  <2>13. PICK c \in 0..BufSize : c = ChunkLen
    BY <2>7
  <2>14. PICK b \in Nat : b = Base
    BY <2>3
  <2>15. sndPos = ReadTo(b) /\ sndPos + c = ReadTo(b + BufSize)
         /\ c = IF b + BufSize < sndLen THEN sndPos + c - (b + BufSize) ELSE 0
    <3>1. sndPos + BufSize < sndLen => c = BufSize
      BY <2>7, <2>13
    <3>2. ~(sndPos + BufSize < sndLen) => sndPos + c = sndLen
      BY <2>7, <2>13
    <3> QED
      BY <2>3, <2>14, <3>1, <3>2, ReadsOn
  <2>9. sndPos' = ReadTo(Base + BufSize)'
    BY <2>2, <2>4, <2>13, <2>14, <2>15
  <2>10. ulSndBytes' = IF Base + BufSize < sndLen THEN sndPos' - (Base + BufSize) ELSE 0
    <3>1. Base + BufSize = b + BufSize /\ sndPos' = sndPos + c /\ ulSndBytes' = c
      BY <2>2, <2>13, <2>14
    <3>2. ulSndBytes' = IF b + BufSize < sndLen THEN sndPos' - (b + BufSize) ELSE 0
      BY <2>3, <2>13, <2>14, <2>15, <3>1, BufSizeAssumption
    <3> QED
      BY <3>1, <3>2, Zenon
  <2>11. Holds(pbSoundbuff[Idle], Base + BufSize)'
    <3> SUFFICES ASSUME NEW i \in 1..BufSize, Base + BufSize + i <= sndLen
                 PROVE  mem'[rdTarget][i] = Base + BufSize + i
      BY <1>1, <2>3, <2>4 DEF Holds
    <3>1. sndPos = Base + BufSize /\ i <= ChunkLen
      BY <2>3, <2>7, BufSizeAssumption DEF ReadTo, ChunkLen
    <3>2. mem'[rdTarget][i] = sndPos + i
      BY <2>2, <2>3, <2>6, <3>1 DEF Filled
    <3> QED
      BY <3>1, <3>2
  <2>12. ucReadSndBuff' # 0 /\ ucReadSndBuff' \in {0, Idle'}
    BY <1>1, <2>3, <2>4
  <2> QED
    BY <1>1, <1>2, <2>1, <2>3, <2>4, <2>5, <2>8, <2>9, <2>10, <2>11, <2>12
       DEF SdInv, Playing
<1> QED
  BY <1>4, <1>5, <1>6 DEF Rest

-----------------------------------------------------------------------------
(* The steps of vSoundfromSD                                               *)

\* While nothing is heard, only the setting up is at stake.
LEMMA StillSilent ==
  ASSUME out' = <<>>, playback' \in {"starting", "failed"},
         playback' = "starting" <=> pc' \in Starting
  PROVE  StartInv' /\ Playing' /\ Heard' /\ Returned'
<1>1. Len(out') = 0
  OBVIOUS
<1> QED
  BY <1>1 DEF StartInv, Playing, InPlay, Heard, PlaysInOrder, TailLossBounded, Returned

\* SoundStart begins with nothing set up.
LEMMA StartStep ==
  ASSUME SdInv, SoundStart
  PROVE  Rest'
<1>1. pc' = "pwmdone" /\ playback' = "starting" /\ out' = <<>>
  BY DEF SoundStart
<1>2. SetUp'
  BY <1>1 DEF SetUp
<1> QED
  BY <1>1, <1>2, StillSilent DEF Rest, Starting

\* The flags, before there is memory.
LEMMA FlagSteps ==
  ASSUME SdInv, SoundPwmDone \/ SoundSptr \/ SoundNoRead
  PROVE  Rest'
<1> USE DEF SoundPwmDone, SoundSptr, SoundNoRead
<1>1. playback = "starting" /\ out = <<>>
  BY DEF SdInv, StartInv, Starting
<1>2. out' = <<>> /\ playback' = "starting" /\ pc' \in Starting
  BY <1>1 DEF Starting
<1>3. SetUp'
  BY <1>1, <1>2 DEF SdInv, SetUp, Undisturbed
<1> QED
  BY <1>2, <1>3, StillSilent DEF Rest

\* Each buffer is a block of its own.
LEMMA MallocSteps ==
  ASSUME SdInv, SoundMalloc1 \/ SoundMalloc2
  PROVE  Rest'
<1> USE DEF SoundMalloc1, SoundMalloc2, SoundMalloc
<1>1. playback = "starting" /\ out = <<>>
  BY DEF SdInv, StartInv, Starting
<1>2. out' = <<>> /\ UNCHANGED <<disturbed, cPwmDone, ucReadSndBuff>>
  BY <1>1 DEF soundVars
<1>3. CASE FreeBlocks = {}
  <2>1. playback' = "failed" /\ pc' = "loop"
    BY <1>3
  <2> QED
    BY <1>2, <2>1, StillSilent DEF Rest, SetUp, Starting
<1>4. CASE FreeBlocks # {}
  <2>1. FirstFree \notin live
    BY <1>4, FirstFreeIsFree
  <2>2. playback' = "starting" /\ live' = live \union {FirstFree}
    BY <1>1, <1>4
  <2>3. cPwmDone = 0 \/ ~Undisturbed
    BY <1>1 DEF SdInv, SetUp
  <2>4. ucReadSndBuff = 0 \/ ~Undisturbed
    BY <1>1 DEF SdInv, SetUp
  <2>5. pbSoundbuff \in [1..2 -> Blocks \union {0}]
    BY DEF SdInv, SdTypeOK
  <2> HIDE DEF FirstFree
  <2>6. CASE SoundMalloc1
    <3>1. pc' = "malloc2" /\ pbSoundbuff'[1] = FirstFree
      BY <1>4, <2>5, <2>6 DEF SdInv, StartInv, Starting
    <3>2. SetUp'
      BY <1>2, <2>2, <2>3, <2>4, <3>1 DEF SetUp, Undisturbed
    <3> QED
      BY <1>2, <2>2, <3>1, <3>2, StillSilent DEF Rest, Starting
  <2>7. CASE SoundMalloc2
    <3>1. pc' = "open" /\ pbSoundbuff'[2] = FirstFree /\ pbSoundbuff'[1] = pbSoundbuff[1]
      BY <1>4, <2>5, <2>7
    <3>2. pbSoundbuff[1] \in live \/ ~Undisturbed
      BY <1>1, <2>7 DEF SdInv, SetUp
    <3>3. SetUp'
      BY <1>2, <2>1, <2>2, <2>3, <2>4, <3>1, <3>2 DEF SetUp, Undisturbed
    <3> QED
      BY <1>2, <2>2, <3>1, <3>3, StillSilent DEF Rest, Starting
  <2> QED
    BY <2>6, <2>7
<1> QED
  BY <1>3, <1>4

\* The file is opened at its beginning, or is not there.
LEMMA OpenSteps ==
  ASSUME SdInv, SoundOpen \/ SoundNoFile
  PROVE  Rest'
<1>1. playback = "starting" /\ out = <<>>
  BY DEF SdInv, StartInv, Starting, SoundOpen, SoundNoFile
<1>2. CASE SoundNoFile
  <2>1. out' = <<>> /\ playback' = "failed" /\ pc' = "loop"
    BY <1>1, <1>2 DEF SoundNoFile
  <2> QED
    BY <2>1, StillSilent DEF Rest, SetUp, Starting
<1>3. CASE SoundOpen
  <2>1. out' = <<>> /\ playback' = "starting" /\ pc' = "first"
    BY <1>1, <1>3 DEF SoundOpen
  <2>2. SetUp'
    BY <1>1, <1>3, <2>1 DEF SdInv, SetUp, SoundOpen, soundVars, heapVars, Undisturbed
  <2> QED
    BY <2>1, <2>2, StillSilent DEF Rest, Starting
<1> QED
  BY <1>2, <1>3

\* The first buffer gets the beginning of the file, which is longer than it.
LEMMA FirstStep ==
  ASSUME SdInv, SoundFirst
  PROVE  Rest'
<1>1. playback = "starting" /\ out = <<>> /\ pc = "first"
  BY DEF SdInv, StartInv, Starting, SoundFirst
<1>2. CASE ~ReadWorks
  <2>1. out' = <<>> /\ playback' = "failed" /\ pc' = "loop"
    BY <1>1, <1>2 DEF SoundFirst
  <2> QED
    BY <2>1, StillSilent DEF Rest, SetUp, Starting
<1>3. CASE ReadWorks
  <2>1. out' = <<>> /\ playback' = "starting" /\ pc' = "setup"
    BY <1>1, <1>3 DEF SoundFirst
  <2>2. SetUp'
    <3> SUFFICES ASSUME disturbed' = {} PROVE SetUp'
      BY DEF SetUp, Undisturbed
    <3>1. /\ cPwmDone = 0 /\ ucReadSndBuff = 0 /\ pbSoundbuff[1] \in live /\ pbSoundbuff[2] \in live
          /\ pbSoundbuff[1] # pbSoundbuff[2] /\ fileHandle = "snd" /\ sndOpen
          /\ sndLen \in Lengths /\ sndPos = 0
      BY <1>1 DEF SdInv, SetUp, SoundFirst, Undisturbed
    <3>2. UNCHANGED <<cPwmDone, ucReadSndBuff, pbSoundbuff, live, fileHandle, sndOpen, sndLen>>
      BY DEF SoundFirst, soundVars
    <3>3. mem' = [mem EXCEPT ![pbSoundbuff[1]] = Filled(pbSoundbuff[1])] /\ sndPos' = sndPos + ChunkLen
      BY <1>3 DEF SoundFirst
    <3>4. sndLen \in Nat /\ sndLen >= BufSize
      BY <3>1, LengthsAssumption, BufSizeAssumption
    <3>5. ChunkLen = BufSize
      BY <3>1, <3>4, BufSizeAssumption DEF ChunkLen
    <3>6. pbSoundbuff[1] \in Blocks /\ mem \in [Blocks -> [1..BufSize -> Nat]]
      BY <3>1 DEF SdInv, SdTypeOK
    <3>7. sndPos' = BufSize
      BY <3>1, <3>3, <3>5, BufSizeAssumption
    <3>8. \A i \in 1..BufSize : mem'[pbSoundbuff[1]][i] = i
      BY <3>1, <3>3, <3>5, <3>6, BufSizeAssumption DEF Filled
    <3> QED
      BY <2>1, <3>1, <3>2, <3>7, <3>8 DEF SetUp
  <2> QED
    BY <2>1, <2>2, StillSilent DEF Rest, Starting
<1> QED
  BY <1>2, <1>3

\* The counters and the timer
LEMMA TimerSteps ==
  ASSUME SdInv, SoundSetup \/ SoundTimer
  PROVE  Rest'
<1>1. playback = "starting" /\ out = <<>>
  BY DEF SdInv, StartInv, Starting, SoundSetup, SoundTimer
<1>2. out' = <<>> /\ playback' = "starting" /\ pc' \in {"timer", "ready"}
  BY <1>1 DEF SoundSetup, SoundTimer
<1>3. SetUp'
  BY <1>1, <1>2 DEF SdInv, SetUp, SoundSetup, SoundTimer, fileVars, heapVars, Undisturbed
<1> QED
  BY <1>2, <1>3, StillSilent DEF Rest, Starting

\* With bSndReady the first buffer is played from its beginning.
LEMMA ReadyStep ==
  ASSUME SdInv, SoundReady
  PROVE  Rest'
<1>1. playback = "starting" /\ out = <<>> /\ pc = "ready"
  BY DEF SdInv, StartInv, Starting, SoundReady
<1>2. playback' = "playing" /\ pc' = "loop" /\ out' = <<>> /\ bSndReady' = 1
  BY <1>1 DEF SoundReady
<1>3. StartInv' /\ SetUp' /\ Returned'
  BY <1>2 DEF StartInv, SetUp, Returned, Starting
<1>4. Len(out') = 0
  BY <1>2
<1>5. Heard'
  BY <1>2, <1>4 DEF Heard, PlaysInOrder, TailLossBounded
<1>6. Playing'
  <2> SUFFICES ASSUME disturbed' = {} PROVE Playing'
    BY DEF Playing, InPlay, Undisturbed
  <2>1. UNCHANGED <<cPwmDone, fileHandle, sndOpen, sndLen, sndPos, pbSoundbuff, live, mem, ulSptr,
                    ucReadSndBuff, ulSndBytes, ucSoundFirst, disturbed>>
    BY DEF SoundReady, fileVars, heapVars
  <2>2. /\ cPwmDone = 0 /\ ucReadSndBuff = 0 /\ pbSoundbuff[1] \in live /\ pbSoundbuff[2] \in live
        /\ pbSoundbuff[1] # pbSoundbuff[2] /\ fileHandle = "snd" /\ sndOpen
        /\ sndLen \in Lengths /\ sndPos = BufSize /\ \A i \in 1..BufSize : mem[pbSoundbuff[1]][i] = i
        /\ ulSndBytes = BufSize /\ ucSoundFirst = 1 /\ ulSptr = 0
    BY <1>1, <2>1 DEF SdInv, SetUp, Undisturbed
  <2>3. sndLen \in Nat /\ sndLen >= BufSize /\ sndLen > 0
    BY <2>2, LengthsAssumption, BufSizeAssumption
  <2>4. Base' = 0 /\ ~Refilled' /\ 0 \in Nat /\ Multiple(0)' /\ Idle' = 2
    <3>1. Multiple(0)
      BY ZeroMultiple
    <3> QED
      BY <1>2, <1>4, <2>1, <2>2, <3>1 DEF Base, Refilled, Multiple, Idle
  <2>5. ReadTo(0)' = BufSize
    BY <2>1, <2>3, BufSizeAssumption DEF ReadTo
  <2>6. Holds(pbSoundbuff[bSndReady], Base)'
    BY <1>2, <2>1, <2>2, <2>4, BufSizeAssumption DEF Holds
  <2>7. (Base + BufSize > sndLen => Base + ulSptr < sndLen)'
    BY <2>1, <2>2, <2>3, <2>4, BufSizeAssumption
  <2>8. sndPos' = ReadTo(Base)' /\ ulSndBytes' = sndPos' - Base'
    BY <2>1, <2>2, <2>4, <2>5, BufSizeAssumption
  <2>9. ulSptr' \in 0..BufSize /\ Base' <= sndLen' /\ Len(out') <= sndLen'
    BY <1>4, <2>1, <2>2, <2>3, <2>4, BufSizeAssumption
  <2> QED
    BY <1>2, <2>1, <2>2, <2>4, <2>6, <2>7, <2>8, <2>9 DEF Playing
<1> QED
  BY <1>3, <1>5, <1>6 DEF Rest

-----------------------------------------------------------------------------
(* The ticks of timer 4                                                    *)

\* After the end of the file the ticks play nothing.
LEMMA SilentTick ==
  ASSUME SdInv, TickSilent
  PROVE  Rest'
<1> USE DEF TickSilent, sdVars, fileVars, heapVars, countVars
<1>1. StartInv' /\ Heard' /\ Returned'
  BY DEF SdInv, StartInv, Heard, PlaysInOrder, TailLossBounded, Returned, Undisturbed
<1>2. cPwmDone = 1 /\ UNCHANGED <<pc, playback, disturbed>>
  OBVIOUS
<1>3. SetUp'
  BY <1>2 DEF SdInv, SetUp, StartInv, Starting, Undisturbed
<1>4. ~InPlay
  BY <1>2 DEF SdInv, Playing
<1>5. Playing'
  BY <1>2, <1>4 DEF Playing, InPlay, Undisturbed
<1> QED
  BY <1>1, <1>3, <1>5 DEF Rest

\* A tick that breaks a reliance, or comes after one was broken, is not heard.
LEMMA DisturbedTick ==
  ASSUME SdInv, TickPlay, disturbed' # {}
  PROVE  Rest'
<1>1. out' = out /\ UNCHANGED <<pc, sndLen>>
  BY DEF TickPlay
<1>2. playback' = playback \/ (playback = "playing" /\ playback' = "ended" /\ cPwmDone' = 1)
  BY DEF TickPlay
<1>3. cPwmDone = 0 /\ (playback' = "ended" => cPwmDone' = 1)
  BY DEF SdInv, StartInv, TickPlay
<1>4. StartInv'
  BY <1>1, <1>2, <1>3 DEF SdInv, StartInv
<1>5. Heard'
  BY <1>1, <1>2 DEF SdInv, Heard, PlaysInOrder, TailLossBounded, Undisturbed
<1>6. SetUp' /\ Playing' /\ Returned'
  BY DEF SetUp, Playing, InPlay, Returned, Undisturbed
<1> QED
  BY <1>4, <1>5, <1>6 DEF Rest

\* Where the buffer played in an undisturbed tick begins
NewBase == IF UsedUp THEN Base + BufSize ELSE Base

\* The interrupt takes the other buffer only after it was refilled.
LEMMA UndisturbedTick ==
  ASSUME SdInv, TickPlay, disturbed' = {}
  PROVE  /\ InPlay /\ cPwmDone = 0
         /\ UsedUp => ucReadSndBuff = 0 /\ pc = "loop" /\ Refilled /\ ulSptr = BufSize
         /\ ~UsedUp => ulSptr \in 0..(BufSize - 1)
<1>1. disturbed = {} /\ Broken = {}
  BY DEF TickPlay
<1>2. pc # "ready" /\ ~(UsedUp /\ ucReadSndBuff # 0) /\ playback = "playing"
  BY <1>1 DEF Broken
<1>3. InPlay
  BY <1>1, <1>2 DEF InPlay, Undisturbed
<1>4. ulSptr \in 0..BufSize /\ cPwmDone = 0
  BY <1>3 DEF SdInv, Playing
<1>5. UsedUp => ulSptr = BufSize
  BY <1>4, BufSizeAssumption DEF UsedUp
<1>6. ~UsedUp => ulSptr \in 0..(BufSize - 1)
  BY <1>4, BufSizeAssumption DEF UsedUp
<1>7. UsedUp => ucSoundFirst # 1 /\ pc = "loop" /\ ucReadSndBuff = 0
  BY <1>2, <1>3, <1>5, BufSizeAssumption DEF SdInv, Playing
<1> QED
  BY <1>3, <1>4, <1>5, <1>6, <1>7 DEF Refilled

\* It plays the next byte of the file, if there is one.
LEMMA NextByte ==
  ASSUME SdInv, TickPlay, disturbed' = {}
  PROVE  /\ NewBase \in Nat /\ Multiple(NewBase) /\ NewBase <= sndLen
         /\ PlayFrom \in 1..2 /\ PlayAt \in 0..(BufSize - 1) /\ NewBase + PlayAt = Len(out)
         /\ Holds(pbSoundbuff[PlayFrom], NewBase)
         /\ Len(out) + 1 <= sndLen => Played = Len(out) + 1
         /\ Len(out) = sndLen => UsedUp
<1>1. /\ InPlay
      /\ UsedUp => Refilled /\ ulSptr = BufSize
      /\ ~UsedUp => ulSptr \in 0..(BufSize - 1)
  BY UndisturbedTick
<1>2. /\ pbSoundbuff \in [1..2 -> Blocks \union {0}] /\ sndLen \in Nat /\ out \in Seq(Nat)
      /\ mem \in [Blocks -> [1..BufSize -> Nat]]
  BY DEF SdInv, SdTypeOK
<1>3. /\ pbSoundbuff[1] \in Blocks /\ pbSoundbuff[2] \in Blocks
      /\ bSndReady \in 1..2 /\ Base \in Nat /\ Multiple(Base) /\ Base <= sndLen /\ Len(out) <= sndLen
      /\ Holds(pbSoundbuff[bSndReady], Base)
      /\ Refilled => Holds(pbSoundbuff[Idle], Base + BufSize)
      /\ Base + BufSize > sndLen => Base + ulSptr < sndLen
      /\ ulSptr \in 0..BufSize
  BY <1>1, <1>2 DEF SdInv, SdTypeOK, Playing
<1>4. PICK n \in Nat : n = Len(out)
  BY <1>2, LenProperties
<1>5. Base + ulSptr = n
  BY <1>3, <1>4 DEF Base
<1>6. PICK b \in Nat : b = Base
  BY <1>3
<1>7. PlayFrom \in 1..2 /\ PlayAt \in 0..(BufSize - 1)
  BY <1>1, <1>3, BufSizeAssumption DEF PlayFrom, PlayAt
<1>8. /\ NewBase \in Nat /\ Multiple(NewBase) /\ NewBase <= sndLen
      /\ NewBase + PlayAt = n /\ Holds(pbSoundbuff[PlayFrom], NewBase)
  <2>1. CASE UsedUp
    <3>1. NewBase = b + BufSize /\ PlayAt = 0 /\ PlayFrom = Idle
      BY <1>3, <1>6, <2>1 DEF NewBase, PlayAt, PlayFrom, Idle
    <3>2. ulSptr = BufSize /\ b + BufSize = n
      BY <1>1, <1>5, <1>6, <2>1
    <3>3. Multiple(b + BufSize)
      BY <1>3, <1>6, NextMultiple
    <3>4. Holds(pbSoundbuff[Idle], b + BufSize)
      BY <1>1, <1>3, <1>6, <2>1
    <3> QED
      BY <1>3, <1>4, <3>1, <3>2, <3>3, <3>4, BufSizeAssumption
  <2>2. CASE ~UsedUp
    <3>1. NewBase = b /\ PlayAt = ulSptr /\ PlayFrom = bSndReady
      BY <1>6, <2>2 DEF NewBase, PlayAt, PlayFrom
    <3> QED
      BY <1>3, <1>5, <1>6, <3>1
  <2> QED
    BY <2>1, <2>2
<1>9. PICK nb \in Nat : nb = NewBase
  BY <1>8
<1>10. ASSUME n + 1 <= sndLen
       PROVE  Played = n + 1
  <2>1. pbSoundbuff[PlayFrom] \in Blocks /\ pbSoundbuff[PlayFrom] # 0 /\ PlayFrom # 0
    BY <1>3, <1>7, BlocksAssumption
  <2>2. Played = mem[pbSoundbuff[PlayFrom]][PlayAt + 1]
    BY <2>1 DEF Played
  <2>3. PlayAt + 1 \in 1..BufSize /\ nb + (PlayAt + 1) = n + 1
    BY <1>7, <1>8, <1>9, BufSizeAssumption
  <2>4. mem[pbSoundbuff[PlayFrom]][PlayAt + 1] = nb + (PlayAt + 1)
    <3>1. \A i \in 1..BufSize : nb + i <= sndLen => mem[pbSoundbuff[PlayFrom]][i] = nb + i
      BY <1>8, <1>9 DEF Holds
    <3>2. nb + (PlayAt + 1) <= sndLen
      BY <1>10, <2>3
    <3> QED
      BY <2>3, <3>1, <3>2
  <2> QED
    BY <2>2, <2>3, <2>4
<1>11. n = sndLen => UsedUp
  <2> SUFFICES ASSUME n = sndLen, ~UsedUp PROVE FALSE
    OBVIOUS
  <2>1. b + ulSptr = sndLen /\ ulSptr \in 0..(BufSize - 1)
    BY <1>1, <1>5, <1>6
  <2>2. b + BufSize > sndLen => b + ulSptr < sndLen
    BY <1>3, <1>6
  <2> QED
    BY <1>2, <2>1, <2>2, BufSizeAssumption
<1> QED
  BY <1>3, <1>4, <1>7, <1>8, <1>10, <1>11

\* What was read bounds what is played: the end of the file is found at most a
\* buffer early, and in time.
LEMMA EndFound ==
  ASSUME SdInv, TickPlay, disturbed' = {}
  PROVE  /\ Len(out) \in 0..sndLen
         /\ EndOfFile => Len(out) + 1 >= sndLen - BufSize
         /\ ~EndOfFile => Len(out) + 1 <= sndLen
         /\ ~EndOfFile => (NewBase + BufSize > sndLen => Len(out) + 1 < sndLen)
<1>1. /\ InPlay
      /\ UsedUp => Refilled /\ ulSptr = BufSize
      /\ ~UsedUp => ulSptr \in 0..(BufSize - 1)
  BY UndisturbedTick
<1>2. PICK L \in Nat : L = sndLen
  BY DEF SdInv, SdTypeOK
<1>3. out \in Seq(Nat) /\ sndPos \in 0..L /\ ulSndBytes \in Nat
  BY <1>2 DEF SdInv, SdTypeOK
<1>4. PICK n \in Nat : n = Len(out)
  BY <1>3, LenProperties
<1>5. Base \in Nat /\ Base <= L /\ n <= L /\ (Base + BufSize > L => Base + ulSptr < L)
      /\ ulSptr \in 0..BufSize
  BY <1>1, <1>2, <1>4 DEF SdInv, Playing
<1>6. PICK b \in Nat : b = Base
  BY <1>5
<1>7. b + ulSptr = n /\ b <= L /\ (b + BufSize > L => b + ulSptr < L)
  BY <1>4, <1>5, <1>6 DEF Base
<1>8. Refilled => /\ sndPos = IF b + BufSize + BufSize < L THEN b + BufSize + BufSize ELSE L
                  /\ ulSndBytes = IF b + BufSize < L THEN sndPos - (b + BufSize) ELSE 0
  <2> SUFFICES ASSUME Refilled
               PROVE  /\ sndPos = ReadTo(b + BufSize)
                      /\ ulSndBytes = IF b + BufSize < sndLen THEN sndPos - (b + BufSize) ELSE 0
    BY <1>2 DEF ReadTo
  <2> QED
    BY <1>1, <1>6 DEF SdInv, Playing
<1>9. ~Refilled => /\ sndPos = IF b + BufSize < L THEN b + BufSize ELSE L
                   /\ ulSndBytes = sndPos - b
  <2> SUFFICES ASSUME ~Refilled
               PROVE  sndPos = ReadTo(b) /\ ulSndBytes = sndPos - b
    BY <1>2 DEF ReadTo
  <2> QED
    BY <1>1, <1>6 DEF SdInv, Playing
<1>10. CASE UsedUp
  <2>1. n = b + BufSize /\ PlayAt = 0 /\ NewBase = n
    BY <1>1, <1>6, <1>7, <1>10 DEF PlayAt, NewBase
  <2>2. /\ sndPos = IF n + BufSize < L THEN n + BufSize ELSE L
        /\ ulSndBytes = IF n < L THEN sndPos - n ELSE 0
    BY <1>1, <1>8, <1>10, <2>1, BufSizeAssumption
  <2>3. EndOfFile <=> 1 >= ulSndBytes /\ ulSndBytes < BufSize
    BY <2>1 DEF EndOfFile
  <2>4. EndOfFile => n + 1 >= L - BufSize
    BY <1>3, <1>5, <2>2, <2>3, BufSizeAssumption
  <2>5. n = L => EndOfFile
    BY <1>3, <2>2, <2>3, BufSizeAssumption
  <2>6. n + BufSize > L /\ ~(n + 1 < L) => EndOfFile
    BY <1>3, <1>5, <2>2, <2>3, BufSizeAssumption
  <2> QED
    BY <1>2, <1>4, <1>5, <2>1, <2>4, <2>5, <2>6
<1>11. CASE ~UsedUp
  <2>1. PlayAt = ulSptr /\ NewBase = b /\ ulSptr \in 0..(BufSize - 1)
    BY <1>1, <1>6, <1>11 DEF PlayAt, NewBase
  <2>2. EndOfFile <=> ulSptr + 1 >= ulSndBytes /\ ulSndBytes < BufSize
    BY <2>1 DEF EndOfFile
  <2>3. n < L
    BY <1>5, <1>7, <2>1, BufSizeAssumption
  <2>4. EndOfFile => n + 1 >= L - BufSize
    <3>1. CASE Refilled
      BY <1>3, <1>7, <1>8, <2>1, <2>2, <3>1, BufSizeAssumption
    <3>2. CASE ~Refilled
      BY <1>3, <1>7, <1>9, <2>1, <2>2, <3>2, BufSizeAssumption
    <3> QED
      BY <3>1, <3>2
  <2>5. b + BufSize > L /\ ~(n + 1 < L) => EndOfFile
    <3>1. CASE Refilled
      BY <1>3, <1>7, <1>8, <2>1, <2>2, <3>1, BufSizeAssumption
    <3>2. CASE ~Refilled
      BY <1>3, <1>7, <1>9, <2>1, <2>2, <3>2, BufSizeAssumption
    <3> QED
      BY <3>1, <3>2
  <2> QED
    BY <1>2, <1>4, <1>5, <2>1, <2>3, <2>4, <2>5
<1> QED
  BY <1>10, <1>11

\* The byte heard is the next one of the file, or follows its last full buffer.
LEMMA HeardTick ==
  ASSUME SdInv, TickPlay, disturbed' = {}
  PROVE  Heard' /\ Len(out') = Len(out) + 1
<1>1. out \in Seq(Nat) /\ Played \in Nat /\ sndLen \in Nat
  BY PlayedTypes DEF SdInv, SdTypeOK
<1>2. PICK n \in Nat : n = Len(out)
  BY <1>1, LenProperties
<1>3. n <= sndLen
  BY <1>1, <1>2, EndFound
<1>4. out' = Append(out, Played)
  BY <1>2, <1>3 DEF TickPlay
<1>5. Len(out') = n + 1 /\ out'[n + 1] = Played /\ \A i \in 1..n : out'[i] = out[i]
  BY <1>1, <1>2, <1>4, AppendProperties
<1>6. playback = "playing" /\ sndLen' = sndLen
  BY UndisturbedTick DEF InPlay, TickPlay
<1>7. \A i \in 1..n : out'[i] = i
  BY <1>2, <1>5, <1>6 DEF SdInv, Heard, PlaysInOrder
<1>8. \/ out'[n + 1] = n + 1
      \/ playback' = "ended" /\ sndLen % BufSize = 0 /\ n + 1 = sndLen + 1
  <2>1. CASE n + 1 <= sndLen
    BY <1>2, <1>5, <2>1, NextByte
  <2>2. CASE ~(n + 1 <= sndLen)
    <3>1. n = sndLen
      BY <1>1, <1>3, <2>2
    <3>2. UsedUp
      BY <1>2, <3>1, NextByte
    <3>3. NewBase = n /\ Multiple(NewBase)
      <4>1. PlayAt = 0 /\ NewBase \in Nat /\ NewBase + PlayAt = n /\ Multiple(NewBase)
        BY <1>2, <3>2, NextByte DEF PlayAt
      <4> QED
        BY <4>1
    <3>4. sndLen % BufSize = 0
      BY <1>1, <3>1, <3>3, MultipleModulo
    <3>5. playback' = "ended"
      <4>1. EndOfFile
        BY <1>2, <2>2, EndFound
      <4> QED
        BY <1>6, <4>1 DEF TickPlay
    <3> QED
      BY <3>1, <3>4, <3>5
  <2> QED
    BY <2>1, <2>2
<1>9. PlaysInOrder'
  <2> SUFFICES ASSUME NEW i \in 1..(n + 1)
               PROVE  \/ out'[i] = i
                      \/ playback' = "ended" /\ sndLen % BufSize = 0 /\ i = sndLen + 1
    BY <1>5, <1>6 DEF PlaysInOrder
  <2> QED
    BY <1>7, <1>8
<1>10. TailLossBounded'
  <2> SUFFICES ASSUME playback' = "ended" PROVE n + 1 >= sndLen - BufSize
    BY <1>5, <1>6 DEF TailLossBounded
  <2>1. EndOfFile
    BY <1>6 DEF TickPlay
  <2> QED
    BY <1>2, <2>1, EndFound
<1> QED
  BY <1>2, <1>5, <1>9, <1>10 DEF Heard

\* At the end of the file both buffers are returned.
LEMMA LastTick ==
  ASSUME SdInv, TickPlay, disturbed' = {}, EndOfFile
  PROVE  Rest'
<1>1. playback = "playing" /\ playback' = "ended" /\ cPwmDone' = 1
  BY UndisturbedTick DEF InPlay, TickPlay
<1>2. pc' = pc /\ pc \notin Starting
  BY <1>1 DEF TickPlay, SdInv, StartInv
<1>3. StartInv' /\ SetUp' /\ Playing'
  BY <1>1, <1>2 DEF StartInv, SetUp, Playing, InPlay
<1>4. pbSoundbuff' = pbSoundbuff /\ live' = live \ {pbSoundbuff[1], pbSoundbuff[2]}
  BY DEF TickPlay, FreeBoth
<1>5. Returned'
  BY <1>4 DEF Returned
<1> QED
  BY <1>3, <1>5, HeardTick DEF Rest

\* Before it, the buffer that was left is asked for.
LEMMA OtherTick ==
  ASSUME SdInv, TickPlay, disturbed' = {}, ~EndOfFile
  PROVE  Rest'
<1>1. /\ InPlay /\ cPwmDone = 0
      /\ UsedUp => ucReadSndBuff = 0 /\ pc = "loop" /\ Refilled /\ ulSptr = BufSize
      /\ ~UsedUp => ulSptr \in 0..(BufSize - 1)
  BY UndisturbedTick
<1>2. /\ UNCHANGED <<pc, cPwmDone, live, sndOpen, fileHandle, playback, sndPos, sndLen, ulSndBytes,
                      pbSoundbuff, mem, rdTarget>>
      /\ disturbed = {} /\ ucReadSndBuff' = Request
      /\ bSndReady' = PlayFrom /\ ulSptr' = PlayAt + 1 /\ ucSoundFirst' = 0
  BY DEF TickPlay
<1>3. playback = "playing" /\ Undisturbed
  BY <1>1 DEF InPlay
<1>4. StartInv' /\ SetUp' /\ Returned'
  BY <1>2, <1>3 DEF SdInv, StartInv, SetUp, Returned
<1>5. /\ NewBase \in Nat /\ Multiple(NewBase) /\ NewBase <= sndLen
      /\ PlayFrom \in 1..2 /\ PlayAt \in 0..(BufSize - 1) /\ NewBase + PlayAt = Len(out)
      /\ Holds(pbSoundbuff[PlayFrom], NewBase)
  BY NextByte
<1>6. /\ Len(out) \in 0..sndLen /\ Len(out) + 1 <= sndLen
      /\ NewBase + BufSize > sndLen => Len(out) + 1 < sndLen
  BY EndFound
<1>7. Heard' /\ Len(out') = Len(out) + 1
  BY HeardTick
<1>8. PICK nb \in Nat : nb = NewBase
  BY <1>5
<1>9. PICK n \in Nat : n = Len(out)
  BY <1>6 DEF SdInv, SdTypeOK
<1>10. PICK at \in 0..(BufSize - 1) : at = PlayAt
  BY <1>5
<1>11. Base' = nb /\ Multiple(nb)' /\ \A p : ReadTo(p)' = ReadTo(p)
  <2>1. Base' = (n + 1) - (at + 1) /\ nb + at = n
    BY <1>2, <1>5, <1>7, <1>8, <1>9, <1>10 DEF Base
  <2>2. Base' = nb
    BY <2>1, BufSizeAssumption
  <2> QED
    BY <1>2, <1>5, <1>8, <2>2 DEF Multiple, ReadTo
<1>12. \A b, p : Holds(b, p) => Holds(b, p)'
  BY <1>2 DEF Holds
<1>13. /\ pc \in {"loop", "read", "clear"} /\ bSndReady \in 1..2
       /\ ucSoundFirst = 1 =>
            pc = "loop" /\ ulSptr = 0 /\ Base = 0 /\ bSndReady = 1 /\ ucReadSndBuff = 0
       /\ ucReadSndBuff \in {0, Idle}
       /\ pc = "read" => ucReadSndBuff # 0 /\ rdTarget = pbSoundbuff[Idle]
       /\ pc = "clear" => ucReadSndBuff # 0
  BY <1>1 DEF SdInv, Playing
<1>14. /\ UsedUp \/ ucSoundFirst = 1 => ucReadSndBuff' = Idle' /\ pc = "loop"
       /\ ~(UsedUp \/ ucSoundFirst = 1) =>
            ucReadSndBuff' = ucReadSndBuff /\ bSndReady' = bSndReady /\ Idle' = Idle /\ NewBase = Base
  <2>1. CASE ucSoundFirst = 1
    <3>1. ~UsedUp /\ PlayFrom = 1 /\ Request = 2 /\ pc = "loop"
      BY <1>13, <2>1, BufSizeAssumption DEF UsedUp, PlayFrom, Request
    <3> QED
      BY <1>2, <2>1, <3>1 DEF Idle
  <2>2. CASE ucSoundFirst # 1 /\ UsedUp
    BY <1>1, <1>2, <1>13, <2>2 DEF PlayFrom, Request, Idle
  <2>3. CASE ucSoundFirst # 1 /\ ~UsedUp
    BY <1>2, <2>3 DEF PlayFrom, Request, Idle, NewBase
  <2> QED
    BY <2>1, <2>2, <2>3
<1>15. Idle' \in 1..2 /\ Idle' # 0
  BY DEF Idle
<1>16. IF Refilled'
         THEN /\ Holds(pbSoundbuff[Idle], Base + BufSize)'
              /\ sndPos' = ReadTo(Base + BufSize)'
              /\ ulSndBytes' = IF Base' + BufSize < sndLen THEN sndPos' - (Base' + BufSize) ELSE 0
         ELSE sndPos' = ReadTo(Base)' /\ ulSndBytes' = sndPos' - Base'
  <2>1. IF Refilled
          THEN /\ Holds(pbSoundbuff[Idle], Base + BufSize)
               /\ sndPos = ReadTo(Base + BufSize)
               /\ ulSndBytes = IF Base + BufSize < sndLen THEN sndPos - (Base + BufSize) ELSE 0
          ELSE sndPos = ReadTo(Base) /\ ulSndBytes = sndPos - Base
    BY <1>1 DEF SdInv, Playing
  <2>2. CASE UsedUp
    <3>1. ~Refilled' /\ Refilled
      BY <1>1, <1>2, <1>14, <1>15, <2>2 DEF Refilled
    <3>2. nb = Base + BufSize
      BY <1>8, <2>2 DEF NewBase
    <3>3. sndPos' = ReadTo(Base)'
      BY <1>2, <1>11, <2>1, <3>1, <3>2
    <3>4. ulSndBytes' = sndPos' - Base'
      <4>1. sndLen \in Nat /\ nb <= sndLen /\ sndPos = ReadTo(nb)
        BY <1>5, <1>8, <2>1, <3>1, <3>2 DEF SdInv, SdTypeOK
      <4>2. ulSndBytes = IF nb < sndLen THEN sndPos - nb ELSE 0
        BY <2>1, <3>1, <3>2
      <4>3. ulSndBytes = sndPos - nb
        BY <4>1, <4>2, BufSizeAssumption DEF ReadTo
      <4> QED
        BY <1>2, <1>11, <4>3
    <3> QED
      BY <3>1, <3>3, <3>4
  <2>3. CASE ~UsedUp /\ ucSoundFirst = 1
    <3>1. ~Refilled' /\ ~Refilled
      BY <1>2, <1>13, <1>14, <1>15, <2>3 DEF Refilled
    <3>2. nb = Base
      BY <1>8, <2>3 DEF NewBase
    <3> QED
      BY <1>2, <1>11, <2>1, <3>1, <3>2
  <2>4. CASE ~UsedUp /\ ucSoundFirst # 1
    <3>1. Refilled' <=> Refilled
      BY <1>2, <1>14, <2>4 DEF Refilled
    <3>2. nb = Base /\ pbSoundbuff[Idle]' = pbSoundbuff[Idle] /\ sndPos' = sndPos
          /\ ulSndBytes' = ulSndBytes /\ sndLen' = sndLen
      BY <1>2, <1>8, <1>14, <2>4
    <3>3. Base' = Base
      BY <1>11, <3>2
    <3>4. Holds(pbSoundbuff[Idle], Base + BufSize) => Holds(pbSoundbuff[Idle], Base + BufSize)'
      BY <1>12, <3>2, <3>3 DEF Holds
    <3>5. ReadTo(Base + BufSize)' = ReadTo(Base + BufSize) /\ ReadTo(Base)' = ReadTo(Base)
      BY <3>2, <3>3 DEF ReadTo
    <3> QED
      BY <2>1, <3>1, <3>2, <3>3, <3>4, <3>5
  <2> QED
    BY <2>2, <2>3, <2>4
<1>17. /\ ucReadSndBuff' \in {0, Idle'}
       /\ pc' = "read" => ucReadSndBuff' # 0 /\ rdTarget' = (pbSoundbuff[Idle])'
       /\ pc' = "clear" => ucReadSndBuff' # 0
  BY <1>2, <1>13, <1>14, <1>15
<1>18. Holds(pbSoundbuff[bSndReady], Base)'
  <2>1. Holds(pbSoundbuff[PlayFrom], nb)
    BY <1>5, <1>8
  <2> QED
    BY <1>2, <1>11, <2>1 DEF Holds
<1>19. /\ ulSptr' \in 0..BufSize /\ Base' \in Nat /\ Base' <= sndLen' /\ Len(out') <= sndLen'
       /\ (Base + BufSize > sndLen => Base + ulSptr < sndLen)'
  <2>1. ulSptr' = at + 1 /\ Base' = nb /\ nb + at = n
    BY <1>2, <1>5, <1>8, <1>9, <1>10, <1>11
  <2>2. ulSptr' \in 0..BufSize /\ nb + (at + 1) = n + 1
    BY <2>1, BufSizeAssumption
  <2>3. nb + BufSize > sndLen => n + 1 < sndLen
    BY <1>6, <1>8, <1>9
  <2>4. nb <= sndLen /\ Len(out') <= sndLen
    BY <1>5, <1>6, <1>7, <1>8
  <2> QED
    BY <1>2, <2>1, <2>2, <2>3, <2>4
<1>20. Playing'
  <2>1. /\ cPwmDone' = 0 /\ (fileHandle = "snd")' /\ sndOpen' /\ (sndLen \in Lengths)'
        /\ (pbSoundbuff[1] \in live)' /\ (pbSoundbuff[2] \in live)'
        /\ (pbSoundbuff[1] # pbSoundbuff[2])'
    BY <1>1, <1>2 DEF SdInv, Playing
  <2>2. Multiple(Base)'
    BY <1>11 DEF Multiple
  <2>3. (bSndReady \in 1..2)' /\ (pc \in {"loop", "read", "clear"})' /\ ucSoundFirst' # 1
    BY <1>2, <1>5, <1>13
  <2> QED
    BY <1>2, <1>16, <1>17, <1>18, <1>19, <2>1, <2>2, <2>3 DEF Playing
<1> QED
  BY <1>4, <1>7, <1>20 DEF Rest

-----------------------------------------------------------------------------
(* Results                                                                 *)

\* Every step keeps the invariant.
LEMMA SdInvariant == SdInv /\ [Next]_vars => SdInv'
<1> SUFFICES ASSUME SdInv, [Next]_vars PROVE Rest'
  BY SdTypes DEF SdInv, Rest
<1>1. CASE UNCHANGED vars
  <2>1. UNCHANGED <<pc, fileVars, soundVars, heapVars, rdTarget, playback, out, disturbed>>
    BY <1>1 DEF vars
  <2> USE <2>1 DEF fileVars, soundVars, heapVars, SdInv
  <2>2. StartInv' /\ SetUp' /\ Heard' /\ Returned'
    BY DEF StartInv, SetUp, Heard, PlaysInOrder, TailLossBounded, Returned, Undisturbed
  <2>3. Playing'
    BY DEF Playing, InPlay, Undisturbed, Base, Multiple, ReadTo, Idle, Holds, Refilled
  <2> QED
    BY <2>2, <2>3 DEF Rest
<1>2. CASE TickPlay
  BY <1>2, DisturbedTick, LastTick, OtherTick
<1> QED
  BY <1>1, <1>2, CardSteps, PictureStep, FillStep, StartStep, FlagSteps, MallocSteps, OpenSteps,
     FirstStep, TimerSteps, ReadyStep, SilentTick
     DEF Next, vSndRd, vSoundfromSD, vPicturefromSD, SD_State, timer4_handler

\* The invariant holds from the start.
LEMMA SdInvAlways == Spec => []SdInv
<1>1. Init => SdInv
  <2> SUFFICES ASSUME Init PROVE SdInv
    OBVIOUS
  <2>1. SdTypeOK
    BY DEF Init, SdTypeOK, Pcs, Garbage
  <2>2. Len(out) = 0
    BY DEF Init
  <2> QED
    BY <2>1, <2>2 DEF Init, SdInv, StartInv, SetUp, Playing, InPlay, Heard, PlaysInOrder,
                      TailLossBounded, Returned, Starting
<1> QED
  BY <1>1, SdInvariant, PTL DEF Spec

\* As long as the main loop refills in time and nobody takes the card, timer4_handler
\* plays the file from its first byte on, each byte once and in order, for buffers and
\* files of any size and whatever the timing of vSndRd.
THEOREM FilePlayedInOrder == Spec => []PlaysInOrder
<1>1. SdInv => PlaysInOrder
  BY DEF SdInv, Heard
<1> QED
  BY <1>1, SdInvAlways, PTL

\* The end of the file, which timer4_handler finds by comparing the bytes of one buffer
\* with the position in the other, cuts playback short by no more than a buffer.
THEOREM EndLostUpToABuffer == Spec => []TailLossBounded
<1>1. SdInv => TailLossBounded
  BY DEF SdInv, Heard
<1> QED
  BY <1>1, SdInvAlways, PTL

\* vSndRd, which takes the pointer before the read, reads into the buffer that the
\* interrupt is not playing, for as long as the playback is undisturbed.
THEOREM IdleBufferRefilled == Spec => []RefillsTheIdleBuffer
<1>1. SdInv => RefillsTheIdleBuffer
  <2> SUFFICES ASSUME SdInv, playback = "playing", Undisturbed, pc = "read"
               PROVE  rdTarget # pbSoundbuff[bSndReady]
    BY DEF RefillsTheIdleBuffer
  <2>1. /\ rdTarget = pbSoundbuff[Idle] /\ pbSoundbuff[1] # pbSoundbuff[2] /\ bSndReady \in 1..2
    BY DEF SdInv, Playing, InPlay
  <2> QED
    BY <2>1 DEF Idle
<1> QED
  BY <1>1, SdInvAlways, PTL

\* Both buffers of an undisturbed playback stay allocated until the interrupt finds the
\* end of the file, and it returns both: nothing is played from freed memory or leaked.
THEOREM BuffersKeptThenReturned == Spec => []BuffersReturned
<1>1. SdInv => BuffersReturned
  BY DEF SdInv, Playing, InPlay, Returned, BuffersReturned
<1> QED
  BY <1>1, SdInvAlways, PTL

-----------------------------------------------------------------------------
(* The driver of the card's bus.  Its invariant follows a job's bytes      *)
(* round: those sent for and not taken yet are the transmitter's, the one  *)
(* shifted and the receiver's, never more than a FIFO holds, and numbered  *)
(* without a gap from the received ones on.                                *)

Byte == Nat \X Nat

\* Bytes of a job in their order, from the one after n on.
Numbered(s, id, n) == s \in Seq(Byte) /\ \A i \in 1..Len(s) : s[i] = <<id, n + i>>

-----------------------------------------------------------------------------
(* The inductive invariant *)

JobRecord ==
    [id : Nat \ {0}, wanted : Nat, rxBuffer : Seq(Byte), dataTxed : Nat,
     dataLeftToTx : Nat, dummyLeftToTx : Nat, dataLeftToRx : Nat, dummyLeftToRx : Nat]
QueuedJobs == {SpiJob(id, tx, in) : id \in Nat \ {0}, tx \in Nat, in \in Nat}

\* Bytes whose answers are to come or to be taken, and those already taken
OnTheWay == Len(txFifo) + Len(shifting) + Len(rxFifo)
Taken == currentJob.dataTxed - OnTheWay

SpiTypeOK ==
    /\ spiQueue \in Seq(QueuedJobs)
    /\ currentJob \in JobRecord \cup {NoJob}
    /\ txFifo \in Seq(Byte) /\ shifting \in Seq(Byte) /\ rxFifo \in Seq(Byte)
    /\ Len(shifting) \in 0..1
    /\ symbolsInProgress \in Nat /\ jobs \in Nat
    /\ isr \in {"out", "job", "send", "receive", "end"} /\ spiEnabled \in BOOLEAN

\* Without a job the bus is at rest, and the handler runs only to take one.
AtRest ==
    currentJob = NoJob =>
        /\ txFifo = <<>> /\ shifting = <<>> /\ rxFifo = <<>>
        /\ isr = "out" \/ (isr = "job" /\ spiQueue # <<>>)

\* All that is on the way has a place in the receiver, and is waited for.
Counted ==
    currentJob # NoJob =>
        /\ symbolsInProgress = OnTheWay /\ OnTheWay <= FifoSize
        /\ LeftToRx(currentJob) = LeftToTx(currentJob) + OnTheWay

\* The bytes are numbered through from the buffer to the transmitter, but for the
\* answers dropped once the buffer has all that was wanted.
InTurn ==
    currentJob # NoJob =>
        /\ Taken \in Nat
        /\ Numbered(currentJob.rxBuffer, currentJob.id, 0)
        /\ Numbered(rxFifo, currentJob.id, Taken)
        /\ Numbered(shifting, currentJob.id, Taken + Len(rxFifo))
        /\ Numbered(txFifo, currentJob.id, Taken + Len(rxFifo) + Len(shifting))
        /\ Len(currentJob.rxBuffer) + currentJob.dataLeftToRx = currentJob.wanted
        /\ currentJob.dataLeftToRx > 0 => Taken = Len(currentJob.rxBuffer)

\* Outside the handler its interrupts are enabled if somebody waits for it, and only then.
Enabled == spiEnabled <=> isr = "out" /\ (currentJob # NoJob \/ spiQueue # <<>>)

\* A job is reported while no other is taken.
Reported == answered # NoJob => currentJob = NoJob

SpiInv == SpiTypeOK /\ AtRest /\ Counted /\ InTurn /\ Enabled /\ Reported /\ AnswersInOrder

-----------------------------------------------------------------------------
(* Sequences of bytes in order                                             *)

LEMMA NumberedEmpty == \A id, n : Numbered(<<>>, id, n)
  BY EmptySeq DEF Numbered

\* The bytes that follow, appended.
LEMMA NumberedConcat ==
    ASSUME NEW s, NEW t, NEW id, NEW n \in Nat,
           Numbered(s, id, n), Numbered(t, id, n + Len(s))
    PROVE  Numbered(s \o t, id, n) /\ Len(s \o t) = Len(s) + Len(t)
<1>1. s \in Seq(Byte) /\ t \in Seq(Byte) /\ Len(s) \in Nat /\ Len(t) \in Nat
  BY LenProperties DEF Numbered
<1>2. /\ s \o t \in Seq(Byte) /\ Len(s \o t) = Len(s) + Len(t)
      /\ \A i \in 1..Len(s) + Len(t) :
            (s \o t)[i] = IF i <= Len(s) THEN s[i] ELSE t[i - Len(s)]
  BY <1>1, ConcatProperties
<1>3. ASSUME NEW i \in 1..Len(s) + Len(t)
      PROVE  (s \o t)[i] = <<id, n + i>>
  <2>1. CASE i <= Len(s)
    BY <1>1, <1>2, <2>1 DEF Numbered
  <2>2. CASE i > Len(s)
    <3>1. i - Len(s) \in 1..Len(t) /\ n + Len(s) + (i - Len(s)) = n + i
      BY <1>1, <2>2
    <3> QED
      BY <1>1, <1>2, <2>2, <3>1 DEF Numbered
  <2> QED
    BY <1>1, <2>1, <2>2
<1> QED
  BY <1>2, <1>3 DEF Numbered

\* The first k of them, and those behind.
LEMMA NumberedSplit ==
    ASSUME NEW s, NEW id, NEW n \in Nat, Numbered(s, id, n), NEW k \in 0..Len(s)
    PROVE  /\ Numbered(SubSeq(s, 1, k), id, n) /\ Len(SubSeq(s, 1, k)) = k
           /\ Numbered(SubSeq(s, k + 1, Len(s)), id, n + k)
           /\ Len(SubSeq(s, k + 1, Len(s))) = Len(s) - k
<1>1. s \in Seq(Byte) /\ Len(s) \in Nat /\ \A i \in 1..Len(s) : s[i] \in Byte
  BY LenProperties, ElementOfSeq DEF Numbered
<1>2. /\ SubSeq(s, 1, k) \in Seq(Byte) /\ Len(SubSeq(s, 1, k)) = k
      /\ \A i \in 1..k : SubSeq(s, 1, k)[i] = s[i]
  <2>1. 1 \in Int /\ k \in Int /\ \A i \in 1..k : s[i] \in Byte
    BY <1>1
  <2>2. /\ SubSeq(s, 1, k) \in Seq(Byte)
        /\ Len(SubSeq(s, 1, k)) = IF 1 <= k THEN k - 1 + 1 ELSE 0
        /\ \A i \in 1..(k - 1 + 1) : SubSeq(s, 1, k)[i] = s[1 + i - 1]
    BY <2>1, SubSeqProperties
  <2> QED
    BY <2>2
<1>3. /\ SubSeq(s, k + 1, Len(s)) \in Seq(Byte)
      /\ Len(SubSeq(s, k + 1, Len(s))) = Len(s) - k
      /\ \A i \in 1..(Len(s) - k) : SubSeq(s, k + 1, Len(s))[i] = s[k + i]
  <2>1. k + 1 \in Int /\ Len(s) \in Int /\ \A i \in (k + 1)..Len(s) : s[i] \in Byte
    BY <1>1
  <2>2. /\ SubSeq(s, k + 1, Len(s)) \in Seq(Byte)
        /\ Len(SubSeq(s, k + 1, Len(s))) = IF k + 1 <= Len(s) THEN Len(s) - (k + 1) + 1 ELSE 0
        /\ \A i \in 1..(Len(s) - (k + 1) + 1) : SubSeq(s, k + 1, Len(s))[i] = s[k + 1 + i - 1]
    BY <2>1, SubSeqProperties
  <2> QED
    BY <1>1, <2>2
<1>4. \A i \in 1..k : s[i] = <<id, n + i>>
  BY <1>1 DEF Numbered
<1>5. \A i \in 1..(Len(s) - k) : s[k + i] = <<id, n + k + i>>
  BY <1>1 DEF Numbered
<1> QED
  BY <1>2, <1>3, <1>4, <1>5 DEF Numbered

\* The bytes the handler makes.
Made(id, n, k) == [i \in 1..k |-> <<id, n + i>>]
LEMMA NumberedMade ==
    ASSUME NEW id \in Nat, NEW n \in Nat, NEW k \in Nat
    PROVE  Numbered(Made(id, n, k), id, n) /\ Len(Made(id, n, k)) = k
  BY DEF Numbered, Byte, Made

\* The first of them on the bus, and the rest.
LEMMA NumberedHead ==
    ASSUME NEW s, NEW id \in Nat, NEW n \in Nat, Numbered(s, id, n), s # <<>>
    PROVE  /\ Numbered(<<Head(s)>>, id, n) /\ Len(<<Head(s)>>) = 1
           /\ Numbered(Tail(s), id, n + 1) /\ Len(Tail(s)) = Len(s) - 1
<1>1. s \in Seq(Byte) /\ Len(s) \in Nat \ {0}
  BY EmptySeq DEF Numbered
<1>2. /\ Head(s) \in Byte /\ Tail(s) \in Seq(Byte) /\ Len(Tail(s)) = Len(s) - 1
      /\ \A i \in 1..Len(Tail(s)) : Tail(s)[i] = s[i + 1]
  BY <1>1, HeadTailProperties
<1>3. Head(s) = <<id, n + 1>>
  <2>1. s[1] = <<id, n + 1>>
    BY <1>1 DEF Numbered
  <2> QED
    BY <1>1, <2>1
<1> QED
  BY <1>1, <1>2, <1>3 DEF Numbered

-----------------------------------------------------------------------------
(* The steps                                                               *)

\* What is on the way consists of the lengths of the three.
LEMMA BusLengths ==
    ASSUME SpiTypeOK
    PROVE  /\ Len(txFifo) \in Nat /\ Len(shifting) \in Nat /\ Len(rxFifo) \in Nat
           /\ OnTheWay \in Nat
           /\ FifoSize \in Nat
  BY LenProperties, SpiAssumption DEF SpiTypeOK, OnTheWay

\* A job as the main loop makes it: as many bytes to send as to take, none sent.
LEMMA NewJobs ==
    ASSUME NEW job \in QueuedJobs
    PROVE  /\ job \in JobRecord /\ job # NoJob
           /\ LeftToRx(job) = LeftToTx(job) /\ LeftToTx(job) \in Nat
           /\ job.dataTxed = 0 /\ job.rxBuffer = <<>> /\ job.dataLeftToRx = job.wanted
<1>1. PICK id \in Nat \ {0}, tx \in Nat, in \in Nat : job = SpiJob(id, tx, in)
  BY DEF QueuedJobs
<1>2. AtLeast0(in - tx) \in Nat /\ AtLeast0(tx - in) \in Nat
      /\ in + AtLeast0(tx - in) = tx + AtLeast0(in - tx)
  BY <1>1 DEF AtLeast0
<1>3. <<>> \in Seq(Byte)
  BY EmptySeq
<1>4. job \in JobRecord /\ job # NoJob
  BY <1>1, <1>2, <1>3 DEF SpiJob, JobRecord, NoJob
<1> QED
  BY <1>1, <1>2, <1>4 DEF SpiJob, LeftToRx, LeftToTx

\* A record of a job and what it leaves to do.
LEMMA JobFields ==
    ASSUME NEW job \in JobRecord
    PROVE  /\ job # NoJob /\ job.id \in Nat /\ job.wanted \in Nat /\ job.rxBuffer \in Seq(Byte)
           /\ job.dataTxed \in Nat /\ Len(job.rxBuffer) \in Nat
           /\ job.dataLeftToTx \in Nat /\ job.dummyLeftToTx \in Nat
           /\ job.dataLeftToRx \in Nat /\ job.dummyLeftToRx \in Nat
           /\ LeftToTx(job) \in Nat /\ LeftToRx(job) \in Nat
<1>1. job # NoJob
  BY DEF JobRecord, NoJob
<1>2. job.rxBuffer \in Seq(Byte)
  BY DEF JobRecord
<1> QED
  BY <1>1, <1>2, LenProperties DEF JobRecord, LeftToTx, LeftToRx

LEMMA SpiInitInv == SpiInit => SpiInv
<1> SUFFICES ASSUME SpiInit PROVE SpiInv
  OBVIOUS
<1>1. <<>> \in Seq(Byte) /\ <<>> \in Seq(QueuedJobs) /\ Len(<<>>) = 0
  BY EmptySeq
<1>2. SpiTypeOK
  <2>1. shifting \in Seq(Byte) /\ Len(shifting) = 0
    BY <1>1 DEF SpiInit
  <2>2. spiQueue \in Seq(QueuedJobs) /\ txFifo \in Seq(Byte) /\ rxFifo \in Seq(Byte)
    BY <1>1 DEF SpiInit
  <2>3. symbolsInProgress \in Nat /\ jobs \in Nat
    BY DEF SpiInit
  <2>4. isr \in {"out", "job", "send", "receive", "end"} /\ spiEnabled \in BOOLEAN
    BY DEF SpiInit
  <2>5. currentJob \in JobRecord \cup {NoJob}
    BY DEF SpiInit
  <2> QED
    BY <2>1, <2>2, <2>3, <2>4, <2>5 DEF SpiTypeOK
<1>3. AtRest /\ Counted /\ InTurn /\ Reported /\ AnswersInOrder
  BY DEF SpiInit, AtRest, Counted, InTurn, Reported, AnswersInOrder
<1>4. Enabled
  BY DEF SpiInit, Enabled
<1> QED
  BY <1>2, <1>3, <1>4 DEF SpiInv

LEMMA BufferAddInv ==
    ASSUME SpiInv, BufferAdd
    PROVE  SpiInv'
<1> USE DEF SpiInv
<1>1. PICK tx \in Sizes, in \in Sizes : spiQueue' = Append(spiQueue, SpiJob(jobs', tx, in))
  BY DEF BufferAdd
<1>2. MaxJobs \in Nat \ {0} /\ jobs' \in Nat \ {0}
  <2>1. Len(spiQueue) \in Nat
    BY LenProperties DEF SpiTypeOK
  <2>2. MaxJobs \in Nat /\ MaxJobs > 0
    BY <2>1, SpiAssumption DEF BufferAdd
  <2>3. jobs % MaxJobs \in Nat
    BY <2>2 DEF SpiTypeOK
  <2> QED
    BY <2>2, <2>3 DEF BufferAdd
<1>3. SpiJob(jobs', tx, in) \in QueuedJobs
  BY <1>2, SpiAssumption DEF QueuedJobs
<1>4. spiQueue' \in Seq(QueuedJobs) /\ spiQueue' # <<>>
  BY <1>1, <1>3, AppendProperties DEF SpiTypeOK
<1>5. SpiTypeOK'
  BY <1>2, <1>4 DEF SpiTypeOK, BufferAdd, bus
<1>6. AtRest' /\ Counted' /\ InTurn'
  BY <1>4 DEF BufferAdd, bus, AtRest, Counted, InTurn, Taken, OnTheWay
<1>7. Enabled' /\ Reported' /\ AnswersInOrder'
  BY DEF BufferAdd, Enabled, Reported, AnswersInOrder
<1> QED
  BY <1>5, <1>6, <1>7

LEMMA ShiftInv ==
    ASSUME SpiInv, Shift
    PROVE  SpiInv'
<1> USE DEF SpiInv
<1>1. currentJob \in JobRecord /\ currentJob # NoJob
  BY DEF Shift, SpiTypeOK, AtRest
<1>2. /\ currentJob.id \in Nat /\ Taken \in Nat
      /\ Len(txFifo) \in Nat /\ Len(shifting) \in Nat /\ Len(rxFifo) \in Nat
  BY <1>1, JobFields, BusLengths DEF InTurn
<1>3. CASE shifting = <<>>
  <2>1. /\ shifting' = <<Head(txFifo)>> /\ txFifo' = Tail(txFifo) /\ rxFifo' = rxFifo
        /\ txFifo # <<>>
    BY <1>3 DEF Shift
  <2>2. Len(shifting) = 0
    BY <1>3
  <2>3. /\ Numbered(shifting', currentJob.id, Taken + Len(rxFifo)) /\ Len(shifting') = 1
        /\ Numbered(txFifo', currentJob.id, Taken + Len(rxFifo) + 1)
        /\ Len(txFifo') = Len(txFifo) - 1
    <3>1. Numbered(txFifo, currentJob.id, Taken + Len(rxFifo))
      BY <1>1, <1>2, <2>2 DEF InTurn
    <3> QED
      BY <1>2, <2>1, <3>1, NumberedHead
  <2>4. OnTheWay' = OnTheWay /\ Taken' = Taken
    BY <1>2, <2>1, <2>2, <2>3 DEF OnTheWay, Taken, Shift
  <2>5. SpiTypeOK'
    BY <2>1, <2>3 DEF SpiTypeOK, Shift, Numbered
  <2>6. AtRest' /\ Counted'
    BY <1>1, <2>4 DEF AtRest, Counted, Shift
  <2>7. InTurn'
    BY <1>1, <1>2, <2>1, <2>3, <2>4 DEF InTurn, Shift
  <2> QED
    BY <1>1, <2>5, <2>6, <2>7 DEF Shift, Enabled, Reported, AnswersInOrder
<1>4. CASE shifting # <<>>
  <2>1. Len(shifting) = 1
    <3>1. shifting \in Seq(Byte) /\ Len(shifting) \in 0..1
      BY DEF SpiTypeOK
    <3>2. Len(shifting) \in Nat \ {0}
      BY <1>4, <3>1, EmptySeq
    <3> QED
      BY <3>1, <3>2
  <2>2. Len(rxFifo) < FifoSize
    BY <1>1, <1>2, <2>1, BusLengths DEF Counted, OnTheWay
  <2>3. shifting' = <<>> /\ rxFifo' = rxFifo \o shifting /\ txFifo' = txFifo
    BY <1>4, <2>2 DEF Shift
  <2>4. Numbered(rxFifo', currentJob.id, Taken) /\ Len(rxFifo') = Len(rxFifo) + 1
    BY <1>1, <1>2, <2>1, <2>3, NumberedConcat DEF InTurn
  <2>5. Numbered(shifting', currentJob.id, Taken + Len(rxFifo')) /\ Len(shifting') = 0
    BY <2>3, NumberedEmpty
  <2>6. OnTheWay' = OnTheWay /\ Taken' = Taken
    BY <1>2, <2>1, <2>3, <2>4, <2>5 DEF OnTheWay, Taken, Shift
  <2>7. SpiTypeOK'
    BY <2>3, <2>4, <2>5 DEF SpiTypeOK, Shift, Numbered
  <2>8. AtRest' /\ Counted'
    BY <1>1, <2>6 DEF AtRest, Counted, Shift
  <2>9. InTurn'
    <3>1. Taken' + Len(rxFifo') + Len(shifting') = Taken + Len(rxFifo) + Len(shifting)
      BY <1>2, <2>1, <2>4, <2>5, <2>6
    <3>2. Numbered(txFifo', currentJob.id, Taken' + Len(rxFifo') + Len(shifting'))
      BY <1>1, <2>3, <3>1 DEF InTurn
    <3> QED
      BY <1>1, <2>4, <2>5, <2>6, <3>2 DEF InTurn, Shift
  <2> QED
    BY <1>1, <2>7, <2>8, <2>9 DEF Shift, Enabled, Reported, AnswersInOrder
<1> QED
  BY <1>3, <1>4

\* A step that leaves the job and the bus alone disturbs none of what follows its bytes.
LEMMA SameBus ==
    ASSUME SpiInv, UNCHANGED <<currentJob, symbolsInProgress, bus>>
    PROVE  Counted' /\ InTurn' /\ Taken' = Taken /\ OnTheWay' = OnTheWay
  BY DEF SpiInv, bus, Counted, InTurn, Taken, OnTheWay

LEMMA InterruptedInv ==
    ASSUME SpiInv, Interrupted
    PROVE  SpiInv'
<1>1. Counted' /\ InTurn'
  BY SameBus DEF Interrupted
<1> QED
  BY <1>1 DEF SpiInv, Interrupted, bus, SpiTypeOK, AtRest, Enabled, Reported, AnswersInOrder

LEMMA KeepJobInv ==
    ASSUME SpiInv, KeepJob
    PROVE  SpiInv'
<1>1. Counted' /\ InTurn'
  BY SameBus DEF KeepJob
<1> QED
  BY <1>1 DEF SpiInv, KeepJob, bus, SpiTypeOK, AtRest, Enabled, Reported, AnswersInOrder

LEMMA NewJobInv ==
    ASSUME SpiInv, NewJob
    PROVE  SpiInv'
<1> USE DEF SpiInv
<1>1. /\ currentJob' \in QueuedJobs /\ spiQueue' \in Seq(QueuedJobs)
      /\ txFifo' = <<>> /\ shifting' = <<>> /\ rxFifo' = <<>> /\ symbolsInProgress' = 0
      /\ isr' = "send" /\ answered' = NoJob /\ ~spiEnabled'
  <2>1. spiQueue \in Seq(QueuedJobs) /\ spiQueue # <<>>
    BY DEF SpiTypeOK, NewJob
  <2> QED
    BY <2>1, HeadTailProperties DEF NewJob, AtRest, Enabled
<1>2. /\ currentJob' \in JobRecord /\ currentJob' # NoJob
      /\ LeftToRx(currentJob') = LeftToTx(currentJob') /\ LeftToTx(currentJob') \in Nat
      /\ currentJob'.dataTxed = 0 /\ currentJob'.rxBuffer = <<>>
      /\ currentJob'.dataLeftToRx = currentJob'.wanted
  BY <1>1, NewJobs
<1>3. /\ Len(txFifo') = 0 /\ Len(shifting') = 0 /\ Len(rxFifo') = 0
      /\ OnTheWay' = 0 /\ Taken' = 0
  <2>1. Len(txFifo') = 0 /\ Len(shifting') = 0 /\ Len(rxFifo') = 0
    BY <1>1, EmptySeq
  <2> QED
    BY <1>2, <2>1 DEF OnTheWay, Taken
<1>4. SpiTypeOK'
  BY <1>1, <1>2, EmptySeq DEF SpiTypeOK, NewJob
<1>5. Counted'
  BY <1>1, <1>2, <1>3, SpiAssumption DEF Counted
<1>6. InTurn'
  <2>1. Len(currentJob'.rxBuffer) = 0 /\ currentJob'.wanted \in Nat
    BY <1>2, JobFields
  <2> QED
    BY <1>1, <1>2, <1>3, <2>1, NumberedEmpty DEF InTurn
<1> QED
  BY <1>1, <1>2, <1>4, <1>5, <1>6 DEF AtRest, Enabled, Reported, AnswersInOrder

\* What sending and receiving make of the record.
Sent(job, data, dummies) ==
    [job EXCEPT !.dataLeftToTx = @ - data, !.dataTxed = @ + data + dummies,
                !.dummyLeftToTx = @ - dummies]
LEMMA SentJob ==
    ASSUME NEW job \in JobRecord,
           NEW data \in 0..job.dataLeftToTx, NEW dummies \in 0..job.dummyLeftToTx, NEW sent,
           sent = Sent(job, data, dummies)
    PROVE  /\ sent \in JobRecord
           /\ sent.id = job.id /\ sent.wanted = job.wanted /\ sent.rxBuffer = job.rxBuffer
           /\ sent.dataTxed = job.dataTxed + data + dummies
           /\ sent.dataLeftToRx = job.dataLeftToRx
           /\ LeftToTx(sent) = LeftToTx(job) - data - dummies
           /\ LeftToRx(sent) = LeftToRx(job)
<1>1. /\ job.dataLeftToTx - data \in Nat /\ job.dummyLeftToTx - dummies \in Nat
      /\ job.dataTxed + data + dummies \in Nat
      /\ job.dataLeftToTx \in Nat /\ job.dummyLeftToTx \in Nat
  BY SMTT(30) DEF JobRecord
<1>2. sent \in JobRecord
  BY <1>1 DEF JobRecord, Sent
<1>3. /\ sent.id = job.id /\ sent.wanted = job.wanted /\ sent.rxBuffer = job.rxBuffer
      /\ sent.dataLeftToRx = job.dataLeftToRx /\ sent.dummyLeftToRx = job.dummyLeftToRx
  BY DEF JobRecord, Sent
<1>4. /\ sent.dataTxed = job.dataTxed + data + dummies
      /\ sent.dataLeftToTx = job.dataLeftToTx - data
      /\ sent.dummyLeftToTx = job.dummyLeftToTx - dummies
  BY DEF JobRecord, Sent
<1>5. LeftToTx(sent) = LeftToTx(job) - data - dummies
  BY <1>1, <1>4 DEF LeftToTx
<1> QED
  BY <1>2, <1>3, <1>4, <1>5 DEF LeftToRx

Received(job, data, dummies, buffer) ==
    [job EXCEPT !.dataLeftToRx = @ - data, !.dummyLeftToRx = @ - dummies, !.rxBuffer = buffer]
LEMMA ReceivedJob ==
    ASSUME NEW job \in JobRecord, NEW buffer \in Seq(Byte),
           NEW data \in 0..job.dataLeftToRx, NEW dummies \in 0..job.dummyLeftToRx, NEW received,
           received = Received(job, data, dummies, buffer)
    PROVE  /\ received \in JobRecord
           /\ received.id = job.id /\ received.wanted = job.wanted
           /\ received.rxBuffer = buffer
           /\ received.dataTxed = job.dataTxed
           /\ received.dataLeftToRx = job.dataLeftToRx - data
           /\ LeftToTx(received) = LeftToTx(job)
           /\ LeftToRx(received) = LeftToRx(job) - data - dummies
<1>1. /\ job.dataLeftToRx - data \in Nat /\ job.dummyLeftToRx - dummies \in Nat
      /\ job.dataLeftToRx \in Nat /\ job.dummyLeftToRx \in Nat
  BY DEF JobRecord
<1>2. received \in JobRecord
  BY <1>1 DEF JobRecord, Received
<1>3. /\ received.id = job.id /\ received.wanted = job.wanted
      /\ received.dataTxed = job.dataTxed
      /\ received.dataLeftToTx = job.dataLeftToTx /\ received.dummyLeftToTx = job.dummyLeftToTx
  BY DEF JobRecord, Received
<1>4. /\ received.dataLeftToRx = job.dataLeftToRx - data
      /\ received.dummyLeftToRx = job.dummyLeftToRx - dummies
  BY DEF JobRecord, Received
<1>5. LeftToRx(received) = LeftToRx(job) - data - dummies
  <2>1. \A a, b, c, d \in Int : (a - c) + (b - d) = a + b - c - d
    OBVIOUS
  <2>2. LeftToRx(received) = (job.dataLeftToRx - data) + (job.dummyLeftToRx - dummies)
    BY <1>4 DEF LeftToRx
  <2>3. data \in Int /\ dummies \in Int
    BY <1>1
  <2> QED
    BY <1>1, <2>1, <2>2, <2>3, SMTT(30) DEF LeftToRx
<1>6. received.rxBuffer = buffer
  BY DEF JobRecord, Received
<1> QED
  BY <1>2, <1>3, <1>4, <1>5, <1>6 DEF LeftToTx

\* The part of a job that fits is no more than either.
LEMMA LeastOf ==
    ASSUME NEW m \in Nat, NEW n \in Nat
    PROVE  /\ Least(m, n) \in 0..m /\ Least(m, n) \in 0..n
           /\ Least(m, n) = m \/ Least(m, n) = n
  BY DEF Least

LEMMA SendInv ==
    ASSUME SpiInv, Send
    PROVE  SpiInv'
<1> USE DEF SpiInv
<1>1. currentJob \in JobRecord /\ currentJob # NoJob /\ isr' = "receive"
  BY DEF Send, SpiTypeOK, AtRest
<1>2. CASE LeftToTx(currentJob) = 0
  <2>1. UNCHANGED <<currentJob, symbolsInProgress, bus>>
    BY <1>2 DEF Send, bus
  <2>2. Counted' /\ InTurn'
    BY <2>1, SameBus
  <2> QED
    BY <1>1, <2>1, <2>2 DEF bus, Send, SpiTypeOK, AtRest, Enabled, Reported, AnswersInOrder
<1>3. CASE LeftToTx(currentJob) # 0
  <2> DEFINE job == currentJob
  <2>1. /\ job.id \in Nat /\ job.dataTxed \in Nat
        /\ job.dataLeftToTx \in Nat /\ job.dummyLeftToTx \in Nat
        /\ Len(txFifo) \in Nat /\ Len(shifting) \in Nat /\ Len(rxFifo) \in Nat
        /\ OnTheWay \in Nat /\ FifoSize \in Nat
    BY <1>1, JobFields, BusLengths
  <2>2. Room = FifoSize - OnTheWay /\ Room \in Nat
    <3>1. symbolsInProgress = OnTheWay /\ OnTheWay <= FifoSize
      BY <1>1 DEF Counted
    <3>2. Most(symbolsInProgress, Len(txFifo)) = OnTheWay
      BY <2>1, <3>1 DEF Most, OnTheWay
    <3> QED
      BY <2>1, <3>1, <3>2 DEF Room
  <2>3. PICK data \in 0..job.dataLeftToTx : data = Least(job.dataLeftToTx, Room) /\ data \in 0..Room
    BY <2>1, <2>2, LeastOf
  <2>4. PICK dummies \in 0..job.dummyLeftToTx :
            dummies = Least(job.dummyLeftToTx, Room - data) /\ data + dummies \in 0..Room
    <3>1. Room - data \in Nat
      BY <2>2, <2>3
    <3>2. /\ Least(job.dummyLeftToTx, Room - data) \in 0..job.dummyLeftToTx
          /\ Least(job.dummyLeftToTx, Room - data) \in 0..(Room - data)
      BY <2>1, <3>1, LeastOf
    <3> QED
      BY <2>2, <2>3, <3>2
  <2> DEFINE made == Made(job.id, job.dataTxed, data + dummies)
  <2>5. /\ currentJob' = Sent(job, data, dummies)
        /\ txFifo' = txFifo \o made
        /\ symbolsInProgress' = symbolsInProgress + data + dummies
        /\ UNCHANGED <<shifting, rxFifo>>
    BY <1>3, <2>3, <2>4 DEF Send, Send8Bit, Sent, Made
  <2>6. /\ currentJob' \in JobRecord
        /\ currentJob'.id = job.id /\ currentJob'.wanted = job.wanted
        /\ currentJob'.rxBuffer = job.rxBuffer
        /\ currentJob'.dataTxed = job.dataTxed + data + dummies
        /\ currentJob'.dataLeftToRx = job.dataLeftToRx
        /\ LeftToTx(currentJob') = LeftToTx(job) - data - dummies
        /\ LeftToRx(currentJob') = LeftToRx(job)
    BY <1>1, <2>5, SentJob
  <2>7. /\ Taken \in Nat /\ Numbered(txFifo, job.id, Taken + Len(rxFifo) + Len(shifting))
        /\ Taken + Len(rxFifo) + Len(shifting) + Len(txFifo) = job.dataTxed
    BY <1>1, <2>1, SMTT(30) DEF InTurn, Taken, OnTheWay
  <2>8. /\ Numbered(txFifo', job.id, Taken + Len(rxFifo) + Len(shifting))
        /\ Len(txFifo') = Len(txFifo) + data + dummies
    <3>1. Numbered(made, job.id, job.dataTxed) /\ Len(made) = data + dummies
      <4>1. data + dummies \in Nat
        OBVIOUS
      <4> QED
        BY <2>1, <4>1, NumberedMade
    <3> HIDE DEF made
    <3>2. Taken + Len(rxFifo) + Len(shifting) \in Nat
      BY <2>1, <2>7
    <3>3. /\ Numbered(txFifo \o made, job.id, Taken + Len(rxFifo) + Len(shifting))
          /\ Len(txFifo \o made) = Len(txFifo) + Len(made)
      BY <2>7, <3>1, <3>2, NumberedConcat
    <3> QED
      BY <2>1, <2>5, <3>1, <3>3
  <2> HIDE DEF made
  <2>9. OnTheWay' = OnTheWay + data + dummies /\ Taken' = Taken
    <3>1. Len(shifting') = Len(shifting) /\ Len(rxFifo') = Len(rxFifo)
      BY <2>5
    <3>2. OnTheWay' = OnTheWay + data + dummies
      BY <2>1, <2>8, <3>1 DEF OnTheWay
    <3>3. Taken' = currentJob'.dataTxed - OnTheWay'
      BY DEF Taken
    <3> QED
      BY <2>1, <2>6, <3>2, <3>3 DEF Taken
  <2>10. currentJob' # NoJob
    BY <2>6, JobFields
  <2>11. Counted'
    <3>1. /\ symbolsInProgress = OnTheWay
          /\ LeftToRx(job) = LeftToTx(job) + OnTheWay /\ LeftToTx(job) \in Nat
      BY <1>1, JobFields DEF Counted
    <3>2. symbolsInProgress' = OnTheWay'
      BY <2>1, <2>5, <2>9, <3>1
    <3>3. OnTheWay' <= FifoSize
      BY <2>1, <2>2, <2>4, <2>9
    <3>4. LeftToRx(currentJob') = LeftToTx(currentJob') + OnTheWay'
      BY <2>1, <2>6, <2>9, <3>1
    <3> QED
      BY <3>2, <3>3, <3>4 DEF Counted
  <2>12. SpiTypeOK'
    <3>1. symbolsInProgress' \in Nat
      BY <2>5 DEF SpiTypeOK
    <3>2. txFifo' \in Seq(Byte)
      BY <2>8 DEF Numbered
    <3> QED
      BY <1>1, <2>5, <2>6, <3>1, <3>2 DEF SpiTypeOK, Send
  <2>13. InTurn'
    BY <1>1, <2>5, <2>6, <2>7, <2>8, <2>9 DEF InTurn
  <2> QED
    BY <1>1, <2>10, <2>11, <2>12, <2>13 DEF Send, AtRest, Enabled, Reported, AnswersInOrder
<1> QED
  BY <1>2, <1>3

LEMMA ReceiveInv ==
    ASSUME SpiInv, Receive
    PROVE  SpiInv'
<1> USE DEF SpiInv
<1>1. currentJob \in JobRecord /\ currentJob # NoJob /\ isr' = "end"
  BY DEF Receive, SpiTypeOK, AtRest
<1>2. CASE LeftToRx(currentJob) = 0
  <2>1. UNCHANGED <<currentJob, symbolsInProgress, bus>>
    BY <1>2 DEF Receive, bus
  <2>2. Counted' /\ InTurn'
    BY <2>1, SameBus
  <2> QED
    BY <1>1, <2>1, <2>2 DEF bus, Receive, SpiTypeOK, AtRest, Enabled, Reported, AnswersInOrder
<1>3. CASE LeftToRx(currentJob) # 0
  <2> DEFINE job == currentJob
  <2>1. /\ job.id \in Nat /\ job.dataTxed \in Nat /\ job.wanted \in Nat
        /\ Len(job.rxBuffer) \in Nat
        /\ job.dataLeftToRx \in Nat /\ job.dummyLeftToRx \in Nat
        /\ Len(txFifo) \in Nat /\ Len(shifting) \in Nat /\ Len(rxFifo) \in Nat
        /\ OnTheWay \in Nat /\ FifoSize \in Nat
    BY <1>1, JobFields, BusLengths
  <2>2. PICK data \in 0..job.dataLeftToRx :
            /\ data = Least(job.dataLeftToRx, Len(rxFifo)) /\ data \in 0..Len(rxFifo)
            /\ data = job.dataLeftToRx \/ data = Len(rxFifo)
    <3>1. /\ Least(job.dataLeftToRx, Len(rxFifo)) \in 0..job.dataLeftToRx
          /\ Least(job.dataLeftToRx, Len(rxFifo)) \in 0..Len(rxFifo)
          /\ \/ Least(job.dataLeftToRx, Len(rxFifo)) = job.dataLeftToRx
             \/ Least(job.dataLeftToRx, Len(rxFifo)) = Len(rxFifo)
      BY <2>1, LeastOf
    <3> QED
      BY <3>1
  <2>3. PICK dummies \in 0..job.dummyLeftToRx :
            /\ dummies = Least(job.dummyLeftToRx, Len(rxFifo) - data)
            /\ data + dummies \in 0..Len(rxFifo)
    <3>1. Len(rxFifo) - data \in Nat
      BY <2>1, <2>2
    <3>2. /\ Least(job.dummyLeftToRx, Len(rxFifo) - data) \in 0..job.dummyLeftToRx
          /\ Least(job.dummyLeftToRx, Len(rxFifo) - data) \in 0..(Len(rxFifo) - data)
      BY <2>1, <3>1, LeastOf
    <3> QED
      BY <2>1, <2>2, <3>2, SMTT(30)
  <2> DEFINE buffer == job.rxBuffer \o SubSeq(rxFifo, 1, data)
  <2>4. /\ currentJob' = Received(job, data, dummies, buffer)
        /\ rxFifo' = SubSeq(rxFifo, data + dummies + 1, Len(rxFifo))
        /\ symbolsInProgress' = symbolsInProgress - data - dummies
        /\ UNCHANGED <<txFifo, shifting>>
    BY <1>3, <2>2, <2>3 DEF Receive, Receive8Bit, DataRead, Received
  <2>5. /\ Taken \in Nat
        /\ Numbered(rxFifo, job.id, Taken) /\ Numbered(job.rxBuffer, job.id, 0)
    BY <1>1 DEF InTurn
  <2>6. Numbered(SubSeq(rxFifo, 1, data), job.id, Taken) /\ Len(SubSeq(rxFifo, 1, data)) = data
    BY <2>2, <2>5, NumberedSplit
  <2>7. /\ Numbered(rxFifo', job.id, Taken + (data + dummies))
        /\ Len(rxFifo') = Len(rxFifo) - (data + dummies)
    BY <2>3, <2>4, <2>5, NumberedSplit
  <2>8. Numbered(buffer, job.id, 0) /\ Len(buffer) = Len(job.rxBuffer) + data
    <3>1. CASE job.dataLeftToRx > 0
      <4>1. Taken = 0 + Len(job.rxBuffer)
        BY <1>1, <2>1, <3>1 DEF InTurn
      <4> QED
        BY <2>5, <2>6, <4>1, NumberedConcat
    <3>2. CASE job.dataLeftToRx = 0
      <4>1. data = 0
        BY <3>2
      <4>2. SubSeq(rxFifo, 1, data) = <<>>
        BY <4>1, SubSeqEmpty
      <4>3. job.rxBuffer \in Seq(Byte)
        BY <2>5 DEF Numbered
      <4>4. buffer = job.rxBuffer
        BY <4>2, <4>3, ConcatEmptySeq
      <4> HIDE DEF buffer
      <4>5. Len(buffer) = Len(job.rxBuffer) + 0
        BY <2>1, <4>4
      <4> QED
        BY <2>5, <4>1, <4>4, <4>5
    <3> HIDE DEF buffer
    <3>3. job.dataLeftToRx > 0 \/ job.dataLeftToRx = 0
      BY <2>1
    <3> QED
      BY <3>1, <3>2, <3>3
  <2> HIDE DEF buffer
  <2>9. /\ currentJob' \in JobRecord
        /\ currentJob'.id = job.id /\ currentJob'.wanted = job.wanted
        /\ currentJob'.rxBuffer = buffer
        /\ currentJob'.dataTxed = job.dataTxed
        /\ currentJob'.dataLeftToRx = job.dataLeftToRx - data
        /\ LeftToTx(currentJob') = LeftToTx(job)
        /\ LeftToRx(currentJob') = LeftToRx(job) - data - dummies
    <3>1. buffer \in Seq(Byte)
      BY <2>8 DEF Numbered
    <3> QED
      BY <1>1, <2>4, <3>1, ReceivedJob
  <2>10. OnTheWay' = OnTheWay - (data + dummies) /\ Taken' = Taken + (data + dummies)
    <3>1. Len(shifting') = Len(shifting) /\ Len(txFifo') = Len(txFifo)
      BY <2>4
    <3>2. OnTheWay' = OnTheWay - (data + dummies)
      BY <2>1, <2>7, <3>1 DEF OnTheWay
    <3>3. Taken' = currentJob'.dataTxed - OnTheWay'
      BY DEF Taken
    <3> QED
      BY <2>1, <2>9, <3>2, <3>3 DEF Taken
  <2>11. currentJob' # NoJob
    BY <2>9, JobFields
  <2>12. Counted' /\ symbolsInProgress' \in Nat
    <3>1. /\ symbolsInProgress = OnTheWay /\ OnTheWay <= FifoSize
          /\ LeftToRx(job) = LeftToTx(job) + OnTheWay /\ LeftToTx(job) \in Nat
      BY <1>1, JobFields DEF Counted
    <3>2. symbolsInProgress' = OnTheWay'
      BY <2>1, <2>4, <2>10, <3>1
    <3>3. OnTheWay' \in 0..FifoSize
      <4>1. OnTheWay - (data + dummies) \in Nat
        BY <2>1, <2>3, SMTT(30) DEF OnTheWay
      <4> QED
        BY <2>1, <2>3, <2>10, <3>1, <4>1, SMTT(30)
    <3>4. LeftToRx(currentJob') = LeftToTx(currentJob') + OnTheWay'
      BY <2>1, <2>9, <2>10, <3>1
    <3> QED
      BY <2>1, <3>2, <3>3, <3>4 DEF Counted
  <2>13. SpiTypeOK'
    <3>1. rxFifo' \in Seq(Byte)
      BY <2>7 DEF Numbered
    <3> QED
      BY <1>1, <2>4, <2>9, <2>12, <3>1 DEF SpiTypeOK, Receive
  <2>14. InTurn'
    <3>1. /\ Taken' \in Nat /\ Taken' + Len(rxFifo') = Taken + Len(rxFifo)
      BY <2>1, <2>5, <2>7, <2>10
    <3>2. Len(buffer) + currentJob'.dataLeftToRx = job.wanted
      BY <1>1, <2>1, <2>8, <2>9 DEF InTurn
    <3>3. currentJob'.dataLeftToRx > 0 => Taken' = Len(buffer)
      <4> SUFFICES ASSUME currentJob'.dataLeftToRx > 0 PROVE Taken' = Len(buffer)
        OBVIOUS
      <4>1. data < job.dataLeftToRx
        BY <2>1, <2>9
      <4>2. data = Len(rxFifo) /\ dummies = 0
        BY <2>1, <2>2, <2>3, <4>1
      <4>3. Taken = Len(job.rxBuffer)
        BY <1>1, <2>1, <4>1 DEF InTurn
      <4> QED
        BY <2>1, <2>8, <2>10, <4>2, <4>3
    <3> QED
      BY <1>1, <2>4, <2>7, <2>8, <2>9, <2>10, <3>1, <3>2, <3>3 DEF InTurn
  <2> QED
    BY <1>1, <2>11, <2>12, <2>13, <2>14 DEF Receive, AtRest, Enabled, Reported, AnswersInOrder
<1> QED
  BY <1>2, <1>3

\* When nothing is left to be taken, nothing is on its way, and the buffer is full.
LEMMA JobDoneInv ==
    ASSUME SpiInv, JobDone
    PROVE  SpiInv'
<1> USE DEF SpiInv
<1>1. currentJob \in JobRecord /\ currentJob # NoJob
  BY DEF JobDone, SpiTypeOK, AtRest
<1> DEFINE job == currentJob
<1>2. /\ Len(txFifo) \in Nat /\ Len(shifting) \in Nat /\ Len(rxFifo) \in Nat
      /\ LeftToTx(job) \in Nat /\ job.dataLeftToRx \in Nat /\ job.dummyLeftToRx \in Nat
      /\ job.wanted \in Nat /\ job.id \in Nat /\ job.rxBuffer \in Seq(Byte)
  BY <1>1, JobFields, BusLengths
<1>3. /\ LeftToTx(job) = 0
      /\ Len(txFifo) = 0 /\ Len(shifting) = 0 /\ Len(rxFifo) = 0
  BY <1>1, <1>2 DEF JobDone, Counted, OnTheWay
<1>4. txFifo = <<>> /\ shifting = <<>> /\ rxFifo = <<>>
  BY <1>3, EmptySeq DEF SpiTypeOK
<1>5. job.rxBuffer = [i \in 1..job.wanted |-> <<job.id, i>>]
  <2>1. job.dataLeftToRx = 0
    BY <1>2 DEF JobDone, LeftToRx
  <2>2. Len(job.rxBuffer) = job.wanted /\ Numbered(job.rxBuffer, job.id, 0)
    <3>1. Len(job.rxBuffer) \in Nat
      BY <1>1, JobFields
    <3> QED
      BY <1>1, <1>2, <2>1, <3>1 DEF InTurn
  <2>3. job.rxBuffer \in [1..job.wanted -> Byte]
    BY <1>2, <2>2, LenProperties
  <2>4. \A i \in 1..job.wanted : job.rxBuffer[i] = <<job.id, i>>
    BY <1>2, <2>2 DEF Numbered
  <2> QED
    BY <2>3, <2>4
<1>6. SpiTypeOK' /\ AtRest'
  BY <1>4 DEF JobDone, SpiTypeOK, AtRest, bus
<1>7. Counted' /\ InTurn' /\ Reported'
  BY DEF JobDone, Counted, InTurn, Reported
<1>8. Enabled'
  <2>1. ~spiEnabled'
    BY DEF JobDone, Enabled
  <2> QED
    BY <2>1 DEF JobDone, Enabled
<1>9. AnswersInOrder'
  BY <1>3, <1>4, <1>5 DEF JobDone, AnswersInOrder, bus
<1> QED
  BY <1>6, <1>7, <1>8, <1>9

LEMMA JobGoesOnInv ==
    ASSUME SpiInv, JobGoesOn
    PROVE  SpiInv'
<1> USE DEF SpiInv
<1>1. currentJob # NoJob
  BY DEF JobGoesOn, AtRest
<1>2. Counted' /\ InTurn'
  BY SameBus DEF JobGoesOn
<1> QED
  BY <1>1, <1>2 DEF JobGoesOn, bus, SpiTypeOK, AtRest, Enabled, Reported, AnswersInOrder

-----------------------------------------------------------------------------
(* The theorems                                                            *)

LEMMA SpiInvariant == SpiSpec => []SpiInv
<1>1. SpiInv /\ [SpiNext]_spiVars => SpiInv'
  <2> SUFFICES ASSUME SpiInv, [SpiNext]_spiVars PROVE SpiInv'
    OBVIOUS
  <2>1. CASE UNCHANGED spiVars
    <3>1. Counted' /\ InTurn'
      BY <2>1, SameBus DEF spiVars
    <3> QED
      BY <2>1, <3>1 DEF SpiInv, spiVars, bus, SpiTypeOK, AtRest, Enabled, Reported,
                        AnswersInOrder
  <2> QED
    BY <2>1, BufferAddInv, ShiftInv, InterruptedInv, KeepJobInv, NewJobInv, SendInv,
       ReceiveInv, JobDoneInv, JobGoesOnInv DEF SpiNext
<1> QED
  BY SpiInitInv, <1>1, PTL DEF SpiSpec

\* A job completes with the answers to its own bytes, all of them and in their
\* order (DRV_SPI_ISRMasterEBM8BitTasks), however the bus and the handler meet.
THEOREM JobAnswered == SpiSpec => []AnswersInOrder
<1>1. SpiInv => AnswersInOrder
  BY DEF SpiInv
<1> QED
  BY <1>1, SpiInvariant, PTL

\* The driver never waits for what cannot come: no answer overflows the receiver,
\* and outside the handler the bus is at work or an interrupt pending.
THEOREM DriverNotStuck == SpiSpec => []JobsGoOn
<1>1. SpiInv => JobsGoOn
  <2> SUFFICES ASSUME SpiInv PROVE JobsGoOn
    OBVIOUS
  <2>1. currentJob # NoJob =>
            LeftToRx(currentJob) =
                LeftToTx(currentJob) + Len(txFifo) + Len(shifting) + Len(rxFifo)
    <3> SUFFICES ASSUME currentJob # NoJob
                 PROVE  LeftToRx(currentJob) =
                            LeftToTx(currentJob) + Len(txFifo) + Len(shifting) + Len(rxFifo)
      OBVIOUS
    <3>1. currentJob \in JobRecord
      BY DEF SpiInv, SpiTypeOK
    <3>2. /\ Len(txFifo) \in Nat /\ Len(shifting) \in Nat /\ Len(rxFifo) \in Nat
          /\ LeftToTx(currentJob) \in Nat
      BY <3>1, JobFields, BusLengths DEF SpiInv
    <3> QED
      BY <3>2 DEF SpiInv, Counted, OnTheWay
  <2>2. txFifo = <<>> => Pending
    <3>1. 0 <= FifoSize \div 2
      BY SpiAssumption
    <3>2. txFifo = <<>> => Len(txFifo) = 0
      BY EmptySeq
    <3>3. 0 <= IF txMode = "empty" THEN 0 ELSE FifoSize \div 2
      BY <3>1
    <3> QED
      BY <3>2, <3>3 DEF Pending
  <2> QED
    BY <2>1, <2>2 DEF SpiInv, JobsGoOn, Enabled
<1> QED
  BY <1>1, SpiInvariant, PTL
=============================================================================
