------------------------------ MODULE SdSound ------------------------------
(***************************************************************************)
(* The SD card, its one file handle, and sound played from it while the    *)
(* main loop runs.                                                         *)
(*                                                                         *)
(* vSoundfromSD allocates two buffers, reads the first chunk of the file   *)
(* and starts timer 4.  The timer 4 interrupt plays a byte per tick, takes *)
(* the other buffer when one is used up and asks the main loop, through    *)
(* ucReadSndBuff, to refill the one it left; a short read marks the end of *)
(* the file.  At the end the interrupt itself frees the buffers, clears    *)
(* cSdBusy and closes the file.  The main loop is split where the          *)
(* interrupt can come between two of its accesses to shared state.         *)
(*                                                                         *)
(* What the code relies on without enforcing it is recorded in `disturbed`:*)
(*   "late"    the main loop did not refill, or did not finish starting,   *)
(*             before the interrupt needed it                              *)
(*   "shared"  another operation took the file handle during playback      *)
(*   "stale"   timer 4, which is never stopped, ticked during a new start  *)
(*   "ioerror" SYS_FS_FileRead failed                                      *)
(***************************************************************************)
EXTENDS Integers, Sequences, FiniteSets

CONSTANTS
  BufSize,     \* bytes of a sound buffer (4096)
  Lengths,     \* lengths of the sound files behind their 64-byte header
  Blocks,      \* heap blocks of BufSize bytes, numbered
  MaxSounds,   \* bound: sounds started
  MaxPictures, \* bound: pictures shown
  IoErrors     \* BOOLEAN: whether reads may fail

ASSUME BufSizeAssumption == BufSize \in Nat \ {0}
\* ucPlaySound wants a file of more than two buffers, header included.
ASSUME LengthsAssumption == Lengths \subseteq {n \in Nat : n >= 2 * BufSize - 1}
ASSUME BlocksAssumption  == Blocks \subseteq Nat \ {0} /\ IsFiniteSet(Blocks)
ASSUME SdBoundsAssumption == MaxSounds \in Nat /\ MaxPictures \in Nat /\ IoErrors \in BOOLEAN

VARIABLES
  pc,            \* where the main loop is
  uiSdState, ucSdReady, cSdBusy,
  fileHandle,    \* whose file appData.fileHandle names: "none", "snd" or "pic"
  sndOpen,       \* the sound file is open
  sndPos, sndLen,\* read position in it and its length
  cPwmDone, ulSptr, bSndReady, ucReadSndBuff, ulSndBytes, ucSoundFirst,
  timerOn,       \* T4 runs with its interrupt enabled
  pbSoundbuff,   \* the pointers pbSoundbuff1 and pbSoundbuff2 (0: NULL)
  live,          \* heap blocks allocated
  mem,           \* block -> file positions it holds, 0 for anything else
  rdTarget,      \* block the read in progress writes to
  playback,      \* "none", "starting", "playing", "ended" or "failed" (history)
  out,           \* file positions played so far in this playback, to one past its end (history)
  doubleFree,    \* a block was freed that was not allocated (history)
  disturbed,     \* reliances broken in this playback (history)
  sounds, pictures

sdVars    == <<uiSdState, ucSdReady, cSdBusy>>
fileVars  == <<fileHandle, sndOpen, sndPos, sndLen>>
soundVars == <<cPwmDone, ulSptr, bSndReady, ucReadSndBuff, ulSndBytes, ucSoundFirst, timerOn>>
heapVars  == <<pbSoundbuff, live, mem, doubleFree>>
countVars == <<sounds, pictures>>
vars == <<pc, sdVars, fileVars, soundVars, heapVars, rdTarget, playback, out, disturbed, countVars>>

\* (unsigned long) -1, what ulSndBytes becomes when a read fails.
ReadFailed == 2 * BufSize

Garbage == [i \in 1..BufSize |-> 0]

-----------------------------------------------------------------------------
(* The file system and the heap, as the code uses them *)

\* Bytes SYS_FS_FileRead returns for a whole-buffer read of an open sound file.
ChunkLen == IF sndLen - sndPos < BufSize THEN sndLen - sndPos ELSE BufSize

\* The block's contents after that read: a short read leaves the rest alone.
Filled(block) ==
  [i \in 1..BufSize |-> IF i <= ChunkLen THEN sndPos + i ELSE mem[block][i]]

ReadWorks == fileHandle = "snd" /\ sndOpen

\* malloc: the first free block, or none.
FreeBlocks == Blocks \ live
FirstFree  == CHOOSE b \in FreeBlocks : \A c \in FreeBlocks : b <= c

\* Mutant: the first buffer is forgotten.
FreeSecond(p, q) ==
  /\ live' = live \ {q}
  /\ doubleFree' = (doubleFree \/ (q # 0 /\ q \notin live))

\* free(p), free(q): freeing NULL is nothing, freeing a free block is an error.
FreeBoth(p, q) ==
  /\ live' = live \ {p, q}
  /\ doubleFree' = (doubleFree \/ (p # 0 /\ p \notin live) \/ (q # 0 /\ q \notin live \ {p}))

-----------------------------------------------------------------------------
(* SD_State, in the pass of the main loop *)

\* rcMountCard succeeds; a failed attempt only counts and tells the user.
SdMount ==
  /\ pc = "loop"
  /\ uiSdState = 10
  /\ ucSdReady' = 1
  /\ uiSdState' = 100
  /\ UNCHANGED <<pc, cSdBusy, fileVars, soundVars, heapVars, rdTarget, playback, out, disturbed, countVars>>

\* Every pass after mounting ends any reservation of the card.
SdIdle ==
  /\ pc = "loop"
  /\ uiSdState = 100
  /\ cSdBusy' = 0
  /\ UNCHANGED <<pc, uiSdState, ucSdReady, fileVars, soundVars, heapVars, rdTarget, playback, out, disturbed, countVars>>

-----------------------------------------------------------------------------
(* vSndRd and ucReadSndBuff: refill a buffer for the interrupt *)

\* The flag names the buffer; the pointer is taken before the slow read.
RdTest ==
  /\ pc = "loop"
  /\ ucReadSndBuff # 0
  /\ rdTarget' = pbSoundbuff[ucReadSndBuff]
  /\ pc' = "read"
  /\ UNCHANGED <<sdVars, fileVars, soundVars, heapVars, playback, out, disturbed, countVars>>

\* SYS_FS_FileRead writes the buffer ...
RdFill ==
  /\ pc = "read"
  /\ \/ /\ ReadWorks
        /\ mem' = [mem EXCEPT ![rdTarget] = Filled(rdTarget)]
        /\ sndPos' = sndPos + ChunkLen
        /\ ulSndBytes' = ChunkLen
        /\ UNCHANGED disturbed
     \/ /\ ~ReadWorks \/ IoErrors
        /\ ulSndBytes' = ReadFailed
        /\ disturbed' = disturbed \union {"ioerror"}
        /\ UNCHANGED <<mem, sndPos>>
  /\ pc' = "clear"
  /\ UNCHANGED <<sdVars, fileHandle, sndOpen, sndLen, cPwmDone, ulSptr, bSndReady, ucReadSndBuff,
                 ucSoundFirst, timerOn, pbSoundbuff, live, doubleFree, rdTarget, playback, out, countVars>>

\* ... and only then the request is taken down, whatever it asks for by now.
RdClear ==
  /\ pc = "clear"
  /\ ucReadSndBuff' = 0
  /\ pc' = "loop"
  /\ UNCHANGED <<sdVars, fileVars, cPwmDone, ulSptr, bSndReady, ulSndBytes, ucSoundFirst, timerOn,
                 heapVars, rdTarget, playback, out, disturbed, countVars>>

-----------------------------------------------------------------------------
(* vSoundfromSD and ucPlaySound: start a playback *)

\* The card is free: reserve it.  A playback still running is not noticed.
SoundStart ==
  /\ pc = "loop"
  /\ sounds < MaxSounds
  /\ cSdBusy = 0 /\ ucSdReady = 1
  /\ cSdBusy' = 1
  /\ sounds' = sounds + 1
  /\ playback' = "starting"
  /\ out' = <<>>
  /\ disturbed' = IF playback \in {"starting", "playing"} THEN {"shared"} ELSE {}
  /\ pc' = "pwmdone"
  /\ UNCHANGED <<uiSdState, ucSdReady, fileVars, soundVars, heapVars, rdTarget, pictures>>

SoundPwmDone ==
  /\ pc = "pwmdone"
  /\ cPwmDone' = 0
  /\ pc' = "sptr"
  /\ UNCHANGED <<sdVars, fileVars, ulSptr, bSndReady, ucReadSndBuff, ulSndBytes, ucSoundFirst, timerOn,
                 heapVars, rdTarget, playback, out, disturbed, countVars>>

SoundSptr ==
  /\ pc = "sptr"
  /\ ulSptr' = 0
  /\ pc' = "noread"
  /\ UNCHANGED <<sdVars, fileVars, cPwmDone, bSndReady, ucReadSndBuff, ulSndBytes, ucSoundFirst, timerOn,
                 heapVars, rdTarget, playback, out, disturbed, countVars>>

SoundNoRead ==
  /\ pc = "noread"
  /\ ucReadSndBuff' = 0
  /\ pc' = "malloc1"
  /\ UNCHANGED <<sdVars, fileVars, cPwmDone, ulSptr, bSndReady, ulSndBytes, ucSoundFirst, timerOn,
                 heapVars, rdTarget, playback, out, disturbed, countVars>>

\* malloc into the pointer; without memory the function returns as it stands:
\* the card reserved, cPwmDone clear, the other pointer kept.
SoundMalloc(n, here, next) ==
  /\ pc = here
  /\ IF FreeBlocks # {}
       THEN /\ pbSoundbuff' = [pbSoundbuff EXCEPT ![n] = FirstFree]
            /\ live' = live \union {FirstFree}
            /\ mem' = [mem EXCEPT ![FirstFree] = Garbage]
            /\ pc' = next
            /\ UNCHANGED playback
       ELSE /\ pbSoundbuff' = [pbSoundbuff EXCEPT ![n] = 0]
            /\ pc' = "loop"
            /\ playback' = "failed"
            /\ UNCHANGED <<live, mem>>
  /\ UNCHANGED <<sdVars, fileVars, soundVars, doubleFree, rdTarget, out, disturbed, countVars>>

SoundMalloc1 == SoundMalloc(1, "malloc1", "malloc2")
SoundMalloc2 == SoundMalloc(2, "malloc2", "open")

\* SYS_FS_FileStat, SYS_FS_FileOpen and the seek past the header.
SoundOpen ==
  /\ pc = "open"
  /\ fileHandle' = "snd" /\ sndOpen' = TRUE /\ sndPos' = 0 /\ sndLen' \in Lengths
  /\ pc' = "first"
  /\ UNCHANGED <<sdVars, soundVars, heapVars, rdTarget, playback, out, disturbed, countVars>>

\* The file is missing or too short: the buffers stay allocated.
SoundNoFile ==
  /\ pc = "open"
  /\ IoErrors
  /\ playback' = "failed"
  /\ pc' = "loop"
  /\ UNCHANGED <<sdVars, fileVars, soundVars, heapVars, rdTarget, out, disturbed, countVars>>

\* The first buffer is read, unless the file was closed under it.
SoundFirst ==
  /\ pc = "first"
  /\ IF ReadWorks
       THEN /\ mem' = [mem EXCEPT ![pbSoundbuff[1]] = Filled(pbSoundbuff[1])]
            /\ sndPos' = sndPos + ChunkLen
            /\ pc' = "setup"
            /\ UNCHANGED playback
       ELSE /\ playback' = "failed"
            /\ pc' = "loop"
            /\ UNCHANGED <<mem, sndPos>>
  /\ UNCHANGED <<sdVars, fileHandle, sndOpen, sndLen, soundVars, pbSoundbuff, live, doubleFree,
                 rdTarget, out, disturbed, countVars>>

\* ulSndBytes, ucSoundFirst and ulSptr are set and T4 is stopped to be set up.
\* (The interrupt may still come between them while T4 of an earlier playback
\* runs; such a tick is the one before this step.)
SoundSetup ==
  /\ pc = "setup"
  /\ ulSndBytes' = BufSize /\ ucSoundFirst' = 1 /\ ulSptr' = 0 /\ timerOn' = FALSE
  /\ pc' = "timer"
  /\ UNCHANGED <<sdVars, fileVars, cPwmDone, bSndReady, ucReadSndBuff, heapVars, rdTarget, playback,
                 out, disturbed, countVars>>

SoundTimer ==
  /\ pc = "timer"
  /\ timerOn' = TRUE
  /\ pc' = "ready"
  /\ UNCHANGED <<sdVars, fileVars, cPwmDone, ulSptr, bSndReady, ucReadSndBuff, ulSndBytes, ucSoundFirst,
                 heapVars, rdTarget, playback, out, disturbed, countVars>>

SoundReady ==
  /\ pc = "ready"
  /\ bSndReady' = 1
  /\ playback' = IF playback = "starting" THEN "playing" ELSE playback
  /\ pc' = "loop"
  /\ UNCHANGED <<sdVars, fileVars, cPwmDone, ulSptr, ucReadSndBuff, ulSndBytes, ucSoundFirst, timerOn,
                 heapVars, rdTarget, out, disturbed, countVars>>

-----------------------------------------------------------------------------
(* vPicturefromSD and ucDisplayImage: the same handle, opened and closed *)

InPlayback == playback \in {"starting", "playing"}

PictureOpen ==
  /\ pc = "loop"
  /\ pictures < MaxPictures
  /\ cSdBusy = 0 /\ ucSdReady = 1
  /\ cSdBusy' = 1
  /\ pictures' = pictures + 1
  /\ fileHandle' = "pic"
  /\ disturbed' = IF InPlayback THEN disturbed \union {"shared"} ELSE disturbed
  /\ pc' = "picture"
  /\ UNCHANGED <<uiSdState, ucSdReady, sndOpen, sndPos, sndLen, soundVars, heapVars, rdTarget,
                 playback, out, sounds>>

PictureClose ==
  /\ pc = "picture"
  /\ fileHandle' = "none"
  /\ cSdBusy' = 0
  /\ pc' = "loop"
  /\ UNCHANGED <<uiSdState, ucSdReady, sndOpen, sndPos, sndLen, soundVars, heapVars, rdTarget,
                 playback, out, disturbed, countVars>>

-----------------------------------------------------------------------------
(* timer4_handler: one tick of the sound clock *)

\* A used-up buffer: take the other one and ask for this one to be refilled.
UsedUp    == ulSptr > BufSize - 1
PlayFrom  == IF UsedUp THEN IF bSndReady = 1 THEN 2 ELSE 1 ELSE bSndReady
PlayAt    == IF UsedUp THEN 0 ELSE ulSptr

\* Mutants: the second buffer is not asked for at the start; the buffer taken is
\* asked for instead of the one left.
RequestNotFirst == IF UsedUp THEN IF bSndReady = 1 THEN 1 ELSE 2 ELSE ucReadSndBuff
RequestTaken    == IF ucSoundFirst = 1 THEN 2
                   ELSE IF UsedUp THEN IF bSndReady = 1 THEN 2 ELSE 1
                   ELSE ucReadSndBuff

Request   == IF ucSoundFirst = 1 THEN 2
             ELSE IF UsedUp THEN IF bSndReady = 1 THEN 1 ELSE 2
             ELSE ucReadSndBuff

\* The byte output: nothing while bSndReady is still 0.
Played == IF PlayFrom = 0 \/ pbSoundbuff[PlayFrom] = 0 THEN 0
          ELSE mem[pbSoundbuff[PlayFrom]][PlayAt + 1]

\* Mutants: the end of a full buffer is taken for the end of the file; only an exact
\* hit on the number of bytes read is.
EndOfBuffer == PlayAt + 1 >= ulSndBytes
ExactEnd    == PlayAt + 1 = ulSndBytes /\ ulSndBytes < BufSize

\* A short read has been used up: the end of the file.
EndOfFile == PlayAt + 1 >= ulSndBytes /\ ulSndBytes < BufSize

\* What this tick finds not as the code relies on.
Broken ==
  (IF pc = "ready" \/ (UsedUp /\ ucReadSndBuff # 0) THEN {"late"} ELSE {})
  \union (IF playback # "playing" /\ pc # "ready" THEN {"stale"} ELSE {})

TickSilent ==
  /\ timerOn /\ cPwmDone = 1
  /\ bSndReady' = PlayFrom /\ ulSptr' = PlayAt /\ ucReadSndBuff' = Request /\ ucSoundFirst' = 0
  /\ UNCHANGED <<pc, sdVars, fileVars, cPwmDone, ulSndBytes, timerOn, heapVars, rdTarget, playback,
                 out, disturbed, countVars>>

TickPlay ==
  /\ timerOn /\ cPwmDone = 0
  /\ bSndReady' = PlayFrom /\ ulSptr' = PlayAt + 1 /\ ucSoundFirst' = 0
  /\ disturbed' = disturbed \union Broken
  /\ out' = IF disturbed' = {} /\ Len(out) <= sndLen THEN Append(out, Played) ELSE out
  /\ IF EndOfFile
       THEN /\ cPwmDone' = 1
            /\ FreeBoth(pbSoundbuff[1], pbSoundbuff[2])
            /\ ucReadSndBuff' = 0
            /\ cSdBusy' = 0
            /\ sndOpen' = (sndOpen /\ fileHandle # "snd")
            /\ fileHandle' = "none"
            /\ playback' = IF playback = "playing" THEN "ended" ELSE playback
       ELSE /\ ucReadSndBuff' = Request
            /\ UNCHANGED <<cPwmDone, live, doubleFree, cSdBusy, sndOpen, fileHandle, playback>>
  /\ UNCHANGED <<pc, uiSdState, ucSdReady, sndPos, sndLen, ulSndBytes, timerOn, pbSoundbuff, mem,
                 rdTarget, countVars>>

-----------------------------------------------------------------------------
Init ==
  /\ pc = "loop"
  /\ uiSdState = 10 /\ ucSdReady = 0 /\ cSdBusy = 0
  /\ fileHandle = "none" /\ sndOpen = FALSE /\ sndPos = 0 /\ sndLen = 0
  /\ cPwmDone = 0 /\ ulSptr = 0 /\ bSndReady = 0 /\ ucReadSndBuff = 0 /\ ulSndBytes = 0
  /\ ucSoundFirst = 0 /\ timerOn = FALSE
  /\ pbSoundbuff = <<0, 0>> /\ live = {} /\ mem = [b \in Blocks |-> Garbage]
  /\ rdTarget = 0 /\ playback = "none" /\ out = <<>> /\ doubleFree = FALSE
  /\ disturbed = {} /\ sounds = 0 /\ pictures = 0

vSndRd       == RdTest \/ RdFill \/ RdClear
vSoundfromSD == \/ SoundPwmDone \/ SoundSptr \/ SoundNoRead \/ SoundMalloc1 \/ SoundMalloc2
                \/ SoundOpen \/ SoundNoFile \/ SoundFirst \/ SoundSetup \/ SoundTimer \/ SoundReady
SD_State     == SdMount \/ SdIdle
vPicturefromSD == PictureOpen \/ PictureClose
timer4_handler == TickSilent \/ TickPlay

Next == SD_State \/ vSndRd \/ SoundStart \/ vSoundfromSD \/ vPicturefromSD \/ timer4_handler

\* The main loop goes round and comes back to vSndRd; T4 keeps ticking.
Fairness == WF_vars(vSndRd) /\ WF_vars(vSoundfromSD) /\ WF_vars(PictureClose) /\ WF_vars(timer4_handler)

Spec == Init /\ [][Next]_vars /\ Fairness

-----------------------------------------------------------------------------
(* Correctness *)

Undisturbed == disturbed = {}

\* As long as the main loop refills in time and nobody takes the card, what is
\* heard is the file from its first byte on, each byte once and in order, across
\* every change of buffer and whatever the timing of the refills.  (A file that
\* fills its last buffer exactly may be followed by one old byte: the interrupt
\* plays first and then finds that nothing more was read.)
PlaysInOrder ==
  \A i \in 1..Len(out) :
    \/ out[i] = i
    \/ playback = "ended" /\ sndLen % BufSize = 0 /\ i = sndLen + 1

\* ulSndBytes belongs to the buffer being filled but is compared with the position
\* in the buffer being played, so the end of the file cuts playback short: by at
\* most one buffer, and never by more.
TailLossBounded == playback = "ended" /\ Undisturbed => Len(out) >= sndLen - BufSize

\* A refill is read into the buffer that is not being played.
RefillsTheIdleBuffer ==
  playback = "playing" /\ Undisturbed /\ pc = "read" => rdTarget # pbSoundbuff[bSndReady]

\* An undisturbed playback has both its buffers until its end and has returned both
\* then: nothing is played from freed memory and nothing is leaked.
BuffersReturned ==
  Undisturbed =>
    /\ playback = "playing" => {pbSoundbuff[1], pbSoundbuff[2]} \subseteq live
    /\ playback = "ended"   => {pbSoundbuff[1], pbSoundbuff[2]} \intersect live = {}

\* An undisturbed playback ends: the short read that marks the end always comes,
\* also for a file whose length is a multiple of the buffer's.
PlaybackEnds ==
  (playback = "playing") ~> (playback = "ended" \/ disturbed # {})

\* "Buffers are freed when timer callback detects end of file": once per playback.
FreedOnce == ~doubleFree
=============================================================================
