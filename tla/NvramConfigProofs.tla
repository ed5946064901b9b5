-------------------------- MODULE NvramConfigProofs --------------------------
(***************************************************************************)
(* Proofs about the configuration in flash, and about the driver under it. *)
(*                                                                         *)
(* NvramConfig, for all values of its constants: typing, that only erased  *)
(* flash is programmed, that a save is not lost, and the bound on wear.    *)
(*                                                                         *)
(* NvmDriver, for a media, buffers and tokens of any number: commands are  *)
(* performed whole and in their order, and reported completed when done.   *)
(* Its invariant follows the media through the queue: each command makes   *)
(* of what the one before it leaves what `plan` says, and a block done is  *)
(* one less for the rest to do.                                            *)
(***************************************************************************)
EXTENDS NvramConfig, NvmDriver, SequenceTheorems, WellFoundedInduction, TLAPS

Idle == command \in {"none", "done"}

-----------------------------------------------------------------------------
(* The inductive invariant *)

\* A configuration cut off while it was programmed is in RAM only right after it was
\* loaded: there is nothing to save then.
TornOnlyLoaded == sConfig = Torn => flash = Torn /\ Idle /\ uiNvramState \in {0, 10, 80}

\* What the states of a save know of the driver's command, and the reset of its end.
StateKnowsCommand ==
  /\ command = "write" => flash = Erased
  /\ uiNvramState = 30 => command = "erase" \/ (command = "done" /\ flash = Erased)
  /\ uiNvramState = 40 => command = "done" /\ flash = Erased
  /\ uiNvramState = 50 => command \in {"write", "done"}
  /\ cResetFlag = 1 => uiNvramState = 0
  /\ uiNvramState = 0 /\ cResetFlag = 0 => command = "none"

IInv == TypeOK /\ TornOnlyLoaded /\ StateKnowsCommand

\* The erases already owed to a change: the one under way, the one state 20 is about to
\* ask for, and the one that state 10 will find necessary.
ToBeSaved == \/ uiNvramState \in {10, 80} /\ (flash # sConfig \/ ~Idle)
             \/ uiNvramState = 50 /\ command = "done" /\ flash # sConfig
Owed == (IF command = "erase" THEN 1 ELSE 0) + (IF uiNvramState = 20 THEN 1 ELSE 0)
        + (IF ToBeSaved THEN 1 ELSE 0)
WearInv == erases + Owed <= edits + primed + powerFailures

\* Without resets during a save, its states are known from the handle and the page.
SaveInv ==
  /\ clients = IF hNvram = "client" THEN 1 ELSE 0
  /\ uiNvramState \in {0, 10} => hNvram = "none"
  /\ uiNvramState \in {20, 30, 40, 50} => hNvram = "client"
  /\ uiNvramState \in {0, 10, 20, 80} => Idle
  /\ command = "write" => uiNvramState = 50
  /\ ~cut /\ uiNvramState \in {0, 10, 20, 80} => flash = saved
  /\ ~cut /\ uiNvramState = 50 /\ command = "done" => flash = saved

-----------------------------------------------------------------------------
(* The steps *)

\* The Boolean variables, apart from the rest of the typing.
Flags == cEditFreq \in BOOLEAN /\ recent \in BOOLEAN /\ young \in BOOLEAN /\ cut \in BOOLEAN

LEMMA InitFlags == Init => Flags
  BY Zenon DEF Init, Flags

LEMMA StepFlags == Flags /\ [Next]_vars => Flags'
  BY Zenon DEF Flags, vars, Next, vNvram_State, DRV_NVM_Tasks, User, saveVars, driveVars, userVars, countVars,
     Prime, Load, CompareEqual, CompareDiffers, Erase, EraseDone, Write, WriteDone, Close,
     DriverErase, DriverWrite, EditSetting, EditFreqBegin, EditFreqEnd, Seconds, ConfigSent,
     vResetDevice, PowerFailure

LEMMA InitIInv == Init => IInv
  BY InitFlags, ConfigsAssumption DEF Flags, Init, IInv, TypeOK, TornOnlyLoaded, StateKnowsCommand, Idle

LEMMA StepIInv == IInv /\ [Next]_vars => IInv'
  <1> SUFFICES ASSUME IInv, [Next]_vars PROVE IInv'
    OBVIOUS
  <1>0. Flags'
    BY StepFlags DEF IInv, TypeOK, Flags
  <1> USE <1>0, ConfigsAssumption DEF Flags, IInv, TypeOK, TornOnlyLoaded, StateKnowsCommand, Idle
  <1>1. CASE Prime
    BY <1>1 DEF Prime, MagicOk, saveVars, driveVars, userVars, countVars
  <1>2. CASE Load
    BY <1>2 DEF Load, MagicOk, saveVars, driveVars, userVars, countVars
  <1>3. CASE CompareEqual
    BY <1>3 DEF CompareEqual, saveVars, driveVars, userVars, countVars
  <1>4. CASE CompareDiffers
    BY <1>4 DEF CompareDiffers, Differs, saveVars, driveVars, userVars, countVars
  <1>5. CASE Erase
    BY <1>5 DEF Erase, Accepted, saveVars, driveVars, userVars, countVars
  <1>6. CASE EraseDone
    BY <1>6 DEF EraseDone, saveVars, driveVars, userVars, countVars
  <1>7. CASE Write
    BY <1>7 DEF Write, Accepted, saveVars, driveVars, userVars, countVars
  <1>8. CASE WriteDone
    BY <1>8 DEF WriteDone, saveVars, driveVars, userVars, countVars
  <1>9. CASE Close
    BY <1>9 DEF Close, saveVars, driveVars, userVars, countVars
  <1>10. CASE DriverErase
    BY <1>10 DEF DriverErase, saveVars, driveVars, userVars, countVars
  <1>11. CASE DriverWrite
    BY <1>11 DEF DriverWrite, saveVars, driveVars, userVars, countVars
  <1>12. CASE EditSetting
    BY <1>12 DEF EditSetting, saveVars, driveVars, userVars, countVars
  <1>13. CASE EditFreqBegin
    BY <1>13 DEF EditFreqBegin, saveVars, driveVars, userVars, countVars
  <1>14. CASE EditFreqEnd
    BY <1>14 DEF EditFreqEnd, saveVars, driveVars, userVars, countVars
  <1>15. CASE Seconds
    BY <1>15 DEF Seconds, saveVars, driveVars, userVars, countVars
  <1>16. CASE ConfigSent
    BY <1>16 DEF ConfigSent, saveVars, driveVars, userVars, countVars
  <1>17. CASE vResetDevice
    BY <1>17 DEF vResetDevice, saveVars, driveVars, userVars, countVars
  <1>18. CASE PowerFailure
    BY <1>18 DEF PowerFailure, saveVars, driveVars, userVars, countVars
  <1>19. CASE UNCHANGED vars
    BY <1>19 DEF vars, saveVars, driveVars, userVars, countVars
  <1>20. QED
    BY <1>1, <1>2, <1>3, <1>4, <1>5, <1>6, <1>7, <1>8, <1>9, <1>10, <1>11, <1>12, <1>13, <1>14, <1>15, <1>16, <1>17, <1>18, <1>19 DEF Next, vNvram_State, DRV_NVM_Tasks, User

LEMMA StepWearInv == IInv /\ IInv' /\ WearInv /\ [Next]_vars => WearInv'
  <1> SUFFICES ASSUME IInv, IInv', WearInv, [Next]_vars PROVE WearInv'
    OBVIOUS
  <1> USE ConfigsAssumption DEF IInv, TypeOK, TornOnlyLoaded, StateKnowsCommand, Idle, WearInv, Owed, ToBeSaved
  <1>1. CASE Prime
    BY <1>1 DEF Prime, MagicOk, saveVars, driveVars, userVars, countVars
  <1>2. CASE Load
    BY <1>2 DEF Load, MagicOk, saveVars, driveVars, userVars, countVars
  <1>3. CASE CompareEqual
    BY <1>3 DEF CompareEqual, saveVars, driveVars, userVars, countVars
  <1>4. CASE CompareDiffers
    BY <1>4 DEF CompareDiffers, Differs, saveVars, driveVars, userVars, countVars
  <1>5. CASE Erase
    BY <1>5 DEF Erase, Accepted, saveVars, driveVars, userVars, countVars
  <1>6. CASE EraseDone
    BY <1>6 DEF EraseDone, saveVars, driveVars, userVars, countVars
  <1>7. CASE Write
    BY <1>7 DEF Write, Accepted, saveVars, driveVars, userVars, countVars
  <1>8. CASE WriteDone
    BY <1>8 DEF WriteDone, saveVars, driveVars, userVars, countVars
  <1>9. CASE Close
    BY <1>9 DEF Close, saveVars, driveVars, userVars, countVars
  <1>10. CASE DriverErase
    BY <1>10 DEF DriverErase, saveVars, driveVars, userVars, countVars
  <1>11. CASE DriverWrite
    BY <1>11 DEF DriverWrite, saveVars, driveVars, userVars, countVars
  <1>12. CASE EditSetting
    BY <1>12 DEF EditSetting, saveVars, driveVars, userVars, countVars
  <1>13. CASE EditFreqBegin
    BY <1>13 DEF EditFreqBegin, saveVars, driveVars, userVars, countVars
  <1>14. CASE EditFreqEnd
    BY <1>14 DEF EditFreqEnd, saveVars, driveVars, userVars, countVars
  <1>15. CASE Seconds
    BY <1>15 DEF Seconds, saveVars, driveVars, userVars, countVars
  <1>16. CASE ConfigSent
    BY <1>16 DEF ConfigSent, saveVars, driveVars, userVars, countVars
  <1>17. CASE vResetDevice
    BY <1>17 DEF vResetDevice, saveVars, driveVars, userVars, countVars
  <1>18. CASE PowerFailure
    BY <1>18 DEF PowerFailure, saveVars, driveVars, userVars, countVars
  <1>19. CASE UNCHANGED vars
    BY <1>19 DEF vars, saveVars, driveVars, userVars, countVars
  <1>20. QED
    BY <1>1, <1>2, <1>3, <1>4, <1>5, <1>6, <1>7, <1>8, <1>9, <1>10, <1>11, <1>12, <1>13, <1>14, <1>15, <1>16, <1>17, <1>18, <1>19 DEF Next, vNvram_State, DRV_NVM_Tasks, User

LEMMA StepSaveInv ==
  ASSUME ResetWhileSaving = FALSE, IInv, SaveInv, [Next]_vars
  PROVE  SaveInv'
  <1> USE ConfigsAssumption DEF IInv, TypeOK, StateKnowsCommand, Idle, SaveInv
  <1>1. CASE Prime
    BY <1>1 DEF Prime, MagicOk, saveVars, driveVars, userVars, countVars
  <1>2. CASE Load
    BY <1>2 DEF Load, MagicOk, saveVars, driveVars, userVars, countVars
  <1>3. CASE CompareEqual
    BY <1>3 DEF CompareEqual, saveVars, driveVars, userVars, countVars
  <1>4. CASE CompareDiffers
    BY <1>4 DEF CompareDiffers, Differs, saveVars, driveVars, userVars, countVars
  <1>5. CASE Erase
    BY <1>5 DEF Erase, Accepted, saveVars, driveVars, userVars, countVars
  <1>6. CASE EraseDone
    BY <1>6 DEF EraseDone, saveVars, driveVars, userVars, countVars
  <1>7. CASE Write
    BY <1>7 DEF Write, Accepted, saveVars, driveVars, userVars, countVars
  <1>8. CASE WriteDone
    BY <1>8 DEF WriteDone, saveVars, driveVars, userVars, countVars
  <1>9. CASE Close
    BY <1>9 DEF Close, saveVars, driveVars, userVars, countVars
  <1>10. CASE DriverErase
    BY <1>10 DEF DriverErase, saveVars, driveVars, userVars, countVars
  <1>11. CASE DriverWrite
    BY <1>11 DEF DriverWrite, saveVars, driveVars, userVars, countVars
  <1>12. CASE EditSetting
    BY <1>12 DEF EditSetting, saveVars, driveVars, userVars, countVars
  <1>13. CASE EditFreqBegin
    BY <1>13 DEF EditFreqBegin, saveVars, driveVars, userVars, countVars
  <1>14. CASE EditFreqEnd
    BY <1>14 DEF EditFreqEnd, saveVars, driveVars, userVars, countVars
  <1>15. CASE Seconds
    BY <1>15 DEF Seconds, saveVars, driveVars, userVars, countVars
  <1>16. CASE ConfigSent
    BY <1>16 DEF ConfigSent, saveVars, driveVars, userVars, countVars
  <1>17. CASE vResetDevice
    BY <1>17 DEF vResetDevice, saveVars, driveVars, userVars, countVars
  <1>18. CASE PowerFailure
    <2>1. ~cut' => ~cut /\ ~(uiNvramState \in 20..50) /\ command \notin {"erase", "write"}
      BY <1>18, Zenon DEF PowerFailure, Saving
    <2>2. command \notin {"erase", "write"} => flash' = flash
      BY <1>18 DEF PowerFailure
    <2>3. uiNvramState' = 0 /\ hNvram' = "none" /\ clients' = 0 /\ command' = "none" /\ saved' = saved
      BY <1>18 DEF PowerFailure
    <2>4. QED
      BY <2>1, <2>2, <2>3
  <1>19. CASE UNCHANGED vars
    BY <1>19 DEF vars, saveVars, driveVars, userVars, countVars
  <1>20. QED
    BY <1>1, <1>2, <1>3, <1>4, <1>5, <1>6, <1>7, <1>8, <1>9, <1>10, <1>11, <1>12, <1>13, <1>14, <1>15, <1>16, <1>17, <1>18, <1>19 DEF Next, vNvram_State, DRV_NVM_Tasks, User

-----------------------------------------------------------------------------
(* The theorems *)

LEMMA Invariance == Spec => []IInv
  BY InitIInv, StepIInv, PTL DEF Spec

\* The variables keep their types; in particular what was saved is never a row cut off
\* while it was programmed, although such a row may be loaded.
THEOREM TypeCorrect == Spec => []TypeOK
  <1>1. IInv => TypeOK
    BY DEF IInv
  <1>2. QED
    BY <1>1, Invariance, PTL

\* Flash is programmed only after an erase, for every number of edits, resets at any
\* time and power failures.
THEOREM ProgrammedErased == Spec => []ProgramsErasedFlash
  <1>1. IInv => ProgramsErasedFlash
    BY DEF IInv, StateKnowsCommand, ProgramsErasedFlash
  <1>2. QED
    BY <1>1, Invariance, PTL

\* No more erases than edits, restarts with the defaults and power failures, also when
\* the button resets the device during a save.
THEOREM WornByChanges == Spec => []WornOnlyByChanges
  <1>1. Init => WearInv
    BY ConfigsAssumption DEF Init, WearInv, Owed, ToBeSaved
  <1>2. IInv /\ WearInv => WornOnlyByChanges
    BY DEF IInv, TypeOK, WearInv, Owed, WornOnlyByChanges
  <1>3. QED
    BY <1>1, <1>2, Invariance, StepWearInv, PTL DEF Spec

\* Where no reset falls into a save, the page holds what was saved last whenever no save
\* is under way and none was cut off by a power failure.
THEOREM SavedIsKept ==
  ASSUME ResetWhileSaving = FALSE
  PROVE  Spec => []KeepsWhatWasSaved
  <1>1. Init => SaveInv
    BY DEF Init, SaveInv, Idle
  <1>2. IInv /\ SaveInv /\ [Next]_vars => SaveInv'
    BY StepSaveInv
  <1>3. IInv /\ SaveInv => KeepsWhatWasSaved
    BY DEF IInv, TypeOK, SaveInv, Idle, KeepsWhatWasSaved, Saving
  <1>4. QED
    BY <1>1, <1>2, <1>3, Invariance, PTL DEF Spec

-----------------------------------------------------------------------------
(* NvmDriver: the inductive invariant *)

Content == {Blank, Mixed} \union (Sources \X Nat)
Media == [Row -> Content]
BufferObject ==
    [inUse : BOOLEAN, status : {"queued", "in progress", "completed"}, flag : {"write", "erase"},
     source : {<<>>} \union (Sources \X Nat), flashMem : Nat, nBlocksPending : Nat,
     commandHandle : Nat \X Nat]

\* A buffer with blocks to do, of rows to write or pages to erase
ToDo(b) == b \in BufferObject /\ b.nBlocksPending > 0 /\ (b.flag = "write" => b.source # <<>>)

NvmTypeOK ==
    /\ media \in Media /\ plan \in Seq(Media)
    /\ buffers \in [Buffer -> BufferObject]
    /\ writeEraseQ \in Seq(Buffer) /\ bufferToken \in Nat

\* A buffer is queued once, with blocks to do, and is not free before it is done.
QueuedOnce ==
    /\ \A i, j \in 1..Len(writeEraseQ) : i # j => writeEraseQ[i] # writeEraseQ[j]
    /\ \A i \in 1..Len(writeEraseQ) :
        LET b == buffers[writeEraseQ[i]]
        IN b.inUse /\ b.status # "completed" /\ ToDo(b) /\ b.commandHandle[2] = writeEraseQ[i]
    /\ \A i \in Buffer : ~buffers[i].inUse => buffers[i].status = "completed"

\* What the queued commands make of the media, one after the other
PlannedInOrder ==
    /\ Len(plan) = Len(writeEraseQ) + 1
    /\ \A k \in 2..Len(writeEraseQ) : plan[k + 1] = Finished(plan[k], buffers[writeEraseQ[k]])
    /\ MediaAsCommanded

\* A command that is not done is queued, in the buffer its handle names.
TracedTo(t, i) ==
    /\ mine = [handle |-> <<t, i>>, done |-> mine.done] /\ mine.done \in BOOLEAN
    /\ ~mine.done =>
        buffers[i].commandHandle = <<t, i>> /\ \E k \in 1..Len(writeEraseQ) : writeEraseQ[k] = i
    /\ mine.done /\ buffers[i].commandHandle = <<t, i>> => buffers[i].status = "completed"
Traced == mine # NoCommand => \E t \in Nat, i \in Buffer : TracedTo(t, i)

NvmInv == NvmTypeOK /\ QueuedOnce /\ PlannedInOrder /\ Traced

-----------------------------------------------------------------------------
(* Free buffers *)

\* A set of numbers has a least one, and so has the free buffers.
LEMMA LeastNumber ==
  ASSUME NEW S \in SUBSET Nat, S # {}
  PROVE  \E n \in S : \A m \in S : n <= m
<1>1. PICK n \in S : \A m \in S : ~ (<<m, n>> \in OpToRel(<, Nat))
  BY NatLessThanWellFounded, WFMin
<1>2. \A m \in S : ~ (m < n)
  BY <1>1 DEF OpToRel
<1> QED
  BY <1>2

\* The buffer _DRV_NVM_BlockOperation takes carries no command.
LEMMA FirstFreeBuffer ==
  ASSUME Free # {}
  PROVE  FirstFree \in Buffer /\ ~buffers[FirstFree].inUse
<1>1. Free \in SUBSET Nat
  BY NvmAssumption DEF Free, Buffer
<1>2. \E i \in Free : \A j \in Free : i <= j
  BY <1>1, LeastNumber
<1>3. FirstFree \in Free
  BY <1>2 DEF FirstFree
<1> QED
  BY <1>3 DEF Free

-----------------------------------------------------------------------------
(* What a buffer makes of the media                                        *)

\* A block programmed, or a page erased, leaves a media.
LEMMA BlockIsMedia ==
  ASSUME NEW m \in Media, NEW b, ToDo(b)
  PROVE  Processed(m, b) \in Media
<1>1. CASE b.flag = "write"
  <2>1. b.source \in Content
    BY <1>1 DEF ToDo, BufferObject, Content
  <2>2. \A c \in Content : Programmed(c, b.source) \in Content
    BY <2>1 DEF Programmed, Content
  <2>3. Processed(m, b) = [m EXCEPT ![b.flashMem] = Programmed(@, b.source)]
    BY <1>1 DEF Processed
  <2> HIDE DEF Content, Programmed
  <2> QED
    BY <2>2, <2>3 DEF Media
<1>2. CASE b.flag # "write"
  BY <1>2 DEF Processed, Media, Content
<1> QED
  BY <1>1, <1>2

\* So does a whole command.
LEMMA FinishedIsMedia ==
  ASSUME NEW m \in Media, NEW b \in BufferObject, b.flag = "write" => b.source # <<>>
  PROVE  Finished(m, b) \in Media
<1>1. ASSUME NEW r \in Row, r - b.flashMem \in 0..(b.nBlocksPending * BlockSize(b.flag) - 1),
             b.flag # "erase"
      PROVE  Programmed(m[r], <<b.source[1], b.source[2] + (r - b.flashMem)>>) \in Content
  <2>1. b.source \in Sources \X Nat
    BY <1>1 DEF BufferObject
  <2>2. <<b.source[1], b.source[2] + (r - b.flashMem)>> \in Content
    BY <1>1, <2>1 DEF Content
  <2> QED
    BY <2>2 DEF Programmed, Content
<1>2. Blank \in Content /\ \A r \in Row : m[r] \in Content
  BY DEF Media, Content
<1> HIDE DEF Content, Blank, Programmed
<1> QED
  BY <1>1, <1>2 DEF Finished, Media

\* A block is a row or more.
LEMMA BlockSizes == \A flag : BlockSize(flag) \in Nat \ {0}
  BY NvmAssumption DEF BlockSize

\* What a buffer is after one of its blocks.
LEMMA NextBlockIs ==
  ASSUME NEW b, ToDo(b)
  PROVE  /\ NextBlock(b) \in BufferObject
         /\ NextBlock(b).flag = b.flag /\ NextBlock(b).inUse = b.inUse
         /\ NextBlock(b).status = b.status /\ NextBlock(b).commandHandle = b.commandHandle
         /\ NextBlock(b).nBlocksPending = b.nBlocksPending - 1
         /\ NextBlock(b).flashMem = b.flashMem + BlockSize(b.flag)
         /\ b.flag = "write" => NextBlock(b).source = <<b.source[1], b.source[2] + 1>>
         /\ b.flag # "write" => NextBlock(b).source = b.source
<1>1. PICK size \in Nat : size = BlockSize(b.flag)
  BY BlockSizes
<1>2. b \in BufferObject /\ b.nBlocksPending - 1 \in Nat /\ b.flashMem + size \in Nat
  <2>1. b \in BufferObject /\ b.nBlocksPending \in Nat /\ b.nBlocksPending > 0 /\ b.flashMem \in Nat
    BY DEF ToDo, BufferObject
  <2> QED
    BY <2>1
<1>3. CASE b.flag = "write"
  <2>1. b.source \in Sources \X Nat
    BY <1>3 DEF ToDo, BufferObject
  <2>2. <<b.source[1], b.source[2] + 1>> \in Sources \X Nat
    BY <2>1
  <2>3. PICK src \in Sources \X Nat : src = <<b.source[1], b.source[2] + 1>>
    BY <2>2
  <2>4. NextBlock(b) = [b EXCEPT !.flashMem = b.flashMem + size, !.source = src,
                                 !.nBlocksPending = b.nBlocksPending - 1]
    BY <1>1, <1>2, <1>3, <2>3 DEF NextBlock, Advanced, BufferObject
  <2> QED
    BY <1>1, <1>2, <1>3, <2>3, <2>4 DEF BufferObject
<1>4. CASE b.flag # "write"
  <2>1. NextBlock(b) = [b EXCEPT !.flashMem = b.flashMem + size,
                                 !.nBlocksPending = b.nBlocksPending - 1]
    BY <1>1, <1>2, <1>4 DEF NextBlock, Advanced, BufferObject
  <2> QED
    BY <1>1, <1>2, <1>4, <2>1 DEF BufferObject
<1> QED
  BY <1>3, <1>4

\* A block done is one less to do: the rest makes of the media what all of it made.
LEMMA BlockByBlock ==
  ASSUME NEW m \in Media, NEW b, ToDo(b)
  PROVE  Finished(Processed(m, b), NextBlock(b)) = Finished(m, b)
<1> DEFINE nb == NextBlock(b)  size == BlockSize(b.flag)  pm == Processed(m, b)
<1>1. size \in Nat \ {0} /\ b.nBlocksPending \in Nat \ {0} /\ b.flashMem \in Nat
  <2>1. b.nBlocksPending \in Nat /\ b.nBlocksPending > 0 /\ b.flashMem \in Nat
    BY DEF ToDo, BufferObject
  <2> QED
    BY <2>1, BlockSizes
<1>2. /\ nb.flag = b.flag /\ nb.nBlocksPending = b.nBlocksPending - 1 /\ nb.flashMem = b.flashMem + size
      /\ b.flag = "write" => nb.source = <<b.source[1], b.source[2] + 1>>
  BY NextBlockIs
<1>3. PICK n \in Nat \ {0}, f \in Nat : n = b.nBlocksPending /\ f = b.flashMem
  BY <1>1
<1> HIDE DEF nb, pm
<1>4. SUFFICES ASSUME NEW r \in Row
               PROVE  Finished(pm, nb)[r] = Finished(m, b)[r]
  BY DEF Finished, pm, nb
<1>5. r \in Int
  BY DEF Row
<1>6. CASE b.flag = "write"
  <2>1. size = 1 /\ (b.nBlocksPending * size - 1) = n - 1 /\ nb.nBlocksPending * size - 1 = n - 2
    BY <1>2, <1>3, <1>6 DEF BlockSize
  <2>2. b.source \in Sources \X Nat
    BY <1>6 DEF ToDo, BufferObject
  <2>3. pm[r] = IF r = f THEN Programmed(m[r], b.source) ELSE m[r]
    BY <1>3, <1>6 DEF pm, Processed, Media
  <2>4. Finished(m, b)[r] = IF r - f \notin 0..(n - 1) THEN m[r]
                            ELSE Programmed(m[r], <<b.source[1], b.source[2] + (r - f)>>)
    BY <1>3, <1>6, <2>1 DEF Finished
  <2>5. Finished(pm, nb)[r] = IF r - (f + 1) \notin 0..(n - 2) THEN pm[r]
                              ELSE Programmed(pm[r], <<b.source[1], b.source[2] + 1 + (r - (f + 1))>>)
    BY <1>2, <1>3, <1>6, <2>1 DEF Finished
  <2>6. CASE r = f
    <3>1. r - f \in 0..(n - 1) /\ r - (f + 1) \notin 0..(n - 2) /\ r - f = 0
      BY <1>3, <1>5, <2>6
    <3>2. <<b.source[1], b.source[2] + (r - f)>> = b.source
      BY <2>2, <3>1
    <3> QED
      BY <2>3, <2>4, <2>5, <2>6, <3>1, <3>2
  <2>7. CASE r # f
    <3>1. r - (f + 1) \in 0..(n - 2) <=> r - f \in 0..(n - 1)
      BY <1>3, <1>5, <2>7
    <3>2. b.source[2] + 1 + (r - (f + 1)) = b.source[2] + (r - f)
      BY <1>3, <1>5, <2>2
    <3> QED
      BY <2>3, <2>4, <2>5, <2>7, <3>1, <3>2
  <2> QED
    BY <2>6, <2>7
<1>7. CASE b.flag = "erase"
  <2>1. pm[r] = IF r \in f..(f + size - 1) THEN Blank ELSE m[r]
    BY <1>3, <1>7 DEF pm, Processed, BlockSize
  <2>2. Finished(m, b)[r] = IF r - f \notin 0..(n * size - 1) THEN m[r] ELSE Blank
    BY <1>3, <1>7 DEF Finished
  <2>3. Finished(pm, nb)[r] = IF r - (f + size) \notin 0..((n - 1) * size - 1) THEN pm[r] ELSE Blank
    BY <1>2, <1>3, <1>7 DEF Finished
  <2>4. PICK s \in Nat \ {0} : s = size
    BY <1>1
  <2>5. n * s = (n - 1) * s + s /\ (n - 1) * s \in Nat
    BY <1>3, <2>4, Z3
  <2> HIDE DEF size
  <2>6. PICK k \in Nat : k = (n - 1) * s
    BY <2>5
  <2>7. r - f \in 0..(k + s - 1) <=> r \in f..(f + s - 1) \/ r - (f + s) \in 0..(k - 1)
    BY <1>3, <1>5, <2>4, <2>6
  <2> QED
    BY <2>1, <2>2, <2>3, <2>4, <2>5, <2>6, <2>7
<1> QED
  BY <1>6, <1>7 DEF ToDo, BufferObject

\* Without a block to do nothing is made.
LEMMA NothingToDo ==
  ASSUME NEW m \in Media, NEW b, b.nBlocksPending = 0
  PROVE  Finished(m, b) = m
<1>1. b.nBlocksPending * BlockSize(b.flag) - 1 = -1
  BY NvmAssumption DEF BlockSize
<1>2. \A k : k \notin 0..(b.nBlocksPending * BlockSize(b.flag) - 1)
  BY <1>1
<1> QED
  BY <1>2 DEF Finished, Media

\* The state of a buffer is nothing to the media.
LEMMA SameRows ==
  ASSUME NEW m, NEW b, NEW c, c.flag = b.flag, c.source = b.source, c.flashMem = b.flashMem,
         c.nBlocksPending = b.nBlocksPending
  PROVE  Finished(m, c) = Finished(m, b)
  BY DEF Finished

-----------------------------------------------------------------------------
(* The steps                                                               *)

\* A command given is put behind the others, in a buffer that carries none.
LEMMA CommandGiven ==
  ASSUME NvmInv, NEW flag \in {"write", "erase"}, NEW source \in {<<>>} \union (Sources \X Nat),
         flag = "write" => source # <<>>, NEW first \in Nat, NEW n \in Nat \ {0},
         BlockOperation(flag, source, first, n)
  PROVE  NvmInv'
<1>1. PICK i \in Buffer : i = FirstFree /\ ~buffers[i].inUse
  BY FirstFreeBuffer DEF BlockOperation
<1>2. i \in Nat /\ bufferToken \in Nat /\ Handle(i) = <<bufferToken, i>> /\ Handle(i) \in Nat \X Nat
  BY NvmAssumption DEF NvmInv, NvmTypeOK, Buffer, Handle
<1>3. PICK b : b = [inUse |-> TRUE, status |-> "queued", flag |-> flag, source |-> source,
                    flashMem |-> first, nBlocksPending |-> n, commandHandle |-> Handle(i)]
  OBVIOUS
<1>4. PICK p : p = [b EXCEPT !.status = "in progress"]
  OBVIOUS
<1>5. ToDo(b) /\ b.inUse /\ b.status # "completed" /\ b.commandHandle = Handle(i)
  BY <1>2, <1>3 DEF ToDo, BufferObject
<1>6. ToDo(p) /\ p.inUse /\ p.status # "completed" /\ p.commandHandle = Handle(i)
      /\ p.flag = b.flag /\ p.source = b.source /\ p.flashMem = b.flashMem
      /\ p.nBlocksPending = b.nBlocksPending
  <2>1. b \in BufferObject
    BY <1>5 DEF ToDo
  <2>2. /\ p \in BufferObject /\ p.inUse = b.inUse /\ p.status = "in progress"
        /\ p.flag = b.flag /\ p.source = b.source /\ p.flashMem = b.flashMem
        /\ p.nBlocksPending = b.nBlocksPending /\ p.commandHandle = b.commandHandle
    BY <1>4, <2>1 DEF BufferObject
  <2> QED
    BY <1>5, <2>2 DEF ToDo
<1>7. PICK c : c = IF writeEraseQ = <<>> THEN p ELSE b
  OBVIOUS
<1>8. /\ buffers' = [buffers EXCEPT ![i] = c] /\ writeEraseQ' = Append(writeEraseQ, i)
      /\ IF writeEraseQ = <<>> THEN media' = Processed(media, b) ELSE media' = media
      /\ plan' = Append(plan, Finished(Last(plan), b))
      /\ mine' \in {Remaining(Handle(i)), [handle |-> Handle(i), done |-> FALSE]}
      /\ bufferToken' = NextToken
  BY <1>1, <1>3, <1>4, <1>7 DEF BlockOperation
<1>9. ToDo(c) /\ c.inUse /\ c.status # "completed" /\ c.commandHandle = Handle(i)
  BY <1>5, <1>6, <1>7
<1>10. /\ media \in Media /\ plan \in Seq(Media) /\ buffers \in [Buffer -> BufferObject]
       /\ writeEraseQ \in Seq(Buffer)
  BY DEF NvmInv, NvmTypeOK
<1>11. PICK len \in Nat : len = Len(writeEraseQ)
  BY <1>10, LenProperties
<1>12. Len(plan) = len + 1 /\ Last(plan) = plan[len + 1] /\ \A k \in 1..(len + 1) : plan[k] \in Media
  BY <1>10, <1>11, ElementOfSeq DEF NvmInv, PlannedInOrder, Last
<1>13. Finished(Last(plan), b) \in Media
  BY <1>5, <1>12, FinishedIsMedia DEF ToDo
<1>14. /\ writeEraseQ' \in Seq(Buffer) /\ Len(writeEraseQ') = len + 1
       /\ writeEraseQ'[len + 1] = i /\ \A k \in 1..len : writeEraseQ'[k] = writeEraseQ[k]
  BY <1>8, <1>10, <1>11, AppendProperties
<1>15. /\ plan' \in Seq(Media) /\ Len(plan') = len + 2
       /\ plan'[len + 2] = Finished(Last(plan), b) /\ \A k \in 1..(len + 1) : plan'[k] = plan[k]
  <2>1. len + 1 + 1 = len + 2
    OBVIOUS
  <2> QED
    BY <1>8, <1>10, <1>12, <1>13, <2>1, AppendProperties
<1>16. buffers'[i] = c /\ \A j \in Buffer : j # i => buffers'[j] = buffers[j]
  BY <1>8, <1>10
<1>17. \A k \in 1..len : writeEraseQ[k] \in Buffer /\ writeEraseQ[k] # i
  BY <1>1, <1>10, <1>11, ElementOfSeq DEF NvmInv, QueuedOnce
<1>18. NvmTypeOK'
  <2>1. media' \in Media
    BY <1>5, <1>8, <1>10, BlockIsMedia
  <2>2. bufferToken' \in Nat
    BY <1>2, <1>8 DEF NextToken
  <2>3. buffers' \in [Buffer -> BufferObject]
    BY <1>8, <1>9, <1>10 DEF ToDo
  <2> QED
    BY <1>14, <1>15, <2>1, <2>2, <2>3 DEF NvmTypeOK
<1>19. QueuedOnce'
  <2>1. ASSUME NEW k \in 1..(len + 1), NEW l \in 1..(len + 1), k # l
        PROVE  writeEraseQ'[k] # writeEraseQ'[l]
    <3>1. CASE k \in 1..len /\ l \in 1..len
      BY <1>11, <1>14, <2>1, <3>1 DEF NvmInv, QueuedOnce
    <3>2. CASE k = len + 1
      BY <1>14, <1>17, <2>1, <3>2
    <3>3. CASE l = len + 1
      BY <1>14, <1>17, <2>1, <3>3
    <3> QED
      BY <3>1, <3>2, <3>3
  <2>2. ASSUME NEW k \in 1..(len + 1)
        PROVE  /\ buffers'[writeEraseQ'[k]].inUse /\ buffers'[writeEraseQ'[k]].status # "completed"
               /\ ToDo(buffers'[writeEraseQ'[k]])
               /\ buffers'[writeEraseQ'[k]].commandHandle[2] = writeEraseQ'[k]
    <3>1. CASE k = len + 1
      BY <1>2, <1>9, <1>14, <1>16, <3>1
    <3>2. CASE k \in 1..len
      BY <1>11, <1>14, <1>16, <1>17, <3>2 DEF NvmInv, QueuedOnce
    <3> QED
      BY <3>1, <3>2
  <2>3. \A j \in Buffer : ~buffers'[j].inUse => buffers'[j].status = "completed"
    BY <1>9, <1>16 DEF NvmInv, QueuedOnce
  <2> QED
    BY <1>14, <2>1, <2>2, <2>3 DEF QueuedOnce, ToDo
<1>20. MediaAsCommanded'
  <2>1. CASE writeEraseQ = <<>>
    <3>1. len = 0 /\ writeEraseQ' # <<>> /\ Current' = i
      BY <1>8, <1>11, <1>14, <2>1 DEF Current
    <3>2. media = plan[1]
      BY <2>1 DEF NvmInv, PlannedInOrder, MediaAsCommanded
    <3>3. plan'[2] = Finished(media, b)
      BY <1>12, <1>15, <3>1, <3>2
    <3>4. Finished(media', NextBlock(b)) = Finished(media, b)
      BY <1>5, <1>8, <1>10, <2>1, BlockByBlock
    <3>5. Finished(media', NextBlock(p)) = Finished(media', NextBlock(b))
      <4>1. /\ NextBlock(p).flag = NextBlock(b).flag /\ NextBlock(p).flashMem = NextBlock(b).flashMem
            /\ NextBlock(p).nBlocksPending = NextBlock(b).nBlocksPending
            /\ NextBlock(p).source = NextBlock(b).source
        <5>1. BlockSize(p.flag) = BlockSize(b.flag)
          BY <1>6
        <5>2. CASE b.flag = "write"
          BY <1>5, <1>6, <5>1, <5>2, NextBlockIs
        <5>3. CASE b.flag # "write"
          BY <1>5, <1>6, <5>1, <5>3, NextBlockIs
        <5> QED
          BY <5>2, <5>3
      <4> QED
        BY <4>1, SameRows
    <3>6. buffers'[Current'] = p
      BY <1>7, <1>16, <2>1, <3>1
    <3> QED
      BY <3>1, <3>3, <3>4, <3>5, <3>6 DEF MediaAsCommanded
  <2>2. CASE writeEraseQ # <<>>
    <3>1. len > 0 /\ writeEraseQ' # <<>> /\ Current' = Current /\ Current = writeEraseQ[1]
      BY <1>10, <1>11, <1>14, <2>2, EmptySeq DEF Current
    <3>2. buffers'[Current'] = buffers[Current] /\ media' = media /\ plan'[2] = plan[2]
      BY <1>8, <1>11, <1>15, <1>16, <1>17, <2>2, <3>1
    <3> QED
      BY <2>2, <3>1, <3>2 DEF MediaAsCommanded, NvmInv, PlannedInOrder
  <2> QED
    BY <2>1, <2>2
<1>21. PlannedInOrder'
  <2>1. ASSUME NEW k \in 2..(len + 1)
        PROVE  plan'[k + 1] = Finished(plan'[k], buffers'[writeEraseQ'[k]])
    <3>1. CASE k = len + 1
      <4>1. writeEraseQ # <<>> /\ buffers'[writeEraseQ'[k]] = b
        BY <1>7, <1>11, <1>14, <1>16, <3>1
      <4>2. plan'[k + 1] = Finished(plan[k], b) /\ plan'[k] = plan[k]
        BY <1>12, <1>15, <3>1
      <4> QED
        BY <4>1, <4>2
    <3>2. CASE k \in 2..len
      <4>1. plan'[k + 1] = plan[k + 1] /\ plan'[k] = plan[k] /\ buffers'[writeEraseQ'[k]] = buffers[writeEraseQ[k]]
        BY <1>14, <1>15, <1>16, <1>17, <3>2
      <4> QED
        BY <1>11, <3>2, <4>1 DEF NvmInv, PlannedInOrder
    <3> QED
      BY <3>1, <3>2
  <2>2. Len(plan') = Len(writeEraseQ') + 1
    BY <1>14, <1>15
  <2> QED
    BY <1>14, <1>20, <2>1, <2>2 DEF PlannedInOrder, Finished, Row
<1>22. Traced'
  <2>1. CASE mine' = [handle |-> Handle(i), done |-> FALSE]
    <3>1. buffers'[i].commandHandle = <<bufferToken, i>> /\ \E k \in 1..Len(writeEraseQ') : writeEraseQ'[k] = i
      BY <1>2, <1>9, <1>14, <1>16
    <3> QED
      BY <1>2, <2>1, <3>1 DEF TracedTo, Traced
  <2>2. CASE mine' = mine /\ mine.handle # Handle(i) /\ mine # NoCommand
    <3>1. PICK t \in Nat, j \in Buffer : TracedTo(t, j)
      BY <2>2 DEF NvmInv, Traced
    <3>2. ~mine.done => \E k \in 1..Len(writeEraseQ') : writeEraseQ'[k] = j
      BY <1>11, <1>14, <3>1 DEF TracedTo
    <3>3. CASE j = i
      <4>1. mine.done
        BY <1>11, <1>17, <3>1, <3>3 DEF TracedTo
      <4>2. buffers'[j].commandHandle # <<t, j>>
        BY <1>9, <1>16, <2>2, <3>1, <3>3 DEF TracedTo
      <4> QED
        BY <2>2, <3>1, <4>1, <4>2 DEF TracedTo, Traced
    <3>4. CASE j # i
      <4>1. buffers'[j] = buffers[j]
        BY <1>16, <3>4
      <4> QED
        BY <2>2, <3>1, <3>2, <4>1 DEF TracedTo, Traced
    <3> QED
      BY <3>3, <3>4
  <2>3. CASE mine' = NoCommand
    BY <2>3 DEF Traced, NoCommand
  <2> QED
    BY <1>8, <2>1, <2>2, <2>3 DEF Remaining
<1> QED
  BY <1>18, <1>19, <1>21, <1>22 DEF NvmInv

\* A read takes a free buffer, and with it the handle of the command it carried.
LEMMA MediaRead ==
  ASSUME NvmInv, NvmRead
  PROVE  NvmInv'
<1>1. PICK i \in Buffer : i = FirstFree /\ ~buffers[i].inUse
  BY FirstFreeBuffer DEF NvmRead
<1>2. i \in Nat /\ bufferToken \in Nat /\ Handle(i) = <<bufferToken, i>> /\ Handle(i) \in Nat \X Nat
  BY NvmAssumption DEF NvmInv, NvmTypeOK, Buffer, Handle
<1>3. /\ buffers' = [buffers EXCEPT ![i].commandHandle = Handle(i), ![i].status = "completed"]
      /\ mine' = Remaining(Handle(i)) /\ bufferToken' = NextToken
      /\ UNCHANGED <<media, writeEraseQ, plan>>
  BY <1>1 DEF NvmRead
<1>4. buffers \in [Buffer -> BufferObject]
  BY DEF NvmInv, NvmTypeOK
<1>5. /\ buffers' \in [Buffer -> BufferObject]
      /\ ~buffers'[i].inUse /\ buffers'[i].commandHandle = Handle(i) /\ buffers'[i].status = "completed"
      /\ \A j \in Buffer : j # i => buffers'[j] = buffers[j]
  <2>1. PICK r : r = [buffers[i] EXCEPT !.commandHandle = Handle(i), !.status = "completed"]
    OBVIOUS
  <2>2. r \in BufferObject /\ ~r.inUse /\ r.commandHandle = Handle(i) /\ r.status = "completed"
    <3>1. PICK h \in Nat \X Nat : h = Handle(i)
      BY <1>2
    <3>2. buffers[i] \in BufferObject
      BY <1>4
    <3> QED
      BY <1>1, <2>1, <3>1, <3>2 DEF BufferObject
  <2>3. buffers' = [buffers EXCEPT ![i] = r]
    BY <1>3, <1>4, <2>1 DEF BufferObject
  <2> QED
    BY <1>4, <2>2, <2>3
<1>6. \A k \in 1..Len(writeEraseQ) : writeEraseQ[k] \in Buffer /\ writeEraseQ[k] # i
  BY <1>1, ElementOfSeq DEF NvmInv, NvmTypeOK, QueuedOnce
<1>7. \A k \in 1..Len(writeEraseQ) : buffers'[writeEraseQ[k]] = buffers[writeEraseQ[k]]
  BY <1>5, <1>6
<1>8. NvmTypeOK'
  BY <1>2, <1>3, <1>5 DEF NvmInv, NvmTypeOK, NextToken
<1>9. QueuedOnce'
  <2>1. \A j \in Buffer : ~buffers'[j].inUse => buffers'[j].status = "completed"
    BY <1>5 DEF NvmInv, QueuedOnce
  <2>2. ASSUME NEW k \in 1..Len(writeEraseQ)
        PROVE  /\ buffers'[writeEraseQ[k]].inUse /\ buffers'[writeEraseQ[k]].status # "completed"
               /\ ToDo(buffers'[writeEraseQ[k]])
               /\ buffers'[writeEraseQ[k]].commandHandle[2] = writeEraseQ[k]
    BY <1>7 DEF NvmInv, QueuedOnce
  <2> QED
    BY <1>3, <2>1, <2>2, ZenonT(60) DEF NvmInv, QueuedOnce, ToDo
<1>10. PlannedInOrder'
  <2>1. MediaAsCommanded'
    <3>1. CASE writeEraseQ = <<>>
      BY <1>3, <3>1 DEF NvmInv, PlannedInOrder, MediaAsCommanded
    <3>2. CASE writeEraseQ # <<>>
      <4>1. Current' = Current /\ Current = writeEraseQ[1] /\ 1 \in 1..Len(writeEraseQ)
        BY <1>3, <3>2, EmptySeq, LenProperties DEF Current, NvmInv, NvmTypeOK
      <4>2. buffers'[Current'] = buffers[Current]
        BY <1>7, <4>1
      <4> QED
        BY <1>3, <3>2, <4>2 DEF NvmInv, PlannedInOrder, MediaAsCommanded
    <3> QED
      BY <3>1, <3>2
  <2>2. \A k \in 2..Len(writeEraseQ) : buffers'[writeEraseQ[k]] = buffers[writeEraseQ[k]]
    <3>1. \A k \in 2..Len(writeEraseQ) : k \in 1..Len(writeEraseQ)
      BY LenProperties DEF NvmInv, NvmTypeOK
    <3> QED
      BY <1>7, <3>1
  <2>3. ASSUME NEW k \in 2..Len(writeEraseQ)
        PROVE  plan[k + 1] = Finished(plan[k], buffers'[writeEraseQ[k]])
    BY <2>2 DEF NvmInv, PlannedInOrder
  <2>4. UNCHANGED <<media, writeEraseQ, plan>>
    BY <1>3
  <2> QED
    BY <2>1, <2>3, <2>4 DEF NvmInv, PlannedInOrder
<1>11. Traced'
  <2>1. CASE mine' = mine /\ mine.handle # Handle(i) /\ mine # NoCommand
    <3>1. PICK t \in Nat, j \in Buffer : TracedTo(t, j)
      BY <2>1 DEF NvmInv, Traced
    <3>2. CASE j = i
      <4>1. mine.done
        BY <1>6, <3>1, <3>2 DEF TracedTo
      <4>2. buffers'[j].commandHandle # <<t, j>>
        BY <1>5, <2>1, <3>1, <3>2 DEF TracedTo
      <4> QED
        BY <2>1, <3>1, <4>1, <4>2 DEF TracedTo, Traced
    <3>3. CASE j # i
      <4>1. buffers'[j] = buffers[j]
        BY <1>5, <3>3
      <4> QED
        BY <1>3, <2>1, <3>1, <4>1 DEF TracedTo, Traced
    <3> QED
      BY <3>2, <3>3
  <2>2. CASE mine' = NoCommand
    BY <2>2 DEF Traced, NoCommand
  <2> QED
    BY <1>3, <2>1, <2>2 DEF Remaining
<1> QED
  BY <1>8, <1>9, <1>10, <1>11 DEF NvmInv

\* The buffer at the head of the queue
LEMMA InProgress ==
  ASSUME NvmInv, writeEraseQ # <<>>
  PROVE  /\ Len(writeEraseQ) \in Nat \ {0} /\ Current = writeEraseQ[1] /\ Current \in Buffer
         /\ ToDo(buffers[Current]) /\ buffers[Current].inUse /\ buffers[Current].status # "completed"
         /\ buffers[Current].commandHandle[2] = Current
         /\ \A k \in 2..Len(writeEraseQ) : writeEraseQ[k] \in Buffer /\ writeEraseQ[k] # Current
         /\ Finished(media, NextBlock(buffers[Current])) = plan[2]
<1>1. writeEraseQ \in Seq(Buffer) /\ Len(writeEraseQ) \in Nat \ {0} /\ Current = writeEraseQ[1]
  BY EmptySeq, LenProperties DEF NvmInv, NvmTypeOK, Current
<1>2. \A k \in 1..Len(writeEraseQ) : writeEraseQ[k] \in Buffer
  BY <1>1, ElementOfSeq
<1>3. 1 \in 1..Len(writeEraseQ) /\ \A k \in 2..Len(writeEraseQ) : k \in 1..Len(writeEraseQ) /\ k # 1
  BY <1>1
<1> QED
  BY <1>1, <1>2, <1>3 DEF NvmInv, QueuedOnce, PlannedInOrder, MediaAsCommanded

\* A block more of the command in progress.
LEMMA BlockDone ==
  ASSUME NvmInv, TasksGoOn
  PROVE  NvmInv'
<1>1. PICK i \in Buffer : i = Current
  BY InProgress DEF TasksGoOn
<1>2. PICK b : b = NextBlock(buffers[i])
  OBVIOUS
<1>3. /\ buffers' = [buffers EXCEPT ![i] = b] /\ media' = Processed(media, b)
      /\ UNCHANGED <<writeEraseQ, bufferToken, mine, plan>>
      /\ writeEraseQ # <<>> /\ buffers[i].nBlocksPending > 1
  BY <1>1, <1>2 DEF TasksGoOn
<1>4. ToDo(buffers[i]) /\ buffers[i].inUse /\ buffers[i].status # "completed" /\ Finished(media, b) = plan[2]
  BY <1>1, <1>2, <1>3, InProgress
<1>5. ToDo(b) /\ b.inUse /\ b.status # "completed" /\ b.commandHandle = buffers[i].commandHandle
  <2>1. /\ b \in BufferObject /\ b.flag = buffers[i].flag /\ b.inUse = buffers[i].inUse
        /\ b.status = buffers[i].status /\ b.commandHandle = buffers[i].commandHandle
        /\ b.nBlocksPending = buffers[i].nBlocksPending - 1
        /\ b.flag = "write" => b.source = <<buffers[i].source[1], buffers[i].source[2] + 1>>
    <3>1. /\ b \in BufferObject /\ b.flag = buffers[i].flag /\ b.inUse = buffers[i].inUse
          /\ b.status = buffers[i].status /\ b.commandHandle = buffers[i].commandHandle
          /\ b.nBlocksPending = buffers[i].nBlocksPending - 1
          /\ buffers[i].flag = "write" => b.source = <<buffers[i].source[1], buffers[i].source[2] + 1>>
      BY <1>2, <1>4, NextBlockIs
    <3> QED
      BY <3>1
  <2>2. buffers[i].nBlocksPending \in Nat
    BY <1>4 DEF ToDo, BufferObject
  <2>3. b.nBlocksPending > 0
    BY <1>3, <2>1, <2>2
  <2>4. b.flag = "write" => b.source # <<>>
    <3>1. \A x, y : <<x, y>> # <<>>
      <4>1. \A x, y : Len(<<x, y>>) = 2 /\ Len(<<>>) = 0
        OBVIOUS
      <4> QED
        BY <4>1
    <3> QED
      BY <2>1, <3>1
  <2> QED
    BY <1>4, <2>1, <2>3, <2>4 DEF ToDo
<1>6. buffers \in [Buffer -> BufferObject] /\ media \in Media
  BY DEF NvmInv, NvmTypeOK
<1>7. /\ buffers' \in [Buffer -> BufferObject] /\ media' \in Media
      /\ buffers'[i] = b /\ \A j \in Buffer : j # i => buffers'[j] = buffers[j]
  BY <1>3, <1>5, <1>6, BlockIsMedia DEF ToDo
<1>8. NvmTypeOK'
  BY <1>3, <1>7 DEF NvmInv, NvmTypeOK
<1>9. \A k \in 1..Len(writeEraseQ) : writeEraseQ[k] \in Buffer
  BY ElementOfSeq DEF NvmInv, NvmTypeOK
<1>10. QueuedOnce'
  <2>1. ASSUME NEW k \in 1..Len(writeEraseQ)
        PROVE  /\ buffers'[writeEraseQ[k]].inUse /\ buffers'[writeEraseQ[k]].status # "completed"
               /\ ToDo(buffers'[writeEraseQ[k]])
               /\ buffers'[writeEraseQ[k]].commandHandle[2] = writeEraseQ[k]
    BY <1>5, <1>7, <1>9 DEF NvmInv, QueuedOnce
  <2>2. \A j \in Buffer : ~buffers'[j].inUse => buffers'[j].status = "completed"
    BY <1>5, <1>7 DEF NvmInv, QueuedOnce
  <2> QED
    BY <1>3, <2>1, <2>2 DEF NvmInv, QueuedOnce, ToDo
<1>11. PlannedInOrder'
  <2>1. Finished(media', NextBlock(b)) = plan[2]
    BY <1>3, <1>4, <1>5, <1>6, BlockByBlock
  <2>2. Current' = i
    BY <1>1, <1>3 DEF Current
  <2>3. MediaAsCommanded'
    BY <1>3, <1>7, <2>1, <2>2 DEF MediaAsCommanded
  <2>4. \A k \in 2..Len(writeEraseQ) : buffers'[writeEraseQ[k]] = buffers[writeEraseQ[k]]
    BY <1>1, <1>3, <1>7, InProgress
  <2> QED
    BY <1>3, <2>3, <2>4 DEF NvmInv, PlannedInOrder, Finished, Row
<1>12. Traced'
  <2>1. \A j \in Buffer : buffers'[j].commandHandle = buffers[j].commandHandle
    BY <1>5, <1>7
  <2>2. \A j \in Buffer : buffers[j].status = "completed" => buffers'[j].status = "completed"
    BY <1>4, <1>7
  <2> QED
    BY <1>3, <2>1, <2>2 DEF TracedTo, NvmInv, Traced, Buffer
<1> QED
  BY <1>8, <1>10, <1>11, <1>12 DEF NvmInv

\* With its last block a command is completed, and the next one begun.
LEMMA CommandDone ==
  ASSUME NvmInv, TasksComplete
  PROVE  NvmInv'
<1>1. writeEraseQ # <<>> /\ buffers[Current].nBlocksPending = 1
  BY DEF TasksComplete
<1>2. PICK i \in Buffer : i = Current
  BY <1>1, InProgress
<1>3. PICK len \in Nat \ {0} : len = Len(writeEraseQ)
  BY <1>1, InProgress
<1>4. /\ ToDo(buffers[i]) /\ buffers[i].inUse /\ buffers[i].status # "completed" /\ i = writeEraseQ[1]
      /\ buffers[i].commandHandle[2] = i
      /\ \A k \in 2..len : writeEraseQ[k] \in Buffer /\ writeEraseQ[k] # i
      /\ Finished(media, NextBlock(buffers[i])) = plan[2]
  BY <1>1, <1>2, <1>3, InProgress
<1>5. PICK c : c = [FreeBuffer EXCEPT !.commandHandle = buffers[i].commandHandle]
  OBVIOUS
<1>6. /\ c \in BufferObject /\ ~c.inUse /\ c.status = "completed"
      /\ c.commandHandle = buffers[i].commandHandle
  <2>1. buffers[i].commandHandle \in Nat \X Nat
    BY <1>4 DEF ToDo, BufferObject
  <2> QED
    BY <1>5, <2>1 DEF FreeBuffer, BufferObject
<1>7. /\ buffers \in [Buffer -> BufferObject] /\ media \in Media /\ plan \in Seq(Media)
      /\ writeEraseQ \in Seq(Buffer) /\ Len(plan) = len + 1
  BY <1>3 DEF NvmInv, NvmTypeOK, PlannedInOrder
<1>8. /\ writeEraseQ' = Tail(writeEraseQ) /\ plan' = Tail(plan) /\ bufferToken' = bufferToken
      /\ mine' = IF mine.handle = buffers[i].commandHandle THEN [mine EXCEPT !.done = TRUE] ELSE mine
  BY <1>2 DEF TasksComplete
<1>9. /\ writeEraseQ' \in Seq(Buffer) /\ Len(writeEraseQ') = len - 1
      /\ \A k \in 1..(len - 1) : writeEraseQ'[k] = writeEraseQ[k + 1]
  BY <1>1, <1>3, <1>7, <1>8, HeadTailProperties
<1>10. plan' \in Seq(Media) /\ Len(plan') = len /\ \A k \in 1..len : plan'[k] = plan[k + 1]
  <2>1. plan # <<>> /\ len + 1 - 1 = len
    BY <1>7, EmptySeq
  <2> QED
    BY <1>7, <1>8, <2>1, HeadTailProperties
<1>11. /\ buffers' = [buffers EXCEPT ![i] = c]
       /\ IF writeEraseQ' = <<>> THEN media' = media
           ELSE /\ media' = Processed(media, buffers[writeEraseQ[2]]) /\ len > 1
                /\ Head(writeEraseQ') = writeEraseQ[2]
  <2>1. CASE writeEraseQ' = <<>>
    BY <1>2, <1>5, <2>1 DEF TasksComplete
  <2>2. CASE writeEraseQ' # <<>>
    <3>1. len - 1 # 0 /\ Head(writeEraseQ') = writeEraseQ'[1]
      BY <1>9, <2>2, EmptySeq
    <3>2. len > 1 /\ Head(writeEraseQ') = writeEraseQ[2]
      BY <1>9, <3>1
    <3>3. PICK j \in Buffer : j = writeEraseQ[2] /\ j # i
      BY <1>4, <3>2
    <3>4. buffers' = [buffers EXCEPT ![i] = c, ![j] = buffers[j]] /\ media' = Processed(media, buffers[j])
      BY <1>2, <1>5, <2>2, <3>2, <3>3 DEF TasksComplete, Begun
    <3>5. [buffers EXCEPT ![i] = c, ![j] = buffers[j]] = [buffers EXCEPT ![i] = c]
      BY <1>7, <3>3
    <3> QED
      BY <2>2, <3>2, <3>3, <3>4, <3>5
  <2> QED
    BY <2>1, <2>2
<1>12. buffers'[i] = c /\ \A j \in Buffer : j # i => buffers'[j] = buffers[j]
  BY <1>7, <1>11
<1>13. \A k \in 1..(len - 1) :
          /\ k + 1 \in 2..len /\ k + 1 \in 1..len
          /\ writeEraseQ'[k] = writeEraseQ[k + 1] /\ writeEraseQ'[k] \in Buffer
          /\ writeEraseQ'[k] # i /\ buffers'[writeEraseQ'[k]] = buffers[writeEraseQ[k + 1]]
  <2>1. ASSUME NEW k \in 1..(len - 1) PROVE k + 1 \in 2..len /\ k + 1 \in 1..len
    OBVIOUS
  <2> QED
    BY <1>4, <1>9, <1>12, <2>1
<1>14. writeEraseQ' # <<>> => /\ media' \in Media /\ ToDo(buffers[writeEraseQ[2]])
                             /\ 1 \in 1..(len - 1) /\ Current' = writeEraseQ[2]
  <2> SUFFICES ASSUME writeEraseQ' # <<>>
               PROVE  /\ media' \in Media /\ ToDo(buffers[writeEraseQ[2]])
                      /\ 1 \in 1..(len - 1) /\ Current' = writeEraseQ[2]
    OBVIOUS
  <2>1. len > 1 /\ 2 \in 1..len /\ 1 \in 1..(len - 1)
    BY <1>11
  <2>2. ToDo(buffers[writeEraseQ[2]])
    BY <1>3, <2>1 DEF NvmInv, QueuedOnce
  <2> QED
    BY <1>7, <1>11, <2>1, <2>2, BlockIsMedia DEF Current
<1>15. NvmTypeOK'
  <2>1. buffers' \in [Buffer -> BufferObject]
    BY <1>6, <1>7, <1>11
  <2>2. media' \in Media
    BY <1>7, <1>11, <1>14
  <2>3. bufferToken' \in Nat
    BY <1>8 DEF NvmInv, NvmTypeOK
  <2> QED
    BY <1>9, <1>10, <2>1, <2>2, <2>3 DEF NvmTypeOK
<1>16. QueuedOnce'
  <2>1. ASSUME NEW k \in 1..(len - 1), NEW l \in 1..(len - 1), k # l
        PROVE  writeEraseQ'[k] # writeEraseQ'[l]
    <3>1. k + 1 # l + 1 /\ k + 1 \in 1..len /\ l + 1 \in 1..len
      BY <2>1
    <3> QED
      BY <1>3, <1>13, <3>1 DEF NvmInv, QueuedOnce
  <2>2. ASSUME NEW k \in 1..(len - 1)
        PROVE  /\ buffers'[writeEraseQ'[k]].inUse /\ buffers'[writeEraseQ'[k]].status # "completed"
               /\ ToDo(buffers'[writeEraseQ'[k]])
               /\ buffers'[writeEraseQ'[k]].commandHandle[2] = writeEraseQ'[k]
    BY <1>3, <1>13 DEF NvmInv, QueuedOnce
  <2>3. \A j \in Buffer : ~buffers'[j].inUse => buffers'[j].status = "completed"
    BY <1>6, <1>12 DEF NvmInv, QueuedOnce
  <2> QED
    BY <1>9, <2>1, <2>2, <2>3 DEF QueuedOnce, ToDo
<1>17. media = plan[2] /\ plan'[1] = plan[2]
  <2>1. NextBlock(buffers[i]).nBlocksPending = 0
    BY <1>1, <1>2, <1>4, NextBlockIs
  <2>2. Finished(media, NextBlock(buffers[i])) = media
    BY <1>7, <2>1, NothingToDo
  <2> QED
    <3>1. 1 \in 1..len /\ 1 + 1 = 2
      OBVIOUS
    <3> QED
      BY <1>4, <1>10, <2>2, <3>1
<1>18. MediaAsCommanded'
  <2>1. CASE writeEraseQ' = <<>>
    BY <1>11, <1>17, <2>1 DEF MediaAsCommanded
  <2>2. CASE writeEraseQ' # <<>>
    <3>1. PICK b : b = buffers[writeEraseQ[2]] /\ ToDo(b)
      BY <1>14, <2>2
    <3>2. plan[3] = Finished(plan[2], b)
      <4>1. 2 \in 2..Len(writeEraseQ) /\ 2 + 1 = 3
        BY <1>3, <1>11, <2>2
      <4> QED
        BY <3>1, <4>1 DEF NvmInv, PlannedInOrder
    <3>3. plan'[2] = plan[3]
      <4>1. 2 \in 1..len /\ 2 + 1 = 3
        BY <1>11, <2>2
      <4> QED
        BY <1>10, <4>1
    <3>4. media' = Processed(media, b)
      BY <1>11, <2>2, <3>1
    <3>5. Finished(media', NextBlock(b)) = Finished(media, b)
      BY <1>7, <3>1, <3>4, BlockByBlock
    <3>6. buffers'[Current'] = b
      <4>1. 1 \in 1..(len - 1) /\ 1 + 1 = 2 /\ Current' = writeEraseQ[2]
        BY <1>14, <2>2
      <4>2. writeEraseQ'[1] = writeEraseQ[2] /\ buffers'[writeEraseQ'[1]] = buffers[writeEraseQ[2]]
        BY <1>13, <4>1
      <4> QED
        BY <3>1, <4>1, <4>2
    <3> QED
      BY <1>17, <2>2, <3>2, <3>3, <3>5, <3>6 DEF MediaAsCommanded
  <2> QED
    BY <2>1, <2>2
<1>19. PlannedInOrder'
  <2>1. ASSUME NEW k \in 2..(len - 1)
        PROVE  plan'[k + 1] = Finished(plan'[k], buffers'[writeEraseQ'[k]])
    <3>1. k \in 1..(len - 1) /\ k \in 1..len /\ k + 1 \in 1..len /\ k + 1 \in 2..len
      BY <2>1
    <3>2. plan'[k + 1] = plan[(k + 1) + 1] /\ plan'[k] = plan[k + 1]
          /\ buffers'[writeEraseQ'[k]] = buffers[writeEraseQ[k + 1]]
      BY <1>10, <1>13, <3>1
    <3>3. plan[(k + 1) + 1] = Finished(plan[k + 1], buffers[writeEraseQ[k + 1]])
      BY <1>3, <3>1 DEF NvmInv, PlannedInOrder
    <3> QED
      BY <3>2, <3>3
  <2>2. Len(plan') = Len(writeEraseQ') + 1
    BY <1>9, <1>10
  <2> QED
    BY <1>9, <1>18, <2>1, <2>2 DEF PlannedInOrder
<1>20. Traced'
  <2>1. CASE mine = NoCommand
    <3>1. mine.handle = <<>> /\ buffers[i].commandHandle # <<>>
      <4>1. buffers[i].commandHandle \in Nat \X Nat
        BY <1>4 DEF ToDo, BufferObject
      <4>2. \A x, y : <<x, y>> # <<>>
        <5>1. \A x, y : Len(<<x, y>>) = 2 /\ Len(<<>>) = 0
          OBVIOUS
        <5> QED
          BY <5>1
      <4> QED
        <5>1. PICK x, y \in Nat : buffers[i].commandHandle = <<x, y>>
          BY <4>1
        <5> QED
          BY <2>1, <4>2, <5>1 DEF NoCommand
    <3>2. mine' = NoCommand
      BY <1>8, <2>1, <3>1
    <3> QED
      BY <3>2 DEF Traced, NoCommand
  <2>2. CASE mine # NoCommand
    <3>1. PICK t \in Nat, j \in Buffer : TracedTo(t, j)
      BY <2>2 DEF NvmInv, Traced
    <3>2. CASE buffers[i].commandHandle = <<t, j>>
      <4>1. mine' = [handle |-> <<t, j>>, done |-> TRUE]
        <5>1. PICK d \in BOOLEAN : mine = [handle |-> <<t, j>>, done |-> d]
          BY <3>1 DEF TracedTo
        <5>2. mine' = [mine EXCEPT !.done = TRUE]
          BY <1>8, <3>2, <5>1
        <5> QED
          BY <5>1, <5>2
      <4>2. buffers'[j].status = "completed"
        <5>1. j = i
          BY <1>4, <3>2
        <5> QED
          BY <1>6, <1>12, <5>1
      <4> QED
        BY <4>1, <4>2 DEF TracedTo, Traced
    <3>3. CASE buffers[i].commandHandle # <<t, j>>
      <4>1. mine' = mine
        BY <1>8, <3>1, <3>3 DEF TracedTo
      <4>2. CASE mine.done
        BY <1>6, <1>12, <3>1, <4>1, <4>2 DEF TracedTo, Traced
      <4>3. CASE ~mine.done
        <5>1. j # i
          BY <3>1, <3>3, <4>3 DEF TracedTo
        <5>2. PICK k \in 1..len : writeEraseQ[k] = j
          BY <1>3, <3>1, <4>3 DEF TracedTo
        <5>3. k # 1
          BY <1>4, <5>1, <5>2
        <5>4. k - 1 \in 1..(len - 1) /\ (k - 1) + 1 = k
          BY <5>2, <5>3
        <5>5. writeEraseQ'[k - 1] = j
          BY <1>9, <5>2, <5>4
        <5>6. \E l \in 1..Len(writeEraseQ') : writeEraseQ'[l] = j
          BY <1>9, <5>4, <5>5
        <5>7. buffers'[j] = buffers[j]
          BY <1>12, <5>1
        <5> QED
          BY <3>1, <4>1, <4>3, <5>6, <5>7 DEF TracedTo, Traced
      <4> QED
        BY <3>1, <4>2, <4>3
    <3> QED
      BY <3>2, <3>3
  <2> QED
    BY <2>1, <2>2
<1> QED
  BY <1>15, <1>16, <1>19, <1>20 DEF NvmInv

\* Every step keeps the invariant.
LEMMA NvmInvariant == NvmInv /\ [NvmNext]_nvmVars => NvmInv'
<1> SUFFICES ASSUME NvmInv, [NvmNext]_nvmVars PROVE NvmInv'
  OBVIOUS
<1>1. CASE UNCHANGED nvmVars
  BY <1>1 DEF TracedTo, nvmVars, NvmInv, NvmTypeOK, QueuedOnce, PlannedInOrder, MediaAsCommanded, Traced,
              Current
<1>2. CASE NvmWrite
  <2>1. PICK s \in Sources, first \in Row, n \in 1..MaxRows :
           BlockOperation("write", <<s, 0>>, first, n)
    BY <1>2 DEF NvmWrite
  <2>2. first \in Nat /\ n \in Nat \ {0} /\ <<s, 0>> \in Sources \X Nat
    BY NvmAssumption DEF Row
  <2>3. <<s, 0>> # <<>>
    <3>1. Len(<<s, 0>>) = 2 /\ Len(<<>>) = 0
      OBVIOUS
    <3> QED
      BY <3>1
  <2> QED
    BY <2>1, <2>2, <2>3, CommandGiven
<1>3. CASE NvmErase
  <2>1. PICK page \in 0..(Rows \div RowsPerPage - 1), n \in 1..(Rows \div RowsPerPage) :
           BlockOperation("erase", <<>>, page * RowsPerPage, n)
    BY <1>3 DEF NvmErase
  <2>2. page \in Nat /\ n \in Nat \ {0} /\ RowsPerPage \in Nat
    BY NvmAssumption
  <2>3. page * RowsPerPage \in Nat
    BY <2>2
  <2> QED
    BY <2>1, <2>2, <2>3, CommandGiven
<1> QED
  BY <1>1, <1>2, <1>3, MediaRead, BlockDone, CommandDone DEF NvmNext

\* The invariant holds from the start.
LEMMA NvmInvAlways == NvmSpec => []NvmInv
<1>1. NvmInit => NvmInv
  <2> SUFFICES ASSUME NvmInit PROVE NvmInv
    OBVIOUS
  <2>1. media \in Media
    BY DEF NvmInit, Media, Content
  <2>2. plan = <<media>> /\ plan \in Seq(Media) /\ Len(plan) = 1 /\ plan[1] = media
    BY <2>1 DEF NvmInit
  <2>3. writeEraseQ = <<>> /\ Len(writeEraseQ) = 0 /\ writeEraseQ \in Seq(Buffer)
    BY DEF NvmInit
  <2>4. FreeBuffer \in BufferObject
    BY DEF FreeBuffer, BufferObject
  <2>5. NvmTypeOK
    BY <2>1, <2>2, <2>3, <2>4 DEF NvmInit, NvmTypeOK
  <2>6. QueuedOnce
    BY <2>3 DEF NvmInit, QueuedOnce, FreeBuffer
  <2>7. PlannedInOrder
    BY <2>2, <2>3 DEF PlannedInOrder, MediaAsCommanded
  <2>8. Traced
    BY DEF NvmInit, Traced
  <2> QED
    BY <2>5, <2>6, <2>7, <2>8 DEF NvmInv
<1> QED
  BY <1>1, NvmInvariant, PTL DEF NvmSpec

\* DRV_NVM_Tasks performs the commands whole and in the order they were given,
\* whatever the media, the buffers and the commands: what is on the media, with the
\* rest of the command in progress, is what the commands up to it make.
THEOREM CommandsPerformedInOrder == NvmSpec => []MediaAsCommanded
<1>1. NvmInv => MediaAsCommanded
  BY DEF NvmInv, PlannedInOrder
<1> QED
  BY <1>1, NvmInvAlways, PTL

\* DRV_NVM_CommandStatus reports a command completed when it is done, not before, and
\* from then on, for as long as its handle has not been given again.
THEOREM CompletedWhenDone == NvmSpec => []CompletedIfDone
<1>1. NvmInv => CompletedIfDone
  <2> SUFFICES ASSUME NvmInv, mine # NoCommand
               PROVE  CommandStatus(mine.handle) = "completed" <=> mine.done
    BY DEF CompletedIfDone
  <2>1. PICK t \in Nat, i \in Buffer : TracedTo(t, i)
    BY DEF NvmInv, Traced
  <2>2. mine.handle = <<t, i>> /\ mine.handle[2] = i
    BY <2>1 DEF TracedTo
  <2>3. CASE mine.done
    BY <2>1, <2>2, <2>3 DEF TracedTo, CommandStatus
  <2>4. CASE ~mine.done
    <3>1. buffers[i].status # "completed"
      BY <2>1, <2>4 DEF TracedTo, NvmInv, QueuedOnce
    <3> QED
      BY <2>1, <2>2, <2>4, <3>1 DEF TracedTo, CommandStatus
  <2> QED
    BY <2>1, <2>3, <2>4
<1> QED
  BY <1>1, NvmInvAlways, PTL
=============================================================================
