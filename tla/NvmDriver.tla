------------------------------ MODULE NvmDriver ------------------------------
(***************************************************************************)
(* The static flash driver (drv_nvm_static.c): writes of rows and erases   *)
(* of pages take one of a few buffers each, wait in a queue and are worked *)
(* off block by block, one at every call of DRV_NVM_Tasks that finds the   *)
(* interrupt flag of the flash controller set.  A client asks for the      *)
(* state of its command by a handle made of a token and the buffer.        *)
(*                                                                         *)
(* The repository carries this driver next to the configuration that links *)
(* the dynamic one; NvramConfig relies on what both promise.               *)
(***************************************************************************)
EXTENDS Integers, SequencesExt

CONSTANTS
    Rows, RowsPerPage,  \* of the media: 8 of 8
    Buffers,            \* DRV_NVM_BUFFER_OBJECT_NUMBER, 5
    TokenMax,           \* _DRV_NVM_BUF_TOKEN_MAX, 0xFFFF
    Sources,            \* what the client writes from
    MaxRows             \* bound: rows of one write

ASSUME NvmAssumption ==
    /\ {Rows, RowsPerPage, Buffers, TokenMax, MaxRows} \subseteq Nat \ {0}
    /\ Rows % RowsPerPage = 0

VARIABLES
    media,         \* the rows
    flashFlag,     \* the interrupt flag
    buffers,       \* gDrvNVMBufferObject
    writeEraseQ,   \* those queued; the pointers next, as a sequence
    bufferToken,
    mine,          \* (history) a command whose handle has not been given again, or NoCommand
    plan           \* (history) the media after the commands completed, then after
                   \* each in the queue

nvmVars == <<media, flashFlag, buffers, writeEraseQ, bufferToken, mine, plan>>

NoCommand == [handle |-> <<>>]
Row == 0..(Rows - 1)
Buffer == 0..(Buffers - 1)

\* The content of a row is the row of the source it was programmed from.
Blank == <<>>
Mixed == <<"mixed">>
Programmed(old, new) == IF old = Blank THEN new ELSE Mixed

\* Of a free buffer, the handle and the status count.
FreeBuffer == [inUse |-> FALSE, status |-> "completed", flag |-> "write", source |-> <<>>,
               flashMem |-> 0, nBlocksPending |-> 0, commandHandle |-> <<0, 0>>]

\* After DRV_NVM_Initialize, on a media erased
NvmInit ==
    /\ media = [r \in Row |-> Blank] /\ flashFlag = FALSE
    /\ buffers = [i \in Buffer |-> FreeBuffer]
    /\ writeEraseQ = <<>> /\ bufferToken = 0
    /\ mine = NoCommand /\ plan = <<media>>

-----------------------------------------------------------------------------
(* What the controller does; the processor waits for its end               *)

BlockSize(flag) == IF flag = "write" THEN 1 ELSE RowsPerPage
\* _DRV_NVM_WriteBufferObjProcess and _DRV_NVM_EraseBufferObjProcess
Processed(m, b) ==
    IF b.flag = "write" THEN [m EXCEPT ![b.flashMem] = Programmed(@, b.source)]
    ELSE [r \in Row |-> IF r \in b.flashMem..(b.flashMem + RowsPerPage - 1) THEN Blank ELSE m[r]]

\* Mutant: the next in the queue begins with its second block.
OffsetByOne(b) == [b EXCEPT !.flashMem = (@ + BlockSize(b.flag)) % Rows]
\* bufferOffset 0 for a buffer that begins, 1 for one that goes on
Begun(b) == b
Advanced(b) ==
    [b EXCEPT !.flashMem = @ + BlockSize(b.flag),
              !.source = IF b.flag = "write" THEN <<@[1], @[2] + 1>> ELSE @]

\* The place in the buffer after its block in progress
NextBlock(b) == [Advanced(b) EXCEPT !.nBlocksPending = b.nBlocksPending - 1]

\* (history) The media when all of a buffer, or what is left of it, is done: its rows
\* are blank, or programmed from as many rows of the source.
Finished(m, b) ==
    [r \in Row |->
        LET k == r - b.flashMem
        IN IF k \notin 0..(b.nBlocksPending * BlockSize(b.flag) - 1) THEN m[r]
           ELSE IF b.flag = "erase" THEN Blank
           ELSE Programmed(m[r], <<b.source[1], b.source[2] + k>>)]

-----------------------------------------------------------------------------
(* The client                                                              *)

Free == {i \in Buffer : ~buffers[i].inUse}
FirstFree == CHOOSE i \in Free : \A j \in Free : i <= j
NextToken == IF bufferToken + 1 = TokenMax THEN 0 ELSE bufferToken + 1
Handle(i) == <<bufferToken, i>>

\* A handle is given again once the tokens have come round.
Remaining(handle) == IF mine.handle = handle THEN NoCommand ELSE mine

\* _DRV_NVM_BlockOperation: at once if nothing is queued.  (Without a free buffer,
\* the handle is invalid and nothing happens.)
BlockOperation(flag, source, first, n) ==
    /\ Free # {}
    /\ LET i == FirstFree
           b == [inUse |-> TRUE, status |-> "queued", flag |-> flag, source |-> source,
                 flashMem |-> first, nBlocksPending |-> n, commandHandle |-> Handle(i)]
           idle == writeEraseQ = <<>>
       IN /\ buffers' = [buffers EXCEPT
                ![i] = IF idle THEN [b EXCEPT !.status = "in progress"] ELSE b]
          /\ writeEraseQ' = Append(writeEraseQ, i)
          /\ IF idle THEN media' = Processed(media, b) /\ flashFlag' = TRUE
             ELSE UNCHANGED <<media, flashFlag>>
          /\ plan' = Append(plan, Finished(Last(plan), b))
          /\ mine' \in {Remaining(Handle(i)), [handle |-> Handle(i), done |-> FALSE]}
    /\ bufferToken' = NextToken

NvmWrite ==
    \E s \in Sources, first \in Row, n \in 1..MaxRows :
        first + n <= Rows /\ BlockOperation("write", <<s, 0>>, first, n)
NvmErase ==
    \E page \in 0..(Rows \div RowsPerPage - 1), n \in 1..(Rows \div RowsPerPage) :
        /\ page + n <= Rows \div RowsPerPage
        /\ BlockOperation("erase", <<>>, page * RowsPerPage, n)

\* DRV_NVM_Read holds its buffer for the copying only.
NvmRead ==
    /\ Free # {}
    /\ LET i == FirstFree
       IN /\ buffers' = [buffers EXCEPT ![i].commandHandle = Handle(i), ![i].status = "completed"]
          /\ mine' = Remaining(Handle(i))
    /\ bufferToken' = NextToken
    /\ UNCHANGED <<media, flashFlag, writeEraseQ, plan>>

\* Mutant: the buffer's status, whoever has it now.
StatusOfBuffer(handle) == buffers[handle[2]].status
\* DRV_NVM_CommandStatus: a buffer with another handle has been taken again.
CommandStatus(handle) ==
    IF buffers[handle[2]].commandHandle # handle THEN "completed" ELSE buffers[handle[2]].status

-----------------------------------------------------------------------------
(* DRV_NVM_Tasks                                                           *)

Current == Head(writeEraseQ)

\* One more block of the buffer
TasksGoOn ==
    /\ flashFlag /\ writeEraseQ # <<>> /\ buffers[Current].nBlocksPending > 1
    /\ LET b == NextBlock(buffers[Current])
       IN buffers' = [buffers EXCEPT ![Current] = b] /\ media' = Processed(media, b)
    /\ UNCHANGED <<flashFlag, writeEraseQ, bufferToken, mine, plan>>

\* The buffer is complete: the next in the queue, if there is one
TasksComplete ==
    /\ flashFlag /\ writeEraseQ # <<>> /\ buffers[Current].nBlocksPending = 1
    /\ writeEraseQ' = Tail(writeEraseQ)
    /\ LET completed == [FreeBuffer EXCEPT !.commandHandle = buffers[Current].commandHandle]
           next == Begun(buffers[Head(writeEraseQ')])
       IN IF writeEraseQ' = <<>>
          THEN /\ buffers' = [buffers EXCEPT ![Current] = completed]
               /\ flashFlag' = FALSE /\ UNCHANGED media
          ELSE /\ buffers' = [buffers EXCEPT ![Current] = completed, ![Head(writeEraseQ')] = next]
               /\ media' = Processed(media, next) /\ UNCHANGED flashFlag
    /\ mine' = IF mine.handle = buffers[Current].commandHandle THEN [mine EXCEPT !.done = TRUE]
               ELSE mine
    /\ plan' = Tail(plan)
    /\ UNCHANGED bufferToken

NvmNext == NvmWrite \/ NvmErase \/ NvmRead \/ TasksGoOn \/ TasksComplete
NvmSpec == NvmInit /\ [][NvmNext]_nvmVars

-----------------------------------------------------------------------------
(* Properties                                                              *)

\* The commands are performed whole and in the order given: what is on the media,
\* with the rest of the command in progress, is what the commands up to it make.
MediaAsCommanded ==
    IF writeEraseQ = <<>> THEN media = plan[1]
    ELSE Finished(media, NextBlock(buffers[Current])) = plan[2]

\* A command is reported completed when it is done, not before, and from then on
\* until the tokens have come round to its handle.
CompletedIfDone ==
    mine # NoCommand => (CommandStatus(mine.handle) = "completed" <=> mine.done)
=============================================================================
