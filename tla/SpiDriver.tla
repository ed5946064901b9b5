------------------------------ MODULE SpiDriver ------------------------------
(***************************************************************************)
(* The driver of the SPI bus to the SD card (drv_spi_tasks.c,              *)
(* drv_spi_master_ebm_tasks.c): jobs of so many bytes out and so many in   *)
(* are queued by the main loop and worked off by one interrupt handler for *)
(* both FIFOs, while the bus goes on between any two of its steps.         *)
(*                                                                         *)
(* Every byte out brings one in: the driver sends dummies after a short    *)
(* output and drops what it has no room for.  An interrupt is pending as   *)
(* long as its FIFO is in the condition selected.  A byte is named by its  *)
(* job and its place, and so is the answer to it.                          *)
(***************************************************************************)
EXTENDS Integers, SequencesExt

CONSTANTS
    FifoSize,  \* bytes of each FIFO (16)
    HwMark,    \* of them make the receiver half full (8)
    Sizes,     \* bound: numbers of bytes of a job
    MaxJobs    \* bound: jobs at a time, after which their names recur

ASSUME SpiAssumption ==
    /\ FifoSize \in Nat /\ HwMark \in 1..(FifoSize - 1)
    /\ Sizes \subseteq Nat /\ MaxJobs \in Nat

VARIABLES
    spiQueue,           \* the jobs that wait
    currentJob,         \* or NoJob
    symbolsInProgress,
    txFifo, shifting, rxFifo,  \* the bus: shifting is a sequence of at most one byte
    txMode, rxMode,     \* what makes the interrupts pending
    spiEnabled,         \* the interrupts
    isr,                \* the handler's next step, or "out"
    jobs,               \* the last job's name
    answered            \* (history) the job just completed, or NoJob

bus == <<txFifo, shifting, rxFifo>>
spiVars == <<spiQueue, currentJob, symbolsInProgress, bus, txMode, rxMode, spiEnabled, isr, jobs,
             answered>>

NoJob == [id |-> 0]

\* After DRV_SPI_SetupHardware
SpiInit ==
    /\ spiQueue = <<>> /\ currentJob = NoJob /\ symbolsInProgress = 0
    /\ txFifo = <<>> /\ shifting = <<>> /\ rxFifo = <<>>
    /\ txMode = "empty" /\ rxMode = "not empty"
    /\ spiEnabled = FALSE /\ isr = "out"
    /\ jobs = 0 /\ answered = NoJob

-----------------------------------------------------------------------------
(* The main loop and the bus                                               *)

AtLeast0(n) == IF n < 0 THEN 0 ELSE n
SpiJob(id, out, in) ==
    [id |-> id, wanted |-> in, rxBuffer |-> <<>>, dataTxed |-> 0,
     dataLeftToTx |-> out, dummyLeftToTx |-> AtLeast0(in - out),
     dataLeftToRx |-> in, dummyLeftToRx |-> AtLeast0(out - in)]
LeftToTx(job) == job.dataLeftToTx + job.dummyLeftToTx
LeftToRx(job) == job.dataLeftToRx + job.dummyLeftToRx

\* DRV_SPI_BufferAdd...: queues a job and enables the interrupts.
BufferAdd ==
    /\ isr = "out"
    /\ Len(spiQueue) + (IF currentJob = NoJob THEN 0 ELSE 1) < MaxJobs
    /\ jobs' = 1 + (jobs % MaxJobs)
    /\ \E out, in \in Sizes :
           /\ out + in > 0
           /\ spiQueue' = Append(spiQueue, SpiJob(jobs', out, in))
    /\ spiEnabled' = TRUE
    /\ answered' = NoJob
    /\ UNCHANGED <<currentJob, symbolsInProgress, bus, txMode, rxMode, isr>>

\* A byte leaves its FIFO; later the answer comes, or is lost if there is no room.
Shift ==
    /\ IF shifting = <<>>
       THEN /\ txFifo # <<>>
            /\ shifting' = <<Head(txFifo)>> /\ txFifo' = Tail(txFifo)
            /\ UNCHANGED rxFifo
       ELSE /\ shifting' = <<>>
            /\ rxFifo' = IF Len(rxFifo) < FifoSize THEN rxFifo \o shifting ELSE rxFifo
            /\ UNCHANGED txFifo
    /\ UNCHANGED <<spiQueue, currentJob, symbolsInProgress, txMode, rxMode, spiEnabled, isr, jobs,
                   answered>>

Pending ==
    \/ Len(txFifo) <= IF txMode = "empty" THEN 0 ELSE FifoSize \div 2
    \/ Len(rxFifo) >= IF rxMode = "not empty" THEN 1 ELSE HwMark

-----------------------------------------------------------------------------
(* The interrupt handler (DRV_SPI_ISRMasterEBM8BitTasks)                   *)

Interrupted ==
    /\ isr = "out" /\ spiEnabled /\ Pending
    /\ spiEnabled' = FALSE /\ isr' = "job"
    /\ answered' = NoJob
    /\ UNCHANGED <<spiQueue, currentJob, symbolsInProgress, bus, txMode, rxMode, jobs>>

\* A new job, if there is none.  (An empty queue is tested for, too: the interrupts
\* are not enabled then.)
KeepJob ==
    /\ isr = "job" /\ currentJob # NoJob
    /\ isr' = "send" /\ answered' = NoJob
    /\ UNCHANGED <<spiQueue, currentJob, symbolsInProgress, bus, txMode, rxMode, spiEnabled, jobs>>
NewJob ==
    /\ isr = "job" /\ currentJob = NoJob /\ spiQueue # <<>>
    /\ currentJob' = Head(spiQueue) /\ spiQueue' = Tail(spiQueue)
    /\ symbolsInProgress' = 0
    /\ IF LeftToTx(currentJob') > FifoSize THEN txMode' = "half" /\ rxMode' = "half"
       ELSE UNCHANGED <<txMode, rxMode>>
    /\ rxFifo' = <<>>
    /\ isr' = "send" /\ answered' = NoJob
    /\ UNCHANGED <<txFifo, shifting, spiEnabled, jobs>>

\* DRV_SPI_MasterEBMSend8BitISR: as many as the receiver will have room for,
\* data before dummies
Least(m, n) == IF m < n THEN m ELSE n
Most(m, n) == IF m < n THEN n ELSE m
\* Mutant: what is on the bus or received is not counted.
RoomInFifo == FifoSize - Len(txFifo)
Room == FifoSize - Most(symbolsInProgress, Len(txFifo))
Send8Bit ==
    LET job == currentJob
        data == Least(job.dataLeftToTx, Room)
        dummies == Least(job.dummyLeftToTx, Room - data)
    IN /\ currentJob' = [job EXCEPT !.dataLeftToTx = @ - data, !.dataTxed = @ + data + dummies,
                                    !.dummyLeftToTx = @ - dummies]
       /\ txFifo' = txFifo \o [i \in 1..(data + dummies) |-> <<job.id, job.dataTxed + i>>]
       /\ symbolsInProgress' = symbolsInProgress + data + dummies
       /\ txMode' = IF LeftToTx(currentJob') = 0 THEN "empty" ELSE txMode
Send ==
    /\ isr = "send" /\ isr' = "receive"
    /\ IF LeftToTx(currentJob) # 0 THEN Send8Bit
       ELSE UNCHANGED <<currentJob, txFifo, symbolsInProgress, txMode>>
    /\ UNCHANGED <<spiQueue, shifting, rxFifo, rxMode, spiEnabled, jobs, answered>>

\* DRV_SPI_MasterEBMReceive8BitISR: the data, then what answers the rest
\* Mutant: the bytes that are not wanted are taken first.
DataBehind(data, dummies) == SubSeq(rxFifo, dummies + 1, dummies + data)
DataRead(data, dummies) == SubSeq(rxFifo, 1, data)
ModeFor(left) == IF left < HwMark THEN "not empty" ELSE rxMode
Receive8Bit ==
    LET job == currentJob
        data == Least(job.dataLeftToRx, Len(rxFifo))
        dummies == Least(job.dummyLeftToRx, Len(rxFifo) - data)
    IN /\ currentJob' = [job EXCEPT !.dataLeftToRx = @ - data, !.dummyLeftToRx = @ - dummies,
                                    !.rxBuffer = @ \o DataRead(data, dummies)]
       /\ rxFifo' = SubSeq(rxFifo, data + dummies + 1, Len(rxFifo))
       /\ symbolsInProgress' = symbolsInProgress - data - dummies
       /\ rxMode' = ModeFor(LeftToRx(currentJob'))
Receive ==
    /\ isr = "receive" /\ isr' = "end"
    /\ IF LeftToRx(currentJob) # 0 THEN Receive8Bit
       ELSE UNCHANGED <<currentJob, rxFifo, symbolsInProgress, rxMode>>
    /\ UNCHANGED <<spiQueue, txFifo, shifting, txMode, spiEnabled, jobs, answered>>

\* The job is complete: the next one at once, or the interrupts stay disabled.
JobDone ==
    /\ isr = "end" /\ LeftToRx(currentJob) = 0
    /\ answered' = currentJob /\ currentJob' = NoJob
    /\ isr' = IF spiQueue # <<>> THEN "job" ELSE "out"
    /\ UNCHANGED <<spiQueue, symbolsInProgress, bus, txMode, rxMode, spiEnabled, jobs>>
\* Once more if an interrupt is pending again, else wait for one.
JobGoesOn ==
    /\ isr = "end" /\ LeftToRx(currentJob) # 0
    /\ IF Pending THEN isr' = "job" /\ UNCHANGED spiEnabled
       ELSE isr' = "out" /\ spiEnabled' = TRUE
    /\ UNCHANGED <<spiQueue, currentJob, symbolsInProgress, bus, txMode, rxMode, jobs, answered>>

SpiNext == \/ BufferAdd \/ Shift \/ Interrupted \/ KeepJob \/ NewJob
           \/ Send \/ Receive \/ JobDone \/ JobGoesOn
SpiSpec == SpiInit /\ [][SpiNext]_spiVars

-----------------------------------------------------------------------------
(* Properties                                                              *)

\* A job completes with the answers to its own bytes, all of them and in their
\* order, whenever the bus and the handler meet: nothing overflows, nothing is left
\* for the next job.
AnswersInOrder ==
    answered # NoJob =>
        /\ answered.rxBuffer = [i \in 1..answered.wanted |-> <<answered.id, i>>]
        /\ LeftToTx(answered) = 0 /\ txFifo = <<>> /\ shifting = <<>> /\ rxFifo = <<>>

\* The driver never waits for what cannot come: every answer a job still waits for
\* is to be sent for or on its way, so none has overflown the receiver; and between
\* two runs of the handler the bus is at work, or an interrupt is pending.  (The last
\* bytes come with the transmitter's: it is pending as long as its FIFO is empty.)
JobsGoOn ==
    /\ currentJob # NoJob =>
           LeftToRx(currentJob) =
               LeftToTx(currentJob) + Len(txFifo) + Len(shifting) + Len(rxFifo)
    /\ (currentJob # NoJob \/ spiQueue # <<>>) /\ isr = "out" =>
           spiEnabled /\ (Pending \/ txFifo # <<>> \/ shifting # <<>>)
=============================================================================
