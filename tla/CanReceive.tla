----------------------------- MODULE CanReceive -----------------------------
(***************************************************************************)
(* Reception of data from the sensor box over CAN (can.c).                 *)
(*                                                                         *)
(* A message that does not fit one frame travels as a header frame (XOR    *)
(* checksum and size) and body frames; the receive interrupt copies the    *)
(* bodies one behind the other into a buffer it allocated for the header,  *)
(* checks the checksum and hands the buffer to vFetchData.  Frames are not *)
(* numbered, there is no acknowledgement and no timeout, and the receive   *)
(* FIFO is one frame deep.                                                 *)
(*                                                                         *)
(* A byte is one bit lane of a byte of the code: XOR works lane by lane,   *)
(* and the station sort, a fixed sequence of compare-and-swap steps, sorts *)
(* every list if it sorts the lists over two values.                       *)
(***************************************************************************)
EXTENDS Integers, AprsSort

CONSTANTS
  Types,       \* sequence messages: the CID_..._H cases of vCAN_MsgRecv
  Geiger,      \* CID_GEIGER_H, which feeds the graph ring
  Aprs,        \* CID_APRS_H, whose station list is sorted
  SizeOf,      \* sizeof the structure sent with each type
  FrameLen,    \* data bytes of a frame (8)
  GraphLen,    \* entries of sGraph (128)
  MaxLost,     \* bound: frames the bus or the one-deep FIFO loses
  MaxAlien,    \* bound: frames of other origin between the frames of a sequence
  None         \* no data yet, or memory never written

ASSUME FrameLenAssumption == FrameLen \in Nat \ {0}
ASSUME GraphLenAssumption == GraphLen \in Nat \ {0}
ASSUME SizeAssumption     == SizeOf \in [Types -> Nat \ {0}]
ASSUME TypesAssumption    == Geiger \in Types /\ Aprs \in Types /\ Geiger # Aprs
ASSUME BoundsAssumption   == MaxLost \in Nat /\ MaxAlien \in Nat
ASSUME NoneAssumption     ==
  /\ None \notin {0, 1} /\ None \notin Seq({0, 1, None})
  /\ None \notin Types \X Seq({0, 1})

VARIABLES
  ucCanTrans,  \* CST_SINGLE or CST_SEQUENCE
  ucCanType,   \* message type of the sequence, or SID of the last single frame
  cChecksum,   \* checksum announced by the header
  uiCanSize,   \* size announced by the header
  pCanBuff,    \* the sequence buffer; None when not allocated
  rxOff,       \* pucCanRXptr - pCanBuff
  heapLive,    \* buffers allocated by the handler and not freed (history)
  app,         \* the structures of appData vFetchData fills, by type
  usStatus,    \* STAT_... bits still set: sensors not yet seen working
  sGraph, cGraphPtr,  \* ring of Geiger readings and its write index
  readings,    \* the last GraphLen Geiger readings fetched, oldest first (history)
  sending,     \* what the peer is sending: <<type, body>> or None
  toSend,      \* its frames that are not on the bus yet
  announced,   \* checksum of the last header received, by type (history)
  lost, alien  \* disturbances so far

rxVars   == <<ucCanTrans, ucCanType, cChecksum, uiCanSize, pCanBuff, rxOff, heapLive, announced>>
appVars  == <<app, usStatus, sGraph, cGraphPtr, readings>>
peerVars == <<sending, toSend>>
vars     == <<rxVars, appVars, peerVars, lost, alien>>

Byte == {0, 1}
Xor(a, b) == (a + b) % 2

\* cChecksum over the bytes of a message, in sender and receiver.
Checksum(bytes) == FoldLeft(Xor, 0, bytes)

-----------------------------------------------------------------------------
(* Frames *)

\* The SIDs of a message: its header, and its body (header + 1).
HeaderSid(t) == <<t, "H">>
BodySid(t)   == <<t, "B">>
SingleSid    == <<None, "S">>   \* CID_GYRO, CID_TICK, CID_STATUS
Sids == {HeaderSid(t) : t \in Types} \union {BodySid(t) : t \in Types} \union {SingleSid}

\* A frame: its SID, the data bytes the sender gave (their number is the data
\* length code), and for a header the size in its bytes 1..4.
Frame == [sid : Sids, data : UNION {[1..n -> Byte] : n \in 1..FrameLen}, size : Nat]

\* The eight bytes the interrupt copies: whatever the length code, memcpy takes
\* all of them, so the ones the sender did not give have any value.
ucMessages(f) ==
  {d \in [1..FrameLen -> Byte] : \A i \in 1..Len(f.data) : d[i] = f.data[i]}

\* vCanSendBuffer: the header, the full bodies, and the remnant if there is one.
vCanSendBuffer(t, bytes) ==
  LET n == Len(bytes)
      Header == [sid |-> HeaderSid(t), data |-> <<Checksum(bytes)>>, size |-> n]
      Body(k) == [sid  |-> BodySid(t),
                  data |-> SubSeq(bytes, (k - 1) * FrameLen + 1,
                                 IF k * FrameLen < n THEN k * FrameLen ELSE n),
                  size |-> 0]
      uiLoops == n \div FrameLen
      cRemnant == n % FrameLen
  IN  <<Header>> \o [k \in 1..(uiLoops + (IF cRemnant > 0 THEN 1 ELSE 0)) |-> Body(k)]

-----------------------------------------------------------------------------
(* vFetchData: the buffer is complete and its checksum matches. *)

\* The status bits a message of type t may clear: those whose reading is plausible
\* (iCounts5 of a Geiger message; of the station list, a distance the sort compares as
\* the left one; voltage, current, network of the others).
Plausible(t, body) == IF t = Aprs THEN \E i \in 1..(Len(body) - 1) : body[i] > 0
                                  ELSE body[1] > 0

\* Mutant: the index wraps one entry early.
EarlyWrap(p) == IF p + 1 > GraphLen - 2 THEN 0 ELSE p + 1

NextGraphIndex(p) == IF p + 1 > GraphLen - 1 THEN 0 ELSE p + 1

\* The part of the history the ring can hold.
Latest(seq) == IF Len(seq) > GraphLen THEN Tail(seq) ELSE seq

vFetchData(t, buff) ==
  LET body == SubSeq(buff, 1, SizeOf[t])
  IN  /\ app' = [app EXCEPT ![t] = IF t = Aprs THEN BubbleSort(body) ELSE body]
      /\ usStatus' = IF Plausible(t, body) THEN usStatus \ {t} ELSE usStatus
      /\ IF t = Geiger
           THEN /\ sGraph' = [sGraph EXCEPT ![cGraphPtr] = body[1]]
                /\ cGraphPtr' = NextGraphIndex(cGraphPtr)
                /\ readings' = Latest(Append(readings, body[1]))
           ELSE UNCHANGED <<sGraph, cGraphPtr, readings>>

-----------------------------------------------------------------------------
(* vCAN_MsgRecv: the receive interrupt, once per frame taken from the FIFO. *)

CopyTo(buff, off, data, n) ==
  [i \in 1..Len(buff) |-> IF i \in (off + 1)..(off + n) THEN data[i - off] ELSE buff[i]]

uiRemain == uiCanSize - rxOff

\* Mutants: the last frame is taken for one of many; the type follows
\* every frame, not only those in single reception.
ReceiveMoreUnlimited(f, ucMessage) ==
  /\ ucCanTrans = "CST_SEQUENCE"
  /\ uiRemain > 0
  /\ pCanBuff' = CopyTo(pCanBuff, rxOff, ucMessage, FrameLen)
  /\ rxOff' = rxOff + FrameLen
  /\ UNCHANGED <<ucCanTrans, ucCanType, cChecksum, uiCanSize, heapLive, announced>>
  /\ UNCHANGED appVars

ReceiveMoreAnyType(f, ucMessage) ==
  /\ ucCanTrans = "CST_SEQUENCE"
  /\ uiRemain > FrameLen
  /\ ucCanType' = f.sid
  /\ pCanBuff' = CopyTo(pCanBuff, rxOff, ucMessage, FrameLen)
  /\ rxOff' = rxOff + FrameLen
  /\ UNCHANGED <<ucCanTrans, cChecksum, uiCanSize, heapLive, announced>>
  /\ UNCHANGED appVars

ReceiveMore(f, ucMessage) ==
  /\ ucCanTrans = "CST_SEQUENCE"
  /\ uiRemain > FrameLen
  /\ pCanBuff' = CopyTo(pCanBuff, rxOff, ucMessage, FrameLen)
  /\ rxOff' = rxOff + FrameLen
  /\ UNCHANGED <<ucCanTrans, ucCanType, cChecksum, uiCanSize, heapLive, announced>>
  /\ UNCHANGED appVars

\* Mutants: the buffer is freed only with a good checksum; the checksum is not
\* tested; after a bad one the bodies are awaited again.
ReceiveLastLeaks(f, ucMessage) ==
  LET full == CopyTo(pCanBuff, rxOff, ucMessage, uiRemain)
      good == Checksum(SubSeq(full, 1, uiCanSize)) = cChecksum
  IN  /\ ucCanTrans = "CST_SEQUENCE"
      /\ uiRemain <= FrameLen
      /\ IF good THEN vFetchData(ucCanType, full) ELSE UNCHANGED appVars
      /\ ucCanTrans' = "CST_SINGLE"
      /\ pCanBuff' = IF good THEN None ELSE pCanBuff
      /\ heapLive' = IF good THEN heapLive - 1 ELSE heapLive
      /\ UNCHANGED <<ucCanType, cChecksum, uiCanSize, rxOff, announced>>

ReceiveLastUnchecked(f, ucMessage) ==
  /\ ucCanTrans = "CST_SEQUENCE"
  /\ uiRemain <= FrameLen
  /\ vFetchData(ucCanType, CopyTo(pCanBuff, rxOff, ucMessage, uiRemain))
  /\ ucCanTrans' = "CST_SINGLE"
  /\ pCanBuff' = None
  /\ heapLive' = heapLive - 1
  /\ UNCHANGED <<ucCanType, cChecksum, uiCanSize, rxOff, announced>>

ReceiveLastAgain(f, ucMessage) ==
  LET full == CopyTo(pCanBuff, rxOff, ucMessage, uiRemain)
  IN  /\ ucCanTrans = "CST_SEQUENCE"
      /\ uiRemain <= FrameLen
      /\ IF Checksum(SubSeq(full, 1, uiCanSize)) = cChecksum
           THEN /\ vFetchData(ucCanType, full)
                /\ ucCanTrans' = "CST_SINGLE" /\ pCanBuff' = None /\ heapLive' = heapLive - 1
                /\ UNCHANGED rxOff
           ELSE rxOff' = 0 /\ UNCHANGED <<appVars, ucCanTrans, pCanBuff, heapLive>>
      /\ UNCHANGED <<ucCanType, cChecksum, uiCanSize, announced>>

ReceiveLast(f, ucMessage) ==
  LET full == CopyTo(pCanBuff, rxOff, ucMessage, uiRemain)
  IN  /\ ucCanTrans = "CST_SEQUENCE"
      /\ uiRemain <= FrameLen
      /\ IF Checksum(SubSeq(full, 1, uiCanSize)) = cChecksum
           THEN vFetchData(ucCanType, full)
           ELSE UNCHANGED appVars
      /\ ucCanTrans' = "CST_SINGLE"
      /\ pCanBuff' = None
      /\ heapLive' = heapLive - 1
      /\ UNCHANGED <<ucCanType, cChecksum, uiCanSize, rxOff, announced>>

ReceiveHeader(f, ucMessage) ==
  /\ ucCanTrans = "CST_SINGLE"
  /\ \E t \in Types :
       /\ f.sid = HeaderSid(t)
       /\ ucCanType' = t
       /\ announced' = [announced EXCEPT ![t] = ucMessage[1]]
  /\ cChecksum' = ucMessage[1]
  /\ uiCanSize' = f.size
  /\ \/ /\ pCanBuff' = [i \in 1..(f.size + FrameLen) |-> None]
        /\ heapLive' = heapLive + 1
        /\ ucCanTrans' = "CST_SEQUENCE"
        /\ rxOff' = 0
     \/ \* malloc fails: stay in single reception, the bodies will be ignored
        /\ pCanBuff' = None
        /\ UNCHANGED <<heapLive, ucCanTrans, rxOff>>
  /\ UNCHANGED appVars

\* CID_GYRO, CID_TICK and CID_STATUS, and the bodies of a sequence not being
\* received: nothing of this module's state but the type.
ReceiveSingle(f) ==
  /\ ucCanTrans = "CST_SINGLE"
  /\ \A t \in Types : f.sid # HeaderSid(t)
  /\ ucCanType' = f.sid
  /\ UNCHANGED <<ucCanTrans, cChecksum, uiCanSize, pCanBuff, rxOff, heapLive, announced>>
  /\ UNCHANGED appVars

vCAN_MsgRecv(f) ==
  \E ucMessage \in ucMessages(f) :
    \/ ReceiveMore(f, ucMessage) \/ ReceiveLast(f, ucMessage)
    \/ ReceiveHeader(f, ucMessage) \/ ReceiveSingle(f)

-----------------------------------------------------------------------------
(* The bus: the peer's messages, frame by frame, and what may go wrong. *)

Bodies(t) == [1..SizeOf[t] -> Byte]

\* The peer has a message of its own to send.
PeerSend ==
  /\ toSend = <<>>
  /\ \E t \in Types : \E body \in Bodies(t) :
       /\ sending' = <<t, body>>
       /\ toSend' = vCanSendBuffer(t, body)
  /\ UNCHANGED <<rxVars, appVars, lost, alien>>

\* Its next frame reaches the FIFO and the interrupt takes it.
Deliver ==
  /\ toSend # <<>>
  /\ vCAN_MsgRecv(Head(toSend))
  /\ toSend' = Tail(toSend)
  /\ UNCHANGED <<sending, lost, alien>>

\* A frame is lost: the one-deep FIFO is overwritten while interrupts are off
\* or a handler of higher priority runs.
Lose ==
  /\ toSend # <<>>
  /\ lost < MaxLost
  /\ lost' = lost + 1
  /\ toSend' = Tail(toSend)
  /\ UNCHANGED <<rxVars, appVars, sending, alien>>

\* A single frame (gyro, tick): harmless between two sequences, a disturbance
\* within one.
Single ==
  /\ IF toSend = <<>> THEN alien' = alien ELSE alien < MaxAlien /\ alien' = alien + 1
  /\ \E b \in Byte : vCAN_MsgRecv([sid |-> SingleSid, data |-> <<b>>, size |-> 0])
  /\ UNCHANGED <<peerVars, lost>>

-----------------------------------------------------------------------------
Init ==
  /\ ucCanTrans = "CST_SINGLE" /\ ucCanType = None
  /\ cChecksum = 0 /\ uiCanSize = 0
  /\ pCanBuff = None /\ rxOff = 0 /\ heapLive = 0
  /\ announced = [t \in Types |-> None]
  /\ app = [t \in Types |-> None]
  /\ usStatus = Types
  /\ sGraph = [i \in 0..(GraphLen - 1) |-> None] /\ cGraphPtr = 0 /\ readings = <<>>
  /\ sending = None /\ toSend = <<>>
  /\ lost = 0 /\ alien = 0

Next == PeerSend \/ Deliver \/ Lose \/ Single

\* The peer repeats its messages for ever, and what it puts on the bus arrives.
Fairness == WF_vars(PeerSend) /\ WF_vars(Deliver)

Spec == Init /\ [][Next]_vars /\ Fairness

-----------------------------------------------------------------------------
(* Correctness *)

\* The sequence buffer is allocated exactly while a sequence is being received,
\* and there is never a second one: whatever frames are lost or inserted, the
\* handler neither leaks a buffer nor frees one twice (malloc and free in
\* vCAN_MsgRecv).
OneBufferPerSequence ==
  /\ ucCanTrans = "CST_SEQUENCE" <=> pCanBuff # None
  /\ heapLive = IF ucCanTrans = "CST_SEQUENCE" THEN 1 ELSE 0

\* The next eight bytes always fit in the buffer, and the bytes before the write
\* position have all been received: the copy never runs past the allocation and
\* the checksum never reads memory that was not written.
CopyStaysInBuffer ==
  ucCanTrans = "CST_SEQUENCE" =>
    /\ rxOff < uiCanSize
    /\ rxOff + FrameLen <= Len(pCanBuff)
    /\ \A i \in 1..rxOff : pCanBuff[i] \in Byte

\* The type, the size and the checksum used to finish a sequence come from one
\* and the same header, although every frame in single reception overwrites
\* the type: a sequence is never judged by another message's header, and
\* vFetchData's fixed-size copy never exceeds the buffer.
OneHeaderPerSequence ==
  ucCanTrans = "CST_SEQUENCE" =>
    /\ ucCanType \in Types
    /\ uiCanSize = SizeOf[ucCanType]
    /\ cChecksum = announced[ucCanType]

\* Application data changes only to bytes whose checksum is the one the last
\* header of that type announced, however the frames in between were mixed up.
DataPassedChecksum ==
  [][\A t \in Types : app'[t] # app[t] => Checksum(app'[t]) = announced[t]]_vars

\* The graph ring read backwards from its write index gives the latest readings,
\* newest first: no reading is skipped or overwritten early when the index wraps.
RingHoldsLatest ==
  \A k \in 1..Len(readings) :
    sGraph[(cGraphPtr - k) % GraphLen] = readings[Len(readings) - k + 1]

\* The station list the screens and the proximity alarm read is nearest first:
\* they take entry 0 as the closest station.
StationsNearestFirst == app[Aprs] # None => NearestFirst(app[Aprs])

\* When losses and insertions end, the receiver falls back into step with the
\* sender for good: between two of the peer's messages it is not waiting for
\* the rest of an old one, although nothing numbers frames or times out.
BackInStep == <>[](toSend = <<>> => ucCanTrans = "CST_SINGLE")

\* On a bus that loses nothing and does not mix sequences, reception implements
\* the abstract delivery of whole messages.
Delivery == INSTANCE CanDelivery WITH
  inFlight <- IF toSend = <<>> THEN None ELSE sending,
  store    <- app
WholeMessages == Delivery!Spec
=============================================================================
