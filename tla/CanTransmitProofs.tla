-------------------------- MODULE CanTransmitProofs --------------------------
(***************************************************************************)
(* Proofs about CanTransmit, for configurations of any fields and values   *)
(* and any checksum: the live structure is copied without a lock, and yet  *)
(* what the sensor box takes was the configuration at some moment of the   *)
(* sending, if no more than one field was edited meanwhile.                *)
(*                                                                         *)
(* The argument does not need the checksum: the bodies taken so far agree  *)
(* with one configuration of the sending, the last one before the edited   *)
(* field was copied or any one after.  It needs the box to begin a message *)
(* with its header: bodies left over from an earlier message and a header  *)
(* given up after them may make up a configuration that never was.         *)
(***************************************************************************)
EXTENDS CanTransmit, SequenceTheorems, FiniteSetTheorems, TLAPS

Config == [Fields -> Values]
SendingPcs == {"sum", "header", "body"}

-----------------------------------------------------------------------------
(* The inductive invariant *)

SendTypeOK ==
  /\ pc \in SendingPcs \union {"can", "display", "sent", "screen", "erase", "drawn", "prev", "announce"}
  /\ sConfig \in Config /\ seen \subseteq Config /\ edited \subseteq Fields
  /\ peerRx \in [sum : {0, 1}, bodies : Seq(Values), open : BOOLEAN]
  /\ cChecksum \in {0, 1} /\ uiI \in Nat /\ dropped \in Nat
  /\ pc \in {"sum", "body"} => uiI \in Fields

\* While a configuration is sent, all it has been agree in the fields not edited.
Watched ==
  pc \in SendingPcs =>
    sConfig \in seen /\ \A c \in seen : \A f \in Fields \ edited : c[f] = sConfig[f]

OneEdited == \A f, g \in edited : f = g

\* The first n bodies are of one configuration seen.
Whole(bodies, n) == \E c \in seen : \A f \in 1..n : bodies[f] = c[f]

\* The box has no more bodies than were sent since the header, and if it has them all,
\* they are of one configuration.
InStep ==
  pc = "body" /\ peerRx.open =>
    /\ Len(peerRx.bodies) \in 0..(uiI - 1)
    /\ Len(peerRx.bodies) = uiI - 1 /\ OneEdited => Whole(peerRx.bodies, uiI - 1)

SendInv == SendTypeOK /\ Watched /\ InStep

\* The box waits for bodies of an earlier message only after one was given up.
WaitsAfterLoss ==
  peerRx.open =>
    /\ pc # "body" => dropped > 0
    /\ pc = "body" => dropped > 0 \/ Len(peerRx.bodies) = uiI - 1

\* No header is given up while the box still waits for bodies.
HeadersArrive == pc = "header" /\ peerRx.open => dropped' = dropped

-----------------------------------------------------------------------------
(* Operators                                                               *)

\* At most one field of the structure was edited.
LEMMA AtMostOne ==
    ASSUME edited \subseteq Fields, Cardinality(edited) <= 1
    PROVE  OneEdited
<1>1. IsFiniteSet(Fields) /\ IsFiniteSet(edited)
  <2>1. NFields \in Int /\ 1 \in Int
    BY FieldsAssumption
  <2>2. IsFiniteSet(1..NFields)
    BY <2>1, FS_Interval
  <2> QED
    BY <2>2, FS_Subset DEF Fields
<1>2. PICK n \in Nat : n = Cardinality(edited)
  BY <1>1, FS_CardinalityType
<1>3. n <= 1
  BY <1>2, Zenon
<1>4. CASE n = 0
  BY <1>1, <1>2, <1>4, FS_EmptySet DEF OneEdited
<1>5. CASE n = 1
  <2>1. Cardinality(edited) = 1
    BY <1>2, <1>5
  <2>2. \E x : edited = {x}
    BY <1>1, <2>1, FS_Singleton, Zenon
  <2> QED
    BY <2>2 DEF OneEdited
<1> QED
  BY <1>3, <1>4, <1>5

LEMMA XorStays == \A a, b \in {0, 1} : Xor(a, b) \in {0, 1}
BY DEF Xor

\* The body copied next goes with the ones taken so far: if the edited field was
\* copied before, with the configuration they are of, else with the present one.
LEMMA BodyFits ==
    ASSUME SendInv, pc = "body", peerRx.open,
           Len(peerRx.bodies) = uiI - 1, OneEdited
    PROVE  Whole(Append(peerRx.bodies, sConfig[uiI]), uiI)
<1> DEFINE b == peerRx.bodies
           v == sConfig[uiI]
<1>1. uiI \in Fields /\ uiI \in Nat /\ sConfig \in seen
  BY DEF SendInv, SendTypeOK, Watched, SendingPcs
<1>2. b \in Seq(Values) /\ v \in Values /\ Len(b) = uiI - 1
  BY <1>1 DEF SendInv, SendTypeOK, Config
<1>3. /\ \A f \in 1..(uiI - 1) : Append(b, v)[f] = b[f]
      /\ Append(b, v)[uiI] = v
  BY <1>1, <1>2, AppendProperties
<1>4. PICK c \in seen : \A f \in 1..(uiI - 1) : b[f] = c[f]
  BY <1>1 DEF SendInv, InStep, Whole
<1>5. \A e \in seen : \A f \in Fields \ edited : e[f] = sConfig[f]
  BY DEF SendInv, Watched, SendingPcs
<1>6. \A f \in 1..uiI : f \in 1..(uiI - 1) \/ f = uiI
  BY <1>1
<1>7. \A f \in 1..(uiI - 1) : f \in Fields /\ f # uiI
  BY <1>1, FieldsAssumption DEF Fields
<1> HIDE DEF b, v
<1>8. CASE uiI \in edited
  <2>1. \A f \in 1..(uiI - 1) : b[f] = sConfig[f]
    BY <1>4, <1>5, <1>7, <1>8 DEF OneEdited
  <2>2. \A f \in 1..uiI : Append(b, v)[f] = sConfig[f]
    BY <1>3, <1>6, <2>1 DEF v
  <2> QED
    BY <1>1, <2>2 DEF Whole, b, v
<1>9. CASE uiI \notin edited
  <2>1. c[uiI] = v
    BY <1>1, <1>4, <1>5, <1>9 DEF v
  <2>2. \A f \in 1..uiI : Append(b, v)[f] = c[f]
    BY <1>3, <1>4, <1>6, <2>1
  <2> QED
    BY <1>4, <2>2 DEF Whole, b, v
<1> QED
  BY <1>8, <1>9

-----------------------------------------------------------------------------
(* SendInv is kept by every step, as long as HeadersArrive.                *)

\* What the switch interrupt does to the structure.
LEMMA UserEdits ==
    ASSUME SendTypeOK, Switch
    PROVE  /\ UNCHANGED <<pc, cChecksum, uiI, peerRx, peerConfig, dropped>>
           /\ UNCHANGED configVars \/ \E c \in Config : EditTo(c)
<1>1. OneFieldEdits \subseteq Config
  BY DEF OneFieldEdits, Config, SendTypeOK
<1>2. [f \in Fields |-> Default] \in Config
  BY FieldsAssumption DEF Config
<1>3. CASE Rotate
  BY <1>3 DEF Rotate, sendVars, busVars
<1>4. CASE EditValue
  BY <1>1, <1>2, <1>4 DEF EditValue, sendVars, busVars
<1>5. CASE Push
  BY <1>1, <1>5 DEF Push, QuietPush, AnnouncingPush, Act, LeaveSubscreen, ChooseLine,
                    EnterSubscreen, NoSubscreen, sendVars, busVars
<1> QED
  BY <1>3, <1>4, <1>5 DEF Switch

\* An edit adds the new configuration to those seen.
LEMMA EditKeeps ==
    ASSUME SendInv, NEW c \in Config, EditTo(c),
           UNCHANGED <<pc, cChecksum, uiI, peerRx, dropped>>
    PROVE  SendInv'
<1> USE DEF SendInv
<1>1. SendTypeOK'
  BY DEF SendTypeOK, EditTo
<1>2. CASE pc \notin SendingPcs
  BY <1>1, <1>2 DEF Watched, InStep, SendingPcs
<1>3. CASE pc \in SendingPcs
  <2>1. /\ sConfig' = c /\ seen' = seen \union {c}
        /\ edited' = edited \union {f \in Fields : c[f] # sConfig[f]}
    BY <1>3 DEF EditTo, SendingPcs
  <2>2. Watched'
    <3>1. sConfig' \in seen'
      BY <2>1
    <3>2. ASSUME NEW e \in seen', NEW f \in Fields \ edited'
          PROVE  e[f] = c[f]
      <4>1. c[f] = sConfig[f] /\ f \in Fields \ edited
        BY <2>1, <3>2
      <4>2. e \in seen => e[f] = sConfig[f]
        BY <1>3, <4>1 DEF Watched
      <4> QED
        BY <2>1, <4>1, <4>2
    <3> QED
      BY <2>1, <3>1, <3>2 DEF Watched
  <2>3. InStep'
    <3>1. OneEdited' => OneEdited
      BY <2>1 DEF OneEdited
    <3>2. Whole(peerRx.bodies, uiI - 1) => Whole(peerRx.bodies, uiI - 1)'
      BY <2>1 DEF Whole
    <3> QED
      BY <3>1, <3>2 DEF InStep
  <2> QED
    BY <1>1, <2>2, <2>3
<1> QED
  BY <1>2, <1>3

\* Nothing of what SendInv is about changes.
LEMMA AsideKeeps ==
    ASSUME SendInv, UNCHANGED <<pc, cChecksum, uiI, peerRx, configVars, dropped>>
    PROVE  SendInv'
BY DEF SendInv, SendTypeOK, Watched, InStep, OneEdited, Whole, configVars

LEMMA BeginKeeps == SendInv /\ ConfigBegin => SendInv'
<1> SUFFICES ASSUME SendInv, ConfigBegin PROVE SendInv'
  OBVIOUS
<1>1. 1 \in Fields
  BY FieldsAssumption DEF Fields
<1>2. SendTypeOK'
  BY <1>1 DEF SendInv, SendTypeOK, ConfigBegin, SendingPcs, busVars
<1> QED
  BY <1>2 DEF SendInv, ConfigBegin, Watched, InStep, SendingPcs

LEMMA SumKeeps == SendInv /\ ConfigSum => SendInv'
<1> SUFFICES ASSUME SendInv, ConfigSum PROVE SendInv'
  OBVIOUS
<1>1. uiI \in Fields /\ cChecksum' \in {0, 1}
  BY XorStays, XorAssumption DEF SendInv, SendTypeOK, ConfigSum, Config
<1>2. uiI' \in Nat /\ (pc' = "sum" => uiI' \in Fields)
  BY <1>1, FieldsAssumption DEF ConfigSum, Fields
<1>3. SendTypeOK'
  BY <1>1, <1>2 DEF SendInv, SendTypeOK, ConfigSum, SendingPcs, busVars, configVars
<1> QED
  BY <1>3 DEF SendInv, ConfigSum, Watched, InStep, SendingPcs, configVars

LEMMA HeaderKeeps ==
    ASSUME SendInv, ConfigHeader, HeadersArrive
    PROVE  SendInv'
<1>1. 1 \in Fields /\ pc = "header" /\ pc' = "body" /\ uiI' = 1
  BY FieldsAssumption DEF Fields, ConfigHeader
<1>2. UNCHANGED <<sConfig, seen, edited, cChecksum>>
  BY DEF ConfigHeader, configVars
<1>3. CASE Transmitted(PeerHeader(cChecksum))
  <2>1. /\ peerRx' = [sum |-> cChecksum, bodies |-> <<>>, open |-> TRUE]
        /\ dropped' = dropped
    BY <1>3 DEF Transmitted, PeerHeader
  <2>2. SendTypeOK'
    BY <1>1, <1>2, <2>1, EmptySeq DEF SendInv, SendTypeOK, SendingPcs
  <2>3. Watched'
    BY <1>1, <1>2 DEF SendInv, Watched, SendingPcs
  <2>4. peerRx'.bodies = <<>> /\ Len(peerRx'.bodies) = 0
    BY <2>1, EmptySeq
  <2>5. Whole(peerRx.bodies, uiI - 1)'
    BY <1>1, <2>3 DEF Watched, Whole, SendingPcs
  <2> QED
    BY <1>1, <2>2, <2>3, <2>4, <2>5 DEF SendInv, InStep
<1>4. CASE GivenUp
  <2>1. dropped' = dropped + 1 /\ peerRx' = peerRx
    BY <1>4 DEF GivenUp
  <2>2. ~peerRx.open
    BY <1>1, <2>1 DEF HeadersArrive, SendInv, SendTypeOK
  <2>3. SendTypeOK'
    BY <1>1, <1>2, <2>1 DEF SendInv, SendTypeOK, SendingPcs
  <2> QED
    BY <1>1, <1>2, <2>1, <2>2, <2>3 DEF SendInv, Watched, InStep, SendingPcs
<1> QED
  BY <1>3, <1>4 DEF ConfigHeader

\* A body the box takes, the last one included.
LEMMA BodyTaken ==
    ASSUME SendInv, ConfigBody, Transmitted(PeerBody(sConfig[uiI])), peerRx.open
    PROVE  LET bodies == Append(peerRx.bodies, sConfig[uiI])
           IN  /\ bodies \in Seq(Values) /\ Len(bodies) = Len(peerRx.bodies) + 1
               /\ Len(peerRx.bodies) \in 0..(uiI - 1)
               /\ peerRx' = IF Len(bodies) = NFields THEN NoHeader
                            ELSE [peerRx EXCEPT !.bodies = bodies]
               /\ peerConfig' # peerConfig =>
                     peerConfig' = bodies /\ Len(bodies) = NFields
<1>1. pc = "body" /\ sConfig[uiI] \in Values /\ peerRx.bodies \in Seq(Values)
  BY DEF SendInv, SendTypeOK, ConfigBody, Config
<1>2. Len(peerRx.bodies) \in 0..(uiI - 1)
  BY <1>1 DEF SendInv, InStep
<1> QED
  BY <1>1, <1>2, AppendProperties DEF Transmitted, PeerBody

LEMMA BodyKeeps == SendInv /\ ConfigBody => SendInv'
<1> SUFFICES ASSUME SendInv, ConfigBody PROVE SendInv'
  OBVIOUS
<1> DEFINE bodies == Append(peerRx.bodies, sConfig[uiI])
<1>1. pc = "body" /\ uiI \in Fields /\ uiI' = uiI + 1
      /\ pc' = IF uiI = NFields THEN "sent" ELSE "body"
  BY DEF SendInv, SendTypeOK, ConfigBody
<1>2. UNCHANGED <<sConfig, seen, edited, cChecksum>>
  BY DEF ConfigBody, configVars
<1>3. uiI' \in Nat /\ (pc' = "body" => uiI' \in Fields) /\ uiI' - 1 = uiI
  BY <1>1, FieldsAssumption DEF Fields
<1>4. Watched'
  BY <1>1, <1>2 DEF SendInv, Watched, SendingPcs
<1>5. ASSUME peerRx' \in [sum : {0, 1}, bodies : Seq(Values), open : BOOLEAN],
             dropped' \in Nat
      PROVE  SendTypeOK'
  BY <1>1, <1>2, <1>3, <1>5 DEF SendInv, SendTypeOK, SendingPcs
<1>6. CASE GivenUp
  <2>1. dropped' \in Nat /\ peerRx' = peerRx
    BY <1>6 DEF GivenUp, SendInv, SendTypeOK
  <2>2. SendTypeOK'
    BY <1>5, <2>1 DEF SendInv, SendTypeOK
  <2>3. ASSUME peerRx.open
        PROVE  Len(peerRx.bodies) \in 0..uiI /\ Len(peerRx.bodies) # uiI
    BY <1>1, <1>3, <2>3 DEF SendInv, InStep, Fields
  <2> QED
    BY <1>3, <1>4, <2>1, <2>2, <2>3 DEF SendInv, InStep
<1>7. CASE Transmitted(PeerBody(sConfig[uiI])) /\ ~peerRx.open
  <2>1. peerRx' = NoHeader /\ dropped' = dropped
    BY <1>7 DEF Transmitted, PeerBody
  <2>2. SendTypeOK'
    BY <1>5, <2>1, EmptySeq DEF SendInv, SendTypeOK, NoHeader
  <2> QED
    BY <1>4, <2>1, <2>2 DEF SendInv, InStep, NoHeader
<1>8. CASE Transmitted(PeerBody(sConfig[uiI])) /\ peerRx.open
  <2>1. /\ bodies \in Seq(Values) /\ Len(bodies) = Len(peerRx.bodies) + 1
        /\ Len(peerRx.bodies) \in 0..(uiI - 1)
        /\ peerRx' = IF Len(bodies) = NFields THEN NoHeader
                     ELSE [peerRx EXCEPT !.bodies = bodies]
    BY <1>8, BodyTaken
  <2>2. dropped' = dropped
    BY <1>8 DEF Transmitted
  <2>3. Len(peerRx.bodies) = uiI - 1 /\ OneEdited => Whole(bodies, uiI)
    BY <1>1, <1>8, BodyFits
  <2> HIDE DEF bodies
  <2>4. CASE Len(bodies) = NFields
    <3>1. peerRx' = NoHeader
      BY <2>1, <2>4
    <3>2. SendTypeOK'
      BY <1>5, <2>2, <3>1, EmptySeq DEF SendInv, SendTypeOK, NoHeader
    <3> QED
      BY <1>4, <3>1, <3>2 DEF SendInv, InStep, NoHeader
  <2>5. CASE Len(bodies) # NFields
    <3>1. peerRx' = [peerRx EXCEPT !.bodies = bodies]
      BY <2>1, <2>5
    <3>2. peerRx'.bodies = bodies
      BY <3>1 DEF SendInv, SendTypeOK
    <3>3. SendTypeOK'
      BY <1>5, <2>1, <2>2, <3>1 DEF SendInv, SendTypeOK
    <3>4. Len(bodies) \in 0..uiI
          /\ (Len(bodies) = uiI => Len(peerRx.bodies) = uiI - 1)
      BY <1>1, <2>1 DEF Fields
    <3>5. ASSUME Len(bodies) = uiI, OneEdited'
          PROVE  \E c \in seen' : \A f \in 1..uiI : bodies[f] = c[f]
      <4>1. OneEdited
        BY <1>2, <3>5 DEF OneEdited
      <4> QED
        BY <1>2, <2>3, <3>4, <3>5, <4>1 DEF Whole
    <3>6. InStep'
      <4>1. /\ Len(peerRx'.bodies) \in 0..(uiI' - 1)
            /\ Len(peerRx'.bodies) = uiI' - 1 /\ OneEdited' =>
                  \E c \in seen' : \A f \in 1..(uiI' - 1) : peerRx'.bodies[f] = c[f]
        BY <1>3, <3>2, <3>4, <3>5
      <4> QED
        BY <4>1 DEF InStep, Whole
    <3> QED
      BY <1>4, <3>3, <3>6 DEF SendInv
  <2> QED
    BY <2>4, <2>5
<1> QED
  BY <1>6, <1>7, <1>8 DEF ConfigBody

\* The steps that leave the transmission of the configuration alone.
Apart ==
  \/ CanQuiet \/ ConfigSent \/ ScreenBegin \/ ScreenSend \/ ScreenErase \/ vDisplay_State

LEMMA ApartSteps ==
    ASSUME SendTypeOK, Apart
    PROVE  /\ pc' \in {"can", "display", "screen", "erase", "drawn", "prev", "announce"}
           /\ cChecksum' \in {0, 1} /\ uiI' \in Nat
           /\ UNCHANGED <<peerRx, peerConfig, sConfig>>
           /\ dropped' \in Nat /\ (dropped > 0 => dropped' > 0)
           /\ UNCHANGED <<seen, edited>> \/ (seen' = {} /\ edited' = {})
<1>1. CASE ScreenSend
  BY <1>1 DEF ScreenSend, SendTypeOK, Transmitted, PeerScreen, GivenUp, sendVars, configVars
<1>2. CASE CanQuiet \/ ConfigSent \/ ScreenBegin \/ ScreenErase
  BY <1>2 DEF CanQuiet, ConfigSent, ScreenBegin, ScreenErase, SendTypeOK, busVars, configVars
<1>3. CASE vDisplay_State
  BY <1>3 DEF vDisplay_State, DisplayQuiet, DisplayDraw, DisplayOld, DisplayPrev,
              DisplayAnnounce, SendTypeOK, sendVars, busVars, configVars
<1> QED
  BY <1>1, <1>2, <1>3 DEF Apart

LEMMA SendInvStays == SendInv /\ [Next]_vars /\ [HeadersArrive]_vars => SendInv'
<1> SUFFICES ASSUME SendInv, [Next]_vars, [HeadersArrive]_vars PROVE SendInv'
  OBVIOUS
<1>1. CASE Apart
  BY <1>1, ApartSteps
     DEF SendInv, SendTypeOK, Watched, InStep, SendingPcs
<1>2. CASE ConfigBegin \/ ConfigSum \/ ConfigBody
  BY <1>2, BeginKeeps, SumKeeps, BodyKeeps
<1>3. CASE ConfigHeader
  <2>1. pc' # pc
    BY <1>3 DEF ConfigHeader
  <2>2. HeadersArrive
    BY <2>1 DEF vars
  <2> QED
    BY <1>3, <2>2, HeaderKeeps
<1>4. CASE CfgChanged \/ Timer5 \/ UNCHANGED vars
  BY <1>4, AsideKeeps DEF CfgChanged, Timer5, vars, sendVars, busVars
<1>5. CASE Switch
  <2>1. /\ UNCHANGED <<pc, cChecksum, uiI, peerRx, dropped>>
        /\ UNCHANGED configVars \/ \E c \in Config : EditTo(c)
    BY <1>5, UserEdits DEF SendInv
  <2> QED
    BY <2>1, EditKeeps, AsideKeeps
<1> QED
  BY <1>1, <1>2, <1>3, <1>4, <1>5 DEF Next, vCan_State, Apart

LEMMA SendInvInit == Init => SendInv
<1> SUFFICES ASSUME Init PROVE SendInv
  OBVIOUS
<1>1. sConfig \in Config /\ NoHeader.bodies \in Seq(Values)
  BY FieldsAssumption, EmptySeq DEF Init, Config, NoHeader
<1> QED
  BY <1>1 DEF Init, SendInv, SendTypeOK, Watched, InStep, SendingPcs, NoHeader

-----------------------------------------------------------------------------
(* What the box accepts                                                    *)

\* A configuration it takes anew is one of those seen, when at most one field was edited.
LEMMA AcceptedWasSeen ==
    ASSUME SendInv, [Next]_vars, peerConfig' # peerConfig, Cardinality(edited) <= 1
    PROVE  peerConfig' \in seen
<1>1. ConfigBody /\ Transmitted(PeerBody(sConfig[uiI])) /\ peerRx.open
  <2>1. CASE Apart
    BY <2>1, ApartSteps DEF SendInv
  <2>2. CASE ConfigBegin \/ ConfigSum \/ CfgChanged \/ Timer5 \/ UNCHANGED vars
    BY <2>2 DEF ConfigBegin, ConfigSum, CfgChanged, Timer5, vars, busVars
  <2>3. CASE ConfigHeader
    BY <2>3 DEF ConfigHeader, Transmitted, PeerHeader, GivenUp
  <2>4. CASE Switch
    BY <2>4, UserEdits DEF SendInv
  <2>5. CASE ConfigBody
    BY <2>5 DEF ConfigBody, Transmitted, PeerBody, GivenUp
  <2> QED
    BY <2>1, <2>2, <2>3, <2>4, <2>5 DEF Next, vCan_State, Apart
<1> DEFINE bodies == Append(peerRx.bodies, sConfig[uiI])
<1>2. /\ bodies \in Seq(Values) /\ Len(bodies) = Len(peerRx.bodies) + 1
      /\ Len(peerRx.bodies) \in 0..(uiI - 1)
      /\ peerConfig' = bodies /\ Len(bodies) = NFields
  BY <1>1, BodyTaken
<1>3. pc = "body" /\ uiI \in Fields /\ OneEdited /\ seen \subseteq Config
  BY <1>1, AtMostOne DEF SendInv, SendTypeOK, ConfigBody
<1>4. uiI = NFields /\ Len(peerRx.bodies) = uiI - 1
  BY <1>2, <1>3, FieldsAssumption DEF Fields
<1>5. Whole(bodies, NFields)
  BY <1>1, <1>3, <1>4, BodyFits
<1> HIDE DEF bodies
<1>6. PICK c \in seen : \A f \in Fields : bodies[f] = c[f]
  BY <1>5 DEF Whole, Fields
<1>7. bodies \in [Fields -> Values]
  BY <1>2, LenProperties DEF Fields
<1>8. bodies = c
  BY <1>3, <1>6, <1>7 DEF Config
<1> QED
  BY <1>2, <1>6, <1>8

\* However many frames are lost and fields there are: if no header is given up while
\* the sensor box still waits for the bodies of an earlier message, what it takes was
\* the configuration at some moment of the sending, unless two fields were edited.
THEOREM ConfigTakenWhole == Spec /\ [][HeadersArrive]_vars => NoTornConfig
<1>1. SendInv /\ [Next]_vars =>
        [peerConfig' # peerConfig /\ Cardinality(edited) <= 1 => peerConfig' \in seen]_vars
  BY AcceptedWasSeen
<1> QED
  BY <1>1, SendInvInit, SendInvStays, PTL DEF Spec, NoTornConfig

-----------------------------------------------------------------------------
(* One frame lost                                                          *)

\* Under a bound of one the next header after a loss does arrive.
LEMMA NoHeaderLost ==
    ASSUME MaxDropped \in {0, 1}, SendInv, WaitsAfterLoss, [Next]_vars
    PROVE  HeadersArrive
<1> SUFFICES ASSUME pc = "header", peerRx.open PROVE dropped' = dropped
  BY DEF HeadersArrive
<1>1. dropped \in Nat /\ dropped > 0
  BY DEF WaitsAfterLoss, SendInv, SendTypeOK
<1>2. ~(dropped < MaxDropped)
  BY <1>1
<1>3. ~Apart /\ ~ConfigBegin /\ ~ConfigSum /\ ~ConfigBody
  BY DEF Apart, CanQuiet, ConfigSent, ScreenBegin, ScreenSend, ScreenErase, vDisplay_State,
         DisplayQuiet, DisplayDraw, DisplayOld, DisplayPrev, DisplayAnnounce,
         ConfigBegin, ConfigSum, ConfigBody
<1>4. CASE ConfigHeader
  BY <1>2, <1>4 DEF ConfigHeader, Transmitted, GivenUp
<1>5. CASE CfgChanged \/ Timer5 \/ UNCHANGED vars
  BY <1>5 DEF CfgChanged, Timer5, vars, busVars
<1>6. CASE Switch
  BY <1>6, UserEdits DEF SendInv
<1> QED
  BY <1>3, <1>4, <1>5, <1>6 DEF Next, vCan_State, Apart

\* A body opens the gap between what was sent and what the box has only if it is given up.
LEMMA BodyWaits == SendInv /\ WaitsAfterLoss /\ ConfigBody => WaitsAfterLoss'
<1> SUFFICES ASSUME SendInv, WaitsAfterLoss, ConfigBody, peerRx'.open
             PROVE  /\ pc' # "body" => dropped' > 0
                    /\ pc' = "body" => dropped' > 0 \/ Len(peerRx'.bodies) = uiI' - 1
  BY DEF WaitsAfterLoss
<1>1. /\ pc = "body" /\ uiI \in Fields /\ uiI \in Int /\ uiI' = uiI + 1
      /\ pc' = IF uiI = NFields THEN "sent" ELSE "body"
  BY DEF SendInv, SendTypeOK, ConfigBody, Fields
<1>2. dropped \in Nat
  BY DEF SendInv, SendTypeOK
<1>3. CASE GivenUp
  BY <1>2, <1>3 DEF GivenUp
<1>4. CASE Transmitted(PeerBody(sConfig[uiI])) /\ ~peerRx.open
  BY <1>4 DEF Transmitted, PeerBody, NoHeader
<1>5. CASE Transmitted(PeerBody(sConfig[uiI])) /\ peerRx.open
  <2> DEFINE bodies == Append(peerRx.bodies, sConfig[uiI])
  <2>1. /\ Len(bodies) = Len(peerRx.bodies) + 1
        /\ peerRx' = IF Len(bodies) = NFields THEN NoHeader
                     ELSE [peerRx EXCEPT !.bodies = bodies]
    BY <1>5, BodyTaken
  <2>2. dropped' = dropped
    BY <1>5 DEF Transmitted
  <2>3. dropped > 0 \/ Len(peerRx.bodies) = uiI - 1
    BY <1>1, <1>5 DEF WaitsAfterLoss
  <2> HIDE DEF bodies
  <2>4. Len(bodies) # NFields /\ peerRx' = [peerRx EXCEPT !.bodies = bodies]
    BY <2>1 DEF NoHeader
  <2>5. peerRx'.bodies = bodies
    BY <2>4 DEF SendInv, SendTypeOK
  <2>6. Len(peerRx.bodies) = uiI - 1 => Len(bodies) = uiI
    BY <1>1, <2>1
  <2> QED
    BY <1>1, <2>2, <2>3, <2>4, <2>5, <2>6
<1> QED
  BY <1>3, <1>4, <1>5 DEF ConfigBody

LEMMA WaitsAfterLossStays == SendInv /\ WaitsAfterLoss /\ [Next]_vars => WaitsAfterLoss'
<1> SUFFICES ASSUME SendInv, WaitsAfterLoss, [Next]_vars PROVE WaitsAfterLoss'
  OBVIOUS
<1>1. CASE Apart
  <2>1. pc # "body"
    BY <1>1 DEF Apart, CanQuiet, ConfigSent, ScreenBegin, ScreenSend, ScreenErase,
                vDisplay_State, DisplayQuiet, DisplayDraw, DisplayOld, DisplayPrev,
                DisplayAnnounce
  <2> QED
    BY <1>1, <2>1, ApartSteps DEF SendInv, WaitsAfterLoss
<1>2. CASE ConfigBegin \/ ConfigSum
  BY <1>2 DEF ConfigBegin, ConfigSum, WaitsAfterLoss, busVars
<1>3. CASE ConfigHeader
  <2>1. pc = "header" /\ pc' = "body" /\ uiI' = 1 /\ dropped \in Nat
    BY <1>3 DEF ConfigHeader, SendInv, SendTypeOK
  <2>2. CASE Transmitted(PeerHeader(cChecksum))
    <3>1. peerRx'.bodies = <<>>
      BY <2>2 DEF Transmitted, PeerHeader
    <3>2. Len(peerRx'.bodies) = uiI' - 1
      BY <2>1, <3>1, EmptySeq
    <3> QED
      BY <2>1, <3>2 DEF WaitsAfterLoss
  <2>3. CASE GivenUp
    BY <2>1, <2>3 DEF GivenUp, WaitsAfterLoss
  <2> QED
    BY <1>3, <2>2, <2>3 DEF ConfigHeader
<1>4. CASE ConfigBody
  BY <1>4, BodyWaits
<1>5. CASE CfgChanged \/ Timer5 \/ UNCHANGED vars
  BY <1>5 DEF CfgChanged, Timer5, vars, sendVars, busVars, WaitsAfterLoss
<1>6. CASE Switch
  BY <1>6, UserEdits DEF SendInv, WaitsAfterLoss
<1> QED
  BY <1>1, <1>2, <1>3, <1>4, <1>5, <1>6 DEF Next, vCan_State, Apart

\* If vCanTransmit gives up one frame at most, no further hypothesis is needed: a box
\* that waits has missed a body already, and the next header brings it back in step.
THEOREM ConfigTakenWholeOneLoss ==
    ASSUME MaxDropped \in {0, 1}
    PROVE  Spec => NoTornConfig
<1>1. Init => SendInv /\ WaitsAfterLoss
  BY SendInvInit DEF WaitsAfterLoss, Init, NoHeader
<1>2. SendInv /\ WaitsAfterLoss /\ [Next]_vars => (SendInv /\ WaitsAfterLoss)'
  BY NoHeaderLost, SendInvStays, WaitsAfterLossStays
<1>3. SendInv /\ [Next]_vars =>
        [peerConfig' # peerConfig /\ Cardinality(edited) <= 1 => peerConfig' \in seen]_vars
  BY AcceptedWasSeen
<1> QED
  BY <1>1, <1>2, <1>3, PTL DEF Spec, NoTornConfig
=============================================================================
