----------------------------- MODULE CanTransmit -----------------------------
(***************************************************************************)
(* Transmission to the sensor box over CAN (can.c): the configuration,     *)
(* every fifteen seconds and after a change, and the screen shown.         *)
(*                                                                         *)
(* The main loop computes the checksum of the live sConfig and then copies *)
(* it frame by frame; the switch interrupt may edit sConfig, the screen    *)
(* and cCanSendScreen between any two of these steps.  Each field of the   *)
(* configuration the interrupt edits lies within one eight-byte frame, so  *)
(* a frame is a field.  Of a value only its contribution to the XOR        *)
(* checksum matters beside its identity.                                   *)
(***************************************************************************)
EXTENDS Integers, Sequences, FiniteSets

CONSTANTS
  NFields,    \* body frames of the configuration message, one field in each
  Values,     \* values of a field
  Default,    \* the value a long push resets the frequencies to
  XorOf,      \* value -> XOR of its bytes
  NumScreens, \* screens are 0 .. NumScreens (NUM_SCREENS); 0 is the intro
  First,      \* the screen after the start (gyro)
  SubScreens, \* the screens of which a push opens a subscreen
  Settings,   \* the one of them with the settings
  ActScreens, \* the screens on which a push acts at once (system, show, gyro)
  MaxUser,    \* bound: actions of the user
  MaxDropped  \* bound: frames vCanTransmit gives up on

ASSUME FieldsAssumption  == NFields \in Nat \ {0} /\ Default \in Values
ASSUME XorAssumption     == XorOf \in [Values -> {0, 1}]
ASSUME ScreensAssumption == /\ NumScreens \in Nat \ {0}
                            /\ SubScreens \subseteq 0..NumScreens /\ ActScreens \subseteq 0..NumScreens
                            /\ SubScreens \intersect ActScreens = {}
                            /\ First \in 1..NumScreens /\ Settings \in SubScreens \ {0}
ASSUME BoundsAssumption  == MaxUser \in Nat /\ MaxDropped \in Nat

VARIABLES
  pc,          \* where the main loop is within vCan_State and vDisplay_State
  uiCanState,
  sConfig,     \* the live configuration, field by field
  cChecksum, uiI,  \* of vCanSendBuffer
  due,         \* ulLife - ulConfigSent > 15000
  cCfgChanged,
  cCanSendScreen, ucBytes0,
  uiDisplayScreen, uiDisplayPrev, uiDisplayOld, uiDisplayLock,
  uiDispFunc, uiDisplaySubscreen,
  cEdit,       \* the setting edited: "none", "frequency" (cEditFreq), "value" (the other three)
  peerRx,      \* what the sensor box has of a configuration
  peerConfig,  \* the last configuration it accepted
  peerView,    \* the last screen and function it was told
  seen, edited,\* configurations and edited fields since the checksum began (history)
  untold,      \* nothing will tell the box of the user's last step, or may not (history)
  user, dropped

sendVars    == <<uiCanState, cChecksum, uiI, cCfgChanged, due, ucBytes0>>
busVars     == <<dropped, peerRx, peerConfig, peerView>>
displayVars == <<uiDisplayPrev, uiDisplayOld, uiDisplayLock>>
panelVars   == <<uiDisplayScreen, uiDispFunc, uiDisplaySubscreen, cEdit, user>>
configVars  == <<sConfig, seen, edited>>
callVars    == <<cCanSendScreen, untold>>
vars == <<pc, sendVars, busVars, displayVars, panelVars, configVars, callVars>>

Fields == 1..NFields
Screens == 0..NumScreens
Funcs == {"FUNC_SCREEN", "FUNC_SUBSCREEN"}

Xor(a, b) == (a + b) % 2
Parity(c) == Cardinality({f \in DOMAIN c : XorOf[c[f]] = 1}) % 2

-----------------------------------------------------------------------------
(* The sensor box, as the protocol expects it: it collects the bodies behind   *)
(* a header and takes the configuration whose checksum is right.               *)

NoHeader == [sum |-> 0, bodies |-> <<>>, open |-> FALSE]

PeerHeader(sum) ==
  peerRx' = [sum |-> sum, bodies |-> <<>>, open |-> TRUE] /\ UNCHANGED <<peerConfig, peerView>>

PeerBody(v) ==
  LET bodies == Append(peerRx.bodies, v)
      full   == peerRx.open /\ Len(bodies) = NFields
  IN  /\ peerRx' = IF full \/ ~peerRx.open THEN NoHeader ELSE [peerRx EXCEPT !.bodies = bodies]
      /\ peerConfig' = IF full /\ Parity(bodies) = peerRx.sum THEN bodies ELSE peerConfig
      /\ UNCHANGED peerView

PeerScreen(screen, func) == peerView' = <<screen, func>> /\ UNCHANGED <<peerRx, peerConfig>>

-----------------------------------------------------------------------------
(* vCanTransmit *)

\* The frame goes out ...
Transmitted(peer) == peer /\ UNCHANGED dropped

\* ... or is given up: the channel stays busy, or the wait for a buffer was too long.
\* (uiCanUp, which tells the two apart, is read nowhere.)
GivenUp ==
  /\ dropped < MaxDropped
  /\ dropped' = dropped + 1
  /\ UNCHANGED <<peerRx, peerConfig, peerView>>

-----------------------------------------------------------------------------
(* vCan_State *)

\* A state with nothing to send: 0 -> 1 -> 2 -> 3 -> 4 -> 5 -> 1.
CanQuiet ==
  /\ pc = "can"
  /\ uiCanState = 1 => ~due /\ cCfgChanged = 0
  /\ uiCanState = 5 => cCanSendScreen = 0
  /\ uiCanState' = IF uiCanState = 5 THEN 1 ELSE uiCanState + 1
  /\ pc' = "display"
  /\ UNCHANGED <<cChecksum, uiI, cCfgChanged, due, ucBytes0, busVars, displayVars, panelVars, configVars, callVars>>

\* Mutant: sent after changes only.
ConfigBeginChanged ==
  /\ pc = "can" /\ uiCanState = 1
  /\ cCfgChanged = 1
  /\ cChecksum' = 0 /\ uiI' = 1
  /\ seen' = {sConfig} /\ edited' = {}
  /\ pc' = "sum"
  /\ UNCHANGED <<uiCanState, cCfgChanged, due, ucBytes0, busVars, displayVars, panelVars, sConfig, callVars>>

\* vCanSendBuffer of sConfig: the checksum over the live structure ...
ConfigBegin ==
  /\ pc = "can" /\ uiCanState = 1
  /\ due \/ cCfgChanged = 1
  /\ cChecksum' = 0 /\ uiI' = 1
  /\ seen' = {sConfig} /\ edited' = {}
  /\ pc' = "sum"
  /\ UNCHANGED <<uiCanState, cCfgChanged, due, ucBytes0, busVars, displayVars, panelVars, sConfig, callVars>>

ConfigSum ==
  /\ pc = "sum"
  /\ cChecksum' = Xor(cChecksum, XorOf[sConfig[uiI]])
  /\ uiI' = uiI + 1
  /\ pc' = IF uiI = NFields THEN "header" ELSE "sum"
  /\ UNCHANGED <<uiCanState, cCfgChanged, due, ucBytes0, busVars, displayVars, panelVars, configVars, callVars>>

\* ... the header ...
ConfigHeader ==
  /\ pc = "header"
  /\ Transmitted(PeerHeader(cChecksum)) \/ GivenUp
  /\ uiI' = 1
  /\ pc' = "body"
  /\ UNCHANGED <<uiCanState, cChecksum, cCfgChanged, due, ucBytes0, displayVars, panelVars, configVars, callVars>>

\* Mutant: every body is the first.
ConfigBodyFirst ==
  /\ pc = "body"
  /\ Transmitted(PeerBody(sConfig[1])) \/ GivenUp
  /\ uiI' = uiI + 1
  /\ pc' = IF uiI = NFields THEN "sent" ELSE "body"
  /\ UNCHANGED <<uiCanState, cChecksum, cCfgChanged, due, ucBytes0, displayVars, panelVars, configVars, callVars>>

\* ... and the bodies, copied one by one.
ConfigBody ==
  /\ pc = "body"
  /\ Transmitted(PeerBody(sConfig[uiI])) \/ GivenUp
  /\ uiI' = uiI + 1
  /\ pc' = IF uiI = NFields THEN "sent" ELSE "body"
  /\ UNCHANGED <<uiCanState, cChecksum, cCfgChanged, due, ucBytes0, displayVars, panelVars, configVars, callVars>>

ConfigSent ==
  /\ pc = "sent"
  /\ due' = FALSE /\ cCfgChanged' = 0 /\ uiCanState' = 2
  /\ cChecksum' = 0 /\ uiI' = 1  \* the locals are gone
  /\ seen' = {} /\ edited' = {}
  /\ pc' = "display"
  /\ UNCHANGED <<ucBytes0, busVars, displayVars, panelVars, sConfig, callVars>>

\* Mutant: the screen before is announced.
ScreenBeginOld ==
  /\ pc = "can" /\ uiCanState = 5
  /\ cCanSendScreen # 0
  /\ ucBytes0' = uiDisplayOld
  /\ pc' = "screen"
  /\ UNCHANGED <<uiCanState, cChecksum, uiI, cCfgChanged, due, busVars, displayVars, panelVars, configVars, callVars>>

\* The screen number: taken ...
ScreenBegin ==
  /\ pc = "can" /\ uiCanState = 5
  /\ cCanSendScreen # 0
  /\ ucBytes0' = cCanSendScreen
  /\ pc' = "screen"
  /\ UNCHANGED <<uiCanState, cChecksum, uiI, cCfgChanged, due, busVars, displayVars, panelVars, configVars, callVars>>

\* ... sent with the function of the display ...
ScreenSend ==
  /\ pc = "screen"
  /\ \/ Transmitted(PeerScreen(ucBytes0, uiDispFunc)) /\ UNCHANGED untold
     \/ GivenUp /\ untold' = TRUE
  /\ pc' = "erase"
  /\ UNCHANGED <<sendVars, displayVars, panelVars, configVars, cCanSendScreen>>

\* ... and taken down, whatever it is by now.
ScreenErase ==
  /\ pc = "erase"
  /\ cCanSendScreen' = 0
  /\ ucBytes0' = 0 /\ uiCanState' = 1
  /\ pc' = "display"
  /\ UNCHANGED <<cChecksum, uiI, cCfgChanged, due, busVars, displayVars, panelVars, configVars, untold>>

-----------------------------------------------------------------------------
(* vDisplay_State, state 40: notice that the screen changed *)

DisplayQuiet ==
  /\ pc = "display"
  /\ uiDisplayScreen = uiDisplayPrev
  /\ pc' = "can"
  /\ UNCHANGED <<sendVars, busVars, displayVars, panelVars, configVars, callVars>>

DisplayDraw ==
  /\ pc = "display"
  /\ uiDisplayScreen # uiDisplayPrev
  /\ uiDisplayLock' = 1
  /\ pc' = "drawn"
  /\ UNCHANGED <<sendVars, busVars, uiDisplayPrev, uiDisplayOld, panelVars, configVars, callVars>>

DisplayOld ==
  /\ pc = "drawn"
  /\ uiDisplayOld' = uiDisplayPrev
  /\ pc' = "prev"
  /\ UNCHANGED <<sendVars, busVars, uiDisplayPrev, uiDisplayLock, panelVars, configVars, callVars>>

DisplayPrev ==
  /\ pc = "prev"
  /\ uiDisplayPrev' = uiDisplayScreen
  /\ pc' = "announce"
  /\ UNCHANGED <<sendVars, busVars, uiDisplayOld, uiDisplayLock, panelVars, configVars, callVars>>

DisplayAnnounce ==
  /\ pc = "announce"
  /\ cCanSendScreen' = IF uiDispFunc = "FUNC_SCREEN" THEN uiDisplayScreen ELSE cCanSendScreen
  /\ uiDisplayLock' = 0
  /\ pc' = "can"
  /\ UNCHANGED <<sendVars, busVars, uiDisplayPrev, uiDisplayOld, panelVars, configVars, untold>>

-----------------------------------------------------------------------------
(* The rest of the main loop, the timer and the switch interrupt *)

\* vNvram_State has stored a change, or vMisc_State took one from an SMS.
CfgChanged ==
  /\ pc = "can" /\ cCfgChanged = 0
  /\ cCfgChanged' = 1
  /\ UNCHANGED <<pc, uiCanState, cChecksum, uiI, due, ucBytes0, busVars, displayVars, panelVars, configVars, callVars>>

\* Fifteen seconds have passed.
Timer5 ==
  /\ ~due
  /\ due' = TRUE
  /\ UNCHANGED <<pc, uiCanState, cChecksum, uiI, cCfgChanged, ucBytes0, busVars, displayVars, panelVars, configVars, callVars>>

UserActs == user < MaxUser /\ user' = user + 1

\* sConfig becomes c; the history follows while a configuration is being sent.
EditTo(c) ==
  /\ sConfig' = c
  /\ IF pc \in {"sum", "header", "body"}
       THEN /\ seen' = seen \union {c}
            /\ edited' = edited \union {f \in Fields : c[f] # sConfig[f]}
       ELSE UNCHANGED <<seen, edited>>

OneFieldEdits == {[sConfig EXCEPT ![f] = v] : f \in Fields, v \in Values}

\* The display has noticed the last change, and no announcement is on its way out.
Settled ==
  uiDisplayScreen = uiDisplayPrev /\ pc \notin {"screen", "erase", "drawn", "prev", "announce"}

\* The box is told of the user's step by the push, if the screen it announces is not 0,
\* the number that stands for nothing to send, or else by the display, which notices a
\* new screen and announces it outside of subscreens.
ToldBy(push) ==
  /\ Settled
  /\ \/ push /\ uiDisplayScreen' = cCanSendScreen' /\ cCanSendScreen' # 0
     \/ uiDisplayScreen' # uiDisplayPrev /\ uiDispFunc' = "FUNC_SCREEN"

\* The knob on a screen: the next or the previous one, unless the display is locked.
Rotate ==
  /\ UserActs
  /\ uiDispFunc = "FUNC_SCREEN" /\ uiDisplayLock = 0
  /\ uiDisplayScreen' \in {(uiDisplayScreen + 1) % (NumScreens + 1), (uiDisplayScreen + NumScreens) % (NumScreens + 1)}
  /\ UNCHANGED <<pc, sendVars, busVars, displayVars, uiDispFunc, uiDisplaySubscreen, cEdit, configVars, cCanSendScreen>>
  /\ untold' = ~ToldBy(FALSE)

Editing == cEdit # "none" /\ uiDispFunc = "FUNC_SUBSCREEN"

\* A frequency edited by the knob, or both set back by a long push; the other values
\* are edited in appData until the push that ends the edit.
EditValue ==
  /\ UserActs
  /\ Editing /\ cEdit = "frequency"
  /\ \/ uiDisplayLock = 0 /\ \E c \in OneFieldEdits : EditTo(c)
     \/ EditTo([f \in Fields |-> Default])
  /\ UNCHANGED <<pc, sendVars, busVars, displayVars, uiDisplayScreen, uiDispFunc, uiDisplaySubscreen, cEdit, callVars>>

\* A push that announces nothing: one that ends an edit, or one too early after another
\* to count.  What is left of it is the screen, if a turn was short before, set back.
QuietPush(screen) ==
  /\ \/ /\ Editing
        /\ cEdit' = "none"
        /\ IF cEdit = "value" THEN \E c \in OneFieldEdits : EditTo(c) ELSE UNCHANGED configVars
     \/ user > 0 /\ UNCHANGED <<cEdit, configVars>>
  /\ uiDisplayScreen' = screen
  /\ UNCHANGED <<uiDispFunc, uiDisplaySubscreen, cCanSendScreen>>
  /\ untold' = IF screen = uiDisplayScreen THEN untold ELSE ~ToldBy(FALSE)

\* A push that announces the screen first: it acts on the screen, ...
Act(screen) ==
  /\ screen \in ActScreens
  /\ \E c \in OneFieldEdits : EditTo(c)
  /\ uiDisplayScreen' = screen
  /\ UNCHANGED <<uiDispFunc, uiDisplaySubscreen, cEdit>>
\* ... leaves a subscreen, the settings on the line "Done", ...
LeaveSubscreen(screen) ==
  /\ screen \notin ActScreens /\ uiDispFunc = "FUNC_SUBSCREEN"
  /\ uiDispFunc' = "FUNC_SCREEN"
  /\ uiDisplayScreen' = IF uiDisplaySubscreen = 0 THEN 1 ELSE screen
  /\ UNCHANGED <<uiDisplaySubscreen, cEdit, configVars>>
\* ... changes a setting or begins to edit one, ...
ChooseLine(screen) ==
  /\ screen \notin ActScreens /\ uiDispFunc = "FUNC_SUBSCREEN" /\ uiDisplaySubscreen = Settings
  /\ \/ \E c \in OneFieldEdits : EditTo(c) /\ UNCHANGED cEdit
     \/ cEdit' \in {"frequency", "value"} /\ UNCHANGED configVars
  /\ uiDisplayScreen' = screen
  /\ UNCHANGED <<uiDispFunc, uiDisplaySubscreen>>
\* ... enters a subscreen, or finds none (or no altitude to show in it).
EnterSubscreen(screen) ==
  /\ uiDispFunc = "FUNC_SCREEN" /\ screen \in SubScreens
  /\ uiDispFunc' = "FUNC_SUBSCREEN" /\ uiDisplaySubscreen' = screen
  /\ uiDisplayScreen' = screen
  /\ UNCHANGED <<cEdit, configVars>>
NoSubscreen(screen) ==
  /\ uiDispFunc = "FUNC_SCREEN" /\ screen \notin ActScreens \union {0, Settings}
  /\ uiDisplayScreen' = screen
  /\ UNCHANGED <<uiDispFunc, uiDisplaySubscreen, cEdit, configVars>>

AnnouncingPush(screen) ==
  /\ ~Editing
  /\ cCanSendScreen' = screen
  /\ \/ Act(screen) \/ LeaveSubscreen(screen) \/ ChooseLine(screen)
     \/ EnterSubscreen(screen) \/ NoSubscreen(screen)
  /\ untold' = ~ToldBy(TRUE)

\* A push, right after a turn first back to the screen before.
Push ==
  /\ UserActs
  /\ \E screen \in {uiDisplayScreen, uiDisplayOld} : QuietPush(screen) \/ AnnouncingPush(screen)
  /\ UNCHANGED <<pc, sendVars, busVars, displayVars>>

-----------------------------------------------------------------------------
Init ==
  /\ pc = "can" /\ uiCanState = 0
  /\ sConfig = [f \in Fields |-> Default]
  /\ cChecksum = 0 /\ uiI = 1 /\ due = FALSE /\ cCfgChanged = 0
  /\ cCanSendScreen = 0 /\ ucBytes0 = 0
  /\ uiDisplayScreen = First /\ uiDisplayPrev = 0 /\ uiDisplayOld = 0 /\ uiDisplayLock = 0
  /\ uiDispFunc = "FUNC_SCREEN" /\ uiDisplaySubscreen = 0 /\ cEdit = "none"
  /\ peerRx = NoHeader /\ peerConfig = <<>> /\ peerView = <<0, "FUNC_SCREEN">>
  /\ seen = {} /\ edited = {} /\ untold = FALSE
  /\ user = 0 /\ dropped = 0

vCan_State == \/ CanQuiet \/ ConfigBegin \/ ConfigSum \/ ConfigHeader \/ ConfigBody \/ ConfigSent
              \/ ScreenBegin \/ ScreenSend \/ ScreenErase
vDisplay_State == DisplayQuiet \/ DisplayDraw \/ DisplayOld \/ DisplayPrev \/ DisplayAnnounce
Switch == Rotate \/ EditValue \/ Push

Next == vCan_State \/ vDisplay_State \/ CfgChanged \/ Timer5 \/ Switch

\* The main loop goes round and time passes; the user does what he likes.
Fairness == WF_vars(vCan_State) /\ WF_vars(vDisplay_State) /\ WF_vars(Timer5)

Spec == Init /\ [][Next]_vars /\ Fairness

-----------------------------------------------------------------------------
(* Correctness *)

\* The structure is summed and copied live, without a snapshot or a lock; still the
\* sensor box only takes a configuration that sConfig held at some moment of the
\* sending, as long as no more than one field was edited meanwhile.  (A long push
\* sets two frequencies at once and can slip a mixture past the XOR checksum.)
NoTornConfig ==
  [][peerConfig' # peerConfig /\ Cardinality(edited) <= 1 => peerConfig' \in seen]_vars

\* When the user is done, the sensor box ends up with the configuration of the
\* device, through lost frames and edits during a transmission: the periodic
\* sending repairs what the checksum rejects.
ConfigConverges == <>[](peerConfig = sConfig)

\* In the end the sensor box knows the screen shown and whether it is a subscreen, if
\* its announcement was not given up by the bus, and the user's last step was one that
\* is announced, made when the display had noticed the step before and vCan_State was
\* not just taking an announcement down.  Never announced are the intro screen, whose
\* number stands for nothing to send, and a screen set back in a subscreen by a push
\* that ends an edit or comes too early.
ViewKnownIfUnhurried ==
  <>[](untold \/ uiDisplayScreen = 0 \/ peerView = <<uiDisplayScreen, uiDispFunc>>)
=============================================================================
