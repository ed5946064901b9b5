------------------------------- MODULE Panel -------------------------------
(***************************************************************************)
(* The front panel: what the display task of display.c draws, what the     *)
(* knob and the button do to it in the change notification interrupt       *)
(* (switch.c), the alarms that take the display over (alarms.c) and the    *)
(* reset of the device (app.c), in the order of APP_Tasks.  Where the user *)
(* is on the screens is the state of Navigation, which Panel implements.   *)
(*                                                                         *)
(* A view is a screen and the function it is shown in.  Of what is drawn   *)
(* the model keeps painted, the views that have left marks in the window   *)
(* (rows 9 to 118) since it was last cleared, edges, those whose marks are *)
(* in the bars above and below it, and stale, what is to be drawn again:   *)
(*   "any" cChangedScreen        "INTRO" ~cIntroDone     "WIFI" cWchanged  *)
(*   "SENSORS" dOld... reset     "APRSRADAR" cAprsRefresh                  *)
(*   "GEIGER" cGotGeiger                                                   *)
(* An interrupt runs between any two steps; a screen is drawn in one step. *)
(***************************************************************************)
EXTENDS Navigation

CONSTANTS
    Kinds,      \* kinds of alarms in the order vAlarms_State looks for them
    NumVideos,  \* videos of the demo show
    MaxUser,    \* bound: turns and pushes
    MaxAlarms,  \* bound: conditions that become true
    MaxResets   \* bound: resets of the device

Caches == {"INTRO", "WIFI", "SENSORS", "APRSRADAR", "GEIGER"}

\* The screen an alarm leads to; a system message leads nowhere.
Target(kind) ==
    CASE kind = "attitude" -> "GYRO"
      [] kind = "sms" -> "GSM"
      [] kind = "system" -> "none"
      [] kind = "temperature" -> "SYSTEM"
      [] kind = "aprs" -> "APRSRADAR"
      [] kind = "wifi" -> "WIFI"
      [] kind = "radiation" -> "GEIGER"
      [] kind = "speed" -> "SPEED"
      [] kind \in {"altitude", "confluence", "date"} -> "POSITION"
      [] kind = "power" -> "SENSORS"

AlarmKinds == {"attitude", "sms", "system", "temperature", "aprs", "wifi",
               "radiation", "speed", "altitude", "confluence", "date", "power"}

ASSUME KindsAssumption ==
    /\ Kinds \in Seq(AlarmKinds)
    /\ \A i \in 1..Len(Kinds) :
          Target(Kinds[i]) # "none" =>
             \E j \in 1..Len(Names) : Names[j] = Target(Kinds[i])
ASSUME BoundsAssumption ==
    /\ NumVideos \in Nat \ {0}
    /\ MaxUser \in Nat /\ MaxAlarms \in Nat /\ MaxResets \in Nat

VARIABLES
    pc,              \* where the main loop is
    uiDisplayState, uiDisplayPrev, uiDisplayOld, uiDisplayLock,
    painted, edges, stale,
    show,            \* videos left, ucAbortShow, ucShowNext
    uiAlarmState,    \* <<number of the kind, phase>>
    cAlarmScreen, uiLastScreen,
    cSdBusy, ucSdReady,
    raised,          \* alarm conditions that hold
    turned,          \* no push yet found that the last turn is 300 ms ago
    pushed,          \* there was a push, which another can follow in 100 ms
    held,            \* the button is down (uiButtonState)
    users, alarms, resets,    \* bounded actions done
    mixed            \* history: the screen changed while one was drawn, or unnoticed

disp == <<uiDisplayState, uiDisplayPrev, uiDisplayOld, uiDisplayLock>>
glass == <<painted, edges, stale>>
alarm == <<uiAlarmState, cAlarmScreen, uiLastScreen>>
card == <<cSdBusy, ucSdReady>>
env == <<raised, turned, pushed, held, users, alarms, resets>>
vars == <<pc, nav, disp, glass, show, alarm, card, env, mixed>>

\* SETTINGS only marks a line of the same picture in its subscreen.
View(s, f) ==
    <<Name(s), IF Name(s) \in Parents \ {"SETTINGS"} THEN f ELSE "SCREEN">>
Views == {<<n, f>> : n \in AllScreens, f \in {"SCREEN", "SUBSCREEN"}}
Logo == <<"logo", "SCREEN">>         \* the pictures of the start
Picture == <<"picture", "SCREEN">>   \* those of the alarms
Drawings == Views \cup {Logo, Picture}
NoShow == [left |-> 0, abort |-> 0, next |-> FALSE]

TypeOK ==
    /\ pc \in {"sd", "display", "draw", "prev", "show", "alarms", "ended",
               "reset"}
    /\ NavTypeOK
    /\ uiDisplayState \in {0, 10, 14, 15, 20, 30, 40, 50, 60, 70}
    /\ uiDisplayPrev \in Screens /\ uiDisplayOld \in Screens
    /\ uiDisplayLock \in BOOLEAN
    /\ painted \in SUBSET Drawings /\ edges \in SUBSET Drawings
    /\ stale \in SUBSET (Caches \cup {"any"})
    /\ show \in [left : 0..NumVideos, abort : 0..2, next : BOOLEAN]
    /\ uiAlarmState \in {<<0, 0>>, <<0, 1>>} \cup ((1..Len(Kinds)) \X (0..2))
    /\ cAlarmScreen \in BOOLEAN /\ uiLastScreen \in Screens
    /\ cSdBusy \in BOOLEAN /\ ucSdReady \in BOOLEAN
    /\ raised \in SUBSET AlarmKinds
    /\ turned \in BOOLEAN /\ pushed \in BOOLEAN /\ held \in BOOLEAN
    /\ users \in 0..MaxUser /\ alarms \in 0..MaxAlarms /\ resets \in 0..MaxResets
    /\ mixed \in BOOLEAN

Init ==
    /\ pc = "sd"
    /\ NavInit
    /\ uiDisplayState = 0 /\ uiDisplayPrev = 0 /\ uiDisplayOld = 0
    /\ uiDisplayLock = FALSE
    /\ painted = {} /\ edges = {} /\ stale = {"INTRO"}
    /\ show = NoShow
    /\ uiAlarmState = <<0, 0>> /\ cAlarmScreen = FALSE /\ uiLastScreen = 0
    /\ cSdBusy = FALSE /\ ucSdReady = FALSE
    /\ raised = {} /\ turned = FALSE /\ pushed = FALSE /\ held = FALSE
    /\ users = 0 /\ alarms = 0 /\ resets = 0
    /\ mixed = FALSE

-----------------------------------------------------------------------------
(* Panel, card and picture.                                                *)

\* by1351_Clear, and the rectangles over all rows
PanelCleared == painted' = {} /\ edges' = {}
WindowCleared == painted' = {} /\ UNCHANGED edges

CardFree == ucSdReady /\ ~cSdBusy
\* A picture fills the panel, if the card is free.
vPicturefromSD(picture) ==
    /\ painted' = IF CardFree THEN {picture} ELSE painted
    /\ edges' = IF CardFree THEN {picture} ELSE edges
\* The card stays reserved until SD_State comes round; audio may be off.
vSoundfromSD ==
    \E audio \in BOOLEAN : cSdBusy' = (cSdBusy \/ (audio /\ CardFree))

\* SD_State: mounting is tried in every pass; a mounted card is set free.
SdMount ==
    /\ pc = "sd" /\ ~ucSdReady
    /\ ucSdReady' = TRUE
    /\ pc' = "display"
    /\ UNCHANGED <<nav, disp, glass, show, alarm, cSdBusy, env, mixed>>
SdState ==
    /\ pc = "sd"
    /\ cSdBusy' = (cSdBusy /\ ~ucSdReady)
    /\ pc' = "display"
    /\ UNCHANGED <<nav, disp, glass, show, alarm, ucSdReady, env, mixed>>

-----------------------------------------------------------------------------
(* The screens of display.c: what each leaves on the panel.                *)

\* Every screen but GYRO and APRSRADAR first clears the window if it is to.
Cleared == IF "any" \in stale THEN {} ELSE painted
Current == View(uiDisplayScreen, uiDispFunc)

\* Drawn in full in every pass.
DrawnEachPass ==
    /\ painted' = Cleared \cup {Current} /\ UNCHANGED edges
    /\ stale' = stale \ {"any"}
vDisplaySpeed == DrawnEachPass
vDisplayPosition == DrawnEachPass
vDisplaySats == DrawnEachPass
vDisplayGsm == DrawnEachPass
vDisplaySystem == DrawnEachPass
vDisplaySettings == DrawnEachPass

\* The picture, and the only clearing of a screen that takes in the bars.
vDisplayIntro ==
    /\ IF "INTRO" \in stale /\ CardFree THEN vPicturefromSD(Current)
       ELSE IF "any" \in stale THEN PanelCleared
       ELSE UNCHANGED <<painted, edges>>
    /\ stale' = stale \ {"any", "INTRO"}

\* The circles of the gyro and the radar reach into the bars.
vDisplayGyro ==
    /\ painted' = painted \cup {Current} /\ edges' = edges \cup {Current}
    /\ UNCHANGED stale

\* Data of a module that came since the screen was last drawn: any time.
NewData == BOOLEAN

\* The graph is drawn when there are new counts, the figures in every pass.
vDisplayGeiger ==
    /\ \E got \in NewData :
          painted' = Cleared \cup
              (IF InSub /\ ~got /\ "GEIGER" \notin stale THEN {} ELSE {Current})
    /\ UNCHANGED edges
    /\ stale' = stale \ (IF InSub THEN {"any", "GEIGER"} ELSE {"any"})

\* A position, or zooming, draws the radar again.
vDisplayAprsRadar ==
    /\ \E got \in NewData :
          IF got \/ "APRSRADAR" \in stale
          THEN painted' = {Current} /\ edges' = edges \cup {Current}
          ELSE UNCHANGED <<painted, edges>>
    /\ stale' = stale \ {"APRSRADAR"}

vDisplayAprsList ==
    /\ painted' = Cleared \cup
                  (IF InSub /\ "any" \notin stale THEN {} ELSE {Current})
    /\ UNCHANGED edges
    /\ stale' = stale \ {"any"}

vDisplayWifi ==
    /\ \E got \in NewData :
          painted' = Cleared \cup
              (IF got \/ {"any", "WIFI"} \cap stale # {} THEN {Current} ELSE {})
    /\ UNCHANGED edges
    /\ stale' = stale \ {"any", "WIFI"}

vDisplaySensors ==
    /\ painted' = Cleared \cup
                  (IF {"any", "SENSORS"} \cap stale # {} THEN {Current} ELSE {})
    /\ UNCHANGED edges
    /\ stale' = stale \ {"any", "SENSORS"}

\* The show starts; its videos are steps of their own.
vDisplayShow ==
    /\ show' = [left |-> NumVideos, abort |-> 0, next |-> FALSE]
    /\ painted' = Cleared /\ UNCHANGED edges
    /\ stale' = stale \ {"any"}

Shown(n) == Name(uiDisplayScreen) = n

\* vUpdateScreen, the show left out
vUpdateScreen ==
    /\ \/ Shown("INTRO") /\ vDisplayIntro
       \/ Shown("SPEED") /\ vDisplaySpeed
       \/ Shown("POSITION") /\ vDisplayPosition
       \/ Shown("GYRO") /\ vDisplayGyro
       \/ Shown("GEIGER") /\ vDisplayGeiger
       \/ Shown("APRSRADAR") /\ vDisplayAprsRadar
       \/ Shown("APRSLIST") /\ vDisplayAprsList
       \/ Shown("WIFI") /\ vDisplayWifi
       \/ Shown("SENSORS") /\ vDisplaySensors
       \/ Shown("SATS") /\ vDisplaySats
       \/ Shown("GSM") /\ vDisplayGsm
       \/ Shown("SYSTEM") /\ vDisplaySystem
       \/ Shown("SETTINGS") /\ vDisplaySettings
    /\ UNCHANGED show

-----------------------------------------------------------------------------
(* vDisplay_State                                                          *)

\* 0: first picture and sound, once the card is there.  The start does not ask
\* whether an alarm has the display.
DisplayStart ==
    /\ pc = "display" /\ uiDisplayState = 0
    /\ pc' = "alarms"
    /\ IF ucSdReady
       THEN vPicturefromSD(Logo) /\ vSoundfromSD /\ uiDisplayState' = 10
       ELSE UNCHANGED <<painted, edges, cSdBusy, uiDisplayState>>
    /\ UNCHANGED <<nav, uiDisplayPrev, uiDisplayOld, uiDisplayLock, stale, show,
                   alarm, ucSdReady, env, mixed>>

\* 10 and 15: three seconds
DisplayWait ==
    /\ pc = "display" /\ uiDisplayState \in {10, 15}
    /\ pc' = "alarms"
    /\ UNCHANGED <<nav, disp, glass, show, alarm, card, env, mixed>>
DisplayWaited ==
    /\ pc = "display" /\ uiDisplayState \in {10, 15}
    /\ pc' = "alarms"
    /\ uiDisplayState' = IF uiDisplayState = 10 THEN 14 ELSE 20
    /\ UNCHANGED <<nav, uiDisplayPrev, uiDisplayOld, uiDisplayLock, glass, show,
                   alarm, card, env, mixed>>

\* 14: second picture
DisplaySecond ==
    /\ pc = "display" /\ uiDisplayState = 14
    /\ pc' = "alarms"
    /\ IF ucSdReady THEN vPicturefromSD(Logo) /\ uiDisplayState' = 15
       ELSE UNCHANGED <<painted, edges, uiDisplayState>>
    /\ UNCHANGED <<nav, uiDisplayPrev, uiDisplayOld, uiDisplayLock, stale, show,
                   alarm, card, env, mixed>>

\* 20: clear; 30: the first screen
DisplayClear ==
    /\ pc = "display" /\ uiDisplayState = 20
    /\ pc' = "alarms" /\ PanelCleared /\ uiDisplayState' = 30
    /\ UNCHANGED <<nav, uiDisplayPrev, uiDisplayOld, uiDisplayLock, stale, show,
                   alarm, card, env, mixed>>
DisplayFirst ==
    /\ pc = "display" /\ uiDisplayState = 30
    /\ pc' = "alarms" /\ uiDisplayState' = 40
    /\ SetScreen(Number("GYRO")) /\ uiDisplayPrev' = 0
    /\ UNCHANGED <<uiDisplayOld, uiDisplayLock, glass, show, alarm, card, env, mixed>>

\* 40: nothing to notice ...
DisplayQuiet ==
    /\ pc = "display" /\ uiDisplayState = 40
    /\ uiDisplayScreen = uiDisplayPrev \/ cAlarmScreen
    /\ pc' = "alarms" /\ uiDisplayState' = 50
    /\ UNCHANGED <<nav, uiDisplayPrev, uiDisplayOld, uiDisplayLock, glass, show,
                   alarm, card, env, mixed>>
\* ... or a new screen: locked, cleared, drawn, and taken for the previous one.
\* The bars are cleared to and from the screens with a circle only.
\* Mutant: the panel is not cleared for the new screen.
DisplayNoticeUncleared ==
    /\ pc = "display" /\ uiDisplayState = 40
    /\ uiDisplayScreen # uiDisplayPrev /\ ~cAlarmScreen
    /\ pc' = "draw"
    /\ uiDisplayLock' = TRUE
    /\ mixed' = FALSE
    /\ UNCHANGED <<nav, uiDisplayState, uiDisplayPrev, uiDisplayOld, glass, show,
                   alarm, card, env>>
FullCircle == {"APRSRADAR", "GYRO"}
DisplayNotice ==
    /\ pc = "display" /\ uiDisplayState = 40
    /\ uiDisplayScreen # uiDisplayPrev /\ ~cAlarmScreen
    /\ pc' = "draw"
    /\ uiDisplayLock' = TRUE
    /\ IF {Name(uiDisplayScreen), Name(uiDisplayPrev)} \cap FullCircle # {}
       THEN PanelCleared /\ UNCHANGED stale
       ELSE WindowCleared /\ stale' = stale \cup {"any"}
    /\ mixed' = FALSE
    /\ UNCHANGED <<nav, uiDisplayState, uiDisplayPrev, uiDisplayOld, show, alarm,
                   card, env>>
DisplayDraw ==
    /\ pc = "draw" /\ ~Shown("SHOW")
    /\ vUpdateScreen
    /\ pc' = "prev"
    /\ UNCHANGED <<nav, disp, alarm, card, env, mixed>>
DisplayPrev ==
    /\ pc = "prev"
    /\ uiDisplayOld' = uiDisplayPrev /\ uiDisplayPrev' = uiDisplayScreen
    /\ uiDisplayLock' = FALSE
    /\ uiDisplayState' = 50
    /\ pc' = "alarms"
    /\ UNCHANGED <<nav, glass, show, alarm, card, env, mixed>>

\* 50: the signal scales in the bars
DisplayScales ==
    /\ pc = "display" /\ uiDisplayState = 50
    /\ pc' = "alarms" /\ uiDisplayState' = 60
    /\ UNCHANGED <<nav, uiDisplayPrev, uiDisplayOld, uiDisplayLock, glass, show,
                   alarm, card, env, mixed>>

\* 60: the values of the screen
\* Mutant: they are drawn during an alarm, too.
DisplayUpdateAlways ==
    /\ pc = "display" /\ uiDisplayState = 60 /\ ~Shown("SHOW")
    /\ pc' = "alarms" /\ uiDisplayState' = 70
    /\ vUpdateScreen
    /\ mixed' = (mixed \/ uiDisplayScreen # uiDisplayPrev)
    /\ UNCHANGED <<nav, uiDisplayPrev, uiDisplayOld, uiDisplayLock, alarm, card, env>>
DisplayUpdate ==
    /\ pc = "display" /\ uiDisplayState = 60 /\ ~Shown("SHOW")
    /\ pc' = "alarms" /\ uiDisplayState' = 70
    /\ IF cAlarmScreen THEN UNCHANGED <<glass, show, mixed>>
       ELSE /\ vUpdateScreen
            /\ mixed' = (mixed \/ uiDisplayScreen # uiDisplayPrev)
    /\ UNCHANGED <<nav, uiDisplayPrev, uiDisplayOld, uiDisplayLock, alarm, card,
                   env>>

\* 70: back to the screen before the alarm, when the time set has passed
DisplayStay ==
    /\ pc = "display" /\ uiDisplayState = 70
    /\ pc' = "alarms" /\ uiDisplayState' = 40
    /\ UNCHANGED <<nav, uiDisplayPrev, uiDisplayOld, uiDisplayLock, glass, show,
                   alarm, card, env, mixed>>
DisplayReturn ==
    /\ pc = "display" /\ uiDisplayState = 70
    /\ ~cAlarmScreen /\ uiLastScreen # 0
    /\ pc' = "alarms" /\ uiDisplayState' = 40
    /\ SetScreen(uiLastScreen) /\ uiLastScreen' = 0
    /\ UNCHANGED <<uiDisplayPrev, uiDisplayOld, uiDisplayLock, glass, show,
                   uiAlarmState, cAlarmScreen, card, env, mixed>>

\* The show in states 40 and 60: its videos, each left out once the show is
\* aborted, and at the end the screen the knob asked for.
ShowStart ==
    /\ Shown("SHOW")
    /\ \/ pc = "draw"
       \/ pc = "display" /\ uiDisplayState = 60 /\ ~cAlarmScreen
    /\ vDisplayShow
    /\ pc' = "show"
    /\ mixed' = (mixed \/ (pc = "display" /\ uiDisplayScreen # uiDisplayPrev))
    /\ UNCHANGED <<nav, disp, alarm, card, env>>
ShowSkipped ==
    /\ pc = "display" /\ uiDisplayState = 60 /\ Shown("SHOW") /\ cAlarmScreen
    /\ pc' = "alarms" /\ uiDisplayState' = 70
    /\ UNCHANGED <<nav, uiDisplayPrev, uiDisplayOld, uiDisplayLock, glass, show,
                   alarm, card, env, mixed>>
ShowVideo ==
    /\ pc = "show" /\ show.left > 0
    /\ show' = [left |-> show.left - 1,
                abort |-> IF show.next THEN 0 ELSE show.abort,
                next |-> FALSE]
    /\ IF show.abort # 0 THEN UNCHANGED <<painted, edges>>
       ELSE /\ painted' = painted \cup {<<"SHOW", "SCREEN">>}
            /\ edges' = edges \cup {<<"SHOW", "SCREEN">>}
    /\ UNCHANGED <<pc, nav, disp, stale, alarm, card, env, mixed>>
ShowEnd ==
    /\ pc = "show" /\ show.left = 0
    /\ IF show.abort = 0 THEN UNCHANGED <<nav, painted, edges>>
       ELSE /\ SetScreen(Number(IF show.abort = 2 THEN "INTRO" ELSE "SETTINGS"))
            /\ PanelCleared
    /\ show' = NoShow
    /\ IF uiDisplayLock
       THEN pc' = "prev" /\ UNCHANGED uiDisplayState
       ELSE pc' = "alarms" /\ uiDisplayState' = 70
    /\ UNCHANGED <<uiDisplayPrev, uiDisplayOld, uiDisplayLock, stale, alarm, card,
                   env, mixed>>

-----------------------------------------------------------------------------
(* vAlarms_State.  A kind of alarm has three states: test, sound, wait.    *)

Kind == Kinds[uiAlarmState[1]]
Phase == uiAlarmState[2]
Testing(kind) == uiAlarmState[1] > 0 /\ Phase = 0 /\ Kind = kind
NextKind == IF uiAlarmState[1] < Len(Kinds) THEN <<uiAlarmState[1] + 1, 0>>
            ELSE <<0, 1>>
AlarmsTurn == pc = "alarms" /\ pc' = "sd"

\* 0: until the device runs for three seconds with a card; 5: while disabled
AlarmsHeld ==
    /\ AlarmsTurn /\ uiAlarmState[1] = 0
    /\ UNCHANGED <<nav, disp, glass, show, alarm, card, env, mixed>>
AlarmsStart ==
    /\ AlarmsTurn /\ uiAlarmState = <<0, 0>> /\ ucSdReady
    /\ uiAlarmState' = <<0, 1>>
    /\ UNCHANGED <<nav, disp, glass, show, cAlarmScreen, uiLastScreen, card, env,
                   mixed>>
AlarmsEnabled ==
    /\ AlarmsTurn /\ uiAlarmState = <<0, 1>>
    /\ uiAlarmState' = NextKind
    /\ UNCHANGED <<nav, disp, glass, show, cAlarmScreen, uiLastScreen, card, env,
                   mixed>>

\* The condition holds: the display is taken and the screen noted, even if
\* the card is busy; then there is no picture, and the test is made again.
\* answered: the conditions the test answers by noting them
Triggered(kind, answered) ==
    /\ Testing(kind) /\ kind \in raised
    /\ cAlarmScreen' = TRUE
    /\ raised' = raised \ answered
    /\ IF cSdBusy THEN UNCHANGED <<painted, edges, uiAlarmState>>
       ELSE vPicturefromSD(Picture) /\ uiAlarmState' = <<uiAlarmState[1], 1>>
Noted == uiLastScreen' = uiDisplayScreen

AttitudeAlarm == Triggered("attitude", {"attitude"}) /\ Noted
SmsAlarm == Triggered("sms", {"sms"}) /\ Noted
\* The message stays until it is shown.
SystemAlarm == Triggered("system", {}) /\ Noted
TemperatureAlarm == Triggered("temperature", {"temperature"}) /\ Noted
AprsAlarm == Triggered("aprs", {"aprs"}) /\ Noted
WifiAlarm == Triggered("wifi", {"wifi"}) /\ Noted
RadiationAlarm == Triggered("radiation", {"radiation"}) /\ Noted
SpeedAlarm == Triggered("speed", {"speed"}) /\ Noted
AltitudeAlarm == Triggered("altitude", {"altitude"}) /\ Noted
ConfluenceAlarm == Triggered("confluence", {"confluence"}) /\ Noted
\* The one that notes the screen with the picture only.
DateAlarm ==
    /\ Triggered("date", {"date"})
    /\ IF cSdBusy THEN UNCHANGED uiLastScreen ELSE Noted
PowerAlarm == Triggered("power", {"power"}) /\ Noted

AlarmTriggered ==
    /\ AlarmsTurn
    /\ \/ AttitudeAlarm \/ SmsAlarm \/ SystemAlarm \/ TemperatureAlarm
       \/ AprsAlarm \/ WifiAlarm \/ RadiationAlarm \/ SpeedAlarm
       \/ AltitudeAlarm \/ ConfluenceAlarm \/ DateAlarm \/ PowerAlarm
    /\ UNCHANGED <<nav, disp, stale, show, card, turned, pushed, held, users, alarms,
                   resets, mixed>>
AlarmAbsent ==
    /\ AlarmsTurn /\ uiAlarmState[1] > 0 /\ Phase = 0 /\ Kind \notin raised
    /\ uiAlarmState' = NextKind
    /\ UNCHANGED <<nav, disp, glass, show, cAlarmScreen, uiLastScreen, card, env,
                   mixed>>

\* The sound follows when the card is free again; a message is shown, and gone.
AlarmSound ==
    /\ AlarmsTurn /\ Phase = 1 /\ uiAlarmState[1] > 0
    /\ IF cSdBusy THEN UNCHANGED <<cSdBusy, raised, uiAlarmState>>
       ELSE /\ vSoundfromSD
            /\ raised' = IF Kind = "system" THEN raised \ {"system"} ELSE raised
            /\ uiAlarmState' = <<uiAlarmState[1], 2>>
    /\ UNCHANGED <<nav, disp, glass, show, cAlarmScreen, uiLastScreen, ucSdReady,
                   turned, pushed, held, users, alarms, resets, mixed>>
AlarmWait ==
    /\ AlarmsTurn /\ Phase = 2
    /\ UNCHANGED <<nav, disp, glass, show, alarm, card, env, mixed>>

\* The alarm is over.  Clearing the indicator takes its time, in which the
\* button works on the screen from before: the new screen comes afterwards.
\* Mutant: the display is not given back.
AlarmOverKept ==
    /\ pc = "alarms" /\ Phase = 2
    /\ PanelCleared
    /\ IF Kind = "system"
       THEN pc' = "sd" /\ uiAlarmState' = NextKind /\ UNCHANGED nav
       ELSE pc' = "ended" /\ UNCHANGED uiAlarmState /\ AlarmEnds
    /\ UNCHANGED <<disp, stale, show, cAlarmScreen, uiLastScreen, card, env, mixed>>
AlarmOver ==
    /\ pc = "alarms" /\ Phase = 2
    /\ PanelCleared /\ cAlarmScreen' = FALSE
    /\ IF Kind = "system"
       THEN pc' = "sd" /\ uiAlarmState' = NextKind /\ UNCHANGED nav
       ELSE pc' = "ended" /\ UNCHANGED uiAlarmState /\ AlarmEnds
    /\ UNCHANGED <<disp, stale, show, uiLastScreen, card, env, mixed>>
\* Mutant: the function is set back again with the screen, the subscreen lost.
AlarmScreenAgain ==
    /\ pc = "ended" /\ pc' = "sd"
    /\ EndSubscreen(Number(Target(Kind)))
    /\ uiDisplaySubscreen' = "none" /\ UNCHANGED <<cEdit, cSetting>>
    /\ uiAlarmState' = NextKind
    /\ UNCHANGED <<disp, glass, show, cAlarmScreen, uiLastScreen, card, env, mixed>>
AlarmScreen ==
    /\ pc = "ended" /\ pc' = "sd"
    /\ SetScreen(Number(Target(Kind)))
    /\ uiAlarmState' = NextKind
    /\ UNCHANGED <<disp, glass, show, cAlarmScreen, uiLastScreen, card, env, mixed>>

-----------------------------------------------------------------------------
(* vMisc_State as far as the panel knows, at the end of the pass: the      *)
(* button held for long resets the device, unless a frequency is edited.   *)

\* vResetDevice up to its delay of a second, and after it
ResetBegin ==
    /\ pc = "sd" /\ held
    /\ resets < MaxResets /\ resets' = resets + 1
    /\ pc' = "reset"
    /\ PanelCleared
    /\ ResetStarts
    /\ UNCHANGED <<disp, stale, show, alarm, card, raised, turned, pushed, held,
                   users, alarms, mixed>>
ResetEnd ==
    /\ pc = "reset" /\ pc' = "sd"
    /\ SetScreen(0) /\ uiDisplayPrev' = 0 /\ uiDisplayState' = 0
    /\ PanelCleared
    /\ ucSdReady' = FALSE
    /\ turned' = FALSE /\ pushed' = FALSE   \* ulLife starts again from 0
    /\ UNCHANGED <<uiDisplayOld, uiDisplayLock, stale, show, alarm, cSdBusy, raised,
                   held, users, alarms, resets, mixed>>

-----------------------------------------------------------------------------
(* The change notification interrupt: knob and button, at any time.        *)

AnyTime == UNCHANGED <<pc, uiDisplayPrev, uiDisplayOld, uiDisplayLock, alarm, card,
                       raised, alarms, resets>>
           /\ mixed' = (mixed \/ (uiDisplayLock /\ uiDisplayScreen' # uiDisplayScreen))
UserActs == users < MaxUser /\ users' = users + 1

\* What a turn, counted in a screen or a subscreen, marks to be drawn again.
TurnedScreen == {"any", "SENSORS"}
    \cup (IF Name(uiDisplayScreen') = "APRSRADAR" THEN {"APRSRADAR"} ELSE {})
    \cup (IF uiDisplayScreen' = 0 THEN {"INTRO"} ELSE {})
TurnedSub == CASE uiDisplaySubscreen = "APRSLIST" -> {{"any"}}
               [] uiDisplaySubscreen = "APRSRADAR" -> {{}, {"APRSRADAR"}}  \* at a limit
               [] uiDisplaySubscreen = "INTRO" -> {{"INTRO"}}
               [] OTHER -> {{}}

\* A turn aborts the show; it goes no further while a screen is locked.
Turn(right) ==
    /\ UserActs
    /\ turned' = TRUE
    /\ show' = IF pc # "show" THEN show
               ELSE [show EXCEPT !.abort = IF right THEN 2 ELSE 1]
    /\ IF uiDisplayLock THEN UNCHANGED <<nav, uiDisplayState, stale>>
       ELSE /\ NavTurn(right)
            /\ uiDisplayState' = IF InSub THEN uiDisplayState ELSE 40
            /\ \E cs \in IF Editing THEN {{}} ELSE IF InSub THEN TurnedSub
                         ELSE {TurnedScreen} :
                  stale' = stale \cup {"WIFI"} \cup cs
    /\ UNCHANGED <<painted, edges, pushed, held>> /\ AnyTime

\* What entering and leaving a subscreen marks to be drawn again, and clears.
SubscreenMarks ==
    CASE uiDispFunc' = uiDispFunc -> {}
      [] uiDisplaySubscreen' \in {"APRSLIST", "POSITION"} -> {"any"}
      [] uiDisplaySubscreen' = "GEIGER" -> IF InSub THEN {"any"} ELSE {"any", "GEIGER"}
      [] uiDisplaySubscreen' = "INTRO" -> IF InSub THEN {} ELSE {"INTRO"}
      [] OTHER -> {}
SubscreenWipes ==
    /\ uiDispFunc' # uiDispFunc
    /\ uiDisplaySubscreen' = "INTRO" \/ (~InSub /\ uiDisplaySubscreen' = "GEIGER")

\* A push shortly after a turn first takes the screen back, locked or not; one
\* shortly after a push does no more.
CountedPush(s) ==
    /\ NavPush(s)
    /\ stale' = stale \cup {"WIFI"} \cup SubscreenMarks
    /\ IF ~SubscreenWipes THEN UNCHANGED <<painted, edges>>
       ELSE IF uiDisplaySubscreen' = "INTRO" THEN PanelCleared ELSE WindowCleared
    /\ show' = IF pc = "show" /\ ~Editing /\ Name(s) = "SHOW"
               THEN [show EXCEPT !.abort = 1, !.next = TRUE] ELSE show
Push(late, bounced) ==
    /\ UserActs /\ ~held /\ held' = TRUE
    /\ late \/ turned
    /\ LET s == IF late THEN uiDisplayScreen ELSE uiDisplayOld IN
       IF bounced THEN pushed /\ SetScreen(s) /\ UNCHANGED <<glass, show>>
       ELSE CountedPush(s)
    /\ turned' = ~late
    /\ pushed' = TRUE
    /\ UNCHANGED uiDisplayState /\ AnyTime
\* BTN_RELEASE and BTN_RELEASE_LONG
Release ==
    /\ held /\ held' = FALSE
    /\ stale' = stale \cup {"WIFI"}
    /\ UNCHANGED <<nav, uiDisplayState, painted, edges, users, turned, pushed, show>>
    /\ AnyTime

-----------------------------------------------------------------------------
(* The condition of an alarm comes about.                                  *)

Raise(kind) ==
    /\ alarms < MaxAlarms /\ alarms' = alarms + 1
    /\ raised' = raised \cup {kind}
    /\ UNCHANGED <<pc, nav, disp, glass, show, alarm, card, turned, pushed, held,
                   users, resets, mixed>>

Display == DisplayStart \/ DisplayWait \/ DisplayWaited \/ DisplaySecond \/ DisplayClear
           \/ DisplayFirst \/ DisplayQuiet \/ DisplayNotice \/ DisplayDraw
           \/ DisplayPrev \/ DisplayScales \/ DisplayUpdate \/ DisplayStay
           \/ DisplayReturn \/ ShowStart \/ ShowSkipped \/ ShowVideo \/ ShowEnd
Alarms == AlarmsHeld \/ AlarmsStart \/ AlarmsEnabled \/ AlarmTriggered
          \/ AlarmAbsent \/ AlarmSound \/ AlarmWait \/ AlarmOver \/ AlarmScreen
APP_Tasks == SdMount \/ SdState \/ Display \/ Alarms \/ ResetBegin \/ ResetEnd
User == \/ \E right \in BOOLEAN : Turn(right)
        \/ \E late, bounced \in BOOLEAN : Push(late, bounced)
        \/ Release
World == \E i \in 1..Len(Kinds) : Raise(Kinds[i])
Next == APP_Tasks \/ User \/ World

\* The main loop never stops, delays pass, and a card that can be mounted is.
Fairness ==
    /\ WF_vars(APP_Tasks)
    /\ SF_vars(SdMount) /\ SF_vars(DisplayWaited) /\ SF_vars(AlarmOver)
Spec == Init /\ [][Next]_vars /\ Fairness

-----------------------------------------------------------------------------
(* Properties                                                              *)

\* An alarm's picture does not stay: once it is up, the display is given
\* back, whatever the card, the knob and resets do meanwhile (alarms.c).
AlarmPictureEnds ==
    [](uiAlarmState[1] > 0 /\ Phase \in {1, 2} => <>~cAlarmScreen)

\* The screens drawn in full in every pass come to stand alone in the window
\* once knob and alarms are quiet: nothing of an alarm, a picture or another
\* screen is left between them.  What display.c says of a new screen, "Something
\* changed, clear and update", is not so if the screen changes while it is drawn:
\* then it may stand over the other one, but over nothing else.  In the bars,
\* which a change of screen seldom clears, remains of the start, the intro, the
\* show, or a circle drawn before its screen was noticed may be left, but none of
\* an alarm, and none with the gyro.
Live == {"SPEED", "POSITION", "GYRO", "SATS", "GSM", "SYSTEM", "SETTINGS"}
LiveScreenShown ==
    <>[](\/ Name(uiDisplayScreen) \notin Live
         \/ cAlarmScreen \/ ~ucSdReady
         \/ /\ Current \in painted /\ Picture \notin edges
            /\ \/ painted = {Current} /\ (Shown("GYRO") => edges = {Current})
               \/ mixed /\ \E other \in Views : painted = {Current, other})

\* An alarm's picture, once up, is not drawn over while the alarm has the display:
\* not by the screens, the show, other alarms or turns of the knob.  What does so
\* is a push that opens or leaves a subscreen, a reset, and the start of the
\* device, whose own pictures and clearing do not ask for the alarm: after a
\* reset, and at power-up, if the alarm comes before the start is over.
AlarmPictureStays ==
    [][cAlarmScreen /\ Phase \in {1, 2} /\ Picture \in painted /\ cAlarmScreen'
       => \/ UNCHANGED <<painted, edges>>
          \/ uiDispFunc' # uiDispFunc
          \/ pc' = "reset"
          \/ pc = "display" /\ uiDisplayState \in {0, 14, 20}]_vars

\* Of the user's place, the display, the alarms, the show and the reset do what
\* Navigation lets them.
ImplementsNavigation == NavSpec

\* switch.c says of the button "Subscreen, reset to normal": a push in a
\* subscreen that has nothing to choose leads back to the screen.
PushLeavesSubscreen ==
    [][Push(TRUE, FALSE) /\ InSub /\ ~Editing /\ cSetting = 0
       => uiDispFunc' = "SCREEN"]_vars
=============================================================================
