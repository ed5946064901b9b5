---------------------------- MODULE PanelProofs ----------------------------
(***************************************************************************)
(* The panel implements Navigation, for any screens, kinds of alarms and   *)
(* bounds: every step of the display task, the alarms, the show, the reset *)
(* and the user moves the user's place as Navigation lets it, or not.      *)
(*                                                                         *)
(* PlacesKnown is the invariant it needs: the screens the main loop may    *)
(* return to exist, and an alarm that sets a screen has one.               *)
(*                                                                         *)
(* Then, by PictureInv, what alone is drawn over an alarm's picture, and   *)
(* the typing of the panel's own state.                                    *)
(***************************************************************************)
EXTENDS Panel, NavigationProofs

PlacesKnown ==
    /\ uiDisplayScreen \in Screens
    /\ uiDisplayPrev \in Screens /\ uiDisplayOld \in Screens
    /\ uiLastScreen \in Screens
    /\ uiAlarmState \in {<<0, 0>>, <<0, 1>>} \cup ((1..Len(Kinds)) \X (0..2))
    /\ pc = "ended" => uiAlarmState[1] \in 1..Len(Kinds) /\ Kind # "system"

-----------------------------------------------------------------------------
(* Constants                                                               *)

\* A screen that is there has its number.
LEMMA NumberOf ==
    ASSUME NEW n, \E i \in 1..Len(Names) : Names[i] = n
    PROVE  Number(n) \in Screens
<1>1. PICK i \in 1..Len(Names) : Names[i] = n
  OBVIOUS
<1>2. Len(Names) \in Nat
  BY NamesAssumption
<1>3. i - 1 \in Screens /\ Name(i - 1) = n
  BY <1>1, <1>2 DEF Screens, NUM_SCREENS, Name
<1> QED
  BY <1>3 DEF Number

\* The screens the start and the show lead to.
LEMMA FixedScreens ==
    /\ Number("GYRO") \in Screens
    /\ Number("INTRO") \in Screens
    /\ Number("SETTINGS") \in Screens
<1>1. 1 \in 1..Len(Names) /\ Names[1] = "INTRO"
  BY NamesAssumption
<1>2. \E i \in 1..Len(Names) : Names[i] = "INTRO"
  BY <1>1
<1> QED
  BY <1>2, NumberOf, NamesAssumption

\* Every alarm but the system's has a screen.
LEMMA TargetScreen ==
    ASSUME NEW i \in 1..Len(Kinds), Kinds[i] # "system"
    PROVE  Number(Target(Kinds[i])) \in Screens
<1>1. Kinds[i] \in AlarmKinds
  BY KindsAssumption
<1>2. Target(Kinds[i]) # "none"
  BY <1>1 DEF AlarmKinds, Target
<1>3. \E j \in 1..Len(Names) : Names[j] = Target(Kinds[i])
  BY <1>2, KindsAssumption
<1> QED
  BY <1>3, NumberOf

\* The test after a kind's is the next one's, or the round begins again.
LEMMA NextKindState ==
    ASSUME uiAlarmState \in {<<0, 0>>, <<0, 1>>} \cup ((1..Len(Kinds)) \X (0..2))
    PROVE  NextKind \in {<<0, 0>>, <<0, 1>>} \cup ((1..Len(Kinds)) \X (0..2))
<1>1. Len(Kinds) \in Nat
  BY KindsAssumption
<1>2. uiAlarmState[1] \in 0..Len(Kinds)
  BY <1>1
<1>3. CASE uiAlarmState[1] < Len(Kinds)
  <2>1. uiAlarmState[1] + 1 \in 1..Len(Kinds)
    BY <1>1, <1>2, <1>3
  <2> QED
    BY <1>3, <2>1 DEF NextKind
<1>4. CASE ~(uiAlarmState[1] < Len(Kinds))
  BY <1>4 DEF NextKind
<1> QED
  BY <1>3, <1>4

-----------------------------------------------------------------------------
(* Each part of the panel as a step of Navigation.                         *)

\* Setting a screen that exists is a step of the main loop in Navigation.
LEMMA SetsAScreen ==
    ASSUME NEW s \in Screens, SetScreen(s)
    PROVE  NavNext
BY DEF NavNext, MainLoopSets

\* The display task and the show (vDisplay_State, vDisplayShow).
LEMMA DisplayMoves == PlacesKnown /\ (Display \/ SdMount \/ SdState) => [NavNext]_nav
<1> SUFFICES ASSUME PlacesKnown, Display \/ SdMount \/ SdState PROVE [NavNext]_nav
  OBVIOUS
<1>1. CASE DisplayFirst
  BY <1>1, FixedScreens, SetsAScreen DEF DisplayFirst
<1>2. CASE DisplayReturn
  BY <1>2, SetsAScreen DEF DisplayReturn, PlacesKnown
<1>3. CASE ShowEnd
  <2>1. CASE show.abort = 0
    BY <1>3, <2>1 DEF ShowEnd
  <2>2. CASE show.abort # 0
    <3>1. SetScreen(Number(IF show.abort = 2 THEN "INTRO" ELSE "SETTINGS"))
      BY <1>3, <2>2 DEF ShowEnd
    <3>2. Number(IF show.abort = 2 THEN "INTRO" ELSE "SETTINGS") \in Screens
      BY FixedScreens
    <3> QED
      BY <3>1, <3>2, SetsAScreen
  <2> QED
    BY <2>1, <2>2
<1>4. CASE ~(DisplayFirst \/ DisplayReturn \/ ShowEnd)
  <2>1. UNCHANGED nav
    BY <1>4 DEF Display, SdMount, SdState, DisplayStart, DisplayWait, DisplayWaited,
                DisplaySecond, DisplayClear, DisplayQuiet, DisplayNotice, DisplayDraw,
                DisplayPrev, DisplayScales, DisplayUpdate, DisplayStay, ShowStart,
                ShowSkipped, ShowVideo
  <2> QED
    BY <2>1
<1> QED
  BY <1>1, <1>2, <1>3, <1>4

\* The alarms (vAlarms_State): the end of one, and the screen it leads to.
LEMMA AlarmsMove == PlacesKnown /\ Alarms => [NavNext]_nav
<1> SUFFICES ASSUME PlacesKnown, Alarms PROVE [NavNext]_nav
  OBVIOUS
<1>1. CASE AlarmOver
  <2>1. UNCHANGED nav \/ AlarmEnds
    BY <1>1 DEF AlarmOver
  <2> QED
    BY <2>1 DEF NavNext
<1>2. CASE AlarmScreen
  BY <1>2, TargetScreen, SetsAScreen DEF AlarmScreen, PlacesKnown, Kind
<1>3. CASE ~(AlarmOver \/ AlarmScreen)
  <2>1. UNCHANGED nav
    BY <1>3 DEF Alarms, AlarmsHeld, AlarmsStart, AlarmsEnabled, AlarmTriggered,
                AlarmAbsent, AlarmSound, AlarmWait
  <2> QED
    BY <2>1
<1> QED
  BY <1>1, <1>2, <1>3

\* The reset (vResetDevice), before and after its delay.
LEMMA ResetMoves == ResetBegin \/ ResetEnd => [NavNext]_nav
BY ScreenNumbers, SetsAScreen DEF ResetBegin, ResetEnd, NavNext

\* The knob and the button (APP_SwitchReceiveEventHandler).
LEMMA UserMoves == PlacesKnown /\ User => [NavNext]_nav
<1> SUFFICES ASSUME PlacesKnown, User PROVE [NavNext]_nav
  OBVIOUS
<1>1. CASE \E right \in BOOLEAN : Turn(right)
  BY <1>1 DEF Turn, NavNext
<1>2. CASE \E late, bounced \in BOOLEAN : Push(late, bounced)
  <2>1. PICK late \in BOOLEAN, bounced \in BOOLEAN : Push(late, bounced)
    BY <1>2
  <2> DEFINE s == IF late THEN uiDisplayScreen ELSE uiDisplayOld
  <2>2. s \in Screens
    BY DEF PlacesKnown
  <2>3. SetScreen(s) \/ NavPush(s)
    BY <2>1 DEF Push, CountedPush
  <2> HIDE DEF s
  <2> QED
    BY <2>2, <2>3, SetsAScreen DEF NavNext
<1>3. CASE Release
  BY <1>3 DEF Release
<1> QED
  BY <1>1, <1>2, <1>3 DEF User

\* Every step of the panel is one of Navigation, or leaves the place alone.
LEMMA EveryStepMoves == PlacesKnown /\ [Next]_vars => [NavNext]_nav
<1>1. World => UNCHANGED nav
  BY DEF World, Raise
<1>2. UNCHANGED vars => UNCHANGED nav
  BY DEF vars
<1> QED
  BY <1>1, <1>2, DisplayMoves, AlarmsMove, ResetMoves, UserMoves DEF Next, APP_Tasks

-----------------------------------------------------------------------------
(* PlacesKnown is invariant.                                               *)

\* A step of Navigation leads to a screen that exists.
LEMMA ScreenStays ==
    ASSUME uiDisplayScreen \in Screens, [NavNext]_nav
    PROVE  uiDisplayScreen' \in Screens
<1>1. CASE \E right \in BOOLEAN : NavTurn(right)
  <2>1. PICK right \in BOOLEAN : NavTurn(right)
    BY <1>1
  <2>2. Around(uiDisplayScreen, right, NUM_SCREENS) \in Screens
    BY ScreenNumbers, AroundStays DEF Screens
  <2> QED
    BY <2>1, <2>2 DEF NavTurn, TurnScreen, TurnSetting, TurnValue, nav, place
<1>2. CASE \E s \in Screens : NavPush(s)
  BY <1>2, ScreenNumbers DEF NavPush, EndEdit, ActOnScreen, ChooseLine, LeaveSubscreen,
                             EnterSubscreen, NoSubscreen, SetScreen, Leave
<1>3. CASE MainLoopSets
  BY <1>3 DEF MainLoopSets, SetScreen
<1>4. CASE AlarmEnds \/ ResetStarts
  BY <1>4, ScreenNumbers DEF AlarmEnds, ResetStarts, EndSubscreen
<1>5. CASE UNCHANGED nav
  BY <1>5 DEF nav, place
<1> QED
  BY <1>1, <1>2, <1>3, <1>4, <1>5 DEF NavNext

\* The screens returned to are set to screens that existed.
LEMMA ReturnsStay ==
    ASSUME PlacesKnown, [Next]_vars
    PROVE  uiDisplayPrev' \in Screens /\ uiDisplayOld' \in Screens
           /\ uiLastScreen' \in Screens
<1>1. CASE Display \/ SdMount \/ SdState
  BY <1>1, ScreenNumbers
     DEF PlacesKnown, Display, SdMount, SdState, DisplayStart, DisplayWait, DisplayWaited,
         DisplaySecond, DisplayClear, DisplayFirst, DisplayQuiet, DisplayNotice,
         DisplayDraw, DisplayPrev, DisplayScales, DisplayUpdate, DisplayStay,
         DisplayReturn, ShowStart, ShowSkipped, ShowVideo, ShowEnd, disp, alarm
<1>2. CASE Alarms
  BY <1>2 DEF PlacesKnown, Alarms, AlarmsHeld, AlarmsStart, AlarmsEnabled, AlarmTriggered,
              AlarmAbsent, AlarmSound, AlarmWait, AlarmOver, AlarmScreen, AttitudeAlarm,
              SmsAlarm, SystemAlarm, TemperatureAlarm, AprsAlarm, WifiAlarm,
              RadiationAlarm, SpeedAlarm, AltitudeAlarm, ConfluenceAlarm, DateAlarm,
              PowerAlarm, Noted, disp, alarm
<1>3. CASE ResetBegin \/ ResetEnd
  BY <1>3, ScreenNumbers DEF PlacesKnown, ResetBegin, ResetEnd, disp, alarm
<1>4. CASE User
  BY <1>4 DEF PlacesKnown, User, Turn, Push, Release, AnyTime, alarm
<1>5. CASE World \/ UNCHANGED vars
  BY <1>5 DEF PlacesKnown, World, Raise, vars, disp, alarm
<1> QED
  BY <1>1, <1>2, <1>3, <1>4, <1>5 DEF Next, APP_Tasks

AlarmStates == {<<0, 0>>, <<0, 1>>} \cup ((1..Len(Kinds)) \X (0..2))

\* The state of the alarms, and the kind whose alarm has just ended.
LEMMA AlarmStateStays ==
    ASSUME PlacesKnown, [Next]_vars
    PROVE  /\ uiAlarmState' \in AlarmStates
           /\ pc' = "ended" =>
                 uiAlarmState'[1] \in 1..Len(Kinds) /\ Kinds[uiAlarmState'[1]] # "system"
<1> USE DEF PlacesKnown, AlarmStates
<1>1. NextKind \in AlarmStates
  BY NextKindState
<1>2. Len(Kinds) \in Nat
  BY KindsAssumption
<1>3. CASE Display \/ SdMount \/ SdState
  BY <1>3
     DEF Display, SdMount, SdState, DisplayStart, DisplayWait, DisplayWaited,
         DisplaySecond, DisplayClear, DisplayFirst, DisplayQuiet, DisplayNotice,
         DisplayDraw, DisplayPrev, DisplayScales, DisplayUpdate, DisplayStay,
         DisplayReturn, ShowStart, ShowSkipped, ShowVideo, ShowEnd, alarm
<1>4. CASE Alarms
  <2>1. CASE AlarmTriggered
    <3>1. pc' = "sd"
      BY <2>1 DEF AlarmTriggered, AlarmsTurn
    <3>2. PICK kind, answered : Triggered(kind, answered)
      BY <2>1 DEF AlarmTriggered, AttitudeAlarm, SmsAlarm, SystemAlarm, TemperatureAlarm,
                  AprsAlarm, WifiAlarm, RadiationAlarm, SpeedAlarm, AltitudeAlarm,
                  ConfluenceAlarm, DateAlarm, PowerAlarm
    <3>3. uiAlarmState[1] \in 1..Len(Kinds)
      BY <1>2, <3>2 DEF Triggered, Testing
    <3>4. uiAlarmState' = uiAlarmState \/ uiAlarmState' = <<uiAlarmState[1], 1>>
      BY <3>2 DEF Triggered
    <3> QED
      BY <3>1, <3>3, <3>4
  <2>2. CASE AlarmSound
    <3>1. pc' = "sd"
      BY <2>2 DEF AlarmSound, AlarmsTurn
    <3>2. uiAlarmState[1] \in 1..Len(Kinds)
      BY <1>2, <2>2 DEF AlarmSound
    <3> QED
      BY <2>2, <3>1, <3>2 DEF AlarmSound
  <2>3. CASE AlarmOver
    <3>1. uiAlarmState[1] \in 1..Len(Kinds)
      BY <2>3 DEF AlarmOver, Phase
    <3>2. CASE Kind = "system"
      BY <1>1, <2>3, <3>2 DEF AlarmOver
    <3>3. CASE Kind # "system"
      BY <2>3, <3>1, <3>3 DEF AlarmOver, Kind
    <3> QED
      BY <3>2, <3>3
  <2>4. CASE AlarmsHeld \/ AlarmsStart \/ AlarmsEnabled \/ AlarmAbsent \/ AlarmWait
             \/ AlarmScreen
    BY <1>1, <2>4 DEF AlarmsHeld, AlarmsStart, AlarmsEnabled, AlarmAbsent, AlarmWait,
                      AlarmScreen, AlarmsTurn, alarm
  <2> QED
    BY <1>4, <2>1, <2>2, <2>3, <2>4 DEF Alarms
<1>5. CASE ResetBegin \/ ResetEnd
  BY <1>5 DEF ResetBegin, ResetEnd, alarm
<1>6. CASE User
  BY <1>6 DEF User, Turn, Push, Release, AnyTime, alarm, Kind
<1>7. CASE World \/ UNCHANGED vars
  BY <1>7 DEF World, Raise, vars, alarm, Kind
<1> QED
  BY <1>3, <1>4, <1>5, <1>6, <1>7 DEF Next, APP_Tasks

\* The invariant.
LEMMA PlacesStayKnown == Spec => []PlacesKnown
<1>1. Init => PlacesKnown
  BY ScreenNumbers DEF Init, NavInit, PlacesKnown
<1>2. PlacesKnown /\ [Next]_vars => PlacesKnown'
  <2> SUFFICES ASSUME PlacesKnown, [Next]_vars PROVE PlacesKnown'
    OBVIOUS
  <2>1. uiDisplayScreen' \in Screens
    BY EveryStepMoves, ScreenStays DEF PlacesKnown
  <2> QED
    BY <2>1, ReturnsStay, AlarmStateStays DEF PlacesKnown, AlarmStates, Kind
<1> QED
  BY <1>1, <1>2, PTL DEF Spec

-----------------------------------------------------------------------------
\* The panel implements Navigation: what the display, the alarms, the show and the
\* reset do to the user's place is what it allows, at any moment they do it.
THEOREM PanelRefinesNavigation == Spec => ImplementsNavigation
<1>1. Init => NavInit
  BY DEF Init
<1> QED
  BY <1>1, EveryStepMoves, PlacesStayKnown, PTL DEF Spec, ImplementsNavigation, NavSpec

\* So what holds of every navigation holds of the panel: no subscreen over another's
\* screen, and no edit outside of the settings, but for the causes named.
THEOREM PanelKeepsPlace == Spec => [](SubscreenOnItsParent /\ EditOnlyInSettings)
BY PanelRefinesNavigation, SubscreenBelongs, EditBelongs, PTL DEF ImplementsNavigation

-----------------------------------------------------------------------------
(* AlarmPictureStays                                                       *)

\* While a new screen or the show is drawn no alarm has the display, and a reset
\* leaves the panel empty until the start is repeated.
PictureInv ==
    /\ pc \in {"draw", "prev", "show"} => ~cAlarmScreen /\ uiDisplayState \in {40, 60}
    /\ pc = "reset" => painted = {}

\* The display task.
LEMMA DisplayKeepsPicture == PictureInv /\ (Display \/ SdMount \/ SdState) => PictureInv'
<1> SUFFICES ASSUME PictureInv, Display \/ SdMount \/ SdState PROVE PictureInv'
  OBVIOUS
<1>1. CASE SdMount \/ SdState \/ DisplayStart \/ DisplayWait \/ DisplayWaited \/ DisplaySecond
           \/ DisplayClear \/ DisplayFirst \/ DisplayQuiet \/ DisplayNotice
  BY <1>1 DEF PictureInv, SdMount, SdState, DisplayStart, DisplayWait, DisplayWaited,
              DisplaySecond, DisplayClear, DisplayFirst, DisplayQuiet, DisplayNotice,
              disp, glass, alarm
<1>2. CASE DisplayDraw \/ DisplayPrev \/ DisplayScales \/ DisplayUpdate \/ DisplayStay
           \/ DisplayReturn
  BY <1>2 DEF PictureInv, DisplayDraw, DisplayPrev, DisplayScales, DisplayUpdate,
              DisplayStay, DisplayReturn, disp, glass, alarm
<1>3. CASE ShowStart \/ ShowSkipped \/ ShowVideo \/ ShowEnd
  BY <1>3 DEF PictureInv, ShowStart, ShowSkipped, ShowVideo, ShowEnd, disp, glass, alarm
<1> QED
  BY <1>1, <1>2, <1>3 DEF Display

\* The alarms.
LEMMA AlarmsKeepPicture == PictureInv /\ Alarms => PictureInv'
<1> SUFFICES ASSUME PictureInv, Alarms PROVE PictureInv'
  OBVIOUS
<1>1. CASE AlarmTriggered
  BY <1>1 DEF PictureInv, AlarmTriggered, AlarmsTurn
<1>2. CASE AlarmsHeld \/ AlarmsStart \/ AlarmsEnabled \/ AlarmAbsent \/ AlarmSound \/ AlarmWait
           \/ AlarmScreen
  BY <1>2 DEF PictureInv, AlarmsHeld, AlarmsStart, AlarmsEnabled, AlarmAbsent, AlarmSound,
              AlarmWait, AlarmScreen, AlarmsTurn, disp, glass
<1>3. CASE AlarmOver
  BY <1>3 DEF PictureInv, AlarmOver, PanelCleared, disp
<1> QED
  BY <1>1, <1>2, <1>3 DEF Alarms

LEMMA PictureInvStays == PictureInv /\ [Next]_vars => PictureInv'
<1> SUFFICES ASSUME PictureInv, [Next]_vars PROVE PictureInv'
  OBVIOUS
<1>1. CASE ResetBegin \/ ResetEnd
  BY <1>1 DEF PictureInv, ResetBegin, ResetEnd, PanelCleared, disp, alarm
<1>2. CASE \E right \in BOOLEAN : Turn(right)
  BY <1>2 DEF PictureInv, Turn, AnyTime, alarm
<1>3. CASE \E late, bounced \in BOOLEAN : Push(late, bounced)
  <2>1. PICK late, bounced \in BOOLEAN : Push(late, bounced)
    BY <1>3
  <2>2. painted' = painted \/ painted' = {}
    BY <2>1 DEF Push, CountedPush, PanelCleared, WindowCleared, glass
  <2>3. UNCHANGED <<pc, uiDisplayState, cAlarmScreen>>
    BY <2>1 DEF Push, AnyTime, alarm
  <2> QED
    BY <2>2, <2>3 DEF PictureInv
<1>4. CASE Release \/ World \/ UNCHANGED vars
  BY <1>4 DEF PictureInv, Release, AnyTime, World, Raise, vars, disp, glass, alarm
<1> QED
  BY <1>1, <1>2, <1>3, <1>4, DisplayKeepsPicture, AlarmsKeepPicture DEF Next, APP_Tasks, User

\* What draws over an alarm's picture.
DrawnOver ==
    \/ UNCHANGED <<painted, edges>>
    \/ uiDispFunc' # uiDispFunc
    \/ pc' = "reset"
    \/ pc = "display" /\ uiDisplayState \in {0, 14, 20}
LEMMA PictureKept ==
    ASSUME PictureInv, [Next]_vars,
           cAlarmScreen, Phase \in {1, 2}, Picture \in painted, cAlarmScreen'
    PROVE  DrawnOver
<1> USE DEF DrawnOver
<1>1. CASE DisplayStart \/ DisplaySecond \/ DisplayClear
  BY <1>1 DEF DisplayStart, DisplaySecond, DisplayClear
<1>2. CASE Display /\ ~(DisplayStart \/ DisplaySecond \/ DisplayClear)
  BY <1>2 DEF PictureInv, Display, DisplayWait, DisplayWaited, DisplayFirst,
              DisplayQuiet, DisplayNotice, DisplayDraw, DisplayPrev, DisplayScales,
              DisplayUpdate, DisplayStay, DisplayReturn, ShowStart, ShowSkipped, ShowVideo,
              ShowEnd, glass
<1>3. CASE AlarmTriggered
  <2>1. PICK kind, answered : Triggered(kind, answered)
    BY <1>3 DEF AlarmTriggered, AttitudeAlarm, SmsAlarm, SystemAlarm, TemperatureAlarm,
                AprsAlarm, WifiAlarm, RadiationAlarm, SpeedAlarm, AltitudeAlarm,
                ConfluenceAlarm, DateAlarm, PowerAlarm
  <2> QED
    BY <2>1 DEF Triggered, Testing
<1>4. CASE Alarms /\ ~AlarmTriggered
  BY <1>4 DEF Alarms, AlarmsHeld, AlarmsStart, AlarmsEnabled, AlarmAbsent, AlarmSound,
              AlarmWait, AlarmOver, AlarmScreen, glass
<1>5. CASE ResetBegin \/ ResetEnd \/ SdMount \/ SdState
  BY <1>5 DEF PictureInv, ResetBegin, ResetEnd, SdMount, SdState, glass
<1>6. CASE User
  BY <1>6 DEF User, Turn, Push, CountedPush, SubscreenWipes, Release, glass
<1>7. CASE World \/ UNCHANGED vars
  BY <1>7 DEF World, Raise, vars, glass
<1> QED
  BY <1>1, <1>2, <1>3, <1>4, <1>5, <1>6, <1>7 DEF Next, APP_Tasks

\* The picture of an alarm stays until the alarm is over, whatever the screens, the
\* show, other alarms and turns of the knob do in between (alarms.c, states 40 to 70
\* of display.c).  Only a push that opens or leaves a subscreen, a reset and the start
\* touch it, the start also at power-up: its second picture and its clearing
\* (states 14 and 20) do not ask whether an alarm has the display.
THEOREM AlarmKeepsPicture == Spec => AlarmPictureStays
<1>1. Init => PictureInv
  BY DEF Init, PictureInv
<1>2. PictureInv /\ [Next]_vars =>
        [cAlarmScreen /\ Phase \in {1, 2} /\ Picture \in painted /\ cAlarmScreen'
         => \/ UNCHANGED <<painted, edges>>
            \/ uiDispFunc' # uiDispFunc
            \/ pc' = "reset"
            \/ pc = "display" /\ uiDisplayState \in {0, 14, 20}]_vars
  BY PictureKept DEF DrawnOver
<1> QED
  BY <1>1, <1>2, PictureInvStays, PTL DEF Spec, AlarmPictureStays

-----------------------------------------------------------------------------
(* TypeOK: besides the place (PlaceExists of NavigationProofs) and what    *)
(* PlacesKnown says, the control of the display, the glass, the show, the  *)
(* card and what the environment does.                                     *)

ControlOK ==
    /\ pc \in {"sd", "display", "draw", "prev", "show", "alarms", "ended", "reset"}
    /\ uiDisplayState \in {0, 10, 14, 15, 20, 30, 40, 50, 60, 70}
    /\ uiDisplayLock \in BOOLEAN
GlassOK ==
    /\ painted \subseteq Drawings /\ edges \subseteq Drawings
    /\ stale \subseteq Caches \cup {"any"}
ShowOK == show \in [left : 0..NumVideos, abort : 0..2, next : BOOLEAN]
FlagsOK ==
    /\ cAlarmScreen \in BOOLEAN /\ ucSdReady \in BOOLEAN
    /\ turned \in BOOLEAN /\ pushed \in BOOLEAN /\ held \in BOOLEAN
CardOK == cSdBusy \in BOOLEAN
MixedOK == mixed \in BOOLEAN
CountsOK ==
    /\ raised \subseteq AlarmKinds
    /\ users \in 0..MaxUser /\ alarms \in 0..MaxAlarms /\ resets \in 0..MaxResets

LEMMA ControlStays == ControlOK /\ [Next]_vars => ControlOK'
<1> SUFFICES ASSUME ControlOK, [Next]_vars PROVE ControlOK'
  OBVIOUS
<1> USE DEF ControlOK
<1>1. CASE Display \/ SdMount \/ SdState
  <2>1. CASE SdMount \/ SdState \/ DisplayStart \/ DisplayWait \/ DisplayWaited
             \/ DisplaySecond \/ DisplayClear \/ DisplayFirst \/ DisplayQuiet \/ DisplayNotice
    BY <2>1, ZenonT(60) DEF SdMount, SdState, DisplayStart, DisplayWait, DisplayWaited,
                            DisplaySecond, DisplayClear, DisplayFirst, DisplayQuiet, DisplayNotice,
                            disp
  <2>2. CASE DisplayDraw \/ DisplayPrev \/ DisplayScales \/ DisplayUpdate \/ DisplayStay
             \/ DisplayReturn
    BY <2>2, ZenonT(60) DEF DisplayDraw, DisplayPrev, DisplayScales, DisplayUpdate, DisplayStay,
                DisplayReturn, disp
  <2>3. CASE ShowStart \/ ShowSkipped \/ ShowVideo \/ ShowEnd
    BY <2>3 DEF ShowStart, ShowSkipped, ShowVideo, ShowEnd, disp
  <2> QED
    BY <1>1, <2>1, <2>2, <2>3 DEF Display
<1>2. CASE Alarms
  BY <1>2 DEF Alarms, AlarmsHeld, AlarmsStart, AlarmsEnabled, AlarmTriggered, AlarmAbsent,
              AlarmSound, AlarmWait, AlarmOver, AlarmScreen, AlarmsTurn, disp
<1>3. CASE ResetBegin \/ ResetEnd
  BY <1>3 DEF ResetBegin, ResetEnd, disp
<1>4. CASE User
  BY <1>4 DEF User, Turn, Push, Release, AnyTime
<1>5. CASE World \/ UNCHANGED vars
  BY <1>5 DEF World, Raise, vars, disp
<1> QED
  BY <1>1, <1>2, <1>3, <1>4, <1>5 DEF Next, APP_Tasks

\* The view shown is one of a screen that exists.
LEMMA ViewsShown == NavTypeOK => Current \in Views
<1> SUFFICES ASSUME NavTypeOK PROVE Current \in Views
  OBVIOUS
<1>1. Len(Names) \in Nat /\ uiDisplayScreen \in 0..(Len(Names) - 1)
  BY NamesAssumption DEF NavTypeOK, Screens, NUM_SCREENS
<1>2. uiDisplayScreen + 1 \in 1..Len(Names)
  BY <1>1
<1>3. Name(uiDisplayScreen) \in AllScreens
  BY <1>2, NamesAssumption DEF Name
<1> QED
  BY <1>3 DEF NavTypeOK, Current, View, Views

\* A screen drawn adds its view.
LEMMA ScreensDraw ==
    ASSUME GlassOK, Current \in Views, vUpdateScreen
    PROVE  GlassOK'
BY DEF GlassOK, vUpdateScreen, vDisplayIntro, vDisplaySpeed, vDisplayPosition, vDisplayGyro,
       vDisplayGeiger, vDisplayAprsRadar, vDisplayAprsList, vDisplayWifi, vDisplaySensors,
       vDisplaySats, vDisplayGsm, vDisplaySystem, vDisplaySettings, DrawnEachPass, Cleared,
       vPicturefromSD, PanelCleared, Drawings

LEMMA GlassStays == NavTypeOK /\ GlassOK /\ [Next]_vars => GlassOK'
<1> SUFFICES ASSUME NavTypeOK, GlassOK, [Next]_vars PROVE GlassOK'
  OBVIOUS
<1>1. CASE DisplayDraw
  BY <1>1, ViewsShown, ScreensDraw DEF DisplayDraw
<1>2. CASE DisplayUpdate
  BY <1>2, ViewsShown, ScreensDraw DEF DisplayUpdate, GlassOK, glass
<1>3. CASE ShowStart \/ ShowSkipped \/ ShowVideo \/ ShowEnd
  <2>1. <<"SHOW", "SCREEN">> \in Views
    BY DEF Views, AllScreens
  <2> QED
    BY <1>3, <2>1 DEF GlassOK, Drawings, ShowStart, ShowSkipped, ShowVideo, ShowEnd,
                      vDisplayShow, Cleared, PanelCleared, glass
<1>4. CASE SdMount \/ SdState \/ DisplayStart \/ DisplayWait \/ DisplayWaited \/ DisplaySecond
           \/ DisplayClear \/ DisplayFirst \/ DisplayQuiet \/ DisplayNotice \/ DisplayPrev
           \/ DisplayScales \/ DisplayStay \/ DisplayReturn
  BY <1>4 DEF GlassOK, SdMount, SdState, DisplayStart, DisplayWait, DisplayWaited,
              DisplaySecond, DisplayClear, DisplayFirst, DisplayQuiet, DisplayNotice,
              DisplayPrev, DisplayScales, DisplayStay, DisplayReturn, vPicturefromSD,
              PanelCleared, WindowCleared, Drawings, glass
<1>5. CASE AlarmTriggered
  <2>1. PICK kind, answered : Triggered(kind, answered)
    BY <1>5 DEF AlarmTriggered, AttitudeAlarm, SmsAlarm, SystemAlarm, TemperatureAlarm,
                AprsAlarm, WifiAlarm, RadiationAlarm, SpeedAlarm, AltitudeAlarm,
                ConfluenceAlarm, DateAlarm, PowerAlarm
  <2> QED
    BY <1>5, <2>1 DEF GlassOK, AlarmTriggered, Triggered, vPicturefromSD, Drawings
<1>6. CASE Alarms /\ ~AlarmTriggered
  BY <1>6 DEF GlassOK, Alarms, AlarmsHeld, AlarmsStart, AlarmsEnabled, AlarmAbsent,
              AlarmSound, AlarmWait, AlarmOver, AlarmScreen, PanelCleared, glass
<1>7. CASE ResetBegin \/ ResetEnd
  BY <1>7 DEF GlassOK, ResetBegin, ResetEnd, PanelCleared
<1>8. CASE \E right \in BOOLEAN : Turn(right)
  <2>1. \A cs \in TurnedSub : cs \subseteq Caches \cup {"any"}
    BY DEF TurnedSub, Caches
  <2>2. TurnedScreen \subseteq Caches \cup {"any"}
    BY DEF TurnedScreen, Caches
  <2>3. PICK right \in BOOLEAN : Turn(right)
    BY <1>8
  <2>4. UNCHANGED <<painted, edges>>
    BY <2>3 DEF Turn
  <2>5. stale' = stale \/ \E cs : cs \subseteq Caches \cup {"any"} /\ stale' = stale \cup {"WIFI"} \cup cs
    BY <2>1, <2>2, <2>3 DEF Turn
  <2> QED
    BY <2>4, <2>5 DEF GlassOK, Caches
<1>9. CASE \E late, bounced \in BOOLEAN : Push(late, bounced)
  <2>1. SubscreenMarks \subseteq Caches \cup {"any"}
    BY DEF SubscreenMarks, Caches
  <2> QED
    BY <1>9, <2>1 DEF Push, CountedPush, GlassOK, PanelCleared, WindowCleared, Caches, glass
<1>10. CASE Release \/ World \/ UNCHANGED vars
  BY <1>10 DEF GlassOK, Caches, Release, World, Raise, vars, glass
<1> QED
  BY <1>1, <1>2, <1>3, <1>4, <1>5, <1>6, <1>7, <1>8, <1>9, <1>10
     DEF Next, APP_Tasks, Display, User

LEMMA ShowStays == ShowOK /\ [Next]_vars => ShowOK'
<1> SUFFICES ASSUME ShowOK, [Next]_vars PROVE ShowOK'
  OBVIOUS
<1>1. CASE DisplayDraw \/ DisplayUpdate
  <2>1. vUpdateScreen => show' = show
    BY DEF vUpdateScreen
  <2>2. show' = show
    BY <1>1, <2>1 DEF DisplayDraw, DisplayUpdate
  <2> QED
    BY <2>2 DEF ShowOK
<1>2. CASE ShowStart \/ ShowEnd
  <2>1. 0 \in 0..NumVideos /\ NumVideos \in 0..NumVideos
    BY BoundsAssumption
  <2>2. \E n \in 0..NumVideos : show' = [left |-> n, abort |-> 0, next |-> FALSE]
    BY <1>2, <2>1 DEF ShowStart, ShowEnd, vDisplayShow, NoShow
  <2> QED
    BY <2>2 DEF ShowOK
<1>3. CASE ShowVideo
  <2>1. show.left - 1 \in 0..NumVideos
    BY <1>3, BoundsAssumption DEF ShowOK, ShowVideo
  <2> QED
    BY <1>3, <2>1 DEF ShowOK, ShowVideo
<1>4. CASE Display /\ ~(DisplayDraw \/ DisplayUpdate \/ ShowStart \/ ShowEnd \/ ShowVideo)
  BY <1>4 DEF ShowOK, Display, DisplayStart, DisplayWait, DisplayWaited,
              DisplaySecond, DisplayClear, DisplayFirst, DisplayQuiet, DisplayNotice,
              DisplayPrev, DisplayScales, DisplayStay, DisplayReturn, ShowSkipped
<1>5. CASE Alarms
  BY <1>5 DEF ShowOK, Alarms, AlarmsHeld, AlarmsStart, AlarmsEnabled, AlarmTriggered,
              AlarmAbsent, AlarmSound, AlarmWait, AlarmOver, AlarmScreen
<1>6. CASE SdMount \/ SdState \/ ResetBegin \/ ResetEnd
  BY <1>6 DEF ShowOK, SdMount, SdState, ResetBegin, ResetEnd
<1>7. CASE User
  <2>1. CASE \E right \in BOOLEAN : Turn(right)
    <3>1. \E a \in {1, 2} : show' = show \/ show' = [show EXCEPT !.abort = a]
      BY <2>1 DEF Turn
    <3> QED
      BY <3>1 DEF ShowOK
  <2>2. CASE \E late, bounced \in BOOLEAN : Push(late, bounced)
    <3>1. show' = show \/ show' = [show EXCEPT !.abort = 1, !.next = TRUE]
      BY <2>2 DEF Push, CountedPush
    <3>2. PICK aborted : aborted = [show EXCEPT !.abort = 1]
      OBVIOUS
    <3>3. show' = show \/ show' = [aborted EXCEPT !.next = TRUE]
      BY <3>1, <3>2, Zenon
    <3>4. aborted \in [left : 0..NumVideos, abort : 0..2, next : BOOLEAN]
      BY <3>2 DEF ShowOK
    <3> QED
      BY <3>3, <3>4 DEF ShowOK
  <2>3. CASE Release
    BY <2>3 DEF ShowOK, Release
  <2> QED
    BY <1>7, <2>1, <2>2, <2>3 DEF User
<1>8. CASE World \/ UNCHANGED vars
  BY <1>8 DEF ShowOK, World, Raise, vars
<1> QED
  BY <1>1, <1>2, <1>3, <1>4, <1>5, <1>6, <1>7, <1>8 DEF Next, APP_Tasks

LEMMA FlagsStay == FlagsOK /\ [Next]_vars => FlagsOK'
<1> SUFFICES ASSUME FlagsOK, [Next]_vars PROVE FlagsOK'
  OBVIOUS
<1> USE DEF FlagsOK
<1>1. CASE Display \/ SdMount \/ SdState
  BY <1>1, ZenonT(60) DEF Display, SdMount, SdState, DisplayStart, DisplayWait, DisplayWaited,
              DisplaySecond, DisplayClear, DisplayFirst, DisplayQuiet, DisplayNotice,
              DisplayDraw, DisplayPrev, DisplayScales, DisplayUpdate, DisplayStay,
              DisplayReturn, ShowStart, ShowSkipped, ShowVideo, ShowEnd, alarm, card, env
<1>2. CASE Alarms
  BY <1>2 DEF Alarms, AlarmsHeld, AlarmsStart, AlarmsEnabled, AlarmTriggered, AlarmAbsent,
              AlarmSound, AlarmWait, AlarmOver, AlarmScreen, AttitudeAlarm, SmsAlarm,
              SystemAlarm, TemperatureAlarm, AprsAlarm, WifiAlarm, RadiationAlarm,
              SpeedAlarm, AltitudeAlarm, ConfluenceAlarm, DateAlarm, PowerAlarm, Triggered,
              alarm, card, env
<1>3. CASE ResetBegin \/ ResetEnd
  BY <1>3 DEF ResetBegin, ResetEnd, alarm, card
<1>4. CASE User
  BY <1>4 DEF User, Turn, Push, Release, AnyTime, alarm, card
<1>5. CASE World \/ UNCHANGED vars
  BY <1>5 DEF World, Raise, vars, alarm, card, env
<1> QED
  BY <1>1, <1>2, <1>3, <1>4, <1>5 DEF Next, APP_Tasks

LEMMA CardStays == CardOK /\ [Next]_vars => CardOK'
<1> SUFFICES ASSUME CardOK, [Next]_vars PROVE CardOK'
  OBVIOUS
<1> USE DEF CardOK
<1>1. vSoundfromSD => cSdBusy' \in BOOLEAN
  BY DEF vSoundfromSD
<1>2. CASE Display \/ SdMount \/ SdState
  BY <1>1, <1>2
     DEF Display, SdMount, SdState, DisplayStart, DisplayWait, DisplayWaited,
         DisplaySecond, DisplayClear, DisplayFirst, DisplayQuiet, DisplayNotice,
         DisplayDraw, DisplayPrev, DisplayScales, DisplayUpdate, DisplayStay,
         DisplayReturn, ShowStart, ShowSkipped, ShowVideo, ShowEnd, card
<1>3. CASE Alarms
  BY <1>1, <1>3 DEF Alarms, AlarmsHeld, AlarmsStart, AlarmsEnabled, AlarmTriggered,
              AlarmAbsent, AlarmSound, AlarmWait, AlarmOver, AlarmScreen, card
<1>4. CASE ResetBegin \/ ResetEnd \/ User \/ World \/ UNCHANGED vars
  BY <1>4 DEF ResetBegin, ResetEnd, User, Turn, Push, Release, AnyTime, World, Raise,
              vars, card
<1> QED
  BY <1>2, <1>3, <1>4 DEF Next, APP_Tasks

LEMMA MixedStays == MixedOK /\ [Next]_vars => MixedOK'
<1> SUFFICES ASSUME MixedOK, [Next]_vars PROVE MixedOK'
  OBVIOUS
<1> USE DEF MixedOK
<1>1. CASE Display \/ SdMount \/ SdState
  BY <1>1
     DEF Display, SdMount, SdState, DisplayStart, DisplayWait, DisplayWaited,
         DisplaySecond, DisplayClear, DisplayFirst, DisplayQuiet, DisplayNotice,
         DisplayDraw, DisplayPrev, DisplayScales, DisplayUpdate, DisplayStay,
         DisplayReturn, ShowStart, ShowSkipped, ShowVideo, ShowEnd
<1>2. CASE Alarms
  BY <1>2 DEF Alarms, AlarmsHeld, AlarmsStart, AlarmsEnabled, AlarmTriggered,
              AlarmAbsent, AlarmSound, AlarmWait, AlarmOver, AlarmScreen
<1>3. CASE ResetBegin \/ ResetEnd \/ User \/ World \/ UNCHANGED vars
  BY <1>3 DEF ResetBegin, ResetEnd, User, Turn, Push, Release, AnyTime, World, Raise, vars
<1> QED
  BY <1>1, <1>2, <1>3 DEF Next, APP_Tasks

LEMMA CountsStay == CountsOK /\ [Next]_vars => CountsOK'
<1> SUFFICES ASSUME CountsOK, [Next]_vars PROVE CountsOK'
  OBVIOUS
<1> USE DEF CountsOK
<1>1. CASE Display \/ SdMount \/ SdState
  BY <1>1
     DEF Display, SdMount, SdState, DisplayStart, DisplayWait, DisplayWaited,
         DisplaySecond, DisplayClear, DisplayFirst, DisplayQuiet, DisplayNotice,
         DisplayDraw, DisplayPrev, DisplayScales, DisplayUpdate, DisplayStay,
         DisplayReturn, ShowStart, ShowSkipped, ShowVideo, ShowEnd, env
<1>2. CASE AlarmTriggered
  <2>1. PICK kind, answered : Triggered(kind, answered)
    BY <1>2 DEF AlarmTriggered, AttitudeAlarm, SmsAlarm, SystemAlarm, TemperatureAlarm,
                AprsAlarm, WifiAlarm, RadiationAlarm, SpeedAlarm, AltitudeAlarm,
                ConfluenceAlarm, DateAlarm, PowerAlarm
  <2> QED
    BY <1>2, <2>1 DEF AlarmTriggered, Triggered
<1>3. CASE Alarms /\ ~AlarmTriggered
  BY <1>3 DEF Alarms, AlarmsHeld, AlarmsStart, AlarmsEnabled, AlarmAbsent, AlarmSound,
              AlarmWait, AlarmOver, AlarmScreen, env
<1>4. CASE ResetBegin \/ ResetEnd
  BY <1>4, BoundsAssumption DEF ResetBegin, ResetEnd
<1>5. CASE User
  BY <1>5, BoundsAssumption DEF User, Turn, Push, Release, AnyTime, UserActs
<1>6. CASE World
  <2>1. \A i \in 1..Len(Kinds) : Kinds[i] \in AlarmKinds
    BY KindsAssumption
  <2> QED
    BY <1>6, <2>1, BoundsAssumption DEF World, Raise
<1>7. CASE UNCHANGED vars
  BY <1>7 DEF vars, env
<1> QED
  BY <1>1, <1>2, <1>3, <1>4, <1>5, <1>6, <1>7 DEF Next, APP_Tasks

\* The state of the panel stays what the code's variables can hold, for any screens,
\* kinds of alarms, videos and bounds: no unknown display state, no count beyond
\* the show's videos, no alarm state past the last kind, nothing but views painted.
THEOREM PanelTypes == Spec => []TypeOK
<1> DEFINE Rest == ControlOK /\ GlassOK /\ ShowOK /\ FlagsOK /\ CardOK /\ MixedOK /\ CountsOK
<1>1. Spec => []NavTypeOK
  BY PanelRefinesNavigation, PlaceExists, PTL DEF ImplementsNavigation
<1>2. Init => Rest
  <2> SUFFICES ASSUME Init PROVE Rest
    OBVIOUS
  <2>1. ControlOK /\ FlagsOK /\ CardOK /\ MixedOK
    BY Zenon DEF Init, ControlOK, FlagsOK, CardOK, MixedOK
  <2>2. GlassOK /\ ShowOK /\ CountsOK
    BY BoundsAssumption DEF Init, GlassOK, Caches, ShowOK, NoShow, CountsOK
  <2> QED
    BY <2>1, <2>2
<1>3. NavTypeOK /\ Rest /\ [Next]_vars => Rest'
  BY ControlStays, GlassStays, ShowStays, FlagsStay, CardStays, MixedStays, CountsStay
<1>4. NavTypeOK /\ PlacesKnown /\ Rest => TypeOK
  BY DEF PlacesKnown, TypeOK, ControlOK, GlassOK, ShowOK, FlagsOK, CardOK, MixedOK, CountsOK
<1> QED
  BY <1>1, <1>2, <1>3, <1>4, PlacesStayKnown, PTL DEF Spec
=============================================================================
