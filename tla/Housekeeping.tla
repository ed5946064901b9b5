---------------------------- MODULE Housekeeping ----------------------------
(***************************************************************************)
(* The periodic tasks at the end of a pass of APP_Tasks and the one that   *)
(* reads the temperature: Temperature_State (temperature.c), vMisc_State   *)
(* and vPress_State (app.c), Auto_Contrast (contrast.c), together with the *)
(* knob and the button, which hold off and cause the reset.                *)
(*                                                                         *)
(* Each task takes one step in a pass.  They pace each other: vMisc_State  *)
(* starts a measurement of the temperature in every fifth pass, whether or *)
(* not the last one was read, and the contrast in some of its rounds.      *)
(* An interrupt between two tasks works like one before the pass: of what  *)
(* it writes only vMisc_State reads something, and that at one place.      *)
(***************************************************************************)
EXTENDS Navigation, Integers

CONSTANTS
    PushLength,       \* rounds the button is to be held for a reset (60)
    ContrastPause,    \* rounds between two steps of the contrast (5)
    ContrastSamples,  \* light readings of one contrast, less one (9)
    TempPause,        \* passes the temperature may rest (50)
    ConversionPasses, \* bound: the most passes the sensor takes
    MaxMissed         \* bound: conversions too slow for a round, one after the other

ASSUME HousekeepingAssumption ==
    /\ PushLength \in Nat /\ ContrastPause \in Nat /\ ContrastSamples \in Nat
    /\ TempPause \in Nat /\ ConversionPasses \in Nat \ {0} /\ MaxMissed \in Nat

VARIABLES
    pc,              \* the task that is next, or "reset": in its delay
    uiTempState, uiTempCount,
    converting,      \* the sensor: passes until the result is there
    age,             \* (history) passes since the last reading
    missed,          \* (history) conversions since it that took more than three passes
    uiMiscState, ulResetCounter, ulMiscCount,
    held,            \* the button is down
    uiContrastState, uiContrastAve,
    uiPressState, ucCalStarted, ucCalDone,
    dCalAltitude     \* "none", "low" (0.2 or less), "high"

temp == <<uiTempState, uiTempCount, converting, age, missed>>
misc == <<uiMiscState, ulResetCounter, ulMiscCount>>
contrast == <<uiContrastState, uiContrastAve>>
press == <<uiPressState, ucCalStarted, ucCalDone, dCalAltitude>>
vars == <<nav, pc, temp, misc, held, contrast, press>>

Init ==
    /\ NavInit /\ pc = "temperature"
    /\ uiTempState = 0 /\ uiTempCount = 0 /\ converting = 0 /\ age = 0 /\ missed = 0
    /\ uiMiscState = 0 /\ ulResetCounter = 0 /\ ulMiscCount = 0
    /\ held = FALSE
    /\ uiContrastState = 0 /\ uiContrastAve = 0
    /\ uiPressState = 0 /\ ucCalStarted = FALSE /\ ucCalDone = FALSE
    /\ dCalAltitude = "none"

-----------------------------------------------------------------------------
(* Temperature_State.  The sensor goes on while the passes do.             *)

Convert == converting' = IF converting > 0 THEN converting - 1 ELSE 0
Temperature(next) == uiTempState' = next
TempIdle == uiTempState = 0 /\ Temperature(0) /\ Convert
            /\ UNCHANGED <<uiTempCount, missed>> /\ age' = age + 1
\* ucStartSampling: reset of the one-wire bus, "skip ROM", "convert"
TempStart ==
    /\ uiTempState = 1 /\ Temperature(2)
    /\ converting' \in 0..(ConversionPasses - 1)
    /\ missed' = IF converting' > 2 THEN missed + 1 ELSE missed
    /\ missed' <= MaxMissed
    /\ UNCHANGED uiTempCount /\ age' = age + 1
\* The sensor holds the wire low while it converts.
TempWait ==
    /\ uiTempState = 2
    /\ Temperature(IF converting = 0 THEN 3 ELSE 2) /\ Convert
    /\ UNCHANGED <<uiTempCount, missed>> /\ age' = age + 1
TempRead ==
    /\ uiTempState = 3 /\ Temperature(4) /\ Convert
    /\ UNCHANGED uiTempCount /\ age' = 0 /\ missed' = 0
\* The count goes on from round to round: vMisc_State cuts the rest short.
TempRest ==
    /\ uiTempState = 4
    /\ IF uiTempCount > TempPause THEN uiTempCount' = 0 /\ Temperature(5)
       ELSE uiTempCount' = uiTempCount + 1 /\ Temperature(4)
    /\ Convert /\ UNCHANGED missed /\ age' = age + 1
TempAgain ==
    /\ uiTempState = 5 /\ Temperature(1) /\ Convert
    /\ UNCHANGED <<uiTempCount, missed>> /\ age' = age + 1

Temperature_State ==
    /\ pc = "temperature" /\ pc' = "misc"
    /\ TempIdle \/ TempStart \/ TempWait \/ TempRead \/ TempRest \/ TempAgain
    /\ UNCHANGED <<nav, misc, held, contrast, press>>

-----------------------------------------------------------------------------
(* Auto_Contrast: a conversion of the light sensor, or a new start of the  *)
(* converter if there is none; the contrast of some of them together.      *)

Auto_Contrast ==
    \/ /\ uiContrastState \in {0, 1} /\ uiContrastState' = uiContrastState + 1
       /\ UNCHANGED uiContrastAve
    \/ /\ uiContrastState = 2 /\ uiContrastState' \in {3, 2, 0}
       /\ UNCHANGED uiContrastAve
    \/ /\ uiContrastState = 3 /\ uiContrastState' = 0
       /\ uiContrastAve' = IF uiContrastAve < ContrastSamples THEN uiContrastAve + 1 ELSE 0

-----------------------------------------------------------------------------
(* vMisc_State, one of its states in a pass                                *)

Misc(from, to) ==
    /\ pc = "misc" /\ pc' = "press"
    /\ uiMiscState = from /\ uiMiscState' = to
MiscStart ==
    /\ Misc(0, 10)
    /\ UNCHANGED <<nav, temp, ulResetCounter, ulMiscCount, held, contrast, press>>
MiscTemperature ==
    /\ Misc(10, 20)
    /\ uiTempState' = 1
    /\ UNCHANGED <<nav, uiTempCount, converting, age, missed, ulResetCounter, ulMiscCount,
                   held, contrast, press>>
\* The button is looked at; a frequency being edited keeps the count.
MiscButton ==
    /\ Misc(20, 30)
    /\ ulResetCounter' = IF ~held THEN 0
                         ELSE IF cEdit = "frequency" THEN ulResetCounter
                         ELSE ulResetCounter + 1
    /\ ulResetCounter' <= PushLength
    /\ UNCHANGED <<nav, temp, ulMiscCount, held, contrast, press>>
MiscContrast ==
    /\ Misc(30, 40)
    /\ IF ulMiscCount > ContrastPause THEN Auto_Contrast /\ ulMiscCount' = 0
       ELSE ulMiscCount' = ulMiscCount + 1 /\ UNCHANGED contrast
    /\ UNCHANGED <<nav, temp, ulResetCounter, held, press>>
\* Mutant: a round without the clock's pass is too short for the sensor.
MiscMessageShort ==
    /\ Misc(40, 10)
    /\ UNCHANGED <<nav, temp, ulResetCounter, ulMiscCount, held, contrast, press>>
\* A setting in an SMS, the clock: what they set is left out.
MiscMessage ==
    /\ Misc(40, 50)
    /\ UNCHANGED <<nav, temp, ulResetCounter, ulMiscCount, held, contrast, press>>
MiscClock ==
    /\ Misc(50, 10)
    /\ UNCHANGED <<nav, temp, ulResetCounter, ulMiscCount, held, contrast, press>>

\* vResetDevice, up to its delay and after it
ResetBegin ==
    /\ pc = "misc" /\ uiMiscState = 20 /\ held /\ cEdit # "frequency"
    /\ ulResetCounter = PushLength
    /\ pc' = "reset"
    /\ ResetStarts
    /\ UNCHANGED <<temp, misc, held, contrast, press>>
ResetEnd ==
    /\ pc = "reset" /\ pc' = "press"
    /\ SetScreen(0)
    /\ uiMiscState' = 30 /\ ulResetCounter' = 0 /\ ulMiscCount' = 0
    /\ uiPressState' = 0 /\ ucCalDone' = FALSE
    /\ UNCHANGED <<temp, held, contrast, ucCalStarted, dCalAltitude>>
vMisc_State == MiscStart \/ MiscTemperature \/ MiscButton \/ MiscContrast \/ MiscMessage
               \/ MiscClock \/ ResetBegin \/ ResetEnd

-----------------------------------------------------------------------------
(* vPress_State: the barometer is calibrated once by the altitude of GPS.  *)

PressStart == uiPressState = 0 /\ uiPressState' = 10
              /\ UNCHANGED <<ucCalStarted, ucCalDone, dCalAltitude>>
\* With a position, unless a calibration was ever begun.
PressBegin ==
    /\ uiPressState = 10 /\ ~ucCalDone /\ ~ucCalStarted
    /\ ucCalStarted' = TRUE /\ uiPressState' = 20
    /\ UNCHANGED <<ucCalDone, dCalAltitude>>
\* Ten seconds later an altitude is taken, and
PressTake == uiPressState = 20 /\ ucCalStarted /\ uiPressState' = 30
             /\ UNCHANGED <<ucCalStarted, ucCalDone, dCalAltitude>>
\* ten seconds after that, or in motion, becomes that of the calibration.
PressCalibrate ==
    /\ uiPressState = 30 /\ uiPressState' = 50
    /\ ucCalDone' = TRUE /\ dCalAltitude' \in {"low", "high"}
    /\ UNCHANGED ucCalStarted
\* Altitude and rate of climb by pressure, or no calibration after all
PressAltitude ==
    /\ uiPressState = 50 /\ ucCalDone
    /\ IF dCalAltitude = "low" THEN ucCalDone' = FALSE /\ ucCalStarted' = FALSE
       ELSE UNCHANGED <<ucCalDone, ucCalStarted>>
    /\ UNCHANGED <<uiPressState, dCalAltitude>>
\* No position yet, a time not over yet, or nothing more to do.
PressWait == uiPressState \in {10, 20, 30, 50} /\ (uiPressState = 50 => ~ucCalDone)
             /\ UNCHANGED press

vPress_State ==
    /\ pc = "press" /\ pc' = "temperature"
    /\ \/ PressStart \/ PressBegin \/ PressTake \/ PressCalibrate
       \/ PressAltitude \/ PressWait
    /\ UNCHANGED <<nav, temp, misc, held, contrast>>

-----------------------------------------------------------------------------
(* Knob and button, and the tasks of the display and the alarms            *)

Between == pc \in {"temperature", "reset"} /\ UNCHANGED <<pc, temp, misc, contrast, press>>
Turn == Between /\ (\E right \in BOOLEAN : NavTurn(right)) /\ UNCHANGED held
Push == Between /\ ~held /\ held' = TRUE
        /\ \E s \in Screens : NavPush(s) \/ SetScreen(s)
Release == Between /\ held /\ held' = FALSE /\ UNCHANGED nav
OtherTasks == /\ pc = "temperature" /\ (MainLoopSets \/ AlarmEnds)
              /\ UNCHANGED <<pc, temp, misc, held, contrast, press>>

Next == \/ Temperature_State \/ vMisc_State \/ vPress_State
        \/ Turn \/ Push \/ Release \/ OtherTasks
Spec == Init /\ [][Next]_vars

-----------------------------------------------------------------------------
(* Properties                                                              *)

\* The temperature is read in every round of vMisc_State, though that begins a new
\* measurement after five passes without asking for the last one: but for those that
\* took the sensor more than three passes, each of which costs one round.
TemperatureFresh == age <= 6 + 5 * missed
=============================================================================
