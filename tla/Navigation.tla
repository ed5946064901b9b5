----------------------------- MODULE Navigation -----------------------------
(***************************************************************************)
(* Where the user is: the screen, its subscreen and the setting edited, as *)
(* the knob and the button change them in the change notification          *)
(* interrupt (switch.c), and as the main loop changes them under the user: *)
(* the start, an alarm, the return from one, the demo show and the reset   *)
(* of the device each set the screen or the function of the display, and   *)
(* none sets all of them.                                                  *)
(*                                                                         *)
(* Screens are the numbers of display.h; Names gives the screen of each    *)
(* number, so that an instance may leave some out.  When the main loop     *)
(* takes one of its steps is left open here: Panel has the reasons and     *)
(* implements this specification.                                          *)
(***************************************************************************)
EXTENDS Naturals, Sequences

CONSTANTS
    Names,  \* screens in the order of their numbers, INTRO first
    Lines   \* kinds of the settings lines: "option", "frequency", "value"

AllScreens == {"INTRO", "SPEED", "POSITION", "GYRO", "GEIGER", "APRSRADAR",
               "APRSLIST", "WIFI", "SENSORS", "SATS", "GSM", "SYSTEM",
               "SETTINGS", "SHOW"}
\* screens a push opens a subscreen on
Parents == {"INTRO", "GEIGER", "APRSLIST", "APRSRADAR", "SETTINGS", "POSITION"}

ASSUME NamesAssumption ==
    /\ Names \in Seq(AllScreens) /\ Len(Names) >= 2 /\ Names[1] = "INTRO"
    /\ \A i, j \in 1..Len(Names) : Names[i] = Names[j] => i = j
    /\ \A n \in {"SPEED", "GYRO", "SETTINGS"} :
          \E i \in 1..Len(Names) : Names[i] = n
ASSUME LinesAssumption == Lines \in Seq({"option", "frequency", "value"})

NUM_SCREENS == Len(Names) - 1
Screens == 0..NUM_SCREENS
Name(s) == Names[s + 1]
Present(n) == \E s \in Screens : Name(s) = n
Number(n) == CHOOSE s \in Screens : Name(s) = n

VARIABLES
    uiDisplayScreen,
    uiDispFunc,
    uiDisplaySubscreen,  \* the screen it belongs to
    cEdit,     \* "none", "frequency" (cEditFreq), "value" (the other three)
    cSetting,  \* the line, 0 is "Done"
    strayed,   \* history: since the subscreen was entered, the screen was set
    cut        \* history: an edit was cut off by an alarm or a reset

place == <<uiDisplayScreen, uiDispFunc, uiDisplaySubscreen, cEdit, cSetting>>
nav == <<place, strayed, cut>>

NavTypeOK ==
    /\ uiDisplayScreen \in Screens
    /\ uiDispFunc \in {"SCREEN", "SUBSCREEN"}
    /\ uiDisplaySubscreen \in Parents \cup {"none"}
    /\ cEdit \in {"none", "frequency", "value"}
    /\ cSetting \in 0..Len(Lines)
    /\ strayed \in BOOLEAN /\ cut \in BOOLEAN

NavInit ==
    /\ uiDisplayScreen = 0 /\ uiDispFunc = "SCREEN" /\ uiDisplaySubscreen = "none"
    /\ cEdit = "none" /\ cSetting = 0
    /\ strayed = FALSE /\ cut = FALSE

InSub == uiDispFunc = "SUBSCREEN"
Editing == cEdit # "none" /\ InSub

\* The screen is set and nothing else: its subscreen, if any, stays.
SetScreen(s) ==
    /\ uiDisplayScreen' = s
    /\ strayed' = (strayed \/ (InSub /\ s # uiDisplayScreen))
    /\ UNCHANGED <<uiDispFunc, uiDisplaySubscreen, cEdit, cSetting, cut>>
\* The subscreen is left for screen s.
Leave(s) ==
    /\ uiDispFunc' = "SCREEN" /\ uiDisplayScreen' = s
    /\ strayed' = FALSE
    /\ UNCHANGED <<uiDisplaySubscreen, cEdit, cSetting, cut>>

-----------------------------------------------------------------------------
(* BTN_RIGHT (by = 1) and BTN_LEFT (by = -1 modulo the number of choices)  *)

Around(x, right, max) == IF right THEN IF x = max THEN 0 ELSE x + 1
                         ELSE IF x = 0 THEN max ELSE x - 1
\* Mutant: out of a subscreen, too
TurnScreenAnywhere(right) ==
    /\ uiDisplayScreen' = Around(uiDisplayScreen, right, NUM_SCREENS)
    /\ UNCHANGED <<uiDispFunc, uiDisplaySubscreen, cEdit, cSetting, strayed, cut>>
TurnScreen(right) ==
    /\ ~InSub
    /\ uiDisplayScreen' = Around(uiDisplayScreen, right, NUM_SCREENS)
    /\ UNCHANGED <<uiDispFunc, uiDisplaySubscreen, cEdit, cSetting, strayed, cut>>
TurnSetting(right) ==
    /\ InSub /\ ~Editing /\ uiDisplaySubscreen = "SETTINGS"
    /\ cSetting' = Around(cSetting, right, Len(Lines))
    /\ UNCHANGED <<uiDisplayScreen, uiDispFunc, uiDisplaySubscreen, cEdit, strayed,
                   cut>>
\* Station, zoom, picture, sea level, the value edited, or nothing.
TurnValue ==
    /\ InSub /\ (Editing \/ uiDisplaySubscreen # "SETTINGS")
    /\ UNCHANGED nav
NavTurn(right) == TurnScreen(right) \/ TurnSetting(right) \/ TurnValue

-----------------------------------------------------------------------------
(* BTN_PUSH.  A push shortly after a turn first takes the screen back to   *)
(* an earlier one: s is the screen then.                                   *)

Acts == {"SYSTEM", "SHOW", "GYRO"}  \* a push does something on the screen

\* Mutant: the subscreen is left instead, and the edit with it.
EndEditByLeaving(s) == Editing /\ Leave(s)
EndEdit(s) ==
    /\ Editing
    /\ cEdit' = "none" /\ cut' = FALSE
    /\ uiDisplayScreen' = s
    /\ strayed' = (strayed \/ s # uiDisplayScreen)
    /\ UNCHANGED <<uiDispFunc, uiDisplaySubscreen, cSetting>>
ActOnScreen(s) == ~Editing /\ Name(s) \in Acts /\ SetScreen(s)
ChooseLine(s) ==
    /\ ~Editing /\ InSub /\ Name(s) \notin Acts
    /\ uiDisplaySubscreen = "SETTINGS" /\ cSetting # 0
    /\ cEdit' = IF Lines[cSetting] = "option" THEN cEdit ELSE Lines[cSetting]
    /\ uiDisplayScreen' = s
    /\ strayed' = (strayed \/ s # uiDisplayScreen)
    /\ UNCHANGED <<uiDispFunc, uiDisplaySubscreen, cSetting, cut>>
LeaveSubscreen(s) ==
    /\ ~Editing /\ InSub /\ Name(s) \notin Acts
    /\ uiDisplaySubscreen = "SETTINGS" => cSetting = 0
    /\ Leave(IF uiDisplaySubscreen = "INTRO" THEN Number("SPEED") ELSE s)
EnterSubscreen(s) ==
    /\ ~InSub /\ Name(s) \in Parents
    /\ uiDispFunc' = "SUBSCREEN" /\ uiDisplaySubscreen' = Name(s)
    /\ uiDisplayScreen' = s
    /\ UNCHANGED <<cEdit, cSetting, strayed, cut>>
\* No subscreen, or none without an altitude: at most a beep.
NoSubscreen(s) ==
    /\ ~InSub /\ Name(s) \notin (Parents \ {"POSITION"}) \cup Acts
    /\ SetScreen(s)
NavPush(s) ==
    \/ EndEdit(s) \/ ActOnScreen(s) \/ ChooseLine(s) \/ LeaveSubscreen(s)
    \/ EnterSubscreen(s) \/ NoSubscreen(s)

-----------------------------------------------------------------------------
(* The main loop                                                           *)

\* The logo is over: GYRO; the return from an alarm, and its target: any
\* screen; the end of the show; and a push too early to count, which reverts.
MainLoopSets == \E s \in Screens : SetScreen(s)
\* An alarm and a reset end the function of the display first ...
EndSubscreen(s) ==
    /\ uiDispFunc' = "SCREEN" /\ uiDisplayScreen' = s
    /\ strayed' = FALSE
    /\ cut' = (cut \/ Editing)
AlarmEnds ==
    EndSubscreen(uiDisplayScreen) /\ UNCHANGED <<uiDisplaySubscreen, cEdit, cSetting>>
\* ... not within the edit of a frequency, which keeps the reset off.
ResetStarts ==
    /\ cEdit # "frequency"
    /\ EndSubscreen(0)
    /\ uiDisplaySubscreen' = "none"
    /\ UNCHANGED <<cEdit, cSetting>>

NavNext ==
    \/ \E right \in BOOLEAN : NavTurn(right)
    \/ \E s \in Screens : NavPush(s)
    \/ MainLoopSets \/ AlarmEnds \/ ResetStarts
NavSpec == NavInit /\ [][NavNext]_nav

-----------------------------------------------------------------------------
(* Properties                                                              *)

\* The subscreen shown is that of the screen, but after the main loop or a
\* revert set the screen under it: no turn leads out of a subscreen.
SubscreenOnItsParent ==
    InSub /\ uiDisplaySubscreen # Name(uiDisplayScreen) => strayed

\* A setting is edited in the settings only, but where an alarm or a reset cut
\* the edit off: then the knob edits it in the next subscreen, whichever it is.
EditOnlyInSettings == Editing /\ uiDisplaySubscreen # "SETTINGS" => cut
=============================================================================
