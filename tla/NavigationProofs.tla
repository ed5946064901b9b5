-------------------------- MODULE NavigationProofs --------------------------
(***************************************************************************)
(* The invariants of Navigation, for any order of the screens, any list of *)
(* settings and any number of turns, pushes, alarms and resets.            *)
(*                                                                         *)
(* EditOnlyInSettings is not inductive: an edit that is left standing when *)
(* its subscreen is left would come back in the next one.  EditEnds says   *)
(* that none is, but those cut off.                                        *)
(***************************************************************************)
EXTENDS Navigation, TLAPS

\* An edit ends within the settings, or was cut off.
EditEnds ==
    cEdit # "none" /\ ~(InSub /\ uiDisplaySubscreen = "SETTINGS") => cut

NavInv == NavTypeOK /\ SubscreenOnItsParent /\ EditEnds

-----------------------------------------------------------------------------
\* The numbers of the screens, and that SPEED, where the intro's subscreen ends,
\* has one.
LEMMA ScreenNumbers ==
    /\ NUM_SCREENS \in Nat /\ NUM_SCREENS >= 1
    /\ 0 \in Screens
    /\ Number("SPEED") \in Screens
<1>1. Len(Names) \in Nat /\ Len(Names) >= 2
  BY NamesAssumption
<1>2. PICK i \in 1..Len(Names) : Names[i] = "SPEED"
  BY NamesAssumption
<1>3. i - 1 \in Screens /\ Name(i - 1) = "SPEED"
  BY <1>1, <1>2 DEF Screens, NUM_SCREENS, Name
<1> QED
  BY <1>1, <1>3 DEF Screens, NUM_SCREENS, Number

\* One step of the knob stays within its choices.
LEMMA AroundStays ==
    ASSUME NEW max \in Nat, NEW x \in 0..max, NEW right \in BOOLEAN
    PROVE  Around(x, right, max) \in 0..max
BY DEF Around

\* Setting the screen, from switch.c or from the main loop, keeps the invariant.
LEMMA SetScreenKeeps ==
    ASSUME NavInv, NEW s \in Screens, SetScreen(s)
    PROVE  NavInv'
<1>1. NavTypeOK'
  <2>1. strayed' \in BOOLEAN
    BY DEF SetScreen
  <2> QED
    BY <2>1 DEF NavInv, NavTypeOK, SetScreen
<1>2. SubscreenOnItsParent'
  BY DEF NavInv, NavTypeOK, SubscreenOnItsParent, SetScreen, InSub, Name
<1>3. EditEnds'
  BY DEF NavInv, EditEnds, SetScreen, InSub
<1> QED
  BY <1>1, <1>2, <1>3 DEF NavInv

\* The knob.
LEMMA TurnKeeps ==
    ASSUME NavInv, NEW right \in BOOLEAN, NavTurn(right)
    PROVE  NavInv'
<1>1. CASE TurnScreen(right)
  <2>1. uiDisplayScreen' \in Screens
    <3>1. uiDisplayScreen \in 0..NUM_SCREENS
      BY DEF NavInv, NavTypeOK, Screens
    <3>2. Around(uiDisplayScreen, right, NUM_SCREENS) \in 0..NUM_SCREENS
      BY <3>1, ScreenNumbers, AroundStays
    <3> QED
      BY <1>1, <3>2 DEF TurnScreen, Screens
  <2>2. NavTypeOK'
    BY <1>1, <2>1 DEF NavInv, NavTypeOK, TurnScreen
  <2> QED
    BY <1>1, <2>2 DEF NavInv, SubscreenOnItsParent, EditEnds, TurnScreen, InSub
<1>2. CASE TurnSetting(right)
  <2>1. cSetting' \in 0..Len(Lines)
    <3>1. Len(Lines) \in Nat
      BY LinesAssumption
    <3>2. Around(cSetting, right, Len(Lines)) \in 0..Len(Lines)
      BY <3>1, AroundStays DEF NavInv, NavTypeOK
    <3> QED
      BY <1>2, <3>2 DEF TurnSetting
  <2>2. NavTypeOK'
    BY <1>2, <2>1 DEF NavInv, NavTypeOK, TurnSetting
  <2> QED
    BY <1>2, <2>2 DEF NavInv, SubscreenOnItsParent, EditEnds, TurnSetting, InSub, Name
<1>3. CASE TurnValue
  BY <1>3 DEF NavInv, NavTypeOK, SubscreenOnItsParent, EditEnds, TurnValue, InSub, Name,
              nav, place
<1> QED
  BY <1>1, <1>2, <1>3 DEF NavTurn

\* The button: each of the things a push can do.
LEMMA PushKeeps ==
    ASSUME NavInv, NEW s \in Screens, NavPush(s)
    PROVE  NavInv'
<1>1. CASE EndEdit(s)
  <2>1. NavTypeOK'
    <3>1. strayed' \in BOOLEAN
      BY <1>1 DEF EndEdit
    <3> QED
      BY <1>1, <3>1 DEF NavInv, NavTypeOK, EndEdit
  <2>2. SubscreenOnItsParent'
    BY <1>1 DEF NavInv, NavTypeOK, SubscreenOnItsParent, EndEdit, InSub, Name
  <2> QED
    BY <1>1, <2>1, <2>2 DEF NavInv, EditEnds, EndEdit
<1>2. CASE ActOnScreen(s)
  BY <1>2, SetScreenKeeps DEF ActOnScreen
<1>3. CASE ChooseLine(s)
  <2>1. NavTypeOK'
    <3>1. cSetting \in 1..Len(Lines)
      BY <1>3, LinesAssumption DEF NavInv, NavTypeOK, ChooseLine
    <3>2. Lines[cSetting] \in {"option", "frequency", "value"}
      BY <3>1, LinesAssumption
    <3>3. strayed' \in BOOLEAN
      BY <1>3 DEF ChooseLine
    <3> QED
      BY <1>3, <3>2, <3>3 DEF NavInv, NavTypeOK, ChooseLine
  <2>2. SubscreenOnItsParent'
    BY <1>3 DEF NavInv, NavTypeOK, SubscreenOnItsParent, ChooseLine, InSub, Name
  <2>3. EditEnds'
    BY <1>3 DEF EditEnds, ChooseLine, InSub
  <2> QED
    BY <2>1, <2>2, <2>3 DEF NavInv
<1>4. CASE LeaveSubscreen(s)
  <2>1. cEdit' = "none" /\ uiDispFunc' = "SCREEN"
    BY <1>4 DEF LeaveSubscreen, Leave, Editing, InSub
  <2>2. uiDisplayScreen' \in Screens
    BY <1>4, ScreenNumbers DEF LeaveSubscreen, Leave
  <2>3. NavTypeOK'
    <3>1. strayed' \in BOOLEAN
      BY <1>4 DEF LeaveSubscreen, Leave
    <3> QED
      BY <1>4, <2>1, <2>2, <3>1 DEF NavInv, NavTypeOK, LeaveSubscreen, Leave
  <2> QED
    BY <2>1, <2>3 DEF NavInv, SubscreenOnItsParent, EditEnds, InSub
<1>5. CASE EnterSubscreen(s)
  <2>1. NavTypeOK'
    BY <1>5 DEF NavInv, NavTypeOK, EnterSubscreen
  <2>2. SubscreenOnItsParent'
    BY <1>5 DEF SubscreenOnItsParent, EnterSubscreen, Name
  <2>3. EditEnds'
    BY <1>5 DEF NavInv, EditEnds, EnterSubscreen, InSub
  <2> QED
    BY <2>1, <2>2, <2>3 DEF NavInv
<1>6. CASE NoSubscreen(s)
  BY <1>6, SetScreenKeeps DEF NoSubscreen
<1> QED
  BY <1>1, <1>2, <1>3, <1>4, <1>5, <1>6 DEF NavPush

\* What an alarm and a reset do first: an edit is cut off with its subscreen.
LEMMA EndSubscreenKeeps ==
    ASSUME NavInv, NEW s \in Screens, EndSubscreen(s),
           uiDisplaySubscreen' \in {uiDisplaySubscreen, "none"},
           UNCHANGED <<cEdit, cSetting>>
    PROVE  NavInv'
<1>1. strayed' \in BOOLEAN /\ cut' \in BOOLEAN
  BY DEF EndSubscreen
<1>2. NavTypeOK'
  BY <1>1 DEF NavInv, NavTypeOK, EndSubscreen
<1>3. EditEnds'
  BY DEF NavInv, EditEnds, EndSubscreen, Editing, InSub
<1> QED
  BY <1>2, <1>3 DEF NavInv, SubscreenOnItsParent, EndSubscreen, InSub

\* The invariant holds at the start and is kept by every step.
LEMMA NavInvHolds == NavSpec => []NavInv
<1>1. NavInit => NavInv
  <2> SUFFICES ASSUME NavInit PROVE NavInv
    OBVIOUS
  <2>1. strayed \in BOOLEAN /\ cut \in BOOLEAN
    BY Zenon DEF NavInit
  <2>2. 0 \in 0..Len(Lines)
    BY LinesAssumption
  <2>3. NavTypeOK
    BY <2>1, <2>2, ScreenNumbers DEF NavInit, NavTypeOK
  <2> QED
    BY <2>3 DEF NavInit, NavInv, SubscreenOnItsParent, EditEnds, InSub
<1>2. NavInv /\ [NavNext]_nav => NavInv'
  <2> SUFFICES ASSUME NavInv, [NavNext]_nav PROVE NavInv'
    OBVIOUS
  <2>1. CASE \E right \in BOOLEAN : NavTurn(right)
    BY <2>1, TurnKeeps
  <2>2. CASE \E s \in Screens : NavPush(s)
    BY <2>2, PushKeeps
  <2>3. CASE MainLoopSets
    BY <2>3, SetScreenKeeps DEF MainLoopSets
  <2>4. CASE AlarmEnds
    <3>1. uiDisplayScreen \in Screens
      BY DEF NavInv, NavTypeOK
    <3> QED
      BY <2>4, <3>1, EndSubscreenKeeps DEF AlarmEnds
  <2>5. CASE ResetStarts
    BY <2>5, ScreenNumbers, EndSubscreenKeeps DEF ResetStarts
  <2>6. CASE UNCHANGED nav
    BY <2>6 DEF NavInv, NavTypeOK, SubscreenOnItsParent, EditEnds, InSub, Name, nav, place
  <2> QED
    BY <2>1, <2>2, <2>3, <2>4, <2>5, <2>6 DEF NavNext
<1> QED
  BY <1>1, <1>2, PTL DEF NavSpec

-----------------------------------------------------------------------------
\* The place of the user is a screen, a subscreen and a line that exist.
THEOREM PlaceExists == NavSpec => []NavTypeOK
BY NavInvHolds, PTL DEF NavInv

\* A subscreen over another screen is always the work of the main loop or of a
\* revert (switch.c, display.c state 30, alarms.c).
THEOREM SubscreenBelongs == NavSpec => []SubscreenOnItsParent
BY NavInvHolds, PTL DEF NavInv

\* A setting edited outside of the settings was always cut off (cEditFreq and the
\* other three of switch.c).
THEOREM EditBelongs == NavSpec => []EditOnlyInSettings
<1>1. NavInv => EditOnlyInSettings
  BY DEF NavInv, EditEnds, EditOnlyInSettings, Editing
<1> QED
  BY <1>1, NavInvHolds, PTL
=============================================================================
