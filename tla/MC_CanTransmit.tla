--------------------------- MODULE MC_CanTransmit ---------------------------
(* An instance of CanTransmit for TLC: two fields of two values, so that some *)
(* configurations have the same checksum and some have not; the intro, a      *)
(* screen a push acts on, the first one, a screen without a subscreen, and    *)
(* the settings.  The user either changes no value, or all he does leads to   *)
(* the settings or takes place there.                                         *)
EXTENDS CanTransmit

MC_XorOf == [v \in Values |-> IF v = "b" THEN 1 ELSE 0]

VARIABLE out_for  \* what the user is out for

MC_Init == Init /\ out_for \in {"screens", "settings"}
MC_Next == /\ Next /\ UNCHANGED out_for
           /\ out_for = "screens" => UNCHANGED sConfig
           /\ out_for = "settings" => /\ uiDisplayScreen' \in {uiDisplayScreen, Settings}
                                      /\ user' # user => uiDisplayScreen' = Settings
MC_Spec == MC_Init /\ [][MC_Next]_<<vars, out_for>> /\ Fairness
=============================================================================
