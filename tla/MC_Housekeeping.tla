-------------------------- MODULE MC_Housekeeping --------------------------
(* An instance of Housekeeping with the screens Navigation tells apart.    *)
EXTENDS Housekeeping

MC_Names == <<"INTRO", "SPEED", "GYRO", "SETTINGS">>
MC_Lines == <<"frequency">>
=============================================================================
