------------------------------ MODULE MC_Panel ------------------------------
(* Instances of Panel: screens of every way of being drawn, in such an     *)
(* order that two turns lead from GYRO, where the start ends, and from     *)
(* SENSORS, where the alarm ends, to all of them.                          *)
EXTENDS Panel

MC_Names == <<"INTRO", "SPEED", "GYRO", "GEIGER", "APRSRADAR", "APRSLIST", "WIFI",
              "SENSORS", "SETTINGS", "SHOW">>
MC_Kinds == <<"system", "power">>
MC_Lines == <<"frequency">>

\* The user acts twice if there is an alarm or a reset, and more often if not.
MC_Next == Next /\ (alarms' + resets' = 0 \/ users' <= 2)
MC_Spec == Init /\ [][MC_Next]_vars /\ Fairness

\* The shortest way into a subscreen that a push by itself does not lead out of.
MC_FewNames == <<"INTRO", "SPEED", "GYRO", "SETTINGS">>
MC_NoKinds == <<>>
=============================================================================
