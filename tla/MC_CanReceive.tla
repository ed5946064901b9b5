---------------------------- MODULE MC_CanReceive ----------------------------
(* Instances of CanReceive for TLC, with frames of two bytes: a message that   *)
(* fills its frame exactly (or, for the lossy bus, is shorter than it) and one *)
(* of a frame and a remnant.                                                   *)
EXTENDS CanReceive

MC_Types  == {Geiger, Aprs}
MC_SizeOf == [t \in MC_Types |-> IF t = Geiger THEN 2 ELSE 3]
MC_ShortSizeOf == [t \in MC_Types |-> IF t = Geiger THEN 1 ELSE 3]
=============================================================================
