----------------------------- MODULE CanDelivery -----------------------------
(***************************************************************************)
(* What the CAN link promises the rest of the firmware: a message sent is  *)
(* received whole or not at all, and the station list arrives sorted.      *)
(***************************************************************************)
EXTENDS Naturals, AprsSort

CONSTANTS Types, Aprs, SizeOf, None

VARIABLES
  inFlight,  \* <<type, body>> being sent, or None
  store      \* last body received of each type, or None

vars == <<inFlight, store>>

Init == inFlight = None /\ store = [t \in Types |-> None]

Send ==
  /\ inFlight = None
  /\ \E t \in Types : \E body \in [1..SizeOf[t] -> {0, 1}] : inFlight' = <<t, body>>
  /\ UNCHANGED store

\* What the receiver may keep of a body: the body, in the order it is shown in.
Kept(t, body, kept) ==
  IF t = Aprs THEN NearestFirst(kept) /\ SameStations(kept, body) ELSE kept = body

Arrive ==
  /\ inFlight # None
  /\ \E kept \in [1..SizeOf[inFlight[1]] -> {0, 1}] :
       /\ Kept(inFlight[1], inFlight[2], kept)
       /\ store' = [store EXCEPT ![inFlight[1]] = kept]
  /\ inFlight' = None

\* The receiver has no memory for the message.
Miss ==
  /\ inFlight # None
  /\ inFlight' = None
  /\ UNCHANGED store

Next == Send \/ Arrive \/ Miss

Spec == Init /\ [][Next]_vars
=============================================================================
