----------------------------- MODULE MC_SdSound -----------------------------
(* An instance of SdSound, or of the driver of the card's bus below it.    *)
EXTENDS SdSound, SpiDriver

VARIABLE runs  \* which of the two

MC_Init == Init /\ SpiInit /\ runs \in {"sound", "bus"}
MC_Next == /\ \/ runs = "sound" /\ Next /\ UNCHANGED spiVars
              \/ runs = "bus" /\ SpiNext /\ UNCHANGED vars
           /\ UNCHANGED runs
MC_Spec == MC_Init /\ [][MC_Next]_<<vars, spiVars, runs>> /\ Fairness
=============================================================================
