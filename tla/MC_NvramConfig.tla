--------------------------- MODULE MC_NvramConfig ---------------------------
(* An instance of NvramConfig, or of the static driver of the flash.       *)
EXTENDS NvramConfig, NvmDriver

VARIABLE runs  \* which of the two

MC_Init == Init /\ NvmInit /\ runs \in {"configuration", "driver"} /\ (runs = "driver" => flash = Erased)
MC_Next == /\ \/ runs = "configuration" /\ Next /\ UNCHANGED nvmVars
              \/ runs = "driver" /\ NvmNext /\ UNCHANGED vars
           /\ UNCHANGED runs
MC_Spec == MC_Init /\ [][MC_Next]_<<vars, nvmVars, runs>> /\ Fairness
=============================================================================
