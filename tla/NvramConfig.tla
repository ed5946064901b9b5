----------------------------- MODULE NvramConfig -----------------------------
(***************************************************************************)
(* The configuration in flash (nvram.c): loaded at start, compared with    *)
(* the live sConfig in every pass of the main loop, and stored by erasing  *)
(* its page and programming a row once the user has stopped editing.       *)
(*                                                                         *)
(* The switch interrupt edits sConfig at any time; the device is reset     *)
(* from its button (vResetDevice) or loses power between any two steps.    *)
(* The flash driver admits DRV_NVM_CLIENTS_NUMBER = 1 client and runs its  *)
(* commands in its own task.                                               *)
(***************************************************************************)
EXTENDS Integers, FiniteSets

CONSTANTS
  Configs,    \* values of the configuration structure
  Defaults,   \* the one vNvram_State primes
  Erased,     \* the page after an erase: no magic
  Torn,       \* a row whose programming was cut off, its magic already there
  MaxEdits, MaxResets, MaxPowerFailures,  \* bounds on the environment
  ResetWhileSaving  \* BOOLEAN: whether the button may reset during a save

ASSUME ConfigsAssumption == Defaults \in Configs /\ Erased \notin Configs /\ Torn \notin Configs /\ Erased # Torn
ASSUME EnvAssumption     == {MaxEdits, MaxResets, MaxPowerFailures} \subseteq Nat /\ ResetWhileSaving \in BOOLEAN

VARIABLES
  uiNvramState,
  flash,        \* content of the page at NVM_ADDRESS
  sConfig,
  cResetFlag, cCfgChanged,
  cEditFreq,    \* a frequency is being edited
  recent,       \* ulLonglife - ulLastCfgChange <= 2
  young,        \* ulLonglife <= 10
  hNvram,       \* "none" (0), "client" or "invalid" (DRV_HANDLE_INVALID, which is not 0)
  hNvmCmdHandle,\* the command it names: "invalid", "erase" or "write"
  clients,      \* clients the driver has open
  command,      \* the driver's command: "none", "erase", "write" or "done"
  saved,        \* the page as the last completed write left it (history)
  cut,          \* power failed while a save was under way (history)
  erases, primed,  \* pages erased, times the defaults were primed (history)
  edits, resets, powerFailures

saveVars  == <<uiNvramState, hNvram, hNvmCmdHandle>>
driveVars == <<flash, clients, command, saved, erases>>
userVars  == <<cEditFreq, recent, young>>
countVars == <<edits, resets, powerFailures>>
vars == <<saveVars, driveVars, sConfig, cResetFlag, cCfgChanged, userVars, cut, primed, countVars>>

MagicOk == flash # Erased

-----------------------------------------------------------------------------
(* vNvram_State *)

\* State 0: the defaults after a reset or without the magic ...
Prime ==
  /\ uiNvramState = 0
  /\ ~MagicOk \/ cResetFlag = 1
  /\ cResetFlag' = 0
  /\ sConfig' = Defaults
  /\ primed' = primed + 1
  /\ uiNvramState' = 10
  /\ UNCHANGED <<hNvram, hNvmCmdHandle, driveVars, cCfgChanged, userVars, cut, countVars>>

\* Mutant: the page is read whatever its magic.
LoadAnything ==
  /\ uiNvramState = 0
  /\ cResetFlag = 0
  /\ sConfig' = flash
  /\ uiNvramState' = 10
  /\ UNCHANGED <<hNvram, hNvmCmdHandle, driveVars, cResetFlag, cCfgChanged, userVars, cut, primed, countVars>>

\* ... else whatever is behind the magic.
Load ==
  /\ uiNvramState = 0
  /\ MagicOk /\ cResetFlag = 0
  /\ sConfig' = flash
  /\ uiNvramState' = 10
  /\ UNCHANGED <<hNvram, hNvmCmdHandle, driveVars, cResetFlag, cCfgChanged, userVars, cut, primed, countVars>>

\* State 10: nothing to save, or save once the user is done.
CompareEqual ==
  /\ uiNvramState = 10
  /\ flash = sConfig
  /\ uiNvramState' = 80
  /\ UNCHANGED <<hNvram, hNvmCmdHandle, driveVars, sConfig, cResetFlag, cCfgChanged, userVars, cut, primed, countVars>>

\* Mutant: saved without a difference.
AlwaysDiffers == ~young /\ ~recent /\ ~cEditFreq

Differs == flash # sConfig /\ ~young /\ ~recent /\ ~cEditFreq

\* Mutant: programmed without an erase.
CompareDiffersToWrite ==
  /\ uiNvramState = 10
  /\ Differs
  /\ clients = 0 /\ hNvram' = "client" /\ clients' = 1
  /\ uiNvramState' = 40
  /\ UNCHANGED <<hNvmCmdHandle, flash, command, saved, erases, sConfig, cResetFlag, cCfgChanged, userVars,
                 cut, primed, countVars>>

\* (The driver has room for one client; what DRV_NVM_Open gives to another is
\* either zero, which the code tells apart, or DRV_HANDLE_INVALID, which it does not.)
CompareDiffers ==
  /\ uiNvramState = 10
  /\ Differs
  /\ \/ clients = 0 /\ hNvram' = "client" /\ clients' = 1 /\ uiNvramState' = 20
     \/ clients = 1 /\ hNvram' = "invalid" /\ uiNvramState' = 20 /\ UNCHANGED clients
     \/ clients = 1 /\ hNvram' = "none" /\ UNCHANGED <<clients, uiNvramState>>
  /\ UNCHANGED <<hNvmCmdHandle, flash, command, saved, erases, sConfig, cResetFlag, cCfgChanged, userVars,
                 cut, primed, countVars>>

\* A command is accepted from the client the driver knows; any other gets the
\* invalid command handle, and the state tries again for ever.
Accepted == hNvram = "client" /\ command \in {"none", "done"}

Erase ==
  /\ uiNvramState = 20
  /\ IF Accepted THEN hNvmCmdHandle' = "erase" /\ command' = "erase" /\ uiNvramState' = 30
                 ELSE hNvmCmdHandle' = "invalid" /\ UNCHANGED <<command, uiNvramState>>
  /\ UNCHANGED <<hNvram, flash, clients, saved, erases, sConfig, cResetFlag, cCfgChanged, userVars, cut,
                 primed, countVars>>

\* Mutant: erased and not programmed.
EraseDoneToClose ==
  /\ uiNvramState = 30
  /\ command = "done"
  /\ uiNvramState' = 80
  /\ UNCHANGED <<hNvram, hNvmCmdHandle, driveVars, sConfig, cResetFlag, cCfgChanged, userVars, cut, primed, countVars>>

EraseDone ==
  /\ uiNvramState = 30
  /\ command = "done"
  /\ uiNvramState' = 40
  /\ UNCHANGED <<hNvram, hNvmCmdHandle, driveVars, sConfig, cResetFlag, cCfgChanged, userVars, cut, primed, countVars>>

Write ==
  /\ uiNvramState = 40
  /\ IF Accepted THEN hNvmCmdHandle' = "write" /\ command' = "write" /\ uiNvramState' = 50
                 ELSE hNvmCmdHandle' = "invalid" /\ UNCHANGED <<command, uiNvramState>>
  /\ UNCHANGED <<hNvram, flash, clients, saved, erases, sConfig, cResetFlag, cCfgChanged, userVars, cut,
                 primed, countVars>>

WriteDone ==
  /\ uiNvramState = 50
  /\ command = "done"
  /\ cCfgChanged' = 1
  /\ uiNvramState' = 80
  /\ UNCHANGED <<hNvram, hNvmCmdHandle, driveVars, sConfig, cResetFlag, userVars, cut, primed, countVars>>

\* Mutant: no way back to state 10.
CloseForGood ==
  /\ uiNvramState = 80
  /\ clients' = IF hNvram = "client" THEN 0 ELSE clients
  /\ hNvram' = "none"
  /\ UNCHANGED <<uiNvramState, hNvmCmdHandle, flash, command, saved, erases, sConfig, cResetFlag, cCfgChanged,
                 userVars, cut, primed, countVars>>

Close ==
  /\ uiNvramState = 80
  /\ clients' = IF hNvram = "client" THEN 0 ELSE clients
  /\ hNvram' = "none"
  /\ uiNvramState' = 10
  /\ UNCHANGED <<hNvmCmdHandle, flash, command, saved, erases, sConfig, cResetFlag, cCfgChanged, userVars,
                 cut, primed, countVars>>

-----------------------------------------------------------------------------
(* DRV_NVM_Tasks: the command under way is carried out; a row is programmed    *)
(* from the live structure.                                                    *)

DriverErase ==
  /\ command = "erase"
  /\ flash' = Erased
  /\ erases' = erases + 1
  /\ command' = "done"
  /\ UNCHANGED <<saveVars, clients, saved, sConfig, cResetFlag, cCfgChanged, userVars, cut, primed, countVars>>

DriverWrite ==
  /\ command = "write"
  /\ flash' = sConfig /\ saved' = sConfig /\ cut' = FALSE
  /\ command' = "done"
  /\ UNCHANGED <<saveVars, clients, erases, sConfig, cResetFlag, cCfgChanged, userVars, primed, countVars>>

-----------------------------------------------------------------------------
(* The user, the clock, the rest of the main loop *)

\* A setting changed at a push, by an SMS, or by a turn while a frequency is edited.
EditSetting ==
  /\ edits < MaxEdits
  /\ edits' = edits + 1
  /\ sConfig' \in Configs \ {sConfig}
  /\ recent' \in {recent, TRUE}   \* only the system screen notes ulLastCfgChange
  /\ UNCHANGED <<saveVars, driveVars, cResetFlag, cCfgChanged, cEditFreq, young, cut, primed, resets, powerFailures>>

\* A frequency is edited turn by turn between two pushes; meanwhile nothing is saved.
EditFreqBegin ==
  /\ ~cEditFreq /\ edits < MaxEdits
  /\ edits' = edits + 1
  /\ cEditFreq' = TRUE
  /\ UNCHANGED <<saveVars, driveVars, sConfig, cResetFlag, cCfgChanged, recent, young, cut, primed, resets, powerFailures>>

EditFreqEnd ==
  /\ cEditFreq
  /\ cEditFreq' = FALSE
  /\ UNCHANGED <<saveVars, driveVars, sConfig, cResetFlag, cCfgChanged, recent, young, cut, primed, countVars>>

Seconds ==
  /\ young \/ recent
  /\ young' = FALSE /\ recent' = FALSE
  /\ UNCHANGED <<saveVars, driveVars, sConfig, cResetFlag, cCfgChanged, cEditFreq, cut, primed, countVars>>

\* vCan_State has sent the configuration.
ConfigSent ==
  /\ cCfgChanged = 1
  /\ cCfgChanged' = 0
  /\ UNCHANGED <<saveVars, driveVars, sConfig, cResetFlag, userVars, cut, primed, countVars>>

Saving == uiNvramState \in 20..50

\* vResetDevice: the state machine starts over; the driver handle is kept.
vResetDevice ==
  /\ resets < MaxResets
  /\ hNvram = "none" \/ ResetWhileSaving
  /\ ~cEditFreq
  /\ resets' = resets + 1
  /\ cResetFlag' = 1
  /\ uiNvramState' = 0
  /\ young' = TRUE /\ recent' = FALSE
  /\ UNCHANGED <<hNvram, hNvmCmdHandle, driveVars, sConfig, cCfgChanged, cEditFreq, cut, primed, edits, powerFailures>>

\* The power fails: a row being programmed is lost, cut off or just complete.
PowerFailure ==
  /\ powerFailures < MaxPowerFailures
  /\ powerFailures' = powerFailures + 1
  /\ flash' \in CASE command = "write" -> {Erased, Torn, sConfig}
                  [] command = "erase" -> {flash, Erased}
                  [] OTHER -> {flash}
  /\ cut' = (cut \/ Saving \/ command \in {"erase", "write"})
  /\ uiNvramState' = 0 /\ hNvram' = "none" /\ hNvmCmdHandle' = "invalid"
  /\ clients' = 0 /\ command' = "none"
  /\ sConfig' = Defaults /\ cResetFlag' = 0 /\ cCfgChanged' = 0   \* RAM starts afresh
  /\ cEditFreq' = FALSE /\ recent' = FALSE /\ young' = TRUE
  /\ UNCHANGED <<saved, erases, primed, edits, resets>>

-----------------------------------------------------------------------------
Init ==
  /\ uiNvramState = 0 /\ hNvram = "none" /\ hNvmCmdHandle = "invalid"
  /\ flash \in Configs \union {Erased} /\ saved = flash
  /\ clients = 0 /\ command = "none"
  /\ sConfig = Defaults /\ cResetFlag = 0 /\ cCfgChanged = 0
  /\ cEditFreq = FALSE /\ recent = FALSE /\ young = TRUE
  /\ cut = FALSE /\ erases = 0 /\ primed = 0
  /\ edits = 0 /\ resets = 0 /\ powerFailures = 0

vNvram_State == \/ Prime \/ Load \/ CompareEqual \/ CompareDiffers \/ Erase \/ EraseDone
                \/ Write \/ WriteDone \/ Close
DRV_NVM_Tasks == DriverErase \/ DriverWrite
User == EditSetting \/ EditFreqBegin \/ EditFreqEnd

Next == vNvram_State \/ DRV_NVM_Tasks \/ User \/ Seconds \/ ConfigSent \/ vResetDevice \/ PowerFailure

\* The main loop and the driver's task go round, and time passes.
Fairness == WF_vars(vNvram_State) /\ WF_vars(DRV_NVM_Tasks) /\ WF_vars(Seconds)

Spec == Init /\ [][Next]_vars /\ Fairness

-----------------------------------------------------------------------------
(* Correctness *)

TypeOK ==
  /\ uiNvramState \in {0, 10, 20, 30, 40, 50, 80}
  /\ flash \in Configs \union {Erased, Torn} /\ saved \in Configs \union {Erased}
  /\ sConfig \in Configs \union {Torn}
  /\ cResetFlag \in {0, 1} /\ cCfgChanged \in {0, 1}
  /\ cEditFreq \in BOOLEAN /\ recent \in BOOLEAN /\ young \in BOOLEAN /\ cut \in BOOLEAN
  /\ hNvram \in {"none", "client", "invalid"} /\ clients \in {0, 1}
  /\ hNvmCmdHandle \in {"invalid", "erase", "write"}
  /\ command \in {"none", "erase", "write", "done"}
  /\ erases \in Nat /\ primed \in Nat /\ edits \in Nat /\ resets \in Nat /\ powerFailures \in Nat

\* Flash is programmed only after an erase, whatever reset or power failure came in
\* between: bits of an older configuration never remain in a new one.
ProgramsErasedFlash == command = "write" => flash = Erased

\* Unless power failed during a save, the page holds what was saved last whenever no
\* save is under way: edits, resets and failures at other times never cost it.
KeepsWhatWasSaved == ~Saving /\ command \in {"none", "done"} /\ ~cut => flash = saved

\* Flash is worn only by changes: there are never more erases than edits, restarts
\* with the defaults, and saves cut off by a power failure.
WornOnlyByChanges == erases <= edits + primed + powerFailures

\* A change made by the user reaches the flash once he has stopped editing, also when
\* it falls into a save of an earlier one.
SavedEventually == <>[](cEditFreq \/ flash = sConfig)

\* "Check if config object differs from content of NVram, write if not": as
\* SavedEventually, when the button may reset the device during a save.
WrittenIfDiffers == SavedEventually
=============================================================================
