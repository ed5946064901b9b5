-------------------------------- MODULE Wifi --------------------------------
(***************************************************************************)
(* The wireless module and the state machine that drives it (wifi.c):      *)
(* vWifi_State sends AT commands and waits for flags in iWifiStatus; the   *)
(* receive interrupt collects bytes, sets the flags of each line and, when *)
(* the module has restarted, sets the state itself.  The interrupt runs    *)
(* between any two steps of a pass, also while a command is being sent and *)
(* between the test of a flag and the change of the state.                 *)
(*                                                                         *)
(* A line is received in one step, what it says abstracted to the flags it *)
(* sets.  The module executes one command at a time and ignores what comes *)
(* meanwhile; it may be slow, be restarted by its watchdog, or lose a line *)
(* (faults).  5000 passes in one state are time enough for every answer,   *)
(* unless the module is slow.                                              *)
(***************************************************************************)
EXTENDS Naturals, Sequences

CONSTANTS
    MaxAp,     \* entries of the list of access points (32)
    MaxFaults  \* bound: faults of the module and resets of the device

\* A late start is one of the faults.
ASSUME WifiAssumption == MaxAp \in Nat \ {0} /\ MaxFaults \in Nat \ {0}

VARIABLES
    pc,           \* "pass", "act", "send", "set": where vWifi_State is
    uiWifiState,
    at,           \* the state the pass found
    next,         \* the state it is going to set, and
    cmd,          \* the command it is going to send
    iWifiStatus,  \* the flags somebody tests
    cStream,      \* a list is being received
    rest,         \* of an ended list in the receive buffer: "none", "short", or
                  \* "long", more than an interpreted line may have
    ucWifiMsg,    \* "list": all of a list; "none": wiped or something else
    sWifiAp,      \* "none", "open", "closed", "tried" (cEncryption 10)
    commands,     \* the module: command not answered yet
    lines,        \* lines and prompts on their way to the receiver
    link, prompt, \* the module has a connection, and waits for data
    accepted,     \* the request was sent by the module
    faults

driver == <<pc, uiWifiState, at, next, cmd>>
receiver == <<iWifiStatus, cStream, rest, ucWifiMsg>>
module == <<commands, lines, link, prompt, accepted>>
vars == <<driver, receiver, sWifiAp, module, faults>>

\* State, command, state to wait in: the configuration, and the regular loop.
ConfigSends == {<<0, "RST", 5>>, <<10, "E1", 20>>, <<30, "CWMODE", 32>>,
                <<34, "CIPDNS", 35>>, <<41, "CIPMUX", 42>>, <<45, "CWSAP", 50>>,
                <<52, "CWHOSTNAME", 54>>, <<56, "CWLAPOPT", 60>>}
ScanSends == {<<70, "CWLAP", 80>>}
UploadSends == {<<115, "CIPSTART", 120>>, <<127, "CIPSENDEX", 129>>,
                <<132, "request", 134>>, <<138, "CIPCLOSE", 140>>}
\* State, flags that are to be there, next state.
ConfigWaits == {<<5, {"RESTART"}, 10>>, <<20, {"OK"}, 30>>, <<32, {"OK"}, 34>>,
                <<35, {"OK"}, 41>>, <<42, {"OK"}, 45>>, <<50, {"OK"}, 52>>,
                <<54, {"OK"}, 56>>, <<54, {"ERROR"}, 56>>, <<60, {"OK"}, 70>>}
\* Mutants: an OK will do for the prompt; an error ends the request, too.
NoPromptWaits == {<<110, {"OK"}, 115>>, <<110, {"ALREADYC"}, 115>>, <<129, {"OK"}, 132>>,
                  <<134, {"SENTOK"}, 136>>, <<140, {"OK"}, 70>>, <<140, {"ERROR"}, 70>>}
AnyEndWaits == {<<110, {"OK"}, 115>>, <<110, {"ALREADYC"}, 115>>,
                <<129, {"OK", "RDYSEND"}, 132>>, <<134, {"SENTOK"}, 136>>,
                <<134, {"ERROR"}, 136>>, <<140, {"OK"}, 70>>, <<140, {"ERROR"}, 70>>}
UploadWaits == {<<110, {"OK"}, 115>>, <<110, {"ALREADYC"}, 115>>,
                <<129, {"OK", "RDYSEND"}, 132>>, <<134, {"SENTOK"}, 136>>,
                <<140, {"OK"}, 70>>, <<140, {"ERROR"}, 70>>}
\* States that set another one and nothing else.
Moves == {<<100, 70>>, <<136, 138>>}

Lines == {"OK", "ERROR", "ALREADY_CONNECTED", "SEND_OK", "ready", ">", "+CWL", "HTTP_OK",
          "<html>", "FAIL"}
NoAps == [i \in 1..MaxAp |-> "none"]

\* vWifi_Initialize resets the module, which is ready before the first pass, or
\* later than that.
Init ==
    /\ pc = "pass" /\ at = 0 /\ next = 0 /\ cmd = "none"
    /\ iWifiStatus = {} /\ cStream = FALSE /\ rest = "none" /\ ucWifiMsg = "none"
    /\ sWifiAp = NoAps
    /\ commands = <<>> /\ link = FALSE /\ prompt = FALSE /\ accepted = FALSE
    /\ \/ uiWifiState = 10 /\ lines = <<>> /\ faults = 0
       \/ uiWifiState = 0 /\ lines = <<"ready">> /\ faults = MaxFaults

-----------------------------------------------------------------------------
(* vWifi_State                                                             *)

Silent == commands = <<>> /\ lines = <<>>
Fault == faults < MaxFaults /\ faults' = faults + 1

Waits == ConfigWaits \cup UploadWaits
         \cup {<<80, {"OK"}, 90>>, <<80, {"ERROR"}, 0>>, <<120, {"OK"}, 125>>,
               <<120, {"ALREADYC"}, 125>>, <<120, {"ERROR"}, 70>>}
Waiting == \E w \in Waits : w[1] = uiWifiState
Answered == \E w \in Waits : w[1] = uiWifiState /\ w[2] \subseteq iWifiStatus

\* More than 5000 passes in the same state are too many.
Restarts ==
    /\ pc = "pass" /\ Waiting /\ ~Answered
    /\ uiWifiState' = 0
    /\ UNCHANGED <<pc, at, next, cmd, receiver, sWifiAp, module>>
\* Mutant: only the search for networks is watched.
TimeOutOfScan == uiWifiState = 80 /\ Silent /\ Restarts /\ UNCHANGED faults
TimeOut == Silent /\ Restarts /\ UNCHANGED faults
TimeOutEarly == ~Silent /\ Restarts /\ Fault
\* vResetDevice, between two passes.  State 0 waits for 100 ms of ulLife, which is
\* no other than a slower driver.
DeviceReset ==
    /\ pc = "pass" /\ Fault
    /\ uiWifiState' = 0
    /\ UNCHANGED <<pc, at, next, cmd, receiver, sWifiAp, module>>
Pass ==
    /\ pc = "pass" /\ pc' = "act"
    /\ at' = uiWifiState
    /\ UNCHANGED <<uiWifiState, next, cmd, receiver, sWifiAp, module, faults>>

In(s) == pc = "act" /\ at = s
Goes(s) == pc' = "set" /\ next' = s /\ UNCHANGED <<uiWifiState, at, cmd>>
Stays == pc' = "pass" /\ UNCHANGED <<uiWifiState, at, next, cmd>>
Cleared == iWifiStatus' = {} /\ UNCHANGED <<cStream, rest, ucWifiMsg, module, faults>>
Quietly == UNCHANGED <<receiver, module, faults>>
\* Mutant: the flags are not cleared.
SendsUncleared(c, s) ==
    /\ Quietly
    /\ pc' = "send" /\ cmd' = c /\ next' = s
    /\ UNCHANGED <<uiWifiState, at>>
\* The flags are cleared first, the state is set when all is sent.
Sends(c, s) ==
    /\ Cleared
    /\ pc' = "send" /\ cmd' = c /\ next' = s
    /\ UNCHANGED <<uiWifiState, at>>

SendIn(sends) == \E s \in sends : In(s[1]) /\ Sends(s[2], s[3])
Configure == SendIn(ConfigSends) /\ UNCHANGED sWifiAp
Scan == SendIn(ScanSends) /\ UNCHANGED sWifiAp
Upload ==
    /\ SendIn(UploadSends)
    /\ sWifiAp' = IF at = 138 THEN [i \in 1..MaxAp |-> IF sWifiAp[i] = "tried"
                                                     THEN "open" ELSE sWifiAp[i]]
                  ELSE sWifiAp

\* A state that waits, and has its answer or not.
WaitIn(waits) ==
    LET mine == {w \in waits : w[1] = at}
        met == {w \in mine : w[2] \subseteq iWifiStatus} IN
    /\ pc = "act" /\ mine # {}
    /\ IF met = {} THEN Stays ELSE \E w \in met : Goes(w[3])
    /\ Quietly /\ UNCHANGED sWifiAp
ConfigWait == WaitIn(ConfigWaits)
UploadWait == WaitIn(UploadWaits)

\* vParseStream: the list in the message, but for its last entry.
vParseStream ==
    IF ucWifiMsg = "list"
    THEN \E list \in [1..MaxAp -> {"open", "closed"}], n \in 0..MaxAp :
            sWifiAp' = [i \in 1..MaxAp |-> IF i <= n THEN list[i] ELSE "none"]
    ELSE UNCHANGED sWifiAp
ScanWait ==
    /\ In(80)
    /\ IF "OK" \in iWifiStatus THEN vParseStream /\ Goes(90)
       ELSE /\ UNCHANGED sWifiAp
            /\ IF "ERROR" \in iWifiStatus THEN Goes(0) ELSE Stays
    /\ Quietly

\* cConnectAp: the first open one that was not tried since the last list.
Open == {i \in 1..MaxAp : sWifiAp[i] = "open"}
cConnectAp ==
    /\ In(90)
    /\ IF Open = {} THEN Cleared /\ Goes(100) /\ UNCHANGED sWifiAp
       ELSE LET i == CHOOSE i \in Open : \A j \in Open : i <= j IN
            sWifiAp' = [sWifiAp EXCEPT ![i] = "tried"] /\ Sends("CWJAP", 110)

\* 120: connected, connected already, or refused,
CloudWait ==
    /\ In(120)
    /\ IF {"OK", "ALREADYC"} \cap iWifiStatus # {} THEN Goes(125)
       ELSE IF "ERROR" \in iWifiStatus THEN Goes(70) ELSE Stays
    /\ Quietly /\ UNCHANGED sWifiAp
\* or no answer in two seconds.
CloudTimeOut ==
    /\ In(120) /\ {"OK", "ALREADYC", "ERROR"} \cap iWifiStatus = {}
    /\ Goes(70)
    /\ (Silent /\ UNCHANGED faults) \/ (~Silent /\ Fault)
    /\ UNCHANGED <<receiver, module, sWifiAp>>
\* What the request says is left out.
vPrepareRequest == In(125) /\ Goes(127) /\ Quietly /\ UNCHANGED sWifiAp
Move ==
    /\ \E m \in Moves : In(m[1]) /\ Goes(m[2])
    /\ Quietly /\ UNCHANGED sWifiAp

\* vWifi_sendcommand empties the receive buffer, what is there of a line
\* included, and transmits.  A busy module takes no other command.
vWifi_sendcommand ==
    /\ pc = "send" /\ pc' = "set"
    /\ rest' = "none"
    /\ commands' = IF commands = <<>> THEN <<cmd>> ELSE commands
    /\ lines' \in {lines} \cup (IF lines = <<>> THEN {} ELSE {Tail(lines)})
    /\ accepted' = (accepted /\ cmd # "request")
    /\ UNCHANGED <<uiWifiState, at, next, cmd, iWifiStatus, cStream, ucWifiMsg, sWifiAp,
                   link, prompt, faults>>
SetState ==
    /\ pc = "set" /\ pc' = "pass"
    /\ uiWifiState' = next
    /\ UNCHANGED <<at, next, cmd, receiver, sWifiAp, module, faults>>

-----------------------------------------------------------------------------
(* APP_WifiReceiveEventHandler                                             *)

\* The server's reply has an OK in its first line.
Status(line) ==
    CASE line \in {"OK", "HTTP_OK"} -> {"OK"}
      [] line = "ERROR" -> {"ERROR"}
      [] line = "ALREADY_CONNECTED" -> {"ALREADYC"}
      [] line = "SEND_OK" -> {"OK", "SENTOK"}
      [] OTHER -> {}

\* vInterpretWifi: a restart begins the configuration again, at once.
vInterpretWifi(line) ==
    IF line = "ready" THEN iWifiStatus' = {} /\ uiWifiState' = 10
    ELSE /\ iWifiStatus' = iWifiStatus \cup Status(line)
                          \cup (IF rest = "short" THEN {"OK"} ELSE {})
         /\ UNCHANGED uiWifiState

\* Every byte wipes the message.
Arrives(kinds) ==
    /\ lines # <<>> /\ Head(lines) \in kinds
    /\ lines' = Tail(lines)
    /\ UNCHANGED <<pc, at, next, cmd, sWifiAp, commands, link, prompt, accepted, faults>>
\* A > counts where it comes, in the prompt and in a page.
ReceivePrompt ==
    /\ Arrives({">", "<html>"})
    /\ iWifiStatus' = iWifiStatus \cup {"RDYSEND"}
    /\ ucWifiMsg' = "none"
    /\ UNCHANGED <<uiWifiState, cStream, rest>>
\* A list, or the echo of its command, begins a stream.
StreamBegin ==
    /\ Arrives({"+CWL"})
    /\ cStream' = TRUE /\ ucWifiMsg' = "none"
    /\ UNCHANGED <<uiWifiState, iWifiStatus, rest>>
Ordinary == Lines \ {">", "<html>", "+CWL"}
\* A stream ends with OK, whoever says it; all else is part of it.  It is left
\* in the buffer.  What is not a list, or too long, is none.
StreamLine ==
    /\ cStream /\ Arrives(Ordinary)
    /\ IF Head(lines) \in {"OK", "SEND_OK", "HTTP_OK"}
       THEN /\ cStream' = FALSE
            /\ ucWifiMsg' \in {"list", "none"} /\ rest' \in {"short", "long"}
            /\ iWifiStatus' = iWifiStatus \cup {"OK"}
       ELSE ucWifiMsg' = "none" /\ UNCHANGED <<cStream, rest, iWifiStatus>>
    /\ UNCHANGED uiWifiState
\* A line is interpreted with what is before it in the buffer, if that is short.
Line ==
    /\ ~cStream /\ Arrives(Ordinary)
    /\ IF rest = "long" THEN UNCHANGED <<iWifiStatus, uiWifiState>>
       ELSE vInterpretWifi(Head(lines))
    /\ rest' = "none" /\ ucWifiMsg' = "none"
    /\ UNCHANGED cStream

-----------------------------------------------------------------------------
(* The module, as wifi.c takes it to be: it is configured without an error *)
(* but for the name, may find no network or server, and has the connection *)
(* closed by the server, before or after it is told to.                    *)

Says(answers) == \E ls \in answers : lines' = lines \o ls
Answer(c) ==
    CASE c = "RST" -> Says({<<"OK", "ready">>}) /\ link' = FALSE
                      /\ prompt' = FALSE /\ UNCHANGED accepted
      [] c = "CWHOSTNAME" ->
            Says({<<"OK">>, <<"ERROR">>}) /\ UNCHANGED <<link, prompt, accepted>>
      [] c = "CWLAP" ->
            /\ Says({<<"+CWL", "OK">>, <<"+CWL", "ERROR">>, <<"ERROR">>})
            /\ UNCHANGED <<link, prompt, accepted>>
      [] c = "CWJAP" -> Says({<<"OK">>, <<"FAIL">>}) /\ UNCHANGED <<link, prompt, accepted>>
      [] c = "CIPSTART" ->
            /\ link' \in {TRUE, link}
            /\ Says({IF link THEN <<"ALREADY_CONNECTED", "ERROR">>
                     ELSE IF link' THEN <<"OK">> ELSE <<"ERROR">>})
            /\ UNCHANGED <<prompt, accepted>>
      [] c = "CIPSENDEX" ->
            /\ Says({IF link THEN <<"OK", ">">> ELSE <<"ERROR">>})
            /\ prompt' = link /\ UNCHANGED <<link, accepted>>
      [] c = "request" ->
            /\ Says({IF prompt THEN <<"SEND_OK", "HTTP_OK", "<html>">> ELSE <<"ERROR">>})
            /\ accepted' = prompt /\ prompt' = FALSE
            /\ link' \in {FALSE, link}
      [] c = "CIPCLOSE" ->
            /\ Says({IF link THEN <<"OK">> ELSE <<"ERROR">>})
            /\ link' = FALSE /\ UNCHANGED <<prompt, accepted>>
      [] OTHER -> Says({<<"OK">>}) /\ UNCHANGED <<link, prompt, accepted>>
\* It has the end of a command after the state is set: the transmit FIFO is deeper.
ModuleAnswers ==
    /\ pc # "set"
    /\ commands # <<>> /\ commands' = <<>>
    /\ Answer(Head(commands))
    /\ UNCHANGED <<driver, receiver, sWifiAp, faults>>
\* Its watchdog restarts it.
ModuleRestarts ==
    /\ Fault
    /\ commands' = <<>> /\ lines' = <<"ready">>
    /\ link' = FALSE /\ prompt' = FALSE
    /\ UNCHANGED <<driver, receiver, sWifiAp, accepted>>
LineLost ==
    /\ Fault
    /\ lines # <<>> /\ lines' = Tail(lines)
    /\ UNCHANGED <<driver, receiver, sWifiAp, commands, link, prompt, accepted>>

-----------------------------------------------------------------------------
Driver ==
    \/ Pass \/ Configure \/ ConfigWait \/ Scan \/ ScanWait \/ cConnectAp
    \/ Upload \/ UploadWait \/ CloudWait \/ vPrepareRequest \/ Move
    \/ vWifi_sendcommand \/ SetState
Receiver == ReceivePrompt \/ StreamBegin \/ StreamLine \/ Line
Next ==
    \/ Driver \/ TimeOut \/ TimeOutEarly \/ CloudTimeOut \/ DeviceReset
    \/ Receiver \/ ModuleAnswers \/ ModuleRestarts \/ LineLost

\* The main loop goes on, bytes cause interrupts, the module answers, and a
\* state that stays for good is found by the count of its passes.
Spec ==
    /\ Init /\ [][Next]_vars
    /\ WF_vars(Driver) /\ WF_vars(Receiver) /\ WF_vars(ModuleAnswers)
    /\ SF_vars(TimeOut)

-----------------------------------------------------------------------------
\* The flags are the only handshake: an answer that is late, or that the server
\* gives, is taken for the next command's.  Still the request is not sent before
\* the module has asked for it, while the module works (state 129).
PromptBeforeRequest == pc = "send" /\ cmd = "request" => prompt \/ faults > 0

\* An upload is shown to have succeeded (cWifiConn, the white indicator of state
\* 134) only if the module has sent the request of this round, whatever was lost
\* or restarted: an old SEND OK is read before the driver is there again.
ReportedIfSent ==
    [][In(134) /\ pc' = "set" /\ next' = 136 => accepted]_vars

\* That takes a receiver that keeps up: of a restart it has heard before the module
\* has been configured and connected again as far as the next request.  (With as many
\* lines unread as a dozen resets leave, the driver could go through a round, and to
\* the next, on answers to earlier ones.)
RestartHeard ==
    commands = <<"request">> /\ prompt => \A i \in 1..Len(lines) : lines[i] # "ready"

\* Whatever fails, the device comes back to looking for networks.
ScansAgain == []<>(uiWifiState = 70)
=============================================================================
