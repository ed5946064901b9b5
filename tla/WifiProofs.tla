----------------------------- MODULE WifiProofs -----------------------------
(***************************************************************************)
(* Proofs about Wifi, for lists of any length: while the module works, the *)
(* request is sent only when the module has asked for it; and, whatever    *)
(* fails, an upload is reported only when its request was sent.            *)
(*                                                                         *)
(* The flags say that an answer came, not to what.  The invariant is about *)
(* the three lines that do more than end a wait: `ready' restarts the      *)
(* driver, the prompt lets it send the request, and the page the server    *)
(* returns looks like a prompt.  It says where the driver is while one of  *)
(* them is on its way: the page may outlive its connection, into the next  *)
(* scan, but is before every answer that ends this.                        *)
(***************************************************************************)
EXTENDS Wifi, SequenceTheorems, TLAPS

\* The state the driver is in or about to set
Here == IF pc = "pass" THEN uiWifiState ELSE IF pc = "act" THEN at ELSE next

Commands == {"RST", "E1", "CWMODE", "CIPDNS", "CIPMUX", "CWSAP", "CWHOSTNAME", "CWLAPOPT",
             "CWLAP", "CWJAP", "CIPSTART", "CIPSENDEX", "request", "CIPCLOSE"}
Marks == {"ready", ">", "<html>"}
Unmarked == \A i \in 1..Len(lines) : lines[i] \notin Marks

-----------------------------------------------------------------------------
(* The inductive invariant *)

DriverOK ==
    /\ pc \in {"pass", "act", "send", "set"}
    /\ pc = "act" => at = uiWifiState \/ (at = 5 /\ uiWifiState = 10 /\ commands = <<>>)
    /\ pc = "send" => \E s \in ConfigSends \cup ScanSends \cup UploadSends \cup {<<90, "CWJAP", 110>>} :
                          cmd = s[2] /\ next = s[3]

FlagsOK == iWifiStatus \subseteq {"OK", "ERROR", "ALREADYC", "SENTOK", "RDYSEND"}

LinesOK ==
    /\ lines \in Seq(Lines)
    /\ \A i, j \in 1..Len(lines) : lines[i] \in Marks /\ lines[j] \in Marks => i = j

\* The commands whose answers have marks are executed where they are waited for.
CommandsOK ==
    /\ commands = <<>> \/ \E c \in Commands : commands = <<c>>
    /\ commands = <<"RST">> => Here = 5 /\ pc # "send" /\ Unmarked
    /\ commands = <<"CIPSENDEX">> => Here = 129 /\ pc # "send" /\ Unmarked
    /\ commands = <<"request">> =>
        Here = 134 /\ pc # "send" /\ lines = <<>> /\ prompt /\ iWifiStatus = {}

ReadyOK ==
    \A i \in 1..Len(lines) : lines[i] = "ready" =>
        pc \in {"pass", "act"} /\ Here = 5 /\ uiWifiState = 5 /\ commands = <<>>

\* Nothing else is on its way when the module waits for data.
Quiet == prompt /\ lines = <<>> /\ commands = <<>>
PromptOK ==
    /\ \A i \in 1..Len(lines) : lines[i] = ">" =>
        i = Len(lines) /\ Here = 129 /\ pc # "send" /\ prompt /\ commands = <<>>
    /\ Here = 129 /\ "RDYSEND" \in iWifiStatus => Quiet /\ pc # "send"
    /\ Here = 132 => Quiet
    /\ Here = 134 /\ pc = "send" => Quiet /\ iWifiStatus = {}

\* A page is the third line of its answer: every flag set since the flags were cleared
\* took one from before it, so that it is first when the connection is closed, and gone
\* when the next scan is answered.
PageAt(i) ==
    /\ Here \in {134, 136, 138, 140, 70, 80}
    /\ i \in {1, 2} \/ (i = 3 /\ Here = 134 /\ iWifiStatus = {})
    /\ Here = 140 /\ iWifiStatus # {} => i = 1
    /\ Here = 70 => i = 1
    /\ Here = 80 => i = 1 /\ iWifiStatus = {}
PageOK == \A i \in 1..Len(lines) : lines[i] = "<html>" => PageAt(i)

Working == DriverOK /\ FlagsOK /\ LinesOK /\ CommandsOK /\ ReadyOK /\ PromptOK /\ PageOK
WifiInv == faults \in Nat /\ (faults = 0 => Working)

-----------------------------------------------------------------------------
(* Steps without a command *)

Rests == UNCHANGED <<lines, commands, prompt>>

\* In the states of the loop that wait for no mark, none is on its way but a page.
Alone == commands \notin {<<"RST">>, <<"CIPSENDEX">>, <<"request">>}
NoCall == \A i \in 1..Len(lines) : lines[i] \notin {"ready", ">"}

LEMMA Elsewhere ==
    ASSUME Working, Here \notin {5, 129, 134}
    PROVE  Alone /\ NoCall
BY DEF Working, CommandsOK, ReadyOK, PromptOK, Alone, NoCall

\* The driver stays where it is.
LEMMA StaysInState ==
    ASSUME Working, Rests, UNCHANGED iWifiStatus, Here' = Here, DriverOK',
           pc # "send", pc' \in {"pass", "act"}, UNCHANGED uiWifiState \/ pc = "set"
    PROVE  Working'
<1>1. FlagsOK' /\ LinesOK'
  BY DEF Working, FlagsOK, LinesOK, Rests
<1>2. CommandsOK'
  BY DEF Working, CommandsOK, Rests, Unmarked
<1>3. ReadyOK'
  BY DEF Working, ReadyOK, Rests
<1>4. PromptOK'
  BY DEF Working, PromptOK, Rests, Quiet
<1>5. PageOK'
  <2>1. SUFFICES ASSUME NEW i \in 1..Len(lines'), lines'[i] = "<html>" PROVE PageAt(i)'
    BY DEF PageOK
  <2>2. PageAt(i)
    BY <2>1 DEF Working, PageOK, Rests
  <2> QED
    BY <2>2 DEF PageAt, Rests
<1> QED
  BY <1>1, <1>2, <1>3, <1>4, <1>5 DEF Working

\* It goes to another: nobody waits for a mark in the one it leaves, and what the
\* invariant asks of the one it enters holds.
LEMMA GoesOn ==
    ASSUME Working, Rests, DriverOK', iWifiStatus' = iWifiStatus \/ iWifiStatus' = {},
           Alone, NoCall,
           Here' = 132 \/ (Here' = 134 /\ pc' = "send") => Quiet,
           Here' = 129 \/ (Here' = 134 /\ pc' = "send") => iWifiStatus' = {},
           \A i \in 1..Len(lines) : lines[i] = "<html>" => PageAt(i)'
    PROVE  Working'
<1>1. FlagsOK' /\ LinesOK'
  BY DEF Working, FlagsOK, LinesOK, Rests
<1>2. CommandsOK'
  BY DEF Working, CommandsOK, Rests, Alone
<1>3. ReadyOK'
  BY DEF Rests, ReadyOK, NoCall
<1>4. PromptOK'
  BY DEF Rests, PromptOK, NoCall, Quiet
<1>5. PageOK'
  BY DEF Rests, PageOK
<1> QED
  BY <1>1, <1>2, <1>3, <1>4, <1>5 DEF Working

-----------------------------------------------------------------------------
(* The driver *)

\* A pass begins, finds nothing, or sets the state it goes to.
LEMMA PassKeeps ==
    ASSUME Working, Pass \/ SetState
    PROVE  Working'
<1>1. /\ Rests /\ UNCHANGED iWifiStatus /\ Here' = Here
      /\ pc # "send" /\ pc' \in {"act", "pass"} /\ (UNCHANGED uiWifiState \/ pc = "set")
  BY DEF Pass, SetState, receiver, module, Rests, Here
<1>2. DriverOK'
  BY DEF Pass, SetState, DriverOK
<1> QED
  BY <1>1, <1>2, StaysInState

LEMMA StaysKeeps ==
    ASSUME Working, pc = "act", Stays, Quietly
    PROVE  Working'
<1>1. /\ Rests /\ UNCHANGED iWifiStatus /\ Here = at /\ Here' = uiWifiState /\ pc' = "pass"
      /\ UNCHANGED uiWifiState
  BY DEF Stays, Quietly, receiver, module, Rests, Here
<1>2. DriverOK'
  BY <1>1 DEF DriverOK
<1>3. CASE at = uiWifiState
  BY <1>1, <1>2, <1>3, StaysInState
<1>4. CASE at = 5 /\ uiWifiState = 10 /\ commands = <<>>
  <2>1. Alone
    BY <1>4 DEF Alone
  <2>2. NoCall /\ \A i \in 1..Len(lines) : lines[i] # "<html>"
    BY <1>1, <1>4 DEF Working, ReadyOK, PromptOK, PageOK, PageAt, NoCall
  <2> QED
    BY <1>1, <1>2, <1>4, <2>1, <2>2, GoesOn
<1> QED
  BY <1>3, <1>4 DEF Working, DriverOK

\* A command is about to be sent, with the flags cleared.
LEMMA SendsKeeps ==
    ASSUME Working, pc = "act", UNCHANGED <<module>>,
           NEW s \in ConfigSends \cup ScanSends \cup UploadSends \cup {<<90, "CWJAP", 110>>},
           at = s[1], Sends(s[2], s[3])
    PROVE  Working'
<1>1. /\ Rests /\ iWifiStatus' = {} /\ Here = s[1] /\ Here' = s[3] /\ pc' = "send"
  BY DEF Sends, Cleared, module, Rests, Here
<1>2. DriverOK'
  BY DEF DriverOK, Sends
<1>3. /\ s[1] \notin {5, 129, 134, 136, 140, 80}
      /\ s[3] # 132 /\ (s[3] = 134 => s[1] = 132)
      /\ (s[1] = 138 => s[3] = 140) /\ (s[1] = 70 => s[3] = 80)
  BY DEF ConfigSends, ScanSends, UploadSends
<1>4. Alone /\ NoCall
  BY <1>1, <1>3, Elsewhere
<1>5. Here' = 134 => Quiet
  BY <1>1, <1>3 DEF Working, PromptOK
<1>6. ASSUME NEW i \in 1..Len(lines), lines[i] = "<html>" PROVE PageAt(i)'
  <2>1. PageAt(i)
    BY <1>6 DEF Working, PageOK
  <2>2. CASE Here = 138
    <3>1. Here' = 140 /\ iWifiStatus' = {} /\ lines' = lines
      BY <1>1, <1>3, <2>2 DEF Rests
    <3> QED
      BY <2>1, <2>2, <3>1 DEF PageAt
  <2>3. CASE Here = 70
    <3>1. Here' = 80 /\ iWifiStatus' = {} /\ lines' = lines
      BY <1>1, <1>3, <2>3 DEF Rests
    <3> QED
      BY <2>1, <2>3, <3>1 DEF PageAt
  <2> QED
    BY <1>1, <1>3, <2>1, <2>2, <2>3 DEF PageAt
<1> QED
  BY <1>1, <1>2, <1>3, <1>4, <1>5, <1>6, GoesOn

\* A state that waited has its answer.
LEMMA AnswerKeeps ==
    ASSUME Working, pc = "act", Quietly, NEW w \in ConfigWaits \cup UploadWaits,
           at = w[1], w[2] \subseteq iWifiStatus, Goes(w[3])
    PROVE  Working'
<1>1. /\ Rests /\ iWifiStatus' = iWifiStatus /\ Here = w[1] /\ Here' = w[3] /\ pc' = "set"
  BY DEF Goes, Quietly, receiver, module, Rests, Here
<1>2. DriverOK'
  BY <1>1 DEF DriverOK
<1>3. /\ w[3] \notin {129, 134}
      /\ w[1] # 5 /\ iWifiStatus # {}
      /\ (w[1] = 129 => w[3] = 132 /\ "RDYSEND" \in iWifiStatus) /\ (w[3] = 132 => w[1] = 129)
      /\ (w[1] = 134 => w[3] = 136 /\ "SENTOK" \in iWifiStatus)
      /\ (w[1] = 140 => w[3] = 70) /\ w[1] \notin {136, 138, 70, 80}
  BY DEF ConfigWaits, UploadWaits, Working, FlagsOK
<1>4. CASE w[1] = 129
  <2>1. Quiet
    BY <1>1, <1>3, <1>4 DEF Working, PromptOK
  <2>2. Alone /\ NoCall /\ \A i \in 1..Len(lines) : lines[i] # "<html>"
    BY <2>1 DEF Quiet, Alone, NoCall
  <2> QED
    BY <1>1, <1>2, <1>3, <1>4, <2>1, <2>2, GoesOn
<1>5. CASE w[1] # 129
  <2>1. Alone /\ NoCall
    BY <1>1, <1>3, <1>5 DEF Working, CommandsOK, ReadyOK, PromptOK, Alone, NoCall
  <2>2. ASSUME NEW i \in 1..Len(lines), lines[i] = "<html>" PROVE PageAt(i)'
    <3>1. PageAt(i)
      BY <2>2 DEF Working, PageOK
    <3>2. CASE Here = 134
      <4>1. Here' = 136 /\ iWifiStatus' = iWifiStatus /\ lines' = lines /\ "SENTOK" \in iWifiStatus
        BY <1>1, <1>3, <3>2 DEF Rests
      <4> QED
        BY <3>1, <3>2, <4>1 DEF PageAt
    <3>3. CASE Here = 140
      <4>1. Here' = 70 /\ lines' = lines /\ i = 1
        BY <1>1, <1>3, <3>1, <3>3 DEF Rests, PageAt
      <4> QED
        BY <3>1, <3>3, <4>1 DEF PageAt
    <3> QED
      BY <1>1, <1>3, <3>1, <3>2, <3>3 DEF PageAt
  <2> QED
    BY <1>1, <1>2, <1>3, <1>5, <2>1, <2>2, GoesOn
<1> QED
  BY <1>4, <1>5

\* The scan ends with an answer to it: a page before that would not have let it come.
LEMMA ScanKeeps ==
    ASSUME Working, ScanWait
    PROVE  Working'
<1>1. Quietly /\ pc = "act" /\ at = 80
  BY DEF ScanWait, In
<1>2. CASE Stays
  BY <1>1, <1>2, StaysKeeps
<1>3. CASE iWifiStatus # {} /\ \E h \in {90, 0} : Goes(h)
  <2>1. PICK h \in {90, 0} : Goes(h)
    BY <1>3
  <2>2. Rests /\ iWifiStatus' = iWifiStatus /\ Here = 80 /\ Here' = h /\ pc' = "set"
    BY <1>1, <2>1 DEF Goes, Quietly, receiver, module, Rests, Here
  <2>3. DriverOK'
    BY <2>2 DEF DriverOK
  <2>4. Alone /\ NoCall
    BY <2>2, Elsewhere
  <2>5. \A i \in 1..Len(lines) : lines[i] # "<html>"
    BY <1>3, <2>2 DEF Working, PageOK, PageAt
  <2> QED
    BY <2>1, <2>2, <2>3, <2>4, <2>5, GoesOn
<1> QED
  BY <1>2, <1>3 DEF ScanWait

\* States that have no page before them, and the two moves.
LEMMA MoveKeeps ==
    ASSUME Working, pc = "act", UNCHANGED <<module>>, iWifiStatus' = iWifiStatus \/ iWifiStatus' = {},
           NEW m \in Moves \cup {<<90, 100>>, <<120, 125>>, <<120, 70>>, <<125, 127>>},
           at = m[1], Goes(m[2])
    PROVE  Working'
<1>1. Rests /\ Here = m[1] /\ Here' = m[2] /\ pc' = "set"
  BY DEF Goes, module, Rests, Here
<1>2. DriverOK'
  BY <1>1 DEF DriverOK
<1>3. /\ m[1] \notin {5, 129, 134, 138, 140, 70, 80} /\ m[2] \notin {129, 132, 134}
      /\ (m[1] = 136 => m[2] = 138)
  BY DEF Moves
<1>4. Alone /\ NoCall
  BY <1>1, <1>3, Elsewhere
<1>5. ASSUME NEW i \in 1..Len(lines), lines[i] = "<html>" PROVE PageAt(i)'
  <2>1. PageAt(i)
    BY <1>5 DEF Working, PageOK
  <2>2. Here = 136 /\ Here' = 138 /\ lines' = lines
    BY <1>1, <1>3, <2>1 DEF PageAt, Rests
  <2> QED
    BY <2>1, <2>2 DEF PageAt
<1> QED
  BY <1>1, <1>2, <1>3, <1>4, <1>5, GoesOn

LEMMA TimeOutKeeps ==
    ASSUME Working, TimeOut
    PROVE  Working'
<1>1. /\ Rests /\ iWifiStatus' = iWifiStatus /\ Here' = 0 /\ pc' = "pass"
      /\ commands = <<>> /\ lines = <<>>
  BY DEF TimeOut, Silent, Restarts, receiver, module, Rests, Here
<1>2. DriverOK'
  BY <1>1 DEF DriverOK
<1>3. Alone /\ NoCall /\ \A i \in 1..Len(lines) : lines[i] # "<html>"
  BY <1>1 DEF Alone, NoCall
<1> QED
  BY <1>1, <1>2, <1>3, GoesOn

\* The first line is taken.
LEMMA LineTaken ==
    ASSUME lines \in Seq(Lines), lines # <<>>, lines' = Tail(lines)
    PROVE  /\ lines' \in Seq(Lines)
           /\ Len(lines) \in Nat /\ Len(lines) >= 1 /\ Len(lines') = Len(lines) - 1
           /\ Head(lines) = lines[1] /\ lines[1] \in Lines
           /\ \A i \in 1..Len(lines') : i + 1 \in 1..Len(lines) /\ lines'[i] = lines[i + 1]
BY HeadTailProperties, EmptySeq, LenProperties, ElementOfSeq

LEMMA OneLess ==
    ASSUME LinesOK, lines # <<>>, lines' = Tail(lines)
    PROVE  /\ LinesOK' /\ Len(lines) \in Nat /\ Len(lines) >= 1 /\ Len(lines') = Len(lines) - 1
           /\ Head(lines) = lines[1] /\ lines[1] \in Lines
           /\ \A i \in 1..Len(lines') : i + 1 \in 1..Len(lines) /\ lines'[i] = lines[i + 1]
<1>1. /\ Len(lines) \in Nat /\ Len(lines) >= 1 /\ Len(lines') = Len(lines) - 1
      /\ Head(lines) = lines[1] /\ lines[1] \in Lines /\ lines' \in Seq(Lines)
      /\ \A i \in 1..Len(lines') : i + 1 \in 1..Len(lines) /\ lines'[i] = lines[i + 1]
  BY LineTaken DEF LinesOK
<1>2. ASSUME NEW i \in 1..Len(lines'), NEW j \in 1..Len(lines'),
             lines'[i] \in Marks, lines'[j] \in Marks
      PROVE  i = j
  <2>1. i + 1 = j + 1
    BY <1>1, <1>2 DEF LinesOK
  <2> QED
    BY <2>1
<1> QED
  BY <1>1, <1>2 DEF LinesOK

\* A command goes out.  The part of a line that is received is gone.
LEMMA CommandKeeps ==
    ASSUME Working, vWifi_sendcommand
    PROVE  Working'
<1>1. /\ pc = "send" /\ pc' = "set" /\ Here' = Here /\ Here = next
      /\ commands' = (IF commands = <<>> THEN <<cmd>> ELSE commands)
      /\ lines' = lines \/ (lines # <<>> /\ lines' = Tail(lines))
      /\ UNCHANGED <<prompt, iWifiStatus>>
  BY DEF vWifi_sendcommand, Here
<1>2. PICK s \in ConfigSends \cup ScanSends \cup UploadSends \cup {<<90, "CWJAP", 110>>} :
        cmd = s[2] /\ next = s[3]
  BY <1>1 DEF Working, DriverOK
<1>3. /\ cmd \in Commands
      /\ (cmd = "RST" => Here = 5) /\ (cmd = "CIPSENDEX" => Here = 129)
      /\ (cmd = "request" => Here = 134) /\ (Here = 134 => cmd = "request")
      /\ Here \notin {132, 136, 138, 70}
  BY <1>1, <1>2, SMTT(30) DEF ConfigSends, ScanSends, UploadSends, Commands
<1>4. NoCall /\ Alone
  BY <1>1 DEF Working, ReadyOK, PromptOK, CommandsOK, NoCall, Alone
<1>5. ASSUME NEW i \in 1..Len(lines), lines[i] = "<html>"
      PROVE  Here \in {140, 80} /\ i \in {1, 2} /\ (i = 2 => Here = 140)
  <2>1. PageAt(i) /\ Here # 134
    BY <1>1, <1>5 DEF Working, PageOK, PromptOK, Quiet
  <2> QED
    BY <1>3, <2>1 DEF PageAt
<1>6. LinesOK' /\ NoCall' /\ \A i \in 1..Len(lines') : lines'[i] = "<html>" => PageAt(i)'
  <2>1. CASE lines' = lines
    <3>1. ASSUME NEW i \in 1..Len(lines), lines[i] = "<html>" PROVE PageAt(i)'
      <4>1. PageAt(i)
        BY <3>1 DEF Working, PageOK
      <4> QED
        BY <1>1, <2>1, <4>1 DEF PageAt
    <3> QED
      BY <1>4, <2>1, <3>1 DEF Working, LinesOK, NoCall
  <2>2. CASE lines # <<>> /\ lines' = Tail(lines)
    <3>1. /\ LinesOK'
          /\ \A i \in 1..Len(lines') : i + 1 \in 1..Len(lines) /\ lines'[i] = lines[i + 1]
      BY <2>2, OneLess DEF Working
    <3>2. NoCall'
      BY <1>4, <3>1 DEF NoCall
    <3>3. ASSUME NEW i \in 1..Len(lines'), lines'[i] = "<html>" PROVE PageAt(i)'
      <4>1. i + 1 \in {1, 2} /\ (i + 1 = 2 => Here = 140)
        BY <1>5, <3>1, <3>3
      <4>2. i = 1 /\ Here' = 140
        BY <1>1, <4>1
      <4> QED
        BY <4>2 DEF PageAt
    <3> QED
      BY <3>1, <3>2, <3>3
  <2> QED
    BY <1>1, <2>1, <2>2
<1>7. Here \in {5, 129, 134} => Unmarked'
  <2>2. Here = 134 => lines' = <<>>
    BY <1>1 DEF Working, PromptOK, Quiet
  <2>3. Here \in {5, 129} => \A i \in 1..Len(lines') : lines'[i] # "<html>"
    BY <1>1, <1>6 DEF PageAt
  <2> QED
    BY <1>6, <2>2, <2>3 DEF NoCall, Unmarked, Marks
<1>8. CommandsOK'
  <2>1. CASE commands = <<>>
    <3>1. commands' = <<cmd>>
      BY <1>1, <2>1
    <3>2. Here = 134 => lines' = <<>> /\ prompt' /\ iWifiStatus' = {}
      BY <1>1 DEF Working, PromptOK, Quiet
    <3> QED
      BY <1>1, <1>3, <1>7, <3>1, <3>2 DEF CommandsOK
  <2>2. CASE commands # <<>>
    BY <1>1, <1>4, <2>2 DEF Working, CommandsOK, Alone
  <2> QED
    BY <2>1, <2>2
<1>9. DriverOK' /\ FlagsOK' /\ ReadyOK' /\ PageOK'
  BY <1>1, <1>6 DEF Working, DriverOK, FlagsOK, ReadyOK, PageOK, NoCall
<1>10. PromptOK'
  <2>1. Here # 132
    BY <1>3
  <2>2. Here = 129 => "RDYSEND" \notin iWifiStatus
    BY <1>1 DEF Working, PromptOK
  <2> QED
    BY <1>1, <1>6, <2>1, <2>2 DEF PromptOK, NoCall
<1> QED
  BY <1>6, <1>8, <1>9, <1>10 DEF Working

LEMMA WaitKeeps ==
    ASSUME Working, NEW waits \in {ConfigWaits, UploadWaits}, WaitIn(waits)
    PROVE  Working'
<1> DEFINE met == {w \in {v \in waits : v[1] = at} : w[2] \subseteq iWifiStatus}
<1>1. pc = "act" /\ Quietly /\ IF met = {} THEN Stays ELSE \E w \in met : Goes(w[3])
  BY DEF WaitIn
<1>2. CASE Stays
  BY <1>1, <1>2, StaysKeeps
<1>3. ASSUME NEW w \in met, Goes(w[3]) PROVE Working'
  <2>1. w \in ConfigWaits \cup UploadWaits /\ at = w[1] /\ w[2] \subseteq iWifiStatus
    OBVIOUS
  <2> QED
    BY <1>1, <1>3, <2>1, AnswerKeeps
<1> QED
  BY <1>1, <1>2, <1>3

LEMMA CloudKeeps ==
    ASSUME Working, CloudWait \/ CloudTimeOut
    PROVE  Working'
<1>1. pc = "act" /\ at = 120 /\ UNCHANGED <<receiver, module>>
  BY DEF CloudWait, CloudTimeOut, In, Quietly
<1>2. UNCHANGED <<module>> /\ iWifiStatus' = iWifiStatus
  BY <1>1 DEF receiver
<1>3. CASE Stays /\ Quietly
  BY <1>1, <1>3, StaysKeeps
<1>4. CASE Goes(125)
  <2>1. PICK m \in {<<120, 125>>} : m = <<120, 125>>
    OBVIOUS
  <2> QED
    BY <1>1, <1>2, <1>4, <2>1, MoveKeeps
<1>5. CASE Goes(70)
  <2>1. PICK m \in {<<120, 70>>} : m = <<120, 70>>
    OBVIOUS
  <2> QED
    BY <1>1, <1>2, <1>5, <2>1, MoveKeeps
<1> QED
  BY <1>3, <1>4, <1>5 DEF CloudWait, CloudTimeOut

LEMMA ConnectKeeps ==
    ASSUME Working, cConnectAp
    PROVE  Working'
<1>1. pc = "act" /\ at = 90
  BY DEF cConnectAp, In
<1>2. CASE Cleared /\ Goes(100)
  <2>1. PICK m \in {<<90, 100>>} : m = <<90, 100>>
    OBVIOUS
  <2> QED
    BY <1>1, <1>2, <2>1, MoveKeeps DEF Cleared
<1>3. CASE Sends("CWJAP", 110)
  <2>1. PICK s \in {<<90, "CWJAP", 110>>} : s = <<90, "CWJAP", 110>>
    OBVIOUS
  <2> QED
    BY <1>1, <1>3, <2>1, SendsKeeps DEF Sends, Cleared
<1> QED
  BY <1>2, <1>3 DEF cConnectAp

LEMMA DriverKeeps ==
    ASSUME Working, Driver
    PROVE  Working'
<1>1. CASE Pass \/ SetState
  BY <1>1, PassKeeps
<1>2. CASE Configure \/ Scan \/ Upload
  <2>1. PICK s \in ConfigSends \cup ScanSends \cup UploadSends : In(s[1]) /\ Sends(s[2], s[3])
    BY <1>2 DEF Configure, Scan, Upload, SendIn
  <2> QED
    BY <2>1, SendsKeeps DEF In, Sends, Cleared
<1>3. CASE ConfigWait \/ UploadWait
  BY <1>3, WaitKeeps DEF ConfigWait, UploadWait
<1>4. CASE ScanWait
  BY <1>4, ScanKeeps
<1>5. CASE cConnectAp
  BY <1>5, ConnectKeeps
<1>6. CASE CloudWait
  BY <1>6, CloudKeeps
<1>7. CASE vPrepareRequest
  <2>1. PICK m \in {<<125, 127>>} : m = <<125, 127>>
    OBVIOUS
  <2> QED
    BY <1>7, <2>1, MoveKeeps DEF vPrepareRequest, In, Quietly, receiver
<1>8. CASE Move
  <2>1. PICK m \in Moves : In(m[1]) /\ Goes(m[2])
    BY <1>8 DEF Move
  <2> QED
    BY <1>8, <2>1, MoveKeeps DEF Move, In, Quietly, receiver
<1>9. CASE vWifi_sendcommand
  BY <1>9, CommandKeeps
<1> QED
  BY <1>1, <1>2, <1>3, <1>4, <1>5, <1>6, <1>7, <1>8, <1>9 DEF Driver

-----------------------------------------------------------------------------
(* The receiver *)

\* A line that restarts nothing: what it says is taken for an answer.
LEMMA AnswerReceived ==
    ASSUME Working, lines # <<>>, lines' = Tail(lines),
           UNCHANGED <<pc, uiWifiState, at, next, cmd, commands, prompt>>, FlagsOK',
           "RDYSEND" \in iWifiStatus' => "RDYSEND" \in iWifiStatus \/ lines[1] \in {">", "<html>"}
    PROVE  Working'
<1>1. /\ LinesOK' /\ Len(lines) \in Nat /\ Len(lines) >= 1 /\ Len(lines') = Len(lines) - 1
      /\ \A i \in 1..Len(lines') : i + 1 \in 1..Len(lines) /\ lines'[i] = lines[i + 1]
      /\ 1 \in 1..Len(lines)
  BY OneLess DEF Working
<1>2. Here' = Here /\ pc' = pc
  BY DEF Here
<1>3. CommandsOK'
  BY <1>1, <1>2 DEF Working, CommandsOK, Unmarked
<1>4. ReadyOK' /\ DriverOK'
  BY <1>1, <1>2 DEF Working, ReadyOK, DriverOK
<1>5. PromptOK'
  <2>1. ~Quiet
    BY DEF Quiet
  <2>2. ASSUME NEW i \in 1..Len(lines'), lines'[i] = ">"
        PROVE  i = Len(lines') /\ Here = 129 /\ pc # "send" /\ prompt /\ commands = <<>>
    <3>1. i + 1 = Len(lines) /\ Here = 129 /\ pc # "send" /\ prompt /\ commands = <<>>
      BY <1>1, <2>2 DEF Working, PromptOK
    <3>2. i \in Nat /\ Len(lines) \in Nat /\ Len(lines') = Len(lines) - 1
      BY <1>1
    <3>3. i = Len(lines')
      BY <3>1, <3>2
    <3> QED
      BY <3>1, <3>3
  <2>3. ASSUME Here = 129, "RDYSEND" \in iWifiStatus' PROVE Quiet' /\ pc # "send"
    <3>1. lines[1] = ">" \/ lines[1] = "<html>"
      BY <2>1, <2>3 DEF Working, PromptOK
    <3>2. lines[1] # "<html>"
      BY <1>1, <2>3 DEF Working, PageOK, PageAt
    <3>3. 1 = Len(lines) /\ pc # "send" /\ prompt /\ commands = <<>>
      BY <1>1, <3>1, <3>2 DEF Working, PromptOK
    <3>4. lines' = <<>>
      BY <1>1, <3>3, EmptySeq DEF LinesOK
    <3> QED
      BY <3>3, <3>4 DEF Quiet
  <2>4. Here # 132 /\ ~(Here = 134 /\ pc = "send")
    BY <2>1 DEF Working, PromptOK
  <2> QED
    BY <1>2, <2>2, <2>3, <2>4 DEF PromptOK
<1>6. PageOK'
  <2>1. SUFFICES ASSUME NEW i \in 1..Len(lines'), lines'[i] = "<html>" PROVE PageAt(i)'
    BY DEF PageOK
  <2>2. PageAt(i + 1) /\ i \in Nat \ {0}
    BY <1>1, <2>1 DEF Working, PageOK
  <2>3. i + 1 = 2 \/ (i + 1 = 3 /\ Here = 134)
    BY <2>2 DEF PageAt
  <2>4. Here \notin {70, 80} /\ (Here = 140 => i = 1)
    BY <2>2, <2>3 DEF PageAt
  <2>5. i \in {1, 2}
    BY <2>2, <2>3
  <2> QED
    BY <1>2, <2>2, <2>4, <2>5 DEF PageAt
<1> QED
  BY <1>1, <1>3, <1>4, <1>5, <1>6 DEF Working

\* A restart begins the configuration, whatever the pass was about.
LEMMA RestartReceived ==
    ASSUME Working, lines # <<>>, lines' = Tail(lines), lines[1] = "ready",
           UNCHANGED <<pc, at, next, cmd, commands, prompt>>, iWifiStatus' = {}, uiWifiState' = 10
    PROVE  Working'
<1>1. /\ LinesOK' /\ Len(lines) \in Nat /\ 1 \in 1..Len(lines)
      /\ \A i \in 1..Len(lines') : i + 1 \in 1..Len(lines) /\ i \in Nat /\ lines'[i] = lines[i + 1]
  BY OneLess DEF Working
<1>2. pc \in {"pass", "act"} /\ Here = 5 /\ commands = <<>>
  BY <1>1 DEF Working, ReadyOK
<1>3. Here' \in {5, 10} /\ DriverOK' /\ FlagsOK'
  BY <1>2 DEF Here, DriverOK, FlagsOK
<1>4. ASSUME NEW i \in 1..Len(lines') PROVE lines'[i] \notin Marks
  <2>1. i + 1 # 1
    BY <1>1
  <2> QED
    BY <1>1, <2>1 DEF Working, LinesOK, Marks
<1>5. CommandsOK' /\ ReadyOK' /\ PromptOK' /\ PageOK'
  BY <1>2, <1>3, <1>4 DEF CommandsOK, ReadyOK, PromptOK, PageOK, Marks
<1> QED
  BY <1>1, <1>3, <1>5 DEF Working

LEMMA ReceiverKeeps ==
    ASSUME Working, Receiver
    PROVE  Working'
<1>1. /\ lines # <<>> /\ lines' = Tail(lines) /\ Head(lines) = lines[1]
      /\ UNCHANGED <<pc, at, next, cmd, commands, prompt>>
  BY OneLess DEF Receiver, ReceivePrompt, StreamBegin, StreamLine, Line, Arrives, Working
<1>2. iWifiStatus \subseteq {"OK", "ERROR", "ALREADYC", "SENTOK", "RDYSEND"}
  BY DEF Working, FlagsOK
<1>3. CASE ReceivePrompt \/ StreamBegin \/ StreamLine
  BY <1>1, <1>2, <1>3, AnswerReceived
     DEF ReceivePrompt, StreamBegin, StreamLine, Arrives, FlagsOK
<1>4. CASE Line
  <2>1. CASE rest = "long"
    BY <1>1, <1>2, <1>4, <2>1, AnswerReceived DEF Line, FlagsOK
  <2>2. CASE rest # "long" /\ Head(lines) = "ready"
    BY <1>1, <1>4, <2>2, RestartReceived DEF Line, vInterpretWifi
  <2>3. CASE rest # "long" /\ Head(lines) # "ready"
    <3>1. Status(lines[1]) \subseteq {"OK", "ERROR", "ALREADYC", "SENTOK"}
      BY DEF Status
    <3> QED
      BY <1>1, <1>2, <1>4, <2>3, <3>1, AnswerReceived DEF Line, vInterpretWifi, FlagsOK
  <2> QED
    BY <2>1, <2>2, <2>3
<1> QED
  BY <1>3, <1>4 DEF Receiver

-----------------------------------------------------------------------------
(* The module *)

\* What the module says of a command; the prompt, the restart and the page are
\* the answers of three of them.
Plain == Lines \ Marks
LEMMA AnswerOf ==
    ASSUME NEW c \in Commands, Answer(c)
    PROVE  /\ c \notin {"RST", "CIPSENDEX", "request"} =>
                prompt' = prompt /\ \E ls \in Seq(Plain) : lines' = lines \o ls
           /\ c = "RST" => lines' = lines \o <<"OK", "ready">>
           /\ c = "CIPSENDEX" =>
                \/ prompt' = TRUE /\ lines' = lines \o <<"OK", ">">>
                \/ lines' = lines \o <<"ERROR">>
           /\ c = "request" /\ prompt => lines' = lines \o <<"SEND_OK", "HTTP_OK", "<html>">>
<1>1. /\ <<"OK">> \in Seq(Plain) /\ <<"ERROR">> \in Seq(Plain) /\ <<"FAIL">> \in Seq(Plain)
      /\ <<"+CWL", "OK">> \in Seq(Plain) /\ <<"+CWL", "ERROR">> \in Seq(Plain)
      /\ <<"ALREADY_CONNECTED", "ERROR">> \in Seq(Plain)
  BY DEF Plain, Lines, Marks
<1> QED
  BY <1>1 DEF Answer, Says, Commands

\* Lines said after those on their way.
LEMMA Said ==
    ASSUME lines \in Seq(Lines), NEW ls \in Seq(Lines), lines' = lines \o ls
    PROVE  /\ lines' \in Seq(Lines) /\ Len(lines) \in Nat /\ Len(ls) \in Nat
           /\ Len(lines') = Len(lines) + Len(ls)
           /\ \A i \in 1..Len(lines) : i \in 1..Len(lines') /\ lines'[i] = lines[i]
           /\ \A i \in 1..Len(lines') :
                \/ i \in 1..Len(lines) /\ lines'[i] = lines[i]
                \/ i - Len(lines) \in 1..Len(ls) /\ lines'[i] = ls[i - Len(lines)]
BY ConcatProperties, LenProperties

\* Plain answers leave the marks where they are.
LEMMA PlainAnswer ==
    ASSUME Working, UNCHANGED <<pc, uiWifiState, at, next, cmd, iWifiStatus>>,
           commands # <<>>, commands' = <<>>, NEW ls \in Seq(Plain), lines' = lines \o ls
    PROVE  Working'
<1>1. ls \in Seq(Lines) /\ \A i \in 1..Len(ls) : ls[i] \notin Marks
  BY ElementOfSeq DEF Plain
<1>2. /\ lines' \in Seq(Lines)
      /\ \A i \in 1..Len(lines') : lines'[i] \in Marks => i \in 1..Len(lines) /\ lines'[i] = lines[i]
  BY <1>1, Said DEF Working, LinesOK
<1>3. LinesOK'
  BY <1>2 DEF Working, LinesOK
<1>4. Here' = Here /\ pc' = pc /\ iWifiStatus' = iWifiStatus
  BY DEF Here
<1>5. DriverOK' /\ FlagsOK' /\ CommandsOK'
  BY DEF Working, DriverOK, FlagsOK, CommandsOK
<1>6. ReadyOK' /\ PromptOK'
  <2>1. \A i \in 1..Len(lines) : lines[i] \notin {"ready", ">"}
    BY DEF Working, ReadyOK, PromptOK
  <2>2. \A i \in 1..Len(lines') : lines'[i] \notin {"ready", ">"}
    BY <1>2, <2>1 DEF Marks
  <2>3. ~Quiet
    BY DEF Quiet
  <2> QED
    BY <1>4, <2>2, <2>3 DEF Working, ReadyOK, PromptOK
<1>7. PageOK'
  <2>1. SUFFICES ASSUME NEW i \in 1..Len(lines'), lines'[i] = "<html>" PROVE PageAt(i)'
    BY DEF PageOK
  <2>2. PageAt(i)
    BY <1>2, <2>1 DEF Working, PageOK, Marks
  <2> QED
    BY <1>4, <2>2 DEF PageAt
<1> QED
  BY <1>3, <1>5, <1>6, <1>7 DEF Working

\* The answers with a mark: no other is on its way, and the driver waits for it.
LEMMA MarkedAnswer ==
    ASSUME Working, UNCHANGED <<pc, uiWifiState, at, next, cmd, iWifiStatus>>, pc # "send",
           commands # <<>>, commands' = <<>>, Unmarked,
           NEW ls \in Seq(Lines), lines' = lines \o ls,
           NEW mark \in Marks, NEW n \in 1..Len(ls), ls[n] = mark,
           \A i \in 1..Len(ls) : ls[i] \in Marks => i = n,
           mark = "ready" => pc # "set" /\ Here = 5,
           mark = ">" => n = Len(ls) /\ Here = 129 /\ prompt',
           mark = "<html>" => n = 3 /\ Here = 134 /\ iWifiStatus = {} /\ lines = <<>>
    PROVE  Working'
<1>1. /\ lines' \in Seq(Lines) /\ Len(lines) \in Nat /\ Len(ls) \in Nat
      /\ Len(lines') = Len(lines) + Len(ls)
      /\ \A i \in 1..Len(lines') :
            lines'[i] \in Marks => i = Len(lines) + n /\ lines'[i] = mark
  <2>1. /\ lines' \in Seq(Lines) /\ Len(lines) \in Nat /\ Len(ls) \in Nat
        /\ Len(lines') = Len(lines) + Len(ls)
        /\ \A i \in 1..Len(lines') :
              \/ i \in 1..Len(lines) /\ lines'[i] = lines[i]
              \/ i - Len(lines) \in 1..Len(ls) /\ lines'[i] = ls[i - Len(lines)]
    BY Said DEF Working, LinesOK
  <2>2. ASSUME NEW i \in 1..Len(lines'), lines'[i] \in Marks
        PROVE  i = Len(lines) + n /\ lines'[i] = mark
    <3>1. i - Len(lines) \in 1..Len(ls) /\ lines'[i] = ls[i - Len(lines)]
      BY <2>1, <2>2 DEF Unmarked
    <3>2. i - Len(lines) = n
      BY <2>2, <3>1
    <3>3. i \in Nat /\ n \in Nat
      BY <2>1
    <3>4. i = Len(lines) + n
      BY <2>1, <3>2, <3>3
    <3> QED
      BY <3>1, <3>2, <3>4
  <2> QED
    BY <2>1, <2>2
<1>2. LinesOK'
  BY <1>1 DEF LinesOK
<1>3. Here' = Here /\ pc' = pc /\ iWifiStatus' = iWifiStatus /\ uiWifiState' = uiWifiState
  BY DEF Here
<1>4. DriverOK' /\ FlagsOK' /\ CommandsOK'
  BY DEF Working, DriverOK, FlagsOK, CommandsOK
<1>5. ReadyOK'
  <2>1. SUFFICES ASSUME NEW i \in 1..Len(lines'), lines'[i] = "ready"
                 PROVE  pc \in {"pass", "act"} /\ Here = 5 /\ uiWifiState = 5
    BY <1>3 DEF ReadyOK
  <2>2. pc \in {"pass", "act"} /\ Here = 5
    BY <1>1, <2>1 DEF Marks, Working, DriverOK
  <2> QED
    BY <2>2 DEF Here, Working, DriverOK
<1>6. PromptOK'
  <2>1. ~Quiet
    BY DEF Quiet
  <2>2. ASSUME NEW i \in 1..Len(lines'), lines'[i] = ">"
        PROVE  i = Len(lines') /\ Here = 129 /\ pc # "send" /\ prompt'
    <3>1. mark = ">" /\ i = Len(lines) + n
      BY <1>1, <2>2 DEF Marks
    <3>2. n = Len(ls) /\ Here = 129 /\ prompt'
      BY <3>1
    <3> QED
      BY <1>1, <3>1, <3>2
  <2> QED
    BY <1>3, <2>1, <2>2 DEF Working, PromptOK
<1>7. PageOK'
  <2>1. SUFFICES ASSUME NEW i \in 1..Len(lines'), lines'[i] = "<html>" PROVE PageAt(i)'
    BY DEF PageOK
  <2>2. mark = "<html>" /\ i = Len(lines) + 3 /\ lines = <<>>
    BY <1>1, <2>1 DEF Marks
  <2>3. i = 3
    BY <2>2, EmptySeq, <1>1
  <2> QED
    BY <1>3, <2>2, <2>3 DEF PageAt
<1> QED
  BY <1>2, <1>4, <1>5, <1>6, <1>7 DEF Working

LEMMA ThreeLines ==
    ASSUME NEW a \in Lines, NEW b \in Lines, NEW c \in Lines
    PROVE  /\ <<a, b, c>> \in Seq(Lines) /\ Len(<<a, b, c>>) = 3
           /\ <<a, b, c>>[1] = a /\ <<a, b, c>>[2] = b /\ <<a, b, c>>[3] = c
OBVIOUS

LEMMA PageAnswer ==
    \E ls \in Seq(Lines) :
        /\ ls = <<"SEND_OK", "HTTP_OK", "<html>">> /\ Len(ls) = 3 /\ ls[3] = "<html>"
        /\ \A i \in 1..Len(ls) : ls[i] \in Marks => i = 3
<1>1. PICK a \in Lines, b \in Lines, c \in Lines :
        a = "SEND_OK" /\ b = "HTTP_OK" /\ c = "<html>"
  BY DEF Lines
<1>2. PICK ls \in Seq(Lines) :
        ls = <<a, b, c>> /\ Len(ls) = 3 /\ ls[1] = a /\ ls[2] = b /\ ls[3] = c
  <2>1. /\ <<a, b, c>> \in Seq(Lines) /\ Len(<<a, b, c>>) = 3
        /\ <<a, b, c>>[1] = a /\ <<a, b, c>>[2] = b /\ <<a, b, c>>[3] = c
    BY ThreeLines
  <2> QED
    BY <2>1, Zenon
<1>3. \A i \in 1..3 : i = 1 \/ i = 2 \/ i = 3
  OBVIOUS
<1>4. a \notin Marks /\ b \notin Marks
  BY <1>1 DEF Marks
<1>5. \A i \in 1..Len(ls) : ls[i] \in Marks => i = 3
  BY <1>2, <1>3, <1>4, Zenon
<1> QED
  BY <1>1, <1>2, <1>5, Zenon

LEMMA ModuleKeeps ==
    ASSUME Working, ModuleAnswers
    PROVE  Working'
<1>1. /\ UNCHANGED <<pc, uiWifiState, at, next, cmd, iWifiStatus>> /\ pc # "set"
      /\ commands # <<>> /\ commands' = <<>>
  BY DEF ModuleAnswers, driver, receiver
<1>2. PICK c \in Commands : commands = <<c>> /\ Answer(c)
  BY <1>1 DEF ModuleAnswers, Working, CommandsOK
<1>3. CASE c \notin {"RST", "CIPSENDEX", "request"}
  BY <1>1, <1>2, <1>3, AnswerOf, PlainAnswer
<1>4. CASE c = "RST"
  <2>1. PICK ls : ls = <<"OK", "ready">>
    OBVIOUS
  <2>2. /\ ls \in Seq(Lines) /\ 2 \in 1..Len(ls) /\ ls[2] = "ready"
        /\ \A i \in 1..Len(ls) : ls[i] \in Marks => i = 2
    <3>1. ls \in Seq(Lines) /\ Len(ls) = 2 /\ ls[1] = "OK" /\ ls[2] = "ready"
      BY <2>1 DEF Lines
    <3> QED
      BY <3>1 DEF Marks
  <2>4. lines' = lines \o ls
    BY <1>2, <1>4, <2>1, AnswerOf
  <2>3. Here = 5 /\ pc # "send" /\ Unmarked
    BY <1>2, <1>4 DEF Working, CommandsOK
  <2> QED
    BY <1>1, <2>2, <2>3, <2>4, MarkedAnswer DEF Marks
<1>5. CASE c = "CIPSENDEX"
  <2>1. Here = 129 /\ pc # "send" /\ Unmarked
    BY <1>2, <1>5 DEF Working, CommandsOK
  <2>2. CASE prompt' = TRUE /\ lines' = lines \o <<"OK", ">">>
    <3>1. PICK ls : ls = <<"OK", ">">>
      OBVIOUS
    <3>2. ls \in Seq(Lines) /\ lines' = lines \o ls /\ 2 \in 1..Len(ls) /\ ls[2] = ">" /\ Len(ls) = 2
          /\ \A i \in 1..Len(ls) : ls[i] \in Marks => i = 2
      BY <2>2, <3>1 DEF Lines, Marks
    <3> QED
      BY <1>1, <2>1, <2>2, <3>2, MarkedAnswer DEF Marks
  <2>3. CASE lines' = lines \o <<"ERROR">>
    <3>1. PICK ls : ls = <<"ERROR">>
      OBVIOUS
    <3>2. ls \in Seq(Plain)
      BY <3>1 DEF Plain, Lines, Marks
    <3> QED
      BY <1>1, <2>3, <3>1, <3>2, PlainAnswer
  <2> QED
    BY <1>2, <1>5, <2>2, <2>3, AnswerOf
<1>6. CASE c = "request"
  <2>1. /\ Here = 134 /\ pc # "send" /\ lines = <<>> /\ prompt /\ iWifiStatus = {} /\ Unmarked
    BY <1>2, <1>6, EmptySeq DEF Working, CommandsOK, Unmarked
  <2>2. PICK ls \in Seq(Lines) :
          /\ ls = <<"SEND_OK", "HTTP_OK", "<html>">> /\ Len(ls) = 3 /\ ls[3] = "<html>"
          /\ \A i \in 1..Len(ls) : ls[i] \in Marks => i = 3
    BY PageAnswer
  <2>3. lines' = lines \o ls
    BY <1>2, <1>6, <2>1, <2>2, AnswerOf, Zenon
  <2>4. 3 \in 1..Len(ls) /\ ls[3] = "<html>" /\ \A i \in 1..Len(ls) : ls[i] \in Marks => i = 3
    <3>1. Len(ls) = 3
      BY <2>2, Zenon
    <3>2. 3 \in 1..Len(ls)
      BY <3>1
    <3> QED
      BY <2>2, <3>2, Zenon
  <2> QED
    BY <1>1, <2>1, <2>3, <2>4, MarkedAnswer DEF Marks
<1> QED
  BY <1>3, <1>4, <1>5, <1>6

LEMMA StutterKeeps == Working /\ UNCHANGED vars => Working'
<1> SUFFICES ASSUME Working, UNCHANGED vars PROVE Working'
  OBVIOUS
<1>1. /\ UNCHANGED <<pc, uiWifiState, at, next, cmd, iWifiStatus, commands, lines, prompt>>
  BY DEF vars, driver, receiver, module
<1>2. Here' = Here
  BY <1>1 DEF Here
<1>3. PageOK'
  BY <1>1, <1>2 DEF Working, PageOK, PageAt
<1> QED
  BY <1>1, <1>2, <1>3 DEF Working, DriverOK, FlagsOK, LinesOK, CommandsOK, ReadyOK, PromptOK,
                          Unmarked, Quiet

\* A step counts one fault or none.
LEMMA FaultsCount == [Next]_vars => faults' = faults \/ faults' = faults + 1
BY DEF Next, Driver, Receiver, vars, driver, receiver, module, Fault, TimeOut, TimeOutEarly,
       CloudTimeOut, DeviceReset, Pass, Configure, ConfigWait, Scan, ScanWait, cConnectAp, Upload,
       UploadWait, CloudWait, vPrepareRequest, Move, vWifi_sendcommand, SetState, SendIn, Sends,
       WaitIn, Cleared, Quietly, ReceivePrompt, StreamBegin, StreamLine, Line, Arrives,
       ModuleAnswers, ModuleRestarts, LineLost

-----------------------------------------------------------------------------
\* While the module works, the request waits for its prompt, whatever flags the answers
\* to other commands, the server's reply and its page have set meanwhile, and for lists
\* of any length.
THEOREM RequestWaitsForPrompt == Spec => []PromptBeforeRequest
<1>1. Init => WifiInv
  <2> SUFFICES ASSUME Init, faults = 0 PROVE Working /\ faults \in Nat
    BY WifiAssumption DEF Init, WifiInv
  <2>1. /\ pc = "pass" /\ uiWifiState = 10 /\ lines = <<>> /\ commands = <<>> /\ iWifiStatus = {}
    BY WifiAssumption DEF Init
  <2>2. Here = 10
    BY <2>1 DEF Here
  <2> QED
    BY <2>1, <2>2 DEF Working, DriverOK, FlagsOK, LinesOK, CommandsOK, ReadyOK, PromptOK, PageOK
<1>2. WifiInv /\ [Next]_vars => WifiInv'
  <2> SUFFICES ASSUME WifiInv, [Next]_vars PROVE WifiInv'
    OBVIOUS
  <2>1. CASE faults' = faults + 1
    BY <2>1 DEF WifiInv
  <2>2. CASE faults' = faults /\ faults # 0
    BY <2>2 DEF WifiInv
  <2>3. CASE faults' = faults /\ faults = 0
    <3>1. Working /\ faults \in Nat
      BY <2>3 DEF WifiInv
    <3>2. Working'
      <4>1. CASE Driver
        BY <3>1, <4>1, DriverKeeps
      <4>2. CASE TimeOut
        BY <3>1, <4>2, TimeOutKeeps
      <4>3. CASE CloudTimeOut
        BY <3>1, <4>3, CloudKeeps
      <4>4. CASE Receiver
        BY <3>1, <4>4, ReceiverKeeps
      <4>5. CASE ModuleAnswers
        BY <3>1, <4>5, ModuleKeeps
      <4>6. ~Fault
        BY <2>3, <3>1 DEF Fault
      <4>7. CASE UNCHANGED vars
        BY <3>1, <4>7, StutterKeeps
      <4> QED
        BY <4>1, <4>2, <4>3, <4>4, <4>5, <4>6, <4>7
           DEF Next, TimeOutEarly, DeviceReset, ModuleRestarts, LineLost
    <3> QED
      BY <2>3, <3>1, <3>2 DEF WifiInv
  <2> QED
    BY <2>1, <2>2, <2>3, FaultsCount
<1>3. WifiInv => PromptBeforeRequest
  <2> SUFFICES ASSUME WifiInv, pc = "send", cmd = "request", faults = 0 PROVE prompt
    BY DEF WifiInv, PromptBeforeRequest
  <2>1. PICK s \in ConfigSends \cup ScanSends \cup UploadSends \cup {<<90, "CWJAP", 110>>} :
          cmd = s[2] /\ next = s[3]
    BY DEF WifiInv, Working, DriverOK
  <2>2. next = 134
    BY <2>1 DEF ConfigSends, ScanSends, UploadSends
  <2> QED
    BY <2>2 DEF WifiInv, Working, PromptOK, Here, Quiet
<1> QED
  BY <1>1, <1>2, <1>3, PTL DEF Spec

-----------------------------------------------------------------------------
(* The report, whatever fails.  After a fault any answer may be taken for  *)
(* another's, but not the evidence of an upload, SEND OK: it is on its way *)
(* while the driver waits for it or has begun anew, and a driver that has  *)
(* begun anew is held by state 5 until a `ready' comes, which is behind it.*)

On(line) == \E i \in 1..Len(lines) : lines[i] = line

\* The module is about to give the evidence.
Accepting == commands = <<"request">> /\ prompt
Evidence == On("SEND_OK") \/ "SENTOK" \in iWifiStatus

WaitsForIt == Here = 134 /\ pc # "send"
Anew == Here \in {0, 5}

ControlOK ==
    /\ pc \in {"pass", "act", "send", "set"}
    /\ pc = "send" => \E s \in ConfigSends \cup ScanSends \cup UploadSends \cup {<<90, "CWJAP", 110>>} :
                          cmd = s[2] /\ next = s[3]
    /\ commands = <<>> \/ \E c \in Commands : commands = <<c>>
    /\ lines \in Seq(Lines) /\ FlagsOK

\* The request is sent when no evidence of an earlier one is left,
SentOnce ==
    /\ commands = <<"request">> => ~accepted
    /\ Evidence => accepted
\* because nobody but these states has any to do with it,
Placed ==
    /\ Accepting \/ On("SEND_OK") => WaitsForIt \/ Anew
    /\ "SENTOK" \in iWifiStatus => WaitsForIt \/ Anew \/ Here \in {136, 138}
    /\ (Accepting \/ Evidence) /\ pc = "act" => at = uiWifiState
\* there is one at a time, and no restart is heard of before it.
InOrder ==
    /\ \A i, j \in 1..Len(lines) : lines[i] = "SEND_OK" /\ lines[j] = "SEND_OK" => i = j
    /\ \A i, j \in 1..Len(lines) : lines[i] = "ready" /\ lines[j] = "SEND_OK" => j < i
Single == InOrder /\ (On("SEND_OK") => "SENTOK" \notin iWifiStatus)

SentInv == ControlOK /\ SentOnce /\ Placed /\ Single

\* The driver goes on: what is left of the evidence is where it may be.
LEMMA SentOnward ==
    ASSUME SentInv, ControlOK', UNCHANGED <<commands, lines, prompt, accepted>>,
           iWifiStatus' = iWifiStatus \/ iWifiStatus' = {},
           Accepting \/ On("SEND_OK") => WaitsForIt' \/ Anew',
           "SENTOK" \in iWifiStatus' => WaitsForIt' \/ Anew' \/ Here' \in {136, 138},
           (Accepting \/ Evidence) /\ pc' = "act" => at' = uiWifiState'
    PROVE  SentInv'
<1>1. Accepting' = Accepting /\ On("SEND_OK")' = On("SEND_OK")
  BY DEF Accepting, On
<1>2. Evidence' => Evidence
  BY <1>1 DEF Evidence
<1> QED
  BY <1>1, <1>2 DEF SentInv, SentOnce, Placed, Single, InOrder

LEMMA SentPass ==
    ASSUME SentInv, Pass \/ SetState
    PROVE  SentInv'
<1>1. /\ UNCHANGED <<commands, lines, prompt, accepted, iWifiStatus>> /\ Here' = Here
      /\ pc # "send" /\ pc' \in {"act", "pass"} /\ (pc' = "act" => at' = uiWifiState')
  BY DEF Pass, SetState, receiver, module, Here
<1>2. ControlOK'
  BY <1>1 DEF SentInv, ControlOK, FlagsOK
<1>3. WaitsForIt' = WaitsForIt /\ Anew' = Anew
  BY <1>1 DEF WaitsForIt, Anew
<1> QED
  BY <1>1, <1>2, <1>3, SentOnward DEF SentInv, Placed

LEMMA SentStays ==
    ASSUME SentInv, pc = "act", Stays, Quietly
    PROVE  SentInv'
<1>1. /\ UNCHANGED <<commands, lines, prompt, accepted, iWifiStatus>>
      /\ Here = at /\ Here' = uiWifiState /\ pc' = "pass"
  BY DEF Stays, Quietly, receiver, module, Here
<1>2. ControlOK'
  BY <1>1 DEF SentInv, ControlOK, FlagsOK
<1>3. Accepting \/ Evidence => WaitsForIt' = WaitsForIt /\ Anew' = Anew /\ Here' = Here
  BY <1>1 DEF SentInv, Placed, WaitsForIt, Anew
<1> QED
  BY <1>1, <1>2, <1>3, SentOnward DEF SentInv, Placed, Evidence

LEMMA SentSends ==
    ASSUME SentInv, pc = "act", UNCHANGED <<module>>,
           NEW s \in ConfigSends \cup ScanSends \cup UploadSends \cup {<<90, "CWJAP", 110>>},
           at = s[1], Sends(s[2], s[3])
    PROVE  SentInv'
<1>1. /\ UNCHANGED <<commands, lines, prompt, accepted>>
      /\ iWifiStatus' = {} /\ Here = s[1] /\ Here' = s[3] /\ pc' = "send"
  BY DEF Sends, Cleared, module, Here
<1>2. ControlOK'
  BY <1>1 DEF SentInv, ControlOK, FlagsOK, Sends
<1>3. s[1] \notin {5, 134} /\ (s[1] = 0 => s[3] = 5)
  BY DEF ConfigSends, ScanSends, UploadSends
<1>4. Accepting \/ On("SEND_OK") => Anew'
  BY <1>1, <1>3 DEF SentInv, Placed, WaitsForIt, Anew
<1> QED
  BY <1>1, <1>2, <1>4, SentOnward

\* A state that waited leaves with the evidence, and with nothing of it behind, or has
\* nothing to do with it.
LEMMA SentAnswered ==
    ASSUME SentInv, pc = "act", Quietly, NEW w \in ConfigWaits \cup UploadWaits,
           at = w[1], w[2] \subseteq iWifiStatus, Goes(w[3])
    PROVE  SentInv'
<1>1. /\ UNCHANGED <<commands, lines, prompt, accepted, iWifiStatus>>
      /\ Here = w[1] /\ Here' = w[3] /\ pc' = "set"
  BY DEF Goes, Quietly, receiver, module, Here
<1>2. ControlOK'
  BY <1>1 DEF SentInv, ControlOK, FlagsOK
<1>3. /\ w[1] \notin {0, 5, 136, 138}
      /\ w[1] = 134 => w[3] = 136 /\ "SENTOK" \in iWifiStatus
  <2>1. iWifiStatus \subseteq {"OK", "ERROR", "ALREADYC", "SENTOK", "RDYSEND"}
    BY DEF SentInv, ControlOK, FlagsOK
  <2>2. CASE w \in ConfigWaits
    BY <2>1, <2>2 DEF ConfigWaits
  <2>3. CASE w \in UploadWaits
    BY <2>1, <2>3 DEF UploadWaits
  <2> QED
    BY <2>2, <2>3
<1>4. CASE w[1] = 134
  <2>1. ~On("SEND_OK") /\ ~Accepting
    BY <1>3, <1>4 DEF SentInv, SentOnce, Single, Evidence, Accepting
  <2> QED
    BY <1>1, <1>2, <1>3, <1>4, <2>1, SentOnward
<1>5. CASE w[1] # 134
  <2>1. ~Accepting /\ ~Evidence
    BY <1>1, <1>3, <1>5 DEF SentInv, Placed, WaitsForIt, Anew, Evidence
  <2> QED
    BY <1>1, <1>2, <2>1, SentOnward DEF Evidence
<1> QED
  BY <1>4, <1>5

LEMMA SentMoves ==
    ASSUME SentInv, pc = "act", UNCHANGED <<module>>,
           iWifiStatus' = iWifiStatus \/ iWifiStatus' = {},
           NEW there, Goes(there), at \notin {0, 5, 134, 138}, at = 136 => there = 138
    PROVE  SentInv'
<1>1. /\ UNCHANGED <<commands, lines, prompt, accepted>>
      /\ Here = at /\ Here' = there /\ pc' = "set"
  BY DEF Goes, module, Here
<1>2. ControlOK'
  <2>1. iWifiStatus \subseteq {"OK", "ERROR", "ALREADYC", "SENTOK", "RDYSEND"}
    BY DEF SentInv, ControlOK, FlagsOK
  <2>2. FlagsOK'
    <3>1. CASE iWifiStatus' = iWifiStatus
      BY <2>1, <3>1 DEF FlagsOK
    <3>2. CASE iWifiStatus' = {}
      BY <3>2 DEF FlagsOK
    <3> QED
      BY <3>1, <3>2
  <2> QED
    BY <1>1, <2>2 DEF SentInv, ControlOK
<1>3. ~Accepting /\ ~On("SEND_OK")
  BY <1>1 DEF SentInv, Placed, WaitsForIt, Anew
<1>4. "SENTOK" \in iWifiStatus' => Here' = 138
  BY <1>1 DEF SentInv, Placed, WaitsForIt, Anew
<1> QED
  BY <1>1, <1>2, <1>3, <1>4, SentOnward

\* It begins anew, whatever it has of the evidence.
LEMMA SentAnew ==
    ASSUME SentInv, Restarts \/ DeviceReset
    PROVE  SentInv'
<1>1. /\ UNCHANGED <<commands, lines, prompt, accepted, iWifiStatus>>
      /\ Here' = 0 /\ pc' = "pass"
  BY DEF Restarts, DeviceReset, receiver, module, Here
<1>2. ControlOK'
  BY <1>1 DEF SentInv, ControlOK, FlagsOK
<1> QED
  BY <1>1, <1>2, SentOnward DEF Anew

LEMMA SentDriven ==
    ASSUME SentInv,
           \/ Pass \/ Configure \/ ConfigWait \/ Scan \/ ScanWait \/ cConnectAp
           \/ Upload \/ UploadWait \/ CloudWait \/ CloudTimeOut \/ vPrepareRequest \/ Move
           \/ SetState \/ TimeOut \/ TimeOutEarly \/ DeviceReset
    PROVE  SentInv'
<1>1. CASE Pass \/ SetState
  BY <1>1, SentPass
<1>2. CASE Configure \/ Scan \/ Upload
  <2>1. PICK s \in ConfigSends \cup ScanSends \cup UploadSends : In(s[1]) /\ Sends(s[2], s[3])
    BY <1>2 DEF Configure, Scan, Upload, SendIn
  <2> QED
    BY <2>1, SentSends DEF In, Sends, Cleared
<1>3. CASE ConfigWait \/ UploadWait
  <2>1. pc = "act" /\ Quietly
    BY <1>3 DEF ConfigWait, UploadWait, WaitIn
  <2>2. \/ Stays
        \/ \E w \in ConfigWaits \cup UploadWaits :
              w[1] = at /\ w[2] \subseteq iWifiStatus /\ Goes(w[3])
    BY <1>3 DEF ConfigWait, UploadWait, WaitIn
  <2> QED
    BY <2>1, <2>2, SentStays, SentAnswered
<1>4. CASE ScanWait \/ CloudWait \/ CloudTimeOut \/ vPrepareRequest
  <2>1. /\ pc = "act" /\ at \in {80, 120, 125}
        /\ UNCHANGED <<module>> /\ iWifiStatus' = iWifiStatus
    BY <1>4 DEF ScanWait, CloudWait, CloudTimeOut, vPrepareRequest, In, Quietly, receiver
  <2>2. \/ Stays /\ Quietly
        \/ \E there \in {90, 0, 125, 70, 127} : Goes(there)
    BY <1>4 DEF ScanWait, CloudWait, CloudTimeOut, vPrepareRequest
  <2> QED
    BY <2>1, <2>2, SentStays, SentMoves
<1>5. CASE cConnectAp
  <2>1. pc = "act" /\ at = 90
    BY <1>5 DEF cConnectAp, In
  <2>2. CASE Cleared /\ Goes(100)
    BY <2>1, <2>2, SentMoves DEF Cleared
  <2>3. CASE Sends("CWJAP", 110)
    <3>1. PICK s \in {<<90, "CWJAP", 110>>} : s = <<90, "CWJAP", 110>>
      OBVIOUS
    <3> QED
      BY <2>1, <2>3, <3>1, SentSends DEF Sends, Cleared
  <2> QED
    BY <1>5, <2>2, <2>3 DEF cConnectAp
<1>6. CASE Move
  <2>1. PICK m \in Moves : In(m[1]) /\ Goes(m[2])
    BY <1>6 DEF Move
  <2>2. at \in {100, 136} /\ (at = 136 => m[2] = 138)
    BY <2>1 DEF Moves, In
  <2> QED
    BY <1>6, <2>1, <2>2, SentMoves DEF Move, In, Quietly, receiver
<1>7. CASE TimeOut \/ TimeOutEarly \/ DeviceReset
  BY <1>7, SentAnew DEF TimeOut, TimeOutEarly
<1> QED
  BY <1>1, <1>2, <1>3, <1>4, <1>5, <1>6, <1>7

\* Of the lines on their way the first is gone.
LEMMA InOrderStill ==
    ASSUME lines \in Seq(Lines), InOrder, lines # <<>>, lines' = Tail(lines)
    PROVE  /\ lines' \in Seq(Lines) /\ InOrder' /\ Head(lines) = lines[1]
           /\ On("SEND_OK")' => On("SEND_OK") /\ lines[1] \notin {"ready", "SEND_OK"}
           /\ lines[1] = "SEND_OK" => On("SEND_OK")
           /\ lines[1] = "ready" => On("ready") /\ ~On("SEND_OK")
<1>1. /\ lines' \in Seq(Lines) /\ 1 \in 1..Len(lines) /\ Head(lines) = lines[1]
      /\ \A i \in 1..Len(lines') : i \in Nat /\ i > 0 /\ i + 1 \in 1..Len(lines) /\ lines'[i] = lines[i + 1]
  BY LineTaken
<1>2. \A i, j \in 1..Len(lines') : lines'[i] = "SEND_OK" /\ lines'[j] = "SEND_OK" => i = j
  <2>1. SUFFICES ASSUME NEW i \in 1..Len(lines'), NEW j \in 1..Len(lines'),
                        lines'[i] = "SEND_OK", lines'[j] = "SEND_OK"
                 PROVE  i = j
    OBVIOUS
  <2>2. /\ i + 1 \in 1..Len(lines) /\ lines[i + 1] = "SEND_OK"
        /\ j + 1 \in 1..Len(lines) /\ lines[j + 1] = "SEND_OK"
    BY <1>1, <2>1
  <2>3. i + 1 = j + 1
    BY <2>2 DEF InOrder
  <2> QED
    BY <1>1, <2>3
<1>3. \A i, j \in 1..Len(lines') : lines'[i] = "ready" /\ lines'[j] = "SEND_OK" => j < i
  <2>1. SUFFICES ASSUME NEW i \in 1..Len(lines'), NEW j \in 1..Len(lines'),
                        lines'[i] = "ready", lines'[j] = "SEND_OK"
                 PROVE  j < i
    OBVIOUS
  <2>2. /\ i + 1 \in 1..Len(lines) /\ lines[i + 1] = "ready"
        /\ j + 1 \in 1..Len(lines) /\ lines[j + 1] = "SEND_OK"
    BY <1>1, <2>1
  <2>3. j + 1 < i + 1
    BY <2>2 DEF InOrder
  <2> QED
    BY <1>1, <2>3
<1>4. ASSUME NEW i \in 1..Len(lines'), lines'[i] = "SEND_OK"
      PROVE  On("SEND_OK") /\ lines[1] \notin {"ready", "SEND_OK"}
  <2>1. i + 1 \in 1..Len(lines) /\ lines[i + 1] = "SEND_OK"
    BY <1>1, <1>4
  <2>2. i + 1 # 1 /\ ~(i + 1 < 1)
    BY <1>1
  <2> QED
    BY <1>1, <2>1, <2>2 DEF InOrder, On
<1>5. lines[1] = "ready" => ~On("SEND_OK")
  <2>1. SUFFICES ASSUME lines[1] = "ready", NEW j \in 1..Len(lines), lines[j] = "SEND_OK" PROVE FALSE
    BY DEF On
  <2>2. j < 1
    BY <1>1, <2>1 DEF InOrder
  <2> QED
    BY <2>2
<1> QED
  BY <1>1, <1>2, <1>3, <1>4, <1>5 DEF InOrder, On

\* A line is lost, or taken for an answer.
LEMMA SentLineGone ==
    ASSUME SentInv, lines # <<>>, lines' = Tail(lines),
           UNCHANGED <<pc, uiWifiState, at, next, cmd, commands, prompt, accepted>>, FlagsOK',
           "SENTOK" \in iWifiStatus' => "SENTOK" \in iWifiStatus \/ lines[1] = "SEND_OK"
    PROVE  SentInv'
<1>1. /\ lines' \in Seq(Lines) /\ InOrder'
      /\ On("SEND_OK")' => On("SEND_OK") /\ lines[1] # "SEND_OK"
      /\ lines[1] = "SEND_OK" => On("SEND_OK")
  BY InOrderStill DEF SentInv, ControlOK, Single
<1>2. Here' = Here /\ WaitsForIt' = WaitsForIt /\ Anew' = Anew /\ Accepting' = Accepting
  BY DEF Here, WaitsForIt, Anew, Accepting
<1>3. ControlOK'
  BY <1>1 DEF SentInv, ControlOK
<1>4. SentOnce' /\ (Evidence' => Evidence)
  BY <1>1 DEF SentInv, SentOnce, Evidence
<1>5. Placed'
  BY <1>1, <1>2, <1>4 DEF SentInv, Placed
<1>6. Single'
  BY <1>1 DEF SentInv, Single
<1> QED
  BY <1>3, <1>4, <1>5, <1>6 DEF SentInv

\* A state without any of it is right wherever the driver is.
LEMMA SentNothing ==
    ASSUME ControlOK', InOrder', ~Evidence', ~Accepting', commands' = <<"request">> => ~accepted'
    PROVE  SentInv'
BY DEF SentInv, SentOnce, Placed, Single, Evidence

LEMMA SentRestartHeard ==
    ASSUME SentInv, RestartHeard, lines # <<>>, lines' = Tail(lines), lines[1] = "ready",
           UNCHANGED <<pc, at, next, cmd, commands, prompt, accepted>>, iWifiStatus' = {}
    PROVE  SentInv'
<1>1. lines' \in Seq(Lines) /\ InOrder' /\ On("ready") /\ ~On("SEND_OK")'
  BY InOrderStill DEF SentInv, ControlOK, Single
<1>2. ~Accepting /\ Accepting' = Accepting
  BY <1>1 DEF RestartHeard, Accepting, On
<1>3. ControlOK'
  BY <1>1 DEF SentInv, ControlOK, FlagsOK
<1> QED
  BY <1>1, <1>2, <1>3, SentNothing DEF Evidence, SentInv, SentOnce

LEMMA SentReceived ==
    ASSUME SentInv, RestartHeard, Receiver
    PROVE  SentInv'
<1>1. /\ lines # <<>> /\ lines' = Tail(lines) /\ Head(lines) = lines[1]
      /\ UNCHANGED <<pc, at, next, cmd, commands, prompt, accepted>>
  BY InOrderStill DEF Receiver, ReceivePrompt, StreamBegin, StreamLine, Line, Arrives, SentInv,
                      ControlOK, Single
<1>2. iWifiStatus \subseteq {"OK", "ERROR", "ALREADYC", "SENTOK", "RDYSEND"}
  BY DEF SentInv, ControlOK, FlagsOK
<1>3. CASE ReceivePrompt \/ StreamBegin \/ StreamLine
  BY <1>1, <1>2, <1>3, SentLineGone DEF ReceivePrompt, StreamBegin, StreamLine, FlagsOK
<1>4. CASE Line
  <2>1. CASE rest = "long"
    BY <1>1, <1>2, <1>4, <2>1, SentLineGone DEF Line, FlagsOK
  <2>2. CASE rest # "long" /\ Head(lines) = "ready"
    BY <1>1, <1>4, <2>2, SentRestartHeard DEF Line, vInterpretWifi
  <2>3. CASE rest # "long" /\ Head(lines) # "ready"
    <3>1. /\ Status(lines[1]) \subseteq {"OK", "ERROR", "ALREADYC", "SENTOK"}
          /\ "SENTOK" \in Status(lines[1]) => lines[1] = "SEND_OK"
      BY DEF Status
    <3> QED
      BY <1>1, <1>2, <1>4, <2>3, <3>1, SentLineGone DEF Line, vInterpretWifi, FlagsOK
  <2> QED
    BY <2>1, <2>2, <2>3
<1> QED
  BY <1>3, <1>4 DEF Receiver

\* The request goes out when nothing is left of an earlier one.
LEMMA SentCommand ==
    ASSUME SentInv, vWifi_sendcommand
    PROVE  SentInv'
<1>1. /\ pc = "send" /\ pc' = "set" /\ Here' = Here /\ Here = next
      /\ commands' = (IF commands = <<>> THEN <<cmd>> ELSE commands)
      /\ lines' = lines \/ (lines # <<>> /\ lines' = Tail(lines))
      /\ accepted' = (accepted /\ cmd # "request")
      /\ UNCHANGED <<prompt, iWifiStatus>>
  BY DEF vWifi_sendcommand, Here
<1>2. PICK s \in ConfigSends \cup ScanSends \cup UploadSends \cup {<<90, "CWJAP", 110>>} :
        cmd = s[2] /\ next = s[3]
  BY <1>1 DEF SentInv, ControlOK
<1>3. cmd \in Commands /\ (cmd = "request" <=> Here = 134)
  BY <1>1, <1>2, SMTT(30) DEF ConfigSends, ScanSends, UploadSends, Commands
<1>4. lines' \in Seq(Lines) /\ InOrder' /\ (On("SEND_OK")' => On("SEND_OK"))
  <2>1. CASE lines' = lines
    BY <2>1 DEF SentInv, ControlOK, Single, InOrder, On
  <2>2. CASE lines # <<>> /\ lines' = Tail(lines)
    BY <2>2, InOrderStill DEF SentInv, ControlOK, Single
  <2> QED
    BY <1>1, <2>1, <2>2
<1>5. Evidence' => Evidence
  BY <1>1, <1>4 DEF Evidence
<1>6. ControlOK'
  BY <1>1, <1>3, <1>4 DEF SentInv, ControlOK, FlagsOK
<1>7. CASE cmd = "request"
  <2>1. ~Evidence /\ ~Accepting
    <3>1. ~WaitsForIt /\ ~Anew /\ Here \notin {136, 138}
      BY <1>1, <1>3, <1>7 DEF WaitsForIt, Anew
    <3> QED
      BY <3>1 DEF SentInv, Placed, Evidence
  <2>2. ~accepted' /\ WaitsForIt' /\ pc' # "act"
    BY <1>1, <1>3, <1>7 DEF WaitsForIt
  <2> QED
    BY <1>4, <1>5, <1>6, <2>1, <2>2 DEF SentInv, SentOnce, Placed, Single, Evidence
<1>8. CASE cmd # "request"
  <2>1. /\ commands' = <<"request">> => commands = <<"request">>
        /\ Accepting' => Accepting
    BY <1>1, <1>8 DEF Accepting
  <2>2. (accepted' <=> accepted) /\ ~WaitsForIt /\ Anew' = Anew /\ pc' # "act"
    BY <1>1, <1>8 DEF WaitsForIt, Anew
  <2> QED
    BY <1>1, <1>4, <1>5, <1>6, <2>1, <2>2 DEF SentInv, SentOnce, Placed, Single
<1> QED
  BY <1>7, <1>8

\* Only the request, asked for, is answered with the evidence of it.
LEMMA AnswerToRequest ==
    ASSUME NEW c \in Commands, Answer(c)
    PROVE  /\ c # "request" =>
                UNCHANGED accepted /\ \E ls \in Seq(Lines \ {"SEND_OK"}) : lines' = lines \o ls
           /\ c = "request" /\ ~prompt => ~accepted' /\ lines' = lines \o <<"ERROR">>
           /\ c = "request" /\ prompt =>
                accepted' /\ lines' = lines \o <<"SEND_OK", "HTTP_OK", "<html>">>
<1>1. /\ <<"OK">> \in Seq(Lines \ {"SEND_OK"}) /\ <<"ERROR">> \in Seq(Lines \ {"SEND_OK"})
      /\ <<"FAIL">> \in Seq(Lines \ {"SEND_OK"}) /\ <<"OK", "ready">> \in Seq(Lines \ {"SEND_OK"})
      /\ <<"+CWL", "OK">> \in Seq(Lines \ {"SEND_OK"})
      /\ <<"+CWL", "ERROR">> \in Seq(Lines \ {"SEND_OK"}) /\ <<"OK", ">">> \in Seq(Lines \ {"SEND_OK"})
      /\ <<"ALREADY_CONNECTED", "ERROR">> \in Seq(Lines \ {"SEND_OK"})
  BY DEF Lines
<1> QED
  BY <1>1 DEF Answer, Says, Commands

\* Answers without the evidence.
LEMMA OtherAnswer ==
    ASSUME SentInv, UNCHANGED <<pc, uiWifiState, at, next, cmd, iWifiStatus>>,
           commands' = <<>>, NEW ls \in Seq(Lines \ {"SEND_OK"}), lines' = lines \o ls,
           Evidence => accepted'
    PROVE  SentInv'
<1>1. lines \in Seq(Lines) /\ ls \in Seq(Lines) /\ \A i \in 1..Len(ls) : ls[i] # "SEND_OK"
  <2>1. ls \in Seq(Lines) /\ \A i \in 1..Len(ls) : ls[i] # "SEND_OK"
    BY ElementOfSeq
  <2>2. lines \in Seq(Lines)
    BY DEF SentInv, ControlOK
  <2> QED
    BY <2>1, <2>2
<1>2. /\ lines' \in Seq(Lines) /\ Len(lines) \in Nat
      /\ \A i \in 1..Len(lines) : i \in 1..Len(lines') /\ lines'[i] = lines[i]
      /\ \A i \in 1..Len(lines') :
            \/ i \in 1..Len(lines) /\ lines'[i] = lines[i]
            \/ i - Len(lines) \in 1..Len(ls) /\ lines'[i] # "SEND_OK"
  <2>1. /\ lines' \in Seq(Lines) /\ Len(lines) \in Nat
        /\ \A i \in 1..Len(lines) : i \in 1..Len(lines') /\ lines'[i] = lines[i]
        /\ \A i \in 1..Len(lines') :
              \/ i \in 1..Len(lines) /\ lines'[i] = lines[i]
              \/ i - Len(lines) \in 1..Len(ls) /\ lines'[i] = ls[i - Len(lines)]
    BY <1>1, Said
  <2>2. ASSUME NEW k \in 1..Len(ls) PROVE ls[k] # "SEND_OK"
    BY <1>1
  <2> QED
    BY <2>1, <2>2
<1>3. On("SEND_OK")' = On("SEND_OK")
  BY <1>2 DEF On
<1>4. InOrder'
  <2>1. \A i, j \in 1..Len(lines') : lines'[i] = "SEND_OK" /\ lines'[j] = "SEND_OK" => i = j
    BY <1>2 DEF SentInv, Single, InOrder
  <2>2. \A i, j \in 1..Len(lines') : lines'[i] = "ready" /\ lines'[j] = "SEND_OK" => j < i
    <3>1. SUFFICES ASSUME NEW i \in 1..Len(lines'), NEW j \in 1..Len(lines'),
                          lines'[i] = "ready", lines'[j] = "SEND_OK"
                   PROVE  j < i
      OBVIOUS
    <3>2. j \in 1..Len(lines) /\ lines[j] = "SEND_OK"
      BY <1>2, <3>1
    <3>3. CASE i \in 1..Len(lines) /\ lines'[i] = lines[i]
      BY <3>1, <3>2, <3>3 DEF SentInv, Single, InOrder
    <3>4. CASE i - Len(lines) \in 1..Len(ls)
      BY <1>2, <3>1, <3>2, <3>4
    <3> QED
      BY <1>2, <3>1, <3>3, <3>4
  <2> QED
    BY <2>1, <2>2 DEF InOrder
<1>5. Here' = Here /\ WaitsForIt' = WaitsForIt /\ Anew' = Anew /\ ~Accepting'
  BY DEF Here, WaitsForIt, Anew, Accepting
<1>6. ControlOK'
  BY <1>2 DEF SentInv, ControlOK, FlagsOK
<1> QED
  BY <1>3, <1>4, <1>5, <1>6 DEF SentInv, SentOnce, Placed, Single, Evidence

\* The answer with it: no other is there, and no restart is still to be heard of.
LEMMA Evident ==
    ASSUME SentInv, RestartHeard, UNCHANGED <<pc, uiWifiState, at, next, cmd, iWifiStatus>>,
           Accepting, commands' = <<>>, Evidence' => accepted',
           NEW ls \in Seq(Lines), lines' = lines \o ls, ls[1] = "SEND_OK",
           \A i \in 1..Len(ls) : ls[i] # "ready" /\ (ls[i] = "SEND_OK" => i = 1)
    PROVE  SentInv'
<1>1. ~Evidence /\ \A i \in 1..Len(lines) : lines[i] \notin {"ready", "SEND_OK"}
  BY DEF SentInv, SentOnce, Accepting, RestartHeard, Evidence, On
<1>2. /\ lines' \in Seq(Lines) /\ Len(lines) \in Nat
      /\ \A i \in 1..Len(lines') :
            \/ i \in 1..Len(lines) /\ lines'[i] = lines[i]
            \/ i - Len(lines) \in 1..Len(ls) /\ lines'[i] = ls[i - Len(lines)]
  BY Said DEF SentInv, ControlOK
<1>3. InOrder'
  <2>1. \A i \in 1..Len(lines') : lines'[i] # "ready"
    BY <1>1, <1>2
  <2>2. \A i \in 1..Len(lines') : lines'[i] = "SEND_OK" => i = Len(lines) + 1
    <3>1. SUFFICES ASSUME NEW i \in 1..Len(lines'), lines'[i] = "SEND_OK" PROVE i = Len(lines) + 1
      OBVIOUS
    <3>2. i \in Nat /\ Len(lines) \in Nat /\ i - Len(lines) = 1
      BY <1>1, <1>2, <3>1
    <3> QED
      BY <3>2
  <2> QED
    BY <2>1, <2>2 DEF InOrder
<1>4. Here' = Here /\ WaitsForIt' = WaitsForIt /\ Anew' = Anew /\ ~Accepting'
  BY DEF Here, WaitsForIt, Anew, Accepting
<1>5. ControlOK'
  BY <1>2 DEF SentInv, ControlOK, FlagsOK
<1> QED
  BY <1>1, <1>3, <1>4, <1>5 DEF SentInv, SentOnce, Placed, Single, Evidence

LEMMA EvidentAnswer ==
    \E ls \in Seq(Lines) :
        /\ ls = <<"SEND_OK", "HTTP_OK", "<html>">> /\ ls[1] = "SEND_OK"
        /\ \A i \in 1..Len(ls) : ls[i] # "ready" /\ (ls[i] = "SEND_OK" => i = 1)
<1>1. PICK a \in Lines, b \in Lines, c \in Lines :
        a = "SEND_OK" /\ b = "HTTP_OK" /\ c = "<html>"
  BY DEF Lines
<1>2. PICK ls \in Seq(Lines) :
        ls = <<a, b, c>> /\ Len(ls) = 3 /\ ls[1] = a /\ ls[2] = b /\ ls[3] = c
  <2>1. /\ <<a, b, c>> \in Seq(Lines) /\ Len(<<a, b, c>>) = 3
        /\ <<a, b, c>>[1] = a /\ <<a, b, c>>[2] = b /\ <<a, b, c>>[3] = c
    BY ThreeLines
  <2> QED
    BY <2>1, Zenon
<1>3. \A i \in 1..3 : i = 1 \/ i = 2 \/ i = 3
  OBVIOUS
<1>4. a # "ready" /\ b # "ready" /\ c # "ready" /\ b # "SEND_OK" /\ c # "SEND_OK"
  BY <1>1
<1>5. \A i \in 1..Len(ls) : ls[i] # "ready" /\ (ls[i] = "SEND_OK" => i = 1)
  BY <1>2, <1>3, <1>4, Zenon
<1> QED
  BY <1>1, <1>2, <1>5, Zenon

LEMMA SentAnswers ==
    ASSUME SentInv, RestartHeard, ModuleAnswers
    PROVE  SentInv'
<1>1. /\ UNCHANGED <<pc, uiWifiState, at, next, cmd, iWifiStatus>>
      /\ commands # <<>> /\ commands' = <<>>
  BY DEF ModuleAnswers, driver, receiver
<1>2. PICK c \in Commands : commands = <<c>> /\ Answer(c)
  BY <1>1 DEF ModuleAnswers, SentInv, ControlOK
<1>3. CASE c # "request"
  <2>1. UNCHANGED accepted /\ \E ls \in Seq(Lines \ {"SEND_OK"}) : lines' = lines \o ls
    BY <1>2, <1>3, AnswerToRequest
  <2> QED
    BY <1>1, <2>1, OtherAnswer DEF SentInv, SentOnce
<1>4. CASE c = "request" /\ ~prompt
  <2>1. PICK ls : ls = <<"ERROR">>
    OBVIOUS
  <2>2. ls \in Seq(Lines \ {"SEND_OK"})
    BY <2>1 DEF Lines
  <2>4. lines' = lines \o ls
    BY <1>2, <1>4, <2>1, AnswerToRequest
  <2>3. ~Evidence
    BY <1>2, <1>4 DEF SentInv, SentOnce
  <2> QED
    BY <1>1, <2>2, <2>3, <2>4, OtherAnswer
<1>5. CASE c = "request" /\ prompt
  <2>1. PICK ls \in Seq(Lines) :
          /\ ls = <<"SEND_OK", "HTTP_OK", "<html>">> /\ ls[1] = "SEND_OK"
          /\ \A i \in 1..Len(ls) : ls[i] # "ready" /\ (ls[i] = "SEND_OK" => i = 1)
    BY EvidentAnswer
  <2>2. lines' = lines \o ls /\ accepted' /\ Accepting
    BY <1>2, <1>5, <2>1, AnswerToRequest, Zenon DEF Accepting
  <2> QED
    BY <1>1, <2>1, <2>2, Evident
<1> QED
  BY <1>3, <1>4, <1>5

LEMMA SentKept ==
    ASSUME SentInv, RestartHeard, [Next]_vars
    PROVE  SentInv'
<1>1. CASE vWifi_sendcommand
  BY <1>1, SentCommand
<1>2. CASE Receiver
  BY <1>2, SentReceived
<1>3. CASE ModuleAnswers
  BY <1>3, SentAnswers
<1>4. CASE ModuleRestarts
  <2>1. PICK ls : ls = <<"ready">>
    OBVIOUS
  <2>2. ls \in Seq(Lines) /\ \A i \in 1..Len(ls) : ls[i] # "SEND_OK"
    <3>1. ls \in Seq(Lines) /\ Len(ls) = 1 /\ ls[1] = "ready"
      BY <2>1 DEF Lines
    <3> QED
      BY <3>1
  <2>3. UNCHANGED <<pc, uiWifiState, at, next, cmd, iWifiStatus, accepted>> /\ commands' = <<>> /\ lines' = ls
    BY <1>4, <2>1 DEF ModuleRestarts, driver, receiver
  <2>4. Here' = Here /\ WaitsForIt' = WaitsForIt /\ Anew' = Anew /\ ~Accepting'
    BY <2>3 DEF Here, WaitsForIt, Anew, Accepting
  <2>5. ~On("SEND_OK")' /\ InOrder'
    BY <2>2, <2>3 DEF On, InOrder
  <2>6. ControlOK'
    BY <2>2, <2>3 DEF SentInv, ControlOK, FlagsOK
  <2> QED
    BY <2>3, <2>4, <2>5, <2>6 DEF SentInv, SentOnce, Placed, Single, Evidence
<1>5. CASE LineLost
  BY <1>5, SentLineGone DEF LineLost, driver, receiver, SentInv, ControlOK, FlagsOK
<1>6. CASE UNCHANGED vars
  <2>1. UNCHANGED <<pc, uiWifiState, at, next, cmd, iWifiStatus, commands, lines, prompt, accepted>>
    BY <1>6 DEF vars, driver, receiver, module
  <2>2. Here' = Here /\ WaitsForIt' = WaitsForIt /\ Anew' = Anew
    BY <2>1 DEF Here, WaitsForIt, Anew
  <2>3. ControlOK'
    BY <2>1 DEF SentInv, ControlOK, FlagsOK
  <2> QED
    BY <2>1, <2>2, <2>3, SentOnward DEF SentInv, Placed, Evidence
<1> QED
  BY <1>1, <1>2, <1>3, <1>4, <1>5, <1>6, SentDriven DEF Next, Driver

-----------------------------------------------------------------------------
\* An upload is reported only if the module has sent the request of this round, whatever
\* faults there are and in whatever number, as long as the receiver has heard of every
\* restart before the module is asked to send a request.
THEOREM ReportIsTrue == Spec /\ []RestartHeard => ReportedIfSent
<1>1. Init => SentInv
  <2> SUFFICES ASSUME Init PROVE SentInv
    OBVIOUS
  <2>1. pc = "pass" /\ commands = <<>> /\ iWifiStatus = {} /\ lines \in {<<>>, <<"ready">>}
    BY DEF Init
  <2>2. lines \in Seq(Lines) /\ \A i \in 1..Len(lines) : lines[i] # "SEND_OK"
    <3>1. CASE lines = <<>>
      BY <3>1
    <3>2. CASE lines = <<"ready">>
      <4>1. PICK ls : ls = <<"ready">>
        OBVIOUS
      <4>2. ls \in Seq(Lines) /\ Len(ls) = 1 /\ ls[1] = "ready"
        BY <4>1 DEF Lines
      <4>3. ls \in Seq(Lines) /\ \A i \in 1..Len(ls) : ls[i] # "SEND_OK"
        BY <4>2
      <4> QED
        BY <3>2, <4>1, <4>3
    <3> QED
      BY <2>1, <3>1, <3>2
  <2> QED
    BY <2>1, <2>2 DEF SentInv, ControlOK, FlagsOK, SentOnce, Placed, Single, InOrder, On, Evidence,
                      Accepting
<1>2. SentInv /\ RestartHeard /\ [Next]_vars => SentInv'
  BY SentKept
<1>3. SentInv /\ [Next]_vars => [In(134) /\ pc' = "set" /\ next' = 136 => accepted]_vars
  <2> SUFFICES ASSUME SentInv, Next, In(134), pc' = "set", next' = 136 PROVE accepted
    OBVIOUS
  <2>1. "SENTOK" \in iWifiStatus
    <3>1. pc = "act" /\ at = 134
      BY DEF In
    <3>2. UploadWait
      BY <3>1 DEF Next, Driver, Receiver, Pass, Configure, ConfigWait, Scan, ScanWait, cConnectAp,
                  Upload, CloudWait, vPrepareRequest, Move, vWifi_sendcommand, SetState, TimeOut,
                  TimeOutEarly, CloudTimeOut, DeviceReset, Restarts, ReceivePrompt, StreamBegin,
                  StreamLine, Line, Arrives, ModuleAnswers, ModuleRestarts, LineLost, driver, In,
                  SendIn, Sends, WaitIn, ConfigWaits, Moves
    <3>3. PICK w \in UploadWaits : w[1] = 134 /\ w[2] \subseteq iWifiStatus
      BY <3>1, <3>2 DEF UploadWait, WaitIn, Stays
    <3>4. w[2] = {"SENTOK"}
      BY <3>3 DEF UploadWaits
    <3> QED
      BY <3>3, <3>4
  <2> QED
    BY <2>1 DEF SentInv, SentOnce, Evidence
<1> QED
  BY <1>1, <1>2, <1>3, PTL DEF Spec, ReportedIfSent
=============================================================================
