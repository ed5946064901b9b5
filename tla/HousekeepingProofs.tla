-------------------------- MODULE HousekeepingProofs --------------------------
(***************************************************************************)
(* What is measured, shown and looked up.                                  *)
(*                                                                         *)
(* That the temperature stays fresh, for all lengths of the rests, pushes  *)
(* and pauses and any number of screens: of all that Housekeeping holds,   *)
(* only the round of vMisc_State paces the measurement.                    *)
(*                                                                         *)
(* That the program's computations give what they should, for every input, *)
(* every list of stations and every file of callsigns.  Their loops are    *)
(* recursive functions: ValuesExist says that a loop has values, of which  *)
(* UpTo proves what holds after each turn of it.                           *)
(***************************************************************************)
EXTENDS Housekeeping, NavigationProofs, Computations, WellFoundedInduction, FiniteSetTheorems

-----------------------------------------------------------------------------
(* The measurement and the knob, among the pauses of vMisc_State           *)

\* The passes that slow measurements have cost
Cost == 5 * missed

\* Where in a round the measurement is when vMisc_State is in state m and this pass'
\* step of Temperature_State is yet to come: on time for the next round, or slow, and
\* then it is counted, so that five passes more are allowed
Measured(m) ==
    /\ m = 0  => uiTempState = 0 /\ age = 0
    /\ m = 10 => \/ uiTempState \in {0, 4, 5} /\ age <= 1
                 \/ uiTempState = 3 /\ age <= 6 + Cost
                 \/ uiTempState \in {2, 3} /\ age <= 1 + Cost
    /\ m = 20 => uiTempState = 1 /\ age <= 2 + Cost
    /\ m = 30 => \/ uiTempState = 2 /\ converting < 3 /\ age <= 3 + Cost
                 \/ uiTempState = 2 /\ age + 2 <= Cost
    /\ m = 40 => \/ uiTempState = 2 /\ converting < 2 /\ age <= 4 + Cost
                 \/ uiTempState = 3 /\ age <= 4 + Cost
                 \/ uiTempState \in {2, 3} /\ age + 1 <= Cost
    /\ m = 50 => \/ uiTempState = 2 /\ converting < 1 /\ age <= 5 + Cost
                 \/ uiTempState = 3 /\ age <= 5 + Cost
                 \/ uiTempState \in {2, 3} /\ age <= Cost
                 \/ uiTempState = 4 /\ age = 0

\* After that step it is where the next state of vMisc_State will find it, but that
\* state 10 begins the next measurement.
Paced ==
    /\ age \in Nat /\ converting \in Nat /\ missed \in Nat /\ Cost \in Nat
    /\ pc \in {"temperature", "misc", "reset", "press"}
    /\ uiMiscState \in {0, 10, 20, 30, 40, 50} /\ (pc = "reset" => uiMiscState = 20)
    /\ IF pc \in {"temperature", "press"} THEN Measured(uiMiscState)
       ELSE /\ uiMiscState = 0  => Measured(10)
            /\ uiMiscState = 10 => age <= 2 + Cost
            /\ uiMiscState = 20 => Measured(30)
            /\ uiMiscState = 30 => Measured(40)
            /\ uiMiscState = 40 => Measured(50)
            /\ uiMiscState = 50 => Measured(10)

-----------------------------------------------------------------------------
\* The start of the device, measured in no round yet
LEMMA PacedInit == Init => Paced
BY DEF Init, Paced, Measured, Cost

\* A step of Temperature_State brings the measurement to where the next state of
\* vMisc_State will find it.
LEMMA PacedTemperature == Paced /\ Temperature_State => Paced'
<1> SUFFICES ASSUME Paced, Temperature_State  PROVE Paced'
  OBVIOUS
<1>1. /\ pc = "temperature" /\ pc' = "misc" /\ uiMiscState' = uiMiscState
      /\ Measured(uiMiscState) /\ age \in Nat /\ converting \in Nat /\ missed \in Nat /\ Cost \in Nat
  BY DEF Temperature_State, Paced, misc
<1>2. uiMiscState \in {0, 10, 20, 30, 40, 50}
  BY DEF Paced
<1>3. age' \in {0, age + 1} /\ converting' \in Nat /\ missed' \in {0, missed, missed + 1}
  <2>1. CASE TempStart
    BY <1>1, <2>1 DEF TempStart
  <2>2. CASE TempIdle \/ TempWait \/ TempRead \/ TempRest \/ TempAgain
    BY <1>1, <2>2 DEF TempIdle, TempWait, TempRead, TempRest, TempAgain, Convert
  <2> QED
    BY <2>1, <2>2 DEF Temperature_State
<1>10. /\ missed' \in Nat /\ Cost' \in Nat
       /\ missed' = missed => Cost' = Cost
       /\ missed' = missed + 1 => Cost' = Cost + 5
  <2>1. Cost = 5 * missed /\ Cost' = 5 * missed'
    BY DEF Cost
  <2>2. \A n \in Nat : 5 * n \in Nat /\ 5 * (n + 1) = 5 * n + 5
    OBVIOUS
  <2>3. missed' \in Nat
    BY <1>1, <1>3
  <2>4. missed' = missed + 1 => Cost' = Cost + 5
    BY <1>1, <2>1, <2>2, Zenon
  <2> QED
    BY <2>1, <2>2, <2>3, <2>4, Zenon
<1>11. ASSUME /\ uiMiscState = 0 => Measured(10)'
              /\ uiMiscState = 10 => age' <= 2 + Cost'
              /\ uiMiscState = 20 => Measured(30)'
              /\ uiMiscState = 30 => Measured(40)'
              /\ uiMiscState = 40 => Measured(50)'
              /\ uiMiscState = 50 => Measured(10)'
       PROVE  Paced'
  <2>1. age' \in Nat /\ Cost' \in Nat /\ converting' \in Nat /\ missed' \in Nat
    BY <1>1, <1>3, <1>10
  <2> QED
    BY <1>1, <1>2, <1>11, <2>1, Zenon DEF Paced
<1>12. \A n, c \in Nat : n <= 2 => n <= 2 + c
  OBVIOUS
<1>4. CASE TempIdle
  BY <1>1, <1>2, <1>3, <1>10, <1>4 DEF TempIdle, Temperature, Paced, Measured
<1>5. CASE TempStart
  <2>1. uiMiscState = 20 /\ age <= 2 + Cost
    BY <1>1, <1>2, <1>5 DEF TempStart, Measured
  <2>2. /\ uiTempState' = 2
        /\ \/ converting' < 3 /\ age' <= 3 + Cost'
           \/ age' + 2 <= Cost'
    <3>1. /\ uiTempState' = 2 /\ age' = age + 1
          /\ missed' = IF converting' > 2 THEN missed + 1 ELSE missed
      BY <1>5 DEF TempStart, Temperature
    <3>2. converting' > 2 => Cost' = Cost + 5
      BY <1>10, <3>1, Zenon
    <3>3. ~(converting' > 2) => Cost' = Cost
      BY <1>10, <3>1, Zenon
    <3>4. age \in Nat /\ Cost \in Nat /\ converting' \in Nat
      BY <1>1, <1>3, Zenon
    <3> QED
      BY <2>1, <3>1, <3>2, <3>3, <3>4
  <2>3. Measured(30)'
    BY <2>2 DEF Measured
  <2> QED
    BY <1>11, <2>1, <2>3
<1>6. CASE TempWait
  BY <1>1, <1>2, <1>3, <1>10, <1>6 DEF TempWait, Temperature, Convert, Paced, Measured
<1>7. CASE TempRead
  <2>1. age' = 0 /\ uiTempState' = 4 /\ uiMiscState \in {10, 40, 50}
    BY <1>1, <1>2, <1>7 DEF TempRead, Temperature, Measured
  <2>2. Cost' \in Nat
    BY <1>10
  <2>3. Measured(50)'
    BY <2>1 DEF Measured
  <2>4. Measured(10)'
    BY <2>1, <2>2 DEF Measured
  <2>5. age' <= 2 + Cost'
    <3>1. age' \in Nat /\ age' <= 2
      BY <2>1
    <3> QED
      BY <1>12, <2>2, <3>1, Zenon
  <2>6. uiMiscState # 20 /\ uiMiscState # 30
    BY <2>1
  <2> QED
    BY <1>11, <2>3, <2>4, <2>5, <2>6, Zenon
<1>8. CASE TempRest
  <2>1. \/ uiMiscState = 50 /\ age = 0
        \/ uiMiscState = 10 /\ age <= 1
    BY <1>1, <1>2, <1>8 DEF TempRest, Measured
  <2>2. uiTempState' \in {4, 5} /\ age' = age + 1
    BY <1>8 DEF TempRest, Temperature
  <2>3. CASE uiMiscState = 50
    <3>1. age' = 1
      BY <2>1, <2>2, <2>3
    <3>2. Measured(10)'
      BY <2>2, <3>1 DEF Measured
    <3> QED
      BY <1>11, <2>3, <3>2
  <2>4. CASE uiMiscState = 10
    <3>1. age' <= 2
      BY <1>1, <2>1, <2>2, <2>4
    <3>2. age' \in Nat /\ Cost' \in Nat
      BY <1>1, <1>10, <2>2
    <3>3. age' <= 2 + Cost'
      BY <1>12, <3>1, <3>2, Zenon
    <3>4. uiMiscState \notin {0, 20, 30, 40, 50}
      BY <2>4
    <3> QED
      BY <1>11, <3>3, <3>4, Zenon
  <2> QED
    BY <2>1, <2>3, <2>4
<1>9. CASE TempAgain
  BY <1>1, <1>2, <1>3, <1>10, <1>9 DEF TempAgain, Temperature, Paced, Measured
<1> QED
  BY <1>4, <1>5, <1>6, <1>7, <1>8, <1>9 DEF Temperature_State

\* vMisc_State goes on to its next state, with the reset in between or not, and in
\* state 10 begins a measurement.
LEMMA PacedMisc == Paced /\ vMisc_State => Paced'
<1> SUFFICES ASSUME Paced, vMisc_State  PROVE Paced'
  OBVIOUS
<1>1. CASE MiscTemperature
  BY <1>1 DEF MiscTemperature, Misc, Paced, Measured, Cost
<1>2. CASE MiscStart \/ MiscButton \/ MiscContrast \/ MiscMessage \/ MiscClock
  BY <1>2 DEF MiscStart, MiscButton, MiscContrast, MiscMessage, MiscClock, Misc, temp,
              Paced, Measured, Cost
<1>3. CASE ResetBegin
  BY <1>3 DEF ResetBegin, temp, misc, Paced, Measured, Cost
<1>4. CASE ResetEnd
  BY <1>4 DEF ResetEnd, temp, Paced, Measured, Cost
<1> QED
  BY <1>1, <1>2, <1>3, <1>4 DEF vMisc_State

\* Pressure, knob, button and the other tasks leave the measurement alone.
LEMMA PacedRest ==
    ASSUME Paced, vPress_State \/ Turn \/ Push \/ Release \/ OtherTasks \/ UNCHANGED vars
    PROVE  Paced'
<1>1. CASE vPress_State
  BY <1>1 DEF vPress_State, temp, misc, Paced, Measured, Cost
<1>2. CASE Turn \/ Push \/ Release
  BY <1>2 DEF Turn, Push, Release, Between, temp, misc, Paced, Measured, Cost
<1>3. CASE OtherTasks
  BY <1>3 DEF OtherTasks, temp, misc, Paced, Measured, Cost
<1>4. CASE UNCHANGED vars
  BY <1>4 DEF vars, temp, misc, Paced, Measured, Cost
<1> QED
  BY <1>1, <1>2, <1>3, <1>4

\* At every place in a round the last reading is recent enough.
LEMMA PacedIsFresh == Paced => TemperatureFresh
BY DEF Paced, Measured, Cost, TemperatureFresh

\* The temperature is never older than one round and a measurement of three passes, and
\* a round more for each measurement that took longer (Temperature_State, restarted by
\* vMisc_State), however long conversions, rests and pushes are.
THEOREM TemperatureStaysFresh == Spec => []TemperatureFresh
<1>1. Paced /\ [Next]_vars => Paced'
  BY PacedTemperature, PacedMisc, PacedRest DEF Next
<1> QED
  BY <1>1, PacedInit, PacedIsFresh, PTL DEF Spec

-----------------------------------------------------------------------------
\* The user's place moves as Navigation allows: knob and button do, the other tasks
\* set screens and end alarms, and the reset ends the subscreen and sets the screen.
LEMMA MovesAsNavigation == [Next]_vars => [NavNext]_nav
<1> SUFFICES ASSUME [Next]_vars  PROVE [NavNext]_nav
  OBVIOUS
<1>1. CASE Turn
  BY <1>1 DEF Turn, NavNext
<1>2. CASE Push
  BY <1>2 DEF Push, NavNext, MainLoopSets
<1>3. CASE OtherTasks
  BY <1>3 DEF OtherTasks, NavNext
<1>4. CASE ResetBegin
  BY <1>4 DEF ResetBegin, NavNext
<1>5. CASE ResetEnd
  BY <1>5, ScreenNumbers DEF ResetEnd, NavNext, MainLoopSets
<1>6. CASE Temperature_State \/ vPress_State \/ Release \/ UNCHANGED vars
  BY <1>6 DEF Temperature_State, vPress_State, Release, vars
<1>7. CASE MiscStart \/ MiscTemperature \/ MiscButton \/ MiscContrast \/ MiscMessage \/ MiscClock
  BY <1>7 DEF MiscStart, MiscTemperature, MiscButton, MiscContrast, MiscMessage, MiscClock
<1> QED
  BY <1>1, <1>2, <1>3, <1>4, <1>5, <1>6, <1>7 DEF Next, vMisc_State

\* Held through the periodic tasks and the reset, too: a foreign subscreen and an edit
\* outside of the settings (vNavigateMenus, vResetDevice) have only the causes named.
THEOREM HousekeepingKeepsPlace == Spec => [](SubscreenOnItsParent /\ EditOnlyInSettings)
<1>1. Init => NavInit
  BY DEF Init
<1>2. Spec => NavSpec
  BY <1>1, MovesAsNavigation, PTL DEF Spec, NavSpec
<1> QED
  BY <1>2, SubscreenBelongs, EditBelongs, PTL

-----------------------------------------------------------------------------
(* The loops: what holds after each turn of one                            *)

\* A set that 0 is in, and every number with the one before it, has all numbers.
LEMMA UpTo ==
  ASSUME NEW N \in Nat, NEW S, 0 \in S, \A n \in 1..N : n - 1 \in S => n \in S
  PROVE  \A n \in 0..N : n \in S
<1> DEFINE T == {n \in 0..N : n \notin S}
<1>1. SUFFICES ASSUME T # {} PROVE FALSE
  OBVIOUS
<1>2. T \subseteq Nat
  OBVIOUS
<1>3. PICK n \in T : \A m \in T : ~ (<<m, n>> \in OpToRel(<, Nat))
  BY <1>1, <1>2, NatLessThanWellFounded, WFMin
<1>4. n \in 1..N /\ n - 1 \in 0..N /\ n - 1 < n /\ n \in Nat /\ n - 1 \in Nat
  OBVIOUS
<1>5. n - 1 \in T
  BY <1>4
<1>6. <<n - 1, n>> \in OpToRel(<, Nat)
  BY <1>4 DEF OpToRel
<1> QED
  BY <1>3, <1>5, <1>6

\* The values a recursive function has one after the other: there are such, and whatever
\* function is chosen for its definition has them.
Values(f, N, S, base, step) ==
    f \in [0..N -> S] /\ f[0] = base /\ \A n \in 1..N : f[n] = step[n][f[n - 1]]

LEMMA ValuesExist ==
    ASSUME NEW N \in Nat, NEW S, NEW base \in S, NEW step \in [1..N -> [S -> S]]
    PROVE  \E f : Values(f, N, S, base, step)
<1> DEFINE T == {n \in 0..N : \E f : Values(f, n, S, base, step)}
<1>1. 0 \in T
  <2>1. Values([n \in 0..0 |-> base], 0, S, base, step)
    BY DEF Values
  <2> QED
    BY <2>1
<1>2. ASSUME NEW n \in 1..N, n - 1 \in T PROVE n \in T
  <2>1. PICK f : Values(f, n - 1, S, base, step)
    BY <1>2
  <2> DEFINE g == [k \in 0..n |-> IF k = n THEN step[n][f[n - 1]] ELSE f[k]]
  <2>2. n - 1 \in 0..(n - 1) /\ f[n - 1] \in S /\ step[n] \in [S -> S]
    BY <2>1 DEF Values
  <2>3. g \in [0..n -> S] /\ g[0] = base
    BY <2>1, <2>2 DEF Values
  <2>4. ASSUME NEW k \in 1..n PROVE g[k] = step[k][g[k - 1]]
    <3>1. CASE k = n
      BY <3>1
    <3>2. CASE k # n
      BY <2>1, <3>2 DEF Values
    <3> QED
      BY <3>1, <3>2
  <2>5. Values(g, n, S, base, step)
    BY <2>3, <2>4 DEF Values
  <2> QED
    BY <2>5
<1> HIDE DEF T
<1>3. N \in T
  <2>1. \A n \in 1..N : n - 1 \in T => n \in T
    BY <1>2
  <2>2. \A n \in 0..N : n \in T
    BY <1>1, <2>1, UpTo
  <2> QED
    BY <2>2
<1> QED
  BY <1>3 DEF T

-----------------------------------------------------------------------------
(* Numbers and sequences                                                   *)

\* There are n numbers from 1 to n.
LEMMA CardinalityUpTo ==
  ASSUME NEW n \in Nat
  PROVE  Cardinality(1..n) = n
<1>1. 1 \in Int /\ n \in Int
  OBVIOUS
<1>2. Cardinality(1..n) = IF 1 > n THEN 0 ELSE n - 1 + 1
  BY <1>1, FS_Interval, Zenon
<1> QED
  BY <1>2

\* Sets of numbers have a least member.
LEMMA MinIs ==
  ASSUME NEW S \in SUBSET Nat, S # {}
  PROVE  Min(S) \in S /\ \A n \in S : Min(S) <= n
<1>1. PICK n \in S : \A m \in S : ~ (<<m, n>> \in OpToRel(<, Nat))
  BY NatLessThanWellFounded, WFMin
<1>2. \A m \in S : n <= m
  <2>1. SUFFICES ASSUME NEW m \in S, m < n PROVE FALSE
    OBVIOUS
  <2> QED
    BY <1>1, <2>1 DEF OpToRel
<1> QED
  BY <1>1, <1>2 DEF Min

\* The lesser of two
LEMMA MinOfTwo ==
  ASSUME NEW a \in Nat, NEW b \in Nat
  PROVE  Min({a, b}) = IF a <= b THEN a ELSE b
<1>1. {a, b} \in SUBSET Nat /\ {a, b} # {}
  OBVIOUS
<1>2. Min({a, b}) \in {a, b} /\ \A n \in {a, b} : Min({a, b}) <= n
  BY <1>1, MinIs
<1> QED
  BY <1>2

\* A function on 1..n is a sequence.
LEMMA IsSeq ==
  ASSUME NEW S, NEW n \in Nat, NEW f \in [1..n -> S]
  PROVE  f \in Seq(S) /\ Len(f) = n
OBVIOUS

\* What a sequence has that is longer by one
LEMMA AppendIs ==
  ASSUME NEW S, NEW s \in Seq(S), NEW e \in S
  PROVE  /\ Append(s, e) \in Seq(S) /\ Len(Append(s, e)) = Len(s) + 1
         /\ \A i \in 1..Len(s) : Append(s, e)[i] = s[i]
         /\ Append(s, e)[Len(s) + 1] = e
OBVIOUS

\* What a joined sequence has, and where
LEMMA Joined ==
  ASSUME NEW S, NEW s \in Seq(S), NEW t \in Seq(S)
  PROVE  /\ s \o t \in Seq(S) /\ Len(s \o t) = Len(s) + Len(t)
         /\ \A i \in 1..Len(s) : (s \o t)[i] = s[i]
         /\ \A i \in 1..(Len(s) + Len(t)) : i > Len(s) => (s \o t)[i] = t[i - Len(s)]
OBVIOUS

\* What a part of a sequence has
LEMMA SubSeqIs ==
  ASSUME NEW S, NEW s \in Seq(S), NEW m \in Nat, NEW n \in Nat, 1 <= m, m <= n + 1, n <= Len(s)
  PROVE  /\ SubSeq(s, m, n) \in Seq(S) /\ Len(SubSeq(s, m, n)) = n - m + 1
         /\ \A i \in 1..(n - m + 1) : SubSeq(s, m, n)[i] = s[m + i - 1]
OBVIOUS

\* Sequences of the same length and the same members are the same.
LEMMA SameSeq ==
  ASSUME NEW S, NEW s \in Seq(S), NEW t \in Seq(S), Len(s) = Len(t),
         \A k \in 1..Len(s) : s[k] = t[k]
  PROVE  s = t
<1>1. /\ s = [k \in 1..Len(s) |-> s[k]]
      /\ t = [k \in 1..Len(t) |-> t[k]]
  OBVIOUS
<1> QED
  BY <1>1

\* A shorter one of the same members is a strict prefix.
LEMMA PrefixIs ==
  ASSUME NEW S, NEW s \in Seq(S), NEW t \in Seq(S), Len(s) < Len(t),
         \A k \in 1..Len(s) : s[k] = t[k]
  PROVE  IsStrictPrefix(s, t)
<1> DEFINE n == Len(s)
           a == SubSeq(s, 1, n)
           b == SubSeq(t, 1, n)
<1>1. n \in Nat /\ 1 <= n + 1 /\ n <= Len(s) /\ n <= Len(t) /\ n - 1 + 1 = n /\ 1 \in Nat /\ 1 <= 1
  OBVIOUS
<1>2. \A k \in 1..n : 1 + k - 1 = k
  BY <1>1
<1>3. /\ a \in Seq(S) /\ Len(a) = n /\ \A k \in 1..n : a[k] = s[k]
      /\ b \in Seq(S) /\ Len(b) = n /\ \A k \in 1..n : b[k] = t[k]
  <2> HIDE DEF n, a, b
  <2>1. /\ a \in Seq(S) /\ Len(a) = n - 1 + 1 /\ \A k \in 1..(n - 1 + 1) : a[k] = s[1 + k - 1]
    <3> HIDE DEF a
    <3> QED
      BY <1>1, SubSeqIs DEF a
  <2>2. /\ b \in Seq(S) /\ Len(b) = n - 1 + 1 /\ \A k \in 1..(n - 1 + 1) : b[k] = t[1 + k - 1]
    BY <1>1, SubSeqIs DEF b
  <2> QED
    BY <1>1, <1>2, <2>1, <2>2
<1> HIDE DEF a, b
<1>4. \A k \in 1..Len(a) : a[k] = b[k]
  BY <1>3
<1>5. a = b
  BY <1>3, <1>4, SameSeq
<1> QED
  BY <1>1, <1>5 DEF IsStrictPrefix, IsPrefix, a, b

-----------------------------------------------------------------------------
(* The thermometer                                                         *)

\* What is shifted in of a byte, moved up by the places that are still free
LEMMA Shifts ==
  ASSUME NEW byte \in Nat, byte < 256
  PROVE  /\ 0 \div 2 + 128 * (byte % 2) = 128 * (byte % 2)
         /\ (128 * (byte % 2)) \div 2 + 128 * ((byte \div 2) % 2) = 64 * (byte % 4)
         /\ (64 * (byte % 4)) \div 2 + 128 * ((byte \div 4) % 2) = 32 * (byte % 8)
         /\ (32 * (byte % 8)) \div 2 + 128 * ((byte \div 8) % 2) = 16 * (byte % 16)
         /\ (16 * (byte % 16)) \div 2 + 128 * ((byte \div 16) % 2) = 8 * (byte % 32)
         /\ (8 * (byte % 32)) \div 2 + 128 * ((byte \div 32) % 2) = 4 * (byte % 64)
         /\ (4 * (byte % 64)) \div 2 + 128 * ((byte \div 64) % 2) = 2 * (byte % 128)
         /\ (2 * (byte % 128)) \div 2 + 128 * ((byte \div 128) % 2) = byte
OBVIOUS

\* The powers a byte is divided by for its bits
LEMMA PowersAre ==
  ASSUME NEW k \in 1..8
  PROVE  2 ^ (k - 1) \in {1, 2, 4, 8, 16, 32, 64, 128}
<1> DEFINE p(e) == 2 ^ e
<1>1. /\ p(0) = 1 /\ p(1) = 2 /\ p(2) = 4 /\ p(3) = 8
      /\ p(4) = 16 /\ p(5) = 32 /\ p(6) = 64 /\ p(7) = 128
  OBVIOUS
<1> HIDE DEF p
<1>2. p(k - 1) \in {1, 2, 4, 8, 16, 32, 64, 128}
  BY <1>1
<1> QED
  BY <1>2 DEF p

\* The bits of a byte as they cross the bus
LEMMA BitsAre ==
  ASSUME NEW byte \in Nat, byte < 256
  PROVE  /\ Bits(byte) \in [1..8 -> {0, 1}]
         /\ Bits(byte)[1] = byte % 2 /\ Bits(byte)[2] = (byte \div 2) % 2
         /\ Bits(byte)[3] = (byte \div 4) % 2 /\ Bits(byte)[4] = (byte \div 8) % 2
         /\ Bits(byte)[5] = (byte \div 16) % 2 /\ Bits(byte)[6] = (byte \div 32) % 2
         /\ Bits(byte)[7] = (byte \div 64) % 2 /\ Bits(byte)[8] = (byte \div 128) % 2
<1>1. /\ byte \div 1 = byte
      /\ 2 ^ 0 = 1 /\ 2 ^ 1 = 2 /\ 2 ^ 2 = 4 /\ 2 ^ 3 = 8
      /\ 2 ^ 4 = 16 /\ 2 ^ 5 = 32 /\ 2 ^ 6 = 64 /\ 2 ^ 7 = 128
  OBVIOUS
<1>2. ASSUME NEW k \in 1..8 PROVE (byte \div 2 ^ (k - 1)) % 2 \in {0, 1}
  <2>1. 2 ^ (k - 1) \in {1, 2, 4, 8, 16, 32, 64, 128}
    BY PowersAre
  <2>2. \A p \in {1, 2, 4, 8, 16, 32, 64, 128} : (byte \div p) % 2 \in {0, 1}
    OBVIOUS
  <2> QED
    BY <2>1, <2>2
<1> QED
  BY <1>1, <1>2 DEF Bits

\* What the loop that reads a byte has after each bit
LEMMA ReadsBits ==
  ASSUME NEW bits \in [1..8 -> {0, 1}]
  PROVE  \E d : /\ ucReadOwByte(bits) = d[8] /\ d[0] = 0
               /\ \A k \in 1..8 : d[k] = d[k - 1] \div 2 + 128 * bits[k]
<1> DEFINE step == [k \in 1..8 |-> [d \in 0..255 |-> d \div 2 + (IF bits[k] = 1 THEN 128 ELSE 0)]]
           After(d) == [k \in 0..8 |-> IF k = 0 THEN 0
                                       ELSE d[k - 1] \div 2 + (IF bits[k] = 1 THEN 128 ELSE 0)]
<1>1. \E d : d = After(d)
  <2>1. step \in [1..8 -> [0..255 -> 0..255]] /\ 8 \in Nat /\ 0 \in 0..255
    <3> DEFINE B == 0..255
    <3>1. ASSUME NEW k \in 1..8, NEW d \in B
          PROVE  d \div 2 + (IF bits[k] = 1 THEN 128 ELSE 0) \in B
      OBVIOUS
    <3>2. 0 \in B
      OBVIOUS
    <3> HIDE DEF B
    <3>3. [k \in 1..8 |-> [d \in B |-> d \div 2 + (IF bits[k] = 1 THEN 128 ELSE 0)]] \in [1..8 -> [B -> B]]
      BY <3>1
    <3> QED
      BY <3>2, <3>3, Zenon DEF B
  <2>2. \A k \in 1..8, d \in 0..255 : step[k][d] = d \div 2 + (IF bits[k] = 1 THEN 128 ELSE 0)
    OBVIOUS
  <2>3. PICK f : Values(f, 8, 0..255, 0, step)
    <3> HIDE DEF step
    <3> QED
      BY <2>1, ValuesExist
  <2> HIDE DEF step
  <2>4. f \in [0..8 -> 0..255] /\ f[0] = 0
    BY <2>3 DEF Values
  <2>5. ASSUME NEW k \in 1..8
        PROVE  k - 1 \in 0..8 /\ f[k] = f[k - 1] \div 2 + (IF bits[k] = 1 THEN 128 ELSE 0)
    <3>1. k - 1 \in 0..8 /\ f[k - 1] \in 0..255 /\ f[k] = step[k][f[k - 1]]
      BY <2>3 DEF Values
    <3> QED
      BY <2>2, <3>1
  <2>6. f = After(f)
    BY <2>4, <2>5
  <2> QED
    BY <2>6
<1>2. PICK d : d = After(d) /\ ucReadOwByte(bits) = d[8]
  BY <1>1 DEF ucReadOwByte
<1>3. \A k \in 1..8 : (IF bits[k] = 1 THEN 128 ELSE 0) = 128 * bits[k]
  OBVIOUS
<1>4. d[0] = 0 /\ \A k \in 1..8 : d[k] = d[k - 1] \div 2 + 128 * bits[k]
  BY <1>2, <1>3
<1> QED
  BY <1>2, <1>4

\* After all of them it is the byte.
LEMMA ReadsByte ==
  ASSUME NEW byte \in Nat, byte < 256
  PROVE  ucReadOwByte(Bits(byte)) = byte
<1>1. PICK d : /\ ucReadOwByte(Bits(byte)) = d[8] /\ d[0] = 0
               /\ \A k \in 1..8 : d[k] = d[k - 1] \div 2 + 128 * Bits(byte)[k]
  BY BitsAre, ReadsBits
<1>2. /\ d[1] = 0 \div 2 + 128 * Bits(byte)[1] /\ d[2] = d[1] \div 2 + 128 * Bits(byte)[2]
      /\ d[3] = d[2] \div 2 + 128 * Bits(byte)[3] /\ d[4] = d[3] \div 2 + 128 * Bits(byte)[4]
      /\ d[5] = d[4] \div 2 + 128 * Bits(byte)[5] /\ d[6] = d[5] \div 2 + 128 * Bits(byte)[6]
      /\ d[7] = d[6] \div 2 + 128 * Bits(byte)[7] /\ d[8] = d[7] \div 2 + 128 * Bits(byte)[8]
  BY <1>1
<1>3. d[8] = byte
  <2>1. d[1] = 0 \div 2 + 128 * (byte % 2)
    BY <1>2, BitsAre, Zenon
  <2>2. d[1] = 128 * (byte % 2)
    BY <2>1, Shifts, Zenon
  <2>3. d[2] = (128 * (byte % 2)) \div 2 + 128 * ((byte \div 2) % 2)
    BY <1>2, BitsAre, <2>2, Zenon
  <2>4. d[2] = 64 * (byte % 4)
    BY <2>3, Shifts, Zenon
  <2>5. d[3] = (64 * (byte % 4)) \div 2 + 128 * ((byte \div 4) % 2)
    BY <1>2, BitsAre, <2>4, Zenon
  <2>6. d[3] = 32 * (byte % 8)
    BY <2>5, Shifts, Zenon
  <2>7. d[4] = (32 * (byte % 8)) \div 2 + 128 * ((byte \div 8) % 2)
    BY <1>2, BitsAre, <2>6, Zenon
  <2>8. d[4] = 16 * (byte % 16)
    BY <2>7, Shifts, Zenon
  <2>9. d[5] = (16 * (byte % 16)) \div 2 + 128 * ((byte \div 16) % 2)
    BY <1>2, BitsAre, <2>8, Zenon
  <2>10. d[5] = 8 * (byte % 32)
    BY <2>9, Shifts, Zenon
  <2>11. d[6] = (8 * (byte % 32)) \div 2 + 128 * ((byte \div 32) % 2)
    BY <1>2, BitsAre, <2>10, Zenon
  <2>12. d[6] = 4 * (byte % 64)
    BY <2>11, Shifts, Zenon
  <2>13. d[7] = (4 * (byte % 64)) \div 2 + 128 * ((byte \div 64) % 2)
    BY <1>2, BitsAre, <2>12, Zenon
  <2>14. d[7] = 2 * (byte % 128)
    BY <2>13, Shifts, Zenon
  <2>15. d[8] = (2 * (byte % 128)) \div 2 + 128 * ((byte \div 128) % 2)
    BY <1>2, BitsAre, <2>14, Zenon
  <2>16. d[8] = byte
    BY <2>15, Shifts, Zenon
  <2> QED
    BY <2>16
<1> QED
  BY <1>1, <1>3

\* A byte crosses the bus, bit by bit.
LEMMA ByteCrosses ==
  ASSUME NEW byte \in Nat, byte < 256, NEW at \in 15..59, NEW hold \in Nat, NEW late \in Nat
  PROVE  CrossesBus(byte, at, hold, late)
<1>1. Bits(byte) \in [1..8 -> {0, 1}]
  BY BitsAre
<1>2. ASSUME late < 9
      PROVE  [k \in 1..8 |-> Looked(vWriteOwByte(byte, late)[k], at)] = Bits(byte)
  <2>1. ASSUME NEW bit \in {0, 1} PROVE Looked(vWriteOwBit(bit, late), at) = bit
    BY <1>2 DEF Looked, vWriteOwBit
  <2>2. ASSUME NEW k \in 1..8 PROVE Looked(vWriteOwByte(byte, late)[k], at) = Bits(byte)[k]
    <3>1. vWriteOwByte(byte, late)[k] = vWriteOwBit(Bits(byte)[k], late)
      BY DEF vWriteOwByte
    <3>2. Bits(byte)[k] \in {0, 1}
      BY <1>1
    <3> QED
      BY <2>1, <3>1, <3>2
  <2> QED
    BY <1>1, <2>2
<1>3. ASSUME 15 + late <= hold
      PROVE  ucReadOwByte([k \in 1..8 |-> cReadOwBit(Bits(byte)[k], hold, late)]) = byte
  <2>1. ASSUME NEW k \in 1..8 PROVE cReadOwBit(Bits(byte)[k], hold, late) = Bits(byte)[k]
    <3>1. Bits(byte)[k] = 0 \/ Bits(byte)[k] = 1
      BY <1>1
    <3> QED
      BY <1>3, <3>1 DEF cReadOwBit
  <2>2. [k \in 1..8 |-> cReadOwBit(Bits(byte)[k], hold, late)] = Bits(byte)
    BY <1>1, <2>1
  <2> QED
    BY <2>2, ReadsByte
<1> QED
  BY <1>2, <1>3 DEF CrossesBus

\* The sensor answers a reset, and its set-up has it measure sixteenths.
LEMMA AnswersAtReset ==
  ASSUME NEW wait \in Nat, NEW length \in Nat, 15 <= wait, wait <= 60, 60 <= length, length <= 240
  PROVE  FoundAtReset(wait, length) /\ MeasuresSixteenths
<1>1. FoundAtReset(wait, length)
  BY DEF FoundAtReset, cResetOw
<1>2. ucInitOwTemp[5] = 127
  BY DEF ucInitOwTemp
<1> QED
  BY <1>1, <1>2 DEF MeasuresSixteenths, Resolution

\* The reading, below zero and not
LEMMA ReadingIsTemperature ==
  ASSUME NEW t \in SensorRange
  PROVE  ReadsTemperature(t)
<1> DEFINE low == t % 256
           high == (t \div 256) % 256
<1>1. t \in Int /\ -880 <= t /\ t <= 2000
  BY DEF SensorRange
<1>2. CASE t >= 0
  <2>1. high < 128 /\ high = t \div 256
    BY <1>1, <1>2
  <2>2. Sixteenths(low, high) = t
    BY <1>1, <1>2 DEF Sixteenths
  <2> QED
    BY <1>1, <1>2, <2>1, <2>2 DEF ReadsTemperature, fReadOwTemp
<1>3. CASE t < 0
  <2>1. high >= 128 /\ Complement(high) = -1 - (t \div 256)
    BY <1>1, <1>3 DEF Complement
  <2>2. CASE low = 0
    <3>1. Sixteenths((Complement(low) + 1) % 256, Complement(high)) = 0 - (t + 256)
      BY <1>1, <1>3, <2>2 DEF Sixteenths, Complement
    <3> QED
      BY <1>1, <1>3, <2>1, <2>2, <3>1 DEF ReadsTemperature, fReadOwTemp
  <2>3. CASE low # 0
    <3>1. (Complement(low) + 1) % 256 = 256 - low
      BY <1>1, <2>3 DEF Complement
    <3>2. Sixteenths((Complement(low) + 1) % 256, Complement(high)) = 0 - t
      <4>1. /\ (256 - low) % 16 = (16 - (low % 16)) % 16
            /\ (256 - low) \div 16 = 15 - (low - 1) \div 16
            /\ low \in 1..255
        BY <1>1, <2>3
      <4> HIDE DEF high
      <4>2. Sixteenths(256 - low, -1 - (t \div 256)) = 0 - t
        BY <1>1, <1>3, <2>3, <4>1 DEF Sixteenths
      <4> QED
        BY <2>1, <3>1, <4>2
    <3> QED
      BY <1>1, <1>3, <2>1, <2>3, <3>2 DEF ReadsTemperature, fReadOwTemp
  <2> QED
    BY <2>2, <2>3
<1> QED
  BY <1>1, <1>2, <1>3

\* An input is of one of the computations.
LEMMA InputsAre ==
  ASSUME NEW in \in Inputs \union {Through}
  PROVE  /\ in.of = "curves" => in \in OfCurves
         /\ in.of = "scale" => in \in OfScale
         /\ in.of = "indicator" => in \in OfIndicator
         /\ in.of = "led" => in \in OfLed
         /\ in.of = "line" => in \in OfLine
         /\ in.of = "circle" => in \in OfCircle
         /\ in.of = "message" \/ in.of = "comment" => in \in OfText
         /\ in.of = "lookup" => in \in OfLookup
         /\ in.of = "stations" => in \in OfStations
         /\ in.of = "age" => in \in OfAge
         /\ in.of = "bus" => in \in OfBus
         /\ in.of = "reset" => in \in OfReset
         /\ in.of = "reading" => in \in OfReading
<1>1. \/ in \in OfCurves \/ in \in OfScale \/ in \in OfIndicator \/ in \in OfLed
      \/ in \in OfText \/ in \in OfLookup \/ in \in OfStations \/ in \in OfAge
      \/ in \in OfBus \/ in \in OfReset \/ in \in OfReading \/ in \in OfLine
      \/ in \in OfCircle \/ in = Through
  BY Zenon DEF Inputs
<1>2. /\ in \in OfCurves => in.of = "curves"
      /\ in \in OfScale => in.of = "scale"
      /\ in \in OfIndicator => in.of = "indicator"
      /\ in \in OfLed => in.of = "led"
      /\ in = Through => in.of = "none"
  BY DEF OfCurves, OfScale, OfIndicator, OfLed, Through
<1>3. in \in OfText => in.of = "message" \/ in.of = "comment"
  BY DEF OfText
<1>4. in \in OfLookup => in.of = "lookup"
  BY DEF OfLookup
<1>5. in \in OfStations => in.of = "stations"
  BY DEF OfStations
<1>6. in \in OfAge => in.of = "age"
  BY DEF OfAge
<1>7. in \in OfBus => in.of = "bus"
  BY DEF OfBus
<1>8. in \in OfReset => in.of = "reset"
  BY DEF OfReset
<1>9. in \in OfReading => in.of = "reading"
  BY DEF OfReading
<1>10. in \in OfLine => in.of = "line"
  BY DEF OfLine
<1>11. in \in OfCircle => in.of = "circle"
  BY DEF OfCircle
<1> QED
  BY <1>1, <1>2, <1>3, <1>4, <1>5, <1>6, <1>7, <1>8, <1>9, <1>10, <1>11

\* Every byte crosses the bus, wherever in its span the sensor looks and however late the
\* program is, the sensor is found after a reset, and fReadOwTemp gives the temperature
\* over all the sensor measures, below zero too (ucReadOwByte, cResetOw, fReadOwTemp).
THEOREM TemperatureIsRight == Computing => []TemperatureRight
<1>1. ASSUME input \in Inputs \union {Through} PROVE TemperatureRight
  <2>1. CASE input.of = "bus"
    <3>1. input \in OfBus
      BY <1>1, <2>1, InputsAre
    <3>2. /\ input.byte \in 0..255 /\ input.at \in 15..59
          /\ input.hold \in Nat /\ input.late \in Nat
      BY <3>1, Zenon DEF OfBus
    <3>3. input.byte \in Nat /\ input.byte < 256
      BY <3>2
    <3>4. CrossesBus(input.byte, input.at, input.hold, input.late)
      BY <3>2, <3>3, ByteCrosses, Zenon
    <3> QED
      BY <2>1, <3>4 DEF TemperatureRight
  <2>2. CASE input.of = "reset"
    <3>1. input \in OfReset
      BY <1>1, <2>2, InputsAre
    <3> DEFINE wait == input.wait
               length == input.length
    <3>2. wait \in 15..60 /\ length \in 60..240
      BY <3>1 DEF OfReset
    <3> HIDE DEF wait, length
    <3>3. /\ wait \in Nat /\ 15 <= wait /\ wait <= 60
          /\ length \in Nat /\ 60 <= length /\ length <= 240
      BY <3>2
    <3>4. FoundAtReset(wait, length) /\ MeasuresSixteenths
      BY <3>3, AnswersAtReset
    <3> QED
      BY <2>2, <3>4 DEF TemperatureRight, wait, length
  <2>3. CASE input.of = "reading"
    <3>1. input \in OfReading
      BY <1>1, <2>3, InputsAre
    <3>2. input.sixteenths \in SensorRange
      BY <3>1 DEF OfReading
    <3>3. ReadsTemperature(input.sixteenths)
      BY <3>2, ReadingIsTemperature
    <3> QED
      BY <2>3, <3>3 DEF TemperatureRight
  <2> QED
    BY <2>1, <2>2, <2>3 DEF TemperatureRight
<1>2. input \in Inputs \union {Through} /\ [Computed]_input => (input \in Inputs \union {Through})'
  BY DEF Computed
<1> QED
  BY <1>1, <1>2, PTL DEF Computing

-----------------------------------------------------------------------------
(* The scales and the LEDs                                                 *)

\* Along a curve that rises, the steps are the thresholds that are reached.
LEMMA StepsAreReached ==
  ASSUME NEW curve \in Seq(Nat), NEW value \in Nat,
         \A i, j \in DOMAIN curve : i <= j => curve[i] <= curve[j]
  PROVE  Steps(curve, value) = Reached(curve, value)
<1> DEFINE above == {i \in DOMAIN curve : curve[i] > value}
           reached == {i \in DOMAIN curve : curve[i] <= value}
<1>1. Len(curve) \in Nat /\ DOMAIN curve = 1..Len(curve) /\ \A i \in 1..Len(curve) : curve[i] \in Nat
  OBVIOUS
<1>2. \A i, j \in 1..Len(curve) : i <= j => curve[i] <= curve[j]
  BY <1>1
<1>3. CASE above = {}
  <2>1. reached = 1..Len(curve)
    BY <1>1, <1>3
  <2>2. Cardinality(1..Len(curve)) = Len(curve)
    BY <1>1, CardinalityUpTo
  <2> QED
    BY <1>3, <2>1, <2>2 DEF Steps, Reached
<1>4. CASE above # {}
  <2>1. above \in SUBSET Nat
    BY <1>1
  <2>2. Min(above) \in above /\ \A i \in above : Min(above) <= i
    <3> HIDE DEF above
    <3> QED
      BY <1>4, <2>1, MinIs
  <2> DEFINE m == Min(above)
  <2>3. m \in 1..Len(curve) /\ curve[m] > value /\ \A i \in 1..Len(curve) : curve[i] > value => m <= i
    BY <1>1, <2>2
  <2> HIDE DEF m
  <2>4. reached = 1..(m - 1)
    <3>1. ASSUME NEW i \in 1..Len(curve) PROVE curve[i] <= value <=> i \in 1..(m - 1)
      BY <1>1, <1>2, <2>3
    <3> QED
      BY <1>1, <2>3, <3>1
  <2>5. Cardinality(1..(m - 1)) = m - 1
    BY <2>3, CardinalityUpTo
  <2> QED
    BY <1>4, <2>4, <2>5 DEF Steps, Reached, m
<1> QED
  BY <1>3, <1>4

\* vUpdateScales' curves rise, so the steps counted up to a value are those reached.
LEMMA CurvesAre ==
  ASSUME NEW value \in Nat
  PROVE  CurvesRight(value)
<1>1. GeigerCurve \in Seq(Nat) /\ GsmCurve \in Seq(Nat)
  BY DEF GeigerCurve, GsmCurve
<1>2. \A i, j \in DOMAIN GeigerCurve : i <= j => GeigerCurve[i] <= GeigerCurve[j]
  BY DEF GeigerCurve
<1>3. \A i, j \in DOMAIN GsmCurve : i <= j => GsmCurve[i] <= GsmCurve[j]
  BY DEF GsmCurve
<1>4. Steps(GeigerCurve, value) = Reached(GeigerCurve, value)
  BY <1>1, <1>2, StepsAreReached
<1>5. Steps(GsmCurve, value) = Reached(GsmCurve, value)
  BY <1>1, <1>3, StepsAreReached
<1> QED
  BY <1>4, <1>5 DEF CurvesRight, GeigerScale, GsmScale

\* A segment is of the part of the scale whose thresholds it has reached.
LEMMA PartOf ==
  ASSUME NEW t1 \in Nat, NEW t2 \in Nat, t1 < t2, NEW i \in Nat
  PROVE  Cardinality({t \in {t1, t2} : t <= i}) = IF i < t1 THEN 0 ELSE IF i < t2 THEN 1 ELSE 2
<1>1. CASE i < t1
  <2>1. {t \in {t1, t2} : t <= i} = {}
    BY <1>1
  <2> QED
    BY <1>1, <2>1, FS_EmptySet
<1>2. CASE t1 <= i /\ i < t2
  <2>1. {t \in {t1, t2} : t <= i} = {t1}
    BY <1>2
  <2> QED
    BY <1>2, <2>1, FS_Singleton
<1>3. CASE t2 <= i
  <2>1. {t \in {t1, t2} : t <= i} = {t1} \union {t2}
    BY <1>3
  <2>2. Cardinality({t1} \union {t2}) = 2
    <3>1. IsFiniteSet({t1}) /\ Cardinality({t1}) = 1 /\ t2 \notin {t1}
      BY FS_Singleton
    <3> QED
      BY <3>1, FS_AddElement
  <2> QED
    BY <1>3, <2>1, <2>2
<1> QED
  BY <1>1, <1>2, <1>3

\* Each scale lights as many of its segments as the value says, the lowest first, in the
\* colour its thresholds give (vDrawScale).
LEMMA ScaleIs ==
  ASSUME NEW scale \in DOMAIN Scales, NEW value \in Nat
  PROVE  ScaleRight(Scales[scale], value)
<1> DEFINE s == Scales[scale]
           order == <<"red", "yellow", "green">>
<1>1. s.t1 \in Nat /\ s.t2 \in Nat /\ s.t1 < s.t2 /\ s.t2 % 2 = 1 /\ s.reverse \in BOOLEAN
  <2>1. scale = "aprs" \/ scale = "geiger" \/ scale = "gps" \/ scale = "gsm"
    BY DEF Scales
  <2>2. CASE scale = "aprs"
    <3>1. s = Scales["aprs"]
      BY <2>2
    <3>2. s = [t1 |-> 3, t2 |-> 5, reverse |-> FALSE]
      BY <3>1, Zenon DEF Scales
    <3> HIDE DEF s
    <3> QED
      BY <3>2
  <2>3. CASE scale = "geiger"
    <3>1. s = Scales["geiger"]
      BY <2>3
    <3>2. s = [t1 |-> 3, t2 |-> 7, reverse |-> TRUE]
      BY <3>1, Zenon DEF Scales
    <3> HIDE DEF s
    <3> QED
      BY <3>2
  <2>4. CASE scale = "gps"
    <3>1. s = Scales["gps"]
      BY <2>4
    <3>2. s = [t1 |-> 3, t2 |-> 5, reverse |-> FALSE]
      BY <3>1, Zenon DEF Scales
    <3> HIDE DEF s
    <3> QED
      BY <3>2
  <2>5. CASE scale = "gsm"
    <3>1. s = Scales["gsm"]
      BY <2>5
    <3>2. s = [t1 |-> 4, t2 |-> 7, reverse |-> FALSE]
      BY <3>1, Zenon DEF Scales
    <3> HIDE DEF s
    <3> QED
      BY <3>2
  <2> QED
    BY <2>1, <2>2, <2>3, <2>4, <2>5
<1>2. /\ order[1] = "red" /\ order[2] = "yellow" /\ order[3] = "green"
      /\ Reverse(order)[1] = "green" /\ Reverse(order)[2] = "yellow" /\ Reverse(order)[3] = "red"
  BY DEF Reverse
<1> HIDE DEF s, order
<1>3. ASSUME NEW i \in 0..(Segments - 1)
      PROVE  vDrawScale(i, value, s.t1, s.t2, s.reverse)
             = IF i + 1 > value THEN "grey"
               ELSE (IF s.reverse THEN Reverse(order) ELSE order)[Cardinality({t \in {s.t1, s.t2} : t <= i}) + 1]
  <2>1. i \in Nat
    BY DEF Segments
  <2>2. Cardinality({t \in {s.t1, s.t2} : t <= i}) = IF i < s.t1 THEN 0 ELSE IF i < s.t2 THEN 1 ELSE 2
    BY <1>1, <2>1, PartOf
  <2>3. CASE i < s.t1
    BY <1>1, <1>2, <2>1, <2>2, <2>3 DEF vDrawScale
  <2>4. CASE s.t1 <= i /\ i < s.t2
    BY <1>1, <1>2, <2>1, <2>2, <2>4 DEF vDrawScale
  <2>5. CASE s.t2 <= i
    BY <1>1, <1>2, <2>1, <2>2, <2>5 DEF vDrawScale
  <2> QED
    BY <1>1, <2>1, <2>3, <2>4, <2>5
<1> QED
  BY <1>3 DEF ScaleRight, s, order

\* Every colour that is used, at every contrast
LEMMA IndicatorIs ==
  ASSUME NEW c \in Used, NEW u \in 0..15
  PROVE  IndicatorRight(c, u)
<1>1. \/ c = 0 \/ c = 1 \/ c = 2 \/ c = 3 \/ c = 4 \/ c = 5 \/ c = 6 \/ c = 7 \/ c = 8
      \/ c = 16 \/ c = 18
  BY DEF Used
<1>2. CASE c = 0
  BY <1>2 DEF IndicatorRight, vSetIndicator
<1>3. CASE c = 1
  BY <1>3 DEF IndicatorRight, vSetIndicator
<1>4. CASE c = 2
  BY <1>4 DEF IndicatorRight, vSetIndicator
<1>5. CASE c = 3
  BY <1>5 DEF IndicatorRight, vSetIndicator
<1>6. CASE c = 4
  BY <1>6 DEF IndicatorRight, vSetIndicator
<1>7. CASE c = 5
  BY <1>7 DEF IndicatorRight, vSetIndicator
<1>8. CASE c = 6
  BY <1>8 DEF IndicatorRight, vSetIndicator
<1>9. CASE c = 7
  BY <1>9 DEF IndicatorRight, vSetIndicator
<1>10. CASE c = 8
  BY <1>10 DEF IndicatorRight, vSetIndicator
<1>11. CASE c = 16
  BY <1>11 DEF IndicatorRight, vSetIndicator
<1>12. CASE c = 18
  BY <1>12 DEF IndicatorRight, vSetIndicator
<1> QED
  BY <1>1, <1>2, <1>3, <1>4, <1>5, <1>6, <1>7, <1>8, <1>9, <1>10, <1>11, <1>12

\* The bits of a byte as vSetRGBled sends them
LEMMA LowestFirstAre ==
  ASSUME NEW x \in Nat, x < 256
  PROVE  /\ LowestFirst(x) \in Seq({0, 1}) /\ Len(LowestFirst(x)) = 8
         /\ LowestFirst(x)[1] = x % 2
         /\ LowestFirst(x)[2] = (x \div 2) % 2
         /\ LowestFirst(x)[3] = (x \div 4) % 2
         /\ LowestFirst(x)[4] = (x \div 8) % 2
         /\ LowestFirst(x)[5] = (x \div 16) % 2
         /\ LowestFirst(x)[6] = (x \div 32) % 2
         /\ LowestFirst(x)[7] = (x \div 64) % 2
         /\ LowestFirst(x)[8] = (x \div 128) % 2
<1>1. LowestFirst(x) = Bits(x)
  BY Zenon DEF LowestFirst, Bits
<1>3. Bits(x) \in [1..8 -> {0, 1}] /\ 8 \in Nat
  BY BitsAre
<1>4. Bits(x) \in Seq({0, 1}) /\ Len(Bits(x)) = 8
  BY <1>3, IsSeq, Zenon
<1>5. /\ Bits(x)[1] = x % 2 /\ Bits(x)[2] = (x \div 2) % 2
      /\ Bits(x)[3] = (x \div 4) % 2 /\ Bits(x)[4] = (x \div 8) % 2
      /\ Bits(x)[5] = (x \div 16) % 2 /\ Bits(x)[6] = (x \div 32) % 2
      /\ Bits(x)[7] = (x \div 64) % 2 /\ Bits(x)[8] = (x \div 128) % 2
  BY BitsAre, ZenonT(30)
<1> HIDE DEF Bits, LowestFirst
<1> QED
  BY <1>1, <1>4, <1>5

\* The LED gets blue, red, green, each lowest bit first: what it shows is what was set.
LEMMA LedIs ==
  ASSUME NEW r \in Nat, NEW g \in Nat, NEW b \in Nat, r < 256, g < 256, b < 256
  PROVE  LedRight(r, g, b)
<1> DEFINE lb == LowestFirst(b)
           lr == LowestFirst(r)
           lg == LowestFirst(g)
           S == lb \o lr \o lg
           D == {0, 1}
<1>1. /\ lb \in Seq(D) /\ Len(lb) = 8 /\ lr \in Seq(D) /\ Len(lr) = 8 /\ lg \in Seq(D) /\ Len(lg) = 8
  BY LowestFirstAre, Zenon
<1>2. /\ S \in Seq(D) /\ Len(S) = 24
      /\ \A k \in 1..8 : S[k] = lb[k] /\ S[8 + k] = lr[k] /\ S[16 + k] = lg[k]
  <2> DEFINE T == lb \o lr
             U == T \o lg
  <2> HIDE DEF lb, lr, lg, D
  <2>1. T \in Seq(D) /\ Len(T) = Len(lb) + Len(lr)
    BY <1>1, Joined, Zenon
  <2>2. \A i \in 1..Len(lb) : T[i] = lb[i]
    BY <1>1, Joined, Zenon
  <2>3. \A i \in 1..(Len(lb) + Len(lr)) : i > Len(lb) => T[i] = lr[i - Len(lb)]
    BY <1>1, Joined, Zenon
  <2> HIDE DEF T
  <2>4. T \in Seq(D) /\ lg \in Seq(D)
    BY <1>1, <2>1
  <2>5. U \in Seq(D) /\ Len(U) = Len(T) + Len(lg)
    BY <2>4, Joined, Zenon
  <2>6. \A i \in 1..Len(T) : U[i] = T[i]
    BY <2>4, Joined, Zenon
  <2>7. \A i \in 1..(Len(T) + Len(lg)) : i > Len(T) => U[i] = lg[i - Len(T)]
    BY <2>4, Joined, Zenon
  <2> HIDE DEF U
  <2>8. Len(U) = 24 /\ Len(T) = 16
    BY <1>1, <2>1, <2>5
  <2>9. ASSUME NEW k \in 1..8
        PROVE  U[k] = lb[k] /\ U[8 + k] = lr[k] /\ U[16 + k] = lg[k]
    <3>1. k \in Nat /\ 1 <= k /\ k <= 8
      OBVIOUS
    <3>2. T[k] = lb[k]
      BY <1>1, <2>2, <3>1
    <3>3. T[8 + k] = lr[k]
      <4> DEFINE i == 8 + k
      <4>1. Len(lb) = 8 /\ Len(lr) = 8
        BY <1>1
      <4>2. i \in 1..(Len(lb) + Len(lr)) /\ i > Len(lb) /\ i - Len(lb) = k
        BY <3>1, <4>1
      <4> HIDE DEF i
      <4> QED
        BY <2>3, <4>2, Zenon DEF i
    <3>4. U[k] = T[k] /\ U[8 + k] = T[8 + k]
      BY <2>6, <2>8, <3>1
    <3>5. U[16 + k] = lg[k]
      BY <1>1, <2>7, <2>8, <3>1
    <3> QED
      BY <3>2, <3>3, <3>4, <3>5
  <2>10. S = U
    BY DEF U, T
  <2> HIDE DEF S
  <2> QED
    BY <2>5, <2>8, <2>9, <2>10
<1>3. vSetRGBled(r, g, b) = [k \in 1..24 |-> S[24 - k + 1]]
  <2>1. vSetRGBled(r, g, b) = Reverse(S)
    BY DEF vSetRGBled
  <2> HIDE DEF S
  <2> QED
    BY <1>2, <2>1 DEF Reverse
<1> HIDE DEF S, D, lb, lr, lg
<1>4. /\ S[1] = b % 2
      /\ S[2] = (b \div 2) % 2
      /\ S[3] = (b \div 4) % 2
      /\ S[4] = (b \div 8) % 2
      /\ S[5] = (b \div 16) % 2
      /\ S[6] = (b \div 32) % 2
      /\ S[7] = (b \div 64) % 2
      /\ S[8] = (b \div 128) % 2
  <2>1. /\ S[1] = lb[1]
        /\ S[2] = lb[2]
        /\ S[3] = lb[3]
        /\ S[4] = lb[4]
        /\ S[5] = lb[5]
        /\ S[6] = lb[6]
        /\ S[7] = lb[7]
        /\ S[8] = lb[8]
    BY <1>2
  <2>2. /\ lb[1] = b % 2
        /\ lb[2] = (b \div 2) % 2
        /\ lb[3] = (b \div 4) % 2
        /\ lb[4] = (b \div 8) % 2
        /\ lb[5] = (b \div 16) % 2
        /\ lb[6] = (b \div 32) % 2
        /\ lb[7] = (b \div 64) % 2
        /\ lb[8] = (b \div 128) % 2
    BY LowestFirstAre, ZenonT(60) DEF lb
  <2> QED
    BY <2>1, <2>2, Zenon
<1>5. /\ S[9] = r % 2
      /\ S[10] = (r \div 2) % 2
      /\ S[11] = (r \div 4) % 2
      /\ S[12] = (r \div 8) % 2
      /\ S[13] = (r \div 16) % 2
      /\ S[14] = (r \div 32) % 2
      /\ S[15] = (r \div 64) % 2
      /\ S[16] = (r \div 128) % 2
  <2>1. /\ S[9] = lr[1]
        /\ S[10] = lr[2]
        /\ S[11] = lr[3]
        /\ S[12] = lr[4]
        /\ S[13] = lr[5]
        /\ S[14] = lr[6]
        /\ S[15] = lr[7]
        /\ S[16] = lr[8]
    BY <1>2
  <2>2. /\ lr[1] = r % 2
        /\ lr[2] = (r \div 2) % 2
        /\ lr[3] = (r \div 4) % 2
        /\ lr[4] = (r \div 8) % 2
        /\ lr[5] = (r \div 16) % 2
        /\ lr[6] = (r \div 32) % 2
        /\ lr[7] = (r \div 64) % 2
        /\ lr[8] = (r \div 128) % 2
    BY LowestFirstAre, ZenonT(60) DEF lr
  <2> QED
    BY <2>1, <2>2, Zenon
<1>6. /\ S[17] = g % 2
      /\ S[18] = (g \div 2) % 2
      /\ S[19] = (g \div 4) % 2
      /\ S[20] = (g \div 8) % 2
      /\ S[21] = (g \div 16) % 2
      /\ S[22] = (g \div 32) % 2
      /\ S[23] = (g \div 64) % 2
      /\ S[24] = (g \div 128) % 2
  <2>1. /\ S[17] = lg[1]
        /\ S[18] = lg[2]
        /\ S[19] = lg[3]
        /\ S[20] = lg[4]
        /\ S[21] = lg[5]
        /\ S[22] = lg[6]
        /\ S[23] = lg[7]
        /\ S[24] = lg[8]
    BY <1>2
  <2>2. /\ lg[1] = g % 2
        /\ lg[2] = (g \div 2) % 2
        /\ lg[3] = (g \div 4) % 2
        /\ lg[4] = (g \div 8) % 2
        /\ lg[5] = (g \div 16) % 2
        /\ lg[6] = (g \div 32) % 2
        /\ lg[7] = (g \div 64) % 2
        /\ lg[8] = (g \div 128) % 2
    BY LowestFirstAre, ZenonT(60) DEF lg
  <2> QED
    BY <2>1, <2>2, Zenon
<1> DEFINE n == g * 65536 + r * 256 + b
<1>7. n \in Nat /\ n = g * 65536 + r * 256 + b /\ n \div 1 = n
  BY SMT
<1> HIDE DEF n
<1>8. /\ S[1] = n % 2
      /\ S[2] = (n \div 2) % 2
      /\ S[3] = (n \div 4) % 2
      /\ S[4] = (n \div 8) % 2
      /\ S[5] = (n \div 16) % 2
      /\ S[6] = (n \div 32) % 2
      /\ S[7] = (n \div 64) % 2
      /\ S[8] = (n \div 128) % 2
  <2>1. n % 2 = b % 2
    BY <1>7, SMT
  <2>2. (n \div 2) % 2 = (b \div 2) % 2
    BY <1>7, SMT
  <2>3. (n \div 4) % 2 = (b \div 4) % 2
    BY <1>7, SMT
  <2>4. (n \div 8) % 2 = (b \div 8) % 2
    BY <1>7, SMT
  <2>5. (n \div 16) % 2 = (b \div 16) % 2
    BY <1>7, SMT
  <2>6. (n \div 32) % 2 = (b \div 32) % 2
    BY <1>7, SMT
  <2>7. (n \div 64) % 2 = (b \div 64) % 2
    BY <1>7, SMT
  <2>8. (n \div 128) % 2 = (b \div 128) % 2
    BY <1>7, SMT
  <2> QED
    BY <1>4, <1>5, <1>6, <2>1, <2>2, <2>3, <2>4, <2>5, <2>6, <2>7, <2>8, SMT
<1>9. /\ S[9] = (n \div 256) % 2
      /\ S[10] = (n \div 512) % 2
      /\ S[11] = (n \div 1024) % 2
      /\ S[12] = (n \div 2048) % 2
      /\ S[13] = (n \div 4096) % 2
      /\ S[14] = (n \div 8192) % 2
      /\ S[15] = (n \div 16384) % 2
      /\ S[16] = (n \div 32768) % 2
  <2>1. (n \div 256) % 2 = r % 2
    BY <1>7, SMT
  <2>2. (n \div 512) % 2 = (r \div 2) % 2
    BY <1>7, SMT
  <2>3. (n \div 1024) % 2 = (r \div 4) % 2
    BY <1>7, SMT
  <2>4. (n \div 2048) % 2 = (r \div 8) % 2
    BY <1>7, SMT
  <2>5. (n \div 4096) % 2 = (r \div 16) % 2
    BY <1>7, SMT
  <2>6. (n \div 8192) % 2 = (r \div 32) % 2
    BY <1>7, SMT
  <2>7. (n \div 16384) % 2 = (r \div 64) % 2
    BY <1>7, SMTT(30)
  <2>8. (n \div 32768) % 2 = (r \div 128) % 2
    BY <1>7, SMT
  <2> QED
    BY <1>4, <1>5, <1>6, <2>1, <2>2, <2>3, <2>4, <2>5, <2>6, <2>7, <2>8, SMT
<1>10. /\ S[17] = (n \div 65536) % 2
      /\ S[18] = (n \div 131072) % 2
      /\ S[19] = (n \div 262144) % 2
      /\ S[20] = (n \div 524288) % 2
      /\ S[21] = (n \div 1048576) % 2
      /\ S[22] = (n \div 2097152) % 2
      /\ S[23] = (n \div 4194304) % 2
      /\ S[24] = (n \div 8388608) % 2
  <2>1. (n \div 65536) % 2 = g % 2
    BY <1>7, SMT
  <2>2. (n \div 131072) % 2 = (g \div 2) % 2
    BY <1>7, SMT
  <2>3. (n \div 262144) % 2 = (g \div 4) % 2
    BY <1>7, SMT
  <2>4. (n \div 524288) % 2 = (g \div 8) % 2
    BY <1>7, SMT
  <2>5. (n \div 1048576) % 2 = (g \div 16) % 2
    BY <1>7, SMT
  <2>6. (n \div 2097152) % 2 = (g \div 32) % 2
    BY <1>7, SMT
  <2>7. (n \div 4194304) % 2 = (g \div 64) % 2
    BY <1>7, SMT
  <2>8. (n \div 8388608) % 2 = (g \div 128) % 2
    BY <1>7, SMT
  <2> QED
    BY <1>4, <1>5, <1>6, <2>1, <2>2, <2>3, <2>4, <2>5, <2>6, <2>7, <2>8, SMT
<1>11. ASSUME NEW k \in 1..24 PROVE S[24 - k + 1] = (n \div 2 ^ (24 - k)) % 2
  <2>1. CASE k = 1
    <3>1. 24 - k + 1 = 24 /\ 2 ^ (24 - k) = 8388608
      BY <2>1
    <3> QED
      BY <1>7, <1>10, <3>1, SMT
  <2>2. CASE k = 2
    <3>1. 24 - k + 1 = 23 /\ 2 ^ (24 - k) = 4194304
      BY <2>2
    <3> QED
      BY <1>7, <1>10, <3>1, SMT
  <2>3. CASE k = 3
    <3>1. 24 - k + 1 = 22 /\ 2 ^ (24 - k) = 2097152
      BY <2>3
    <3> QED
      BY <1>7, <1>10, <3>1, SMT
  <2>4. CASE k = 4
    <3>1. 24 - k + 1 = 21 /\ 2 ^ (24 - k) = 1048576
      BY <2>4
    <3> QED
      BY <1>7, <1>10, <3>1, SMT
  <2>5. CASE k = 5
    <3>1. 24 - k + 1 = 20 /\ 2 ^ (24 - k) = 524288
      BY <2>5
    <3> QED
      BY <1>7, <1>10, <3>1, SMT
  <2>6. CASE k = 6
    <3>1. 24 - k + 1 = 19 /\ 2 ^ (24 - k) = 262144
      BY <2>6
    <3> QED
      BY <1>7, <1>10, <3>1, SMT
  <2>7. CASE k = 7
    <3>1. 24 - k + 1 = 18 /\ 2 ^ (24 - k) = 131072
      BY <2>7
    <3> QED
      BY <1>7, <1>10, <3>1, SMT
  <2>8. CASE k = 8
    <3>1. 24 - k + 1 = 17 /\ 2 ^ (24 - k) = 65536
      BY <2>8
    <3> QED
      BY <1>7, <1>10, <3>1, SMT
  <2>9. CASE k = 9
    <3>1. 24 - k + 1 = 16 /\ 2 ^ (24 - k) = 32768
      BY <2>9
    <3> QED
      BY <1>7, <1>9, <3>1, SMT
  <2>10. CASE k = 10
    <3>1. 24 - k + 1 = 15 /\ 2 ^ (24 - k) = 16384
      BY <2>10
    <3> QED
      BY <1>7, <1>9, <3>1, SMT
  <2>11. CASE k = 11
    <3>1. 24 - k + 1 = 14 /\ 2 ^ (24 - k) = 8192
      BY <2>11
    <3> QED
      BY <1>7, <1>9, <3>1, SMT
  <2>12. CASE k = 12
    <3>1. 24 - k + 1 = 13 /\ 2 ^ (24 - k) = 4096
      BY <2>12
    <3> QED
      BY <1>7, <1>9, <3>1, SMT
  <2>13. CASE k = 13
    <3>1. 24 - k + 1 = 12 /\ 2 ^ (24 - k) = 2048
      BY <2>13
    <3> QED
      BY <1>7, <1>9, <3>1, SMT
  <2>14. CASE k = 14
    <3>1. 24 - k + 1 = 11 /\ 2 ^ (24 - k) = 1024
      BY <2>14
    <3> QED
      BY <1>7, <1>9, <3>1, SMT
  <2>15. CASE k = 15
    <3>1. 24 - k + 1 = 10 /\ 2 ^ (24 - k) = 512
      BY <2>15
    <3> QED
      BY <1>7, <1>9, <3>1, SMT
  <2>16. CASE k = 16
    <3>1. 24 - k + 1 = 9 /\ 2 ^ (24 - k) = 256
      BY <2>16
    <3> QED
      BY <1>7, <1>9, <3>1, SMT
  <2>17. CASE k = 17
    <3>1. 24 - k + 1 = 8 /\ 2 ^ (24 - k) = 128
      BY <2>17
    <3> QED
      BY <1>7, <1>8, <3>1, SMT
  <2>18. CASE k = 18
    <3>1. 24 - k + 1 = 7 /\ 2 ^ (24 - k) = 64
      BY <2>18
    <3> QED
      BY <1>7, <1>8, <3>1, SMT
  <2>19. CASE k = 19
    <3>1. 24 - k + 1 = 6 /\ 2 ^ (24 - k) = 32
      BY <2>19
    <3> QED
      BY <1>7, <1>8, <3>1, SMT
  <2>20. CASE k = 20
    <3>1. 24 - k + 1 = 5 /\ 2 ^ (24 - k) = 16
      BY <2>20
    <3> QED
      BY <1>7, <1>8, <3>1, SMT
  <2>21. CASE k = 21
    <3>1. 24 - k + 1 = 4 /\ 2 ^ (24 - k) = 8
      BY <2>21
    <3> QED
      BY <1>7, <1>8, <3>1, SMT
  <2>22. CASE k = 22
    <3>1. 24 - k + 1 = 3 /\ 2 ^ (24 - k) = 4
      BY <2>22
    <3> QED
      BY <1>7, <1>8, <3>1, SMT
  <2>23. CASE k = 23
    <3>1. 24 - k + 1 = 2 /\ 2 ^ (24 - k) = 2
      BY <2>23
    <3> QED
      BY <1>7, <1>8, <3>1, SMT
  <2>24. CASE k = 24
    <3>1. 24 - k + 1 = 1 /\ 2 ^ (24 - k) = 1
      BY <2>24
    <3> QED
      BY <1>7, <1>8, <3>1, SMT
  <2> QED
    BY <2>1, <2>2, <2>3, <2>4, <2>5, <2>6, <2>7, <2>8, <2>9, <2>10, <2>11, <2>12,
       <2>13, <2>14, <2>15, <2>16, <2>17, <2>18, <2>19, <2>20, <2>21, <2>22, <2>23, <2>24
<1> QED
  BY <1>3, <1>11, SMT DEF LedRight, n

-----------------------------------------------------------------------------
(* Lines and circles                                                       *)

\* The first number there is, if 0 is none
LEMMA FirstOf ==
  ASSUME NEW N \in Nat, NEW T, N \in T, 0 \notin T
  PROVE  \E n \in 1..N : n \in T /\ n - 1 \notin T
<1> SUFFICES ASSUME \A n \in 1..N : n \in T => n - 1 \in T PROVE FALSE
  OBVIOUS
<1> DEFINE S == {n \in 0..N : n \notin T}
<1>1. 0 \in S
  OBVIOUS
<1>2. \A n \in 1..N : n - 1 \in S => n \in S
  OBVIOUS
<1> HIDE DEF S
<1>3. N \in S
  BY <1>1, <1>2, UpTo
<1> QED
  BY <1>3 DEF S

\* The place a line is at after n turns: a across and b down, and what err says of them
OnWay(p, n, a, b, x1, y1, x2, y2) ==
  LET dx == Distance(x1, x2)  dy == Distance(y1, y2)
  IN /\ p.x = x1 + Towards(x1, x2) * a /\ p.y = y1 + Towards(y1, y2) * b
     /\ p.err = Half(IF dx > dy THEN dx ELSE 0 - dy) - a * dy + b * dx
     /\ IF dx > dy THEN a = n /\ p.err \in 0..(dx - 1) ELSE b = n /\ p.err \in (1 - dy)..0

Places == [x : Int, y : Int, err : Int]

\* How far and which way it is from one number to another
LEMMA DistanceIs ==
  ASSUME NEW a \in Int, NEW b \in Int
  PROVE  /\ Distance(a, b) \in Nat /\ (a # b => Distance(a, b) > 0)
         /\ Towards(a, b) \in {1, -1} /\ Towards(a, b) \in Int
         /\ b - a = Towards(a, b) * Distance(a, b)
BY DEF Distance, Towards

\* Half of a number and of its negative, rounded towards zero
LEMMA HalfIs ==
  ASSUME NEW n \in Nat
  PROVE  /\ Half(n) \in Nat /\ 2 * Half(n) <= n /\ n <= 2 * Half(n) + 1
         /\ Half(0 - n) = 0 - Half(n) /\ Half(0 - n) \in Int
<1>1. CASE n = 0
  BY <1>1 DEF Half
<1>2. CASE n # 0
  <2>1. ~(n < 0) /\ 0 - n < 0 /\ 0 - (0 - n) = n
    BY <1>2
  <2>2. Half(n) = n \div 2 /\ Half(0 - n) = 0 - (n \div 2)
    BY <2>1 DEF Half
  <2>3. n \div 2 \in Nat /\ 2 * (n \div 2) <= n /\ n <= 2 * (n \div 2) + 1
    OBVIOUS
  <2> QED
    BY <2>2, <2>3
<1> QED
  BY <1>1, <1>2

\* A line begins on its way.
LEMMA FirstPlace ==
  ASSUME NEW x1 \in Int, NEW y1 \in Int, NEW x2 \in Int, NEW y2 \in Int, x1 # x2, y1 # y2,
         NEW p \in Places,
         p = [x |-> x1, y |-> y1,
              err |-> Half(IF Distance(x1, x2) > Distance(y1, y2) THEN Distance(x1, x2)
                           ELSE 0 - Distance(y1, y2))]
  PROVE  OnWay(p, 0, 0, 0, x1, y1, x2, y2)
<1> DEFINE dx == Distance(x1, x2)
           dy == Distance(y1, y2)
<1>1. dx \in Nat /\ dy \in Nat /\ dx > 0 /\ dy > 0
  BY DistanceIs
<1>2. Towards(x1, x2) \in Int /\ Towards(y1, y2) \in Int
  BY DistanceIs
<1> HIDE DEF dx, dy
<1>3. CASE dx > dy
  <2>1. Half(dx) \in 0..(dx - 1)
    BY <1>1, <1>3, HalfIs
  <2> QED
    BY <1>1, <1>2, <1>3, <2>1 DEF OnWay, dx, dy
<1>4. CASE ~(dx > dy)
  <2>1. Half(0 - dy) \in (1 - dy)..0
    <3>1. Half(0 - dy) = 0 - Half(dy) /\ Half(dy) \in Nat /\ 2 * Half(dy) <= dy
      BY <1>1, HalfIs
    <3> QED
      BY <1>1, <3>1
  <2> QED
    BY <1>1, <1>2, <1>4, <2>1 DEF OnWay, dx, dy
<1> QED
  BY <1>3, <1>4

\* One turn goes on along the longer side, and along the shorter one if err says so.
LEMMA GoesFurther ==
  ASSUME NEW x1 \in Int, NEW y1 \in Int, NEW x2 \in Int, NEW y2 \in Int, x1 # x2, y1 # y2,
         NEW p \in Places, NEW n \in Nat, NEW a \in Nat, NEW b \in Nat,
         OnWay(p, n, a, b, x1, y1, x2, y2)
  PROVE  /\ Further(p, x1, y1, x2, y2) \in Places
         /\ \E c, d \in Nat : OnWay(Further(p, x1, y1, x2, y2), n + 1, c, d, x1, y1, x2, y2)
<1> DEFINE dx == Distance(x1, x2)
           dy == Distance(y1, y2)
           sx == Towards(x1, x2)
           sy == Towards(y1, y2)
           q == Further(p, x1, y1, x2, y2)
           e == Half(IF dx > dy THEN dx ELSE 0 - dy)
           across == p.err > 0 - dx
           down == p.err < dy
           c == IF across THEN a + 1 ELSE a
           d == IF down THEN b + 1 ELSE b
<1>1. dx \in Nat /\ dy \in Nat /\ dx > 0 /\ dy > 0 /\ sx \in Int /\ sy \in Int
  BY DistanceIs
<1>2. p.x \in Int /\ p.y \in Int /\ p.err \in Int
  BY DEF Places
<1>3. q = [x |-> IF across THEN p.x + sx ELSE p.x, y |-> IF down THEN p.y + sy ELSE p.y,
           err |-> p.err - (IF across THEN dy ELSE 0) + (IF down THEN dx ELSE 0)]
  BY DEF Further
<1>4. e \in Int
  <2>1. Half(dx) \in Int /\ Half(0 - dy) \in Int
    BY <1>1, HalfIs
  <2> QED
    BY <2>1
<1>5. /\ p.x = x1 + sx * a /\ p.y = y1 + sy * b /\ p.err = e - a * dy + b * dx
      /\ IF dx > dy THEN a = n /\ p.err \in 0..(dx - 1) ELSE b = n /\ p.err \in (1 - dy)..0
  BY DEF OnWay
<1> HIDE DEF dx, dy, sx, sy, e, q
<1>6. q \in Places
  BY <1>1, <1>2, <1>3 DEF Places
<1>7. c \in Nat /\ d \in Nat
  OBVIOUS
<1>8. q.x = x1 + sx * c /\ q.y = y1 + sy * d
  <2>1. sx * (a + 1) = sx * a + sx /\ sy * (b + 1) = sy * b + sy
    BY <1>1
  <2>2. sx * a \in Int /\ sy * b \in Int
    BY <1>1
  <2> QED
    BY <1>1, <1>2, <1>3, <1>5, <2>1, <2>2
<1>9. q.err = e - c * dy + d * dx
  <2>1. (a + 1) * dy = a * dy + dy /\ (b + 1) * dx = b * dx + dx
    BY <1>1
  <2>2. a * dy \in Int /\ b * dx \in Int
    BY <1>1
  <2> QED
    BY <1>1, <1>2, <1>3, <1>4, <1>5, <2>1, <2>2
<1>10. IF dx > dy THEN c = n + 1 /\ q.err \in 0..(dx - 1) ELSE d = n + 1 /\ q.err \in (1 - dy)..0
  BY <1>1, <1>2, <1>3, <1>5
<1>11. OnWay(q, n + 1, c, d, x1, y1, x2, y2)
  BY <1>8, <1>9, <1>10 DEF OnWay, dx, dy, sx, sy, e
<1> QED
  BY <1>6, <1>7, <1>11 DEF q

\* The places of a line: after n turns as far along the longer side
LEMMA SlopeIs ==
  ASSUME NEW x1 \in Int, NEW y1 \in Int, NEW x2 \in Int, NEW y2 \in Int, x1 # x2, y1 # y2
  PROVE  LET long == Long(x1, y1, x2, y2)
             slope == Slope(x1, y1, x2, y2)
         IN /\ long \in Nat
            /\ \A n \in 0..long : /\ slope[n + 1] \in Places
                                  /\ \E a, b \in Nat : OnWay(slope[n + 1], n, a, b, x1, y1, x2, y2)
            /\ slope[1].x = x1 /\ slope[1].y = y1
<1> DEFINE dx == Distance(x1, x2)
           dy == Distance(y1, y2)
           long == Long(x1, y1, x2, y2)
           first == [x |-> x1, y |-> y1, err |-> Half(IF dx > dy THEN dx ELSE 0 - dy)]
           GoOn(p) == Further(p, x1, y1, x2, y2)
           At(f) == [n \in 0..long |-> IF n = 0 THEN first ELSE GoOn(f[n - 1])]
           step == [n \in 1..long |-> [p \in Places |-> GoOn(p)]]
<1>1. dx \in Nat /\ dy \in Nat /\ Towards(x1, x2) \in Int /\ Towards(y1, y2) \in Int
  BY DistanceIs
<1>2. long \in Nat
  BY <1>1 DEF Long
<1>3. first \in Places
  <2>1. Half(dx) \in Int /\ Half(0 - dy) \in Int
    BY <1>1, HalfIs
  <2> QED
    BY <2>1 DEF Places
<1>4. \A p \in Places : GoOn(p) \in Places
  BY <1>1 DEF Further, Places
<1>5. Slope(x1, y1, x2, y2) = LET at[n \in 0..long] == IF n = 0 THEN first ELSE GoOn(at[n - 1])
                              IN [i \in 1..(long + 1) |-> at[i - 1]]
  BY DEF Slope
<1>6. OnWay(first, 0, 0, 0, x1, y1, x2, y2)
  BY <1>3, FirstPlace
<1>7. ASSUME NEW p \in Places, NEW n \in Nat, \E a, b \in Nat : OnWay(p, n, a, b, x1, y1, x2, y2)
      PROVE  \E a, b \in Nat : OnWay(GoOn(p), n + 1, a, b, x1, y1, x2, y2)
  BY <1>7, GoesFurther
<1>8. first.x = x1 /\ first.y = y1
  OBVIOUS
<1> HIDE DEF dx, dy, long, first, GoOn
<1>9. \E f : f = At(f)
  <2>1. step \in [1..long -> [Places -> Places]] /\ \A n \in 1..long, p \in Places : step[n][p] = GoOn(p)
    BY <1>4
  <2> HIDE DEF step
  <2>2. PICK f : Values(f, long, Places, first, step)
    BY <1>2, <1>3, <2>1, ValuesExist
  <2>3. f \in [0..long -> Places] /\ f[0] = first
    BY <2>2 DEF Values
  <2>4. ASSUME NEW n \in 1..long PROVE n - 1 \in 0..long /\ f[n] = GoOn(f[n - 1])
    <3>1. n - 1 \in 0..long /\ f[n - 1] \in Places /\ f[n] = step[n][f[n - 1]]
      BY <1>2, <2>2 DEF Values
    <3> QED
      BY <2>1, <3>1
  <2>5. f = At(f)
    BY <1>2, <2>3, <2>4
  <2> QED
    BY <2>5
<1>10. PICK f : f = At(f) /\ Slope(x1, y1, x2, y2) = [i \in 1..(long + 1) |-> f[i - 1]]
  BY <1>5, <1>9
<1> DEFINE S == {n \in 0..long : f[n] \in Places /\ \E a, b \in Nat : OnWay(f[n], n, a, b, x1, y1, x2, y2)}
<1>11. f[0] = first /\ \A n \in 1..long : f[n] = GoOn(f[n - 1])
  BY <1>2, <1>10
<1>12. 0 \in S
  BY <1>2, <1>3, <1>6, <1>11
<1>13. ASSUME NEW n \in 1..long, n - 1 \in S PROVE n \in S
  <2>1. n - 1 \in Nat /\ (n - 1) + 1 = n /\ n \in 0..long
    BY <1>2
  <2>2. \E a, b \in Nat : OnWay(GoOn(f[n - 1]), n, a, b, x1, y1, x2, y2)
    BY <1>7, <1>13, <2>1
  <2> QED
    BY <1>4, <1>11, <1>13, <2>1, <2>2
<1> HIDE DEF S
<1>14. \A n \in 0..long : n \in S
  BY <1>2, <1>12, <1>13, UpTo
<1>15. ASSUME NEW n \in 0..long PROVE Slope(x1, y1, x2, y2)[n + 1] = f[n]
  <2>1. n + 1 \in 1..(long + 1) /\ (n + 1) - 1 = n
    BY <1>2
  <2> QED
    BY <1>10, <2>1
<1>16. \A n \in 0..long : /\ Slope(x1, y1, x2, y2)[n + 1] \in Places
                          /\ \E a, b \in Nat : OnWay(Slope(x1, y1, x2, y2)[n + 1], n, a, b, x1, y1, x2, y2)
  BY <1>14, <1>15 DEF S
<1>17. Slope(x1, y1, x2, y2)[1] = first
  <2>1. 0 \in 0..long /\ 0 + 1 = 1
    BY <1>2
  <2> QED
    BY <1>11, <1>15, <2>1
<1> QED
  BY <1>2, <1>8, <1>16, <1>17 DEF long

\* A multiple less than the number itself is none of it.
LEMMA NoMultiple ==
  ASSUME NEW k \in Int, NEW d \in Nat, 0 - d < k * d, k * d < d
  PROVE  k = 0
<1>1. CASE k >= 1
  <2>1. k * d = (k - 1) * d + d /\ (k - 1) * d >= 0
    BY <1>1
  <2> QED
    BY <2>1
<1>2. CASE k <= -1
  <2>1. k * d = (k + 1) * d - d /\ (0 - (k + 1)) * d >= 0 /\ (k + 1) * d = 0 - ((0 - (k + 1)) * d)
    BY <1>2
  <2> QED
    BY <2>1
<1> QED
  BY <1>1, <1>2

\* So lines are straight, and end where they should.
LEMMA LineKeepsStraight ==
  ASSUME NEW x1 \in Int, NEW y1 \in Int, NEW x2 \in Int, NEW y2 \in Int, x1 # x2, y1 # y2
  PROVE  StraightLine(x1, y1, x2, y2)
<1> DEFINE dx == Distance(x1, x2)
           dy == Distance(y1, y2)
           sx == Towards(x1, x2)
           sy == Towards(y1, y2)
           long == Long(x1, y1, x2, y2)
           slope == Slope(x1, y1, x2, y2)
           e == Half(IF dx > dy THEN dx ELSE 0 - dy)
<1>1. /\ dx \in Nat /\ dy \in Nat /\ dx > 0 /\ dy > 0 /\ sx \in {1, -1} /\ sy \in {1, -1}
      /\ x2 - x1 = sx * dx /\ y2 - y1 = sy * dy
  BY DistanceIs
<1>2. long = IF dx > dy THEN dx ELSE dy
  BY DEF Long
<1>3. ASSUME NEW i \in 1..(long + 1)
      PROVE  /\ slope[i].x = x2 /\ slope[i].y = y2 <=> i = long + 1
             /\ IF dx > dy THEN Distance(x1, slope[i].x) = i - 1 ELSE Distance(y1, slope[i].y) = i - 1
             /\ 2 * Distance((slope[i].x - x1) * (y2 - y1), (slope[i].y - y1) * (x2 - x1)) <= long
  <2> DEFINE n == i - 1
             p == slope[i]
  <2>1. n \in 0..long /\ i = n + 1 /\ long \in Nat
    BY <1>1, <1>2
  <2>2. PICK a \in Nat, b \in Nat : p \in Places /\ OnWay(p, n, a, b, x1, y1, x2, y2)
    <3>1. p = slope[n + 1]
      BY <2>1
    <3> HIDE DEF n, p
    <3>2. slope[n + 1] \in Places /\ \E a, b \in Nat : OnWay(slope[n + 1], n, a, b, x1, y1, x2, y2)
      BY <2>1, SlopeIs
    <3> QED
      BY <3>1, <3>2
  <2>3. /\ p.x = x1 + sx * a /\ p.y = y1 + sy * b /\ p.err = e - a * dy + b * dx
        /\ IF dx > dy THEN a = n /\ p.err \in 0..(dx - 1) ELSE b = n /\ p.err \in (1 - dy)..0
    BY <2>2 DEF OnWay
  <2>4. p.x \in Int /\ p.y \in Int /\ p.err \in Int
    BY <2>2 DEF Places
  <2>5. /\ e \in Int
        /\ dx > dy => 0 <= e /\ 2 * e <= dx /\ dx <= 2 * e + 1
        /\ ~(dx > dy) => e <= 0 /\ 0 - 2 * e <= dy /\ dy <= 1 - 2 * e
    <3>1. /\ Half(dx) \in Nat /\ 2 * Half(dx) <= dx /\ dx <= 2 * Half(dx) + 1
          /\ Half(dy) \in Nat /\ 2 * Half(dy) <= dy /\ dy <= 2 * Half(dy) + 1
          /\ Half(0 - dy) = 0 - Half(dy)
      BY <1>1, HalfIs
    <3>2. CASE dx > dy
      BY <1>1, <3>1, <3>2
    <3>3. CASE ~(dx > dy)
      BY <1>1, <3>1, <3>3
    <3> QED
      BY <3>2, <3>3
  <2> DEFINE A == a * dy
             B == b * dx
  <2>6. A \in Nat /\ B \in Nat
    BY <1>1
  <2>7. p.x - x1 = sx * a /\ p.y - y1 = sy * b
    <3>1. sx * a \in Int /\ sy * b \in Int
      BY <1>1
    <3> QED
      BY <2>3, <3>1
  <2>8. Distance((p.x - x1) * (y2 - y1), (p.y - y1) * (x2 - x1)) = IF A < B THEN B - A ELSE A - B
    <3>1. (p.x - x1) * (y2 - y1) = sx * sy * A /\ (p.y - y1) * (x2 - x1) = sx * sy * B
      <4>1. (sx * a) * (sy * dy) = sx * sy * A /\ (sy * b) * (sx * dx) = sx * sy * B
        <5> HIDE DEF dx, dy, sx, sy
        <5>1. CASE sx = 1
          BY <1>1, <5>1
        <5>2. CASE sx = -1
          BY <1>1, <5>2
        <5> QED
          BY <1>1, <5>1, <5>2
      <4> QED
        BY <1>1, <2>7, <4>1
    <3>2. sx * sy = 1 \/ sx * sy = -1
      BY <1>1
    <3>3. CASE sx * sy = 1
      <4>1. sx * sy * A = A /\ sx * sy * B = B
        BY <2>6, <3>3
      <4> QED
        BY <2>6, <3>1, <4>1 DEF Distance
    <3>4. CASE sx * sy = -1
      <4>1. sx * sy * A = 0 - A /\ sx * sy * B = 0 - B
        BY <2>6, <3>4
      <4> QED
        BY <2>6, <3>1, <4>1 DEF Distance
    <3> QED
      BY <3>2, <3>3, <3>4
  <2> HIDE DEF e, sx, sy, dx, dy, long, slope
  <2>9. p.err = e - A + B
    BY <2>3
  <2>10. 2 * (IF A < B THEN B - A ELSE A - B) <= long
    <3> HIDE DEF A, B, p
    <3> QED
      BY <1>1, <1>2, <2>3, <2>4, <2>5, <2>6, <2>9
  <2>11. Distance(x1, p.x) = a /\ Distance(y1, p.y) = b
    BY <1>1, <2>3, <2>4 DEF Distance
  <2>12. n = long => a = dx /\ b = dy
    <3>1. ASSUME n = long, dx > dy PROVE a = dx /\ b = dy
      <4>1. a = dx /\ p.err \in 0..(dx - 1)
        BY <1>2, <2>3, <3>1
      <4>2. (b - dy) * dx = B - A
        BY <1>1, <4>1
      <4>3. 0 - dx < (b - dy) * dx /\ (b - dy) * dx < dx
        <5> HIDE DEF A, B, p
        <5> QED
          BY <1>1, <2>5, <2>6, <2>9, <3>1, <4>1, <4>2
      <4>4. b - dy = 0
        BY <1>1, <4>3, NoMultiple
      <4> QED
        BY <1>1, <4>1, <4>4
    <3>2. ASSUME n = long, ~(dx > dy) PROVE a = dx /\ b = dy
      <4>1. b = dy /\ p.err \in (1 - dy)..0
        BY <1>2, <2>3, <3>2
      <4>2. (a - dx) * dy = A - B
        BY <1>1, <4>1
      <4>3. 0 - dy < (a - dx) * dy /\ (a - dx) * dy < dy
        <5> HIDE DEF A, B, p
        <5> QED
          BY <1>1, <2>5, <2>6, <2>9, <3>2, <4>1, <4>2
      <4>4. a - dx = 0
        BY <1>1, <4>3, NoMultiple
      <4> QED
        BY <1>1, <4>1, <4>4
    <3> QED
      BY <3>1, <3>2
  <2>13. n = long => p.x = x2 /\ p.y = y2
    BY <1>1, <2>3, <2>12
  <2>14. n # long => ~(p.x = x2 /\ p.y = y2)
    <3>1. SUFFICES ASSUME p.x = x2, p.y = y2 PROVE n = long
      OBVIOUS
    <3>2. a = dx /\ b = dy
      BY <2>11, <3>1 DEF dx, dy
    <3> QED
      BY <1>2, <2>3, <3>2
  <2>15. i = long + 1 <=> n = long
    BY <2>1
  <2> QED
    BY <2>3, <2>8, <2>10, <2>11, <2>13, <2>14, <2>15
<1>4. slope[1].x = x1 /\ slope[1].y = y1
  BY SlopeIs
<1> QED
  <2>1. \A i \in 1..(long + 1) :
              /\ slope[i].x = x2 /\ slope[i].y = y2 <=> i = long + 1
              /\ IF dx > dy THEN Distance(x1, slope[i].x) = i - 1 ELSE Distance(y1, slope[i].y) = i - 1
              /\ 2 * Distance((slope[i].x - x1) * (y2 - y1), (slope[i].y - y1) * (x2 - x1)) <= long
    BY <1>3
  <2> QED
    BY <1>4, <2>1, Zenon DEF StraightLine

\* An eighth of a circle after y rows: how far the toggle is from the circle, and how near
\* the place is as long as the eighth goes on
Near(r, x, y) == x * x - x + y * y <= r * r /\ r * r <= x * x + x + y * y
OnCircle(p, r, y) ==
  /\ p.toggle = (y + 1) * (y + 1) + p.x * p.x - p.x - r * r
  /\ p.x <= r /\ r - y <= p.x
  /\ p.x >= y => Near(r, p.x, y)

Rows == [x : Int, toggle : Int]

\* The next row is as far in or one more, and as near.
LEMMA RowsGoOn ==
  ASSUME NEW r \in Nat, NEW y \in Nat, NEW p \in Rows, OnCircle(p, r, y)
  PROVE  LET q == NextRow(p, y + 1) IN
         q \in Rows /\ OnCircle(q, r, y + 1) /\ q.x <= p.x /\ p.x <= q.x + 1
<1> DEFINE q == NextRow(p, y + 1)
           x == p.x
           X == x * x
           Y == y * y
           R == r * r
<1>1. x \in Int /\ p.toggle \in Int /\ X \in Int /\ Y \in Int /\ R \in Int
  BY DEF Rows
<1>2. /\ p.toggle = Y + 2 * y + 1 + X - x - R /\ x <= r /\ r - y <= x
      /\ x >= y => X - x + Y <= R /\ R <= X + x + Y
  <2>1. (y + 1) * (y + 1) = Y + 2 * y + 1
    OBVIOUS
  <2> QED
    BY <1>1, <2>1 DEF OnCircle, Near
<1>3. /\ (y + 1) * (y + 1) = Y + 2 * y + 1 /\ (y + 2) * (y + 2) = Y + 4 * y + 4
      /\ (x - 1) * (x - 1) = X - 2 * x + 1 /\ (y + 1) + 1 = y + 2
  BY <1>1
<1>4. CASE p.toggle <= 0
  <2>1. q = [x |-> x, toggle |-> p.toggle + 1 + 2 * (y + 1)]
    BY <1>4 DEF NextRow
  <2>2. q.x = x /\ q.toggle = p.toggle + 2 * y + 3 /\ q \in Rows
    BY <1>1, <2>1 DEF Rows
  <2> HIDE DEF q, X, Y, R, x
  <2>3. q.toggle = (Y + 4 * y + 4) + X - x - R
    BY <1>1, <1>2, <2>2
  <2>4. x >= y + 1 => X - x + (Y + 2 * y + 1) <= R /\ R <= X + x + (Y + 2 * y + 1)
    BY <1>1, <1>2, <1>4
  <2>5. OnCircle(q, r, y + 1)
    BY <1>1, <1>2, <1>3, <2>2, <2>3, <2>4 DEF OnCircle, Near, X, R
  <2> QED
    BY <1>1, <2>2, <2>5 DEF q, x
<1>5. CASE ~(p.toggle <= 0)
  <2>1. q = [x |-> x - 1, toggle |-> p.toggle + 1 + 2 * ((y + 1) - (x - 1))]
    BY <1>5 DEF NextRow
  <2>2. q.x = x - 1 /\ q.toggle = p.toggle + 2 * y + 5 - 2 * x /\ q \in Rows
    BY <1>1, <2>1 DEF Rows
  <2> HIDE DEF q, X, Y, R, x
  <2>3. q.toggle = (Y + 4 * y + 4) + (X - 2 * x + 1) - (x - 1) - R
    BY <1>1, <1>2, <2>2
  <2>4. x - 1 >= y + 1 => /\ (X - 2 * x + 1) - (x - 1) + (Y + 2 * y + 1) <= R
                          /\ R <= (X - 2 * x + 1) + (x - 1) + (Y + 2 * y + 1)
    BY <1>1, <1>2, <1>5
  <2>5. OnCircle(q, r, y + 1)
    BY <1>1, <1>2, <1>3, <2>2, <2>3, <2>4 DEF OnCircle, Near, R
  <2> QED
    BY <1>1, <2>2, <2>5 DEF q, x
<1> QED
  BY <1>4, <1>5

\* The rows of an eighth, one after the other
LEMMA OctantIs ==
  ASSUME NEW r \in Nat
  PROVE  \E f : /\ Octant(r) = [y \in {y \in 0..r : f[y].x >= y} |-> f[y].x]
                /\ f[0].x = r
                /\ \A y \in 0..r : f[y] \in Rows /\ OnCircle(f[y], r, y)
                /\ \A y \in 1..r : f[y].x <= f[y - 1].x /\ f[y - 1].x <= f[y].x + 1
<1> DEFINE first == [x |-> r, toggle |-> 1 - r]
           At(f) == [y \in 0..r |-> IF y = 0 THEN first ELSE NextRow(f[y - 1], y)]
           step == [y \in 1..r |-> [p \in Rows |-> NextRow(p, y)]]
<1>1. first \in Rows /\ first.x = r
  BY DEF Rows
<1>2. OnCircle(first, r, 0)
  <2>1. 1 - r = (0 + 1) * (0 + 1) + r * r - r - r * r /\ r * r - r + 0 * 0 <= r * r /\ r * r <= r * r + r + 0 * 0
    <3>1. r * r \in Nat
      OBVIOUS
    <3> QED
      BY <3>1
  <2> QED
    BY <2>1 DEF OnCircle, Near
<1>3. \A y \in 1..r, p \in Rows : NextRow(p, y) \in Rows
  BY DEF NextRow, Rows
<1>4. Octant(r) = LET at[y \in 0..r] == IF y = 0 THEN first ELSE NextRow(at[y - 1], y)
                  IN [y \in {y \in 0..r : at[y].x >= y} |-> at[y].x]
  BY DEF Octant
<1> HIDE DEF first
<1>5. \E f : f = At(f)
  <2>1. step \in [1..r -> [Rows -> Rows]] /\ \A y \in 1..r, p \in Rows : step[y][p] = NextRow(p, y)
    BY <1>3
  <2> HIDE DEF step
  <2>2. PICK f : Values(f, r, Rows, first, step)
    BY <1>1, <2>1, ValuesExist
  <2>3. f \in [0..r -> Rows] /\ f[0] = first
    BY <2>2 DEF Values
  <2>4. ASSUME NEW y \in 1..r PROVE y - 1 \in 0..r /\ f[y] = NextRow(f[y - 1], y)
    <3>1. y - 1 \in 0..r /\ f[y - 1] \in Rows /\ f[y] = step[y][f[y - 1]]
      BY <2>2 DEF Values
    <3> QED
      BY <2>1, <3>1
  <2>5. f = At(f)
    BY <2>3, <2>4
  <2> QED
    BY <2>5
<1>6. PICK f : f = At(f) /\ Octant(r) = [y \in {y \in 0..r : f[y].x >= y} |-> f[y].x]
  BY <1>4, <1>5
<1>7. f[0] = first /\ \A y \in 1..r : f[y] = NextRow(f[y - 1], y)
  BY <1>6
<1> DEFINE S == {y \in 0..r : f[y] \in Rows /\ OnCircle(f[y], r, y)}
<1>8. 0 \in S
  BY <1>1, <1>2, <1>7
<1>9. ASSUME NEW y \in 1..r, y - 1 \in S
      PROVE  y \in S /\ f[y].x <= f[y - 1].x /\ f[y - 1].x <= f[y].x + 1
  <2>1. y - 1 \in Nat /\ (y - 1) + 1 = y
    OBVIOUS
  <2>2. f[y - 1] \in Rows /\ OnCircle(f[y - 1], r, y - 1)
    BY <1>9
  <2>3. /\ NextRow(f[y - 1], y) \in Rows /\ OnCircle(NextRow(f[y - 1], y), r, y)
        /\ NextRow(f[y - 1], y).x <= f[y - 1].x /\ f[y - 1].x <= NextRow(f[y - 1], y).x + 1
    <3>1. PICK z : z = y - 1
      OBVIOUS
    <3>2. z + 1 = y /\ z \in Nat /\ f[z] \in Rows /\ OnCircle(f[z], r, z)
      BY <2>1, <2>2, <3>1
    <3>3. /\ NextRow(f[z], z + 1) \in Rows /\ OnCircle(NextRow(f[z], z + 1), r, z + 1)
          /\ NextRow(f[z], z + 1).x <= f[z].x /\ f[z].x <= NextRow(f[z], z + 1).x + 1
      BY <3>2, RowsGoOn
    <3> QED
      BY <3>1, <3>2, <3>3
  <2> QED
    BY <1>7, <2>3
<1> HIDE DEF S
<1>10. \A y \in 0..r : y \in S
  BY <1>8, <1>9, UpTo
<1>11. \A y \in 1..r : f[y].x <= f[y - 1].x /\ f[y - 1].x <= f[y].x + 1
  <2>1. \A y \in 1..r : y - 1 \in 0..r
    OBVIOUS
  <2> QED
    BY <1>9, <1>10, <2>1
<1>12. \A y \in 0..r : f[y] \in Rows /\ OnCircle(f[y], r, y)
  BY <1>10 DEF S
<1> QED
  BY <1>1, <1>6, <1>7, <1>11, <1>12

\* So circles are round: the eighth ends where it meets its mirror image.
LEMMA CircleKeepsRound ==
  ASSUME NEW r \in Nat
  PROVE  RoundCircle(r)
<1> DEFINE octant == Octant(r)
<1>1. PICK f : /\ octant = [y \in {y \in 0..r : f[y].x >= y} |-> f[y].x]
               /\ f[0].x = r
               /\ \A y \in 0..r : f[y] \in Rows /\ OnCircle(f[y], r, y)
               /\ \A y \in 1..r : f[y].x <= f[y - 1].x /\ f[y - 1].x <= f[y].x + 1
  BY OctantIs
<1> DEFINE D == {y \in 0..r : f[y].x >= y}
<1>2. DOMAIN octant = D /\ \A y \in D : octant[y] = f[y].x
  BY <1>1
<1>3. \A y \in 0..r : f[y].x \in Int /\ f[y].x <= r /\ r - y <= f[y].x /\ (f[y].x >= y => Near(r, f[y].x, y))
  BY <1>1 DEF OnCircle, Rows
<1>4. \A y \in 0..r : \A z \in 0..y : f[z].x >= f[y].x
  <2> DEFINE S == {y \in 0..r : \A z \in 0..y : f[z].x >= f[y].x}
  <2>1. 0 \in S
    BY <1>3
  <2>2. ASSUME NEW y \in 1..r, y - 1 \in S PROVE y \in S
    <3>1. y - 1 \in 0..r /\ y \in 0..r /\ f[y].x <= f[y - 1].x /\ f[y].x \in Int /\ f[y - 1].x \in Int
      BY <1>1, <1>3
    <3>2. ASSUME NEW z \in 0..y PROVE f[z].x >= f[y].x
      <4>1. CASE z = y
        BY <3>1, <4>1
      <4>2. CASE z # y
        <5>1. z \in 0..(y - 1) /\ z \in 0..r
          BY <4>2
        <5>2. f[z].x >= f[y - 1].x /\ f[z].x \in Int
          BY <1>3, <2>2, <5>1
        <5> QED
          BY <3>1, <5>2
      <4> QED
        BY <4>1, <4>2
    <3> QED
      BY <3>1, <3>2
  <2> HIDE DEF S
  <2>3. \A y \in 0..r : y \in S
    BY <2>1, <2>2, UpTo
  <2> QED
    BY <2>3 DEF S
<1>5. ASSUME NEW y \in D
      PROVE  /\ 0..y \subseteq D
             /\ r * r \in (octant[y] * octant[y] - octant[y] + y * y)..(octant[y] * octant[y] + octant[y] + y * y)
             /\ octant[y] \in 0..r
  <2>1. y \in 0..r /\ f[y].x >= y /\ f[y].x \in Int /\ f[y].x <= r
    BY <1>3
  <2>2. ASSUME NEW z \in 0..y PROVE z \in D
    <3>1. z \in 0..r /\ f[z].x >= f[y].x /\ f[z].x \in Int
      BY <1>3, <1>4, <2>1
    <3> QED
      BY <2>1, <3>1
  <2>3. Near(r, f[y].x, y)
    BY <1>3, <2>1
  <2> DEFINE x == f[y].x
             A == x * x - x + y * y
             B == x * x + x + y * y
  <2>4. A \in Int /\ B \in Int /\ r * r \in Int
    BY <2>1
  <2>5. A <= r * r /\ r * r <= B
    BY <2>3 DEF Near
  <2>6. r * r \in A..B
    BY <2>4, <2>5
  <2>7. octant[y] = x /\ x \in 0..r
    BY <1>2, <2>1
  <2> HIDE DEF x, octant
  <2> QED
    BY <2>2, <2>6, <2>7
<1>6. ASSUME NEW v \in 0..r PROVE v \in D \/ \E y \in D : octant[y] = v
  <2>1. SUFFICES ASSUME v \notin D PROVE \E y \in D : octant[y] = v
    OBVIOUS
  <2>2. f[v].x < v /\ v # 0
    BY <1>3, <2>1
  <2> DEFINE T == {y \in 0..v : f[y].x < v}
  <2>3. v \in T /\ 0 \notin T
    BY <1>1, <1>3, <2>2
  <2> HIDE DEF T
  <2>4. PICK y \in 1..v : y \in T /\ y - 1 \notin T
    BY <2>3, FirstOf
  <2> DEFINE z == y - 1
  <2>5. z \in 0..v /\ z \in 0..r /\ y \in 1..r /\ y \in 0..r
    BY <2>2
  <2>6. f[y].x < v /\ ~(f[z].x < v)
    BY <2>4, <2>5 DEF T
  <2>7. f[z].x <= f[y].x + 1 /\ f[y].x \in Int /\ f[z].x \in Int
    BY <1>1, <1>3, <2>5
  <2>8. f[z].x = v
    BY <2>6, <2>7
  <2>9. z \in D
    BY <2>5, <2>8
  <2> QED
    BY <1>2, <2>8, <2>9
<1>7. D \union {octant[y] : y \in D} = 0..r
  <2> HIDE DEF octant
  <2> QED
    BY <1>5, <1>6
<1> QED
  <2> HIDE DEF D
  <2> QED
    BY <1>2, <1>5, <1>7, Zenon DEF RoundCircle, octant

-----------------------------------------------------------------------------
(* The lines of a message and of a comment                                 *)

\* A line ends behind where it begins, at 15 at most, and at less than 12 only with the text.
LEMMA LineEndIs ==
  ASSUME NEW spaces, NEW length \in Nat, NEW pQ \in Nat, pQ <= length
  PROVE  /\ LineEnd(spaces, length, pQ) \in pQ..length
         /\ LineEnd(spaces, length, pQ) <= pQ + 15
         /\ \/ Breaks(spaces, pQ, LineEnd(spaces, length, pQ))
            \/ LineEnd(spaces, length, pQ) = pQ + 15
            \/ LineEnd(spaces, length, pQ) = length
<1> DEFINE ends == {pP \in pQ..length : Breaks(spaces, pQ, pP) \/ pP - pQ > 14 \/ pP = length}
           e == Min(ends)
<1>1. ends \in SUBSET Nat /\ length \in ends
  OBVIOUS
<1>2. e \in ends /\ \A pP \in ends : e <= pP
  <2> HIDE DEF ends
  <2> QED
    BY <1>1, MinIs
<1>3. e = LineEnd(spaces, length, pQ)
  BY DEF LineEnd
<1> HIDE DEF e
<1>4. e \in Nat /\ pQ <= e /\ e <= length /\ (Breaks(spaces, pQ, e) \/ e - pQ > 14 \/ e = length)
  BY <1>2
<1>5. e <= pQ + 15
  <2>1. SUFFICES ASSUME e > pQ + 15 PROVE FALSE
    BY <1>4
  <2>2. pQ + 15 \in ends
    BY <1>4, <2>1
  <2> QED
    BY <1>2, <2>1, <2>2
<1> QED
  BY <1>3, <1>4, <1>5

\* A line has all of its part of the text but spaces, and fits.
LineIs(spaces, length, pQ, e, line) ==
    /\ e \in Nat /\ e <= length /\ (e >= pQ + 12 \/ e = length) /\ pQ <= e
    /\ line \subseteq {p \in Nat : pQ <= p /\ p <= e /\ p < length}
    /\ Cardinality(line) <= LineLength
    /\ \A p \in Nat : pQ <= p /\ p <= e /\ p < length => p \in spaces \/ p \in line

\* A line taken from there is of that kind: LineEnd goes as far as a space or the width.
LEMMA NextLineIs ==
  ASSUME NEW spaces, NEW length \in Nat, NEW pQ \in Nat, pQ <= length
  PROVE  LineIs(spaces, length, pQ, LineEnd(spaces, length, pQ), NextLine(spaces, length, pQ))
<1> DEFINE e == LineEnd(spaces, length, pQ)
           line == NextLine(spaces, length, pQ)
<1>1. /\ e \in Nat /\ pQ <= e /\ e <= length /\ e <= pQ + 15
      /\ Breaks(spaces, pQ, e) \/ e = pQ + 15 \/ e = length
  BY LineEndIs
<1> HIDE DEF e
<1>2. Breaks(spaces, pQ, e) => e > pQ + 11 /\ e \in spaces
  BY <1>1 DEF Breaks
<1>3. line = IF Breaks(spaces, pQ, e) THEN (IF pQ \in spaces THEN pQ + 1 ELSE pQ)..(e - 1)
             ELSE {p \in pQ..(pQ + LineLength - 1) : p < length}
  BY DEF NextLine, e
<1> HIDE DEF line
<1>4. /\ line \subseteq {p \in Nat : pQ <= p /\ p <= e /\ p < length}
      /\ \A p \in Nat : pQ <= p /\ p <= e /\ p < length => p \in spaces \/ p \in line
  <2>1. CASE Breaks(spaces, pQ, e)
    <3>1. CASE pQ \in spaces
      BY <1>1, <1>2, <1>3, <2>1, <3>1
    <3>2. CASE pQ \notin spaces
      BY <1>1, <1>2, <1>3, <2>1, <3>2
    <3> QED
      BY <3>1, <3>2
  <2>2. CASE ~Breaks(spaces, pQ, e)
    BY <1>1, <1>3, <2>2 DEF LineLength
  <2> QED
    BY <2>1, <2>2
<1>5. line \in SUBSET (pQ..(pQ + 15))
  BY <1>1, <1>4
<1>6. IsFiniteSet(pQ..(pQ + 15)) /\ Cardinality(pQ..(pQ + 15)) = 16
  <2> DEFINE to == pQ + 15
  <2>1. pQ \in Int /\ to \in Int /\ to >= pQ /\ to - pQ + 1 = 16
    OBVIOUS
  <2> HIDE DEF to
  <2>2. IsFiniteSet(pQ..to) /\ Cardinality(pQ..to) = IF pQ > to THEN 0 ELSE to - pQ + 1
    BY <2>1, FS_Interval
  <2>3. IsFiniteSet(pQ..to) /\ Cardinality(pQ..to) = 16
    BY <2>1, <2>2
  <2> QED
    BY <2>3 DEF to
<1>7. Cardinality(line) <= 16
  BY <1>5, <1>6, FS_Subset
<1> QED
  BY <1>1, <1>2, <1>4, <1>7 DEF LineIs, LineLength, e, line

\* What holds after k lines: there are no more of them, they follow each other, nothing
\* before pQ is missing but spaces, and each has taken 13 unless the text is through.
Lined(spaces, length, s, k) ==
    /\ s.pQ \in Nat /\ s.lines \in Seq(SUBSET Nat)
    /\ \A i \in 1..Len(s.lines) :
           /\ Cardinality(s.lines[i]) <= LineLength
           /\ \A p \in s.lines[i] : p < s.pQ /\ p < length
    /\ \A i, j \in 1..Len(s.lines) : i < j => \A p \in s.lines[i], q \in s.lines[j] : p < q
    /\ \A p \in Nat : p < s.pQ /\ p < length =>
           p \in spaces \/ \E i \in 1..Len(s.lines) : p \in s.lines[i]
    /\ s.pQ > length \/ (Len(s.lines) = k /\ s.pQ >= 13 * k)

\* One line more keeps them so.
LEMMA LinedOn ==
  ASSUME NEW spaces, NEW length \in Nat, NEW s \in [pQ : Nat, lines : Seq(SUBSET Nat)], NEW k \in Nat,
         Lined(spaces, length, s, k)
  PROVE  Lined(spaces, length, Break(spaces, length, s), k + 1)
<1>1. CASE s.pQ > length
  BY <1>1 DEF Lined, Break
<1>2. CASE s.pQ <= length
  <2> DEFINE e == LineEnd(spaces, length, s.pQ)
             line == NextLine(spaces, length, s.pQ)
             lines == Append(s.lines, line)
             n == Len(s.lines)
  <2>1. s.pQ \in Nat /\ s.lines \in Seq(SUBSET Nat) /\ n \in Nat
    BY DEF Lined
  <2>2. /\ e \in Nat /\ e <= length /\ (e >= s.pQ + 12 \/ e = length) /\ s.pQ <= e
        /\ line \subseteq {p \in Nat : s.pQ <= p /\ p <= e /\ p < length}
        /\ Cardinality(line) <= LineLength
        /\ \A p \in Nat : s.pQ <= p /\ p <= e /\ p < length => p \in spaces \/ p \in line
    <3>1. LineIs(spaces, length, s.pQ, e, line)
      BY <1>2, <2>1, NextLineIs
    <3> HIDE DEF e, line
    <3> QED
      BY <3>1 DEF LineIs
  <2>3. Break(spaces, length, s) = [pQ |-> e + 1, lines |-> lines]
    BY <1>2, <2>1 DEF Break
  <2> HIDE DEF e, line
  <2>4. line \in SUBSET Nat
    BY <2>2
  <2>5. /\ lines \in Seq(SUBSET Nat) /\ Len(lines) = n + 1
        /\ \A i \in 1..n : lines[i] = s.lines[i]
        /\ lines[n + 1] = line
    <3> DEFINE D == SUBSET Nat
    <3> HIDE DEF D
    <3>1. s.lines \in Seq(D) /\ line \in D
      BY <2>1, <2>4 DEF D
    <3>2. /\ lines \in Seq(D) /\ Len(lines) = n + 1
          /\ \A i \in 1..n : lines[i] = s.lines[i]
          /\ lines[n + 1] = line
      BY <3>1, AppendIs
    <3> QED
      BY <3>2 DEF D
  <2> HIDE DEF lines, n
  <2>6. /\ \A i \in 1..n : /\ Cardinality(s.lines[i]) <= LineLength
                           /\ \A p \in s.lines[i] : p < s.pQ /\ p < length
        /\ \A i, j \in 1..n : i < j => \A p \in s.lines[i], q \in s.lines[j] : p < q
        /\ \A p \in Nat : p < s.pQ /\ p < length => p \in spaces \/ \E i \in 1..n : p \in s.lines[i]
        /\ n = k /\ s.pQ >= 13 * k
        /\ \A i \in 1..n : s.lines[i] \subseteq Nat
    BY <1>2, <2>1 DEF Lined, n
  <2>7. \A i \in 1..(n + 1) : i \in 1..n \/ i = n + 1
    BY <2>1
  <2>8. ASSUME NEW i \in 1..(n + 1)
        PROVE  Cardinality(lines[i]) <= LineLength /\ \A p \in lines[i] : p < e + 1 /\ p < length
    <3>1. CASE i \in 1..n
      <4>1. lines[i] = s.lines[i] /\ s.lines[i] \subseteq Nat
        BY <2>5, <2>6, <3>1
      <4>2. \A p \in lines[i] : p < e + 1 /\ p < length
        BY <2>1, <2>2, <2>6, <3>1, <4>1
      <4> QED
        BY <2>6, <3>1, <4>1, <4>2
    <3>2. CASE i = n + 1
      BY <2>2, <2>5, <3>2
    <3> QED
      BY <2>7, <3>1, <3>2
  <2>9. ASSUME NEW i \in 1..(n + 1), NEW j \in 1..(n + 1), i < j, NEW p \in lines[i], NEW q \in lines[j]
        PROVE  p < q
    <3>1. i \in 1..n
      BY <2>1, <2>9
    <3>2. p \in s.lines[i] /\ p \in Nat /\ p < s.pQ
      BY <2>5, <2>6, <3>1
    <3>3. CASE j \in 1..n
      BY <2>5, <2>6, <2>9, <3>1, <3>2, <3>3
    <3>4. CASE j = n + 1
      <4>1. q \in Nat /\ s.pQ <= q
        BY <2>2, <2>5, <3>4
      <4> QED
        BY <2>1, <3>2, <4>1
    <3> QED
      BY <2>7, <3>3, <3>4
  <2>10. ASSUME NEW p \in Nat, p < e + 1, p < length
         PROVE  p \in spaces \/ \E i \in 1..(n + 1) : p \in lines[i]
    <3>1. CASE p < s.pQ
      <4>1. p \in spaces \/ \E i \in 1..n : p \in s.lines[i]
        BY <2>6, <2>10, <3>1
      <4>2. \A i \in 1..n : i \in 1..(n + 1) /\ lines[i] = s.lines[i]
        BY <2>1, <2>5
      <4> QED
        BY <4>1, <4>2
    <3>2. CASE s.pQ <= p
      <4>1. p \in spaces \/ p \in line
        BY <2>2, <2>10, <3>2
      <4>2. n + 1 \in 1..(n + 1)
        BY <2>1
      <4> QED
        BY <2>5, <4>1, <4>2
    <3> QED
      BY <2>1, <3>1, <3>2
  <2>11. e + 1 > length \/ (n + 1 = k + 1 /\ e + 1 >= 13 * (k + 1))
    BY <2>1, <2>2, <2>6
  <2>12. e + 1 \in Nat
    BY <2>2
  <2> DEFINE t == [pQ |-> e + 1, lines |-> lines]
  <2>13. t.pQ = e + 1 /\ t.lines = lines
    OBVIOUS
  <2> HIDE DEF t
  <2>14. Lined(spaces, length, t, k + 1)
    BY <2>5, <2>8, <2>9, <2>10, <2>11, <2>12, <2>13 DEF Lined
  <2> QED
    BY <2>3, <2>14 DEF t
<1> QED
  BY <1>1, <1>2 DEF Lined

\* What that loop has
Broke == [pQ : Nat, lines : Seq(SUBSET Nat)]

\* What the loop that breaks a text has after a line is of its kind, whatever it had
\* before.
LEMMA BreakIs ==
  ASSUME NEW spaces, NEW length \in Nat, NEW s \in Broke
  PROVE  Break(spaces, length, s) \in Broke
<1>1. CASE s.pQ > length
  BY <1>1 DEF Break
<1>2. CASE s.pQ <= length
  <2>1. LineIs(spaces, length, s.pQ, LineEnd(spaces, length, s.pQ), NextLine(spaces, length, s.pQ))
    BY <1>2, NextLineIs DEF Broke
  <2>2. LineEnd(spaces, length, s.pQ) + 1 \in Nat /\ NextLine(spaces, length, s.pQ) \in SUBSET Nat
    BY <2>1 DEF LineIs
  <2>3. Append(s.lines, NextLine(spaces, length, s.pQ)) \in Seq(SUBSET Nat)
    BY <2>2, AppendIs DEF Broke
  <2> QED
    BY <1>2, <2>2, <2>3 DEF Break, Broke
<1> QED
  BY <1>1, <1>2 DEF Broke

\* The lines a text is broken into
LEMMA BrokenIs ==
  ASSUME NEW spaces, NEW length \in Nat, NEW most \in Nat
  PROVE  \E s : Broken(spaces, length, most) = s.lines /\ Lined(spaces, length, s, most)
<1> DEFINE base == [pQ |-> 0, lines |-> <<>>]
           step == [n \in 1..most |-> [s \in Broke |-> Break(spaces, length, s)]]
           After(s) == [k \in 0..most |-> IF k = 0 THEN base ELSE Break(spaces, length, s[k - 1])]
<1>1. base \in Broke /\ step \in [1..most -> [Broke -> Broke]]
  <2>1. base \in Broke
    BY DEF Broke
  <2> QED
    BY <2>1, BreakIs
<1>2. \A n \in 1..most, s \in Broke : step[n][s] = Break(spaces, length, s)
  OBVIOUS
<1>3. PICK f : Values(f, most, Broke, base, step)
  <2> HIDE DEF step, base
  <2> QED
    BY <1>1, ValuesExist
<1> HIDE DEF step
<1>4. f \in [0..most -> Broke] /\ f[0] = base
  BY <1>3 DEF Values
<1>5. ASSUME NEW k \in 1..most
      PROVE  k - 1 \in 0..most /\ f[k] = Break(spaces, length, f[k - 1])
  <2>1. k - 1 \in 0..most /\ f[k - 1] \in Broke /\ f[k] = step[k][f[k - 1]]
    BY <1>3 DEF Values
  <2> QED
    BY <1>2, <2>1
<1>6. f = After(f)
  BY <1>4, <1>5
<1>7. PICK s : s = After(s) /\ Broken(spaces, length, most) = s[most].lines
  <2>1. \E s : s = After(s)
    BY <1>6
  <2> QED
    BY <2>1 DEF Broken
<1>8. s[0] = base /\ \A k \in 1..most : s[k] = Break(spaces, length, s[k - 1])
  BY <1>7
<1>9. s[0] \in Broke /\ Lined(spaces, length, s[0], 0)
  BY <1>1, <1>8 DEF Lined
<1> DEFINE T == {k \in 0..most : s[k] \in Broke /\ Lined(spaces, length, s[k], k)}
<1>10. 0 \in T
  BY <1>9
<1>11. ASSUME NEW k \in 1..most, k - 1 \in T PROVE k \in T
  <2>1. s[k - 1] \in Broke /\ Lined(spaces, length, s[k - 1], k - 1) /\ k - 1 \in Nat /\ k - 1 + 1 = k
    BY <1>11
  <2>2. Break(spaces, length, s[k - 1]) \in Broke
    BY <2>1, BreakIs
  <2>3. Lined(spaces, length, Break(spaces, length, s[k - 1]), k - 1 + 1)
    BY <2>1, LinedOn DEF Broke
  <2> QED
    BY <1>8, <2>1, <2>2, <2>3
<1>12. most \in T
  <2> HIDE DEF T
  <2>1. \A k \in 0..most : k \in T
    BY <1>10, <1>11, UpTo
  <2> QED
    BY <2>1
<1> QED
  BY <1>7, <1>12

\* The lines of a text fit, follow each other, and what they miss is spaces and what
\* comes behind them.
WellBroken(lines, spaces, length, most) ==
    LET missing == Missing(lines, spaces, length)
    IN /\ InLines(lines) /\ Len(lines) \in Nat
       /\ missing # {} => Len(lines) = most /\ length > 13 * most
       /\ \A p \in missing, q \in UNION Range(lines) : q < p

\* The lines of every text are such.
LEMMA LinesAre ==
  ASSUME NEW spaces, NEW length \in Nat, NEW most \in Nat
  PROVE  WellBroken(Broken(spaces, length, most), spaces, length, most)
<1> DEFINE lines == Broken(spaces, length, most)
           missing == Missing(lines, spaces, length)
<1>1. PICK s : lines = s.lines /\ Lined(spaces, length, s, most)
  BY BrokenIs
<1> HIDE DEF lines
<1>2. /\ s.pQ \in Nat /\ lines \in Seq(SUBSET Nat)
      /\ \A i \in 1..Len(lines) : /\ Cardinality(lines[i]) <= LineLength
                                  /\ \A p \in lines[i] : p < s.pQ /\ p < length
      /\ \A i, j \in 1..Len(lines) : i < j => \A p \in lines[i], q \in lines[j] : p < q
      /\ \A p \in Nat : p < s.pQ /\ p < length => p \in spaces \/ \E i \in 1..Len(lines) : p \in lines[i]
      /\ s.pQ > length \/ (Len(lines) = most /\ s.pQ >= 13 * most)
  BY <1>1 DEF Lined
<1>3. DOMAIN lines = 1..Len(lines) /\ Len(lines) \in Nat /\ \A i \in 1..Len(lines) : lines[i] \subseteq Nat
  BY <1>2
<1>4. InLines(lines)
  BY <1>2, <1>3 DEF InLines
<1>5. \A p \in UNION Range(lines) : p \in Nat /\ p < s.pQ
  BY <1>2, <1>3 DEF Range
<1>6. \A i \in 1..Len(lines) : lines[i] \subseteq UNION Range(lines)
  BY <1>3 DEF Range
<1>7. ASSUME NEW p \in missing PROVE p \in Nat /\ s.pQ <= p /\ p < length
  <2>1. p \in Nat /\ p < length /\ p \notin spaces /\ p \notin UNION Range(lines)
    BY DEF Missing
  <2> QED
    BY <1>2, <1>6, <2>1
<1>8. s.pQ \in Nat /\ (s.pQ > length \/ (Len(lines) = most /\ s.pQ >= 13 * most))
  BY <1>2, Zenon
<1> DEFINE pQ == s.pQ
<1>9. missing # {} => Len(lines) = most /\ length > 13 * most
  <2>1. SUFFICES ASSUME NEW p \in missing PROVE Len(lines) = most /\ length > 13 * most
    OBVIOUS
  <2>2. p \in Nat /\ pQ <= p /\ p < length /\ pQ \in Nat
    BY <1>7, <1>8, Zenon
  <2> HIDE DEF pQ
  <2>3. ~(pQ > length) /\ (pQ >= 13 * most => length > 13 * most)
    BY <2>2
  <2> QED
    BY <1>8, <2>3, Zenon DEF pQ
<1>10. ASSUME NEW p \in missing, NEW q \in UNION Range(lines) PROVE q < p
  <2>1. p \in Nat /\ q \in Nat /\ pQ \in Nat /\ pQ <= p /\ q < pQ
    BY <1>5, <1>7, <1>8, Zenon
  <2> HIDE DEF pQ
  <2> QED
    BY <2>1
<1> QED
  BY <1>3, <1>4, <1>9, <1>10 DEF WellBroken, lines

\* A message's lines are so broken and shown (vDisplayGsm).
LEMMA MessageIs ==
  ASSUME NEW spaces, NEW length \in Nat
  PROVE  MessageRight(spaces, length)
<1>1. MaxLines \in Nat /\ MaxLines * 13 = 13 * MaxLines
  BY DEF MaxLines
<1> QED
  BY <1>1, LinesAre DEF WellBroken, MessageRight, MessageShown

\* Where the lines of a comment are apart from the record and the bar
LEMMA CommentIs ==
  ASSUME NEW spaces, NEW length \in Nat
  PROVE  CommentRight(spaces, length)
<1> DEFINE lines == CommentShown(spaces, length)
           most == length \div 13 + 1
           k == Len(lines)
           missing == Missing(lines, spaces, length)
           Apart(tops, others) == \A t \in tops, o \in others : t + 8 <= o \/ o + 8 <= t
<1>1. most \in Nat /\ ~ (length > 13 * most)
  OBVIOUS
<1>2. InLines(lines) /\ k \in Nat /\ missing = {}
  <2> HIDE DEF most
  <2>1. lines = Broken(spaces, length, most)
    BY DEF CommentShown, most
  <2>2. WellBroken(lines, spaces, length, most)
    BY <1>1, <2>1, LinesAre
  <2> QED
    BY <1>1, <2>2 DEF WellBroken
<1> HIDE DEF lines, k, missing
<1>3. \A i \in 0..(k - 1) : 24 + 9 * i \in CommentTops(k)
  BY DEF CommentTops
<1>4. \A t \in CommentTops(k) : \E i \in 0..(k - 1) : t = 24 + 9 * i
  BY DEF CommentTops
<1>5. Apart(CommentTops(k), RecordTops(k)) <=> k \notin {7, 8}
  <2>1. CASE k > 8
    BY <1>2, <2>1 DEF RecordTops
  <2>2. CASE k = 7 \/ k = 8
    <3>1. 24 + 9 * 6 \in CommentTops(k) /\ 77 \in RecordTops(k)
      BY <1>2, <1>3, <2>2 DEF RecordTops
    <3> QED
      BY <2>2, <3>1
  <2>3. CASE k <= 6
    <3>1. \A t \in CommentTops(k) : t \in Nat /\ t <= 69
      BY <1>2, <1>4, <2>3
    <3>2. RecordTops(k) = {77, 86, 95}
      BY <1>2, <2>3 DEF RecordTops
    <3> QED
      BY <1>2, <2>3, <3>1, <3>2
  <2> QED
    BY <1>2, <2>1, <2>2, <2>3
<1>6. Apart(CommentTops(k), {BottomBar}) <=> k < 10
  <2>1. CASE k < 10
    <3>1. \A t \in CommentTops(k) : t \in Nat /\ t <= 96
      BY <1>2, <1>4, <2>1
    <3> QED
      BY <2>1, <3>1 DEF BottomBar
  <2>2. CASE k >= 10
    <3>1. 24 + 9 * 9 \in CommentTops(k)
      BY <1>2, <1>3, <2>2
    <3> QED
      BY <1>2, <2>2, <3>1 DEF BottomBar
  <2> QED
    BY <1>2, <2>1, <2>2
<1> QED
  BY <1>2, <1>5, <1>6 DEF CommentRight, lines, k, missing

\* For every value, text and colour: the scales and LEDs show their values, slanted lines
\* are straight and circles round whatever their ends and radius, and a text's characters
\* are all on its lines, in their order, but spaces and those behind the last line there is
\* room for (vUpdateScales, vDrawScale, vSetIndicator, vSetRGBled, by1351_DrawLine,
\* by1351_DrawCircle, vDisplayGsm, vDisplayAprsList).
THEOREM IndicatorsAreRight == Computing => []IndicatorsShowValues
<1>1. ASSUME input \in Inputs \union {Through} PROVE IndicatorsShowValues
  <2>1. CASE input.of = "curves"
    <3>1. input \in OfCurves
      BY <1>1, <2>1, InputsAre
    <3>2. CurvesRight(input.value)
      BY <3>1, CurvesAre DEF OfCurves
    <3> QED
      BY <2>1, <3>2 DEF IndicatorsShowValues
  <2>2. CASE input.of = "scale"
    <3>1. input \in OfScale
      BY <1>1, <2>2, InputsAre
    <3>2. input.scale \in DOMAIN Scales /\ input.value \in Nat
      BY <3>1, Zenon DEF OfScale
    <3>3. ScaleRight(Scales[input.scale], input.value)
      BY <3>2, ScaleIs
    <3> QED
      BY <2>2, <3>3 DEF IndicatorsShowValues
  <2>3. CASE input.of = "indicator"
    <3>1. input \in OfIndicator
      BY <1>1, <2>3, InputsAre
    <3>2. IndicatorRight(input.colour, input.contrast)
      BY <3>1, IndicatorIs DEF OfIndicator
    <3> QED
      BY <2>3, <3>2 DEF IndicatorsShowValues
  <2>4. CASE input.of = "led"
    <3>1. input \in OfLed
      BY <1>1, <2>4, InputsAre
    <3>2. /\ input.r \in Nat /\ input.g \in Nat /\ input.b \in Nat
          /\ input.r < 256 /\ input.g < 256 /\ input.b < 256
      BY <3>1 DEF OfLed
    <3>3. LedRight(input.r, input.g, input.b)
      BY <3>2, LedIs
    <3> QED
      BY <2>4, <3>3 DEF IndicatorsShowValues
  <2>5. CASE input.of = "message" \/ input.of = "comment"
    <3>1. input \in OfText
      BY <1>1, <2>5, InputsAre
    <3>2. input.text.length \in Nat
      BY <3>1 DEF OfText, Texts
    <3>3. /\ MessageRight(input.text.spaces, input.text.length)
          /\ CommentRight(input.text.spaces, input.text.length)
      BY <3>2, MessageIs, CommentIs
    <3> QED
      BY <2>5, <3>3 DEF IndicatorsShowValues
  <2>6. CASE input.of = "line"
    <3>1. input \in OfLine
      BY <1>1, <2>6, InputsAre
    <3>2. /\ input.x1 \in Int /\ input.y1 \in Int /\ input.x2 \in Int /\ input.y2 \in Int
          /\ input.x1 # input.x2 /\ input.y1 # input.y2
      BY <3>1 DEF OfLine
    <3>3. StraightLine(input.x1, input.y1, input.x2, input.y2)
      BY <3>2, LineKeepsStraight
    <3> QED
      BY <2>6, <3>3 DEF IndicatorsShowValues
  <2>7. CASE input.of = "circle"
    <3>1. input \in OfCircle
      BY <1>1, <2>7, InputsAre
    <3>2. RoundCircle(input.r)
      BY <3>1, CircleKeepsRound DEF OfCircle
    <3> QED
      BY <2>7, <3>2 DEF IndicatorsShowValues
  <2> QED
    BY <2>1, <2>2, <2>3, <2>4, <2>5, <2>6, <2>7 DEF IndicatorsShowValues
<1>2. input \in Inputs \union {Through} /\ [Computed]_input => (input \in Inputs \union {Through})'
  BY DEF Computed
<1> QED
  BY <1>1, <1>2, PTL DEF Computing

-----------------------------------------------------------------------------
(* The age of a station                                                    *)

\* The digits of a clock, read as a number, run ahead of it.
LEMMA ClockIs ==
  ASSUME NEW s \in Nat, s < 86400
  PROVE  uiGpsTime(s) = s + 40 * (s \div 60) + 4000 * (s \div 3600)
<1>1. s % 86400 = s
  OBVIOUS
<1>2. /\ (s \div 60) % 60 = s \div 60 - 60 * (s \div 3600)
      /\ s % 60 = s - 60 * (s \div 60)
  OBVIOUS
<1> QED
  BY <1>1, <1>2 DEF uiGpsTime

\* Of more ages there are not fewer.
LEMMA AgesAre ==
  ASSUME NEW P, NEW Q, P \in SUBSET Ages, Q \in SUBSET Ages, P \subseteq Q
  PROVE  Cardinality(Q) \in Nat /\ Cardinality(P) \in Nat /\ Cardinality(Q) >= Cardinality(P)
<1>1. IsFiniteSet(Ages)
  <2>1. Ages \in SUBSET Nat /\ \A a \in Ages : a <= 180
    BY DEF Ages
  <2> QED
    BY <2>1, FS_BoundedSetOfNaturals
<1>2. IsFiniteSet(Q) /\ IsFiniteSet(P)
  BY <1>1, FS_Subset
<1>3. Cardinality(P) <= Cardinality(Q)
  BY <1>2, FS_Subset
<1>4. Cardinality(Q) \in Nat /\ Cardinality(P) \in Nat
  BY <1>2, FS_CardinalityType
<1> QED
  BY <1>3, <1>4

\* A station heard at some second of a day, as it is shown later: the digits run ahead at
\* every minute and hour, so it may seem older, and never younger; behind midnight the
\* difference is huge.
LEMMA AgeIs ==
  ASSUME NEW heard \in Nat, NEW passed \in Nat, heard < 86400, passed < 86400
  PROVE  AgeShown(heard, passed)
<1> DEFINE now == uiGpsTime(heard + passed)
           uiTime == uiGpsTime(heard)
           t == heard + passed
           older == {a \in Ages : a <= passed}
           coloured == {a \in Ages : ~Younger(now, uiTime, a)}
<1>1. uiTime = heard + 40 * (heard \div 60) + 4000 * (heard \div 3600)
  BY ClockIs
<1>2. t < 86400 => now = t + 40 * (t \div 60) + 4000 * (t \div 3600)
  BY ClockIs
<1>3. t >= 86400 => now < uiTime /\ now \in Nat
  <2>1. SUFFICES ASSUME t >= 86400 PROVE now < uiTime /\ now \in Nat
    OBVIOUS
  <2> DEFINE u == t - 86400
  <2>2. u \in Nat /\ u < heard /\ u < 86400 /\ t % 86400 = u % 86400
    BY <2>1
  <2>3. now = uiGpsTime(u)
    BY <2>2 DEF uiGpsTime
  <2> HIDE DEF u, now, uiTime
  <2>4. now = u + 40 * (u \div 60) + 4000 * (u \div 3600)
    BY <2>2, <2>3, ClockIs
  <2> QED
    BY <1>1, <2>2, <2>4
<1> HIDE DEF now, uiTime
<1>4. t \in Nat /\ now \in Nat /\ uiTime \in Nat /\ \A a \in Ages : a \in Nat
  BY <1>1, <1>2, <1>3 DEF Ages
<1>5. older \subseteq coloured
  <2>1. ASSUME NEW a \in Ages, a <= passed PROVE ~Younger(now, uiTime, a)
    BY <1>1, <1>2, <1>3, <1>4, <2>1 DEF Younger
  <2> QED
    BY <2>1
<1>6. t \div 60 = heard \div 60 => older = coloured
  <2>1. SUFFICES ASSUME t \div 60 = heard \div 60 PROVE older = coloured
    OBVIOUS
  <2>2. t < 86400 /\ t \div 3600 = heard \div 3600
    BY <2>1
  <2>3. now - uiTime = passed
    BY <1>1, <1>2, <2>1, <2>2
  <2>4. ASSUME NEW a \in Ages PROVE a <= passed <=> ~Younger(now, uiTime, a)
    BY <1>4, <2>3 DEF Younger
  <2> QED
    BY <2>4
<1>7. IsCounted(now, uiTime) => passed < APRS_STALE
  <2>1. t < 86400 => now - uiTime >= passed
    BY <1>1, <1>2
  <2> QED
    BY <1>3, <1>4, <2>1 DEF IsCounted, Younger, APRS_STALE
<1>8. Cardinality(coloured) >= Cardinality(older)
  <2>1. older \in SUBSET Ages /\ coloured \in SUBSET Ages
    OBVIOUS
  <2> HIDE DEF older, coloured
  <2> QED
    BY <1>5, <2>1, AgesAre
<1>9. AgeColour(now, uiTime) = Cardinality(coloured)
  BY DEF AgeColour
<1> HIDE DEF older, coloured
<1> QED
  BY <1>6, <1>7, <1>8, <1>9 DEF AgeShown, now, uiTime, older

-----------------------------------------------------------------------------
(* The knob in the list of stations, and the rows of its screen            *)

\* The list's size, and the bytes uiStation may be: as bounds, not as a set to go through
LEMMA ListIs == ListSize \in Nat /\ 2 <= ListSize /\ ListSize <= 255
BY ListAssumption

LEMMA StationIs == \A s : s \in Station <=> s \in Nat /\ s <= 255
<1> DEFINE n == 255
<1>1. n \in Nat /\ n = 255 /\ Station = 0..n
  BY DEF Station
<1> HIDE DEF n
<1>2. \A s : s \in 0..n <=> s \in Nat /\ s <= n
  BY <1>1
<1> QED
  BY <1>1, <1>2

\* The stations are the entries behind the empty ones.
LEMMA InStations ==
  ASSUME NEW E \in Nat, NEW s \in Nat
  PROVE  s \in Stations(E) <=> s < ListSize /\ s >= E
BY ListIs DEF Stations, Entries

\* To the right: the entry itself, or the first behind the empty ones
LEMMA UpIs ==
  ASSUME NEW E \in Nat, E <= ListSize, NEW up,
         up = [s \in Station |-> IF s >= ListSize \/ s \in Stations(E) THEN s ELSE up[s + 1]]
  PROVE  \A s \in Station : up[s] = IF s >= E THEN s ELSE E
<1> DEFINE T == {n \in 0..E : up[E - n] = E}
<1>1. ASSUME NEW s \in Nat, s <= 255
      PROVE  up[s] = IF s >= E THEN s ELSE up[s + 1]
  <2>1. s \in Station
    BY <1>1, StationIs
  <2>2. up[s] = IF s >= ListSize \/ s \in Stations(E) THEN s ELSE up[s + 1]
    BY <2>1
  <2> QED
    BY <1>1, <2>2, ListIs, InStations
<1>2. 0 \in T
  BY <1>1, ListIs
<1>3. ASSUME NEW n \in 1..E, n - 1 \in T PROVE n \in T
  <2>1. up[E - (n - 1)] = E
    BY <1>3
  <2>2. E - n \in Nat /\ E - n <= 255 /\ ~ (E - n >= E) /\ E - n + 1 = E - (n - 1)
    BY ListIs
  <2> QED
    BY <1>1, <2>1, <2>2
<1>4. \A n \in 0..E : n \in T
  <2> HIDE DEF T
  <2> QED
    BY <1>2, <1>3, UpTo
<1>5. ASSUME NEW s \in Station PROVE up[s] = IF s >= E THEN s ELSE E
  <2>1. s \in Nat /\ s <= 255
    BY StationIs
  <2>2. CASE s >= E
    BY <1>1, <2>1, <2>2
  <2>3. CASE s < E
    <3>1. E - s \in T
      BY <1>4, <2>1, <2>3
    <3>2. E - (E - s) = s
      BY <2>1
    <3> QED
      BY <2>1, <2>3, <3>1, <3>2
  <2> QED
    BY <2>1, <2>2, <2>3
<1> QED
  BY <1>5

\* Where a turn to the right goes: behind that entry, or to the begin of the list
LEMMA RightIs ==
  ASSUME NEW E \in Nat, E <= ListSize, NEW x \in Nat, x <= 255
  PROVE  StationRight(Stations(E), x)
         = LET s == IF x >= E THEN x ELSE E IN IF s + 1 >= ListSize THEN 0 ELSE s + 1
<1> DEFINE Up(up) == [s \in Station |-> IF s >= ListSize \/ s \in Stations(E) THEN s ELSE up[s + 1]]
           closed == [s \in Station |-> IF s >= E THEN s ELSE E]
<1>1. closed = Up(closed)
  <2>1. ASSUME NEW s \in Station PROVE closed[s] = Up(closed)[s]
    <3>1. s \in Nat /\ s <= 255 /\ (s < E => s + 1 \in Station)
      BY ListIs, StationIs
    <3> QED
      BY <3>1, ListIs, InStations
  <2> QED
    BY <2>1
<1>2. PICK up : /\ up = Up(up)
                /\ StationRight(Stations(E), x) = IF up[x] + 1 >= ListSize THEN 0 ELSE up[x] + 1
  <2>1. \E up : up = Up(up)
    BY <1>1
  <2> QED
    BY <2>1 DEF StationRight
<1>3. x \in Station
  BY StationIs
<1>4. up[x] = IF x >= E THEN x ELSE E
  BY <1>2, <1>3, UpIs
<1> QED
  BY <1>2, <1>4

\* To the left: the entry itself, the begin of the list, or behind it
LEMMA DownIs ==
  ASSUME NEW E \in Nat, E <= ListSize, NEW down,
         down = [s \in Station |-> IF s >= ListSize \/ s \in Stations(E) THEN s
                                   ELSE IF s = 1 THEN 0 ELSE down[(s + 255) % 256]]
  PROVE  \A s \in Station : down[s] = IF s >= E THEN s ELSE IF s = 0 THEN 255 ELSE 0
<1>1. ASSUME NEW s \in Nat, s <= 255
      PROVE  down[s] = IF s >= E THEN s ELSE IF s = 1 THEN 0
                       ELSE IF s = 0 THEN down[255] ELSE down[s - 1]
  <2>1. s \in Station
    BY <1>1, StationIs
  <2> DEFINE Body(t) == IF t >= ListSize \/ t \in Stations(E) THEN t
                        ELSE IF t = 1 THEN 0 ELSE down[(t + 255) % 256]
  <2>2. down[s] = Body(s)
    <3>1. down = [t \in Station |-> Body(t)]
      OBVIOUS
    <3> HIDE DEF Body
    <3> QED
      BY <2>1, <3>1
  <2>3. (s + 255) % 256 = IF s = 0 THEN 255 ELSE s - 1
    BY <1>1
  <2>4. down[(s + 255) % 256] = IF s = 0 THEN down[255] ELSE down[s - 1]
    BY <2>3
  <2> HIDE DEF Station
  <2> QED
    BY <1>1, <2>2, <2>4, ListIs, InStations
<1>2. CASE E = 0
  <2>1. ASSUME NEW s \in Station PROVE down[s] = s /\ s >= E
    BY <1>1, <1>2, StationIs
  <2> QED
    BY <2>1
<1>3. CASE E > 0
  <2> DEFINE T == {n \in 0..(E - 1) : down[n] = IF n = 0 THEN 255 ELSE 0}
  <2>1. 0 \in T
    <3>1. down[0] = down[255]
      <4>1. 0 \in Nat /\ 0 <= 255 /\ ~ (0 >= E)
        BY <1>3
      <4> QED
        BY <1>1, <4>1
    <3>2. down[255] = 255
      BY <1>1, ListIs
    <3> QED
      BY <1>3, <3>1, <3>2
  <2>2. ASSUME NEW n \in 1..(E - 1), n - 1 \in T PROVE n \in T
    <3>1. n \in Nat /\ n <= 255 /\ n < E /\ n > 0
      BY ListIs
    <3> QED
      BY <1>1, <2>2, <3>1
  <2>3. \A n \in 0..(E - 1) : n \in T
    <3>1. E - 1 \in Nat
      BY <1>3
    <3> HIDE DEF T
    <3> QED
      BY <2>1, <2>2, <3>1, UpTo
  <2>4. ASSUME NEW s \in Station PROVE down[s] = IF s >= E THEN s ELSE IF s = 0 THEN 255 ELSE 0
    <3>1. s \in Nat /\ s <= 255
      BY StationIs
    <3>2. CASE s >= E
      BY <1>1, <3>1, <3>2
    <3>3. CASE s < E
      <4>1. s \in 0..(E - 1)
        BY <3>1, <3>3
      <4>2. s \in T
        BY <2>3, <4>1
      <4> QED
        BY <3>1, <3>3, <4>2
    <3> QED
      BY <3>1, <3>2, <3>3
  <2> QED
    BY <2>4
<1> QED
  BY <1>2, <1>3

\* Where a turn to the left goes: to a station, to entry 0, or from an empty entry 0 out
\* of the list
LEMMA LeftIs ==
  ASSUME NEW E \in Nat, E <= ListSize, NEW x \in Nat, x <= 255
  PROVE  StationLeft(Stations(E), x)
         = LET s == IF x > 0 THEN x - 1 ELSE ListSize - 1
           IN IF s >= E THEN s ELSE IF s = 0 THEN 255 ELSE 0
<1> DEFINE Down(down) == [s \in Station |-> IF s >= ListSize \/ s \in Stations(E) THEN s
                                            ELSE IF s = 1 THEN 0 ELSE down[(s + 255) % 256]]
           closed == [s \in Station |-> IF s >= E THEN s ELSE IF s = 0 THEN 255 ELSE 0]
           y == IF x > 0 THEN x - 1 ELSE ListSize - 1
<1>1. closed = Down(closed)
  <2>1. ASSUME NEW s \in Station PROVE closed[s] = Down(closed)[s]
    <3>1. s \in Nat /\ s <= 255
      BY StationIs
    <3>2. (s + 255) % 256 = IF s = 0 THEN 255 ELSE s - 1
      BY <3>1
    <3>3. (s + 255) % 256 \in Station
      BY <3>1, <3>2 DEF Station
    <3> QED
      BY <3>1, <3>2, <3>3, ListIs, InStations
  <2> QED
    BY <2>1
<1>2. PICK down : down = Down(down) /\ StationLeft(Stations(E), x) = down[y]
  <2>1. \E down : down = Down(down)
    BY <1>1
  <2> QED
    BY <2>1 DEF StationLeft
<1>3. y \in Station
  BY ListIs, StationIs
<1>4. down[y] = IF y >= E THEN y ELSE IF y = 0 THEN 255 ELSE 0
  <2>1. \A s \in Station : down[s] = IF s >= E THEN s ELSE IF s = 0 THEN 255 ELSE 0
    BY <1>2, DownIs
  <2> HIDE DEF y
  <2> QED
    BY <1>3, <2>1
<1> QED
  BY <1>2, <1>4

\* So StaysInList holds for every entry and any number of empty ones.
LEMMA TurnsStayInList ==
  ASSUME NEW E \in Nat, E <= ListSize, NEW x \in Nat, x < ListSize
  PROVE  StaysInList(E, x)
<1>1. x <= 255 /\ ListSize \in Nat /\ 2 <= ListSize /\ ListSize <= 255
  BY ListIs
<1> DEFINE left == StationLeft(Stations(E), x)
           right == StationRight(Stations(E), x)
           y == IF x > 0 THEN x - 1 ELSE ListSize - 1
<1>2. left = IF y >= E THEN y ELSE IF y = 0 THEN 255 ELSE 0
  BY <1>1, LeftIs
<1>3. right = LET s == IF x >= E THEN x ELSE E IN IF s + 1 >= ListSize THEN 0 ELSE s + 1
  BY <1>1, RightIs
<1> HIDE DEF left, right
<1>4. right \in Entries
  BY <1>1, <1>3 DEF Entries
<1>5. y \in Nat /\ y < ListSize /\ (y = 0 <=> x = 1)
  BY <1>1
<1> HIDE DEF y
<1>6. y \in Stations(E) <=> y >= E
  BY <1>5, InStations
<1>7. x = 1 /\ E > 0 => left \notin Entries
  BY <1>1, <1>2, <1>5 DEF Entries
<1>8. ~ (x = 1 /\ E > 0) => left \in Stations(E) \union {0}
  BY <1>1, <1>2, <1>5, <1>6
<1> QED
  BY <1>4, <1>7, <1>8 DEF StaysInList, left, right

\* Turns, one after the other
LEMMA TurnsOf ==
  ASSUME NEW turn \in [Station -> Station]
  PROVE  \E f \in [0..ListSize -> Station] :
             f[0] = 0 /\ \A n \in 1..ListSize : n - 1 \in 0..ListSize /\ f[n] = turn[f[n - 1]]
<1> DEFINE step == [n \in 1..ListSize |-> turn]
<1>1. 0 \in Station /\ step \in [1..ListSize -> [Station -> Station]]
  BY StationIs
<1>2. \A n \in 1..ListSize : step[n] = turn
  OBVIOUS
<1> HIDE DEF step
<1>3. PICK f : Values(f, ListSize, Station, 0, step)
  BY <1>1, ListIs, ValuesExist
<1>4. f \in [0..ListSize -> Station] /\ f[0] = 0
  BY <1>3 DEF Values
<1>5. ASSUME NEW n \in 1..ListSize PROVE n - 1 \in 0..ListSize /\ f[n] = turn[f[n - 1]]
  BY <1>2, <1>3, ListIs DEF Values
<1> QED
  BY <1>4, <1>5

\* To the right behind the first station and on to the end of the list, and never to
\* the first station behind empty entries
LEMMA TurnsRight ==
  ASSUME NEW E \in Nat, E <= ListSize
  PROVE  Stations(E) \ Shown(StationRight, Stations(E)) = IF E > 0 THEN {E} \intersect Entries ELSE {}
<1> DEFINE Right(x) == LET s == IF x >= E THEN x ELSE E IN IF s + 1 >= ListSize THEN 0 ELSE s + 1
           turn == [x \in Station |-> StationRight(Stations(E), x)]
           After(f) == [n \in 0..ListSize |-> IF n = 0 THEN 0 ELSE StationRight(Stations(E), f[n - 1])]
<1>1. ASSUME NEW x \in Station
      PROVE  StationRight(Stations(E), x) = Right(x) /\ Right(x) \in Station
  <2>1. x \in Nat /\ x <= 255
    BY StationIs
  <2>2. StationRight(Stations(E), x) = Right(x)
    BY <2>1, RightIs
  <2>3. Right(x) \in Station
    BY <2>1, ListIs, StationIs
  <2> QED
    BY <2>2, <2>3
<1>2. turn \in [Station -> Station] /\ \A x \in Station : turn[x] = StationRight(Stations(E), x)
  BY <1>1
<1> HIDE DEF turn
<1>3. PICK f \in [0..ListSize -> Station] :
           f[0] = 0 /\ \A n \in 1..ListSize : n - 1 \in 0..ListSize /\ f[n] = turn[f[n - 1]]
  BY <1>2, TurnsOf
<1>4. f = After(f)
  BY <1>2, <1>3, ListIs
<1>5. PICK after : /\ after = After(after)
                   /\ Shown(StationRight, Stations(E)) = {after[n] : n \in 0..ListSize}
  <2>1. \E g : g = After(g)
    BY <1>4
  <2> QED
    BY <2>1 DEF Shown
<1>6. after[0] = 0 /\ \A n \in 1..ListSize : after[n] = StationRight(Stations(E), after[n - 1])
  BY <1>5, ListIs
<1> DEFINE T == {n \in 0..ListSize : /\ after[n] \in Station /\ (E > 0 => after[n] # E)
                                     /\ n < ListSize - E => after[n] = IF n = 0 THEN 0 ELSE E + n}
<1>7. \A n \in 0..ListSize : n \in T
  <2>1. 0 \in T
    <3>1. 0 \in Station /\ 0 \in 0..ListSize
      BY ListIs, StationIs
    <3> QED
      BY <1>6, <3>1
  <2>2. ASSUME NEW n \in 1..ListSize, n - 1 \in T PROVE n \in T
    <3>1. n \in Nat /\ n >= 1 /\ n - 1 \in Nat
      BY ListIs
    <3>2. /\ after[n - 1] \in Station
          /\ n - 1 < ListSize - E => after[n - 1] = IF n - 1 = 0 THEN 0 ELSE E + (n - 1)
      BY <2>2
    <3>3. after[n] = StationRight(Stations(E), after[n - 1])
      BY <1>6
    <3>4. after[n] = Right(after[n - 1]) /\ after[n] \in Station
      <4> HIDE DEF Right
      <4> QED
        BY <1>1, <3>2, <3>3
    <3>5. /\ after[n - 1] \in Station /\ after[n] = Right(after[n - 1]) /\ after[n] \in Station
          /\ n - 1 < ListSize - E => after[n - 1] = IF n = 1 THEN 0 ELSE E + n - 1
          /\ n \in Nat /\ n >= 1
      <4> HIDE DEF Right
      <4> QED
        BY <3>1, <3>2, <3>4
    <3>6. after[n - 1] \in Nat
      BY <3>5, StationIs
    <3>7. E > 0 => after[n] # E
      BY <3>5, <3>6, ListIs
    <3>8. n < ListSize - E => after[n] = E + n
      BY <3>5, <3>6, ListIs
    <3> QED
      BY <3>5, <3>7, <3>8
  <2> HIDE DEF T
  <2> QED
    BY <2>1, <2>2, ListIs, UpTo
<1>8. \A n \in 0..ListSize : /\ E > 0 => after[n] # E
                             /\ n < ListSize - E => after[n] = IF n = 0 THEN 0 ELSE E + n
  BY <1>7
<1> HIDE DEF T
<1> DEFINE shown == {after[n] : n \in 0..ListSize}
<1>9. E > 0 => E \notin shown
  BY <1>8, Zenon
<1>10. ASSUME NEW s \in Stations(E), E = 0 \/ s # E PROVE s \in shown
  <2>1. s \in Nat /\ s < ListSize /\ s >= E
    BY ListIs DEF Stations, Entries
  <2>2. s - E \in 0..ListSize /\ s - E < ListSize - E /\ (s - E = 0 => s = 0)
    BY <1>10, <2>1, ListIs
  <2>3. after[s - E] = s
    BY <1>8, <2>1, <2>2
  <2> QED
    BY <2>2, <2>3
<1>11. Stations(E) \subseteq Entries /\ (E \in Entries => E \in Stations(E))
  BY ListIs DEF Stations, Entries
<1> HIDE DEF shown
<1>12. CASE E > 0
  BY <1>5, <1>9, <1>10, <1>11, <1>12 DEF shown
<1>13. CASE E = 0
  BY <1>5, <1>10, <1>13 DEF shown
<1> QED
  BY <1>12, <1>13

\* To the left from the end of the list to the first station
LEMMA TurnsLeft ==
  ASSUME NEW E \in Nat, E <= ListSize
  PROVE  Stations(E) \subseteq Shown(StationLeft, Stations(E))
<1> DEFINE y(x) == IF x > 0 THEN x - 1 ELSE ListSize - 1
           Left(x) == IF y(x) >= E THEN y(x) ELSE IF y(x) = 0 THEN 255 ELSE 0
           turn == [x \in Station |-> StationLeft(Stations(E), x)]
           After(f) == [n \in 0..ListSize |-> IF n = 0 THEN 0 ELSE StationLeft(Stations(E), f[n - 1])]
<1>1. ASSUME NEW x \in Station
      PROVE  StationLeft(Stations(E), x) = Left(x) /\ Left(x) \in Station
  <2>1. x \in Nat /\ x <= 255
    BY StationIs
  <2>2. StationLeft(Stations(E), x) = Left(x)
    BY <2>1, LeftIs
  <2>3. Left(x) \in Station
    BY <2>1, ListIs, StationIs
  <2> QED
    BY <2>2, <2>3
<1>2. turn \in [Station -> Station] /\ \A x \in Station : turn[x] = StationLeft(Stations(E), x)
  BY <1>1
<1> HIDE DEF turn
<1>3. PICK f \in [0..ListSize -> Station] :
           f[0] = 0 /\ \A n \in 1..ListSize : n - 1 \in 0..ListSize /\ f[n] = turn[f[n - 1]]
  BY <1>2, TurnsOf
<1>4. f = After(f)
  BY <1>2, <1>3, ListIs
<1>5. PICK after : /\ after = After(after)
                   /\ Shown(StationLeft, Stations(E)) = {after[n] : n \in 0..ListSize}
  <2>1. \E g : g = After(g)
    BY <1>4
  <2> QED
    BY <2>1 DEF Shown
<1>6. after[0] = 0 /\ \A n \in 1..ListSize : after[n] = StationLeft(Stations(E), after[n - 1])
  BY <1>5, ListIs
<1> DEFINE N == ListSize - E
           T == {n \in 0..N : after[n] = IF n = 0 THEN 0 ELSE ListSize - n}
<1>7. \A n \in 0..N : n \in T
  <2>1. 0 \in T /\ N \in Nat
    BY <1>6, ListIs
  <2>2. ASSUME NEW n \in 1..N, n - 1 \in T PROVE n \in T
    <3>1. /\ after[n - 1] = IF n - 1 = 0 THEN 0 ELSE ListSize - (n - 1)
          /\ n \in Nat /\ 1 <= n /\ n <= ListSize - E /\ n \in 1..ListSize
      BY <2>2, ListIs
    <3>2. after[n - 1] \in Nat /\ after[n - 1] <= 255
      BY <3>1, ListIs
    <3>3. after[n] = Left(after[n - 1])
      BY <1>1, <1>6, <3>1, <3>2, StationIs
    <3>4. y(after[n - 1]) = ListSize - n
      BY <3>1, <3>2, ListIs
    <3>5. after[n] = ListSize - n
      BY <3>1, <3>3, <3>4, ListIs
    <3> QED
      BY <3>1, <3>5
  <2> HIDE DEF T, N
  <2> QED
    BY <2>1, <2>2, UpTo
<1>8. ASSUME NEW s \in Stations(E) PROVE \E n \in 0..ListSize : after[n] = s
  <2>1. s \in Nat /\ s < ListSize /\ s >= E
    BY ListIs DEF Stations, Entries
  <2>2. ListSize - s \in 0..N /\ ListSize - s \in 0..ListSize /\ ListSize - s # 0 /\ ListSize - (ListSize - s) = s
    BY <2>1, ListIs
  <2>3. after[ListSize - s] = s
    BY <1>7, <2>2
  <2> QED
    BY <2>2, <2>3
<1> QED
  BY <1>5, <1>8

\* The rows after n entries: of the stations among them the first eight
RowsAfter(E, n, rows) ==
    /\ rows \in Seq(Nat)
    /\ Len(rows) = IF n <= E THEN 0 ELSE IF n - E < 8 THEN n - E ELSE 8
    /\ \A k \in 1..Len(rows) : rows[k] = E + k - 1

\* The next entry keeps them so.
LEMMA RowsOn ==
  ASSUME NEW E \in Nat, NEW n \in Nat, n >= 1, n <= ListSize, NEW rows, RowsAfter(E, n - 1, rows)
  PROVE  RowsAfter(E, n, IF n - 1 \in Stations(E) /\ Len(rows) < 8 THEN Append(rows, n - 1) ELSE rows)
<1>1. n - 1 \in Stations(E) <=> n > E
  BY ListIs, InStations
<1>2. /\ rows \in Seq(Nat) /\ Len(rows) \in Nat
      /\ Len(rows) = IF n - 1 <= E THEN 0 ELSE IF n - 1 - E < 8 THEN n - 1 - E ELSE 8
      /\ \A k \in 1..Len(rows) : rows[k] = E + k - 1
  BY DEF RowsAfter
<1>3. CASE n > E /\ Len(rows) < 8
  <2> DEFINE more == Append(rows, n - 1)
             m == Len(rows)
  <2>1. m = n - 1 - E /\ n - 1 \in Nat
    BY <1>2, <1>3
  <2>2. more \in Seq(Nat) /\ Len(more) = m + 1 /\ (\A k \in 1..m : more[k] = rows[k]) /\ more[m + 1] = n - 1
    <3> DEFINE e == n - 1
    <3>1. rows \in Seq(Nat) /\ e \in Nat /\ more = Append(rows, e)
      BY <1>2, <2>1
    <3> HIDE DEF e, more
    <3>2. /\ more \in Seq(Nat) /\ Len(more) = Len(rows) + 1 /\ more[Len(rows) + 1] = e
          /\ \A k \in 1..Len(rows) : more[k] = rows[k]
      BY <3>1, AppendIs
    <3> QED
      BY <3>2, Zenon DEF e
  <2> HIDE DEF more, m
  <2>3. ASSUME NEW k \in 1..(m + 1) PROVE more[k] = E + k - 1
    <3>1. CASE k \in 1..m
      BY <1>2, <2>2, <3>1 DEF m
    <3>2. CASE k = m + 1
      BY <2>1, <2>2, <3>2
    <3> QED
      BY <1>2, <3>1, <3>2 DEF m
  <2>4. m + 1 = IF n <= E THEN 0 ELSE IF n - E < 8 THEN n - E ELSE 8
    BY <1>3, <2>1 DEF m
  <2>5. RowsAfter(E, n, more)
    BY <2>2, <2>3, <2>4 DEF RowsAfter
  <2> QED
    BY <1>1, <1>3, <2>5 DEF more
<1>4. CASE ~ (n > E /\ Len(rows) < 8)
  <2>1. Len(rows) = IF n <= E THEN 0 ELSE IF n - E < 8 THEN n - E ELSE 8
    BY <1>2, <1>4
  <2>2. RowsAfter(E, n, rows)
    BY <1>2, <2>1 DEF RowsAfter
  <2> QED
    BY <1>1, <1>4, <2>2
<1> QED
  BY <1>3, <1>4

\* The rows that are listed are those after all entries.
LEMMA ListedIs ==
  ASSUME NEW E \in Nat, E <= ListSize
  PROVE  RowsAfter(E, ListSize, Listed(Stations(E)))
<1> DEFINE Next1(n, r) == IF n - 1 \in Stations(E) /\ Len(r) < 8 THEN Append(r, n - 1) ELSE r
           step == [n \in 1..ListSize |-> [r \in Seq(Nat) |-> Next1(n, r)]]
           After(f) == [n \in 0..ListSize |-> IF n = 0 THEN <<>> ELSE Next1(n, f[n - 1])]
<1>1. <<>> \in Seq(Nat) /\ step \in [1..ListSize -> [Seq(Nat) -> Seq(Nat)]]
  <2>1. ASSUME NEW n \in 1..ListSize, NEW r \in Seq(Nat) PROVE Next1(n, r) \in Seq(Nat)
    <3>1. n - 1 \in Nat
      OBVIOUS
    <3> QED
      BY <3>1, AppendIs
  <2> QED
    BY <2>1
<1>2. \A n \in 1..ListSize, r \in Seq(Nat) : step[n][r] = Next1(n, r)
  OBVIOUS
<1>3. PICK f : Values(f, ListSize, Seq(Nat), <<>>, step)
  <2> HIDE DEF step
  <2> QED
    BY <1>1, ListIs, ValuesExist
<1> HIDE DEF step
<1>4. f \in [0..ListSize -> Seq(Nat)] /\ f[0] = <<>>
  BY <1>3 DEF Values
<1>5. ASSUME NEW n \in 1..ListSize PROVE n - 1 \in 0..ListSize /\ f[n] = Next1(n, f[n - 1])
  <2>1. n - 1 \in 0..ListSize /\ f[n - 1] \in Seq(Nat) /\ f[n] = step[n][f[n - 1]]
    BY <1>3, ListIs DEF Values
  <2> HIDE DEF Next1
  <2> QED
    BY <1>2, <2>1
<1>6. f = After(f)
  <2> HIDE DEF Next1
  <2> QED
    BY <1>4, <1>5, ListIs
<1>7. PICK rows : rows = After(rows) /\ Listed(Stations(E)) = rows[ListSize]
  <2>1. \E g : g = After(g)
    BY <1>6
  <2> QED
    BY <2>1 DEF Listed
<1>8. rows[0] = <<>> /\ \A n \in 1..ListSize : rows[n] = Next1(n, rows[n - 1])
  <2> HIDE DEF Next1
  <2> QED
    BY <1>7, ListIs
<1> DEFINE T == {n \in 0..ListSize : RowsAfter(E, n, rows[n])}
<1>9. 0 \in T
  <2>1. RowsAfter(E, 0, <<>>)
    BY DEF RowsAfter
  <2> QED
    BY <1>8, <2>1, ListIs
<1>10. ASSUME NEW n \in 1..ListSize, n - 1 \in T PROVE n \in T
  <2>1. n \in Nat /\ n >= 1 /\ n <= ListSize /\ RowsAfter(E, n - 1, rows[n - 1]) /\ n \in 0..ListSize
    BY <1>10, ListIs
  <2>2. RowsAfter(E, n, Next1(n, rows[n - 1]))
    BY <2>1, RowsOn
  <2> QED
    BY <1>8, <2>1, <2>2
<1>11. ListSize \in T
  <2> HIDE DEF T
  <2>1. \A n \in 0..ListSize : n \in T
    BY <1>9, <1>10, ListIs, UpTo
  <2> QED
    BY <2>1, ListIs
<1> QED
  BY <1>7, <1>11

\* So the list shows the nearest stations, in their order.
LEMMA NearestAreListed ==
  ASSUME NEW E \in Nat, E <= ListSize
  PROVE  ListsNearest(E)
<1> DEFINE rows == Listed(Stations(E))
<1>1. /\ rows \in Seq(Nat) /\ Len(rows) = IF ListSize - E < 8 THEN ListSize - E ELSE 8
      /\ \A k \in 1..Len(rows) : rows[k] = E + k - 1
  BY ListedIs, ListIs DEF RowsAfter
<1> HIDE DEF rows
<1>2. rows \in Seq(Nat)
  BY <1>1
<1>3. DOMAIN rows = 1..Len(rows)
  BY <1>2
<1>4. Len(rows) = 8 \/ Range(rows) = Stations(E)
  <2>1. SUFFICES ASSUME Len(rows) = ListSize - E PROVE Range(rows) = Stations(E)
    BY <1>1, ListIs
  <2>2. ASSUME NEW s \in Stations(E) PROVE s \in Range(rows)
    <3>1. s \in Nat /\ s < ListSize /\ s >= E
      BY ListIs DEF Stations, Entries
    <3> DEFINE k == s - E + 1
    <3>2. k \in Nat /\ 1 <= k /\ k <= ListSize - E /\ E + k - 1 = s
      BY <3>1, ListIs
    <3> HIDE DEF k
    <3>3. k \in 1..Len(rows)
      BY <2>1, <3>2, ListIs
    <3>4. rows[k] = E + k - 1
      BY <1>1, <3>3, Zenon
    <3> QED
      BY <1>3, <3>2, <3>3, <3>4, Zenon DEF Range
  <2>3. ASSUME NEW k \in 1..Len(rows) PROVE rows[k] \in Stations(E)
    <3>1. rows[k] = E + k - 1 /\ E + k - 1 \in Nat /\ E + k - 1 >= E /\ E + k - 1 < ListSize
      BY <1>1, <2>1, ListIs
    <3> QED
      BY <3>1, InStations
  <2> QED
    BY <1>3, <2>2, <2>3 DEF Range
<1> QED
  BY <1>1, <1>3, <1>4 DEF ListsNearest, rows

-----------------------------------------------------------------------------
(* The lookup of a callsign                                                *)

\* The sizes of the blocks
LEMMA SizesAre ==
  /\ BufSize \in Nat /\ StepBack \in Nat /\ MaxBuf \in Nat
  /\ 0 < StepBack /\ StepBack < MaxBuf /\ MaxBuf <= BufSize
BY HamAssumption

\* The first block begins with the file, and the next one StepBack before the end of the
\* one before it, or as long before the end of the file.
LEMMA StartsAre ==
  ASSUME NEW file \in Seq(Chars), IsFile(file)
  PROVE  /\ Len(file) \in Nat /\ StepBack <= Len(file)
         /\ \A n \in Nat : BlockStart(file, n) \in Nat /\ BlockStart(file, n) <= Len(file) - StepBack
         /\ BlockStart(file, 0) = 0
         /\ \A n \in Nat : BlockStart(file, n + 1) <= BlockStart(file, n) + (BufSize - StepBack)
         /\ BlockStart(file, Len(file)) = Len(file) - StepBack
<1> DEFINE D == BufSize - StepBack
           L == Len(file)
<1>1. L \in Nat /\ StepBack <= L /\ D \in Nat /\ D > 0 /\ L - StepBack \in Nat
  BY SizesAre DEF IsFile
<1>2. \A n \in Nat : n * D \in Nat /\ (n + 1) * D = n * D + D
  <2> HIDE DEF D
  <2> QED
    BY <1>1
<1>3. ASSUME NEW n \in Nat
      PROVE  BlockStart(file, n) = IF n * D <= L - StepBack THEN n * D ELSE L - StepBack
  <2>1. n * D \in Nat
    BY <1>2
  <2>2. BlockStart(file, n) = Min({n * D, L - StepBack})
    BY DEF BlockStart
  <2> HIDE DEF D, L
  <2> QED
    BY <1>1, <2>1, <2>2, MinOfTwo
<1>4. 0 * D = 0
  <2> HIDE DEF D
  <2> QED
    BY <1>1
<1>5. L * D >= L
  <2>1. \A m, d \in Nat : d > 0 => m * d >= m
    <3> SUFFICES ASSUME NEW m \in Nat, NEW d \in Nat, d > 0 PROVE m * d >= m
      OBVIOUS
    <3>1. d - 1 \in Nat /\ d = (d - 1) + 1
      OBVIOUS
    <3>2. \A c \in Nat : m * c \in Nat /\ m * (c + 1) = m * c + m
      OBVIOUS
    <3>3. m * (d - 1) \in Nat /\ m * ((d - 1) + 1) = m * (d - 1) + m
      BY <3>1, <3>2
    <3> DEFINE c == m * (d - 1)
    <3>4. m * d = c + m /\ c \in Nat
      BY <3>1, <3>3
    <3> HIDE DEF c
    <3> QED
      BY <3>4
  <2> HIDE DEF D, L
  <2> QED
    BY <1>1, <2>1
<1> HIDE DEF D, L
<1>6. \A n \in Nat : BlockStart(file, n) \in Nat /\ BlockStart(file, n) <= L - StepBack
  BY <1>1, <1>2, <1>3, SizesAre
<1>7. BlockStart(file, 0) = 0
  BY <1>1, <1>3, <1>4, SizesAre
<1>8. ASSUME NEW n \in Nat PROVE BlockStart(file, n + 1) <= BlockStart(file, n) + D
  <2> DEFINE a == n * D
             b == (n + 1) * D
  <2>1. a \in Nat /\ b = a + D /\ n + 1 \in Nat
    <3>1. n + 1 \in Nat
      OBVIOUS
    <3>2. n * D \in Nat /\ (n + 1) * D = n * D + D
      BY <1>2, Zenon
    <3> QED
      BY <3>1, <3>2, Zenon
  <2>2. /\ BlockStart(file, n) = IF a <= L - StepBack THEN a ELSE L - StepBack
        /\ BlockStart(file, n + 1) = IF b <= L - StepBack THEN b ELSE L - StepBack
    BY <1>3, <2>1
  <2> HIDE DEF a, b
  <2> QED
    BY <1>1, <2>1, <2>2, SizesAre
<1>9. BlockStart(file, L) = L - StepBack
  <2> DEFINE a == L * D
  <2>1. a >= L /\ a \in Nat /\ BlockStart(file, L) = IF a <= L - StepBack THEN a ELSE L - StepBack
    BY <1>1, <1>2, <1>3, <1>5
  <2> HIDE DEF a
  <2> QED
    BY <1>1, <2>1, SizesAre
<1> QED
  BY <1>1, <1>6, <1>7, <1>8, <1>9 DEF D, L

\* A block of the file, that begins behind bs
BlockOf(file, bs, block) ==
    /\ block \in Seq(Chars)
    /\ Len(block) = IF bs + BufSize <= Len(file) THEN BufSize ELSE Len(file) - bs
    /\ \A i \in 1..Len(block) : block[i] = file[bs + i]

\* Every block that is read is one of the file.
LEMMA ReadIs ==
  ASSUME NEW file \in Seq(Chars), IsFile(file), NEW n \in Nat
  PROVE  BlockOf(file, BlockStart(file, n), ReadBlock(file, n))
<1> DEFINE bs == BlockStart(file, n)
           L == Len(file)
           to == IF bs + BufSize <= L THEN bs + BufSize ELSE L
<1>1. bs \in Nat /\ bs < L /\ L \in Nat
  <2>1. bs \in Nat /\ bs <= L - StepBack /\ L \in Nat /\ StepBack <= L
    BY StartsAre, Zenon
  <2> HIDE DEF bs, L
  <2> QED
    BY <2>1, SizesAre
<1>2. ReadBlock(file, n) = SubSeq(file, bs + 1, Min({bs + BufSize, L}))
  BY DEF ReadBlock
<1> HIDE DEF bs, L
<1>3. Min({bs + BufSize, L}) = to
  BY <1>1, SizesAre, MinOfTwo
<1> DEFINE from == bs + 1
<1>4. to \in Nat /\ from \in Nat /\ 1 <= from /\ from <= to + 1 /\ to <= Len(file)
  BY <1>1, SizesAre DEF L
<1> HIDE DEF to, from
<1> DEFINE block == SubSeq(file, from, to)
<1>5. /\ block \in Seq(Chars) /\ Len(block) = to - from + 1
      /\ \A i \in 1..(to - from + 1) : block[i] = file[from + i - 1]
  BY <1>4, SubSeqIs
<1> HIDE DEF block
<1>6. block = ReadBlock(file, n)
  BY <1>2, <1>3 DEF block, from
<1>7. Len(block) = IF bs + BufSize <= L THEN BufSize ELSE L - bs
  BY <1>1, <1>5, SizesAre DEF to, from
<1>8. ASSUME NEW i \in 1..Len(block) PROVE block[i] = file[bs + i]
  <2>1. from + i - 1 = bs + i
    BY <1>1, <1>4, <1>5 DEF from
  <2> QED
    BY <1>5, <2>1
<1> QED
  BY <1>5, <1>6, <1>7, <1>8 DEF BlockOf, bs, L

\* A callsign is no longer than what blocks have in common.
LEMMA CallIs ==
  ASSUME NEW call \in Calls
  PROVE  /\ call \in Seq(Letters) /\ Len(call) \in Nat /\ 1 <= Len(call) /\ Len(call) <= StepBack
         /\ Append(call, ";") \in Seq(Chars) /\ Len(Append(call, ";")) = Len(call) + 1
<1>1. call \in Seq(Letters) /\ Len(call) \in 1..StepBack
  BY CallsAssumption
<1>2. call \in Seq(Chars)
  <2>1. Letters \subseteq Chars
    BY DEF Chars
  <2> QED
    BY <1>1, <2>1
<1>3. ";" \in Chars
  BY DEF Chars
<1>4. Append(call, ";") \in Seq(Chars) /\ Len(Append(call, ";")) = Len(call) + 1
  <2> DEFINE x == ";"
  <2>1. x \in Chars
    BY <1>3
  <2> HIDE DEF x
  <2>2. Append(call, x) \in Seq(Chars) /\ Len(Append(call, x)) = Len(call) + 1
    BY <1>2, <2>1
  <2> QED
    BY <2>2 DEF x
<1>5. Len(call) \in Nat /\ 1 <= Len(call) /\ Len(call) <= StepBack
  BY <1>1, SizesAre
<1> QED
  BY <1>1, <1>4, <1>5, Zenon

\* A place matches that has the callsign and the semicolon, character by character.
LEMMA MatchIs ==
  ASSUME NEW text \in Seq(Chars), NEW call \in Calls, NEW i \in Nat
  PROVE  i \in Matches(text, call) <=>
             /\ 1 <= i /\ i + Len(call) <= Len(text)
             /\ \A k \in 1..(Len(call) + 1) : text[i + k - 1] = Append(call, ";")[k]
<1> DEFINE c == Len(call)
           sought == Append(call, ";")
           L == Len(text)
           to == i + c
           part == SubSeq(text, i, to)
<1>1. c \in Nat /\ 1 <= c /\ sought \in Seq(Chars) /\ Len(sought) = c + 1 /\ L \in Nat
  <2>1. L \in Nat
    OBVIOUS
  <2> QED
    BY <2>1, CallIs, Zenon
<1>2. i \in Matches(text, call) <=> i \in 1..(L - c) /\ part = sought
  BY DEF Matches
<1> HIDE DEF c, sought, L
<1>3. i \in 1..(L - c) <=> 1 <= i /\ to <= L
  BY <1>1
<1>4. ASSUME 1 <= i, to <= L
      PROVE  part = sought <=> \A k \in 1..(c + 1) : text[i + k - 1] = sought[k]
  <2>1. to \in Nat /\ i <= to + 1 /\ to - i + 1 = c + 1
    BY <1>1
  <2> HIDE DEF to
  <2>2. /\ part \in Seq(Chars) /\ Len(part) = c + 1
        /\ \A k \in 1..(c + 1) : part[k] = text[i + k - 1]
    <3>1. to <= Len(text)
      BY <1>4 DEF L
    <3>2. /\ part \in Seq(Chars) /\ Len(part) = to - i + 1
          /\ \A k \in 1..(to - i + 1) : part[k] = text[i + k - 1]
      BY <1>4, <2>1, <3>1, SubSeqIs
    <3> QED
      BY <2>1, <3>2, Zenon
  <2> HIDE DEF part
  <2>3. ASSUME \A k \in 1..(c + 1) : text[i + k - 1] = sought[k] PROVE part = sought
    <3>1. \A k \in 1..Len(part) : part[k] = sought[k]
      BY <2>2, <2>3, Zenon
    <3> QED
      BY <1>1, <2>2, <3>1, SameSeq
  <2> QED
    BY <2>2, <2>3, Zenon
<1> QED
  BY <1>2, <1>3, <1>4, Zenon DEF to, c, L, sought

\* The places that match are places of the text.
LEMMA MatchesIn ==
  ASSUME NEW text \in Seq(Chars), NEW call \in Calls
  PROVE  /\ Matches(text, call) \in SUBSET Nat
         /\ \A i \in Matches(text, call) : 1 <= i /\ i + Len(call) <= Len(text)
<1>1. Len(text) \in Nat /\ Len(call) \in Nat
  <2>1. Len(text) \in Nat
    OBVIOUS
  <2> QED
    BY <2>1, CallIs, Zenon
<1>2. ASSUME NEW i \in 1..(Len(text) - Len(call)) PROVE i \in Nat /\ 1 <= i /\ i + Len(call) <= Len(text)
  BY <1>1
<1> QED
  BY <1>2, Zenon DEF Matches

\* A place of a block matches where one of the file does.
LEMMA MatchesAre ==
  ASSUME NEW file \in Seq(Chars), NEW call \in Calls, NEW bs \in Nat, bs < Len(file),
         NEW block, BlockOf(file, bs, block), NEW i \in Nat
  PROVE  i \in Matches(block, call) <=>
             1 <= i /\ i + Len(call) <= BufSize /\ bs + i \in Matches(file, call)
<1> DEFINE L == Len(file)
           B == Len(block)
           c == Len(call)
           sought == Append(call, ";")
<1>1. /\ B \in Nat /\ L \in Nat /\ bs + B <= L /\ block \in Seq(Chars)
      /\ B = IF bs + BufSize <= L THEN BufSize ELSE L - bs
      /\ c \in Nat /\ 1 <= c
  <2>1. c \in Nat /\ 1 <= c
    BY CallIs, Zenon
  <2> HIDE DEF c
  <2> QED
    BY <2>1, SizesAre DEF BlockOf
<1>2. \A k \in 1..B : block[k] = file[bs + k]
  BY DEF BlockOf
<1>3. i \in Matches(block, call) <=>
          1 <= i /\ i + c <= B /\ \A k \in 1..(c + 1) : block[i + k - 1] = sought[k]
  BY <1>1, MatchIs
<1>4. bs + i \in Matches(file, call) <=>
          1 <= bs + i /\ (bs + i) + c <= L /\ \A k \in 1..(c + 1) : file[(bs + i) + k - 1] = sought[k]
  <2>1. bs + i \in Nat
    OBVIOUS
  <2> QED
    BY <2>1, MatchIs
<1> HIDE DEF B, L, c, sought
<1>5. i + c <= B <=> i + c <= BufSize /\ (bs + i) + c <= L
  BY <1>1, SizesAre
<1>6. 1 <= i => 1 <= bs + i
  OBVIOUS
<1>7. ASSUME 1 <= i, i + c <= B, NEW k \in 1..(c + 1) PROVE block[i + k - 1] = file[(bs + i) + k - 1]
  <2> DEFINE j == i + k - 1
  <2>1. j \in 1..B /\ bs + j = (bs + i) + k - 1
    BY <1>1, <1>7
  <2> HIDE DEF j
  <2>2. block[j] = file[bs + j]
    BY <1>2, <2>1
  <2> QED
    BY <2>1, <2>2 DEF j
<1>8. ASSUME 1 <= i, i + c <= B
      PROVE  (\A k \in 1..(c + 1) : block[i + k - 1] = sought[k])
                 <=> (\A k \in 1..(c + 1) : file[(bs + i) + k - 1] = sought[k])
  BY <1>7, <1>8, Zenon
<1> QED
  BY <1>3, <1>4, <1>5, <1>6, <1>8, Zenon DEF c

\* The first block that has all of a callsign is read before any is the last, and none
\* before it has it.
LEMMA FirstBlock ==
  ASSUME NEW file \in Seq(Chars), IsFile(file), NEW c \in Nat, 1 <= c, c <= StepBack,
         NEW at \in Nat, 1 <= at, at + c <= Len(file),
         NEW blocks,
         blocks = {n \in 0..Len(file) : BlockStart(file, n) < at /\ at + c <= BlockStart(file, n) + BufSize}
  PROVE  /\ blocks # {} /\ blocks \subseteq Nat
         /\ \A m \in 0..(Min(blocks) - 1) : ~LastBlock(file, m)
         /\ \A m \in Nat : m < Min(blocks) => BlockStart(file, m) + BufSize < at + c
<1> DEFINE L == Len(file)
           bs(n) == BlockStart(file, n)
           K == {n \in 0..L : at + c <= bs(n) + BufSize}
           n0 == Min(K)
<1>1. /\ L \in Nat /\ StepBack <= L
      /\ \A n \in Nat : bs(n) \in Nat /\ bs(n) <= L - StepBack
      /\ bs(0) = 0
      /\ \A n \in Nat : bs(n + 1) <= bs(n) + (BufSize - StepBack)
      /\ bs(L) = L - StepBack
  BY StartsAre
<1> HIDE DEF L, bs
<1>2. L \in K
  BY <1>1, SizesAre DEF L
<1>3. K \in SUBSET Nat /\ K # {}
  <2>1. L \in Nat
    BY <1>1, Zenon
  <2>2. 0..L \subseteq Nat
    BY <2>1
  <2> QED
    BY <1>2, <2>2, Zenon
<1>4. n0 \in K /\ \A n \in K : n0 <= n
  <2> HIDE DEF K
  <2> QED
    BY <1>3, MinIs
<1> HIDE DEF n0
<1>5. n0 \in Nat /\ n0 <= L /\ at + c <= bs(n0) + BufSize
  BY <1>1, <1>4
<1>6. ASSUME NEW m \in Nat, m < n0 PROVE bs(m) + BufSize < at + c /\ m \in 0..L
  <2>1. L \in Nat /\ bs(m) \in Nat
    BY <1>1, Zenon
  <2>2. m \in 0..L /\ ~(n0 <= m)
    BY <1>5, <1>6, <2>1
  <2>3. ~(at + c <= bs(m) + BufSize)
    BY <1>4, <2>2, Zenon
  <2> QED
    BY <2>1, <2>2, <2>3, SizesAre
<1>7. bs(n0) < at
  <2>1. CASE n0 = 0
    BY <1>1, <2>1
  <2>2. CASE n0 # 0
    <3> DEFINE m == n0 - 1
    <3>1. m \in Nat /\ m < n0 /\ m + 1 = n0
      BY <1>5, <2>2
    <3> HIDE DEF m
    <3>2. bs(n0) <= bs(m) + (BufSize - StepBack) /\ bs(m) \in Nat /\ bs(n0) \in Nat
      BY <1>1, <1>5, <3>1
    <3>3. bs(m) + BufSize < at + c
      BY <1>6, <3>1
    <3> QED
      BY <3>2, <3>3, SizesAre
  <2> QED
    BY <2>1, <2>2
<1>8. n0 \in blocks /\ blocks \subseteq K /\ blocks \in SUBSET Nat
  <2>1. L \in Nat
    BY <1>1, Zenon
  <2>2. n0 \in 0..L
    BY <1>5, <2>1
  <2>3. n0 \in blocks /\ blocks \subseteq K
    BY <1>5, <1>7, <2>2, Zenon DEF L, bs
  <2> QED
    BY <1>3, <2>3, Zenon
<1>9. Min(blocks) = n0
  <2>1. Min(blocks) \in blocks /\ Min(blocks) <= n0
    BY <1>8, MinIs
  <2>2. n0 <= Min(blocks) /\ Min(blocks) \in Nat
    BY <1>4, <1>8, <2>1
  <2> QED
    BY <1>5, <2>1, <2>2
<1>10. ASSUME NEW m \in 0..(n0 - 1) PROVE ~LastBlock(file, m)
  <2>1. m \in Nat /\ m < n0
    BY <1>5
  <2>2. bs(m) + BufSize < at + c /\ bs(m) \in Nat
    BY <1>1, <1>6, <2>1
  <2>3. L \in Nat /\ Len(ReadBlock(file, m)) = IF bs(m) + BufSize <= L THEN BufSize ELSE L - bs(m)
    BY <1>1, <2>1, ReadIs, Zenon DEF BlockOf, L, bs
  <2>4. at + c <= L
    BY DEF L
  <2> QED
    BY <2>4, <2>2, <2>3, SizesAre DEF LastBlock
<1>11. \A m \in Nat : m < n0 => BlockStart(file, m) + BufSize < at + c
  BY <1>6, Zenon DEF bs
<1> QED
  BY <1>8, <1>9, <1>10, <1>11, Zenon

\* Where a record ends: before the semicolon behind its last field, or with the text
EndAt(s, i, last, e) ==
    LET ends == {d \in Semicolons(s, i) : Cardinality({k \in Semicolons(s, i) : k <= d}) = last + 1}
    IN e = IF ends = {} THEN Len(s) ELSE i + Min(ends) - 1

\* The end of a record in a block is that in the file, or the block's.
LEMMA EndsAre ==
  ASSUME NEW file \in Seq(Chars), NEW bs \in Nat, bs < Len(file),
         NEW block, BlockOf(file, bs, block), NEW last,
         NEW at \in Nat, bs < at, at <= bs + BufSize, at <= Len(file),
         NEW r, EndAt(block, at - bs, last, r), NEW e, EndAt(file, at, last, e)
  PROVE  /\ r \in Nat /\ at - bs <= r + 1 /\ r <= Len(block)
         /\ e \in Nat /\ at <= e + 1 /\ e <= Len(file)
         /\ e = bs + r \/ (bs + r = bs + BufSize /\ bs + r < e)
<1> DEFINE L == Len(file)
           B == Len(block)
           i == at - bs
           F == Semicolons(file, at)
           S == Semicolons(block, i)
           ends(T) == {d \in T : Cardinality({k \in T : k <= d}) = last + 1}
<1>1. /\ B \in Nat /\ L \in Nat
      /\ B = IF bs + BufSize <= L THEN BufSize ELSE L - bs
      /\ at <= L /\ bs < L
  BY SizesAre DEF BlockOf
<1>2. \A k \in 1..B : block[k] = file[bs + k]
  BY DEF BlockOf
<1>3. /\ r = IF ends(S) = {} THEN B ELSE i + Min(ends(S)) - 1
      /\ e = IF ends(F) = {} THEN L ELSE at + Min(ends(F)) - 1
  BY Zenon DEF EndAt
<1>4. /\ \A d : d \in S <=> d \in 0..(B - i) /\ block[i + d] = ";"
      /\ \A d : d \in F <=> d \in 0..(L - at) /\ file[at + d] = ";"
  BY Zenon DEF Semicolons
<1> HIDE DEF L, B, S, F
<1>5. i \in Nat /\ 1 <= i /\ i <= B /\ bs + i = at /\ bs + B <= L
  BY <1>1, SizesAre
<1> HIDE DEF i
<1>6. ASSUME NEW d PROVE d \in S <=> d \in F /\ d <= B - i
  <2>1. d \in 0..(B - i) <=> d \in 0..(L - at) /\ d <= B - i
    BY <1>1, <1>5
  <2>2. ASSUME d \in 0..(B - i) PROVE block[i + d] = file[at + d]
    <3>1. i + d \in 1..B /\ bs + (i + d) = at + d
      BY <1>1, <1>5, <2>2
    <3> QED
      BY <1>2, <3>1, Zenon
  <2> QED
    BY <1>4, <2>1, <2>2, Zenon
<1>7. ASSUME NEW d PROVE d \in ends(S) <=> d \in ends(F) /\ d <= B - i
  <2>1. SUFFICES ASSUME d \in F, d <= B - i
                 PROVE  {k \in S : k <= d} = {k \in F : k <= d}
    BY <1>6, Zenon
  <2>2. ASSUME NEW k \in F, k <= d PROVE k <= B - i
    <3>1. k \in 0..(L - at) /\ d \in 0..(L - at)
      BY <1>4, <2>1, <2>2, Zenon
    <3> QED
      BY <1>1, <1>5, <2>1, <2>2, <3>1
  <2> QED
    BY <1>6, <2>2, Zenon
<1>8. /\ ends(F) \in SUBSET Nat /\ \A d \in ends(F) : d <= L - at
      /\ ends(S) \in SUBSET Nat /\ ends(S) \subseteq ends(F)
  <2>1. \A d \in 0..(L - at) : d \in Nat /\ d <= L - at
    BY <1>1
  <2> QED
    BY <1>4, <1>7, <2>1, Zenon
<1>9. ASSUME NEW d, d \in ends(S) PROVE d <= B - i
  BY <1>7, <1>9, Zenon
<1> DEFINE G == ends(F)
           T == ends(S)
<1>10. T # {} => Min(T) \in T /\ \A d \in T : Min(T) <= d
  <2> HIDE DEF T
  <2> QED
    BY <1>8, MinIs DEF T
<1>11. G # {} => Min(G) \in G /\ \A d \in G : Min(G) <= d
  <2> HIDE DEF G
  <2> QED
    BY <1>8, MinIs DEF G
<1>12. /\ r = IF T = {} THEN B ELSE i + Min(T) - 1
       /\ e = IF G = {} THEN L ELSE at + Min(G) - 1
       /\ T \subseteq Nat /\ G \subseteq Nat
       /\ \A d \in T : d <= B - i
       /\ \A d \in G : d <= L - at
       /\ \A d \in G : d <= B - i => d \in T
       /\ \A d \in T : d \in G
  BY <1>3, <1>7, <1>8, Zenon
<1> HIDE DEF G, T
<1>13. CASE T # {}
  <2> DEFINE m == Min(T)
             n == Min(G)
  <2>1. m \in T /\ m \in Nat /\ m <= B - i /\ G # {} /\ n \in G /\ n \in Nat /\ n <= m
    BY <1>10, <1>11, <1>12, <1>13, Zenon
  <2> HIDE DEF m, n
  <2>2. n <= B - i
    BY <1>1, <1>5, <2>1
  <2>3. m <= n
    BY <1>10, <1>12, <1>13, <2>1, <2>2, Zenon DEF m
  <2>4. r = i + m - 1 /\ e = at + m - 1
    <3>1. m = n
      BY <2>1, <2>3
    <3> QED
      BY <1>12, <1>13, <2>1, <3>1, Zenon DEF m, n
  <2> QED
    BY <1>1, <1>5, <2>1, <2>4 DEF L, B, i
<1>14. CASE T = {}
  <2>1. r = B
    BY <1>12, <1>14
  <2>2. e \in Nat /\ at <= e + 1 /\ e <= L /\ bs + B <= e
    <3>1. CASE G = {}
      BY <1>1, <1>5, <1>12, <3>1
    <3>2. CASE G # {}
      <4> DEFINE n == Min(G)
      <4>1. n \in Nat /\ n <= L - at /\ ~(n <= B - i) /\ e = at + n - 1
        BY <1>11, <1>12, <1>14, <3>2, Zenon
      <4> HIDE DEF n
      <4> QED
        BY <1>1, <1>5, <4>1
    <3> QED
      BY <3>1, <3>2
  <2>3. e = bs + r \/ (bs + r = bs + BufSize /\ bs + r < e)
    BY <1>1, <1>5, <2>1, <2>2, SizesAre
  <2> QED
    BY <1>1, <1>5, <2>1, <2>2, <2>3 DEF L, B, i
<1> QED
  BY <1>13, <1>14

\* The record taken from a block: whole, if the block has all of it, or as far as the
\* block goes
LEMMA RecordIs ==
  ASSUME NEW file \in Seq(Chars), NEW bs \in Nat, bs < Len(file),
         NEW block, BlockOf(file, bs, block), NEW last,
         NEW at \in Nat, bs < at, at <= bs + BufSize, at <= Len(file)
  PROVE  LET record == vParseRecord(block, at - bs, last)
             whole == vParseRecord(file, at, last)
         IN \/ record = whole
            \/ IsStrictPrefix(record, whole) /\ at + Len(record) - 1 = bs + BufSize
<1> DEFINE i == at - bs
           ends(s, j) == {d \in Semicolons(s, j) : Cardinality({k \in Semicolons(s, j) : k <= d}) = last + 1}
           r == IF ends(block, i) = {} THEN Len(block) ELSE i + Min(ends(block, i)) - 1
           e == IF ends(file, at) = {} THEN Len(file) ELSE at + Min(ends(file, at)) - 1
           record == vParseRecord(block, i, last)
           whole == vParseRecord(file, at, last)
<1>1. record = SubSeq(block, i, r) /\ whole = SubSeq(file, at, e)
  BY Zenon DEF vParseRecord
<1>2. EndAt(block, i, last, r) /\ EndAt(file, at, last, e)
  BY Zenon DEF EndAt
<1> HIDE DEF r, e
<1>3. /\ r \in Nat /\ i <= r + 1 /\ r <= Len(block)
      /\ e \in Nat /\ at <= e + 1 /\ e <= Len(file)
      /\ e = bs + r \/ (bs + r = bs + BufSize /\ bs + r < e)
  BY <1>2, EndsAre
<1>4. /\ block \in Seq(Chars) /\ Len(block) \in Nat
      /\ \A k \in 1..Len(block) : block[k] = file[bs + k]
  BY DEF BlockOf
<1> HIDE DEF record, whole
<1>5. i \in Nat /\ 1 <= i /\ 1 <= at /\ bs + i = at
  OBVIOUS
<1> HIDE DEF i
<1> DEFINE n == r - i + 1
           w == e - at + 1
<1>6. record \in Seq(Chars) /\ Len(record) = n /\ \A k \in 1..n : record[k] = block[i + k - 1]
  BY <1>1, <1>3, <1>4, <1>5, SubSeqIs
<1>7. whole \in Seq(Chars) /\ Len(whole) = w /\ \A k \in 1..w : whole[k] = file[at + k - 1]
  BY <1>1, <1>3, <1>5, SubSeqIs
<1>8. n \in Nat /\ w \in Nat /\ (n = w \/ (n < w /\ at + n - 1 = bs + BufSize))
  BY <1>3, <1>5, SizesAre
<1>9. ASSUME NEW k \in 1..n PROVE record[k] = whole[k]
  <2> DEFINE j == i + k - 1
  <2>1. j \in 1..Len(block) /\ bs + j = at + k - 1 /\ k \in 1..w
    BY <1>3, <1>4, <1>5, <1>8
  <2>2. record[k] = block[j] /\ whole[k] = file[at + k - 1]
    BY <1>6, <1>7, <2>1, Zenon
  <2> HIDE DEF j
  <2> QED
    BY <1>4, <2>1, <2>2, Zenon
<1> HIDE DEF n, w
<1>10. CASE n = w
  <2>1. record = whole
    BY <1>6, <1>7, <1>9, <1>10, SameSeq
  <2> QED
    BY <2>1 DEF record, whole, i
<1>11. CASE n < w /\ at + n - 1 = bs + BufSize
  <2>1. IsStrictPrefix(record, whole)
    BY <1>6, <1>7, <1>9, <1>11, PrefixIs
  <2> QED
    BY <1>6, <1>11, <2>1 DEF record, whole, i
<1> QED
  BY <1>8, <1>10, <1>11

\* A callsign's first place is in the first block with all of it, no block before that
\* is the last, and none of them matches anywhere.
LEMMA LookupFinds ==
  ASSUME NEW file, IsFile(file), NEW call \in Calls
  PROVE  FindsRecord(file, call)
<1> DEFINE L == Len(file)
           c == Len(call)
           bs(n) == BlockStart(file, n)
           places == Matches(file, call)
           at == Min(places)
           blocks == {n \in 0..Len(file) : BlockStart(file, n) < at /\ at + c <= BlockStart(file, n) + BufSize}
           with == {n \in 0..Len(file) :
                      /\ Matches(ReadBlock(file, n), call) # {}
                      /\ \A m \in 0..(n - 1) : ~LastBlock(file, m)}
           taken == ucHamLookup(file, call)
<1>1. file \in Seq(Chars)
  BY DEF IsFile
<1>2. c \in Nat /\ 1 <= c /\ c <= StepBack
  BY CallIs
<1>3. places \in SUBSET Nat /\ \A p \in places : 1 <= p /\ p + c <= L
  BY <1>1, MatchesIn
<1>4. ASSUME NEW n \in Nat
      PROVE  /\ bs(n) \in Nat /\ bs(n) < L /\ BlockOf(file, bs(n), ReadBlock(file, n))
             /\ Matches(ReadBlock(file, n), call) \subseteq Nat
             /\ \A i \in Nat : i \in Matches(ReadBlock(file, n), call) <=>
                                   1 <= i /\ i + c <= BufSize /\ bs(n) + i \in places
  <2>1. L \in Nat /\ bs(n) \in Nat /\ bs(n) <= L - StepBack
    BY <1>1, StartsAre, Zenon
  <2>2. BlockOf(file, bs(n), ReadBlock(file, n))
    BY <1>1, ReadIs
  <2>3. ReadBlock(file, n) \in Seq(Chars)
    BY <2>2, Zenon DEF BlockOf
  <2>4. Matches(ReadBlock(file, n), call) \subseteq Nat
    BY <2>3, MatchesIn
  <2> HIDE DEF bs, L
  <2>5. bs(n) < L
    BY <2>1, SizesAre
  <2>6. \A i \in Nat : i \in Matches(ReadBlock(file, n), call) <=>
                           1 <= i /\ i + c <= BufSize /\ bs(n) + i \in places
    <3> DEFINE b == bs(n)
               block == ReadBlock(file, n)
    <3>1. b \in Nat /\ b < Len(file) /\ BlockOf(file, b, block)
      BY <2>1, <2>2, <2>5 DEF L
    <3> HIDE DEF b, block
    <3>2. ASSUME NEW i \in Nat
          PROVE  i \in Matches(block, call) <=> 1 <= i /\ i + c <= BufSize /\ b + i \in places
      BY <1>1, <3>1, MatchesAre
    <3> QED
      BY <3>2, Zenon DEF b, block
  <2> QED
    BY <2>1, <2>2, <2>4, <2>5, <2>6, Zenon
<1>5. ASSUME NEW n \in Nat, NEW i \in Matches(ReadBlock(file, n), call)
      PROVE  i \in Nat /\ 1 <= i /\ i + c <= BufSize /\ bs(n) + i \in places
  BY <1>4, <1>5, Zenon
<1> HIDE DEF at, places, c
<1>6. \A n \in 0..Len(file) : n \in Nat
  OBVIOUS
<1>7. CASE places = {}
  <2>1. \A n \in Nat : Matches(ReadBlock(file, n), call) = {}
    BY <1>5, <1>7, Zenon
  <2>2. with = {}
    BY <1>6, <2>1, Zenon
  <2>3. taken = {}
    BY <2>2, Zenon DEF ucHamLookup
  <2> QED
    BY <1>7, <2>3, Zenon DEF FindsRecord, places
<1>8. CASE places # {}
  <2>1. at \in places /\ \A p \in places : at <= p
    BY <1>3, <1>8, MinIs DEF at
  <2>2. at \in Nat /\ 1 <= at /\ at + c <= Len(file)
    BY <1>3, <2>1, Zenon
  <2> DEFINE n0 == Min(blocks)
             block == ReadBlock(file, n0)
  <2>3. /\ blocks # {} /\ blocks \subseteq Nat
        /\ \A m \in 0..(n0 - 1) : ~LastBlock(file, m)
        /\ \A m \in Nat : m < n0 => bs(m) + BufSize < at + c
    <3> HIDE DEF blocks
    <3> QED
      BY <1>1, <1>2, <2>2, FirstBlock DEF blocks
  <2>4. n0 \in blocks /\ n0 \in Nat
    <3> HIDE DEF blocks
    <3> QED
      BY <2>3, MinIs
  <2>5. bs(n0) < at /\ at + c <= bs(n0) + BufSize /\ n0 \in 0..Len(file)
    BY <2>4, Zenon
  <2> HIDE DEF n0
  <2>6. at - bs(n0) \in Matches(block, call) /\ bs(n0) + (at - bs(n0)) = at
    <3> DEFINE i == at - bs(n0)
    <3>1. bs(n0) \in Nat
      BY <1>4, <2>4, Zenon
    <3> HIDE DEF bs
    <3>2. i \in Nat /\ 1 <= i /\ i + c <= BufSize /\ bs(n0) + i = at
      BY <1>2, <2>2, <2>5, <3>1, SizesAre
    <3> HIDE DEF i
    <3> QED
      BY <1>4, <2>1, <2>4, <3>2, Zenon DEF i, bs
  <2>7. n0 \in with
    BY <2>3, <2>5, <2>6, Zenon
  <2>8. ASSUME NEW m \in Nat, m < n0 PROVE Matches(ReadBlock(file, m), call) = {}
    <3>1. SUFFICES ASSUME NEW i \in Matches(ReadBlock(file, m), call) PROVE FALSE
      OBVIOUS
    <3>2. i \in Nat /\ i + c <= BufSize /\ bs(m) + i \in places /\ at <= bs(m) + i
      BY <1>5, <2>1, <3>1, Zenon
    <3>3. bs(m) \in Nat /\ bs(m) + BufSize < at + c
      BY <1>4, <2>3, <2>8, Zenon
    <3> HIDE DEF bs
    <3> QED
      BY <1>2, <2>2, <3>2, <3>3, SizesAre
  <2>9. Min(with) = n0
    <3>1. with \in SUBSET Nat /\ with # {}
      BY <1>6, <2>7, Zenon
    <3>2. \A m \in with : Matches(ReadBlock(file, m), call) # {}
      BY Zenon
    <3> HIDE DEF with
    <3>3. Min(with) \in with /\ Min(with) <= n0 /\ Min(with) \in Nat
      BY <2>7, <3>1, MinIs
    <3>4. ~(Min(with) < n0)
      BY <2>8, <3>2, <3>3, Zenon
    <3> QED
      BY <2>4, <3>3, <3>4
  <2>10. taken = {[at |-> bs(n0) + i, record |-> RecordAt(file, block, bs(n0), bs(n0) + i)] :
                     i \in Matches(block, call)}
    <3>1. with # {}
      BY <2>7, Zenon
    <3> DEFINE of(n) == {[at |-> bs(n) + i, record |-> RecordAt(file, ReadBlock(file, n), bs(n), bs(n) + i)] :
                            i \in Matches(ReadBlock(file, n), call)}
    <3>2. taken = IF with = {} THEN {} ELSE of(Min(with))
      BY Zenon DEF ucHamLookup
    <3> HIDE DEF with, of
    <3>3. taken = of(n0)
      BY <2>9, <3>1, <3>2
    <3> QED
      BY <3>3 DEF of
  <2> HIDE DEF taken, with
  <2>11. \E t \in taken : t.at = at
    <3> DEFINE t == [at |-> bs(n0) + (at - bs(n0)),
                     record |-> RecordAt(file, block, bs(n0), bs(n0) + (at - bs(n0)))]
    <3>1. t \in taken
      BY <2>6, <2>10, Zenon
    <3>2. t.at = at
      BY <2>6
    <3> QED
      BY <3>1, <3>2, Zenon
  <2>12. ASSUME NEW t \in taken
         PROVE  /\ t.at \in places /\ t.at < at + BufSize
                /\ \/ t.record = RecordAt(file, file, 0, t.at)
                   \/ /\ IsStrictPrefix(t.record, RecordAt(file, file, 0, t.at))
                      /\ \E n \in 0..Len(file) :
                            t.at + Len(t.record) - 1 = BlockStart(file, n) + BufSize
    <3>1. PICK i \in Matches(block, call) :
             t = [at |-> bs(n0) + i, record |-> RecordAt(file, block, bs(n0), bs(n0) + i)]
      BY <2>10, <2>12, Zenon
    <3> DEFINE b == bs(n0)
               p == b + i
               last == IF Repeater(file, p) THEN RepeaterFields ELSE Fields
    <3>2. t.at = p /\ t.record = RecordAt(file, block, b, p)
      BY <3>1
    <3>3. /\ b \in Nat /\ b < Len(file) /\ BlockOf(file, b, block)
          /\ i \in Nat /\ 1 <= i /\ i + c <= BufSize /\ p \in places
          /\ b < at
      BY <1>4, <1>5, <2>4, <2>5, <3>1, Zenon
    <3> HIDE DEF b, block
    <3>4. p \in Nat /\ b < p /\ p <= b + BufSize /\ p < at + BufSize
      BY <1>2, <2>2, <3>3, SizesAre
    <3>5. p <= Len(file)
      <4>1. p + c <= L
        BY <1>3, <3>3
      <4> QED
        BY <1>2, <3>4, <4>1
    <3>6. /\ RecordAt(file, block, b, p) = vParseRecord(block, p - b, last)
          /\ RecordAt(file, file, 0, p) = vParseRecord(file, p, last)
      <4>1. p - 0 = p
        BY <3>4
      <4> HIDE DEF p
      <4> QED
        BY <4>1 DEF RecordAt
    <3> HIDE DEF p, last
    <3>7. \/ vParseRecord(block, p - b, last) = vParseRecord(file, p, last)
          \/ /\ IsStrictPrefix(vParseRecord(block, p - b, last), vParseRecord(file, p, last))
             /\ p + Len(vParseRecord(block, p - b, last)) - 1 = b + BufSize
      BY <1>1, <3>3, <3>4, <3>5, RecordIs
    <3> QED
      BY <2>5, <3>2, <3>3, <3>4, <3>6, <3>7, Zenon DEF b
  <2> QED
    BY <2>11, <2>12, Zenon DEF FindsRecord, taken, places, at
<1> QED
  BY <1>7, <1>8

\* A callsign's first place in a file is found on whichever side of a split it lies;
\* turned round, the knob shows the stations the list has, from wherever it is turned;
\* and a station is never shown younger than it is, nor counted when stale (ucHamLookup,
\* vNavigateMenus, vDisplayAprsList, vUpdateScales).
THEOREM StationsAreFound == Computing => []StationsFound
<1>1. ASSUME input \in Inputs \union {Through} PROVE StationsFound
  <2>1. CASE input.of = "lookup"
    <3>1. input \in OfLookup
      BY <1>1, <2>1, InputsAre
    <3>2. IsFile(input.file) /\ input.call \in Calls
      BY <3>1, Zenon DEF OfLookup
    <3>3. FindsRecord(input.file, input.call)
      BY <3>2, LookupFinds
    <3> QED
      BY <2>1, <3>3 DEF StationsFound
  <2>2. CASE input.of = "stations"
    <3>1. input \in OfStations
      BY <1>1, <2>2, InputsAre
    <3>2. /\ input.empty \in 0..ListSize /\ input.near \in 0..ListSize
          /\ input.empty + input.near <= ListSize /\ input.uiStation \in Entries
      BY <3>1, Zenon DEF OfStations
    <3>3. /\ input.empty \in Nat /\ input.empty <= ListSize
          /\ input.empty + input.near \in Nat /\ input.empty + input.near <= ListSize
          /\ input.uiStation \in Nat /\ input.uiStation < ListSize
      BY <3>2, ListIs DEF Entries
    <3>4. StaysInList(input.empty, input.uiStation)
      BY <3>3, TurnsStayInList
    <3>5. ShowsStations(input.empty)
      BY <3>3, TurnsRight, TurnsLeft DEF ShowsStations
    <3>6. ListsNearest(input.empty + input.near)
      BY <3>3, NearestAreListed
    <3> QED
      BY <2>2, <3>4, <3>5, <3>6 DEF StationsFound
  <2>3. CASE input.of = "age"
    <3>1. input \in OfAge
      BY <1>1, <2>3, InputsAre
    <3>2. input.heard \in Nat /\ input.heard < 86400 /\ input.age \in Nat /\ input.age < 86400
      <4>1. input.heard \in Seconds /\ input.age \in Seconds
        BY <3>1 DEF OfAge
      <4> DEFINE n == 86399
      <4>2. n \in Nat /\ n < 86400 /\ Seconds = 0..n
        BY DEF Seconds
      <4> HIDE DEF n
      <4>3. /\ input.heard \in Nat /\ input.heard <= n
            /\ input.age \in Nat /\ input.age <= n
        BY <4>1, <4>2
      <4> QED
        BY <4>2, <4>3
    <3>3. AgeShown(input.heard, input.age)
      BY <3>2, AgeIs
    <3> QED
      BY <2>3, <3>3 DEF StationsFound
  <2> QED
    BY <2>1, <2>2, <2>3 DEF StationsFound
<1>2. input \in Inputs \union {Through} /\ [Computed]_input => (input \in Inputs \union {Through})'
  BY DEF Computed
<1> QED
  BY <1>1, <1>2, PTL DEF Computing
===============================================================================
