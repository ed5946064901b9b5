----------------------------- MODULE Indicators -----------------------------
(***************************************************************************)
(* What shows a value at a glance: the four scales at the edges of the     *)
(* display (vDrawScale and vUpdateScales of display.c) and the string of   *)
(* three colour LEDs (vSetIndicator of display.c, vSetRGBled of            *)
(* common_library_32x.c).                                                  *)
(***************************************************************************)
EXTENDS Integers, FiniteSets, SequencesExt

Segments == 12

GeigerCurve == <<15, 36, 42, 48, 60, 76, 96, 120, 144, 168, 200, 240>>
GsmCurve == <<0, 2, 4, 6, 8, 11, 14, 16, 19, 22, 25, 28>>

\* The steps of a curve before the first one above the value
Steps(curve, value) ==
    LET above == {i \in DOMAIN curve : curve[i] > value}
    IN IF above = {} THEN Len(curve) ELSE Min(above) - 1
Capped(n) == IF n > Segments THEN Segments ELSE n

GeigerScale(countsMin) == Steps(GeigerCurve, countsMin)
GsmScale(signal) == IF signal \in {0, 99} THEN 0 ELSE Steps(GsmCurve, signal)
GpsScale(signals) == Capped(signals \div 100)
AprsScale(stations) == Capped(stations)

\* The colour of segment i from 0; of the second threshold the last bit is
\* looked at (cT2 & (i < cT2)), which an even one has not.
vDrawScale(i, value, t1, t2, reverse) ==
    IF i >= value THEN "grey"
    ELSE IF i < t1 THEN IF reverse THEN "green" ELSE "red"
    ELSE IF t2 % 2 = 1 /\ i < t2 THEN "yellow"
    ELSE IF reverse THEN "red" ELSE "green"

\* vUpdateScales
Scales == [aprs |-> [t1 |-> 3, t2 |-> 5, reverse |-> FALSE],
           geiger |-> [t1 |-> 3, t2 |-> 7, reverse |-> TRUE],
           gps |-> [t1 |-> 3, t2 |-> 5, reverse |-> FALSE],
           gsm |-> [t1 |-> 4, t2 |-> 7, reverse |-> FALSE]]

-----------------------------------------------------------------------------
(* The LEDs                                                                *)

\* A colour by the contrast of the display, 0 to 15: in one byte
vSetIndicator(colour, uiContrast) == (colour * IF uiContrast = 0 THEN 1 ELSE uiContrast) % 256

\* The bits of a byte as they are shifted into ulColor, lowest first
LowestFirst(byte) == [k \in 1..8 |-> (byte \div 2 ^ (k - 1)) % 2]
\* Mutant: red before green
RedFirst(r, g, b) == Reverse(LowestFirst(b) \o LowestFirst(g) \o LowestFirst(r))
\* ulColor is shifted out from its end: what the LED gets for blue, red, green.
vSetRGBled(r, g, b) == Reverse(LowestFirst(b) \o LowestFirst(r) \o LowestFirst(g))

-----------------------------------------------------------------------------
(* What they are to show                                                   *)

\* Every segment up to the value is lit, in the colour of its part of the scale.
ScaleRight(s, value) ==
    \A i \in 0..(Segments - 1) :
        LET colour == vDrawScale(i, value, s.t1, s.t2, s.reverse)
            part == Cardinality({t \in {s.t1, s.t2} : t <= i}) + 1
            order == <<"red", "yellow", "green">>
        IN colour = IF i + 1 > value THEN "grey" ELSE (IF s.reverse THEN Reverse(order) ELSE order)[part]

\* As many segments as the value has reached thresholds of the curve
Reached(curve, value) == Cardinality({i \in DOMAIN curve : curve[i] <= value})
CurvesRight(value) ==
    /\ GeigerScale(value) = Reached(GeigerCurve, value)
    /\ value <= 99 => GsmScale(value) = IF value \in {0, 99} THEN 0 ELSE Reached(GsmCurve, value)

\* An LED lights up with the display's contrast: only the attitude alarm's red at
\* full contrast is more than its byte holds (18, alarms.c:89).
Used == (0..8) \union {16, 18}
IndicatorRight(c, u) == vSetIndicator(c, u) = (IF u = 0 THEN c ELSE c * u) \/ (c = 18 /\ u = 15)

\* It gets green, red and blue, highest bit first.
LedRight(r, g, b) ==
    vSetRGBled(r, g, b) = [k \in 1..24 |-> ((g * 65536 + r * 256 + b) \div 2 ^ (24 - k)) % 2]
=============================================================================
