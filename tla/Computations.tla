---------------------------- MODULE Computations ----------------------------
(***************************************************************************)
(* The program's computations whose result depends on nothing but their    *)
(* input: a state is an input, and a property says of the computation of   *)
(* that input what it should give.  It is composed with a module that has  *)
(* states of its own, which go on when the input is through.               *)
(***************************************************************************)
EXTENDS Figures, Indicators, MessageLines, HamLookup, StationList, Thermometer

VARIABLE input  \* of one of the computations, or Through

Through == [of |-> "none"]
Texts == {text \in [length : Nat \ {0}, spaces : SUBSET Nat] : text.spaces \subseteq 0..(text.length - 1)}
Seconds == 0..86399  \* of a day
SensorRange == -(55 * 16)..(125 * 16)  \* sixteenths of a degree
OfCurves == [of : {"curves"}, value : Nat]
OfScale == [of : {"scale"}, scale : DOMAIN Scales, value : Nat]
OfIndicator == [of : {"indicator"}, colour : Used, contrast : 0..15]
OfLed == [of : {"led"}, r : 0..255, g : 0..255, b : 0..255]
OfLine == {p \in [of : {"line"}, x1 : Nat, y1 : Nat, x2 : Nat, y2 : Nat] : p.x1 # p.x2 /\ p.y1 # p.y2}
OfCircle == [of : {"circle"}, r : Nat]
OfText == [of : {"message", "comment"}, text : Texts]
OfLookup == [of : {"lookup"}, file : {file \in Seq(Chars) : IsFile(file)}, call : Calls]
OfStations ==  \* that many entries are empty, and that many stations near
    {p \in [of : {"stations"}, empty : 0..ListSize, near : 0..ListSize, uiStation : Entries] :
        p.empty + p.near <= ListSize}
OfAge == [of : {"age"}, heard : Seconds, age : Seconds]
OfBus == [of : {"bus"}, byte : 0..255, at : 15..59, hold : Nat, late : Nat]
OfReset == [of : {"reset"}, wait : 15..60, length : 60..240]
OfReading == [of : {"reading"}, sixteenths : SensorRange]
Inputs ==
    OfCurves \union OfScale \union OfIndicator \union OfLed \union OfLine \union OfCircle
    \union OfText \union OfLookup
    \union OfStations \union OfAge \union OfBus \union OfReset \union OfReading

Computed == input # Through /\ input' = Through
Computing == input \in Inputs \union {Through} /\ [][Computed]_input

-----------------------------------------------------------------------------
(* Properties                                                              *)

\* The scales show their values, to both ends of their curves, the LEDs theirs, lines
\* are straight and circles round, and texts are broken into lines whole
\* (vUpdateScales, vDrawScale, vSetIndicator, vSetRGBled, by1351_DrawLine,
\* by1351_DrawCircle, vDisplayGsm, vDisplayAprsList).
IndicatorsShowValues ==
    /\ input.of = "curves" => CurvesRight(input.value)
    /\ input.of = "scale" => ScaleRight(Scales[input.scale], input.value)
    /\ input.of = "indicator" => IndicatorRight(input.colour, input.contrast)
    /\ input.of = "message" => MessageRight(input.text.spaces, input.text.length)
    /\ input.of = "comment" => CommentRight(input.text.spaces, input.text.length)
    /\ input.of = "led" => LedRight(input.r, input.g, input.b)
    /\ input.of = "line" => StraightLine(input.x1, input.y1, input.x2, input.y2)
    /\ input.of = "circle" => RoundCircle(input.r)

\* A callsign is found where the file first has it, across the ends of blocks
\* (ucHamLookup); turns stay in the list of stations and show all of them, listed and
\* never taken for younger than they are, but where named (vNavigateMenus,
\* vDisplayAprsList, vUpdateScales).
StationsFound ==
    /\ input.of = "lookup" => FindsRecord(input.file, input.call)
    /\ input.of = "stations" =>
           /\ StaysInList(input.empty, input.uiStation)
           /\ ShowsStations(input.empty) /\ ListsNearest(input.empty + input.near)
    /\ input.of = "age" => AgeShown(input.heard, input.age)

\* The thermometer is set up and read right: its bytes cross the bus whenever the
\* sensor looks, and fReadOwTemp gives the temperature over all the sensor measures,
\* but for the three at which its complement loses a carry.
TemperatureRight ==
    /\ input.of = "bus" => CrossesBus(input.byte, input.at, input.hold, input.late)
    /\ input.of = "reset" => FoundAtReset(input.wait, input.length) /\ MeasuresSixteenths
    /\ input.of = "reading" => ReadsTemperature(input.sixteenths)
=============================================================================
