----------------------------- MODULE Thermometer -----------------------------
(***************************************************************************)
(* The one-wire thermometer (temperature.c): bits by how long the bus is   *)
(* held low, in microseconds, the configuration written at the start, and  *)
(* fReadOwTemp: the two's complement of the sensor, in sixteenths of a     *)
(* degree, from the first two bytes of its scratchpad.                     *)
(*                                                                         *)
(* The delays are loops that an interrupt makes longer: late is by how     *)
(* much.                                                                   *)
(***************************************************************************)
EXTENDS Integers, Sequences

\* The bits of a byte, lowest first
Bits(byte) == [k \in 1..8 |-> (byte \div 2 ^ (k - 1)) % 2]

\* For how long the bus is low; the sensor looks at it once, between 15 and 60 after
\* it went down.
vWriteOwBit(bit, late) == late + IF bit = 1 THEN 6 ELSE 60
vWriteOwByte(byte, late) == [k \in 1..8 |-> vWriteOwBit(Bits(byte)[k], late)]
Looked(low, at) == IF at < low THEN 0 ELSE 1

\* The bus is looked at 15 after it went down, and 0 as long as the sensor holds it.
cReadOwBit(bit, hold, late) == IF bit = 0 /\ 15 + late <= hold THEN 0 ELSE 1
\* Each bit is shifted in from the top.
ucReadOwByte(bits) ==
    LET data[k \in 0..8] ==
            IF k = 0 THEN 0 ELSE data[k - 1] \div 2 + (IF bits[k] = 1 THEN 128 ELSE 0)
    IN data[8]

\* The sensor waits and then holds the bus low; it is looked at after 70.
cResetOw(wait, length) == IF 70 \in wait..(wait + length - 1) THEN 0 ELSE 1

\* All sensors; write to the scratchpad: both alarms, the configuration
ucInitOwTemp == <<\hCC, \h4E, \hFF, \h00, \h7F>>
\* Of the sensor, in bits behind the sign
Resolution(configuration) == 9 + ((configuration \div 32) % 4)

Complement(byte) == 255 - byte
\* ucTemp takes eight bits of the whole degrees.
Sixteenths(low, high) == (low % 16) + 16 * ((low \div 16 + 16 * high) % 256)
\* Mutant: the ones' complement
OnesReading(low, high) ==
    IF high >= 128 THEN 0 - Sixteenths(Complement(low), Complement(high)) ELSE Sixteenths(low, high)
fReadOwTemp(low, high) ==
    IF high >= 128 THEN 0 - Sixteenths((Complement(low) + 1) % 256, Complement(high))
    ELSE Sixteenths(low, high)

-----------------------------------------------------------------------------
(* What they are to do                                                     *)

\* A byte crosses the bus as it is, wherever the sensor looks, as long as interrupts
\* take less than 9 of a bit written, and of a bit read no more than the sensor
\* holds on.
CrossesBus(byte, at, hold, late) ==
    /\ late < 9 => [k \in 1..8 |-> Looked(vWriteOwByte(byte, late)[k], at)] = Bits(byte)
    /\ 15 + late <= hold =>
           ucReadOwByte([k \in 1..8 |-> cReadOwBit(Bits(byte)[k], hold, late)]) = byte
\* A sensor is found, and done with answering 410 later.
FoundAtReset(wait, length) == cResetOw(wait, length) = 0 /\ wait + length <= 70 + 410
\* The sensor measures sixteenths, as fReadOwTemp takes it to.  (The comment at the byte
\* speaks of a quarter of the longest conversion, that of ten bits.)
MeasuresSixteenths == Resolution(ucInitOwTemp[5]) = 12

\* What is read is the temperature: but below zero the carry of the complement is lost
\* wherever the low byte is 0, and 16 degrees with it: -16, -32 and -48 are read as 0,
\* -16 and -32.
ReadsTemperature(t) ==
    fReadOwTemp(t % 256, (t \div 256) % 256) = IF t < 0 /\ t % 256 = 0 THEN t + 256 ELSE t
=============================================================================
