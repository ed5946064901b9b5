------------------------------ MODULE HamLookup ------------------------------
(***************************************************************************)
(* Looking up a callsign in the file on the card (ucHamLookup and          *)
(* vParseRecord of common_library_32x.c): the file is read block by block, *)
(* each beginning a little before the end of the one before it; at every   *)
(* place of a block the callsign with a semicolon is looked for, and the   *)
(* fields are taken from behind each match, other ones past the mark of    *)
(* the repeaters.                                                          *)
(*                                                                         *)
(* A file is a sequence of characters; "newline" ends a line, "mark" is    *)
(* the line of the repeaters.  The sizes to which fields are cut, and that *)
(* a change of the screen gives the search up, are left out.               *)
(***************************************************************************)
EXTENDS Integers, FiniteSets, SequencesExt

CONSTANTS
    Letters,  \* characters of callsigns and fields
    Calls,    \* callsigns
    BufSize,  \* characters of a block (5000)
    StepBack, \* characters of it that the next one begins with (200)
    MaxBuf,   \* a block of less is the last one (256)
    Fields,   \* the last field taken (8)
    RepeaterFields  \* and of a repeater (6)

ASSUME HamAssumption ==
    {BufSize, StepBack, MaxBuf} \subseteq Nat /\ 0 < StepBack /\ StepBack < MaxBuf /\ MaxBuf <= BufSize
ASSUME FieldsAssumption == {Fields, RepeaterFields} \subseteq Nat
ASSUME CallsAssumption ==
    /\ Letters \intersect {";", "newline", "mark"} = {}
    /\ \A call \in Calls : call \in Seq(Letters) /\ Len(call) \in 1..StepBack

Chars == Letters \union {";", "newline", "mark"}
\* The last line of a file is ended; what lies behind it in memory matches nothing.
IsFile(file) ==
    file \in Seq(Chars) /\ Len(file) >= StepBack /\ file[Len(file)] = "newline"

\* Mutant: the next block begins behind this one.
NoStepBack(file, n) == Min({n * BufSize, Len(file)})
\* Where the block begins that is read after n others: behind the end of the file
\* there is nothing, so the last one begins StepBack before it.
BlockStart(file, n) == Min({n * (BufSize - StepBack), Len(file) - StepBack})
ReadBlock(file, n) ==
    SubSeq(file, BlockStart(file, n) + 1, Min({BlockStart(file, n) + BufSize, Len(file)}))
LastBlock(file, n) == Len(ReadBlock(file, n)) < MaxBuf

\* Every place at which the callsign and a semicolon stand, whatever is before them
Matches(text, call) ==
    {i \in 1..(Len(text) - Len(call)) : SubSeq(text, i, i + Len(call)) = Append(call, ";")}
\* How far behind a place the semicolons are
Semicolons(text, i) == {d \in 0..(Len(text) - i) : text[i + d] = ";"}
\* The fields behind a place up to the last one wanted, whatever line they are in, or as
\* far as the text goes: what lies behind a block in memory is nothing of the file.
vParseRecord(text, i, last) ==
    LET semicolons == Semicolons(text, i)
        ends == {d \in semicolons : Cardinality({c \in semicolons : c <= d}) = last + 1}
    IN SubSeq(text, i, IF ends = {} THEN Len(text) ELSE i + Min(ends) - 1)

\* The record taken at a place, from the text that begins behind a start: other
\* fields behind the mark of the repeaters
Repeater(file, at) == \E k \in 1..(at - 1) : file[k] = "mark"
RecordAt(file, text, start, at) ==
    vParseRecord(text, at - start, IF Repeater(file, at) THEN RepeaterFields ELSE Fields)

\* The records taken, one over the other, a longer field of an earlier one not
\* quite: those at all matches in the first block that has one.
ucHamLookup(file, call) ==
    LET with == {n \in 0..Len(file) :
                    /\ Matches(ReadBlock(file, n), call) # {}
                    /\ \A m \in 0..(n - 1) : ~LastBlock(file, m)}
        block == ReadBlock(file, Min(with))
        start == BlockStart(file, Min(with))
    IN IF with = {} THEN {}
       ELSE {[at |-> start + i, record |-> RecordAt(file, block, start, start + i)] :
                i \in Matches(block, call)}

-----------------------------------------------------------------------------
\* A callsign is found exactly when it stands in the file, on whichever side of the
\* end of a block: at its first place, and with it at any other in the same block.  "Fetch
\* data about callsign" does not hold: it need not be a callsign there, the end of a longer
\* one or of a field does as well.  "Step back a bit to cover splits" holds for callsigns;
\* a record is that of its place, whole or cut off at the end of the block.
FindsRecord(file, call) ==
    LET taken == ucHamLookup(file, call)
        places == Matches(file, call)
    IN /\ places # {} => \E t \in taken : t.at = Min(places)
       /\ \A t \in taken :
             /\ t.at \in places /\ t.at < Min(places) + BufSize
             /\ \/ t.record = RecordAt(file, file, 0, t.at)
                \/ /\ IsStrictPrefix(t.record, RecordAt(file, file, 0, t.at))
                   /\ \E n \in 0..Len(file) :
                         t.at + Len(t.record) - 1 = BlockStart(file, n) + BufSize
=============================================================================
