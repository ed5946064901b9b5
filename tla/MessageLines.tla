---------------------------- MODULE MessageLines ----------------------------
(***************************************************************************)
(* The last short message on the GSM screen (vDisplayGsm) and the comment  *)
(* of a station (vDisplayAprsList): broken at spaces where a line is long  *)
(* enough, in the middle of words where not.  Characters are known by      *)
(* their places from 0, and whether they are spaces.                       *)
(***************************************************************************)
EXTENDS Integers, SequencesExt

MaxLines == 7  \* of a message
LineLength == 16

\* The loop advances pP to the first of: a space in a line of 12, a full line, the
\* end.  A line, which begins at pQ, is the places of its characters.
Breaks(spaces, pQ, pP) == pP - pQ > 11 /\ pP \in spaces
LineEnd(spaces, length, pQ) ==
    Min({pP \in pQ..length : Breaks(spaces, pQ, pP) \/ pP - pQ > 14 \/ pP = length})
NextLine(spaces, length, pQ) ==
    LET pP == LineEnd(spaces, length, pQ)
    IN IF Breaks(spaces, pQ, pP) THEN (IF pQ \in spaces THEN pQ + 1 ELSE pQ)..(pP - 1)
       ELSE {p \in pQ..(pQ + LineLength - 1) : p < length}

Break(spaces, length, s) ==
    IF s.pQ > length THEN s
    ELSE [pQ |-> LineEnd(spaces, length, s.pQ) + 1,
          lines |-> Append(s.lines, NextLine(spaces, length, s.pQ))]
Broken(spaces, length, most) ==
    LET s[k \in 0..most] ==
            IF k = 0 THEN [pQ |-> 0, lines |-> <<>>] ELSE Break(spaces, length, s[k - 1])
    IN s[most].lines
MessageShown(spaces, length) == Broken(spaces, length, MaxLines)
\* A comment has no end but its own, and a line takes 13 of it.
CommentShown(spaces, length) == Broken(spaces, length, length \div 13 + 1)

\* The tops of the comment's lines, and of those with the owner's record
CommentTops(k) == {24 + 9 * i : i \in 0..(k - 1)}
RecordTops(k) ==
    IF k > 8 THEN {} ELSE IF k > 7 THEN {77} ELSE IF k > 6 THEN {77, 86} ELSE {77, 86, 95}
BottomBar == 105

-----------------------------------------------------------------------------
(* What they are to do                                                     *)

\* Lines fit the display and follow each other.
InLines(lines) ==
    /\ \A k \in DOMAIN lines : Cardinality(lines[k]) <= LineLength
    /\ \A k, l \in DOMAIN lines : k < l => \A p \in lines[k], q \in lines[l] : p < q
Missing(lines, spaces, length) == (0..(length - 1)) \ (spaces \union UNION Range(lines))
\* A message misses spaces only, and what comes after its last line: which it has no
\* need of if it breaks wherever it first may.
MessageRight(spaces, length) ==
    LET lines == MessageShown(spaces, length)
        missing == Missing(lines, spaces, length)
    IN /\ InLines(lines)
       /\ missing # {} => Len(lines) = MaxLines /\ length > MaxLines * 13
       /\ \A p \in missing, q \in UNION Range(lines) : q < p

\* A comment, the record and the bar below are apart: but with seven and eight lines
\* the record is written where it is with less, and the tenth is under the bar.
CommentRight(spaces, length) ==
    LET lines == CommentShown(spaces, length)
        k == Len(lines)
        Apart(tops, others) == \A t \in tops, o \in others : t + 8 <= o \/ o + 8 <= t
    IN /\ InLines(lines) /\ Missing(lines, spaces, length) = {}
       /\ Apart(CommentTops(k), RecordTops(k)) <=> k \notin {7, 8}
       /\ Apart(CommentTops(k), {BottomBar}) <=> k < 10
=============================================================================
