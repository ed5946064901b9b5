------------------------------- MODULE Figures -------------------------------
(***************************************************************************)
(* Where lines and circles are drawn (by1351_DrawLine, by1351_DrawCircle): *)
(* the loops that go from place to place without dividing.                 *)
(***************************************************************************)
EXTENDS Integers

Distance(a, b) == IF a < b THEN b - a ELSE a - b
Towards(a, b) == IF a < b THEN 1 ELSE -1
\* C's division, towards zero
Half(n) == IF n < 0 THEN 0 - ((0 - n) \div 2) ELSE n \div 2

\* Bresenham: the places from one end to the other, of a line neither level nor upright
Further(p, x1, y1, x2, y2) ==
    LET dx == Distance(x1, x2)  dy == Distance(y1, y2)
        across == p.err > 0 - dx  down == p.err < dy
    IN [x |-> IF across THEN p.x + Towards(x1, x2) ELSE p.x,
        y |-> IF down THEN p.y + Towards(y1, y2) ELSE p.y,
        err |-> p.err - (IF across THEN dy ELSE 0) + (IF down THEN dx ELSE 0)]
Long(x1, y1, x2, y2) ==
    IF Distance(x1, x2) > Distance(y1, y2) THEN Distance(x1, x2) ELSE Distance(y1, y2)
Slope(x1, y1, x2, y2) ==
    LET dx == Distance(x1, x2)  dy == Distance(y1, y2)
        at[n \in 0..Long(x1, y1, x2, y2)] ==
            IF n = 0 THEN [x |-> x1, y |-> y1, err |-> Half(IF dx > dy THEN dx ELSE 0 - dy)]
            ELSE Further(at[n - 1], x1, y1, x2, y2)
    IN [i \in 1..(Long(x1, y1, x2, y2) + 1) |-> at[i - 1]]

\* An eighth of a circle, from the row of its centre on: the next row, and how far in
NextRow(p, y) ==
    LET x == IF p.toggle <= 0 THEN p.x ELSE p.x - 1
    IN [x |-> x, toggle |-> p.toggle + 1 + 2 * (IF p.toggle <= 0 THEN y ELSE y - x)]
Octant(r) ==
    LET at[y \in 0..r] == IF y = 0 THEN [x |-> r, toggle |-> 1 - r] ELSE NextRow(at[y - 1], y)
    IN [y \in {y \in 0..r : at[y].x >= y} |-> at[y].x]

-----------------------------------------------------------------------------
(* What they are to do                                                     *)

\* A line goes from end to end, ending there and not before, by a place in every column
\* or row of the longer side, none farther than half a place from the straight one.
StraightLine(x1, y1, x2, y2) ==
    LET slope == Slope(x1, y1, x2, y2)
        long == Long(x1, y1, x2, y2)
    IN /\ slope[1].x = x1 /\ slope[1].y = y1
       /\ \A i \in 1..(long + 1) :
              /\ slope[i].x = x2 /\ slope[i].y = y2 <=> i = long + 1
              /\ IF Distance(x1, x2) > Distance(y1, y2) THEN Distance(x1, slope[i].x) = i - 1
                 ELSE Distance(y1, slope[i].y) = i - 1
              /\ 2 * Distance((slope[i].x - x1) * (y2 - y1), (slope[i].y - y1) * (x2 - x1)) <= long

\* The places are half a place from the circle at most, and the eighth and its mirror
\* image have one in every row: the loop ends where they meet.
RoundCircle(r) ==
    LET octant == Octant(r)
    IN /\ \A y \in DOMAIN octant :
              /\ 0..y \subseteq DOMAIN octant
              /\ r * r \in (octant[y] * octant[y] - octant[y] + y * y)..(octant[y] * octant[y] + octant[y] + y * y)
       /\ DOMAIN octant \union {octant[y] : y \in DOMAIN octant} = 0..r
=============================================================================
