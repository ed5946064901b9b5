------------------------------ MODULE AprsSort ------------------------------
(***************************************************************************)
(* The ordering of the APRS station list in vFetchData (can.c): a bubble   *)
(* sort on the station's distance, run inside the CAN receive interrupt.   *)
(* A station is represented by its distance, the only field the sort and   *)
(* its caller compare.                                                     *)
(***************************************************************************)
EXTENDS Naturals, Sequences, FiniteSets, SequencesExt

\* Mutant: a station is copied over its neighbour.
CompareCopy(list, i) == IF list[i] > list[i + 1] THEN [list EXCEPT ![i] = list[i + 1]] ELSE list

\* One comparison of the inner loop: neighbours i and i + 1 change places
\* when the nearer station stands behind.
CompareSwap(list, i) ==
  IF list[i] > list[i + 1]
    THEN [list EXCEPT ![i] = list[i + 1], ![i + 1] = list[i]]
    ELSE list

\* Mutant: a pass stops one pair too early.
ShortPass(list, j) ==
  FoldLeft(CompareSwap, list, [k \in 1..(Len(list) - 2 - j) |-> k])

\* Outer-loop pass j (j = 0, 1, ...): the pairs 1 .. n-1-j, in order.
Pass(list, j) ==
  FoldLeft(CompareSwap, list, [k \in 1..(Len(list) - 1 - j) |-> k])

\* The whole double loop.
BubbleSort(list) ==
  FoldLeft(Pass, list, [j \in 1..(Len(list) - 1) |-> j - 1])

-----------------------------------------------------------------------------
\* The reference: nearest first, and nothing lost or invented.
NearestFirst(list) == \A i \in 1..(Len(list) - 1) : list[i] <= list[i + 1]

SameStations(a, b) ==
  /\ Len(a) = Len(b)
  /\ \A d \in ToSet(a) \union ToSet(b) :
       Cardinality({i \in DOMAIN a : a[i] = d}) = Cardinality({i \in DOMAIN b : b[i] = d})
=============================================================================
