----------------------------- MODULE StationList -----------------------------
(***************************************************************************)
(* The list of stations: the knob in it (vNavigateMenus, uiStation), the   *)
(* rows of its screen (vDisplayAprsList), and the age of a station, by     *)
(* which it is coloured and counted (vUpdateScales).                       *)
(*                                                                         *)
(* The list is sorted by distance, and an entry without a station has      *)
(* distance 0: the empty ones come first.  Times are the digits of a clock *)
(* read as a number, as vFetchData makes them of cGpsTime.                 *)
(***************************************************************************)
EXTENDS Integers, FiniteSets, SequencesExt

CONSTANT ListSize  \* APRS_ARRAYSIZE, 50

ASSUME ListAssumption == ListSize \in 2..255

Entries == 0..(ListSize - 1)
\* uiStation is a byte.
Station == 0..255
Stations(empty) == {s \in Entries : s >= empty}

\* To the right: from the entry shown to the next station, and one on
StationRight(stations, uiStation) ==
    LET up[s \in Station] == IF s >= ListSize \/ s \in stations THEN s ELSE up[s + 1]
    IN IF up[uiStation] + 1 >= ListSize THEN 0 ELSE up[uiStation] + 1

\* To the left: one back, and on to a station or to entry 0, if that is not where it
\* begins.  Behind the list anything may be found.
StationLeft(stations, uiStation) ==
    LET down[s \in Station] ==
            IF s >= ListSize \/ s \in stations THEN s
            ELSE IF s = 1 THEN 0 ELSE down[(s + 255) % 256]
    IN down[IF uiStation > 0 THEN uiStation - 1 ELSE ListSize - 1]

\* The rows of the list: the first eight with a callsign and farther than 20 metres
Listed(far) ==
    LET rows[n \in 0..ListSize] ==  \* after n entries
            IF n = 0 THEN <<>>
            ELSE IF n - 1 \in far /\ Len(rows[n - 1]) < 8 THEN Append(rows[n - 1], n - 1)
            ELSE rows[n - 1]
    IN rows[ListSize]

\* Hours, minutes and seconds, two digits each, of the seconds of some
\* day.  A station's uiTime, set by the sensor box, is taken to be of that form, too.
uiGpsTime(seconds) ==
    LET s == seconds % 86400
    IN 10000 * (s \div 3600) + 100 * ((s \div 60) % 60) + (s % 60)
\* The difference is unsigned: a negative one is huge.
Younger(now, uiTime, than) == now >= uiTime /\ now - uiTime < than
Ages == {30, 60, 120, 180}
\* From 0, for white, to 4, for blue
AgeColour(now, uiTime) == Cardinality({a \in Ages : ~Younger(now, uiTime, a)})
APRS_STALE == 600
IsCounted(now, uiTime) == Younger(now, uiTime, APRS_STALE)

-----------------------------------------------------------------------------
(* What they are to do                                                     *)

\* The rows are the nearest stations in their order, behind those too near: all from
\* some entry on are far.
ListsNearest(from) ==
    LET rows == Listed(Stations(from))
    IN /\ \A k \in DOMAIN rows : rows[k] = from + k - 1
       /\ Len(rows) = 8 \/ Range(rows) = Stations(from)

\* A station is never taken for younger than it is, nor counted when it is stale, and
\* within a minute it is coloured right.  The converse, that it is counted up to the
\* seconds of APRS_STALE ("Don't count station if older than n seconds"), does not hold: the
\* digits of a clock do not count its seconds.  Within an hour, six minutes are six hundred.
AgeShown(heard, age) ==
    LET now == uiGpsTime(heard + age)
        uiTime == uiGpsTime(heard)
        older == Cardinality({a \in Ages : a <= age})
    IN /\ AgeColour(now, uiTime) >= older
       /\ (heard + age) \div 60 = heard \div 60 => AgeColour(now, uiTime) = older
       /\ IsCounted(now, uiTime) => age < APRS_STALE

\* The entries shown by as many turns as there are entries, from where a push enters
\* the list
Shown(Turn(_, _), stations) ==
    LET after[n \in 0..ListSize] == IF n = 0 THEN 0 ELSE Turn(stations, after[n - 1])
    IN {after[n] : n \in 0..ListSize}

\* A turn stays in the list, and one to the left comes to a station or to its begin:
\* but from entry 1 to an empty entry 0 it runs out of the list.
StaysInList(empty, uiStation) ==
    LET left == StationLeft(Stations(empty), uiStation)
    IN /\ StationRight(Stations(empty), uiStation) \in Entries
       /\ IF uiStation = 1 /\ empty > 0 THEN left \notin Entries
          ELSE left \in Stations(empty) \union {0}
\* Turned round, the knob shows every station: but to the right the nearest is left
\* out behind empty entries.
ShowsStations(empty) ==
    /\ Stations(empty) \ Shown(StationRight, Stations(empty)) = IF empty > 0 THEN {empty} \intersect Entries ELSE {}
    /\ Stations(empty) \subseteq Shown(StationLeft, Stations(empty))
=============================================================================
