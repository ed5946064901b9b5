------------------------------- MODULE MC_Oled -------------------------------
(* An instance of Oled, a small panel, and before it begins one of the     *)
(* computations.                                                           *)
EXTENDS Oled, Computations

MC_Spots == {0, 1, 4}

\* The ends of lines
MC_Ends == {0, 1, 17, 50}
\* Every so many characters is a space.
MC_Texts ==
    {[length |-> n, spaces |-> {p \in 0..(n - 1) : p % period = from}] :
        n \in (1..34) \union {91, 92, 112, 113, 119}, period \in {1, 4, 12, 13, 14, 16, 17, 161},
        from \in 0..3}
\* A callsign that ends another, and one that a field may be
MC_Calls == {<<"A">>, <<"B", "A">>, <<"C">>, <<"D">>}
\* Files of lines of different lengths, some of them repeaters
Line(call, field, other) == call \o <<";">> \o field \o <<";">> \o other \o <<";", "newline">>
MC_Fields == {<<>>, <<"C">>, <<"A", "B">>, <<"B", "A", "A">>}
MC_Files ==
    {FlattenSeq([i \in 1..3 |-> (IF i = first THEN <<"mark">> ELSE <<>>) \o Line(l[i][1], l[i][2], l[i][3])]) :
        l \in {<<<<<<"C">>, x, <<>>>>, <<<<"B", "A">>, y, z>>, <<<<"A">>, z, x>>>> :
                  x \in MC_Fields, y \in MC_Fields, z \in MC_Fields},
        first \in 1..4}
MC_Inputs ==
    [of : {"curves"}, value : 0..300]
    \union [of : {"scale"}, scale : DOMAIN Scales, value : 0..Segments]
    \union [of : {"indicator"}, colour : Used, contrast : 0..15]
    \union [of : {"led"}, r : {0, 1, 6, 240}, g : {0, 1, 6, 240}, b : {0, 1, 6, 240}]
    \union {p \in [of : {"line"}, x1 : MC_Ends, y1 : MC_Ends, x2 : MC_Ends, y2 : MC_Ends] :
               p.x1 # p.x2 /\ p.y1 # p.y2}
    \union [of : {"circle"}, r : 0..50]
    \union [of : {"message", "comment"}, text : MC_Texts]
    \union [of : {"lookup"}, file : MC_Files, call : MC_Calls]
    \union {p \in [of : {"stations"}, empty : 0..ListSize, near : {0, 1, 3}, uiStation : Entries] :
               p.empty + p.near <= ListSize}
    \union [of : {"age"}, heard : {0, 29, 59, 3300, 3599, 86370, 86399},
            age : (0..200) \union (350..370) \union {599, 600, 3599, 3600, 86340, 86399}]
    \union [of : {"bus"}, byte : 0..255, at : {15, 37, 59}, hold : {15, 60}, late : {0, 8, 20}]
    \union [of : {"reset"}, wait : {15, 60}, length : {60, 240}]
    \union [of : {"reading"}, sixteenths : -(55 * 16)..(125 * 16)]
ASSUME InputsAreSome == \A i \in MC_Inputs : i \in Inputs

MC_Init == Init /\ input \in MC_Inputs \union {Through}
MC_Next == \/ Computed /\ UNCHANGED vars
           \/ input = Through /\ Next /\ UNCHANGED input
MC_Spec == MC_Init /\ [][MC_Next]_<<vars, input>>
=============================================================================
