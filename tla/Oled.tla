-------------------------------- MODULE Oled --------------------------------
(***************************************************************************)
(* Drawing on the display (ssd1351_drv.c): every drawing is a stream of    *)
(* commands, their data, and pixels to the SSD1351, which puts a pixel     *)
(* where its window and the direction of its scan say.                     *)
(*                                                                         *)
(* The main loop's drawings go out element by element; the switch          *)
(* interrupt clears the panel or a part of it between any two of them, and *)
(* nothing tells the drawing that is cut off.  The two bytes of a pixel    *)
(* are one element; what a drawing cut off paints is not looked at.        *)
(***************************************************************************)
EXTENDS Figures, FiniteSets, SequencesExt

CONSTANTS
    Side,   \* of the panel (128)
    Cell,   \* height and width of a small character (8)
    Tall,   \* height of a large one (24)
    Band,   \* lines of a picture that are read at a time (16)
    Spots   \* bound: the coordinates drawings start and end at

ASSUME OledAssumption ==
    /\ {Side, Cell, Tall, Band} \subseteq Nat \ {0}
    /\ Side % Band = 0 /\ Spots \subseteq 0..(Side - 1)

End == Side - 1

-----------------------------------------------------------------------------
(* What goes to the controller                                             *)

vCommand(c) == <<[to |-> "command", is |-> c]>>
vData(d) == <<[to |-> "data", is |-> d]>>
Colour == <<>>
\* A pixel of some colour, or of the place <<x, y>> in what is drawn
Pixel(of) == [to |-> "pixel", is |-> of]
by1351_WriteColors(n) == [i \in 1..n |-> Pixel(Colour)]

Columns(from, to) == vCommand("column") \o vData(from) \o vData(to)
Rows(from, to) == vCommand("row") \o vData(from) \o vData(to)
WriteRam == vCommand("write")
Window(x1, x2, y1, y2) == Columns(x1, x2) \o Rows(y1, y2) \o WriteRam
Scan(direction) == vCommand("remap") \o vData(direction)

by1351_Reset == Columns(0, End) \o Rows(0, End)
by1351_Clear == Window(0, End, 0, End) \o by1351_WriteColors(Side * Side)
by1351_SetContrast == vCommand("contrast") \o vData(0)
\* Unlock before; power, start lines and colours, and "sleep off" after
by1351_Initialize ==
    vCommand("other") \o Scan("across") \o vCommand("other") \o by1351_Clear \o vCommand("other")

by1351_PrepareFrame(y1, y2) == Window(0, End, y1, y2)
by1351_WriteFrame(buffer) == [i \in DOMAIN buffer |-> Pixel(buffer[i])]
by1351_WriteSprite(x, y, w, h) ==
    Window(x, x + w - 1, y, y + h - 1)
    \o [i \in 1..(w * h) |-> Pixel(<<x + ((i - 1) % w), y + ((i - 1) \div w)>>)]
    \o by1351_Reset
by1351_DrawPixel(x, y) == Window(x, End, y, End) \o by1351_WriteColors(1) \o by1351_Reset

\* One pixel less than there are rows: callers add the last or do without.
VerticalLine(x, y1, y2) ==
    Scan("down") \o Window(x, x, y1, y2) \o by1351_WriteColors(y2 - y1) \o Scan("across")
\* Mutant: one pixel less, as if the last were added by callers here, too
LevelLine(x1, x2, y) == Window(x1, x2, y, y) \o by1351_WriteColors(x2 - x1)
HorizontalLine(x1, x2, y) == Window(x1, x2, y, y) \o by1351_WriteColors(x2 - x1 + 1)

SlantedLine(x1, y1, x2, y2) ==
    LET slope == Slope(x1, y1, x2, y2)
    IN FlattenSeq([i \in DOMAIN slope |-> by1351_DrawPixel(slope[i].x, slope[i].y)]) \o by1351_Reset
by1351_DrawLine(x1, y1, x2, y2) ==
    IF x1 = x2 THEN VerticalLine(x1, y1, y2)
    ELSE IF y1 = y2 THEN HorizontalLine(x1, x2, y1)
    ELSE SlantedLine(x1, y1, x2, y2)

\* One pixel more than there are: the window takes it to where it began.
FilledRectangle(x1, y1, x2, y2) ==
    Window(x1, x2, y1, y2) \o by1351_WriteColors((x2 - x1 + 1) * (y2 - y1 + 1) + 1)
OutlinedRectangle(x1, y1, x2, y2) ==
    by1351_DrawLine(x1, y1, x1, y2) \o by1351_DrawLine(x1, y1, x2, y1)
    \o by1351_DrawLine(x2, y1, x2, y2) \o by1351_DrawLine(x1, y2, x2, y2)

by1351_DrawCircle(cx, cy, r, filled) ==
    LET octant == Octant(r)
        Drawn(y) == LET x == octant[y] IN
            IF filled
            THEN by1351_DrawLine(cx - y, cy - x, cx + y, cy - x)
                 \o by1351_DrawLine(cx - x, cy - y, cx + x, cy - y)
                 \o by1351_DrawLine(cx - x, cy + y, cx + x, cy + y)
                 \o by1351_DrawLine(cx - y, cy + x, cx + y, cy + x)
            ELSE FlattenSeq([i \in 1..8 |->
                     LET a == IF i \in {1, 2, 7, 8} THEN y ELSE x
                         b == IF i \in {1, 2, 7, 8} THEN x ELSE y
                     IN by1351_DrawPixel(IF i % 2 = 1 THEN cx + a ELSE cx - a,
                                         IF i < 5 THEN cy - b ELSE cy + b)])
    IN FlattenSeq([i \in 1..Cardinality(DOMAIN octant) |-> Drawn(i - 1)]) \o by1351_Reset

\* The end of a text's window is one column on, if the panel has it.
TextEnd(x, width) == IF x + width > End THEN End ELSE x + width
\* The characters there is room for, as far as the code counts: in small ones.
RoomFor(x, length) == Cardinality({i \in 0..(length - 1) : x + i * Cell <= End - Cell + 1})
by1351_DrawText(x, y, length, size) ==
    LET height == Cell * size
    IN Scan("down")
       \o Window(x, TextEnd(x, length * height), y, y + height - 1)
       \o [i \in 1..(RoomFor(x, length) * height * height) |->
              Pixel(<<x + ((i - 1) \div height), y + ((i - 1) % height)>>)]
       \o Scan("across")

\* The columns of large characters: a space, or a glyph with its first column
\* drawn twice, and a blank one behind it
Space == 0
ColumnsOf(glyph) == IF glyph = Space THEN 2 ELSE glyph + 2
Length(glyphs) == FoldLeft(LAMBDA n, g : n + ColumnsOf(g), 0, glyphs)
vInsertBlankCol(columns) == by1351_WriteColors(columns * Tall)
by1351_DrawLargeText(x, y, glyphs, pad) ==
    Scan("down") \o Window(x, End, y, y + Tall - 1)
    \o FlattenSeq([i \in DOMAIN glyphs |-> by1351_WriteColors(Tall * ColumnsOf(glyphs[i]))])
    \o (IF pad /\ x + Length(glyphs) < Side THEN vInsertBlankCol(Side - x - Length(glyphs)) ELSE <<>>)
    \o Scan("across")

\* A picture of the panel's size from its file: last line first, a band at a
\* time, turned over in the band's buffer
FromFile(line, x) == <<x, End - line>>
BandBuffer(j) ==
    [i \in 1..(Band * Side) |->
        FromFile(j * Band + Band - 1 - ((i - 1) \div Side), (i - 1) % Side)]
BandFrame(j) ==
    LET bands == Side \div Band
    IN by1351_PrepareFrame(Band * (bands - 1 - j), Band * (bands - j) - 1)
ucDisplayImage ==
    FlattenSeq([j \in 1..(Side \div Band) |->
                   BandFrame(j - 1) \o by1351_WriteFrame(BandBuffer(j - 1))])

\* A film: of each frame a header, then the lines of a picture.  What is read next
\* is counted in lines.
FrameLength == Side + 1
FromFilm(at, x) == <<x, Side - (at % FrameLength)>>
FilmBuffer(at) == [i \in 1..(Band * Side) |->
                      FromFilm(at + Band - 1 - ((i - 1) \div Side), (i - 1) % Side)]
vVidfromSD(ulFrames) ==
    FlattenSeq([n \in 1..(ulFrames * (Side \div Band)) |->
        LET frame == (n - 1) \div (Side \div Band)  j == (n - 1) % (Side \div Band)
        IN BandFrame(j) \o by1351_WriteFrame(FilmBuffer(frame * FrameLength + 1 + j * Band))])

-----------------------------------------------------------------------------
(* The drawings the program makes, and the streams they are                *)

Centre == Side \div 2
Lined(p) == (p.x1 = p.x2 => p.y1 <= p.y2) /\ (p.y1 = p.y2 => p.x1 <= p.x2)
Ordered(p) == p.x1 <= p.x2 /\ p.y1 <= p.y2
Glyphs == {<<>>, <<1>>, <<Space, 1>>, <<2>>}
Drawings ==
    [draw : {"clear", "initialize", "contrast", "scales", "picture"}]
    \union [draw : {"film"}, frames : 1..2]
    \union {p \in [draw : {"line"}, x1 : Spots, y1 : Spots, x2 : Spots, y2 : Spots] : Lined(p)}
    \union {p \in [draw : {"filled", "outlined"}, x1 : Spots, y1 : Spots, x2 : Spots, y2 : Spots] :
               Ordered(p) /\ (p.draw = "outlined" => p.x1 < p.x2 /\ p.y1 < p.y2)}
    \union [draw : {"pixel"}, x : Spots, y : Spots]
    \union {p \in [draw : {"sprite"}, x : Spots, y : Spots] : p.x + Cell <= Side /\ p.y + Cell <= Side}
    \union [draw : {"circle", "disc"}, r : 1..(Centre - 1)]
    \union {p \in [draw : {"text"}, x : Spots, y : Spots, length : 0..3, size : 1..2] :
               /\ p.y + p.size * Cell <= Side
               /\ p.size = 1 \/ p.x + p.length * p.size * Cell <= Side}
    \union {p \in [draw : {"large"}, x : Spots, y : Spots, glyphs : Glyphs, pad : BOOLEAN] :
               p.y + Tall <= Side /\ p.x + Length(p.glyphs) <= Side}

Stream == [p \in Drawings |->
    CASE p.draw = "clear" -> by1351_Clear
      [] p.draw = "initialize" -> by1351_Initialize
      [] p.draw = "contrast" -> by1351_SetContrast
      [] p.draw = "scales" -> Scan("across")   \* the end of vUpdateScales
      [] p.draw = "picture" -> ucDisplayImage
      [] p.draw = "film" -> vVidfromSD(p.frames)  \* those shown before it is aborted
      [] p.draw = "line" -> by1351_DrawLine(p.x1, p.y1, p.x2, p.y2)
      [] p.draw = "filled" -> FilledRectangle(p.x1, p.y1, p.x2, p.y2)
      [] p.draw = "outlined" -> OutlinedRectangle(p.x1, p.y1, p.x2, p.y2)
      [] p.draw = "pixel" -> by1351_DrawPixel(p.x, p.y)
      [] p.draw = "sprite" -> by1351_WriteSprite(p.x, p.y, Cell, Cell)
      [] p.draw = "circle" -> by1351_DrawCircle(Centre, Centre, p.r, FALSE)
      [] p.draw = "disc" -> by1351_DrawCircle(Centre, Centre, p.r, TRUE)
      [] p.draw = "text" -> by1351_DrawText(p.x, p.y, p.length, p.size)
      [] p.draw = "large" -> by1351_DrawLargeText(p.x, p.y, p.glyphs, p.pad)]

\* vNavigateMenus leaves the intro's subscreen or enters one.
Wipes == {[draw |-> "clear"]}
         \union {[draw |-> "filled", x1 |-> 0, y1 |-> y, x2 |-> End, y2 |-> End - y] : y \in {0, 1}}

-----------------------------------------------------------------------------
(* The controller                                                          *)

VARIABLES
    oled,      \* the controller: command, arguments, window, cursor, scan; what it painted
    drawing,   \* the main loop's
    sent,      \* elements of it that are out
    cut,       \* the interrupt came in between (history)
    turned,    \* the last drawing that set the scan was cut off (history)
    complete   \* the drawing that is just complete, or Nothing (history)

Nothing == [draw |-> "nothing"]
vars == <<oled, drawing, sent, cut, turned, complete>>

\* After the last place of the window comes its first.
Next1(i, range) == IF i = range[2] THEN range[1] ELSE i + 1
Advance(o) ==
    LET x == o.cursor[1]  y == o.cursor[2]
    IN IF o.scan = "across"
       THEN <<Next1(x, o.column), IF x = o.column[2] THEN Next1(y, o.row) ELSE y>>
       ELSE <<IF y = o.row[2] THEN Next1(x, o.column) ELSE x, Next1(y, o.row)>>
Take(o, e) ==
    CASE e.to = "command" ->
           [o EXCEPT !.command = e.is, !.arguments = 0,
                     !.cursor = IF e.is = "write" THEN <<o.column[1], o.row[1]>> ELSE @]
      [] e.to = "pixel" /\ o.command = "write" ->
           [o EXCEPT !.cursor = Advance(o), !.painted = @ \union {o.cursor},
                     !.right = @ /\ e.is \in {Colour, o.cursor}]
      [] e.to = "data" /\ o.command \in {"column", "row"} /\ o.arguments < 2 ->
           IF o.command = "column"
           THEN [o EXCEPT !.column[o.arguments + 1] = e.is, !.arguments = @ + 1]
           ELSE [o EXCEPT !.row[o.arguments + 1] = e.is, !.arguments = @ + 1]
      [] e.to = "data" /\ o.command = "remap" -> [o EXCEPT !.scan = e.is]
      [] OTHER -> o
Blank(o) == [o EXCEPT !.painted = {}, !.right = TRUE]

Fresh == [command |-> "other", arguments |-> 0, column |-> <<0, End>>, row |-> <<0, End>>,
          cursor |-> <<0, 0>>, scan |-> "across", painted |-> {}, right |-> TRUE]
Init ==
    /\ oled = Fresh
    /\ drawing = [draw |-> "initialize"] /\ sent = 0
    /\ cut = FALSE /\ turned = FALSE /\ complete = Nothing

Elements == Len(Stream[drawing])
SetsScan(p) == p.draw \in {"initialize", "scales", "text", "large", "outlined", "disc"}
               \/ (p.draw = "line" /\ p.x1 = p.x2)

\* The main loop: the next element, or the next drawing.
Send ==
    /\ sent < Elements /\ sent' = sent + 1
    /\ LET o == Take(oled, Stream[drawing][sent + 1]) IN oled' = IF cut THEN Blank(o) ELSE o
    /\ IF sent' < Elements THEN complete' = Nothing /\ UNCHANGED turned
       ELSE /\ complete' = IF cut THEN Nothing ELSE drawing
            /\ turned' = IF SetsScan(drawing) THEN cut ELSE turned
    /\ UNCHANGED <<drawing, cut>>
Draw ==
    /\ sent = Elements
    /\ drawing' \in Drawings /\ sent' = 0 /\ cut' = FALSE
    /\ oled' = Blank(oled) /\ complete' = Nothing
    /\ UNCHANGED turned

\* The switch interrupt, from beginning to end: once in a drawing, as pushes are
\* further apart than drawings take (a bound).
All(o, s) ==
    LET after[n \in 0..Len(s)] == IF n = 0 THEN o ELSE Take(after[n - 1], s[n])
    IN after[Len(s)]
Wipe(p) == IF p.draw = "clear" THEN by1351_Clear ELSE FilledRectangle(p.x1, p.y1, p.x2, p.y2)
\* A wipe sets all of the controller but its scan: what it ends in, once for each.
Wiped == [scan \in {"across", "down"}, p \in Wipes |-> All([Fresh EXCEPT !.scan = scan], Wipe(p))]
Interrupt ==
    /\ ~cut /\ sent > 0 /\ cut' = (sent < Elements)
    /\ complete' \in Wipes
    /\ oled' = Wiped[oled.scan, complete']
    /\ UNCHANGED <<drawing, sent, turned>>

Next == Send \/ Draw \/ Interrupt
Spec == Init /\ [][Next]_vars

-----------------------------------------------------------------------------
(* Properties                                                              *)

Box(x1, y1, x2, y2) == {p \in (0..End) \X (0..End) : p[1] \in x1..x2 /\ p[2] \in y1..y2}
\* As a line should run: both ends, a place in every column or row of the longer
\* side, and none farther than half a place from the straight line.
Straight(p, places) ==
    LET dx == p.x2 - p.x1  dy == p.y2 - p.y1
        long == IF Distance(0, dx) > Distance(0, dy) THEN Distance(0, dx) ELSE Distance(0, dy)
    IN /\ {<<p.x1, p.y1>>, <<p.x2, p.y2>>} \subseteq places
       /\ Cardinality(places) = long + 1
       /\ \A q \in places : 2 * Distance((q[1] - p.x1) * dy, (q[2] - p.y1) * dx) <= long
\* The places whose middle is at most half a place from a circle, along the longer
\* of their distances from its centre
Near(r) == {p \in (0..End) \X (0..End) :
    LET dx == Distance(p[1], Centre)  dy == Distance(p[2], Centre)
        long == IF dx > dy THEN dx ELSE dy  short == IF dx > dy THEN dy ELSE dx
    IN r * r \in (long * long - long + short * short)..(long * long + long + short * short)}
Height(r) == (Centre - r)..(Centre + r)
\* A circle stays near the true one, reaches every row, and is as its mirror images are.
Round(r, places) ==
    /\ places \subseteq Near(r)
    /\ {p[2] : p \in places} = Height(r)
    /\ \A p \in places : {<<p[2], p[1]>>, <<Side - p[1], p[2]>>} \subseteq places
\* A disc has its rows filled out to the circle.
Solid(r, places) ==
    /\ {p[2] : p \in places} = Height(r)
    /\ \A y \in Height(r) : \E q \in Near(r) :
           /\ q[2] = y
           /\ {p \in places : p[2] = y} =
                  {p \in (0..End) \X {y} : Distance(p[1], Centre) <= Distance(q[1], Centre)}
Painted(p, places) ==
    CASE p.draw \in {"contrast", "scales"} -> places = {}
      [] p.draw \in {"clear", "initialize", "picture"} -> places = Box(0, 0, End, End)
      [] p.draw = "film" -> places = Box(0, 0, End, End)
      [] p.draw = "filled" -> places = Box(p.x1, p.y1, p.x2, p.y2)
      [] p.draw = "outlined" ->
           places = Box(p.x1, p.y1, p.x2, p.y2) \ Box(p.x1 + 1, p.y1 + 1, p.x2 - 1, p.y2 - 1)
      [] p.draw = "line" ->
           IF p.x1 = p.x2 THEN places = Box(p.x1, p.y1, p.x1, p.y2 - 1)
           ELSE Straight(p, places)
      [] p.draw = "pixel" -> places = {<<p.x, p.y>>}
      [] p.draw = "sprite" -> places = Box(p.x, p.y, p.x + Cell - 1, p.y + Cell - 1)
      [] p.draw = "circle" -> Round(p.r, places)
      [] p.draw = "disc" -> Solid(p.r, places)
      [] p.draw = "text" ->
           places = Box(p.x, p.y, p.x + RoomFor(p.x, p.length) * p.size * Cell - 1, p.y + p.size * Cell - 1)
      [] p.draw = "large" ->
           places = Box(p.x, p.y, IF p.pad THEN End ELSE p.x + Length(p.glyphs) - 1, p.y + Tall - 1)

\* Every drawing that is not cut off, and the interrupt's own, paints the places
\* asked for and each with its part of the drawing, whatever one cut off before it
\* has left in the controller: only pictures, films and sprites come out turned as
\* long as the last drawing that set the scan was cut off.
DrawnAsAsked ==
    complete # Nothing =>
        /\ Painted(complete, oled.painted)
        /\ oled.right \/ (turned /\ complete.draw \in {"picture", "film", "sprite"})
=============================================================================
