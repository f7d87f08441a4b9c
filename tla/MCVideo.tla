------------------------------ MODULE MCVideo ------------------------------
EXTENDS VideoServices, TLC

\* Two characters of lopsided glyphs.
MCGlyph == [ch \in {65, 66} |->
              IF ch = 65 THEN <<>> @@ [y \in 0..3 |-> 128 + 37 * y + 1]
              ELSE <<>> @@ [y \in 0..3 |-> 240 - 31 * y]]

Mode(mode, clear) == [op |-> "mode", mode |-> mode, clear |-> clear]
Move(page, row, col) == [op |-> "move", page |-> page, row |-> row, col |-> col]
Page(page) == [op |-> "page", page |-> page]
Shape(start, end) == [op |-> "shape", start |-> start, end |-> end]
Window(lines, top, left0, bottom, right) ==
  [lines |-> lines, top |-> top, left |-> left0, bottom |-> bottom, right |-> right]
Scroll(w, attr, down) == [op |-> "scroll", w |-> w, attr |-> attr, down |-> down]
Put(ch, attr, count) == [op |-> "put", ch |-> ch, attr |-> attr, count |-> count]
Write(ch, count) == [op |-> "write", ch |-> ch, count |-> count]
SetColor(palette, x) == [op |-> "colors", palette |-> palette, x |-> x]
Pixel(color, col, row) == [op |-> "pixel", color |-> color, col |-> col, row |-> row]
Type(ch, fg) == [op |-> "tty", ch |-> ch, fg |-> fg]
Registers(al, reg, x, table) == [op |-> "palette", al |-> al, reg |-> reg, x |-> x, table |-> table]
Plain(op) == [op |-> op]

Case(type, before, ops, depth) ==
  [type |-> type, before |-> before, ops |-> ops, depth |-> depth, restarts |-> FALSE]

Text == {Type(65, 7), Type(10, 7), Type(8, 7), Type(13, 7), Put(66, 30, 3), Write(65, 2),
         Move(0, 1, 1), Move(1, 1, 0), Scroll(Window(1, 0, 0, 1, 1), 7, TRUE)}
Pages == {Type(66, 7), Page(0), Page(1), Move(1, 1, 1), Mode(3, TRUE), Mode(1, FALSE),
          Scroll(Window(1, 0, 0, 3, 3), 23, FALSE), Plain("where"), Plain("read"), Mode(7, TRUE)}
TextCases ==
  {Case("CGA", <<Type(65, 7), Type(66, 7)>>, Text, 4),
   Case("VGA", <<Mode(1, TRUE), Type(66, 7)>>, Text, 2),
   Case("MDA", <<Mode(7, TRUE), Put(66, 112, 3)>>, Text \union Pages, 3),
   Case("EGA", <<Put(66, 30, 3), Type(65, 7)>>, Pages \union {Mode(8, TRUE), Mode(9, FALSE)}, 3)}

\* A picture in which no two places are alike, then every way to scroll it.
Drawing(type, mode) ==
  <<Mode(mode, TRUE), Put(65, 3, 1)>> \o
  (IF mode \in CgaModes THEN <<Pixel(2, 9, 1), Pixel(131, 0, 3), Put(66, 131, 1), Put(193, 129, 1)>>
   ELSE <<Move(0, 1, 0), Put(66, 142, 1), Type(65, 5)>>)

Scrolls(mode) ==
  LET r == TextRows(mode) - 1
      c == TextCols(mode) - 1 IN
  {Scroll(w, 5, down) : down \in BOOLEAN,
                        w \in {Window(1, 0, 0, r, c), Window(0, 0, 0, r, c), Window(1, 0, c, r, c),
                               Window(r, 0, 0, r, 0), Window(1, 1, 0, r, c), Window(1, 1, 0, 0, c)}}

Figures == {Type(66, 6), Type(10, 2), Move(0, 1, 0), Put(66, 130, 2)}

GraphicsCases ==
  {Case(p[1], Drawing(p[1], p[2]), Scrolls(p[2]) \union Figures, 3) :
     p \in {<<"CGA", 4>>, <<"CGA", 5>>, <<"CGA", 6>>, <<"EGA", 13>>, <<"EGA", 14>>, <<"EGA", 15>>,
            <<"VGA", 16>>, <<"VGA", 17>>, <<"VGA", 18>>, <<"VGA", 19>>}}

\* Colours, shapes and registers.
Attribute == {Out(AcPort, 16), Out(AcPort, 8), Out(AcPort, 1), Out(AcPort, 33), In(StatusPort),
              In(AcRead), Registers(0, 2, 9, <<>>), Registers(3, 0, 1, <<>>),
              Registers(3, 0, 0, <<>>), Registers(\h1A, 0, 0, <<>>)}
Dac == {Out(DacWriteIndex, 3), Out(DacData, 63), Out(DacData, 7), Out(DacReadIndex, 3), In(DacData),
        Registers(\h10, 3, 0, <<<<1, 2, 3>>>>), Registers(\h17, 3, 1, <<>>)}
Crtc(index, data) ==
  {Out(index, CursorLow), Out(index, CursorStart), Out(index, StartLow), Out(index, 6), Out(index, 9),
   Out(index, \h13), Out(index, CursorEnd), Out(data, 1), Out(data, 32), In(data)}
Planar == {Out(SeqIndex, 2), Out(SeqData, 5), Out(GcIndex, 5), Out(GcIndex, 8), Out(GcIndex, 3),
           Out(GcData, 10), Out(GcData, 1), Poke("A000", 1, 165), Peek("A000", 0)}
Questions == {Plain(op) : op \in {"getmode", "font", "info", "display", "state"}}
               \union {[op |-> "dcc", set |-> x] : x \in {Unset, 7}}

RegisterCases ==
  {Case("VGA", <<Put(66, 158, 3)>>, Attribute, 3),
   Case("EGA", <<Mode(13, TRUE), Put(66, 14, 1), Out(CrtcIndex, \h13)>>,
        Attribute \union {Out(CrtcData, 1), Out(CrtcData, 0), Out(CrtcIndex, StartLow)}, 2),
   Case("VGA", <<Put(66, 49, 3)>>, Dac, 4),
   Case("CGA", <<Put(66, 49, 3)>>, Crtc(CrtcIndex, CrtcData), 2),
   Case("MDA", <<Put(66, 49, 3)>>, Crtc(MonoIndex, MonoData), 2),
   Case("VGA", <<Mode(18, TRUE), Put(66, 14, 1), Out(SeqIndex, 2), Out(GcIndex, 8)>>, Planar, 3),
   Case("VGA", <<Mode(17, TRUE), Put(66, 15, 1), Out(GcIndex, 1), Out(GcData, 3)>>,
        {Out(GcIndex, 0), Out(GcIndex, 5), Out(GcData, 2), Out(GcData, 3), Poke("A000", 2, 97),
         Peek("A000", 2), Peek("B800", 2), Peek("B000", 2)}, 3),
   Case("CGA", <<Put(65, 31, 2)>>,
        {Out(ModePort, 10), Out(ModePort, 26), Out(ModePort, 18), Out(ModePort, 41), Out(ColorPort, 57),
         Out(ColorPort, 15), SetColor(TRUE, 1), SetColor(FALSE, 17), Poke("B800", 3, 228)}, 2),
   Case("VGA", <<Mode(16, TRUE)>>, Questions \union {Mode(3, FALSE), Shape(6, 7), Shape(33, 13)}, 2)}

RestartCases ==
  {[type |-> type, before |-> <<Put(66, 30, 2), Shape(0, 7)>>,
    ops |-> {Type(65, 7), Mode(4, TRUE), Mode(1, TRUE), Page(1), Scroll(Window(1, 0, 0, 1, 1), 7, FALSE)}, depth |-> 3, restarts |-> TRUE] :
     type \in {"HGC", "EGA"}}

MCCases == TextCases \union GraphicsCases \union RegisterCases \union RestartCases
=============================================================================
