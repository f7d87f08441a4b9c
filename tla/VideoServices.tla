--------------------------- MODULE VideoServices ---------------------------
(***************************************************************************)
(* The BIOS video services: INT 10h of                                     *)
(* core/src/cpu/bios/int10_video_services.rs, the video fields of the BIOS *)
(* data area, and the window a front end shows.                            *)
(*                                                                         *)
(* One step is one request of a program: an INT 10h function, a port or a  *)
(* byte of video memory.  A request is a record whose op names it.  The    *)
(* emulator runs a whole INT 10h between two instructions, and a front end *)
(* refreshes its window between instructions, so both are single steps.    *)
(* Every case is an adapter, the requests its program draws from and how   *)
(* many it makes.                                                          *)
(*                                                                         *)
(* Glyphs are always those of the ROM: a program that redirects INT 43h is *)
(* not modelled.                                                           *)
(***************************************************************************)
EXTENDS VideoCard

\* A byte of a register, and a window of the screen that AH=06h scrolls.
Octet   == 0..255
Windows == {w \in [lines: Octet, top: Octet, left: Octet, bottom: Octet, right: Octet] :
              w.top + w.lines <= 255 /\ w.bottom + w.lines <= 255}

\* What a program may ask for.
Requests ==
  [op: {"mode"}, mode: 0..127, clear: BOOLEAN]
  \union [op: {"shape"}, start: Octet, end: Octet]
  \union [op: {"move"}, page: 0..7, row: Octet, col: Octet]
  \union [op: {"page"}, page: Octet]
  \union [op: {"scroll"}, w: Windows, attr: Octet, down: BOOLEAN]
  \union [op: {"put"}, ch: Octet, attr: Octet, count: Nat]
  \union [op: {"write"}, ch: Octet, count: Nat]
  \union [op: {"colors"}, palette: BOOLEAN, x: Octet]
  \union [op: {"pixel"}, color: Octet, col: Nat, row: Nat]
  \union [op: {"tty"}, ch: Octet, fg: Octet]
  \union [op: {"palette"}, al: Octet \ {\h10, \h12}, reg: Octet, x: Octet, table: Seq(Octet)]
  \union [op: {"palette"}, al: {\h10, \h12}, reg: Octet, x: Octet,
           table: Seq(Octet \X Octet \X Octet)]
  \union [op: {"dcc"}, set: {Unset} \union Octet]
  \union [op: {"out"}, port: Nat, x: Octet]
  \union [op: {"in"}, port: Nat]
  \union [op: {"poke"}, window: {"A000", "B000", "B800"}, at: 0..Plane-1, x: Octet]
  \union [op: {"peek"}, window: {"A000", "B000", "B800"}, at: 0..Plane-1]
  \union [op: {"where", "read", "getmode", "font", "info", "display", "state"}]

CONSTANT Cases   \* records [type, before, ops, depth, restarts]: before is done at once

ASSUME CasesAssumption ==
  \A c \in Cases : /\ c.type \in {"MDA", "HGC", "CGA", "EGA", "VGA"}
                   /\ c.before \in Seq(Requests) /\ c.ops \subseteq Requests
                   /\ c.depth \in Nat /\ c.restarts \in BOOLEAN

VARIABLES case,    \* the one that runs
          s,       \* the screen: [type, b, k, bda, reply]
          asked,   \* the last request
          left,    \* how many are still to come
          shown,   \* the picture in the front end's window
          wiped    \* a reset changed the buffer, and nothing has been drawn since

vars == <<case, s, asked, left, shown, wiped>>

(***************************************************************************)
(* The BIOS data area: rows is one less than the screen has.               *)
(***************************************************************************)
BdaReset(type) ==
  [mode |-> 3, cols |-> Wide, rows |-> ScreenRows - 1, page_size |-> 2 * ScreenRows * Wide,
   page_offset |-> 0, page |-> 0, cursors |-> [p \in 0..7 |-> <<0, 0>>],
   start_line |-> DefaultCursorStart, end_line |-> DefaultCursorEnd,
   crtc |-> IF type \in {"MDA", "HGC"} THEN MonoIndex ELSE CrtcIndex,
   palette |-> 0, height |-> TextCell,
   dcc |-> <<CASE type = "MDA" -> 1 [] type = "HGC" -> 5 [] type = "CGA" -> 2
                [] type = "EGA" -> 4 [] type = "VGA" -> 8, 0>>]

\* An old BIOS leaves zero there.
LastRow(t) == IF t.bda.rows = 0 THEN ScreenRows - 1 ELSE t.bda.rows

Cursor(t) == t.bda.cursors[t.bda.page]
Replied(t, r) == [t EXCEPT !.reply = r]

(***************************************************************************)
(* Accesses, of a program or of the BIOS.                                  *)
(***************************************************************************)
Out(port, x) == [op |-> "out", port |-> port, x |-> x]
In(port) == [op |-> "in", port |-> port]
Poke(window, at, x) == [op |-> "poke", window |-> window, at |-> at, x |-> x]
Peek(window, at) == [op |-> "peek", window |-> window, at |-> at]

Accessed(t, r) ==
  CASE r.op = "out"  -> IoWrite(t, r.port, r.x)
    [] r.op = "in"   -> LET got == IoRead(t, r.port) IN Replied(got.s, Append(t.reply, got.x))
    [] r.op = "poke" -> MemoryWrite(t, r.window, r.at, r.x)
    [] r.op = "peek" -> LET got == MemoryRead(t, r.window, r.at)
                        IN  Replied(got.s, Append(t.reply, got.x))

Accesses(t, seq) ==
  LET after[n \in 0..Len(seq)] == IF n = 0 THEN t ELSE Accessed(after[n-1], seq[n])
  IN  after[Len(seq)]

\* set_cursor_pos: the hardware cursor follows the active page's.
SetCursorPos(t, page, row, col) ==
  LET loc   == row * t.bda.cols + col
      moved == [t EXCEPT !.bda.cursors[page] = <<row, col>>]
  IN  IF page # t.bda.page THEN moved
      ELSE Accesses(moved, <<Out(t.bda.crtc, CursorHigh), Out(t.bda.crtc + 1, High(loc)),
                             Out(t.bda.crtc, CursorLow), Out(t.bda.crtc + 1, LowHalf(loc))>>)

(***************************************************************************)
(* Modes, cursor and pages.                                                *)
(***************************************************************************)
Filled(t, window, n, byte(_)) ==
  Accesses(t, [i \in 1..n |-> Poke(window, i - 1, byte(i - 1))])

\* The screen is emptied in the old mode for text and CGA, in the new one for
\* the modes of the A000 window.
Emptied(t, mode) ==
  CASE mode \in CgaModes    -> Filled(t, "B800", 2 * Bank, LAMBDA i : 0)
    [] mode \in PlanarModes -> Filled(CardSetMode(t, mode), "A000", Plane, LAMBDA i : 0)
    [] mode = 19            -> Filled(CardSetMode(t, mode), "A000", Frame13, LAMBDA i : 0)
    [] OTHER -> Filled(t, "B800", 2 * ScreenRows * Wide,
                       LAMBDA i : IF i % 2 = 0 THEN Space ELSE LightGray)

FontHeight(mode) == IF mode \in {15, 16} THEN 14 ELSE IF mode \in {17, 18} THEN 16 ELSE 8

ColorSelectOf(mode) == IF mode = 6 THEN 15 ELSE 48

\* AH=00h.  An unknown mode reaches the card but not the data area; a page
\* other than 0 stays the active one.
SetVideoMode(t, mode, clear) ==
  LET set     == CardSetMode(IF clear THEN Emptied(t, mode) ELSE t, mode)
      colored == IF mode \in CgaModes
                 THEN IoWrite([set EXCEPT !.bda.palette = ColorSelectOf(mode)], ColorPort,
                              ColorSelectOf(mode))
                 ELSE set
      known   == [colored EXCEPT !.bda.height = FontHeight(mode), !.bda.mode = mode,
                                 !.bda.cols = TextCols(mode), !.bda.rows = TextRows(mode) - 1,
                                 !.bda.page_size = 2 * TextCols(mode) * TextRows(mode)]
  IN  IF mode \in KnownModes THEN SetCursorPos(known, 0, 0, 0) ELSE set

Lesser(x, y) == IF x < y THEN x ELSE y

\* AH=01h: shapes for the eight lines of a CGA character are doubled.
SetCursorShape10(t, start, end) ==
  LET first == start % 32
      last  == end % 32
      cga   == last <= HalfTextCell
      from  == IF cga THEN Lesser(2 * first, TextCell - 1) ELSE first
      to    == IF cga THEN Lesser(2 * last + 1, TextCell - 1) ELSE Lesser(last, TextCell - 1)
  IN  Accesses([t EXCEPT !.bda.start_line = start, !.bda.end_line = end],
               <<Out(t.bda.crtc, CursorStart), Out(t.bda.crtc + 1, from + (start - first)),
                 Out(t.bda.crtc, CursorEnd), Out(t.bda.crtc + 1, to)>>)

\* AH=03h answers for the active page, whatever page is asked about.
GetCursorPosition(t) ==
  Replied(t, <<t.bda.start_line, t.bda.end_line, Cursor(t)[1], Cursor(t)[2]>>)

\* AH=05h stores the old page's cursor as the new page's.
SelectActivePage(t, page) ==
  LET offset == page * t.bda.page_size
      word   == offset \div 2
      old    == Cursor(t)
      chosen == [t EXCEPT !.bda.page = page, !.bda.page_offset = offset,
                          !.bda.cursors[page] = old]
  IN  IF page > 7 THEN t
      ELSE Accesses(chosen, <<Out(t.bda.crtc, StartHigh), Out(t.bda.crtc + 1, High(word)),
                              Out(t.bda.crtc, StartLow), Out(t.bda.crtc + 1, LowHalf(word))>>)

(***************************************************************************)
(* Scrolling and characters.                                               *)
(***************************************************************************)
PlanarLayoutOf(mode) ==
  CASE mode = 13        -> PlanarLayout(Narrow, Cell8)
    [] mode = 14        -> PlanarLayout(Wide, Cell8)
    [] mode \in {15, 16} -> PlanarLayout(Wide, Cell14)
    [] mode \in {17, 18} -> PlanarLayout(Wide, Cell16)

GraphicsLayout(mode) ==
  CASE mode \in {4, 5}         -> CgaLayout(2)
    [] mode = 6                -> CgaLayout(1)
    [] mode \in PlanarModes    -> PlanarLayoutOf(mode)
    [] mode = 19               -> LinearLayout

\* AH=06h and AH=07h.  Text windows are cut to the screen; mode 07h does not
\* scroll.
ScrollWindow(t, w, attr, down) ==
  LET cut == [w EXCEPT !.right = Lesser(@, t.bda.cols - 1), !.bottom = Lesser(@, LastRow(t))] IN
  CASE t.bda.mode \in 0..3 -> Scrolled(t, TextLayout(t.bda.cols), cut, attr, down)
    [] t.bda.mode \in GraphicsModes -> Scrolled(t, GraphicsLayout(t.bda.mode), w, attr, down)
    [] OTHER -> t

\* Text is read and written in the first page, whichever is shown.
CellAt(t, n) == 2 * (Cursor(t)[1] * t.bda.cols + Cursor(t)[2] + n)

\* AH=08h
ReadCharAttr(t) ==
  Replied(t, <<ReadByte(t, CellAt(t, 0)), ReadByte(t, CellAt(t, 0) + 1)>>)

\* The cells that count characters fill, up to the last of the screen.
Filling(t, count) ==
  {n \in 0..count-1 : CellAt(t, n) < 2 * t.bda.cols * (LastRow(t) + 1)}

\* AH=0Ah, in graphics modes too, and the text half of AH=09h; attr # Unset
\* is written with the character.
WriteText(t, ch, attr, count) ==
  LET chars == {CellAt(t, n) : n \in Filling(t, count)}
      attrs == IF attr = Unset THEN {} ELSE {a + 1 : a \in chars}
  IN  IF chars = {} THEN t
      ELSE Rewritten(t, [a \in DOMAIN t.b.vram |-> IF a \in chars THEN ch
                                                   ELSE IF a \in attrs THEN attr ELSE t.b.vram[a]])

\* The graphics half of AH=09h: bit 7 of the colour draws by exclusive or, and
\* in CGA modes bit 7 of the character inverts that.
WriteGlyphs(t, ch, attr, count) ==
  LET xor      == attr >= 128
      inverted == t.bda.mode \in CgaModes /\ ch >= 128 /\ xor
      how      == IF inverted THEN "inverted" ELSE IF xor THEN "xor" ELSE "opaque"
      cols     == t.bda.cols
      onScreen == Cardinality({n \in 0..count-1 : Cursor(t)[1] + n \div cols <= LastRow(t)})
      after[n \in 0..onScreen] ==
        IF n = 0 THEN t
        ELSE Drawn(after[n-1], GraphicsLayout(t.bda.mode), IF inverted THEN ch - 128 ELSE ch,
                   Cursor(t)[1] + (n - 1) \div cols, Cursor(t)[2] + ((n - 1) % cols), attr % 16, how)
  IN  after[onScreen]

WriteCharAttr(t, ch, attr, count) ==
  IF t.bda.mode \in GraphicsModes THEN WriteGlyphs(t, ch, attr, count)
  ELSE WriteText(t, ch, attr, count)

CarriageReturn == 13
LineFeed == 10
Backspace == 8

\* scroll_up: by one text row, in graphics modes too.
ScrollScreen(t) ==
  Scrolled(t, TextLayout(t.bda.cols),
           [lines |-> 1, top |-> 0, left |-> 0, bottom |-> LastRow(t), right |-> t.bda.cols - 1],
           LightGray, FALSE)

\* Mutant: the screen scrolls one row before the last.
NextLineEarly(t, col) ==
  LET row == Cursor(t)[1] IN
  IF row >= LastRow(t) - 1 THEN SetCursorPos(ScrollScreen(t), t.bda.page, LastRow(t), col)
  ELSE SetCursorPos(t, t.bda.page, row + 1, col)

NextLine(t, col) ==
  LET row == Cursor(t)[1] IN
  IF row >= LastRow(t) THEN SetCursorPos(ScrollScreen(t), t.bda.page, LastRow(t), col)
  ELSE SetCursorPos(t, t.bda.page, row + 1, col)

\* AH=0Eh
Teletype(t, ch, fg) ==
  LET row  == Cursor(t)[1]
      col  == Cursor(t)[2]
      page == t.bda.page
      drawn == IF t.bda.mode \in GraphicsModes
               THEN Drawn(t, GraphicsLayout(t.bda.mode), ch, row, col, fg, "opaque")
               ELSE WriteByte(t, CellAt(t, 0), ch)
  IN  CASE ch = CarriageReturn -> SetCursorPos(t, page, row, 0)
        [] ch = LineFeed       -> NextLine(t, col)
        [] ch = Backspace      -> IF col > 0 THEN SetCursorPos(t, page, row, col - 1) ELSE t
        [] OTHER -> IF col + 1 >= t.bda.cols THEN NextLine(drawn, 0)
                    ELSE SetCursorPos(drawn, page, row, col + 1)

\* AH=0Ch, for the CGA modes: dots of one or two bits.
WritePixel(t, color, col, row) ==
  LET depth == IF t.bda.mode = 6 THEN 1 ELSE 2
      per   == 8 \div depth
      at    == Interleaved(row) + col \div per
      shift == 2^(8 - depth * ((col % per) + 1))
      bits  == (color % 2^depth) * shift
      old   == ReadByte(t, at)
      hole  == old - ((old \div shift) % 2^depth) * shift
      width == IF t.bda.mode = 6 THEN 8 * Wide ELSE 8 * Narrow
  IN  IF t.bda.mode \notin CgaModes \/ col >= width \/ row >= ScreenRows * Cell8 THEN t
      ELSE WriteByte(t, at, IF color >= 128 THEN BitXor(old, bits) ELSE hole + bits)

(***************************************************************************)
(* Colours.                                                                *)
(***************************************************************************)
\* AH=0Bh: the border's five bits, or the palette bit, of the colour register.
SetColors(t, palette, x) ==
  LET now == t.bda.palette
      new == IF palette THEN now - 32 * Bit(now, 5) + 32 * (x % 2)
             ELSE 32 * (now \div 32) + (x % 32)
  IN  IoWrite([t EXCEPT !.bda.palette = new], t.bda.crtc + 5, new)

\* The flip-flop of the attribute controller is put in its address state; the
\* last write gives the screen back and leaves it in the other one.
AttributeWrites(t, bytes) ==
  IoWrite(Accesses(IoRead(t, StatusPort).s, [n \in 1..Len(bytes) |-> Out(AcPort, bytes[n])]),
          AcPort, 32)

\* The palette's indices before its values; the last one is the border's.
WithIndices(table) ==
  [n \in 1..34 |-> IF n % 2 = 0 THEN table[n \div 2] ELSE IF n = 33 THEN 17 ELSE n \div 2]

\* AL=03h of AH=10h reads the mode control register before it writes it.
SetBlinking(t, on) ==
  LET ready == IoWrite(IoRead(t, StatusPort).s, AcPort, AcModeControl)
      old   == IoRead(ready, AcRead).x
      new   == old - 8 * Bit(old, 3) + (IF on THEN 8 ELSE 0)
  IN  IoWrite(IoWrite(ready, AcPort, new), AcPort, 32)

\* An index and three components for every colour.
SetDacBlock(t, first, rgbs) ==
  LET index(n) == (n - 1) \div 4
      part(n)  == (n - 1) % 4
  IN  Accesses(t, [n \in 1..4 * Len(rgbs) |->
                     IF part(n) = 0 THEN Out(DacWriteIndex, (first + index(n)) % 256)
                     ELSE Out(DacData, rgbs[index(n) + 1][part(n)] % 64)])

\* The values that count reads of the DAC's data port return.
DacReads(t, first, count) ==
  Accesses(Replied(IoWrite(t, DacReadIndex, first), <<>>), [n \in 1..3 * count |-> In(DacData)])

\* AL=1Ah: paging mode and page, from two registers of the attribute controller.
ColorPage(t) ==
  LET modeAt  == IoWrite(IoRead(t, StatusPort).s, AcPort, AcModeControl)
      colorAt == IoWrite(IoRead(modeAt, StatusPort).s, AcPort, AcColorSelect)
      control == IoRead(modeAt, AcRead).x
      color   == IoRead(colorAt, AcRead).x
  IN  Replied(colorAt, IF control >= 128 THEN <<1, color % 16>> ELSE <<0, (color \div 4) % 4>>)

\* AH=10h: no adapter below EGA has it, and the DAC is the VGA's.
PaletteRegisters(t, r) ==
  IF ~IsEgaVga(t) THEN t ELSE
  CASE r.al = 0 -> AttributeWrites(t, <<r.reg, r.x>>)
    [] r.al = 1 -> AttributeWrites(t, <<17, r.x>>)
    [] r.al = 2 -> AttributeWrites(t, WithIndices(r.table))
    [] r.al = 3 -> SetBlinking(t, r.x # 0)
    [] OTHER -> IF t.type = "EGA" THEN t ELSE
         CASE r.al \in {\h10, \h12} -> SetDacBlock(t, r.reg, r.table)
           [] r.al \in {\h15, \h17} -> DacReads(t, r.reg, r.x)
           [] r.al = \h1A -> ColorPage(t)
           [] OTHER -> t

(***************************************************************************)
(* Questions: what the adapter is and what state it is in.                 *)
(***************************************************************************)
\* AH=0Fh
GetVideoMode(t) == Replied(t, <<t.bda.cols, t.bda.mode, t.bda.page>>)

\* AH=11h AL=30h with BH=01h: the height of the current font.
FontInfo(t) == Replied(t, <<IF t.bda.height = 0 THEN 16 ELSE t.bda.height, LastRow(t)>>)

\* AH=12h with BL=10h; the other functions only say that they exist.
GetEgaInfo(t) == IF IsEgaVga(t) THEN Replied(t, <<0, 3>>) ELSE t

\* AH=15h
PhysicalDisplay(t) == IF t.type = "VGA" THEN Replied(t, <<\h15, 8, 0>>) ELSE t

\* AH=1Ah: set is Unset to read.
DisplayCombination(t, set) ==
  CASE t.type # "VGA" -> t
    [] t.type = "VGA" /\ set = Unset -> Replied(t, <<\h1A>> \o t.bda.dcc)
    [] OTHER -> Replied([t EXCEPT !.bda.dcc = <<set, 0>>], <<\h1A>>)

\* AH=1Bh: mode, columns, length of the page, cursor of page 0, shape, rows.
\* The last row is taken for the number of rows.
StateInformation(t) ==
  IF t.type # "VGA" THEN t
  ELSE Replied(t, <<\h1B, t.bda.mode, t.bda.cols, 2 * t.bda.cols * LastRow(t),
                    t.bda.cursors[0][2], t.bda.cursors[0][1], t.bda.end_line, t.bda.start_line,
                    LastRow(t) - 1>>)

(***************************************************************************)
(* One request.                                                            *)
(***************************************************************************)
\* handle_int10_video_services, and what a program does without it.
Served(t, r) ==
  CASE r.op = "mode"    -> SetVideoMode(t, r.mode, r.clear)
    [] r.op = "shape"   -> SetCursorShape10(t, r.start, r.end)
    [] r.op = "move"    -> SetCursorPos(t, r.page, r.row, r.col)
    [] r.op = "where"   -> GetCursorPosition(t)
    [] r.op = "page"    -> SelectActivePage(t, r.page)
    [] r.op = "scroll"  -> ScrollWindow(t, r.w, r.attr, r.down)
    [] r.op = "read"    -> ReadCharAttr(t)
    [] r.op = "put"     -> WriteCharAttr(t, r.ch, r.attr, r.count)
    [] r.op = "write"   -> WriteText(t, r.ch, Unset, r.count)
    [] r.op = "colors"  -> SetColors(t, r.palette, r.x)
    [] r.op = "pixel"   -> WritePixel(t, r.color, r.col, r.row)
    [] r.op = "tty"     -> Teletype(t, r.ch, r.fg)
    [] r.op = "palette" -> PaletteRegisters(t, r)
    [] r.op = "getmode" -> GetVideoMode(t)
    [] r.op = "font"    -> FontInfo(t)
    [] r.op = "info"    -> GetEgaInfo(t)
    [] r.op = "display" -> PhysicalDisplay(t)
    [] r.op = "dcc"     -> DisplayCombination(t, r.set)
    [] r.op = "state"   -> StateInformation(t)
    [] r.op \in {"out", "in", "poke", "peek"} -> Accessed(t, r)

Asks(t, requests) ==
  LET after[n \in 0..Len(requests)] == IF n = 0 THEN t ELSE Served(after[n-1], requests[n])
  IN  after[Len(requests)]

\* A reset of the device and of the data area, on this memory.
Fresh(type, mem) ==
  [type |-> type, k |-> Wiped(type, mem).k, b |-> Wiped(type, mem).b,
   bda |-> BdaReset(type), reply |-> <<>>]

Init ==
  /\ case \in Cases
  /\ s = Asks(Fresh(case.type, [a \in Memory |-> 0]), case.before)
  /\ asked = [op |-> "none"]
  /\ left = case.depth
  /\ shown = Picture(s.b)
  /\ wiped = ~s.b.dirty

\* INT 10h, or an access that the card serves.
Ask(r) ==
  /\ left > 0
  /\ s' = Served([s EXCEPT !.reply = <<>>], r)
  /\ asked' = r
  /\ left' = left - 1
  /\ UNCHANGED <<case, shown, wiped>>

\* A front end draws what has changed: render_and_clear_dirty.
Refresh ==
  /\ s.b.dirty
  /\ shown' = Picture(s.b)
  /\ s' = [s EXCEPT !.b.dirty = FALSE]
  /\ wiped' = FALSE
  /\ UNCHANGED <<case, asked, left>>

\* The machine restarts: the device's reset, then the BIOS's data area.
Restart ==
  /\ left > 0
  /\ s' = Fresh(s.type, s.b.vram)
  /\ asked' = [op |-> "restart"]
  /\ left' = left - 1
  /\ wiped' = TRUE
  /\ UNCHANGED <<case, shown>>

\* A program restarts the processor through the CMOS shutdown byte: the
\* adapter is spared, so that the screen survives, the data area is not.
WarmRestart ==
  /\ left > 0
  /\ s' = [s EXCEPT !.bda = BdaReset(s.type), !.reply = <<>>]
  /\ asked' = [op |-> "warm"]
  /\ left' = left - 1
  /\ UNCHANGED <<case, shown, wiped>>

Next ==
  \/ \E r \in case.ops : Ask(r)
  \/ Refresh
  \/ case.restarts /\ (Restart \/ WarmRestart)

Spec == Init /\ [][Next]_vars

(***************************************************************************)
(* What is checked.                                                        *)
(***************************************************************************)
\* A front end draws only when the buffer says that it changed, so a change
\* that is not announced is never seen: while nothing is announced, the
\* window shows what the memory, the registers and the DAC say.  A reset
\* changes the buffer without a word, until something is drawn.
ScreenShown == s.b.dirty \/ wiped \/ shown = Picture(s.b)

\* The picture by places: text in cells, graphics in dots of a cell of Tall
\* lines and eight columns.
ByPlace(b) == IF b.mode \in GraphicsModes THEN Picture(b) ELSE Picture(b).cells

Tall(mode) ==
  CASE mode \in {15, 16} -> Cell14
    [] mode \in {17, 18} -> Cell16
    [] OTHER -> Cell8

PlaceRow(mode, p) == IF mode \in GraphicsModes THEN p[2] \div Tall(mode) ELSE p[1]
PlaceCol(mode, p) == IF mode \in GraphicsModes THEN p[1] \div 8 ELSE p[2]
PlaceFrom(mode, p, by) ==
  IF mode \in GraphicsModes THEN <<p[1], p[2] + by * Tall(mode)>> ELSE <<p[1] + by, p[2]>>

\* The BIOS and the adapter agree about the mode, and the picture is taken
\* from the start of the memory in lines of the usual length.
Standard(t) ==
  /\ t.b.mode = t.bda.mode /\ t.bda.mode # 7
  /\ t.b.start = 0 /\ t.b.offset = Unset /\ ~Overridden(t.b) /\ ~t.b.composite

Asked(op) == left' = left - 1 /\ asked'.op = op

\* A scroll is a motion of the picture: in every mode and layout, what the
\* window shows moves by whole rows of characters, the rows that are freed
\* take one colour, and nothing outside the window changes.
ScrollMoves(w, by) ==
  LET old == ByPlace(s.b)
      new == ByPlace(s.b')
      mode == s.b.mode
      inside == {p \in DOMAIN old : /\ PlaceRow(mode, p) \in w.top..w.bottom
                                    /\ PlaceCol(mode, p) \in w.left..w.right}
      moved == {p \in inside : w.lines # 0 /\ PlaceFrom(mode, p, by) \in inside}
  IN  /\ \A p \in DOMAIN old \ inside : new[p] = old[p]
      /\ \A p \in moved : new[p] = old[PlaceFrom(mode, p, by)]
      /\ Cardinality({new[p] : p \in inside \ moved}) <= 1

ScrollsWhatIsShown ==
  [][Asked("scroll") /\ Standard(s)
       => ScrollMoves(asked'.w, IF asked'.down THEN -asked'.w.lines ELSE asked'.w.lines)]_vars

\* The cells of the data area's mode, wherever the adapter looks.
TextView ==
  IF s.bda.mode \in GraphicsModes THEN [on |-> FALSE]
  ELSE [on |-> TRUE, mono |-> s.bda.mode = 7, cols |-> s.bda.cols,
        cells |-> [n \in 0..ScreenRows * Wide - 1 |-> <<s.b.vram[2*n], s.b.vram[2*n+1]>>],
        cursors |-> s.bda.cursors, page |-> s.bda.page, mark |-> s.b.cursor]

Terminal == INSTANCE TextScreen
  WITH screen <- TextView, Columns <- Wide, HalfColumns <- Narrow, Rows <- ScreenRows

\* In a text mode the services, with their addresses in video memory, their
\* bytes of the data area and their pairs of port writes, are the screen of
\* TextScreen: characters land at the cursor, lines wrap and scroll, and the
\* hardware cursor is where the active page's cursor is said to be.
TextScreenKept == Terminal!Spec

=============================================================================
