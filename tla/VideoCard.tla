----------------------------- MODULE VideoCard -----------------------------
(***************************************************************************)
(* The adapters of core/src/video/video_card.rs: MDA, HGC, CGA, EGA and    *)
(* VGA.  A program reaches the buffer through ports and memory windows; an *)
(* EGA or VGA puts its latches and its graphics controller between the     *)
(* window and the planes.  The BIOS scrolls and draws through helpers of   *)
(* the card that bypass both.                                              *)
(*                                                                         *)
(* A screen s is a record: s.type the adapter, s.b the buffer, s.k the     *)
(* registers, and bda, which belongs to VideoServices.  A read returns     *)
(* [s |-> screen, x |-> value], because some reads change registers.       *)
(* The retrace bits of the status ports are timing and left out.           *)
(***************************************************************************)
EXTENDS VideoBuffer, SequencesExt

CONSTANT Glyph   \* a character's rows of dots: [0..127 -> [0..rows-1 -> 0..255]] in part

MonoIndex == \h3B4
MonoData  == \h3B5
MonoMode  == \h3B8
CrtcIndex == \h3D4
CrtcData  == \h3D5
ModePort  == \h3D8
ColorPort == \h3D9
AcPort    == \h3C0
AcRead    == \h3C1
MiscPort  == \h3C2
SeqIndex  == \h3C4
SeqData   == \h3C5
DacReadIndex  == \h3C7
DacWriteIndex == \h3C8
DacData   == \h3C9
MiscRead  == \h3CC
GcIndex   == \h3CE
GcData    == \h3CF
StatusPort == \h3DA

CursorStart == \h0A
CursorEnd   == \h0B
StartHigh   == \h0C
StartLow    == \h0D
CursorHigh  == \h0E
CursorLow   == \h0F
AcModeControl == 16
AcColorSelect == 20

IsMono(s) == s.type \in {"MDA", "HGC"}
IsEgaVga(s) == s.type \in {"EGA", "VGA"}

\* vram_size: the memory that the windows reach.
VramSize(s) == IF IsEgaVga(s) THEN 4 * Plane ELSE 4 * Bank

Supports(type, mode) ==
  \/ mode <= 7
  \/ type = "EGA" /\ mode \in {13, 14, 15}
  \/ type = "VGA"

(***************************************************************************)
(* Reset and mode set.                                                     *)
(***************************************************************************)
\* The entries a card loads; the other cards have no DAC to show.
EgaColors == 64
CardDac(type, dac) ==
  CASE type = "VGA" -> Defaults(dac, Colors)
    [] type = "EGA" -> Defaults(dac, EgaColors)
    [] OTHER -> dac

CardReset(type) ==
  [io_register |-> 0, mode_ctrl |-> 0, color_select |-> 0,
   ac |-> [i \in 0..16 |-> 0], ac_address |-> 0, ac_data |-> FALSE,
   dac |-> CardDac(type, NoDac),
   dac_write |-> 0, dac_read |-> 0, seq_address |-> 0, map_mask |-> 15, gc_address |-> 0,
   set_reset |-> 0, enable |-> 0, read_map |-> 0, rotate |-> 0, function |-> 0,
   compare |-> 0, write_mode |-> 0, read_mode |-> 0, dont_care |-> 15, bit_mask |-> 255,
   latches |-> [n \in 0..3 |-> 0], misc |-> \h67]

\* An EGA writes its palette into the buffer, which marks it dirty; a VGA leaves
\* there what the buffer starts with.
Wiped(type, mem) ==
  [type |-> type, k |-> CardReset(type),
   b |-> [BufferReset(mem) EXCEPT !.dirty = type = "EGA",
                                  !.dac = IF type = "EGA" THEN CardDac(type, @) ELSE @]]

CardSetMode(s, mode) ==
  LET buffer   == BufferSetMode(ResetOverrides(s.b), mode)
  IN  [s EXCEPT !.b = [buffer EXCEPT !.dac = CardDac(s.type, @)],
                !.k = [s.k EXCEPT !.map_mask = 15, !.set_reset = 0, !.enable = 0, !.rotate = 0,
                                  !.function = 0, !.write_mode = 0, !.read_mode = 0,
                                  !.bit_mask = 255, !.latches = [n \in 0..3 |-> 0],
                                  !.dac = CardDac(s.type, @)]]

(***************************************************************************)
(* The memory windows: "A000", "B000" and "B800".                          *)
(***************************************************************************)
\* The windows an adapter answers to: "B000" only the monochrome ones, "A000"
\* only EGA and VGA.
Reaches(s, window) ==
  \/ window = "B800"
  \/ window = "B000" /\ IsMono(s)
  \/ window = "A000" /\ IsEgaVga(s)

ReadByte(s, a)     == IF a < VramSize(s) THEN s.b.vram[a] ELSE 0
WriteByte(s, a, x) == IF a < VramSize(s) THEN [s EXCEPT !.b = WriteVram(@, a, x)] ELSE s

\* Several bytes at once.
Rewritten(s, mem) == [s EXCEPT !.b.vram = mem, !.b.dirty = TRUE]

Planes(s, at) == [n \in 0..3 |-> s.b.vram[n * Plane + at]]

\* Read mode 1: a bit for every dot whose cared planes match the colour.
Matching(k, planes) ==
  LET differs(n, i) == Bit(k.dont_care, n) = 1 /\ Bit(planes[n], i) # Bit(k.compare, n)
  IN  MapThenSumSet(LAMBDA i : IF \E n \in 0..3 : differs(n, i) THEN 0 ELSE 2^i, 0..7)

MemoryRead(s, window, at) ==
  IF ~Reaches(s, window) THEN [s |-> s, x |-> 255]
  ELSE IF window # "A000" THEN [s |-> s, x |-> ReadByte(s, at)]
  ELSE IF s.b.mode = 19 THEN [s |-> s, x |-> IF at < Frame13 THEN ReadByte(s, at) ELSE 255]
  ELSE LET planes == Planes(s, at) IN
       [s |-> [s EXCEPT !.k.latches = planes],
        x |-> IF s.k.read_mode = 1 THEN Matching(s.k, planes) ELSE planes[s.k.read_map]]

Full(bit) == IF bit = 1 THEN 255 ELSE 0

RotateRight(x, n) == (x \div 2^n) + (x % 2^n) * 2^(8 - n)

AluFunction(k, src, latch) ==
  CASE k.function = 1 -> BitAnd(src, latch)
    [] k.function = 2 -> BitOr(src, latch)
    [] k.function = 3 -> BitXor(src, latch)
    [] OTHER          -> src

\* The bits of x where the mask is set, those of the latch elsewhere.
Through(mask, x, latch) == BitAnd(x, mask) + BitAnd(latch, 255 - mask)

\* What one plane is written with.
PlaneByte(k, n, x) ==
  LET latch   == k.latches[n]
      rotated == RotateRight(x, k.rotate)
      source  == CASE k.write_mode = 2 -> Full(Bit(x, n))
                   [] k.write_mode = 3 -> Full(Bit(k.set_reset, n))
                   [] k.write_mode = 0 /\ Bit(k.enable, n) = 1 -> Full(Bit(k.set_reset, n))
                   [] OTHER -> rotated
  IN  CASE k.write_mode = 1 -> latch
        [] k.write_mode = 3 -> Through(BitAnd(k.bit_mask, rotated), source, latch)
        [] OTHER -> Through(k.bit_mask, AluFunction(k, source, latch), latch)

\* A map mask of zero writes nothing.
PlanarWrite(s, at, x) ==
  LET places == {n * Plane + at : n \in {n \in 0..3 : Bit(s.k.map_mask, n) = 1}} IN
  IF places = {} THEN s
  ELSE Rewritten(s, [a \in DOMAIN s.b.vram |->
                       IF a \in places THEN PlaneByte(s.k, a \div Plane, x) ELSE s.b.vram[a]])

MemoryWrite(s, window, at, x) ==
  IF ~Reaches(s, window) THEN s
  ELSE IF window # "A000" THEN WriteByte(s, at, x)
  ELSE IF s.b.mode = 19 THEN IF at < Frame13 THEN WriteByte(s, at, x) ELSE s
  ELSE PlanarWrite(s, at, x)

(***************************************************************************)
(* The ports.                                                              *)
(***************************************************************************)
High(x) == x \div Low
LowHalf(x) == x % Low
WithHigh(x, h) == h * Low + LowHalf(x)
WithLow(x, l)  == High(x) * Low + l

CrtcWrite(s, x) ==
  LET reg    == s.k.io_register
      marked == [s.b EXCEPT !.dirty = TRUE] IN
  [s EXCEPT !.b =
     CASE reg = CursorStart -> SetCursorShape(@, x)
       [] reg = CursorEnd   -> [marked EXCEPT !.cursor_end = IF IsMono(s) THEN x % 32 ELSE x]
       [] reg = StartHigh   -> [marked EXCEPT !.start = WithHigh(@, x)]
       [] reg = StartLow    -> [marked EXCEPT !.start = WithLow(@, x)]
       [] reg = CursorHigh  -> [marked EXCEPT !.cursor = WithHigh(@, x)]
       [] reg = CursorLow   -> [marked EXCEPT !.cursor = WithLow(@, x)]
       [] reg = 6 /\ ~IsMono(s)    -> [marked EXCEPT !.rows = x]
       [] reg = 9 /\ ~IsMono(s)    -> [marked EXCEPT !.max_scan_line = x]
       [] reg = \h13 /\ ~IsMono(s) -> [marked EXCEPT !.offset = x]
       [] OTHER -> @]

CrtcRead(s) ==
  LET reg == s.k.io_register IN
  CASE reg = CursorStart -> s.b.cursor_start
    [] reg = CursorEnd   -> s.b.cursor_end
    [] reg = CursorHigh  -> High(s.b.cursor)
    [] reg = CursorLow   -> LowHalf(s.b.cursor)
    [] reg = StartHigh   -> High(s.b.start)
    [] reg = StartLow    -> LowHalf(s.b.start)
    [] OTHER -> 0

\* The rendering mode a CGA mode byte asks for; the colour burst is bit 3.
ModeOf(x) ==
  CASE Bit(x, 1) = 1 /\ Bit(x, 4) = 1 -> 6
    [] Bit(x, 1) = 1 /\ Bit(x, 4) = 0 -> 4
    [] Bit(x, 1) = 0 /\ Bit(x, 0) = 1 -> 3
    [] OTHER -> 0

ModeWrite(s, x) ==
  [s EXCEPT !.k.mode_ctrl = x,
            !.b = [BufferSetMode(@, ModeOf(x)) EXCEPT !.composite = Bit(x, 3) = 1, !.dirty = TRUE]]

\* The attribute controller takes an address and a value by turns.  Registers
\* above 15 land in the register of their low four bits.
AcWrite(s, x) ==
  IF ~s.k.ac_data THEN [s EXCEPT !.k.ac_address = x % 32, !.k.ac_data = TRUE]
  ELSE LET i == s.k.ac_address % 16 IN
       [s EXCEPT !.k.ac[i] = x, !.k.ac_data = FALSE,
                 !.b = IF s.k.ac_address < 16 THEN SetAcPalette(@, i, x)
                       ELSE IF s.k.ac_address = AcModeControl THEN SetBlink(@, Bit(x, 3) = 1)
                       ELSE @]

GcWrite(s, x) ==
  LET reg == s.k.gc_address IN
  [s EXCEPT !.k =
     CASE reg = 0 -> [@ EXCEPT !.set_reset = x % 16]
       [] reg = 1 -> [@ EXCEPT !.enable = x % 16]
       [] reg = 2 -> [@ EXCEPT !.compare = x % 16]
       [] reg = 3 -> [@ EXCEPT !.rotate = x % 8, !.function = (x \div 8) % 4]
       [] reg = 4 -> [@ EXCEPT !.read_map = x % 4]
       [] reg = 5 -> [@ EXCEPT !.write_mode = x % 4, !.read_mode = Bit(x, 3)]
       [] reg = 7 -> [@ EXCEPT !.dont_care = x % 16]
       [] reg = 8 -> [@ EXCEPT !.bit_mask = x]
       [] OTHER -> @]

GcRead(k) ==
  CASE k.gc_address = 0 -> k.set_reset
    [] k.gc_address = 1 -> k.enable
    [] k.gc_address = 2 -> k.compare
    [] k.gc_address = 3 -> k.rotate + 8 * k.function
    [] k.gc_address = 4 -> k.read_map
    [] k.gc_address = 5 -> k.write_mode + 8 * k.read_mode
    [] k.gc_address = 7 -> k.dont_care
    [] k.gc_address = 8 -> k.bit_mask
    [] OTHER -> 0

\* Red, green and blue in turn; the renderer learns of complete entries.
DacWrite(s, x) ==
  LET i == s.k.dac_write \div 3
      c == s.k.dac_write % 3
      rgb == [s.k.dac[i] EXCEPT ![c+1] = x % 64]
  IN  [s EXCEPT !.k.dac[i] = rgb, !.k.dac_write = (@ + 1) % (3 * Colors),
                !.b = IF c = 2 THEN SetDac(@, i, rgb) ELSE @]

\* A port that the adapter does not claim changes nothing.
IoWrite(s, port, x) ==
  IF IsMono(s)
  THEN CASE port = MonoIndex -> [s EXCEPT !.k.io_register = x]
         [] port = MonoData  -> CrtcWrite(s, x)
         [] port = MonoMode  -> [s EXCEPT !.k.mode_ctrl = x]
         [] OTHER -> s
  ELSE CASE port = CrtcIndex -> [s EXCEPT !.k.io_register = x]
         [] port = CrtcData  -> CrtcWrite(s, x)
         [] port = ModePort  -> ModeWrite(s, x)
         [] port = ColorPort -> [s EXCEPT !.k.color_select = x, !.b = SetColorSelect(@, x)]
         [] OTHER -> IF ~IsEgaVga(s) THEN s ELSE
              CASE port = SeqIndex  -> [s EXCEPT !.k.seq_address = x]
                [] port = SeqData /\ s.k.seq_address = 2 -> [s EXCEPT !.k.map_mask = x]
                [] port = MiscPort  -> [s EXCEPT !.k.misc = x]
                [] port = AcPort    -> AcWrite(s, x)
                [] port = GcIndex   -> [s EXCEPT !.k.gc_address = x]
                [] port = GcData    -> GcWrite(s, x)
                [] port = DacReadIndex  -> [s EXCEPT !.k.dac_read = 3 * x]
                [] port = DacWriteIndex -> [s EXCEPT !.k.dac_write = 3 * x]
                [] port = DacData   -> DacWrite(s, x)
                [] OTHER -> s

\* 255 stands for a port nobody answers, too.
IoRead(s, port) ==
  LET k == s.k
      just(x) == [s |-> s, x |-> x] IN
  IF IsMono(s)
  THEN just(CASE port = MonoIndex -> k.io_register
              [] port = MonoData  -> CrtcRead(s)
              [] port = MonoMode  -> k.mode_ctrl
              [] OTHER -> 255)
  ELSE CASE port = CrtcIndex -> just(k.io_register)
         [] port = CrtcData  -> just(CrtcRead(s))
         [] port = ModePort  -> just(k.mode_ctrl)
         [] port = ColorPort -> just(k.color_select)
         [] port = StatusPort -> [s |-> [s EXCEPT !.k.ac_data = FALSE], x |-> 0]
         [] OTHER -> IF ~IsEgaVga(s) THEN just(255) ELSE
              CASE port = MiscRead  -> just(k.misc)
                [] port = SeqIndex  -> just(k.seq_address)
                [] port = SeqData   -> just(IF k.seq_address = 2 THEN k.map_mask ELSE 0)
                [] port = AcPort    -> just(k.ac_address)
                [] port = AcRead    -> just(k.ac[k.ac_address % 16])
                [] port = GcIndex   -> just(k.gc_address)
                [] port = GcData    -> just(GcRead(k))
                [] port = DacData   -> [s |-> [s EXCEPT !.k.dac_read = (@ + 1) % (3 * Colors)],
                                        x |-> k.dac[k.dac_read \div 3][(k.dac_read % 3) + 1]]
                [] OTHER -> just(255)

(***************************************************************************)
(* Scrolling.  A layout says where the bytes of a row of characters are:   *)
(* part i of a row is <<line of the cell, column, byte, plane>>.           *)
(***************************************************************************)
TextLayout(cols)   == [form |-> "text", width |-> cols, height |-> 1, bytes |-> 2, planes |-> {0}]
CgaLayout(bytes)   == [form |-> "cga", width |-> Wide, height |-> Cell8, bytes |-> bytes, planes |-> {0}]
PlanarLayout(w, h) == [form |-> "planar", width |-> w, height |-> h, bytes |-> 1, planes |-> 0..3]
LinearLayout       == [form |-> "linear", width |-> 8 * Narrow, height |-> Cell8, bytes |-> 8, planes |-> {0}]

At(lay, row, i) ==
  LET y == row * lay.height + i[1] IN
  CASE lay.form = "text"   -> (row * lay.width + i[2]) * 2 + i[3]
    [] lay.form = "cga"    -> Interleaved(y) + i[2] * lay.bytes + i[3]
    [] lay.form = "planar" -> i[4] * Plane + y * lay.width + i[2]
    [] lay.form = "linear" -> y * lay.width + i[2] * 8 + i[3]

Parts(lay, w) == (0..lay.height-1) \X (w.left..w.right) \X (0..lay.bytes-1) \X lay.planes

Limit(s, lay) == IF lay.form = "linear" THEN Frame13 ELSE VramSize(s)

\* What an emptied byte holds: text keeps the attribute asked for, CGA modes
\* are emptied with zeros.
Blank(lay, attr, i) ==
  CASE lay.form = "text"   -> IF i[3] = 0 THEN Space ELSE attr
    [] lay.form = "cga"    -> 0
    [] lay.form = "planar" -> Full(Bit(attr % 16, i[4]))
    [] lay.form = "linear" -> attr

\* One row takes the bytes of the row it scrolls from, or is emptied.
RowScrolled(mem, lay, w, attr, from, row) ==
  LET moved   == w.lines # 0 /\ from \in w.top..w.bottom
      places  == {At(lay, row, i) : i \in Parts(lay, w)}
      part(a) == CHOOSE i \in Parts(lay, w) : At(lay, row, i) = a
  IN  [a \in DOMAIN mem |->
         IF a \notin places THEN mem[a]
         ELSE IF moved THEN mem[At(lay, from, part(a))] ELSE Blank(lay, attr, part(a))]

\* The rows of the window in the order row(1), row(2) and so on.
RowsScrolled(mem, lay, w, attr, down, row(_)) ==
  LET by == IF down THEN -w.lines ELSE w.lines
      after[n \in 0..w.bottom - w.top + 1] ==
        IF n = 0 THEN mem ELSE RowScrolled(after[n-1], lay, w, attr, row(n) + by, row(n))
  IN  after[w.bottom - w.top + 1]

\* Mutant: a scroll down that goes through the rows from the top.
ScrolledFromTop(s, lay, w, attr, down) ==
  IF w.top > w.bottom \/ w.left > w.right THEN s
  ELSE Rewritten(s, RowsScrolled(s.b.vram, lay, w, attr, down, LAMBDA n : w.top + n - 1))

\* scroll_text_window, cga_scroll_window and the four planar and linear ones:
\* rows in the order that reads each one before it is overwritten.  The
\* window lies on the screen, and neither top + lines nor bottom + lines
\* passes 255, where the source's bytes would overflow.
Scrolled(s, lay, w, attr, down) ==
  IF w.top > w.bottom \/ w.left > w.right THEN s
  ELSE Rewritten(s, RowsScrolled(s.b.vram, lay, w, attr, down,
                      LAMBDA n : IF down THEN w.bottom - n + 1 ELSE w.top + n - 1))

(***************************************************************************)
(* Glyphs, drawn by the same layouts: ega_draw_glyph and ega_draw_char of  *)
(* the card, draw_char_cga_graphics of the BIOS.                           *)
(***************************************************************************)
\* A dot of four takes two bits of a byte.
Spread(dots, fg) == MapThenSumSet(LAMBDA i : Bit(dots, i) * (fg % 4) * 4^i, 0..3)

\* The byte at part i of a character whose line has these dots.
Colored(lay, dots, fg, i) ==
  CASE lay.form = "cga" /\ lay.bytes = 1 -> dots
    [] lay.form = "cga" /\ lay.bytes = 2 -> Spread(IF i[3] = 0 THEN dots \div 16 ELSE dots % 16, fg)
    [] lay.form = "planar" -> IF Bit(fg, i[4]) = 1 THEN dots ELSE 0
    [] lay.form = "linear" -> IF Bit(dots, 7 - i[3]) = 1 THEN fg ELSE 0

\* how: "opaque", "xor", or "inverted", which is "xor" with the other dots.
Drawn(s, lay, ch, row, col, fg, how) ==
  LET dots(i) == IF how = "inverted" THEN 255 - Glyph[ch][i[1]] ELSE Glyph[ch][i[1]]
      new(i)  == Colored(lay, dots(i), fg, i)
      inside  == {i \in Parts(lay, [left |-> col, right |-> col]) : At(lay, row, i) < Limit(s, lay)}
      places  == {At(lay, row, i) : i \in inside}
      part(a) == CHOOSE i \in inside : At(lay, row, i) = a
      put(a)  == IF how = "opaque" THEN new(part(a)) ELSE BitXor(s.b.vram[a], new(part(a)))
  IN  Rewritten(s, [a \in DOMAIN s.b.vram |-> IF a \in places THEN put(a) ELSE s.b.vram[a]])

=============================================================================
