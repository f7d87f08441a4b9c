---------------------------- MODULE VideoBuffer ----------------------------
(***************************************************************************)
(* The video buffer of core/src/video/video_buffer.rs: the video memory,   *)
(* the registers that say how it is looked at, and the picture a front end *)
(* makes of both.                                                          *)
(*                                                                         *)
(* Sizes are constants, so that a screen of two rows stands for one of 25: *)
(* the layouts (character cells, interleaved banks, planes, one byte per   *)
(* dot) keep their form.  A colour is the triple of its DAC components,    *)
(* and <<i, i, i>> stands for what the tables have for entry i: the first  *)
(* sixteen agree in all of them, and a machine has one card.  A glyph is its character: a text cell of the picture says which  *)
(* character is drawn in which two colours, a graphics picture is a colour *)
(* for every dot.  Repeated lines (mode 0Eh, 06h) and the conversion from  *)
(* six to eight bits lose nothing and are left out, and so is the blink    *)
(* phase, which no front end ever changes.                                 *)
(***************************************************************************)
EXTENDS Alu, Sequences

CONSTANTS Wide,      \* TEXT_MODE_COLS, and the bytes of a line of 640 dots
          Narrow,    \* TEXT_MODE_COLS_40, and the bytes of a line of 320 planar dots
          ScreenRows,\* TEXT_MODE_ROWS
          TallRows,  \* the rows of modes 11h and 12h
          Cell8, Cell14, Cell16,  \* the heights of a character in graphics modes
          Bank,      \* the distance of the two CGA banks, 0x2000
          Plane,     \* EGA_PLANE_SIZE
          Colors,    \* the entries of the DAC
          Low        \* the values of one half of a cursor location, 256

ASSUME SizesAssumption ==
  /\ {Wide, Narrow, ScreenRows, TallRows, Cell8, Cell14, Cell16, Bank, Plane, Colors, Low}
       \subseteq Nat \ {0}
  /\ Wide = 2 * Narrow
  /\ 2 * ScreenRows * Wide <= 4 * Bank
  /\ TallRows * Cell16 * Wide <= Plane
  /\ ScreenRows * Cell14 * Wide <= Plane
  /\ ScreenRows * Cell8 * Narrow * 8 <= Plane
  /\ 4 * Bank <= 4 * Plane

\* Scan lines of a character in the text modes, whose cursor is counted in them.
TextCell     == 16
HalfTextCell == 8
DefaultCursorStart == 12
DefaultCursorEnd   == 13

CgaModes    == {4, 5, 6}
PlanarModes == {13, 14, 15, 16, 17, 18}
GraphicsModes == CgaModes \union PlanarModes \union {19}
KnownModes  == GraphicsModes \union {0, 1, 2, 3, 7}

\* get_text_dimensions, for the modes that have them.
TextRows(mode) == IF mode \in {17, 18} THEN TallRows ELSE ScreenRows
TextCols(mode) == IF mode \in {0, 1, 4, 5, 13, 19} THEN Narrow ELSE Wide

Memory  == 0..4 * Plane - 1
Frame13 == ScreenRows * Cell8 * Narrow * 8
Unset   == -1

TextColors == 16
Black      == <<0, 0, 0>>
NoDac      == [i \in 0..Colors-1 |-> Black]
\* The first n entries as the tables have them.
Defaults(dac, n) == [i \in 0..Colors-1 |-> IF i < n THEN <<i, i, i>> ELSE dac[i]]
DefaultPalette == [i \in 0..15 |-> i]
Space     == 32
LightGray == 7

(***************************************************************************)
(* The buffer and what is done to it.                                      *)
(***************************************************************************)
Buffers ==
  [mode: Nat, columns: {Wide, Narrow}, vram: [Memory -> 0..255],
   bg: 0..15, intensity: BOOLEAN, palette: BOOLEAN, composite: BOOLEAN,
   ac: [0..15 -> 0..255], ac_programmed: BOOLEAN, dac: [0..Colors-1 -> (0..63) \X (0..63) \X (0..63)],
   blink: BOOLEAN, cursor: Nat, cursor_start: 0..31, cursor_end: 0..255, visible: BOOLEAN,
   start: Nat, max_scan_line: {Unset} \union 0..255, rows: {Unset} \union 0..255,
   offset: {Unset} \union 0..255, dirty: BOOLEAN]

\* reset; new does it on memory of zeros.  It is not marked dirty.
BufferReset(mem) ==
  [mode |-> 3, columns |-> Wide,
   vram |-> [a \in Memory |-> IF a >= 2 * ScreenRows * Wide THEN mem[a]
                              ELSE IF a % 2 = 0 THEN Space ELSE LightGray],
   bg |-> 0, intensity |-> FALSE, palette |-> FALSE, composite |-> FALSE,
   ac |-> DefaultPalette, ac_programmed |-> FALSE, dac |-> Defaults(NoDac, TextColors),
   blink |-> FALSE, cursor |-> 0, cursor_start |-> DefaultCursorStart,
   cursor_end |-> DefaultCursorEnd, visible |-> TRUE,
   start |-> 0, max_scan_line |-> Unset, rows |-> Unset, offset |-> Unset, dirty |-> FALSE]

\* set_mode: the caller marks the buffer dirty.
BufferSetMode(b, mode) ==
  [b EXCEPT !.mode = mode, !.columns = IF mode \in {0, 1} THEN Narrow ELSE Wide,
            !.blink = mode = 7, !.ac = DefaultPalette, !.ac_programmed = FALSE]

\* reset_crtc_overrides
ResetOverrides(b) ==
  [b EXCEPT !.start = 0, !.max_scan_line = Unset, !.rows = Unset, !.offset = Unset, !.dirty = TRUE]

\* write_vram
WriteVram(b, a, x) == [b EXCEPT !.vram[a] = x, !.dirty = TRUE]

SetDac(b, i, rgb) == [b EXCEPT !.dac[i] = rgb, !.dirty = TRUE]

\* set_cga_color_select, as the port writes its three fields.
SetColorSelect(b, x) ==
  [b EXCEPT !.bg = x % 16, !.intensity = Bit(x, 4) = 1, !.palette = Bit(x, 5) = 1, !.dirty = TRUE]

SetAcPalette(b, i, x) == [b EXCEPT !.ac[i] = x, !.ac_programmed = TRUE, !.dirty = TRUE]

\* Mutant: the comparison that saves a refresh is made after the assignment.
BlinkUnnoticed(b, on) == [b EXCEPT !.blink = on]

SetBlink(b, on) == IF b.blink = on THEN b ELSE [b EXCEPT !.blink = on, !.dirty = TRUE]

SetCursorShape(b, x) ==
  [b EXCEPT !.visible = Bit(x, 5) = 0, !.cursor_start = x % 32, !.dirty = TRUE]

(***************************************************************************)
(* The picture: render_into.                                               *)
(***************************************************************************)
Overridden(b) == b.max_scan_line # Unset \/ b.rows # Unset

CellHeight(b) ==
  IF b.max_scan_line # Unset THEN b.max_scan_line + 1
  ELSE IF b.mode \in {0, 1} THEN HalfTextCell ELSE TextCell

RowsShown(b) == IF b.rows = Unset THEN ScreenRows ELSE b.rows

\* How often a scan line is repeated, so that fewer lines fill the same frame.
LineScale(b) ==
  LET lines == RowsShown(b) * CellHeight(b) IN
  IF Overridden(b) /\ lines > 0 /\ lines < TextCell * ScreenRows
  THEN (TextCell * ScreenRows) \div lines ELSE 1

Foreground(b, attr) == b.dac[attr % 16]
Background(b, attr) == b.dac[(attr \div 16) % (IF b.blink THEN 8 ELSE 16)]

\* render_cursor: the cell it takes its colour from is counted from the start
\* of the memory.
CursorShown(b) ==
  LET row  == b.cursor \div b.columns
      last == IF b.cursor_end < CellHeight(b) THEN b.cursor_end ELSE CellHeight(b) - 1
  IN  IF b.visible /\ row < ScreenRows /\ b.cursor_start <= last
      THEN <<row, b.cursor % b.columns, b.cursor_start, last,
             Foreground(b, b.vram[2 * b.cursor + 1])>>
      ELSE <<>>

TextPicture(b) ==
  [size   |-> <<b.columns, RowsShown(b), CellHeight(b), LineScale(b), Overridden(b)>>,
   cells  |-> [p \in (0..RowsShown(b)-1) \X (0..b.columns-1) |->
                 LET i == 2 * (b.start + p[1] * b.columns + p[2]) IN
                 <<b.vram[i], Foreground(b, b.vram[i+1]), Background(b, b.vram[i+1])>>],
   cursor |-> CursorShown(b)]

Dots(width, height) == (0..width-1) \X (0..height-1)

\* An interleaved line: even lines in the first bank, odd lines in the second.
Interleaved(y) == (y % 2) * Bank + (y \div 2) * Wide

\* The four colours of modes 04h and 05h.
ColorMap(b) ==
  CASE b.mode = 5 /\ ~b.intensity -> <<b.bg, 3, 4, 7>>
    [] b.mode = 5 /\ b.intensity  -> <<b.bg, 11, 12, 15>>
    [] b.mode # 5 /\ ~b.palette /\ ~b.intensity -> <<b.bg, 2, 4, 6>>
    [] b.mode # 5 /\ ~b.palette /\ b.intensity  -> <<b.bg, 10, 12, 14>>
    [] b.mode # 5 /\ b.palette /\ ~b.intensity  -> <<b.bg, 3, 5, 7>>
    [] b.mode # 5 /\ b.palette /\ b.intensity   -> <<b.bg, 11, 13, 15>>

FourColorPicture(b) ==
  [p \in Dots(8 * Narrow, ScreenRows * Cell8) |->
     LET byte == b.vram[Interleaved(p[2]) + p[1] \div 4]
         dot  == (byte \div 2^(6 - 2 * (p[1] % 4))) % 4
     IN  b.dac[IF b.ac_programmed THEN b.ac[dot] ELSE ColorMap(b)[dot+1]]]

TwoColorPicture(b) ==
  [p \in Dots(8 * Wide, ScreenRows * Cell8) |->
     LET byte == b.vram[Interleaved(p[2]) + p[1] \div 8] IN
     b.dac[IF Bit(byte, 7 - (p[1] % 8)) = 1 THEN b.bg ELSE 0]]

\* The composite picture mixes neighbouring dots: it is named by all that it
\* depends on.
CompositePicture(b) ==
  [bits |-> [p \in Dots(8 * Wide, ScreenRows * Cell8) |->
               Bit(b.vram[Interleaved(p[2]) + p[1] \div 8], 7 - (p[1] % 8))],
   phase |-> b.intensity, bright |-> b.bg >= 8]

LineBytes(b) == IF b.offset # Unset THEN 2 * b.offset
                ELSE IF b.mode = 13 THEN Narrow ELSE Wide

PlanarHeight(mode) ==
  CASE mode \in {13, 14} -> ScreenRows * Cell8
    [] mode \in {15, 16} -> ScreenRows * Cell14
    [] mode \in {17, 18} -> TallRows * Cell16

PlanarPicture(b) ==
  [p \in Dots(8 * TextCols(b.mode), PlanarHeight(b.mode)) |->
     LET at     == (b.start + p[2] * LineBytes(b) + p[1] \div 8) % Plane
         dot[n \in 0..3] == Bit(b.vram[n * Plane + at], 7 - (p[1] % 8))
     IN  CASE b.mode = 15 -> <<"level", 2 * dot[2] + dot[0]>>
           [] b.mode = 17 -> b.dac[15 * dot[0]]
           [] OTHER -> b.dac[dot[0] + 2 * dot[1] + 4 * dot[2] + 8 * dot[3]]]

LinearPicture(b) ==
  [p \in Dots(8 * Narrow, ScreenRows * Cell8) |-> b.dac[b.vram[p[2] * 8 * Narrow + p[1]] % Colors]]

Picture(b) ==
  CASE b.mode \in {4, 5}               -> FourColorPicture(b)
    [] b.mode = 6 /\ b.composite       -> CompositePicture(b)
    [] b.mode = 6 /\ ~b.composite      -> TwoColorPicture(b)
    [] b.mode \in PlanarModes          -> PlanarPicture(b)
    [] b.mode = 19                     -> LinearPicture(b)
    [] OTHER                           -> TextPicture(b)

=============================================================================
