------------------------ MODULE VideoServices_proofs ------------------------
(***************************************************************************)
(* Two theorems about the video services, for every case, adapter, mode    *)
(* and size that the assumptions allow: the window of the front end shows  *)
(* the screen, and in a text mode the services implement TextScreen.       *)
(*                                                                         *)
(* The invariant says what a screen is (Screen: the data area of the BIOS  *)
(* is sound, the memory holds at least the text), and that the window      *)
(* shows it unless the buffer is marked.  A request is a composition of    *)
(* port and memory accesses and of changes of the data area.  Of each      *)
(* operator, from the registers upwards to Served, a lemma says that it    *)
(* leaves a screen whose buffer is the old one or marked: Reached for      *)
(* accesses, Became for what may change the data area too, Unseen and      *)
(* Beside where text and cursor besides stay as they are.                  *)
(*                                                                         *)
(* For the refinement, TextOf is the screen of TextScreen that lies in a   *)
(* state.  A scroll is followed byte by byte through its rows, in the      *)
(* order the BIOS takes them, to the single motion of TextScreen; each     *)
(* other service is one of TextScreen's operations on the fields.          *)
(***************************************************************************)
EXTENDS VideoServices, NumberLemmas, SequenceTheorems, FiniteSetTheorems

(***************************************************************************)
(* What a screen is.                                                       *)
(***************************************************************************)
Types     == {"MDA", "HGC", "CGA", "EGA", "VGA"}
TextBytes == 0..2 * ScreenRows * Wide - 1

\* The fields that a picture is made of.
Looked == {"mode", "columns", "vram", "bg", "intensity", "palette", "composite", "ac",
           "ac_programmed", "dac", "blink", "cursor", "cursor_start", "cursor_end", "visible", "start",
           "max_scan_line", "rows", "offset"}

BufferOK(b) ==
  /\ {"dirty", "vram", "cursor"} \subseteq DOMAIN b /\ Looked \subseteq DOMAIN b
  /\ b.dirty \in BOOLEAN /\ b.cursor \in Nat
  /\ TextBytes \subseteq DOMAIN b.vram

BdaOK(a, type) ==
  /\ {"mode", "cols", "rows", "page", "cursors", "crtc", "page_size"} \subseteq DOMAIN a
  /\ a.crtc = IF type \in {"MDA", "HGC"} THEN MonoIndex ELSE CrtcIndex
  /\ a.mode \in KnownModes /\ a.cols \in {Wide, Narrow}
  /\ a.rows \in Nat /\ (a.mode \notin GraphicsModes => a.rows = ScreenRows - 1)
  /\ a.page \in 0..7 /\ a.page_size \in Nat /\ a.cursors \in [0..7 -> Nat \X Nat]

Screen(t) ==
  /\ {"type", "b", "k", "bda", "reply"} \subseteq DOMAIN t
  /\ t.type \in Types /\ BufferOK(t.b) /\ BdaOK(t.bda, t.type)
  /\ "io_register" \in DOMAIN t.k

\* Buffer c is b, or says that it has changed.
Announced(b, c) == BufferOK(c) /\ (c.dirty \/ c = b)

SameText(b, c) == c.vram = b.vram /\ c.cursor = b.cursor

\* What an access may do to a screen.
Reached(t, u) ==
  /\ DOMAIN u = DOMAIN t /\ u.type = t.type /\ u.bda = t.bda
  /\ "io_register" \in DOMAIN u.k
  /\ Announced(t.b, u.b)

\* An access leaves a screen.
LEMMA ReachedScreen ==
  ASSUME NEW t, Screen(t), NEW u, Reached(t, u)
  PROVE  Screen(u)
BY DEF Screen, Reached, Announced

\* To do nothing is an access that keeps the text.
LEMMA ReachedItself ==
  ASSUME NEW t, Screen(t)
  PROVE  Reached(t, t) /\ SameText(t.b, t.b)
BY DEF Screen, Reached, Announced, SameText

\* Two accesses one after the other.
LEMMA ReachedBoth ==
  ASSUME NEW t, NEW u, NEW v, Reached(t, u), Reached(u, v)
  PROVE  Reached(t, v) /\ (SameText(t.b, u.b) /\ SameText(u.b, v.b) => SameText(t.b, v.b))
BY DEF Reached, Announced, SameText

-----------------------------------------------------------------------------
(* The buffer. *)

\* The registers of colours and of the cursor's shape.
LEMMA BufferSteps ==
  ASSUME NEW b, BufferOK(b), NEW x, NEW i, NEW rgb, NEW on
  PROVE  /\ Announced(b, SetDac(b, i, rgb)) /\ SameText(b, SetDac(b, i, rgb))
         /\ Announced(b, SetColorSelect(b, x)) /\ SameText(b, SetColorSelect(b, x))
         /\ Announced(b, SetAcPalette(b, i, x)) /\ SameText(b, SetAcPalette(b, i, x))
         /\ Announced(b, SetBlink(b, on)) /\ SameText(b, SetBlink(b, on))
         /\ Announced(b, SetCursorShape(b, x)) /\ SameText(b, SetCursorShape(b, x))
<1>1. Announced(b, SetDac(b, i, rgb)) /\ SameText(b, SetDac(b, i, rgb))
  BY DEF BufferOK, Announced, SameText, SetDac
<1>2. Announced(b, SetColorSelect(b, x)) /\ SameText(b, SetColorSelect(b, x))
  BY DEF BufferOK, Announced, SameText, SetColorSelect
<1>3. Announced(b, SetAcPalette(b, i, x)) /\ SameText(b, SetAcPalette(b, i, x))
  BY DEF BufferOK, Announced, SameText, SetAcPalette
<1>4. Announced(b, SetBlink(b, on)) /\ SameText(b, SetBlink(b, on))
  BY DEF BufferOK, Announced, SameText, SetBlink
<1>5. Announced(b, SetCursorShape(b, x)) /\ SameText(b, SetCursorShape(b, x))
  BY DEF BufferOK, Announced, SameText, SetCursorShape
<1> QED BY <1>1, <1>2, <1>3, <1>4, <1>5

\* A byte of the memory, with the mark.
LEMMA WriteVramIs ==
  ASSUME NEW b, BufferOK(b), NEW a, NEW x
  PROVE  /\ Announced(b, WriteVram(b, a, x)) /\ WriteVram(b, a, x).cursor = b.cursor
         /\ WriteVram(b, a, x).vram = [b.vram EXCEPT ![a] = x]
BY DEF BufferOK, Announced, WriteVram

\* A mode set, of the BIOS or of a port that then marks the buffer.
LEMMA BufferSetModeIs ==
  ASSUME NEW b, BufferOK(b), NEW mode
  PROVE  /\ BufferOK(BufferSetMode(b, mode)) /\ SameText(b, BufferSetMode(b, mode))
         /\ BufferSetMode(b, mode).dirty = b.dirty
         /\ BufferOK(ResetOverrides(b)) /\ SameText(b, ResetOverrides(b))
         /\ ResetOverrides(b).dirty
BY DEF BufferOK, SameText, BufferSetMode, ResetOverrides

-----------------------------------------------------------------------------
(* Accesses. *)

\* A value a program may write to a port: a cursor register needs a number.
Writable(port, x) == port \in {MonoData, CrtcData} => x \in Nat

\* The halves of a location are numbers, and so is what they are put into.
LEMMA HalvesAreNumbers ==
  ASSUME NEW c \in Nat, NEW x \in Nat
  PROVE  /\ High(c) \in Nat /\ LowHalf(c) \in 0..Low - 1
         /\ WithHigh(c, x) \in Nat /\ WithLow(c, x) \in Nat
<1>1. Low \in Nat \ {0}
  BY SizesAssumption
<1>2. c \div Low \in Nat /\ c % Low \in 0..Low - 1
  BY <1>1, DivisionParts
<1>3. x * Low \in Nat /\ (c \div Low) * Low \in Nat
  BY <1>1, <1>2
<1>4. /\ High(c) = c \div Low /\ LowHalf(c) = c % Low
      /\ WithHigh(c, x) = (x * Low) + (c % Low)
      /\ WithLow(c, x) = ((c \div Low) * Low) + x
  BY DEF High, LowHalf, WithHigh, WithLow
<1> QED BY <1>1, <1>2, <1>3, <1>4

\* Registers that change alone.
LEMMA RegistersOnly ==
  ASSUME NEW t, Screen(t), NEW k, "io_register" \in DOMAIN k, NEW u, u = [t EXCEPT !.k = k]
  PROVE  Reached(t, u) /\ SameText(t.b, u.b) /\ u.k = k
<1>1. "b" \in DOMAIN t /\ "k" \in DOMAIN t /\ BufferOK(t.b)
  BY DEF Screen
<1>2. u.b = t.b /\ u.k = k
  BY <1>1
<1> QED BY <1>1, <1>2 DEF Reached, Announced, SameText

\* A buffer that announces what changed.
LEMMA BufferOnly ==
  ASSUME NEW t, Screen(t), NEW c, Announced(t.b, c), NEW u, u = [t EXCEPT !.b = c]
  PROVE  Reached(t, u) /\ u.b = c /\ u.k = t.k
<1>1. {"b", "k", "type", "bda"} \subseteq DOMAIN t /\ "io_register" \in DOMAIN t.k
  BY DEF Screen
<1>2. u.b = c /\ u.k = t.k /\ u.type = t.type /\ u.bda = t.bda /\ DOMAIN u = DOMAIN t
  BY <1>1
<1> QED BY <1>1, <1>2 DEF Reached

\* One field of the buffer that is neither text nor cursor, with the mark.
LEMMA FieldMarked ==
  ASSUME NEW b, BufferOK(b), NEW f, f \notin {"vram", "cursor", "dirty"}, NEW y
  PROVE  /\ Announced(b, [[b EXCEPT !.dirty = TRUE] EXCEPT ![f] = y])
         /\ SameText(b, [[b EXCEPT !.dirty = TRUE] EXCEPT ![f] = y])
BY DEF BufferOK, Announced, SameText

\* The cursor, with the mark.
LEMMA CursorMarked ==
  ASSUME NEW b, BufferOK(b), NEW y \in Nat
  PROVE  /\ Announced(b, [[b EXCEPT !.dirty = TRUE] EXCEPT !.cursor = y])
         /\ [[b EXCEPT !.dirty = TRUE] EXCEPT !.cursor = y].vram = b.vram
         /\ [[b EXCEPT !.dirty = TRUE] EXCEPT !.cursor = y].cursor = y
BY DEF BufferOK, Announced

\* What the data port of the CRTC does, by its register.
LEMMA CrtcWriteIs ==
  ASSUME NEW t, Screen(t), NEW x \in Nat
  PROVE  /\ Reached(t, CrtcWrite(t, x)) /\ CrtcWrite(t, x).k = t.k
         /\ CrtcWrite(t, x).b.vram = t.b.vram
         /\ t.k.io_register \notin {CursorHigh, CursorLow} => SameText(t.b, CrtcWrite(t, x).b)
         /\ t.k.io_register = CursorHigh => CrtcWrite(t, x).b.cursor = WithHigh(t.b.cursor, x)
         /\ t.k.io_register = CursorLow => CrtcWrite(t, x).b.cursor = WithLow(t.b.cursor, x)
<1> DEFINE reg == t.k.io_register
           b == t.b
           marked == [b EXCEPT !.dirty = TRUE]
           mono == IsMono(t)
           end == IF IsMono(t) THEN x % 32 ELSE x
           a10 == SetCursorShape(b, x)
           a11 == [marked EXCEPT !.cursor_end = end]
           a12 == [marked EXCEPT !.start = WithHigh(@, x)]
           a13 == [marked EXCEPT !.start = WithLow(@, x)]
           a14 == [marked EXCEPT !.cursor = WithHigh(@, x)]
           a15 == [marked EXCEPT !.cursor = WithLow(@, x)]
           a6 == [marked EXCEPT !.rows = x]
           a9 == [marked EXCEPT !.max_scan_line = x]
           a19 == [marked EXCEPT !.offset = x]
           c == CASE reg = CursorStart -> a10
                  [] reg = CursorEnd   -> a11
                  [] reg = StartHigh   -> a12
                  [] reg = StartLow    -> a13
                  [] reg = CursorHigh  -> a14
                  [] reg = CursorLow   -> a15
                  [] reg = 6 /\ ~mono    -> a6
                  [] reg = 9 /\ ~mono    -> a9
                  [] reg = \h13 /\ ~mono -> a19
                  [] OTHER -> b
<1>0. BufferOK(b) /\ {"b", "k"} \subseteq DOMAIN t /\ "io_register" \in DOMAIN t.k
  BY DEF Screen
<1>1. CrtcWrite(t, x) = [t EXCEPT !.b = c]
  BY DEF CrtcWrite
<1>2. /\ CursorStart = 10 /\ CursorEnd = 11 /\ StartHigh = 12 /\ StartLow = 13
      /\ CursorHigh = 14 /\ CursorLow = 15 /\ \h13 = 19
  BY DEF CursorStart, CursorEnd, StartHigh, StartLow, CursorHigh, CursorLow
<1>3. /\ DOMAIN marked = DOMAIN b /\ marked.dirty /\ marked.cursor = b.cursor
      /\ marked.vram = b.vram /\ BufferOK(marked)
  BY <1>0 DEF BufferOK
<1>4. WithHigh(b.cursor, x) \in Nat /\ WithLow(b.cursor, x) \in Nat
  BY <1>0, HalvesAreNumbers DEF BufferOK
<1>5. Announced(b, SetCursorShape(b, x)) /\ SameText(b, SetCursorShape(b, x))
  BY <1>0, BufferSteps
<1>6. Announced(b, b) /\ SameText(b, b)
  BY <1>0 DEF Announced, SameText
<1>7. /\ Announced(b, c) /\ c.vram = b.vram
      /\ reg \notin {CursorHigh, CursorLow} => SameText(b, c)
      /\ reg = CursorHigh => c.cursor = WithHigh(b.cursor, x)
      /\ reg = CursorLow => c.cursor = WithLow(b.cursor, x)
  <2> HIDE DEF a10, a11, a12, a13, a14, a15, a6, a9, a19
  <2>1. CASE reg = 10
    <3>1. c = a10
      BY <1>2, <2>1
    <3> HIDE DEF c
    <3> QED BY <1>2, <1>5, <2>1, <3>1 DEF SameText, a10
  <2>2. CASE reg = 11
    <3> DEFINE y == end
    <3>1. c = a11
      BY <1>2, <2>2
    <3>2. a11 = [marked EXCEPT !["cursor_end"] = y]
      BY DEF a11
    <3> HIDE DEF c, y
    <3>3. Announced(b, c) /\ SameText(b, c)
      BY <1>0, <3>1, <3>2, FieldMarked
    <3> QED BY <1>2, <2>2, <3>3 DEF SameText
  <2>3. CASE reg = 12
    <3> DEFINE y == WithHigh(marked.start, x)
    <3>1. c = a12
      BY <1>2, <2>3
    <3>2. a12 = [marked EXCEPT !["start"] = y]
      BY DEF a12
    <3> HIDE DEF c, y
    <3>3. Announced(b, c) /\ SameText(b, c)
      BY <1>0, <3>1, <3>2, FieldMarked
    <3> QED BY <1>2, <2>3, <3>3 DEF SameText
  <2>4. CASE reg = 13
    <3> DEFINE y == WithLow(marked.start, x)
    <3>1. c = a13
      BY <1>2, <2>4
    <3>2. a13 = [marked EXCEPT !["start"] = y]
      BY DEF a13
    <3> HIDE DEF c, y
    <3>3. Announced(b, c) /\ SameText(b, c)
      BY <1>0, <3>1, <3>2, FieldMarked
    <3> QED BY <1>2, <2>4, <3>3 DEF SameText
  <2>5. CASE reg = 14
    <3> DEFINE y == WithHigh(b.cursor, x)
    <3>1. c = a14
      BY <1>2, <2>5
    <3>2. a14 = [marked EXCEPT !.cursor = WithHigh(marked.cursor, x)] /\ marked.cursor = b.cursor
      BY <1>3 DEF a14
    <3>3. a14 = [marked EXCEPT !.cursor = y] /\ y \in Nat
      BY <1>4, <3>2
    <3> HIDE DEF c, y
    <3>4. Announced(b, c) /\ c.vram = b.vram /\ c.cursor = y
      BY <1>0, <3>1, <3>3, CursorMarked
    <3> QED BY <1>2, <2>5, <3>4 DEF y
  <2>6. CASE reg = 15
    <3> DEFINE y == WithLow(b.cursor, x)
    <3>1. c = a15
      BY <1>2, <2>6
    <3>2. a15 = [marked EXCEPT !.cursor = WithLow(marked.cursor, x)] /\ marked.cursor = b.cursor
      BY <1>3 DEF a15
    <3>3. a15 = [marked EXCEPT !.cursor = y] /\ y \in Nat
      BY <1>4, <3>2
    <3> HIDE DEF c, y
    <3>4. Announced(b, c) /\ c.vram = b.vram /\ c.cursor = y
      BY <1>0, <3>1, <3>3, CursorMarked
    <3> QED BY <1>2, <2>6, <3>4 DEF y
  <2>7. CASE reg = 6 /\ ~mono
    <3>1. c = a6
      BY <1>2, <2>7
    <3>2. a6 = [marked EXCEPT !["rows"] = x]
      BY DEF a6
    <3> HIDE DEF c
    <3>3. Announced(b, c) /\ SameText(b, c)
      BY <1>0, <3>1, <3>2, FieldMarked
    <3> QED BY <1>2, <2>7, <3>3 DEF SameText
  <2>8. CASE reg = 9 /\ ~mono
    <3>1. c = a9
      BY <1>2, <2>8
    <3>2. a9 = [marked EXCEPT !["max_scan_line"] = x]
      BY DEF a9
    <3> HIDE DEF c
    <3>3. Announced(b, c) /\ SameText(b, c)
      BY <1>0, <3>1, <3>2, FieldMarked
    <3> QED BY <1>2, <2>8, <3>3 DEF SameText
  <2>9. CASE reg = 19 /\ ~mono
    <3>1. c = a19
      BY <1>2, <2>9
    <3>2. a19 = [marked EXCEPT !["offset"] = x]
      BY DEF a19
    <3> HIDE DEF c
    <3>3. Announced(b, c) /\ SameText(b, c)
      BY <1>0, <3>1, <3>2, FieldMarked
    <3> QED BY <1>2, <2>9, <3>3 DEF SameText
  <2>10. CASE reg \notin 10..15 /\ ~(reg \in {6, 9, 19} /\ ~mono)
    <3>1. c = b
      BY <1>2, <2>10
    <3> HIDE DEF c
    <3> QED BY <1>2, <1>6, <2>10, <3>1
  <2> HIDE DEF c
  <2> QED BY <2>1, <2>2, <2>3, <2>4, <2>5, <2>6, <2>7, <2>8, <2>9, <2>10
<1> HIDE DEF c
<1>8. Reached(t, CrtcWrite(t, x)) /\ CrtcWrite(t, x).k = t.k /\ CrtcWrite(t, x).b = c
  BY <1>1, <1>7, BufferOnly
<1> QED BY <1>7, <1>8

\* The mode byte, the attribute controller, the graphics controller and the DAC.
LEMMA ModeWriteIs ==
  ASSUME NEW t, Screen(t), NEW x
  PROVE  Reached(t, ModeWrite(t, x)) /\ SameText(t.b, ModeWrite(t, x).b)
<1> DEFINE b == BufferSetMode(t.b, ModeOf(x))
           c == [b EXCEPT !.composite = Bit(x, 3) = 1, !.dirty = TRUE]
           k == [t.k EXCEPT !.mode_ctrl = x]
<1>1. ModeWrite(t, x) = [t EXCEPT !.k = k, !.b = c]
  BY DEF ModeWrite
<1>2. BufferOK(t.b) /\ "io_register" \in DOMAIN k
  BY DEF Screen
<1>3. BufferOK(b) /\ SameText(t.b, b)
  BY <1>2, BufferSetModeIs
<1> HIDE DEF b
<1>4. Announced(t.b, c) /\ SameText(t.b, c)
  BY <1>3 DEF Announced, SameText, BufferOK
<1> HIDE DEF c, k
<1> QED BY <1>1, <1>2, <1>4 DEF Reached, Screen

\* The attribute controller: an index, then data.
LEMMA AcWriteIs ==
  ASSUME NEW t, Screen(t), NEW x
  PROVE  Reached(t, AcWrite(t, x)) /\ SameText(t.b, AcWrite(t, x).b)
<1>0. BufferOK(t.b) /\ "io_register" \in DOMAIN t.k
  BY DEF Screen
<1>1. CASE ~t.k.ac_data
  <2> DEFINE k == [t.k EXCEPT !.ac_address = x % 32, !.ac_data = TRUE]
  <2>1. AcWrite(t, x) = [t EXCEPT !.k = k]
    BY <1>1 DEF AcWrite
  <2>2. "io_register" \in DOMAIN k
    BY <1>0
  <2> HIDE DEF k
  <2> QED BY <2>1, <2>2, RegistersOnly
<1>2. CASE t.k.ac_data
  <2> DEFINE i == t.k.ac_address % 16
             k == [t.k EXCEPT !.ac[i] = x, !.ac_data = FALSE]
             on == Bit(x, 3) = 1
             c == IF t.k.ac_address < 16 THEN SetAcPalette(t.b, i, x)
                  ELSE IF t.k.ac_address = AcModeControl THEN SetBlink(t.b, on)
                  ELSE t.b
  <2>1. AcWrite(t, x) = [t EXCEPT !.k = k, !.b = c]
    BY <1>2 DEF AcWrite
  <2>2. "io_register" \in DOMAIN k
    BY <1>0
  <2>3. Announced(t.b, c) /\ SameText(t.b, c)
    <3> HIDE DEF i, on
    <3>1. /\ Announced(t.b, SetAcPalette(t.b, i, x)) /\ SameText(t.b, SetAcPalette(t.b, i, x))
          /\ Announced(t.b, SetBlink(t.b, on)) /\ SameText(t.b, SetBlink(t.b, on))
      BY <1>0, BufferSteps
    <3>2. Announced(t.b, t.b) /\ SameText(t.b, t.b)
      BY <1>0 DEF Announced, SameText
    <3> QED BY <3>1, <3>2
  <2> HIDE DEF k, c
  <2> QED BY <2>1, <2>2, <2>3 DEF Reached, Screen
<1> QED BY <1>1, <1>2

\* The graphics controller.
LEMMA GcWriteIs ==
  ASSUME NEW t, Screen(t), NEW x
  PROVE  Reached(t, GcWrite(t, x)) /\ SameText(t.b, GcWrite(t, x).b)
<1> DEFINE k == GcWrite(t, x).k
<1>1. "k" \in DOMAIN t /\ "io_register" \in DOMAIN t.k
  BY DEF Screen
<1>2. GcWrite(t, x) = [t EXCEPT !.k = k]
  BY <1>1 DEF GcWrite
<1>3. "io_register" \in DOMAIN k
  <2> DEFINE reg == t.k.gc_address
             a0 == [t.k EXCEPT !.set_reset = x % 16]
             a1 == [t.k EXCEPT !.enable = x % 16]
             a2 == [t.k EXCEPT !.compare = x % 16]
             a3 == [t.k EXCEPT !.rotate = x % 8, !.function = (x \div 8) % 4]
             a4 == [t.k EXCEPT !.read_map = x % 4]
             a5 == [t.k EXCEPT !.write_mode = x % 4, !.read_mode = Bit(x, 3)]
             a7 == [t.k EXCEPT !.dont_care = x % 16]
             a8 == [t.k EXCEPT !.bit_mask = x]
  <2>1. k = CASE reg = 0 -> a0 [] reg = 1 -> a1 [] reg = 2 -> a2 [] reg = 3 -> a3
              [] reg = 4 -> a4 [] reg = 5 -> a5 [] reg = 7 -> a7 [] reg = 8 -> a8
              [] OTHER -> t.k
    BY <1>1 DEF GcWrite
  <2>2. /\ "io_register" \in DOMAIN a0 /\ "io_register" \in DOMAIN a1
        /\ "io_register" \in DOMAIN a2 /\ "io_register" \in DOMAIN a3
        /\ "io_register" \in DOMAIN a4 /\ "io_register" \in DOMAIN a5
        /\ "io_register" \in DOMAIN a7 /\ "io_register" \in DOMAIN a8
    BY <1>1
  <2> HIDE DEF k, a0, a1, a2, a3, a4, a5, a7, a8
  <2>3. k \in {a0, a1, a2, a3, a4, a5, a7, a8, t.k}
    BY <2>1
  <2> QED BY <1>1, <2>2, <2>3
<1> HIDE DEF k
<1> QED BY <1>2, <1>3, RegistersOnly

\* The colours of the DAC.
LEMMA DacWriteIs ==
  ASSUME NEW t, Screen(t), NEW x
  PROVE  Reached(t, DacWrite(t, x)) /\ SameText(t.b, DacWrite(t, x).b)
<1> DEFINE i == t.k.dac_write \div 3
           part == t.k.dac_write % 3
           rgb == [t.k.dac[i] EXCEPT ![part+1] = x % 64]
           k == [t.k EXCEPT !.dac[i] = rgb, !.dac_write = (@ + 1) % (3 * Colors)]
           c == IF part = 2 THEN SetDac(t.b, i, rgb) ELSE t.b
<1>0. BufferOK(t.b) /\ "io_register" \in DOMAIN t.k
  BY DEF Screen
<1>1. DacWrite(t, x) = [t EXCEPT !.k = k, !.b = c]
  <2> HIDE DEF i, part, rgb
  <2>1. DacWrite(t, x) = [t EXCEPT !.k.dac[i] = rgb, !.k.dac_write = (@ + 1) % (3 * Colors),
                                   !.b = IF part = 2 THEN SetDac(@, i, rgb) ELSE @]
    BY DEF DacWrite, i, part, rgb
  <2>2. t.k.dac_write = [t.k EXCEPT !.dac[i] = rgb].dac_write
    OBVIOUS
  <2>3. t.b = [[t EXCEPT !.k = k] EXCEPT !.k = k].b
    OBVIOUS
  <2> QED BY <2>1, <2>2, <2>3
<1>2. "io_register" \in DOMAIN k
  BY <1>0
<1>3. Announced(t.b, c) /\ SameText(t.b, c)
  <2> HIDE DEF i, part, rgb
  <2>1. Announced(t.b, SetDac(t.b, i, rgb)) /\ SameText(t.b, SetDac(t.b, i, rgb))
    BY <1>0, BufferSteps
  <2>2. Announced(t.b, t.b) /\ SameText(t.b, t.b)
    BY <1>0 DEF Announced, SameText
  <2> QED BY <2>1, <2>2
<1> HIDE DEF k, c
<1> QED BY <1>1, <1>2, <1>3 DEF Reached, Screen

\* The two ports of the CRTC.
LEMMA CrtcPorts ==
  ASSUME NEW t, Screen(t), NEW x
  PROVE  /\ IoWrite(t, t.bda.crtc, x) = [t EXCEPT !.k = [t.k EXCEPT !.io_register = x]]
         /\ IoWrite(t, t.bda.crtc + 1, x) = CrtcWrite(t, x)
<1> DEFINE i == [t EXCEPT !.k = [t.k EXCEPT !.io_register = x]]
           c == CrtcWrite(t, x)
           m == ModeWrite(t, x)
           color == [t EXCEPT !.k.color_select = x, !.b = SetColorSelect(@, x)]
           ctrl == [t EXCEPT !.k.mode_ctrl = x]
<1>1. /\ IsMono(t) => t.bda.crtc = 948 /\ t.bda.crtc + 1 = 949
      /\ ~IsMono(t) => t.bda.crtc = 980 /\ t.bda.crtc + 1 = 981
  BY SMTT(60) DEF Screen, BdaOK, IsMono, MonoIndex, CrtcIndex
<1>2. ASSUME NEW port, IsMono(t)
      PROVE  IoWrite(t, port, x) = CASE port = 948 -> i [] port = 949 -> c [] port = 952 -> ctrl
                                     [] OTHER -> t
  BY <1>2 DEF IoWrite, MonoIndex, MonoData, MonoMode
<1>3. ASSUME NEW port \in {980, 981}, ~IsMono(t)
      PROVE  IoWrite(t, port, x) = IF port = 980 THEN i ELSE c
  <2> DEFINE rest == IF ~IsEgaVga(t) THEN t ELSE
                CASE port = SeqIndex  -> [t EXCEPT !.k.seq_address = x]
                  [] port = SeqData /\ t.k.seq_address = 2 -> [t EXCEPT !.k.map_mask = x]
                  [] port = MiscPort  -> [t EXCEPT !.k.misc = x]
                  [] port = AcPort    -> AcWrite(t, x)
                  [] port = GcIndex   -> [t EXCEPT !.k.gc_address = x]
                  [] port = GcData    -> GcWrite(t, x)
                  [] port = DacReadIndex  -> [t EXCEPT !.k.dac_read = 3 * x]
                  [] port = DacWriteIndex -> [t EXCEPT !.k.dac_write = 3 * x]
                  [] port = DacData   -> DacWrite(t, x)
                  [] OTHER -> t
  <2>1. IoWrite(t, port, x) = CASE port = 980 -> i [] port = 981 -> c [] port = 984 -> m
                                [] port = 985 -> color [] OTHER -> rest
    BY <1>3 DEF IoWrite, CrtcIndex, CrtcData, ModePort, ColorPort
  <2> HIDE DEF rest, i, c, m, color
  <2> QED BY <2>1, SMTT(60)
<1> HIDE DEF i, c, m, color, ctrl
<1>4. CASE IsMono(t)
  BY <1>1, <1>2, <1>4 DEF i, c
<1>5. CASE ~IsMono(t)
  BY <1>1, <1>3, <1>5 DEF i, c
<1> QED BY <1>4, <1>5

\* A port keeps the text and the cursor, unless it is a cursor register's.
LEMMA IoWriteIs ==
  ASSUME NEW t, Screen(t), NEW port, NEW x, Writable(port, x)
  PROVE  /\ Reached(t, IoWrite(t, port, x))
         /\ IoWrite(t, port, x).b.vram = t.b.vram
         /\ \/ SameText(t.b, IoWrite(t, port, x).b)
            \/ /\ port = t.bda.crtc + 1
               /\ t.k.io_register \in {CursorHigh, CursorLow}
<1> DEFINE u == IoWrite(t, port, x)
           f(name) == [t EXCEPT !.k = [t.k EXCEPT ![name] = x]]
           dr == [t EXCEPT !.k = [t.k EXCEPT !["dac_read"] = 3 * x]]
           dw == [t EXCEPT !.k = [t.k EXCEPT !["dac_write"] = 3 * x]]
           color == [t EXCEPT !.k.color_select = x, !.b = SetColorSelect(t.b, x)]
           Kept(v) == Reached(t, v) /\ SameText(t.b, v.b)
<1>0. /\ BufferOK(t.b) /\ "io_register" \in DOMAIN t.k
      /\ IsMono(t) => t.bda.crtc + 1 = MonoData
      /\ ~IsMono(t) => t.bda.crtc + 1 = CrtcData
  BY DEF Screen, BdaOK, IsMono, MonoData, CrtcData, MonoIndex, CrtcIndex
<1>1. ASSUME NEW name, NEW y PROVE Kept([t EXCEPT !.k = [t.k EXCEPT ![name] = y]])
  <2> DEFINE k == [t.k EXCEPT ![name] = y]
             v == [t EXCEPT !.k = k]
  <2>1. "io_register" \in DOMAIN k
    BY <1>0
  <2>2. v = [t EXCEPT !.k = k]
    OBVIOUS
  <2> HIDE DEF k, v
  <2>3. Kept(v)
    BY <2>1, <2>2, RegistersOnly
  <2> QED BY <2>3 DEF k, v
<1>2. Kept(t)
  BY ReachedItself
<1>3. Kept(color)
  <2> DEFINE k == [t.k EXCEPT !.color_select = x]
             c == SetColorSelect(t.b, x)
  <2>1. "io_register" \in DOMAIN k /\ color = [t EXCEPT !.k = k, !.b = c]
    BY <1>0
  <2>2. Announced(t.b, c) /\ SameText(t.b, c)
    BY <1>0, BufferSteps
  <2> HIDE DEF k, c, color
  <2> QED BY <2>1, <2>2 DEF Reached, Screen
<1>4. /\ Kept(ModeWrite(t, x)) /\ Kept(AcWrite(t, x)) /\ Kept(GcWrite(t, x)) /\ Kept(DacWrite(t, x))
  BY ModeWriteIs, AcWriteIs, GcWriteIs, DacWriteIs
<1>5. CASE port = t.bda.crtc + 1
  <2>1. u = CrtcWrite(t, x)
    BY <1>5, CrtcPorts
  <2>2. x \in Nat
    BY <1>0, <1>5 DEF Writable
  <2> HIDE DEF u
  <2> QED BY <1>5, <2>1, <2>2, CrtcWriteIs DEF u
<1>6. CASE port # t.bda.crtc + 1
  <2>1. u = IF IsMono(t)
            THEN CASE port = MonoIndex -> f("io_register")
                   [] port = MonoData  -> CrtcWrite(t, x)
                   [] port = MonoMode  -> f("mode_ctrl")
                   [] OTHER -> t
            ELSE CASE port = CrtcIndex -> f("io_register")
                   [] port = CrtcData  -> CrtcWrite(t, x)
                   [] port = ModePort  -> ModeWrite(t, x)
                   [] port = ColorPort -> color
                   [] OTHER -> IF ~IsEgaVga(t) THEN t ELSE
                        CASE port = SeqIndex  -> f("seq_address")
                          [] port = SeqData /\ t.k.seq_address = 2 -> f("map_mask")
                          [] port = MiscPort  -> f("misc")
                          [] port = AcPort    -> AcWrite(t, x)
                          [] port = GcIndex   -> f("gc_address")
                          [] port = GcData    -> GcWrite(t, x)
                          [] port = DacReadIndex  -> dr
                          [] port = DacWriteIndex -> dw
                          [] port = DacData   -> DacWrite(t, x)
                          [] OTHER -> t
    BY SMTT(60) DEF IoWrite
  <2>2. Kept(f("io_register")) /\ Kept(f("mode_ctrl")) /\ Kept(f("seq_address")) /\ Kept(f("map_mask"))
        /\ Kept(f("misc")) /\ Kept(f("gc_address")) /\ Kept(dr) /\ Kept(dw)
    <3> HIDE DEF Kept
    <3> QED BY <1>1
  <2> HIDE DEF u, f, color, dr, dw, Kept
  <2>3. Kept(u)
    <3>1. CASE IsMono(t)
      BY <1>0, <1>2, <1>6, <2>1, <2>2, <3>1 DEF MonoIndex, MonoData, MonoMode
    <3>2. CASE ~IsMono(t)
      <4>1. u \in {f("io_register"), ModeWrite(t, x), color, t, f("seq_address"), f("map_mask"), f("misc"),
                   AcWrite(t, x), f("gc_address"), GcWrite(t, x), dr, dw, DacWrite(t, x)}
        BY <1>0, <1>6, <2>1, <3>2 DEF CrtcIndex, CrtcData, ModePort, ColorPort, SeqIndex, SeqData, MiscPort,
           AcPort, GcIndex, GcData, DacReadIndex, DacWriteIndex, DacData
      <4> QED BY <1>2, <1>3, <1>4, <2>2, <4>1
    <3> QED BY <3>1, <3>2
  <2> QED BY <2>3 DEF u, Kept, SameText
<1> QED BY <1>5, <1>6

\* Reading a port changes registers only.
LEMMA IoReadIs ==
  ASSUME NEW t, Screen(t), NEW port
  PROVE  /\ DOMAIN IoRead(t, port).s = DOMAIN t /\ IoRead(t, port).s.type = t.type
         /\ IoRead(t, port).s.bda = t.bda /\ IoRead(t, port).s.b = t.b
         /\ "io_register" \in DOMAIN IoRead(t, port).s.k
<1> DEFINE got == IoRead(t, port)
           flip == [t EXCEPT !.k.ac_data = FALSE]
           next == [t EXCEPT !.k.dac_read = (@ + 1) % (3 * Colors)]
<1>0. {"b", "k", "type", "bda"} \subseteq DOMAIN t /\ "io_register" \in DOMAIN t.k
  BY DEF Screen
<1>1. got.s \in {t, flip, next}
  <2> DEFINE just(x) == [s |-> t, x |-> x]
             k == t.k
             m1 == CASE port = MonoIndex -> k.io_register
                     [] port = MonoData  -> CrtcRead(t)
                     [] port = MonoMode  -> k.mode_ctrl
                     [] OTHER -> 255
             q == IF k.seq_address = 2 THEN k.map_mask ELSE 0
             a == k.ac[k.ac_address % 16]
             g == GcRead(k)
             c == CrtcRead(t)
             d == k.dac[k.dac_read \div 3][(k.dac_read % 3) + 1]
             flipped == [s |-> flip, x |-> 0]
             nexted  == [s |-> next, x |-> d]
             simple == {just(m1), just(k.io_register), just(c), just(k.mode_ctrl), just(k.color_select),
                        just(255), just(k.misc), just(k.seq_address), just(q), just(k.ac_address),
                        just(a), just(k.gc_address), just(g)}
  <2>1. got = IF IsMono(t) THEN just(m1)
              ELSE CASE port = CrtcIndex -> just(k.io_register)
                     [] port = CrtcData  -> just(c)
                     [] port = ModePort  -> just(k.mode_ctrl)
                     [] port = ColorPort -> just(k.color_select)
                     [] port = StatusPort -> flipped
                     [] OTHER -> IF ~IsEgaVga(t) THEN just(255) ELSE
                          CASE port = MiscRead  -> just(k.misc)
                            [] port = SeqIndex  -> just(k.seq_address)
                            [] port = SeqData   -> just(q)
                            [] port = AcPort    -> just(k.ac_address)
                            [] port = AcRead    -> just(a)
                            [] port = GcIndex   -> just(k.gc_address)
                            [] port = GcData    -> just(g)
                            [] port = DacData   -> nexted
                            [] OTHER -> just(255)
    BY DEF IoRead
  <2>2. \A x \in simple : x.s = t
    OBVIOUS
  <2> HIDE DEF got, m1, q, a, g, c, d, just, flipped, nexted
  <2>3. got \in simple \union {flipped, nexted}
    BY <2>1 DEF CrtcIndex, CrtcData, ModePort, ColorPort, StatusPort, MiscRead, SeqIndex, SeqData,
                AcPort, AcRead, GcIndex, GcData, DacData
  <2> HIDE DEF simple
  <2>4. flipped.s = flip /\ nexted.s = next
    BY DEF flipped, nexted
  <2> QED BY <2>2, <2>3, <2>4
<1> HIDE DEF got
<1>2. /\ flip.b = t.b /\ flip.bda = t.bda /\ flip.type = t.type /\ DOMAIN flip = DOMAIN t
      /\ "io_register" \in DOMAIN flip.k
  BY <1>0
<1>3. /\ next.b = t.b /\ next.bda = t.bda /\ next.type = t.type /\ DOMAIN next = DOMAIN t
      /\ "io_register" \in DOMAIN next.k
  BY <1>0
<1> HIDE DEF flip, next
<1>4. /\ DOMAIN got.s = DOMAIN t /\ got.s.type = t.type /\ got.s.bda = t.bda /\ got.s.b = t.b
      /\ "io_register" \in DOMAIN got.s.k
  BY <1>0, <1>1, <1>2, <1>3
<1> QED BY <1>4 DEF got

\* Reading the memory changes the latches only.
LEMMA MemoryReadIs ==
  ASSUME NEW t, Screen(t), NEW window, NEW at
  PROVE  /\ DOMAIN MemoryRead(t, window, at).s = DOMAIN t
         /\ MemoryRead(t, window, at).s.type = t.type
         /\ MemoryRead(t, window, at).s.bda = t.bda /\ MemoryRead(t, window, at).s.b = t.b
         /\ "io_register" \in DOMAIN MemoryRead(t, window, at).s.k
<1> DEFINE got == MemoryRead(t, window, at)
           planes == Planes(t, at)
           latched == [t EXCEPT !.k.latches = planes]
           x == IF t.k.read_mode = 1 THEN Matching(t.k, planes) ELSE planes[t.k.read_map]
           y == ReadByte(t, at)
           z == IF at < Frame13 THEN ReadByte(t, at) ELSE 255
<1>0. {"b", "k", "type", "bda"} \subseteq DOMAIN t /\ "io_register" \in DOMAIN t.k
  BY DEF Screen
<1>1. got = IF ~Reaches(t, window) THEN [s |-> t, x |-> 255]
            ELSE IF window # "A000" THEN [s |-> t, x |-> y]
            ELSE IF t.b.mode = 19 THEN [s |-> t, x |-> z]
            ELSE [s |-> latched, x |-> x]
  BY DEF MemoryRead
<1>2. /\ latched.b = t.b /\ latched.bda = t.bda /\ latched.type = t.type /\ DOMAIN latched = DOMAIN t
      /\ "io_register" \in DOMAIN latched.k
  <2> HIDE DEF planes
  <2> QED BY <1>0
<1> HIDE DEF got, latched, x, y, z
<1>3. got.s \in {t, latched}
  BY <1>1
<1>4. /\ DOMAIN got.s = DOMAIN t /\ got.s.type = t.type /\ got.s.bda = t.bda /\ got.s.b = t.b
      /\ "io_register" \in DOMAIN got.s.k
  BY <1>0, <1>2, <1>3
<1> QED BY <1>4 DEF got

\* A byte of the memory.
LEMMA WriteByteIs ==
  ASSUME NEW t, Screen(t), NEW a, NEW x
  PROVE  /\ Reached(t, WriteByte(t, a, x)) /\ WriteByte(t, a, x).b.cursor = t.b.cursor
         /\ DOMAIN WriteByte(t, a, x).b.vram = DOMAIN t.b.vram
         /\ \A p \in DOMAIN t.b.vram :
              WriteByte(t, a, x).b.vram[p] = IF p = a /\ a < VramSize(t) THEN x ELSE t.b.vram[p]
<1>0. BufferOK(t.b)
  BY DEF Screen
<1>1. CASE a < VramSize(t)
  <2> DEFINE c == WriteVram(t.b, a, x)
  <2>1. WriteByte(t, a, x) = [t EXCEPT !.b = c]
    BY <1>1 DEF WriteByte
  <2>2. Announced(t.b, c) /\ c.cursor = t.b.cursor /\ c.vram = [t.b.vram EXCEPT ![a] = x]
    BY <1>0, WriteVramIs
  <2>3. /\ DOMAIN c.vram = DOMAIN t.b.vram
        /\ \A p \in DOMAIN t.b.vram : c.vram[p] = IF p = a /\ a < VramSize(t) THEN x ELSE t.b.vram[p]
    BY <1>1, <2>2
  <2> HIDE DEF c
  <2>4. Reached(t, WriteByte(t, a, x)) /\ WriteByte(t, a, x).b = c
    BY <2>1, <2>2, BufferOnly
  <2> QED BY <2>2, <2>3, <2>4
<1>2. CASE ~(a < VramSize(t))
  BY <1>2, ReachedItself DEF WriteByte
<1> QED BY <1>1, <1>2

\* A buffer whose memory has grown over, with the mark.
LEMMA MemoryMarked ==
  ASSUME NEW b, BufferOK(b), NEW mem, TextBytes \subseteq DOMAIN mem
  PROVE  /\ Announced(b, [b EXCEPT !.vram = mem, !.dirty = TRUE])
         /\ [b EXCEPT !.vram = mem, !.dirty = TRUE].vram = mem
         /\ [b EXCEPT !.vram = mem, !.dirty = TRUE].cursor = b.cursor
         /\ [b EXCEPT !.vram = mem, !.dirty = TRUE].dirty
BY DEF BufferOK, Announced

\* The same of a screen.
LEMMA ScreenMarked ==
  ASSUME NEW t, Screen(t), NEW mem, TextBytes \subseteq DOMAIN mem
  PROVE  /\ Reached(t, Rewritten(t, mem)) /\ Rewritten(t, mem).b.vram = mem
         /\ Rewritten(t, mem).b.cursor = t.b.cursor /\ Rewritten(t, mem).b.dirty
         /\ Rewritten(t, mem).k = t.k
<1> DEFINE u == Rewritten(t, mem)
           c == [t.b EXCEPT !.vram = mem, !.dirty = TRUE]
<1>1. BufferOK(t.b) /\ "b" \in DOMAIN t
  BY DEF Screen
<1>2. u = [t EXCEPT !.b = c]
  BY <1>1 DEF Rewritten
<1>3. Announced(t.b, c) /\ c.vram = mem /\ c.cursor = t.b.cursor /\ c.dirty
  BY <1>1, MemoryMarked
<1>4. "io_register" \in DOMAIN t.k /\ {"b", "k", "type", "bda"} \subseteq DOMAIN t
  BY DEF Screen
<1> HIDE DEF c, u
<1>5. u.b = c /\ u.k = t.k /\ u.type = t.type /\ u.bda = t.bda /\ DOMAIN u = DOMAIN t
  BY <1>2, <1>4
<1>6. Reached(t, u)
  BY <1>3, <1>4, <1>5 DEF Reached
<1> QED BY <1>3, <1>5, <1>6 DEF u

\* A byte in the text window.
LEMMA MemoryWriteText ==
  ASSUME NEW t, Screen(t), NEW at, NEW x
  PROVE  MemoryWrite(t, "B800", at, x) = WriteByte(t, at, x)
BY DEF MemoryWrite, Reaches

\* A byte in a window.
LEMMA MemoryWriteIs ==
  ASSUME NEW t, Screen(t), NEW window, NEW at, NEW x
  PROVE  /\ Reached(t, MemoryWrite(t, window, at, x))
         /\ MemoryWrite(t, window, at, x).b.cursor = t.b.cursor
<1>0. BufferOK(t.b)
  BY DEF Screen
<1>1. CASE Reaches(t, window) /\ (window # "A000" \/ (t.b.mode = 19 /\ at < Frame13))
  <2>1. MemoryWrite(t, window, at, x) = WriteByte(t, at, x)
    BY <1>1 DEF MemoryWrite
  <2> QED BY <2>1, WriteByteIs
<1>2. CASE ~Reaches(t, window) \/ (window = "A000" /\ t.b.mode = 19 /\ ~(at < Frame13))
  <2>1. MemoryWrite(t, window, at, x) = t
    BY <1>2 DEF MemoryWrite
  <2> QED BY <2>1, ReachedItself DEF SameText
<1>3. CASE Reaches(t, window) /\ window = "A000" /\ t.b.mode # 19
  <2> DEFINE places == {n * Plane + at : n \in {n \in 0..3 : Bit(t.k.map_mask, n) = 1}}
             mem == [a \in DOMAIN t.b.vram |->
                       IF a \in places THEN PlaneByte(t.k, a \div Plane, x) ELSE t.b.vram[a]]
             u == MemoryWrite(t, window, at, x)
  <2>1. u = t \/ u = Rewritten(t, mem)
    BY <1>3 DEF MemoryWrite, PlanarWrite
  <2>2. TextBytes \subseteq DOMAIN mem
    BY <1>0 DEF BufferOK
  <2> HIDE DEF u, mem
  <2>4. Reached(t, u) /\ u.b.cursor = t.b.cursor
    BY <2>1, <2>2, ReachedItself, ScreenMarked
  <2> QED BY <2>4 DEF u
<1> QED BY <1>1, <1>2, <1>3

\* An access that a program or the BIOS may make, and one that spares the text.
Access(r) == /\ r.op \in {"out", "in", "poke", "peek"}
             /\ r.op = "out" => Writable(r.port, r.x)
Quiet(r)  == r.op \in {"in", "peek"} \/ (r.op = "out" /\ r.port \notin {MonoData, CrtcData})

\* A reply is neither text nor a register.
LEMMA RepliedIs ==
  ASSUME NEW t, Screen(t), NEW y
  PROVE  /\ Reached(t, Replied(t, y)) /\ Replied(t, y).b = t.b /\ Replied(t, y).k = t.k
         /\ Replied(t, y).bda = t.bda
<1>1. {"type", "b", "k", "bda"} \subseteq DOMAIN t /\ "io_register" \in DOMAIN t.k /\ BufferOK(t.b)
  BY DEF Screen
<1>2. /\ Replied(t, y).type = t.type /\ Replied(t, y).b = t.b /\ Replied(t, y).k = t.k
      /\ Replied(t, y).bda = t.bda /\ DOMAIN Replied(t, y) = DOMAIN t
  BY <1>1 DEF Replied
<1> QED BY <1>1, <1>2 DEF Reached, Announced

\* One access, whichever it is.
LEMMA AccessedIs ==
  ASSUME NEW t, Screen(t), NEW r, Access(r)
  PROVE  /\ Reached(t, Accessed(t, r))
         /\ Quiet(r) => SameText(t.b, Accessed(t, r).b)
         /\ r.op = "poke" => Accessed(t, r).b.cursor = t.b.cursor
<1> DEFINE w == IoWrite(t, r.port, r.x)
           g == IoRead(t, r.port)
           m == MemoryWrite(t, r.window, r.at, r.x)
           p == MemoryRead(t, r.window, r.at)
           gy == Append(t.reply, g.x)
           py == Append(t.reply, p.x)
<1>1. Accessed(t, r) = CASE r.op = "out" -> w [] r.op = "in" -> Replied(g.s, gy)
                         [] r.op = "poke" -> m [] r.op = "peek" -> Replied(p.s, py)
  BY DEF Accessed
<1>2. r.op \in {"out", "in", "poke", "peek"} /\ (r.op = "out" => Writable(r.port, r.x)) /\ BufferOK(t.b)
  BY DEF Access, Screen
<1>3. CASE r.op = "out"
  <2>1. Accessed(t, r) = w
    <3> HIDE DEF w, g, m, p, gy, py
    <3> QED BY <1>1, <1>3
  <2>2. {t.bda.crtc + 1} \subseteq {MonoData, CrtcData}
    BY DEF Screen, BdaOK, MonoIndex, MonoData, CrtcIndex, CrtcData
  <2>3. Reached(t, w) /\ (Quiet(r) => SameText(t.b, w.b))
    BY <1>2, <1>3, <2>2, IoWriteIs DEF Quiet
  <2> HIDE DEF w
  <2> QED BY <1>3, <2>1, <2>3
<1>4. CASE r.op = "in"
  <2>1. Accessed(t, r) = Replied(g.s, gy)
    <3> HIDE DEF w, g, m, p, gy, py
    <3> QED BY <1>1, <1>4
  <2>2. /\ DOMAIN g.s = DOMAIN t /\ g.s.type = t.type /\ g.s.bda = t.bda /\ g.s.b = t.b
        /\ "io_register" \in DOMAIN g.s.k
    BY IoReadIs
  <2> HIDE DEF g, gy
  <2>3. Reached(t, g.s) /\ SameText(t.b, g.s.b)
    BY <1>2, <2>2 DEF Reached, Announced, SameText
  <2>4. Screen(g.s)
    BY <2>3, ReachedScreen
  <2>5. Reached(g.s, Replied(g.s, gy)) /\ SameText(g.s.b, Replied(g.s, gy).b)
    BY <2>4, RepliedIs DEF SameText
  <2> QED BY <1>4, <2>1, <2>3, <2>5, ReachedBoth
<1>5. CASE r.op = "poke"
  <2>1. Accessed(t, r) = m
    <3> HIDE DEF w, g, m, p, gy, py
    <3> QED BY <1>1, <1>5
  <2>2. ~Quiet(r)
    BY <1>5 DEF Quiet
  <2>3. Reached(t, m) /\ m.b.cursor = t.b.cursor
    BY MemoryWriteIs
  <2> HIDE DEF m
  <2> QED BY <1>5, <2>1, <2>2, <2>3
<1>6. CASE r.op = "peek"
  <2>1. Accessed(t, r) = Replied(p.s, py)
    <3> HIDE DEF w, g, m, p, gy, py
    <3> QED BY <1>1, <1>6
  <2>2. /\ DOMAIN p.s = DOMAIN t /\ p.s.type = t.type /\ p.s.bda = t.bda /\ p.s.b = t.b
        /\ "io_register" \in DOMAIN p.s.k
    BY MemoryReadIs
  <2> HIDE DEF p, py
  <2>3. Reached(t, p.s) /\ SameText(t.b, p.s.b)
    BY <1>2, <2>2 DEF Reached, Announced, SameText
  <2>4. Screen(p.s)
    BY <2>3, ReachedScreen
  <2>5. Reached(p.s, Replied(p.s, py)) /\ SameText(p.s.b, Replied(p.s, py).b)
    BY <2>4, RepliedIs DEF SameText
  <2> QED BY <1>6, <2>1, <2>3, <2>5, ReachedBoth
<1> QED BY <1>2, <1>3, <1>4, <1>5, <1>6

\* Accesses one after another: the screens after each of them.
Run(f, t, seq, n) ==
  f = [i \in 0..n |-> IF i = 0 THEN t ELSE Accessed(f[i-1], seq[i])]

\* The screens that a list of accesses goes through: the function exists ...
LEMMA RunExists ==
  ASSUME NEW t, NEW seq, NEW n \in Nat
  PROVE  \E f : Run(f, t, seq, n)
<1> DEFINE P == {k \in Nat : \E f : Run(f, t, seq, k)}
<1>1. 0 \in P
  <2> DEFINE f == [i \in 0..0 |-> t]
  <2>1. Run(f, t, seq, 0)
    BY DEF Run
  <2> HIDE DEF f
  <2> QED BY <2>1
<1>2. ASSUME NEW k \in P PROVE k + 1 \in P
  <2>1. PICK f : Run(f, t, seq, k)
    OBVIOUS
  <2> DEFINE g == [i \in 0..k+1 |-> IF i = 0 THEN t ELSE Accessed(f[i-1], seq[i])]
  <2>2. \A i \in 0..k : f[i] = IF i = 0 THEN t ELSE Accessed(f[i-1], seq[i])
    BY <2>1 DEF Run
  <2>3. \A i \in 0..k : g[i] = f[i]
    BY <2>2
  <2>4. \A i \in 0..k+1 : i # 0 => i - 1 \in 0..k
    OBVIOUS
  <2>5. g = [i \in 0..k+1 |-> IF i = 0 THEN t ELSE Accessed(g[i-1], seq[i])]
    BY <2>3, <2>4
  <2> HIDE DEF g
  <2>6. Run(g, t, seq, k + 1)
    BY <2>5 DEF Run
  <2> QED BY <2>6
<1>3. P = Nat
  <2> HIDE DEF P
  <2> QED BY <1>1, <1>2, Induction DEF P
<1> QED BY <1>3

\* ... and each of its values comes from the one before.
LEMMA RunSteps ==
  ASSUME NEW t, NEW seq, NEW n \in Nat, NEW f, Run(f, t, seq, n)
  PROVE  f[0] = t /\ \A i \in 1..n : f[i] = Accessed(f[i-1], seq[i])
<1>1. \A i \in 0..n : f[i] = IF i = 0 THEN t ELSE Accessed(f[i-1], seq[i])
  BY DEF Run
<1> QED BY <1>1

\* Accesses is the last screen of the run.
LEMMA AccessesRun ==
  ASSUME NEW t, NEW seq, Len(seq) \in Nat
  PROVE  \E f : Run(f, t, seq, Len(seq)) /\ Accesses(t, seq) = f[Len(seq)]
<1> DEFINE f == CHOOSE f : Run(f, t, seq, Len(seq))
<1>1. Run(f, t, seq, Len(seq))
  BY RunExists
<1>2. Accesses(t, seq) = f[Len(seq)]
  BY DEF Accesses, Run
<1> HIDE DEF f
<1> QED BY <1>1, <1>2

\* Whatever the accesses are, the buffer announces what they change.
LEMMA AccessesReach ==
  ASSUME NEW t, Screen(t), NEW seq, Len(seq) \in Nat, \A i \in 1..Len(seq) : Access(seq[i])
  PROVE  /\ Reached(t, Accesses(t, seq)) /\ Screen(Accesses(t, seq))
         /\ (\A i \in 1..Len(seq) : Quiet(seq[i])) => SameText(t.b, Accesses(t, seq).b)
         /\ (\A i \in 1..Len(seq) : seq[i].op = "poke") => Accesses(t, seq).b.cursor = t.b.cursor
<1> DEFINE n == Len(seq)
           quiet == \A i \in 1..Len(seq) : Quiet(seq[i])
           pokes == \A i \in 1..Len(seq) : seq[i].op = "poke"
<1>1. PICK f : Run(f, t, seq, n) /\ Accesses(t, seq) = f[n]
  BY AccessesRun
<1>2. f[0] = t /\ \A i \in 1..n : f[i] = Accessed(f[i-1], seq[i])
  BY <1>1, RunSteps
<1> DEFINE ok(u) == /\ Reached(t, u) /\ (quiet => SameText(t.b, u.b))
                    /\ (pokes => u.b.cursor = t.b.cursor)
           S == {i \in Nat : i <= n => ok(f[i])}
<1>3. 0 \in S
  BY <1>2, ReachedItself
<1>4. ASSUME NEW i \in S PROVE i + 1 \in S
  <2> SUFFICES ASSUME i + 1 <= n PROVE ok(f[i+1])
    OBVIOUS
  <2>1. i \in Nat /\ i + 1 \in 1..n /\ (i + 1) - 1 = i /\ i <= n
    OBVIOUS
  <2>2. ok(f[i])
    BY <2>1
  <2>3. f[i+1] = Accessed(f[i], seq[i+1]) /\ Access(seq[i+1])
    BY <1>2, <2>1
  <2>4. Screen(f[i])
    BY <2>2, ReachedScreen
  <2>5. /\ Reached(f[i], f[i+1]) /\ (quiet => SameText(f[i].b, f[i+1].b))
        /\ (pokes => f[i+1].b.cursor = f[i].b.cursor)
    <3> DEFINE r == seq[i+1]
    <3>1. (quiet => Quiet(r)) /\ (pokes => r.op = "poke")
      BY <2>1
    <3> HIDE DEF r, quiet, pokes
    <3>2. Access(r) /\ f[i+1] = Accessed(f[i], r)
      BY <2>3 DEF r
    <3> QED BY <2>4, <3>1, <3>2, AccessedIs
  <2> HIDE DEF quiet, pokes
  <2> QED BY <2>2, <2>5, ReachedBoth
<1>5. S = Nat
  <2> HIDE DEF S
  <2> QED BY <1>3, <1>4, Induction DEF S
<1>6. ok(f[n])
  <2>1. n \in S
    BY <1>5
  <2> QED BY <2>1
<1> HIDE DEF quiet, pokes
<1>7. Reached(t, Accesses(t, seq)) /\ (quiet => SameText(t.b, Accesses(t, seq).b))
      /\ (pokes => Accesses(t, seq).b.cursor = t.b.cursor)
  BY <1>1, <1>6
<1>8. Screen(Accesses(t, seq))
  BY <1>7, ReachedScreen
<1> QED BY <1>7, <1>8 DEF quiet, pokes

\* Four accesses.
LEMMA AccessesFour ==
  ASSUME NEW t, NEW a, NEW b, NEW c, NEW d
  PROVE  Accesses(t, <<a, b, c, d>>) = Accessed(Accessed(Accessed(Accessed(t, a), b), c), d)
<1> DEFINE seq == <<a, b, c, d>>
<1>1. Len(seq) = 4 /\ seq[1] = a /\ seq[2] = b /\ seq[3] = c /\ seq[4] = d
  OBVIOUS
<1> HIDE DEF seq
<1>2. PICK f : Run(f, t, seq, 4) /\ Accesses(t, seq) = f[4]
  <2>1. \E f : Run(f, t, seq, Len(seq)) /\ Accesses(t, seq) = f[Len(seq)]
    <3>1. Len(seq) \in Nat
      BY <1>1
    <3> QED BY <3>1, AccessesRun
  <2> QED BY <1>1, <2>1
<1>3. f[0] = t /\ \A i \in 1..4 : f[i] = Accessed(f[i-1], seq[i])
  BY <1>2, RunSteps
<1>4. /\ f[1] = Accessed(f[0], a) /\ f[2] = Accessed(f[1], b)
      /\ f[3] = Accessed(f[2], c) /\ f[4] = Accessed(f[3], d)
  BY <1>1, <1>3
<1> QED BY <1>2, <1>3, <1>4 DEF seq

-----------------------------------------------------------------------------
(* Cursor and pages. *)

\* A register of the CRTC, by its index and its data port.
Paired(t, reg, x) == Accessed(Accessed(t, Out(t.bda.crtc, reg)), Out(t.bda.crtc + 1, x))

\* A register of the CRTC is written by its index and a byte.
LEMMA PairedIs ==
  ASSUME NEW t, Screen(t), NEW reg, NEW x \in Nat
  PROVE  /\ Reached(t, Paired(t, reg, x)) /\ Screen(Paired(t, reg, x))
         /\ Paired(t, reg, x).bda = t.bda /\ Paired(t, reg, x).b.vram = t.b.vram
         /\ reg \notin {CursorHigh, CursorLow} => Paired(t, reg, x).b.cursor = t.b.cursor
         /\ reg = CursorHigh => Paired(t, reg, x).b.cursor = WithHigh(t.b.cursor, x)
         /\ reg = CursorLow => Paired(t, reg, x).b.cursor = WithLow(t.b.cursor, x)
<1> DEFINE k == [t.k EXCEPT !.io_register = reg]
           v == Accessed(t, Out(t.bda.crtc, reg))
           u == Paired(t, reg, x)
<1>1. v = [t EXCEPT !.k = k]
  BY CrtcPorts DEF Accessed, Out
<1>2. "io_register" \in DOMAIN k /\ k.io_register = reg
  BY DEF Screen
<1>3. u = IoWrite(v, t.bda.crtc + 1, x)
  BY DEF Accessed, Out, Paired
<1> HIDE DEF k, v, u
<1>4. Reached(t, v) /\ SameText(t.b, v.b) /\ v.k = k
  BY <1>1, <1>2, RegistersOnly
<1>5. Screen(v) /\ v.bda = t.bda
  BY <1>4, ReachedScreen DEF Reached
<1>6. u = CrtcWrite(v, x)
  BY <1>3, <1>5, CrtcPorts
<1>7. /\ Reached(v, u) /\ u.b.vram = v.b.vram
      /\ reg \notin {CursorHigh, CursorLow} => SameText(v.b, u.b)
      /\ reg = CursorHigh => u.b.cursor = WithHigh(v.b.cursor, x)
      /\ reg = CursorLow => u.b.cursor = WithLow(v.b.cursor, x)
  BY <1>2, <1>4, <1>5, <1>6, CrtcWriteIs
<1>8. Reached(t, u) /\ Screen(u) /\ u.bda = t.bda
  BY <1>4, <1>7, ReachedBoth, ReachedScreen DEF Reached
<1> QED BY <1>4, <1>7, <1>8 DEF SameText, u

\* Two of them.
LEMMA AccessesPairs ==
  ASSUME NEW t, Screen(t), NEW reg, NEW x \in Nat, NEW reg2, NEW y \in Nat
  PROVE  Accesses(t, <<Out(t.bda.crtc, reg), Out(t.bda.crtc + 1, x),
                       Out(t.bda.crtc, reg2), Out(t.bda.crtc + 1, y)>>)
           = Paired(Paired(t, reg, x), reg2, y)
<1> DEFINE a == Out(t.bda.crtc, reg)
           b == Out(t.bda.crtc + 1, x)
           c == Out(t.bda.crtc, reg2)
           d == Out(t.bda.crtc + 1, y)
           v == Paired(t, reg, x)
<1>1. Accesses(t, <<a, b, c, d>>) = Accessed(Accessed(v, c), d)
  BY AccessesFour DEF Paired
<1>2. v.bda = t.bda
  BY PairedIs
<1> HIDE DEF v
<1>3. Paired(v, reg2, y) = Accessed(Accessed(v, c), d)
  BY <1>2 DEF Paired
<1> QED BY <1>1, <1>3 DEF v

\* High and low half make up the location.
LEMMA HalvesMakeUp ==
  ASSUME NEW c \in Nat, NEW loc \in Nat
  PROVE  WithLow(WithHigh(c, High(loc)), LowHalf(loc)) = loc
<1>1. Low \in Nat \ {0}
  BY SizesAssumption
<1> DEFINE q == loc \div Low
           r == loc % Low
           l == c % Low
           x == (q * Low) + l
<1>2. q \in Nat /\ r \in 0..Low - 1 /\ loc = (q * Low) + r /\ l \in 0..Low - 1
  BY <1>1, DivisionParts
<1>3. WithLow(WithHigh(c, High(loc)), LowHalf(loc)) = ((x \div Low) * Low) + r
  BY DEF WithLow, WithHigh, High, LowHalf
<1> HIDE DEF q, r, l
<1>4. x \div Low = q
  BY <1>1, <1>2, DivisionOfSum
<1> QED BY <1>2, <1>3, <1>4

\* The cursor registers are written in two pairs.
LEMMA CursorWritten ==
  ASSUME NEW t, Screen(t), NEW loc \in Nat, NEW u,
         u = Accesses(t, <<Out(t.bda.crtc, CursorHigh), Out(t.bda.crtc + 1, High(loc)),
                           Out(t.bda.crtc, CursorLow), Out(t.bda.crtc + 1, LowHalf(loc))>>)
  PROVE  Reached(t, u) /\ Screen(u) /\ u.b.vram = t.b.vram /\ u.b.cursor = loc
<1> DEFINE v == Paired(t, CursorHigh, High(loc))
<1>1. t.b.cursor \in Nat /\ High(loc) \in Nat /\ LowHalf(loc) \in Nat
  <2>1. LowHalf(loc) \in 0..Low - 1 /\ High(loc) \in Nat
    BY HalvesAreNumbers
  <2>2. Low \in Nat
    BY SizesAssumption
  <2>3. t.b.cursor \in Nat
    BY DEF Screen, BufferOK
  <2> QED BY <2>1, <2>2, <2>3
<1>2. u = Paired(v, CursorLow, LowHalf(loc))
  BY <1>1, AccessesPairs
<1>3. /\ Reached(t, v) /\ Screen(v) /\ v.b.vram = t.b.vram
      /\ v.b.cursor = WithHigh(t.b.cursor, High(loc))
  BY <1>1, PairedIs
<1> HIDE DEF v
<1>4. /\ Reached(v, u) /\ Screen(u) /\ u.b.vram = v.b.vram
      /\ u.b.cursor = WithLow(v.b.cursor, LowHalf(loc))
  BY <1>1, <1>2, <1>3, PairedIs
<1>5. Reached(t, u)
  BY <1>3, <1>4, ReachedBoth
<1> QED BY <1>1, <1>3, <1>4, <1>5, HalvesMakeUp

\* What a service does to a screen.
Became(t, u) ==
  /\ Screen(u) /\ DOMAIN u = DOMAIN t /\ u.type = t.type /\ Announced(t.b, u.b)

\* An access is one of the ways in which a screen becomes another.
LEMMA ReachedBecame ==
  ASSUME NEW t, Screen(t), NEW u, Reached(t, u)
  PROVE  Became(t, u)
BY ReachedScreen DEF Reached, Became

\* Two changes one after the other.
LEMMA BecameBoth ==
  ASSUME NEW t, NEW u, NEW v, Became(t, u), Became(u, v)
  PROVE  Became(t, v)
BY DEF Became, Announced

\* The data area alone.
LEMMA AreaOnly ==
  ASSUME NEW t, Screen(t), NEW bda, BdaOK(bda, t.type), NEW u, u = [t EXCEPT !.bda = bda]
  PROVE  Became(t, u) /\ u.b = t.b /\ u.k = t.k /\ u.bda = bda /\ u.type = t.type
<1>1. /\ {"type", "b", "k", "bda", "reply"} \subseteq DOMAIN t /\ t.type \in Types
      /\ BufferOK(t.b) /\ "io_register" \in DOMAIN t.k
  BY DEF Screen
<1>2. u.b = t.b /\ u.k = t.k /\ u.type = t.type /\ u.bda = bda /\ DOMAIN u = DOMAIN t
  BY <1>1
<1>3. Screen(u)
  BY <1>1, <1>2 DEF Screen
<1> QED BY <1>1, <1>2, <1>3 DEF Became, Announced

\* The data area with the cursor of a page.
WithCursor(a, p, row, col) == [a EXCEPT !.cursors[p] = <<row, col>>]

\* The cursor of a page is put into the data area.
LEMMA WithCursorIs ==
  ASSUME NEW a, NEW type, BdaOK(a, type), NEW p \in 0..7, NEW row \in Nat, NEW col \in Nat
  PROVE  /\ BdaOK(WithCursor(a, p, row, col), type)
         /\ WithCursor(a, p, row, col).mode = a.mode /\ WithCursor(a, p, row, col).cols = a.cols
         /\ WithCursor(a, p, row, col).rows = a.rows /\ WithCursor(a, p, row, col).page = a.page
         /\ WithCursor(a, p, row, col).crtc = a.crtc
         /\ DOMAIN WithCursor(a, p, row, col) = DOMAIN a
<1> DEFINE c == WithCursor(a, p, row, col)
<1>1. /\ {"mode", "cols", "rows", "page", "cursors", "crtc", "page_size"} \subseteq DOMAIN a
      /\ a.cursors \in [0..7 -> Nat \X Nat]
  BY DEF BdaOK
<1>2. c.cursors = [a.cursors EXCEPT ![p] = <<row, col>>] /\ c.mode = a.mode /\ c.cols = a.cols
      /\ c.rows = a.rows /\ c.page = a.page /\ c.crtc = a.crtc /\ c.page_size = a.page_size
      /\ DOMAIN c = DOMAIN a
  BY <1>1 DEF WithCursor
<1>3. <<row, col>> \in Nat \X Nat
  OBVIOUS
<1> HIDE DEF c
<1>4. c.cursors \in [0..7 -> Nat \X Nat]
  BY <1>1, <1>2, <1>3
<1>5. BdaOK(c, type)
  BY <1>1, <1>2, <1>4 DEF BdaOK
<1> QED BY <1>2, <1>5 DEF c

\* Where the hardware cursor of a row and a column is.
Location(row, col, cols) == row * cols + col

\* Where it is after a cursor has been set: page p is shown, the mark was there.
MarkAfter(p, mark, cols, page, row, col) == IF page = p THEN Location(row, col, cols) ELSE mark

\* The cursor of a page, and the hardware's if the page is shown.
LEMMA SetCursorPosIs ==
  ASSUME NEW t, Screen(t), NEW page \in 0..7, NEW row \in Nat, NEW col \in Nat
  PROVE  /\ Became(t, SetCursorPos(t, page, row, col)) /\ Screen(SetCursorPos(t, page, row, col))
         /\ SetCursorPos(t, page, row, col).b.vram = t.b.vram
         /\ SetCursorPos(t, page, row, col).bda = WithCursor(t.bda, page, row, col)
         /\ SetCursorPos(t, page, row, col).b.cursor
              = MarkAfter(t.bda.page, t.b.cursor, t.bda.cols, page, row, col)
<1> DEFINE u == SetCursorPos(t, page, row, col)
           bda == WithCursor(t.bda, page, row, col)
           moved == [t EXCEPT !.bda = bda]
           loc == row * t.bda.cols + col
<1>0. BdaOK(t.bda, t.type) /\ "bda" \in DOMAIN t
  BY DEF Screen
<1>1. BdaOK(bda, t.type) /\ bda.crtc = t.bda.crtc
  <2> DEFINE a == t.bda
             type == t.type
  <2>1. BdaOK(a, type)
    BY <1>0
  <2> HIDE DEF a, type
  <2>2. BdaOK(WithCursor(a, page, row, col), type) /\ WithCursor(a, page, row, col).crtc = a.crtc
    BY <2>1, WithCursorIs
  <2> QED BY <2>2 DEF a, type
<1>2. t.bda.cols \in Nat
  BY <1>0, SizesAssumption DEF BdaOK
<1>3. loc \in Nat
  BY <1>2
<1>4. u = IF page # t.bda.page THEN moved
          ELSE Accesses(moved, <<Out(t.bda.crtc, CursorHigh), Out(t.bda.crtc + 1, High(loc)),
                                 Out(t.bda.crtc, CursorLow), Out(t.bda.crtc + 1, LowHalf(loc))>>)
  BY <1>0 DEF SetCursorPos, WithCursor
<1>5. moved = [t EXCEPT !.bda = bda]
  OBVIOUS
<1> HIDE DEF bda, moved, loc, u
<1>6. Became(t, moved) /\ moved.b = t.b /\ moved.bda = bda
  BY <1>1, <1>5, AreaOnly
<1>7. CASE page # t.bda.page
  BY <1>4, <1>6, <1>7 DEF bda, u, Became, MarkAfter
<1>8. CASE page = t.bda.page
  <2>1. Screen(moved)
    BY <1>6 DEF Became
  <2>2. u = Accesses(moved, <<Out(moved.bda.crtc, CursorHigh), Out(moved.bda.crtc + 1, High(loc)),
                              Out(moved.bda.crtc, CursorLow), Out(moved.bda.crtc + 1, LowHalf(loc))>>)
    BY <1>1, <1>4, <1>6, <1>8
  <2>3. Reached(moved, u) /\ u.b.vram = moved.b.vram /\ u.b.cursor = loc
    BY <1>3, <2>1, <2>2, CursorWritten
  <2>4. Became(t, u) /\ u.bda = bda
    BY <1>6, <2>1, <2>3, ReachedBecame, BecameBoth DEF Reached
  <2> QED BY <1>6, <1>8, <2>3, <2>4 DEF bda, loc, u, Became, Location, MarkAfter
<1> QED BY <1>7, <1>8

\* What a text screen is made of stays.
Unseen(t, u) ==
  /\ u.bda.mode = t.bda.mode /\ u.bda.cols = t.bda.cols /\ u.bda.rows = t.bda.rows
  /\ u.bda.page = t.bda.page /\ u.bda.cursors = t.bda.cursors
  /\ SameText(t.b, u.b)

\* Changes that a text screen does not show, one after the other ...
LEMMA UnseenBoth ==
  ASSUME NEW t, NEW u, NEW v, Unseen(t, u), Unseen(u, v)
  PROVE  Unseen(t, v)
BY DEF Unseen, SameText

\* ... made by accesses ...
LEMMA UnseenReached ==
  ASSUME NEW t, NEW u, Reached(t, u), SameText(t.b, u.b)
  PROVE  Unseen(t, u)
BY DEF Unseen, Reached

\* ... or by doing nothing.
LEMMA UnseenItself ==
  ASSUME NEW t, Screen(t)
  PROVE  Unseen(t, t) /\ Became(t, t)
BY ReachedItself, ReachedBecame DEF Unseen

\* Fields of the data area that are none of the screen's.
LEMMA AreaBeside ==
  ASSUME NEW t, Screen(t), NEW a, DOMAIN a = DOMAIN t.bda,
         a.mode = t.bda.mode, a.cols = t.bda.cols, a.rows = t.bda.rows, a.page = t.bda.page,
         a.cursors = t.bda.cursors, a.crtc = t.bda.crtc, a.page_size = t.bda.page_size,
         NEW u, u = [t EXCEPT !.bda = a]
  PROVE  Became(t, u) /\ Unseen(t, u) /\ u.bda = a /\ u.b = t.b /\ u.k = t.k /\ u.type = t.type
<1>1. BdaOK(a, t.type)
  BY DEF Screen, BdaOK
<1>2. Became(t, u) /\ u.b = t.b /\ u.k = t.k /\ u.bda = a /\ u.type = t.type
  BY <1>1, AreaOnly
<1> QED BY <1>2 DEF Unseen, SameText

\* AH=01h
LEMMA SetCursorShape10Is ==
  ASSUME NEW t, Screen(t), NEW start \in Octet, NEW end \in Octet
  PROVE  Became(t, SetCursorShape10(t, start, end)) /\ Unseen(t, SetCursorShape10(t, start, end))
<1> DEFINE u == SetCursorShape10(t, start, end)
           a == [t.bda EXCEPT !.start_line = start, !.end_line = end]
           v == [t EXCEPT !.bda = a]
           first == start % 32
           last  == end % 32
           cga   == last <= HalfTextCell
           from  == IF cga THEN Lesser(2 * first, TextCell - 1) ELSE first
           to    == IF cga THEN Lesser(2 * last + 1, TextCell - 1) ELSE Lesser(last, TextCell - 1)
           x == from + (start - first)
<1>0. {"bda"} \subseteq DOMAIN t /\ {"mode", "cols", "rows", "page", "cursors", "crtc"} \subseteq DOMAIN t.bda
  BY DEF Screen, BdaOK
<1>1. u = Accesses(v, <<Out(t.bda.crtc, CursorStart), Out(t.bda.crtc + 1, x),
                        Out(t.bda.crtc, CursorEnd), Out(t.bda.crtc + 1, to)>>)
  BY <1>0 DEF SetCursorShape10
<1>2. x \in Nat /\ to \in Nat
  <2>1. first \in 0..31 /\ last \in 0..31 /\ start - first \in Nat
    BY DEF Octet
  <2> QED BY <2>1 DEF Lesser, TextCell, HalfTextCell
<1> HIDE DEF u, x, to
<1>3. Became(t, v) /\ Unseen(t, v) /\ v.bda.crtc = t.bda.crtc
  <2>1. /\ DOMAIN a = DOMAIN t.bda /\ a.mode = t.bda.mode /\ a.cols = t.bda.cols /\ a.rows = t.bda.rows
        /\ a.page = t.bda.page /\ a.cursors = t.bda.cursors /\ a.crtc = t.bda.crtc
        /\ a.page_size = t.bda.page_size /\ v = [t EXCEPT !.bda = a]
    OBVIOUS
  <2> HIDE DEF a, v
  <2>2. Became(t, v) /\ Unseen(t, v) /\ v.bda = a
    BY <2>1, AreaBeside
  <2> QED BY <2>1, <2>2
<1> HIDE DEF a, v
<1>4. v.bda.crtc = t.bda.crtc /\ Screen(v)
  BY <1>3 DEF Became
<1>5. u = Paired(Paired(v, CursorStart, x), CursorEnd, to)
  BY <1>1, <1>2, <1>4, AccessesPairs
<1>6. /\ CursorStart \notin {CursorHigh, CursorLow}
      /\ CursorEnd \notin {CursorHigh, CursorLow}
  BY DEF CursorStart, CursorEnd, CursorHigh, CursorLow
<1> DEFINE w == Paired(v, CursorStart, x)
<1>7. Reached(v, w) /\ Screen(w) /\ SameText(v.b, w.b)
  BY <1>2, <1>4, <1>6, PairedIs DEF SameText
<1>8. u = Paired(w, CursorEnd, to)
  BY <1>5
<1> HIDE DEF w
<1>9. Reached(w, u) /\ Screen(u) /\ SameText(w.b, u.b)
  BY <1>2, <1>6, <1>7, <1>8, PairedIs DEF SameText
<1>10. Reached(v, u) /\ SameText(v.b, u.b)
  BY <1>7, <1>9, ReachedBoth
<1>11. Became(v, u) /\ Unseen(v, u)
  BY <1>4, <1>10, ReachedBecame, UnseenReached
<1> QED BY <1>3, <1>11, BecameBoth, UnseenBoth DEF u

\* What the choice of a page does to the text screen.
Paged(t, u, page) ==
  /\ SameText(t.b, u.b)
  /\ u.bda.mode = t.bda.mode /\ u.bda.cols = t.bda.cols /\ u.bda.rows = t.bda.rows
  /\ page \in 0..7 => /\ u.bda.page = page
                      /\ u.bda.cursors = [t.bda.cursors EXCEPT ![page] = Cursor(t)]
  /\ page \notin 0..7 => u = t

\* AH=05h
LEMMA SelectActivePageIs ==
  ASSUME NEW t, Screen(t), NEW page \in Octet
  PROVE  Became(t, SelectActivePage(t, page)) /\ Paged(t, SelectActivePage(t, page), page)
<1> DEFINE u == SelectActivePage(t, page)
           offset == page * t.bda.page_size
           word == offset \div 2
           old == Cursor(t)
           a == [t.bda EXCEPT !.page = page, !.page_offset = offset, !.cursors[page] = old]
           v == [t EXCEPT !.bda = a]
           high == High(word)
           low == LowHalf(word)
<1> SUFFICES Became(t, u) /\ Paged(t, u, page)
  OBVIOUS
<1>3. u = SelectActivePage(t, page)
  OBVIOUS
<1> HIDE DEF u
<1>0. BdaOK(t.bda, t.type) /\ "bda" \in DOMAIN t
  BY DEF Screen
<1>1. CASE page > 7
  <2>1. u = t /\ page \notin 0..7
    BY <1>1, <1>3 DEF SelectActivePage
  <2> QED BY <2>1, UnseenItself DEF SameText, Paged
<1>2. CASE ~(page > 7)
  <2>0. page \in 0..7
    BY <1>2 DEF Octet
  <2>1. u = Accesses(v, <<Out(t.bda.crtc, StartHigh), Out(t.bda.crtc + 1, high),
                          Out(t.bda.crtc, StartLow), Out(t.bda.crtc + 1, low)>>)
    BY <1>2, <1>3 DEF SelectActivePage
  <2>2. high \in Nat /\ low \in Nat
    <3>1. offset \in Nat
      BY <1>0, <2>0 DEF BdaOK
    <3>2. word \in Nat
      BY <3>1, DivisionParts
    <3> HIDE DEF word
    <3>3. Low \in Nat
      BY SizesAssumption
    <3>4. High(word) \in Nat /\ LowHalf(word) \in 0..Low - 1
      BY <3>2, HalvesAreNumbers
    <3> QED BY <3>3, <3>4
  <2>3. /\ {"mode", "cols", "rows", "page", "cursors", "crtc", "page_size"} \subseteq DOMAIN t.bda
        /\ t.bda.cursors \in [0..7 -> Nat \X Nat] /\ t.bda.page \in 0..7
    BY <1>0 DEF BdaOK
  <2>4. old \in Nat \X Nat
    BY <2>3 DEF Cursor
  <2> HIDE DEF old, offset, high, low
  <2>5. /\ a.page = page /\ a.cursors = [t.bda.cursors EXCEPT ![page] = old]
        /\ a.mode = t.bda.mode /\ a.cols = t.bda.cols /\ a.rows = t.bda.rows
        /\ a.crtc = t.bda.crtc /\ a.page_size = t.bda.page_size /\ DOMAIN a = DOMAIN t.bda
    BY <2>3
  <2>6. v = [t EXCEPT !.bda = a]
    OBVIOUS
  <2> HIDE DEF a, v
  <2>7. a.cursors \in [0..7 -> Nat \X Nat]
    BY <2>0, <2>3, <2>4, <2>5
  <2>8. BdaOK(a, t.type)
    BY <1>0, <2>0, <2>5, <2>7 DEF BdaOK
  <2>9. Became(t, v) /\ v.b = t.b /\ v.bda = a
    BY <2>6, <2>8, AreaOnly
  <2>10. v.bda.crtc = t.bda.crtc /\ Screen(v)
    BY <2>5, <2>9 DEF Became
  <2>11. u = Paired(Paired(v, StartHigh, high), StartLow, low)
    BY <2>1, <2>2, <2>10, AccessesPairs
  <2>12. /\ StartHigh \notin {CursorHigh, CursorLow}
         /\ StartLow \notin {CursorHigh, CursorLow}
    BY DEF StartHigh, StartLow, CursorHigh, CursorLow
  <2> DEFINE w == Paired(v, StartHigh, high)
  <2>13. Reached(v, w) /\ Screen(w) /\ SameText(v.b, w.b)
    BY <2>2, <2>10, <2>12, PairedIs DEF SameText
  <2>14. u = Paired(w, StartLow, low)
    BY <2>11
  <2> HIDE DEF w
  <2>15. Reached(w, u) /\ Screen(u) /\ SameText(w.b, u.b)
    BY <2>2, <2>12, <2>13, <2>14, PairedIs DEF SameText
  <2>16. Reached(v, u) /\ SameText(v.b, u.b)
    BY <2>13, <2>15, ReachedBoth
  <2>17. Became(v, u) /\ u.bda = a
    BY <2>9, <2>10, <2>16, ReachedBecame DEF Reached
  <2>18. Became(t, u) /\ SameText(t.b, u.b)
    BY <2>9, <2>16, <2>17, BecameBoth DEF SameText
  <2> QED BY <2>0, <2>5, <2>17, <2>18 DEF old, Paged
<1> QED BY <1>1, <1>2

-----------------------------------------------------------------------------
(* Modes. *)

\* A mode set marks the buffer and spares the text.
LEMMA CardSetModeIs ==
  ASSUME NEW t, Screen(t), NEW mode
  PROVE  /\ Reached(t, CardSetMode(t, mode)) /\ Screen(CardSetMode(t, mode))
         /\ SameText(t.b, CardSetMode(t, mode).b)
<1> DEFINE o == ResetOverrides(t.b)
           m == BufferSetMode(o, mode)
           d == CardDac(t.type, m.dac)
           c == [m EXCEPT !.dac = d]
           e == CardDac(t.type, t.k.dac)
           k == [t.k EXCEPT !.map_mask = 15, !.set_reset = 0, !.enable = 0, !.rotate = 0,
                            !.function = 0, !.write_mode = 0, !.read_mode = 0,
                            !.bit_mask = 255, !.latches = [n \in 0..3 |-> 0], !.dac = e]
           u == CardSetMode(t, mode)
<1>1. BufferOK(t.b) /\ {"b", "k", "type", "bda"} \subseteq DOMAIN t /\ "io_register" \in DOMAIN t.k
  BY DEF Screen
<1>2. u = [t EXCEPT !.b = c, !.k = k]
  BY <1>1 DEF CardSetMode
<1>3. BufferOK(o) /\ SameText(t.b, o) /\ o.dirty
  BY <1>1, BufferSetModeIs
<1> HIDE DEF o
<1>4. BufferOK(m) /\ SameText(o, m) /\ m.dirty
  BY <1>3, BufferSetModeIs
<1> HIDE DEF m, d
<1>5. BufferOK(c) /\ SameText(m, c) /\ c.dirty
  BY <1>4 DEF BufferOK, SameText
<1>6. DOMAIN k = DOMAIN t.k
  OBVIOUS
<1> HIDE DEF u, c, k, e
<1>7. DOMAIN u = DOMAIN t /\ u.b = c /\ u.k = k /\ u.type = t.type /\ u.bda = t.bda
  BY <1>1, <1>2
<1>8. Reached(t, u) /\ SameText(t.b, u.b)
  BY <1>1, <1>3, <1>4, <1>5, <1>6, <1>7 DEF Reached, Announced, SameText
<1> QED BY <1>8, ReachedScreen DEF u

\* A window that is filled byte by byte.
Poked(t, window, n, bytes) == Accesses(t, [i \in 1..n |-> Poke(window, i - 1, bytes[i - 1])])

\* The length of a sequence that is given as a function.
LEMMA LengthIs ==
  ASSUME NEW n \in Nat, NEW S, NEW seq \in [1..n -> S]
  PROVE  Len(seq) = n
<1>1. seq \in Seq(S) /\ DOMAIN seq = 1..n
  OBVIOUS
<1> QED BY <1>1, LenProperties

\* The bytes that empty the memory: how many they are ...
LEMMA PokedLength ==
  ASSUME NEW n \in Nat, NEW window, NEW bytes,
         NEW seq, seq = [i \in 1..n |-> Poke(window, i - 1, bytes[i - 1])]
  PROVE  Len(seq) = n /\ \A i \in 1..n : seq[i] = Poke(window, i - 1, bytes[i - 1])
<1> DEFINE S == {Poke(window, i - 1, bytes[i - 1]) : i \in 1..n}
<1>1. seq \in [1..n -> S]
  OBVIOUS
<1> HIDE DEF S
<1> QED BY <1>1, LengthIs

\* ... and what each of them does.
LEMMA PokedIs ==
  ASSUME NEW t, Screen(t), NEW n \in Nat, NEW window, NEW bytes
  PROVE  /\ Reached(t, Poked(t, window, n, bytes)) /\ Screen(Poked(t, window, n, bytes))
         /\ Poked(t, window, n, bytes).b.cursor = t.b.cursor
<1> DEFINE seq == [i \in 1..n |-> Poke(window, i - 1, bytes[i - 1])]
<1>1. Len(seq) = n /\ \A i \in 1..n : seq[i] = Poke(window, i - 1, bytes[i - 1])
  BY PokedLength
<1>2. Poked(t, window, n, bytes) = Accesses(t, seq)
  BY DEF Poked
<1> HIDE DEF seq
<1>3. \A i \in 1..Len(seq) : Access(seq[i]) /\ seq[i].op = "poke"
  BY <1>1 DEF Poke, Access
<1>4. Len(seq) \in Nat
  BY <1>1
<1> QED BY <1>2, <1>3, <1>4, AccessesReach

\* How many bytes are emptied.
LEMMA SizesAreNumbers ==
  /\ 2 * Bank \in Nat /\ Plane \in Nat /\ Frame13 \in Nat /\ 2 * ScreenRows * Wide \in Nat
BY SizesAssumption DEF Frame13

\* The memory is emptied.
LEMMA EmptiedIs ==
  ASSUME NEW t, Screen(t), NEW mode
  PROVE  /\ Reached(t, Emptied(t, mode)) /\ Screen(Emptied(t, mode))
         /\ Emptied(t, mode).b.cursor = t.b.cursor
<1> DEFINE c == CardSetMode(t, mode)
           zeros == [i \in Nat |-> 0]
           blanks == [i \in Nat |-> IF i % 2 = 0 THEN Space ELSE LightGray]
           u == Emptied(t, mode)
           cga == Poked(t, "B800", 2 * Bank, zeros)
           planar == Poked(c, "A000", Plane, zeros)
           linear == Poked(c, "A000", Frame13, zeros)
           text == Poked(t, "B800", 2 * ScreenRows * Wide, blanks)
<1>0. \A n \in Nat : \A i \in 1..n : i - 1 \in Nat
  OBVIOUS
<1>1. /\ Filled(t, "B800", 2 * Bank, LAMBDA i : 0) = cga
      /\ Filled(c, "A000", Plane, LAMBDA i : 0) = planar
      /\ Filled(c, "A000", Frame13, LAMBDA i : 0) = linear
      /\ Filled(t, "B800", 2 * ScreenRows * Wide,
                LAMBDA i : IF i % 2 = 0 THEN Space ELSE LightGray) = text
  BY <1>0, SizesAreNumbers DEF Filled, Poked
<1>2. u = CASE mode \in CgaModes -> cga [] mode \in PlanarModes -> planar [] mode = 19 -> linear
            [] OTHER -> text
  BY <1>1 DEF Emptied
<1>3. u \in {cga, planar, linear, text}
  <2> HIDE DEF u, cga, planar, linear, text
  <2> QED BY <1>2 DEF CgaModes, PlanarModes
<1>4. Reached(t, c) /\ Screen(c) /\ SameText(t.b, c.b)
  BY CardSetModeIs
<1> HIDE DEF c, zeros, blanks
<1>5. /\ Reached(t, cga) /\ cga.b.cursor = t.b.cursor
      /\ Reached(t, text) /\ text.b.cursor = t.b.cursor
  BY SizesAreNumbers, PokedIs
<1>6. /\ Reached(c, planar) /\ planar.b.cursor = c.b.cursor
      /\ Reached(c, linear) /\ linear.b.cursor = c.b.cursor
  BY <1>4, SizesAreNumbers, PokedIs
<1> HIDE DEF cga, planar, linear, text, u
<1>7. Reached(t, planar) /\ Reached(t, linear)
  BY <1>4, <1>6, ReachedBoth
<1>8. Reached(t, u) /\ u.b.cursor = t.b.cursor
  BY <1>3, <1>4, <1>5, <1>6, <1>7 DEF SameText
<1> QED BY <1>8, ReachedScreen DEF u

\* A port other than the cursor's.
LEMMA PortQuiet ==
  ASSUME NEW t, Screen(t), NEW port, port \notin {MonoData, CrtcData}, NEW x
  PROVE  /\ Reached(t, IoWrite(t, port, x)) /\ Screen(IoWrite(t, port, x))
         /\ SameText(t.b, IoWrite(t, port, x).b)
<1>1. port # t.bda.crtc + 1
  BY DEF Screen, BdaOK, MonoData, CrtcData, MonoIndex, CrtcIndex
<1>2. Writable(port, x)
  BY DEF Writable
<1>3. Reached(t, IoWrite(t, port, x)) /\ SameText(t.b, IoWrite(t, port, x).b)
  BY <1>1, <1>2, IoWriteIs
<1> QED BY <1>3, ReachedScreen

\* The fields of the data area that a mode set fills in.
ModeArea(a, mode) ==
  [a EXCEPT !.height = FontHeight(mode), !.mode = mode, !.cols = TextCols(mode),
            !.rows = TextRows(mode) - 1, !.page_size = 2 * TextCols(mode) * TextRows(mode)]

\* The data area of a known mode.
LEMMA ModeAreaIs ==
  ASSUME NEW a, NEW type, BdaOK(a, type), NEW mode \in KnownModes
  PROVE  /\ BdaOK(ModeArea(a, mode), type)
         /\ ModeArea(a, mode).mode = mode /\ ModeArea(a, mode).cols = TextCols(mode)
         /\ ModeArea(a, mode).page = a.page /\ ModeArea(a, mode).cursors = a.cursors
<1> DEFINE c == ModeArea(a, mode)
           cols == TextCols(mode)
           rows == TextRows(mode)
<1>1. /\ {"mode", "cols", "rows", "page", "cursors", "crtc", "page_size"} \subseteq DOMAIN a
      /\ a.cursors \in [0..7 -> Nat \X Nat]
  BY DEF BdaOK
<1>2. cols \in {Wide, Narrow} /\ rows - 1 \in Nat /\ rows \in Nat /\ cols \in Nat
      /\ (mode \notin GraphicsModes => rows = ScreenRows)
  BY SizesAssumption DEF TextCols, TextRows, GraphicsModes, PlanarModes
<1>3. 2 * cols * rows \in Nat
  BY <1>2
<1> HIDE DEF cols, rows
<1>4. /\ c.mode = mode /\ c.cols = cols /\ c.rows = rows - 1 /\ c.page_size = 2 * cols * rows
      /\ c.page = a.page /\ c.cursors = a.cursors /\ c.crtc = a.crtc /\ DOMAIN c = DOMAIN a
  BY <1>1 DEF ModeArea, cols, rows
<1> HIDE DEF c
<1>5. BdaOK(c, type)
  BY <1>1, <1>2, <1>3, <1>4 DEF BdaOK
<1> QED BY <1>4, <1>5 DEF c, cols

\* The cursor of the first page at home.
LEMMA HomeIs ==
  ASSUME NEW t, Screen(t)
  PROVE  /\ Became(t, SetCursorPos(t, 0, 0, 0)) /\ SetCursorPos(t, 0, 0, 0).b.vram = t.b.vram
         /\ SetCursorPos(t, 0, 0, 0).bda = WithCursor(t.bda, 0, 0, 0)
         /\ SetCursorPos(t, 0, 0, 0).b.cursor = IF t.bda.page = 0 THEN 0 ELSE t.b.cursor
<1>1. Location(0, 0, t.bda.cols) = 0
  <2>1. t.bda.cols \in Nat
    BY SizesAssumption DEF Screen, BdaOK
  <2> QED BY <2>1 DEF Location
<1> DEFINE u == SetCursorPos(t, 0, 0, 0)
<1>2. 0 \in Nat /\ 0 \in 0..7
  OBVIOUS
<1>3. Became(t, u)
  BY <1>2, SetCursorPosIs
<1>4. u.b.vram = t.b.vram
  BY <1>2, SetCursorPosIs
<1>5. u.bda = WithCursor(t.bda, 0, 0, 0)
  BY <1>2, SetCursorPosIs
<1>6. u.b.cursor = MarkAfter(t.bda.page, t.b.cursor, t.bda.cols, 0, 0, 0)
  BY <1>2, SetCursorPosIs
<1> HIDE DEF u
<1>7. u.b.cursor = IF t.bda.page = 0 THEN 0 ELSE t.b.cursor
  BY <1>1, <1>6 DEF MarkAfter
<1> QED BY <1>3, <1>4, <1>5, <1>7 DEF u

\* What a mode set does to the memory.
MemoryAfter(t, mode, clear) == IF clear THEN Emptied(t, mode).b.vram ELSE t.b.vram

\* What it does to the text screen: a mode that is not known leaves the data
\* area alone.
SetByMode(t, u, mode, clear) ==
  /\ u.b.vram = MemoryAfter(t, mode, clear)
  /\ mode \notin KnownModes => u.bda = t.bda /\ u.b.cursor = t.b.cursor
  /\ mode \in KnownModes =>
       /\ u.bda.mode = mode /\ u.bda.cols = TextCols(mode) /\ u.bda.page = t.bda.page
       /\ u.bda.cursors = [t.bda.cursors EXCEPT ![0] = <<0, 0>>]
       /\ u.b.cursor = IF t.bda.page = 0 THEN 0 ELSE t.b.cursor

\* AH=00h
LEMMA SetVideoModeIs ==
  ASSUME NEW t, Screen(t), NEW mode, NEW clear
  PROVE  /\ Became(t, SetVideoMode(t, mode, clear))
         /\ SetByMode(t, SetVideoMode(t, mode, clear), mode, clear)
<1> DEFINE e == IF clear THEN Emptied(t, mode) ELSE t
           set == CardSetMode(e, mode)
           x == ColorSelectOf(mode)
           a == [set.bda EXCEPT !.palette = x]
           area == [set EXCEPT !.bda = a]
           colored == IF mode \in CgaModes THEN IoWrite(area, ColorPort, x) ELSE set
           b == ModeArea(colored.bda, mode)
           known == [colored EXCEPT !.bda = b]
           u == SetVideoMode(t, mode, clear)
<1> SUFFICES Became(t, u) /\ SetByMode(t, u, mode, clear)
  OBVIOUS
<1>1. /\ Reached(t, e) /\ Screen(e) /\ e.b.cursor = t.b.cursor /\ e.bda = t.bda
      /\ e.b.vram = MemoryAfter(t, mode, clear)
  BY EmptiedIs, ReachedItself DEF Reached, MemoryAfter
<1> HIDE DEF e
<1>2. Reached(t, set) /\ Screen(set) /\ SameText(e.b, set.b) /\ set.bda = t.bda
  BY <1>1, CardSetModeIs, ReachedBoth DEF Reached
<1>4. Became(t, set)
  BY <1>2, ReachedBecame
<1> DEFINE filled == [colored EXCEPT !.bda.height = FontHeight(mode), !.bda.mode = mode,
                                 !.bda.cols = TextCols(mode), !.bda.rows = TextRows(mode) - 1,
                                 !.bda.page_size = 2 * TextCols(mode) * TextRows(mode)]
<1>3. u = IF mode \in KnownModes THEN SetCursorPos(filled, 0, 0, 0) ELSE set
  BY DEF SetVideoMode, e
<1> HIDE DEF set, u
<1>5. /\ Became(t, colored) /\ Screen(colored) /\ SameText(set.b, colored.b)
      /\ colored.bda.page = t.bda.page /\ colored.bda.cursors = t.bda.cursors
  <2>1. CASE mode \in CgaModes
    <3>0. /\ DOMAIN a = DOMAIN set.bda /\ a.mode = set.bda.mode /\ a.cols = set.bda.cols
          /\ a.rows = set.bda.rows /\ a.page = set.bda.page /\ a.cursors = set.bda.cursors
          /\ a.crtc = set.bda.crtc /\ a.page_size = set.bda.page_size /\ area = [set EXCEPT !.bda = a]
      <4>1. {"mode", "cols", "rows", "page", "cursors", "crtc", "page_size"} \subseteq DOMAIN set.bda
        BY <1>2 DEF Screen, BdaOK
      <4> QED BY <4>1
    <3> HIDE DEF a, area
    <3>1. Became(set, area) /\ Unseen(set, area)
      BY <1>2, <3>0, AreaBeside
    <3>2. ColorPort \notin {MonoData, CrtcData}
      BY DEF ColorPort, MonoData, CrtcData
    <3>3. /\ Reached(area, colored) /\ Screen(colored) /\ SameText(area.b, colored.b)
      BY <2>1, <3>1, <3>2, PortQuiet DEF Became
    <3>4. Became(area, colored) /\ Unseen(area, colored)
      BY <3>1, <3>3, ReachedBecame, UnseenReached DEF Became
    <3> HIDE DEF colored
    <3>5. Became(t, colored) /\ Unseen(set, colored)
      BY <1>4, <3>1, <3>4, BecameBoth, UnseenBoth
    <3> QED BY <1>2, <3>3, <3>5 DEF Unseen
  <2>2. CASE mode \notin CgaModes
    BY <1>2, <1>4, <2>2 DEF SameText
  <2> QED BY <2>1, <2>2
<1>6. SameText(e.b, colored.b)
  BY <1>2, <1>5 DEF SameText
<1>7. CASE mode \notin KnownModes
  <2>1. u = set
    BY <1>3, <1>7
  <2> QED BY <1>1, <1>2, <1>4, <1>7, <2>1 DEF SameText, SetByMode
<1>8. CASE mode \in KnownModes
  <2> HIDE DEF colored
  <2>1. BdaOK(colored.bda, colored.type) /\ "bda" \in DOMAIN colored
    BY <1>5 DEF Screen
  <2>12. filled = known
    BY <2>1 DEF ModeArea
  <2>13. u = SetCursorPos(known, 0, 0, 0)
    BY <1>3, <1>8, <2>12
  <2> HIDE DEF filled
  <2> DEFINE n == colored.bda
             type == colored.type
  <2>2. /\ BdaOK(b, type) /\ b.mode = mode /\ b.cols = TextCols(mode) /\ b.page = n.page
        /\ b.cursors = n.cursors
    <3> HIDE DEF n, type
    <3> QED BY <1>8, <2>1, ModeAreaIs DEF n, type
  <2>3. known = [colored EXCEPT !.bda = b]
    OBVIOUS
  <2> HIDE DEF b, known
  <2>4. Became(colored, known) /\ known.b = colored.b /\ known.bda = b
    BY <1>5, <2>2, <2>3, AreaOnly
  <2>5. Screen(known)
    BY <2>4 DEF Became
  <2>6. /\ Became(known, u) /\ u.b.vram = known.b.vram
        /\ u.bda = WithCursor(b, 0, 0, 0)
        /\ u.b.cursor = IF b.page = 0 THEN 0 ELSE known.b.cursor
    BY <2>4, <2>5, <2>13, HomeIs
  <2>8. Became(t, u)
    BY <1>5, <2>4, <2>6, BecameBoth
  <2>9. u.b.vram = e.b.vram /\ u.b.cursor = IF t.bda.page = 0 THEN 0 ELSE t.b.cursor
    BY <1>1, <1>5, <1>6, <2>2, <2>4, <2>6 DEF SameText
  <2>10. /\ {"mode", "cols", "page", "cursors"} \subseteq DOMAIN b
         /\ WithCursor(b, 0, 0, 0).cursors = [b.cursors EXCEPT ![0] = <<0, 0>>]
         /\ WithCursor(b, 0, 0, 0).mode = b.mode /\ WithCursor(b, 0, 0, 0).cols = b.cols
         /\ WithCursor(b, 0, 0, 0).page = b.page
    <3>1. {"mode", "cols", "page", "cursors"} \subseteq DOMAIN b
      BY <2>2 DEF BdaOK
    <3> QED BY <3>1 DEF WithCursor
  <2>11. /\ u.bda.mode = mode /\ u.bda.cols = TextCols(mode) /\ u.bda.page = t.bda.page
         /\ u.bda.cursors = [t.bda.cursors EXCEPT ![0] = <<0, 0>>]
    BY <1>5, <2>2, <2>6, <2>10
  <2> QED BY <1>1, <1>8, <2>8, <2>9, <2>11 DEF SetByMode
<1> QED BY <1>7, <1>8

-----------------------------------------------------------------------------
(* Scrolling and drawing. *)

\* The memory after each row of a scroll.
RowAt(w, down, i) == IF down THEN w.bottom - i + 1 ELSE w.top + i - 1

RowStep(mem, lay, w, attr, down, i) ==
  RowScrolled(mem, lay, w, attr, RowAt(w, down, i) + (IF down THEN -w.lines ELSE w.lines),
              RowAt(w, down, i))

Rolled(f, mem, lay, w, attr, down, n) ==
  f = [i \in 0..n |-> IF i = 0 THEN mem ELSE RowStep(f[i-1], lay, w, attr, down, i)]

\* The memory after each row of a scroll: the function exists ...
LEMMA RolledExists ==
  ASSUME NEW mem, NEW lay, NEW w, NEW attr, NEW down, NEW n \in Nat
  PROVE  \E f : Rolled(f, mem, lay, w, attr, down, n)
<1> DEFINE step(m, i) == RowStep(m, lay, w, attr, down, i)
           P == {k \in Nat : \E f : Rolled(f, mem, lay, w, attr, down, k)}
<1>0. \A f, k : Rolled(f, mem, lay, w, attr, down, k)
                  <=> f = [i \in 0..k |-> IF i = 0 THEN mem ELSE step(f[i-1], i)]
  BY DEF Rolled
<1> HIDE DEF step
<1>1. 0 \in P
  <2> DEFINE f == [i \in 0..0 |-> mem]
  <2>1. f = [i \in 0..0 |-> IF i = 0 THEN mem ELSE step(f[i-1], i)]
    OBVIOUS
  <2> HIDE DEF f
  <2> QED BY <1>0, <2>1
<1>2. ASSUME NEW k \in P PROVE k + 1 \in P
  <2>1. PICK f : Rolled(f, mem, lay, w, attr, down, k)
    OBVIOUS
  <2> DEFINE g == [i \in 0..k+1 |-> IF i = 0 THEN mem ELSE step(f[i-1], i)]
  <2>2. \A i \in 0..k : f[i] = IF i = 0 THEN mem ELSE step(f[i-1], i)
    BY <1>0, <2>1
  <2>3. \A i \in 0..k : g[i] = f[i]
    BY <2>2
  <2>4. \A i \in 0..k+1 : i # 0 => i - 1 \in 0..k
    OBVIOUS
  <2>5. g = [i \in 0..k+1 |-> IF i = 0 THEN mem ELSE step(g[i-1], i)]
    BY <2>3, <2>4
  <2> HIDE DEF g
  <2>6. Rolled(g, mem, lay, w, attr, down, k + 1)
    BY <1>0, <2>5
  <2> QED BY <2>6
<1>3. P = Nat
  <2> HIDE DEF P
  <2> QED BY <1>1, <1>2, Induction DEF P
<1> QED BY <1>3

\* ... and each of its values comes from the one before.
LEMMA RolledSteps ==
  ASSUME NEW mem, NEW lay, NEW w, NEW attr, NEW down, NEW n \in Nat, NEW f,
         Rolled(f, mem, lay, w, attr, down, n)
  PROVE  f[0] = mem /\ \A i \in 1..n : f[i] = RowStep(f[i-1], lay, w, attr, down, i)
<1> DEFINE step(m, i) == RowStep(m, lay, w, attr, down, i)
<1>1. f = [i \in 0..n |-> IF i = 0 THEN mem ELSE step(f[i-1], i)]
  BY DEF Rolled
<1> HIDE DEF step
<1>2. \A i \in 0..n : f[i] = IF i = 0 THEN mem ELSE step(f[i-1], i)
  BY <1>1
<1>3. f[0] = mem /\ \A i \in 1..n : f[i] = step(f[i-1], i)
  BY <1>2
<1> QED BY <1>3 DEF step

\* A scroll is the last of them.
LEMMA ScrolledRun ==
  ASSUME NEW t, NEW lay, NEW w, NEW attr, NEW down, ~(w.top > w.bottom \/ w.left > w.right),
         w.bottom - w.top + 1 \in Nat
  PROVE  \E f : /\ Rolled(f, t.b.vram, lay, w, attr, down, w.bottom - w.top + 1)
                /\ Scrolled(t, lay, w, attr, down) = Rewritten(t, f[w.bottom - w.top + 1])
<1> DEFINE f == CHOOSE f : Rolled(f, t.b.vram, lay, w, attr, down, w.bottom - w.top + 1)
<1>1. Rolled(f, t.b.vram, lay, w, attr, down, w.bottom - w.top + 1)
  BY RolledExists
<1>2. Scrolled(t, lay, w, attr, down) = Rewritten(t, f[w.bottom - w.top + 1])
  BY DEF Scrolled, RowsScrolled, Rolled, RowAt, RowStep
<1> HIDE DEF f
<1> QED BY <1>1, <1>2

\* No byte is gained or lost.
LEMMA RolledDomain ==
  ASSUME NEW mem, NEW lay, NEW w, NEW attr, NEW down, NEW n \in Nat, NEW f,
         Rolled(f, mem, lay, w, attr, down, n)
  PROVE  \A i \in 0..n : DOMAIN f[i] = DOMAIN mem
<1> DEFINE S == {i \in Nat : i <= n => DOMAIN f[i] = DOMAIN mem}
<1>1. f[0] = mem /\ \A i \in 1..n : DOMAIN f[i] = DOMAIN f[i-1]
  <2>1. \A m, i : DOMAIN RowStep(m, lay, w, attr, down, i) = DOMAIN m
    BY DEF RowScrolled, RowStep
  <2>2. f[0] = mem /\ \A i \in 1..n : f[i] = RowStep(f[i-1], lay, w, attr, down, i)
    BY RolledSteps
  <2> QED BY <2>1, <2>2
<1>2. 0 \in S
  BY <1>1
<1>3. ASSUME NEW i \in S PROVE i + 1 \in S
  <2> SUFFICES ASSUME i + 1 <= n PROVE DOMAIN f[i+1] = DOMAIN mem
    OBVIOUS
  <2>1. i + 1 \in 1..n /\ (i + 1) - 1 = i /\ i <= n
    OBVIOUS
  <2> QED BY <1>1, <2>1
<1>4. S = Nat
  <2> HIDE DEF S
  <2> QED BY <1>2, <1>3, Induction DEF S
<1> QED BY <1>4

\* A scroll of a window.
LEMMA ScrolledIs ==
  ASSUME NEW t, Screen(t), NEW lay, NEW w, NEW attr, NEW down, w.top \in Int, w.bottom \in Int
  PROVE  /\ Reached(t, Scrolled(t, lay, w, attr, down)) /\ Screen(Scrolled(t, lay, w, attr, down))
         /\ Scrolled(t, lay, w, attr, down).b.cursor = t.b.cursor
<1> DEFINE u == Scrolled(t, lay, w, attr, down)
           n == w.bottom - w.top + 1
<1>1. CASE w.top > w.bottom \/ w.left > w.right
  BY <1>1, ReachedItself DEF Scrolled
<1>2. CASE ~(w.top > w.bottom \/ w.left > w.right)
  <2>1. n \in Nat
    BY <1>2
  <2>2. PICK f : Rolled(f, t.b.vram, lay, w, attr, down, n) /\ u = Rewritten(t, f[n])
    BY <1>2, <2>1, ScrolledRun
  <2> HIDE DEF n, u
  <2>3. DOMAIN f[n] = DOMAIN t.b.vram
    BY <2>1, <2>2, RolledDomain
  <2>4. TextBytes \subseteq DOMAIN f[n]
    BY <2>3 DEF Screen, BufferOK
  <2>5. Reached(t, u) /\ u.b.cursor = t.b.cursor
    BY <2>2, <2>4, ScreenMarked
  <2> QED BY <2>5, ReachedScreen DEF u
<1> QED BY <1>1, <1>2

\* A glyph.
LEMMA DrawnIs ==
  ASSUME NEW t, Screen(t), NEW lay, NEW ch, NEW row, NEW col, NEW fg, NEW how
  PROVE  /\ Reached(t, Drawn(t, lay, ch, row, col, fg, how))
         /\ Screen(Drawn(t, lay, ch, row, col, fg, how))
<1> DEFINE u == Drawn(t, lay, ch, row, col, fg, how)
<1>1. \E mem : u = Rewritten(t, mem) /\ DOMAIN mem = DOMAIN t.b.vram
  <2> DEFINE dots(i) == IF how = "inverted" THEN 255 - Glyph[ch][i[1]] ELSE Glyph[ch][i[1]]
             new(i)  == Colored(lay, dots(i), fg, i)
             inside  == {i \in Parts(lay, [left |-> col, right |-> col]) : At(lay, row, i) < Limit(t, lay)}
             places  == {At(lay, row, i) : i \in inside}
             part(a) == CHOOSE i \in inside : At(lay, row, i) = a
             put(a)  == IF how = "opaque" THEN new(part(a)) ELSE BitXor(t.b.vram[a], new(part(a)))
             mem == [a \in DOMAIN t.b.vram |-> IF a \in places THEN put(a) ELSE t.b.vram[a]]
  <2>1. u = Rewritten(t, mem)
    BY DEF Drawn
  <2> HIDE DEF put, places, u
  <2> QED BY <2>1
<1> HIDE DEF u
<1>2. PICK mem : u = Rewritten(t, mem) /\ DOMAIN mem = DOMAIN t.b.vram
  BY <1>1
<1>3. TextBytes \subseteq DOMAIN mem
  BY <1>2 DEF Screen, BufferOK
<1>4. Reached(t, u)
  BY <1>2, <1>3, ScreenMarked
<1> QED BY <1>4, ReachedScreen DEF u

-----------------------------------------------------------------------------
(* Characters. *)

\* The cursor and the last row are numbers.
LEMMA PlacesAreNumbers ==
  ASSUME NEW t, Screen(t)
  PROVE  /\ Cursor(t)[1] \in Nat /\ Cursor(t)[2] \in Nat /\ Cursor(t) = <<Cursor(t)[1], Cursor(t)[2]>>
         /\ t.bda.cols \in Nat \ {0} /\ LastRow(t) \in Nat /\ t.bda.page \in 0..7
         /\ t.bda.mode \notin GraphicsModes => LastRow(t) = ScreenRows - 1
         /\ IsMono(t) \in BOOLEAN /\ t.bda.crtc + 5 \notin {MonoData, CrtcData}
<1>1. BdaOK(t.bda, t.type)
  BY DEF Screen
<1>2. /\ t.bda.cursors \in [0..7 -> Nat \X Nat] /\ t.bda.page \in 0..7 /\ t.bda.rows \in Nat
      /\ t.bda.cols \in {Wide, Narrow}
      /\ t.bda.mode \notin GraphicsModes => t.bda.rows = ScreenRows - 1
  BY <1>1 DEF BdaOK
<1>3. Cursor(t) \in Nat \X Nat
  BY <1>2 DEF Cursor
<1>4. /\ t.bda.cols \in Nat \ {0} /\ LastRow(t) \in Nat
      /\ t.bda.mode \notin GraphicsModes => LastRow(t) = ScreenRows - 1
  BY <1>2, SizesAssumption DEF LastRow
<1>5. t.bda.crtc + 5 \notin {MonoData, CrtcData}
  BY <1>1 DEF BdaOK, MonoData, CrtcData, MonoIndex, CrtcIndex
<1> QED BY <1>2, <1>3, <1>4, <1>5 DEF IsMono

\* Text is written without a move of the cursor.
LEMMA WriteTextIs ==
  ASSUME NEW t, Screen(t), NEW ch, NEW attr, NEW count
  PROVE  /\ Reached(t, WriteText(t, ch, attr, count)) /\ Screen(WriteText(t, ch, attr, count))
         /\ WriteText(t, ch, attr, count).b.cursor = t.b.cursor
<1> DEFINE u == WriteText(t, ch, attr, count)
           chars == {CellAt(t, n) : n \in Filling(t, count)}
           attrs == IF attr = Unset THEN {} ELSE {a + 1 : a \in chars}
           mem == [a \in DOMAIN t.b.vram |-> IF a \in chars THEN ch
                                             ELSE IF a \in attrs THEN attr ELSE t.b.vram[a]]
<1>1. u = IF chars = {} THEN t ELSE Rewritten(t, mem)
  BY DEF WriteText
<1>2. TextBytes \subseteq DOMAIN mem
  BY DEF Screen, BufferOK
<1> HIDE DEF chars, mem, u
<1>3. Reached(t, u) /\ u.b.cursor = t.b.cursor
  BY <1>1, <1>2, ReachedItself, ScreenMarked
<1> QED BY <1>3, ReachedScreen DEF u

\* Glyphs one after another.
GlyphStep(v, t, ch, attr, how, i) ==
  Drawn(v, GraphicsLayout(t.bda.mode), ch, Cursor(t)[1] + (i - 1) \div t.bda.cols,
        Cursor(t)[2] + ((i - 1) % t.bda.cols), attr % 16, how)

Glyphs(f, t, ch, attr, how, n) ==
  f = [i \in 0..n |-> IF i = 0 THEN t ELSE GlyphStep(f[i-1], t, ch, attr, how, i)]

\* The screens that a row of glyphs goes through ...
LEMMA GlyphsExist ==
  ASSUME NEW t, NEW ch, NEW attr, NEW how, NEW n \in Nat
  PROVE  \E f : Glyphs(f, t, ch, attr, how, n)
<1> DEFINE P == {k \in Nat : \E f : Glyphs(f, t, ch, attr, how, k)}
<1>1. 0 \in P
  <2> DEFINE f == [i \in 0..0 |-> t]
  <2>1. Glyphs(f, t, ch, attr, how, 0)
    BY DEF Glyphs
  <2> HIDE DEF f
  <2> QED BY <2>1
<1>2. ASSUME NEW k \in P PROVE k + 1 \in P
  <2>1. PICK f : Glyphs(f, t, ch, attr, how, k)
    OBVIOUS
  <2> DEFINE g == [i \in 0..k+1 |-> IF i = 0 THEN t ELSE GlyphStep(f[i-1], t, ch, attr, how, i)]
  <2>2. \A i \in 0..k : f[i] = IF i = 0 THEN t ELSE GlyphStep(f[i-1], t, ch, attr, how, i)
    BY <2>1 DEF Glyphs
  <2>3. \A i \in 0..k : g[i] = f[i]
    BY <2>2
  <2>4. \A i \in 0..k+1 : i # 0 => i - 1 \in 0..k
    OBVIOUS
  <2>5. g = [i \in 0..k+1 |-> IF i = 0 THEN t ELSE GlyphStep(g[i-1], t, ch, attr, how, i)]
    BY <2>3, <2>4
  <2> HIDE DEF g
  <2>6. Glyphs(g, t, ch, attr, how, k + 1)
    BY <2>5 DEF Glyphs
  <2> QED BY <2>6
<1>3. P = Nat
  <2> HIDE DEF P
  <2> QED BY <1>1, <1>2, Induction DEF P
<1> QED BY <1>3

\* ... each announce what they changed.
LEMMA GlyphsReach ==
  ASSUME NEW t, Screen(t), NEW ch, NEW attr, NEW how, NEW n \in Nat, NEW f,
         Glyphs(f, t, ch, attr, how, n)
  PROVE  Reached(t, f[n])
<1> DEFINE S == {i \in Nat : i <= n => Reached(t, f[i])}
<1>1. \A i \in 0..n : f[i] = IF i = 0 THEN t ELSE GlyphStep(f[i-1], t, ch, attr, how, i)
  BY DEF Glyphs
<1>2. 0 \in S
  BY <1>1, ReachedItself
<1>3. ASSUME NEW i \in S PROVE i + 1 \in S
  <2> SUFFICES ASSUME i + 1 <= n PROVE Reached(t, f[i+1])
    OBVIOUS
  <2>1. i + 1 \in 0..n /\ i + 1 # 0 /\ (i + 1) - 1 = i /\ i <= n
    OBVIOUS
  <2>2. Reached(t, f[i])
    BY <2>1
  <2> DEFINE j == i + 1
             v == f[i]
  <2>3. f[j] = GlyphStep(v, t, ch, attr, how, j)
    BY <1>1, <2>1
  <2> HIDE DEF j, v
  <2>4. Reached(v, f[j])
    BY <2>2, <2>3, ReachedScreen, DrawnIs DEF GlyphStep, v
  <2> QED BY <2>2, <2>4, ReachedBoth DEF j, v
<1>4. S = Nat
  <2> HIDE DEF S
  <2> QED BY <1>2, <1>3, Induction DEF S
<1> QED BY <1>4

\* Text in a graphics mode.
LEMMA WriteGlyphsIs ==
  ASSUME NEW t, Screen(t), NEW ch, NEW attr, NEW count \in Nat
  PROVE  Reached(t, WriteGlyphs(t, ch, attr, count)) /\ Screen(WriteGlyphs(t, ch, attr, count))
<1> DEFINE u == WriteGlyphs(t, ch, attr, count)
           xor == attr >= 128
           inverted == t.bda.mode \in CgaModes /\ ch >= 128 /\ xor
           how == IF inverted THEN "inverted" ELSE IF xor THEN "xor" ELSE "opaque"
           cols == t.bda.cols
           some == {n \in 0..count-1 : Cursor(t)[1] + n \div cols <= LastRow(t)}
           n == Cardinality(some)
           c == IF inverted THEN ch - 128 ELSE ch
           f == CHOOSE f : Glyphs(f, t, c, attr, how, n)
<1>1. u = f[n]
  BY DEF WriteGlyphs, Glyphs, GlyphStep
<1>2. n \in Nat
  <2>1. IsFiniteSet(0..count-1)
    BY FS_Interval
  <2>2. some \subseteq 0..count-1
    OBVIOUS
  <2> HIDE DEF some
  <2>3. IsFiniteSet(some)
    BY <2>1, <2>2, FS_Subset
  <2> QED BY <2>3, FS_CardinalityType
<1> HIDE DEF u, n, c, how
<1>3. Glyphs(f, t, c, attr, how, n)
  BY <1>2, GlyphsExist
<1> HIDE DEF f
<1>4. Reached(t, u)
  BY <1>1, <1>2, <1>3, GlyphsReach
<1> QED BY <1>4, ReachedScreen DEF u

\* A screen that scrolls by one row.
LEMMA ScrollScreenIs ==
  ASSUME NEW t, Screen(t)
  PROVE  Reached(t, ScrollScreen(t)) /\ Screen(ScrollScreen(t))
<1> DEFINE lay == TextLayout(t.bda.cols)
           w == [lines |-> 1, top |-> 0, left |-> 0, bottom |-> LastRow(t), right |-> t.bda.cols - 1]
<1>1. ScrollScreen(t) = Scrolled(t, lay, w, LightGray, FALSE)
  BY DEF ScrollScreen
<1>2. w.top \in Int /\ w.bottom \in Int
  BY PlacesAreNumbers
<1> HIDE DEF lay, w
<1> QED BY <1>1, <1>2, ScrolledIs

\* A screen that stays in its mode.
Stayed(t, u) == Became(t, u) /\ u.bda.mode = t.bda.mode

\* Accesses and cursors leave the mode alone, and so do several of them.
LEMMA ReachedStays ==
  ASSUME NEW t, Screen(t), NEW u, Reached(t, u)
  PROVE  Stayed(t, u)
BY ReachedBecame DEF Reached, Stayed

\* One change after the other.
LEMMA StayedBoth ==
  ASSUME NEW t, NEW u, NEW v, Stayed(t, u), Stayed(u, v)
  PROVE  Stayed(t, v)
BY BecameBoth DEF Stayed

\* A cursor that is set.
LEMMA CursorStays ==
  ASSUME NEW t, Screen(t), NEW page \in 0..7, NEW row \in Nat, NEW col \in Nat
  PROVE  Stayed(t, SetCursorPos(t, page, row, col))
<1> DEFINE u == SetCursorPos(t, page, row, col)
<1>1. Became(t, u) /\ u.bda = WithCursor(t.bda, page, row, col)
  BY SetCursorPosIs
<1>2. {"mode", "cursors"} \subseteq DOMAIN t.bda
  BY DEF Screen, BdaOK
<1> HIDE DEF u
<1>3. u.bda.mode = t.bda.mode
  BY <1>1, <1>2 DEF WithCursor
<1> QED BY <1>1, <1>3 DEF Stayed, u

\* The cursor on the next line, or the screen a row up.
LEMMA NextLineIs ==
  ASSUME NEW t, Screen(t), NEW col \in Nat
  PROVE  Stayed(t, NextLine(t, col))
<1> DEFINE row == Cursor(t)[1]
           last == LastRow(t)
           page == t.bda.page
           v == ScrollScreen(t)
<1>1. row \in Nat /\ last \in Nat /\ page \in 0..7
  BY PlacesAreNumbers
<1>2. NextLine(t, col) = IF row >= last THEN SetCursorPos(v, page, last, col)
                         ELSE SetCursorPos(t, page, row + 1, col)
  BY DEF NextLine
<1>3. Reached(t, v) /\ Screen(v) /\ Stayed(t, v)
  BY ScrollScreenIs, ReachedStays
<1> HIDE DEF v, last, row, page
<1>4. Stayed(v, SetCursorPos(v, page, last, col))
  BY <1>1, <1>3, CursorStays
<1>5. row + 1 \in Nat
  BY <1>1
<1>6. Stayed(t, SetCursorPos(t, page, row + 1, col))
  <2> DEFINE below == row + 1
  <2>1. below \in Nat
    BY <1>5
  <2> HIDE DEF below
  <2>2. Stayed(t, SetCursorPos(t, page, below, col))
    BY <1>1, <2>1, CursorStays
  <2> QED BY <2>2 DEF below
<1>7. Stayed(t, SetCursorPos(v, page, last, col))
  BY <1>3, <1>4, StayedBoth
<1> QED BY <1>2, <1>6, <1>7

\* AH=0Eh
LEMMA TeletypeIs ==
  ASSUME NEW t, Screen(t), NEW ch, NEW fg
  PROVE  Stayed(t, Teletype(t, ch, fg))
<1> DEFINE row == Cursor(t)[1]
           col == Cursor(t)[2]
           page == t.bda.page
           drawn == IF t.bda.mode \in GraphicsModes
                    THEN Drawn(t, GraphicsLayout(t.bda.mode), ch, row, col, fg, "opaque")
                    ELSE WriteByte(t, CellAt(t, 0), ch)
           back == col - 1
           next == col + 1
           zero == 0
<1>1. row \in Nat /\ col \in Nat /\ page \in 0..7 /\ next \in Nat /\ zero \in Nat /\ (col > 0 => back \in Nat)
  BY PlacesAreNumbers
<1>2. Teletype(t, ch, fg) =
        CASE ch = CarriageReturn -> SetCursorPos(t, page, row, zero)
          [] ch = LineFeed       -> NextLine(t, col)
          [] ch = Backspace      -> IF col > 0 THEN SetCursorPos(t, page, row, back) ELSE t
          [] OTHER -> IF next >= t.bda.cols THEN NextLine(drawn, zero)
                      ELSE SetCursorPos(drawn, page, row, next)
  BY DEF Teletype
<1>3. Reached(t, drawn) /\ Screen(drawn)
  BY DrawnIs, WriteByteIs, ReachedScreen
<1> HIDE DEF row, col, page, drawn, back, next, zero
<1>4. Stayed(t, drawn)
  BY <1>3, ReachedStays
<1>5. Stayed(t, SetCursorPos(t, page, row, zero)) /\ (col > 0 => Stayed(t, SetCursorPos(t, page, row, back)))
  BY <1>1, CursorStays
<1>6. Stayed(t, NextLine(t, col)) /\ Stayed(drawn, NextLine(drawn, zero))
  BY <1>1, <1>3, NextLineIs
<1>7. Stayed(drawn, SetCursorPos(drawn, page, row, next))
  BY <1>1, <1>3, CursorStays
<1>8. Stayed(t, NextLine(drawn, zero)) /\ Stayed(t, SetCursorPos(drawn, page, row, next))
  BY <1>4, <1>6, <1>7, StayedBoth
<1>9. Stayed(t, t)
  BY UnseenItself DEF Stayed
<1> HIDE DEF Stayed
<1> QED BY <1>2, <1>5, <1>6, <1>8, <1>9 DEF CarriageReturn, LineFeed, Backspace

\* AH=0Ch
LEMMA WritePixelIs ==
  ASSUME NEW t, Screen(t), NEW color, NEW col, NEW row
  PROVE  Reached(t, WritePixel(t, color, col, row)) /\ (t.bda.mode \notin GraphicsModes => WritePixel(t, color, col, row) = t)
<1>1. \E at, x : WritePixel(t, color, col, row) \in {t, WriteByte(t, at, x)}
  <2> DEFINE depth == IF t.bda.mode = 6 THEN 1 ELSE 2
             per   == 8 \div depth
             at    == Interleaved(row) + col \div per
             shift == 2^(8 - depth * ((col % per) + 1))
             bits  == (color % 2^depth) * shift
             old   == ReadByte(t, at)
             hole  == old - ((old \div shift) % 2^depth) * shift
             width == IF t.bda.mode = 6 THEN 8 * Wide ELSE 8 * Narrow
             x == IF color >= 128 THEN BitXor(old, bits) ELSE hole + bits
             u == WritePixel(t, color, col, row)
  <2>1. u = IF t.bda.mode \notin CgaModes \/ col >= width \/ row >= ScreenRows * Cell8 THEN t
            ELSE WriteByte(t, at, x)
    BY DEF WritePixel
  <2> HIDE DEF u, at, x, width
  <2>2. u \in {t, WriteByte(t, at, x)}
    BY <2>1
  <2> QED BY <2>2 DEF u
<1>2. t.bda.mode \notin GraphicsModes => WritePixel(t, color, col, row) = t
  BY DEF WritePixel, GraphicsModes
<1> DEFINE u == WritePixel(t, color, col, row)
<1> HIDE DEF u
<1>3. PICK at, x : u \in {t, WriteByte(t, at, x)}
  BY <1>1 DEF u
<1>4. Reached(t, u)
  BY <1>3, ReachedItself, WriteByteIs
<1> QED BY <1>2, <1>4 DEF u

\* AH=06h and AH=07h
LEMMA ScrollWindowIs ==
  ASSUME NEW t, Screen(t), NEW w \in Windows, NEW attr, NEW down
  PROVE  Reached(t, ScrollWindow(t, w, attr, down))
<1> DEFINE cut == [w EXCEPT !.right = Lesser(@, t.bda.cols - 1), !.bottom = Lesser(@, LastRow(t))]
           u == ScrollWindow(t, w, attr, down)
           text == Scrolled(t, TextLayout(t.bda.cols), cut, attr, down)
           dots == Scrolled(t, GraphicsLayout(t.bda.mode), w, attr, down)
<1>1. u = CASE t.bda.mode \in 0..3 -> text [] t.bda.mode \in GraphicsModes -> dots [] OTHER -> t
  BY DEF ScrollWindow
<1>2. w.top \in Int /\ w.bottom \in Int /\ cut.top \in Int /\ cut.bottom \in Int
  BY PlacesAreNumbers DEF Windows, Octet, Lesser
<1>3. u \in {text, dots, t}
  <2> HIDE DEF u, text, dots
  <2> QED BY <1>1 DEF GraphicsModes, CgaModes, PlanarModes
<1> HIDE DEF cut, u
<1>4. Reached(t, text) /\ Reached(t, dots) /\ Reached(t, t)
  BY <1>2, ScrolledIs, ReachedItself
<1> QED BY <1>3, <1>4 DEF u

-----------------------------------------------------------------------------
(* Colours and questions: what is beside the text. *)

Beside(t, u) == Reached(t, u) /\ Screen(u) /\ SameText(t.b, u.b)

\* What leaves text and cursor alone, twice.
LEMMA BesideBoth ==
  ASSUME NEW t, NEW u, NEW v, Beside(t, u), Beside(u, v)
  PROVE  Beside(t, v)
BY ReachedBoth DEF Beside

\* What a text screen does not show leaves its text alone.
LEMMA BesideUnseen ==
  ASSUME NEW t, Screen(t), NEW u, Beside(t, u)
  PROVE  Became(t, u) /\ Unseen(t, u)
BY ReachedBecame, UnseenReached DEF Beside

\* Ports that are none of the cursor's.
LEMMA BesidePorts ==
  ASSUME NEW t, Screen(t), NEW port
  PROVE  /\ Beside(t, IoRead(t, port).s)
         /\ port \notin {MonoData, CrtcData} => \A x : Beside(t, IoWrite(t, port, x))
<1>1. Beside(t, IoRead(t, port).s)
  <2> DEFINE u == IoRead(t, port).s
  <2>1. /\ DOMAIN u = DOMAIN t /\ u.type = t.type /\ u.bda = t.bda /\ u.b = t.b
        /\ "io_register" \in DOMAIN u.k
    BY IoReadIs
  <2> HIDE DEF u
  <2>2. Reached(t, u) /\ SameText(t.b, u.b)
    BY <2>1 DEF Reached, Screen, Announced, SameText
  <2>3. Beside(t, u)
    BY <2>2, ReachedScreen DEF Beside
  <2> QED BY <2>3 DEF u
<1>2. ASSUME port \notin {MonoData, CrtcData}, NEW x PROVE Beside(t, IoWrite(t, port, x))
  BY <1>2, PortQuiet DEF Beside
<1> QED BY <1>1, <1>2

\* A list of accesses to such ports.
LEMMA BesideAccesses ==
  ASSUME NEW t, Screen(t), NEW n \in Nat, NEW seq, DOMAIN seq = 1..n, \E S : seq \in [1..n -> S],
         \A i \in 1..n : Access(seq[i]) /\ Quiet(seq[i])
  PROVE  Beside(t, Accesses(t, seq))
<1>1. Len(seq) = n
  BY LengthIs
<1>2. Len(seq) \in Nat /\ \A i \in 1..Len(seq) : Access(seq[i]) /\ Quiet(seq[i])
  BY <1>1
<1> QED BY <1>2, AccessesReach DEF Beside

\* The ports of colours are none of the cursor's.
LEMMA ColorPorts ==
  /\ AcPort \notin {MonoData, CrtcData} /\ DacWriteIndex \notin {MonoData, CrtcData}
  /\ DacReadIndex \notin {MonoData, CrtcData} /\ DacData \notin {MonoData, CrtcData}
BY DEF AcPort, DacWriteIndex, DacReadIndex, DacData, MonoData, CrtcData

\* A reply.
LEMMA BesideReply ==
  ASSUME NEW t, Screen(t), NEW y
  PROVE  Beside(t, Replied(t, y))
BY RepliedIs, ReachedScreen DEF Beside, SameText

\* AH=0Bh
LEMMA SetColorsIs ==
  ASSUME NEW t, Screen(t), NEW palette, NEW x
  PROVE  Became(t, SetColors(t, palette, x)) /\ Unseen(t, SetColors(t, palette, x))
<1> DEFINE now == t.bda.palette
           new == IF palette THEN now - 32 * Bit(now, 5) + 32 * (x % 2)
                  ELSE 32 * (now \div 32) + (x % 32)
           a == [t.bda EXCEPT !.palette = new]
           v == [t EXCEPT !.bda = a]
           u == SetColors(t, palette, x)
           port == t.bda.crtc + 5
<1>1. u = IoWrite(v, port, new)
  BY DEF SetColors
<1> HIDE DEF new
<1>2. /\ DOMAIN a = DOMAIN t.bda /\ a.mode = t.bda.mode /\ a.cols = t.bda.cols /\ a.rows = t.bda.rows
      /\ a.page = t.bda.page /\ a.cursors = t.bda.cursors /\ a.crtc = t.bda.crtc
      /\ a.page_size = t.bda.page_size /\ v = [t EXCEPT !.bda = a]
  <2>1. {"mode", "cols", "rows", "page", "cursors", "crtc", "page_size"} \subseteq DOMAIN t.bda
    BY DEF Screen, BdaOK
  <2> QED BY <2>1
<1>3. port \notin {MonoData, CrtcData}
  BY PlacesAreNumbers
<1> HIDE DEF a, v, u, port
<1>4. Became(t, v) /\ Unseen(t, v) /\ Screen(v)
  BY <1>2, AreaBeside DEF Became
<1>5. Beside(v, u)
  BY <1>1, <1>3, <1>4, BesidePorts
<1>6. Became(v, u) /\ Unseen(v, u)
  BY <1>4, <1>5, BesideUnseen
<1>7. Became(t, u) /\ Unseen(t, u)
  BY <1>4, <1>6, BecameBoth, UnseenBoth
<1> QED BY <1>7 DEF u

\* The attribute controller's registers in a row.
LEMMA AttributeWritesIs ==
  ASSUME NEW t, Screen(t), NEW bytes, Len(bytes) \in Nat
  PROVE  Beside(t, AttributeWrites(t, bytes))
<1> DEFINE v == IoRead(t, StatusPort).s
           seq == [n \in 1..Len(bytes) |-> Out(AcPort, bytes[n])]
           w == Accesses(v, seq)
           u == AttributeWrites(t, bytes)
<1>1. u = IoWrite(w, AcPort, 32)
  BY DEF AttributeWrites
<1>2. Beside(t, v) /\ Screen(v)
  BY BesidePorts DEF Beside
<1>3. /\ DOMAIN seq = 1..Len(bytes) /\ \A i \in 1..Len(bytes) : seq[i] = Out(AcPort, bytes[i])
      /\ seq \in [1..Len(bytes) -> {seq[i] : i \in 1..Len(bytes)}]
  OBVIOUS
<1> HIDE DEF v, seq
<1>4. \A i \in 1..Len(bytes) : Access(seq[i]) /\ Quiet(seq[i])
  BY <1>3, ColorPorts DEF Access, Quiet, Out, Writable
<1>5. Beside(v, w) /\ Screen(w)
  BY <1>2, <1>3, <1>4, BesideAccesses DEF Beside
<1> HIDE DEF w, u
<1>6. Beside(w, u)
  BY <1>1, <1>5, ColorPorts, BesidePorts
<1>7. Beside(t, u)
  BY <1>2, <1>5, <1>6, BesideBoth
<1> QED BY <1>7 DEF u

\* Blinking or bright backgrounds.
LEMMA SetBlinkingIs ==
  ASSUME NEW t, Screen(t), NEW on
  PROVE  Beside(t, SetBlinking(t, on))
<1> DEFINE v == IoRead(t, StatusPort).s
           ready == IoWrite(v, AcPort, AcModeControl)
           old   == IoRead(ready, AcRead).x
           new   == old - 8 * Bit(old, 3) + (IF on THEN 8 ELSE 0)
           w == IoWrite(ready, AcPort, new)
           u == SetBlinking(t, on)
<1>1. u = IoWrite(w, AcPort, 32)
  BY DEF SetBlinking
<1>2. Beside(t, v) /\ Screen(v)
  BY BesidePorts DEF Beside
<1> HIDE DEF v
<1>3. Beside(v, ready) /\ Screen(ready)
  BY <1>2, ColorPorts, BesidePorts DEF Beside
<1> HIDE DEF ready, new
<1>4. Beside(ready, w) /\ Screen(w)
  BY <1>3, ColorPorts, BesidePorts DEF Beside
<1> HIDE DEF w, u
<1>5. Beside(w, u)
  BY <1>1, <1>4, ColorPorts, BesidePorts
<1>6. Beside(t, w)
  BY <1>2, <1>3, <1>4, BesideBoth
<1>7. Beside(t, u)
  BY <1>5, <1>6, BesideBoth
<1> QED BY <1>7 DEF u

\* A block of colours, written ...
LEMMA SetDacBlockIs ==
  ASSUME NEW t, Screen(t), NEW first, NEW rgbs, Len(rgbs) \in Nat
  PROVE  Beside(t, SetDacBlock(t, first, rgbs))
<1> DEFINE index(n) == (n - 1) \div 4
           part(n)  == (n - 1) % 4
           out(n) == IF part(n) = 0 THEN Out(DacWriteIndex, (first + index(n)) % 256)
                     ELSE Out(DacData, rgbs[index(n) + 1][part(n)] % 64)
           m == 4 * Len(rgbs)
           seq == [n \in 1..m |-> out(n)]
<1>1. SetDacBlock(t, first, rgbs) = Accesses(t, seq)
  BY DEF SetDacBlock
<1>2. \A i : Access(out(i)) /\ Quiet(out(i))
  BY ColorPorts DEF Access, Quiet, Out, Writable
<1>3. m \in Nat
  OBVIOUS
<1> HIDE DEF out, m
<1>4. /\ DOMAIN seq = 1..m /\ \A i \in 1..m : seq[i] = out(i)
      /\ seq \in [1..m -> {seq[i] : i \in 1..m}]
  OBVIOUS
<1> HIDE DEF seq
<1>5. \A i \in 1..m : Access(seq[i]) /\ Quiet(seq[i])
  BY <1>2, <1>4
<1> QED BY <1>1, <1>3, <1>4, <1>5, BesideAccesses

\* ... and read.
LEMMA DacReadsIs ==
  ASSUME NEW t, Screen(t), NEW first, NEW count \in Nat
  PROVE  Beside(t, DacReads(t, first, count))
<1> DEFINE v == IoWrite(t, DacReadIndex, first)
           w == Replied(v, <<>>)
           m == 3 * count
           seq == [n \in 1..m |-> In(DacData)]
           u == DacReads(t, first, count)
<1>1. u = Accesses(w, seq)
  BY DEF DacReads
<1>2. Beside(t, v) /\ Screen(v)
  BY ColorPorts, BesidePorts DEF Beside
<1> HIDE DEF v
<1>3. Beside(v, w) /\ Screen(w)
  BY <1>2, BesideReply DEF Beside
<1>4. m \in Nat
  OBVIOUS
<1> HIDE DEF w, m, u
<1>5. /\ DOMAIN seq = 1..m /\ \A i \in 1..m : seq[i] = In(DacData)
      /\ seq \in [1..m -> {In(DacData)}]
  OBVIOUS
<1> HIDE DEF seq
<1>6. \A i \in 1..m : Access(seq[i]) /\ Quiet(seq[i])
  BY <1>5 DEF Access, Quiet, In
<1>7. Beside(w, u)
  BY <1>1, <1>3, <1>4, <1>5, <1>6, BesideAccesses
<1>8. Beside(t, u)
  BY <1>2, <1>3, <1>7, BesideBoth
<1> QED BY <1>8 DEF u

\* The page of colours.
LEMMA ColorPageIs ==
  ASSUME NEW t, Screen(t)
  PROVE  Beside(t, ColorPage(t))
<1> DEFINE v == IoRead(t, StatusPort).s
           modeAt  == IoWrite(v, AcPort, AcModeControl)
           x == IoRead(modeAt, StatusPort).s
           colorAt == IoWrite(x, AcPort, AcColorSelect)
           control == IoRead(modeAt, AcRead).x
           color   == IoRead(colorAt, AcRead).x
           y == IF control >= 128 THEN <<1, color % 16>> ELSE <<0, (color \div 4) % 4>>
           u == ColorPage(t)
<1>1. u = Replied(colorAt, y)
  BY DEF ColorPage
<1>2. Beside(t, v) /\ Screen(v)
  BY BesidePorts DEF Beside
<1> HIDE DEF v, y, u
<1>3. Beside(v, modeAt) /\ Screen(modeAt)
  BY <1>2, ColorPorts, BesidePorts DEF Beside
<1> HIDE DEF modeAt
<1>4. Beside(modeAt, x) /\ Screen(x)
  BY <1>3, BesidePorts DEF Beside
<1> HIDE DEF x
<1>5. Beside(x, colorAt) /\ Screen(colorAt)
  BY <1>4, ColorPorts, BesidePorts DEF Beside
<1> HIDE DEF colorAt
<1>6. Beside(colorAt, u)
  BY <1>1, <1>5, BesideReply
<1>7. Beside(t, modeAt) /\ Beside(modeAt, colorAt)
  BY <1>2, <1>3, <1>4, <1>5, BesideBoth
<1>8. Beside(t, u)
  BY <1>6, <1>7, BesideBoth
<1> QED BY <1>8 DEF u

-----------------------------------------------------------------------------
(* Requests. *)

\* What the fields of a request are, by its op.
LEMMA RequestIs ==
  ASSUME NEW r \in Requests
  PROVE  /\ r.op \in {"mode", "shape", "move", "page", "scroll", "put", "write", "colors", "pixel", "tty",
                      "palette", "dcc", "out", "in", "poke", "peek", "where", "read", "getmode", "font",
                      "info", "display", "state"}
         /\ r.op = "mode"  => r.mode \in 0..127 /\ r.clear \in BOOLEAN
         /\ r.op = "shape" => r.start \in Octet /\ r.end \in Octet
         /\ r.op = "move"  => r.page \in 0..7 /\ r.row \in Nat /\ r.col \in Nat
         /\ r.op = "page"  => r.page \in Octet
         /\ r.op = "scroll" => r.w \in Windows /\ r.attr \in Octet /\ r.down \in BOOLEAN
         /\ r.op = "put"   => r.ch \in Octet /\ r.attr \in Octet /\ r.count \in Nat
         /\ r.op = "write" => r.ch \in Octet /\ r.count \in Nat
         /\ r.op = "tty"   => r.ch \in Octet
         /\ r.op = "out"   => r.x \in Octet
         /\ r.op = "palette" => Len(r.table) \in Nat /\ r.x \in Nat
<1> DEFINE rest == [op: {"colors"}, palette: BOOLEAN, x: Octet]
                     \union [op: {"pixel"}, color: Octet, col: Nat, row: Nat]
                     \union [op: {"dcc"}, set: {Unset} \union Octet]
                     \union [op: {"in"}, port: Nat]
                     \union [op: {"poke"}, window: {"A000", "B000", "B800"}, at: 0..Plane-1, x: Octet]
                     \union [op: {"peek"}, window: {"A000", "B000", "B800"}, at: 0..Plane-1]
                     \union [op: {"where", "read", "getmode", "font", "info", "display", "state"}]
           text == [op: {"put"}, ch: Octet, attr: Octet, count: Nat]
                     \union [op: {"write"}, ch: Octet, count: Nat]
                     \union [op: {"tty"}, ch: Octet, fg: Octet]
                     \union [op: {"out"}, port: Nat, x: Octet]
           colors == [op: {"palette"}, al: Octet \ {\h10, \h12}, reg: Octet, x: Octet, table: Seq(Octet)]
                       \union [op: {"palette"}, al: {\h10, \h12}, reg: Octet, x: Octet,
                               table: Seq(Octet \X Octet \X Octet)]
           modes == [op: {"mode"}, mode: 0..127, clear: BOOLEAN]
                      \union [op: {"shape"}, start: Octet, end: Octet]
                      \union [op: {"move"}, page: 0..7, row: Octet, col: Octet]
                      \union [op: {"page"}, page: Octet]
                      \union [op: {"scroll"}, w: Windows, attr: Octet, down: BOOLEAN]
<1>0. Octet \subseteq Nat
  BY DEF Octet
<1>1. r \in rest \union text \union colors \union modes
  BY DEF Requests
<1>2. CASE r \in rest
  <2>1. r.op \in {"colors", "pixel", "dcc", "in", "poke", "peek", "where", "read", "getmode", "font",
                  "info", "display", "state"}
    BY <1>2
  <2> QED BY <2>1
<1>3. CASE r \in text
  <2>1. \/ r.op = "put" /\ r.ch \in Octet /\ r.attr \in Octet /\ r.count \in Nat
        \/ r.op = "write" /\ r.ch \in Octet /\ r.count \in Nat
        \/ r.op = "tty" /\ r.ch \in Octet
        \/ r.op = "out" /\ r.x \in Octet
    BY <1>3
  <2> QED BY <2>1
<1>4. CASE r \in colors
  <2>1. r.op = "palette" /\ r.x \in Octet /\ (r.table \in Seq(Octet) \/ r.table \in Seq(Octet \X Octet \X Octet))
    BY <1>4
  <2>2. Len(r.table) \in Nat
    BY <2>1, LenProperties
  <2>3. r.op = "palette" /\ r.x \in Nat
    BY <1>0, <2>1
  <2> QED BY <2>2, <2>3
<1>5. CASE r \in modes
  <2>1. \/ r.op = "mode" /\ r.mode \in 0..127 /\ r.clear \in BOOLEAN
        \/ r.op = "shape" /\ r.start \in Octet /\ r.end \in Octet
        \/ r.op = "move" /\ r.page \in 0..7 /\ r.row \in Octet /\ r.col \in Octet
        \/ r.op = "page" /\ r.page \in Octet
        \/ r.op = "scroll" /\ r.w \in Windows /\ r.attr \in Octet /\ r.down \in BOOLEAN
    BY <1>5
  <2>2. r.op = "move" => r.page \in 0..7 /\ r.row \in Nat /\ r.col \in Nat
    BY <1>0, <2>1
  <2> QED BY <2>1, <2>2
<1> QED BY <1>1, <1>2, <1>3, <1>4, <1>5

\* AH=10h
LEMMA PaletteRegistersIs ==
  ASSUME NEW t, Screen(t), NEW r, Len(r.table) \in Nat, r.x \in Nat
  PROVE  PaletteRegisters(t, r) = t \/ Beside(t, PaletteRegisters(t, r))
<1> DEFINE a == AttributeWrites(t, <<r.reg, r.x>>)
           b == AttributeWrites(t, <<17, r.x>>)
           c == AttributeWrites(t, WithIndices(r.table))
           d == SetBlinking(t, r.x # 0)
           e == SetDacBlock(t, r.reg, r.table)
           f == DacReads(t, r.reg, r.x)
           g == ColorPage(t)
           u == PaletteRegisters(t, r)
<1>1. u = IF ~IsEgaVga(t) THEN t ELSE
          CASE r.al = 0 -> a [] r.al = 1 -> b [] r.al = 2 -> c [] r.al = 3 -> d
            [] OTHER -> IF t.type = "EGA" THEN t ELSE
                 CASE r.al \in {\h10, \h12} -> e [] r.al \in {\h15, \h17} -> f [] r.al = \h1A -> g
                   [] OTHER -> t
  BY DEF PaletteRegisters
<1>2. Beside(t, a) /\ Beside(t, b)
  <2>1. Len(<<r.reg, r.x>>) \in Nat /\ Len(<<17, r.x>>) \in Nat
    OBVIOUS
  <2> QED BY <2>1, AttributeWritesIs
<1>3. Beside(t, c)
  <2> DEFINE seq == WithIndices(r.table)
  <2>1. seq \in [1..34 -> {seq[n] : n \in 1..34}]
    BY DEF WithIndices
  <2> HIDE DEF seq
  <2>2. Len(seq) = 34
    BY <2>1, LengthIs
  <2>3. Len(seq) \in Nat
    BY <2>2
  <2> QED BY <2>3, AttributeWritesIs DEF seq
<1>4. Beside(t, d) /\ Beside(t, e) /\ Beside(t, f) /\ Beside(t, g)
  BY SetBlinkingIs, SetDacBlockIs, DacReadsIs, ColorPageIs
<1> HIDE DEF a, b, c, d, e, f, g, u
<1>5. u \in {t, a, b, c, d, e, f, g}
  BY <1>1
<1> QED BY <1>2, <1>3, <1>4, <1>5 DEF u

\* The questions, and the display combination that a program may set.
LEMMA QuestionsAre ==
  ASSUME NEW t, Screen(t), NEW set
  PROVE  /\ Beside(t, GetCursorPosition(t)) /\ Beside(t, ReadCharAttr(t)) /\ Beside(t, GetVideoMode(t))
         /\ Beside(t, FontInfo(t))
         /\ GetEgaInfo(t) = t \/ Beside(t, GetEgaInfo(t))
         /\ PhysicalDisplay(t) = t \/ Beside(t, PhysicalDisplay(t))
         /\ StateInformation(t) = t \/ Beside(t, StateInformation(t))
<1>1. \A y : Beside(t, Replied(t, y))
  BY BesideReply
<1>2. Beside(t, GetCursorPosition(t)) /\ Beside(t, ReadCharAttr(t))
  BY <1>1 DEF GetCursorPosition, ReadCharAttr
<1>3. Beside(t, GetVideoMode(t)) /\ Beside(t, FontInfo(t))
  BY <1>1 DEF GetVideoMode, FontInfo
<1>4. GetEgaInfo(t) = t \/ Beside(t, GetEgaInfo(t))
  BY <1>1 DEF GetEgaInfo
<1>5. PhysicalDisplay(t) = t \/ Beside(t, PhysicalDisplay(t))
  BY <1>1 DEF PhysicalDisplay
<1>6. StateInformation(t) = t \/ Beside(t, StateInformation(t))
  BY <1>1 DEF StateInformation
<1> QED BY <1>2, <1>3, <1>4, <1>5, <1>6

\* AH=1Ah
LEMMA DisplayCombinationIs ==
  ASSUME NEW t, Screen(t), NEW set
  PROVE  Became(t, DisplayCombination(t, set)) /\ Unseen(t, DisplayCombination(t, set))
<1> DEFINE u == DisplayCombination(t, set)
           read == Replied(t, <<\h1A>> \o t.bda.dcc)
           dcc == <<set, 0>>
           a == [t.bda EXCEPT !.dcc = dcc]
           v == [t EXCEPT !.bda = a]
           written == Replied(v, <<\h1A>>)
<1>1. u = CASE t.type # "VGA" -> t [] t.type = "VGA" /\ set = Unset -> read [] OTHER -> written
  BY DEF DisplayCombination
<1>2. Beside(t, read)
  BY BesideReply
<1>3. /\ DOMAIN a = DOMAIN t.bda /\ a.mode = t.bda.mode /\ a.cols = t.bda.cols /\ a.rows = t.bda.rows
      /\ a.page = t.bda.page /\ a.cursors = t.bda.cursors /\ a.crtc = t.bda.crtc
      /\ a.page_size = t.bda.page_size /\ v = [t EXCEPT !.bda = a]
  <2>1. {"mode", "cols", "rows", "page", "cursors", "crtc", "page_size"} \subseteq DOMAIN t.bda
    BY DEF Screen, BdaOK
  <2> HIDE DEF dcc
  <2> QED BY <2>1
<1> HIDE DEF read, a, v
<1>4. Became(t, v) /\ Unseen(t, v) /\ Screen(v)
  BY <1>3, AreaBeside DEF Became
<1>5. Beside(v, written)
  BY <1>4, BesideReply
<1> HIDE DEF u, written
<1>6. Became(v, written) /\ Unseen(v, written)
  BY <1>4, <1>5, BesideUnseen
<1>7. /\ Became(t, written) /\ Unseen(t, written) /\ Became(t, read) /\ Unseen(t, read)
      /\ Became(t, t) /\ Unseen(t, t)
  BY <1>2, <1>4, <1>6, BecameBoth, UnseenBoth, BesideUnseen, UnseenItself
<1>8. u \in {t, read, written}
  BY <1>1
<1> QED BY <1>7, <1>8 DEF u

\* Every request leaves a screen that announces what it changed, and only a mode
\* set leaves the mode.
LEMMA ServedIs ==
  ASSUME NEW t, Screen(t), NEW r \in Requests
  PROVE  /\ Became(t, Served(t, r)) /\ Screen(Served(t, r))
         /\ r.op # "mode" => Served(t, r).bda.mode = t.bda.mode
<1> DEFINE u == Served(t, r)
<1> SUFFICES Stayed(t, u) \/ (r.op = "mode" /\ Became(t, u))
  BY DEF Stayed, Became
<1> HIDE DEF u
<1>0. Stayed(t, t) /\ \A v : Became(t, v) /\ Unseen(t, v) => Stayed(t, v)
  BY UnseenItself DEF Stayed, Unseen
<1>1. CASE r.op = "mode"
  <2> DEFINE mode == r.mode
             clear == r.clear
  <2>1. u = SetVideoMode(t, mode, clear)
    BY <1>1 DEF Served, u
  <2> HIDE DEF mode, clear
  <2> QED BY <1>1, <2>1, SetVideoModeIs
<1>2. CASE r.op \in {"shape", "move", "page"}
  <2>1. CASE r.op = "shape"
    <3>1. u = SetCursorShape10(t, r.start, r.end) /\ r.start \in Octet /\ r.end \in Octet
      BY <2>1, RequestIs DEF Served, u
    <3> QED BY <1>0, <3>1, SetCursorShape10Is
  <2>2. CASE r.op = "move"
    <3>1. u = SetCursorPos(t, r.page, r.row, r.col) /\ r.page \in 0..7 /\ r.row \in Nat /\ r.col \in Nat
      BY <2>2, RequestIs DEF Served, u
    <3> QED BY <3>1, CursorStays
  <2>3. CASE r.op = "page"
    <3>1. u = SelectActivePage(t, r.page) /\ r.page \in Octet
      BY <2>3, RequestIs DEF Served, u
    <3>2. Became(t, u) /\ Paged(t, u, r.page)
      BY <3>1, SelectActivePageIs
    <3> QED BY <3>2 DEF Stayed, Paged
  <2> QED BY <1>2, <2>1, <2>2, <2>3
<1>3. CASE r.op \in {"scroll", "put", "write", "pixel", "tty"}
  <2>1. CASE r.op = "scroll"
    <3>1. u = ScrollWindow(t, r.w, r.attr, r.down) /\ r.w \in Windows
      BY <2>1, RequestIs DEF Served, u
    <3> QED BY <3>1, ScrollWindowIs, ReachedStays
  <2>2. CASE r.op = "put"
    <3>1. u = WriteCharAttr(t, r.ch, r.attr, r.count) /\ r.count \in Nat
      BY <2>2, RequestIs DEF Served, u
    <3>2. u = WriteGlyphs(t, r.ch, r.attr, r.count) \/ u = WriteText(t, r.ch, r.attr, r.count)
      BY <3>1 DEF WriteCharAttr
    <3>3. Reached(t, u)
      BY <3>1, <3>2, WriteGlyphsIs, WriteTextIs
    <3> QED BY <3>3, ReachedStays
  <2>3. CASE r.op = "write"
    <3>1. u = WriteText(t, r.ch, Unset, r.count)
      BY <2>3 DEF Served, u
    <3> QED BY <3>1, WriteTextIs, ReachedStays
  <2>4. CASE r.op = "pixel"
    <3>1. u = WritePixel(t, r.color, r.col, r.row)
      BY <2>4 DEF Served, u
    <3> QED BY <3>1, WritePixelIs, ReachedStays
  <2>5. CASE r.op = "tty"
    <3>1. u = Teletype(t, r.ch, r.fg)
      BY <2>5 DEF Served, u
    <3> QED BY <3>1, TeletypeIs
  <2> QED BY <1>3, <2>1, <2>2, <2>3, <2>4, <2>5
<1>4. CASE r.op \in {"colors", "palette", "dcc"}
  <2>1. CASE r.op = "colors"
    <3>1. u = SetColors(t, r.palette, r.x)
      BY <2>1 DEF Served, u
    <3> QED BY <1>0, <3>1, SetColorsIs
  <2>2. CASE r.op = "palette"
    <3>1. u = PaletteRegisters(t, r) /\ Len(r.table) \in Nat /\ r.x \in Nat
      BY <2>2, RequestIs DEF Served, u
    <3> QED BY <1>0, <3>1, PaletteRegistersIs, BesideUnseen
  <2>3. CASE r.op = "dcc"
    <3>1. u = DisplayCombination(t, r.set)
      BY <2>3 DEF Served, u
    <3> QED BY <1>0, <3>1, DisplayCombinationIs
  <2> QED BY <1>4, <2>1, <2>2, <2>3
<1>5. CASE r.op \in {"where", "read", "getmode", "font", "info", "display", "state"}
  <2>1. u \in {GetCursorPosition(t), ReadCharAttr(t), GetVideoMode(t), FontInfo(t), GetEgaInfo(t),
               PhysicalDisplay(t), StateInformation(t)}
    BY <1>5 DEF Served, u
  <2>2. u = t \/ Beside(t, u)
    BY <2>1, QuestionsAre
  <2> QED BY <1>0, <2>2, BesideUnseen
<1>6. CASE r.op \in {"out", "in", "poke", "peek"}
  <2>1. u = Accessed(t, r)
    BY <1>6 DEF Served, u
  <2>2. r.op = "out" => r.x \in Octet
    BY RequestIs
  <2>3. r.op = "out" => r.x \in Nat
    BY <2>2 DEF Octet
  <2>4. Access(r)
    BY <1>6, <2>3 DEF Access, Writable
  <2> QED BY <2>1, <2>4, AccessedIs, ReachedStays
<1>7. r.op \in {"mode", "shape", "move", "page", "scroll", "put", "write", "colors", "pixel", "tty",
                "palette", "dcc", "out", "in", "poke", "peek", "where", "read", "getmode", "font",
                "info", "display", "state"}
  BY RequestIs
<1> QED BY <1>1, <1>2, <1>3, <1>4, <1>5, <1>6, <1>7

-----------------------------------------------------------------------------
(* The window shows the screen. *)

\* A screen after a reset.
LEMMA FreshIs ==
  ASSUME NEW type \in Types, NEW mem
  PROVE  /\ Screen(Fresh(type, mem)) /\ Fresh(type, mem).bda = BdaReset(type)
         /\ Fresh(type, mem).b.vram = BufferReset(mem).vram /\ Fresh(type, mem).b.cursor = 0
         /\ BdaOK(BdaReset(type), type)
<1> DEFINE t == Fresh(type, mem)
           b == BufferReset(mem)
           a == BdaReset(type)
<1>1. BdaOK(a, type)
  <2> DEFINE dcc == <<CASE type = "MDA" -> 1 [] type = "HGC" -> 5 [] type = "CGA" -> 2
                        [] type = "EGA" -> 4 [] type = "VGA" -> 8, 0>>
             size == 2 * ScreenRows * Wide
  <2>1. ScreenRows - 1 \in Nat /\ size \in Nat
    BY SizesAssumption
  <2>2. a = [mode |-> 3, cols |-> Wide, rows |-> ScreenRows - 1, page_size |-> size,
             page_offset |-> 0, page |-> 0, cursors |-> [p \in 0..7 |-> <<0, 0>>],
             start_line |-> DefaultCursorStart, end_line |-> DefaultCursorEnd,
             crtc |-> IF type \in {"MDA", "HGC"} THEN MonoIndex ELSE CrtcIndex,
             palette |-> 0, height |-> TextCell, dcc |-> dcc]
    BY DEF BdaReset
  <2> HIDE DEF dcc, size, a
  <2>3. /\ {"mode", "cols", "rows", "page", "cursors", "crtc", "page_size"} \subseteq DOMAIN a
        /\ a.mode = 3 /\ a.cols = Wide /\ a.rows = ScreenRows - 1 /\ a.page_size = size
        /\ a.page = 0 /\ a.cursors = [p \in 0..7 |-> <<0, 0>>]
        /\ a.crtc = IF type \in {"MDA", "HGC"} THEN MonoIndex ELSE CrtcIndex
    BY <2>2
  <2>4. 3 \in KnownModes
    BY DEF KnownModes
  <2> QED BY <2>1, <2>3, <2>4 DEF BdaOK
<1>2. /\ DOMAIN b.vram = Memory /\ b.cursor = 0
      /\ {"dirty", "vram", "cursor"} \subseteq DOMAIN b /\ Looked \subseteq DOMAIN b
  BY DEF BufferReset, Looked
<1>3. TextBytes \subseteq Memory
  BY SizesAssumption DEF TextBytes, Memory
<1> DEFINE d == IF type = "EGA" THEN CardDac(type, b.dac) ELSE b.dac
           c == [b EXCEPT !.dirty = type = "EGA", !.dac = d]
           k == CardReset(type)
<1>4. Wiped(type, mem).b = c /\ Wiped(type, mem).k = k
  BY DEF Wiped
<1>5. "io_register" \in DOMAIN k
  BY DEF CardReset
<1>6. t = [type |-> type, k |-> k, b |-> c, bda |-> a, reply |-> <<>>]
  BY <1>4 DEF Fresh
<1>7. (type = "EGA") \in BOOLEAN
  OBVIOUS
<1> HIDE DEF a, b, k, t, d
<1>8. BufferOK(c) /\ c.vram = b.vram /\ c.cursor = 0
  <2> DEFINE dirty == type = "EGA"
  <2>1. dirty \in BOOLEAN
    OBVIOUS
  <2> HIDE DEF dirty
  <2> QED BY <1>2, <1>3, <2>1 DEF BufferOK
<1> HIDE DEF c
<1>9. Screen(t)
  BY <1>1, <1>5, <1>6, <1>8 DEF Screen
<1> QED BY <1>1, <1>6, <1>8, <1>9 DEF t, a, b

\* Requests one after another.
AskRun(f, t, requests, n) ==
  f = [i \in 0..n |-> IF i = 0 THEN t ELSE Served(f[i-1], requests[i])]

\* The screens that a program's requests go through.
LEMMA AskRunExists ==
  ASSUME NEW t, NEW requests, NEW n \in Nat
  PROVE  \E f : AskRun(f, t, requests, n)
<1> DEFINE P == {k \in Nat : \E f : AskRun(f, t, requests, k)}
<1>1. 0 \in P
  <2> DEFINE f == [i \in 0..0 |-> t]
  <2>1. AskRun(f, t, requests, 0)
    BY DEF AskRun
  <2> HIDE DEF f
  <2> QED BY <2>1
<1>2. ASSUME NEW k \in P PROVE k + 1 \in P
  <2>1. PICK f : AskRun(f, t, requests, k)
    OBVIOUS
  <2> DEFINE g == [i \in 0..k+1 |-> IF i = 0 THEN t ELSE Served(f[i-1], requests[i])]
  <2>2. \A i \in 0..k : f[i] = IF i = 0 THEN t ELSE Served(f[i-1], requests[i])
    BY <2>1 DEF AskRun
  <2>3. \A i \in 0..k : g[i] = f[i]
    BY <2>2
  <2>4. \A i \in 0..k+1 : i # 0 => i - 1 \in 0..k
    OBVIOUS
  <2>5. g = [i \in 0..k+1 |-> IF i = 0 THEN t ELSE Served(g[i-1], requests[i])]
    BY <2>3, <2>4
  <2> HIDE DEF g
  <2>6. AskRun(g, t, requests, k + 1)
    BY <2>5 DEF AskRun
  <2> QED BY <2>6
<1>3. P = Nat
  <2> HIDE DEF P
  <2> QED BY <1>1, <1>2, Induction DEF P
<1> QED BY <1>3

\* What a program has done before leaves a screen.
LEMMA AsksIs ==
  ASSUME NEW t, Screen(t), NEW requests \in Seq(Requests)
  PROVE  Screen(Asks(t, requests))
<1> DEFINE n == Len(requests)
           f == CHOOSE f : AskRun(f, t, requests, n)
<1>1. n \in Nat /\ \A i \in 1..n : requests[i] \in Requests
  BY LenProperties, ElementOfSeq
<1>2. Asks(t, requests) = f[n]
  BY DEF Asks, AskRun
<1>3. AskRun(f, t, requests, n)
  <2> HIDE DEF n
  <2> QED BY <1>1, AskRunExists
<1> HIDE DEF f, n
<1>4. \A i \in 0..n : f[i] = IF i = 0 THEN t ELSE Served(f[i-1], requests[i])
  BY <1>3 DEF AskRun
<1> DEFINE S == {i \in Nat : i <= n => Screen(f[i])}
<1>5. 0 \in S
  BY <1>1, <1>4
<1>6. ASSUME NEW i \in S PROVE i + 1 \in S
  <2> SUFFICES ASSUME i + 1 <= n PROVE Screen(f[i+1])
    OBVIOUS
  <2>1. i + 1 \in 0..n /\ i + 1 \in 1..n /\ i + 1 # 0 /\ (i + 1) - 1 = i /\ i <= n
    BY <1>1
  <2>2. Screen(f[i])
    BY <2>1
  <2>3. f[i+1] = Served(f[i], requests[i+1]) /\ requests[i+1] \in Requests
    BY <1>1, <1>4, <2>1
  <2> QED BY <2>2, <2>3, ServedIs
<1>7. S = Nat
  <2> HIDE DEF S
  <2> QED BY <1>5, <1>6, Induction DEF S
<1>8. Screen(f[n])
  <2>1. n \in S
    BY <1>1, <1>7
  <2> QED BY <1>1, <2>1
<1> QED BY <1>2, <1>8

\* What a refresh and a request do to the screen besides.
LEMMA CleanIs ==
  ASSUME NEW t, Screen(t)
  PROVE  /\ Screen([t EXCEPT !.b.dirty = FALSE]) /\ Unseen(t, [t EXCEPT !.b.dirty = FALSE])
         /\ Screen([t EXCEPT !.reply = <<>>]) /\ Unseen(t, [t EXCEPT !.reply = <<>>])
         /\ [t EXCEPT !.reply = <<>>].b = t.b
<1>1. /\ {"type", "b", "k", "bda", "reply"} \subseteq DOMAIN t /\ t.type \in Types
      /\ BufferOK(t.b) /\ BdaOK(t.bda, t.type) /\ "io_register" \in DOMAIN t.k
  BY DEF Screen
<1>2. Screen([t EXCEPT !.reply = <<>>]) /\ Unseen(t, [t EXCEPT !.reply = <<>>])
      /\ [t EXCEPT !.reply = <<>>].b = t.b
  BY <1>1 DEF Screen, Unseen, SameText
<1> DEFINE c == [t.b EXCEPT !.dirty = FALSE]
           u == [t EXCEPT !.b.dirty = FALSE]
<1>3. BufferOK(c) /\ SameText(t.b, c)
  BY <1>1 DEF BufferOK, SameText
<1>4. u = [t EXCEPT !.b = c]
  OBVIOUS
<1> HIDE DEF c, u
<1>5. Screen(u) /\ Unseen(t, u)
  BY <1>1, <1>3, <1>4 DEF Screen, Unseen
<1> QED BY <1>2, <1>5 DEF u

\* The mark is not part of the picture.
LEMMA PictureCleaned ==
  ASSUME NEW b, BufferOK(b), NEW c, c = [b EXCEPT !.dirty = FALSE]
  PROVE  Picture(c) = Picture(b)
<1>1. /\ c.mode = b.mode /\ c.columns = b.columns /\ c.vram = b.vram /\ c.bg = b.bg
      /\ c.intensity = b.intensity /\ c.palette = b.palette /\ c.composite = b.composite
      /\ c.ac = b.ac /\ c.ac_programmed = b.ac_programmed /\ c.dac = b.dac /\ c.blink = b.blink
      /\ c.cursor = b.cursor /\ c.cursor_start = b.cursor_start /\ c.cursor_end = b.cursor_end
      /\ c.visible = b.visible /\ c.start = b.start /\ c.max_scan_line = b.max_scan_line
      /\ c.rows = b.rows /\ c.offset = b.offset
  BY SMTT(60) DEF BufferOK, Looked
<1>2. FourColorPicture(c) = FourColorPicture(b)
  <2>1. ColorMap(c) = ColorMap(b)
    BY <1>1 DEF ColorMap
  <2> DEFINE dot(x, p) == (x.vram[Interleaved(p[2]) + p[1] \div 4] \div 2^(6 - 2 * (p[1] % 4))) % 4
             shade(x, d) == x.dac[IF x.ac_programmed THEN x.ac[d] ELSE ColorMap(x)[d + 1]]
  <2>2. \A p : dot(c, p) = dot(b, p)
    BY <1>1, Zenon
  <2>3. \A d : shade(c, d) = shade(b, d)
    BY <1>1, <2>1
  <2>4. \A x : FourColorPicture(x) = [p \in Dots(8 * Narrow, ScreenRows * Cell8) |-> shade(x, dot(x, p))]
    BY Zenon DEF FourColorPicture
  <2> HIDE DEF dot, shade
  <2>5. \A p : shade(c, dot(c, p)) = shade(b, dot(b, p))
    BY <2>2, <2>3
  <2> QED BY <2>4, <2>5
<1>3. CompositePicture(c) = CompositePicture(b) /\ TwoColorPicture(c) = TwoColorPicture(b)
  BY <1>1, SMTT(60) DEF CompositePicture, TwoColorPicture
<1>4. PlanarPicture(c) = PlanarPicture(b)
  BY <1>1 DEF PlanarPicture, LineBytes
<1>5. LinearPicture(c) = LinearPicture(b)
  BY <1>1 DEF LinearPicture
<1>6. CellHeight(c) = CellHeight(b) /\ RowsShown(c) = RowsShown(b) /\ Overridden(c) = Overridden(b)
  BY <1>1 DEF CellHeight, RowsShown, Overridden
<1>7. LineScale(c) = LineScale(b)
  BY <1>6 DEF LineScale
<1>8. \A attr : Foreground(c, attr) = Foreground(b, attr) /\ Background(c, attr) = Background(b, attr)
  BY <1>1 DEF Foreground, Background
<1>9. CursorShown(c) = CursorShown(b)
  <2> DEFINE at(x) == x.cursor \div x.columns
             in(x) == x.cursor % x.columns
             last(x) == IF x.cursor_end < CellHeight(x) THEN x.cursor_end ELSE CellHeight(x) - 1
             color(x) == Foreground(x, x.vram[2 * x.cursor + 1])
             seen(x) == x.visible /\ at(x) < ScreenRows /\ x.cursor_start <= last(x)
             mark(x) == <<at(x), in(x), x.cursor_start, last(x), color(x)>>
  <2>1. /\ seen(c) => CursorShown(c) = mark(c)
        /\ ~seen(c) => CursorShown(c) = <<>>
        /\ seen(b) => CursorShown(b) = mark(b)
        /\ ~seen(b) => CursorShown(b) = <<>>
    BY DEF CursorShown
  <2>2. at(c) = at(b) /\ in(c) = in(b) /\ last(c) = last(b) /\ color(c) = color(b)
    BY <1>1, <1>6, <1>8
  <2>3. seen(c) <=> seen(b)
    <3> HIDE DEF at, last
    <3> QED BY <1>1, <2>2
  <2>4. mark(c) = mark(b)
    <3> HIDE DEF at, in, last, color
    <3> QED BY <1>1, <2>2
  <2> HIDE DEF mark, seen
  <2> QED BY <2>1, <2>3, <2>4
<1>10. TextPicture(c) = TextPicture(b)
  <2> DEFINE cell(x, p) == LET i == 2 * (x.start + p[1] * x.columns + p[2]) IN
                           <<x.vram[i], Foreground(x, x.vram[i+1]), Background(x, x.vram[i+1])>>
             size(x) == <<x.columns, RowsShown(x), CellHeight(x), LineScale(x), Overridden(x)>>
             places(x) == (0..RowsShown(x)-1) \X (0..x.columns-1)
  <2>1. \A x : TextPicture(x) = [size |-> size(x), cells |-> [p \in places(x) |-> cell(x, p)],
                                 cursor |-> CursorShown(x)]
    BY DEF TextPicture
  <2>2. \A p : cell(c, p) = cell(b, p)
    BY <1>1, <1>8
  <2>3. places(c) = places(b)
    BY <1>1, <1>6
  <2>4. size(c) = size(b)
    BY <1>1, <1>6, <1>7
  <2> HIDE DEF cell, places, size
  <2>5. [p \in places(c) |-> cell(c, p)] = [p \in places(b) |-> cell(b, p)]
    BY <2>2, <2>3
  <2> QED BY <1>9, <2>1, <2>4, <2>5
<1> QED BY <1>1, <1>2, <1>3, <1>4, <1>5, <1>10 DEF Picture

\* The inductive invariant.
Inv == case \in Cases /\ Screen(s) /\ ScreenShown

\* A case begins with the picture in the window.
LEMMA InvInit == Init => Inv
<1> SUFFICES ASSUME Init PROVE Inv
  OBVIOUS
<1> DEFINE fresh == Fresh(case.type, [a \in Memory |-> 0])
           before == case.before
<1>1. /\ case \in Cases /\ s = Asks(fresh, before) /\ wiped = ~s.b.dirty
  BY DEF Init
<1>2. case.type \in Types /\ before \in Seq(Requests)
  BY <1>1, CasesAssumption DEF Types
<1>3. Screen(fresh)
  BY <1>2, FreshIs
<1> HIDE DEF fresh, before
<1>4. Screen(s)
  BY <1>1, <1>2, <1>3, AsksIs
<1> QED BY <1>1, <1>4 DEF Inv, ScreenShown

\* A step keeps the invariant: a request marks what it changes, a refresh
\* draws what is marked, a reset starts with a window of its own.
LEMMA InvNext == Inv /\ [Next]_vars => Inv'
<1> SUFFICES ASSUME Inv, [Next]_vars PROVE Inv'
  OBVIOUS
<1>0. case \in Cases /\ Screen(s) /\ ScreenShown
  BY DEF Inv
<1>1. ASSUME NEW r \in case.ops, Ask(r) PROVE Inv'
  <2> DEFINE t == [s EXCEPT !.reply = <<>>]
  <2>1. s' = Served(t, r) /\ case' = case /\ shown' = shown /\ wiped' = wiped
    BY <1>1 DEF Ask
  <2>2. r \in Requests
    BY <1>0, CasesAssumption
  <2>3. Screen(t) /\ t.b = s.b
    BY <1>0, CleanIs
  <2> HIDE DEF t
  <2>4. Became(t, s') /\ Screen(s')
    BY <2>1, <2>2, <2>3, ServedIs
  <2>5. s'.b.dirty \/ s'.b = s.b
    BY <2>3, <2>4 DEF Became, Announced
  <2>6. ScreenShown'
    BY <1>0, <2>1, <2>5 DEF ScreenShown
  <2> QED BY <1>0, <2>1, <2>4, <2>6 DEF Inv, Screen
<1>2. CASE Refresh
  <2>1. /\ shown' = Picture(s.b) /\ s' = [s EXCEPT !.b.dirty = FALSE] /\ case' = case
    BY <1>2 DEF Refresh
  <2>2. Screen(s')
    BY <1>0, <2>1, CleanIs
  <2>3. Picture(s'.b) = Picture(s.b)
    <3>1. s'.b = [s.b EXCEPT !.dirty = FALSE] /\ BufferOK(s.b)
      BY <1>0, <2>1 DEF Screen
    <3> QED BY <3>1, PictureCleaned
  <2> QED BY <1>0, <2>1, <2>2, <2>3 DEF Inv, ScreenShown
<1>3. CASE Restart
  <2>1. s' = Fresh(s.type, s.b.vram) /\ wiped' = TRUE /\ case' = case
    BY <1>3 DEF Restart
  <2>2. Screen(s')
    BY <1>0, <2>1, FreshIs DEF Screen
  <2> QED BY <1>0, <2>1, <2>2 DEF Inv, ScreenShown
<1>4. CASE WarmRestart
  <2> DEFINE a == BdaReset(s.type)
             v == [s EXCEPT !.bda = a]
  <2>1. /\ s' = [v EXCEPT !.reply = <<>>]
        /\ case' = case /\ shown' = shown /\ wiped' = wiped
    BY <1>4 DEF WarmRestart
  <2>2. BdaOK(a, s.type)
    BY <1>0, FreshIs DEF Screen
  <2>3. v = [s EXCEPT !.bda = a]
    OBVIOUS
  <2> HIDE DEF a, v
  <2>4. Became(s, v) /\ v.b = s.b
    BY <1>0, <2>2, <2>3, AreaOnly
  <2>5. Screen(s') /\ s'.b = s.b
    BY <2>1, <2>4, CleanIs DEF Became
  <2> QED BY <1>0, <2>1, <2>5 DEF Inv, ScreenShown
<1>5. CASE UNCHANGED vars
  BY <1>0, <1>5 DEF Inv, vars, ScreenShown, Screen
<1> QED BY <1>1, <1>2, <1>3, <1>4, <1>5 DEF Next

\* A change of the screen is never missed: as long as the buffer does not say
\* that it has changed, and no reset is still to be drawn, the window shows
\* the picture of the memory, the registers and the colours.  This is what the
\* front ends rely on when they draw only a buffer that is marked.
THEOREM WindowShowsTheScreen == Spec => []ScreenShown
<1>1. Inv => ScreenShown
  BY DEF Inv
<1> QED BY <1>1, InvInit, InvNext, PTL DEF Spec

-----------------------------------------------------------------------------
(* The screen of TextScreen. *)

\* The cells of the text screen, and what the memory holds of them.
TextCells == 0..ScreenRows * Wide - 1

CellsOf(t) == [n \in TextCells |-> <<t.b.vram[2*n], t.b.vram[2*n+1]>>]

\* A text screen by its fields, that of t, and the one TextScreen is given.
TextShown(mono, cols, cells, cursors, page, mark) ==
  [on |-> TRUE, mono |-> mono, cols |-> cols, cells |-> cells, cursors |-> cursors, page |-> page,
   mark |-> mark]

TextOf(t) ==
  TextShown(t.bda.mode = 7, t.bda.cols, CellsOf(t), t.bda.cursors, t.bda.page, t.b.cursor)

ViewOf(t) == IF t.bda.mode \in GraphicsModes THEN [on |-> FALSE] ELSE TextOf(t)

\* This is what TextScreen is given.
LEMMA ViewIs == TextView = ViewOf(s)
BY DEF TextView, ViewOf, TextOf, TextShown, CellsOf, TextCells

\* A text screen is told by its fields.
TextFields == {"on", "mono", "cols", "cells", "cursors", "page", "mark"}

\* Two text screens are the same if their fields are.
LEMMA FieldsTell ==
  ASSUME NEW x, x = [f \in TextFields |-> x[f]], x.on = TRUE
  PROVE  x = TextShown(x.mono, x.cols, x.cells, x.cursors, x.page, x.mark)
<1> DEFINE y == TextShown(x.mono, x.cols, x.cells, x.cursors, x.page, x.mark)
<1>1. y = [f \in TextFields |-> y[f]]
  BY DEF TextShown, TextFields
<1>2. /\ y.on = TRUE /\ y.mono = x.mono /\ y.cols = x.cols /\ y.cells = x.cells
      /\ y.cursors = x.cursors /\ y.page = x.page /\ y.mark = x.mark
  BY DEF TextShown
<1> HIDE DEF y
<1>3. \A f \in TextFields : x[f] = y[f]
  BY <1>2 DEF TextFields
<1>4. x = y
  BY <1>1, <1>3
<1> QED BY <1>4 DEF y

\* A text screen with other fields.
WithCells(x, cells) == [x EXCEPT !.cells = cells]
WithMark(x, cursors, mark) == [x EXCEPT !.cursors = cursors, !.mark = mark]
WithMode(x, mono, cols) == [x EXCEPT !.mono = mono, !.cols = cols]
WithPage(x, page, cursors) == [x EXCEPT !.page = page, !.cursors = cursors]

\* Its fields after each of these changes.
LEMMA WithCellsIs ==
  ASSUME NEW m, NEW cols, NEW cells, NEW cursors, NEW p, NEW mark, NEW c
  PROVE  WithCells(TextShown(m, cols, cells, cursors, p, mark), c)
           = TextShown(m, cols, c, cursors, p, mark)
<1> DEFINE x == TextShown(m, cols, cells, cursors, p, mark)
           y == WithCells(x, c)
<1>1. /\ DOMAIN x = TextFields /\ x.on = TRUE /\ x.mono = m /\ x.cols = cols /\ x.cells = cells
      /\ x.cursors = cursors /\ x.page = p /\ x.mark = mark
  BY DEF TextShown, TextFields
<1> HIDE DEF x
<1>2. /\ y = [n \in TextFields |-> y[n]] /\ y.on = TRUE /\ y.mono = m /\ y.cols = cols
      /\ y.cells = c /\ y.cursors = cursors /\ y.page = p /\ y.mark = mark
  BY <1>1 DEF WithCells, TextFields
<1> HIDE DEF y
<1>3. y = TextShown(m, cols, c, cursors, p, mark)
  BY <1>2, FieldsTell
<1> QED BY <1>3 DEF x, y

\* Cursors and mark.
LEMMA WithMarkIs ==
  ASSUME NEW m, NEW cols, NEW cells, NEW cursors, NEW p, NEW mark, NEW d, NEW e
  PROVE  WithMark(TextShown(m, cols, cells, cursors, p, mark), d, e)
           = TextShown(m, cols, cells, d, p, e)
<1> DEFINE x == TextShown(m, cols, cells, cursors, p, mark)
           y == WithMark(x, d, e)
<1>1. /\ DOMAIN x = TextFields /\ x.on = TRUE /\ x.mono = m /\ x.cols = cols /\ x.cells = cells
      /\ x.cursors = cursors /\ x.page = p /\ x.mark = mark
  BY DEF TextShown, TextFields
<1> HIDE DEF x
<1>2. /\ y = [n \in TextFields |-> y[n]] /\ y.on = TRUE /\ y.mono = m /\ y.cols = cols
      /\ y.cells = cells /\ y.cursors = d /\ y.page = p /\ y.mark = e
  BY <1>1 DEF WithMark, TextFields
<1> HIDE DEF y
<1>3. y = TextShown(m, cols, cells, d, p, e)
  BY <1>2, FieldsTell
<1> QED BY <1>3 DEF x, y

\* Mode.
LEMMA WithModeIs ==
  ASSUME NEW m, NEW cols, NEW cells, NEW cursors, NEW p, NEW mark, NEW d, NEW e
  PROVE  WithMode(TextShown(m, cols, cells, cursors, p, mark), d, e)
           = TextShown(d, e, cells, cursors, p, mark)
<1> DEFINE x == TextShown(m, cols, cells, cursors, p, mark)
           y == WithMode(x, d, e)
<1>1. /\ DOMAIN x = TextFields /\ x.on = TRUE /\ x.mono = m /\ x.cols = cols /\ x.cells = cells
      /\ x.cursors = cursors /\ x.page = p /\ x.mark = mark
  BY DEF TextShown, TextFields
<1> HIDE DEF x
<1>2. /\ y = [n \in TextFields |-> y[n]] /\ y.on = TRUE /\ y.mono = d /\ y.cols = e
      /\ y.cells = cells /\ y.cursors = cursors /\ y.page = p /\ y.mark = mark
  BY <1>1 DEF WithMode, TextFields
<1> HIDE DEF y
<1>3. y = TextShown(d, e, cells, cursors, p, mark)
  BY <1>2, FieldsTell
<1> QED BY <1>3 DEF x, y

\* Page and cursors.
LEMMA WithPageIs ==
  ASSUME NEW m, NEW cols, NEW cells, NEW cursors, NEW p, NEW mark, NEW d, NEW e
  PROVE  WithPage(TextShown(m, cols, cells, cursors, p, mark), d, e)
           = TextShown(m, cols, cells, e, d, mark)
<1> DEFINE x == TextShown(m, cols, cells, cursors, p, mark)
           y == WithPage(x, d, e)
<1>1. /\ DOMAIN x = TextFields /\ x.on = TRUE /\ x.mono = m /\ x.cols = cols /\ x.cells = cells
      /\ x.cursors = cursors /\ x.page = p /\ x.mark = mark
  BY DEF TextShown, TextFields
<1> HIDE DEF x
<1>2. /\ y = [n \in TextFields |-> y[n]] /\ y.on = TRUE /\ y.mono = m /\ y.cols = cols
      /\ y.cells = cells /\ y.cursors = e /\ y.page = d /\ y.mark = mark
  BY <1>1 DEF WithPage, TextFields
<1> HIDE DEF y
<1>3. y = TextShown(m, cols, cells, e, d, mark)
  BY <1>2, FieldsTell
<1> QED BY <1>3 DEF x, y

\* The cursors when one of them is set.
CursorsWith(cursors, page, row, col) == [cursors EXCEPT ![page] = <<row, col>>]

\* The operations of TextScreen, field by field.
LEMMA MovedIs ==
  ASSUME NEW m, NEW cols, NEW cells, NEW cursors, NEW p, NEW mark, NEW page, NEW row, NEW col
  PROVE  Terminal!Moved(TextShown(m, cols, cells, cursors, p, mark), page, row, col)
           = TextShown(m, cols, cells, CursorsWith(cursors, page, row, col), p,
                       MarkAfter(p, mark, cols, page, row, col))
<1> DEFINE x == TextShown(m, cols, cells, cursors, p, mark)
           new == CursorsWith(cursors, page, row, col)
           to == MarkAfter(p, mark, cols, page, row, col)
<1>1. x.cols = cols /\ x.cursors = cursors /\ x.page = p /\ x.mark = mark
  BY DEF TextShown
<1> HIDE DEF x
<1>2. Terminal!Moved(x, page, row, col)
        = WithMark(x, CursorsWith(x.cursors, page, row, col),
                   MarkAfter(x.page, x.mark, x.cols, page, row, col))
  BY DEF Terminal!Moved, Terminal!Place, Location, WithMark, CursorsWith, MarkAfter
<1>3. Terminal!Moved(x, page, row, col) = WithMark(x, new, to)
  BY <1>1, <1>2
<1> HIDE DEF new, to
<1> QED BY <1>3, WithMarkIs DEF x, new, to

\* The cells with one struck.
StruckCells(cells, cols, cursors, p, ch) ==
  [n \in TextCells |-> IF n = Location(cursors[p][1], cursors[p][2], cols)
                       THEN <<ch, cells[n][2]>> ELSE cells[n]]

\* One cell.
LEMMA StruckIs ==
  ASSUME NEW m, NEW cols, NEW cells, NEW cursors, NEW p, NEW mark, NEW ch
  PROVE  Terminal!Struck(TextShown(m, cols, cells, cursors, p, mark), ch)
           = TextShown(m, cols, StruckCells(cells, cols, cursors, p, ch), cursors, p, mark)
<1> DEFINE x == TextShown(m, cols, cells, cursors, p, mark)
           new == StruckCells(cells, cols, cursors, p, ch)
<1>1. x.cols = cols /\ x.cells = cells /\ x.cursors = cursors /\ x.page = p
  BY DEF TextShown
<1> HIDE DEF x
<1>2. Terminal!Struck(x, ch) = WithCells(x, StruckCells(x.cells, x.cols, x.cursors, x.page, ch))
  BY DEF Terminal!Struck, Terminal!Here, Terminal!Place, Terminal!All, Location, TextCells, StruckCells,
         WithCells
<1>3. Terminal!Struck(x, ch) = WithCells(x, new)
  BY <1>1, <1>2
<1> HIDE DEF new
<1> QED BY <1>3, WithCellsIs DEF x, new

\* The cells with a run of them filled.
FilledCells(cells, cols, cursors, p, ch, attr, count) ==
  [n \in TextCells |->
     IF /\ n \in Location(cursors[p][1], cursors[p][2], cols)
                   ..Location(cursors[p][1], cursors[p][2], cols) + count - 1
        /\ n < cols * ScreenRows
     THEN <<ch, IF attr < 0 THEN cells[n][2] ELSE attr>> ELSE cells[n]]

\* A run of cells.
LEMMA FilledIs ==
  ASSUME NEW m, NEW cols, NEW cells, NEW cursors, NEW p, NEW mark, NEW ch, NEW attr, NEW count
  PROVE  Terminal!Filled(TextShown(m, cols, cells, cursors, p, mark), ch, attr, count)
           = TextShown(m, cols, FilledCells(cells, cols, cursors, p, ch, attr, count), cursors, p, mark)
<1> DEFINE x == TextShown(m, cols, cells, cursors, p, mark)
           new == FilledCells(cells, cols, cursors, p, ch, attr, count)
<1>1. x.cols = cols /\ x.cells = cells /\ x.cursors = cursors /\ x.page = p
  BY DEF TextShown
<1> HIDE DEF x
<1>2. Terminal!Filled(x, ch, attr, count)
        = WithCells(x, FilledCells(x.cells, x.cols, x.cursors, x.page, ch, attr, count))
  BY DEF Terminal!Filled, Terminal!Here, Terminal!End, Terminal!Place, Terminal!All, Location,
         TextCells, FilledCells, WithCells
<1>3. Terminal!Filled(x, ch, attr, count) = WithCells(x, new)
  BY <1>1, <1>2
<1> HIDE DEF new
<1> QED BY <1>3, WithCellsIs DEF x, new

\* The cells with a window of them shifted.
ShiftedCells(cells, cols, w, attr, by) ==
  [n \in TextCells |->
     IF ~(/\ n < cols * ScreenRows
          /\ n \div cols \in w.top..w.bottom
          /\ n % cols \in w.left..w.right)
     THEN cells[n]
     ELSE IF w.lines # 0 /\ (n \div cols) + by \in w.top..w.bottom /\ (n \div cols) + by < ScreenRows
     THEN cells[n + by * cols] ELSE <<32, attr>>]

\* A window of cells.
LEMMA ShiftedIs ==
  ASSUME NEW m, NEW cols, NEW cells, NEW cursors, NEW p, NEW mark, NEW w, NEW attr, NEW by
  PROVE  Terminal!Shifted(TextShown(m, cols, cells, cursors, p, mark), w, attr, by)
           = TextShown(m, cols, ShiftedCells(cells, cols, w, attr, by), cursors, p, mark)
<1> DEFINE x == TextShown(m, cols, cells, cursors, p, mark)
           new == ShiftedCells(cells, cols, w, attr, by)
<1>1. x.cols = cols /\ x.cells = cells
  BY DEF TextShown
<1> HIDE DEF x
<1>2. Terminal!Shifted(x, w, attr, by) = WithCells(x, ShiftedCells(x.cells, x.cols, w, attr, by))
  BY DEF Terminal!Shifted, Terminal!End, Terminal!All, TextCells, ShiftedCells, WithCells
<1>3. Terminal!Shifted(x, w, attr, by) = WithCells(x, new)
  BY <1>1, <1>2
<1> HIDE DEF new
<1> QED BY <1>3, WithCellsIs DEF x, new

-----------------------------------------------------------------------------
(* The services are these operations. *)

\* A cursor that is set.
LEMMA CursorMoved ==
  ASSUME NEW t, Screen(t), NEW page \in 0..7, NEW row \in Nat, NEW col \in Nat
  PROVE  /\ TextOf(SetCursorPos(t, page, row, col)) = Terminal!Moved(TextOf(t), page, row, col)
         /\ SetCursorPos(t, page, row, col).bda.mode = t.bda.mode
<1> DEFINE u == SetCursorPos(t, page, row, col)
<1>1. u.b.vram = t.b.vram
  BY SetCursorPosIs
<1>2. u.bda = WithCursor(t.bda, page, row, col)
  BY SetCursorPosIs
<1>3. u.b.cursor = MarkAfter(t.bda.page, t.b.cursor, t.bda.cols, page, row, col)
  BY SetCursorPosIs
<1> HIDE DEF u
<1> DEFINE new == CursorsWith(t.bda.cursors, page, row, col)
           to == MarkAfter(t.bda.page, t.b.cursor, t.bda.cols, page, row, col)
           m == t.bda.mode = 7
           cells == CellsOf(t)
<1>4. {"mode", "cols", "page", "cursors"} \subseteq DOMAIN t.bda
  BY DEF Screen, BdaOK
<1>5. /\ u.bda.mode = t.bda.mode /\ u.bda.cols = t.bda.cols /\ u.bda.page = t.bda.page
      /\ u.bda.cursors = new /\ u.b.cursor = to
  BY <1>2, <1>3, <1>4 DEF WithCursor, CursorsWith
<1>6. CellsOf(u) = CellsOf(t)
  BY <1>1 DEF CellsOf
<1> HIDE DEF new, to
<1>7. TextOf(u) = TextShown(m, t.bda.cols, cells, new, t.bda.page, to)
  BY <1>5, <1>6 DEF TextOf
<1>8. TextOf(t) = TextShown(m, t.bda.cols, cells, t.bda.cursors, t.bda.page, t.b.cursor)
  BY DEF TextOf
<1> HIDE DEF m, cells
<1>9. Terminal!Moved(TextOf(t), page, row, col) = TextShown(m, t.bda.cols, cells, new, t.bda.page, to)
  BY <1>8, MovedIs DEF new, to
<1> QED BY <1>5, <1>7, <1>9 DEF u

\* The two bytes of a cell.
LEMMA CellBytes ==
  ASSUME NEW t, NEW n \in TextCells
  PROVE  n \in Nat /\ 2*n \in TextBytes /\ 2*n+1 \in TextBytes /\ 2*n < VramSize(t) /\ 2*n+1 < VramSize(t)
<1> DEFINE N == ScreenRows * Wide
<1>1. N \in Nat /\ 2 * ScreenRows * Wide = 2 * N /\ 2 * N <= 4 * Bank /\ 4 * Bank <= 4 * Plane
      /\ Bank \in Nat /\ Plane \in Nat
  BY SizesAssumption
<1>2. n \in 0..N-1
  BY DEF TextCells
<1> HIDE DEF N
<1>3. VramSize(t) \in {4 * Plane, 4 * Bank}
  BY DEF VramSize
<1> QED BY <1>1, <1>2, <1>3 DEF TextBytes

\* The place of the cursor, and of the cells after it.
LEMMA HereIs ==
  ASSUME NEW t, Screen(t)
  PROVE  /\ Location(t.bda.cursors[t.bda.page][1], t.bda.cursors[t.bda.page][2], t.bda.cols) \in Nat
         /\ \A n \in Int : CellAt(t, n)
              = 2 * (Location(t.bda.cursors[t.bda.page][1], t.bda.cursors[t.bda.page][2], t.bda.cols) + n)
<1> DEFINE row == Cursor(t)[1]
           col == Cursor(t)[2]
           cols == t.bda.cols
<1>1. row \in Nat /\ col \in Nat /\ cols \in Nat
  BY PlacesAreNumbers
<1>2. row = t.bda.cursors[t.bda.page][1] /\ col = t.bda.cursors[t.bda.page][2]
  BY DEF Cursor
<1>3. \A n : CellAt(t, n) = 2 * (row * cols + col + n)
  BY DEF CellAt
<1> HIDE DEF row, col, cols
<1>4. Location(row, col, cols) \in Nat /\ Location(row, col, cols) = row * cols + col
  BY <1>1 DEF Location
<1> QED BY <1>2, <1>3, <1>4 DEF cols

\* A character alone.
LEMMA CharacterStruck ==
  ASSUME NEW t, Screen(t), NEW ch
  PROVE  TextOf(WriteByte(t, CellAt(t, 0), ch)) = Terminal!Struck(TextOf(t), ch)
<1> DEFINE u == WriteByte(t, CellAt(t, 0), ch)
           cursors == t.bda.cursors
           p == t.bda.page
           cols == t.bda.cols
           here == Location(cursors[p][1], cursors[p][2], cols)
           struck == StruckCells(CellsOf(t), cols, cursors, p, ch)
<1>1. here \in Nat /\ CellAt(t, 0) = 2 * here
  BY HereIs
<1>2. u.bda = t.bda /\ u.b.cursor = t.b.cursor
  BY WriteByteIs DEF Reached
<1>3. \A a \in DOMAIN t.b.vram : u.b.vram[a] = IF a = CellAt(t, 0) /\ CellAt(t, 0) < VramSize(t) THEN ch
                                                ELSE t.b.vram[a]
  BY WriteByteIs
<1>4. TextBytes \subseteq DOMAIN t.b.vram
  BY DEF Screen, BufferOK
<1> HIDE DEF u, here
<1>5. ASSUME NEW n \in TextCells
      PROVE  <<u.b.vram[2*n], u.b.vram[2*n+1]>>
               = IF n = here THEN <<ch, t.b.vram[2*n+1]>> ELSE <<t.b.vram[2*n], t.b.vram[2*n+1]>>
  <2>1. n \in Nat /\ 2*n \in DOMAIN t.b.vram /\ 2*n+1 \in DOMAIN t.b.vram /\ 2*n < VramSize(t)
    BY <1>4, CellBytes
  <2>2. 2*n+1 # 2 * here /\ (2*n = 2*here <=> n = here)
    BY <1>1, <2>1
  <2>3. u.b.vram[2*n+1] = t.b.vram[2*n+1]
    BY <1>1, <1>3, <2>1, <2>2
  <2>4. u.b.vram[2*n] = IF n = here THEN ch ELSE t.b.vram[2*n]
    BY <1>1, <1>3, <2>1, <2>2
  <2> QED BY <2>3, <2>4
<1>6. struck = [n \in TextCells |-> IF n = here THEN <<ch, t.b.vram[2*n+1]>>
                                    ELSE <<t.b.vram[2*n], t.b.vram[2*n+1]>>]
  BY DEF StruckCells, CellsOf, here
<1>7. CellsOf(u) = struck
  BY <1>5, <1>6 DEF CellsOf
<1> DEFINE m == t.bda.mode = 7
           cells == CellsOf(t)
<1>8. TextOf(u) = TextShown(m, cols, CellsOf(u), cursors, p, t.b.cursor)
  BY <1>2 DEF TextOf
<1>9. TextOf(t) = TextShown(m, cols, cells, cursors, p, t.b.cursor)
  BY DEF TextOf
<1> HIDE DEF m, cells, struck
<1>10. Terminal!Struck(TextOf(t), ch) = TextShown(m, cols, struck, cursors, p, t.b.cursor)
  BY <1>9, StruckIs DEF struck, cells
<1> QED BY <1>7, <1>8, <1>10 DEF u

\* Where a number of characters go.
Spots(t, count) ==
  {k \in Nat : /\ k \in Location(t.bda.cursors[t.bda.page][1], t.bda.cursors[t.bda.page][2], t.bda.cols)
                        ..Location(t.bda.cursors[t.bda.page][1], t.bda.cursors[t.bda.page][2], t.bda.cols)
                            + count - 1
               /\ k < t.bda.cols * ScreenRows}

\* The cells that characters fill.
LEMMA FillingIs ==
  ASSUME NEW t, Screen(t), t.bda.mode \notin GraphicsModes, NEW count \in Nat
  PROVE  {CellAt(t, n) : n \in Filling(t, count)} = {2 * k : k \in Spots(t, count)}
<1> DEFINE cols == t.bda.cols
           here == Location(t.bda.cursors[t.bda.page][1], t.bda.cursors[t.bda.page][2], cols)
           end == cols * ScreenRows
           F == Filling(t, count)
           S == Spots(t, count)
<1>1. here \in Nat
  BY HereIs
<1>2. \A n \in Int : CellAt(t, n) = 2 * (here + n)
  BY HereIs
<1>3. cols \in Nat /\ ScreenRows \in Nat /\ LastRow(t) = ScreenRows - 1
  BY PlacesAreNumbers, SizesAssumption
<1>4. end \in Nat /\ 2 * cols * (LastRow(t) + 1) = 2 * end
  <2> DEFINE rows == ScreenRows
  <2>1. LastRow(t) + 1 = rows /\ rows \in Nat
    BY <1>3
  <2> HIDE DEF rows, cols
  <2>2. cols * rows \in Nat /\ 2 * cols * rows = 2 * (cols * rows)
    BY <1>3, <2>1
  <2> QED BY <2>1, <2>2 DEF rows
<1>5. S = {k \in Nat : k \in here..here + count - 1 /\ k < end}
  BY DEF Spots
<1>6. F = {n \in 0..count-1 : CellAt(t, n) < 2 * end}
  BY <1>4 DEF Filling
<1> HIDE DEF cols, end, here, F, S
<1>7. ASSUME NEW n \in F PROVE CellAt(t, n) = 2 * (here + n) /\ here + n \in S
  <2>1. n \in 0..count-1 /\ n \in Int /\ CellAt(t, n) < 2 * end
    BY <1>6
  <2>2. CellAt(t, n) = 2 * (here + n)
    BY <1>2, <2>1
  <2>3. here + n \in Nat /\ here + n < end /\ here + n \in here..here + count - 1
    BY <1>1, <1>4, <2>1, <2>2
  <2> QED BY <1>5, <2>2, <2>3
<1>8. ASSUME NEW k \in S PROVE \E n \in F : CellAt(t, n) = 2 * k
  <2>1. k \in Nat /\ k \in here..here + count - 1 /\ k < end
    BY <1>5
  <2> DEFINE n == k - here
  <2>2. n \in 0..count-1 /\ n \in Int /\ here + n = k
    BY <1>1, <2>1
  <2> HIDE DEF n
  <2>3. CellAt(t, n) = 2 * k
    BY <1>2, <2>2
  <2>4. CellAt(t, n) < 2 * end
    BY <1>4, <2>1, <2>3
  <2>5. n \in F
    BY <1>6, <2>2, <2>4
  <2> QED BY <2>3, <2>5
<1>9. {CellAt(t, n) : n \in F} = {2 * k : k \in S}
  BY <1>7, <1>8
<1> QED BY <1>9 DEF F, S

\* Characters with or without their attribute.
LEMMA CharactersFilled ==
  ASSUME NEW t, Screen(t), t.bda.mode \notin GraphicsModes, NEW ch, NEW attr \in Octet \union {Unset},
         NEW count \in Nat
  PROVE  TextOf(WriteText(t, ch, attr, count)) = Terminal!Filled(TextOf(t), ch, attr, count)
<1> DEFINE u == WriteText(t, ch, attr, count)
           cursors == t.bda.cursors
           p == t.bda.page
           cols == t.bda.cols
           here == Location(cursors[p][1], cursors[p][2], cols)
           filled == FilledCells(CellsOf(t), cols, cursors, p, ch, attr, count)
           chars == {CellAt(t, n) : n \in Filling(t, count)}
           attrs == IF attr = Unset THEN {} ELSE {a + 1 : a \in chars}
           mem == [a \in DOMAIN t.b.vram |-> IF a \in chars THEN ch
                                             ELSE IF a \in attrs THEN attr ELSE t.b.vram[a]]
           in(k) == k \in Spots(t, count)
<1>1. here \in Nat
  BY HereIs
<1>2. chars = {2 * k : k \in Spots(t, count)} /\ Spots(t, count) \subseteq Nat
  BY FillingIs DEF Spots
<1>3. u.bda = t.bda /\ u.b.cursor = t.b.cursor
  BY WriteTextIs DEF Reached
<1>4. TextBytes \subseteq DOMAIN t.b.vram
  BY DEF Screen, BufferOK
<1>5. u = IF chars = {} THEN t ELSE Rewritten(t, mem)
  BY DEF WriteText
<1>6. chars # {} => u.b.vram = mem
  <2>1. TextBytes \subseteq DOMAIN mem
    BY <1>4
  <2> HIDE DEF mem, chars, u
  <2>2. Rewritten(t, mem).b.vram = mem
    BY <2>1, ScreenMarked
  <2> QED BY <1>5, <2>2
<1>7. chars = {} => u.b.vram = t.b.vram
  BY <1>5
<1>8. \A a \in DOMAIN t.b.vram :
        u.b.vram[a] = IF a \in chars THEN ch ELSE IF a \in attrs THEN attr ELSE t.b.vram[a]
  <2>1. CASE chars = {}
    <3>1. attrs = {}
      BY <2>1
    <3> HIDE DEF chars, attrs, u
    <3> QED BY <1>7, <2>1, <3>1
  <2>2. CASE chars # {}
    <3> HIDE DEF chars, attrs, u
    <3> QED BY <1>6, <2>2
  <2> QED BY <2>1, <2>2
<1> HIDE DEF u, here, mem
<1>9. ASSUME NEW n \in TextCells
      PROVE  <<u.b.vram[2*n], u.b.vram[2*n+1]>>
               = IF in(n) THEN <<ch, IF attr < 0 THEN t.b.vram[2*n+1] ELSE attr>>
                 ELSE <<t.b.vram[2*n], t.b.vram[2*n+1]>>
  <2>1. n \in Nat /\ 2*n \in DOMAIN t.b.vram /\ 2*n+1 \in DOMAIN t.b.vram
    BY <1>4, CellBytes
  <2> HIDE DEF in
  <2>2. 2*n \in chars <=> in(n)
    <3> DEFINE S == Spots(t, count)
    <3>1. chars = {2 * k : k \in S} /\ S \subseteq Nat
      BY <1>2
    <3> HIDE DEF S, chars
    <3>2. \A k \in S : 2 * k = 2 * n => k = n
      BY <2>1, <3>1
    <3>3. 2*n \in chars <=> n \in S
      BY <3>1, <3>2
    <3> QED BY <3>3 DEF in, S
  <2>3. 2*n+1 \notin chars
    BY <1>2, <2>1
  <2>4. 2*n+1 \in attrs <=> attr # Unset /\ in(n)
    <3>1. \A a \in chars : a \in Nat
      BY <1>2
    <3>2. 2*n+1 \in {a + 1 : a \in chars} <=> 2*n \in chars
      <4> HIDE DEF chars
      <4> QED BY <2>1, <3>1
    <3> HIDE DEF chars
    <3> QED BY <2>2, <3>2
  <2>5. 2*n \notin attrs
    <3>1. \A a \in chars : \E k \in Nat : a = 2 * k
      BY <1>2
    <3> HIDE DEF chars
    <3>2. 2*n \notin {a + 1 : a \in chars}
      BY <2>1, <3>1
    <3> QED BY <3>2
  <2>6. attr < 0 <=> attr = Unset
    BY DEF Octet, Unset
  <2> HIDE DEF chars, attrs
  <2>7. u.b.vram[2*n] = IF in(n) THEN ch ELSE t.b.vram[2*n]
    BY <1>8, <2>1, <2>2, <2>5
  <2>8. u.b.vram[2*n+1] = IF attr # Unset /\ in(n) THEN attr ELSE t.b.vram[2*n+1]
    BY <1>8, <2>1, <2>3, <2>4
  <2>9. CASE in(n)
    BY <2>6, <2>7, <2>8, <2>9
  <2>10. CASE ~in(n)
    BY <2>7, <2>8, <2>10
  <2> QED BY <2>9, <2>10
<1>10. filled = [n \in TextCells |-> IF in(n) THEN <<ch, IF attr < 0 THEN t.b.vram[2*n+1] ELSE attr>>
                                     ELSE <<t.b.vram[2*n], t.b.vram[2*n+1]>>]
  BY CellBytes DEF FilledCells, CellsOf, here, Spots
<1>11. CellsOf(u) = filled
  BY <1>9, <1>10 DEF CellsOf
<1> DEFINE m == t.bda.mode = 7
           cells == CellsOf(t)
<1>12. TextOf(u) = TextShown(m, cols, CellsOf(u), cursors, p, t.b.cursor)
  BY <1>3 DEF TextOf
<1>13. TextOf(t) = TextShown(m, cols, cells, cursors, p, t.b.cursor)
  BY DEF TextOf
<1> HIDE DEF m, cells, filled
<1>14. Terminal!Filled(TextOf(t), ch, attr, count) = TextShown(m, cols, filled, cursors, p, t.b.cursor)
  BY <1>13, FilledIs DEF filled, cells
<1> QED BY <1>11, <1>12, <1>14 DEF u

-----------------------------------------------------------------------------
(* Places of the text screen. *)

\* The character of a cell is at an even place, its attribute at the odd one.
ByteAt(row, col, cols, k) == 2 * Location(row, col, cols) + k

\* A cell has one row and one column.
LEMMA PlaceOf ==
  ASSUME NEW cols \in Nat \ {0}, NEW n \in Nat
  PROVE  n \div cols \in Nat /\ n % cols \in 0..cols-1 /\ n = Location(n \div cols, n % cols, cols)
BY DivisionParts DEF Location

\* Places have numbers.
LEMMA LocationIs ==
  ASSUME NEW cols \in Nat \ {0}, NEW row \in Nat, NEW col \in Nat
  PROVE  Location(row, col, cols) \in Nat
BY DEF Location

\* Different places have different bytes.
LEMMA PlacesApart ==
  ASSUME NEW cols \in Nat \ {0}, NEW row \in Nat, NEW col \in 0..cols-1, NEW k \in {0, 1},
         NEW row2 \in Nat, NEW col2 \in 0..cols-1, NEW k2 \in {0, 1},
         ByteAt(row, col, cols, k) = ByteAt(row2, col2, cols, k2)
  PROVE  row = row2 /\ col = col2 /\ k = k2
<1> DEFINE x == Location(row, col, cols)
           y == Location(row2, col2, cols)
<1>1. x \in Nat /\ y \in Nat
  BY LocationIs
<1>2. 2 * x + k = 2 * y + k2
  BY DEF ByteAt
<1>3. x = (row * cols) + col /\ y = (row2 * cols) + col2
  BY DEF Location
<1> HIDE DEF x, y
<1>4. x = y /\ k = k2
  BY <1>1, <1>2
<1>5. (row * cols) + col = (row2 * cols) + col2
  BY <1>3, <1>4
<1>6. row = row2 /\ col = col2
  BY <1>5, DivisionUnique
<1> QED BY <1>4, <1>6

\* The cells of the screen's rows are its cells, and those after them are not.
LEMMA PlaceOnScreen ==
  ASSUME NEW cols \in {Wide, Narrow}, NEW row \in Nat, NEW col \in 0..cols-1
  PROVE  /\ Location(row, col, cols) < cols * ScreenRows <=> row < ScreenRows
         /\ row < ScreenRows => Location(row, col, cols) \in TextCells
<1>1. cols \in Nat \ {0} /\ ScreenRows \in Nat \ {0} /\ Wide \in Nat /\ cols <= Wide
  BY SizesAssumption
<1>2. Location(row, col, cols) = (row * cols) + col /\ Location(row, col, cols) \in Nat
  BY <1>1, LocationIs DEF Location
<1>3. row * cols \in Nat /\ ScreenRows * cols \in Nat /\ cols * ScreenRows = ScreenRows * cols
  BY <1>1
<1>4. row < ScreenRows => (row * cols) + cols <= ScreenRows * cols
  BY <1>1, Products
<1>5. ScreenRows < row => (ScreenRows * cols) + cols <= row * cols
  BY <1>1, Products
<1>6. ScreenRows = row => ScreenRows * cols = row * cols
  OBVIOUS
<1>7. ScreenRows * cols <= ScreenRows * Wide
  <2>1. cols < Wide => (cols * ScreenRows) + ScreenRows <= Wide * ScreenRows
    BY <1>1, Products
  <2>2. cols * ScreenRows = ScreenRows * cols /\ Wide * ScreenRows = ScreenRows * Wide
        /\ cols * ScreenRows \in Nat /\ Wide * ScreenRows \in Nat
    BY <1>1
  <2> QED BY <1>1, <2>1, <2>2
<1> DEFINE x == Location(row, col, cols)
           a == row * cols
           b == ScreenRows * cols
           c == ScreenRows * Wide
<1>8. x < b <=> row < ScreenRows
  <2> HIDE DEF x, a, b
  <2> QED BY <1>1, <1>2, <1>3, <1>4, <1>5, <1>6 DEF x, a, b
<1>9. row < ScreenRows => x \in 0..c-1
  <2>1. c \in Nat
    BY <1>1
  <2> HIDE DEF x, b, c
  <2> QED BY <1>2, <1>3, <1>7, <1>8, <2>1 DEF x, b, c
<1> QED BY <1>3, <1>8, <1>9 DEF TextCells

-----------------------------------------------------------------------------
(* A row of text. *)

\* The byte of a place after one row is scrolled.
RowByte(mem, w, cols, attr, from, row, q, c, k) ==
  IF q = row /\ c \in w.left..w.right
  THEN IF w.lines # 0 /\ from \in w.top..w.bottom THEN mem[ByteAt(from, c, cols, k)]
       ELSE IF k = 0 THEN Space ELSE attr
  ELSE mem[ByteAt(q, c, cols, k)]

\* The parts of a row in the text layout: cells of two bytes.
LEMMA TextParts ==
  ASSUME NEW cols \in Nat, NEW w
  PROVE  /\ \A i \in Parts(TextLayout(cols), w) :
              /\ i[2] \in w.left..w.right /\ i[3] \in {0, 1}
              /\ \A row \in Nat : At(TextLayout(cols), row, i) = ByteAt(row, i[2], cols, i[3])
              /\ \A attr : Blank(TextLayout(cols), attr, i) = IF i[3] = 0 THEN Space ELSE attr
         /\ \A c \in w.left..w.right, k \in {0, 1} : <<0, c, k, 0>> \in Parts(TextLayout(cols), w)
<1> DEFINE lay == TextLayout(cols)
<1>1. /\ lay.form = "text" /\ lay.width = cols /\ lay.height = 1 /\ lay.bytes = 2 /\ lay.planes = {0}
  BY DEF TextLayout
<1> HIDE DEF lay
<1>2. Parts(lay, w) = (0..0) \X (w.left..w.right) \X (0..1) \X {0}
  BY <1>1 DEF Parts
<1>3. \A row, i : At(lay, row, i) = (row * cols + i[2]) * 2 + i[3]
  BY <1>1 DEF At
<1>4. \A attr, i : Blank(lay, attr, i) = IF i[3] = 0 THEN Space ELSE attr
  BY <1>1 DEF Blank
<1>5. ASSUME NEW i \in Parts(lay, w) PROVE i[2] \in w.left..w.right /\ i[3] \in {0, 1}
  BY <1>2
<1>6. ASSUME NEW c \in w.left..w.right, NEW k \in {0, 1} PROVE <<0, c, k, 0>> \in Parts(lay, w)
  BY <1>2
<1>7. ASSUME NEW i \in Parts(lay, w), NEW row \in Nat
      PROVE  At(lay, row, i) = ByteAt(row, i[2], cols, i[3])
  <2> DEFINE c == i[2]
             k == i[3]
  <2>1. c \in Int /\ k \in Int
    BY <1>5
  <2>2. At(lay, row, i) = (row * cols + c) * 2 + k
    BY <1>3
  <2>3. ByteAt(row, c, cols, k) = 2 * (row * cols + c) + k
    BY DEF ByteAt, Location
  <2> HIDE DEF c, k
  <2>4. row * cols \in Int
    OBVIOUS
  <2> DEFINE a == row * cols
  <2> HIDE DEF a
  <2>5. (a + c) * 2 + k = 2 * (a + c) + k
    BY <2>1, <2>4 DEF a
  <2>6. At(lay, row, i) = ByteAt(row, c, cols, k)
    BY <2>2, <2>3, <2>5 DEF a
  <2> QED BY <2>6 DEF c, k
<1> QED BY <1>4, <1>5, <1>6, <1>7 DEF lay

\* A row of the window, byte by byte.
LEMMA RowOfBytes ==
  ASSUME NEW mem, NEW cols \in Nat \ {0}, NEW w, w.left \in Nat, w.right \in Int, w.right <= cols - 1,
         w.top \in Nat, w.bottom \in Int,
         NEW attr, NEW from \in Int, NEW row \in Nat,
         NEW q \in Nat, NEW c \in 0..cols-1, NEW k \in {0, 1}, ByteAt(q, c, cols, k) \in DOMAIN mem
  PROVE  RowScrolled(mem, TextLayout(cols), w, attr, from, row)[ByteAt(q, c, cols, k)]
           = RowByte(mem, w, cols, attr, from, row, q, c, k)
<1> DEFINE lay == TextLayout(cols)
           a == ByteAt(q, c, cols, k)
           P == Parts(lay, w)
           places == {At(lay, row, i) : i \in P}
           part == CHOOSE i \in P : At(lay, row, i) = a
           moved == w.lines # 0 /\ from \in w.top..w.bottom
           in == q = row /\ c \in w.left..w.right
<1>1. \A i \in P : i[2] \in w.left..w.right /\ i[3] \in {0, 1}
  BY TextParts
<1>2. \A i \in P : At(lay, row, i) = ByteAt(row, i[2], cols, i[3])
  BY TextParts
<1>3. moved => \A i \in P : At(lay, from, i) = ByteAt(from, i[2], cols, i[3])
  <2>1. moved => from \in Nat
    OBVIOUS
  <2> QED BY <2>1, TextParts
<1>4. \A i \in P : Blank(lay, attr, i) = IF i[3] = 0 THEN Space ELSE attr
  BY TextParts
<1>5. c \in w.left..w.right => <<0, c, k, 0>> \in P
  BY TextParts
<1>6. RowScrolled(mem, lay, w, attr, from, row)[a]
        = IF a \notin places THEN mem[a]
          ELSE IF moved THEN mem[At(lay, from, part)] ELSE Blank(lay, attr, part)
  BY DEF RowScrolled
<1> HIDE DEF lay, P, part
<1>7. ASSUME NEW i \in P, At(lay, row, i) = a PROVE q = row /\ i[2] = c /\ i[3] = k
  <2> DEFINE d == i[2]
             l == i[3]
  <2>1. d \in 0..cols-1 /\ l \in {0, 1}
    BY <1>1
  <2>2. ByteAt(q, c, cols, k) = ByteAt(row, d, cols, l)
    BY <1>2, <1>7
  <2> HIDE DEF d, l
  <2>3. q = row /\ c = d /\ k = l
    BY <2>1, <2>2, PlacesApart
  <2> QED BY <2>3 DEF d, l
<1>8. CASE in
  <2> DEFINE i == <<0, c, k, 0>>
  <2>1. i \in P /\ At(lay, row, i) = a
    BY <1>2, <1>5, <1>8
  <2> HIDE DEF i
  <2>2. a \in places /\ part \in P /\ At(lay, row, part) = a
    BY <2>1 DEF part
  <2>3. part[2] = c /\ part[3] = k
    BY <1>7, <2>2
  <2>4. moved => At(lay, from, part) = ByteAt(from, c, cols, k)
    BY <1>3, <2>2, <2>3
  <2>5. Blank(lay, attr, part) = IF k = 0 THEN Space ELSE attr
    BY <1>4, <2>2, <2>3
  <2> HIDE DEF places, a
  <2>6. CASE moved
    BY <1>6, <1>8, <2>2, <2>4, <2>6 DEF RowByte, lay, a
  <2>7. CASE ~moved
    BY <1>6, <1>8, <2>2, <2>5, <2>7 DEF RowByte, lay, a
  <2> QED BY <2>6, <2>7
<1>9. CASE ~in
  <2>1. a \notin places
    <3> SUFFICES ASSUME a \in places PROVE FALSE
      OBVIOUS
    <3>1. PICK i \in P : At(lay, row, i) = a
      OBVIOUS
    <3>2. q = row /\ i[2] = c
      BY <1>7, <3>1
    <3> QED BY <1>1, <1>9, <3>2
  <2> HIDE DEF places, moved
  <2> QED BY <1>6, <1>9, <2>1 DEF RowByte, lay
<1> QED BY <1>8, <1>9

-----------------------------------------------------------------------------
(* The rows of a text window, one after the other. *)

\* The rows of the window that have been scrolled after n steps.
DoneRow(w, down, n, q) == q \in IF down THEN (w.bottom - n + 1)..w.bottom ELSE w.top..(w.top + n - 1)

\* The byte of a place after n rows: what the window makes of the memory as
\* it was at the start, in the rows that are done.
RowsByte(mem, w, cols, attr, down, n, q, c, k) ==
  IF DoneRow(w, down, n, q)
  THEN RowByte(mem, w, cols, attr, q + (IF down THEN -w.lines ELSE w.lines), q, q, c, k)
  ELSE mem[ByteAt(q, c, cols, k)]

\* The bytes of the screen's rows are in the memory.
LEMMA PlaceInMemory ==
  ASSUME NEW cols \in {Wide, Narrow}, NEW q \in Nat, q < ScreenRows, NEW c \in 0..cols-1,
         NEW k \in {0, 1}
  PROVE  ByteAt(q, c, cols, k) \in TextBytes
<1> DEFINE n == Location(q, c, cols)
<1>1. n \in TextCells
  BY PlaceOnScreen
<1> HIDE DEF n
<1>2. 2*n \in TextBytes /\ 2*n+1 \in TextBytes /\ n \in Nat
  BY <1>1, CellBytes
<1>3. 2*n + k \in TextBytes
  BY <1>2
<1> QED BY <1>3 DEF ByteAt, n

\* The windows of the text screen.
TextWindow(w, cols) ==
  /\ w.lines \in Nat /\ w.top \in Nat /\ w.left \in Nat
  /\ w.bottom \in Int /\ w.bottom < ScreenRows /\ w.right \in Int /\ w.right <= cols - 1

\* The row of a step and the row it reads.
LEMMA RowAtIs ==
  ASSUME NEW cols, NEW w, TextWindow(w, cols), NEW down \in BOOLEAN, NEW n \in Nat,
         n + 1 <= w.bottom - w.top + 1
  PROVE  /\ RowAt(w, down, n + 1) \in w.top..w.bottom
         /\ \A q \in Nat : DoneRow(w, down, n + 1, q) <=> DoneRow(w, down, n, q) \/ q = RowAt(w, down, n + 1)
         /\ ~DoneRow(w, down, n, RowAt(w, down, n + 1))
         /\ w.lines # 0 => ~DoneRow(w, down, n, RowAt(w, down, n + 1) + (IF down THEN -w.lines ELSE w.lines))
<1> DEFINE top == w.top
           bottom == w.bottom
           lines == w.lines
<1>1. top \in Nat /\ bottom \in Int /\ lines \in Nat /\ n + 1 <= bottom - top + 1
  BY DEF TextWindow
<1>2. CASE down
  <2>1. RowAt(w, down, n + 1) = bottom - n
    BY <1>1, <1>2 DEF RowAt
  <2>2. \A m, q : DoneRow(w, down, m, q) <=> q \in (bottom - m + 1)..bottom
    BY <1>2 DEF DoneRow
  <2>3. (IF down THEN -w.lines ELSE w.lines) = -lines
    BY <1>2
  <2> HIDE DEF top, bottom, lines
  <2>4. bottom - n \in top..bottom
    BY <1>1
  <2>5. \A q \in Nat : q \in (bottom - (n + 1) + 1)..bottom <=> q \in (bottom - n + 1)..bottom \/ q = bottom - n
    BY <1>1
  <2>6. bottom - n \notin (bottom - n + 1)..bottom
    BY <1>1
  <2>7. lines # 0 => bottom - n + -lines \notin (bottom - n + 1)..bottom
    BY <1>1
  <2> QED BY <2>1, <2>2, <2>3, <2>4, <2>5, <2>6, <2>7 DEF top, bottom, lines
<1>3. CASE ~down
  <2>1. RowAt(w, down, n + 1) = top + n
    BY <1>1, <1>3 DEF RowAt
  <2>2. \A m, q : DoneRow(w, down, m, q) <=> q \in top..(top + m - 1)
    BY <1>3 DEF DoneRow
  <2>3. (IF down THEN -w.lines ELSE w.lines) = lines
    BY <1>3
  <2> HIDE DEF top, bottom, lines
  <2>4. top + n \in top..bottom
    BY <1>1
  <2>5. \A q \in Nat : q \in top..(top + (n + 1) - 1) <=> q \in top..(top + n - 1) \/ q = top + n
    BY <1>1
  <2>6. top + n \notin top..(top + n - 1)
    BY <1>1
  <2>7. lines # 0 => top + n + lines \notin top..(top + n - 1)
    BY <1>1
  <2> QED BY <2>1, <2>2, <2>3, <2>4, <2>5, <2>6, <2>7 DEF top, bottom, lines
<1> QED BY <1>2, <1>3

\* One row more.
LEMMA RowsStep ==
  ASSUME NEW mem, NEW cols \in {Wide, Narrow}, TextBytes \subseteq DOMAIN mem,
         NEW w, TextWindow(w, cols), NEW attr, NEW down \in BOOLEAN, NEW n \in Nat,
         n + 1 <= w.bottom - w.top + 1,
         NEW now, DOMAIN now = DOMAIN mem,
         \A q \in Nat, c \in 0..cols-1, k \in {0, 1} : ByteAt(q, c, cols, k) \in DOMAIN mem
           => now[ByteAt(q, c, cols, k)] = RowsByte(mem, w, cols, attr, down, n, q, c, k),
         NEW q \in Nat, NEW c \in 0..cols-1, NEW k \in {0, 1}, ByteAt(q, c, cols, k) \in DOMAIN mem
  PROVE  RowStep(now, TextLayout(cols), w, attr, down, n + 1)[ByteAt(q, c, cols, k)]
           = RowsByte(mem, w, cols, attr, down, n + 1, q, c, k)
<1> DEFINE row == RowAt(w, down, n + 1)
           by == IF down THEN -w.lines ELSE w.lines
           from == row + by
           a == ByteAt(q, c, cols, k)
           next == RowStep(now, TextLayout(cols), w, attr, down, n + 1)
<1>1. row \in w.top..w.bottom
  BY RowAtIs
<1>2. DoneRow(w, down, n + 1, q) <=> DoneRow(w, down, n, q) \/ q = row
  BY RowAtIs
<1>3. ~DoneRow(w, down, n, row)
  BY RowAtIs
<1>4. w.lines # 0 => ~DoneRow(w, down, n, from)
  BY RowAtIs
<1>5. /\ w.lines \in Nat /\ w.top \in Nat /\ w.left \in Nat
      /\ w.bottom \in Int /\ w.bottom < ScreenRows /\ w.right \in Int /\ w.right <= cols - 1
  BY DEF TextWindow
<1>6. cols \in Nat \ {0} /\ row \in Nat /\ by \in Int /\ from \in Int
  BY <1>1, <1>5, SizesAssumption
<1>7. next = RowScrolled(now, TextLayout(cols), w, attr, from, row)
  BY DEF RowStep
<1> HIDE DEF row, from, by, next
<1>8. next[a] = RowByte(now, w, cols, attr, from, row, q, c, k)
  BY <1>5, <1>6, <1>7, RowOfBytes
<1>9. now[a] = RowsByte(mem, w, cols, attr, down, n, q, c, k)
  OBVIOUS
<1>10. from \in w.top..w.bottom /\ w.lines # 0
         => now[ByteAt(from, c, cols, k)] = mem[ByteAt(from, c, cols, k)]
  <2> SUFFICES ASSUME from \in w.top..w.bottom, w.lines # 0
               PROVE  now[ByteAt(from, c, cols, k)] = mem[ByteAt(from, c, cols, k)]
    OBVIOUS
  <2>1. from \in Nat /\ from < ScreenRows
    BY <1>5, SizesAssumption
  <2>2. ByteAt(from, c, cols, k) \in DOMAIN mem
    BY <2>1, PlaceInMemory
  <2>3. now[ByteAt(from, c, cols, k)] = RowsByte(mem, w, cols, attr, down, n, from, c, k)
    BY <2>1, <2>2
  <2> QED BY <1>4, <2>3 DEF RowsByte
<1> HIDE DEF a
<1>11. CASE q # row
  <2>1. next[a] = now[a]
    BY <1>8, <1>11 DEF RowByte, a
  <2>2. DoneRow(w, down, n + 1, q) <=> DoneRow(w, down, n, q)
    BY <1>2, <1>11
  <2>3. RowsByte(mem, w, cols, attr, down, n + 1, q, c, k) = RowsByte(mem, w, cols, attr, down, n, q, c, k)
    BY <2>2 DEF RowsByte
  <2> QED BY <1>9, <2>1, <2>3 DEF a, next
<1>12. CASE q = row
  <2>1. now[a] = mem[a]
    BY <1>3, <1>9, <1>12 DEF RowsByte, a
  <2>2. RowByte(now, w, cols, attr, from, row, q, c, k) = RowByte(mem, w, cols, attr, from, row, q, c, k)
    BY <1>10, <2>1 DEF RowByte, a
  <2>3. RowsByte(mem, w, cols, attr, down, n + 1, q, c, k) = RowByte(mem, w, cols, attr, from, row, q, c, k)
    BY <1>2, <1>12 DEF RowsByte, from, by
  <2> QED BY <1>8, <2>2, <2>3 DEF a, next
<1> QED BY <1>11, <1>12

\* The memory g is right after n rows.
RowsRight(g, mem, w, cols, attr, down, n) ==
  \A q \in Nat, c \in 0..cols-1, k \in {0, 1} : ByteAt(q, c, cols, k) \in DOMAIN mem
    => g[ByteAt(q, c, cols, k)] = RowsByte(mem, w, cols, attr, down, n, q, c, k)

\* The rows of the window one after another.
LEMMA RowsOfBytes ==
  ASSUME NEW mem, NEW cols \in {Wide, Narrow}, TextBytes \subseteq DOMAIN mem,
         NEW w, TextWindow(w, cols), NEW attr, NEW down \in BOOLEAN,
         NEW N \in Nat, N <= w.bottom - w.top + 1,
         NEW f, Rolled(f, mem, TextLayout(cols), w, attr, down, N)
  PROVE  RowsRight(f[N], mem, w, cols, attr, down, N)
<1> DEFINE lay == TextLayout(cols)
           Right(g, n) == RowsRight(g, mem, w, cols, attr, down, n)
           S == {n \in Nat : n <= N => Right(f[n], n)}
<1>1. w.top \in Nat /\ w.bottom \in Int
  BY DEF TextWindow
<1>2. f[0] = mem
  BY DEF Rolled
<1>3. \A i \in 1..N : f[i] = RowStep(f[i-1], lay, w, attr, down, i)
  BY RolledSteps
<1>4. \A i \in 0..N : DOMAIN f[i] = DOMAIN mem
  BY RolledDomain
<1>5. 0 \in S
  <2>1. \A p \in Nat : ~DoneRow(w, down, 0, p)
    BY <1>1 DEF DoneRow
  <2>2. Right(f[0], 0)
    BY <1>2, <2>1 DEF RowsRight, RowsByte
  <2> QED BY <2>2
<1> HIDE DEF lay
<1>6. ASSUME NEW n \in S PROVE n + 1 \in S
  <2> SUFFICES ASSUME n + 1 <= N PROVE Right(f[n + 1], n + 1)
    OBVIOUS
  <2>1. n \in Nat /\ n + 1 \in 1..N /\ n \in 0..N /\ (n + 1) - 1 = n /\ n + 1 <= w.bottom - w.top + 1
    BY <1>1
  <2>2. Right(f[n], n)
    BY <1>1, <2>1
  <2>3. DOMAIN f[n] = DOMAIN mem /\ f[n + 1] = RowStep(f[n], lay, w, attr, down, n + 1)
    BY <1>3, <1>4, <2>1
  <2> DEFINE now == f[n]
             next == f[n + 1]
  <2>4. DOMAIN now = DOMAIN mem /\ next = RowStep(now, lay, w, attr, down, n + 1)
    BY <2>2, <2>3
  <2>5. \A p \in Nat, d \in 0..cols-1, l \in {0, 1} : ByteAt(p, d, cols, l) \in DOMAIN mem
          => now[ByteAt(p, d, cols, l)] = RowsByte(mem, w, cols, attr, down, n, p, d, l)
    BY <2>2 DEF RowsRight
  <2> HIDE DEF now, next
  <2>6. ASSUME NEW p \in Nat, NEW d \in 0..cols-1, NEW l \in {0, 1}, ByteAt(p, d, cols, l) \in DOMAIN mem
        PROVE  next[ByteAt(p, d, cols, l)] = RowsByte(mem, w, cols, attr, down, n + 1, p, d, l)
    BY <2>1, <2>4, <2>5, <2>6, RowsStep DEF lay
  <2>7. Right(next, n + 1)
    BY <2>6 DEF RowsRight
  <2> QED BY <2>7 DEF next
<1>7. S = Nat
  <2> HIDE DEF S
  <2>1. S \subseteq Nat
    BY DEF S
  <2> QED BY <1>5, <1>6, <2>1, Induction
<1>8. Right(f[N], N)
  BY <1>1, <1>7
<1> QED BY <1>8

-----------------------------------------------------------------------------
(* A scrolled window is the shifted one. *)

\* The part of a window that lies on the screen.
OnScreen(v, w, cols) ==
  /\ w.lines \in Nat /\ w.top \in Nat /\ w.left \in Nat /\ w.bottom \in Nat /\ w.right \in Nat
  /\ v.lines = w.lines /\ v.top = w.top /\ v.left = w.left
  /\ v.bottom = Lesser(w.bottom, ScreenRows - 1) /\ v.right = Lesser(w.right, cols - 1)

\* The part of a window that is on the screen.
LEMMA OnScreenIs ==
  ASSUME NEW cols \in {Wide, Narrow}, NEW v, NEW w, OnScreen(v, w, cols)
  PROVE  /\ TextWindow(v, cols)
         /\ \A q \in Int : q \in v.top..v.bottom <=> q \in w.top..w.bottom /\ q < ScreenRows
         /\ \A c \in 0..cols-1 : c \in v.left..v.right <=> c \in w.left..w.right
<1> DEFINE rows == ScreenRows
           top == w.top
           bottom == w.bottom
           first == w.left
           last == w.right
<1>1. /\ top \in Nat /\ first \in Nat /\ bottom \in Nat /\ last \in Nat /\ w.lines \in Nat
      /\ v.lines = w.lines /\ v.top = top /\ v.left = first
      /\ v.bottom = Lesser(bottom, rows - 1) /\ v.right = Lesser(last, cols - 1)
  BY DEF OnScreen
<1>2. rows \in Nat \ {0} /\ cols \in Nat \ {0}
  BY SizesAssumption
<1> HIDE DEF rows, top, bottom, first, last
<1>3. Lesser(bottom, rows - 1) \in Int /\ Lesser(bottom, rows - 1) < rows
  BY <1>1, <1>2 DEF Lesser
<1>4. Lesser(last, cols - 1) \in Int /\ Lesser(last, cols - 1) <= cols - 1
  BY <1>1, <1>2 DEF Lesser
<1>5. \A q \in Int : q \in top..Lesser(bottom, rows - 1) <=> q \in top..bottom /\ q < rows
  BY <1>1, <1>2 DEF Lesser
<1>6. \A c \in 0..cols-1 : c \in first..Lesser(last, cols - 1) <=> c \in first..last
  BY <1>1, <1>2 DEF Lesser
<1>7. TextWindow(v, cols)
  BY <1>1, <1>3, <1>4 DEF TextWindow, rows
<1> QED BY <1>1, <1>5, <1>6, <1>7 DEF rows, top, bottom, first, last

\* The place a number of rows away.
LEMMA LocationAway ==
  ASSUME NEW cols \in Nat, NEW q \in Nat, NEW c \in Nat, NEW by \in Int
  PROVE  Location(q, c, cols) + by * cols = Location(q + by, c, cols)
<1>1. (q + by) * cols = (q * cols) + (by * cols)
  OBVIOUS
<1>2. (q * cols) \in Int /\ (by * cols) \in Int
  OBVIOUS
<1> QED BY <1>1, <1>2 DEF Location

\* The byte of a place when the window has been scrolled.
WindowByte(mem, v, cols, attr, down, q, c, k) ==
  IF q \in v.top..v.bottom
  THEN RowByte(mem, v, cols, attr, q + (IF down THEN -v.lines ELSE v.lines), q, q, c, k)
  ELSE mem[ByteAt(q, c, cols, k)]

\* No byte is added.
LEMMA RolledEnd ==
  ASSUME NEW mem, NEW lay, NEW w, NEW attr, NEW down, NEW n \in Nat, NEW f,
         Rolled(f, mem, lay, w, attr, down, n)
  PROVE  DOMAIN f[n] = DOMAIN mem
<1>1. \A i \in 0..n : DOMAIN f[i] = DOMAIN mem
  BY RolledDomain
<1> QED BY <1>1

\* A byte of a window that is scrolled.
LEMMA ScrolledByte ==
  ASSUME NEW t, Screen(t), NEW v, TextWindow(v, t.bda.cols), NEW attr, NEW down \in BOOLEAN,
         NEW q \in Nat, NEW c \in 0..t.bda.cols-1, NEW k \in {0, 1},
         ByteAt(q, c, t.bda.cols, k) \in DOMAIN t.b.vram
  PROVE  Scrolled(t, TextLayout(t.bda.cols), v, attr, down).b.vram[ByteAt(q, c, t.bda.cols, k)]
           = WindowByte(t.b.vram, v, t.bda.cols, attr, down, q, c, k)
<1> DEFINE cols == t.bda.cols
           lay == TextLayout(cols)
           mem == t.b.vram
           N == v.bottom - v.top + 1
           a == ByteAt(q, c, cols, k)
           u == Scrolled(t, lay, v, attr, down)
           by == IF down THEN -v.lines ELSE v.lines
<1>1. /\ v.lines \in Nat /\ v.top \in Nat /\ v.left \in Nat /\ v.bottom \in Int /\ v.right \in Int
  BY DEF TextWindow
<1>2. cols \in {Wide, Narrow} /\ TextBytes \subseteq DOMAIN mem
  BY DEF Screen, BdaOK, BufferOK
<1>3. CASE v.top > v.bottom \/ v.left > v.right
  <2>1. u = t
    BY <1>3 DEF Scrolled
  <2>2. q \in v.top..v.bottom => ~(c \in v.left..v.right)
    BY <1>1, <1>3, SizesAssumption, <1>2
  <2>3. q \in v.top..v.bottom => RowByte(mem, v, cols, attr, q + by, q, q, c, k) = mem[a]
    BY <2>2 DEF RowByte
  <2> HIDE DEF u, by, mem, a
  <2>4. u.b.vram[a] = mem[a]
    BY <2>1 DEF mem
  <2> HIDE DEF cols
  <2>5. WindowByte(mem, v, cols, attr, down, q, c, k) = mem[a]
    BY <2>3 DEF WindowByte, by, a
  <2> QED BY <2>4, <2>5 DEF u, by, mem, a, cols
<1>4. CASE ~(v.top > v.bottom \/ v.left > v.right)
  <2>1. N \in Nat
    BY <1>1, <1>4
  <2>2. PICK f : Rolled(f, mem, lay, v, attr, down, N) /\ u = Rewritten(t, f[N])
    BY <1>4, <2>1, ScrolledRun
  <2>3. Rolled(f, mem, lay, v, attr, down, N)
    BY <2>2
  <2>4. DOMAIN f[N] = DOMAIN mem
    BY <2>1, <2>3, RolledEnd
  <2>5. u.b.vram = f[N]
    <3> DEFINE new == f[N]
    <3>1. TextBytes \subseteq DOMAIN new /\ u = Rewritten(t, new)
      BY <1>2, <2>2, <2>4
    <3> HIDE DEF new, u
    <3> QED BY <3>1, ScreenMarked DEF new
  <2> HIDE DEF u
  <2>6. f[N][a] = RowsByte(mem, v, cols, attr, down, N, q, c, k)
    <3>1. cols \in {Wide, Narrow} /\ TextBytes \subseteq DOMAIN mem /\ N <= v.bottom - v.top + 1
      BY <1>1, <1>2
    <3>2. TextWindow(v, cols) /\ a \in DOMAIN mem /\ c \in 0..cols-1
      OBVIOUS
    <3> HIDE DEF mem, cols, N
    <3>3. RowsRight(f[N], mem, v, cols, attr, down, N)
      BY <2>1, <2>3, <3>1, <3>2, RowsOfBytes
    <3> QED BY <3>2, <3>3 DEF RowsRight
  <2>7. DoneRow(v, down, N, q) <=> q \in v.top..v.bottom
    BY <1>1, <2>1 DEF DoneRow
  <2> HIDE DEF N, mem, cols
  <2>8. u.b.vram[a] = WindowByte(mem, v, cols, attr, down, q, c, k)
    BY <2>5, <2>6, <2>7 DEF RowsByte, WindowByte
  <2> QED BY <2>8 DEF u, mem, cols
<1> QED BY <1>3, <1>4

\* How far the rows of a window move.
Shift(w, down) == IF down THEN -w.lines ELSE w.lines

\* A window of a text screen.
LEMMA WindowShifted ==
  ASSUME NEW t, Screen(t), NEW v, NEW w, OnScreen(v, w, t.bda.cols), NEW attr, NEW down \in BOOLEAN
  PROVE  TextOf(Scrolled(t, TextLayout(t.bda.cols), v, attr, down))
           = Terminal!Shifted(TextOf(t), w, attr, Shift(w, down))
<1> DEFINE cols == t.bda.cols
           mem == t.b.vram
           u == Scrolled(t, TextLayout(cols), v, attr, down)
           by == IF down THEN -w.lines ELSE w.lines
           cells == CellsOf(t)
           shifted == ShiftedCells(cells, cols, w, attr, by)
<1>1. cols \in {Wide, Narrow} /\ cols \in Nat \ {0} /\ TextBytes \subseteq DOMAIN mem
  BY SizesAssumption DEF Screen, BdaOK, BufferOK
<1>2. TextWindow(v, cols)
  BY <1>1, OnScreenIs
<1>3. \A q \in Int : q \in v.top..v.bottom <=> q \in w.top..w.bottom /\ q < ScreenRows
  BY <1>1, OnScreenIs
<1>4. \A c \in 0..cols-1 : c \in v.left..v.right <=> c \in w.left..w.right
  BY <1>1, OnScreenIs
<1>5. v.lines = w.lines /\ w.lines \in Nat /\ by \in Int /\ by = IF down THEN -v.lines ELSE v.lines
  BY DEF OnScreen
<1>6. u.bda = t.bda /\ u.b.cursor = t.b.cursor
  <2>1. v.top \in Int /\ v.bottom \in Int
    BY <1>2 DEF TextWindow
  <2> QED BY <2>1, ScrolledIs DEF Reached
<1>7. ASSUME NEW n \in TextCells PROVE <<u.b.vram[2*n], u.b.vram[2*n+1]>> = shifted[n]
  <2> DEFINE q == n \div cols
             c == n % cols
             from == q + by
             in == q \in v.top..v.bottom /\ c \in v.left..v.right
             kept == w.lines # 0 /\ from \in v.top..v.bottom
             ByteOf(k) == IF in
                          THEN IF kept THEN mem[ByteAt(from, c, cols, k)] ELSE IF k = 0 THEN Space ELSE attr
                          ELSE mem[ByteAt(q, c, cols, k)]
  <2>1. n \in Nat /\ 2*n \in DOMAIN mem /\ 2*n+1 \in DOMAIN mem
    BY <1>1, CellBytes
  <2>2. q \in Nat /\ c \in 0..cols-1 /\ n = Location(q, c, cols)
    BY <1>1, <2>1, PlaceOf
  <2>3. ByteAt(q, c, cols, 0) = 2*n /\ ByteAt(q, c, cols, 1) = 2*n+1
    BY <2>1, <2>2 DEF ByteAt
  <2> HIDE DEF q, c
  <2>4. ASSUME NEW k \in {0, 1} PROVE u.b.vram[ByteAt(q, c, cols, k)] = ByteOf(k)
    <3>1. ByteAt(q, c, cols, k) \in DOMAIN mem
      BY <2>1, <2>3
    <3> DEFINE up == IF down THEN -v.lines ELSE v.lines
    <3>2. u.b.vram[ByteAt(q, c, cols, k)] = WindowByte(mem, v, cols, attr, down, q, c, k)
      BY <1>2, <2>2, <3>1, ScrolledByte
    <3>3. up = by
      BY <1>5
    <3> HIDE DEF u, mem, up, by, cols
    <3>4. CASE q \in v.top..v.bottom
      BY <1>5, <3>2, <3>3, <3>4 DEF RowByte, WindowByte, up
    <3>5. CASE q \notin v.top..v.bottom
      BY <3>2, <3>5 DEF WindowByte
    <3> QED BY <3>4, <3>5
  <2>5. n < cols * ScreenRows <=> q < ScreenRows
    BY <1>1, <2>2, PlaceOnScreen
  <2>6. in <=> n < cols * ScreenRows /\ q \in w.top..w.bottom /\ c \in w.left..w.right
    BY <1>3, <1>4, <2>2, <2>5
  <2>7. from \in Int
    BY <1>5, <2>2
  <2>8. kept <=> w.lines # 0 /\ from \in w.top..w.bottom /\ from < ScreenRows
    <3> HIDE DEF from
    <3> QED BY <1>3, <2>7
  <2>9. n + by * cols = Location(from, c, cols)
    <3>1. c \in Nat /\ cols \in Nat /\ by \in Int
      BY <1>1, <1>5, <2>2
    <3> HIDE DEF by, cols
    <3> QED BY <2>2, <3>1, LocationAway
  <2>10. kept => cells[Location(from, c, cols)]
                   = <<mem[ByteAt(from, c, cols, 0)], mem[ByteAt(from, c, cols, 1)]>>
    <3> SUFFICES ASSUME kept PROVE cells[Location(from, c, cols)]
                   = <<mem[ByteAt(from, c, cols, 0)], mem[ByteAt(from, c, cols, 1)]>>
      OBVIOUS
    <3>1. from \in Nat /\ from < ScreenRows
      BY <1>2, <2>7, <2>8 DEF TextWindow
    <3> DEFINE m == Location(from, c, cols)
    <3>2. m \in TextCells
      BY <1>1, <2>2, <3>1, PlaceOnScreen
    <3>3. ByteAt(from, c, cols, 0) = 2*m + 0 /\ ByteAt(from, c, cols, 1) = 2*m+1
      BY DEF ByteAt
    <3> HIDE DEF m
    <3>4. m \in Nat
      BY <3>2, CellBytes
    <3>5. cells[m] = <<mem[2*m], mem[2*m+1]>>
      BY <3>2 DEF CellsOf
    <3>6. 2*m + 0 = 2*m
      BY <3>4
    <3> QED BY <3>3, <3>5, <3>6 DEF m
  <2>11. cells[n] = <<mem[2*n], mem[2*n+1]>>
    BY DEF CellsOf
  <2>12. shifted[n] = IF ~in THEN cells[n] ELSE IF kept THEN cells[n + by * cols] ELSE <<32, attr>>
    <3> DEFINE within == n < cols * ScreenRows /\ q \in w.top..w.bottom /\ c \in w.left..w.right
               keeps == w.lines # 0 /\ from \in w.top..w.bottom /\ from < ScreenRows
    <3>1. shifted[n] = IF ~within THEN cells[n] ELSE IF keeps THEN cells[n + by * cols] ELSE <<32, attr>>
      BY DEF ShiftedCells, q, c
    <3> HIDE DEF in, kept, shifted, cells
    <3> QED BY <2>6, <2>8, <3>1
  <2> HIDE DEF in, kept, shifted, from, cells, u, mem, by
  <2>13. u.b.vram[2*n] = ByteOf(0) /\ u.b.vram[2*n+1] = ByteOf(1)
    BY <2>3, <2>4
  <2>14. CASE ~in
    BY <2>3, <2>11, <2>12, <2>13, <2>14
  <2>15. CASE in /\ kept
    BY <2>9, <2>10, <2>12, <2>13, <2>15
  <2>16. CASE in /\ ~kept
    BY <2>12, <2>13, <2>16 DEF Space
  <2> QED BY <2>14, <2>15, <2>16
<1>8. CellsOf(u) = shifted
  <2>1. shifted = [n \in TextCells |-> shifted[n]]
    BY DEF ShiftedCells
  <2> HIDE DEF shifted, u
  <2> QED BY <1>7, <2>1 DEF CellsOf
<1> DEFINE m == t.bda.mode = 7
<1>9. TextOf(u) = TextShown(m, cols, CellsOf(u), t.bda.cursors, t.bda.page, t.b.cursor)
  BY <1>6 DEF TextOf
<1>10. TextOf(t) = TextShown(m, cols, cells, t.bda.cursors, t.bda.page, t.b.cursor)
  BY DEF TextOf
<1> HIDE DEF m, cells, shifted, by
<1>11. Terminal!Shifted(TextOf(t), w, attr, by)
         = TextShown(m, cols, shifted, t.bda.cursors, t.bda.page, t.b.cursor)
  BY <1>10, ShiftedIs DEF shifted
<1> QED BY <1>8, <1>9, <1>11 DEF u, by, Shift

-----------------------------------------------------------------------------
(* Lines and teletype. *)

\* What the screen's text says of the data area.
LEMMA TextOfFields ==
  ASSUME NEW t
  PROVE  /\ TextOf(t).cols = t.bda.cols /\ TextOf(t).page = t.bda.page
         /\ TextOf(t).cursors = t.bda.cursors /\ TextOf(t).mark = t.b.cursor
         /\ TextOf(t).cells = CellsOf(t) /\ TextOf(t).on = TRUE /\ TextOf(t).mono = (t.bda.mode = 7)
BY DEF TextOf, TextShown

\* The whole screen moves up by a row.
LEMMA ScreenShifted ==
  ASSUME NEW t, Screen(t), t.bda.mode \notin GraphicsModes
  PROVE  TextOf(ScrollScreen(t)) = Terminal!Shifted(TextOf(t), Terminal!Everything(TextOf(t)), 7, 1)
<1> DEFINE cols == t.bda.cols
           rows == ScreenRows
           v == [lines |-> 1, top |-> 0, left |-> 0, bottom |-> LastRow(t), right |-> cols - 1]
           w == Terminal!Everything(TextOf(t))
<1>1. cols \in Nat \ {0} /\ rows \in Nat \ {0} /\ LastRow(t) = rows - 1
  BY PlacesAreNumbers, SizesAssumption
<1>2. w.lines = 1 /\ w.top = 0 /\ w.left = 0 /\ w.bottom = rows - 1 /\ w.right = cols - 1
  BY TextOfFields DEF Terminal!Everything
<1>3. v.lines = 1 /\ v.top = 0 /\ v.left = 0 /\ v.bottom = rows - 1 /\ v.right = cols - 1
  BY <1>1
<1>4. ScrollScreen(t) = Scrolled(t, TextLayout(cols), v, LightGray, FALSE)
  BY DEF ScrollScreen
<1> HIDE DEF v, w, cols, rows
<1>5. Lesser(rows - 1, rows - 1) = rows - 1 /\ Lesser(cols - 1, cols - 1) = cols - 1
  BY DEF Lesser
<1>6. rows - 1 \in Nat /\ cols - 1 \in Nat
  BY <1>1
<1>7. OnScreen(v, w, cols)
  BY <1>2, <1>3, <1>5, <1>6 DEF OnScreen, rows
<1>8. TextOf(Scrolled(t, TextLayout(cols), v, LightGray, FALSE))
        = Terminal!Shifted(TextOf(t), w, LightGray, Shift(w, FALSE))
  BY <1>7, WindowShifted, ZenonT(60) DEF cols
<1>9. Shift(w, FALSE) = 1 /\ LightGray = 7
  BY <1>2 DEF Shift, LightGray
<1> QED BY <1>4, <1>8, <1>9 DEF w

\* The next line.
LEMMA LineFed ==
  ASSUME NEW t, Screen(t), t.bda.mode \notin GraphicsModes, NEW col \in Nat
  PROVE  /\ TextOf(NextLine(t, col)) = Terminal!Below(TextOf(t), Cursor(t)[1], col)
         /\ NextLine(t, col).bda.mode = t.bda.mode
<1> DEFINE row == Cursor(t)[1]
           x == TextOf(t)
           page == t.bda.page
           v == ScrollScreen(t)
           y == Terminal!Shifted(x, Terminal!Everything(x), 7, 1)
<1>1. row \in Nat /\ page \in 0..7 /\ LastRow(t) = ScreenRows - 1 /\ LastRow(t) \in Nat /\ ScreenRows \in Nat \ {0}
  BY PlacesAreNumbers, SizesAssumption
<1>2. Screen(v) /\ v.bda = t.bda
  BY ScrollScreenIs DEF Reached
<1>3. TextOf(v) = y
  BY ScreenShifted
<1>4. x.page = page
  BY TextOfFields
<1>5. NextLine(t, col) = IF row >= LastRow(t) THEN SetCursorPos(v, page, LastRow(t), col)
                         ELSE SetCursorPos(t, page, row + 1, col)
  BY DEF NextLine
<1>6. Terminal!Below(x, row, col) = IF row >= ScreenRows - 1 THEN Terminal!Moved(y, x.page, ScreenRows - 1, col)
                                    ELSE Terminal!Moved(x, x.page, row + 1, col)
  BY DEF Terminal!Below
<1> HIDE DEF v, x, y, row
<1>7. CASE row >= LastRow(t)
  <2>1. /\ TextOf(SetCursorPos(v, page, LastRow(t), col)) = Terminal!Moved(TextOf(v), page, LastRow(t), col)
        /\ SetCursorPos(v, page, LastRow(t), col).bda.mode = v.bda.mode
    BY <1>1, <1>2, CursorMoved, ZenonT(60)
  <2>2. NextLine(t, col) = SetCursorPos(v, page, LastRow(t), col)
    BY <1>5, <1>7
  <2>3. Terminal!Below(x, row, col) = Terminal!Moved(y, page, LastRow(t), col)
    BY <1>1, <1>4, <1>6, <1>7
  <2> QED BY <1>2, <1>3, <2>1, <2>2, <2>3 DEF x, row
<1>8. CASE ~(row >= LastRow(t))
  <2>1. row + 1 \in Nat
    BY <1>1
  <2>2. /\ TextOf(SetCursorPos(t, page, row + 1, col)) = Terminal!Moved(TextOf(t), page, row + 1, col)
        /\ SetCursorPos(t, page, row + 1, col).bda.mode = t.bda.mode
    <3>0. Screen(t) /\ page \in 0..7 /\ col \in Nat
      BY <1>1
    <3> HIDE DEF page
    <3>1. ASSUME NEW next \in Nat
          PROVE  /\ TextOf(SetCursorPos(t, page, next, col)) = Terminal!Moved(TextOf(t), page, next, col)
                 /\ SetCursorPos(t, page, next, col).bda.mode = t.bda.mode
      BY <3>0, CursorMoved, ZenonT(30)
    <3> QED BY <2>1, <3>1
  <2>3. NextLine(t, col) = SetCursorPos(t, page, row + 1, col)
    BY <1>5, <1>8
  <2>4. Terminal!Below(x, row, col) = Terminal!Moved(x, page, row + 1, col)
    BY <1>1, <1>4, <1>6, <1>8
  <2> QED BY <2>2, <2>3, <2>4 DEF x, row
<1> QED BY <1>7, <1>8

\* A character of the teletype.
LEMMA TextTyped ==
  ASSUME NEW t, Screen(t), t.bda.mode \notin GraphicsModes, NEW ch \in Octet, NEW fg
  PROVE  /\ TextOf(Teletype(t, ch, fg)) = Terminal!Typed(TextOf(t), ch)
         /\ Teletype(t, ch, fg).bda.mode = t.bda.mode
<1> DEFINE row == Cursor(t)[1]
           col == Cursor(t)[2]
           cols == t.bda.cols
           page == t.bda.page
           x == TextOf(t)
           d == WriteByte(t, CellAt(t, 0), ch)
           y == Terminal!Struck(x, ch)
           u == Teletype(t, ch, fg)
<1>1. row \in Nat /\ col \in Nat /\ page \in 0..7 /\ cols \in Nat \ {0}
  BY PlacesAreNumbers
<1>2. x.page = page /\ x.cols = cols /\ x.cursors[x.page][1] = row /\ x.cursors[x.page][2] = col
  BY TextOfFields DEF Cursor
<1>3. Reached(t, d)
  BY WriteByteIs
<1>4. Screen(d) /\ d.bda = t.bda
  BY <1>3, ReachedScreen DEF Reached
<1>5. TextOf(d) = y
  BY CharacterStruck
<1>6. Cursor(d)[1] = row /\ d.bda.mode = t.bda.mode
  BY <1>4 DEF Cursor
<1>7. u = CASE ch = CarriageReturn -> SetCursorPos(t, page, row, 0)
            [] ch = LineFeed       -> NextLine(t, col)
            [] ch = Backspace      -> IF col > 0 THEN SetCursorPos(t, page, row, col - 1) ELSE t
            [] OTHER -> IF col + 1 >= cols THEN NextLine(d, 0) ELSE SetCursorPos(d, page, row, col + 1)
  BY DEF Teletype
<1>8. Terminal!Typed(x, ch)
        = CASE ch = 13 -> Terminal!Moved(x, page, row, 0)
            [] ch = 10 -> Terminal!Below(x, row, col)
            [] ch = 8  -> IF col = 0 THEN x ELSE Terminal!Moved(x, page, row, col - 1)
            [] OTHER   -> IF col >= cols - 1 THEN Terminal!Below(y, row, 0)
                          ELSE Terminal!Moved(y, page, row, col + 1)
  BY <1>2 DEF Terminal!Typed
<1> HIDE DEF row, col, cols, d, y, u, page
<1>9. CASE ch = 13
  <2>1. /\ TextOf(SetCursorPos(t, page, row, 0)) = Terminal!Moved(TextOf(t), page, row, 0)
        /\ SetCursorPos(t, page, row, 0).bda.mode = t.bda.mode
    <3>1. 0 \in Nat
      OBVIOUS
    <3> QED BY <1>1, <3>1, CursorMoved, ZenonT(60)
  <2>2. u = SetCursorPos(t, page, row, 0)
    BY <1>7, <1>9 DEF CarriageReturn, LineFeed, Backspace
  <2>3. Terminal!Typed(x, ch) = Terminal!Moved(x, page, row, 0)
    BY <1>8, <1>9
  <2> QED BY <2>1, <2>2, <2>3 DEF u
<1>10. CASE ch = 10
  <2>1. TextOf(NextLine(t, col)) = Terminal!Below(x, row, col) /\ NextLine(t, col).bda.mode = t.bda.mode
    BY <1>1, LineFed DEF row
  <2>2. u = NextLine(t, col)
    BY <1>7, <1>10 DEF CarriageReturn, LineFeed, Backspace
  <2>3. Terminal!Typed(x, ch) = Terminal!Below(x, row, col)
    BY <1>8, <1>10
  <2> QED BY <2>1, <2>2, <2>3 DEF u
<1>11. CASE ch = 8 /\ col > 0
  <2>1. col - 1 \in Nat
    BY <1>1, <1>11
  <2>2. /\ TextOf(SetCursorPos(t, page, row, col - 1)) = Terminal!Moved(TextOf(t), page, row, col - 1)
        /\ SetCursorPos(t, page, row, col - 1).bda.mode = t.bda.mode
    BY <1>1, <2>1, CursorMoved, ZenonT(60)
  <2>3. u = SetCursorPos(t, page, row, col - 1)
    BY <1>7, <1>11 DEF CarriageReturn, LineFeed, Backspace
  <2>4. Terminal!Typed(x, ch) = Terminal!Moved(x, page, row, col - 1)
    BY <1>1, <1>8, <1>11
  <2> QED BY <2>2, <2>3, <2>4 DEF u
<1>12. CASE ch = 8 /\ ~(col > 0)
  <2>1. u = t
    BY <1>7, <1>12 DEF CarriageReturn, LineFeed, Backspace
  <2>2. Terminal!Typed(x, ch) = x
    BY <1>1, <1>8, <1>12
  <2> QED BY <2>1, <2>2 DEF u
<1>13. CASE ch \notin {8, 10, 13} /\ col + 1 >= cols
  <2>1. u = NextLine(d, 0)
    BY <1>7, <1>13 DEF CarriageReturn, LineFeed, Backspace
  <2>2. TextOf(NextLine(d, 0)) = Terminal!Below(TextOf(d), Cursor(d)[1], 0)
        /\ NextLine(d, 0).bda.mode = d.bda.mode
    BY <1>4, LineFed
  <2>3. Terminal!Typed(x, ch) = Terminal!Below(y, row, 0)
    <3>1. col >= cols - 1
      BY <1>1, <1>13
    <3> QED BY <1>8, <1>13, <3>1
  <2> QED BY <1>5, <1>6, <2>1, <2>2, <2>3 DEF u
<1>14. CASE ch \notin {8, 10, 13} /\ ~(col + 1 >= cols)
  <2>1. u = SetCursorPos(d, page, row, col + 1)
    BY <1>7, <1>14 DEF CarriageReturn, LineFeed, Backspace
  <2>2. col + 1 \in Nat
    BY <1>1
  <2>3. TextOf(SetCursorPos(d, page, row, col + 1)) = Terminal!Moved(TextOf(d), page, row, col + 1)
        /\ SetCursorPos(d, page, row, col + 1).bda.mode = d.bda.mode
    BY <1>1, <1>4, <2>2, CursorMoved, ZenonT(60)
  <2>4. Terminal!Typed(x, ch) = Terminal!Moved(y, page, row, col + 1)
    <3>1. ~(col >= cols - 1)
      BY <1>1, <1>14
    <3> QED BY <1>8, <1>14, <3>1
  <2> QED BY <1>5, <1>6, <2>1, <2>3, <2>4 DEF u
<1> QED BY <1>9, <1>10, <1>11, <1>12, <1>13, <1>14

-----------------------------------------------------------------------------
(* Windows, and an emptied screen. *)

\* AH=06h and AH=07h in a text mode other than 07h.
LEMMA WindowScrolled ==
  ASSUME NEW t, Screen(t), t.bda.mode \notin GraphicsModes, t.bda.mode # 7,
         NEW x \in Windows, NEW color
  PROVE  \A back \in BOOLEAN :
           TextOf(ScrollWindow(t, x, color, back)) = Terminal!Shifted(TextOf(t), x, color, Shift(x, back))
<1> DEFINE cols == t.bda.cols
           cut == [x EXCEPT !.right = Lesser(@, cols - 1), !.bottom = Lesser(@, LastRow(t))]
<1>1. t.bda.mode \in 0..3 /\ LastRow(t) = ScreenRows - 1
  <2>1. t.bda.mode \in KnownModes
    BY DEF Screen, BdaOK
  <2> QED BY <2>1, PlacesAreNumbers DEF KnownModes
<1>2. \A back \in BOOLEAN : ScrollWindow(t, x, color, back) = Scrolled(t, TextLayout(cols), cut, color, back)
  BY <1>1 DEF ScrollWindow
<1>3. OnScreen(cut, x, cols)
  <2>1. /\ x.lines \in Nat /\ x.top \in Nat /\ x.left \in Nat /\ x.bottom \in Nat /\ x.right \in Nat
    BY DEF Windows, Octet
  <2>2. {"lines", "top", "left", "bottom", "right"} \subseteq DOMAIN x
    BY DEF Windows
  <2>3. /\ cut.lines = x.lines /\ cut.top = x.top /\ cut.left = x.left
        /\ cut.bottom = Lesser(x.bottom, LastRow(t)) /\ cut.right = Lesser(x.right, cols - 1)
    BY <2>2
  <2> HIDE DEF cut, cols
  <2> QED BY <1>1, <2>1, <2>3 DEF OnScreen
<1> HIDE DEF cut
<1>4. TextOf(Scrolled(t, TextLayout(cols), cut, color, TRUE)) = Terminal!Shifted(TextOf(t), x, color, Shift(x, TRUE))
  BY <1>3, WindowShifted, ZenonT(60)
<1>5. TextOf(Scrolled(t, TextLayout(cols), cut, color, FALSE)) = Terminal!Shifted(TextOf(t), x, color, Shift(x, FALSE))
  BY <1>3, WindowShifted, ZenonT(60)
<1> SUFFICES ASSUME NEW back \in BOOLEAN
             PROVE  TextOf(ScrollWindow(t, x, color, back)) = Terminal!Shifted(TextOf(t), x, color, Shift(x, back))
  OBVIOUS
<1>6. CASE back = TRUE
  <2>1. ScrollWindow(t, x, color, TRUE) = Scrolled(t, TextLayout(cols), cut, color, TRUE)
    BY <1>2
  <2> QED BY <1>4, <1>6, <2>1
<1>7. CASE back = FALSE
  <2>1. ScrollWindow(t, x, color, FALSE) = Scrolled(t, TextLayout(cols), cut, color, FALSE)
    BY <1>2
  <2> QED BY <1>5, <1>7, <2>1
<1> QED BY <1>6, <1>7

\* The memory after some bytes have been poked, from the first on.
PokedRight(g, t, bytes, n) ==
  /\ Reached(t, g) /\ DOMAIN g.b.vram = DOMAIN t.b.vram
  /\ \A p \in DOMAIN t.b.vram : p \in Nat /\ p < VramSize(t)
       => g.b.vram[p] = IF p < n THEN bytes[p] ELSE t.b.vram[p]

\* One byte more.
LEMMA PokedStep ==
  ASSUME NEW t, Screen(t), NEW bytes, NEW n \in Nat, NEW g, PokedRight(g, t, bytes, n)
  PROVE  PokedRight(Accessed(g, Poke("B800", n, bytes[n])), t, bytes, n + 1)
<1> DEFINE x == bytes[n]
           u == Accessed(g, Poke("B800", n, x))
<1>1. Reached(t, g) /\ DOMAIN g.b.vram = DOMAIN t.b.vram
  BY DEF PokedRight
<1>2. \A p \in DOMAIN t.b.vram : p \in Nat /\ p < VramSize(t)
        => g.b.vram[p] = IF p < n THEN bytes[p] ELSE t.b.vram[p]
  BY DEF PokedRight
<1>3. Screen(g) /\ g.type = t.type
  BY <1>1, ReachedScreen DEF Reached
<1>4. VramSize(g) = VramSize(t)
  BY <1>3 DEF VramSize, IsEgaVga
<1> HIDE DEF x
<1>5. u = MemoryWrite(g, "B800", n, x)
  BY DEF Accessed, Poke
<1>6. u = WriteByte(g, n, x)
  BY <1>3, <1>5, MemoryWriteText
<1> HIDE DEF u
<1>7. Reached(g, u) /\ DOMAIN u.b.vram = DOMAIN g.b.vram
  BY <1>3, <1>6, WriteByteIs
<1>8. \A p \in DOMAIN g.b.vram : u.b.vram[p] = IF p = n /\ n < VramSize(g) THEN x ELSE g.b.vram[p]
  BY <1>3, <1>6, WriteByteIs
<1>9. Reached(t, u)
  BY <1>1, <1>7, ReachedBoth
<1>10. ASSUME NEW p \in DOMAIN t.b.vram, p \in Nat, p < VramSize(t)
       PROVE  u.b.vram[p] = IF p < n + 1 THEN bytes[p] ELSE t.b.vram[p]
  <2>1. u.b.vram[p] = IF p = n THEN x ELSE g.b.vram[p]
    BY <1>1, <1>4, <1>8, <1>10
  <2>2. g.b.vram[p] = IF p < n THEN bytes[p] ELSE t.b.vram[p]
    BY <1>2, <1>10
  <2>3. p < n + 1 <=> p < n \/ p = n
    BY <1>10
  <2>4. ~(n < n)
    OBVIOUS
  <2> QED BY <2>1, <2>2, <2>3, <2>4 DEF x
<1> QED BY <1>1, <1>7, <1>9, <1>10 DEF PokedRight, u, x

\* All bytes.
LEMMA PokedBytes ==
  ASSUME NEW t, Screen(t), NEW n \in Nat, NEW bytes
  PROVE  PokedRight(Poked(t, "B800", n, bytes), t, bytes, n)
<1> DEFINE pokes == [i \in 1..n |-> Poke("B800", i - 1, bytes[i - 1])]
<1>1. Len(pokes) = n
  BY PokedLength
<1>2. \A i \in 1..n : pokes[i] = Poke("B800", i - 1, bytes[i - 1])
  OBVIOUS
<1>3. Poked(t, "B800", n, bytes) = Accesses(t, pokes)
  BY DEF Poked
<1> HIDE DEF pokes
<1>4. PICK f : Run(f, t, pokes, n) /\ Accesses(t, pokes) = f[n]
  BY <1>1, AccessesRun
<1>5. f[0] = t /\ \A i \in 1..n : f[i] = Accessed(f[i-1], pokes[i])
  <2>1. Run(f, t, pokes, n)
    BY <1>4
  <2>2. f[0] = t
    BY <2>1 DEF Run
  <2>3. \A i \in 1..n : f[i] = Accessed(f[i-1], pokes[i])
    BY <2>1 DEF Run
  <2> QED BY <2>2, <2>3
<1> DEFINE S == {i \in Nat : i <= n => PokedRight(f[i], t, bytes, i)}
<1>6. 0 \in S
  <2>1. PokedRight(t, t, bytes, 0)
    BY ReachedItself DEF PokedRight
  <2> QED BY <1>5, <2>1
<1>7. ASSUME NEW i \in S PROVE i + 1 \in S
  <2> SUFFICES ASSUME i + 1 <= n PROVE PokedRight(f[i+1], t, bytes, i + 1)
    OBVIOUS
  <2>1. i \in Nat /\ i + 1 \in 1..n /\ (i + 1) - 1 = i /\ i <= n
    OBVIOUS
  <2>2. PokedRight(f[i], t, bytes, i)
    BY <2>1
  <2>3. f[i+1] = Accessed(f[i], Poke("B800", i, bytes[i]))
    BY <1>2, <1>5, <2>1
  <2> QED BY <2>1, <2>2, <2>3, PokedStep
<1>8. S = Nat
  <2> HIDE DEF S
  <2>1. S \subseteq Nat
    BY DEF S
  <2> QED BY <1>6, <1>7, <2>1, Induction
<1>9. PokedRight(f[n], t, bytes, n)
  BY <1>8
<1> QED BY <1>3, <1>4, <1>9

\* A text screen that has been emptied.
LEMMA TextEmptied ==
  ASSUME NEW t, Screen(t), NEW mode, mode \notin GraphicsModes
  PROVE  \A n \in TextCells : /\ Emptied(t, mode).b.vram[2*n] = 32
                              /\ Emptied(t, mode).b.vram[2*n+1] = 7
<1> DEFINE blanks == [i \in Nat |-> IF i % 2 = 0 THEN Space ELSE LightGray]
           N == 2 * ScreenRows * Wide
           u == Emptied(t, mode)
<1>1. Filled(t, "B800", N, LAMBDA i : IF i % 2 = 0 THEN Space ELSE LightGray) = Poked(t, "B800", N, blanks)
  <2>1. \A n \in Nat : \A i \in 1..n : i - 1 \in Nat
    OBVIOUS
  <2> QED BY <2>1, SizesAreNumbers DEF Filled, Poked
<1>2. u = Poked(t, "B800", N, blanks)
  BY <1>1 DEF Emptied, GraphicsModes
<1>3. \A i \in Nat : blanks[i] = IF i % 2 = 0 THEN 32 ELSE 7
  BY DEF Space, LightGray
<1>4. N \in Nat
  BY SizesAreNumbers
<1> HIDE DEF blanks, u
<1>5. PokedRight(u, t, blanks, N)
  BY <1>2, <1>4, PokedBytes
<1>6. TextBytes \subseteq DOMAIN t.b.vram
  BY DEF Screen, BufferOK
<1> SUFFICES ASSUME NEW n \in TextCells PROVE u.b.vram[2*n] = 32 /\ u.b.vram[2*n+1] = 7
  BY DEF u
<1>7. n \in Nat /\ 2*n \in TextBytes /\ 2*n+1 \in TextBytes /\ 2*n < VramSize(t) /\ 2*n+1 < VramSize(t)
  BY CellBytes
<1>8. 2*n < N /\ 2*n+1 < N /\ 2*n \in Nat /\ 2*n+1 \in Nat
  <2> HIDE DEF N
  <2> QED BY <1>4, <1>7 DEF TextBytes, N
<1> HIDE DEF N
<1>9. u.b.vram[2*n] = blanks[2*n] /\ u.b.vram[2*n+1] = blanks[2*n+1]
  BY <1>5, <1>6, <1>7, <1>8 DEF PokedRight
<1>10. (2*n) % 2 = 0 /\ (2*n+1) % 2 # 0
  BY <1>7
<1> QED BY <1>3, <1>8, <1>9, <1>10

-----------------------------------------------------------------------------
(* Modes. *)

\* The cells of a mode set.
WipedCells(cells, clear) == IF clear THEN [n \in TextCells |-> <<32, 7>>] ELSE cells

\* The columns of a mode.
ColsOf(mode) == IF mode \in {0, 1} THEN Narrow ELSE Wide

\* A screen that is emptied.
LEMMA WipedIs ==
  ASSUME NEW m, NEW cols, NEW cells, NEW cursors, NEW p, NEW mark, NEW clear
  PROVE  Terminal!Wiped(TextShown(m, cols, cells, cursors, p, mark), clear)
           = TextShown(m, cols, WipedCells(cells, clear), cursors, p, mark)
<1> DEFINE x == TextShown(m, cols, cells, cursors, p, mark)
           new == WipedCells(cells, clear)
<1>1. x.cells = cells
  BY DEF TextShown
<1> HIDE DEF x
<1>2. Terminal!Wiped(x, clear) = WithCells(x, WipedCells(x.cells, clear))
  BY DEF Terminal!Wiped, Terminal!All, Terminal!Blank, TextCells, WipedCells, WithCells
<1>3. Terminal!Wiped(x, clear) = WithCells(x, new)
  BY <1>1, <1>2
<1> HIDE DEF new
<1> QED BY <1>3, WithCellsIs DEF x, new

\* A screen in another text mode.
LEMMA SetIs ==
  ASSUME NEW m, NEW cols, NEW cells, NEW cursors, NEW p, NEW mark, NEW mode, NEW clear
  PROVE  Terminal!Set(TextShown(m, cols, cells, cursors, p, mark), mode, clear)
           = TextShown(mode = 7, ColsOf(mode), WipedCells(cells, clear), CursorsWith(cursors, 0, 0, 0), p,
                       MarkAfter(p, mark, ColsOf(mode), 0, 0, 0))
<1> DEFINE x == TextShown(m, cols, cells, cursors, p, mark)
           new == WipedCells(cells, clear)
           y == TextShown(m, cols, new, cursors, p, mark)
           mono == mode = 7
           wide == ColsOf(mode)
           z == TextShown(mono, wide, new, cursors, p, mark)
<1>1. Terminal!Wiped(x, clear) = y
  BY WipedIs
<1> HIDE DEF x, y, mono, wide, new
<1>2. WithMode(y, mono, wide) = z
  BY WithModeIs DEF y
<1>3. Terminal!Set(x, mode, clear) = Terminal!Moved(WithMode(Terminal!Wiped(x, clear), mono, wide), 0, 0, 0)
  BY DEF Terminal!Set, WithMode, mono, wide, ColsOf
<1>4. Terminal!Set(x, mode, clear) = Terminal!Moved(z, 0, 0, 0)
  BY <1>1, <1>2, <1>3
<1>5. Terminal!Moved(z, 0, 0, 0)
        = TextShown(mono, wide, new, CursorsWith(cursors, 0, 0, 0), p, MarkAfter(p, mark, wide, 0, 0, 0))
  BY MovedIs
<1> QED BY <1>4, <1>5 DEF x, new, mono, wide

\* The cells after a mode set.
LEMMA CellsWiped ==
  ASSUME NEW t, Screen(t), NEW mode, mode \notin GraphicsModes, NEW clear, NEW u,
         u.b.vram = MemoryAfter(t, mode, clear)
  PROVE  CellsOf(u) = WipedCells(CellsOf(t), clear)
<1>1. CASE clear
  <2>1. u.b.vram = Emptied(t, mode).b.vram
    BY <1>1 DEF MemoryAfter
  <2>2. \A n \in TextCells : u.b.vram[2*n] = 32 /\ u.b.vram[2*n+1] = 7
    BY <2>1, TextEmptied
  <2> QED BY <1>1, <2>2 DEF CellsOf, WipedCells
<1>2. CASE ~clear
  <2>1. u.b.vram = t.b.vram
    BY <1>2 DEF MemoryAfter
  <2> QED BY <1>2, <2>1 DEF CellsOf, WipedCells
<1> QED BY <1>1, <1>2

\* AH=00h from a text mode to a text mode.
LEMMA TextModeSet ==
  ASSUME NEW t, Screen(t), NEW mode \in {0, 1, 2, 3, 7}, NEW clear
  PROVE  /\ TextOf(SetVideoMode(t, mode, clear)) = Terminal!Set(TextOf(t), mode, clear)
         /\ SetVideoMode(t, mode, clear).bda.mode = mode
<1> DEFINE set == SetVideoMode(t, mode, clear)
           cells == WipedCells(CellsOf(t), clear)
           p == t.bda.page
           wide == ColsOf(mode)
           mono == mode = 7
           cursors == CursorsWith(t.bda.cursors, 0, 0, 0)
           mark == MarkAfter(p, t.b.cursor, wide, 0, 0, 0)
           m == t.bda.mode = 7
<1>1. mode \in KnownModes /\ mode \notin GraphicsModes
  BY DEF KnownModes, GraphicsModes, CgaModes, PlanarModes
<1>0. SetByMode(t, set, mode, clear)
  BY SetVideoModeIs
<1> HIDE DEF set
<1>2. set.b.vram = MemoryAfter(t, mode, clear)
  BY <1>0 DEF SetByMode
<1>3. /\ set.bda.mode = mode /\ set.bda.cols = TextCols(mode) /\ set.bda.page = t.bda.page
      /\ set.bda.cursors = [t.bda.cursors EXCEPT ![0] = <<0, 0>>]
      /\ set.b.cursor = IF t.bda.page = 0 THEN 0 ELSE t.b.cursor
  BY <1>0, <1>1 DEF SetByMode
<1>4. TextCols(mode) = wide
  BY DEF TextCols, ColsOf
<1>5. set.b.cursor = mark
  <2>1. Location(0, 0, wide) = 0
    BY SizesAssumption DEF Location, ColsOf
  <2> HIDE DEF wide, set
  <2> QED BY <1>3, <2>1 DEF MarkAfter
<1>6. set.bda.cursors = cursors
  BY <1>3 DEF CursorsWith
<1>7. CellsOf(set) = cells
  BY <1>1, <1>2, CellsWiped
<1> HIDE DEF set, cells, cursors, mark, wide, mono, m
<1>8. TextOf(set) = TextShown(mono, wide, cells, cursors, p, mark)
  BY <1>3, <1>4, <1>5, <1>6, <1>7 DEF TextOf, mono
<1>9. TextOf(t) = TextShown(m, t.bda.cols, CellsOf(t), t.bda.cursors, p, t.b.cursor)
  BY DEF TextOf, m
<1>10. Terminal!Set(TextOf(t), mode, clear) = TextShown(mono, wide, cells, cursors, p, mark)
  BY <1>9, SetIs DEF mono, wide, cells, cursors, mark
<1> QED BY <1>3, <1>8, <1>10 DEF set

\* A mode that no BIOS knows clears the screen, and that is all.
LEMMA UnknownModeSet ==
  ASSUME NEW t, Screen(t), NEW mode, mode \notin KnownModes, NEW clear
  PROVE  /\ TextOf(SetVideoMode(t, mode, clear)) = Terminal!Wiped(TextOf(t), clear)
         /\ SetVideoMode(t, mode, clear).bda.mode = t.bda.mode
<1> DEFINE set == SetVideoMode(t, mode, clear)
           cells == WipedCells(CellsOf(t), clear)
           m == t.bda.mode = 7
<1>1. mode \notin GraphicsModes
  BY DEF KnownModes
<1>0. SetByMode(t, set, mode, clear)
  BY SetVideoModeIs
<1> HIDE DEF set
<1>2. set.b.vram = MemoryAfter(t, mode, clear)
  BY <1>0 DEF SetByMode
<1>3. set.bda = t.bda /\ set.b.cursor = t.b.cursor
  BY <1>0 DEF SetByMode
<1>4. CellsOf(set) = cells
  BY <1>1, <1>2, CellsWiped
<1> HIDE DEF cells, m
<1>5. TextOf(set) = TextShown(m, t.bda.cols, cells, t.bda.cursors, t.bda.page, t.b.cursor)
  BY <1>3, <1>4 DEF TextOf, m
<1>6. TextOf(t) = TextShown(m, t.bda.cols, CellsOf(t), t.bda.cursors, t.bda.page, t.b.cursor)
  BY DEF TextOf, m
<1>7. Terminal!Wiped(TextOf(t), clear) = TextShown(m, t.bda.cols, cells, t.bda.cursors, t.bda.page, t.b.cursor)
  BY <1>6, WipedIs DEF cells
<1> QED BY <1>3, <1>5, <1>7 DEF set

-----------------------------------------------------------------------------
(* Requests and what TextScreen makes of them. *)

\* The screen that a restart of the processor leaves, and a page that is chosen.
WarmScreen(x) == [Terminal!FreshScreen EXCEPT !.cells = x.cells, !.mark = x.mark]
PageChosen(x, page) == WithPage(x, page, [x.cursors EXCEPT ![page] = x.cursors[x.page]])

\* Both sides mean the same by graphics.
LEMMA GraphicsIs == Terminal!Graphics = GraphicsModes
BY DEF Terminal!Graphics, GraphicsModes, CgaModes, PlanarModes

\* TextScreen's answer in a text mode, by the request ...
LEMMA AfterIs ==
  ASSUME NEW x, x.on = TRUE, NEW r
  PROVE  /\ r.op = "restart" => Terminal!After(x, r) = Terminal!FreshScreen
         /\ r.op = "warm" => Terminal!After(x, r) = WarmScreen(x)
         /\ r.op = "mode" =>
              /\ r.mode \in GraphicsModes => Terminal!After(x, r) = Terminal!NoScreen
              /\ r.mode \in {0, 1, 2, 3, 7} => Terminal!After(x, r) = Terminal!Set(x, r.mode, r.clear)
              /\ r.mode \notin KnownModes => Terminal!After(x, r) = Terminal!Wiped(x, r.clear)
         /\ r.op = "move" => Terminal!After(x, r) = Terminal!Moved(x, r.page, r.row, r.col)
         /\ r.op = "page" => Terminal!After(x, r) = IF r.page \in 0..7 THEN PageChosen(x, r.page) ELSE x
         /\ r.op = "put" => Terminal!After(x, r) = Terminal!Filled(x, r.ch, r.attr, r.count)
         /\ r.op = "write" => Terminal!After(x, r) = Terminal!Filled(x, r.ch, Unset, r.count)
         /\ r.op = "tty" => Terminal!After(x, r) = Terminal!Typed(x, r.ch)
         /\ r.op = "scroll" => Terminal!After(x, r) = Terminal!Shifted(x, r.w, r.attr, Shift(r.w, r.down))
         /\ r.op \notin {"restart", "warm", "mode", "move", "page", "put", "write", "tty", "scroll"}
              => Terminal!After(x, r) = x
<1> DEFINE y == Terminal!After(x, r)
<1>1. (r.op = "restart" => y = Terminal!FreshScreen) /\ (r.op = "warm" => y = WarmScreen(x))
  BY DEF Terminal!After, WarmScreen
<1>2. CASE r.op = "mode"
  <2>1. r.mode \in GraphicsModes => y = Terminal!NoScreen
    BY <1>2, GraphicsIs DEF Terminal!After
  <2>2. r.mode \in {0, 1, 2, 3, 7} => y = Terminal!Set(x, r.mode, r.clear)
    <3>1. r.mode \in {0, 1, 2, 3, 7} => r.mode \notin GraphicsModes
      BY DEF GraphicsModes, CgaModes, PlanarModes
    <3> QED BY <1>2, <3>1, GraphicsIs DEF Terminal!After
  <2>3. r.mode \notin KnownModes => y = Terminal!Wiped(x, r.clear)
    BY <1>2, GraphicsIs DEF Terminal!After, KnownModes
  <2> QED BY <1>2, <2>1, <2>2, <2>3
<1>3. r.op = "move" => y = Terminal!Moved(x, r.page, r.row, r.col)
  BY DEF Terminal!After
<1>4. CASE r.op = "page"
  <2> DEFINE z == PageChosen(x, r.page)
  <2>1. [x EXCEPT !.page = r.page, !.cursors[r.page] = x.cursors[x.page]] = z
    BY DEF PageChosen, WithPage
  <2>2. y = IF r.page \in 0..7 THEN z ELSE x
    BY <1>4, <2>1 DEF Terminal!After
  <2> QED BY <1>4, <2>2
<1>5. /\ r.op = "put" => y = Terminal!Filled(x, r.ch, r.attr, r.count)
      /\ r.op = "write" => y = Terminal!Filled(x, r.ch, Unset, r.count)
      /\ r.op = "tty" => y = Terminal!Typed(x, r.ch)
  BY DEF Terminal!After, Unset
<1>6. r.op = "scroll" => y = Terminal!Shifted(x, r.w, r.attr, Shift(r.w, r.down))
  BY DEF Terminal!After, Shift
<1>7. r.op \notin {"restart", "warm", "mode", "move", "page", "put", "write", "tty", "scroll"} => y = x
  BY DEF Terminal!After
<1> HIDE DEF y
<1> QED BY <1>1, <1>2, <1>3, <1>4, <1>5, <1>6, <1>7 DEF y

\* ... and in a graphics mode.
LEMMA AfterGraphics ==
  ASSUME NEW r, r.op \notin {"restart", "mode"}
  PROVE  Terminal!After([on |-> FALSE], r) = [on |-> FALSE]
BY DEF Terminal!After

\* What is not seen is not seen by TextScreen.
LEMMA UnseenView ==
  ASSUME NEW t, NEW u, Unseen(t, u)
  PROVE  ViewOf(u) = ViewOf(t)
<1>1. CellsOf(u) = CellsOf(t)
  BY DEF Unseen, SameText, CellsOf
<1>2. TextOf(u) = TextOf(t)
  BY <1>1 DEF Unseen, SameText, TextOf
<1> QED BY <1>2 DEF Unseen, ViewOf

\* Requests that a text screen does not show.
Hidden == {"shape", "where", "read", "pixel", "colors", "palette", "dcc", "in", "peek", "getmode", "font",
           "info", "display", "state"}

\* None of them touches it.
LEMMA HiddenServed ==
  ASSUME NEW t, Screen(t), t.bda.mode \notin GraphicsModes, NEW r \in Requests, r.op \in Hidden
  PROVE  Unseen(t, Served(t, r))
<1> DEFINE u == Served(t, r)
<1> SUFFICES Unseen(t, u)
  OBVIOUS
<1>0. u = Served(t, r)
  OBVIOUS
<1> HIDE DEF u
<1>1. Unseen(t, t)
  BY UnseenItself
<1>2. \A v : Beside(t, v) => Unseen(t, v)
  BY BesideUnseen
<1>3. CASE r.op = "shape"
  <2>1. u = SetCursorShape10(t, r.start, r.end) /\ r.start \in Octet /\ r.end \in Octet
    BY <1>0, <1>3, RequestIs DEF Served
  <2> QED BY <2>1, SetCursorShape10Is
<1>4. CASE r.op = "pixel"
  <2>1. u = WritePixel(t, r.color, r.col, r.row)
    BY <1>0, <1>4 DEF Served
  <2> QED BY <1>1, <2>1, WritePixelIs
<1>5. CASE r.op = "colors"
  <2>1. u = SetColors(t, r.palette, r.x)
    BY <1>0, <1>5 DEF Served
  <2> QED BY <2>1, SetColorsIs
<1>6. CASE r.op = "palette"
  <2>1. u = PaletteRegisters(t, r) /\ Len(r.table) \in Nat /\ r.x \in Nat
    BY <1>0, <1>6, RequestIs DEF Served
  <2> QED BY <1>1, <1>2, <2>1, PaletteRegistersIs
<1>7. CASE r.op = "dcc"
  <2>1. u = DisplayCombination(t, r.set)
    BY <1>0, <1>7 DEF Served
  <2> QED BY <2>1, DisplayCombinationIs
<1>8. CASE r.op \in {"where", "read", "getmode", "font", "info", "display", "state"}
  <2>1. u \in {GetCursorPosition(t), ReadCharAttr(t), GetVideoMode(t), FontInfo(t), GetEgaInfo(t),
               PhysicalDisplay(t), StateInformation(t)}
    BY <1>0, <1>8 DEF Served
  <2>2. u = t \/ Beside(t, u)
    BY <2>1, QuestionsAre
  <2> QED BY <1>1, <1>2, <2>2
<1>9. CASE r.op \in {"in", "peek"}
  <2>1. u = Accessed(t, r)
    BY <1>0, <1>9 DEF Served
  <2>2. Access(r) /\ Quiet(r)
    BY <1>9 DEF Access, Quiet
  <2>3. Reached(t, u) /\ SameText(t.b, u.b)
    BY <2>1, <2>2, AccessedIs
  <2> QED BY <2>3, UnseenReached
<1> QED BY <1>3, <1>4, <1>5, <1>6, <1>7, <1>8, <1>9 DEF Hidden

\* AH=05h
LEMMA PageSelected ==
  ASSUME NEW t, Screen(t), NEW page \in 0..7
  PROVE  TextOf(SelectActivePage(t, page)) = PageChosen(TextOf(t), page)
<1> DEFINE u == SelectActivePage(t, page)
           m == t.bda.mode = 7
           cells == CellsOf(t)
           cols == t.bda.cols
           mark == t.b.cursor
           p == t.bda.page
           new == [t.bda.cursors EXCEPT ![page] = t.bda.cursors[p]]
           x == TextOf(t)
<1>1. Paged(t, u, page)
  <2>1. page \in Octet
    BY DEF Octet
  <2> QED BY <2>1, SelectActivePageIs
<1> HIDE DEF u
<1>2. CellsOf(u) = cells
  BY <1>1 DEF Paged, SameText, CellsOf
<1>3. /\ (u.bda.mode = 7) = m /\ u.bda.cols = cols /\ u.bda.page = page /\ u.b.cursor = mark
      /\ u.bda.cursors = new
  BY <1>1 DEF Paged, SameText, Cursor
<1>4. x.cursors = t.bda.cursors /\ x.page = p
  BY TextOfFields
<1>5. TextOf(t) = TextShown(m, cols, cells, t.bda.cursors, p, mark)
  BY DEF TextOf
<1> HIDE DEF x
<1>6. PageChosen(x, page) = WithPage(x, page, new)
  BY <1>4 DEF PageChosen
<1> HIDE DEF m, cells, cols, new, mark, p
<1>7. TextOf(u) = TextShown(m, cols, cells, new, page, mark)
  BY <1>2, <1>3 DEF TextOf
<1>8. WithPage(x, page, new) = TextShown(m, cols, cells, new, page, mark)
  BY <1>5, WithPageIs DEF x
<1> QED BY <1>6, <1>7, <1>8 DEF u, x

-----------------------------------------------------------------------------
(* TextScreen is implemented. *)

\* What a request makes of a screen is what TextScreen says, unless it leaves
\* that open.
Tells(t, u, r) == Terminal!Loose(ViewOf(t), r) \/ ViewOf(u) = Terminal!After(ViewOf(t), r)

\* A text screen that becomes another.
LEMMA TellsText ==
  ASSUME NEW t, t.bda.mode \notin GraphicsModes, NEW u, u.bda.mode \notin GraphicsModes, NEW r,
         TextOf(u) = Terminal!After(TextOf(t), r)
  PROVE  Tells(t, u, r)
BY DEF Tells, ViewOf

\* Requests in a text mode: the modes ...
LEMMA ModeTold ==
  ASSUME NEW t, Screen(t), t.bda.mode \notin GraphicsModes, NEW r \in Requests, r.op = "mode"
  PROVE  Tells(t, Served(t, r), r)
<1> DEFINE mode == r.mode
           clear == r.clear
           x == TextOf(t)
           u == Served(t, r)
<1>1. u = SetVideoMode(t, mode, clear)
  BY DEF Served
<1>2. x.on = TRUE
  BY TextOfFields
<1>3. ViewOf(t) = x
  BY DEF ViewOf
<1> HIDE DEF x
<1>4. /\ r.mode \in GraphicsModes => Terminal!After(x, r) = Terminal!NoScreen
      /\ r.mode \in {0, 1, 2, 3, 7} => Terminal!After(x, r) = Terminal!Set(x, r.mode, r.clear)
      /\ r.mode \notin KnownModes => Terminal!After(x, r) = Terminal!Wiped(x, r.clear)
  BY <1>2, AfterIs
<1> SUFFICES ViewOf(u) = Terminal!After(x, r)
  BY <1>3 DEF Tells
<1> HIDE DEF mode, clear, u
<1>5. CASE mode \in GraphicsModes
  <2>1. SetByMode(t, u, mode, clear)
    BY <1>1, SetVideoModeIs
  <2>2. u.bda.mode = mode
    BY <1>5, <2>1 DEF SetByMode, KnownModes
  <2>3. ViewOf(u) = Terminal!NoScreen
    BY <1>5, <2>2 DEF ViewOf, Terminal!NoScreen
  <2> QED BY <1>4, <1>5, <2>3 DEF mode
<1>6. CASE mode \in {0, 1, 2, 3, 7}
  <2>1. TextOf(u) = Terminal!Set(x, mode, clear) /\ u.bda.mode = mode
    BY <1>1, <1>6, TextModeSet DEF x
  <2>2. mode \notin GraphicsModes
    BY <1>6 DEF GraphicsModes, CgaModes, PlanarModes
  <2>3. ViewOf(u) = TextOf(u)
    BY <2>1, <2>2 DEF ViewOf
  <2> QED BY <1>4, <1>6, <2>1, <2>3 DEF mode, clear
<1>7. CASE mode \notin KnownModes
  <2>1. TextOf(u) = Terminal!Wiped(x, clear) /\ u.bda.mode = t.bda.mode
    BY <1>1, <1>7, UnknownModeSet DEF x
  <2>2. ViewOf(u) = TextOf(u)
    BY <2>1 DEF ViewOf
  <2> QED BY <1>4, <1>7, <2>1, <2>2 DEF mode, clear
<1> QED BY <1>5, <1>6, <1>7 DEF KnownModes

\* ... and the others.
LEMMA TextTold ==
  ASSUME NEW t, Screen(t), t.bda.mode \notin GraphicsModes, NEW r \in Requests, r.op # "mode"
  PROVE  Tells(t, Served(t, r), r)
<1> DEFINE x == TextOf(t)
           u == Served(t, r)
           y == Terminal!After(x, r)
<1> SUFFICES Tells(t, u, r)
  OBVIOUS
<1>0. u = Served(t, r)
  OBVIOUS
<1>1. u.bda.mode = t.bda.mode
  BY ServedIs
<1>2. x.on = TRUE
  BY TextOfFields
<1> HIDE DEF u
<1>3. TextOf(u) = y => Tells(t, u, r)
  <2> SUFFICES ASSUME TextOf(u) = y PROVE Tells(t, u, r)
    OBVIOUS
  <2> QED BY <1>1, TellsText
<1> HIDE DEF x, y
<1>4. CASE r.op = "move"
  <2>1. y = Terminal!Moved(x, r.page, r.row, r.col)
    BY <1>2, <1>4, AfterIs DEF y
  <2>2. u = SetCursorPos(t, r.page, r.row, r.col) /\ r.page \in 0..7 /\ r.row \in Nat /\ r.col \in Nat
    BY <1>0, <1>4, RequestIs DEF Served
  <2>3. TextOf(u) = Terminal!Moved(TextOf(t), r.page, r.row, r.col)
    BY <2>2, CursorMoved
  <2> QED BY <1>3, <2>1, <2>3 DEF x
<1>5. CASE r.op = "page"
  <2>1. y = IF r.page \in 0..7 THEN PageChosen(x, r.page) ELSE x
    BY <1>2, <1>5, AfterIs DEF y
  <2>2. u = SelectActivePage(t, r.page) /\ r.page \in Octet
    BY <1>0, <1>5, RequestIs DEF Served
  <2>3. CASE r.page \in 0..7
    <3>1. TextOf(u) = PageChosen(TextOf(t), r.page)
      BY <2>2, <2>3, PageSelected
    <3> QED BY <1>3, <2>1, <2>3, <3>1 DEF x
  <2>4. CASE r.page \notin 0..7
    <3>1. Paged(t, u, r.page)
      BY <2>2, SelectActivePageIs
    <3>2. u = t
      BY <2>4, <3>1 DEF Paged
    <3> QED BY <1>3, <2>1, <2>4, <3>2 DEF x
  <2> QED BY <2>3, <2>4
<1>6. CASE r.op = "scroll"
  <2>1. y = Terminal!Shifted(x, r.w, r.attr, Shift(r.w, r.down))
    BY <1>2, <1>6, AfterIs DEF y
  <2>2. u = ScrollWindow(t, r.w, r.attr, r.down) /\ r.w \in Windows /\ r.down \in BOOLEAN
    BY <1>0, <1>6, RequestIs DEF Served
  <2>3. CASE t.bda.mode = 7
    <3>1. TextOf(t).on = TRUE /\ TextOf(t).mono = TRUE
      BY <2>3, TextOfFields
    <3>2. ViewOf(t).on = TRUE /\ ViewOf(t).mono = TRUE
      BY <3>1 DEF ViewOf
    <3> QED BY <1>6, <3>2 DEF Tells, Terminal!Loose
  <2>4. CASE t.bda.mode # 7
    <3>1. \A back \in BOOLEAN : TextOf(ScrollWindow(t, r.w, r.attr, back))
                                  = Terminal!Shifted(TextOf(t), r.w, r.attr, Shift(r.w, back))
      BY <2>2, <2>4, WindowScrolled
    <3>2. TextOf(u) = Terminal!Shifted(TextOf(t), r.w, r.attr, Shift(r.w, r.down))
      BY <2>2, <3>1
    <3> QED BY <1>3, <2>1, <3>2 DEF x
  <2> QED BY <2>3, <2>4
<1>7. CASE r.op = "put"
  <2>1. y = Terminal!Filled(x, r.ch, r.attr, r.count)
    BY <1>2, <1>7, AfterIs DEF y
  <2>2. u = WriteText(t, r.ch, r.attr, r.count) /\ r.attr \in Octet \union {Unset} /\ r.count \in Nat
    BY <1>0, <1>7, RequestIs DEF Served, WriteCharAttr
  <2>3. TextOf(u) = Terminal!Filled(TextOf(t), r.ch, r.attr, r.count)
    BY <2>2, CharactersFilled
  <2> QED BY <1>3, <2>1, <2>3 DEF x
<1>8. CASE r.op = "write"
  <2>1. y = Terminal!Filled(x, r.ch, Unset, r.count)
    BY <1>2, <1>8, AfterIs DEF y
  <2>2. u = WriteText(t, r.ch, Unset, r.count) /\ Unset \in Octet \union {Unset} /\ r.count \in Nat
    BY <1>0, <1>8, RequestIs DEF Served
  <2>3. TextOf(u) = Terminal!Filled(TextOf(t), r.ch, Unset, r.count)
    BY <2>2, CharactersFilled
  <2> QED BY <1>3, <2>1, <2>3 DEF x
<1>9. CASE r.op = "tty"
  <2>1. y = Terminal!Typed(x, r.ch)
    BY <1>2, <1>9, AfterIs DEF y
  <2>2. u = Teletype(t, r.ch, r.fg) /\ r.ch \in Octet
    BY <1>0, <1>9, RequestIs DEF Served
  <2>3. TextOf(u) = Terminal!Typed(TextOf(t), r.ch)
    BY <2>2, TextTyped
  <2> QED BY <1>3, <2>1, <2>3 DEF x
<1>10. CASE r.op \in Hidden
  <2>1. y = x
    BY <1>2, <1>10, AfterIs DEF y, Hidden
  <2>2. Unseen(t, u)
    BY <1>0, <1>10, HiddenServed
  <2>3. ViewOf(u) = ViewOf(t)
    BY <2>2, UnseenView
  <2>4. TextOf(u) = TextOf(t)
    BY <1>1, <2>3 DEF ViewOf
  <2> QED BY <1>3, <2>1, <2>4 DEF x
<1>11. CASE r.op \in {"out", "poke"}
  BY <1>11 DEF Tells, Terminal!Loose
<1>12. \/ r.op \in {"move", "page", "scroll", "put", "write", "tty", "out", "poke"}
       \/ r.op \in Hidden
  BY RequestIs DEF Hidden
<1> QED BY <1>4, <1>5, <1>6, <1>7, <1>8, <1>9, <1>10, <1>11, <1>12

\* A request in a graphics mode stays there, or sets a mode.
LEMMA GraphicsTold ==
  ASSUME NEW t, Screen(t), t.bda.mode \in GraphicsModes, NEW r \in Requests
  PROVE  Tells(t, Served(t, r), r)
<1>1. ViewOf(t) = [on |-> FALSE]
  BY DEF ViewOf
<1>2. CASE r.op = "mode"
  BY <1>1, <1>2 DEF Tells, Terminal!Loose
<1>3. CASE r.op # "mode"
  <2>1. Served(t, r).bda.mode = t.bda.mode
    BY <1>3, ServedIs
  <2>2. ViewOf(Served(t, r)) = [on |-> FALSE]
    BY <2>1 DEF ViewOf
  <2>3. r.op # "restart"
    BY RequestIs
  <2>4. Terminal!After([on |-> FALSE], r) = [on |-> FALSE]
    BY <1>3, <2>3, AfterGraphics
  <2> QED BY <1>1, <2>2, <2>4 DEF Tells
<1> QED BY <1>2, <1>3

-----------------------------------------------------------------------------
(* Restarts, and the theorem. *)

\* Cursors and cells after a reset.
Homes  == [p \in 0..7 |-> <<0, 0>>]
Blanks == [n \in TextCells |-> <<32, 7>>]

\* The data area after a reset.
LEMMA ResetArea ==
  ASSUME NEW type
  PROVE  /\ BdaReset(type).mode = 3 /\ BdaReset(type).cols = Wide /\ BdaReset(type).page = 0
         /\ BdaReset(type).cursors = Homes
BY DEF BdaReset, Homes

\* A screen with this data area.
LEMMA ResetText ==
  ASSUME NEW u, NEW type, u.bda = BdaReset(type)
  PROVE  ViewOf(u) = TextShown(FALSE, Wide, CellsOf(u), Homes, 0, u.b.cursor)
<1>1. u.bda.mode = 3 /\ u.bda.cols = Wide /\ u.bda.page = 0 /\ u.bda.cursors = Homes
  BY ResetArea
<1>2. u.bda.mode \notin GraphicsModes /\ (u.bda.mode = 7) = FALSE
  BY <1>1 DEF GraphicsModes, CgaModes, PlanarModes
<1>3. ViewOf(u) = TextShown((u.bda.mode = 7), Wide, CellsOf(u), Homes, 0, u.b.cursor)
  BY <1>1, <1>2 DEF ViewOf, TextOf
<1> QED BY <1>2, <1>3

\* The memory after a reset.
LEMMA ResetCells ==
  ASSUME NEW u, NEW mem, u.b.vram = BufferReset(mem).vram
  PROVE  CellsOf(u) = Blanks
<1> DEFINE text == 2 * ScreenRows * Wide
<1>1. u.b.vram = [a \in Memory |-> IF a >= text THEN mem[a] ELSE IF a % 2 = 0 THEN Space ELSE LightGray]
  BY DEF BufferReset
<1>2. ASSUME NEW n \in TextCells PROVE u.b.vram[2*n] = 32 /\ u.b.vram[2*n+1] = 7
  <2> DEFINE cells == ScreenRows * Wide
  <2>1. cells \in Nat /\ text = 2 * cells /\ n \in 0..cells - 1
    BY SizesAssumption DEF TextCells
  <2>2. 4 * Plane \in Nat /\ text <= 4 * Plane
    BY SizesAssumption
  <2> HIDE DEF text, cells
  <2>3. 2*n \in Memory /\ 2*n+1 \in Memory /\ ~(2*n >= text) /\ ~(2*n+1 >= text)
    BY <2>1, <2>2 DEF Memory
  <2>4. (2*n) % 2 = 0 /\ (2*n+1) % 2 = 1
    BY <2>1
  <2> QED BY <1>1, <2>3, <2>4 DEF Space, LightGray
<1> QED BY <1>2 DEF CellsOf, Blanks

\* What TextScreen says of restarts.
LEMMA FreshScreenIs ==
  /\ Terminal!FreshScreen = TextShown(FALSE, Wide, Blanks, Homes, 0, 0)
  /\ \A x : WarmScreen(x) = TextShown(FALSE, Wide, x.cells, Homes, 0, x.mark)
<1>1. Terminal!FreshScreen = TextShown(FALSE, Wide, Blanks, Homes, 0, 0)
  BY DEF Terminal!FreshScreen, Terminal!All, Terminal!Blank, TextShown, Blanks, Homes, TextCells
<1>2. ASSUME NEW x PROVE WarmScreen(x) = TextShown(FALSE, Wide, x.cells, Homes, 0, x.mark)
  <2> DEFINE y == TextShown(FALSE, Wide, Blanks, Homes, 0, 0)
  <2>1. WarmScreen(x) = [y EXCEPT !.cells = x.cells, !.mark = x.mark]
    BY <1>1 DEF WarmScreen
  <2> QED BY <2>1 DEF TextShown
<1> QED BY <1>1, <1>2

\* A step of the services is one of TextScreen, or none.
LEMMA TextStep == Inv /\ [Next]_vars => [Terminal!Next]_<<TextView, asked, left>>
<1> SUFFICES ASSUME Inv, [Next]_vars PROVE [Terminal!Next]_<<TextView, asked, left>>
  OBVIOUS
<1>0. case \in Cases /\ Screen(s)
  BY DEF Inv
<1>1. TextView = ViewOf(s) /\ TextView' = ViewOf(s')
  BY DEF TextView, ViewOf, TextOf, TextShown, CellsOf, TextCells
<1>2. ASSUME left > 0, left' = left - 1, Tells(s, s', asked') PROVE Terminal!Next
  BY <1>1, <1>2 DEF Tells, Terminal!Next
<1>3. ASSUME Unseen(s, s'), asked' = asked, left' = left
      PROVE  [Terminal!Next]_<<TextView, asked, left>>
  <2>1. ViewOf(s') = ViewOf(s)
    BY <1>3, UnseenView
  <2> QED BY <1>1, <1>3, <2>1
<1>4. ASSUME NEW r \in case.ops, Ask(r) PROVE Terminal!Next
  <2> DEFINE t == [s EXCEPT !.reply = <<>>]
  <2>1. s' = Served(t, r) /\ asked' = r /\ left > 0 /\ left' = left - 1
    BY <1>4 DEF Ask
  <2>2. r \in Requests
    BY <1>0, CasesAssumption
  <2>3. Screen(t) /\ Unseen(s, t)
    BY <1>0, CleanIs
  <2> HIDE DEF t
  <2>4. Tells(t, s', r)
    <3>1. CASE t.bda.mode \in GraphicsModes
      BY <2>1, <2>2, <2>3, <3>1, GraphicsTold
    <3>2. CASE t.bda.mode \notin GraphicsModes /\ r.op = "mode"
      BY <2>1, <2>2, <2>3, <3>2, ModeTold
    <3>3. CASE t.bda.mode \notin GraphicsModes /\ r.op # "mode"
      BY <2>1, <2>2, <2>3, <3>3, TextTold
    <3> QED BY <3>1, <3>2, <3>3
  <2>5. ViewOf(t) = ViewOf(s)
    BY <2>3, UnseenView
  <2>6. Tells(s, s', asked')
    BY <2>1, <2>4, <2>5 DEF Tells
  <2> QED BY <1>2, <2>1, <2>6
<1>5. CASE Refresh
  <2>1. s' = [s EXCEPT !.b.dirty = FALSE] /\ asked' = asked /\ left' = left
    BY <1>5 DEF Refresh
  <2>2. Unseen(s, s')
    BY <1>0, <2>1, CleanIs
  <2> QED BY <1>3, <2>1, <2>2
<1>6. CASE Restart
  <2> DEFINE u == Fresh(s.type, s.b.vram)
  <2>1. s' = u /\ asked'.op = "restart" /\ left > 0 /\ left' = left - 1
    BY <1>6 DEF Restart
  <2>2. u.bda = BdaReset(s.type) /\ u.b.vram = BufferReset(s.b.vram).vram /\ u.b.cursor = 0
    <3> DEFINE type == s.type
               mem == s.b.vram
    <3>1. type \in Types
      BY <1>0 DEF Screen
    <3> HIDE DEF type, mem
    <3>2. /\ Fresh(type, mem).bda = BdaReset(type) /\ Fresh(type, mem).b.vram = BufferReset(mem).vram
          /\ Fresh(type, mem).b.cursor = 0
      BY <3>1, FreshIs
    <3> QED BY <3>2 DEF type, mem
  <2> HIDE DEF u
  <2>3. ViewOf(u) = TextShown(FALSE, Wide, CellsOf(u), Homes, 0, u.b.cursor)
    BY <2>2, ResetText
  <2>4. CellsOf(u) = Blanks
    BY <2>2, ResetCells
  <2>5. ViewOf(u) = Terminal!FreshScreen
    BY <2>2, <2>3, <2>4, FreshScreenIs
  <2>6. Terminal!After(ViewOf(s), asked') = Terminal!FreshScreen
    BY <2>1 DEF Terminal!After
  <2>7. Tells(s, s', asked')
    BY <2>1, <2>5, <2>6 DEF Tells
  <2> QED BY <1>2, <2>1, <2>7
<1>7. CASE WarmRestart
  <2> DEFINE x == TextOf(s)
  <2>1. /\ s' = [s EXCEPT !.bda = BdaReset(s.type), !.reply = <<>>]
        /\ asked'.op = "warm" /\ left > 0 /\ left' = left - 1
    BY <1>7 DEF WarmRestart
  <2>2. s'.bda = BdaReset(s.type) /\ s'.b = s.b
    <3>1. {"b", "bda", "reply"} \subseteq DOMAIN s
      BY <1>0 DEF Screen
    <3> QED BY <2>1, <3>1
  <2>3. CASE s.bda.mode \in GraphicsModes
    <3>1. ViewOf(s) = [on |-> FALSE]
      BY <2>3 DEF ViewOf
    <3>2. Tells(s, s', asked')
      BY <2>1, <3>1 DEF Tells, Terminal!Loose
    <3> QED BY <1>2, <2>1, <3>2
  <2>4. CASE s.bda.mode \notin GraphicsModes
    <3>1. x.on = TRUE /\ x.cells = CellsOf(s) /\ x.mark = s.b.cursor
      BY TextOfFields
    <3>2. ViewOf(s) = x
      BY <2>4 DEF ViewOf
    <3> HIDE DEF x
    <3>3. ViewOf(s') = TextShown(FALSE, Wide, CellsOf(s'), Homes, 0, s'.b.cursor)
      BY <2>2, ResetText
    <3>4. CellsOf(s') = CellsOf(s)
      BY <2>2 DEF CellsOf
    <3>5. ViewOf(s') = WarmScreen(x)
      BY <2>2, <3>1, <3>3, <3>4, FreshScreenIs
    <3>6. Terminal!After(x, asked') = WarmScreen(x)
      BY <2>1, <3>1, AfterIs
    <3>7. Tells(s, s', asked')
      BY <3>2, <3>5, <3>6 DEF Tells
    <3> QED BY <1>2, <2>1, <3>7
  <2> QED BY <2>3, <2>4
<1>8. CASE UNCHANGED vars
  BY <1>1, <1>8 DEF vars
<1> QED BY <1>4, <1>5, <1>6, <1>7, <1>8 DEF Next

\* A case begins with a screen of TextScreen.
LEMMA TextBegins == Init => Terminal!Init
<1> SUFFICES ASSUME Init PROVE Terminal!Init
  OBVIOUS
<1>1. case \in Cases /\ Screen(s)
  BY InvInit DEF Inv
<1>2. TextView = ViewOf(s)
  BY ViewIs
<1>3. asked = [op |-> "none"] /\ left \in Nat
  BY <1>1, CasesAssumption DEF Init
<1>4. ViewOf(s).on => ViewOf(s).cols \in {Narrow, Wide} /\ DOMAIN ViewOf(s).cells = Terminal!All
  <2>1. CASE s.bda.mode \in GraphicsModes
    BY <2>1 DEF ViewOf
  <2>2. CASE s.bda.mode \notin GraphicsModes
    <3>1. ViewOf(s) = TextOf(s)
      BY <2>2 DEF ViewOf
    <3>2. TextOf(s).cols = s.bda.cols /\ TextOf(s).cells = CellsOf(s)
      BY TextOfFields
    <3>3. s.bda.cols \in {Narrow, Wide}
      BY <1>1 DEF Screen, BdaOK
    <3>4. DOMAIN CellsOf(s) = Terminal!All
      BY DEF CellsOf, TextCells, Terminal!All
    <3> QED BY <3>1, <3>2, <3>3, <3>4
  <2> QED BY <2>1, <2>2
<1> QED BY <1>2, <1>3, <1>4 DEF Terminal!Init

\* The video services implement TextScreen: in a text mode the bytes of video
\* memory, the bytes of the data area and the pairs of port writes are a screen
\* of cells with a cursor for each page and one mark, whatever the adapter and
\* the sizes are, and whatever the program asks for.
THEOREM ServicesImplementTextScreen == Spec => TextScreenKept
<1> QED BY InvInit, InvNext, TextBegins, TextStep, PTL DEF Spec, TextScreenKept, Terminal!Spec

=============================================================================
