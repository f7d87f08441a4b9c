----------------------------- MODULE TextScreen -----------------------------
(***************************************************************************)
(* What the BIOS promises a program in a text mode: a screen of cells, one *)
(* cursor for each page, and a mark that the monitor shows.  Scrolling and *)
(* filling are said of the whole screen at once, with neither addresses    *)
(* nor ports nor an order of rows.  VideoServices implements this module.  *)
(*                                                                         *)
(* Cells are numbered along the rows.  In a graphics mode there is no      *)
(* screen to speak of.                                                     *)
(***************************************************************************)
EXTENDS Integers

CONSTANTS Columns, HalfColumns, Rows   \* of the two text screens

VARIABLES screen,   \* [on, mono, cols, cells, cursors, page, mark]
          asked,    \* the last request
          left

Blank == <<32, 7>>
Graphics == {4, 5, 6} \union 13..19
All   == 0..Rows * Columns - 1

NoScreen   == [on |-> FALSE]
FreshScreen ==
  [on |-> TRUE, mono |-> FALSE, cols |-> Columns, cells |-> [n \in All |-> Blank],
   cursors |-> [p \in 0..7 |-> <<0, 0>>], page |-> 0, mark |-> 0]

Place(row, col, cols) == row * cols + col
Here(t) == Place(t.cursors[t.page][1], t.cursors[t.page][2], t.cols)
End(t)  == t.cols * Rows

\* The mark follows the cursor of the page that is shown.
Moved(t, page, row, col) ==
  [t EXCEPT !.cursors[page] = <<row, col>>,
            !.mark = IF page = t.page THEN Place(row, col, t.cols) ELSE @]

\* Cells from here on; attr < 0 keeps the attributes.
Filled(t, ch, attr, count) ==
  [t EXCEPT !.cells = [n \in All |->
     IF n \in Here(t)..Here(t) + count - 1 /\ n < End(t)
     THEN <<ch, IF attr < 0 THEN @[n][2] ELSE attr>> ELSE @[n]]]

\* One cell, even if a narrower mode left the cursor beside its screen.
Struck(t, ch) == [t EXCEPT !.cells = [n \in All |-> IF n = Here(t) THEN <<ch, @[n][2]>> ELSE @[n]]]

\* All rows of the window move at once.
Shifted(t, w, attr, by) ==
  LET Source(n) == n + by * t.cols
      row(n) == n \div t.cols
      Within(n) == /\ n < End(t)
                   /\ row(n) \in w.top..w.bottom
                   /\ n % t.cols \in w.left..w.right
      Kept(n) == w.lines # 0 /\ row(n) + by \in w.top..w.bottom /\ row(n) + by < Rows
  IN  [t EXCEPT !.cells = [n \in All |-> IF ~Within(n) THEN @[n]
                                         ELSE IF Kept(n) THEN @[Source(n)]
                                         ELSE <<32, attr>>]]

Everything(t) == [lines |-> 1, top |-> 0, bottom |-> Rows - 1, left |-> 0, right |-> t.cols - 1]

Below(t, row, col) ==
  IF row >= Rows - 1 THEN Moved(Shifted(t, Everything(t), 7, 1), t.page, Rows - 1, col)
  ELSE Moved(t, t.page, row + 1, col)

Typed(t, ch) ==
  LET row == t.cursors[t.page][1]
      col == t.cursors[t.page][2]
  IN  CASE ch = 13 -> Moved(t, t.page, row, 0)
        [] ch = 10 -> Below(t, row, col)
        [] ch = 8  -> IF col = 0 THEN t ELSE Moved(t, t.page, row, col - 1)
        [] OTHER   -> IF col >= t.cols - 1 THEN Below(Struck(t, ch), row, 0)
                      ELSE Moved(Struck(t, ch), t.page, row, col + 1)

\* A cleared screen has its cursor at home; the page and the cursors of the
\* others stay.
Wiped(t, clear) == [t EXCEPT !.cells = IF clear THEN [n \in All |-> Blank] ELSE @]

Set(t, mode, clear) ==
  LET cols == IF mode \in {0, 1} THEN HalfColumns ELSE Columns
  IN  Moved([Wiped(t, clear) EXCEPT !.mono = mode = 7, !.cols = cols], 0, 0, 0)

After(t, r) ==
  CASE r.op = "restart" -> FreshScreen
    [] r.op = "mode" /\ r.mode \in Graphics -> NoScreen
    [] OTHER -> IF ~t.on THEN t ELSE
         CASE r.op = "warm"   -> [FreshScreen EXCEPT !.cells = t.cells, !.mark = t.mark]
           [] r.op = "mode"   -> IF r.mode \in {0, 1, 2, 3, 7} THEN Set(t, r.mode, r.clear)
                                 ELSE Wiped(t, r.clear)
           [] r.op = "move"   -> Moved(t, r.page, r.row, r.col)
           [] r.op = "page" /\ r.page \in 0..7 ->
                [t EXCEPT !.page = r.page, !.cursors[r.page] = t.cursors[t.page]]
           [] r.op = "put"    -> Filled(t, r.ch, r.attr, r.count)
           [] r.op = "write"  -> Filled(t, r.ch, -1, r.count)
           [] r.op = "tty"    -> Typed(t, r.ch)
           [] r.op = "scroll" -> Shifted(t, r.w, r.attr, IF r.down THEN -r.w.lines ELSE r.w.lines)
           [] OTHER           -> t

\* Requests this module does not bind: what goes past the BIOS, a mode 07h
\* window, and a text mode that takes over the memory of a graphics mode.
Loose(t, r) ==
  \/ r.op \in {"out", "poke"}
  \/ r.op = "scroll" /\ t.on /\ t.mono
  \/ r.op \in {"mode", "warm"} /\ ~t.on

\* A program finds the screen as the one before it left it.
Init ==
  /\ screen.on => screen.cols \in {HalfColumns, Columns} /\ DOMAIN screen.cells = All
  /\ asked = [op |-> "none"]
  /\ left \in Nat

Next ==
  /\ left > 0 /\ left' = left - 1
  /\ Loose(screen, asked') \/ screen' = After(screen, asked')

Spec == Init /\ [][Next]_<<screen, asked, left>>
=============================================================================
