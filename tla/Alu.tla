-------------------------------- MODULE Alu --------------------------------
(***************************************************************************)
(* The arithmetic of core/src/cpu/instructions: arithmetic.rs, logical.rs, *)
(* shift_rotate.rs, comparison.rs and the conditions of control_flow.rs.   *)
(*                                                                         *)
(* An operand is a number below n, the number of values of its width:      *)
(* Bytes or Words.  The source writes every operation once per width and   *)
(* once per addressing form; here the width is the parameter n, and Cpu    *)
(* says where operands come from.  Flags are a record of booleans.  An     *)
(* operation returns [v |-> result, f |-> flags], and one that can fail    *)
(* also says how: "fault" is the pending divide exception, "panic" the end *)
(* of the emulator.                                                        *)
(***************************************************************************)
EXTENDS Integers, FiniteSets, FiniteSetsExt

Bytes == 256
Words == 65536
Bits(n) == IF n = Bytes THEN 8 ELSE 16

\* hi is bits 12 to 15 of the flags word: always set on an 8086, always clear
\* on a 286; the later types keep what is popped.
FlagNames == {"cf", "pf", "af", "zf", "sf", "tf", "if", "df", "of"}
Flags == [cf: BOOLEAN, pf: BOOLEAN, af: BOOLEAN, zf: BOOLEAN, sf: BOOLEAN, tf: BOOLEAN,
          if: BOOLEAN, df: BOOLEAN, of: BOOLEAN, hi: 0..15]

Bit(x, i)    == (x \div 2^i) % 2
Nibble(x)    == x % 16
Sign(x, n)   == x >= n \div 2
Signed(x, n) == IF Sign(x, n) THEN x - n ELSE x
EvenOnes(x, w) == Cardinality({i \in 0..w-1 : Bit(x, i) = 1}) % 2 = 0
One(b) == IF b THEN 1 ELSE 0

\* set_flags_8, set_flags_16: the parity is that of the low byte.
Results(f, r, n) ==
  [f EXCEPT !.zf = r = 0, !.sf = Sign(r, n), !.pf = EvenOnes(r, 8)]

(***************************************************************************)
(* Addition and subtraction.  The auxiliary carry is computed by the byte  *)
(* forms only; the word forms keep the old one.                            *)
(***************************************************************************)
Add(f, d, s, c, n) ==
  LET t == (d + s) % n
      r == (t + c) % n
  IN  [v |-> r, f |-> [Results(f, r, n) EXCEPT !.cf = d + s >= n \/ t + c >= n,
         !.of = Sign(d, n) # Sign(r, n) /\ Sign(s, n) # Sign(r, n),
         !.af = IF n = Bytes THEN Nibble(d) + Nibble(s) + c > 15 ELSE @]]

\* Mutant: the overflow test of an addition.
SubOverflowsAsAdd(f, d, s, c, n) ==
  LET t == (d - s) % n
      r == (t - c) % n
  IN  [v |-> r, f |-> [Results(f, r, n) EXCEPT !.cf = d < s \/ t < c,
         !.of = Sign(d, n) # Sign(r, n) /\ Sign(s, n) # Sign(r, n),
         !.af = IF n = Bytes THEN Nibble(d) < Nibble(s) + c ELSE @]]

Sub(f, d, s, c, n) ==
  LET t == (d - s) % n
      r == (t - c) % n
  IN  [v |-> r, f |-> [Results(f, r, n) EXCEPT !.cf = d < s \/ t < c,
         !.of = Sign(d, n) # Sign(s, n) /\ Sign(d, n) # Sign(r, n),
         !.af = IF n = Bytes THEN Nibble(d) < Nibble(s) + c ELSE @]]

\* CMPS and SCAS have helpers of their own, with an auxiliary carry in both
\* widths.
SubFlags(f, l, r, n) ==
  [Sub(f, l, r, 0, n).f EXCEPT !.af = Nibble(l) < Nibble(r)]

Inc(f, x, n) ==
  LET r == (x + 1) % n IN
  [v |-> r, f |-> [Results(f, r, n) EXCEPT !.of = x = n \div 2 - 1, !.af = Nibble(x) = 15]]

Dec(f, x, n) ==
  LET r == (x - 1) % n IN
  [v |-> r, f |-> [Results(f, r, n) EXCEPT !.of = x = n \div 2, !.af = Nibble(x) = 0]]

Neg(f, x, n) ==
  LET r == (-x) % n IN
  [v |-> r, f |-> [Results(f, r, n) EXCEPT !.cf = x # 0, !.of = x = n \div 2,
                                           !.af = Nibble(x) # 0]]

(***************************************************************************)
(* Logic.  The auxiliary carry is kept.                                    *)
(***************************************************************************)
BitAnd(x, y) == MapThenSumSet(LAMBDA i : 2^i * Bit(x, i) * Bit(y, i), 0..15)
BitOr(x, y)  == x + y - BitAnd(x, y)
BitXor(x, y) == x + y - 2 * BitAnd(x, y)
Not(x, n)    == n - 1 - x

Logic(f, r, n) ==
  [v |-> r, f |-> [Results(f, r, n) EXCEPT !.cf = FALSE, !.of = FALSE]]

(***************************************************************************)
(* Multiplication and division: hi and lo are AH and AL, or DX and AX.     *)
(***************************************************************************)
Product(f, p, n, wide) ==
  [lo |-> p % n, hi |-> (p \div n) % n, f |-> [f EXCEPT !.cf = wide, !.of = wide]]

Mul(f, a, x, n) == Product(f, a * x, n, a * x >= n)

Imul(f, a, x, n) ==
  LET p == Signed(a, n) * Signed(x, n) IN Product(f, p, n, Signed(p % n, n) # p)

Fault == [k |-> "fault", hi |-> 0, lo |-> 0]
Panic == [k |-> "panic", hi |-> 0, lo |-> 0]

Div(hi, lo, x, n) ==
  LET a == hi * n + lo IN
  IF x = 0 \/ a \div x >= n THEN Fault
  ELSE [k |-> "ok", hi |-> a % x, lo |-> a \div x]

Magnitude(x) == IF x < 0 THEN -x ELSE x

\* Rust's division truncates.
Quotient(a, b) ==
  LET q == Magnitude(a) \div Magnitude(b) IN IF (a < 0) = (b < 0) THEN q ELSE -q

\* Mutant: the most negative quotient is taken for an overflow, the first
\* one too large is not.
IdivRangeShifted(hi, lo, x, n) ==
  LET a == Signed(hi, n) * n + lo
      b == Signed(x, n)
  IN  IF b = 0 THEN Fault
      ELSE IF a = -(n * (n \div 2)) /\ b = -1 THEN Panic
      ELSE LET q == Quotient(a, b) IN
           IF q \notin 1 - n \div 2 .. n \div 2 THEN Fault
           ELSE [k |-> "ok", hi |-> (a - q * b) % n, lo |-> q % n]

\* The division of the most negative dividend by -1 is done before the
\* range of the quotient is looked at: Rust panics.
Idiv(hi, lo, x, n) ==
  LET a == Signed(hi, n) * n + lo
      b == Signed(x, n)
  IN  IF b = 0 THEN Fault
      ELSE IF a = -(n * (n \div 2)) /\ b = -1 THEN Panic
      ELSE LET q == Quotient(a, b) IN
           IF q \notin - (n \div 2) .. n \div 2 - 1 THEN Fault
           ELSE [k |-> "ok", hi |-> (a - q * b) % n, lo |-> q % n]

(***************************************************************************)
(* Decimal adjustment.  DAA and DAS differ in the sign.                    *)
(***************************************************************************)
DecimalAdjust(f, al, sgn) ==
  LET low  == Nibble(al) > 9 \/ f.af
      a    == IF low THEN (al + sgn * 6) % Bytes ELSE al
      high == al > 153 \/ f.cf
      r    == IF high THEN (a + sgn * 96) % Bytes ELSE a
  IN  [v |-> r, f |-> [Results(f, r, Bytes) EXCEPT !.af = low, !.cf = high]]

Daa(f, al) == DecimalAdjust(f, al, 1)
Das(f, al) == DecimalAdjust(f, al, -1)

\* AL & 0x0F, AH kept.
OneDigit(ax) == (ax \div Bytes) * Bytes + Nibble(ax)

Aaa(f, ax) ==
  LET adjust == Nibble(ax) > 9 \/ f.af IN
  [v |-> OneDigit(IF adjust THEN (ax + Bytes + 6) % Words ELSE ax),
   f |-> [f EXCEPT !.af = adjust, !.cf = adjust]]

Aas(f, ax) ==
  LET adjust == Nibble(ax) > 9 \/ f.af
      less   == (ax - 6) % Words
  IN  [v |-> OneDigit(IF adjust THEN (less - Bytes) % Words ELSE ax),
       f |-> [f EXCEPT !.af = adjust, !.cf = adjust]]

\* A base of zero panics; the parity is that of all of AX.
Aam(f, al, base) ==
  IF base = 0 THEN Panic
  ELSE LET hi == al \div base
           lo == al % base
       IN  [k |-> "ok", hi |-> hi, lo |-> lo,
            f |-> [Results(f, lo, Bytes) EXCEPT !.pf = EvenOnes(hi * Bytes + lo, 16)]]

Aad(f, ax, base) ==
  LET r == (ax + (ax \div Bytes) * base) % Bytes IN [v |-> r, f |-> Results(f, r, Bytes)]

(***************************************************************************)
(* Shifts and rotates of x by count.  Only the rotates mask the count.     *)
(***************************************************************************)
Unchanged(f, x) == [v |-> x, f |-> f]

Shifted(f, r, n, carry, setsOf, of) ==
  [v |-> r, f |-> [Results(f, r, n) EXCEPT !.cf = carry, !.of = IF setsOf THEN of ELSE @]]

Shl(f, x, count, n) ==
  LET w == Bits(n)
      r == (x % 2^(w - count)) * 2^count
  IN  CASE count = 0  -> Unchanged(f, x)
        [] count >= w -> Shifted(f, 0, n, FALSE, TRUE, FALSE)
        [] OTHER      -> Shifted(f, r, n, Bit(x, w - count) = 1, count = 1, Sign(x, n) # Sign(r, n))

Shr(f, x, count, n) ==
  CASE count = 0        -> Unchanged(f, x)
    [] count >= Bits(n) -> Shifted(f, 0, n, FALSE, TRUE, FALSE)
    [] OTHER -> Shifted(f, x \div 2^count, n, Bit(x, count - 1) = 1, count = 1, Sign(x, n))

Sar(f, x, count, n) ==
  CASE count = 0        -> Unchanged(f, x)
    [] count >= Bits(n) -> Shifted(f, IF Sign(x, n) THEN n - 1 ELSE 0, n, Sign(x, n), TRUE, FALSE)
    [] OTHER -> Shifted(f, (Signed(x, n) \div 2^count) % n, n, Bit(x, count - 1) = 1, count = 1, FALSE)

\* Rotates leave zero, sign and parity alone.
Rotated(f, r, carry, setsOf, of) ==
  [v |-> r, f |-> [f EXCEPT !.cf = carry, !.of = IF setsOf THEN of ELSE @]]

TopTwoDiffer(r, n) == Bit(r, Bits(n) - 1) # Bit(r, Bits(n) - 2)

Rol(f, x, count, n) ==
  LET w == Bits(n)
      k == (count % 32) % w
      r == (x % 2^(w - k)) * 2^k + x \div 2^(w - k)
  IN  IF k = 0 THEN Unchanged(f, x)
      ELSE Rotated(f, r, r % 2 = 1, k = 1, Sign(r, n) # (r % 2 = 1))

Ror(f, x, count, n) ==
  LET w == Bits(n)
      k == (count % 32) % w
      r == x \div 2^k + (x % 2^k) * 2^(w - k)
  IN  IF k = 0 THEN Unchanged(f, x)
      ELSE Rotated(f, r, Sign(r, n), k = 1, TopTwoDiffer(r, n))

Rcl(f, x, count, n) ==
  LET k == (count % 32) % (Bits(n) + 1)
      turn[i \in 0..k] ==      \* <<value, carry>> after i single turns
        IF i = 0 THEN <<x, f.cf>>
        ELSE <<((2 * turn[i-1][1]) % n) + One(turn[i-1][2]), Sign(turn[i-1][1], n)>>
      r == turn[k]
  IN  IF k = 0 THEN Unchanged(f, x)
      ELSE Rotated(f, r[1], r[2], k = 1, Sign(r[1], n) # r[2])

Rcr(f, x, count, n) ==
  LET k == (count % 32) % (Bits(n) + 1)
      turn[i \in 0..k] ==
        IF i = 0 THEN <<x, f.cf>>
        ELSE <<turn[i-1][1] \div 2 + One(turn[i-1][2]) * (n \div 2), turn[i-1][1] % 2 = 1>>
      r == turn[k]
  IN  IF k = 0 THEN Unchanged(f, x)
      ELSE Rotated(f, r[1], r[2], k = 1, TopTwoDiffer(r[1], n))

(***************************************************************************)
(* The sixteen conditions of opcodes 0x70 to 0x7F: an odd one is the       *)
(* negation of the even one before it.                                     *)
(***************************************************************************)
EvenCondition(f, cc) ==
  CASE cc = 0  -> f.of
    [] cc = 2  -> f.cf
    [] cc = 4  -> f.zf
    [] cc = 6  -> f.cf \/ f.zf
    [] cc = 8  -> f.sf
    [] cc = 10 -> f.pf
    [] cc = 12 -> f.sf # f.of
    [] cc = 14 -> f.zf \/ (f.sf # f.of)

Condition(f, cc) == IF cc % 2 = 0 THEN EvenCondition(f, cc) ELSE ~EvenCondition(f, cc - 1)
=============================================================================
