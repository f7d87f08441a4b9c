--------------------------- MODULE NumberLemmas ---------------------------
(***************************************************************************)
(* Facts about natural numbers that several proofs need: division by any   *)
(* positive number, and induction.  The induction theorems of the library  *)
(* take the induction hypothesis as an operator, which no installed prover *)
(* instantiates; here it is a set of numbers, and the principle follows    *)
(* from the well-foundedness of < on Nat.                                  *)
(*                                                                         *)
(* They are enough to prove what the arithmetic unit computes: for every   *)
(* operand, the laws that the programs of CpuLaws are held against on      *)
(* chosen ones.                                                            *)
(***************************************************************************)
EXTENDS Integers, TLAPS, WellFoundedInduction

\* The arithmetic unit of the processor, whose theorems are at the end.
Unit == INSTANCE Alu

\* The order of the natural numbers, as a set of pairs.
Less == {p \in Nat \X Nat : p[1] < p[2]}

\* There is no infinite descent.
LEMMA LessWellFounded == IsWellFoundedOn(Less, Nat)
BY NatLessThanWellFounded DEF OpToRel, Less

\* A set of numbers that is not empty has a least member.
LEMMA Least ==
  ASSUME NEW S \in SUBSET Nat, S # {}
  PROVE  \E x \in S : \A y \in S : x <= y
<1>1. PICK x \in S : \A y \in S : ~(<<y, x>> \in Less)
  BY LessWellFounded, WFMin
<1>2. \A y \in S : x <= y
  <2> SUFFICES ASSUME NEW y \in S, ~(x <= y) PROVE FALSE
    OBVIOUS
  <2>1. x \in Nat /\ y \in Nat /\ y < x
    OBVIOUS
  <2>2. <<y, x>> \in Less
    BY <2>1 DEF Less
  <2> QED BY <1>1, <2>2
<1> QED BY <1>2

\* A set that holds 0 and with every number the next one holds them all.
LEMMA Induction ==
  ASSUME NEW S \in SUBSET Nat, 0 \in S, \A n \in S : n + 1 \in S
  PROVE  S = Nat
<1> SUFFICES ASSUME NEW k \in Nat \ S PROVE FALSE
  OBVIOUS
<1>1. PICK x \in Nat \ S : \A y \in Nat \ S : x <= y
  BY Least
<1>2. x # 0 /\ x - 1 \in Nat
  BY <1>1
<1>3. x - 1 \in S
  BY <1>1, <1>2
<1>4. x \in S
  BY <1>2, <1>3
<1> QED BY <1>4

-----------------------------------------------------------------------------
(* Division. *)

\* Quotient and remainder make up the number.
LEMMA DivisionParts ==
  ASSUME NEW x \in Nat, NEW b \in Nat \ {0}
  PROVE  /\ x \div b \in Nat /\ x % b \in 0..(b - 1)
         /\ x = ((x \div b) * b) + (x % b)
<1>1. x % b \in 0..(b - 1)
  OBVIOUS
<1>2. x = (b * (x \div b)) + (x % b)
  OBVIOUS
<1>3. x \div b \in Int
  OBVIOUS
<1>4. x \div b >= 0
  OBVIOUS
<1>5. b * (x \div b) = (x \div b) * b
  BY <1>3
<1> QED BY <1>1, <1>2, <1>3, <1>4, <1>5

\* A greater number has a multiple that is greater by at least the factor.
LEMMA Products ==
  ASSUME NEW p \in Nat, NEW q \in Nat, NEW b \in Nat, p < q
  PROVE  (p * b) + b <= q * b
<1>1. \A c \in Nat : c * b \in Nat
  OBVIOUS
<1>2. (q - (p + 1)) * b \in Nat
  BY <1>1
<1>3. (q - (p + 1)) * b = (q * b) - ((p * b) + b)
  OBVIOUS
<1> QED BY <1>2, <1>3

\* A number has one quotient and one remainder.
LEMMA DivisionUnique ==
  ASSUME NEW p \in Nat, NEW q \in Nat, NEW b \in Nat \ {0},
         NEW r \in 0..(b - 1), NEW s \in 0..(b - 1),
         (p * b) + r = (q * b) + s
  PROVE  p = q /\ r = s
<1>0. p * b \in Nat /\ q * b \in Nat
  OBVIOUS
<1>1. ~(p < q)
  BY <1>0, Products
<1>2. ~(q < p)
  BY <1>0, Products
<1> QED BY <1>0, <1>1, <1>2

\* What they are of a multiple and a remainder.
LEMMA DivisionOfSum ==
  ASSUME NEW q \in Nat, NEW b \in Nat \ {0}, NEW r \in 0..(b - 1)
  PROVE  ((q * b) + r) \div b = q /\ ((q * b) + r) % b = r
<1> DEFINE x == (q * b) + r
<1>1. x \in Nat
  OBVIOUS
<1>2. /\ x \div b \in Nat /\ x % b \in 0..(b - 1)
      /\ x = ((x \div b) * b) + (x % b)
  BY <1>1, DivisionParts
<1> QED BY <1>2, DivisionUnique

\* A number below the divisor is its own remainder.
LEMMA BelowDivisor ==
  ASSUME NEW b \in Nat \ {0}
  PROVE  /\ \A x \in 0..(b - 1) : x % b = x
         /\ \A x \in 1..b : ((x - 1) % b) + 1 = x
<1>1. ASSUME NEW x \in 0..(b - 1) PROVE x % b = x
  <2>1. ((0 * b) + x) % b = x /\ (0 * b) + x = x
    BY DivisionOfSum
  <2> QED BY <2>1
<1>2. ASSUME NEW x \in 1..b PROVE ((x - 1) % b) + 1 = x
  <2>1. x - 1 \in 0..(b - 1)
    OBVIOUS
  <2>2. (x - 1) % b = x - 1
    BY <1>1, <2>1
  <2> QED BY <2>2
<1> QED BY <1>1, <1>2

\* A product of positive numbers is positive.
LEMMA PositiveProduct ==
  ASSUME NEW x \in Nat \ {0}, NEW y \in Nat \ {0}
  PROVE  x * y \in Nat \ {0}
OBVIOUS

-----------------------------------------------------------------------------
(* The arithmetic unit: core/src/cpu/instructions, as Alu models it. *)

\* An operand of a width; a signed number that fits it; and the numbers of
\* two decimal digits.
Widths == {Unit!Bytes, Unit!Words}
Holds(n) == 0..(n - 1)
Representable(v, n) == v \in -(n \div 2) .. n \div 2 - 1
Packed(x) == x \in 0..255 /\ x \div 16 <= 9 /\ x % 16 <= 9
Decimal(x) == (10 * (x \div 16)) + (x % 16)

\* A number at most one width out of range comes back by one width.
LEMMA Wraps ==
  ASSUME NEW n \in Nat \ {0}, NEW x \in Int, -n <= x, x < 2 * n
  PROVE  x % n = IF x < 0 THEN x + n ELSE IF x < n THEN x ELSE x - n
<1> DEFINE q == x \div n
           r == x % n
<1>1. x \in Int /\ r \in 0..(n - 1) /\ q \in Int /\ x = n * q + r
  OBVIOUS
<1> HIDE DEF q, r
<1>2. ~(q >= 2)
  <2> SUFFICES ASSUME q >= 2 PROVE FALSE
    OBVIOUS
  <2>1. n * q = n * (q - 2) + 2 * n /\ n * (q - 2) >= 0
    BY <1>1
  <2> QED BY <1>1, <2>1
<1>3. ~(q <= -2)
  <2> SUFFICES ASSUME q <= -2 PROVE FALSE
    OBVIOUS
  <2>1. n * q = -(n * (-2 - q)) - 2 * n /\ n * (-2 - q) >= 0
    BY <1>1
  <2> QED BY <1>1, <2>1
<1>4. q \in {-1, 0, 1}
  BY <1>1, <1>2, <1>3
<1>5. n * q \in {-n, 0, n}
  BY <1>4
<1>6. r = IF x < 0 THEN x + n ELSE IF x < n THEN x ELSE x - n
  BY <1>1, <1>5
<1> QED BY <1>6 DEF r

\* A width is twice the first number with the sign bit.
LEMMA Halves ==
  ASSUME NEW n \in Widths
  PROVE  n \in Nat \ {0} /\ n \div 2 \in Nat \ {0} /\ n = 2 * (n \div 2)
BY DEF Widths, Unit!Bytes, Unit!Words


\* What the flags set from a result are, and that it is still a record of
\* flags.
LEMMA ResultsAre ==
  ASSUME NEW f \in Unit!Flags, NEW r, NEW n
  PROVE  LET g == Unit!Results(f, r, n)
         IN  /\ g \in [{"cf", "pf", "af", "zf", "sf", "tf", "if", "df", "of", "hi"} ->
                       {g[x] : x \in {"cf", "pf", "af", "zf", "sf", "tf", "if", "df", "of", "hi"}}]
             /\ g.zf = (r = 0) /\ g.sf = Unit!Sign(r, n) /\ g.cf = f.cf
BY DEF Unit!Results, Unit!Flags

\* The result and the flags of an addition, one by one.
LEMMA AddFields ==
  ASSUME NEW n, NEW d, NEW s, NEW c, NEW f \in Unit!Flags
  PROVE  LET t == (d + s) % n
             r == Unit!Add(f, d, s, c, n)
         IN  /\ r.v = (t + c) % n
             /\ r.f.cf = (d + s >= n \/ t + c >= n)
             /\ r.f.of = (Unit!Sign(d, n) # Unit!Sign(r.v, n) /\ Unit!Sign(s, n) # Unit!Sign(r.v, n))
             /\ r.f.zf = (r.v = 0) /\ r.f.sf = Unit!Sign(r.v, n)
<1> DEFINE r == (((d + s) % n) + c) % n
           g == Unit!Results(f, r, n)
<1>1. /\ g \in [{"cf", "pf", "af", "zf", "sf", "tf", "if", "df", "of", "hi"} ->
                {g[x] : x \in {"cf", "pf", "af", "zf", "sf", "tf", "if", "df", "of", "hi"}}]
      /\ g.zf = (r = 0) /\ g.sf = Unit!Sign(r, n)
  BY ResultsAre
<1> QED BY <1>1 DEF Unit!Add

\* The result and the flags of a subtraction, one by one.
LEMMA SubFields ==
  ASSUME NEW n, NEW d, NEW s, NEW c, NEW f \in Unit!Flags
  PROVE  LET t == (d - s) % n
             r == Unit!Sub(f, d, s, c, n)
         IN  /\ r.v = (t - c) % n
             /\ r.f.cf = (d < s \/ t < c)
             /\ r.f.of = (Unit!Sign(d, n) # Unit!Sign(s, n) /\ Unit!Sign(d, n) # Unit!Sign(r.v, n))
             /\ r.f.zf = (r.v = 0) /\ r.f.sf = Unit!Sign(r.v, n)
<1> DEFINE r == (((d - s) % n) - c) % n
           g == Unit!Results(f, r, n)
<1>1. /\ g \in [{"cf", "pf", "af", "zf", "sf", "tf", "if", "df", "of", "hi"} ->
                {g[x] : x \in {"cf", "pf", "af", "zf", "sf", "tf", "if", "df", "of", "hi"}}]
      /\ g.zf = (r = 0) /\ g.sf = Unit!Sign(r, n)
  BY ResultsAre
<1> QED BY <1>1 DEF Unit!Sub

\* ADD and ADC (arithmetic.rs) compute the sum with the carry, in both widths
\* and for every operand: the carry flag is the unsigned overflow, although
\* the code adds twice and joins two carries, and the overflow flag, made of
\* three signs, is the signed one.
THEOREM AdditionExact ==
  ASSUME NEW n \in Widths, NEW d \in Holds(n), NEW s \in Holds(n), NEW c \in {0, 1},
         NEW f \in Unit!Flags
  PROVE  LET r == Unit!Add(f, d, s, c, n)
         IN  /\ r.v = (d + s + c) % n
             /\ r.f.cf = (d + s + c >= n)
             /\ r.f.of = ~Representable(Unit!Signed(d, n) + Unit!Signed(s, n) + c, n)
             /\ r.f.zf = (r.v = 0)
             /\ r.f.sf = Unit!Sign(r.v, n)
<1> DEFINE h == n \div 2
           t == (d + s) % n
           v == (t + c) % n
           r == Unit!Add(f, d, s, c, n)
<1>1. n \in Nat \ {0} /\ h \in Nat \ {0} /\ n = 2 * h /\ d \in 0..(n-1) /\ s \in 0..(n-1)
  BY Halves DEF Holds
<1> HIDE DEF h
<1>2. t = (IF d + s < n THEN d + s ELSE d + s - n) /\ t \in 0..(n-1)
  <2>1. PICK x \in Int : x = d + s
    BY <1>1
  <2>2. -n <= x /\ x < 2 * n
    BY <1>1, <2>1
  <2>3. x % n = IF x < 0 THEN x + n ELSE IF x < n THEN x ELSE x - n
    BY <1>1, <2>2, Wraps
  <2> QED BY <1>1, <2>1, <2>3
<1>3. v = (IF t + c < n THEN t + c ELSE t + c - n) /\ v \in 0..(n-1)
  <2> HIDE DEF t
  <2>0. t \in Int /\ c \in Int
    BY <1>1, <1>2
  <2>1. PICK x \in Int : x = t + c
    BY <2>0
  <2>2. -n <= x /\ x < 2 * n
    BY <1>1, <2>1, <1>2
  <2>3. x % n = IF x < 0 THEN x + n ELSE IF x < n THEN x ELSE x - n
    BY <1>1, <2>2, Wraps
  <2> QED BY <1>1, <2>1, <2>3, <1>2
<1>4. (d + s + c) % n = (IF d + s + c < n THEN d + s + c ELSE d + s + c - n)
  <2>1. PICK x \in Int : x = d + s + c
    BY <1>1
  <2>2. -n <= x /\ x < 2 * n
    BY <1>1, <2>1
  <2>3. x % n = IF x < 0 THEN x + n ELSE IF x < n THEN x ELSE x - n
    BY <1>1, <2>2, Wraps
  <2> QED BY <1>1, <2>1, <2>3
<1>5. r.v = v /\ r.f.cf = (d + s >= n \/ t + c >= n) /\ r.f.zf = (r.v = 0) /\ r.f.sf = Unit!Sign(r.v, n)
      /\ r.f.of = (Unit!Sign(d, n) # Unit!Sign(v, n) /\ Unit!Sign(s, n) # Unit!Sign(v, n))
  BY AddFields
<1> HIDE DEF t, v, r
<1>6. v = (d + s + c) % n
  BY <1>1, <1>2, <1>3, <1>4
<1>7. (d + s >= n \/ t + c >= n) = (d + s + c >= n)
  BY <1>1, <1>2
<1>8. ((d >= h) # (v >= h) /\ (s >= h) # (v >= h))
      = ~((IF d >= h THEN d - n ELSE d) + (IF s >= h THEN s - n ELSE s) + c \in -h .. h - 1)
  BY <1>1, <1>2, <1>3
<1>9. (Unit!Sign(d, n) # Unit!Sign(v, n) /\ Unit!Sign(s, n) # Unit!Sign(v, n))
      = ~Representable(Unit!Signed(d, n) + Unit!Signed(s, n) + c, n)
  BY <1>8 DEF Unit!Sign, Unit!Signed, Representable, h
<1> QED BY <1>5, <1>6, <1>7, <1>9 DEF r

\* SUB, SBB and CMP compute the difference with the borrow: the carry flag is
\* the unsigned comparison and the overflow flag the signed overflow.
THEOREM DifferenceExact ==
  ASSUME NEW n \in Widths, NEW d \in Holds(n), NEW s \in Holds(n), NEW c \in {0, 1},
         NEW f \in Unit!Flags
  PROVE  LET r == Unit!Sub(f, d, s, c, n)
         IN  /\ r.v = (d - s - c) % n
             /\ r.f.cf = (d < s + c)
             /\ r.f.of = ~Representable(Unit!Signed(d, n) - Unit!Signed(s, n) - c, n)
             /\ r.f.zf = (r.v = 0)
             /\ r.f.sf = Unit!Sign(r.v, n)
<1> DEFINE h == n \div 2
           t == (d - s) % n
           v == (t - c) % n
           r == Unit!Sub(f, d, s, c, n)
<1>1. n \in Nat \ {0} /\ h \in Nat \ {0} /\ n = 2 * h /\ d \in 0..(n-1) /\ s \in 0..(n-1)
  BY Halves DEF Holds
<1> HIDE DEF h
<1>2. t = (IF d < s THEN d - s + n ELSE d - s) /\ t \in 0..(n-1)
  <2>1. PICK x \in Int : x = d - s
    BY <1>1
  <2>2. -n <= x /\ x < 2 * n
    BY <1>1, <2>1
  <2>3. x % n = IF x < 0 THEN x + n ELSE IF x < n THEN x ELSE x - n
    BY <1>1, <2>2, Wraps
  <2> QED BY <1>1, <2>1, <2>3
<1>3. v = (IF t < c THEN t - c + n ELSE t - c) /\ v \in 0..(n-1)
  <2> HIDE DEF t
  <2>0. t \in Int /\ c \in Int
    BY <1>1, <1>2
  <2>1. PICK x \in Int : x = t - c
    BY <2>0
  <2>2. -n <= x /\ x < 2 * n
    BY <1>1, <2>1, <1>2
  <2>3. x % n = IF x < 0 THEN x + n ELSE IF x < n THEN x ELSE x - n
    BY <1>1, <2>2, Wraps
  <2> QED BY <1>1, <2>1, <2>3, <1>2
<1>4. (d - s - c) % n = (IF d - s - c < 0 THEN d - s - c + n ELSE d - s - c)
  <2>1. PICK x \in Int : x = d - s - c
    BY <1>1
  <2>2. -n <= x /\ x < 2 * n
    BY <1>1, <2>1
  <2>3. x % n = IF x < 0 THEN x + n ELSE IF x < n THEN x ELSE x - n
    BY <1>1, <2>2, Wraps
  <2> QED BY <1>1, <2>1, <2>3
<1>5. r.v = v /\ r.f.cf = (d < s \/ t < c) /\ r.f.zf = (r.v = 0) /\ r.f.sf = Unit!Sign(r.v, n)
      /\ r.f.of = (Unit!Sign(d, n) # Unit!Sign(s, n) /\ Unit!Sign(d, n) # Unit!Sign(v, n))
  BY SubFields
<1> HIDE DEF t, v, r
<1>6. v = (d - s - c) % n
  BY <1>1, <1>2, <1>3, <1>4
<1>7. (d < s \/ t < c) = (d < s + c)
  BY <1>1, <1>2
<1>8. ((d >= h) # (s >= h) /\ (d >= h) # (v >= h))
      = ~((IF d >= h THEN d - n ELSE d) - (IF s >= h THEN s - n ELSE s) - c \in -h .. h - 1)
  BY <1>1, <1>2, <1>3
<1>9. (Unit!Sign(d, n) # Unit!Sign(s, n) /\ Unit!Sign(d, n) # Unit!Sign(v, n))
      = ~Representable(Unit!Signed(d, n) - Unit!Signed(s, n) - c, n)
  BY <1>8 DEF Unit!Sign, Unit!Signed, Representable, h
<1> QED BY <1>5, <1>6, <1>7, <1>9 DEF r

-----------------------------------------------------------------------------
(* Comparison, and words by bytes. *)

\* After CMP each conditional jump of control_flow.rs takes the branch its
\* name says, for every pair of operands, unsigned and signed (all conditions
\* but the sign and the parity alone, which compare nothing).
THEOREM BranchesExact ==
  ASSUME NEW n \in Widths, NEW a \in Holds(n), NEW b \in Holds(n), NEW f \in Unit!Flags
  PROVE  LET g  == Unit!Sub(f, a, b, 0, n).f
             sa == Unit!Signed(a, n)
             sb == Unit!Signed(b, n)
         IN  /\ Unit!Condition(g, 0) = ~Representable(sa - sb, n) /\ Unit!Condition(g, 1) = Representable(sa - sb, n)
             /\ Unit!Condition(g, 2) = (a < b)    /\ Unit!Condition(g, 3) = (a >= b)
             /\ Unit!Condition(g, 4) = (a = b)    /\ Unit!Condition(g, 5) = (a # b)
             /\ Unit!Condition(g, 6) = (a <= b)   /\ Unit!Condition(g, 7) = (a > b)
             /\ Unit!Condition(g, 12) = (sa < sb) /\ Unit!Condition(g, 13) = (sa >= sb)
             /\ Unit!Condition(g, 14) = (sa <= sb) /\ Unit!Condition(g, 15) = (sa > sb)
<1> DEFINE h  == n \div 2
           r  == Unit!Sub(f, a, b, 0, n)
           v  == (a - b) % n
           sa == Unit!Signed(a, n)
           sb == Unit!Signed(b, n)
<1>1. n \in Nat \ {0} /\ h \in Nat \ {0} /\ n = 2 * h /\ a \in 0..(n-1) /\ b \in 0..(n-1)
  BY Halves DEF Holds
<1> HIDE DEF h
<1>2. /\ r.v = (a - b - 0) % n /\ r.f.cf = (a < b + 0)
      /\ r.f.of = ~Representable(sa - sb - 0, n) /\ r.f.zf = (r.v = 0) /\ r.f.sf = Unit!Sign(r.v, n)
  BY DifferenceExact
<1>3. a - b - 0 = a - b /\ b + 0 = b /\ sa \in Int /\ sb \in Int /\ sa - sb - 0 = sa - sb
  BY <1>1 DEF Unit!Signed
<1>4. v = (IF a < b THEN a - b + n ELSE a - b)
  <2>1. PICK x \in Int : x = a - b
    BY <1>1
  <2>2. -n <= x /\ x < 2 * n
    BY <1>1, <2>1
  <2>3. x % n = IF x < 0 THEN x + n ELSE IF x < n THEN x ELSE x - n
    BY <1>1, <2>2, Wraps
  <2> QED BY <1>1, <2>1, <2>3
<1>5. /\ sa = (IF a >= h THEN a - n ELSE a) /\ sb = (IF b >= h THEN b - n ELSE b)
      /\ Representable(sa - sb, n) = (sa - sb \in -h .. h - 1)
      /\ Unit!Sign(v, n) = (v >= h)
  BY DEF Unit!Signed, Unit!Sign, Representable, h
<1> HIDE DEF r, v, sa, sb
<1>6. /\ r.f.cf = (a < b) /\ r.f.zf = (v = 0) /\ r.f.sf = (v >= h)
      /\ r.f.of = ~(sa - sb \in -h .. h - 1)
  BY <1>2, <1>3, <1>5 DEF v
<1>7. /\ (v = 0) = (a = b)
      /\ ((v >= h) # ~(sa - sb \in -h .. h - 1)) = (sa < sb)
      /\ (a < b \/ v = 0) = (a <= b)
      /\ (v = 0 \/ ((v >= h) # ~(sa - sb \in -h .. h - 1))) = (sa <= sb)
  BY <1>1, <1>4, <1>5
<1>8. /\ ~(a < b) = (a >= b) /\ ~(a <= b) = (a > b) /\ ~(sa < sb) = (sa >= sb) /\ ~(sa <= sb) = (sa > sb)
  BY <1>1, <1>3
<1>9. \A g : /\ Unit!Condition(g, 0) = g.of /\ Unit!Condition(g, 1) = ~g.of
             /\ Unit!Condition(g, 2) = g.cf /\ Unit!Condition(g, 3) = ~g.cf
             /\ Unit!Condition(g, 4) = g.zf /\ Unit!Condition(g, 5) = ~g.zf
             /\ Unit!Condition(g, 6) = (g.cf \/ g.zf) /\ Unit!Condition(g, 7) = ~(g.cf \/ g.zf)
             /\ Unit!Condition(g, 12) = (g.sf # g.of) /\ Unit!Condition(g, 13) = ~(g.sf # g.of)
             /\ Unit!Condition(g, 14) = (g.zf \/ (g.sf # g.of)) /\ Unit!Condition(g, 15) = ~(g.zf \/ (g.sf # g.of))
  BY DEF Unit!Condition, Unit!EvenCondition
<1>10. /\ r.f.of = ~Representable(sa - sb, n) /\ r.f.zf = (a = b)
       /\ (r.f.sf # r.f.of) = (sa < sb) /\ (r.f.cf \/ r.f.zf) = (a <= b)
       /\ (r.f.zf \/ (r.f.sf # r.f.of)) = (sa <= sb)
  BY <1>5, <1>6, <1>7
<1> DEFINE Decided(g, p, q) ==
      /\ Unit!Condition(g, 0) = ~Representable(p - q, n) /\ Unit!Condition(g, 1) = Representable(p - q, n)
      /\ Unit!Condition(g, 2) = (a < b)   /\ Unit!Condition(g, 3) = (a >= b)
      /\ Unit!Condition(g, 4) = (a = b)   /\ Unit!Condition(g, 5) = (a # b)
      /\ Unit!Condition(g, 6) = (a <= b)  /\ Unit!Condition(g, 7) = (a > b)
      /\ Unit!Condition(g, 12) = (p < q)  /\ Unit!Condition(g, 13) = (p >= q)
      /\ Unit!Condition(g, 14) = (p <= q) /\ Unit!Condition(g, 15) = (p > q)
<1>11. Decided(r.f, sa, sb)
  <2> DEFINE g == r.f
             o == Representable(sa - sb, n)
  <2>1. o \in BOOLEAN
    BY DEF Representable
  <2> HIDE DEF g, o
  <2>2. /\ g.of = ~o /\ g.zf = (a = b) /\ g.cf = (a < b)
        /\ (g.sf # g.of) = (sa < sb) /\ (g.cf \/ g.zf) = (a <= b)
        /\ (g.zf \/ (g.sf # g.of)) = (sa <= sb)
    BY <1>6, <1>10 DEF g, o
  <2>3. /\ Unit!Condition(g, 0) = ~o        /\ Unit!Condition(g, 1) = o
        /\ Unit!Condition(g, 2) = (a < b)   /\ Unit!Condition(g, 3) = ~(a < b)
        /\ Unit!Condition(g, 4) = (a = b)   /\ Unit!Condition(g, 5) = ~(a = b)
        /\ Unit!Condition(g, 6) = (a <= b)  /\ Unit!Condition(g, 7) = ~(a <= b)
        /\ Unit!Condition(g, 12) = (sa < sb)  /\ Unit!Condition(g, 13) = ~(sa < sb)
        /\ Unit!Condition(g, 14) = (sa <= sb) /\ Unit!Condition(g, 15) = ~(sa <= sb)
    BY <1>9, <2>1, <2>2, ZenonT(60)
  <2> QED BY <2>3, <1>8 DEF g, o
<1> QED BY <1>11 DEF r, sa, sb

\* A word and its upper byte have one sign.
LEMMA SignOfWord ==
  ASSUME NEW u \in 0..(Unit!Bytes - 1), NEW l \in 0..(Unit!Bytes - 1)
  PROVE  LET x == (u * Unit!Bytes) + l
         IN  /\ Unit!Sign(x, Unit!Words) = Unit!Sign(u, Unit!Bytes)
             /\ Unit!Signed(x, Unit!Words) = (Unit!Signed(u, Unit!Bytes) * Unit!Bytes) + l
             /\ Unit!Signed(u, Unit!Bytes) \in Int
<1> DEFINE B == Unit!Bytes
           W == Unit!Words
           h == B \div 2
           x == (u * B) + l
<1>1. B \in Nat \ {0} /\ h \in Nat \ {0} /\ B = 2 * h /\ W = B * B /\ W \div 2 = h * B
  BY DEF Unit!Bytes, Unit!Words
<1> HIDE DEF B, W, h
<1>2. u \in 0..(B - 1) /\ l \in 0..(B - 1)
  BY DEF B
<1>3. (x >= h * B) = (u >= h)
  <2>1. u < h => (u * B) + B <= h * B
    BY <1>1, <1>2, Products
  <2>2. h < u => (h * B) + B <= u * B
    BY <1>1, <1>2, Products
  <2>3. u * B \in Nat /\ h * B \in Nat
    BY <1>1, <1>2
  <2> QED BY <1>1, <1>2, <2>1, <2>2, <2>3
<1>4. Unit!Sign(x, W) = (u >= h) /\ Unit!Sign(u, B) = (u >= h)
  BY <1>1, <1>3 DEF Unit!Sign, h
<1>5. (u - B) * B = (u * B) - W
  BY <1>1, <1>2
<1>6. /\ Unit!Signed(x, W) = (IF u >= h THEN x - W ELSE x)
      /\ Unit!Signed(u, B) = (IF u >= h THEN u - B ELSE u)
  BY <1>4 DEF Unit!Signed
<1>7. x - W = ((u - B) * B) + l
  <2>1. u * B \in Int /\ W \in Int
    BY <1>1, <1>2
  <2> QED BY <1>2, <1>5, <2>1
<1>8. Unit!Signed(x, W) = (Unit!Signed(u, B) * B) + l /\ Unit!Signed(u, B) \in Int
  <2>1. CASE u >= h
    <3>1. Unit!Signed(x, W) = x - W /\ Unit!Signed(u, B) = u - B
      BY <1>6, <2>1
    <3> QED BY <1>1, <1>2, <1>7, <3>1
  <2>2. CASE ~(u >= h)
    <3>1. Unit!Signed(x, W) = x /\ Unit!Signed(u, B) = u
      BY <1>6, <2>2
    <3> QED BY <1>2, <3>1
  <2> QED BY <2>1, <2>2
<1> QED BY <1>4, <1>8 DEF B, W


\* A number fits a word when its upper part fits a byte.
LEMMA FitsWord ==
  ASSUME NEW u \in Int, NEW l \in 0..(Unit!Bytes - 1)
  PROVE  Representable((u * Unit!Bytes) + l, Unit!Words) = Representable(u, Unit!Bytes)
<1> DEFINE B == Unit!Bytes
           W == Unit!Words
           h == B \div 2
           x == (u * B) + l
<1>1. B \in Nat \ {0} /\ h \in Nat \ {0} /\ B = 2 * h /\ W \div 2 = h * B
  BY DEF Unit!Bytes, Unit!Words
<1> HIDE DEF B, W, h
<1>2. l \in 0..(B - 1)
  BY DEF B
<1>3. (u \in -h .. h - 1) = (x \in -(h * B) .. (h * B) - 1)
  <2>0. u * B \in Int /\ h * B \in Nat
    BY <1>1
  <2>1. u >= h => u * B >= h * B
    <3>1. u >= h => (u - h) * B \in Nat
      BY <1>1
    <3>2. (u - h) * B = (u * B) - (h * B)
      BY <1>1
    <3> QED BY <2>0, <3>1, <3>2
  <2>2. u < h => (u * B) + B <= h * B
    <3>1. u < h => (h - u - 1) * B \in Nat
      BY <1>1
    <3>2. (h - u - 1) * B = (h * B) - (u * B) - B
      BY <1>1
    <3> QED BY <1>1, <2>0, <3>1, <3>2
  <2>3. u >= -h => u * B >= -(h * B)
    <3>1. u >= -h => (u + h) * B \in Nat
      BY <1>1
    <3>2. (u + h) * B = (u * B) + (h * B)
      BY <1>1
    <3> QED BY <2>0, <3>1, <3>2
  <2>4. u < -h => (u * B) + B <= -(h * B)
    <3>1. u < -h => (-h - u - 1) * B \in Nat
      BY <1>1
    <3>2. (-h - u - 1) * B = -(h * B) - (u * B) - B
      BY <1>1
    <3> QED BY <1>1, <2>0, <3>1, <3>2
  <2> QED BY <1>1, <1>2, <2>0, <2>1, <2>2, <2>3, <2>4
<1>4. Representable(u, B) = (u \in -h .. h - 1) /\ Representable(x, W) = (x \in -(h * B) .. (h * B) - 1)
  BY <1>1 DEF Representable, h
<1> QED BY <1>3, <1>4 DEF B, W


\* Words added by bytes, low bytes first and high bytes with the carry, are
\* the words added, flags included (the parity, the auxiliary carry and the
\* zero flag are the upper byte's).
THEOREM CarryChains ==
  ASSUME NEW x \in Holds(Unit!Words), NEW y \in Holds(Unit!Words),
         NEW f \in Unit!Flags, NEW g \in Unit!Flags
  PROVE  LET B    == Unit!Bytes
             low  == Unit!Add(f, x % B, y % B, 0, B)
             high == Unit!Add(g, x \div B, y \div B, Unit!One(low.f.cf), B)
         IN  /\ high.v * B + low.v = (x + y) % Unit!Words
             /\ high.f.cf = (x + y >= Unit!Words)
             /\ high.f.of = ~Representable(Unit!Signed(x, Unit!Words) + Unit!Signed(y, Unit!Words), Unit!Words)
             /\ high.f.sf = Unit!Sign((x + y) % Unit!Words, Unit!Words)
<1> DEFINE B == Unit!Bytes
           W == Unit!Words
           x0 == x % B
           x1 == x \div B
           y0 == y % B
           y1 == y \div B
           c  == Unit!One(x0 + y0 + 0 >= B)
           low  == Unit!Add(f, x0, y0, 0, B)
           high == Unit!Add(g, x1, y1, c, B)
<1>1. B \in Nat \ {0} /\ B \in Widths /\ W = B * B
  BY DEF Unit!Bytes, Unit!Words, Widths
<1>2. x \in 0..(W - 1) /\ y \in 0..(W - 1) /\ W \in Nat \ {0}
  <2>1. x \in 0..(W - 1) /\ y \in 0..(W - 1)
    BY DEF Holds
  <2> HIDE DEF B, W
  <2>2. W \in Nat \ {0}
    BY <1>1
  <2> QED BY <2>1, <2>2
<1> HIDE DEF B, W
<1>3. /\ x1 \in Nat /\ x0 \in 0..(B - 1) /\ x = x1 * B + x0
      /\ y1 \in Nat /\ y0 \in 0..(B - 1) /\ y = y1 * B + y0
  <2>1. x \in Nat /\ y \in Nat
    BY <1>2
  <2>2. x1 \in Nat /\ x0 \in 0..(B - 1) /\ x = x1 * B + x0
    BY <1>1, <2>1, DivisionParts
  <2>3. y1 \in Nat /\ y0 \in 0..(B - 1) /\ y = y1 * B + y0
    BY <1>1, <2>1, DivisionParts
  <2> QED BY <2>2, <2>3
<1>4. c \in {0, 1} /\ (c = 1) = (x0 + y0 >= B)
  BY <1>1, <1>3 DEF Unit!One
<1> HIDE DEF x0, x1, y0, y1, c
<1>5. x1 \in 0..(B - 1) /\ y1 \in 0..(B - 1)
  <2>1. ASSUME NEW q \in Nat, NEW r \in 0..(B - 1), q * B + r < B * B PROVE q < B
    <3>1. ~(B < q) /\ q # B
      BY <2>1, <1>1, Products
    <3> QED BY <3>1, <1>1
  <2>2. x1 < B /\ y1 < B
    BY <2>1, <1>1, <1>2, <1>3
  <2> QED BY <2>2, <1>1, <1>3
<1>6. /\ low.v = (x0 + y0 + 0) % B /\ low.f.cf = (x0 + y0 + 0 >= B)
  BY <1>1, <1>3, AdditionExact DEF Holds
<1>7. /\ high.v = (x1 + y1 + c) % B /\ high.f.cf = (x1 + y1 + c >= B)
      /\ high.f.of = ~Representable(Unit!Signed(x1, B) + Unit!Signed(y1, B) + c, B)
      /\ high.f.sf = Unit!Sign(high.v, B)
  <2>1. x1 \in Holds(B) /\ y1 \in Holds(B)
    BY <1>5 DEF Holds
  <2> QED BY <2>1, <1>1, <1>4, AdditionExact
<1> HIDE DEF low, high
<1>8. low.v = x0 + y0 - (c * B)
  <2>1. PICK s \in Int : s = x0 + y0 + 0
    BY <1>1, <1>3
  <2>2. -B <= s /\ s < 2 * B
    BY <1>1, <1>3, <2>1
  <2>3. s % B = IF s < 0 THEN s + B ELSE IF s < B THEN s ELSE s - B
    BY <1>1, <2>2, Wraps
  <2>4. low.v = s % B /\ c * B = (IF s < B THEN 0 ELSE B)
    BY <1>1, <1>3, <1>4, <1>6, <2>1
  <2> QED BY <1>1, <1>3, <2>1, <2>2, <2>3, <2>4
<1>9. high.v = IF x1 + y1 + c < B THEN x1 + y1 + c ELSE x1 + y1 + c - B
  <2>1. PICK s \in Int : s = x1 + y1 + c
    BY <1>1, <1>4, <1>5
  <2>2. -B <= s /\ s < 2 * B
    BY <1>1, <1>4, <1>5, <2>1
  <2>3. s % B = IF s < 0 THEN s + B ELSE IF s < B THEN s ELSE s - B
    BY <1>1, <2>2, Wraps
  <2>4. high.v = s % B
    BY <1>7, <2>1
  <2>5. s >= 0
    BY <1>4, <1>5, <2>1
  <2> QED BY <1>1, <1>4, <1>5, <2>1, <2>3, <2>4, <2>5
<1>10. (x + y) % W = IF x + y < W THEN x + y ELSE x + y - W
  <2>1. PICK s \in Int : s = x + y
    BY <1>2
  <2>2. -W <= s /\ s < 2 * W
    BY <1>2, <2>1
  <2>3. s % W = IF s < 0 THEN s + W ELSE IF s < W THEN s ELSE s - W
    BY <1>2, <2>2, Wraps
  <2> QED BY <1>2, <2>1, <2>2, <2>3
<1> DEFINE t == x1 + y1 + c
           r == x0 + y0 - (c * B)
<1>11. t \in Nat /\ r \in 0..(B - 1) /\ x + y = t * B + r
  <2>1. c * B = IF c = 1 THEN B ELSE 0
    BY <1>1, <1>4
  <2>2. r \in 0..(B - 1)
    BY <2>1, <1>1, <1>3, <1>4
  <2>3. t * B = x1 * B + y1 * B + c * B
    BY <1>1, <1>4, <1>5
  <2>4. x1 * B \in Nat /\ y1 * B \in Nat /\ c * B \in Nat
    BY <1>1, <1>4, <1>5
  <2> QED BY <2>1, <2>2, <2>3, <2>4, <1>1, <1>3, <1>4
<1> HIDE DEF t, r
<1>12. (t >= B) = (x + y >= W) /\ t * B \in Nat
  <2>1. t < B => t * B + r < B * B
    BY <1>1, <1>11, Products
  <2>2. t >= B => t * B >= B * B
    <3>1. t > B => B * B + B <= t * B
      BY <1>1, <1>11, Products
    <3>2. t * B \in Nat /\ B * B \in Nat
      BY <1>1, <1>11
    <3> QED BY <3>1, <3>2, <1>1, <1>11
  <2>3. t * B \in Nat
    BY <1>1, <1>11
  <2> QED BY <2>1, <2>2, <2>3, <1>1, <1>11
<1>13. high.v * B + low.v = (x + y) % W
  <2>1. low.v = r /\ high.v = IF t < B THEN t ELSE t - B
    BY <1>1, <1>3, <1>4, <1>5, <1>8, <1>9 DEF t, r
  <2>2. (t - B) * B = t * B - W
    BY <1>1, <1>11
  <2>3. CASE t < B
    BY <2>3, <2>1, <1>1, <1>2, <1>10, <1>11, <1>12
  <2>4. CASE ~(t < B)
    <3>1. high.v = t - B
      BY <2>1, <2>4
    <3>2. high.v * B + low.v = (t * B + r) - W
      BY <2>1, <2>2, <3>1, <1>1, <1>2, <1>11, <1>12
    <3> QED BY <2>4, <3>2, <1>1, <1>2, <1>10, <1>11, <1>12
  <2> QED BY <2>3, <2>4
<1>14. high.f.cf = (x + y >= W)
  BY <1>7, <1>12 DEF t
<1>15. Unit!One(low.f.cf) = c
  BY <1>6 DEF c
<1>16. high.v \in 0..(B - 1) /\ low.v \in 0..(B - 1)
  BY <1>1, <1>3, <1>4, <1>5, <1>8, <1>9, <1>11 DEF r
<1>17. high.f.sf = Unit!Sign((x + y) % W, W)
  <2>1. Unit!Sign((high.v * B) + low.v, W) = Unit!Sign(high.v, B)
    BY <1>16, SignOfWord DEF B, W
  <2> QED BY <1>7, <1>13, <2>1
<1>18. high.f.of = ~Representable(Unit!Signed(x, W) + Unit!Signed(y, W), W)
  <2> DEFINE sx == Unit!Signed(x1, B)
             sy == Unit!Signed(y1, B)
  <2>1. /\ Unit!Signed(x, W) = (sx * B) + x0 /\ Unit!Signed(y, W) = (sy * B) + y0
        /\ sx \in Int /\ sy \in Int
    BY <1>1, <1>3, <1>5, SignOfWord DEF B, W
  <2> HIDE DEF sx, sy
  <2>2. ((sx * B) + x0) + ((sy * B) + y0) = ((sx + sy + c) * B) + r
    <3>1. (sx + sy + c) * B = (sx * B) + (sy * B) + (c * B)
      BY <1>1, <1>4, <2>1
    <3>2. sx * B \in Int /\ sy * B \in Int /\ c * B \in Int
      BY <1>1, <1>4, <2>1
    <3> QED BY <1>3, <1>4, <3>1, <3>2 DEF r
  <2>3. sx + sy + c \in Int
    BY <1>4, <2>1
  <2>4. Representable(((sx + sy + c) * B) + r, W) = Representable(sx + sy + c, B)
    BY <1>11, <2>3, FitsWord DEF B, W
  <2> QED BY <1>7, <2>1, <2>2, <2>4 DEF sx, sy
<1> QED BY <1>13, <1>14, <1>15, <1>17, <1>18 DEF low, high, B, W, x0, x1, y0, y1

\* The same of words subtracted by bytes, which borrow.
THEOREM BorrowChains ==
  ASSUME NEW x \in Holds(Unit!Words), NEW y \in Holds(Unit!Words),
         NEW f \in Unit!Flags, NEW g \in Unit!Flags
  PROVE  LET B    == Unit!Bytes
             low  == Unit!Sub(f, x % B, y % B, 0, B)
             high == Unit!Sub(g, x \div B, y \div B, Unit!One(low.f.cf), B)
         IN  /\ high.v * B + low.v = (x - y) % Unit!Words
             /\ high.f.cf = (x < y)
             /\ high.f.of = ~Representable(Unit!Signed(x, Unit!Words) - Unit!Signed(y, Unit!Words), Unit!Words)
             /\ high.f.sf = Unit!Sign((x - y) % Unit!Words, Unit!Words)
<1> DEFINE B == Unit!Bytes
           W == Unit!Words
           x0 == x % B
           x1 == x \div B
           y0 == y % B
           y1 == y \div B
           c  == Unit!One(x0 < y0 + 0)
           low  == Unit!Sub(f, x0, y0, 0, B)
           high == Unit!Sub(g, x1, y1, c, B)
<1>1. B \in Nat \ {0} /\ B \in Widths /\ W = B * B
  BY DEF Unit!Bytes, Unit!Words, Widths
<1>2. x \in 0..(W - 1) /\ y \in 0..(W - 1) /\ W \in Nat \ {0}
  <2>1. x \in 0..(W - 1) /\ y \in 0..(W - 1)
    BY DEF Holds
  <2> HIDE DEF B, W
  <2>2. W \in Nat \ {0}
    BY <1>1
  <2> QED BY <2>1, <2>2
<1> HIDE DEF B, W
<1>3. /\ x1 \in Nat /\ x0 \in 0..(B - 1) /\ x = x1 * B + x0
      /\ y1 \in Nat /\ y0 \in 0..(B - 1) /\ y = y1 * B + y0
  <2>1. x \in Nat /\ y \in Nat
    BY <1>2
  <2>2. x1 \in Nat /\ x0 \in 0..(B - 1) /\ x = x1 * B + x0
    BY <1>1, <2>1, DivisionParts
  <2>3. y1 \in Nat /\ y0 \in 0..(B - 1) /\ y = y1 * B + y0
    BY <1>1, <2>1, DivisionParts
  <2> QED BY <2>2, <2>3
<1>4. c \in {0, 1} /\ (c = 1) = (x0 < y0)
  BY <1>1, <1>3 DEF Unit!One
<1> HIDE DEF x0, x1, y0, y1, c
<1>5. x1 \in 0..(B - 1) /\ y1 \in 0..(B - 1)
  <2>1. ASSUME NEW q \in Nat, NEW r \in 0..(B - 1), q * B + r < B * B PROVE q < B
    <3>1. ~(B < q) /\ q # B
      BY <2>1, <1>1, Products
    <3> QED BY <3>1, <1>1
  <2>2. x1 < B /\ y1 < B
    BY <2>1, <1>1, <1>2, <1>3
  <2> QED BY <2>2, <1>1, <1>3
<1>6. /\ low.v = (x0 - y0 - 0) % B /\ low.f.cf = (x0 < y0 + 0)
  BY <1>1, <1>3, DifferenceExact DEF Holds
<1>7. /\ high.v = (x1 - y1 - c) % B /\ high.f.cf = (x1 < y1 + c)
      /\ high.f.of = ~Representable(Unit!Signed(x1, B) - Unit!Signed(y1, B) - c, B)
      /\ high.f.sf = Unit!Sign(high.v, B)
  <2>1. x1 \in Holds(B) /\ y1 \in Holds(B)
    BY <1>5 DEF Holds
  <2>2. B \in Widths /\ c \in {0, 1}
    BY <1>1, <1>4
  <2> HIDE DEF high
  <2>3. high = Unit!Sub(g, x1, y1, c, B)
    BY DEF high
  <2>4. LET r == Unit!Sub(g, x1, y1, c, B)
        IN  /\ r.v = (x1 - y1 - c) % B
            /\ r.f.cf = (x1 < y1 + c)
            /\ r.f.of = ~Representable(Unit!Signed(x1, B) - Unit!Signed(y1, B) - c, B)
            /\ r.f.sf = Unit!Sign(r.v, B)
    BY <2>1, <2>2, DifferenceExact, ZenonT(60)
  <2> QED BY <2>3, <2>4
<1> HIDE DEF low, high
<1>8. low.v = x0 - y0 + (c * B)
  <2>1. PICK s \in Int : s = x0 - y0 - 0
    BY <1>1, <1>3
  <2>2. -B <= s /\ s < 2 * B
    BY <1>1, <1>3, <2>1
  <2>3. s % B = IF s < 0 THEN s + B ELSE IF s < B THEN s ELSE s - B
    BY <1>1, <2>2, Wraps
  <2>4. low.v = s % B /\ c * B = (IF s < 0 THEN B ELSE 0)
    BY <1>1, <1>3, <1>4, <1>6, <2>1
  <2> QED BY <1>1, <1>3, <2>1, <2>2, <2>3, <2>4
<1>9. high.v = IF x1 - y1 - c < 0 THEN x1 - y1 - c + B ELSE x1 - y1 - c
  <2>1. PICK s \in Int : s = x1 - y1 - c
    BY <1>1, <1>4, <1>5
  <2>2. -B <= s /\ s < 2 * B
    BY <1>1, <1>4, <1>5, <2>1
  <2>3. s % B = IF s < 0 THEN s + B ELSE IF s < B THEN s ELSE s - B
    BY <1>1, <2>2, Wraps
  <2>4. high.v = s % B
    BY <1>7, <2>1
  <2>5. s < B
    BY <1>1, <1>4, <1>5, <2>1
  <2> QED BY <1>1, <1>4, <1>5, <2>1, <2>3, <2>4, <2>5
<1>10. (x - y) % W = IF x < y THEN x - y + W ELSE x - y
  <2>1. PICK s \in Int : s = x - y
    BY <1>2
  <2>2. -W <= s /\ s < 2 * W
    BY <1>2, <2>1
  <2>3. s % W = IF s < 0 THEN s + W ELSE IF s < W THEN s ELSE s - W
    BY <1>2, <2>2, Wraps
  <2> QED BY <1>2, <2>1, <2>2, <2>3
<1> DEFINE t == x1 - y1 - c
           r == x0 - y0 + (c * B)
<1>11. t \in -B .. B - 1 /\ r \in 0..(B - 1) /\ x - y = t * B + r
  <2>1. c * B = IF c = 1 THEN B ELSE 0
    BY <1>1, <1>4
  <2>2. r \in 0..(B - 1)
    BY <2>1, <1>1, <1>3, <1>4
  <2>3. t * B = x1 * B - y1 * B - c * B
    BY <1>1, <1>4, <1>5
  <2>4. x1 * B \in Nat /\ y1 * B \in Nat /\ c * B \in Nat
    BY <1>1, <1>4, <1>5
  <2>5. t \in -B .. B - 1
    BY <1>1, <1>4, <1>5
  <2> QED BY <2>1, <2>2, <2>3, <2>4, <2>5, <1>1, <1>3, <1>4
<1> HIDE DEF t, r
<1>12. (t < 0) = (x < y) /\ t * B \in Int /\ t * B < W
  <2>1. t < 0 => t * B <= -B
    <3>1. t < 0 => (-t - 1) * B \in Nat
      BY <1>1, <1>11
    <3>2. (-t - 1) * B = -(t * B) - B
      BY <1>1, <1>11
    <3> QED BY <1>1, <1>11, <3>1, <3>2
  <2>2. t >= 0 => t * B \in Nat
    BY <1>1, <1>11
  <2>3. t * B \in Int /\ t * B < W
    <3>1. (B - 1 - t) * B \in Nat
      BY <1>1, <1>11
    <3>2. (B - 1 - t) * B = W - B - (t * B)
      BY <1>1, <1>11
    <3> QED BY <1>1, <1>2, <1>11, <3>1, <3>2
  <2> QED BY <1>1, <1>2, <1>11, <2>1, <2>2, <2>3
<1>13. high.v * B + low.v = (x - y) % W
  <2>1. low.v = r /\ high.v = IF t < 0 THEN t + B ELSE t
    BY <1>1, <1>3, <1>4, <1>5, <1>8, <1>9 DEF t, r
  <2>2. (t + B) * B = (t * B) + W
    BY <1>1, <1>11
  <2>3. CASE ~(t < 0)
    BY <2>3, <2>1, <1>1, <1>2, <1>10, <1>11, <1>12
  <2>4. CASE t < 0
    <3>1. high.v = t + B
      BY <2>1, <2>4
    <3>2. high.v * B + low.v = (t * B + r) + W
      BY <2>1, <2>2, <3>1, <1>1, <1>2, <1>11, <1>12
    <3> QED BY <2>4, <3>2, <1>1, <1>2, <1>10, <1>11, <1>12
  <2> QED BY <2>3, <2>4
<1>14. high.f.cf = (x < y)
  BY <1>1, <1>4, <1>5, <1>7, <1>12 DEF t
<1>15. Unit!One(low.f.cf) = c
  BY <1>6 DEF c
<1>16. high.v \in 0..(B - 1) /\ low.v \in 0..(B - 1)
  BY <1>1, <1>3, <1>4, <1>5, <1>8, <1>9, <1>11 DEF r
<1>17. high.f.sf = Unit!Sign((x - y) % W, W)
  <2>1. Unit!Sign((high.v * B) + low.v, W) = Unit!Sign(high.v, B)
    BY <1>16, SignOfWord DEF B, W
  <2> QED BY <1>7, <1>13, <2>1
<1>18. high.f.of = ~Representable(Unit!Signed(x, W) - Unit!Signed(y, W), W)
  <2> DEFINE sx == Unit!Signed(x1, B)
             sy == Unit!Signed(y1, B)
  <2>1. /\ Unit!Signed(x, W) = (sx * B) + x0 /\ Unit!Signed(y, W) = (sy * B) + y0
        /\ sx \in Int /\ sy \in Int
    BY <1>1, <1>3, <1>5, SignOfWord DEF B, W
  <2> HIDE DEF sx, sy
  <2>2. ((sx * B) + x0) - ((sy * B) + y0) = ((sx - sy - c) * B) + r
    <3>1. (sx - sy - c) * B = (sx * B) - (sy * B) - (c * B)
      BY <1>1, <1>4, <2>1
    <3>2. sx * B \in Int /\ sy * B \in Int /\ c * B \in Int
      BY <1>1, <1>4, <2>1
    <3> QED BY <1>3, <1>4, <3>1, <3>2 DEF r
  <2>3. sx - sy - c \in Int
    BY <1>4, <2>1
  <2>4. Representable(((sx - sy - c) * B) + r, W) = Representable(sx - sy - c, B)
    BY <1>11, <2>3, FitsWord DEF B, W
  <2> QED BY <1>7, <2>1, <2>2, <2>4 DEF sx, sy
<1> QED BY <1>13, <1>14, <1>15, <1>17, <1>18 DEF low, high, B, W, x0, x1, y0, y1

-----------------------------------------------------------------------------
(* Multiplication and division. *)

\* MUL: the two halves hold the product, and carry and overflow say that the
\* upper half is needed.
THEOREM ProductExact ==
  ASSUME NEW n \in Widths, NEW a \in Holds(n), NEW x \in Holds(n), NEW f \in Unit!Flags
  PROVE  LET r == Unit!Mul(f, a, x, n)
         IN  /\ r.lo \in Holds(n) /\ r.hi \in Holds(n)
             /\ r.hi * n + r.lo = a * x
             /\ r.f.cf = (r.hi # 0) /\ r.f.of = r.f.cf
<1> DEFINE p == a * x
           q == p \div n
           m == p % n
           r == Unit!Mul(f, a, x, n)
<1>1. n \in Nat \ {0} /\ a \in 0..(n-1) /\ x \in 0..(n-1) /\ p \in Nat
  BY Halves DEF Holds
<1>2. p \in Nat /\ p < n * n
  <2>1. p <= a * n /\ a * n + n <= n * n
    <3>1. x * a <= n * a
      <4>1. CASE x < n
        BY <1>1, Products
      <4> QED BY <4>1, <1>1
    <3>2. a * n + n <= n * n
      BY <1>1, Products
    <3> QED BY <3>1, <3>2, <1>1
  <2>2. a * n \in Nat /\ n * n \in Nat
    BY <1>1
  <2> QED BY <1>1, <2>1, <2>2
<1> HIDE DEF p
<1>3. q \in Nat /\ m \in 0..(n-1) /\ p = q * n + m
  BY <1>1, DivisionParts
<1> HIDE DEF m
<1>4. q \in 0..(n-1)
  <2> HIDE DEF q
  <2>1. ~(n < q) /\ q # n
    <3>1. n < q => n * n + n <= q * n
      BY <1>1, <1>3, Products
    <3>2. n * n \in Nat /\ q * n \in Nat
      BY <1>1, <1>3
    <3> QED BY <1>1, <1>2, <1>3, <3>1, <3>2
  <2> QED BY <2>1, <1>1, <1>3
<1>5. q % n = q
  BY <1>1, <1>4, BelowDivisor
<1>6. (p >= n) = (q # 0)
  <2> HIDE DEF q
  <2>1. q # 0 => q * n >= n
    BY <1>1, <1>3
  <2> QED BY <1>1, <1>3, <2>1
<1>7. r.lo = m /\ r.hi = q % n /\ r.f.cf = (p >= n) /\ r.f.of = (p >= n)
  BY DEF Unit!Mul, Unit!Product, Unit!Flags, p, m
<1> HIDE DEF q, r
<1>8. /\ r.lo \in 0..(n-1) /\ r.hi \in 0..(n-1)
      /\ r.hi * n + r.lo = p
      /\ r.f.cf = (r.hi # 0) /\ r.f.of = r.f.cf
  BY <1>3, <1>4, <1>5, <1>6, <1>7
<1> QED BY <1>8 DEF r, p, Holds


\* DIV raises the divide exception exactly when the quotient does not fit,
\* zero divisors included; else quotient and remainder make up the dividend.
THEOREM QuotientExact ==
  ASSUME NEW n \in Widths, NEW hi \in Holds(n), NEW lo \in Holds(n), NEW x \in Holds(n)
  PROVE  LET r == Unit!Div(hi, lo, x, n)
         IN  /\ (r.k = "fault") = (hi >= x)
             /\ r.k = "ok" => /\ r.lo \in Holds(n) /\ r.hi \in 0..(x - 1)
                              /\ r.lo * x + r.hi = hi * n + lo
             /\ r.k \in {"ok", "fault"}
<1> DEFINE a == hi * n + lo
           r == Unit!Div(hi, lo, x, n)
<1>1. n \in Nat \ {0} /\ hi \in 0..(n-1) /\ lo \in 0..(n-1) /\ x \in 0..(n-1)
  BY Halves DEF Holds
<1>2. a \in Nat /\ hi * n \in Nat
  BY <1>1
<1>3. CASE x = 0
  <2>1. r.k = "fault"
    BY <1>3 DEF Unit!Div, Unit!Fault
  <2> QED BY <1>1, <1>3, <2>1
<1>4. CASE x # 0
  <2> DEFINE q == a \div x
             m == a % x
  <2>1. x \in Nat \ {0}
    BY <1>1, <1>4
  <2>2. q \in Nat /\ m \in 0..(x - 1) /\ a = q * x + m
    BY <1>2, <2>1, DivisionParts
  <2>3. r = IF q >= n THEN Unit!Fault ELSE [k |-> "ok", hi |-> m, lo |-> q]
    BY <1>4 DEF Unit!Div
  <2> HIDE DEF q, m
  <2>4. (q >= n) = (hi >= x)
    <3>0. q * x \in Nat /\ n * x \in Nat /\ x * n \in Nat /\ n * x = x * n
      BY <1>1, <2>2
    <3>1. q >= n => q * x >= n * x
      <4>1. n < q => n * x + x <= q * x
        BY <1>1, <2>1, <2>2, Products
      <4> QED BY <4>1, <3>0, <1>1, <2>1, <2>2
    <3>2. q < n => q * x + x <= n * x
      BY <1>1, <2>1, <2>2, Products
    <3>3. hi < x => hi * n + n <= x * n
      BY <1>1, <2>1, Products
    <3>4. hi >= x => hi * n >= x * n
      <4>1. x < hi => x * n + n <= hi * n
        BY <1>1, <2>1, Products
      <4> QED BY <4>1, <3>0, <1>1, <1>2, <2>1
    <3>5. hi * n + lo = q * x + m
      BY <2>2
    <3> QED BY <1>1, <1>2, <2>1, <2>2, <3>0, <3>1, <3>2, <3>3, <3>4, <3>5
  <2> HIDE DEF r
  <2>5. CASE q >= n
    <3>1. r.k = "fault"
      BY <2>3, <2>5 DEF Unit!Fault
    <3> QED BY <2>4, <2>5, <3>1 DEF r
  <2>6. CASE ~(q >= n)
    <3>1. r.k = "ok" /\ r.hi = m /\ r.lo = q
      BY <2>3, <2>6
    <3>2. q \in 0..(n - 1)
      BY <1>1, <2>2, <2>6
    <3>3. r.lo * x + r.hi = hi * n + lo
      BY <2>2, <3>1
    <3> QED BY <2>2, <2>4, <2>6, <3>1, <3>2, <3>3 DEF r, Holds
  <2> QED BY <2>5, <2>6
<1> QED BY <1>3, <1>4

\* A number that fits keeps its value in a register, and what a register
\* holds fits.
LEMMA SignedWraps ==
  ASSUME NEW n \in Widths
  PROVE  /\ \A v \in -(n \div 2) .. n \div 2 - 1 : v % n \in 0..(n - 1) /\ Unit!Signed(v % n, n) = v
         /\ \A w \in 0..(n - 1) : Unit!Signed(w, n) \in -(n \div 2) .. n \div 2 - 1
<1> DEFINE h == n \div 2
<1>1. n \in Nat \ {0} /\ h \in Nat \ {0} /\ n = 2 * h
  BY Halves
<1> HIDE DEF h
<1>2. ASSUME NEW v \in -h .. h - 1 PROVE v % n \in 0..(n - 1) /\ Unit!Signed(v % n, n) = v
  <2>1. v \in Int /\ -n <= v /\ v < 2 * n
    BY <1>1
  <2>2. v % n = IF v < 0 THEN v + n ELSE IF v < n THEN v ELSE v - n
    BY <1>1, <2>1, Wraps
  <2>3. v % n = IF v < 0 THEN v + n ELSE v
    BY <1>1, <2>2
  <2>4. PICK w \in Int : w = v % n
    BY <1>1, <2>1
  <2>5. Unit!Signed(w, n) = IF w >= h THEN w - n ELSE w
    BY DEF Unit!Signed, Unit!Sign, h
  <2> QED BY <1>1, <2>1, <2>3, <2>4, <2>5
<1>3. ASSUME NEW w \in 0..(n - 1) PROVE Unit!Signed(w, n) \in -h .. h - 1
  <2>1. Unit!Signed(w, n) = IF w >= h THEN w - n ELSE w
    BY DEF Unit!Signed, Unit!Sign, h
  <2> QED BY <1>1, <2>1
<1> QED BY <1>2, <1>3 DEF h

\* The product of two numbers is no greater than the square of their bound.
LEMMA BoundedProduct ==
  ASSUME NEW h \in Nat, NEW u \in -h .. h, NEW v \in -h .. h
  PROVE  u * v \in Int /\ h * h \in Nat /\ -(h * h) <= u * v /\ u * v <= h * h
<1>1. \A x \in Nat, y \in Nat : x * y \in Nat
  OBVIOUS
<1>2. (h - u) * (h + v) \in Nat /\ (h + u) * (h - v) \in Nat
  BY <1>1
<1>3. (h + u) * (h + v) \in Nat /\ (h - u) * (h - v) \in Nat
  BY <1>1
<1>4. (h - u) * (h + v) + (h + u) * (h - v) = 2 * (h * h) - 2 * (u * v)
  OBVIOUS
<1>5. (h + u) * (h + v) + (h - u) * (h - v) = 2 * (h * h) + 2 * (u * v)
  OBVIOUS
<1>6. u * v \in Int /\ h * h \in Nat
  OBVIOUS
<1> QED BY <1>2, <1>3, <1>4, <1>5, <1>6


\* Division rounds down, for a negative number too.
LEMMA FloorParts ==
  ASSUME NEW p \in Int, NEW n \in Nat \ {0}
  PROVE  p \div n \in Int /\ p % n \in 0..(n - 1) /\ p = (n * (p \div n)) + (p % n)
OBVIOUS

\* IMUL: the halves hold the signed product, and carry and overflow say that
\* it does not fit the lower one.
THEOREM SignedProductExact ==
  ASSUME NEW n \in Widths, NEW a \in Holds(n), NEW x \in Holds(n), NEW f \in Unit!Flags
  PROVE  LET r == Unit!Imul(f, a, x, n)
             p == Unit!Signed(a, n) * Unit!Signed(x, n)
         IN  /\ r.lo \in Holds(n) /\ r.hi \in Holds(n)
             /\ Unit!Signed(r.hi, n) * n + r.lo = p
             /\ r.f.cf = ~Representable(p, n) /\ r.f.of = r.f.cf
<1> DEFINE h == n \div 2
           u == Unit!Signed(a, n)
           v == Unit!Signed(x, n)
           p == u * v
           q == p \div n
           m == p % n
           r == Unit!Imul(f, a, x, n)
<1>1. n \in Nat \ {0} /\ h \in Nat \ {0} /\ n = 2 * h /\ a \in 0..(n-1) /\ x \in 0..(n-1)
  BY Halves DEF Holds
<1>2. u \in -h .. h - 1 /\ v \in -h .. h - 1
  BY <1>1, SignedWraps
<1>3. r.lo = m /\ r.hi = q % n /\ r.f.cf = (Unit!Signed(m, n) # p) /\ r.f.of = (Unit!Signed(m, n) # p)
  BY DEF Unit!Imul, Unit!Product, Unit!Flags
<1> HIDE DEF h, u, v, r
<1>4. p \in Int /\ h * h \in Nat /\ -(h * h) <= p /\ p <= h * h
  BY <1>1, <1>2, BoundedProduct
<1> HIDE DEF p
<1>5. q \in Int /\ m \in 0..(n - 1) /\ p = n * q + m
  BY <1>1, <1>4, FloorParts
<1> HIDE DEF q, m
<1>6. q \in -h .. h - 1
  <2>1. ~(q >= h)
    <3> SUFFICES ASSUME q >= h PROVE FALSE
      OBVIOUS
    <3>1. n * q = n * (q - h) + 2 * (h * h) /\ n * (q - h) >= 0
      BY <1>1, <1>5
    <3>2. h * h >= 1
      BY <1>1
    <3> QED BY <1>1, <1>4, <1>5, <3>1, <3>2
  <2>2. ~(q < -h)
    <3> SUFFICES ASSUME q < -h PROVE FALSE
      OBVIOUS
    <3>1. n * q = -(n * (-h - 1 - q)) - 2 * (h * h) - n /\ n * (-h - 1 - q) >= 0
      BY <1>1, <1>5
    <3> QED BY <1>1, <1>4, <1>5, <3>1
  <2> QED BY <1>1, <1>5, <2>1, <2>2
<1>7. q % n \in 0..(n - 1) /\ Unit!Signed(q % n, n) = q
  BY <1>6, SignedWraps DEF h
<1>8. (Unit!Signed(m, n) # p) = ~(p \in -h .. h - 1)
  <2>1. p \in -h .. h - 1 => Unit!Signed(m, n) = p
    BY SignedWraps DEF h, m
  <2>2. Unit!Signed(m, n) \in -h .. h - 1
    BY <1>5, SignedWraps DEF h
  <2> QED BY <2>1, <2>2
<1>9. q * n = n * q
  BY <1>1, <1>5
<1> QED BY <1>3, <1>5, <1>7, <1>8, <1>9 DEF Holds, Representable, r, p, u, v, h

\* IDIV truncates: quotient and remainder make up the dividend, the remainder
\* is smaller than the divisor and has the sign of the dividend.  The divide
\* exception is raised only when no quotient that fits does so; the panic of
\* the emulator (Idiv in Alu) is the lowest dividend over -1 and nothing else.
THEOREM SignedQuotientExact ==
  ASSUME NEW n \in Widths, NEW hi \in Holds(n), NEW lo \in Holds(n), NEW x \in Holds(n)
  PROVE  LET r == Unit!Idiv(hi, lo, x, n)
             a == Unit!Signed(hi, n) * n + lo
             b == Unit!Signed(x, n)
             q == Unit!Signed(r.lo, n)
             m == Unit!Signed(r.hi, n)
         IN  /\ r.k \in {"ok", "fault", "panic"}
             /\ r.k = "ok" => /\ q * b + m = a
                              /\ Unit!Magnitude(m) < Unit!Magnitude(b)
                              /\ m # 0 => (m < 0) = (a < 0)
             /\ r.k = "fault" => b = 0 \/ \A k \in -(n \div 2) .. n \div 2 - 1, l \in Int :
                    ~(k * b + l = a /\ Unit!Magnitude(l) < Unit!Magnitude(b)
                      /\ (l # 0 => (l < 0) = (a < 0)))
             /\ r.k = "panic" => b = -1 /\ a = -(n * (n \div 2))
<1> DEFINE h == n \div 2
           a == Unit!Signed(hi, n) * n + lo
           b == Unit!Signed(x, n)
           r == Unit!Idiv(hi, lo, x, n)
           A == Unit!Magnitude(a)
           B == Unit!Magnitude(b)
           q0 == A \div B
           m0 == A % B
           q == Unit!Quotient(a, b)
<1>1. n \in Nat \ {0} /\ h \in Nat \ {0} /\ n = 2 * h /\ lo \in 0..(n-1) /\ hi \in 0..(n-1) /\ x \in 0..(n-1)
  BY Halves DEF Holds
<1>2. a \in Int /\ b \in -h .. h - 1 /\ Unit!Signed(hi, n) \in Int
  <2>1. Unit!Signed(hi, n) \in -h .. h - 1 /\ b \in -h .. h - 1
    BY <1>1, SignedWraps
  <2> HIDE DEF h
  <2> QED BY <1>1, <2>1
<1> HIDE DEF h
<1>3. r = IF b = 0 THEN Unit!Fault
          ELSE IF a = -(n * h) /\ b = -1 THEN Unit!Panic
          ELSE IF q \notin -h .. h - 1 THEN Unit!Fault
          ELSE [k |-> "ok", hi |-> (a - q * b) % n, lo |-> q % n]
  BY DEF Unit!Idiv, h
<1> HIDE DEF r, a, b
<1>4. CASE b = 0
  <2>1. r.k = "fault"
    BY <1>3, <1>4 DEF Unit!Fault
  <2> QED BY <1>4, <2>1 DEF r, a, b
<1>5. CASE b # 0 /\ a = -(n * h) /\ b = -1
  <2>1. r.k = "panic"
    BY <1>3, <1>5 DEF Unit!Panic
  <2> QED BY <1>5, <2>1 DEF r, a, b, h
<1>6. CASE b # 0 /\ ~(a = -(n * h) /\ b = -1)
  <2>1. /\ A \in Nat /\ B \in Nat \ {0}
        /\ A = (IF a < 0 THEN -a ELSE a) /\ B = (IF b < 0 THEN -b ELSE b) /\ B <= h
    BY <1>1, <1>2, <1>6 DEF Unit!Magnitude
  <2> HIDE DEF A, B
  <2>2. q0 \in Nat /\ m0 \in 0..(B - 1) /\ A = (q0 * B) + m0
    <3>1. A \in Nat /\ B \in Nat \ {0}
      BY <2>1
    <3> QED BY <3>1, DivisionParts
  <2>3. q = IF (a < 0) = (b < 0) THEN q0 ELSE -q0
    BY DEF Unit!Quotient, A, B
  <2> HIDE DEF q, q0, m0
  <2> DEFINE m == a - q * b
  <2>4. q \in Int /\ m = (IF a < 0 THEN -m0 ELSE m0)
    <3>1. q * b = IF a < 0 THEN -(q0 * B) ELSE q0 * B
      BY <1>2, <2>1, <2>2, <2>3
    <3>2. q0 * B \in Nat
      BY <2>1, <2>2
    <3> QED BY <1>2, <2>1, <2>2, <2>3, <3>1, <3>2
  <2>5. m \in -h .. h - 1 /\ q * b + m = a
    <3>1. q * b \in Int
      BY <1>2, <2>4
    <3> QED BY <1>1, <1>2, <2>1, <2>2, <2>4, <3>1
  <2>6. Unit!Magnitude(m) = m0 /\ (m # 0 => (m < 0) = (a < 0))
    BY <2>2, <2>4 DEF Unit!Magnitude
  <2> HIDE DEF m
  <2>7. r = IF q \notin -h .. h - 1 THEN Unit!Fault
            ELSE [k |-> "ok", hi |-> m % n, lo |-> q % n]
    BY <1>3, <1>6 DEF m
  <2>8. CASE q \in -h .. h - 1
    <3>1. r.k = "ok" /\ r.hi = m % n /\ r.lo = q % n
      BY <2>7, <2>8
    <3>2. Unit!Signed(m % n, n) = m /\ Unit!Signed(q % n, n) = q
      BY <2>5, <2>8, SignedWraps DEF h
    <3>3. Unit!Magnitude(m) < Unit!Magnitude(b)
      BY <2>1, <2>2, <2>6 DEF B
    <3> QED BY <2>5, <2>6, <3>1, <3>2, <3>3 DEF r, a, b
  <2>9. CASE q \notin -h .. h - 1
    <3>1. r.k = "fault"
      BY <2>7, <2>9 DEF Unit!Fault
    <3>2. ASSUME NEW k \in -h .. h - 1, NEW l \in Int, k * b + l = a,
                 Unit!Magnitude(l) < Unit!Magnitude(b), l # 0 => (l < 0) = (a < 0)
          PROVE  FALSE
      <4> DEFINE k0 == IF k < 0 THEN -k ELSE k
                 l0 == IF l < 0 THEN -l ELSE l
      <4>1. k \in Int /\ k0 \in Nat /\ l0 \in 0..(B - 1)
        <5>1. l0 < B
          BY <3>2 DEF B, Unit!Magnitude
        <5> QED BY <1>1, <2>1, <5>1
      <4>2. k0 * B \in Nat /\ (k * b = k0 * B \/ k * b = -(k0 * B))
        BY <1>2, <2>1, <4>1
      <4>3. A = k0 * B + l0
        <5>1. k0 # 0 => k0 * B >= B
          BY <2>1, <4>1
        <5>2. k0 = 0 => k0 * B = 0
          BY <2>1
        <5> HIDE DEF k0
        <5> QED BY <1>2, <2>1, <3>2, <4>1, <4>2, <5>1, <5>2
      <4> HIDE DEF k0, l0
      <4>4. k0 = q0 /\ l0 = m0
        BY <2>1, <2>2, <4>1, <4>3, DivisionUnique
      <4>5. k # q
        BY <2>9
      <4>6. k = -q /\ q # 0
        BY <2>2, <2>3, <2>4, <4>1, <4>4, <4>5 DEF k0
      <4>7. q * b \in Int /\ k * b = -(q * b)
        BY <1>2, <2>4, <4>6
      <4>8. q * b = IF a < 0 THEN -(q0 * B) ELSE q0 * B
        BY <1>2, <2>1, <2>2, <2>3
      <4>9. q0 * B >= B
        BY <2>1, <2>2, <2>3, <4>6
      <4> QED BY <1>2, <2>1, <2>2, <3>2, <4>1, <4>4, <4>7, <4>8, <4>9 DEF l0
    <3> QED BY <3>1, <3>2 DEF r, a, b, h
  <2> QED BY <2>8, <2>9
<1> QED BY <1>4, <1>5, <1>6

-----------------------------------------------------------------------------
(* Steps and decimal digits. *)

\* AAD undoes AAM, for every base: the digits of AL make up AL again.
THEOREM DigitsRestored ==
  ASSUME NEW al \in Holds(Unit!Bytes), NEW base \in 1..255, NEW f \in Unit!Flags, NEW g \in Unit!Flags
  PROVE  LET r == Unit!Aam(f, al, base)
         IN  /\ r.k = "ok" /\ r.lo < base
             /\ Unit!Aad(g, (r.hi * Unit!Bytes) + r.lo, base).v = al
<1> DEFINE B == Unit!Bytes
           q == al \div base
           m == al % base
           r == Unit!Aam(f, al, base)
           ax == (q * B) + m
<1>1. al \in Nat /\ base \in Nat \ {0} /\ B \in Nat \ {0} /\ al \in 0..(B - 1) /\ B = 256
  BY DEF Holds, Unit!Bytes
<1>2. q \in Nat /\ m \in 0..(base - 1) /\ al = (q * base) + m
  BY <1>1, DivisionParts
<1>3. r.k = "ok" /\ r.hi = q /\ r.lo = m
  BY <1>1 DEF Unit!Aam
<1> HIDE DEF q, m, B
<1>4. q * base \in Nat /\ q * B \in Nat
  BY <1>1, <1>2
<1>5. m \in 0..(B - 1)
  BY <1>1, <1>2, <1>4
<1>6. ax \in Nat /\ ax \div B = q
  BY <1>1, <1>2, <1>4, <1>5, DivisionOfSum
<1>7. Unit!Aad(g, ax, base).v = (ax + (q * base)) % B
  BY <1>6 DEF Unit!Aad, B
<1>8. ax + (q * base) = (q * B) + al
  BY <1>1, <1>2, <1>4, <1>5
<1>9. ((q * B) + al) % B = al
  BY <1>1, <1>2, DivisionOfSum
<1> QED BY <1>1, <1>2, <1>3, <1>7, <1>8, <1>9 DEF B


\* INC, DEC and NEG are the additions and subtractions of one and from zero,
\* in result and overflow; INC and DEC keep the carry that a loop may be
\* using, and the carry of NEG is that of the subtraction.
THEOREM StepsExact ==
  ASSUME NEW n \in Widths, NEW x \in Holds(n), NEW f \in Unit!Flags
  PROVE  LET up   == Unit!Inc(f, x, n)
             down == Unit!Dec(f, x, n)
             neg  == Unit!Neg(f, x, n)
             s    == Unit!Signed(x, n)
         IN  /\ up.v = Unit!Add(f, x, 1, 0, n).v /\ up.f.cf = f.cf
             /\ up.f.of = Unit!Add(f, x, 1, 0, n).f.of
             /\ down.v = Unit!Sub(f, x, 1, 0, n).v /\ down.f.cf = f.cf
             /\ down.f.of = Unit!Sub(f, x, 1, 0, n).f.of
             /\ neg.v = Unit!Sub(f, 0, x, 0, n).v /\ neg.f.cf = Unit!Sub(f, 0, x, 0, n).f.cf
             /\ neg.f.of = Unit!Sub(f, 0, x, 0, n).f.of
<1> DEFINE h == n \div 2
           s == Unit!Signed(x, n)
           I == Unit!Inc(f, x, n)
           D == Unit!Dec(f, x, n)
           N == Unit!Neg(f, x, n)
           i == Unit!Add(f, x, 1, 0, n)
           d == Unit!Sub(f, x, 1, 0, n)
           z == Unit!Sub(f, 0, x, 0, n)
<1>1. n \in Nat \ {0} /\ h \in Nat \ {0} /\ n = 2 * h /\ x \in 0..(n-1)
  BY Halves DEF Holds
<1>2. h > 1
  BY DEF Widths, Unit!Bytes, Unit!Words
<1>3. 0 \in Holds(n) /\ 1 \in Holds(n)
  <2> HIDE DEF h
  <2> QED BY <1>1, <1>2 DEF Holds
<1>4. /\ i.v = (x + 1 + 0) % n /\ i.f.of = ~Representable(s + Unit!Signed(1, n) + 0, n)
  BY <1>3, AdditionExact
<1>5. /\ d.v = (x - 1 - 0) % n /\ d.f.of = ~Representable(s - Unit!Signed(1, n) - 0, n)
  BY <1>3, DifferenceExact
<1>6. /\ z.v = (0 - x - 0) % n /\ z.f.of = ~Representable(Unit!Signed(0, n) - s - 0, n)
      /\ z.f.cf = (0 < x + 0)
  BY <1>3, DifferenceExact
<1> HIDE DEF i, d, z
<1>7. I.v = (x + 1) % n /\ I.f.cf = f.cf /\ I.f.of = (x = h - 1)
  BY DEF Unit!Inc, Unit!Results, Unit!Flags
<1>8. D.v = (x - 1) % n /\ D.f.cf = f.cf /\ D.f.of = (x = h)
  BY DEF Unit!Dec, Unit!Results, Unit!Flags
<1>9. N.v = (-x) % n /\ N.f.cf = (x # 0) /\ N.f.of = (x = h)
  BY DEF Unit!Neg, Unit!Results, Unit!Flags
<1> HIDE DEF I, D, N
<1>10. /\ s = (IF x >= h THEN x - n ELSE x)
       /\ Unit!Signed(1, n) = (IF 1 >= h THEN 1 - n ELSE 1)
       /\ Unit!Signed(0, n) = (IF 0 >= h THEN 0 - n ELSE 0)
  BY DEF Unit!Signed, Unit!Sign
<1>11. \A v : Representable(v, n) = (v \in -h .. h - 1)
  BY DEF Representable
<1> HIDE DEF h, s
<1>12. Unit!Signed(1, n) = 1 /\ Unit!Signed(0, n) = 0 /\ s \in Int
  BY <1>1, <1>2, <1>10
<1>13. /\ (x = h - 1) = ~(s + 1 + 0 \in -h .. h - 1)
       /\ (x = h) = ~(s - 1 - 0 \in -h .. h - 1)
       /\ (x = h) = ~(0 - s - 0 \in -h .. h - 1)
  BY <1>1, <1>2, <1>10
<1>14. x + 1 + 0 = x + 1 /\ x - 1 - 0 = x - 1 /\ 0 - x - 0 = -x /\ (0 < x + 0) = (x # 0)
  BY <1>1
<1>15. i.v = I.v /\ i.f.of = I.f.of
  BY <1>4, <1>7, <1>11, <1>12, <1>13, <1>14
<1>16. d.v = D.v /\ d.f.of = D.f.of
  BY <1>5, <1>8, <1>11, <1>12, <1>13, <1>14
<1>17. z.v = N.v /\ z.f.of = N.f.of /\ z.f.cf = N.f.cf
  BY <1>6, <1>9, <1>11, <1>12, <1>13, <1>14
<1> QED BY <1>7, <1>8, <1>15, <1>16, <1>17 DEF i, d, z, I, D, N

\* The result and the carry of DAA and DAS.
LEMMA AdjustFields ==
  ASSUME NEW f \in Unit!Flags, NEW al, NEW sgn
  PROVE  LET low  == Unit!Nibble(al) > 9 \/ f.af
             a    == IF low THEN (al + sgn * 6) % Unit!Bytes ELSE al
             high == al > 153 \/ f.cf
             r    == Unit!DecimalAdjust(f, al, sgn)
         IN  /\ r.v = IF high THEN (a + sgn * 96) % Unit!Bytes ELSE a
             /\ r.f.cf = high
<1> DEFINE low  == Unit!Nibble(al) > 9 \/ f.af
           a    == IF low THEN (al + sgn * 6) % Unit!Bytes ELSE al
           high == al > 153 \/ f.cf
           v    == IF high THEN (a + sgn * 96) % Unit!Bytes ELSE a
           g    == Unit!Results(f, v, Unit!Bytes)
           G    == [g EXCEPT !.af = low, !.cf = high]
           r    == Unit!DecimalAdjust(f, al, sgn)
<1>1. g \in [{"cf", "pf", "af", "zf", "sf", "tf", "if", "df", "of", "hi"} ->
             {g[x] : x \in {"cf", "pf", "af", "zf", "sf", "tf", "if", "df", "of", "hi"}}]
  BY ResultsAre
<1>2. r = [v |-> v, f |-> G]
  BY DEF Unit!DecimalAdjust
<1>4. low \in BOOLEAN /\ high \in BOOLEAN
  OBVIOUS
<1> HIDE DEF low, high, a, g, v, r
<1>5. G.cf = high
  BY <1>1, <1>4
<1> HIDE DEF G
<1>3. r.v = v /\ r.f = G
  BY <1>2
<1> QED BY <1>3, <1>5 DEF r, v, a, high, low

\* The auxiliary carry that the byte forms leave for DAA and DAS.
LEMMA SumsTyped ==
  ASSUME NEW d, NEW s, NEW c, NEW f \in Unit!Flags
  PROVE  /\ LET r == Unit!Add(f, d, s, c, Unit!Bytes) IN
            /\ r.f.af = (Unit!Nibble(d) + Unit!Nibble(s) + c > 15)
            /\ r.f \in Unit!Flags
         /\ LET r == Unit!Sub(f, d, s, c, Unit!Bytes) IN
            /\ r.f.af = (Unit!Nibble(d) < Unit!Nibble(s) + c)
            /\ r.f \in Unit!Flags
<1>1. ASSUME NEW r PROVE Unit!Results(f, r, Unit!Bytes) \in Unit!Flags
  <2> DEFINE x == r = 0
             y == Unit!Sign(r, Unit!Bytes)
             z == Unit!EvenOnes(r, 8)
  <2>1. x \in BOOLEAN /\ y \in BOOLEAN /\ z \in BOOLEAN
    BY DEF Unit!Sign, Unit!EvenOnes
  <2>2. Unit!Results(f, r, Unit!Bytes) = [f EXCEPT !.zf = x, !.sf = y, !.pf = z]
    BY DEF Unit!Results
  <2> HIDE DEF x, y, z
  <2>3. [f EXCEPT !.zf = x, !.sf = y, !.pf = z] \in Unit!Flags
    BY <2>1 DEF Unit!Flags
  <2> QED BY <2>2, <2>3
<1>2. ASSUME NEW g \in Unit!Flags, NEW x \in BOOLEAN, NEW y \in BOOLEAN, NEW z \in BOOLEAN
      PROVE  /\ [g EXCEPT !.cf = x, !.of = y, !.af = z] \in Unit!Flags
             /\ [g EXCEPT !.cf = x, !.of = y, !.af = z].af = z
  BY ZenonT(60) DEF Unit!Flags
<1>3. LET r == Unit!Add(f, d, s, c, Unit!Bytes) IN
      r.f.af = (Unit!Nibble(d) + Unit!Nibble(s) + c > 15) /\ r.f \in Unit!Flags
  <2> DEFINE v == (((d + s) % Unit!Bytes) + c) % Unit!Bytes
             x == d + s >= Unit!Bytes \/ ((d + s) % Unit!Bytes) + c >= Unit!Bytes
             y == Unit!Sign(d, Unit!Bytes) # Unit!Sign(v, Unit!Bytes) 
                  /\ Unit!Sign(s, Unit!Bytes) # Unit!Sign(v, Unit!Bytes)
             z == Unit!Nibble(d) + Unit!Nibble(s) + c > 15
  <2>1. Unit!Add(f, d, s, c, Unit!Bytes).f =
          [Unit!Results(f, v, Unit!Bytes) EXCEPT !.cf = x, !.of = y, !.af = z]
    BY DEF Unit!Add
  <2>2. x \in BOOLEAN /\ y \in BOOLEAN /\ z \in BOOLEAN
    OBVIOUS
  <2> HIDE DEF v, x, y, z
  <2> DEFINE G == Unit!Results(f, v, Unit!Bytes)
             F == Unit!Add(f, d, s, c, Unit!Bytes).f
  <2>3. G \in Unit!Flags /\ F = [G EXCEPT !.cf = x, !.of = y, !.af = z]
    BY <1>1, <2>1
  <2> HIDE DEF G, F
  <2>4. F.af = z /\ F \in Unit!Flags
    BY <1>2, <2>2, <2>3
  <2> QED BY <2>4 DEF z, F
<1>4. LET r == Unit!Sub(f, d, s, c, Unit!Bytes) IN
      r.f.af = (Unit!Nibble(d) < Unit!Nibble(s) + c) /\ r.f \in Unit!Flags
  <2> DEFINE v == (((d - s) % Unit!Bytes) - c) % Unit!Bytes
             x == d < s \/ (d - s) % Unit!Bytes < c
             y == Unit!Sign(d, Unit!Bytes) # Unit!Sign(s, Unit!Bytes) 
                  /\ Unit!Sign(d, Unit!Bytes) # Unit!Sign(v, Unit!Bytes)
             z == Unit!Nibble(d) < Unit!Nibble(s) + c
  <2>1. Unit!Sub(f, d, s, c, Unit!Bytes).f =
          [Unit!Results(f, v, Unit!Bytes) EXCEPT !.cf = x, !.of = y, !.af = z]
    BY DEF Unit!Sub
  <2>2. x \in BOOLEAN /\ y \in BOOLEAN /\ z \in BOOLEAN
    OBVIOUS
  <2> HIDE DEF v, x, y, z
  <2> DEFINE G == Unit!Results(f, v, Unit!Bytes)
             F == Unit!Sub(f, d, s, c, Unit!Bytes).f
  <2>3. G \in Unit!Flags /\ F = [G EXCEPT !.cf = x, !.of = y, !.af = z]
    BY <1>1, <2>1
  <2> HIDE DEF G, F
  <2>4. F.af = z /\ F \in Unit!Flags
    BY <1>2, <2>2, <2>3
  <2> QED BY <2>4 DEF z, F
<1> QED BY <1>3, <1>4

\* The digits of a packed number.
LEMMA PackedDigits ==
  ASSUME NEW x, Packed(x)
  PROVE  \E t \in 0..9, u \in 0..9 :
           x = (16 * t) + u /\ x % 16 = u /\ x \div 16 = t /\ Decimal(x) = (10 * t) + u
BY DEF Packed, Decimal

\* Two digits are a packed number.
LEMMA DigitsPacked ==
  ASSUME NEW t \in 0..9, NEW u \in 0..9
  PROVE  Packed((16 * t) + u) /\ Decimal((16 * t) + u) = (10 * t) + u
BY DEF Packed, Decimal

\* The byte that an addition leaves, adjusted, for every pair of digits.
LEMMA AdjustedSum ==
  ASSUME NEW t \in 0..18, NEW u \in 0..19
  PROVE  LET s    == (16 * t) + u
             v    == s % 256
             low  == v % 16 > 9 \/ u > 15
             a    == IF low THEN (v + 6) % 256 ELSE v
             high == v > 153 \/ s >= 256
             r    == IF high THEN (a + 96) % 256 ELSE a
             T    == IF u > 9 THEN t + 1 ELSE t
             U    == IF u > 9 THEN u - 10 ELSE u
         IN  r = (16 * (IF T > 9 THEN T - 10 ELSE T)) + U /\ high = (T > 9)
<1> DEFINE s == (16 * t) + u
           v == s % 256
<1>1. v = (IF s >= 256 THEN s - 256 ELSE s) /\ s \in 0..307
  OBVIOUS
<1>2. v % 16 = u % 16
  OBVIOUS
<1>3. (v % 16 > 9 \/ u > 15) = (u > 9)
  BY <1>2
<1>4. (v > 153 \/ s >= 256) = (IF u > 9 THEN t > 8 ELSE t > 9)
  BY <1>1
<1> DEFINE a == IF u > 9 THEN (v + 6) % 256 ELSE v
<1>5. a = (IF u > 9 THEN (IF v + 6 >= 256 THEN v + 6 - 256 ELSE v + 6) ELSE v)
  BY <1>1
<1>6. (a + 96) % 256 = (IF a + 96 >= 256 THEN a + 96 - 256 ELSE a + 96)
  BY <1>1, <1>5
<1> HIDE DEF v, s, a
<1>7. (IF (IF u > 9 THEN t > 8 ELSE t > 9) THEN (a + 96) % 256 ELSE a)
      = (16 * (LET T == IF u > 9 THEN t + 1 ELSE t IN IF T > 9 THEN T - 10 ELSE T))
         + (IF u > 9 THEN u - 10 ELSE u)
  BY <1>1, <1>5, <1>6 DEF s
<1> QED BY <1>3, <1>4, <1>7 DEF a, v, s

\* And the byte that a subtraction leaves.
LEMMA AdjustedDifference ==
  ASSUME NEW t \in -9..9, NEW u \in -10..9
  PROVE  LET s    == (16 * t) + u
             v    == s % 256
             low  == v % 16 > 9 \/ u < 0
             a    == IF low THEN (v + (-1) * 6) % 256 ELSE v
             high == v > 153 \/ s < 0
             r    == IF high THEN (a + (-1) * 96) % 256 ELSE a
             T    == IF u < 0 THEN t - 1 ELSE t
             U    == IF u < 0 THEN u + 10 ELSE u
         IN  r = (16 * (IF T < 0 THEN T + 10 ELSE T)) + U /\ high = (T < 0)
<1> DEFINE s == (16 * t) + u
           v == s % 256
<1>1. v = (IF s < 0 THEN s + 256 ELSE s) /\ s \in -154..153
  OBVIOUS
<1>2. v % 16 = u % 16
  OBVIOUS
<1>3. (v % 16 > 9 \/ u < 0) = (u < 0)
  BY <1>2
<1>4. (v > 153 \/ s < 0) = (IF u < 0 THEN t < 1 ELSE t < 0)
  BY <1>1
<1> DEFINE a == IF u < 0 THEN (v - 6) % 256 ELSE v
<1>5. a = (IF u < 0 THEN (IF v - 6 < 0 THEN v - 6 + 256 ELSE v - 6) ELSE v)
  BY <1>1
<1>6. (a - 96) % 256 = (IF a - 96 < 0 THEN a - 96 + 256 ELSE a - 96)
  BY <1>1, <1>5
<1>8. v + (-1) * 6 = v - 6 /\ a + (-1) * 96 = a - 96
  BY <1>1, <1>5
<1> HIDE DEF v, s, a
<1>7. (IF (IF u < 0 THEN t < 1 ELSE t < 0) THEN (a - 96) % 256 ELSE a)
      = (16 * (LET T == IF u < 0 THEN t - 1 ELSE t IN IF T < 0 THEN T + 10 ELSE T))
         + (IF u < 0 THEN u + 10 ELSE u)
  BY <1>1, <1>5, <1>6 DEF s
<1> QED BY <1>3, <1>4, <1>7, <1>8 DEF a, v, s


\* DAA after ADD or ADC makes the sum of two packed numbers a packed number,
\* with the decimal carry: the correction looks at the byte before it, at the
\* auxiliary carry and at the carry, which have to agree on every pair.
THEOREM DecimalSumExact ==
  ASSUME NEW x \in Holds(Unit!Bytes), NEW y \in Holds(Unit!Bytes), Packed(x), Packed(y),
         NEW c \in {0, 1}, NEW f \in Unit!Flags
  PROVE  LET s == Unit!Add(f, x, y, c, Unit!Bytes)
             r == Unit!Daa(s.f, s.v)
         IN  /\ Packed(r.v)
             /\ Decimal(r.v) = (Decimal(x) + Decimal(y) + c) % 100
             /\ r.f.cf = (Decimal(x) + Decimal(y) + c >= 100)
<1>1. PICK x1 \in 0..9, x0 \in 0..9 :
        x = (16 * x1) + x0 /\ x % 16 = x0 /\ x \div 16 = x1 /\ Decimal(x) = (10 * x1) + x0
  BY PackedDigits
<1>2. PICK y1 \in 0..9, y0 \in 0..9 :
        y = (16 * y1) + y0 /\ y % 16 = y0 /\ y \div 16 = y1 /\ Decimal(y) = (10 * y1) + y0
  BY PackedDigits
<1> DEFINE t == x1 + y1
           u == x0 + y0 + c
           T == IF u > 9 THEN t + 1 ELSE t
           U == IF u > 9 THEN u - 10 ELSE u
           V == IF T > 9 THEN T - 10 ELSE T
           s == Unit!Add(f, x, y, c, Unit!Bytes)
           r == Unit!DecimalAdjust(s.f, s.v, 1)
<1>3. t \in 0..18 /\ u \in 0..19 /\ x + y + c = (16 * t) + u /\ Unit!Bytes = 256
  BY <1>1, <1>2 DEF Unit!Bytes
<1>4. s.v = (x + y + c) % 256 /\ s.f.cf = (x + y + c >= 256)
  <2>1. Unit!Bytes \in Widths
    BY DEF Widths
  <2>2. s.v = (x + y + c) % Unit!Bytes /\ s.f.cf = (x + y + c >= Unit!Bytes)
    BY <2>1, AdditionExact
  <2> HIDE DEF s
  <2> QED BY <1>3, <2>2
<1>5. s.f.af = (u > 15) /\ s.f \in Unit!Flags
  <2>1. s.f.af = (Unit!Nibble(x) + Unit!Nibble(y) + c > 15) /\ s.f \in Unit!Flags
    BY SumsTyped
  <2> QED BY <1>1, <1>2, <2>1 DEF Unit!Nibble
<1>6. LET low  == Unit!Nibble(s.v) > 9 \/ s.f.af
          a    == IF low THEN (s.v + 1 * 6) % 256 ELSE s.v
          high == s.v > 153 \/ s.f.cf
      IN  /\ r.v = IF high THEN (a + 1 * 96) % 256 ELSE a
          /\ r.f.cf = high
  BY <1>3, <1>5, AdjustFields
<1> HIDE DEF t, u, s, r
<1>7. r.v = (16 * V) + U /\ r.f.cf = (T > 9)
  <2>1. s.v = ((16 * t) + u) % 256 /\ s.f.cf = ((16 * t) + u >= 256)
    BY <1>3, <1>4
  <2>2. Unit!Nibble(s.v) = s.v % 16
    BY DEF Unit!Nibble
  <2>3. 1 * 6 = 6 /\ 1 * 96 = 96
    OBVIOUS
  <2>4. /\ (IF s.v > 153 \/ s.f.cf
            THEN ((IF s.v % 16 > 9 \/ s.f.af THEN (s.v + 6) % 256 ELSE s.v) + 96) % 256
            ELSE IF s.v % 16 > 9 \/ s.f.af THEN (s.v + 6) % 256 ELSE s.v) = (16 * V) + U
        /\ (s.v > 153 \/ s.f.cf) = (T > 9)
    <3> DEFINE v == ((16 * t) + u) % 256
               a == IF v % 16 > 9 \/ u > 15 THEN (v + 6) % 256 ELSE v
    <3>1. /\ (IF v > 153 \/ (16 * t) + u >= 256 THEN (a + 96) % 256 ELSE a) = (16 * V) + U
          /\ (v > 153 \/ (16 * t) + u >= 256) = (T > 9)
      BY <1>3, AdjustedSum
    <3>2. s.v = v /\ s.f.cf = ((16 * t) + u >= 256) /\ s.f.af = (u > 15)
      BY <1>5, <2>1
    <3> HIDE DEF T, U, V, v
    <3>3. (IF s.v % 16 > 9 \/ s.f.af THEN (s.v + 6) % 256 ELSE s.v) = a
      BY <3>2
    <3>4. (s.v > 153 \/ s.f.cf) = (v > 153 \/ (16 * t) + u >= 256)
      BY <3>2
    <3> HIDE DEF a
    <3> QED BY <3>1, <3>3, <3>4
  <2> QED BY <1>6, <2>2, <2>3, <2>4
<1>8. U \in 0..9 /\ V \in 0..9 /\ T \in 0..19 /\ (10 * T) + U = (10 * t) + u
  BY <1>3
<1>9. Packed(r.v) /\ Decimal(r.v) = (10 * V) + U
  BY <1>7, <1>8, DigitsPacked
<1>10. (10 * t) + u = Decimal(x) + Decimal(y) + c
  BY <1>1, <1>2 DEF t, u
<1> HIDE DEF T, U
<1>11. ((10 * T) + U) % 100 = (10 * V) + U /\ ((10 * T) + U >= 100) = (T > 9)
  BY <1>8
<1> QED BY <1>7, <1>8, <1>9, <1>10, <1>11 DEF r, s, Unit!Daa


\* The same of DAS after SUB or SBB.
THEOREM DecimalDifferenceExact ==
  ASSUME NEW x \in Holds(Unit!Bytes), NEW y \in Holds(Unit!Bytes), Packed(x), Packed(y),
         NEW c \in {0, 1}, NEW f \in Unit!Flags
  PROVE  LET s == Unit!Sub(f, x, y, c, Unit!Bytes)
             r == Unit!Das(s.f, s.v)
         IN  /\ Packed(r.v)
             /\ Decimal(r.v) = (Decimal(x) - Decimal(y) - c) % 100
             /\ r.f.cf = (Decimal(x) < Decimal(y) + c)
<1>1. PICK x1 \in 0..9, x0 \in 0..9 :
        x = (16 * x1) + x0 /\ x % 16 = x0 /\ x \div 16 = x1 /\ Decimal(x) = (10 * x1) + x0
  BY PackedDigits
<1>2. PICK y1 \in 0..9, y0 \in 0..9 :
        y = (16 * y1) + y0 /\ y % 16 = y0 /\ y \div 16 = y1 /\ Decimal(y) = (10 * y1) + y0
  BY PackedDigits
<1> DEFINE t == x1 - y1
           u == x0 - y0 - c
           T == IF u < 0 THEN t - 1 ELSE t
           U == IF u < 0 THEN u + 10 ELSE u
           V == IF T < 0 THEN T + 10 ELSE T
           s == Unit!Sub(f, x, y, c, Unit!Bytes)
           r == Unit!DecimalAdjust(s.f, s.v, -1)
<1>3. t \in -9..9 /\ u \in -10..9 /\ x - y - c = (16 * t) + u /\ Unit!Bytes = 256
  BY <1>1, <1>2 DEF Unit!Bytes
<1>4. s.v = (x - y - c) % 256 /\ s.f.cf = (x < y + c)
  <2>1. Unit!Bytes \in Widths
    BY DEF Widths
  <2>2. s.v = (x - y - c) % Unit!Bytes /\ s.f.cf = (x < y + c)
    BY <2>1, DifferenceExact, ZenonT(60)
  <2> HIDE DEF s
  <2> QED BY <1>3, <2>2
<1>5. s.f.af = (u < 0) /\ s.f \in Unit!Flags
  <2>1. s.f.af = (Unit!Nibble(x) < Unit!Nibble(y) + c) /\ s.f \in Unit!Flags
    BY SumsTyped
  <2>2. (Unit!Nibble(x) < Unit!Nibble(y) + c) = (u < 0)
    BY <1>1, <1>2 DEF Unit!Nibble
  <2> QED BY <2>1, <2>2
<1>6. LET low  == Unit!Nibble(s.v) > 9 \/ s.f.af
          a    == IF low THEN (s.v + (-1) * 6) % 256 ELSE s.v
          high == s.v > 153 \/ s.f.cf
      IN  /\ r.v = IF high THEN (a + (-1) * 96) % 256 ELSE a
          /\ r.f.cf = high
  BY <1>3, <1>5, AdjustFields
<1>0. (x < y + c) = ((16 * t) + u < 0)
  BY <1>1, <1>2
<1> HIDE DEF t, u, s, r
<1>7. r.v = (16 * V) + U /\ r.f.cf = (T < 0)
  <2>1. s.v = ((16 * t) + u) % 256 /\ s.f.cf = ((16 * t) + u < 0)
    BY <1>3, <1>4, <1>0
  <2>2. Unit!Nibble(s.v) = s.v % 16
    BY DEF Unit!Nibble
  <2>4. /\ (IF s.v > 153 \/ s.f.cf
            THEN ((IF s.v % 16 > 9 \/ s.f.af THEN (s.v + (-1) * 6) % 256 ELSE s.v) + (-1) * 96) % 256
            ELSE IF s.v % 16 > 9 \/ s.f.af THEN (s.v + (-1) * 6) % 256 ELSE s.v) = (16 * V) + U
        /\ (s.v > 153 \/ s.f.cf) = (T < 0)
    <3> DEFINE v == ((16 * t) + u) % 256
               a == IF v % 16 > 9 \/ u < 0 THEN (v + (-1) * 6) % 256 ELSE v
    <3>1. /\ (IF v > 153 \/ (16 * t) + u < 0 THEN (a + (-1) * 96) % 256 ELSE a) = (16 * V) + U
          /\ (v > 153 \/ (16 * t) + u < 0) = (T < 0)
      BY <1>3, AdjustedDifference
    <3>2. s.v = v /\ s.f.cf = ((16 * t) + u < 0) /\ s.f.af = (u < 0)
      BY <1>5, <2>1
    <3> HIDE DEF T, U, V, v
    <3>3. (IF s.v % 16 > 9 \/ s.f.af THEN (s.v + (-1) * 6) % 256 ELSE s.v) = a
      BY <3>2
    <3>4. (s.v > 153 \/ s.f.cf) = (v > 153 \/ (16 * t) + u < 0)
      BY <3>2
    <3> HIDE DEF a
    <3> QED BY <3>1, <3>3, <3>4
  <2> QED BY <1>6, <2>2, <2>4
<1>8. U \in 0..9 /\ V \in 0..9 /\ T \in -10..9 /\ (10 * T) + U = (10 * t) + u
  BY <1>3
<1>9. Packed(r.v) /\ Decimal(r.v) = (10 * V) + U
  BY <1>7, <1>8, DigitsPacked
<1>10. /\ (10 * t) + u = Decimal(x) - Decimal(y) - c
       /\ (Decimal(x) < Decimal(y) + c) = ((10 * t) + u < 0)
  BY <1>1, <1>2 DEF t, u
<1> HIDE DEF T, U
<1>11. ((10 * T) + U) % 100 = (10 * V) + U /\ ((10 * T) + U < 0) = (T < 0)
  BY <1>8
<1> QED BY <1>7, <1>8, <1>9, <1>10, <1>11 DEF r, s, Unit!Das
=============================================================================
