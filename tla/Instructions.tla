---------------------------- MODULE Instructions ----------------------------
(***************************************************************************)
(* The instructions (core/src/cpu/instructions, floating point apart).     *)
(* An instruction is a record: op names the source's handler, n is the     *)
(* operand width, d and s are the destination and the source operand, x    *)
(* and y what else the bytes carry (the operation of a group, a count, a   *)
(* displacement, an immediate), rep and over the prefixes.  An operand is  *)
(* a register, an immediate or a place in memory.  A handler takes the     *)
(* processor with ip already past the instruction.                         *)
(***************************************************************************)
EXTENDS Processor

R(x)  == [k |-> "reg", r |-> x]
Im(v) == [k |-> "imm", v |-> v]
Mem(at, disp) == [k |-> "mem", at |-> at, disp |-> disp]

I(op, n, d, s, x) == [op |-> op, n |-> n, d |-> d, s |-> s, x |-> x, y |-> 0,
                      rep |-> "none", over |-> "none"]

(***************************************************************************)
(* Operands: decode_modrm, read_rm8/16, write_rm8/16.                      *)
(***************************************************************************)
BaseOf(m, at) ==
  CASE at = "bx+si" -> m.r.bx + m.r.si
    [] at = "bx+di" -> m.r.bx + m.r.di
    [] at = "bp+si" -> m.r.bp + m.r.si
    [] at = "bp+di" -> m.r.bp + m.r.di
    [] at = "direct" -> 0
    [] OTHER -> m.r[at]

Offset(m, o) == (BaseOf(m, o.at) + o.disp) % Words
\* segment_override.unwrap_or: the override replaces the default segment.
SegOr(m, i, s) == m.r[IF i.over = "none" THEN s ELSE i.over]
Sel(m, i, o) == SegOr(m, i, IF o.at \in {"bp+si", "bp+di", "bp"} THEN "ss" ELSE "ds")

Place(m, i, o) == Address(m, Sel(m, i, o), Offset(m, o), Bytes)

\* The exception an access of this width raises.  The source looks at the
\* first byte when it decodes and at the second when it reads or writes.
Touch(m, i, o, n) == IF o.k = "mem" THEN Check(m, Sel(m, i, o), Offset(m, o), n) ELSE m

Value(m, i, o, n) ==
  CASE o.k = "imm" -> o.v
    [] o.k = "reg" -> Reg(m, o.r)
    [] o.k = "mem" -> IF Faulted(m) THEN 0 ELSE Data(m, Place(m, i, o), n)

Store(m, i, o, v, n) ==
  CASE o.k = "reg" -> SetReg(m, o.r, v)
    [] o.k = "mem" -> IF Faulted(m) THEN m ELSE Put(m, Place(m, i, o), v, n)

Ready(m, i) == Touch(Touch(m, i, i.d, i.n), i, i.s, i.n)

\* d := Op(d, s), with the flags, and the same without the store.
Binary(m, i, Op(_, _, _)) ==
  LET c == Ready(m, i)
      x == Op(c.f, Value(c, i, i.d, i.n), Value(c, i, i.s, i.n))
  IN  [Store(c, i, i.d, x.v, i.n) EXCEPT !.f = x.f]

Test(m, i, Op(_, _, _)) ==
  LET c == Ready(m, i)
  IN  [c EXCEPT !.f = Op(c.f, Value(c, i, i.d, i.n), Value(c, i, i.s, i.n)).f]

Adding(m, i)  == Binary(m, i, LAMBDA f, d, s : Add(f, d, s, 0, i.n))
Adcing(m, i)  == Binary(m, i, LAMBDA f, d, s : Add(f, d, s, One(f.cf), i.n))
Subbing(m, i) == Binary(m, i, LAMBDA f, d, s : Sub(f, d, s, 0, i.n))
Sbbing(m, i)  == Binary(m, i, LAMBDA f, d, s : Sub(f, d, s, One(f.cf), i.n))
Comparing(m, i) == Test(m, i, LAMBDA f, d, s : Sub(f, d, s, 0, i.n))
Anding(m, i)  == Binary(m, i, LAMBDA f, d, s : Logic(f, BitAnd(d, s), i.n))
Oring(m, i)   == Binary(m, i, LAMBDA f, d, s : Logic(f, BitOr(d, s), i.n))
Xoring(m, i)  == Binary(m, i, LAMBDA f, d, s : Logic(f, BitXor(d, s), i.n))
Testing(m, i) == Test(m, i, LAMBDA f, d, s : Logic(f, BitAnd(d, s), i.n))

(***************************************************************************)
(* arithmetic.rs.  The group of 0x80 to 0x83 numbers its operations; 0x83  *)
(* extends a byte to a word.                                               *)
(***************************************************************************)
Group1(m, i) ==
  CASE i.x = 0 -> Adding(m, i)
    [] i.x = 1 -> Oring(m, i)
    [] i.x = 2 -> Adcing(m, i)
    [] i.x = 3 -> Sbbing(m, i)
    [] i.x = 4 -> Anding(m, i)
    [] i.x = 5 -> Subbing(m, i)
    [] i.x = 6 -> Xoring(m, i)
    [] i.x = 7 -> Comparing(m, i)

ArithImm8Rm8(m, i) == Group1(m, [i EXCEPT !.n = Bytes])
ArithImm16Rm(m, i) == Group1(m, [i EXCEPT !.n = Words])
Extend(v)          == Signed(v, Bytes) % Words
ArithImm8Rm(m, i)  == Group1(m, [i EXCEPT !.n = Words, !.s = Im(Extend(@.v))])

Acc(n)    == R(IF n = Bytes THEN "al" ELSE "ax")
ToAcc(i)  == [i EXCEPT !.d = Acc(i.n)]

AddRmReg(m, i)  == Adding(m, i)
AdcRmReg(m, i)  == Adcing(m, i)
SubRmReg(m, i)  == Subbing(m, i)
SbbRmReg(m, i)  == Sbbing(m, i)
AddImmAcc(m, i) == Adding(m, ToAcc(i))
AdcImmAcc(m, i) == Adcing(m, ToAcc(i))
SubImmAcc(m, i) == Subbing(m, ToAcc(i))
SbbImmAcc(m, i) == Sbbing(m, ToAcc(i))

Stepped(m, i, x) == [Store(m, i, i.d, x.v, i.n) EXCEPT !.f = x.f]
IncDecRm(m, i) ==
  LET c == Ready(m, i)
      v == Value(c, i, i.d, i.n)
  IN  Stepped(c, i, IF i.x = 0 THEN Inc(c.f, v, i.n) ELSE Dec(c.f, v, i.n))
IncReg16(m, i) == Stepped(m, i, Inc(m.f, Reg(m, i.d.r), Words))
DecReg16(m, i) == Stepped(m, i, Dec(m.f, Reg(m, i.d.r), Words))

InAl(m, x) == [SetReg(m, "al", x.v) EXCEPT !.f = x.f]
InAx(m, x) == [SetReg(m, "ax", x.v) EXCEPT !.f = x.f]
DaaOp(m, i) == InAl(m, Daa(m.f, Reg(m, "al")))
DasOp(m, i) == InAl(m, Das(m.f, Reg(m, "al")))
AaaOp(m, i) == InAx(m, Aaa(m.f, m.r.ax))
AasOp(m, i) == InAx(m, Aas(m.f, m.r.ax))
AadOp(m, i) == InAx(m, Aad(m.f, m.r.ax, i.x))

\* A panic ends the emulator.
AamOp(m, i) ==
  LET x == Aam(m.f, Reg(m, "al"), i.x)
  IN  IF x = Panic THEN [m EXCEPT !.panicked = TRUE]
      ELSE [SetReg(m, "ax", x.hi * Bytes + x.lo) EXCEPT !.f = x.f]

ImulImm(m, i, v) ==
  LET c == Touch(m, i, i.s, Words)
      p == Imul(c.f, Value(c, i, i.s, Words), v, Words)
  IN  [SetReg(c, i.d.r, p.lo) EXCEPT !.f = p.f]
ImulImm16(m, i) == ImulImm(m, i, i.x)
ImulImm8(m, i)  == ImulImm(m, i, Extend(i.x))

(***************************************************************************)
(* logical.rs, shift_rotate.rs and comparison.rs                           *)
(***************************************************************************)
TestRmReg(m, i)  == Testing(m, i)
TestImmAcc(m, i) == Testing(m, ToAcc(i))
AndRmReg(m, i)   == Anding(m, i)
AndImmAcc(m, i)  == Anding(m, ToAcc(i))
OrRmReg(m, i)    == Oring(m, i)
OrImmAcc(m, i)   == Oring(m, ToAcc(i))
XorRmReg(m, i)   == Xoring(m, i)
XorImmAcc(m, i)  == Xoring(m, ToAcc(i))
CmpRmReg(m, i)   == Comparing(m, i)
CmpImmAcc(m, i)  == Comparing(m, ToAcc(i))

Cmc(m, i) == [m EXCEPT !.f.cf = ~@]
Clc(m, i) == [m EXCEPT !.f.cf = FALSE]
Stc(m, i) == [m EXCEPT !.f.cf = TRUE]
Cli(m, i) == [m EXCEPT !.f.if = FALSE]
Sti(m, i) == [m EXCEPT !.f.if = TRUE]

\* The wide operand: AH and AL, or DX and AX.
Hi(m, n) == Reg(m, IF n = Bytes THEN "ah" ELSE "dx")
Lo(m, n) == Reg(m, IF n = Bytes THEN "al" ELSE "ax")
SetWide(m, n, hi, lo) ==
  IF n = Bytes THEN SetReg(SetReg(m, "ah", hi), "al", lo) ELSE SetReg(SetReg(m, "dx", hi), "ax", lo)

Divided(m, n, x) ==
  CASE x.k = "fault" -> Raise(m, 0, <<>>)
    [] x.k = "panic" -> [m EXCEPT !.panicked = TRUE]
    [] x.k = "ok"    -> SetWide(m, n, x.hi, x.lo)

Multiplied(m, n, p) == [SetWide(m, n, p.hi, p.lo) EXCEPT !.f = p.f]

UnaryGroup3(m, i) ==
  LET c == Ready(m, i)
      n == i.n
      v == Value(c, i, i.d, n)
  IN  CASE i.x = 0 -> Testing(m, i)
        [] i.x = 1 -> [c EXCEPT !.panicked = TRUE]
        [] i.x = 2 -> Store(c, i, i.d, Not(v, n), n)
        [] i.x = 3 -> Stepped(c, i, Neg(c.f, v, n))
        [] i.x = 4 -> Multiplied(c, n, Mul(c.f, Lo(c, n), v, n))
        [] i.x = 5 -> Multiplied(c, n, Imul(c.f, Lo(c, n), v, n))
        [] i.x = 6 -> Divided(c, n, Div(Hi(c, n), Lo(c, n), v, n))
        [] i.x = 7 -> Divided(c, n, Idiv(Hi(c, n), Lo(c, n), v, n))

ShiftRotateGroup(m, i) ==
  LET c == Touch(m, i, i.d, i.n)
      v == Value(c, i, i.d, i.n)
      k == Value(c, i, i.s, Bytes)
  IN  Stepped(c, i,
        CASE i.x = 0 -> Rol(c.f, v, k, i.n)
          [] i.x = 1 -> Ror(c.f, v, k, i.n)
          [] i.x = 2 -> Rcl(c.f, v, k, i.n)
          [] i.x = 3 -> Rcr(c.f, v, k, i.n)
          [] i.x \in {4, 6} -> Shl(c.f, v, k, i.n)
          [] i.x = 5 -> Shr(c.f, v, k, i.n)
          [] i.x = 7 -> Sar(c.f, v, k, i.n))
=============================================================================
