----------------------------- MODULE Transfers -----------------------------
(***************************************************************************)
(* The instructions that move data and control: data_transfer.rs,          *)
(* string.rs, io.rs, control_flow.rs, and the system instructions of the   *)
(* 286.  What is at an I/O port is outside this model: m.port is a device  *)
(* that returns the bytes it was given, in their order.                    *)
(***************************************************************************)
EXTENDS Instructions

(***************************************************************************)
(* Moves.                                                                  *)
(***************************************************************************)
Moved(m, i) == LET c == Ready(m, i) IN Store(c, i, i.d, Value(c, i, i.s, i.n), i.n)
MovImmToReg(m, i) == Moved(m, i)
MovRegRm(m, i)    == Moved(m, i)
MovImmToRm(m, i)  == Moved(m, i)

\* The accumulator's own form does not look for a pending exception: beyond
\* the limit it reads and writes address 0.
MovAccMoffs(m, i) ==
  LET o == Mem("direct", i.y)
      c == Touch(m, i, o, Bytes)
      a == Acc(i.n).r
  IN  IF i.x = 0 THEN SetReg(c, a, Data(c, Place(m, i, o), i.n))
      ELSE Put(c, Place(m, i, o), Reg(m, a), i.n)

LeaOp(m, i) == SetReg(m, i.d.r, Offset(m, i.s))

XchgAxReg(m, i) == SetReg(SetReg(m, "ax", Reg(m, i.d.r)), i.d.r, m.r.ax)
XchgRmReg(m, i) ==
  LET c == Ready(m, i)
  IN  SetReg(Store(c, i, i.d, Reg(c, i.s.r), i.n), i.s.r, Value(c, i, i.d, i.n))

Xlat(m, i) ==
  LET s == SegOr(m, i, "ds")
      o == (m.r.bx + Reg(m, "al")) % Words
  IN  SetReg(Check(m, s, o, Bytes), "al", Byte(m, Address(m, s, o, Bytes)))

Cbw(m, i) == SetReg(m, "ax", Extend(Reg(m, "al")))
Cwd(m, i) == SetReg(m, "dx", IF Sign(m.r.ax, Words) THEN Words - 1 ELSE 0)

Lahf(m, i) == SetReg(m, "ah", FlagsWord(m.f) % Bytes)
\* The reserved bits of the flags, which SAHF also takes from AH, are left out.
Sahf(m, i) ==
  LET f == RestoredFlags(m, Reg(m, "ah"))
  IN  [m EXCEPT !.f = [@ EXCEPT !.cf = f.cf, !.pf = f.pf, !.af = f.af, !.zf = f.zf, !.sf = f.sf]]

(***************************************************************************)
(* Segment registers.  The encoding has three bits, of which two count: FS *)
(* and GS name ES and CS.                                                  *)
(***************************************************************************)
SegNamed(x) == <<"es", "cs", "ss", "ds">>[(x % 4) + 1]

\* In real mode only encoding 2 holds the next trap.
IntoSegment(m, x, sel) ==
  IF Protected(m) THEN LoadSegment(m, SegNamed(x), sel)
  ELSE [SetSegReal(m, SegNamed(x), sel) EXCEPT !.suppress = @ \/ x = 2]

MovRmToSegreg(m, i) == LET c == Touch(m, i, i.s, Words) IN IntoSegment(c, i.x, Value(c, i, i.s, Words))
MovSegregToRm(m, i) == LET c == Touch(m, i, i.d, Words) IN Store(c, i, i.d, m.r[SegNamed(i.x)], Words)

FarPointer(m, i, s) ==
  LET c == Touch(m, i, i.s, Bytes)
      a == Place(m, i, i.s)
      sel == Word(m, a + 2)
      p == SetReg(c, i.d.r, Word(m, a))
  IN  IF Protected(m) THEN LoadSegment(p, s, sel) ELSE SetSegReal(p, s, sel)
Lds(m, i) == FarPointer(m, i, "ds")
Les(m, i) == FarPointer(m, i, "es")

(***************************************************************************)
(* The stack.                                                              *)
(***************************************************************************)
\* An 8086 pushes SP as it is after the push, with no look at the limit.
PushReg16(m, i) ==
  LET p == AddTo(m, "sp", -2) IN
  IF i.s.r = "sp" /\ ~Is286(m)
  THEN PutWord(p, Address(p, p.r.ss, p.r.sp, Bytes), p.r.sp)
  ELSE Push(m, Reg(m, i.s.r))
PushRm16(m, i)   == LET c == Touch(m, i, i.s, Words) IN Push(c, Value(c, i, i.s, Words))
PushSegreg(m, i) == Push(m, m.r[SegNamed(i.x)])
PushImm(m, i)    == Push(m, IF i.n = Bytes THEN Extend(i.x) ELSE i.x)
PopReg16(m, i)   == PopInto(m, i.d.r)
PopRm16(m, i)    == LET c == Touch(m, i, i.d, Words) IN Store(Drop(c), i, i.d, Top(c), Words)
PopSegreg(m, i)  == IntoSegment(Drop(m), i.x, Top(m))

Pushf(m, i) == Push(m, FlagsWord(m.f))
Popf(m, i)  == [Drop(m) EXCEPT !.f = RestoredFlags(m, Top(m))]

Pusha(m, i) == PushAll(m, <<m.r.ax, m.r.cx, m.r.dx, m.r.bx, m.r.sp, m.r.bp, m.r.si, m.r.di>>)

Popa(m, i) == FoldLeft(PopInto, Drop(FoldLeft(PopInto, m, <<"di", "si", "bp">>)),
                       <<"bx", "dx", "cx", "ax">>)

\* Each outer frame pointer is copied from below the old BP.
Enter(m, i) ==
  LET p     == Push(m, m.r.bp)
      level == i.y % 32
      copy(s, k) == LET b == AddTo(s, "bp", -2)
                    IN  Push(Check(b, b.r.ss, b.r.bp, Bytes), Word(b, Address(b, b.r.ss, b.r.bp, Bytes)))
      q == IF level = 0 THEN p
           ELSE Push(FoldLeft(copy, p, [k \in 1..level-1 |-> k]), p.r.sp)
  IN  AddTo(SetReg(q, "bp", p.r.sp), "sp", -i.x)

Leave(m, i) == PopInto(SetReg(m, "sp", m.r.bp), "bp")

\* The caller turns the answer into interrupt 5.
Bound(m, i) ==
  LET a == Place(m, i, i.s)
      x == Signed(Reg(m, i.d.r), Words)
  IN  x < Signed(Word(m, a), Words) \/ x > Signed(Word(m, a + 2), Words)

(***************************************************************************)
(* Strings.  Source addresses go through the cache of DS unless there is   *)
(* an override, destinations through that of ES; only the first byte of an *)
(* element is held against the limit.                                      *)
(***************************************************************************)
Si(m, i) == IF i.over = "none" THEN CacheAddress(m, m.cache.ds, m.r.si, Bytes)
            ELSE Address(m, m.r[i.over], m.r.si, Bytes)
SiCheck(m, i) == IF i.over = "none" THEN CacheCheck(m, m.cache.ds, m.r.si, Bytes)
                 ELSE Check(m, m.r[i.over], m.r.si, Bytes)
Di(m)      == CacheAddress(m, m.cache.es, m.r.di, Bytes)
DiCheck(m) == CacheCheck(m, m.cache.es, m.r.di, Bytes)

\* Mutant: the direction flag is ignored.
AdvanceUp(m, x, n) == AddTo(m, x, IF n = Words THEN 2 ELSE 1)
Advance(m, x, n) ==
  AddTo(m, x, (IF m.f.df THEN -1 ELSE 1) * (IF n = Words THEN 2 ELSE 1))

LodsOnce(m, i) == Advance(SetReg(SiCheck(m, i), Acc(i.n).r, Data(m, Si(m, i), i.n)), "si", i.n)
StosOnce(m, i) == Advance(Put(DiCheck(m), Di(m), Reg(m, Acc(i.n).r), i.n), "di", i.n)
MovsOnce(m, i) ==
  LET c == DiCheck(SiCheck(m, i))
  IN  Advance(Advance(Put(c, Di(m), Data(m, Si(m, i), i.n), i.n), "si", i.n), "di", i.n)
CmpsOnce(m, i) ==
  LET c == DiCheck(SiCheck(m, i))
      f == SubFlags(m.f, Data(m, Si(m, i), i.n), Data(m, Di(m), i.n), i.n)
  IN  Advance(Advance([c EXCEPT !.f = f], "si", i.n), "di", i.n)
ScasOnce(m, i) ==
  LET f == SubFlags(m.f, Reg(m, Acc(i.n).r), Data(m, Di(m), i.n), i.n)
  IN  Advance([DiCheck(m) EXCEPT !.f = f], "di", i.n)

\* A repeated instruction runs to its end in one step, CX counted down after
\* each element; Stop is asked after each element too.
Repeat(m, i, Once(_, _), Stop(_)) ==
  LET run[k \in 0..m.r.cx] ==
        IF k = 0 THEN m
        ELSE LET p == run[k-1] IN IF k > 1 /\ Stop(p) THEN p ELSE AddTo(Once(p, i), "cx", -1)
  IN  IF i.rep = "none" THEN Once(m, i) ELSE run[m.r.cx]

Unlike(i, m) == IF i.rep = "repne" THEN m.f.zf ELSE ~m.f.zf

Lods(m, i) == Repeat(m, i, LodsOnce, LAMBDA p : FALSE)
Stos(m, i) == Repeat(m, i, StosOnce, LAMBDA p : FALSE)
Movs(m, i) == Repeat(m, i, MovsOnce, LAMBDA p : FALSE)
Cmps(m, i) == Repeat(m, i, CmpsOnce, LAMBDA p : Unlike(i, p))
Scas(m, i) == Repeat(m, i, ScasOnce, LAMBDA p : Unlike(i, p))

Cld(m, i) == [m EXCEPT !.f.df = FALSE]
StdFlag(m, i) == [m EXCEPT !.f.df = TRUE]

(***************************************************************************)
(* Ports.                                                                  *)
(***************************************************************************)
Sent(m, v, n) == [m EXCEPT !.port = @ \o (IF n = Bytes THEN <<v>> ELSE <<v % Bytes, v \div Bytes>>)]
Heard(m, k) == IF k <= Len(m.port) THEN m.port[k] ELSE 255
Received(m, n) == Heard(m, 1) + (IF n = Words THEN Bytes * Heard(m, 2) ELSE 0)
Receive(m, n) == [m EXCEPT !.port = SubSeq(@, IF n = Words THEN 3 ELSE 2, Len(@))]

OutImm8Al(m, i) == Sent(m, Reg(m, "al"), Bytes)
OutImm8Ax(m, i) == Sent(m, m.r.ax, Words)
OutDxAl(m, i)   == Sent(m, Reg(m, "al"), Bytes)
OutDxAx(m, i)   == Sent(m, m.r.ax, Words)
InAlImm8(m, i)  == SetReg(Receive(m, Bytes), "al", Received(m, Bytes))
InAxImm8(m, i)  == SetReg(Receive(m, Words), "ax", Received(m, Words))
InAlDx(m, i)    == SetReg(Receive(m, Bytes), "al", Received(m, Bytes))
InAxDx(m, i)    == SetReg(Receive(m, Words), "ax", Received(m, Words))

\* A word from the hard disk's data port is not written yet.
InsOnce(m, i) ==
  IF i.n = Words /\ m.r.dx = 496 THEN [m EXCEPT !.panicked = TRUE]
  ELSE Advance(Put(DiCheck(Receive(m, i.n)), Di(m), Received(m, i.n), i.n), "di", i.n)
OutsOnce(m, i) ==
  LET s == SegOr(m, i, "ds")
  IN  Advance(Sent(Check(m, s, m.r.si, Bytes), Data(m, Address(m, s, m.r.si, Bytes), i.n), i.n),
              "si", i.n)
Ins(m, i)  == Repeat(m, i, InsOnce, LAMBDA p : FALSE)
Outs(m, i) == Repeat(m, i, OutsOnce, LAMBDA p : FALSE)
=============================================================================
