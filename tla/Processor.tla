----------------------------- MODULE Processor -----------------------------
(***************************************************************************)
(* The state of the processor and what instructions are made of: memory,   *)
(* segments in real and in protected mode, the stack, operands, and the    *)
(* dispatch of interrupts and exceptions (core/src/cpu/mod.rs,             *)
(* protected_mode.rs and the helpers of instructions/mod.rs).              *)
(*                                                                         *)
(* The processor is one record m, and every operation a function of it:    *)
(*   r      the sixteen-bit registers, ip and segment selectors included   *)
(*   f      the flags                                                      *)
(*   cache  the hidden base and limit of each segment register             *)
(*   msw, cpl, gdtr, ldtr, tr, idtr   the system registers                 *)
(*   pend   the exception the next step dispatches                         *)
(*   halted, suppress                 HLT, and the trap an SS load holds   *)
(*   mem    the bytes written so far, by physical address                  *)
(*   a20, type                        the A20 gate and the processor type  *)
(* Instructions are not encoded: Instructions says what one is, and one    *)
(* takes one unit of ip.                                                   *)
(***************************************************************************)
EXTENDS Alu, Sequences, SequencesExt, TLC

ByteRegs == {"al", "cl", "dl", "bl", "ah", "ch", "dh", "bh"}
WordRegs == {"ax", "cx", "dx", "bx", "sp", "bp", "si", "di"}
SegRegs  == {"es", "cs", "ss", "ds"}
NoFault  == [int |-> 256, code |-> <<>>]

Protected(m) == m.msw % 2 = 1
Is286(m)     == m.type # "8086"

Raise(m, int, code) == [m EXCEPT !.pend = [int |-> int, code |-> code]]
Faulted(m) == m.pend # NoFault

(***************************************************************************)
(* Memory.  With the A20 gate closed bit 20 of an address is dropped.      *)
(***************************************************************************)
A20(m, a) == IF m.a20 THEN a ELSE a - 1048576 * ((a \div 1048576) % 2)

Byte(m, a) == LET p == A20(m, a) IN IF p \in DOMAIN m.mem THEN m.mem[p] ELSE 0
Word(m, a) == Byte(m, a) + Bytes * Byte(m, a + 1)
Data(m, a, n) == IF n = Bytes THEN Byte(m, a) ELSE Word(m, a)

PutByte(m, a, v) == [m EXCEPT !.mem = (A20(m, a) :> v) @@ @]
PutWord(m, a, v) == PutByte(PutByte(m, a, v % Bytes), a + 1, v \div Bytes)
Put(m, a, v, n)  == IF n = Bytes THEN PutByte(m, a, v) ELSE PutWord(m, a, v)

(***************************************************************************)
(* Registers.                                                              *)
(***************************************************************************)
Home == [al |-> "ax", ah |-> "ax", bl |-> "bx", bh |-> "bx",
         cl |-> "cx", ch |-> "cx", dl |-> "dx", dh |-> "dx"]
High == {"ah", "bh", "ch", "dh"}

Reg8(m, x) == IF x \in High THEN m.r[Home[x]] \div Bytes ELSE m.r[Home[x]] % Bytes
Reg(m, x)  == IF x \in ByteRegs THEN Reg8(m, x) ELSE m.r[x]

SetReg8(m, x, v) ==
  [m EXCEPT !.r[Home[x]] = IF x \in High THEN v * Bytes + (@ % Bytes)
                           ELSE (@ \div Bytes) * Bytes + v]
SetReg(m, x, v) == IF x \in ByteRegs THEN SetReg8(m, x, v) ELSE [m EXCEPT !.r[x] = v]
\* Mutant: no wrap.
AddToPast(m, x, v) == [m EXCEPT !.r[x] = @ + v]
AddTo(m, x, v)  == [m EXCEPT !.r[x] = (@ + v) % Words]

(***************************************************************************)
(* Segments.                                                               *)
(***************************************************************************)
RealCache(sel) == [base |-> 16 * sel, limit |-> Words - 1]
NullCache      == [base |-> 0, limit |-> Words - 1]

SetSegReal(m, s, sel) == [m EXCEPT !.r[s] = sel, !.cache[s] = RealCache(sel)]

\* The cache is looked up by the selector's value: of two registers that
\* hold the same selector the first of CS, DS, SS, ES answers.
Order == <<"cs", "ds", "ss", "es">>
CacheOf(m, sel) ==
  LET k == SelectInSeq(Order, LAMBDA s : m.r[s] = sel)
  IN  m.cache[IF k = 0 THEN "ds" ELSE Order[k]]

Within(m, cache, off, n) ==
  ~Protected(m) \/ off + (IF n = Words THEN 1 ELSE 0) <= cache.limit

\* seg_offset_to_phys and its word form: outside the limit an exception
\* becomes pending, and the address is 0.
CacheAddress(m, cache, off, n) == IF Within(m, cache, off, n) THEN cache.base + off ELSE 0
CacheCheck(m, cache, off, n)   == IF Within(m, cache, off, n) THEN m ELSE Raise(m, 13, <<0>>)
Address(m, sel, off, n) == CacheAddress(m, CacheOf(m, sel), off, n)
Check(m, sel, off, n)   == CacheCheck(m, CacheOf(m, sel), off, n)

(***************************************************************************)
(* Descriptors.  A selector is an index, a table bit and a privilege.      *)
(***************************************************************************)
Null(sel)   == sel < 8
Rpl(sel)    == sel % 4
Table(m, sel) == IF (sel \div 4) % 2 = 0 THEN m.gdtr ELSE m.ldtr
Index(sel)  == (sel \div 8) * 8

NoDescriptor == [access |-> -1]
DescriptorAt(m, table, at) ==
  IF at + 7 > table.limit THEN NoDescriptor
  ELSE LET a == table.base + at IN
       [limit |-> Word(m, a), base |-> Word(m, a + 2) + Words * Byte(m, a + 4),
        access |-> Byte(m, a + 5), offset |-> Word(m, a), selector |-> Word(m, a + 2)]

Descriptor(m, sel) == DescriptorAt(m, Table(m, sel), Index(sel))
Missing(d)  == d = NoDescriptor
Present(d)  == d.access >= 128
CallGate(d) == d.access % 32 = 4
InterruptGate(d) == d.access % 16 = 6
TrapGate(d) == d.access % 16 = 7

SelectorDpl(m, sel) ==
  LET d == Descriptor(m, sel) IN IF Missing(d) THEN 0 ELSE (d.access \div 32) % 4

\* load_segment_register once a cache is known.  CS carries the privilege
\* level, SS holds the next trap.
Loaded(m, s, sel, cache) ==
  [m EXCEPT !.r[s] = sel, !.cache[s] = cache,
            !.cpl = IF s = "cs" /\ Protected(m) THEN Rpl(sel) ELSE @,
            !.suppress = @ \/ s = "ss"]

LoadSegment(m, s, sel) ==
  LET d == Descriptor(m, sel) IN
  IF ~Protected(m) THEN Loaded(m, s, sel, RealCache(sel))
  ELSE IF Null(sel) THEN
    IF s \in {"es", "ds"} THEN [m EXCEPT !.r[s] = sel, !.cache[s] = NullCache] ELSE Raise(m, 13, <<0>>)
  ELSE IF Missing(d) THEN Raise(m, 13, <<sel>>)
  ELSE IF ~Present(d) THEN Raise(m, 11, <<sel>>)
  ELSE Loaded(m, s, sel, [base |-> d.base, limit |-> d.limit])

\* The transfers that leave a mode alone: set_cs_real in real mode.
LoadCs(m, sel) == IF Protected(m) THEN LoadSegment(m, "cs", sel) ELSE SetSegReal(m, "cs", sel)

(***************************************************************************)
(* The stack.                                                              *)
(***************************************************************************)
\* A push writes nothing while an exception is pending, but moves SP.
Push(m, v) ==
  LET p == AddTo(m, "sp", -2)
      c == Check(p, p.r.ss, p.r.sp, Words)
  IN  IF Faulted(c) THEN c ELSE PutWord(c, Address(p, p.r.ss, p.r.sp, Words), v)

Top(m)  == Word(m, Address(m, m.r.ss, m.r.sp, Words))
Drop(m) == AddTo(Check(m, m.r.ss, m.r.sp, Words), "sp", 2)

PopInto(m, x) == SetReg(Drop(m), x, Top(m))

\* The flags word and back.
FlagBit == [cf |-> 0, pf |-> 2, af |-> 4, zf |-> 6, sf |-> 7, tf |-> 8, if |-> 9, df |-> 10, of |-> 11]
FlagsWord(f) == 2 + 4096 * f.hi + MapThenSumSet(LAMBDA x : IF f[x] THEN 2^FlagBit[x] ELSE 0, FlagNames)

RestoredFlags(m, w) ==
  LET is(x) == Bit(w, FlagBit[x]) = 1 IN
  [cf |-> is("cf"), pf |-> is("pf"), af |-> is("af"), zf |-> is("zf"), sf |-> is("sf"),
   tf |-> is("tf"), if |-> is("if"), df |-> is("df"), of |-> is("of"),
   hi |-> CASE m.type = "8086" -> 15 [] m.type = "286" -> 0 [] OTHER -> (w \div 4096) % 8]

(***************************************************************************)
(* Interrupts and exceptions.                                              *)
(***************************************************************************)
PushAll(m, values) == FoldLeft(Push, m, values)
Frame(m) == <<FlagsWord(m.f), m.r.cs, m.r.ip>>

DispatchReal(m, int) ==
  LET p == PushAll(m, Frame(m)) IN
  SetSegReal([p EXCEPT !.f.if = FALSE, !.f.tf = FALSE, !.r.ip = Word(p, 4 * int)],
             "cs", Word(p, 4 * int + 2))

\* The ring 0 stack of the task segment.
RingZeroStack(m) == [ss |-> Word(m, m.tr.base + 4), sp |-> Word(m, m.tr.base + 2)]
SwitchStack(m) ==
  LET z == RingZeroStack(m)
      s == [LoadSegment(m, "ss", z.ss) EXCEPT !.r.sp = z.sp]
  IN  PushAll(s, <<m.r.ss, m.r.sp>>)

\* Both dispatches through a gate: a handler of higher privilege has its own
\* stack; an exception may push a code; an interrupt gate clears IF.
ToHandler(m, gate, code) ==
  LET s == IF SelectorDpl(m, gate.selector) < m.cpl THEN SwitchStack(m) ELSE m
      p == PushAll(s, Frame(m) \o code)
  IN  LoadSegment([p EXCEPT !.f.tf = FALSE, !.f.if = @ /\ ~InterruptGate(gate),
                            !.r.ip = gate.offset], "cs", gate.selector)

IdtGate(m, int) == DescriptorAt(m, m.idtr, 8 * int)
Usable(g) == ~Missing(g) /\ Present(g) /\ (InterruptGate(g) \/ TrapGate(g))

\* dispatch_interrupt: without a usable gate the real-mode table is used.
Interrupt(m, int) ==
  LET w == [m EXCEPT !.halted = FALSE] IN
  IF Protected(m) /\ Usable(IdtGate(m, int)) THEN ToHandler(w, IdtGate(m, int), <<>>)
  ELSE DispatchReal(w, int)

\* dispatch_exception_pm: without a usable gate a double fault, and without
\* a gate for that the end.
Exception(m, int, code) ==
  IF Usable(IdtGate(m, int)) THEN ToHandler(m, IdtGate(m, int), code)
  ELSE IF int # 8 /\ Usable(IdtGate(m, 8)) THEN ToHandler(m, IdtGate(m, 8), <<0>>)
  ELSE [m EXCEPT !.halted = TRUE]

\* The start of step.
TakeFault(m) ==
  LET t == [m EXCEPT !.pend = NoFault] IN
  IF Protected(m) THEN Exception(t, m.pend.int, m.pend.code) ELSE Interrupt(t, m.pend.int)
=============================================================================
