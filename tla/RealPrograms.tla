---------------------------- MODULE RealPrograms ----------------------------
(***************************************************************************)
(* Programs for a Cpu in real mode, and the processors they start on.      *)
(* Code is at segment 0, offset 4096; handlers are above 8192.             *)
(***************************************************************************)
EXTENDS Control

\* Instructions by their operands.
ALU(op, n, d, s)   == I(op, n, d, s, 0)
Byte2(op, d, s)    == ALU(op, Bytes, R(d), R(s))
Word2(op, d, s)    == ALU(op, Words, R(d), R(s))
Plain(op)          == I(op, Words, Im(0), Im(0), 0)
With(op, x)        == I(op, Words, Im(0), Im(0), x)
Far(op, sel, off)  == [With(op, off) EXCEPT !.y = sel]
Load(d, v)         == ALU("mov_imm_to_reg", IF d \in ByteRegs THEN Bytes ELSE Words, R(d), Im(v))
Mov(d, s)          == ALU("mov_reg_rm", Words, d, s)
Group3(x, n, d)    == I("unary_group3", n, R(d), Im(0), x)
ShiftOp(x, n, d, s) == I("shift_rotate_group", n, R(d), s, x)
Group(x, n, d, v)  == I(IF n = Bytes THEN "arith_imm8_rm8" ELSE "arith_imm16_rm", n, d, Im(v), x)
PushR(x)           == I("push_reg16", Words, Im(0), R(x), 0)
PopR(x)            == I("pop_reg16", Words, R(x), Im(0), 0)
ToSeg(x, s)        == I("mov_rm_to_segreg", Words, Im(0), s, x)
Jcc(cc, by)        == [With("jmp_conditional", by) EXCEPT !.y = cc]
Str(op, n, rep)    == [I(op, n, Im(0), Im(0), 0) EXCEPT !.rep = rep]
Enter2(size, level) == [With("enter", size) EXCEPT !.y = level]

At(base, prog) == [a \in base .. base + Len(prog) - 1 |-> prog[a - base + 1]]
ProgBase == 4096

\* What serves requests: flags and AX are used and restored.
IrqHandler  == <<PushR("ax"), Word2("xor_rm_reg", "ax", "ax"), Group(5, Words, R("ax"), 1), Plain("cld"),
                 PopR("ax"), Plain("iret")>>
\* The divide exception leaves word of itself in DX.
DivHandler  == <<Load("dx", 1), Plain("iret")>>
\* The trap counts itself at physical address 256.
TrapHandler == <<PushR("ds"), PushR("ax"), Load("ax", 0), ToSeg(3, R("ax")),
                 I("inc_dec_rm", Words, Mem("direct", 256), Im(0), 0), PopR("ax"), With("pop_segreg", 3),
                 Plain("iret")>>
BoundHandler == <<Load("dx", 5), Load("ax", 9), Plain("iret")>>
ServiceHandler == <<Word2("add_rm_reg", "ax", "bx"), Plain("stc"), Plain("iret")>>

HandlerAt == [irq |-> 8192, div |-> 8256, trap |-> 8320, bound |-> 8384, service |-> 8448]
Handlers == At(HandlerAt.irq, IrqHandler) @@ At(HandlerAt.div, DivHandler) @@ At(HandlerAt.trap, TrapHandler)
            @@ At(HandlerAt.bound, BoundHandler) @@ At(HandlerAt.service, ServiceHandler)

\* The interrupt table.
Words2(a, w) == (a :> w % Bytes) @@ (a + 1 :> w \div Bytes)
Vectors == [n \in {0, 1, 3, 5, 6, 8, 33} |->
              CASE n = 0 -> HandlerAt.div [] n = 1 -> HandlerAt.trap [] n = 5 -> HandlerAt.bound
                [] n = 8 -> HandlerAt.irq [] OTHER -> HandlerAt.service]
IvtBytes == FoldFunctionOnSet(LAMBDA x, y : x @@ y, <<>>,
              [n \in DOMAIN Vectors |-> Words2(4 * n, Vectors[n]) @@ Words2(4 * n + 2, 0)], DOMAIN Vectors)

StartFlags == [cf |-> FALSE, pf |-> FALSE, af |-> FALSE, zf |-> FALSE, sf |-> FALSE, tf |-> FALSE,
               if |-> TRUE, df |-> FALSE, of |-> FALSE, hi |-> 0]
DataSeg  == 32       \* physical 512
StackSeg == 64       \* physical 1024
StackTop == 128

StartRegs == [ax |-> 0, bx |-> 0, cx |-> 0, dx |-> 0, sp |-> StackTop, bp |-> 7, si |-> 0, di |-> 0,
              ip |-> ProgBase, cs |-> 0, ds |-> DataSeg, es |-> DataSeg, ss |-> StackSeg]

Fresh == [r |-> StartRegs, f |-> StartFlags,
          cache |-> [s \in SegRegs |-> RealCache(StartRegs[s])],
          msw |-> 65520, cpl |-> 0,
          gdtr |-> [base |-> 0, limit |-> 0], idtr |-> [base |-> 0, limit |-> 1023],
          ldtr |-> [sel |-> 0, base |-> 0, limit |-> 0], tr |-> [sel |-> 0, base |-> 0, limit |-> 0],
          pend |-> NoFault, halted |-> FALSE, suppress |-> FALSE, panicked |-> FALSE,
          mem |-> IvtBytes, a20 |-> FALSE, type |-> "286", port |-> <<>>]

Set2(m, a, b) == [m EXCEPT !.r.ax = a, !.r.bx = b]
BytesAt(m, a, seq) == [m EXCEPT !.mem = At(a, seq) @@ @]
Keep(law, prog, m, cc, free) ==
  [law |-> law, prog |-> prog, m |-> m, cc |-> cc, free |-> free, requests |-> 0]
Case(law, prog, m) == Keep(law, prog, m, 0, {})
Name(prog) == <<prog, 0, 0>>
Interrupted(cases) == {[c EXCEPT !.requests = 1] : c \in cases}

(***************************************************************************)
(* Arithmetic.                                                             *)
(***************************************************************************)
SwapAl == I("xchg_rm_reg", Bytes, R("al"), R("ah"), 0)
ShiftProgram(x, n, a, b) ==
  <<Plain("pushf"), PopR("si"), ShiftOp(x, n, a, R("cl")), Plain("pushf"), PopR("bp"),
    PushR("si"), Plain("popf"), ShiftOp(x, n, b, Im(1)), With("loop_inst", -2),
    Plain("pushf"), PopR("si")>>

Plainly(progs) == [p \in {<<name, 0, 0>> : name \in DOMAIN progs} |-> progs[p[1]]]

ArithmeticPrograms == Plainly(
  [sum |-> <<Byte2("add_rm_reg", "al", "bl"), Byte2("adc_rm_reg", "ah", "bh")>>,
   difference |-> <<Byte2("sub_rm_reg", "al", "bl"), Byte2("sbb_rm_reg", "ah", "bh")>>,
   negation |-> <<Group3(2, Bytes, "ah"), Group3(3, Bytes, "al"), Group(3, Bytes, R("ah"), 255)>>,
   decimal_sum |-> <<Byte2("add_rm_reg", "al", "bl"), Plain("daa"), SwapAl,
                     Byte2("adc_rm_reg", "al", "bh"), Plain("daa"), SwapAl>>,
   decimal_difference |-> <<Byte2("sub_rm_reg", "al", "bl"), Plain("das"), SwapAl,
                            Byte2("sbb_rm_reg", "al", "bh"), Plain("das"), SwapAl>>,
   ascii_sum |-> <<Byte2("add_rm_reg", "al", "bl"), Plain("aaa")>>,
   ascii_difference |-> <<Byte2("sub_rm_reg", "al", "bl"), Plain("aas")>>,
   ascii_product |-> <<Group3(4, Bytes, "bl"), With("aam", 10), Mov(R("dx"), R("ax")), With("aad", 10)>>,
   product |-> <<Group3(4, Bytes, "bl")>>,
   signed_product |-> <<Group3(5, Bytes, "bl")>>,
   quotient |-> <<Group3(6, Bytes, "bl")>>,
   immediate_product |-> <<I("imul_imm16", Words, R("dx"), R("ax"), 65533), I("imul_imm8", Words, R("cx"), R("ax"), 253)>>,
   extension |-> <<Plain("cbw"), Plain("cwd")>>,
   long_product |-> <<Group3(4, Words, "bx"), Group3(6, Words, "bx")>>,
   signed_quotient |-> <<Group3(7, Bytes, "bl")>>])
ShiftPrograms ==
  [p \in {<<"shift", x, n>> : x \in 0..7, n \in {Bytes, Words}} |->
     ShiftProgram(p[2], p[3], IF p[3] = Bytes THEN "al" ELSE "ax", IF p[3] = Bytes THEN "bl" ELSE "bx")]

EdgeWords == {0, 1, 255, 256, 4660, 32767, 32768, 33023, 65535}
EdgeBytes == {0, 1, 5, 16, 127, 128, 200, 255}
Bcd(v) == (v \div 1000) * 4096 + ((v \div 100) % 10) * 256 + ((v \div 10) % 10) * 16 + (v % 10)
Unpacked(v) == (v \div 10) * 256 + (v % 10)
Decimals == {0, 1, 9, 10, 75, 99, 100, 1990, 4999, 9999}

Pairs(law, prog, as, bs) == {Case(law, Name(prog), Set2(Fresh, a, b)) : a \in as, b \in bs}
ArithmeticCases ==
  {Pairs("sum", "sum", EdgeWords, EdgeWords),
         Pairs("difference", "difference", EdgeWords, EdgeWords),
         Pairs("negation", "negation", EdgeWords, {0}),
         Pairs("decimal sum", "decimal_sum", {Bcd(v) : v \in Decimals}, {Bcd(v) : v \in Decimals}),
         Pairs("decimal difference", "decimal_difference", {Bcd(v) : v \in Decimals}, {Bcd(v) : v \in Decimals}),
         Pairs("ascii sum", "ascii_sum", {Unpacked(v) : v \in {0, 5, 9, 38, 99}}, 0..9),
         Pairs("ascii difference", "ascii_difference", {Unpacked(v) : v \in {10, 25, 39, 90}}, 0..9),
         Pairs("ascii product", "ascii_product", 0..9, {0, 3, 7, 9}),
         Pairs("immediate product", "immediate_product", EdgeWords, {0}),
         Pairs("extension", "extension", EdgeWords, {0}),
         Pairs("long product", "long_product", {0, 1, 4660, 32767}, {1, 255, 32767, 65535}),
         Pairs("product", "product", EdgeBytes, EdgeBytes),
         Pairs("signed product", "signed_product", EdgeBytes, EdgeBytes),
         Pairs("quotient", "quotient", EdgeWords, EdgeBytes),
         Pairs("signed quotient", "signed_quotient", EdgeWords \union {128, 65280, 65408, 16256}, EdgeBytes)}

\* The rotates through the carry also by a full turn and more; plain rotates
\* by less than the width.
ShiftCounts(x, n) == IF x \in {2, 3} THEN {1, 4, 8, 9, 10} ELSE {1, 4, 7}
ShiftCases ==
  {{Case("shift", p, [Fresh EXCEPT !.r.ax = v, !.r.bx = v, !.r.cx = c, !.f.cf = cf]) :
            v \in {1, 128, 165, 33023}, c \in ShiftCounts(p[2], p[3]), cf \in BOOLEAN} :
         p \in DOMAIN ShiftPrograms}
\* Those that are also interrupted.
InterruptedShifts == {Interrupted({c \in f : c.m.r.ax = 165 /\ c.m.r.cx = 4 /\ c.m.f.cf}) : f \in ShiftCases}

(***************************************************************************)
(* Comparisons.                                                            *)
(***************************************************************************)
\* DX starts at 1 and is cleared when the jump is not taken.
BranchProgram(n, cc) ==
  <<IF n = Bytes THEN Byte2("cmp_rm_reg", "al", "bl") ELSE Word2("cmp_rm_reg", "ax", "bx"),
    Jcc(cc, 1), Load("dx", 0)>>
BranchPrograms == [p \in {<<"branch", n, cc>> : n \in {Bytes, Words}, cc \in 0..15} |-> BranchProgram(p[2], p[3])]
BranchCases ==
  {{Keep(IF p[2] = Bytes THEN "branch bytes" ELSE "branch words", p,
               [Set2(Fresh, a, b) EXCEPT !.r.dx = 1], p[3], {}) :
            a \in {0, 127, 32768, 65535}, b \in {0, 128, 255, 32767}} : p \in DOMAIN BranchPrograms}

StringPrograms == Plainly(
  [cmpsb |-> <<Str("cmps", Bytes, "rep")>>, cmpsw |-> <<Str("cmps", Words, "rep")>>,
   scasb |-> <<Str("scas", Bytes, "repne")>>, scasw |-> <<Str("scas", Words, "repne")>>,
   loope |-> <<I("cmp_rm_reg", Bytes, Mem("si", 0), R("al"), 0), I("lea", Words, R("si"), Mem("si", 1), 0),
               With("loope", -3)>>,
   bound |-> <<I("bound", Words, R("ax"), Mem("si", 0), 0)>>])

\* Source at offset 8 and target at offset 24 of the data segment.
Two(m, from, to) == BytesAt(BytesAt(m, 520, from), 536, to)
Strings(law, prog, n, letters, df) ==
  LET size == IF n = Bytes THEN 3 ELSE 4
      last == IF df THEN size - (IF n = Bytes THEN 1 ELSE 2) ELSE 0
  IN  {Case(law, Name(prog), [Two(Fresh, s, t) EXCEPT !.r.cx = c, !.r.si = 8 + last, !.r.di = 24 + last,
                                               !.r.ax = 513, !.f.df = df]) :
         s \in [1..size -> letters], t \in [1..size -> letters], c \in 0..(IF n = Bytes THEN 3 ELSE 2)}
CompareCases == {Strings("compare bytes", "cmpsb", Bytes, {1, 128}, FALSE),
                 Strings("compare bytes", "cmpsb", Bytes, {1, 128}, TRUE),
                 Strings("compare words", "cmpsw", Words, {1, 128}, FALSE)}
ComparisonCases ==
  BranchCases \union
        {{c \in Strings("scan bytes", "scasb", Bytes, {1, 2}, TRUE) : c.m.mem[520] = 1},
         {c \in Strings("scan words", "scasw", Words, {1, 2}, FALSE) : c.m.mem[520] = 1},
         {c \in Strings("loop", "loope", Bytes, {1, 2}, FALSE) : c.m.mem[536] = 1 /\ c.m.r.cx > 0},
         {Case("bound", Name("bound"), [Two(Fresh, <<0, 255, 3, 0>>, <<0>>) EXCEPT !.r.ax = a, !.r.si = 8]) :
            a \in EdgeWords \union {3, 4, 65280, 65279}}}

(***************************************************************************)
(* Blocks.                                                                 *)
(***************************************************************************)
\* OUTS sends what INS then receives; the translation goes through a table.
BlockPrograms == Plainly(
  [movsb |-> <<Str("movs", Bytes, "rep")>>, movsw |-> <<Str("movs", Words, "rep")>>,
   stosb |-> <<Str("stos", Bytes, "rep")>>, stosw |-> <<Str("stos", Words, "rep")>>,
   portsb |-> <<PushR("cx"), Str("outs", Bytes, "rep"), PopR("cx"), Str("ins", Bytes, "rep")>>,
   portsw |-> <<PushR("cx"), Str("outs", Words, "rep"), PopR("cx"), Str("ins", Words, "rep")>>,
   translate |-> <<Str("lods", Bytes, "none"), Plain("xlat"), Str("stos", Bytes, "none"), With("loop_inst", -4)>>])

\* Six bytes at 520, and a target that may overlap them, in the same segment
\* or in the one 16 bytes above; none, one, two or three elements.
Letters == <<11, 12, 13, 14, 15, 16>>
Block(law, prog, n, shifts, seg) ==
  {Case(law, Name(prog),
        LET k == IF df /\ c > 0 THEN (c - 1) * (IF n = Words THEN 2 ELSE 1) ELSE 0
            p == BytesAt(Fresh, 520, Letters)
        IN  [SetSegReal(p, "es", seg) EXCEPT !.r.cx = c, !.r.si = 8 + k, !.r.ax = 4660, !.f.df = df,
               !.r.di = 8 + shift + k - 16 * (seg - DataSeg)]) :
     c \in 0..3, df \in BOOLEAN, shift \in shifts}
\* Three elements that leave the segment at its end and go on at its start.
Across(law, prog, n) ==
  {Case(law, Name(prog),
        [BytesAt(BytesAt(Fresh, 512 + 65534, <<21, 22>>), 512, Letters)
           EXCEPT !.r.cx = 3, !.r.si = from, !.r.di = to, !.r.ax = 4660]) :
     from \in {65534, 2}, to \in {40, 65534}}
BlockCases ==
  {Block("move bytes", "movsb", Bytes, {-2, -1, 0, 1, 2, 3}, DataSeg),
         Block("move words", "movsw", Words, {-3, -1, 1, 4}, DataSeg),
         Block("move bytes", "movsb", Bytes, {-1, 17}, DataSeg - 1),
         Block("fill bytes", "stosb", Bytes, {20}, DataSeg + 1),
         Block("fill words", "stosw", Words, {20}, DataSeg + 1),
         Block("ports bytes", "portsb", Bytes, {20}, DataSeg + 1),
         Block("ports words", "portsw", Words, {20}, DataSeg + 1),
         {c \in Across("move bytes", "movsb", Bytes) : c.m.r.si # c.m.r.di},
         Across("fill bytes", "stosb", Bytes), Across("fill words", "stosw", Words),
         {[c EXCEPT !.m.r.bx = 40, !.m.mem = At(552, [k \in 1..20 |-> 100 - k]) @@ @] :
            c \in {d \in Block("translate", "translate", Bytes, {20}, DataSeg) : ~d.m.f.df /\ d.m.r.cx > 0}}}

(***************************************************************************)
(* Frames.                                                                 *)
(***************************************************************************)
Messed == <<Load("ax", 255), Load("bx", 3), Load("cx", 9), Load("dx", 1), Load("bp", 77), Load("si", 5),
            Load("di", 6), Word2("add_rm_reg", "ax", "ax"), Plain("cmc"), Plain("std_flag"), Plain("cli")>>
\* Trap flag on and off; the words of AX are 256 and its complement.
TrapOn  == <<Plain("pushf"), PopR("ax"), Group(1, Words, R("ax"), 256), PushR("ax"), Plain("popf")>>
TrapOff == <<Plain("pushf"), PopR("ax"), Group(4, Words, R("ax"), 65279), PushR("ax"), Plain("popf")>>
Saved == <<PushR("ax"), PushR("cx"), PushR("dx")>>
FramePrograms == Plainly(
  [saved |-> <<Plain("pusha"), Plain("pushf")>> \o Messed \o <<Plain("popf"), Plain("popa")>>,
   routine |-> <<I("push_imm", Words, Im(0), Im(0), 5), I("push_imm", Bytes, Im(0), Im(0), 253),
                 With("call_near", 1), With("jmp_short", 8),
                 Enter2(4, 0), Mov(Mem("bp", -2), R("ax")), Mov(R("ax"), Mem("bp", 4)),
                 ALU("add_rm_reg", Words, R("ax"), Mem("bp", 6)), Mov(Mem("bp", -4), R("ax")),
                 I("xchg_rm_reg", Words, Mem("bp", -2), R("ax"), 0), Plain("leave"), With("ret", 4)>>,
   display |-> <<Enter2(2, 1), Mov(R("dx"), R("bp")), Enter2(2, 2), Mov(R("ax"), Mem("bp", -2)),
                 Plain("leave"), Plain("leave")>>,
   \* The routine has a code segment of its own, 256 bytes up.
   far |-> <<PushR("bx"), PushR("cx"), Far("call_far", 16, ProgBase + 4 - 256), With("jmp_near", 4),
             PushR("bp"), Mov(R("bp"), R("sp")), PopR("bp"), With("retf", 4)>>,
   \* Every operation followed by its inverse.
   undo |-> <<I("add_imm_acc", Words, Im(0), Im(4660), 0), I("sub_imm_acc", Words, Im(0), Im(4660), 0),
              I("xor_imm_acc", Words, Im(0), Im(21845), 0), I("xor_imm_acc", Words, Im(0), Im(21845), 0),
              I("inc_reg16", Words, R("bx"), Im(0), 0), I("dec_reg16", Words, R("bx"), Im(0), 0),
              I("arith_imm8_rm", Words, R("cx"), Im(253), 0), I("arith_imm8_rm", Words, R("cx"), Im(253), 5),
              I("xchg_ax_reg", Words, R("dx"), Im(0), 0), I("xchg_ax_reg", Words, R("dx"), Im(0), 0),
              I("lea", Words, R("si"), Mem("si", 5), 0), I("lea", Words, R("si"), Mem("si", -5), 0),
              I("unary_group3", Words, Mem("direct", 8), Im(0), 2), I("unary_group3", Words, Mem("direct", 8), Im(0), 2),
              Plain("stc"), I("adc_imm_acc", Bytes, Im(0), Im(9), 0), Plain("stc"), I("sbb_imm_acc", Bytes, Im(0), Im(9), 0),
              I("shift_imm", Words, R("ax"), Im(5), 0), I("shift_imm", Words, R("ax"), Im(5), 1)>>,
   \* Through a table of addresses, jumping over instructions that would not be undone.
   indirect |-> <<I("call_indirect", Words, Im(0), Mem("direct", 8), 2), I("jmp_indirect", Words, Im(0), Mem("direct", 12), 4),
                  Load("ax", 9), I("call_indirect", Words, Im(0), Mem("direct", 14), 3), With("jcxz", 1), Load("bx", 9),
                  I("jmp_indirect", Words, Im(0), Mem("direct", 18), 5), Plain("cmc"), With("retf", 0), With("ret", 0)>>,
   loopback |-> <<I("out_imm8_ax", Words, Im(0), Im(0), 0), Load("ax", 0), I("in_ax_imm8", Words, Im(0), Im(0), 0),
                  Plain("out_dx_al"), Plain("out_imm8_al"), Load("al", 0), Plain("in_al_dx"), Plain("in_al_imm8")>>,
   too_new |-> <<Plain("pusha")>>,
   service |-> <<With("int", 33)>>,
   halt |-> <<Plain("hlt")>>,
   lahf |-> <<Plain("lahf"), Plain("cmc"), Plain("sahf")>>,
   exchange |-> <<I("push_rm16", Words, Im(0), Mem("direct", 8), 0), I("push_rm16", Words, Im(0), Mem("direct", 10), 0),
                  I("pop_rm16", Words, Mem("direct", 8), Im(0), 0), I("pop_rm16", Words, Mem("direct", 10), Im(0), 0),
                  Mov(R("ax"), Mem("direct", 8)), I("xchg_rm_reg", Words, Mem("direct", 10), R("ax"), 0),
                  I("mov_acc_moffs", Words, Im(0), Im(0), 1)>>,
   pointers |-> <<With("push_segreg", 0), With("push_segreg", 3), PushR("si"), PushR("di"),
                  I("les", Words, R("di"), Mem("direct", 8), 0), I("lds", Words, R("si"), Mem("direct", 12), 0),
                  Str("movs", Words, "none"), PopR("di"), PopR("si"), With("pop_segreg", 3), With("pop_segreg", 0)>>,
   trace |-> TrapOn \o <<With("int", 33), ToSeg(2, R("bx")), Mov(R("sp"), R("cx")), Load("ax", 0),
                         Str("stos", Bytes, "rep"), Word2("xor_rm_reg", "dx", "dx")>> \o TrapOff,
   switch |-> TrapOn \o <<Load("bx", 80), ToSeg(2, R("bx")), Load("sp", 64), PushR("ax"), PopR("ax")>> \o TrapOff])

FlagChoices == {[StartFlags EXCEPT !.cf = c, !.df = d, !.zf = z, !.of = o] : c, d, z, o \in BOOLEAN}
Keeps(prog, free) == {Keep("intact", Name(prog), [Fresh EXCEPT !.r = [@ EXCEPT !.ax = 513, !.bx = 4660, !.cx = 99]], 0, free)}
OldTop == 1280 + StackTop
FrameCases ==
   {{Keep("intact", Name("saved"), [Fresh EXCEPT !.f = f, !.r.ax = 4660, !.r.bp = 40], 0, {}) : f \in FlagChoices},
    Keeps("undo", {"flags"}), Keeps("loopback", {}),
    {Keep("intact", Name("indirect"),
       BytesAt(Fresh, 520, <<9, 16, 0, 0, 3, 16, 8, 16, 0, 0, 10, 16, 0, 0>>), 0, {})},
    {Keep("intact", Name("too_new"), [Fresh EXCEPT !.type = "8086", !.f.hi = 15], 0, {"ax"})},
    Keeps("routine", {"flags"}), Keeps("far", {}), Keeps("service", {"ax"}), Keeps("halt", {}),
    {Keep("intact", Name("lahf"), [Fresh EXCEPT !.f = f], 0, {"ax"}) : f \in FlagChoices},
    {Keep("display", Name("display"), Fresh, 0, {"ax", "dx"})},
    {Keep("intact", Name("pointers"),
          BytesAt(Fresh, 520, <<4, 0, 60, 0, 6, 0, 61, 0>>), 0, {})},
    {Keep("trace", Name("trace"), [Fresh EXCEPT !.r.bx = StackSeg, !.r.cx = StackTop, !.r.di = 60], 10,
          {"ax", "cx", "dx", "di", "flags"})}}
\* The stack switch, without a device: see PairCases of MCCpu.
SwitchCases == {{Keep("switch", Name("switch"), BytesAt(Fresh, OldTop - 6, <<7, 7, 7, 7, 7, 7>>), 0, {})}}

RealCode == ArithmeticPrograms @@ ShiftPrograms @@ BranchPrograms @@ StringPrograms @@ BlockPrograms
                @@ FramePrograms
\* One request may come at any boundary; in most shifts, the comparisons of two
\* strings (one instruction each) and the stack switch none does.
RealCases ==
  UNION {ShiftCases, CompareCases, SwitchCases, InterruptedShifts}
  \union {Interrupted(f) : f \in UNION {ArithmeticCases, ComparisonCases, BlockCases, FrameCases}}
=============================================================================
