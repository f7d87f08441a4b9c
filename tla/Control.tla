------------------------------ MODULE Control ------------------------------
(***************************************************************************)
(* Jumps, calls, returns, interrupts, the system instructions of the 286,  *)
(* and the dispatch on the opcode (control_flow.rs, data_transfer.rs and   *)
(* exec_instruction of instructions/mod.rs).  A displacement counts        *)
(* instructions.                                                           *)
(***************************************************************************)
EXTENDS Transfers

JumpIf(m, i, taken) == IF taken THEN AddTo(m, "ip", i.x) ELSE m
JmpShort(m, i) == JumpIf(m, i, TRUE)
JmpNear(m, i)  == JumpIf(m, i, TRUE)
JmpConditional(m, i) == JumpIf(m, i, Condition(m.f, i.y))

Loope(m, i)    == LET c == AddTo(m, "cx", -1) IN JumpIf(c, i, c.r.cx # 0 /\ c.f.zf)
Loopne(m, i)   == LET c == AddTo(m, "cx", -1) IN JumpIf(c, i, c.r.cx # 0 /\ ~c.f.zf)
LoopInst(m, i) == LET c == AddTo(m, "cx", -1) IN JumpIf(c, i, c.r.cx # 0)
Jcxz(m, i)     == JumpIf(m, i, m.r.cx = 0)

CallNear(m, i) == AddTo(Push(m, m.r.ip), "ip", i.x)
Ret(m, i)      == AddTo(PopInto(m, "ip"), "sp", i.x)

Goto(m, sel, off) == LoadCs([m EXCEPT !.r.ip = off], sel)

\* far_jmp_pm and far_call_pm: a selector may name a call gate, which has
\* the offset and the selector of its own.
FarJmpPm(m, sel, off) ==
  LET d == Descriptor(m, sel) IN
  CASE Missing(d) -> Raise(m, 13, <<sel>>)
    [] ~Missing(d) /\ CallGate(d) /\ ~Present(d) -> Raise(m, 11, <<sel>>)
    [] ~Missing(d) /\ CallGate(d) /\ Present(d)  -> Goto(m, d.selector, d.offset)
    [] OTHER -> Goto(m, sel, off)

FarCallPm(m, sel, off) ==
  LET d == Descriptor(m, sel)
      dpl == SelectorDpl(m, d.selector)
      here == <<m.r.cs, m.r.ip>>
  IN  CASE Missing(d) -> Raise(m, 13, <<sel>>)
        [] ~Missing(d) /\ CallGate(d) /\ ~Present(d) -> Raise(m, 11, <<sel>>)
        [] ~Missing(d) /\ CallGate(d) /\ Present(d) ->
             IF dpl < m.cpl
             THEN Goto([PushAll(SwitchStack(m), here) EXCEPT !.cpl = dpl], d.selector, d.offset)
             ELSE Goto(PushAll(m, here), d.selector, d.offset)
        [] OTHER -> Goto(PushAll(m, here), sel, off)

FarJmp(m, sel, off)  == IF Protected(m) THEN FarJmpPm(m, sel, off) ELSE Goto(m, sel, off)
FarCall(m, sel, off) == IF Protected(m) THEN FarCallPm(m, sel, off)
                        ELSE Goto(PushAll(m, <<m.r.cs, m.r.ip>>), sel, off)
JmpFar(m, i)  == FarJmp(m, i.y, i.x)
CallFar(m, i) == FarCall(m, i.y, i.x)

\* The memory forms read the pointer wherever the address led.
JmpIndirect(m, i) ==
  LET c == Touch(m, i, i.s, IF i.x = 4 THEN Words ELSE Bytes)
      a == Place(m, i, i.s)
  IN  IF i.x = 4 THEN [c EXCEPT !.r.ip = Value(c, i, i.s, Words)]
      ELSE FarJmp(c, Word(m, a + 2), Word(m, a))
CallIndirect(m, i) ==
  LET c == Touch(m, i, i.s, IF i.x = 2 THEN Words ELSE Bytes)
      a == Place(m, i, i.s)
  IN  IF i.x = 2 THEN [Push(c, c.r.ip) EXCEPT !.r.ip = Value(c, i, i.s, Words)]
      ELSE FarCall(c, Word(m, a + 2), Word(m, a))

\* A return to a lower privilege takes the outer stack too.
Outward(m, sel) == Protected(m) /\ Rpl(sel) > m.cpl
OuterStack(m, rpl) ==
  LET p == Drop(Drop(m)) IN
  [LoadSegment(p, "ss", Top(Drop(m))) EXCEPT !.r.sp = Top(m), !.cpl = rpl]

Retf(m, i) ==
  LET sel == Top(Drop(m))
      g == Goto(Drop(Drop(m)), sel, Top(m))
      s == AddTo(g, "sp", i.x)
  IN  IF Outward(m, sel) THEN OuterStack(s, Rpl(sel)) ELSE s

\* Mutant: the outer stack stays on the inner one.
IretStays(m, i) ==
  LET sel == Top(Drop(m))
      g == Goto(Drop(Drop(Drop(m))), sel, Top(m))
  IN  [g EXCEPT !.f = RestoredFlags(m, Top(Drop(Drop(m))))]

Iret(m, i) ==
  LET sel == Top(Drop(m))
      g == Goto(Drop(Drop(Drop(m))), sel, Top(m))
      f == [g EXCEPT !.f = RestoredFlags(m, Top(Drop(Drop(m))))]
  IN  IF Outward(m, sel) THEN OuterStack(f, Rpl(sel)) ELSE f

Hlt(m, i) == [m EXCEPT !.halted = TRUE]
IntOp(m, i) == Interrupt(m, i.x)
\* INT 3 takes the real-mode way in either mode.
Int3(m, i) == DispatchReal(m, 3)

(***************************************************************************)
(* System registers: 0F 00, 0F 01, 0F 05 and 0F 06.                        *)
(***************************************************************************)
\* Memory operands are accessed wherever the address led.
Operand16(m, i, o) == IF o.k = "reg" THEN Reg(m, o.r) ELSE Word(m, Place(m, i, o))
StoreAlways(m, i, o, v) == IF o.k = "reg" THEN SetReg(m, o.r, v) ELSE PutWord(m, Place(m, i, o), v)

SystemSegment(m, x, sel) ==
  LET d == DescriptorAt(m, m.gdtr, Index(sel)) IN
  CASE Null(sel) -> IF x = "ldtr" THEN [m EXCEPT !.ldtr = [sel |-> 0, base |-> 0, limit |-> 0]]
                    ELSE Raise(m, 13, <<0>>)
    [] ~Null(sel) /\ Missing(d) -> Raise(m, 13, <<sel>>)
    [] ~Null(sel) /\ ~Missing(d) /\ ~Present(d) -> Raise(m, 11, <<sel>>)
    [] OTHER -> [m EXCEPT ![x] = [sel |-> sel, base |-> d.base, limit |-> d.limit]]

\* SLDT, STR, LLDT, LTR
Exec0f00(m, i) ==
  LET c == Touch(m, i, i.d, Bytes) IN
  CASE i.x = 0 -> StoreAlways(c, i, i.d, m.ldtr.sel)
    [] i.x = 1 -> StoreAlways(c, i, i.d, m.tr.sel)
    [] i.x = 2 -> SystemSegment(c, "ldtr", Operand16(m, i, i.d))
    [] i.x = 3 -> SystemSegment(c, "tr", Operand16(m, i, i.d))
    [] OTHER   -> Interrupt(c, 6)

PutTable(m, a, t) ==
  PutByte(PutByte(PutWord(PutWord(m, a, t.limit), a + 2, t.base % Words),
                  a + 4, t.base \div Words), a + 5, 255)
TableAt(m, a) == [limit |-> Word(m, a), base |-> Word(m, a + 2) + Words * Byte(m, a + 4)]

\* Protected mode is entered, never left.
LoadMsw(m, v) == [m EXCEPT !.msw = (@ \div 16) * 16 + BitOr(@ % 2, v % 16)]

\* SGDT, SIDT, LGDT, LIDT, SMSW, LMSW
Exec0f01(m, i) ==
  LET c == Touch(m, i, i.d, Bytes)
      a == Place(m, i, i.d)
  IN  CASE i.x < 2 /\ i.d.k = "reg" -> Interrupt(c, 6)
        [] i.x = 0 /\ i.d.k = "mem" -> PutTable(c, a, m.gdtr)
        [] i.x = 1 /\ i.d.k = "mem" -> PutTable(c, a, m.idtr)
        [] i.x \in {2, 3} /\ i.d.k = "reg" -> Interrupt(c, 6)
        [] i.x = 2 /\ i.d.k = "mem" -> [c EXCEPT !.gdtr = TableAt(m, a)]
        [] i.x = 3 /\ i.d.k = "mem" -> [c EXCEPT !.idtr = TableAt(m, a)]
        [] i.x = 4 -> StoreAlways(c, i, i.d, m.msw)
        [] i.x = 6 -> LoadMsw(c, Operand16(m, i, i.d))
        [] OTHER -> Interrupt(c, 6)

\* LOADALL: everything but the local and the task segment's place.
LoadAllBase == 2048
LoadAllRegs == [di |-> 38, si |-> 40, bp |-> 42, sp |-> 44, bx |-> 46, dx |-> 48, cx |-> 50,
                ax |-> 52, ip |-> 26, ds |-> 30, ss |-> 32, cs |-> 34, es |-> 36]
LoadAllCaches == [es |-> 54, cs |-> 60, ss |-> 66, ds |-> 72]
LoadAllTables == [gdtr |-> 78, idtr |-> 90]

CacheAt(m, a) == [base |-> Word(m, a) + Words * Byte(m, a + 2), limit |-> Word(m, a + 4)]

Exec0f05(m, i) ==
  LET at(o) == Word(m, LoadAllBase + o)
      cacheAt(o) == CacheAt(m, LoadAllBase + o)
  IN  [m EXCEPT !.r = [x \in DOMAIN @ |-> at(LoadAllRegs[x])],
                !.cache = [s \in SegRegs |-> cacheAt(LoadAllCaches[s])],
                !.msw = BitOr(@ % 2, at(6)), !.f = [RestoredFlags(m, at(24)) EXCEPT !.hi = at(24) \div 4096],
                !.gdtr = cacheAt(LoadAllTables.gdtr), !.idtr = cacheAt(LoadAllTables.idtr),
                !.ldtr.sel = at(28), !.tr.sel = at(22)]

Clts(m, i) == [m EXCEPT !.msw = @ - 8 * Bit(@, 3)]

\* On an 8086 the byte 0F is POP CS.
ExecOpcode0f(m, i) ==
  IF ~Is286(m) THEN PopSegreg(m, [i EXCEPT !.x = 1])
  ELSE CASE i.op = "0f00" -> Exec0f00(m, i)
         [] i.op = "0f01" -> Exec0f01(m, i)
         [] i.op = "0f05" -> Exec0f05(m, i)
         [] i.op = "0f06" -> Clts(m, i)
         [] i.op = "0f.." -> Interrupt(m, 6)
(***************************************************************************)
(* exec_instruction.  The prefixes are fields of the instruction, FS and   *)
(* GS overrides and the floating point escapes are left out.  What came    *)
(* with the 286 is interrupt 6 on an 8086.                                 *)
(***************************************************************************)
Since286(m, next) == IF Is286(m) THEN next ELSE Interrupt(m, 6)

BoundOp(m, i) ==
  LET c == Touch(m, i, i.s, Bytes) IN IF Bound(m, i) THEN Interrupt(c, 5) ELSE c

\* 0xE0 to 0xFF
ExecE0(m, i) ==
  CASE i.op = "loopne" -> Loopne(m, i)
    [] i.op = "loope" -> Loope(m, i)
    [] i.op = "loop_inst" -> LoopInst(m, i)
    [] i.op = "jcxz" -> Jcxz(m, i)
    [] i.op = "in_al_imm8" -> InAlImm8(m, i)
    [] i.op = "in_ax_imm8" -> InAxImm8(m, i)
    [] i.op = "out_imm8_al" -> OutImm8Al(m, i)
    [] i.op = "out_imm8_ax" -> OutImm8Ax(m, i)
    [] i.op = "call_near" -> CallNear(m, i)
    [] i.op = "jmp_near" -> JmpNear(m, i)
    [] i.op = "jmp_far" -> JmpFar(m, i)
    [] i.op = "jmp_short" -> JmpShort(m, i)
    [] i.op = "in_al_dx" -> InAlDx(m, i)
    [] i.op = "in_ax_dx" -> InAxDx(m, i)
    [] i.op = "out_dx_al" -> OutDxAl(m, i)
    [] i.op = "out_dx_ax" -> OutDxAx(m, i)
    [] i.op = "hlt" -> Hlt(m, i)
    [] i.op = "cmc" -> Cmc(m, i)
    [] i.op = "unary_group3" -> UnaryGroup3(m, i)
    [] i.op = "clc" -> Clc(m, i)
    [] i.op = "stc" -> Stc(m, i)
    [] i.op = "cli" -> Cli(m, i)
    [] i.op = "sti" -> Sti(m, i)
    [] i.op = "cld" -> Cld(m, i)
    [] i.op = "std_flag" -> StdFlag(m, i)
    [] i.op = "inc_dec_rm" -> IncDecRm(m, i)
    [] i.op = "call_indirect" -> CallIndirect(m, i)
    [] i.op = "jmp_indirect" -> JmpIndirect(m, i)
    [] i.op = "push_rm16" -> PushRm16(m, i)
    [] i.op = "undefined" -> m
    [] OTHER -> Interrupt(m, 6)

\* 0x90 to 0xD7
Exec90(m, i) ==
  CASE i.op = "xchg_ax_reg" -> XchgAxReg(m, i)
    [] i.op = "cbw" -> Cbw(m, i)
    [] i.op = "cwd" -> Cwd(m, i)
    [] i.op = "call_far" -> CallFar(m, i)
    [] i.op = "pushf" -> Pushf(m, i)
    [] i.op = "popf" -> Popf(m, i)
    [] i.op = "sahf" -> Sahf(m, i)
    [] i.op = "lahf" -> Lahf(m, i)
    [] i.op = "mov_acc_moffs" -> MovAccMoffs(m, i)
    [] i.op = "movs" -> Movs(m, i)
    [] i.op = "cmps" -> Cmps(m, i)
    [] i.op = "test_imm_acc" -> TestImmAcc(m, i)
    [] i.op = "stos" -> Stos(m, i)
    [] i.op = "lods" -> Lods(m, i)
    [] i.op = "scas" -> Scas(m, i)
    [] i.op = "mov_imm_to_reg" -> MovImmToReg(m, i)
    [] i.op = "shift_imm" -> Since286(m, ShiftRotateGroup(m, i))
    [] i.op = "ret" -> Ret(m, i)
    [] i.op = "les" -> Les(m, i)
    [] i.op = "lds" -> Lds(m, i)
    [] i.op = "mov_imm_to_rm" -> MovImmToRm(m, i)
    [] i.op = "enter" -> Since286(m, Enter(m, i))
    [] i.op = "leave" -> Since286(m, Leave(m, i))
    [] i.op = "retf" -> Retf(m, i)
    [] i.op = "int3" -> Int3(m, i)
    [] i.op = "int" -> IntOp(m, i)
    [] i.op = "iret" -> Iret(m, i)
    [] i.op = "shift_rotate_group" -> ShiftRotateGroup(m, i)
    [] i.op = "aam" -> AamOp(m, i)
    [] i.op = "aad" -> AadOp(m, i)
    [] i.op = "xlat" -> Xlat(m, i)
    [] OTHER -> ExecE0(m, i)

\* 0x40 to 0x8F
Exec40(m, i) ==
  CASE i.op = "inc_reg16" -> IncReg16(m, i)
    [] i.op = "dec_reg16" -> DecReg16(m, i)
    [] i.op = "push_reg16" -> PushReg16(m, i)
    [] i.op = "pop_reg16" -> PopReg16(m, i)
    [] i.op = "pusha" -> Since286(m, Pusha(m, i))
    [] i.op = "popa" -> Since286(m, Popa(m, i))
    [] i.op = "bound" -> Since286(m, BoundOp(m, i))
    [] i.op = "push_imm" -> Since286(m, PushImm(m, i))
    [] i.op = "imul_imm16" -> Since286(m, ImulImm16(m, i))
    [] i.op = "imul_imm8" -> Since286(m, ImulImm8(m, i))
    [] i.op = "ins" -> Since286(m, Ins(m, i))
    [] i.op = "outs" -> Since286(m, Outs(m, i))
    [] i.op = "jmp_conditional" -> JmpConditional(m, i)
    [] i.op = "arith_imm8_rm8" -> ArithImm8Rm8(m, i)
    [] i.op = "arith_imm16_rm" -> ArithImm16Rm(m, i)
    [] i.op = "arith_imm8_rm" -> ArithImm8Rm(m, i)
    [] i.op = "test_rm_reg" -> TestRmReg(m, i)
    [] i.op = "xchg_rm_reg" -> XchgRmReg(m, i)
    [] i.op = "mov_reg_rm" -> MovRegRm(m, i)
    [] i.op = "mov_segreg_to_rm" -> MovSegregToRm(m, i)
    [] i.op = "lea" -> LeaOp(m, i)
    [] i.op = "mov_rm_to_segreg" -> MovRmToSegreg(m, i)
    [] i.op = "pop_rm16" -> PopRm16(m, i)
    [] OTHER -> Exec90(m, i)

\* 0x00 to 0x3F
Exec00(m, i) ==
  CASE i.op = "add_rm_reg" -> AddRmReg(m, i)
    [] i.op = "add_imm_acc" -> AddImmAcc(m, i)
    [] i.op = "push_segreg" -> PushSegreg(m, i)
    [] i.op = "pop_segreg" -> PopSegreg(m, i)
    [] i.op = "or_rm_reg" -> OrRmReg(m, i)
    [] i.op = "or_imm_acc" -> OrImmAcc(m, i)
    [] i.op \in {"0f00", "0f01", "0f05", "0f06", "0f.."} -> ExecOpcode0f(m, i)
    [] i.op = "adc_rm_reg" -> AdcRmReg(m, i)
    [] i.op = "adc_imm_acc" -> AdcImmAcc(m, i)
    [] i.op = "sbb_rm_reg" -> SbbRmReg(m, i)
    [] i.op = "sbb_imm_acc" -> SbbImmAcc(m, i)
    [] i.op = "and_rm_reg" -> AndRmReg(m, i)
    [] i.op = "and_imm_acc" -> AndImmAcc(m, i)
    [] i.op = "daa" -> DaaOp(m, i)
    [] i.op = "sub_rm_reg" -> SubRmReg(m, i)
    [] i.op = "sub_imm_acc" -> SubImmAcc(m, i)
    [] i.op = "das" -> DasOp(m, i)
    [] i.op = "xor_rm_reg" -> XorRmReg(m, i)
    [] i.op = "xor_imm_acc" -> XorImmAcc(m, i)
    [] i.op = "aaa" -> AaaOp(m, i)
    [] i.op = "cmp_rm_reg" -> CmpRmReg(m, i)
    [] i.op = "cmp_imm_acc" -> CmpImmAcc(m, i)
    [] i.op = "aas" -> AasOp(m, i)
    [] OTHER -> Exec40(m, i)

=============================================================================
