------------------------- MODULE ProtectedPrograms -------------------------
(***************************************************************************)
(* Programs for a Cpu in protected mode: an operating system of one task,  *)
(* its descriptors, gates and handlers, and what the task does.            *)
(***************************************************************************)
EXTENDS RealPrograms

\* The memory above the programs' stacks.
Gdt       == 1536
Idt       == 1792
Tss       == 2304
KernelStack == 1280      \* the same size as the program's
UserData  == 512
UserLimit == 15

Entry(base, limit, access) ==
  <<limit % Bytes, limit \div Bytes, base % Bytes, (base \div Bytes) % Bytes, base \div Words, access, 0, 0>>
Gate(sel, off, access) == <<off % Bytes, off \div Bytes, sel % Bytes, sel \div Bytes, 0, access, 0, 0>>

\* Where the kernel's code is.
KernelAt == [irq |-> 8704, fault |-> 8768, absent |-> 8800, div |-> 8832, service |-> 8896, routine |-> 8960]

\* Selectors; the user's carry the privilege 3.
Sels == [kcode |-> 8, kdata |-> 16, ucode |-> 27, udata |-> 35, ustack |-> 43, tss |-> 48,
         gate |-> 59, kstack |-> 64, absent |-> 75, beyond |-> 88]
GdtEntries ==
  [k \in 0..10 |->
     CASE k = 1 -> Entry(0, 65535, 154)
       [] k = 2 -> Entry(0, 65535, 146)
       [] k = 3 -> Entry(0, 65535, 250)
       [] k = 4 -> Entry(UserData, UserLimit, 242)
       [] k = 5 -> Entry(16 * StackSeg, StackTop - 1, 242)
       [] k = 6 -> Entry(Tss, 43, 129)
       [] k = 7 -> Gate(Sels.kcode, KernelAt.routine, 228)
       [] k = 8 -> Entry(KernelStack, StackTop - 1, 146)
       [] k = 9 -> Entry(UserData, UserLimit, 114)
       [] OTHER -> Entry(0, 0, 0)]
\* Interrupt gates for devices, trap gates for services and faults.
IdtEntry(n) ==
  CASE n = 0  -> Gate(Sels.kcode, KernelAt.div, 135)
    [] n = 8  -> Gate(Sels.kcode, KernelAt.irq, 134)
    [] n = 11 -> Gate(Sels.kcode, KernelAt.absent, 135)
    [] n = 13 -> Gate(Sels.kcode, KernelAt.fault, 135)
    [] n = 33 -> Gate(Sels.kcode, KernelAt.service, 231)
    [] OTHER  -> Entry(0, 0, 0)

TableBytes(at, Of(_), ks) == FoldFunctionOnSet(LAMBDA x, y : x @@ y, <<>>, [k \in ks |-> At(at + 8 * k, Of(k))], ks)
SystemBytes ==
  TableBytes(Gdt, LAMBDA k : GdtEntries[k], 0..9) @@ TableBytes(Idt, IdtEntry, {0, 8, 11, 13, 33})
  @@ Words2(Tss + 2, StackTop) @@ Words2(Tss + 4, Sels.kstack)

\* The handler of devices counts at physical 256 by the kernel's data segment.
KernelIrq == <<PushR("ds"), PushR("ax"), Load("ax", Sels.kdata), ToSeg(3, R("ax")),
               I("inc_dec_rm", Words, Mem("direct", 256), Im(0), 0), PopR("ax"), With("pop_segreg", 3), Plain("iret")>>
\* A fault leaves its code in BX and its number in DX, and the program goes on.
KernelFault   == <<PopR("bx"), Load("dx", 13), Plain("iret")>>
KernelAbsent  == <<PopR("bx"), Load("dx", 11), Plain("iret")>>
KernelDiv     == <<Load("dx", 1), Plain("iret")>>
KernelService == <<Plain("sti"), Word2("add_rm_reg", "ax", "bx"), Plain("iret")>>
\* Behind the call gate.
KernelRoutine == <<Plain("pusha"), PushR("bp"), Mov(R("bp"), R("sp")), Word2("xor_rm_reg", "cx", "cx"),
                   PopR("bp"), Plain("popa"), With("retf", 0)>>
KernelCode == At(KernelAt.irq, KernelIrq) @@ At(KernelAt.fault, KernelFault) @@ At(KernelAt.absent, KernelAbsent)
              @@ At(KernelAt.div, KernelDiv)
              @@ At(KernelAt.service, KernelService) @@ At(KernelAt.routine, KernelRoutine)

CacheFor(k) == [base |-> IF k = Sels.udata THEN UserData ELSE IF k = Sels.ustack THEN 16 * StackSeg ELSE 0,
                limit |-> IF k = Sels.udata THEN UserLimit ELSE IF k = Sels.ustack THEN StackTop - 1 ELSE 65535]
UserRegs == [StartRegs EXCEPT !.cs = Sels.ucode, !.ds = Sels.udata, !.es = Sels.udata, !.ss = Sels.ustack]
\* The task, already running.
Task == [Fresh EXCEPT !.r = UserRegs, !.cache = [s \in SegRegs |-> CacheFor(UserRegs[s])],
           !.msw = @ + 1, !.cpl = 3, !.gdtr = [base |-> Gdt, limit |-> 87], !.idtr = [base |-> Idt, limit |-> 271],
           !.tr = [sel |-> Sels.tss, base |-> Tss, limit |-> 43], !.mem = SystemBytes @@ @]

ProtectedCode == Plainly(
  [gate |-> <<PushR("bx"), Far("call_far", Sels.gate, 0), PopR("bx"), Far("call_far", Sels.gate, 0)>>,
   system |-> <<With("int", 33)>>,
   \* Each system register stored and loaded again.
   registers |-> <<I("0f01", Words, Mem("direct", 0), Im(0), 0), I("0f01", Words, Mem("direct", 0), Im(0), 2),
                   I("0f01", Words, Mem("direct", 0), Im(0), 1), I("0f01", Words, Mem("direct", 0), Im(0), 3),
                   I("0f00", Words, Mem("direct", 8), Im(0), 1), I("0f00", Words, Mem("direct", 8), Im(0), 3),
                   I("0f00", Words, R("ax"), Im(0), 0), I("0f00", Words, R("ax"), Im(0), 2),
                   I("0f01", Words, R("ax"), Im(0), 4), I("0f01", Words, R("ax"), Im(0), 6), Plain("0f06")>>,
   divide |-> <<Group3(6, Bytes, "bl")>>,
   write |-> <<I("mov_reg_rm", Words, Mem("si", 0), R("ax"), 0)>>,
   write_byte |-> <<I("mov_reg_rm", Bytes, Mem("si", 0), R("al"), 0)>>,
   push |-> <<PushR("ax")>>,
   put_byte |-> <<Str("stos", Bytes, "none"), I("lea", Words, R("di"), Mem("di", -1), 0)>>,
   put_word |-> <<Str("stos", Words, "none"), I("lea", Words, R("di"), Mem("di", -2), 0)>>,
   get_byte |-> <<Str("lods", Bytes, "none"), I("lea", Words, R("si"), Mem("si", -1), 0)>>,
   get_word |-> <<Str("lods", Words, "none"), I("lea", Words, R("si"), Mem("si", -2), 0)>>,
   select |-> <<ToSeg(0, R("ax"))>>,
   select_stack |-> <<ToSeg(2, R("ax"))>>,
   \* From real mode: the tables, the switch, the kernel's segments, the task.
   boot |-> <<Plain("cli"),
              [I("0f01", Words, Mem("direct", 64), Im(0), 2) EXCEPT !.over = "cs"],
              [I("0f01", Words, Mem("direct", 72), Im(0), 3) EXCEPT !.over = "cs"],
              Load("ax", 1), I("0f01", Words, R("ax"), Im(0), 6), Far("jmp_far", Sels.kcode, ProgBase + 6),
              Load("ax", Sels.kdata), ToSeg(3, R("ax")), ToSeg(0, R("ax")),
              Load("ax", Sels.kstack), ToSeg(2, R("ax")), Load("sp", StackTop),
              Load("ax", Sels.tss), I("0f00", Words, R("ax"), Im(0), 3),
              I("push_imm", Words, Im(0), Im(0), Sels.ustack), I("push_imm", Words, Im(0), Im(0), StackTop),
              I("push_imm", Words, Im(0), Im(0), 514), I("push_imm", Words, Im(0), Im(0), Sels.ucode),
              I("push_imm", Words, Im(0), Im(0), ProgBase + 20), Plain("iret"),
              With("int", 33), Far("call_far", Sels.gate, 0)>>,
   \* LOADALL with a data segment no selector names.
   loadall |-> <<Plain("0f05"), I("mov_reg_rm", Words, R("ax"), Mem("direct", 0), 0)>>])

\* The accumulator to and from each of these offsets.
UserOffsets == {0, 14, 15, 16, 65535}
DirectPrograms ==
  [p \in {<<op, n, o>> : op \in {"load", "store"}, n \in {Bytes, Words}, o \in UserOffsets} |->
     <<[I("mov_acc_moffs", p[2], Im(0), Im(0), IF p[1] = "load" THEN 0 ELSE 1) EXCEPT !.y = p[3]]>>]

Put6(a, base, limit) == Words2(a, limit) @@ Words2(a + 2, base) @@ (a + 4 :> 0 @@ a + 5 :> 0)
BootImage == [Fresh EXCEPT !.mem = SystemBytes @@ Put6(64, Gdt, 87) @@ Put6(72, Idt, 271) @@ @]

\* An interrupted task whose fault, if any, leaves word in BX and DX.
Faulting(cases) == Interrupted({[c EXCEPT !.free = @ \union {"bx", "dx"}] : c \in cases})
\* The task's segment is full of sevens, and SI and DI are where it looks.
Aimed(o, ax) == BytesAt([Task EXCEPT !.r.si = o, !.r.di = o, !.r.ax = ax], UserData, [k \in 1..UserLimit+2 |-> 7])
Tasks(prog, m, free) == Interrupted({Keep("intact", Name(prog), m, 0, free)})
ProtectedCases ==
  {Tasks("gate", [Task EXCEPT !.r.bx = 9, !.r.cx = 5], {"flags"}),
   \* The tables are stored at 512, over what is there already.
   Tasks("registers", BytesAt([Task EXCEPT !.mem = Put6(512, Idt, 271) @@ Words2(520, Sels.tss) @@ @], 517, <<255>>), {"ax"}),
   Tasks("system", [Task EXCEPT !.r.bx = 9], {"ax"}),
   Interrupted({Keep("boot", Name("boot"), BootImage, 0, {})}),
   Interrupted({Keep("divide", Name("divide"), Set2(Task, a, b), 0, {"ax", "dx", "flags"}) : a \in {7, 4660}, b \in {0, 3}}),
   Faulting({Keep("limit", Name("write"), Aimed(o, 4660), Words, {}) : o \in {0, 7, 14, 15, 16, 65535}}),
   Faulting({Keep("limit", Name("write_byte"), Aimed(o, 52), Bytes, {}) : o \in {0, 15, 16}}),
   Faulting({Keep("stack limit", Name("push"), [Task EXCEPT !.r.sp = p, !.r.ax = 4660], 0, {"sp"}) :
               p \in {2, 4, 128, 129, 130, 1, 0}}),
   Faulting({Keep("select", Name("select"), [Task EXCEPT !.r.ax = s], 0, {"es"}) :
               s \in {0, 3, Sels.udata, Sels.absent, Sels.beyond, Sels.ustack}}),
   Faulting({Keep("select", Name("select_stack"), [Task EXCEPT !.r.ax = s], 2, {"ss"}) :
               s \in {0, 3, Sels.ustack, Sels.absent, Sels.beyond}})}
  \union {Faulting({Keep(p[1], p[2], Aimed(o, 4660), 0, {}) : o \in UserOffsets}) : p \in
            {<<"store bytes", Name("put_byte")>>, <<"store words", Name("put_word")>>}}
  \union {Faulting({Keep(p[1], p[2], Aimed(o, 4660), 0, {"ax"}) : o \in UserOffsets}) : p \in
            {<<"load bytes", Name("get_byte")>>, <<"load words", Name("get_word")>>}}
  \union {Faulting({Keep(p[1] \o (IF p[2] = Bytes THEN " bytes" ELSE " words"), p, Aimed(p[3], 4660), 0,
                         IF p[1] = "load" THEN {"ax"} ELSE {})}) : p \in DOMAIN DirectPrograms}
  \union {
   Interrupted({Keep("loadall", Name("loadall"), 
     [Fresh EXCEPT !.mem = Words2(LoadAllBase + 26, ProgBase + 1) @@ Words2(LoadAllBase + 24, 514)
                           @@ Words2(LoadAllBase + 44, StackTop) @@ Words2(LoadAllBase + 32, StackSeg)
                           @@ Words2(LoadAllBase + 66, 16 * StackSeg) @@ Words2(LoadAllBase + 70, 65535)
                           @@ Words2(LoadAllBase + 30, 1) @@ Words2(LoadAllBase + 64, 65535)
                           @@ Words2(LoadAllBase + 72, 8192) @@ (LoadAllBase + 74 :> 16) @@ Words2(LoadAllBase + 76, 65535)
                           @@ Words2(LoadAllBase + 94, 1023)
                           @@ Words2(1056768, 4660) @@ @, !.a20 = TRUE], 4660, {})})}
=============================================================================
