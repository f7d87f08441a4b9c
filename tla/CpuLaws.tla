------------------------------ MODULE CpuLaws ------------------------------
(***************************************************************************)
(* What the programs of a Cpu compute, said without the processor: every   *)
(* case names the law that its end is held against.  Where the case lets a *)
(* device ask, the request is taken at whatever boundary of instructions   *)
(* it comes, so the law also says that it leaves no trace.                 *)
(***************************************************************************)
EXTENDS Cpu

CONSTANTS StackBottom,   \* the programs' stacks are above this address
          TraceCount,    \* where their trap handler counts
          OwnMemory,     \* what handlers keep for themselves
          Canary         \* the addresses a stack switch must not touch

\* The processor at the start.
z == case.m

From == z.cache.ds.base + z.r.si
To   == z.cache.es.base + z.r.di

Signed16(x) == Signed(x, Words)
Hidden(f) == [f EXCEPT !.tf = FALSE]
Fits(v, n) == v \in -(n \div 2) .. n \div 2 - 1
Low(x) == x % Bytes
Top8(x) == x \div Bytes
\* Memory is as it was but for these addresses, the stack in use below its
\* top, and the handlers' own.
Untouched(but) ==
  \A a \in DOMAIN m.mem \ (but \union OwnMemory) :
    a \notin StackBottom .. z.cache.ss.base + z.r.sp - 1 => m.mem[a] = Byte(z, a)
Decimal(x) == 1000 * (x \div 4096) + 100 * ((x \div 256) % 16) + 10 * ((x \div 16) % 16) + (x % 16)
Digits(x) == 10 * Top8(x) + Low(x)

(***************************************************************************)
(* Arithmetic.                                                             *)
(***************************************************************************)
\* Byte instructions chained through the carry compute what the word says.
SumLaw == /\ m.r.ax = (z.r.ax + z.r.bx) % Words
          /\ m.f.cf = (z.r.ax + z.r.bx >= Words)
          /\ m.f.of = ~Fits(Signed16(z.r.ax) + Signed16(z.r.bx), Words)
          /\ m.f.sf = Sign(m.r.ax, Words)
DifferenceLaw == /\ m.r.ax = (z.r.ax - z.r.bx) % Words
                 /\ m.f.cf = (z.r.ax < z.r.bx)
                 /\ m.f.of = ~Fits(Signed16(z.r.ax) - Signed16(z.r.bx), Words)
NegationLaw == m.r.ax = (-z.r.ax) % Words
DecimalSumLaw == /\ Decimal(m.r.ax) = (Decimal(z.r.ax) + Decimal(z.r.bx)) % 10000
                 /\ m.f.cf = (Decimal(z.r.ax) + Decimal(z.r.bx) >= 10000)
DecimalDifferenceLaw == /\ Decimal(m.r.ax) = (Decimal(z.r.ax) - Decimal(z.r.bx)) % 10000
                        /\ m.f.cf = (Decimal(z.r.ax) < Decimal(z.r.bx))
AsciiSumLaw == Digits(m.r.ax) = Digits(z.r.ax) + Digits(z.r.bx) /\ m.f.cf = (Low(z.r.ax) + Low(z.r.bx) > 9)
AsciiDifferenceLaw == Digits(m.r.ax) = Digits(z.r.ax) - Digits(z.r.bx)
AsciiProductLaw == Low(m.r.ax) = Low(z.r.ax) * Low(z.r.bx) /\ Top8(m.r.ax) = 0
                   /\ m.r.dx = Bytes * (m.r.ax \div 10) + (m.r.ax % 10)
ProductLaw == LET p == Low(z.r.ax) * Low(z.r.bx) IN m.r.ax = p /\ m.f.cf = (p > 255)
SignedProductLaw ==
  LET p == Signed(Low(z.r.ax), Bytes) * Signed(Low(z.r.bx), Bytes)
  IN  m.r.ax = p % Words /\ m.f.cf = ~Fits(p, Bytes) /\ m.f.of = m.f.cf

ImmediateProductLaw ==
  LET p == -3 * Signed16(z.r.ax) IN
  m.r.dx = p % Words /\ m.r.cx = p % Words /\ m.f.cf = ~Fits(p, Words)
ExtensionLaw == /\ m.r.ax = Signed(Low(z.r.ax), Bytes) % Words
                /\ m.r.dx = IF Low(z.r.ax) >= 128 THEN Words - 1 ELSE 0
\* A product divided by its factor.
LongProductLaw == m.r.ax = z.r.ax /\ m.r.dx = 0

\* DX is 1 when the divide exception was taken: then the quotient does not
\* fit, and the operands are as they were.  Rust cannot divide the lowest
\* dividend by -1: that ends the emulator before any exception.
QuotientLaw ==
  LET d == Low(z.r.bx) IN
  IF m.r.dx = 1 THEN m.r.ax = z.r.ax /\ (d = 0 \/ z.r.ax >= 256 * d)
  ELSE Low(m.r.ax) * d + Top8(m.r.ax) = z.r.ax /\ Top8(m.r.ax) < d
SignedQuotientLaw ==
  LET a == Signed16(z.r.ax)
      d == Signed(Low(z.r.bx), Bytes)
      q == Signed(Low(m.r.ax), Bytes)
      r == Signed(Top8(m.r.ax), Bytes)
  IN  IF a = -32768 /\ d = -1 THEN m.panicked
      ELSE IF m.r.dx = 1 THEN ~m.panicked /\ m.r.ax = z.r.ax /\ (d = 0 \/ Magnitude(a) >= 128 * Magnitude(d))
      ELSE ~m.panicked /\ q * d + r = a /\ Magnitude(r) < Magnitude(d) /\ (r = 0 \/ (r < 0) = (a < 0))
\* BX took the steps of the shift one by one; BP and SI hold the flags after
\* either way.
ShiftLaw == m.r.ax = m.r.bx /\ m.r.bp % 2 = m.r.si % 2

ArithmeticLaws ==
  {"sum", "difference", "negation", "decimal sum", "decimal difference", "ascii sum",
   "ascii difference", "ascii product", "product", "signed product", "quotient",
   "signed quotient", "shift", "immediate product", "extension", "long product"}
ArithmeticLaw ==
  CASE case.law = "sum" -> SumLaw
    [] case.law = "difference" -> DifferenceLaw
    [] case.law = "negation" -> NegationLaw
    [] case.law = "decimal sum" -> DecimalSumLaw
    [] case.law = "decimal difference" -> DecimalDifferenceLaw
    [] case.law = "ascii sum" -> AsciiSumLaw
    [] case.law = "ascii difference" -> AsciiDifferenceLaw
    [] case.law = "ascii product" -> AsciiProductLaw
    [] case.law = "product" -> ProductLaw
    [] case.law = "signed product" -> SignedProductLaw
    [] case.law = "quotient" -> QuotientLaw
    [] case.law = "signed quotient" -> SignedQuotientLaw
    [] case.law = "shift" -> ShiftLaw
    [] case.law = "immediate product" -> ImmediateProductLaw
    [] case.law = "extension" -> ExtensionLaw
    [] case.law = "long product" -> LongProductLaw

(***************************************************************************)
(* Comparisons.  DX is 1 when the branch was taken.                        *)
(***************************************************************************)
Relation(cc, a, b, n) ==
  LET sa == Signed(a, n)
      sb == Signed(b, n)
  IN  CASE cc = 0  -> ~Fits(sa - sb, n)
        [] cc = 2  -> a < b
        [] cc = 4  -> a = b
        [] cc = 6  -> a <= b
        [] cc = 8  -> Sign((a - b) % n, n)
        [] cc = 10 -> EvenOnes((a - b) % Bytes, 8)
        [] cc = 12 -> sa < sb
        [] cc = 14 -> sa <= sb
BranchLaw(n) ==
  LET holds == Relation(2 * (case.cc \div 2), z.r.ax % n, z.r.bx % n, n)
  IN  (m.r.dx = 1) = (IF case.cc % 2 = 0 THEN holds ELSE ~holds)

\* The elements of a string, in the order the direction flag gives; offsets
\* stay in their segment.
Stride(n) == IF n = Words THEN 2 ELSE 1
StringOffset(off, n, k) == (off + (IF z.f.df THEN -1 ELSE 1) * Stride(n) * (k - 1)) % Words
SourceAt(n, k) == z.cache.ds.base + StringOffset(z.r.si, n, k)
TargetAt(n, k) == z.cache.es.base + StringOffset(z.r.di, n, k)
Source(p, n, k) == Data(p, SourceAt(n, k), n)
Target(p, n, k) == Data(p, TargetAt(n, k), n)
Targets(n) == {TargetAt(n, k) + b : k \in 1..z.r.cx, b \in 0..Stride(n)-1}

\* Where a comparison of CX elements stops, and what it leaves: SI, DI and CX
\* just past the element that decided, and the flags of that element.
StopAt(stop) == LET hits == {k \in 1..z.r.cx : stop[k]} IN IF hits = {} THEN z.r.cx ELSE Min(hits)
Past(x, k, n) == m.r[x] = (z.r[x] + (IF z.f.df THEN -1 ELSE 1) * Stride(n) * k) % Words
StringCompareLaw(n) ==
  LET k == StopAt([j \in 1..z.r.cx |-> Source(z, n, j) # Target(z, n, j)])
  IN  /\ m.r.cx = z.r.cx - k
      /\ Past("si", k, n) /\ Past("di", k, n)
      /\ k > 0 => /\ m.f.zf = (Source(z, n, k) = Target(z, n, k))
                  /\ m.f.cf = (Source(z, n, k) < Target(z, n, k))
                  /\ (m.f.sf # m.f.of) = (Signed(Source(z, n, k), n) < Signed(Target(z, n, k), n))
StringScanLaw(n) ==
  LET k == StopAt([j \in 1..z.r.cx |-> Target(z, n, j) = z.r.ax % n])
  IN  /\ m.r.cx = z.r.cx - k
      /\ Past("di", k, n)
      /\ k > 0 => m.f.zf = (Target(z, n, k) = z.r.ax % n)
\* A loop over [SI] while it equals AL.
LoopLaw ==
  LET k == StopAt([j \in 1..z.r.cx |-> Source(z, Bytes, j) # z.r.ax % Bytes])
  IN  z.r.cx > 0 => Past("si", k, Bytes) /\ m.r.cx = z.r.cx - k

\* Interrupt 5 leaves 5 in DX.
BoundLaw ==
  (m.r.dx = 5) = (Signed16(z.r.ax) \notin Signed16(Word(z, From)) .. Signed16(Word(z, From + 2)))

ComparisonLaws == {"branch bytes", "branch words", "compare bytes", "compare words",
                   "scan bytes", "scan words", "loop", "bound"}
ComparisonLaw ==
  CASE case.law = "branch bytes" -> BranchLaw(Bytes)
    [] case.law = "branch words" -> BranchLaw(Words)
    [] case.law = "compare bytes" -> StringCompareLaw(Bytes)
    [] case.law = "compare words" -> StringCompareLaw(Words)
    [] case.law = "scan bytes" -> StringScanLaw(Bytes)
    [] case.law = "scan words" -> StringScanLaw(Words)
    [] case.law = "loop" -> LoopLaw
    [] case.law = "bound" -> BoundLaw

(***************************************************************************)
(* Blocks.  A block arrives whole unless it overlaps its target on the     *)
(* side the copy comes to last; nothing else is written.                   *)
(***************************************************************************)
Safe(n) == IF z.f.df THEN To >= From \/ From - To >= z.r.cx * Stride(n)
           ELSE To <= From \/ To - From >= z.r.cx * Stride(n)
Arrived(n) == \A k \in 1..z.r.cx : Target(m, n, k) = Source(z, n, k)
BlockMoveLaw(n) == /\ Safe(n) => Arrived(n)
                   /\ Past("si", z.r.cx, n) /\ Past("di", z.r.cx, n) /\ Untouched(Targets(n))
BlockFillLaw(n) == /\ \A k \in 1..z.r.cx : Target(m, n, k) = z.r.ax % n
                   /\ Past("di", z.r.cx, n) /\ Untouched(Targets(n))
\* Through the table at DS:BX.
TranslateLaw ==
  /\ \A k \in 1..z.r.cx : Target(m, Bytes, k) = Byte(z, z.cache.ds.base + z.r.bx + Source(z, Bytes, k))
  /\ Untouched(Targets(Bytes))
BlockLaws == {"move bytes", "move words", "fill bytes", "fill words", "ports bytes",
              "ports words", "translate"}
BlockLaw ==
  CASE case.law = "move bytes" -> BlockMoveLaw(Bytes)
    [] case.law = "move words" -> BlockMoveLaw(Words)
    [] case.law = "fill bytes" -> BlockFillLaw(Bytes)
    [] case.law = "fill words" -> BlockFillLaw(Words)
    [] case.law = "ports bytes" -> Arrived(Bytes) /\ Untouched(Targets(Bytes))
    [] case.law = "ports words" -> Arrived(Words) /\ Untouched(Targets(Words))
    [] case.law = "translate" -> TranslateLaw

(***************************************************************************)
(* Frames.  Everything the program can name is as it was, but for the      *)
(* registers the case names as free.                                       *)
(***************************************************************************)
Kept ==
  /\ \A x \in DOMAIN m.r \ ({"ip"} \union case.free) : m.r[x] = z.r[x]
  /\ "flags" \in case.free \/ m.f = z.f
  /\ \A s \in SegRegs \ case.free : m.cache[s] = z.cache[s]
  /\ \A x \in {"cpl", "msw", "gdtr", "idtr", "ldtr", "tr"} : m[x] = z[x]
Intact == Kept /\ Untouched({})

\* Each instruction of a traced stretch is trapped once, a load of SS never.
TraceLaw == Word(m, TraceCount) = case.cc
\* The handler of the trap never runs between a new SS and its SP: what lies
\* at the old SP of the new segment is kept.
SwitchLaw == \A a \in Canary : m.mem[a] = z.mem[a]
\* The inner frame's display names the outer frame.
DisplayLaw == m.r.ax = m.r.dx /\ Intact

FrameLaws == {"intact", "trace", "switch", "display"}
FrameLaw ==
  CASE case.law = "intact" -> Intact
    [] case.law = "trace" -> TraceLaw /\ Intact
    [] case.law = "switch" -> SwitchLaw
    [] case.law = "display" -> DisplayLaw

(***************************************************************************)
(* Protected mode.  A fault leaves its number in DX and its code in BX.    *)
(***************************************************************************)
Refused(int, code) == m.r.dx = int /\ m.r.bx = code
Allowed == m.r.dx = z.r.dx /\ m.r.bx = z.r.bx
\* The element of AX that lies at an address, and nothing else written.
Stored(at, n) == Data(m, at, n) = z.r.ax % n /\ Untouched(at .. at + Stride(n) - 1)

\* A store: all of it where the descriptor says, or a fault and none of it.
AccessLaw(cache, off, n) ==
  IF off + Stride(n) - 1 <= cache.limit THEN Allowed /\ Stored(cache.base + off, n)
  ELSE Refused(13, 0) /\ Untouched({})
LimitLaw == AccessLaw(z.cache.ds, z.r.si, case.cc) /\ Kept
\* A push that is refused has moved SP.
StackLimitLaw ==
  LET sp == (z.r.sp - 2) % Words IN AccessLaw(z.cache.ss, sp, Words) /\ m.r.sp = sp /\ Kept

\* STOS, LODS and the accumulator's moves to and from a direct address do not
\* look at the exception they raise: refused, they go to address 0, and of a
\* word only the first byte can be refused.
Unguarded(cache, off) == IF off <= cache.limit THEN cache.base + off ELSE 0
Answer(cache, off) == IF off <= cache.limit THEN Allowed ELSE Refused(13, 0)
UnguardedStoreLaw(n) ==
  LET off == z.r.di IN Answer(z.cache.es, off) /\ Stored(Unguarded(z.cache.es, off), n) /\ Kept
UnguardedLoadLaw(n) ==
  LET off == z.r.si IN
  /\ Answer(z.cache.ds, off) /\ m.r.ax % n = Data(z, Unguarded(z.cache.ds, off), n)
  /\ Untouched({}) /\ Kept

\* A selector is loaded whole or not at all.
SelectLaw ==
  LET s   == SegNamed(case.cc)
      sel == z.r.ax
      d   == Descriptor(z, sel)
      refused(int, code) == Refused(int, code) /\ m.r[s] = z.r[s] /\ m.cache[s] = z.cache[s]
      taken(cache) == Allowed /\ m.r[s] = sel /\ m.cache[s] = cache
  IN  /\ Intact
      /\ CASE Null(sel) -> IF s = "ss" THEN refused(13, 0) ELSE taken(NullCache)
           [] ~Null(sel) /\ Missing(d) -> refused(13, sel)
           [] ~Null(sel) /\ ~Missing(d) /\ ~Present(d) -> refused(11, sel)
           [] OTHER -> taken([base |-> d.base, limit |-> d.limit])

\* From reset to the task: every hidden cache is its descriptor's, and the
\* task has its own stack.
BootLaw == /\ m.cpl = 3
           /\ \A s \in SegRegs : LET d == Descriptor(m, m.r[s]) IN
                m.cache[s] = [base |-> d.base, limit |-> d.limit]
           /\ m.r.sp = z.r.sp
LoadAllLaw == m.r.ax = case.cc /\ ~Protected(m)

ProtectedLaws == {"divide", "limit", "stack limit", "store bytes", "store words", "load bytes",
                  "load words", "select", "boot", "loadall"}
ProtectedLaw ==
  CASE case.law = "divide" -> QuotientLaw /\ Intact
    [] case.law = "limit" -> LimitLaw
    [] case.law = "stack limit" -> StackLimitLaw
    [] case.law = "store bytes" -> UnguardedStoreLaw(Bytes)
    [] case.law = "store words" -> UnguardedStoreLaw(Words)
    [] case.law = "load bytes" -> UnguardedLoadLaw(Bytes)
    [] case.law = "load words" -> UnguardedLoadLaw(Words)
    [] case.law = "select" -> SelectLaw
    [] case.law = "boot" -> BootLaw
    [] case.law = "loadall" -> LoadAllLaw

RingsAgree == Protected(m) => m.cpl = Rpl(m.r.cs) /\ m.cpl = Rpl(m.r.ss)

(***************************************************************************)
(* The properties.                                                         *)
(***************************************************************************)
\* TypeOK: registers, bytes and hidden limits stay within their widths
\* (the wrapping arithmetic of every handler).
TypeOK ==
  /\ \A x \in DOMAIN m.r : m.r[x] \in 0..Words-1
  /\ m.f \in Flags
  /\ \A s \in SegRegs : m.cache[s].base \in 0..2^24-1 /\ m.cache[s].limit \in 0..Words-1
  /\ \A a \in DOMAIN m.mem : m.mem[a] \in 0..Bytes-1
  /\ m.cpl \in 0..3 /\ m.msw \in 0..Words-1
  /\ left \in 0..case.requests

\* ArithmeticExact: a program of byte instructions chained through the carry,
\* of decimal adjustments, of a product, a quotient or shifts ends with the
\* number its operands give, also when a device's request is taken between
\* any two of its instructions (of the shifts one operand and count have
\* one).  A divide exception comes exactly for the quotients that do not fit,
\* operands kept, but for the lowest dividend over -1, where Rust's division
\* panics: the law says that (arithmetic.rs, logical.rs:282-318,
\* shift_rotate.rs).
ArithmeticExact == case.law \in ArithmeticLaws /\ Stopped => ArithmeticLaw

\* ComparisonsAgree: a conditional jump after a comparison goes the way the
\* signed or unsigned numbers say, for all sixteen conditions; string
\* comparisons, scans and loops stop at the first element that decides, with
\* its flags, also when a device's request is taken between any two
\* instructions (between CMPS and what surrounds it none is)
\* (jmp_conditional, cmps, scas, loope).
ComparisonsAgree == case.law \in ComparisonLaws /\ Stopped => ComparisonLaw

\* BlocksMoved: a repeated string instruction, in either direction, with
\* overlapping segments, with a count of zero and across the end of its
\* segment, delivers the block an element-wise copy of the old contents would
\* and writes nowhere else; one device's request may be taken before or after
\* it (movs, stos, ins, outs, xlat).
BlocksMoved == case.law \in BlockLaws /\ Stopped => BlockLaw

\* FramesRestored: calls, frames, saved registers and flags, services and
\* traps return with every register, selector and hidden cache as they were
\* and no byte changed outside the stack and the handlers' own counters, also
\* when one device's request is taken between any two instructions.  No
\* instruction of a traced stretch faults: its trap would push nothing while
\* the exception waits (control_flow.rs, pusha, popf, step).
FramesRestored == case.law \in FrameLaws /\ Stopped => FrameLaw

\* ProtectionKept: at every step the privilege level is that of the code and
\* of the stack.  MOV through ModR/M and PUSH beyond a limit and a selector
\* that does not load fault with their code and change nothing but the SP a
\* PUSH has moved; allowed, they go where the descriptor says.  STOS, LODS and
\* MOV with a direct address are held against the limit by their first byte
\* only and touch address 0 when refused, before the exception is taken.  All
\* of it also when one device's request is taken between any two instructions
\* or before the handler of the fault returns (seg_offset_to_phys,
\* seg_cache_to_phys, load_segment_register, dispatch_interrupt_pm, iret).
ProtectionKept == RingsAgree /\ (case.law \in ProtectedLaws /\ Stopped => ProtectedLaw)

\* PairAtomic: the load of SP that follows a load of SS runs before anything
\* else does, so that nothing lands at the old SP of the new segment
\* (data_transfer.rs:79, mod.rs:168).
PairAtomic == \A a \in Canary : m.mem[a] = z.mem[a]
=============================================================================
