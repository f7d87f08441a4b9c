--------------------------- MODULE Machine_proofs ---------------------------
(***************************************************************************)
(* The safety properties of Machine, for every value of its constants: the *)
(* first two however deep handlers nest, whatever the guest hooks, and     *)
(* whenever keys, mouse packets, serial bytes and timer interrupts arrive. *)
(*                                                                         *)
(* FrameDiscipline is not inductive.  CpuOK strengthens it by what keeps   *)
(* the frame of a waiting INT 16h at the bottom of the stack, and by what  *)
(* keeps a timer interrupt from being delivered inline in INT 15h.         *)
(*                                                                         *)
(* The others assume a guest that polls: it asks INT 16h for a key only    *)
(* when it has seen one.  A guest that blocks in INT 16h makes every BIOS  *)
(* handler that runs meanwhile start again (BiosReturn, first disjunct),   *)
(* so that ticks are counted and keys are read more than once.  `Effects'  *)
(* sums up what a step does to the stack, to the in-service bits and to    *)
(* the ticks owed; their invariants are proved from it, and not each from  *)
(* every action.                                                           *)
(***************************************************************************)
EXTENDS Machine, TLAPS, FiniteSetTheorems

\* LocOf for any processor state.
LocAt(c, i) == IF i = Len(c.stack) THEN c.loc ELSE c.stack[i + 1].ret

\* Every frame has its owner, the application alone has none.
Owned(c) ==
  /\ \A i \in 1..Len(c.stack) : c.stack[i].vec \in Owners(LocAt(c, i))
  /\ (Len(c.stack) = 0) = (c.loc = "app")
  /\ Len(c.stack) > 0 => c.stack[1].ret = "app"

\* INT 16h is called by the application only, and a waiting one is below
\* everything else; nothing returns into INT 15h or the default INT 1Ch.
Placed(c) ==
  /\ \A i \in 1..Len(c.stack) :
       /\ i > 1 => c.stack[i].vec # "int16"
       /\ c.stack[i].ret \notin {"int15", "int1C"}
  /\ c.loc # "int1C"
  /\ c.loc = "int15" => ~c.iflag
  /\ c.waitKey => Len(c.stack) > 0 /\ LocAt(c, 1) = "int16"

CpuOK(c) == c \in CpuState /\ Owned(c) /\ Placed(c)

IInv == TypeOK /\ CpuOK(cpu)

-----------------------------------------------------------------------------
(* Facts about locations and their owners. *)

\* What a handler's entry point is, hooked or not.
LEMMA HandlerOwned ==
  ASSUME NEW vec \in Vectors
  PROVE  /\ Handler(vec) \in Locs \ {"app"}
         /\ vec \in Owners(Handler(vec))
         /\ Handler(vec) = "int1C" => vec = "int1C"
         /\ Handler(vec) = "int15" => vec = "int15"
BY DEF Handler, GuestEntry, Vectors, Owners, Locs, BiosLocs, GuestLocs, Trampolines

\* A BIOS handler that may run with IF set is an owner of both trampolines to
\* which a timer interrupt delivered at its end returns.
LEMMA TrampolineOwners ==
  ASSUME NEW loc \in BiosLocs \ {"int15", "int1C"}, NEW vec \in Owners(loc)
  PROVE  vec \in Owners("ret1C") /\ vec \in Owners("retTimer")
BY DEF Owners, BiosLocs, Vectors, Trampolines

-----------------------------------------------------------------------------
(* What preserves CpuOK: changing other fields, pushing, popping, moving. *)

\* Changing fields other than the location and the stack.
LEMMA SameFrames ==
  ASSUME NEW c, CpuOK(c), NEW d \in CpuState,
         d.stack = c.stack, d.loc = c.loc,
         d.waitKey => c.waitKey \/ (Len(c.stack) > 0 /\ LocAt(c, 1) = "int16"),
         d.loc = "int15" => ~d.iflag
  PROVE  CpuOK(d)
BY DEF CpuOK, Owned, Placed, LocAt

\* Moving on within a handler.
LEMMA Moved ==
  ASSUME NEW c, CpuOK(c), NEW to \in Locs \ {"app", "int15", "int1C"},
         c.loc \notin {"app", "int16"}, Owners(c.loc) \subseteq Owners(to)
  PROVE  CpuOK([c EXCEPT !.loc = to])
<1> DEFINE d == [c EXCEPT !.loc = to]
<1>1. d \in CpuState /\ d.stack = c.stack /\ d.loc = to /\ d.waitKey = c.waitKey
  BY DEF CpuOK, CpuState
<1>2. \A i \in 1..Len(c.stack) : Owners(LocAt(c, i)) \subseteq Owners(LocAt(d, i))
  BY <1>1 DEF LocAt
<1>3. Len(c.stack) > 0 /\ (LocAt(c, 1) = "int16" => LocAt(d, 1) = "int16")
  BY <1>1 DEF LocAt, CpuOK, Owned, CpuState
<1>4. QED
  BY <1>1, <1>2, <1>3 DEF CpuOK, Owned, Placed

\* Pushing a frame that returns to `ret'.
LEMMA Entered ==
  ASSUME NEW c, CpuOK(c),
         NEW vec \in Vectors \cup {"far"}, NEW key \in Keys \cup {NoKey},
         NEW ret \in Locs \ {"int15", "int1C"},
         NEW to \in Locs \ {"app", "int1C"}, vec \in Owners(to),
         Len(c.stack) = 0 => ret = "app",
         Len(c.stack) # 0 => c.stack[Len(c.stack)].vec \in Owners(ret) /\ vec # "int16",
         c.waitKey /\ Len(c.stack) = 1 => ret = "int16"
  PROVE  CpuOK(Enter(c, vec, ret, to, key))
<1> DEFINE d == Enter(c, vec, ret, to, key)
           f == [ret |-> ret, iflag |-> c.iflag, vec |-> vec, ax |-> c.ax, key |-> key]
           n == Len(c.stack)
<1>1. /\ c.stack \in Seq(Frame) /\ n \in Nat
      /\ f \in Frame
  BY DEF CpuOK, CpuState, Frame
<1>2. /\ d.stack = Append(c.stack, f) /\ d.loc = to
      /\ d.iflag = FALSE /\ d.waitKey = c.waitKey
  BY DEF Enter, CpuOK, CpuState
<1>3. d \in CpuState
  <2>1. Append(c.stack, f) \in Seq(Frame)
    BY <1>1
  <2>2. QED
    BY <2>1 DEF Enter, CpuOK, CpuState
<1>4. /\ Len(d.stack) = n + 1 /\ d.stack[n + 1] = f
      /\ \A i \in 1..n : d.stack[i] = c.stack[i]
  BY <1>1, <1>2
<1>5. /\ \A i \in 1..n : i # n => LocAt(d, i) = LocAt(c, i)
      /\ n > 0 => LocAt(d, n) = ret
      /\ LocAt(d, n + 1) = to
  BY <1>1, <1>2, <1>4 DEF LocAt
<1>6. Owned(d)
  <2>1. ASSUME NEW i \in 1..Len(d.stack)
        PROVE  d.stack[i].vec \in Owners(LocAt(d, i))
    <3>1. CASE i = n + 1
      BY <3>1, <1>4, <1>5
    <3>2. CASE i \in 1..n /\ i = n
      BY <3>2, <1>1, <1>4, <1>5
    <3>3. CASE i \in 1..n /\ i # n
      BY <3>3, <1>1, <1>4, <1>5 DEF CpuOK, Owned
    <3>4. QED
      BY <3>1, <3>2, <3>3, <1>1, <1>4
  <2>2. Len(d.stack) # 0 /\ d.loc # "app"
    BY <1>1, <1>2, <1>4
  <2>3. d.stack[1].ret = "app"
    BY <1>1, <1>4 DEF CpuOK, Owned
  <2>4. QED
    BY <2>1, <2>2, <2>3 DEF Owned
<1>7. Placed(d)
  <2>1. ASSUME NEW i \in 1..Len(d.stack)
        PROVE  /\ i > 1 => d.stack[i].vec # "int16"
               /\ d.stack[i].ret \notin {"int15", "int1C"}
    <3>1. CASE i = n + 1
      <4>1. d.stack[i].vec = vec /\ d.stack[i].ret = ret
        BY <3>1, <1>4
      <4>2. i > 1 => Len(c.stack) # 0
        BY <3>1, <1>1
      <4>3. QED
        BY <4>1, <4>2
    <3>2. CASE i \in 1..n
      <4>1. d.stack[i] = c.stack[i]
        BY <3>2, <1>4
      <4>2. QED
        BY <4>1, <3>2 DEF CpuOK, Placed
    <3>3. QED
      BY <3>1, <3>2, <1>1, <1>4
  <2>2. ASSUME d.waitKey
        PROVE  Len(d.stack) > 0 /\ LocAt(d, 1) = "int16"
    <3>1. c.waitKey /\ n > 0 /\ LocAt(c, 1) = "int16"
      BY <1>2, <2>2 DEF CpuOK, Placed
    <3>2. CASE n = 1
      BY <3>1, <3>2, <1>4, <1>5
    <3>3. CASE n # 1
      <4>1. 1 \in 1..n /\ 1 # n /\ n + 1 > 0
        BY <3>1, <3>3, <1>1
      <4>2. QED
        BY <4>1, <3>1, <1>4, <1>5
    <3>4. QED
      BY <3>2, <3>3
  <2>3. QED
    BY <1>2, <2>1, <2>2 DEF Placed
<1>8. QED
  BY <1>3, <1>6, <1>7 DEF CpuOK

\* Popping a frame.
LEMMA Returned ==
  ASSUME NEW c, CpuOK(c), Len(c.stack) > 0, c.waitKey => c.loc # "int16"
  PROVE  CpuOK(Iret(c))
<1> DEFINE d == Iret(c)
           n == Len(c.stack)
<1>1. c.stack \in Seq(Frame) /\ n \in Nat /\ n > 0 /\ c.stack[n] \in Frame
  BY DEF CpuOK, CpuState
<1>11. n \in Nat /\ n > 0
  BY <1>1
<1>2. /\ d.stack = SubSeq(c.stack, 1, n - 1) /\ d.loc = c.stack[n].ret
      /\ d.waitKey = c.waitKey
  BY DEF Iret, Last, Front, CpuOK, CpuState
<1>3. d \in CpuState
  <2>1. SubSeq(c.stack, 1, n - 1) \in Seq(Frame)
    BY <1>1
  <2>2. QED
    BY <1>1, <2>1 DEF Iret, Last, Front, CpuOK, CpuState, Frame
<1>4. /\ Len(d.stack) = n - 1
      /\ \A i \in 1..(n - 1) : d.stack[i] = c.stack[i]
  BY <1>1, <1>2
<1>5. \A i \in 1..(n - 1) : LocAt(d, i) = LocAt(c, i)
  BY <1>1, <1>2, <1>4 DEF LocAt
<1>6. n > 1 => d.loc # "app" /\ d.loc = LocAt(c, n - 1)
  <2>1. SUFFICES ASSUME n > 1 PROVE d.loc # "app" /\ d.loc = LocAt(c, n - 1)
    OBVIOUS
  <2>2. d.loc = LocAt(c, n - 1)
    BY <1>1, <1>2, <2>1 DEF LocAt
  <2>3. c.stack[n - 1].vec \in Owners(d.loc)
    BY <1>1, <2>1, <2>2 DEF CpuOK, Owned
  <2>4. QED
    BY <2>2, <2>3 DEF Owners
<1>7. n = 1 => d.loc = "app"
  BY <1>1, <1>2 DEF CpuOK, Owned
<1>8. Owned(d)
  <2>1. ASSUME NEW i \in 1..Len(d.stack)
        PROVE  d.stack[i].vec \in Owners(LocAt(d, i))
    <3>1. i \in 1..(n - 1) /\ i \in 1..n
      BY <1>1, <1>4
    <3>2. c.stack[i].vec \in Owners(LocAt(c, i))
      BY <3>1 DEF CpuOK, Owned
    <3>3. QED
      BY <3>1, <3>2, <1>4, <1>5
  <2>2. (Len(d.stack) = 0) = (d.loc = "app")
    <3>1. CASE n = 1
      BY <3>1, <1>4, <1>7
    <3>2. CASE n # 1
      <4>1. n > 1 /\ n - 1 # 0
        <5> HIDE DEF n
        <5>1. QED BY <3>2, <1>11
      <4>2. QED
        BY <4>1, <1>4, <1>6
    <3>3. QED
      BY <3>1, <3>2
  <2>3. Len(d.stack) > 0 => d.stack[1].ret = "app"
    BY <1>1, <1>4 DEF CpuOK, Owned
  <2>4. QED
    BY <2>1, <2>2, <2>3 DEF Owned
<1>9. Placed(d)
  <2>1. ASSUME NEW i \in 1..Len(d.stack)
        PROVE  /\ i > 1 => d.stack[i].vec # "int16"
               /\ d.stack[i].ret \notin {"int15", "int1C"}
    BY <1>1, <1>4 DEF CpuOK, Placed
  <2>2. d.loc \notin {"int15", "int1C"}
    BY <1>1, <1>2 DEF CpuOK, Placed
  <2>3. d.waitKey => Len(d.stack) > 0 /\ LocAt(d, 1) = "int16"
    <3>1. SUFFICES ASSUME c.waitKey PROVE n > 1 /\ LocAt(d, 1) = "int16"
      BY <1>1, <1>2, <1>4
    <3>2. LocAt(c, 1) = "int16"
      BY <3>1 DEF CpuOK, Placed
    <3>3. n # 1
      BY <3>1, <3>2, <1>1 DEF LocAt
    <3>4. 1 \in 1..(n - 1) /\ n > 1
      <4> HIDE DEF n
      <4>1. QED BY <3>3, <1>11
    <3>5. QED
      BY <3>2, <3>4, <1>5
  <2>4. QED
    BY <2>1, <2>2, <2>3 DEF Placed
<1>10. QED
  BY <1>3, <1>8, <1>9 DEF CpuOK

-----------------------------------------------------------------------------
(* The operators of the devices keep their types. *)

LEMMA PicTypes ==
  ASSUME NEW p \in PicState
  PROVE  /\ NotifyPending(p) \in PicState
         /\ TookNone(p) \in PicState
         /\ TookTimer(p) \in PicState
         /\ \A l \in Lines : Taken(p, l) \in PicState
         /\ \A chip \in {Pic1, Pic2} : Eoi(p, chip) \in PicState
         /\ \A mask \in SUBSET Lines : SetMask(p, Pic1, mask) \in PicState
<1> USE DEF PicState
<1>1. PollInterval - 1 \in 0..PollInterval /\ 0 \in 0..PollInterval
  BY PollIntervalAssumption
<1>2. NotifyPending(p) \in PicState
  BY <1>1 DEF NotifyPending
<1>3. TookNone(p) \in PicState
  <2>1. p.skip + 1 < PollInterval => p.skip + 1 \in 0..PollInterval
    BY PollIntervalAssumption
  <2>2. (IF Scans(p) THEN 0 ELSE p.skip + 1) \in 0..PollInterval
    BY <1>1, <2>1, PollIntervalAssumption DEF Scans
  <2>3. QED
    BY <2>2 DEF TookNone
<1>4. \A l \in Lines : p.isr \cup {l} \subseteq Lines
  OBVIOUS
<1>5. TookTimer(p) \in PicState
  BY <1>4 DEF TookTimer, Lines, Pic1, PitLine
<1>6. ASSUME NEW l \in Lines PROVE Taken(p, l) \in PicState
  BY <1>1, <1>4 DEF Taken
<1>7. ASSUME NEW chip PROVE Eoi(p, chip) \in PicState
  BY DEF Eoi
<1>8. ASSUME NEW mask \in SUBSET Lines PROVE SetMask(p, Pic1, mask) \in PicState
  BY DEF SetMask
<1>9. QED
  BY <1>2, <1>3, <1>5, <1>6, <1>7, <1>8

LEMMA KbcTypes ==
  ASSUME NEW k \in KbcState
  PROVE  /\ \A key \in Keys : KeyPress(k, key) \in KbcState
         /\ TakePendingKey(k) \in KbcState
         /\ TakePendingMouse(k) \in KbcState
         /\ \A on \in BOOLEAN : SetAuxEnabled(k, on) \in KbcState
         /\ PushMouseBytes(k) \in KbcState
         /\ PortData(k) \in Keys \cup {NoKey} \cup AuxBytes
         /\ AfterPortData(k) \in KbcState
         /\ AfterAuxRead3(k) \in KbcState
<1> USE DEF KbcState
<1>1. /\ \A key \in Keys : KeyPress(k, key) \in KbcState
      /\ TakePendingKey(k) \in KbcState
      /\ TakePendingMouse(k) \in KbcState
  BY DEF KeyPress, TakePendingKey, TakePendingMouse
<1>0. ASSUME NEW on \in BOOLEAN PROVE SetAuxEnabled(k, on) \in KbcState
  <2>1. <<>> \in Seq(AuxBytes)
    OBVIOUS
  <2>2. CASE on
    BY <2>2 DEF SetAuxEnabled
  <2>3. CASE ~on
    BY <2>1, <2>3 DEF SetAuxEnabled
  <2>4. QED
    BY <2>2, <2>3
<1>2. PushMouseBytes(k) \in KbcState
  <2>1. Packet \in Seq(AuxBytes)
    <3>1. -1 \in AuxBytes /\ -2 \in AuxBytes /\ -3 \in AuxBytes
      BY DEF AuxBytes
    <3>2. QED
      BY <3>1 DEF Packet
  <2>2. k.aux \o Packet \in Seq(AuxBytes)
    BY <2>1
  <2>3. QED
    BY <2>2 DEF PushMouseBytes
<1>3. k.aux # <<>> => Head(k.aux) \in AuxBytes /\ Tail(k.aux) \in Seq(AuxBytes)
  OBVIOUS
<1>4. PortData(k) \in Keys \cup {NoKey} \cup AuxBytes /\ AfterPortData(k) \in KbcState
  BY <1>3 DEF PortData, AfterPortData
<1>5. Len(k.aux) > 3 => SubSeq(k.aux, 4, Len(k.aux)) \in Seq(AuxBytes)
  OBVIOUS
<1>6. AfterAuxRead3(k) \in KbcState
  <2>1. k.aux \in Seq(AuxBytes) /\ Len(k.aux) \in Nat
    OBVIOUS
  <2>2. (IF Len(k.aux) <= 3 THEN <<>> ELSE SubSeq(k.aux, 4, Len(k.aux))) \in Seq(AuxBytes)
    BY <2>1, <1>5
  <2>3. QED
    BY <2>2 DEF AfterAuxRead3
<1>7. QED
  BY <1>0, <1>1, <1>2, <1>4, <1>6

-----------------------------------------------------------------------------
(* Steps of the CPU. *)

\* The conjuncts of TypeOK other than those on the processor.
LEMMA TypeOKNext ==
  ASSUME phase' \in {"keys", "cpu"}, keyPresses' \in Seq(Keys),
         pressed' \in 0..MaxKeys, kbc' \in KbcState, serialIrq' \in BOOLEAN,
         pic' \in PicState, timer' \in [age : 0..TimerPeriod, due : BOOLEAN],
         CpuOK(cpu'), hooked' \subseteq (DOMAIN GuestEntry) \cup {"callback"},
         bda' \in Seq(Keys \cup {NoKey} \cup AuxBytes),
         typed' \in Keys \cup {NoKey} \cup AuxBytes, tickDebt' \in Nat \cup {-1}
  PROVE  IInv'
BY DEF IInv, TypeOK, CpuOK

LEMMA AgedType ==
  ASSUME TypeOK
  PROVE  Aged(timer) \in [age : 0..TimerPeriod, due : BOOLEAN]
BY MachineAssumption DEF TypeOK, Aged

LEMMA DebtType ==
  ASSUME NEW debt \in Nat \cup {-1}
  PROVE  Ticked(debt) \in Nat \cup {-1} /\ Owed(debt) \in Nat \cup {-1}
BY DEF Ticked, Owed

LEMMA PolledType ==
  ASSUME TypeOK
  PROVE  Polled \in PicState
BY PicTypes DEF TypeOK, Polled

\* An instruction of the guest.
LEMMA GuestStep ==
  ASSUME IInv, NEW c, CpuOK(c), GuestCpu(c), kbc' \in KbcState,
         hooked' \subseteq (DOMAIN GuestEntry) \cup {"callback"},
         tickDebt' \in Nat \cup {-1}
  PROVE  IInv'
<1>1. pic' \in PicState /\ timer' \in [age : 0..TimerPeriod, due : BOOLEAN]
  BY PolledType, AgedType DEF IInv, GuestCpu
<1>2. QED
  BY <1>1, TypeOKNext DEF IInv, TypeOK, GuestCpu, StepDone

\* The end of a BIOS handler entered at cpu.loc.
LEMMA BiosEnds ==
  ASSUME TypeOK, NEW c, CpuOK(c), NEW p \in PicState, NEW debt \in Nat \cup {-1},
         cpu.loc \in BiosLocs, c.loc = cpu.loc \/ c.loc \notin BiosLocs,
         c.waitKey => Len(c.stack) > 0 /\ LocAt(c, 1) = "int16",
         BiosReturn(c, p, debt)
  PROVE  /\ CpuOK(cpu') /\ pic' \in PicState
         /\ timer' \in [age : 0..TimerPeriod, due : BOOLEAN]
         /\ tickDebt' \in Nat \cup {-1}
<1> DEFINE waits == c.waitKey /\ cpu.loc \notin Trampolines
           left  == ~waits /\ c.loc \notin BiosLocs
           owed(due) == IF due /\ ~timer.due THEN Owed(debt) ELSE debt
           inline(due) == c.iflag /\ TakesTimer(p, due)
<1>1. CASE /\ waits
           /\ cpu' = [c EXCEPT !.patchFlags = TRUE]
           /\ pic' = p /\ timer' = Aged(timer) /\ tickDebt' = debt
  <2>1. /\ cpu' \in CpuState /\ cpu'.stack = c.stack /\ cpu'.loc = c.loc
        /\ cpu'.waitKey = c.waitKey /\ cpu'.iflag = c.iflag
    BY <1>1 DEF CpuOK, CpuState
  <2>2. CpuOK(cpu')
    BY <2>1, SameFrames DEF CpuOK, Placed
  <2>3. QED
    BY <1>1, <2>2, AgedType
<1>2. CASE /\ left
           /\ cpu' = c /\ pic' = p /\ timer' = Aged(timer) /\ tickDebt' = debt
  BY <1>2, AgedType
<1>3. ASSUME ~waits, ~left, NEW due \in {timer.due, timer.due \/ timer.age = TimerPeriod},
             \/ /\ ~inline(due)
                /\ cpu' = Iret(c) /\ pic' = p /\ tickDebt' = owed(due)
                /\ timer' = [Aged(timer) EXCEPT !.due = due]
             \/ /\ inline(due) /\ Handler("int08") = "int08"
                /\ cpu' = Iret(ChainUserTick(c))
                /\ pic' = Eoi(TookTimer(p), Pic1)
                /\ tickDebt' = Ticked(owed(due))
                /\ timer' = [age |-> 0, due |-> FALSE]
             \/ /\ inline(due) /\ Handler("int08") # "int08"
                /\ cpu' = Enter(c, "int08", "retTimer", Handler("int08"), NoKey)
                /\ pic' = TookTimer(p)
                /\ tickDebt' = owed(due)
                /\ timer' = [age |-> 0, due |-> FALSE]
      PROVE  /\ CpuOK(cpu') /\ pic' \in PicState
             /\ timer' \in [age : 0..TimerPeriod, due : BOOLEAN]
             /\ tickDebt' \in Nat \cup {-1}
  <2>1. c.loc = cpu.loc /\ c.loc \in BiosLocs
    BY <1>3
  <2>2. c.loc # "app" /\ c.loc # "int1C"
    BY <2>1 DEF CpuOK, Placed, BiosLocs, Vectors, Trampolines
  <2>3. Len(c.stack) > 0 /\ c.stack \in Seq(Frame)
    BY <2>2 DEF CpuOK, Owned, CpuState
  <2>4. c.waitKey => c.loc # "int16" /\ Len(c.stack) # 1
    <3>1. SUFFICES ASSUME c.waitKey PROVE c.loc # "int16" /\ Len(c.stack) # 1
      OBVIOUS
    <3>2. c.loc \in Trampolines
      BY <1>3, <2>1, <3>1
    <3>3. c.loc # "int16"
      BY <3>2 DEF Trampolines
    <3>4. QED
      BY <3>1, <3>3 DEF LocAt
  <2>5. /\ Aged(timer) \in [age : 0..TimerPeriod, due : BOOLEAN]
        /\ due \in BOOLEAN
        /\ owed(due) \in Nat \cup {-1}
    BY AgedType, DebtType DEF TypeOK
  <2>6. [age |-> 0, due |-> FALSE] \in [age : 0..TimerPeriod, due : BOOLEAN]
    BY MachineAssumption
  <2>7. TookTimer(p) \in PicState /\ Eoi(TookTimer(p), Pic1) \in PicState
    BY PicTypes
  <2>8. CASE ~inline(due)
    <3>1. /\ cpu' = Iret(c) /\ pic' = p /\ tickDebt' = owed(due)
          /\ timer' = [Aged(timer) EXCEPT !.due = due]
      BY <1>3, <2>8
    <3>2. CpuOK(cpu')
      BY <3>1, <2>3, <2>4, Returned
    <3>3. timer' \in [age : 0..TimerPeriod, due : BOOLEAN]
      BY <3>1, <2>5
    <3>4. QED
      BY <3>1, <3>2, <3>3, <2>5
  <2>9. CASE inline(due)
    <3>1. c.loc # "int15" /\ c.iflag
      BY <2>9 DEF CpuOK, Placed
    <3>2. c.stack[Len(c.stack)].vec \in Owners(c.loc)
      BY <2>3 DEF CpuOK, Owned, LocAt
    <3>3. c.stack[Len(c.stack)].vec \in Owners("ret1C")
          /\ c.stack[Len(c.stack)].vec \in Owners("retTimer")
      BY <2>1, <2>2, <3>1, <3>2, TrampolineOwners
    <3>4. CASE /\ Handler("int08") = "int08"
               /\ cpu' = Iret(ChainUserTick(c))
               /\ pic' = Eoi(TookTimer(p), Pic1)
               /\ tickDebt' = Ticked(owed(due))
               /\ timer' = [age |-> 0, due |-> FALSE]
      <4> DEFINE d == ChainUserTick(c)
      <4>1. CpuOK(d) /\ Len(d.stack) > 0 /\ (d.waitKey => d.loc # "int16")
        <5>1. CASE "int1C" \in hooked
          <6>1. d = Enter(c, "int1C", "ret1C", "g1C", NoKey)
            BY <5>1 DEF ChainUserTick
          <6>5. /\ "ret1C" \in Locs \ {"int15", "int1C"} /\ "g1C" \in Locs \ {"app", "int1C"}
                /\ "int1C" \in Vectors \cup {"far"} /\ "int1C" \in Owners("g1C")
            BY DEF Vectors, Locs, BiosLocs, Trampolines, GuestLocs, Owners
          <6>6. Len(c.stack) # 0 /\ ~(c.waitKey /\ Len(c.stack) = 1)
            BY <2>3, <2>4
          <6>2. CpuOK(d)
            BY <6>1, <6>5, <6>6, <3>3, Entered
          <6>3. d.loc = "g1C" /\ Len(d.stack) = Len(c.stack) + 1
            BY <6>1, <2>3 DEF Enter, CpuOK, CpuState
          <6>4. QED
            BY <6>2, <6>3, <2>3
        <5>2. CASE "int1C" \notin hooked
          BY <5>2, <2>3, <2>4 DEF ChainUserTick
        <5>3. QED
          BY <5>1, <5>2
      <4>2. CpuOK(cpu')
        BY <3>4, <4>1, Returned
      <4>3. QED
        BY <3>4, <4>2, <2>5, <2>6, <2>7, DebtType
    <3>5. CASE /\ cpu' = Enter(c, "int08", "retTimer", Handler("int08"), NoKey)
               /\ pic' = TookTimer(p)
               /\ tickDebt' = owed(due)
               /\ timer' = [age |-> 0, due |-> FALSE]
      <4>1. /\ Handler("int08") \in Locs \ {"app", "int1C"}
            /\ "int08" \in Owners(Handler("int08"))
        BY HandlerOwned DEF Vectors
      <4>4. "retTimer" \in Locs \ {"int15", "int1C"} /\ "int08" \in Vectors \cup {"far"}
        BY DEF Vectors, Locs, BiosLocs, Trampolines
      <4>2. CpuOK(cpu')
        <5>1. Len(c.stack) # 0 /\ ~(c.waitKey /\ Len(c.stack) = 1)
          BY <2>3, <2>4
        <5>2. QED
          BY <3>5, <4>1, <4>4, <5>1, <3>3, Entered
      <4>3. QED
        BY <3>5, <4>2, <2>5, <2>6, <2>7
    <3>6. QED
      BY <1>3, <2>9, <3>4, <3>5
  <2>10. QED
    BY <2>8, <2>9
<1>4. QED
  BY <1>1, <1>2, <1>3 DEF BiosReturn

\* An interrupt, from hardware or from the guest.
LEMMA Dispatched ==
  ASSUME NEW c, CpuOK(c), NEW vec \in Vectors \ {"int1C"},
         NEW key \in Keys \cup {NoKey},
         c.loc # "int15", Len(c.stack) # 0 => vec # "int16"
  PROVE  CpuOK(Dispatch(c, vec, key))
<1>1. /\ Handler(vec) \in Locs \ {"app", "int1C"} /\ vec \in Owners(Handler(vec))
      /\ vec \in Vectors \cup {"far"}
  BY HandlerOwned
<1>2. c.loc \in Locs \ {"int15", "int1C"}
  BY DEF CpuOK, CpuState, Placed
<1>3. Len(c.stack) = 0 => c.loc = "app"
  BY DEF CpuOK, Owned
<1>4. Len(c.stack) # 0 => c.stack[Len(c.stack)].vec \in Owners(c.loc) /\ vec # "int16"
  <2>1. Len(c.stack) # 0 => Len(c.stack) \in 1..Len(c.stack)
    BY DEF CpuOK, CpuState
  <2>2. QED
    BY <2>1 DEF CpuOK, Owned, LocAt
<1>5. c.waitKey /\ Len(c.stack) = 1 => c.loc = "int16"
  BY DEF CpuOK, Placed, LocAt
<1>6. QED
  BY <1>1, <1>2, <1>3, <1>4, <1>5, Entered DEF Dispatch

\* Cpu::step taking an interrupt from the controllers.
LEMMA InterruptStep ==
  ASSUME IInv, NEW l \in {PitLine, KeyboardLine, Com1Line, MouseLine}, TakeInterrupt(l)
  PROVE  IInv'
<1> USE DEF IInv
<1>1. IrqVector(l) \in Vectors \ {"int1C", "int16"}
  BY DEF IrqVector, Vectors, PitLine, KeyboardLine, Com1Line, MouseLine
<1>2. CpuOK(cpu')
  <2>1. cpu.loc # "int15"
    BY DEF CpuOK, Placed, TakeInterrupt
  <2>2. (IF l = KeyboardLine THEN kbc.scanCode ELSE NoKey) \in Keys \cup {NoKey}
    BY DEF TypeOK, KbcState
  <2>3. QED
    BY <1>1, <2>1, <2>2, Dispatched DEF TakeInterrupt
<1>3. pic' \in PicState
  BY PicTypes DEF TakeInterrupt, TypeOK, Lines, Pic1, Pic2,
                  PitLine, KeyboardLine, Com1Line, MouseLine
<1>4. kbc' \in KbcState
  BY KbcTypes DEF TakeInterrupt, TypeOK
<1>5. timer' \in [age : 0..TimerPeriod, due : BOOLEAN] /\ serialIrq' \in BOOLEAN
  BY AgedType, MachineAssumption DEF TakeInterrupt, TypeOK
<1>6. QED
  BY <1>2, <1>3, <1>4, <1>5, TypeOKNext DEF TakeInterrupt, TypeOK, StepDone

\* A whole step of a BIOS handler.
LEMMA BiosStep ==
  ASSUME IInv, NEW c, CpuOK(c), NEW p \in PicState, NEW debt \in Nat \cup {-1},
         cpu.loc \in BiosLocs, c.loc = cpu.loc \/ c.loc \notin BiosLocs,
         BiosReturn(c, p, debt), StepDone,
         kbc' \in KbcState, serialIrq' = serialIrq,
         hooked' \subseteq (DOMAIN GuestEntry) \cup {"callback"},
         bda' \in Seq(Keys \cup {NoKey} \cup AuxBytes),
         typed' \in Keys \cup {NoKey} \cup AuxBytes
  PROVE  IInv'
<1>1. c.waitKey => Len(c.stack) > 0 /\ LocAt(c, 1) = "int16"
  BY DEF CpuOK, Placed
<1>2. /\ CpuOK(cpu') /\ pic' \in PicState
      /\ timer' \in [age : 0..TimerPeriod, due : BOOLEAN]
      /\ tickDebt' \in Nat \cup {-1}
  BY <1>1, BiosEnds DEF IInv
<1>3. QED
  BY <1>2, TypeOKNext DEF IInv, TypeOK, StepDone

\* A scan code loaded into the controller, or left in the queue.
LEMMA KeysProcessed ==
  ASSUME IInv, NEW queue \in Seq(Keys), ProcessKeyPresses(queue)
  PROVE  /\ keyPresses' \in Seq(Keys) /\ kbc' \in KbcState /\ pic' \in PicState
         /\ CpuOK(cpu') /\ bda' \in Seq(Keys \cup {NoKey} \cup AuxBytes)
<1> USE DEF IInv
<1>1. CASE queue = <<>> \/ ~CanLoadKey
  BY <1>1 DEF ProcessKeyPresses, TypeOK
<1>2. CASE queue # <<>> /\ CanLoadKey
  <2>1. Head(queue) \in Keys /\ Tail(queue) \in Seq(Keys)
    BY <1>2
  <2>2. keyPresses' \in Seq(Keys) /\ kbc' \in KbcState /\ pic' \in PicState
    BY <1>2, <2>1, KbcTypes, PicTypes DEF ProcessKeyPresses, TypeOK
  <2>3. CpuKeyPress
    BY <1>2 DEF ProcessKeyPresses
  <2>4. CASE ~cpu.waitKey
    BY <2>2, <2>3, <2>4 DEF CpuKeyPress, TypeOK
  <2>5. CASE cpu.waitKey /\ bda = <<>>
    <3> DEFINE d == [cpu EXCEPT !.waitKey = FALSE, !.patchFlags = FALSE]
    <3>1. cpu' = d /\ bda' = bda
      BY <2>3, <2>5 DEF CpuKeyPress
    <3>2. d \in CpuState /\ d.stack = cpu.stack /\ d.loc = cpu.loc
          /\ d.iflag = cpu.iflag /\ d.waitKey = FALSE
      BY DEF CpuOK, CpuState
    <3>3. CpuOK(d)
      BY <3>2, SameFrames DEF CpuOK, Placed
    <3>4. QED
      BY <3>1, <3>3, <2>2 DEF TypeOK
  <2>6. CASE cpu.waitKey /\ bda # <<>>
    <3> DEFINE d == [cpu EXCEPT !.ax = "key", !.waitKey = FALSE, !.patchFlags = FALSE]
    <3>1. cpu' = (IF cpu.patchFlags THEN Iret(d) ELSE d) /\ bda' = Tail(bda)
      BY <2>3, <2>6 DEF CpuKeyPress
    <3>2. d \in CpuState /\ d.stack = cpu.stack /\ d.loc = cpu.loc
          /\ d.iflag = cpu.iflag /\ d.waitKey = FALSE
      BY DEF CpuOK, CpuState, AxValues
    <3>3. CpuOK(d)
      BY <3>2, SameFrames DEF CpuOK, Placed
    <3>4. Len(d.stack) > 0
      BY <3>2, <2>6 DEF CpuOK, Placed
    <3>5. CpuOK(Iret(d))
      BY <3>2, <3>3, <3>4, Returned
    <3>6. bda' \in Seq(Keys \cup {NoKey} \cup AuxBytes)
      BY <3>1, <2>6 DEF TypeOK
    <3>7. QED
      BY <3>1, <3>3, <3>5, <3>6, <2>2
  <2>7. QED
    BY <2>4, <2>5, <2>6
<1>3. QED
  BY <1>1, <1>2

LEMMA HostAndTimerSteps ==
  ASSUME IInv, HostKey \/ StepKeys \/ HostMouse \/ SerialByte \/ TimerElapses
  PROVE  IInv'
<1> USE DEF IInv
<1>1. CASE HostKey
  <2>1. pressed + 1 \in Keys /\ pressed' \in 0..MaxKeys
    BY <1>1, MaxKeysAssumption DEF HostKey, TypeOK, Keys
  <2>2. Append(keyPresses, pressed + 1) \in Seq(Keys)
    BY <2>1 DEF TypeOK
  <2>3. ProcessKeyPresses(Append(keyPresses, pressed + 1))
    BY <1>1 DEF HostKey
  <2>4. QED
    BY <1>1, <2>1, <2>2, <2>3, KeysProcessed, TypeOKNext DEF HostKey, TypeOK
<1>2. CASE StepKeys
  BY <1>2, KeysProcessed, TypeOKNext DEF StepKeys, TypeOK
<1>3. CASE HostMouse
  BY <1>3, KbcTypes, PicTypes, TypeOKNext DEF HostMouse, TypeOK
<1>4. CASE SerialByte
  BY <1>4, TypeOKNext DEF SerialByte, TypeOK
<1>5. CASE TimerElapses
  BY <1>5, DebtType, TypeOKNext DEF TimerElapses, TypeOK
<1>6. QED
  BY <1>1, <1>2, <1>3, <1>4, <1>5

-----------------------------------------------------------------------------
(* The BIOS handlers. *)

LEMMA ChainOK ==
  ASSUME IInv, cpu.loc = "int08"
  PROVE  /\ CpuOK(ChainUserTick(cpu))
         /\ ChainUserTick(cpu).loc \in {"int08", "g1C"}
<1> USE DEF IInv
<1>1. CASE "int1C" \notin hooked
  BY <1>1 DEF ChainUserTick
<1>2. CASE "int1C" \in hooked
  <2>1. ChainUserTick(cpu) = Enter(cpu, "int1C", "ret1C", "g1C", NoKey)
    BY <1>2 DEF ChainUserTick
  <2>2. /\ "ret1C" \in Locs \ {"int15", "int1C"} /\ "g1C" \in Locs \ {"app", "int1C"}
        /\ "int1C" \in Vectors \cup {"far"} /\ "int1C" \in Owners("g1C")
    BY DEF Vectors, Locs, BiosLocs, Trampolines, GuestLocs, Owners
  <2>3. Len(cpu.stack) # 0 /\ Len(cpu.stack) \in 1..Len(cpu.stack)
    BY DEF CpuOK, CpuState, Owned
  <2>4. cpu.stack[Len(cpu.stack)].vec \in Owners("ret1C")
    BY <2>3 DEF CpuOK, Owned, LocAt, Owners
  <2>5. ~(cpu.waitKey /\ Len(cpu.stack) = 1)
    BY DEF CpuOK, Placed, LocAt
  <2>6. CpuOK(Enter(cpu, "int1C", "ret1C", "g1C", NoKey))
    BY <2>2, <2>3, <2>4, <2>5, Entered
  <2>7. Enter(cpu, "int1C", "ret1C", "g1C", NoKey).loc = "g1C"
    BY DEF Enter, CpuOK, CpuState
  <2>8. QED
    BY <2>1, <2>6, <2>7
<1>3. QED
  BY <1>1, <1>2

LEMMA IrqHandlerSteps ==
  ASSUME IInv, BiosTimer \/ BiosKeyboard \/ BiosSerial
  PROVE  IInv'
<1> USE DEF IInv
<1>1. Polled \in PicState /\ Eoi(Polled, Pic1) \in PicState
  BY PolledType, PicTypes
<1>2. CASE BiosTimer
  <2>1. cpu.loc = "int08" /\ cpu.loc \in BiosLocs
    BY <1>2 DEF BiosTimer, Executes, BiosLocs, Vectors
  <2>2. /\ CpuOK(ChainUserTick(cpu))
        /\ ChainUserTick(cpu).loc = cpu.loc \/ ChainUserTick(cpu).loc \notin BiosLocs
    BY <2>1, ChainOK DEF BiosLocs, Vectors, Trampolines
  <2>3. Ticked(tickDebt) \in Nat \cup {-1}
    BY DebtType DEF TypeOK
  <2>4. QED
    BY <1>1, <1>2, <2>1, <2>2, <2>3, BiosStep DEF BiosTimer, TypeOK
<1>3. CASE BiosKeyboard
  <2>1. cpu.loc \in BiosLocs
    BY <1>3 DEF BiosKeyboard, Executes, BiosLocs, Vectors
  <2>2. /\ PortData(kbc) \in Keys \cup {NoKey} \cup AuxBytes
        /\ kbc' \in KbcState
    BY <1>3, KbcTypes DEF BiosKeyboard, TypeOK
  <2>3. bda' \in Seq(Keys \cup {NoKey} \cup AuxBytes)
    <3>1. Append(bda, PortData(kbc)) \in Seq(Keys \cup {NoKey} \cup AuxBytes)
      BY <2>2 DEF TypeOK
    <3>2. QED
      BY <1>3, <3>1 DEF BiosKeyboard, TypeOK
  <2>4. QED
    BY <1>1, <1>3, <2>1, <2>2, <2>3, BiosStep DEF BiosKeyboard, TypeOK
<1>4. CASE BiosSerial
  <2>1. cpu.loc \in BiosLocs
    BY <1>4 DEF BiosSerial, Executes, BiosLocs, Vectors
  <2>2. QED
    BY <1>1, <1>4, <2>1, BiosStep DEF BiosSerial, TypeOK
<1>5. QED
  BY <1>2, <1>3, <1>4

LEMMA KeyboardServiceStep ==
  ASSUME IInv, BiosKeyboardService
  PROVE  IInv'
<1> USE DEF IInv
<1> DEFINE c == [cpu EXCEPT !.iflag = TRUE]
<1>1. /\ Polled \in PicState
      /\ cpu.loc = "int16" /\ cpu.loc \in BiosLocs
      /\ tickDebt \in Nat \cup {-1} /\ kbc' \in KbcState
  BY PolledType DEF BiosKeyboardService, Executes, BiosLocs, Vectors, TypeOK
<1>2. Len(cpu.stack) > 0 /\ LocAt(cpu, 1) = "int16"
  <2>1. Len(cpu.stack) \in Nat /\ Len(cpu.stack) # 0
    BY <1>1 DEF CpuOK, CpuState, Owned
  <2>2. cpu.stack[Len(cpu.stack)].vec = "int16"
    BY <1>1, <2>1 DEF CpuOK, Owned, LocAt, Owners
  <2>3. ~(Len(cpu.stack) > 1)
    BY <2>1, <2>2 DEF CpuOK, Placed
  <2>4. Len(cpu.stack) = 1
    <3>1. \A n \in Nat : n # 0 /\ ~(n > 1) => n = 1
      OBVIOUS
    <3>2. QED
      BY <2>1, <2>3, <3>1
  <2>5. QED
    BY <1>1, <2>4 DEF LocAt
<1>3. ASSUME NEW d \in CpuState, d.stack = cpu.stack, d.loc = cpu.loc,
             NEW b \in Seq(Keys \cup {NoKey} \cup AuxBytes), bda' = b,
             BiosReturn(d, Polled, tickDebt)
      PROVE  IInv'
  <2>1. CpuOK(d)
    BY <1>1, <1>2, <1>3, SameFrames
  <2>2. QED
    BY <1>1, <1>3, <2>1, BiosStep DEF BiosKeyboardService, TypeOK
<1>4. /\ cpu \in CpuState /\ c \in CpuState
      /\ bda \in Seq(Keys \cup {NoKey} \cup AuxBytes)
  BY DEF TypeOK, CpuState
<1>5. CASE bda # <<>> /\ bda' = Tail(bda)
           /\ BiosReturn([c EXCEPT !.ax = "key"], Polled, tickDebt)
  <2>1. Tail(bda) \in Seq(Keys \cup {NoKey} \cup AuxBytes)
    BY <1>4, <1>5
  <2>2. [c EXCEPT !.ax = "key"] \in CpuState
    BY <1>4 DEF CpuState, AxValues
  <2>3. /\ [c EXCEPT !.ax = "key"].stack = cpu.stack
        /\ [c EXCEPT !.ax = "key"].loc = cpu.loc
    BY <1>4 DEF CpuState
  <2>4. QED
    BY <1>3, <1>5, <2>1, <2>2, <2>3
<1>6. CASE bda' = bda /\ BiosReturn([c EXCEPT !.waitKey = TRUE, !.patchFlags = FALSE],
                                   Polled, tickDebt)
  <2> DEFINE d == [c EXCEPT !.waitKey = TRUE, !.patchFlags = FALSE]
  <2>1. d \in CpuState /\ d.stack = cpu.stack /\ d.loc = cpu.loc
    BY <1>4 DEF CpuState
  <2>2. QED
    BY <1>3, <1>4, <1>6, <2>1
<1>7. CASE bda' = bda /\ BiosReturn([c EXCEPT !.ax = IF bda = <<>> THEN @ ELSE "key"],
                                   Polled, tickDebt)
  <2> DEFINE d == [c EXCEPT !.ax = IF bda = <<>> THEN @ ELSE "key"]
  <2>1. d \in CpuState /\ d.stack = cpu.stack /\ d.loc = cpu.loc
    BY <1>4 DEF CpuState, AxValues
  <2>2. QED
    BY <1>3, <1>4, <1>7, <2>1
<1>8. CASE bda' = bda /\ BiosReturn(c, Polled, tickDebt)
  <2>1. c.stack = cpu.stack /\ c.loc = cpu.loc
    BY <1>4 DEF CpuState
  <2>2. QED
    BY <1>3, <1>4, <1>8, <2>1
<1>9. QED
  BY <1>5, <1>6, <1>7, <1>8 DEF BiosKeyboardService

LEMMA MouseServiceStep ==
  ASSUME IInv, BiosMouseService
  PROVE  IInv'
<1> USE DEF IInv
<1> DEFINE d == [cpu EXCEPT !.ax = "none"]
<1>1. /\ Polled \in PicState /\ cpu.loc \in BiosLocs
      /\ tickDebt \in Nat \cup {-1}
      /\ BiosReturn(d, Polled, tickDebt)
  BY PolledType DEF BiosMouseService, Executes, BiosLocs, Vectors, TypeOK
<1>2. CpuOK(d) /\ d.loc = cpu.loc
  <2>1. d \in CpuState /\ d.stack = cpu.stack /\ d.loc = cpu.loc
        /\ d.waitKey = cpu.waitKey /\ d.iflag = cpu.iflag
    BY DEF TypeOK, CpuState, AxValues
  <2>2. QED
    BY <2>1, SameFrames DEF CpuOK, Placed
<1>3. kbc' \in KbcState /\ hooked' \subseteq (DOMAIN GuestEntry) \cup {"callback"}
  BY KbcTypes DEF BiosMouseService, TypeOK
<1>4. QED
  BY <1>1, <1>2, <1>3, BiosStep DEF BiosMouseService, TypeOK

LEMMA MouseStep ==
  ASSUME IInv, BiosMouse
  PROVE  IInv'
<1> USE DEF IInv
<1> DEFINE call == Enter(cpu, "far", "retMouse", "gMouse", NoKey)
           far  == [call EXCEPT !.iflag = cpu.iflag, !.saved = cpu.ax, !.ax = "packet"]
           c    == IF Len(kbc.aux) >= 3 /\ "callback" \in hooked THEN far ELSE cpu
           p    == Eoi(Eoi(Polled, Pic2), Pic1)
<1>1. p \in PicState /\ kbc' \in KbcState
  BY PolledType, PicTypes, KbcTypes DEF BiosMouse, TypeOK
<1>2. /\ cpu.loc = "int74" /\ cpu.loc \in BiosLocs
      /\ tickDebt \in Nat \cup {-1}
      /\ BiosReturn(c, p, tickDebt)
  BY DEF BiosMouse, Executes, BiosLocs, Vectors, TypeOK
<1>3. CpuOK(call)
  <2>1. /\ "retMouse" \in Locs \ {"int15", "int1C"} /\ "gMouse" \in Locs \ {"app", "int1C"}
        /\ "far" \in Vectors \cup {"far"} /\ "far" \in Owners("gMouse")
    BY DEF Vectors, Locs, BiosLocs, Trampolines, GuestLocs, Owners
  <2>2. Len(cpu.stack) # 0 /\ Len(cpu.stack) \in 1..Len(cpu.stack)
    BY <1>2 DEF CpuOK, CpuState, Owned
  <2>3. cpu.stack[Len(cpu.stack)].vec \in Owners("retMouse")
    BY <1>2, <2>2 DEF CpuOK, Owned, LocAt, Owners
  <2>4. ~(cpu.waitKey /\ Len(cpu.stack) = 1)
    BY <1>2 DEF CpuOK, Placed, LocAt
  <2>5. QED
    BY <2>1, <2>2, <2>3, <2>4, Entered
<1>4. CpuOK(far) /\ far.loc \notin BiosLocs
  <2>1. call.loc = "gMouse"
    BY DEF Enter, TypeOK, CpuState
  <2>2. /\ far \in CpuState /\ far.stack = call.stack /\ far.loc = call.loc
        /\ far.waitKey = call.waitKey
    BY <1>3 DEF CpuOK, CpuState, AxValues, TypeOK
  <2>3. QED
    BY <1>3, <2>1, <2>2, SameFrames DEF CpuOK, Placed, BiosLocs, Vectors, Trampolines
<1>5. CpuOK(c) /\ (c.loc = cpu.loc \/ c.loc \notin BiosLocs)
  BY <1>4
<1>6. QED
  BY <1>1, <1>2, <1>5, BiosStep DEF BiosMouse, TypeOK

LEMMA TrampolineStep ==
  ASSUME IInv, Trampoline
  PROVE  IInv'
<1> USE DEF IInv
<1>1. /\ Polled \in PicState /\ cpu.loc \in BiosLocs
      /\ tickDebt \in Nat \cup {-1} /\ kbc' \in KbcState
  BY PolledType DEF Trampoline, Executes, BiosLocs, Trampolines, TypeOK
<1>2. CASE BiosReturn(cpu, Polled, tickDebt)
  BY <1>1, <1>2, BiosStep DEF Trampoline, TypeOK
<1>3. CASE cpu.saved # "empty"
           /\ BiosReturn([cpu EXCEPT !.ax = cpu.saved, !.saved = "empty"], Polled, tickDebt)
  <2> DEFINE d == [cpu EXCEPT !.ax = cpu.saved, !.saved = "empty"]
  <2>1. d \in CpuState /\ d.stack = cpu.stack /\ d.loc = cpu.loc
        /\ d.waitKey = cpu.waitKey /\ d.iflag = cpu.iflag
    BY <1>3 DEF TypeOK, CpuState
  <2>2. CpuOK(d)
    BY <2>1, SameFrames DEF CpuOK, Placed
  <2>3. QED
    BY <1>1, <1>3, <2>1, <2>2, BiosStep DEF Trampoline, TypeOK
<1>4. QED
  BY <1>2, <1>3 DEF Trampoline

-----------------------------------------------------------------------------
(* The guest's instructions. *)

LEMMA AppStep ==
  ASSUME IInv, App
  PROVE  IInv'
<1> USE DEF IInv
<1>1. /\ kbc \in KbcState /\ tickDebt \in Nat \cup {-1}
      /\ hooked \subseteq (DOMAIN GuestEntry) \cup {"callback"}
  BY DEF TypeOK
<1>2. CpuOK(cpu) /\ cpu \in CpuState
  BY DEF CpuOK
<1>3. CASE AppComputes
  BY <1>1, <1>2, <1>3, GuestStep DEF AppComputes
<1>4. ASSUME NEW d \in CpuState, d.stack = cpu.stack, d.loc = cpu.loc,
             d.waitKey = cpu.waitKey, cpu.loc = "app"
      PROVE  CpuOK(d)
  BY <1>2, <1>4, SameFrames DEF CpuOK, Placed
<1>5. CASE AppCli
  <2> DEFINE d == [cpu EXCEPT !.iflag = FALSE]
  <2>1. /\ d \in CpuState /\ d.stack = cpu.stack /\ d.loc = cpu.loc
        /\ d.waitKey = cpu.waitKey /\ cpu.loc = "app"
    BY <1>2, <1>5 DEF CpuState, AppCli, Executes
  <2>2. QED
    BY <1>1, <1>4, <1>5, <2>1, GuestStep DEF AppCli
<1>6. CASE AppSti
  <2> DEFINE d == [cpu EXCEPT !.iflag = TRUE]
  <2>1. /\ d \in CpuState /\ d.stack = cpu.stack /\ d.loc = cpu.loc
        /\ d.waitKey = cpu.waitKey /\ cpu.loc = "app"
    BY <1>2, <1>6 DEF CpuState, AppSti, Executes
  <2>2. QED
    BY <1>1, <1>4, <1>6, <2>1, GuestStep DEF AppSti
<1>7. CASE AppHlt
  <2> DEFINE d == [cpu EXCEPT !.halted = TRUE]
  <2>1. /\ d \in CpuState /\ d.stack = cpu.stack /\ d.loc = cpu.loc
        /\ d.waitKey = cpu.waitKey /\ cpu.loc = "app"
    BY <1>2, <1>7 DEF CpuState, AppHlt, Executes
  <2>2. QED
    BY <1>1, <1>4, <1>7, <2>1, GuestStep DEF AppHlt
<1>8. CASE AppMasks
  <2>1. {KeyboardLine} \ pic.mask \in SUBSET Lines
    BY DEF Lines, Pic1, KeyboardLine
  <2>2. pic' \in PicState
    BY <1>8, <2>1, PolledType, PicTypes DEF AppMasks
  <2>3. QED
    BY <1>1, <1>2, <1>8, <2>2, AgedType, TypeOKNext DEF AppMasks, StepDone, TypeOK
<1>9. ASSUME NEW vec \in Hookable, AppHooks(vec) PROVE IInv'
  <2>1. hooked' \subseteq (DOMAIN GuestEntry) \cup {"callback"}
    BY <1>1, <1>9 DEF AppHooks
  <2>2. QED
    BY <1>1, <1>2, <1>9, <2>1, GuestStep DEF AppHooks
<1>10. ASSUME NEW vec \in {"int15", "int16"}, NEW fn \in Functions \cup MouseFunctions,
              AppCalls(vec, fn)
       PROVE  IInv'
  <2> DEFINE d == [cpu EXCEPT !.ax = fn]
  <2>1. /\ d \in CpuState /\ d.stack = cpu.stack /\ d.loc = cpu.loc
        /\ d.waitKey = cpu.waitKey /\ cpu.loc = "app"
    BY <1>2, <1>10 DEF CpuState, AxValues, AppCalls, Executes
  <2>2. CpuOK(d)
    BY <1>4, <2>1
  <2>3. d.loc # "int15" /\ Len(d.stack) = 0
    BY <2>1, <2>2 DEF CpuOK, Owned
  <2>4. vec \in Vectors \ {"int1C"} /\ NoKey \in Keys \cup {NoKey}
    BY DEF Vectors
  <2>5. CpuOK(Dispatch(d, vec, NoKey))
    BY <2>2, <2>3, <2>4, Dispatched
  <2>6. QED
    BY <1>1, <1>10, <2>5, GuestStep DEF AppCalls
<1>11. QED
  BY <1>3, <1>5, <1>6, <1>7, <1>8, <1>9, <1>10 DEF App

LEMMA HandlerStep ==
  ASSUME IInv, HandlerSti \/ HandlerProgress
  PROVE  IInv'
<1> USE DEF IInv
<1>1. /\ kbc \in KbcState /\ tickDebt \in Nat \cup {-1}
      /\ hooked \subseteq (DOMAIN GuestEntry) \cup {"callback"}
      /\ AfterPortData(kbc) \in KbcState
  BY KbcTypes DEF TypeOK
<1>2. CpuOK(cpu) /\ cpu \in CpuState
  BY DEF CpuOK
<1>3. CASE HandlerSti
  <2> DEFINE d == [cpu EXCEPT !.iflag = TRUE]
  <2>1. /\ d \in CpuState /\ d.stack = cpu.stack /\ d.loc = cpu.loc
        /\ d.waitKey = cpu.waitKey /\ cpu.loc # "int15"
    BY <1>2, <1>3 DEF CpuState, HandlerSti, Executes, GuestLocs
  <2>2. CpuOK(d)
    BY <1>2, <2>1, SameFrames DEF CpuOK, Placed
  <2>3. QED
    BY <1>1, <1>3, <2>2, GuestStep DEF HandlerSti
<1>4. ASSUME NEW from, NEW to, cpu.loc = from,
             <<from, to>> \in {<<"g08", "int08">>, <<"g08", "g08done">>,
                              <<"g09", "int09">>, <<"g09", "g09read">>,
                              <<"g09read", "int09">>, <<"g09read", "g09done">>,
                              <<"g0C", "int0C">>, <<"g0C", "g0Cdone">>}
      PROVE  CpuOK([cpu EXCEPT !.loc = to])
  <2>1. to \in Locs \ {"app", "int15", "int1C"}
    BY <1>4 DEF Locs, BiosLocs, GuestLocs, Vectors
  <2>2. cpu.loc \notin {"app", "int16"} /\ Owners(cpu.loc) \subseteq Owners(to)
    BY <1>4 DEF Owners
  <2>3. QED
    BY <1>2, <2>1, <2>2, Moved
<1>5. CASE HandlerReadsPort
  <2>1. cpu.loc = "g09"
    BY <1>5 DEF HandlerReadsPort, Executes
  <2>2. CpuOK([cpu EXCEPT !.loc = "g09read"])
    BY <1>4, <2>1
  <2>3. QED
    BY <1>1, <1>5, <2>2, GuestStep DEF HandlerReadsPort
<1>6. CASE HandlerChains
  <2>1. PICK from, to :
          /\ cpu.loc = from /\ GuestCpu([cpu EXCEPT !.loc = to])
          /\ <<from, to>> \in {<<"g08", "int08">>, <<"g09", "int09">>,
                               <<"g09read", "int09">>, <<"g0C", "int0C">>}
    BY <1>6 DEF HandlerChains, Executes
  <2>2. CpuOK([cpu EXCEPT !.loc = to])
    BY <1>4, <2>1
  <2>3. QED
    BY <1>1, <1>6, <2>1, <2>2, GuestStep DEF HandlerChains
<1>7. CASE HandlerEoi
  <2>1. PICK step \in {<<"g08", "g08done">>, <<"g09read", "g09done">>, <<"g0C", "g0Cdone">>} :
          /\ Executes(step[1])
          /\ cpu' = [cpu EXCEPT !.loc = step[2]]
          /\ tickDebt' = IF step[1] = "g08" THEN Ticked(tickDebt) ELSE tickDebt
    BY <1>7 DEF HandlerEoi
  <2>2. CpuOK(cpu')
    <3>1. cpu.loc = step[1]
      BY <2>1 DEF Executes
    <3>2. CpuOK([cpu EXCEPT !.loc = step[2]])
      BY <1>4, <2>1, <3>1
    <3>3. QED
      BY <2>1, <3>2
  <2>3. tickDebt' \in Nat \cup {-1}
    BY <1>1, <2>1, DebtType
  <2>4. pic' \in PicState
    BY <1>7, PolledType, PicTypes DEF HandlerEoi
  <2>5. QED
    BY <1>1, <1>7, <2>2, <2>3, <2>4, AgedType, TypeOKNext DEF HandlerEoi, StepDone, TypeOK
<1>8. CASE HandlerReturns
  <2>1. PICK loc \in {"g08done", "g09done", "g0Cdone", "g1C", "gMouse"} : Executes(loc)
    BY <1>8 DEF HandlerReturns
  <2>2. Len(cpu.stack) > 0 /\ cpu.loc # "int16"
    BY <1>2, <2>1 DEF Executes, CpuOK, Owned, CpuState
  <2>3. CpuOK(Iret(cpu))
    BY <1>2, <2>2, Returned
  <2>4. CASE GuestCpu(Iret(cpu))
    BY <1>1, <1>8, <2>3, <2>4, GuestStep DEF HandlerReturns
  <2>5. CASE cpu.loc = "gMouse" /\ GuestCpu([Iret(cpu) EXCEPT !.iflag = cpu.iflag])
    <3> DEFINE c == Iret(cpu)
               d == [c EXCEPT !.iflag = cpu.iflag]
    <3>1. /\ c \in CpuState
          /\ d \in CpuState /\ d.stack = c.stack /\ d.loc = c.loc
          /\ d.waitKey = c.waitKey
      BY <1>2, <2>3 DEF CpuOK, CpuState
    <3>2. d.loc # "int15"
      <4>1. d.loc = cpu.stack[Len(cpu.stack)].ret
        BY <3>1, <1>2 DEF Iret, Last, CpuState
      <4>2. Len(cpu.stack) \in 1..Len(cpu.stack)
        BY <1>2, <2>2 DEF CpuState
      <4>3. QED
        BY <4>1, <4>2, <1>2 DEF CpuOK, Placed
    <3>3. CpuOK(d)
      BY <2>3, <3>1, <3>2, SameFrames DEF CpuOK, Placed
    <3>4. QED
      BY <1>1, <1>8, <2>5, <3>3, GuestStep DEF HandlerReturns
  <2>6. QED
    BY <1>8, <2>4, <2>5 DEF HandlerReturns, Executes
<1>9. QED
  BY <1>3, <1>5, <1>6, <1>7, <1>8 DEF HandlerProgress

-----------------------------------------------------------------------------
(* The theorems. *)

\* The invariant holds at reset.
LEMMA IInvInit == Init => IInv
<1> SUFFICES ASSUME Init PROVE IInv
  OBVIOUS
<1>1. PicReset \in PicState /\ KbcReset \in KbcState
  <2>1. <<>> \in Seq(AuxBytes)
    OBVIOUS
  <2>2. QED
    BY <2>1, PollIntervalAssumption DEF PicReset, PicState, KbcReset, KbcState
<1>2. cpu \in CpuState
  <2>1. <<>> \in Seq(Frame)
    OBVIOUS
  <2>2. QED
    BY <2>1 DEF Init, CpuState, Locs, GuestLocs, AxValues
<1>3. CpuOK(cpu)
  <2>1. Len(cpu.stack) = 0 /\ cpu.loc = "app" /\ cpu.waitKey = FALSE
    BY DEF Init
  <2>2. QED
    BY <1>2, <2>1 DEF CpuOK, Owned, Placed
<1>4. /\ keyPresses \in Seq(Keys) /\ bda \in Seq(Keys \cup {NoKey} \cup AuxBytes)
      /\ hooked \subseteq (DOMAIN GuestEntry) \cup {"callback"}
      /\ phase \in {"keys", "cpu"} /\ serialIrq \in BOOLEAN
  <2>1. \A S : <<>> \in Seq(S)
    OBVIOUS
  <2>2. QED
    BY <2>1 DEF Init
<1>5. /\ pressed \in 0..MaxKeys /\ timer \in [age : 0..TimerPeriod, due : BOOLEAN]
      /\ typed \in Keys \cup {NoKey} \cup AuxBytes /\ tickDebt \in Nat \cup {-1}
  BY MachineAssumption, MaxKeysAssumption DEF Init
<1>6. kbc \in KbcState /\ pic \in PicState
  BY <1>1 DEF Init
<1>7. QED
  BY <1>2, <1>3, <1>4, <1>5, <1>6 DEF IInv, TypeOK

\* Every step preserves it.
LEMMA IInvStep == IInv /\ [Next]_vars => IInv'
<1> SUFFICES ASSUME IInv, [Next]_vars PROVE IInv'
  OBVIOUS
<1>1. CASE HostKey \/ HostMouse \/ SerialByte \/ TimerElapses \/ StepKeys
  BY <1>1, HostAndTimerSteps
<1>2. ASSUME NEW l \in {PitLine, KeyboardLine, Com1Line, MouseLine}, TakeInterrupt(l)
      PROVE  IInv'
  BY <1>2, InterruptStep
<1>3. CASE Halted
  BY <1>3, PolledType, AgedType, TypeOKNext DEF Halted, StepDone, IInv, TypeOK
<1>4. CASE Bios
  BY <1>4, IrqHandlerSteps, MouseStep, KeyboardServiceStep, MouseServiceStep,
     TrampolineStep DEF Bios
<1>5. CASE App
  BY <1>5, AppStep
<1>6. CASE HandlerSti \/ HandlerProgress
  BY <1>6, HandlerStep
<1>7. CASE UNCHANGED vars
  BY <1>7 DEF vars, IInv, TypeOK, CpuOK, Owned, Placed, LocAt
<1>8. QED
  BY <1>1, <1>2, <1>3, <1>4, <1>5, <1>6, <1>7 DEF Next, StepCpu

\* The frames are in order in every state of the invariant.
LEMMA IInvFrames == IInv => FrameDiscipline
<1> SUFFICES ASSUME IInv PROVE FrameDiscipline
  OBVIOUS
<1>1. /\ cpu.stack \in Seq(Frame) /\ DOMAIN cpu.stack = 1..Len(cpu.stack)
      /\ Len(cpu.stack) \in Nat /\ (cpu.stack = <<>> <=> Len(cpu.stack) = 0)
  BY DEF IInv, CpuOK, CpuState
<1>2. \A i \in DOMAIN cpu.stack : LocOf(i) = LocAt(cpu, i)
  BY DEF LocOf, LocAt
<1>3. QED
  BY <1>1, <1>2 DEF IInv, CpuOK, Owned, FrameDiscipline

\* Every variable keeps its type, for every capacity, interval and bound.
THEOREM TypeCorrect == Spec => []TypeOK
<1>1. IInv => TypeOK
  BY DEF IInv
<1>2. QED
  BY <1>1, IInvInit, IInvStep, PTL DEF Spec

\* No trampoline, inline timer interrupt or postponed IRET of a waiting
\* INT 16h pops a frame that is not its own, however deep handlers nest.
THEOREM FramesDisciplined == Spec => []FrameDiscipline
BY IInvInit, IInvStep, IInvFrames, PTL DEF Spec

-----------------------------------------------------------------------------
(* A guest that polls. *)

\* The guest never blocks in INT 16h; no handler enables interrupts.
Polling == "block" \notin GuestOps
NoSti   == "sti" \notin GuestOps

Count(b) == IF b THEN 1 ELSE 0

\* The ticks owed, without the one of a timer interrupt that is due.
Net(debt, due) == debt - Count(due)

\* The places on the stack whose owner is at one of the locations L.
Places(c, L) == {i \in 1..Len(c.stack) : LocAt(c, i) \in L}
Size(c, L)   == Cardinality(Places(c, L))

TickLocs == {"int08", "g08"}
KeyLocs  == {"int09", "g09", "g09read"}

\* How a step changes the stack: it goes on within the frame on top, pushes a
\* frame or pops one.
Kept(c, d, to) ==
  /\ d.loc = to
  /\ Len(d.stack) = Len(c.stack)
  /\ \A i \in 1..Len(c.stack) : d.stack[i] = c.stack[i]

Pushed(c, d, vec, ret, to, key) ==
  /\ d.loc = to
  /\ Len(d.stack) = Len(c.stack) + 1
  /\ \A i \in 1..Len(c.stack) : d.stack[i] = c.stack[i]
  /\ d.stack[Len(c.stack) + 1] =
       [ret |-> ret, iflag |-> c.iflag, vec |-> vec, ax |-> c.ax, key |-> key]

Popped(c, d) ==
  /\ d.loc = c.stack[Len(c.stack)].ret
  /\ Len(d.stack) = Len(c.stack) - 1
  /\ \A i \in 1..(Len(c.stack) - 1) : d.stack[i] = c.stack[i]

\* The fields no push or pop touches.
SameRegisters(c, d) == d.ax = c.ax /\ d.saved = c.saved /\ d.waitKey = c.waitKey

-----------------------------------------------------------------------------
(* Pushing, popping and moving. *)

LEMMA EnterPushes ==
  ASSUME NEW c \in CpuState, NEW vec, NEW ret, NEW to, NEW key
  PROVE  LET d == Enter(c, vec, ret, to, key)
         IN  Pushed(c, d, vec, ret, to, key) /\ SameRegisters(c, d) /\ d.iflag = FALSE
<1> DEFINE d == Enter(c, vec, ret, to, key)
           f == [ret |-> ret, iflag |-> c.iflag, vec |-> vec, ax |-> c.ax, key |-> key]
<1>1. /\ d.stack = Append(c.stack, f) /\ d.loc = to /\ d.iflag = FALSE
      /\ d.ax = c.ax /\ d.saved = c.saved /\ d.waitKey = c.waitKey
  BY DEF Enter, CpuState
<1>2. c.stack \in Seq(Frame)
  BY DEF CpuState
<1>3. /\ Len(d.stack) = Len(c.stack) + 1
      /\ \A i \in 1..Len(c.stack) : d.stack[i] = c.stack[i]
      /\ d.stack[Len(c.stack) + 1] = f
  BY <1>1, <1>2
<1>4. QED
  BY <1>1, <1>3 DEF Pushed, SameRegisters

LEMMA IretPops ==
  ASSUME NEW c \in CpuState, Len(c.stack) > 0
  PROVE  /\ Popped(c, Iret(c)) /\ SameRegisters(c, Iret(c))
         /\ Iret(c).iflag = c.stack[Len(c.stack)].iflag
<1> DEFINE d == Iret(c)
           n == Len(c.stack)
<1>1. c.stack \in Seq(Frame) /\ n \in Nat /\ n > 0
  BY DEF CpuState
<1>2. /\ d.stack = SubSeq(c.stack, 1, n - 1) /\ d.loc = c.stack[n].ret
      /\ d.iflag = c.stack[n].iflag
      /\ d.ax = c.ax /\ d.saved = c.saved /\ d.waitKey = c.waitKey
  BY DEF Iret, Last, Front, CpuState
<1>3. Len(d.stack) = n - 1 /\ \A i \in 1..(n - 1) : d.stack[i] = c.stack[i]
  BY <1>1, <1>2
<1>4. QED
  BY <1>2, <1>3 DEF Popped, SameRegisters

\* Popping what was just pushed.
LEMMA EnterIret ==
  ASSUME NEW c \in CpuState, NEW vec \in Vectors \cup {"far"}, NEW ret \in Locs,
         NEW to \in Locs, NEW key \in Keys \cup {NoKey}
  PROVE  LET d == Iret(Enter(c, vec, ret, to, key))
         IN  Kept(c, d, ret) /\ SameRegisters(c, d) /\ d.iflag = c.iflag
<1> DEFINE e == Enter(c, vec, ret, to, key)
           d == Iret(e)
           n == Len(c.stack)
           f == [ret |-> ret, iflag |-> c.iflag, vec |-> vec, ax |-> c.ax, key |-> key]
<1>1. n \in Nat /\ c.stack \in Seq(Frame) /\ f \in Frame
  BY DEF CpuState, Frame
<1>2. e \in CpuState
  <2>1. Append(c.stack, f) \in Seq(Frame)
    BY <1>1
  <2>2. QED
    BY <2>1 DEF Enter, CpuState
<1>3. Pushed(c, e, vec, ret, to, key) /\ SameRegisters(c, e)
  BY EnterPushes
<1>4. /\ Len(e.stack) = n + 1 /\ e.stack[n + 1] = f
      /\ \A i \in 1..n : e.stack[i] = c.stack[i]
  BY <1>3 DEF Pushed
<1>5. /\ Popped(e, d) /\ SameRegisters(e, d)
      /\ d.iflag = e.stack[Len(e.stack)].iflag
  BY <1>1, <1>2, <1>4, IretPops
<1>6. /\ Len(d.stack) = n /\ d.loc = ret /\ d.iflag = c.iflag
      /\ \A i \in 1..n : d.stack[i] = c.stack[i]
  <2>1. /\ Len(e.stack) - 1 = n
        /\ d.loc = f.ret /\ d.iflag = f.iflag
    BY <1>1, <1>4, <1>5 DEF Popped
  <2>2. QED
    BY <2>1, <1>4, <1>5 DEF Popped
<1>7. QED
  BY <1>3, <1>5, <1>6 DEF Kept, SameRegisters

\* Where the owners of the frames are after a step.
LEMMA LocKept ==
  ASSUME NEW c \in CpuState, NEW d, NEW to, Kept(c, d, to)
  PROVE  /\ \A i \in 1..Len(c.stack) :
              LocAt(d, i) = IF i = Len(c.stack) THEN to ELSE LocAt(c, i)
<1>1. Len(c.stack) \in Nat
  BY DEF CpuState
<1>2. QED
  BY <1>1 DEF Kept, LocAt

LEMMA LocPushed ==
  ASSUME NEW c \in CpuState, NEW d, NEW vec, NEW ret, NEW to, NEW key,
         Pushed(c, d, vec, ret, to, key)
  PROVE  /\ LocAt(d, Len(c.stack) + 1) = to
         /\ \A i \in 1..Len(c.stack) :
              LocAt(d, i) = IF i = Len(c.stack) THEN ret ELSE LocAt(c, i)
<1>1. Len(c.stack) \in Nat
  BY DEF CpuState
<1>2. QED
  BY <1>1 DEF Pushed, LocAt

LEMMA LocPopped ==
  ASSUME NEW c \in CpuState, NEW d, Len(c.stack) > 0, Popped(c, d)
  PROVE  \A i \in 1..(Len(c.stack) - 1) : LocAt(d, i) = LocAt(c, i)
<1>1. Len(c.stack) \in Nat
  BY DEF CpuState
<1>2. QED
  BY <1>1 DEF Popped, LocAt

-----------------------------------------------------------------------------
(* How many owners are at one of the locations L. *)

LEMMA SizeType ==
  ASSUME NEW c \in CpuState, NEW L
  PROVE  IsFiniteSet(Places(c, L)) /\ Size(c, L) \in Nat
<1>1. Len(c.stack) \in Nat
  BY DEF CpuState
<1>2. IsFiniteSet(1..Len(c.stack)) /\ Places(c, L) \in SUBSET (1..Len(c.stack))
  BY <1>1, FS_Interval DEF Places
<1>3. QED
  BY <1>2, FS_Subset, FS_CardinalityType DEF Size

\* The element n, if x is in L.
Slot(n, x, L) == IF x \in L THEN {n} ELSE {}

\* Removing an element that may be there and adding it if x is in L.
LEMMA Replaced ==
  ASSUME NEW S, IsFiniteSet(S), NEW n, NEW x, NEW L
  PROVE  /\ IsFiniteSet((S \ {n}) \cup Slot(n, x, L))
         /\ Cardinality((S \ {n}) \cup Slot(n, x, L))
              = Cardinality(S) - Count(n \in S) + Count(x \in L)
<1>1. /\ IsFiniteSet(S \ {n}) /\ Cardinality(S) \in Nat
      /\ Cardinality(S \ {n}) = Cardinality(S) - Count(n \in S)
      /\ Cardinality(S \ {n}) \in Nat
  BY FS_RemoveElement, FS_CardinalityType DEF Count
<1>2. CASE x \in L
  <2>1. (S \ {n}) \cup Slot(n, x, L) = (S \ {n}) \cup {n} /\ n \notin S \ {n}
    BY <1>2 DEF Slot
  <2>2. /\ IsFiniteSet((S \ {n}) \cup {n})
        /\ Cardinality((S \ {n}) \cup {n}) = Cardinality(S \ {n}) + 1
    BY <1>1, <2>1, FS_AddElement
  <2>3. Count(x \in L) = 1
    BY <1>2 DEF Count
  <2>4. QED
    BY <1>1, <2>1, <2>2, <2>3
<1>3. CASE x \notin L
  <2>1. (S \ {n}) \cup Slot(n, x, L) = S \ {n}
    BY <1>3 DEF Slot
  <2>2. Count(x \in L) = 0
    BY <1>3 DEF Count
  <2>3. Cardinality(S \ {n}) = Cardinality(S) - Count(n \in S) + 0
    BY <1>1
  <2>4. QED
    BY <1>1, <2>1, <2>2, <2>3
<1>4. QED
  BY <1>2, <1>3

\* The top of the stack is one of the places exactly when the processor is at
\* one of the locations.
LEMMA TopPlace ==
  ASSUME NEW c, CpuOK(c), NEW L, "app" \notin L
  PROVE  Len(c.stack) \in Places(c, L) <=> c.loc \in L
<1>1. Len(c.stack) \in Nat /\ (Len(c.stack) = 0 => c.loc = "app")
  BY DEF CpuOK, CpuState, Owned
<1>2. Len(c.stack) \in 1..Len(c.stack) <=> Len(c.stack) # 0
  BY <1>1
<1>3. QED
  BY <1>1, <1>2 DEF Places, LocAt

LEMMA SizeKept ==
  ASSUME NEW c, CpuOK(c), NEW d, NEW to, Kept(c, d, to), NEW L, "app" \notin L,
         Len(c.stack) = 0 => to = "app"
  PROVE  Size(d, L) = Size(c, L) - Count(c.loc \in L) + Count(to \in L)
<1> DEFINE n == Len(c.stack)
<1>1. c \in CpuState /\ n \in Nat
  BY DEF CpuOK, CpuState
<1>2. Places(d, L) = (Places(c, L) \ {n}) \cup Slot(n, to, L)
  <2>1. \A i : i \in Places(d, L) <=> i \in 1..n /\ LocAt(d, i) \in L
    BY DEF Places, Kept
  <2>2. to \in L => n \in 1..n
    BY <1>1
  <2>3. QED
    BY <1>1, <2>1, <2>2, LocKept DEF Places, Slot
<1>3. Size(d, L) = Size(c, L) - Count(n \in Places(c, L)) + Count(to \in L)
  BY <1>1, <1>2, SizeType, Replaced DEF Size
<1>4. Count(n \in Places(c, L)) = Count(c.loc \in L)
  BY TopPlace DEF Count
<1>5. QED
  BY <1>3, <1>4

LEMMA SizePushed ==
  ASSUME NEW c, CpuOK(c), NEW d, NEW vec, NEW ret, NEW to, NEW key,
         Pushed(c, d, vec, ret, to, key), NEW L, "app" \notin L,
         Len(c.stack) = 0 => ret = "app"
  PROVE  Size(d, L) = Size(c, L) - Count(c.loc \in L) + Count(ret \in L)
                        + Count(to \in L)
<1> DEFINE n == Len(c.stack)
           old == (Places(c, L) \ {n}) \cup Slot(n, ret, L)
<1>1. c \in CpuState /\ n \in Nat
  BY DEF CpuOK, CpuState
<1>2. n + 1 \notin old
  BY <1>1 DEF Places, Slot
<1>3. Places(d, L) = old \cup Slot(n + 1, to, L)
  <2>1. \A i : i \in Places(d, L) <=> i \in 1..(n + 1) /\ LocAt(d, i) \in L
    BY DEF Places, Pushed
  <2>2. ret \in L => n \in 1..n
    BY <1>1
  <2>3. \A i \in 1..(n + 1) : i = n + 1 \/ (i \in 1..n /\ i # n + 1)
    BY <1>1
  <2>4. 1..n \subseteq 1..(n + 1) /\ n + 1 \in 1..(n + 1)
    BY <1>1
  <2>5. ASSUME NEW i \in 1..n
        PROVE  i \in Places(d, L) <=> i \in old
    <3>1. LocAt(d, i) = IF i = n THEN ret ELSE LocAt(c, i)
      BY <1>1, <2>5, LocPushed
    <3>2. QED
      BY <2>1, <2>4, <2>5, <3>1 DEF Places, Slot
  <2>6. n + 1 \in Places(d, L) <=> to \in L
    BY <1>1, <2>1, <2>4, LocPushed
  <2>7. old \subseteq 1..n
    BY <2>2 DEF Places, Slot
  <2>8. QED
    BY <1>2, <2>1, <2>3, <2>4, <2>5, <2>6, <2>7 DEF Slot
<1>4. IsFiniteSet(old) /\ Cardinality(old) = Size(c, L) - Count(c.loc \in L) + Count(ret \in L)
  <2>1. /\ IsFiniteSet(old)
        /\ Cardinality(old) = Cardinality(Places(c, L)) - Count(n \in Places(c, L))
                               + Count(ret \in L)
    <3>1. IsFiniteSet(Places(c, L))
      BY <1>1, SizeType
    <3>2. QED
      BY <3>1, Replaced
  <2>2. Count(n \in Places(c, L)) = Count(c.loc \in L)
    BY TopPlace DEF Count
  <2>3. QED
    BY <2>1, <2>2 DEF Size
<1>5. old \cup Slot(n + 1, to, L) = (old \ {n + 1}) \cup Slot(n + 1, to, L)
  BY <1>2 DEF Slot
<1>6. Size(d, L) = Cardinality(old) - Count(n + 1 \in old) + Count(to \in L)
  BY <1>3, <1>4, <1>5, Replaced DEF Size
<1>7. Count(n + 1 \in old) = 0 /\ Cardinality(old) \in Nat
  BY <1>2, <1>4, FS_CardinalityType DEF Count
<1>8. QED
  BY <1>4, <1>6, <1>7 DEF Count

LEMMA SizePopped ==
  ASSUME NEW c, CpuOK(c), Len(c.stack) > 0, NEW d, Popped(c, d), NEW L, "app" \notin L
  PROVE  Size(d, L) = Size(c, L) - Count(c.loc \in L)
<1> DEFINE n == Len(c.stack)
<1>1. c \in CpuState /\ n \in Nat /\ n > 0
  BY DEF CpuOK, CpuState
<1>2. Places(d, L) = (Places(c, L) \ {n}) \cup Slot(n, n, {})
  <2>1. \A i : i \in Places(d, L) <=> i \in 1..(n - 1) /\ LocAt(d, i) \in L
    BY DEF Places, Popped
  <2>2. \A i : i \in 1..(n - 1) <=> i \in 1..n /\ i # n
    BY <1>1
  <2>3. QED
    BY <1>1, <2>1, <2>2, LocPopped DEF Places, Slot
<1>3. Size(d, L) = Size(c, L) - Count(n \in Places(c, L)) + Count(n \in {})
  BY <1>1, <1>2, SizeType, Replaced DEF Size
<1>4. Count(n \in Places(c, L)) = Count(c.loc \in L) /\ Count(n \in {}) = 0
  BY TopPlace DEF Count
<1>5. Size(c, L) \in Nat /\ Count(c.loc \in L) \in Nat
  BY <1>1, SizeType DEF Count
<1>6. QED
  BY <1>3, <1>4, <1>5

-----------------------------------------------------------------------------
(* What a step does to the stack, the in-service bits and the ticks owed. *)

\* What an EOI to one controller leaves in service.
Acked(isr, chip) == isr \ {l \in isr \cap chip : \A m \in isr \cap chip : l <= m}

\* What the BIOS handler that starts at loc leaves in service.
AckedBy(isr, loc) ==
  CASE loc = "int74" -> Acked(Acked(isr, Pic2), Pic1)
    [] loc \in {"int08", "int09", "int0C"} -> Acked(isr, Pic1)
    [] OTHER -> isr

NetGrows(k) == Net(tickDebt', timer'.due) = Net(tickDebt, timer.due) + k

\* The processor stays where it is; only the application, or a handler that
\* executes STI, sets IF.
Stays ==
  /\ Kept(cpu, cpu', cpu.loc) /\ SameRegisters(cpu, cpu')
  /\ cpu'.iflag => cpu.iflag \/ cpu.loc = "app" \/ (~NoSti /\ cpu.loc \in GuestLocs)
  /\ pic'.isr = pic.isr /\ NetGrows(0) /\ bda' = bda

\* A guest handler goes on, or goes on to the BIOS handler.
Forward == {<<"g08", "int08">>, <<"g09", "int09">>, <<"g09", "g09read">>,
            <<"g09read", "int09">>, <<"g0C", "int0C">>}

GoesOn(from, to) ==
  /\ cpu.loc = from
  /\ Kept(cpu, cpu', to) /\ SameRegisters(cpu, cpu') /\ cpu'.iflag = cpu.iflag
  /\ pic'.isr = pic.isr /\ NetGrows(0)

\* A guest handler sends its EOI.
Done == {<<"g08", "g08done">>, <<"g09read", "g09done">>, <<"g0C", "g0Cdone">>}

SendsEoi(from, to) ==
  /\ cpu.loc = from
  /\ Kept(cpu, cpu', to) /\ SameRegisters(cpu, cpu') /\ cpu'.iflag = cpu.iflag
  /\ pic'.isr = Acked(pic.isr, Pic1)
  /\ NetGrows(IF from = "g08" THEN -1 ELSE 0)

\* Line l is taken from the controllers.
Interrupted(l) ==
  /\ cpu.iflag /\ l \in Pending /\ l \notin pic.isr
  /\ Pushed(cpu, cpu', IrqVector(l), cpu.loc, Handler(IrqVector(l)),
            IF l = KeyboardLine THEN kbc.scanCode ELSE NoKey)
  /\ SameRegisters(cpu, cpu') /\ ~cpu'.iflag
  /\ pic'.isr = pic.isr \cup {l}
  /\ NetGrows(Count(l = PitLine))
  /\ l = KeyboardLine => ~kbc'.pendingKey

\* The application calls INT 15h or INT 16h.
Calls(vec, fn) ==
  /\ cpu.loc = "app"
  /\ Pushed([cpu EXCEPT !.ax = fn], cpu', vec, "app", vec, NoKey)
  /\ SameRegisters([cpu EXCEPT !.ax = fn], cpu') /\ ~cpu'.iflag
  /\ vec = "int15" => MouseLine \in Devices
  /\ vec = "int16" => fn \in Functions /\ (Polling /\ fn = "read" => bda # <<>>)
  /\ pic'.isr = pic.isr /\ NetGrows(0) /\ bda' = bda

\* A guest handler returns.
GuestReturns ==
  /\ cpu.loc \in {"g08done", "g09done", "g0Cdone", "g1C", "gMouse"}
  /\ Popped(cpu, cpu') /\ SameRegisters(cpu, cpu')
  /\ cpu'.iflag = IF cpu.loc = "gMouse" THEN cpu.iflag
                  ELSE cpu.stack[Len(cpu.stack)].iflag
  /\ pic'.isr = pic.isr /\ NetGrows(0)

\* The processor as a BIOS handler leaves it, before its IRET.
Worked(c) ==
  /\ CpuOK(c) /\ c.stack = cpu.stack /\ c.loc = cpu.loc /\ c.waitKey = cpu.waitKey
  /\ c.iflag = (cpu.iflag \/ cpu.loc = "int16")
  /\ cpu.loc \notin {"int15", "int16", "retMouse"} => c.ax = cpu.ax
  /\ IF cpu.loc = "retMouse" /\ cpu.saved # "empty"
     THEN c.ax = cpu.saved /\ c.saved = "empty"
     ELSE c.saved = cpu.saved

AtBios ==
  /\ cpu.loc \in BiosLocs
  /\ NetGrows(IF cpu.loc = "int08" THEN -1 ELSE 0)
  /\ pic'.isr = AckedBy(pic.isr, cpu.loc)

BiosReturns(c) ==
  /\ AtBios
  /\ Popped(c, cpu') /\ SameRegisters(c, cpu')
  /\ cpu'.iflag = c.stack[Len(c.stack)].iflag

\* It ends with an inline timer interrupt, taken by the BIOS or by the guest.
BiosTicks(c) ==
  /\ AtBios /\ c.iflag
  /\ Kept(c, cpu', "ret1C") /\ SameRegisters(c, cpu') /\ cpu'.iflag = c.iflag

BiosTimed(c) ==
  /\ cpu.loc \in BiosLocs /\ c.iflag
  /\ Pushed(c, cpu', "int08", "retTimer", "g08", NoKey)
  /\ SameRegisters(c, cpu') /\ ~cpu'.iflag
  /\ PitLine \notin AckedBy(pic.isr, cpu.loc)
  /\ pic'.isr = AckedBy(pic.isr, cpu.loc) \cup {PitLine}
  /\ NetGrows(IF cpu.loc = "int08" THEN 0 ELSE 1)

\* It calls into the guest.
BiosChains ==
  /\ AtBios /\ cpu.loc = "int08"
  /\ Pushed(cpu, cpu', "int1C", "ret1C", "g1C", NoKey)
  /\ SameRegisters(cpu, cpu') /\ ~cpu'.iflag

BiosCallsBack ==
  /\ AtBios /\ cpu.loc = "int74"
  /\ Pushed(cpu, cpu', "far", "retMouse", "gMouse", NoKey)
  /\ cpu'.saved = cpu.ax /\ cpu'.waitKey = cpu.waitKey /\ cpu'.iflag = cpu.iflag

BiosEffects ==
  \/ BiosChains \/ BiosCallsBack
  \/ \E c : Worked(c) /\ (BiosReturns(c) \/ BiosTicks(c) \/ BiosTimed(c))

Effects ==
  \/ Stays
  \/ \E from, to : <<from, to>> \in Forward /\ GoesOn(from, to)
  \/ \E from, to : <<from, to>> \in Done /\ SendsEoi(from, to)
  \/ \E l \in {PitLine, KeyboardLine, Com1Line, MouseLine} : Interrupted(l)
  \/ \E vec \in {"int15", "int16"}, fn \in AxValues : Calls(vec, fn)
  \/ GuestReturns
  \/ BiosEffects

\* The guest is not waiting in INT 16h, and where a tick will be counted one
\* is owed.
Ready16 ==
  /\ ~cpu.waitKey
  /\ cpu.loc = "int16" => cpu.ax \in Functions /\ (cpu.ax = "read" => bda # <<>>)
  /\ tickDebt >= 0 /\ (cpu.loc \in TickLocs => tickDebt >= 1)

-----------------------------------------------------------------------------

LEMMA IsrFields ==
  ASSUME NEW p \in PicState
  PROVE  /\ \A chip : Eoi(p, chip).isr = Acked(p.isr, chip)
         /\ NotifyPending(p).isr = p.isr
         /\ TookNone(p).isr = p.isr
         /\ TookTimer(p).isr = p.isr \cup {PitLine}
         /\ \A l : Taken(p, l).isr = p.isr \cup {l}
         /\ \A chip, mask : SetMask(p, chip, mask).isr = p.isr
BY DEF PicState, Eoi, Acked, NotifyPending, TookNone, TookTimer, Taken, SetMask

\* An EOI sent for a timer interrupt that was just taken clears that bit.
LEMMA TimerAcked ==
  ASSUME NEW isr \in SUBSET Lines, PitLine \notin isr
  PROVE  Acked(isr \cup {PitLine}, Pic1) = isr
BY DEF Acked, PitLine, Pic1, Pic2, Lines

\* The end of a BIOS handler that leaves the processor as c.
LEMMA BiosEnd ==
  ASSUME TypeOK, NEW c, CpuOK(c), ~c.waitKey, NEW p \in PicState, NEW debt \in Nat,
         c.loc \in BiosLocs, c.loc = cpu.loc, BiosReturn(c, p, debt)
  PROVE  LET net == Net(tickDebt', timer'.due) - Net(debt, timer.due)
         IN
         \/ /\ Popped(c, cpu') /\ SameRegisters(c, cpu')
            /\ cpu'.iflag = c.stack[Len(c.stack)].iflag
            /\ pic'.isr = p.isr /\ net = 0
         \/ /\ c.iflag /\ Kept(c, cpu', "ret1C") /\ SameRegisters(c, cpu')
            /\ cpu'.iflag = c.iflag
            /\ pic'.isr = p.isr /\ net = 0
         \/ /\ c.iflag /\ Pushed(c, cpu', "int08", "retTimer", "g08", NoKey)
            /\ SameRegisters(c, cpu') /\ ~cpu'.iflag
            /\ PitLine \notin p.isr
            /\ pic'.isr = p.isr \cup {PitLine} /\ net = 1
<1> DEFINE owed(due) == IF due /\ ~timer.due THEN Owed(debt) ELSE debt
           inline(due) == c.iflag /\ TakesTimer(p, due)
           net == Net(tickDebt', timer'.due) - Net(debt, timer.due)
<1>1. PICK due \in {timer.due, timer.due \/ timer.age = TimerPeriod} :
        \/ /\ ~inline(due)
           /\ cpu' = Iret(c) /\ pic' = p /\ tickDebt' = owed(due)
           /\ timer' = [Aged(timer) EXCEPT !.due = due]
        \/ /\ inline(due) /\ Handler("int08") = "int08"
           /\ cpu' = Iret(ChainUserTick(c))
           /\ pic' = Eoi(TookTimer(p), Pic1)
           /\ tickDebt' = Ticked(owed(due))
           /\ timer' = [age |-> 0, due |-> FALSE]
        \/ /\ inline(due) /\ Handler("int08") # "int08"
           /\ cpu' = Enter(c, "int08", "retTimer", Handler("int08"), NoKey)
           /\ pic' = TookTimer(p)
           /\ tickDebt' = owed(due)
           /\ timer' = [age |-> 0, due |-> FALSE]
  BY DEF BiosReturn
<1>2. /\ c \in CpuState /\ Len(c.stack) > 0
      /\ timer.due \in BOOLEAN /\ due \in BOOLEAN /\ (timer.due => due)
  <2>1. c.loc # "app"
    BY DEF BiosLocs, Vectors, Trampolines
  <2>2. Len(c.stack) > 0
    BY <2>1 DEF CpuOK, CpuState, Owned
  <2>3. QED
    BY <2>2, <1>1 DEF CpuOK, TypeOK
<1>3. /\ owed(due) \in Nat /\ Net(owed(due), due) = Net(debt, timer.due)
      /\ due => owed(due) = Net(debt, timer.due) + 1
      /\ Net(debt, timer.due) \in Int
  BY <1>2 DEF Owed, Net, Count
<1>4. CASE /\ ~inline(due)
           /\ cpu' = Iret(c) /\ pic' = p /\ tickDebt' = owed(due)
           /\ timer' = [Aged(timer) EXCEPT !.due = due]
  <2>1. timer'.due = due
    BY <1>4 DEF Aged, TypeOK
  <2>2. net = 0
    BY <1>3, <1>4, <2>1
  <2>3. QED
    BY <1>2, <1>4, <2>2, IretPops
<1>5. ASSUME inline(due), timer' = [age |-> 0, due |-> FALSE]
      PROVE  /\ c.iflag /\ PitLine \notin p.isr /\ due
             /\ \A debt2 \in Int : Net(debt2, timer'.due) = debt2
  BY <1>5 DEF TakesTimer, Net, Count
<1>6. CASE /\ inline(due) /\ Handler("int08") = "int08"
           /\ cpu' = Iret(ChainUserTick(c))
           /\ pic' = Eoi(TookTimer(p), Pic1)
           /\ tickDebt' = Ticked(owed(due))
           /\ timer' = [age |-> 0, due |-> FALSE]
  <2>1. tickDebt' = owed(due) - 1 /\ tickDebt' \in Int
    BY <1>3, <1>6 DEF Ticked
  <2>2. net = 0
    <3>1. Net(tickDebt', timer'.due) = owed(due) - 1
      BY <1>5, <1>6, <2>1
    <3>2. owed(due) = Net(debt, timer.due) + 1
      BY <1>3, <1>5, <1>6
    <3> HIDE DEF owed
    <3>3. QED
      BY <1>3, <3>1, <3>2
  <2>3. pic'.isr = p.isr
    BY <1>5, <1>6, PicTypes, IsrFields, TimerAcked DEF PicState
  <2>4. CASE "int1C" \in hooked
    <3>1. cpu' = Iret(Enter(c, "int1C", "ret1C", "g1C", NoKey))
      BY <1>6, <2>4 DEF ChainUserTick
    <3>2. /\ "int1C" \in Vectors \cup {"far"} /\ "ret1C" \in Locs /\ "g1C" \in Locs
          /\ NoKey \in Keys \cup {NoKey}
      BY DEF Vectors, Locs, BiosLocs, Trampolines, GuestLocs
    <3>3. Kept(c, cpu', "ret1C") /\ SameRegisters(c, cpu') /\ cpu'.iflag = c.iflag
      BY <1>2, <3>1, <3>2, EnterIret
    <3>4. QED
      BY <1>5, <1>6, <2>2, <2>3, <3>3
  <2>5. CASE "int1C" \notin hooked
    <3>1. cpu' = Iret(c)
      BY <1>6, <2>5 DEF ChainUserTick
    <3>2. QED
      BY <1>2, <2>2, <2>3, <3>1, IretPops
  <2>6. QED
    BY <2>4, <2>5
<1>7. CASE /\ inline(due) /\ Handler("int08") # "int08"
           /\ cpu' = Enter(c, "int08", "retTimer", Handler("int08"), NoKey)
           /\ pic' = TookTimer(p)
           /\ tickDebt' = owed(due)
           /\ timer' = [age |-> 0, due |-> FALSE]
  <2>1. Handler("int08") = "g08"
    BY <1>7 DEF Handler, GuestEntry
  <2>2. net = 1
    <3>1. Net(tickDebt', timer'.due) = owed(due)
      <4>1. tickDebt' = owed(due) /\ tickDebt' \in Int
        BY <1>3, <1>7
      <4>2. QED
        BY <1>5, <1>7, <4>1
    <3>2. owed(due) = Net(debt, timer.due) + 1
      BY <1>3, <1>5, <1>7
    <3> HIDE DEF owed
    <3>3. QED
      BY <1>3, <3>1, <3>2
  <2>3. pic'.isr = p.isr \cup {PitLine}
    BY <1>7, IsrFields
  <2>4. /\ Pushed(c, cpu', "int08", "retTimer", "g08", NoKey)
        /\ SameRegisters(c, cpu') /\ ~cpu'.iflag
    BY <1>2, <1>7, <2>1, EnterPushes
  <2>5. QED
    BY <1>5, <1>7, <2>2, <2>3, <2>4
<1>8. QED
  BY <1>1, <1>4, <1>6, <1>7

LEMMA PolledIsr ==
  ASSUME TypeOK
  PROVE  Polled \in PicState /\ Polled.isr = pic.isr
BY PolledType, IsrFields DEF Polled, TypeOK

\* A BIOS handler that calls nobody.
LEMMA BiosWorks ==
  ASSUME TypeOK, Ready16, NEW c, Worked(c), cpu.loc \in BiosLocs,
         NEW p \in PicState, p.isr = AckedBy(pic.isr, cpu.loc),
         NEW debt \in Nat, tickDebt = debt + Count(cpu.loc = "int08"),
         BiosReturn(c, p, debt)
  PROVE  BiosEffects
<1> DEFINE net  == Net(tickDebt', timer'.due) - Net(debt, timer.due)
           here == cpu.loc = "int08"
<1>1. CpuOK(c) /\ c.loc = cpu.loc /\ ~c.waitKey
  BY DEF Worked, Ready16
<1>2. /\ net = 0 => NetGrows(IF here THEN -1 ELSE 0)
      /\ net = 1 => NetGrows(IF here THEN 0 ELSE 1)
  <2>1. /\ tickDebt \in Nat /\ timer.due \in BOOLEAN
        /\ Net(debt, timer.due) \in Int /\ Net(tickDebt, timer.due) \in Int
        /\ Net(debt, timer.due) = Net(tickDebt, timer.due) - (IF here THEN 1 ELSE 0)
    BY DEF TypeOK, Net, Count
  <2>2. ASSUME NEW k \in {0, 1}, net = k
        PROVE  Net(tickDebt', timer'.due) = Net(debt, timer.due) + k
    <3>1. \/ Net(tickDebt', timer'.due) \in Int
          \/ Net(tickDebt', timer'.due) \notin Int
      OBVIOUS
    <3>2. tickDebt' \in Int /\ timer'.due \in BOOLEAN
      <4>1. c.waitKey => Len(c.stack) > 0 /\ LocAt(c, 1) = "int16"
        BY <1>1
      <4>2. /\ tickDebt' \in Nat \cup {-1}
            /\ timer' \in [age : 0..TimerPeriod, due : BOOLEAN]
        BY <1>1, <4>1, BiosEnds
      <4>3. QED
        BY <4>2
    <3>3. Net(tickDebt', timer'.due) \in Int
      BY <3>2 DEF Net, Count
    <3>4. QED
      BY <2>1, <2>2, <3>3
  <2>3. QED
    BY <2>1, <2>2 DEF NetGrows
<1>3. \/ /\ Popped(c, cpu') /\ SameRegisters(c, cpu')
         /\ cpu'.iflag = c.stack[Len(c.stack)].iflag
         /\ pic'.isr = p.isr /\ net = 0
      \/ /\ c.iflag /\ Kept(c, cpu', "ret1C") /\ SameRegisters(c, cpu')
         /\ cpu'.iflag = c.iflag
         /\ pic'.isr = p.isr /\ net = 0
      \/ /\ c.iflag /\ Pushed(c, cpu', "int08", "retTimer", "g08", NoKey)
         /\ SameRegisters(c, cpu') /\ ~cpu'.iflag
         /\ PitLine \notin p.isr
         /\ pic'.isr = p.isr \cup {PitLine} /\ net = 1
  BY <1>1, BiosEnd
<1>4. BiosReturns(c) \/ BiosTicks(c) \/ BiosTimed(c)
  BY <1>2, <1>3 DEF BiosReturns, BiosTicks, BiosTimed, AtBios
<1>5. QED
  BY <1>4 DEF BiosEffects

\* INT 08h, 09h, the default serial handler and INT 74h.
LEMMA IrqHandlerEffects ==
  ASSUME IInv, Ready16, BiosTimer \/ BiosKeyboard \/ BiosSerial \/ BiosMouse
  PROVE  BiosEffects
<1> USE DEF IInv
<1>1. /\ Polled \in PicState /\ Polled.isr = pic.isr
      /\ Eoi(Polled, Pic1) \in PicState /\ Eoi(Polled, Pic1).isr = Acked(pic.isr, Pic1)
      /\ Eoi(Eoi(Polled, Pic2), Pic1) \in PicState
      /\ Eoi(Eoi(Polled, Pic2), Pic1).isr = Acked(Acked(pic.isr, Pic2), Pic1)
  BY PolledIsr, PicTypes, IsrFields
<1>2. /\ CpuOK(cpu) /\ cpu \in CpuState /\ tickDebt \in Nat
      /\ cpu.loc \notin {"int16", "retMouse"} => Worked(cpu)
  BY DEF CpuOK, Worked, Ready16, TypeOK, CpuState
<1>3. ASSUME NEW c, cpu' = c, c.loc \notin BiosLocs, NEW p, NEW debt,
             BiosReturn(c, p, debt), ~c.waitKey
      PROVE  pic' = p /\ timer'.due = timer.due /\ tickDebt' = debt
  <2>1. \/ pic' = p /\ timer' = Aged(timer) /\ tickDebt' = debt
        \/ c.loc \in BiosLocs
    BY <1>3 DEF BiosReturn
  <2>2. Aged(timer).due = timer.due
    BY DEF Aged, TypeOK
  <2>3. QED
    BY <1>3, <2>1, <2>2
<1>4. CASE BiosTimer
  <2>1. /\ cpu.loc = "int08" /\ cpu.loc \in BiosLocs
        /\ BiosReturn(ChainUserTick(cpu), Eoi(Polled, Pic1), Ticked(tickDebt))
    BY <1>4 DEF BiosTimer, Executes, BiosLocs, Vectors
  <2>2. AckedBy(pic.isr, cpu.loc) = Acked(pic.isr, Pic1)
    BY <2>1 DEF AckedBy
  <2>3. Ticked(tickDebt) = tickDebt - 1 /\ tickDebt >= 1 /\ tickDebt - 1 \in Nat
    BY <1>2, <2>1 DEF Ticked, Ready16, TickLocs
  <2>4. CASE "int1C" \in hooked
    <3> DEFINE c == Enter(cpu, "int1C", "ret1C", "g1C", NoKey)
    <3>1. /\ Pushed(cpu, c, "int1C", "ret1C", "g1C", NoKey) /\ SameRegisters(cpu, c)
          /\ c.iflag = FALSE
      BY <1>2, EnterPushes
    <3>2. c.loc \notin BiosLocs /\ ~c.waitKey
      BY <3>1 DEF Pushed, SameRegisters, Ready16, BiosLocs, Vectors, Trampolines
    <3>3. BiosReturn(c, Eoi(Polled, Pic1), Ticked(tickDebt))
      BY <2>1, <2>4 DEF ChainUserTick
    <3>4. cpu' = c
      BY <3>2, <3>3 DEF BiosReturn
    <3>5. pic' = Eoi(Polled, Pic1) /\ timer'.due = timer.due /\ tickDebt' = Ticked(tickDebt)
      BY <1>3, <3>2, <3>3, <3>4
    <3>6. NetGrows(-1)
      BY <1>2, <2>3, <3>5 DEF NetGrows, Net, Count, TypeOK
    <3>7. QED
      BY <1>1, <2>1, <2>2, <3>1, <3>4, <3>5, <3>6 DEF BiosEffects, BiosChains, AtBios
  <2>5. CASE "int1C" \notin hooked
    <3>1. BiosReturn(cpu, Eoi(Polled, Pic1), tickDebt - 1)
      BY <2>1, <2>3, <2>5 DEF ChainUserTick
    <3>2. tickDebt = (tickDebt - 1) + Count(cpu.loc = "int08")
      BY <1>2, <2>1 DEF Count
    <3>3. QED
      BY <1>1, <1>2, <2>1, <2>2, <2>3, <3>1, <3>2, BiosWorks
  <2>6. QED
    BY <2>4, <2>5
<1>5. CASE BiosKeyboard \/ BiosSerial
  <2>1. /\ cpu.loc \in {"int09", "int0C"} /\ cpu.loc \in BiosLocs
        /\ BiosReturn(cpu, Eoi(Polled, Pic1), tickDebt)
    BY <1>5 DEF BiosKeyboard, BiosSerial, Executes, BiosLocs, Vectors
  <2>2. AckedBy(pic.isr, cpu.loc) = Acked(pic.isr, Pic1)
    BY <2>1 DEF AckedBy
  <2>3. tickDebt = tickDebt + Count(cpu.loc = "int08")
    BY <1>2, <2>1 DEF Count
  <2>4. QED
    BY <1>1, <1>2, <2>1, <2>2, <2>3, BiosWorks
<1>6. CASE BiosMouse
  <2> DEFINE call == Enter(cpu, "far", "retMouse", "gMouse", NoKey)
             far  == [call EXCEPT !.iflag = cpu.iflag, !.saved = cpu.ax, !.ax = "packet"]
             p    == Eoi(Eoi(Polled, Pic2), Pic1)
  <2>1. /\ cpu.loc = "int74" /\ cpu.loc \in BiosLocs
        /\ BiosReturn(far, p, tickDebt) \/ BiosReturn(cpu, p, tickDebt)
    BY <1>6 DEF BiosMouse, Executes, BiosLocs, Vectors
  <2>2. AckedBy(pic.isr, cpu.loc) = p.isr
    BY <1>1, <2>1 DEF AckedBy
  <2>3. CASE BiosReturn(far, p, tickDebt)
    <3>1. Pushed(cpu, call, "far", "retMouse", "gMouse", NoKey) /\ SameRegisters(cpu, call)
      BY <1>2, EnterPushes
    <3>2. /\ far.stack = call.stack /\ far.loc = call.loc /\ far.waitKey = call.waitKey
          /\ far.iflag = cpu.iflag /\ far.saved = cpu.ax
      BY <1>2 DEF Enter, CpuState
    <3>3. Pushed(cpu, far, "far", "retMouse", "gMouse", NoKey) /\ far.waitKey = cpu.waitKey
      BY <3>1, <3>2 DEF Pushed, SameRegisters
    <3>4. far.loc \notin BiosLocs /\ ~far.waitKey
      BY <3>3 DEF Pushed, Ready16, BiosLocs, Vectors, Trampolines
    <3>5. cpu' = far
      BY <2>3, <3>4 DEF BiosReturn
    <3>6. pic' = p /\ timer'.due = timer.due /\ tickDebt' = tickDebt
      BY <1>3, <2>3, <3>4, <3>5
    <3>7. NetGrows(0)
      BY <1>2, <3>6 DEF NetGrows, Net, Count, TypeOK
    <3>8. QED
      BY <2>1, <2>2, <3>2, <3>3, <3>5, <3>6, <3>7 DEF BiosEffects, BiosCallsBack, AtBios
  <2>4. CASE BiosReturn(cpu, p, tickDebt)
    <3>1. tickDebt = tickDebt + Count(cpu.loc = "int08")
      BY <1>2, <2>1 DEF Count
    <3>2. QED
      BY <1>1, <1>2, <2>1, <2>2, <2>4, <3>1, BiosWorks
  <2>5. QED
    BY <2>1, <2>3, <2>4
<1>7. QED
  BY <1>4, <1>5, <1>6

\* INT 15h, INT 16h and the return points.
LEMMA ServiceEffects ==
  ASSUME IInv, Ready16, BiosMouseService \/ BiosKeyboardService \/ Trampoline
  PROVE  BiosEffects
<1> USE DEF IInv
<1>1. Polled \in PicState /\ Polled.isr = pic.isr
  BY PolledIsr
<1>2. CpuOK(cpu) /\ cpu \in CpuState /\ tickDebt \in Nat /\ ~cpu.waitKey
  BY DEF CpuOK, Ready16, TypeOK
<1>3. ASSUME NEW c \in CpuState, c.stack = cpu.stack, c.loc = cpu.loc, ~c.waitKey,
             c.iflag = (cpu.iflag \/ cpu.loc = "int16"),
             cpu.loc \notin {"int15", "int16", "retMouse"} => c.ax = cpu.ax,
             IF cpu.loc = "retMouse" /\ cpu.saved # "empty"
             THEN c.ax = cpu.saved /\ c.saved = "empty"
             ELSE c.saved = cpu.saved,
             cpu.loc \in BiosLocs \ {"int08", "int09", "int0C", "int74"},
             BiosReturn(c, Polled, tickDebt)
      PROVE  BiosEffects
  <2>1. CpuOK(c)
    BY <1>2, <1>3, SameFrames DEF CpuOK, Placed
  <2>2. Worked(c)
    BY <1>2, <1>3, <2>1 DEF Worked, CpuState
  <2>3. AckedBy(pic.isr, cpu.loc) = pic.isr
    BY <1>3 DEF AckedBy
  <2>4. tickDebt = tickDebt + Count(cpu.loc = "int08")
    BY <1>2, <1>3 DEF Count
  <2>5. QED
    BY <1>1, <1>2, <1>3, <2>2, <2>3, <2>4, BiosWorks
<1>4. CASE BiosMouseService
  <2> DEFINE c == [cpu EXCEPT !.ax = "none"]
  <2>1. /\ cpu.loc = "int15" /\ BiosReturn(c, Polled, tickDebt)
        /\ cpu.loc \in BiosLocs \ {"int08", "int09", "int0C", "int74"}
    BY <1>4 DEF BiosMouseService, Executes, BiosLocs, Vectors
  <2>2. /\ c \in CpuState /\ c.stack = cpu.stack /\ c.loc = cpu.loc
        /\ c.waitKey = cpu.waitKey /\ c.iflag = cpu.iflag /\ c.saved = cpu.saved
    BY <1>2 DEF CpuState, AxValues
  <2>3. cpu.iflag = (cpu.iflag \/ cpu.loc = "int16")
    BY <1>2, <2>1 DEF CpuState
  <2> HIDE DEF c
  <2>4. QED
    BY <1>2, <1>3, <2>1, <2>2, <2>3
<1>5. CASE BiosKeyboardService
  <2>1. /\ cpu.loc = "int16" /\ cpu.ax \in Functions
        /\ cpu.loc \in BiosLocs \ {"int08", "int09", "int0C", "int74"}
    BY <1>5 DEF BiosKeyboardService, Executes, BiosLocs, Vectors, Ready16
  <2>2. ASSUME NEW v \in AxValues,
               BiosReturn([cpu EXCEPT !.iflag = TRUE, !.ax = v], Polled, tickDebt)
        PROVE  BiosEffects
    <3> DEFINE c == [cpu EXCEPT !.iflag = TRUE, !.ax = v]
    <3>1. /\ c \in CpuState /\ c.stack = cpu.stack /\ c.loc = cpu.loc
          /\ c.waitKey = cpu.waitKey /\ c.iflag = TRUE /\ c.saved = cpu.saved
      BY <1>2, <2>2 DEF CpuState
    <3>2. TRUE = (cpu.iflag \/ cpu.loc = "int16")
      BY <2>1
    <3>3. BiosReturn(c, Polled, tickDebt)
      BY <2>2
    <3> HIDE DEF c
    <3>4. QED
      BY <1>2, <1>3, <2>1, <3>1, <3>2, <3>3
  <2> DEFINE d == [cpu EXCEPT !.iflag = TRUE]
  <2>3. cpu.ax = "read" => bda # <<>>
    BY <2>1 DEF Ready16
  <2>4. \/ BiosReturn([d EXCEPT !.ax = "key"], Polled, tickDebt)
        \/ BiosReturn([d EXCEPT !.ax = IF bda = <<>> THEN @ ELSE "key"], Polled, tickDebt)
    BY <1>5, <2>1, <2>3 DEF BiosKeyboardService, Functions
  <2>5. /\ [d EXCEPT !.ax = "key"] = [cpu EXCEPT !.iflag = TRUE, !.ax = "key"]
        /\ [d EXCEPT !.ax = IF bda = <<>> THEN @ ELSE "key"]
             = [cpu EXCEPT !.iflag = TRUE, !.ax = IF bda = <<>> THEN cpu.ax ELSE "key"]
    BY <1>2 DEF CpuState
  <2>6. "key" \in AxValues /\ cpu.ax \in AxValues
    BY <1>2 DEF CpuState, AxValues
  <2>7. QED
    BY <2>2, <2>4, <2>5, <2>6
<1>6. CASE Trampoline
  <2>1. cpu.loc \in Trampolines
    BY <1>6 DEF Trampoline, Executes, Trampolines
  <2>2. /\ cpu.loc \in BiosLocs \ {"int08", "int09", "int0C", "int74"}
        /\ cpu.loc \notin {"int15", "int16"}
        /\ cpu.iflag = (cpu.iflag \/ cpu.loc = "int16")
    BY <1>2, <2>1 DEF BiosLocs, Vectors, Trampolines, CpuState
  <2>3. CASE cpu.loc # "retMouse" \/ cpu.saved = "empty"
    <3>1. BiosReturn(cpu, Polled, tickDebt)
      BY <1>6, <2>3 DEF Trampoline, Executes
    <3>2. QED
      BY <1>2, <1>3, <2>2, <2>3, <3>1
  <2>4. CASE cpu.loc = "retMouse" /\ cpu.saved # "empty"
    <3> DEFINE c == [cpu EXCEPT !.ax = cpu.saved, !.saved = "empty"]
    <3>1. BiosReturn(c, Polled, tickDebt)
      BY <1>6, <2>4 DEF Trampoline, Executes
    <3>2. /\ c \in CpuState /\ c.stack = cpu.stack /\ c.loc = cpu.loc
          /\ c.waitKey = cpu.waitKey /\ c.iflag = cpu.iflag
          /\ c.ax = cpu.saved /\ c.saved = "empty"
      BY <1>2, <2>4 DEF CpuState
    <3> HIDE DEF c
    <3>3. QED
      BY <1>2, <1>3, <2>2, <2>4, <3>1, <3>2
  <2>5. QED
    BY <2>3, <2>4
<1>7. QED
  BY <1>4, <1>5, <1>6

\* An instruction of the guest leaves the in-service bits and the ticks owed.
LEMMA GuestEffects ==
  ASSUME TypeOK, tickDebt \in Nat, NEW c, GuestCpu(c), tickDebt' = tickDebt
  PROVE  cpu' = c /\ pic'.isr = pic.isr /\ NetGrows(0) /\ bda' = bda
<1>1. cpu' = c /\ bda' = bda /\ pic'.isr = pic.isr /\ timer' = Aged(timer)
  BY PolledIsr DEF GuestCpu
<1>2. timer'.due = timer.due
  BY <1>1 DEF Aged, TypeOK
<1>3. QED
  BY <1>1, <1>2 DEF NetGrows, Net, Count, TypeOK

LEMMA HandlerEffects ==
  ASSUME IInv, Ready16, HandlerSti \/ HandlerProgress
  PROVE  Effects
<1> USE DEF IInv
<1>1. /\ CpuOK(cpu) /\ cpu \in CpuState /\ tickDebt \in Nat
      /\ Polled \in PicState /\ Polled.isr = pic.isr
  BY PolledIsr DEF CpuOK, Ready16, TypeOK
<1>2. ASSUME NEW to
      PROVE  LET c == [cpu EXCEPT !.loc = to]
             IN  Kept(cpu, c, to) /\ SameRegisters(cpu, c) /\ c.iflag = cpu.iflag
  BY <1>1 DEF CpuState, Kept, SameRegisters
<1>3. CASE HandlerSti
  <2> DEFINE c == [cpu EXCEPT !.iflag = TRUE]
  <2>1. Kept(cpu, c, cpu.loc) /\ SameRegisters(cpu, c)
    BY <1>1 DEF CpuState, Kept, SameRegisters
  <2>2. GuestCpu(c) /\ tickDebt' = tickDebt /\ "sti" \in GuestOps /\ cpu.loc \in GuestLocs
    BY <1>3 DEF HandlerSti, Executes
  <2> HIDE DEF c
  <2>3. Stays
    BY <1>1, <2>1, <2>2, GuestEffects DEF Stays, NoSti
  <2>4. QED
    BY <2>3 DEF Effects
<1>4. CASE HandlerReadsPort \/ HandlerChains
  <2>1. PICK from, to :
          /\ cpu.loc = from /\ GuestCpu([cpu EXCEPT !.loc = to])
          /\ <<from, to>> \in Forward
    BY <1>4 DEF HandlerReadsPort, HandlerChains, Executes, Forward
  <2>2. tickDebt' = tickDebt
    BY <1>4 DEF HandlerReadsPort, HandlerChains
  <2>3. cpu' = [cpu EXCEPT !.loc = to] /\ pic'.isr = pic.isr /\ NetGrows(0)
    BY <1>1, <2>1, <2>2, GuestEffects
  <2>5. GoesOn(from, to)
    BY <1>2, <2>1, <2>3 DEF GoesOn
  <2>6. QED
    BY <2>1, <2>5 DEF Effects
<1>5. CASE HandlerEoi
  <2>1. PICK step \in Done :
          /\ Executes(step[1])
          /\ cpu' = [cpu EXCEPT !.loc = step[2]]
          /\ tickDebt' = IF step[1] = "g08" THEN Ticked(tickDebt) ELSE tickDebt
    BY <1>5 DEF HandlerEoi, Done
  <2>2. PICK from, to : step = <<from, to>> /\ <<from, to>> \in Done
    BY <2>1 DEF Done
  <2>3. cpu.loc = from /\ step[1] = from /\ step[2] = to
    BY <2>1, <2>2 DEF Executes
  <2>4. pic'.isr = Acked(pic.isr, Pic1)
    BY <1>1, <1>5, IsrFields DEF HandlerEoi
  <2>5. timer'.due = timer.due
    BY <1>5 DEF HandlerEoi, Aged, TypeOK
  <2>6. NetGrows(IF from = "g08" THEN -1 ELSE 0)
    <3>1. CASE from = "g08"
      <4>1. tickDebt' = tickDebt - 1
        BY <1>1, <2>1, <2>3, <3>1 DEF Ticked
      <4>2. QED
        BY <1>1, <2>5, <3>1, <4>1 DEF NetGrows, Net, Count, TypeOK
    <3>2. CASE from # "g08"
      BY <1>1, <2>1, <2>3, <2>5, <3>2 DEF NetGrows, Net, Count, TypeOK
    <3>3. QED
      BY <3>1, <3>2
  <2>7. SendsEoi(from, to)
    BY <1>2, <2>1, <2>3, <2>4, <2>6 DEF SendsEoi
  <2>8. QED
    BY <2>2, <2>7 DEF Effects
<1>6. CASE HandlerReturns
  <2>1. /\ cpu.loc \in {"g08done", "g09done", "g0Cdone", "g1C", "gMouse"}
        /\ \/ cpu.loc # "gMouse" /\ GuestCpu(Iret(cpu))
           \/ cpu.loc = "gMouse" /\ GuestCpu([Iret(cpu) EXCEPT !.iflag = cpu.iflag])
        /\ tickDebt' = tickDebt
    BY <1>6 DEF HandlerReturns, Executes
  <2>2. Len(cpu.stack) > 0
    BY <1>1, <2>1 DEF CpuOK, Owned, CpuState
  <2>3. /\ Popped(cpu, Iret(cpu)) /\ SameRegisters(cpu, Iret(cpu))
        /\ Iret(cpu).iflag = cpu.stack[Len(cpu.stack)].iflag
    BY <1>1, <2>2, IretPops
  <2>4. pic'.isr = pic.isr /\ NetGrows(0)
    BY <1>1, <2>1, GuestEffects
  <2>5. CASE cpu.loc # "gMouse" /\ GuestCpu(Iret(cpu))
    <3>1. cpu' = Iret(cpu)
      BY <2>5 DEF GuestCpu
    <3>2. QED
      BY <2>1, <2>3, <2>4, <2>5, <3>1 DEF Effects, GuestReturns
  <2>6. CASE cpu.loc = "gMouse" /\ GuestCpu([Iret(cpu) EXCEPT !.iflag = cpu.iflag])
    <3> DEFINE c == [Iret(cpu) EXCEPT !.iflag = cpu.iflag]
    <3>1. /\ c.stack = Iret(cpu).stack /\ c.loc = Iret(cpu).loc
          /\ SameRegisters(Iret(cpu), c) /\ c.iflag = cpu.iflag
      BY <1>1 DEF Iret, CpuState, SameRegisters
    <3>2. cpu' = c
      BY <2>6 DEF GuestCpu
    <3> HIDE DEF c
    <3>3. Popped(cpu, c) /\ SameRegisters(cpu, c)
      BY <2>3, <3>1 DEF Popped, SameRegisters
    <3>4. QED
      BY <2>1, <2>4, <2>6, <3>1, <3>2, <3>3 DEF Effects, GuestReturns
  <2>7. QED
    BY <2>1, <2>5, <2>6
<1>7. QED
  BY <1>3, <1>4, <1>5, <1>6 DEF HandlerProgress

LEMMA AppEffects ==
  ASSUME IInv, Ready16, App
  PROVE  Effects
<1> USE DEF IInv
<1>1. /\ CpuOK(cpu) /\ cpu \in CpuState /\ tickDebt \in Nat
      /\ Polled \in PicState /\ Polled.isr = pic.isr
  BY PolledIsr DEF CpuOK, Ready16, TypeOK
<1>2. ASSUME NEW c \in CpuState, c.stack = cpu.stack, c.loc = cpu.loc, SameRegisters(cpu, c),
             c.iflag => cpu.iflag \/ cpu.loc = "app", GuestCpu(c), tickDebt' = tickDebt
      PROVE  Stays
  BY <1>1, <1>2, GuestEffects DEF Stays, Kept
<1>3. CASE AppComputes \/ \E vec \in Hookable : AppHooks(vec)
  <2>1. GuestCpu(cpu) /\ tickDebt' = tickDebt
    BY <1>3 DEF AppComputes, AppHooks
  <2>2. QED
    BY <1>1, <1>2, <2>1 DEF SameRegisters, Effects
<1>4. CASE AppCli \/ AppSti \/ AppHlt
  <2>1. PICK c \in {[cpu EXCEPT !.iflag = FALSE], [cpu EXCEPT !.iflag = TRUE],
                    [cpu EXCEPT !.halted = TRUE]} :
          GuestCpu(c)
    BY <1>4 DEF AppCli, AppSti, AppHlt
  <2>2. tickDebt' = tickDebt /\ cpu.loc = "app"
    BY <1>4 DEF AppCli, AppSti, AppHlt, Executes
  <2>3. c \in CpuState /\ c.stack = cpu.stack /\ c.loc = cpu.loc /\ SameRegisters(cpu, c)
    BY <1>1, <2>1 DEF CpuState, SameRegisters
  <2>4. QED
    BY <1>2, <2>1, <2>2, <2>3 DEF Effects
<1>5. CASE AppMasks
  <2>1. /\ cpu' = cpu /\ bda' = bda /\ tickDebt' = tickDebt /\ pic'.isr = pic.isr
    BY <1>1, <1>5, IsrFields DEF AppMasks
  <2>2. timer'.due = timer.due
    BY <1>5 DEF AppMasks, Aged, TypeOK
  <2>3. NetGrows(0)
    BY <2>1, <2>2 DEF NetGrows, Net, Count, TypeOK
  <2>4. QED
    BY <2>1, <2>3 DEF Effects, Stays, Kept, SameRegisters
<1>6. ASSUME NEW vec \in {"int15", "int16"}, NEW fn \in Functions \cup MouseFunctions,
             AppCalls(vec, fn)
      PROVE  Calls(vec, fn) /\ fn \in AxValues
  <2> DEFINE c == [cpu EXCEPT !.ax = fn]
  <2>1. /\ cpu.loc = "app" /\ GuestCpu(Dispatch(c, vec, NoKey)) /\ tickDebt' = tickDebt
        /\ vec = "int15" => MouseLine \in Devices
        /\ vec = "int16" => fn \in Functions /\ (Polling /\ fn = "read" => bda # <<>>)
    BY <1>6 DEF AppCalls, Executes, Polling, Functions
  <2>2. fn \in AxValues
    BY DEF AxValues
  <2>3. c \in CpuState /\ c.loc = "app"
    BY <1>1, <2>1, <2>2 DEF CpuState
  <2>4. Dispatch(c, vec, NoKey) = Enter(c, vec, "app", vec, NoKey)
    BY <2>3 DEF Dispatch, Handler, GuestEntry
  <2>5. /\ cpu' = Enter(c, vec, "app", vec, NoKey)
        /\ pic'.isr = pic.isr /\ NetGrows(0) /\ bda' = bda
    BY <1>1, <2>1, <2>4, GuestEffects
  <2>6. Pushed(c, cpu', vec, "app", vec, NoKey) /\ SameRegisters(c, cpu') /\ ~cpu'.iflag
    BY <2>3, <2>5, EnterPushes
  <2>7. QED
    BY <2>1, <2>2, <2>5, <2>6 DEF Calls
<1>7. CASE \/ \E fn \in Functions : AppCalls("int16", fn)
           \/ \E fn \in MouseFunctions : AppCalls("int15", fn)
  <2>1. PICK vec \in {"int15", "int16"}, fn \in Functions \cup MouseFunctions :
          AppCalls(vec, fn)
    BY <1>7
  <2>2. QED
    BY <1>6, <2>1 DEF Effects
<1>8. QED
  BY <1>3, <1>4, <1>5, <1>7 DEF App, Effects

\* What the host and the timer do.  Only a key that is loaded touches the scan
\* code, and no key is loaded while IRQ1 is in service.
LEMMA HostEffects ==
  ASSUME IInv, Ready16, HostKey \/ StepKeys \/ HostMouse \/ SerialByte \/ TimerElapses
  PROVE  Stays /\ cpu' = cpu
<1> USE DEF IInv
<1>1. tickDebt \in Nat /\ cpu \in CpuState /\ timer.due \in BOOLEAN
  BY DEF Ready16, TypeOK
<1>2. /\ cpu' = cpu /\ bda' = bda /\ pic'.isr = pic.isr
  <2>1. ASSUME NEW queue, ProcessKeyPresses(queue)
        PROVE  cpu' = cpu /\ bda' = bda /\ pic'.isr = pic.isr
    BY <2>1, IsrFields DEF ProcessKeyPresses, CpuKeyPress, Ready16, TypeOK
  <2>2. QED
    BY <2>1, IsrFields DEF HostKey, StepKeys, HostMouse, SerialByte, TimerElapses, TypeOK
<1>3. NetGrows(0)
  <2>1. CASE TimerElapses
    <3>1. /\ ~timer.due /\ tickDebt' = tickDebt + 1
          /\ timer' = [timer EXCEPT !.due = TRUE]
      BY <1>1, <2>1 DEF TimerElapses, Owed
    <3>2. timer'.due = TRUE
      BY <3>1 DEF TypeOK
    <3>3. QED
      BY <1>1, <3>1, <3>2 DEF NetGrows, Net, Count
  <2>2. CASE ~TimerElapses
    <3>1. tickDebt' = tickDebt /\ timer' = timer
      BY <2>2 DEF HostKey, StepKeys, HostMouse, SerialByte
    <3>2. QED
      BY <1>1, <3>1 DEF NetGrows, Net, Count
  <2>3. QED
    BY <2>1, <2>2
<1>4. QED
  BY <1>2, <1>3 DEF Stays, Kept, SameRegisters

LEMMA InterruptEffects ==
  ASSUME IInv, Ready16, NEW l \in {PitLine, KeyboardLine, Com1Line, MouseLine},
         TakeInterrupt(l)
  PROVE  Interrupted(l)
<1> USE DEF IInv
<1>1. cpu \in CpuState /\ tickDebt \in Nat /\ timer.due \in BOOLEAN
  BY DEF TypeOK, Ready16
<1>2. cpu.iflag /\ l \in Pending /\ l \notin pic.isr
  BY DEF TakeInterrupt, Takes, Ready
<1>3. pic'.isr = pic.isr \cup {l}
  BY IsrFields DEF TakeInterrupt, TypeOK
<1>4. cpu' = Enter(cpu, IrqVector(l), cpu.loc, Handler(IrqVector(l)),
                   IF l = KeyboardLine THEN kbc.scanCode ELSE NoKey)
  BY DEF TakeInterrupt, Dispatch
<1>5. /\ Pushed(cpu, cpu', IrqVector(l), cpu.loc, Handler(IrqVector(l)),
                IF l = KeyboardLine THEN kbc.scanCode ELSE NoKey)
      /\ SameRegisters(cpu, cpu') /\ ~cpu'.iflag
  BY <1>1, <1>4, EnterPushes
<1>6. NetGrows(Count(l = PitLine))
  <2>1. tickDebt' = tickDebt
    BY DEF TakeInterrupt
  <2>2. CASE l = PitLine
    <3>1. timer.due
      BY <1>2, <2>2 DEF Pending, PitLine, KeyboardLine, Com1Line, MouseLine
    <3>2. timer'.due = FALSE
      BY <2>2 DEF TakeInterrupt
    <3>3. QED
      BY <1>1, <2>1, <2>2, <3>1, <3>2 DEF NetGrows, Net, Count
  <2>3. CASE l # PitLine
    <3>1. timer'.due = timer.due
      BY <2>3 DEF TakeInterrupt, Aged, TypeOK
    <3>2. QED
      BY <1>1, <2>1, <2>3, <3>1 DEF NetGrows, Net, Count
  <2>4. QED
    BY <2>2, <2>3
<1>7. l = KeyboardLine => ~kbc'.pendingKey
  BY DEF TakeInterrupt, TakePendingKey, TypeOK, KbcState, KeyboardLine, MouseLine
<1>8. QED
  BY <1>2, <1>3, <1>5, <1>6, <1>7 DEF Interrupted

\* Every step has one of the effects.
LEMMA StepEffects ==
  ASSUME IInv, Ready16, [Next]_vars
  PROVE  Effects
<1>1. CASE HostKey \/ StepKeys \/ HostMouse \/ SerialByte \/ TimerElapses
  BY <1>1, HostEffects DEF Effects
<1>2. ASSUME NEW l \in {PitLine, KeyboardLine, Com1Line, MouseLine}, TakeInterrupt(l)
      PROVE  Effects
  BY <1>2, InterruptEffects DEF Effects
<1>3. CASE Halted
  <2>1. cpu' = cpu /\ bda' = bda /\ tickDebt' = tickDebt /\ timer'.due = timer.due
    BY <1>3 DEF Halted, Aged, IInv, TypeOK
  <2>2. pic'.isr = pic.isr
    BY <1>3, PolledIsr DEF Halted, IInv
  <2>3. NetGrows(0)
    BY <2>1 DEF NetGrows, Net, Count, IInv, TypeOK
  <2>4. QED
    BY <2>1, <2>2, <2>3 DEF Effects, Stays, Kept, SameRegisters
<1>4. CASE Bios
  BY <1>4, IrqHandlerEffects, ServiceEffects DEF Bios, Effects
<1>5. CASE App
  BY <1>5, AppEffects
<1>6. CASE HandlerSti \/ HandlerProgress
  BY <1>6, HandlerEffects
<1>7. CASE UNCHANGED vars
  <2>1. UNCHANGED <<cpu, pic, bda, tickDebt, timer>>
    BY <1>7 DEF vars
  <2>2. NetGrows(0)
    BY <2>1 DEF NetGrows, Net, Count, IInv, TypeOK
  <2>3. QED
    BY <2>1, <2>2 DEF Effects, Stays, Kept, SameRegisters
<1>8. QED
  BY <1>1, <1>2, <1>3, <1>4, <1>5, <1>6, <1>7 DEF Next, StepCpu

-----------------------------------------------------------------------------
(* A polling guest never waits, and no tick is counted that is not owed. *)

Frames(c) == {c.stack[i] : i \in 1..Len(c.stack)}

LEMMA FramesOf ==
  ASSUME NEW c \in CpuState, NEW d
  PROVE  /\ \A to : Kept(c, d, to) => Frames(d) = Frames(c)
         /\ \A vec, ret, to, key : Pushed(c, d, vec, ret, to, key)
              => Frames(d) = Frames(c) \cup
                   {[ret |-> ret, iflag |-> c.iflag, vec |-> vec, ax |-> c.ax, key |-> key]}
         /\ Len(c.stack) > 0 => c.stack[Len(c.stack)] \in Frames(c)
         /\ Len(c.stack) > 0 /\ Popped(c, d) => Frames(d) \subseteq Frames(c)
<1>1. Len(c.stack) \in Nat
  BY DEF CpuState
<1>2. ASSUME NEW to, Kept(c, d, to) PROVE Frames(d) = Frames(c)
  BY <1>1, <1>2 DEF Kept, Frames
<1>3. ASSUME NEW vec, NEW ret, NEW to, NEW key, Pushed(c, d, vec, ret, to, key)
      PROVE  Frames(d) = Frames(c) \cup
               {[ret |-> ret, iflag |-> c.iflag, vec |-> vec, ax |-> c.ax, key |-> key]}
  <2>1. /\ \A i : i \in 1..Len(d.stack) <=> i \in 1..Len(c.stack) \/ i = Len(c.stack) + 1
        /\ \A i \in 1..Len(c.stack) : d.stack[i] = c.stack[i]
    BY <1>1, <1>3 DEF Pushed
  <2>2. QED
    BY <1>3, <2>1 DEF Pushed, Frames
<1>4. Len(c.stack) > 0 => c.stack[Len(c.stack)] \in Frames(c)
  BY <1>1 DEF Frames
<1>5. ASSUME Len(c.stack) > 0, Popped(c, d) PROVE Frames(d) \subseteq Frames(c)
  BY <1>1, <1>5 DEF Popped, Frames
<1>6. QED
  BY <1>2, <1>3, <1>4, <1>5

\* INT 16h runs right after it is called, before anything can interrupt it.
Quiet ==
  /\ ~cpu.waitKey
  /\ \A f \in Frames(cpu) : f.ret # "int16"
  /\ cpu.loc = "int16" =>
       ~cpu.iflag /\ cpu.ax \in Functions /\ (cpu.ax = "read" => bda # <<>>)

\* A tick is owed for every handler that will still count one, and for the
\* timer interrupt that is due.
Counted == Net(tickDebt, timer.due) >= Size(cpu, TickLocs)

Core == IInv /\ Quiet /\ Counted

LEMMA CoreReady ==
  ASSUME Core
  PROVE  /\ Ready16 /\ tickDebt \in Nat
         /\ CpuOK(cpu) /\ cpu \in CpuState /\ Size(cpu, TickLocs) \in Nat
<1>1. CpuOK(cpu) /\ cpu \in CpuState /\ Size(cpu, TickLocs) \in Nat
  BY SizeType DEF Core, IInv, CpuOK
<1>2. tickDebt \in Int /\ timer.due \in BOOLEAN
  BY DEF Core, IInv, TypeOK
<1>3. tickDebt >= Size(cpu, TickLocs)
  BY <1>1, <1>2 DEF Core, Counted, Net, Count
<1>4. cpu.loc \in TickLocs => Size(cpu, TickLocs) >= 1
  <2>1. SUFFICES ASSUME cpu.loc \in TickLocs PROVE Size(cpu, TickLocs) # 0
    BY <1>1
  <2>2. Places(cpu, TickLocs) # {} /\ IsFiniteSet(Places(cpu, TickLocs))
    BY <1>1, <2>1, TopPlace, SizeType DEF TickLocs
  <2>3. QED
    BY <2>2, FS_EmptySet DEF Size
<1>5. QED
  BY <1>1, <1>2, <1>3, <1>4 DEF Core, Quiet, Ready16

\* Where the handler of a line starts.
LEMMA LineHandlers ==
  ASSUME NEW l \in {PitLine, KeyboardLine, Com1Line, MouseLine}
  PROVE  LET to == Handler(IrqVector(l))
         IN  /\ to \in BeforeEoi /\ to \in Locs
             /\ to \in TickLocs <=> l = PitLine
             /\ to \in KeyLocs <=> l = KeyboardLine
             /\ to \in {"int0C", "g0C"} <=> l = Com1Line
             /\ to = "int74" <=> l = MouseLine
BY DEF Handler, GuestEntry, IrqVector, PitLine, KeyboardLine, Com1Line, MouseLine,
       BeforeEoi, TickLocs, KeyLocs, Locs, BiosLocs, Vectors, GuestLocs

\* A BIOS handler does its work within its own frame.
LEMMA WorkedFields ==
  ASSUME NEW c, Worked(c), cpu.loc \in BiosLocs
  PROVE  /\ c \in CpuState /\ CpuOK(c) /\ c.stack = cpu.stack /\ c.loc = cpu.loc
         /\ c.waitKey = cpu.waitKey
         /\ Len(c.stack) > 0
         /\ Frames(c) = Frames(cpu) /\ (\A L : Size(c, L) = Size(cpu, L))
<1>1. /\ c \in CpuState /\ CpuOK(c) /\ c.stack = cpu.stack /\ c.loc = cpu.loc
      /\ c.waitKey = cpu.waitKey
  BY DEF Worked, CpuOK
<1>2. Frames(c) = Frames(cpu)
  BY <1>1 DEF Frames
<1>3. ASSUME NEW L PROVE Size(c, L) = Size(cpu, L)
  <2>1. \A i : LocAt(c, i) = LocAt(cpu, i)
    BY <1>1 DEF LocAt
  <2>2. Places(c, L) = Places(cpu, L)
    BY <1>1, <2>1 DEF Places
  <2>3. QED
    BY <2>2 DEF Size
<1>4. cpu.loc # "app"
  BY DEF BiosLocs, Vectors, Trampolines
<1>5. Len(c.stack) > 0
  BY <1>1, <1>4 DEF CpuOK, CpuState, Owned
<1>6. QED
  BY <1>1, <1>2, <1>3, <1>5

LEMMA QuietStep ==
  ASSUME Core, Polling, [Next]_vars
  PROVE  Quiet'
<1>1. /\ cpu \in CpuState /\ CpuOK(cpu) /\ Effects /\ Quiet
  BY CoreReady, StepEffects DEF Core
<1>2. cpu.loc # "app" => Len(cpu.stack) > 0
  BY <1>1 DEF CpuOK, CpuState, Owned
<1>3. CASE Stays
  BY <1>1, <1>3, FramesOf DEF Stays, Quiet, Kept, SameRegisters, GuestLocs
<1>4. ASSUME NEW to, to # "int16", Kept(cpu, cpu', to), cpu'.waitKey = cpu.waitKey
      PROVE  Quiet'
  BY <1>1, <1>4, FramesOf DEF Quiet, Kept
<1>5. ASSUME NEW vec, NEW ret, NEW to, NEW key, ret # "int16", to # "int16",
             Pushed(cpu, cpu', vec, ret, to, key), cpu'.waitKey = cpu.waitKey
      PROVE  Quiet'
  BY <1>1, <1>5, FramesOf DEF Quiet, Pushed
<1>6. ASSUME cpu.loc # "app", Popped(cpu, cpu'), cpu'.waitKey = cpu.waitKey
      PROVE  Quiet'
  BY <1>1, <1>2, <1>6, FramesOf DEF Quiet, Popped
<1>7. ASSUME NEW from, NEW to, <<from, to>> \in Forward, GoesOn(from, to)
      PROVE  Quiet'
  BY <1>4, <1>7 DEF Forward, GoesOn, SameRegisters
<1>8. ASSUME NEW from, NEW to, <<from, to>> \in Done, SendsEoi(from, to)
      PROVE  Quiet'
  BY <1>4, <1>8 DEF Done, SendsEoi, SameRegisters
<1>9. ASSUME NEW l \in {PitLine, KeyboardLine, Com1Line, MouseLine}, Interrupted(l)
      PROVE  Quiet'
  <2>1. cpu.loc # "int16" /\ Handler(IrqVector(l)) # "int16"
    BY <1>1, <1>9, LineHandlers DEF Interrupted, Quiet, BeforeEoi
  <2>2. QED
    BY <1>5, <1>9, <2>1 DEF Interrupted, SameRegisters
<1>10. ASSUME NEW vec \in {"int15", "int16"}, NEW fn \in AxValues, Calls(vec, fn)
       PROVE  Quiet'
  <2> DEFINE c == [cpu EXCEPT !.ax = fn]
  <2>1. /\ c \in CpuState /\ c.stack = cpu.stack /\ c.ax = fn /\ c.waitKey = cpu.waitKey
    BY <1>1 DEF CpuState
  <2>2. /\ Pushed(c, cpu', vec, "app", vec, NoKey) /\ SameRegisters(c, cpu') /\ ~cpu'.iflag
        /\ vec = "int16" => fn \in Functions /\ (fn = "read" => bda' # <<>>)
    BY <1>10 DEF Calls, Polling
  <2>3. Frames(c) = Frames(cpu)
    BY <2>1 DEF Frames
  <2> HIDE DEF c
  <2>4. \A f \in Frames(cpu') : f.ret # "int16"
    BY <1>1, <2>1, <2>2, <2>3, FramesOf DEF Quiet
  <2>5. QED
    BY <1>1, <2>1, <2>2, <2>4 DEF Quiet, Pushed, SameRegisters
<1>11. CASE GuestReturns
  BY <1>6, <1>11 DEF GuestReturns, SameRegisters
<1>12. CASE BiosEffects
  <2>1. CASE BiosChains \/ BiosCallsBack
    BY <1>5, <2>1 DEF BiosChains, BiosCallsBack, SameRegisters
  <2>2. ASSUME NEW c, Worked(c), BiosReturns(c) \/ BiosTicks(c) \/ BiosTimed(c)
        PROVE  Quiet'
    <3>1. /\ c \in CpuState /\ c.stack = cpu.stack /\ c.waitKey = cpu.waitKey
          /\ Len(c.stack) > 0 /\ Frames(c) = Frames(cpu)
      BY <2>2, WorkedFields DEF BiosReturns, BiosTicks, BiosTimed, AtBios
    <3>2. cpu'.waitKey = cpu.waitKey
      BY <2>2, <3>1 DEF BiosReturns, BiosTicks, BiosTimed, SameRegisters
    <3>3. CASE BiosReturns(c)
      BY <1>1, <3>1, <3>2, <3>3, FramesOf DEF Quiet, BiosReturns, Popped
    <3>4. CASE BiosTicks(c)
      BY <1>1, <3>1, <3>2, <3>4, FramesOf DEF Quiet, BiosTicks, Kept
    <3>5. CASE BiosTimed(c)
      <4>1. Pushed(c, cpu', "int08", "retTimer", "g08", NoKey) /\ cpu'.loc = "g08"
        BY <3>5 DEF BiosTimed, Pushed
      <4>2. QED
        BY <1>1, <3>1, <3>2, <4>1, FramesOf DEF Quiet
    <3>6. QED
      BY <2>2, <3>3, <3>4, <3>5
  <2>3. QED
    BY <1>12, <2>1, <2>2 DEF BiosEffects
<1>13. QED
  BY <1>1, <1>3, <1>7, <1>8, <1>9, <1>10, <1>11, <1>12 DEF Effects

\* How many owners are at the locations L after each effect.
LEMMA SizeEffects ==
  ASSUME CpuOK(cpu), NEW L, "app" \notin L
  PROVE  LET n == Size(cpu, L) - Count(cpu.loc \in L)
         IN
         /\ Stays => Size(cpu', L) = Size(cpu, L)
         /\ \A from, to : (<<from, to>> \in Forward /\ GoesOn(from, to))
                            \/ (<<from, to>> \in Done /\ SendsEoi(from, to))
              => cpu.loc = from /\ Size(cpu', L) = n + Count(to \in L)
         /\ \A l \in {PitLine, KeyboardLine, Com1Line, MouseLine} : Interrupted(l)
              => Size(cpu', L) = Size(cpu, L) + Count(Handler(IrqVector(l)) \in L)
         /\ \A vec \in {"int15", "int16"}, fn \in AxValues : Calls(vec, fn)
              => Size(cpu', L) = Size(cpu, L) + Count(vec \in L)
         /\ GuestReturns => Size(cpu', L) = n
         /\ BiosChains => Size(cpu', L) = n + Count("ret1C" \in L) + Count("g1C" \in L)
         /\ BiosCallsBack => Size(cpu', L) = n + Count("retMouse" \in L) + Count("gMouse" \in L)
         /\ \A c : Worked(c) /\ BiosReturns(c) => Size(cpu', L) = n
         /\ \A c : Worked(c) /\ BiosTicks(c) => Size(cpu', L) = n + Count("ret1C" \in L)
         /\ \A c : Worked(c) /\ BiosTimed(c)
              => Size(cpu', L) = n + Count("retTimer" \in L) + Count("g08" \in L)
<1> DEFINE n == Size(cpu, L) - Count(cpu.loc \in L)
<1>1. /\ cpu \in CpuState /\ Size(cpu, L) \in Nat /\ Count(cpu.loc \in L) \in Nat
      /\ n + Count(cpu.loc \in L) = Size(cpu, L)
  BY SizeType DEF CpuOK, Count
<1>2. /\ Len(cpu.stack) \in Nat /\ (Len(cpu.stack) = 0 <=> cpu.loc = "app")
  BY <1>1 DEF CpuOK, CpuState, Owned
<1> HIDE DEF n
<1>a. n = Size(cpu, L) - Count(cpu.loc \in L)
  BY DEF n
<1>3. ASSUME NEW to, Kept(cpu, cpu', to), cpu.loc # "app" \/ to = cpu.loc
      PROVE  Size(cpu', L) = n + Count(to \in L)
  BY <1>2, <1>3, <1>a, SizeKept
<1>4. ASSUME NEW vec, NEW ret, NEW to, NEW key, Pushed(cpu, cpu', vec, ret, to, key),
             cpu.loc # "app" \/ ret = cpu.loc
      PROVE  Size(cpu', L) = n + Count(ret \in L) + Count(to \in L)
  BY <1>2, <1>4, <1>a, SizePushed
<1>5. ASSUME cpu.loc # "app", Popped(cpu, cpu') PROVE Size(cpu', L) = n
  BY <1>2, <1>5, <1>a, SizePopped
<1>6. Stays => Size(cpu', L) = Size(cpu, L)
  BY <1>1, <1>3 DEF Stays
<1>7. ASSUME NEW from, NEW to,
             (<<from, to>> \in Forward /\ GoesOn(from, to))
               \/ (<<from, to>> \in Done /\ SendsEoi(from, to))
      PROVE  cpu.loc = from /\ Size(cpu', L) = n + Count(to \in L)
  <2>1. cpu.loc = from /\ cpu.loc # "app" /\ Kept(cpu, cpu', to)
    BY <1>7 DEF Forward, Done, GoesOn, SendsEoi
  <2>2. QED
    BY <1>3, <2>1
<1>8. ASSUME NEW l \in {PitLine, KeyboardLine, Com1Line, MouseLine}, Interrupted(l)
      PROVE  Size(cpu', L) = Size(cpu, L) + Count(Handler(IrqVector(l)) \in L)
  <2>1. Size(cpu', L) = n + Count(cpu.loc \in L) + Count(Handler(IrqVector(l)) \in L)
    BY <1>4, <1>8 DEF Interrupted
  <2>2. QED
    BY <1>1, <2>1
<1>9. ASSUME NEW vec \in {"int15", "int16"}, NEW fn \in AxValues, Calls(vec, fn)
      PROVE  Size(cpu', L) = Size(cpu, L) + Count(vec \in L)
  <2> DEFINE c == [cpu EXCEPT !.ax = fn]
  <2>1. /\ c \in CpuState /\ c.stack = cpu.stack /\ c.loc = cpu.loc /\ cpu.loc = "app"
        /\ c.waitKey = cpu.waitKey
    BY <1>1, <1>9 DEF CpuState, Calls
  <2>2. Pushed(c, cpu', vec, "app", vec, NoKey)
    BY <1>9 DEF Calls
  <2> HIDE DEF c
  <2>3. CpuOK(c)
    BY <2>1, SameFrames DEF CpuOK, Placed
  <2>4. Size(c, L) = Size(cpu, L)
    <3>1. \A i : LocAt(c, i) = LocAt(cpu, i)
      BY <2>1 DEF LocAt
    <3>2. Places(c, L) = Places(cpu, L)
      BY <2>1, <3>1 DEF Places
    <3>3. QED
      BY <3>2 DEF Size
  <2>5. Size(cpu', L) = Size(c, L) - Count(c.loc \in L) + Count("app" \in L) + Count(vec \in L)
    BY <2>2, <2>3, SizePushed
  <2>6. Count(c.loc \in L) = 0 /\ Count("app" \in L) = 0
    BY <2>1 DEF Count
  <2>7. QED
    BY <1>1, <2>4, <2>5, <2>6
<1>10. GuestReturns => Size(cpu', L) = n
  BY <1>5 DEF GuestReturns
<1>11. BiosChains => Size(cpu', L) = n + Count("ret1C" \in L) + Count("g1C" \in L)
  BY <1>4 DEF BiosChains
<1>12. BiosCallsBack => Size(cpu', L) = n + Count("retMouse" \in L) + Count("gMouse" \in L)
  BY <1>4 DEF BiosCallsBack
<1>13. ASSUME NEW c, Worked(c), cpu.loc \in BiosLocs
       PROVE  /\ CpuOK(c) /\ Len(c.stack) > 0 /\ n = Size(c, L) - Count(c.loc \in L)
  <2>1. /\ CpuOK(c) /\ c.loc = cpu.loc /\ Len(c.stack) > 0
        /\ Size(c, L) = Size(cpu, L)
    BY <1>13, WorkedFields
  <2>2. QED
    BY <2>1, <1>a
<1>14. ASSUME NEW c, Worked(c), BiosReturns(c) PROVE Size(cpu', L) = n
  <2>1. cpu.loc \in BiosLocs /\ Popped(c, cpu')
    BY <1>14 DEF BiosReturns, AtBios
  <2>2. QED
    BY <1>13, <1>14, <2>1, SizePopped
<1>15. ASSUME NEW c, Worked(c), BiosTicks(c) PROVE Size(cpu', L) = n + Count("ret1C" \in L)
  <2>1. cpu.loc \in BiosLocs /\ Kept(c, cpu', "ret1C")
    BY <1>15 DEF BiosTicks, AtBios
  <2>2. CpuOK(c) /\ ~(Len(c.stack) = 0) /\ n = Size(c, L) - Count(c.loc \in L)
    BY <1>13, <1>15, <2>1 DEF CpuOK, CpuState
  <2>3. Size(cpu', L) = Size(c, L) - Count(c.loc \in L) + Count("ret1C" \in L)
    BY <2>1, <2>2, SizeKept
  <2>4. QED
    BY <2>2, <2>3
<1>16. ASSUME NEW c, Worked(c), BiosTimed(c)
       PROVE  Size(cpu', L) = n + Count("retTimer" \in L) + Count("g08" \in L)
  <2>1. cpu.loc \in BiosLocs /\ Pushed(c, cpu', "int08", "retTimer", "g08", NoKey)
    BY <1>16 DEF BiosTimed, AtBios
  <2>2. CpuOK(c) /\ ~(Len(c.stack) = 0) /\ n = Size(c, L) - Count(c.loc \in L)
    BY <1>13, <1>16, <2>1 DEF CpuOK, CpuState
  <2>3. Size(cpu', L) = Size(c, L) - Count(c.loc \in L) + Count("retTimer" \in L)
                          + Count("g08" \in L)
    BY <2>1, <2>2, SizePushed
  <2>4. QED
    BY <2>2, <2>3
<1>17. QED
  BY <1>a, <1>6, <1>7, <1>8, <1>9, <1>10, <1>11, <1>12, <1>14, <1>15, <1>16

LEMMA CountedStep ==
  ASSUME Core, Polling, [Next]_vars
  PROVE  Counted'
<1> DEFINE net  == Net(tickDebt, timer.due)
           net2 == Net(tickDebt', timer'.due)
           size == Size(cpu, TickLocs)
           size2 == Size(cpu', TickLocs)
           at(loc) == Count(loc \in TickLocs)
<1>1. Effects /\ CpuOK(cpu) /\ size \in Nat /\ net \in Int /\ net >= size
  <2>1. Effects /\ CpuOK(cpu) /\ size \in Nat /\ net >= size
    BY CoreReady, StepEffects DEF Core, Counted
  <2>2. tickDebt \in Int
    BY DEF Core, IInv, TypeOK
  <2>3. QED
    BY <2>1, <2>2 DEF Net, Count
<1>2. /\ \A loc : loc \in TickLocs => at(loc) = 1
      /\ \A loc : loc \notin TickLocs => at(loc) = 0
      /\ "app" \notin TickLocs
  BY DEF Count, TickLocs
<1>3. SUFFICES net2 >= size2
  BY DEF Counted
<1> HIDE DEF net, net2, size, size2, at
<1>4. ASSUME NEW k \in Int, NEW m \in Int, net2 = net + k, size2 = size + m, k >= m
      PROVE  net2 >= size2
  BY <1>1, <1>4
<1>5. CASE Stays
  BY <1>1, <1>2, <1>4, <1>5, SizeEffects DEF Stays, NetGrows, net, net2, size, size2
<1>6. ASSUME NEW from, NEW to, <<from, to>> \in Forward, GoesOn(from, to)
      PROVE  net2 >= size2
  <2>1. net2 = net + 0
    BY <1>6 DEF GoesOn, NetGrows, net, net2
  <2>2. size2 = size - at(from) + at(to)
    BY <1>1, <1>2, <1>6, SizeEffects DEF size, size2, at
  <2>3. at(from) = at(to) /\ at(to) \in {0, 1}
    BY <1>2, <1>6 DEF Forward, TickLocs
  <2>4. size2 = size + 0
    BY <1>1, <2>2, <2>3
  <2>5. QED
    BY <1>4, <2>1, <2>4
<1>7. ASSUME NEW from, NEW to, <<from, to>> \in Done, SendsEoi(from, to)
      PROVE  net2 >= size2
  <2>1. size2 = size - at(from) + at(to)
    BY <1>1, <1>2, <1>7, SizeEffects DEF size, size2, at
  <2>2. at(to) = 0 /\ at(from) = (IF from = "g08" THEN 1 ELSE 0)
    BY <1>2, <1>7 DEF Done, TickLocs
  <2>3. net2 = net + (IF from = "g08" THEN -1 ELSE 0)
    BY <1>7 DEF SendsEoi, NetGrows, net, net2
  <2>4. QED
    BY <1>1, <2>1, <2>2, <2>3
<1>8. ASSUME NEW l \in {PitLine, KeyboardLine, Com1Line, MouseLine}, Interrupted(l)
      PROVE  net2 >= size2
  <2>1. size2 = size + at(Handler(IrqVector(l)))
    BY <1>1, <1>2, <1>8, SizeEffects DEF size, size2, at
  <2>2. at(Handler(IrqVector(l))) = Count(l = PitLine) /\ Count(l = PitLine) \in {0, 1}
    BY <1>2, LineHandlers DEF Count
  <2>3. net2 = net + Count(l = PitLine)
    BY <1>8 DEF Interrupted, NetGrows, net, net2
  <2>4. QED
    BY <1>4, <2>1, <2>2, <2>3
<1>9. ASSUME NEW vec \in {"int15", "int16"}, NEW fn \in AxValues, Calls(vec, fn)
      PROVE  net2 >= size2
  <2>1. size2 = size + at(vec) /\ at(vec) = 0
    BY <1>1, <1>2, <1>9, SizeEffects DEF size, size2, at, TickLocs
  <2>2. net2 = net + 0
    BY <1>9 DEF Calls, NetGrows, net, net2
  <2>3. QED
    BY <1>4, <2>1, <2>2
<1>10. CASE GuestReturns
  <2>1. size2 = size - at(cpu.loc) /\ at(cpu.loc) = 0
    BY <1>1, <1>2, <1>10, SizeEffects DEF size, size2, at, TickLocs, GuestReturns
  <2>2. net2 = net + 0
    BY <1>10 DEF GuestReturns, NetGrows, net, net2
  <2>3. QED
    BY <1>1, <2>1, <2>2
<1>11. CASE BiosEffects
  <2>1. cpu.loc \in BiosLocs => at(cpu.loc) = (IF cpu.loc = "int08" THEN 1 ELSE 0)
    BY <1>2 DEF BiosLocs, Vectors, Trampolines, TickLocs
  <2>2. at("ret1C") = 0 /\ at("g1C") = 0 /\ at("retMouse") = 0 /\ at("gMouse") = 0
        /\ at("retTimer") = 0 /\ at("g08") = 1
    BY <1>2 DEF TickLocs
  <2>3. ASSUME AtBios, size2 = size - at(cpu.loc) PROVE net2 >= size2
    <3>1. net2 = net + (IF cpu.loc = "int08" THEN -1 ELSE 0)
      BY <2>3 DEF AtBios, NetGrows, net, net2
    <3>2. QED
      BY <1>1, <2>1, <2>3, <3>1 DEF AtBios
  <2>4. at(cpu.loc) \in {0, 1} /\ size - at(cpu.loc) \in Int
    BY <1>1 DEF Count, at
  <2>5. CASE BiosChains \/ BiosCallsBack
    <3>1. size2 = size - at(cpu.loc) + 0 + 0 /\ AtBios
      <4>1. \/ size2 = size - at(cpu.loc) + at("ret1C") + at("g1C")
            \/ size2 = size - at(cpu.loc) + at("retMouse") + at("gMouse")
        BY <1>1, <1>2, <2>5, SizeEffects DEF size, size2, at
      <4>2. AtBios
        BY <2>5 DEF BiosChains, BiosCallsBack
      <4>3. QED
        BY <2>2, <4>1, <4>2
    <3>2. QED
      BY <2>3, <2>4, <3>1
  <2>6. ASSUME NEW c, Worked(c), BiosReturns(c) \/ BiosTicks(c) PROVE net2 >= size2
    <3>1. /\ AtBios
          /\ size2 = size - at(cpu.loc) \/ size2 = size - at(cpu.loc) + at("ret1C")
      BY <1>1, <1>2, <2>6, SizeEffects DEF size, size2, at, BiosReturns, BiosTicks
    <3>2. QED
      BY <2>2, <2>3, <2>4, <3>1
  <2>7. ASSUME NEW c, Worked(c), BiosTimed(c) PROVE net2 >= size2
    <3>1. size2 = size - at(cpu.loc) + at("retTimer") + at("g08")
      BY <1>1, <1>2, <2>7, SizeEffects DEF size, size2, at
    <3>2. net2 = net + (IF cpu.loc = "int08" THEN 0 ELSE 1) /\ cpu.loc \in BiosLocs
      BY <2>7 DEF BiosTimed, NetGrows, net, net2
    <3>3. QED
      BY <1>1, <2>1, <2>2, <3>1, <3>2
  <2>8. QED
    BY <1>11, <2>5, <2>6, <2>7 DEF BiosEffects
<1>12. QED
  BY <1>1, <1>5, <1>6, <1>7, <1>8, <1>9, <1>10, <1>11 DEF Effects

LEMMA CoreInit == Init => Core
<1> SUFFICES ASSUME Init PROVE Core
  OBVIOUS
<1>1. IInv
  BY IInvInit
<1>2. cpu.stack = <<>> /\ cpu.waitKey = FALSE /\ cpu.loc = "app"
  BY DEF Init
<1>3. Quiet
  BY <1>2 DEF Quiet, Frames
<1>4. Counted
  <2>1. Places(cpu, TickLocs) = {}
    BY <1>2 DEF Places
  <2>2. Size(cpu, TickLocs) = 0
    BY <2>1, FS_EmptySet DEF Size
  <2>3. tickDebt = 0 /\ timer.due = FALSE
    BY DEF Init
  <2>4. QED
    BY <2>2, <2>3 DEF Counted, Net, Count
<1>5. QED
  BY <1>1, <1>3, <1>4 DEF Core

LEMMA CoreStep ==
  ASSUME Polling, Core, [Next]_vars
  PROVE  Core'
BY IInvStep, QuietStep, CountedStep DEF Core

LEMMA CoreInvariant == ASSUME Polling PROVE Spec => []Core
<1>1. Core /\ [Next]_vars => Core'
  BY CoreStep
<1>2. QED
  BY <1>1, CoreInit, PTL DEF Spec

\* No tick is counted that no elapsed timer period has caused, however
\* handlers nest, chain to the BIOS or are entered at the end of others.
THEOREM NoTickInvented == ASSUME Polling PROVE Spec => []TicksNotInvented
<1>1. Core => TicksNotInvented
  BY CoreReady DEF TicksNotInvented
<1>2. QED
  BY <1>1, CoreInvariant, PTL

-----------------------------------------------------------------------------
(* Without STI in a handler, interrupts come only where nothing is in        *)
(* service, and the in-service bits are those of the handler on top.         *)

\* Where IF may be set.
Open == {"app", "ret1C", "retTimer"}

Masked ==
  /\ cpu.iflag => cpu.loc \in Open
  /\ \A f \in Frames(cpu) : f.ret \notin BeforeEoi /\ (f.iflag => f.ret \in Open)

\* The line whose handler has still to send its EOI at a location.
LineAt(loc) ==
  CASE loc \in TickLocs -> {PitLine}
    [] loc \in KeyLocs -> {KeyboardLine}
    [] loc \in {"int0C", "g0C"} -> {Com1Line}
    [] loc = "int74" -> {MouseLine}
    [] OTHER -> {}

Exact == pic.isr = LineAt(cpu.loc)

LEMMA MaskedStep ==
  ASSUME Core, Polling, NoSti, Masked, [Next]_vars
  PROVE  Masked'
<1>1. /\ cpu \in CpuState /\ CpuOK(cpu) /\ Effects
      /\ cpu.loc = "int16" => ~cpu.iflag
  BY CoreReady, StepEffects DEF Core, Quiet
<1>2. cpu.loc # "app" => Len(cpu.stack) > 0
  BY <1>1 DEF CpuOK, CpuState, Owned
<1>3. ASSUME NEW to, Kept(cpu, cpu', to), cpu'.iflag => to \in Open
      PROVE  Masked'
  <2>1. Frames(cpu') = Frames(cpu) /\ cpu'.loc = to
    BY <1>1, <1>3, FramesOf DEF Kept
  <2>2. QED
    BY <1>3, <2>1 DEF Masked
<1>4. ASSUME NEW c \in CpuState, Frames(c) = Frames(cpu),
             NEW vec, NEW ret, NEW to, NEW key, Pushed(c, cpu', vec, ret, to, key),
             ret \notin BeforeEoi, c.iflag => ret \in Open, ~cpu'.iflag
      PROVE  Masked'
  <2>1. Frames(cpu') = Frames(c) \cup
          {[ret |-> ret, iflag |-> c.iflag, vec |-> vec, ax |-> c.ax, key |-> key]}
    BY <1>4, FramesOf
  <2>2. QED
    BY <1>4, <2>1 DEF Masked
<1>5. ASSUME NEW c \in CpuState, Frames(c) = Frames(cpu), Len(c.stack) > 0, Popped(c, cpu'),
             cpu'.iflag => c.stack[Len(c.stack)].iflag
      PROVE  Masked'
  <2>1. Frames(cpu') \subseteq Frames(cpu) /\ c.stack[Len(c.stack)] \in Frames(cpu)
    BY <1>5, FramesOf
  <2>2. cpu'.loc = c.stack[Len(c.stack)].ret
    BY <1>5 DEF Popped
  <2>3. QED
    BY <1>5, <2>1, <2>2 DEF Masked
<1>6. CASE Stays
  BY <1>3, <1>6 DEF Stays, Masked, Open
<1>7. ASSUME NEW from, NEW to,
             (<<from, to>> \in Forward /\ GoesOn(from, to))
               \/ (<<from, to>> \in Done /\ SendsEoi(from, to))
      PROVE  Masked'
  <2>1. /\ Kept(cpu, cpu', to) /\ cpu'.iflag = cpu.iflag /\ cpu.loc \notin Open
    BY <1>7 DEF Forward, Done, GoesOn, SendsEoi, Open
  <2>2. QED
    BY <1>3, <2>1 DEF Masked
<1>8. ASSUME NEW l \in {PitLine, KeyboardLine, Com1Line, MouseLine}, Interrupted(l)
      PROVE  Masked'
  <2>1. cpu.loc \in Open /\ cpu.loc \notin BeforeEoi
    BY <1>8 DEF Interrupted, Masked, Open, BeforeEoi
  <2>2. QED
    BY <1>1, <1>4, <1>8, <2>1 DEF Interrupted
<1>9. ASSUME NEW vec \in {"int15", "int16"}, NEW fn \in AxValues, Calls(vec, fn)
      PROVE  Masked'
  <2> DEFINE c == [cpu EXCEPT !.ax = fn]
  <2>1. c \in CpuState /\ c.stack = cpu.stack
    BY <1>1 DEF CpuState
  <2>2. Pushed(c, cpu', vec, "app", vec, NoKey) /\ ~cpu'.iflag
    BY <1>9 DEF Calls
  <2>3. Frames(c) = Frames(cpu)
    BY <2>1 DEF Frames
  <2>4. "app" \notin BeforeEoi /\ "app" \in Open
    BY DEF BeforeEoi, Open
  <2> HIDE DEF c
  <2>5. QED
    BY <1>4, <2>1, <2>2, <2>3, <2>4
<1>10. CASE GuestReturns
  <2>1. /\ Popped(cpu, cpu') /\ cpu.loc # "app"
        /\ cpu'.iflag => cpu.stack[Len(cpu.stack)].iflag
    BY <1>10 DEF GuestReturns, Masked, Open
  <2>2. QED
    BY <1>1, <1>2, <1>5, <2>1
<1>11. CASE BiosChains \/ BiosCallsBack
  <2>1. /\ "ret1C" \in Open /\ "ret1C" \notin BeforeEoi /\ "retMouse" \notin BeforeEoi
        /\ "int74" \notin Open
    BY DEF Open, BeforeEoi
  <2>2. CASE BiosChains
    BY <1>1, <1>4, <2>1, <2>2 DEF BiosChains
  <2>3. CASE BiosCallsBack
    <3>1. /\ Pushed(cpu, cpu', "far", "retMouse", "gMouse", NoKey)
          /\ ~cpu.iflag /\ ~cpu'.iflag
      BY <2>1, <2>3 DEF BiosCallsBack, Masked
    <3>2. QED
      BY <1>1, <1>4, <2>1, <3>1
  <2>4. QED
    BY <1>11, <2>2, <2>3
<1>12. ASSUME NEW c, Worked(c), BiosReturns(c) \/ BiosTicks(c) \/ BiosTimed(c)
       PROVE  Masked'
  <2>1. /\ c \in CpuState /\ Frames(c) = Frames(cpu) /\ Len(c.stack) > 0
    BY <1>12, WorkedFields DEF BiosReturns, BiosTicks, BiosTimed, AtBios
  <2>2. CASE BiosReturns(c)
    BY <1>5, <2>1, <2>2 DEF BiosReturns
  <2>3. CASE BiosTicks(c)
    <3>1. Kept(c, cpu', "ret1C") /\ cpu'.loc = "ret1C" /\ "ret1C" \in Open
      BY <2>3 DEF BiosTicks, Kept, Open
    <3>2. Frames(cpu') = Frames(cpu)
      BY <2>1, <3>1, FramesOf
    <3>3. QED
      BY <3>1, <3>2 DEF Masked
  <2>4. CASE BiosTimed(c)
    <3>1. "retTimer" \in Open /\ "retTimer" \notin BeforeEoi
      BY DEF Open, BeforeEoi
    <3>2. QED
      BY <1>4, <2>1, <2>4, <3>1 DEF BiosTimed
  <2>5. QED
    BY <1>12, <2>2, <2>3, <2>4
<1>13. QED
  BY <1>1, <1>6, <1>7, <1>8, <1>9, <1>10, <1>11, <1>12 DEF Effects, BiosEffects

\* The EOI of the handler on top clears its line.
LEMMA TopAcked ==
  /\ \A loc \in BeforeEoi \ {"int74"} : Acked(LineAt(loc), Pic1) = {}
  /\ \A loc \in BiosLocs : AckedBy(LineAt(loc), loc) = {}
<1>1. /\ Acked({}, Pic1) = {} /\ Acked({MouseLine}, Pic2) = {}
      /\ \A l \in {PitLine, KeyboardLine, Com1Line} : Acked({l}, Pic1) = {}
  <2>1. ASSUME NEW chip \in {Pic1, Pic2}, NEW l \in chip
        PROVE  Acked({l}, chip) = {}
    <3>1. {l} \cap chip = {l} /\ l \in Nat
      BY DEF Pic1, Pic2
    <3>2. QED
      BY <3>1 DEF Acked
  <2>2. Acked({}, Pic1) = {}
    BY DEF Acked
  <2>3. /\ MouseLine \in Pic2
        /\ PitLine \in Pic1 /\ KeyboardLine \in Pic1 /\ Com1Line \in Pic1
    BY DEF Pic1, Pic2, PitLine, KeyboardLine, Com1Line, MouseLine
  <2>4. QED
    BY <2>1, <2>2, <2>3
<1>2. \A loc \in BeforeEoi \ {"int74"} :
        \E l \in {PitLine, KeyboardLine, Com1Line} : LineAt(loc) = {l}
  BY DEF BeforeEoi, LineAt, TickLocs, KeyLocs
<1>3. \A loc \in BiosLocs \ BeforeEoi : LineAt(loc) = {}
  BY DEF BeforeEoi, LineAt, TickLocs, KeyLocs
<1>4. LineAt("int74") = {MouseLine}
  BY DEF LineAt, TickLocs, KeyLocs
<1>5. QED
  BY <1>1, <1>2, <1>3, <1>4 DEF AckedBy, BiosLocs, Vectors, Trampolines, BeforeEoi

LEMMA ExactStep ==
  ASSUME Core, Polling, NoSti, Masked, Exact, [Next]_vars
  PROVE  Exact'
<1>1. /\ cpu \in CpuState /\ CpuOK(cpu) /\ Effects
      /\ cpu.loc = "int16" => ~cpu.iflag
  BY CoreReady, StepEffects DEF Core, Quiet
<1>2. cpu.loc # "app" => Len(cpu.stack) > 0
  BY <1>1 DEF CpuOK, CpuState, Owned
<1>3. \A loc : loc \notin BeforeEoi => LineAt(loc) = {}
  BY DEF BeforeEoi, LineAt, TickLocs, KeyLocs
\* Returning from a handler leads to a place where nothing is in service.
<1>4. ASSUME NEW c \in CpuState, Frames(c) = Frames(cpu), Len(c.stack) > 0, Popped(c, cpu')
      PROVE  LineAt(cpu'.loc) = {}
  <2>1. c.stack[Len(c.stack)] \in Frames(cpu) /\ cpu'.loc = c.stack[Len(c.stack)].ret
    BY <1>4, FramesOf DEF Popped
  <2>2. QED
    BY <1>3, <2>1 DEF Masked
<1>5. CASE Stays
  BY <1>5 DEF Stays, Exact, Kept
<1>6. ASSUME NEW from, NEW to, <<from, to>> \in Forward, GoesOn(from, to)
      PROVE  Exact'
  <2>1. LineAt(from) = LineAt(to)
    BY <1>6 DEF Forward, LineAt, TickLocs, KeyLocs
  <2>2. QED
    BY <1>6, <2>1 DEF GoesOn, Exact, Kept
<1>7. ASSUME NEW from, NEW to, <<from, to>> \in Done, SendsEoi(from, to)
      PROVE  Exact'
  <2>1. from \in BeforeEoi \ {"int74"} /\ to \notin BeforeEoi
    BY <1>7 DEF Done, BeforeEoi
  <2>2. QED
    BY <1>3, <1>7, <2>1, TopAcked DEF SendsEoi, Exact, Kept
<1>8. ASSUME NEW l \in {PitLine, KeyboardLine, Com1Line, MouseLine}, Interrupted(l)
      PROVE  Exact'
  <2>1. LineAt(cpu.loc) = {}
    BY <1>3, <1>8 DEF Interrupted, Masked, Open, BeforeEoi
  <2>2. LineAt(Handler(IrqVector(l))) = {l}
    BY LineHandlers DEF LineAt, TickLocs, KeyLocs, PitLine, KeyboardLine, Com1Line, MouseLine
  <2>3. cpu'.loc = Handler(IrqVector(l)) /\ pic'.isr = pic.isr \cup {l}
    BY <1>8 DEF Interrupted, Pushed
  <2>4. QED
    BY <2>1, <2>2, <2>3 DEF Exact
<1>9. ASSUME NEW vec \in {"int15", "int16"}, NEW fn \in AxValues, Calls(vec, fn)
      PROVE  Exact'
  <2>1. cpu.loc \notin BeforeEoi /\ cpu'.loc \notin BeforeEoi /\ pic'.isr = pic.isr
    BY <1>9 DEF Calls, Pushed, BeforeEoi
  <2>2. QED
    BY <1>3, <2>1 DEF Exact
<1>10. CASE GuestReturns
  <2>1. cpu.loc \notin BeforeEoi /\ cpu.loc # "app" /\ Popped(cpu, cpu') /\ pic'.isr = pic.isr
    BY <1>10 DEF GuestReturns, BeforeEoi
  <2>2. QED
    BY <1>1, <1>2, <1>3, <1>4, <2>1 DEF Exact
<1>11. CASE BiosEffects
  <2>1. cpu.loc \in BiosLocs
    BY <1>11 DEF BiosEffects, BiosChains, BiosCallsBack, BiosReturns, BiosTicks,
                 BiosTimed, AtBios
  <2>2. AckedBy(pic.isr, cpu.loc) = {}
    BY <2>1, TopAcked DEF Exact
  <2>3. CASE BiosChains \/ BiosCallsBack
    <3>1. pic'.isr = {} /\ cpu'.loc \notin BeforeEoi
      BY <2>2, <2>3 DEF BiosChains, BiosCallsBack, AtBios, Pushed, BeforeEoi
    <3>2. QED
      BY <1>3, <3>1 DEF Exact
  <2>4. ASSUME NEW c, Worked(c), BiosReturns(c) \/ BiosTicks(c) PROVE Exact'
    <3>1. c \in CpuState /\ Frames(c) = Frames(cpu) /\ Len(c.stack) > 0
      BY <2>1, <2>4, WorkedFields
    <3>2. pic'.isr = {}
      BY <2>2, <2>4 DEF BiosReturns, BiosTicks, AtBios
    <3>3. CASE BiosReturns(c)
      BY <1>4, <3>1, <3>2, <3>3 DEF BiosReturns, Exact
    <3>4. CASE BiosTicks(c)
      <4>1. cpu'.loc \notin BeforeEoi
        BY <3>4 DEF BiosTicks, Kept, BeforeEoi
      <4>2. QED
        BY <1>3, <3>2, <4>1 DEF Exact
    <3>5. QED
      BY <2>4, <3>3, <3>4
  <2>5. ASSUME NEW c, Worked(c), BiosTimed(c) PROVE Exact'
    <3>1. /\ pic'.isr = AckedBy(pic.isr, cpu.loc) \cup {PitLine}
          /\ Pushed(c, cpu', "int08", "retTimer", "g08", NoKey)
      BY <2>5 DEF BiosTimed
    <3>2. LineAt("g08") = {PitLine}
      BY DEF LineAt, TickLocs, KeyLocs
    <3>5. cpu'.loc = "g08"
      BY <3>1 DEF Pushed
    <3>3. pic'.isr = {PitLine}
      BY <2>2, <3>1
    <3>4. QED
      BY <3>2, <3>3, <3>5 DEF Exact
  <2>6. QED
    BY <1>11, <2>3, <2>4, <2>5 DEF BiosEffects
<1>12. QED
  BY <1>1, <1>5, <1>6, <1>7, <1>8, <1>9, <1>10, <1>11 DEF Effects

MaskedInv == Core /\ Masked /\ Exact

LEMMA MaskedInvariant == ASSUME Polling, NoSti PROVE Spec => []MaskedInv
<1>1. Init => MaskedInv
  <2>1. Init => Masked /\ Exact
    BY DEF Init, Masked, Exact, Frames, Open, LineAt, TickLocs, KeyLocs, PicReset
  <2>2. QED
    BY <2>1, CoreInit DEF MaskedInv
<1>2. MaskedInv /\ [Next]_vars => MaskedInv'
  BY CoreStep, MaskedStep, ExactStep DEF MaskedInv
<1>3. QED
  BY <1>1, <1>2, PTL DEF Spec

\* Before its EOI, a handler is the owner of the line it serves.
LEMMA OwnerOfLine ==
  ASSUME NEW loc \in BeforeEoi, NEW l \in {PitLine, KeyboardLine, Com1Line, MouseLine}
  PROVE  IrqVector(l) \in Owners(loc) <=> l \in LineAt(loc)
BY DEF BeforeEoi, Owners, LineAt, TickLocs, KeyLocs, IrqVector,
       PitLine, KeyboardLine, Com1Line, MouseLine

\* As long as no handler enables interrupts, the in-service bits are exactly
\* the lines whose handler has still to send its EOI.
THEOREM InServiceBitsExact == ASSUME Polling, NoSti PROVE Spec => []InServiceExact
<1>1. ASSUME MaskedInv PROVE InServiceExact
  <2> DEFINE irqs == {PitLine, KeyboardLine, Com1Line, MouseLine}
             n == Len(cpu.stack)
             Serves(l) == \E i \in DOMAIN cpu.stack :
                 cpu.stack[i].vec = IrqVector(l) /\ LocOf(i) \in BeforeEoi
  <2>1. /\ cpu.stack \in Seq(Frame) /\ n \in Nat /\ DOMAIN cpu.stack = 1..n
        /\ n = 0 => cpu.loc = "app"
        /\ \A i \in 1..n : LocOf(i) = LocAt(cpu, i)
        /\ \A i \in 1..n : cpu.stack[i].vec \in Owners(LocAt(cpu, i))
    BY <1>1 DEF MaskedInv, Core, IInv, CpuOK, CpuState, Owned, LocOf, LocAt
  <2>2. \A i \in 1..n : i # n => LocAt(cpu, i) \notin BeforeEoi
    <3>1. ASSUME NEW i \in 1..n, i # n PROVE LocAt(cpu, i) \notin BeforeEoi
      <4>1. i + 1 \in 1..n /\ LocAt(cpu, i) = cpu.stack[i + 1].ret
        BY <2>1, <3>1 DEF LocAt
      <4>2. cpu.stack[i + 1] \in Frames(cpu)
        BY <4>1 DEF Frames
      <4>3. QED
        BY <1>1, <4>1, <4>2 DEF MaskedInv, Masked
    <3>2. QED
      BY <3>1
  <2>3. LineAt(cpu.loc) \subseteq irqs /\ (LineAt(cpu.loc) # {} => cpu.loc \in BeforeEoi)
    BY DEF LineAt, TickLocs, KeyLocs, BeforeEoi
  <2>4. ASSUME NEW l \in irqs PROVE l \in LineAt(cpu.loc) <=> Serves(l)
    <3>1. ASSUME l \in LineAt(cpu.loc) PROVE Serves(l)
      <4>1. cpu.loc \in BeforeEoi /\ n \in 1..n /\ LocAt(cpu, n) = cpu.loc
        BY <2>1, <2>3, <3>1 DEF BeforeEoi, LocAt
      <4>2. \A vec \in Owners(cpu.loc) : vec = IrqVector(l)
        BY <2>3, <3>1, <4>1, OwnerOfLine DEF Owners, BeforeEoi
      <4>3. QED
        BY <2>1, <4>1, <4>2
    <3>2. ASSUME Serves(l) PROVE l \in LineAt(cpu.loc)
      <4>1. PICK i \in 1..n : cpu.stack[i].vec = IrqVector(l) /\ LocAt(cpu, i) \in BeforeEoi
        BY <2>1, <3>2
      <4>2. i = n /\ LocAt(cpu, i) = cpu.loc
        BY <2>2, <4>1 DEF LocAt
      <4>3. QED
        BY <2>1, <4>1, <4>2, OwnerOfLine
    <3>3. QED
      BY <3>1, <3>2
  <2>5. pic.isr = {l \in irqs : Serves(l)}
    BY <1>1, <2>3, <2>4 DEF MaskedInv, Exact
  <2>6. QED
    BY <2>5 DEF InServiceExact
<1>2. QED
  BY <1>1, MaskedInvariant, PTL

-----------------------------------------------------------------------------
(* The keyboard controller and the devices, step by step. *)

\* The keys waiting to be loaded, with one more when the host presses a key.
Queued(q) ==
  \/ q = keyPresses /\ pressed' = pressed
  \/ q = Append(keyPresses, pressed + 1) /\ pressed' = pressed + 1

\* The first of them is loaded into the controller.
Loads(q) ==
  /\ q # <<>> /\ KeyboardLine \notin pic.isr
  /\ keyPresses' = Tail(q) /\ kbc' = KeyPress(kbc, Head(q))
  /\ cpu' = cpu /\ pic'.isr = pic.isr /\ bda' = bda /\ typed' = typed

\* The scan code stays; INT 09h of the BIOS alone reads it.
Keeps(q) ==
  /\ keyPresses' = q
  /\ kbc'.scanCode = kbc.scanCode /\ (kbc'.pendingKey => kbc.pendingKey)
  /\ MouseLine \notin Devices /\ cpu.loc # "int15" /\ kbc.aux = <<>> /\ ~kbc.auxEnabled
       => kbc'.aux = <<>> /\ ~kbc'.auxEnabled
  /\ \/ typed' = typed /\ (bda' = bda \/ (bda # <<>> /\ bda' = Tail(bda)))
     \/ /\ cpu.loc = "int09" /\ BiosEffects /\ typed' = PortData(kbc)
        /\ bda' = bda \/ bda' = Append(bda, PortData(kbc))

\* Only a device that is there asks for an interrupt.
Asks ==
  /\ serialIrq' => serialIrq \/ Com1Line \in Devices
  /\ kbc'.pendingMouse => kbc.pendingMouse \/ MouseLine \in Devices

\* What each operation on the controller leaves as it was.
LEMMA KbcFields ==
  ASSUME NEW k \in KbcState
  PROVE  /\ \A key : LET d == KeyPress(k, key) IN
              d.scanCode = key /\ d.aux = k.aux /\ d.auxEnabled = k.auxEnabled
                /\ d.pendingMouse = k.pendingMouse
         /\ \A d \in {TakePendingKey(k), TakePendingMouse(k), AfterPortData(k),
                      AfterAuxRead3(k), SetAuxEnabled(k, TRUE), SetAuxEnabled(k, FALSE)} :
              /\ d.scanCode = k.scanCode /\ (d.pendingKey => k.pendingKey)
              /\ d.pendingMouse => k.pendingMouse
         /\ \A d \in {TakePendingKey(k), TakePendingMouse(k), AfterPortData(k),
                      AfterAuxRead3(k)} :
              k.aux = <<>> => d.aux = <<>> /\ d.auxEnabled = k.auxEnabled
         /\ LET d == PushMouseBytes(k) IN
              d.scanCode = k.scanCode /\ d.pendingKey = k.pendingKey
BY DEF KbcState, KeyPress, TakePendingKey, TakePendingMouse, AfterPortData,
       AfterAuxRead3, SetAuxEnabled, PushMouseBytes

LEMMA KeyboardEffects ==
  ASSUME IInv, Ready16, [Next]_vars
  PROVE  Asks /\ \E q : Queued(q) /\ (Loads(q) \/ Keeps(q))
<1>1. kbc \in KbcState /\ pic \in PicState /\ kbc.pendingKey \in BOOLEAN
  BY DEF IInv, TypeOK, KbcState
<1>2. ASSUME NEW q, Queued(q), ProcessKeyPresses(q), UNCHANGED <<typed, serialIrq>>
      PROVE  Asks /\ \E r : Queued(r) /\ (Loads(r) \/ Keeps(r))
  <2>1. cpu' = cpu /\ bda' = bda
    BY <1>2 DEF ProcessKeyPresses, CpuKeyPress, Ready16
  <2>2. CASE q # <<>> /\ CanLoadKey
    <3>1. Loads(q)
      BY <1>1, <1>2, <2>1, <2>2, IsrFields DEF ProcessKeyPresses, CanLoadKey, Loads
    <3>2. kbc' = KeyPress(kbc, Head(q)) /\ serialIrq' = serialIrq
      BY <1>2, <2>2 DEF ProcessKeyPresses
    <3>4. kbc'.pendingMouse = kbc.pendingMouse
      BY <1>1, <3>2 DEF KeyPress, KbcState
    <3>5. Asks
      BY <3>2, <3>4 DEF Asks
    <3>6. QED
      BY <1>2, <3>1, <3>5
  <2>3. CASE ~(q # <<>> /\ CanLoadKey)
    <3>1. Keeps(q) /\ Asks
      BY <1>1, <1>2, <2>1, <2>3 DEF ProcessKeyPresses, Keeps, Asks
    <3>2. QED
      BY <1>2, <3>1
  <2>4. QED
    BY <2>2, <2>3
<1>3. ASSUME UNCHANGED <<keyPresses, pressed>>, Keeps(keyPresses), Asks
      PROVE  Asks /\ \E r : Queued(r) /\ (Loads(r) \/ Keeps(r))
  BY <1>3 DEF Queued
<1>4. CASE HostKey \/ StepKeys
  BY <1>2, <1>4 DEF HostKey, StepKeys, Queued
<1>5. CASE HostMouse
  BY <1>1, <1>3, <1>5, KbcFields DEF HostMouse, Keeps, Asks
<1>6. CASE SerialByte \/ TimerElapses
  BY <1>1, <1>3, <1>6 DEF SerialByte, TimerElapses, Keeps, Asks
<1>7. ASSUME NEW l \in {PitLine, KeyboardLine, Com1Line, MouseLine}, TakeInterrupt(l)
      PROVE  Asks /\ \E r : Queued(r) /\ (Loads(r) \/ Keeps(r))
  <2>1. kbc' \in {kbc, TakePendingKey(kbc), TakePendingMouse(kbc)}
    BY <1>7 DEF TakeInterrupt, KeyboardLine, MouseLine
  <2>2. UNCHANGED <<keyPresses, pressed, typed, bda>> /\ (serialIrq' => serialIrq)
    BY <1>7 DEF TakeInterrupt, StepDone
  <2>3. \/ kbc' = kbc
        \/ /\ kbc'.scanCode = kbc.scanCode /\ (kbc'.pendingKey => kbc.pendingKey)
           /\ kbc'.pendingMouse => kbc.pendingMouse
           /\ kbc.aux = <<>> => kbc'.aux = <<>> /\ kbc'.auxEnabled = kbc.auxEnabled
    BY <1>1, <2>1 DEF TakePendingKey, TakePendingMouse, KbcState
  <2>4. Keeps(keyPresses) /\ Asks
    BY <2>2, <2>3 DEF Keeps, Asks
  <2>5. QED
    BY <1>3, <2>2, <2>4
<1>8. ASSUME StepDone, UNCHANGED <<kbc, serialIrq, typed>>,
             bda' = bda \/ (bda # <<>> /\ bda' = Tail(bda))
      PROVE  Asks /\ \E r : Queued(r) /\ (Loads(r) \/ Keeps(r))
  BY <1>1, <1>3, <1>8 DEF StepDone, Keeps, Asks
<1>9. CASE Halted
  BY <1>8, <1>9 DEF Halted
<1>10. CASE BiosTimer \/ BiosSerial \/ BiosKeyboardService \/ Trampoline
  BY <1>8, <1>10 DEF BiosTimer, BiosSerial, BiosKeyboardService, Trampoline
<1>11. CASE BiosKeyboard
  <2>1. BiosEffects
    BY <1>11, IrqHandlerEffects
  <2>2. /\ cpu.loc = "int09" /\ kbc' = AfterPortData(kbc) /\ typed' = PortData(kbc)
        /\ bda' = bda \/ bda' = Append(bda, PortData(kbc))
        /\ UNCHANGED <<keyPresses, pressed, serialIrq>>
    BY <1>11 DEF BiosKeyboard, Executes, StepDone
  <2>3. /\ kbc'.scanCode = kbc.scanCode /\ (kbc'.pendingKey => kbc.pendingKey)
        /\ kbc'.pendingMouse => kbc.pendingMouse
        /\ kbc.aux = <<>> => kbc'.aux = <<>> /\ kbc'.auxEnabled = kbc.auxEnabled
    BY <1>1, <2>2 DEF AfterPortData, KbcState
  <2>4. Keeps(keyPresses) /\ Asks
    BY <2>1, <2>2, <2>3 DEF Keeps, Asks
  <2>5. QED
    BY <1>3, <2>2, <2>4
<1>12. CASE BiosMouse
  BY <1>1, <1>3, <1>12, KbcFields DEF BiosMouse, Executes, StepDone, Keeps, Asks
<1>13. CASE BiosMouseService
  <2>1. /\ kbc' \in {kbc, SetAuxEnabled(kbc, TRUE), SetAuxEnabled(kbc, FALSE)}
        /\ cpu.loc = "int15" /\ UNCHANGED <<keyPresses, pressed, serialIrq, bda, typed>>
    BY <1>13 DEF BiosMouseService, Executes, StepDone
  <2>2. \/ kbc' = kbc
        \/ /\ kbc'.scanCode = kbc.scanCode /\ (kbc'.pendingKey => kbc.pendingKey)
           /\ kbc'.pendingMouse => kbc.pendingMouse
    BY <1>1, <2>1 DEF SetAuxEnabled, KbcState
  <2>3. Keeps(keyPresses) /\ Asks
    BY <2>1, <2>2 DEF Keeps, Asks
  <2>4. QED
    BY <1>3, <2>1, <2>3
<1>14. CASE App
  BY <1>8, <1>14 DEF App, AppComputes, AppCli, AppSti, AppHlt, AppMasks, AppHooks,
                     AppCalls, GuestCpu
<1>15. CASE HandlerSti \/ HandlerChains \/ HandlerEoi \/ HandlerReturns
  BY <1>8, <1>15 DEF HandlerSti, HandlerChains, HandlerEoi, HandlerReturns, GuestCpu
<1>16. CASE HandlerReadsPort
  BY <1>1, <1>3, <1>16, KbcFields DEF HandlerReadsPort, GuestCpu, StepDone, Keeps, Asks
<1>17. CASE UNCHANGED vars
  BY <1>1, <1>3, <1>17 DEF vars, Keeps, Asks
<1>18. QED
  BY <1>4, <1>5, <1>6, <1>7, <1>9, <1>10, <1>11, <1>12, <1>13, <1>14, <1>15, <1>16, <1>17
     DEF Next, StepCpu, Bios, HandlerProgress

\* Only a device that is there interrupts, and only where there is a mouse is
\* INT 15h called.
Attached ==
  /\ serialIrq => Com1Line \in Devices
  /\ kbc.pendingMouse => MouseLine \in Devices
  /\ \A f \in Frames(cpu) :
       /\ f.vec = "int0C" => Com1Line \in Devices
       /\ f.vec \in {"int15", "int74"} => MouseLine \in Devices

LEMMA AttachedStep ==
  ASSUME Core, Polling, Attached, [Next]_vars
  PROVE  Attached'
<1>1. /\ cpu \in CpuState /\ CpuOK(cpu) /\ Effects /\ Ready16 /\ IInv
  BY CoreReady, StepEffects DEF Core
<1>2. cpu.loc # "app" => Len(cpu.stack) > 0
  BY <1>1 DEF CpuOK, CpuState, Owned
<1>3. /\ serialIrq' => Com1Line \in Devices
      /\ kbc'.pendingMouse => MouseLine \in Devices
  BY <1>1, KeyboardEffects DEF Attached, Asks
<1>4. SUFFICES \A f \in Frames(cpu') :
                  /\ f.vec = "int0C" => Com1Line \in Devices
                  /\ f.vec \in {"int15", "int74"} => MouseLine \in Devices
  BY <1>3 DEF Attached
<1> DEFINE Fits(vec) == /\ vec = "int0C" => Com1Line \in Devices
                        /\ vec \in {"int15", "int74"} => MouseLine \in Devices
<1>5. SUFFICES \A f \in Frames(cpu') : Fits(f.vec)
  OBVIOUS
<1>6. \A f \in Frames(cpu) : Fits(f.vec)
  BY DEF Attached
<1>7. Fits("int08") /\ Fits("int1C") /\ Fits("far") /\ Fits("int16") /\ Fits("int09")
  OBVIOUS
<1> HIDE DEF Fits
<1>8. ASSUME NEW c \in CpuState, Frames(c) = Frames(cpu),
             \/ \E to : Kept(c, cpu', to)
             \/ Len(c.stack) > 0 /\ Popped(c, cpu')
      PROVE  \A f \in Frames(cpu') : Fits(f.vec)
  BY <1>6, <1>8, FramesOf
<1>9. ASSUME NEW c \in CpuState, Frames(c) = Frames(cpu),
             NEW vec, NEW ret, NEW to, NEW key, Pushed(c, cpu', vec, ret, to, key), Fits(vec)
      PROVE  \A f \in Frames(cpu') : Fits(f.vec)
  <2>1. Frames(cpu') = Frames(cpu) \cup
          {[ret |-> ret, iflag |-> c.iflag, vec |-> vec, ax |-> c.ax, key |-> key]}
    BY <1>9, FramesOf
  <2>2. QED
    BY <1>6, <1>9, <2>1
<1>10. ASSUME NEW l \in {PitLine, KeyboardLine, Com1Line, MouseLine}, Interrupted(l)
       PROVE  \A f \in Frames(cpu') : Fits(f.vec)
  <2>1. Fits(IrqVector(l))
    BY <1>10 DEF Interrupted, Pending, Attached, IrqVector, Fits,
                 PitLine, KeyboardLine, Com1Line, MouseLine
  <2>2. QED
    BY <1>1, <1>9, <1>10, <2>1 DEF Interrupted
<1>11. ASSUME NEW vec \in {"int15", "int16"}, NEW fn \in AxValues, Calls(vec, fn)
       PROVE  \A f \in Frames(cpu') : Fits(f.vec)
  <2> DEFINE c == [cpu EXCEPT !.ax = fn]
  <2>1. c \in CpuState /\ c.stack = cpu.stack
    BY <1>1 DEF CpuState
  <2>2. Fits(vec) /\ Pushed(c, cpu', vec, "app", vec, NoKey)
    BY <1>11 DEF Calls, Fits
  <2> HIDE DEF c
  <2>3. Frames(c) = Frames(cpu)
    BY <2>1 DEF Frames
  <2>4. QED
    BY <1>9, <2>1, <2>2, <2>3
<1>12. CASE Stays
  BY <1>1, <1>8, <1>12 DEF Stays
<1>13. CASE \/ \E from, to : <<from, to>> \in Forward /\ GoesOn(from, to)
            \/ \E from, to : <<from, to>> \in Done /\ SendsEoi(from, to)
  BY <1>1, <1>8, <1>13 DEF GoesOn, SendsEoi
<1>14. CASE GuestReturns
  <2>1. cpu.loc # "app" /\ Popped(cpu, cpu')
    BY <1>14 DEF GuestReturns
  <2>2. QED
    BY <1>1, <1>2, <1>8, <2>1
<1>15. CASE BiosEffects
  <2>1. CASE BiosChains \/ BiosCallsBack
    BY <1>1, <1>7, <1>9, <2>1 DEF BiosChains, BiosCallsBack
  <2>2. ASSUME NEW c, Worked(c), BiosReturns(c) \/ BiosTicks(c) \/ BiosTimed(c)
        PROVE  \A f \in Frames(cpu') : Fits(f.vec)
    <3>1. c \in CpuState /\ Len(c.stack) > 0 /\ Frames(c) = Frames(cpu)
      BY <2>2, WorkedFields DEF BiosReturns, BiosTicks, BiosTimed, AtBios
    <3>2. QED
      BY <1>7, <1>8, <1>9, <2>2, <3>1 DEF BiosReturns, BiosTicks, BiosTimed
  <2>3. QED
    BY <1>15, <2>1, <2>2 DEF BiosEffects
<1>16. QED
  BY <1>1, <1>10, <1>11, <1>12, <1>13, <1>14, <1>15 DEF Effects

LEMMA AttachedInvariant == ASSUME Polling PROVE Spec => [](Core /\ Attached)
<1>1. Init => Core /\ Attached
  <2>1. Init => Attached
    BY DEF Init, Attached, Frames, KbcReset
  <2>2. QED
    BY <2>1, CoreInit
<1>2. Core /\ Attached /\ [Next]_vars => (Core /\ Attached)'
  BY CoreStep, AttachedStep
<1>3. QED
  BY <1>1, <1>2, PTL DEF Spec

\* Where a handler of a device that is not there would be.
LEMMA NotThere ==
  ASSUME Core, Attached
  PROVE  /\ Com1Line \notin Devices => cpu.loc \notin {"int0C", "g0C"}
         /\ MouseLine \notin Devices => cpu.loc \notin {"int15", "int74"}
<1>1. CpuOK(cpu) /\ cpu \in CpuState
  BY CoreReady
<1>2. ASSUME cpu.loc \in {"int0C", "g0C", "int15", "int74"}
      PROVE  LET f == cpu.stack[Len(cpu.stack)]
             IN  f \in Frames(cpu) /\ f.vec \in Owners(cpu.loc)
  <2>1. Len(cpu.stack) > 0
    BY <1>1, <1>2 DEF CpuOK, CpuState, Owned
  <2>2. Len(cpu.stack) \in 1..Len(cpu.stack) /\ LocAt(cpu, Len(cpu.stack)) = cpu.loc
    BY <1>1, <2>1 DEF CpuState, LocAt
  <2>3. QED
    BY <1>1, <2>2 DEF CpuOK, Owned, Frames
<1>3. /\ Owners("int0C") = {"int0C"} /\ Owners("g0C") = {"int0C"}
      /\ Owners("int15") = {"int15"} /\ Owners("int74") = {"int74"}
  BY DEF Owners
<1>4. QED
  BY <1>2, <1>3 DEF Attached

-----------------------------------------------------------------------------
(* The scan code a keyboard handler still has to read is the latched one.    *)
(* With STI in handlers, an EOI may clear the line of another handler than   *)
(* the one that sends it; as long as no other device interrupts, enough of   *)
(* the two lines stays in service.                                           *)

\* The scan codes latched for the keyboard handlers at work.
KeysOf(c) == {c.stack[i].key : i \in Places(c, KeyLocs)}

\* At most one keyboard handler has still to send its EOI, its line is in
\* service and its key is the one in the controller.
KeyServed ==
  /\ Size(cpu, KeyLocs) <= Count(KeyboardLine \in pic.isr)
  /\ KeysOf(cpu) \subseteq {kbc.scanCode}

\* Timer and keyboard handlers have at least as many lines in service.
InService(isr) == Count(PitLine \in isr) + Count(KeyboardLine \in isr)

Paired ==
  /\ pic.isr \subseteq {PitLine, KeyboardLine}
  /\ Size(cpu, TickLocs \cup KeyLocs) <= InService(pic.isr)

KeyInv ==
  /\ Core /\ Attached /\ KeyServed
  /\ NoSti => Masked /\ Exact
  /\ Devices = {} => Paired

LEMMA KeysKept ==
  ASSUME NEW c \in CpuState, NEW d, NEW to, Kept(c, d, to),
         to \in KeyLocs => c.loc \in KeyLocs
  PROVE  KeysOf(d) \subseteq KeysOf(c)
<1>1. ASSUME NEW i \in Places(d, KeyLocs)
      PROVE  i \in Places(c, KeyLocs) /\ d.stack[i] = c.stack[i]
  <2>1. i \in 1..Len(c.stack) /\ LocAt(d, i) \in KeyLocs /\ d.stack[i] = c.stack[i]
    BY DEF Places, Kept
  <2>2. LocAt(d, i) = IF i = Len(c.stack) THEN to ELSE LocAt(c, i)
    BY <2>1, LocKept
  <2>3. LocAt(c, i) \in KeyLocs
    BY <2>1, <2>2 DEF LocAt
  <2>4. QED
    BY <2>1, <2>3 DEF Places
<1>2. QED
  BY <1>1 DEF KeysOf

LEMMA KeysPushed ==
  ASSUME NEW c \in CpuState, NEW d, NEW vec, NEW ret, NEW to, NEW key,
         Pushed(c, d, vec, ret, to, key), ret \in KeyLocs => c.loc \in KeyLocs
  PROVE  KeysOf(d) \subseteq KeysOf(c) \cup (IF to \in KeyLocs THEN {key} ELSE {})
<1> DEFINE n == Len(c.stack)
<1>1. n \in Nat /\ \A i \in 1..(n + 1) : i \in 1..n \/ i = n + 1
  BY DEF CpuState
<1>2. ASSUME NEW i \in Places(d, KeyLocs), i \in 1..n
      PROVE  i \in Places(c, KeyLocs) /\ d.stack[i] = c.stack[i]
  <2>1. LocAt(d, i) \in KeyLocs /\ d.stack[i] = c.stack[i]
    BY <1>2 DEF Places, Pushed
  <2>2. LocAt(d, i) = IF i = n THEN ret ELSE LocAt(c, i)
    BY <1>2, LocPushed
  <2>3. LocAt(c, i) \in KeyLocs
    BY <2>1, <2>2 DEF LocAt
  <2>4. QED
    BY <1>2, <2>1, <2>3 DEF Places
<1>3. LocAt(d, n + 1) = to /\ d.stack[n + 1].key = key /\ Len(d.stack) = n + 1
  BY LocPushed DEF Pushed
<1>4. ASSUME NEW i \in Places(d, KeyLocs)
      PROVE  d.stack[i].key \in KeysOf(c) \cup (IF to \in KeyLocs THEN {key} ELSE {})
  <2>1. i \in 1..n \/ (i = n + 1 /\ to \in KeyLocs)
    BY <1>1, <1>3 DEF Places
  <2>2. CASE i \in 1..n
    BY <1>2, <2>2 DEF KeysOf
  <2>3. CASE i = n + 1 /\ to \in KeyLocs
    BY <1>3, <2>3
  <2>4. QED
    BY <2>1, <2>2, <2>3
<1>5. QED
  BY <1>4 DEF KeysOf

LEMMA KeysPopped ==
  ASSUME NEW c \in CpuState, NEW d, Len(c.stack) > 0, Popped(c, d)
  PROVE  KeysOf(d) \subseteq KeysOf(c)
<1>1. ASSUME NEW i \in Places(d, KeyLocs)
      PROVE  i \in Places(c, KeyLocs) /\ d.stack[i] = c.stack[i]
  <2>1. Len(c.stack) \in Nat
    BY DEF CpuState
  <2>2. i \in 1..(Len(c.stack) - 1) /\ LocAt(d, i) \in KeyLocs /\ d.stack[i] = c.stack[i]
    BY DEF Places, Popped
  <2>3. LocAt(c, i) \in KeyLocs /\ i \in 1..Len(c.stack)
    BY <2>1, <2>2, LocPopped
  <2>4. QED
    BY <2>2, <2>3 DEF Places
<1>2. QED
  BY <1>1 DEF KeysOf

\* Nobody is at a location exactly when the count is zero.
LEMMA NoPlaces ==
  ASSUME NEW c \in CpuState, NEW L
  PROVE  /\ Size(c, L) \in Nat
         /\ Size(c, L) = 0 <=> Places(c, L) = {}
<1>1. IsFiniteSet(Places(c, L)) /\ Size(c, L) \in Nat
  BY SizeType
<1>2. QED
  BY <1>1, FS_EmptySet DEF Size

LEMMA TwoPlaces ==
  ASSUME NEW c \in CpuState, NEW L, NEW i, NEW j, i # j, {i, j} \subseteq Places(c, L)
  PROVE  Size(c, L) >= 2
<1>1. IsFiniteSet(Places(c, L))
  BY SizeType
<1>2. IsFiniteSet({j}) /\ Cardinality({j}) = 1
  BY FS_Singleton
<1>3. {j} \cup {i} = {i, j} /\ i \notin {j}
  OBVIOUS
<1>4. IsFiniteSet({i, j}) /\ Cardinality({i, j}) = 2
  BY <1>2, <1>3, FS_AddElement
<1>5. Cardinality({i, j}) <= Cardinality(Places(c, L))
  BY <1>1, FS_Subset
<1>6. QED
  BY <1>4, <1>5 DEF Size

\* No step but a keyboard interrupt brings a key to a handler.
LEMMA KeysEffects ==
  ASSUME CpuOK(cpu), Effects
  PROVE  \/ KeysOf(cpu') \subseteq KeysOf(cpu)
         \/ /\ Interrupted(KeyboardLine)
            /\ KeysOf(cpu') \subseteq KeysOf(cpu) \cup {kbc.scanCode}
<1>1. cpu \in CpuState /\ (cpu.loc # "app" => Len(cpu.stack) > 0)
  BY DEF CpuOK, CpuState, Owned
<1>2. CASE Stays
  BY <1>1, <1>2, KeysKept DEF Stays
<1>3. ASSUME NEW from, NEW to,
             (<<from, to>> \in Forward /\ GoesOn(from, to))
               \/ (<<from, to>> \in Done /\ SendsEoi(from, to))
      PROVE  KeysOf(cpu') \subseteq KeysOf(cpu)
  <2>1. Kept(cpu, cpu', to) /\ (to \in KeyLocs => cpu.loc \in KeyLocs)
    BY <1>3 DEF Forward, Done, GoesOn, SendsEoi, KeyLocs
  <2>2. QED
    BY <1>1, <2>1, KeysKept
<1>4. ASSUME NEW l \in {PitLine, KeyboardLine, Com1Line, MouseLine}, Interrupted(l)
      PROVE  \/ KeysOf(cpu') \subseteq KeysOf(cpu)
             \/ /\ Interrupted(KeyboardLine)
                /\ KeysOf(cpu') \subseteq KeysOf(cpu) \cup {kbc.scanCode}
  <2>1. Handler(IrqVector(l)) \in KeyLocs <=> l = KeyboardLine
    BY LineHandlers
  <2>2. Pushed(cpu, cpu', IrqVector(l), cpu.loc, Handler(IrqVector(l)),
               IF l = KeyboardLine THEN kbc.scanCode ELSE NoKey)
    BY <1>4 DEF Interrupted
  <2>3. KeysOf(cpu') \subseteq KeysOf(cpu) \cup
          (IF Handler(IrqVector(l)) \in KeyLocs
           THEN {IF l = KeyboardLine THEN kbc.scanCode ELSE NoKey} ELSE {})
    BY <1>1, <2>2, KeysPushed
  <2>4. QED
    BY <1>4, <2>1, <2>3
<1>5. ASSUME NEW vec \in {"int15", "int16"}, NEW fn \in AxValues, Calls(vec, fn)
      PROVE  KeysOf(cpu') \subseteq KeysOf(cpu)
  <2> DEFINE c == [cpu EXCEPT !.ax = fn]
  <2>1. c \in CpuState /\ c.stack = cpu.stack /\ c.loc = cpu.loc
    BY <1>1 DEF CpuState
  <2>2. Pushed(c, cpu', vec, "app", vec, NoKey)
    BY <1>5 DEF Calls
  <2> HIDE DEF c
  <2>3. KeysOf(c) = KeysOf(cpu)
    BY <2>1 DEF KeysOf, Places, LocAt
  <2>4. KeysOf(cpu') \subseteq KeysOf(c) \cup (IF vec \in KeyLocs THEN {NoKey} ELSE {})
    <3>1. "app" \in KeyLocs => c.loc \in KeyLocs
      BY DEF KeyLocs
    <3>2. QED
      BY <2>1, <2>2, <3>1, KeysPushed
  <2>5. vec \notin KeyLocs
    BY DEF KeyLocs
  <2>6. QED
    BY <2>3, <2>4, <2>5
<1>6. CASE GuestReturns
  <2>1. cpu.loc # "app" /\ Popped(cpu, cpu')
    BY <1>6 DEF GuestReturns
  <2>2. QED
    BY <1>1, <2>1, KeysPopped
<1>7. CASE BiosEffects
  <2>1. \A loc \in {"ret1C", "g1C", "retMouse", "gMouse", "retTimer", "g08"} : loc \notin KeyLocs
    BY DEF KeyLocs
  <2>2. ASSUME NEW c \in CpuState, KeysOf(c) = KeysOf(cpu), NEW vec,
               NEW ret \in {"ret1C", "retMouse", "retTimer"},
               NEW to \in {"g1C", "gMouse", "g08"}, NEW key, Pushed(c, cpu', vec, ret, to, key)
        PROVE  KeysOf(cpu') \subseteq KeysOf(cpu)
    <3>1. KeysOf(cpu') \subseteq KeysOf(c) \cup (IF to \in KeyLocs THEN {key} ELSE {})
      BY <2>1, <2>2, KeysPushed
    <3>2. QED
      BY <2>1, <2>2, <3>1
  <2>3. CASE BiosChains \/ BiosCallsBack
    BY <1>1, <2>2, <2>3 DEF BiosChains, BiosCallsBack
  <2>4. ASSUME NEW c, Worked(c), BiosReturns(c) \/ BiosTicks(c) \/ BiosTimed(c)
        PROVE  KeysOf(cpu') \subseteq KeysOf(cpu)
    <3>1. c \in CpuState /\ Len(c.stack) > 0 /\ c.stack = cpu.stack /\ c.loc = cpu.loc
      BY <2>4, WorkedFields DEF BiosReturns, BiosTicks, BiosTimed, AtBios
    <3>2. KeysOf(c) = KeysOf(cpu)
      BY <3>1 DEF KeysOf, Places, LocAt
    <3>3. CASE BiosReturns(c)
      BY <3>1, <3>2, <3>3, KeysPopped DEF BiosReturns
    <3>4. CASE BiosTicks(c)
      BY <2>1, <3>1, <3>2, <3>4, KeysKept DEF BiosTicks
    <3>5. CASE BiosTimed(c)
      BY <2>2, <3>1, <3>2, <3>5 DEF BiosTimed
    <3>6. QED
      BY <2>4, <3>3, <3>4, <3>5
  <2>5. QED
    BY <1>7, <2>3, <2>4 DEF BiosEffects
<1>8. QED
  BY <1>2, <1>3, <1>4, <1>5, <1>6, <1>7 DEF Effects

\* An EOI with only the timer and the keyboard in service.
LEMMA PairAcked ==
  ASSUME NEW isr, isr \subseteq {PitLine, KeyboardLine}
  PROVE  /\ Acked(isr, Pic1) \subseteq {PitLine, KeyboardLine}
         /\ InService(Acked(isr, Pic1)) >= InService(isr) - 1
         /\ InService(isr) >= 2 => KeyboardLine \in Acked(isr, Pic1)
<1>1. isr = {} \/ isr = {0} \/ isr = {1} \/ isr = {0, 1}
  BY DEF PitLine, KeyboardLine
<1>2. /\ Acked({}, Pic1) = {} /\ Acked({0}, Pic1) = {}
      /\ Acked({1}, Pic1) = {} /\ Acked({0, 1}, Pic1) = {1}
  BY DEF Acked, Pic1
<1>3. CASE isr = {}
  BY <1>2, <1>3 DEF InService, Count, PitLine, KeyboardLine
<1>4. CASE isr = {0}
  BY <1>2, <1>4 DEF InService, Count, PitLine, KeyboardLine
<1>5. CASE isr = {1}
  BY <1>2, <1>5 DEF InService, Count, PitLine, KeyboardLine
<1>6. CASE isr = {0, 1}
  BY <1>2, <1>6 DEF InService, Count, PitLine, KeyboardLine
<1>7. QED
  BY <1>1, <1>3, <1>4, <1>5, <1>6

\* The EOI of another handler leaves the keyboard in service.
LEMMA EoiKeepsKey ==
  ASSUME KeyInv, NoSti \/ Devices = {},
         Size(cpu, KeyLocs) > 0, cpu.loc \notin KeyLocs
  PROVE  /\ KeyboardLine \in AckedBy(pic.isr, cpu.loc)
         /\ cpu.loc \in {"g08", "g0C"} => KeyboardLine \in Acked(pic.isr, Pic1)
<1>1. CpuOK(cpu) /\ cpu \in CpuState
  BY CoreReady DEF KeyInv
<1>2. KeyboardLine \in pic.isr
  <2>1. Size(cpu, KeyLocs) \in Nat
    BY <1>1, SizeType
  <2>2. QED
    BY <2>1 DEF KeyInv, KeyServed, Count
<1>3. CASE NoSti
  <2>1. PICK i \in Places(cpu, KeyLocs) : TRUE
    BY <1>1, NoPlaces
  <2>2. i \in 1..Len(cpu.stack) /\ LocAt(cpu, i) \in KeyLocs /\ Len(cpu.stack) \in Nat
    BY <1>1 DEF Places, CpuState
  <2>3. i # Len(cpu.stack)
    BY <2>2 DEF LocAt
  <2>4. i + 1 \in 1..Len(cpu.stack) /\ LocAt(cpu, i) = cpu.stack[i + 1].ret
    BY <2>2, <2>3 DEF LocAt
  <2>5. cpu.stack[i + 1].ret \notin BeforeEoi
    BY <1>3, <2>4 DEF KeyInv, Masked, Frames
  <2>6. QED
    BY <2>2, <2>4, <2>5 DEF KeyLocs, BeforeEoi
<1>4. CASE Devices = {}
  <2>1. cpu.loc \notin {"int0C", "g0C", "int74"}
    BY <1>4, NotThere DEF KeyInv
  <2>2. ASSUME cpu.loc \in TickLocs PROVE KeyboardLine \in Acked(pic.isr, Pic1)
    <3>1. Len(cpu.stack) \in Places(cpu, TickLocs)
      BY <1>1, <2>2, TopPlace DEF TickLocs
    <3>2. PICK i \in Places(cpu, KeyLocs) : TRUE
      BY <1>1, NoPlaces
    <3>3. i # Len(cpu.stack)
      BY <3>2 DEF Places, LocAt
    <3>4. {i, Len(cpu.stack)} \subseteq Places(cpu, TickLocs \cup KeyLocs)
      BY <3>1, <3>2 DEF Places
    <3>5. Size(cpu, TickLocs \cup KeyLocs) >= 2
      BY <1>1, <3>3, <3>4, TwoPlaces
    <3>6. InService(pic.isr) >= 2
      BY <1>1, <1>4, <3>5, NoPlaces DEF KeyInv, Paired, InService, Count
    <3>7. QED
      BY <1>4, <3>6, PairAcked DEF KeyInv, Paired
  <2>3. CASE cpu.loc \in TickLocs
    BY <1>2, <2>1, <2>2, <2>3 DEF AckedBy, TickLocs
  <2>4. CASE cpu.loc \notin TickLocs
    <3>1. cpu.loc \notin {"int08", "int09", "int0C", "int74", "g08", "g0C"}
      BY <2>1, <2>4 DEF TickLocs, KeyLocs
    <3>2. AckedBy(pic.isr, cpu.loc) = pic.isr
      BY <3>1 DEF AckedBy
    <3>3. QED
      BY <1>2, <3>1, <3>2
  <2>5. QED
    BY <2>3, <2>4
<1>5. QED
  BY <1>3, <1>4

\* At most one keyboard handler has still to send its EOI.
LEMMA KeyCountStep ==
  ASSUME KeyInv, Polling, NoSti \/ Devices = {}, [Next]_vars
  PROVE  Size(cpu', KeyLocs) <= Count(KeyboardLine \in pic'.isr)
<1> DEFINE size == Size(cpu, KeyLocs)
           size2 == Size(cpu', KeyLocs)
           at(loc) == Count(loc \in KeyLocs)
           on == Count(KeyboardLine \in pic.isr)
           on2 == Count(KeyboardLine \in pic'.isr)
<1>1. Effects /\ CpuOK(cpu) /\ cpu \in CpuState /\ size \in Nat /\ size <= on
  BY CoreReady, StepEffects, SizeType DEF KeyInv, Core, KeyServed
<1>2. /\ \A loc : loc \in KeyLocs => at(loc) = 1
      /\ \A loc : loc \notin KeyLocs => at(loc) = 0
      /\ "app" \notin KeyLocs /\ on \in {0, 1} /\ on2 \in {0, 1}
  BY DEF Count, KeyLocs
<1>3. pic'.isr = pic.isr => on2 = on
  BY DEF on, on2
<1>4. KeyboardLine \in pic'.isr => on2 = 1
  BY DEF Count
<1>5. size > 0 /\ cpu.loc \notin KeyLocs =>
        /\ KeyboardLine \in AckedBy(pic.isr, cpu.loc)
        /\ cpu.loc \in {"g08", "g0C"} => KeyboardLine \in Acked(pic.isr, Pic1)
  BY EoiKeepsKey
<1>6. SUFFICES size2 <= on2
  OBVIOUS
<1>s. /\ Stays => size2 = size
      /\ \A from, to : (<<from, to>> \in Forward /\ GoesOn(from, to))
                         \/ (<<from, to>> \in Done /\ SendsEoi(from, to))
           => cpu.loc = from /\ size2 = size - at(cpu.loc) + at(to)
      /\ \A l \in {PitLine, KeyboardLine, Com1Line, MouseLine} : Interrupted(l)
           => size2 = size + at(Handler(IrqVector(l)))
      /\ \A vec \in {"int15", "int16"}, fn \in AxValues : Calls(vec, fn)
           => size2 = size + at(vec)
      /\ GuestReturns => size2 = size - at(cpu.loc)
      /\ BiosChains => size2 = size - at(cpu.loc) + at("ret1C") + at("g1C")
      /\ BiosCallsBack => size2 = size - at(cpu.loc) + at("retMouse") + at("gMouse")
      /\ \A c : Worked(c) /\ BiosReturns(c) => size2 = size - at(cpu.loc)
      /\ \A c : Worked(c) /\ BiosTicks(c) => size2 = size - at(cpu.loc) + at("ret1C")
      /\ \A c : Worked(c) /\ BiosTimed(c)
           => size2 = size - at(cpu.loc) + at("retTimer") + at("g08")
  BY <1>1, <1>2, SizeEffects
<1> HIDE DEF size, size2, at, on, on2
<1>7. CASE Stays
  BY <1>1, <1>3, <1>7, <1>s DEF Stays
<1>8. ASSUME NEW from, NEW to, <<from, to>> \in Forward, GoesOn(from, to)
      PROVE  size2 <= on2
  <2>1. at(from) = at(to) /\ at(from) \in {0, 1}
    BY <1>2, <1>8 DEF Forward, KeyLocs
  <2>2. size2 = size
    BY <1>1, <1>8, <1>s, <2>1 DEF GoesOn
  <2>3. QED
    BY <1>1, <1>3, <1>8, <2>2 DEF GoesOn
<1>9. ASSUME NEW from, NEW to, <<from, to>> \in Done, SendsEoi(from, to)
      PROVE  size2 <= on2
  <2>5. to \notin KeyLocs
    BY <1>9 DEF Done, KeyLocs
  <2>1. at(to) = 0 /\ cpu.loc = from /\ size2 = size - at(from) + at(to)
    BY <1>2, <1>9, <1>s, <2>5
  <2>2. CASE from = "g09read"
    <3>1. at(from) = 1
      BY <1>2, <2>2 DEF KeyLocs
    <3>2. QED
      BY <1>1, <1>2, <2>1, <3>1
  <2>3. CASE from # "g09read"
    <3>1. from \in {"g08", "g0C"} /\ from \notin KeyLocs
      BY <1>9, <2>3 DEF Done, KeyLocs
    <3>2. at(from) = 0
      BY <1>2, <3>1
    <3>3. size > 0 => on2 = 1
      BY <1>4, <1>5, <1>9, <2>1, <3>1 DEF SendsEoi
    <3>4. QED
      BY <1>1, <1>2, <2>1, <3>2, <3>3
  <2>4. QED
    BY <2>2, <2>3
<1>10. ASSUME NEW l \in {PitLine, KeyboardLine, Com1Line, MouseLine}, Interrupted(l)
       PROVE  size2 <= on2
  <2>1. size2 = size + at(Handler(IrqVector(l)))
    BY <1>10, <1>s
  <2>2. CASE l = KeyboardLine
    <3>1. on = 0 /\ on2 = 1
      BY <1>10, <2>2 DEF Interrupted, on, on2, Count
    <3>2. at(Handler(IrqVector(l))) = 1
      BY <1>2, <2>2, LineHandlers
    <3>3. QED
      BY <1>1, <2>1, <3>1, <3>2
  <2>3. CASE l # KeyboardLine
    <3>1. KeyboardLine \in pic'.isr <=> KeyboardLine \in pic.isr
      BY <1>10, <2>3 DEF Interrupted
    <3>2. on2 = on
      BY <3>1 DEF on, on2, Count
    <3>3. at(Handler(IrqVector(l))) = 0
      BY <1>2, <2>3, LineHandlers
    <3>4. QED
      BY <1>1, <2>1, <3>2, <3>3
  <2>4. QED
    BY <2>2, <2>3
<1>11. ASSUME NEW vec \in {"int15", "int16"}, NEW fn \in AxValues, Calls(vec, fn)
       PROVE  size2 <= on2
  <2>1. at(vec) = 0
    BY <1>2 DEF KeyLocs
  <2>2. QED
    BY <1>1, <1>3, <1>11, <1>s, <2>1 DEF Calls
<1>12. CASE GuestReturns
  <2>1. at(cpu.loc) = 0
    BY <1>2, <1>12 DEF GuestReturns, KeyLocs
  <2>2. QED
    BY <1>1, <1>3, <1>12, <1>s, <2>1 DEF GuestReturns
<1>13. CASE BiosEffects
  <2>1. /\ at("ret1C") = 0 /\ at("g1C") = 0 /\ at("retMouse") = 0 /\ at("gMouse") = 0
        /\ at("retTimer") = 0 /\ at("g08") = 0 /\ at(cpu.loc) \in {0, 1}
    BY <1>2 DEF KeyLocs
  <2>2. size2 = size - at(cpu.loc) /\ AckedBy(pic.isr, cpu.loc) \subseteq pic'.isr
    <3>1. CASE BiosChains \/ BiosCallsBack
      BY <1>1, <1>s, <2>1, <3>1 DEF BiosChains, BiosCallsBack, AtBios
    <3>2. ASSUME NEW c, Worked(c), BiosReturns(c) \/ BiosTicks(c) \/ BiosTimed(c)
          PROVE  size2 = size - at(cpu.loc) /\ AckedBy(pic.isr, cpu.loc) \subseteq pic'.isr
      <4>1. AckedBy(pic.isr, cpu.loc) \subseteq pic'.isr
        BY <3>2 DEF BiosReturns, BiosTicks, BiosTimed, AtBios
      <4>2. size2 = size - at(cpu.loc)
        BY <1>1, <1>s, <2>1, <3>2
      <4>3. QED
        BY <4>1, <4>2
    <3>3. QED
      BY <1>13, <3>1, <3>2 DEF BiosEffects
  <2>3. CASE cpu.loc \in KeyLocs
    BY <1>1, <1>2, <2>2, <2>3
  <2>4. CASE cpu.loc \notin KeyLocs
    <3>1. size > 0 => on2 = 1
      BY <1>4, <1>5, <2>2, <2>4
    <3>2. QED
      BY <1>1, <1>2, <2>2, <2>4, <3>1
  <2>5. QED
    BY <2>3, <2>4
<1>14. QED
  BY <1>1, <1>7, <1>8, <1>9, <1>10, <1>11, <1>12, <1>13 DEF Effects

LEMMA PairedStep ==
  ASSUME KeyInv, Polling, Devices = {}, [Next]_vars
  PROVE  Paired'
<1> DEFINE size == Size(cpu, TickLocs \cup KeyLocs)
           size2 == Size(cpu', TickLocs \cup KeyLocs)
           at(loc) == Count(loc \in TickLocs \cup KeyLocs)
<1>1. /\ Effects /\ CpuOK(cpu) /\ size \in Nat /\ Paired
      /\ Core /\ Attached /\ pic.isr \subseteq Lines
  <2>1. Effects /\ CpuOK(cpu) /\ Core /\ Attached /\ Paired
    BY CoreReady, StepEffects DEF KeyInv, Core
  <2>2. size \in Nat
    BY <2>1, SizeType DEF CpuOK
  <2>3. QED
    BY <2>1, <2>2 DEF Core, IInv, TypeOK, PicState
<1>2. /\ \A loc : loc \in TickLocs \cup KeyLocs => at(loc) = 1
      /\ \A loc : loc \notin TickLocs \cup KeyLocs => at(loc) = 0
      /\ \A loc : at(loc) \in {0, 1}
      /\ "app" \notin TickLocs \cup KeyLocs
  BY DEF Count, KeyLocs, TickLocs
<1>3. cpu.loc \notin {"int0C", "g0C", "int74"}
  BY <1>1, NotThere
<1>4. at(cpu.loc) <= size
  <2>1. ASSUME cpu.loc \in TickLocs \cup KeyLocs PROVE size >= 1
    <3>1. Places(cpu, TickLocs \cup KeyLocs) # {}
      BY <1>1, <1>2, <2>1, TopPlace
    <3>2. cpu \in CpuState
      BY <1>1 DEF CpuOK
    <3>3. size # 0
      BY <3>1, <3>2, NoPlaces
    <3>4. QED
      BY <1>1, <3>3
  <2>2. QED
    BY <1>1, <1>2, <2>1
<1>5. /\ InService(pic.isr) >= size
      /\ \A isr : InService(isr) \in Nat
  BY <1>1 DEF Paired, InService, Count
<1>6. SUFFICES pic'.isr \subseteq {PitLine, KeyboardLine} /\ size2 <= InService(pic'.isr)
  BY DEF Paired
<1>s. /\ Stays => size2 = size
      /\ \A from, to : (<<from, to>> \in Forward /\ GoesOn(from, to))
                         \/ (<<from, to>> \in Done /\ SendsEoi(from, to))
           => cpu.loc = from /\ size2 = size - at(cpu.loc) + at(to)
      /\ \A l \in {PitLine, KeyboardLine, Com1Line, MouseLine} : Interrupted(l)
           => size2 = size + at(Handler(IrqVector(l)))
      /\ \A vec \in {"int15", "int16"}, fn \in AxValues : Calls(vec, fn)
           => size2 = size + at(vec)
      /\ GuestReturns => size2 = size - at(cpu.loc)
      /\ BiosChains => size2 = size - at(cpu.loc) + at("ret1C") + at("g1C")
      /\ BiosCallsBack => size2 = size - at(cpu.loc) + at("retMouse") + at("gMouse")
      /\ \A c : Worked(c) /\ BiosReturns(c) => size2 = size - at(cpu.loc)
      /\ \A c : Worked(c) /\ BiosTicks(c) => size2 = size - at(cpu.loc) + at("ret1C")
      /\ \A c : Worked(c) /\ BiosTimed(c)
           => size2 = size - at(cpu.loc) + at("retTimer") + at("g08")
  BY <1>1, <1>2, SizeEffects
<1> HIDE DEF size, size2, at
<1>7. ASSUME pic'.isr = pic.isr, size2 = size
      PROVE  pic'.isr \subseteq {PitLine, KeyboardLine} /\ size2 <= InService(pic'.isr)
  BY <1>1, <1>5, <1>7 DEF Paired
\* An EOI sent before the end of a timer or keyboard handler.
<1>8. LET isr == Acked(pic.isr, Pic1)
      IN  isr \subseteq {PitLine, KeyboardLine} /\ size - 1 <= InService(isr)
  <2>1. InService(Acked(pic.isr, Pic1)) >= InService(pic.isr) - 1
    BY <1>1, PairAcked DEF Paired
  <2>2. QED
    BY <1>1, <1>5, <2>1, PairAcked DEF Paired
\* What the BIOS handler at work leaves in service.
<1>9. LET isr == AckedBy(pic.isr, cpu.loc)
      IN  /\ isr \subseteq {PitLine, KeyboardLine}
          /\ cpu.loc \in BiosLocs => size - at(cpu.loc) <= InService(isr)
  <2>1. CASE cpu.loc \in {"int08", "int09"}
    <3>1. AckedBy(pic.isr, cpu.loc) = Acked(pic.isr, Pic1)
      BY <2>1 DEF AckedBy
    <3>2. cpu.loc \in TickLocs \cup KeyLocs
      BY <2>1 DEF TickLocs, KeyLocs
    <3>3. at(cpu.loc) = 1
      BY <1>2, <3>2
    <3>4. QED
      BY <1>8, <3>1, <3>3
  <2>2. CASE cpu.loc \notin {"int08", "int09"}
    <3>1. AckedBy(pic.isr, cpu.loc) = pic.isr
      BY <1>3, <2>2 DEF AckedBy
    <3>2. cpu.loc \in BiosLocs => at(cpu.loc) = 0
      BY <1>2, <2>2 DEF TickLocs, KeyLocs, BiosLocs, Vectors, Trampolines
    <3>3. cpu.loc \in BiosLocs => size - at(cpu.loc) = size
      BY <1>1, <3>2
    <3>4. QED
      BY <1>1, <1>5, <3>1, <3>3 DEF Paired
  <2>3. QED
    BY <2>1, <2>2
<1>10. CASE Stays
  BY <1>7, <1>10, <1>s DEF Stays
<1>11. ASSUME NEW from, NEW to, <<from, to>> \in Forward, GoesOn(from, to)
       PROVE  pic'.isr \subseteq {PitLine, KeyboardLine} /\ size2 <= InService(pic'.isr)
  <2>1. from \in TickLocs \cup KeyLocs <=> to \in TickLocs \cup KeyLocs
    BY <1>11 DEF Forward, KeyLocs, TickLocs
  <2>2. at(from) = at(to) /\ at(to) \in {0, 1}
    BY <1>2, <2>1
  <2>3. size2 = size - at(from) + at(to)
    BY <1>11, <1>s DEF GoesOn
  <2>4. size2 = size
    BY <1>1, <2>2, <2>3
  <2>5. QED
    BY <1>7, <1>11, <2>4 DEF GoesOn
<1>12. ASSUME NEW from, NEW to, <<from, to>> \in Done, SendsEoi(from, to)
       PROVE  pic'.isr \subseteq {PitLine, KeyboardLine} /\ size2 <= InService(pic'.isr)
  <2>1. to \notin TickLocs \cup KeyLocs
    BY <1>12 DEF Done, KeyLocs, TickLocs
  <2>2. from \in TickLocs \cup KeyLocs
    BY <1>3, <1>12 DEF Done, SendsEoi, KeyLocs, TickLocs
  <2>3. size2 = size - at(from) + at(to) /\ at(from) = 1 /\ at(to) = 0
    BY <1>2, <1>12, <1>s, <2>1, <2>2 DEF SendsEoi
  <2>4. size2 = size - 1
    BY <1>1, <2>3
  <2>5. QED
    BY <1>8, <1>12, <2>4 DEF SendsEoi
<1>13. ASSUME NEW l \in {PitLine, KeyboardLine, Com1Line, MouseLine}, Interrupted(l)
       PROVE  pic'.isr \subseteq {PitLine, KeyboardLine} /\ size2 <= InService(pic'.isr)
  <2>1. l \in {PitLine, KeyboardLine}
    BY <1>1, <1>13 DEF Interrupted, Pending, Attached, PitLine, KeyboardLine, Com1Line, MouseLine
  <2>2. pic'.isr = pic.isr \cup {l} /\ l \notin pic.isr
    BY <1>13 DEF Interrupted
  <2>3. InService(pic'.isr) = InService(pic.isr) + 1
    BY <2>1, <2>2 DEF InService, Count, PitLine, KeyboardLine
  <2>4. size2 = size + at(Handler(IrqVector(l))) /\ at(Handler(IrqVector(l))) \in {0, 1}
    BY <1>2, <1>13, <1>s
  <2>5. QED
    BY <1>1, <1>5, <2>1, <2>2, <2>3, <2>4 DEF Paired
<1>14. ASSUME NEW vec \in {"int15", "int16"}, NEW fn \in AxValues, Calls(vec, fn)
       PROVE  pic'.isr \subseteq {PitLine, KeyboardLine} /\ size2 <= InService(pic'.isr)
  <2>1. at(vec) = 0
    BY <1>2 DEF KeyLocs, TickLocs
  <2>2. size2 = size
    BY <1>1, <1>14, <1>s, <2>1
  <2>3. QED
    BY <1>7, <1>14, <2>2 DEF Calls
<1>15. CASE GuestReturns
  <2>1. at(cpu.loc) = 0
    BY <1>2, <1>15 DEF GuestReturns, KeyLocs, TickLocs
  <2>2. size2 = size
    BY <1>1, <1>15, <1>s, <2>1
  <2>3. QED
    BY <1>7, <1>15, <2>2 DEF GuestReturns
<1>16. CASE BiosEffects
  <2>1. /\ at("ret1C") = 0 /\ at("g1C") = 0 /\ at("retMouse") = 0 /\ at("gMouse") = 0
        /\ at("retTimer") = 0 /\ at("g08") = 1 /\ at(cpu.loc) \in {0, 1}
    BY <1>2 DEF KeyLocs, TickLocs
  <2>2. ASSUME AtBios, size2 = size - at(cpu.loc)
        PROVE  pic'.isr \subseteq {PitLine, KeyboardLine} /\ size2 <= InService(pic'.isr)
    BY <1>9, <2>2 DEF AtBios
  <2>3. CASE BiosChains \/ BiosCallsBack
    <3>1. AtBios
      BY <2>3 DEF BiosChains, BiosCallsBack
    <3>2. size2 = size - at(cpu.loc)
      BY <1>1, <1>s, <2>1, <2>3
    <3>3. QED
      BY <2>2, <3>1, <3>2
  <2>4. ASSUME NEW c, Worked(c), BiosReturns(c) \/ BiosTicks(c)
        PROVE  pic'.isr \subseteq {PitLine, KeyboardLine} /\ size2 <= InService(pic'.isr)
    <3>1. AtBios
      BY <2>4 DEF BiosReturns, BiosTicks
    <3>2. size2 = size - at(cpu.loc)
      BY <1>1, <1>s, <2>1, <2>4
    <3>3. QED
      BY <2>2, <3>1, <3>2
  <2>5. ASSUME NEW c, Worked(c), BiosTimed(c)
        PROVE  pic'.isr \subseteq {PitLine, KeyboardLine} /\ size2 <= InService(pic'.isr)
    <3> DEFINE isr == AckedBy(pic.isr, cpu.loc)
    <3>1. /\ cpu.loc \in BiosLocs /\ PitLine \notin isr
          /\ pic'.isr = isr \cup {PitLine}
      BY <2>5 DEF BiosTimed
    <3>2. isr \subseteq {PitLine, KeyboardLine} /\ size - at(cpu.loc) <= InService(isr)
      BY <1>9, <3>1
    <3>3. size2 = size - at(cpu.loc) + 1
      BY <1>1, <1>s, <2>1, <2>5
    <3> HIDE DEF isr
    <3>4. InService(pic'.isr) = InService(isr) + 1
      BY <3>1 DEF InService, Count, PitLine, KeyboardLine
    <3>5. QED
      BY <1>1, <1>5, <2>1, <3>1, <3>2, <3>3, <3>4
  <2>6. QED
    BY <1>16, <2>3, <2>4, <2>5 DEF BiosEffects
<1>17. QED
  BY <1>1, <1>10, <1>11, <1>12, <1>13, <1>14, <1>15, <1>16 DEF Effects

LEMMA KeyServedStep ==
  ASSUME KeyInv, Polling, NoSti \/ Devices = {}, [Next]_vars
  PROVE  KeyServed'
<1>1. /\ Effects /\ CpuOK(cpu) /\ cpu \in CpuState /\ IInv /\ Ready16
      /\ KeysOf(cpu) \subseteq {kbc.scanCode}
      /\ Size(cpu, KeyLocs) <= Count(KeyboardLine \in pic.isr)
  BY CoreReady, StepEffects DEF KeyInv, Core, KeyServed
<1>2. KeysOf(cpu') \subseteq {kbc'.scanCode}
  <2>1. PICK q : Loads(q) \/ Keeps(q)
    BY <1>1, KeyboardEffects
  <2>2. CASE Loads(q)
    <3>1. Count(KeyboardLine \in pic.isr) = 0 /\ cpu' = cpu
      BY <2>2 DEF Loads, Count
    <3>2. Size(cpu, KeyLocs) = 0
      BY <1>1, <3>1, NoPlaces
    <3>3. KeysOf(cpu) = {}
      BY <1>1, <3>2, NoPlaces DEF KeysOf
    <3>4. QED
      BY <3>1, <3>3
  <2>3. CASE Keeps(q)
    <3>1. kbc'.scanCode = kbc.scanCode
      BY <2>3 DEF Keeps
    <3>2. QED
      BY <1>1, <3>1, KeysEffects
  <2>4. QED
    BY <2>1, <2>2, <2>3
<1>3. QED
  BY <1>2, KeyCountStep DEF KeyServed

LEMMA KeyInvariant ==
  ASSUME Polling, NoSti \/ Devices = {}
  PROVE  Spec => []KeyInv
<1>1. Init => KeyInv
  <2> SUFFICES ASSUME Init PROVE KeyInv
    OBVIOUS
  <2>1. Core
    BY CoreInit
  <2>2. cpu.stack = <<>> /\ cpu.loc = "app" /\ cpu \in CpuState /\ pic.isr = {}
    BY <2>1 DEF Init, PicReset, Core, IInv, CpuOK
  <2>3. \A L : Places(cpu, L) = {}
    BY <2>2 DEF Places
  <2>4. \A L : Size(cpu, L) = 0
    BY <2>2, <2>3, NoPlaces
  <2>5. KeyServed /\ Paired
    BY <2>2, <2>3, <2>4 DEF KeyServed, Paired, KeysOf, Count, InService
  <2>6. Attached /\ Masked /\ Exact
    BY DEF Init, Attached, KbcReset, Masked, Exact, Frames, Open, LineAt, TickLocs, KeyLocs,
           PicReset
  <2>7. QED
    BY <2>1, <2>5, <2>6 DEF KeyInv
<1>2. KeyInv /\ [Next]_vars => KeyInv'
  <2> SUFFICES ASSUME KeyInv, [Next]_vars PROVE KeyInv'
    OBVIOUS
  <2>1. Core' /\ Attached' /\ KeyServed'
    BY CoreStep, AttachedStep, KeyServedStep DEF KeyInv
  <2>2. ASSUME NoSti PROVE Masked' /\ Exact'
    BY <2>2, MaskedStep, ExactStep DEF KeyInv
  <2>3. ASSUME Devices = {} PROVE Paired'
    BY <2>3, PairedStep
  <2>4. QED
    BY <2>1, <2>2, <2>3 DEF KeyInv
<1>3. QED
  BY <1>1, <1>2, PTL DEF Spec

\* A keyboard handler that has still to read its key reads the one whose
\* interrupt it serves: no key is loaded while one is, and a handler that
\* enables interrupts is not entered a second time.
THEOREM KeyOfItsInterrupt ==
  ASSUME Polling, NoSti \/ Devices = {}
  PROVE  Spec => []HandlerSeesItsKey
<1>1. ASSUME KeyInv PROVE HandlerSeesItsKey
  <2>1. /\ CpuOK(cpu) /\ DOMAIN cpu.stack = 1..Len(cpu.stack)
        /\ KeysOf(cpu) \subseteq {kbc.scanCode}
    BY <1>1, CoreReady DEF KeyInv, KeyServed, CpuState
  <2>2. ASSUME NEW i \in DOMAIN cpu.stack, cpu.stack[i].vec = "int09", LocOf(i) \in BeforeEoi
        PROVE  kbc.scanCode = cpu.stack[i].key
    <3>1. LocAt(cpu, i) = LocOf(i)
      BY DEF LocAt, LocOf
    <3>2. "int09" \in Owners(LocOf(i))
      BY <2>1, <2>2, <3>1 DEF CpuOK, Owned
    <3>3. LocOf(i) \in KeyLocs
      BY <2>2, <3>2 DEF BeforeEoi, Owners, KeyLocs
    <3>4. cpu.stack[i].key \in KeysOf(cpu)
      BY <2>1, <3>1, <3>3 DEF KeysOf, Places
    <3>5. QED
      BY <2>1, <3>4
  <2>3. QED
    BY <2>2 DEF HandlerSeesItsKey
<1>2. QED
  BY <1>1, KeyInvariant, PTL

-----------------------------------------------------------------------------
(* Keys are buffered once, in the order of the host.                         *)

\* The keys the host has pressed are those loaded so far, up to the one in
\* the controller, and those still waiting; a key that is about to interrupt
\* or whose handler is at work has not been read by INT 09h.
KeyOrder ==
  /\ kbc.aux = <<>> /\ ~kbc.auxEnabled
  /\ typed \in 0..kbc.scanCode
  /\ kbc.scanCode + Len(keyPresses) = pressed
  /\ \A j \in 1..Len(keyPresses) : keyPresses[j] = kbc.scanCode + j
  /\ kbc.pendingKey => typed < kbc.scanCode
  /\ Size(cpu, KeyLocs) > 0 => typed < kbc.scanCode /\ ~kbc.pendingKey

\* INT 09h of the BIOS does not read its key a second time.
LEMMA BiosKeys ==
  ASSUME CpuOK(cpu), BiosEffects
  PROVE  Size(cpu', KeyLocs) = Size(cpu, KeyLocs) - Count(cpu.loc \in KeyLocs)
<1>1. /\ \A loc \in {"ret1C", "g1C", "retMouse", "gMouse", "retTimer", "g08"} :
           Count(loc \in KeyLocs) = 0
      /\ "app" \notin KeyLocs
  BY DEF Count, KeyLocs
<1>2. Size(cpu, KeyLocs) \in Nat /\ Count(cpu.loc \in KeyLocs) \in Nat
  BY SizeType DEF CpuOK, Count
<1>3. QED
  BY <1>1, <1>2, SizeEffects DEF BiosEffects

LEMMA KeyOrderStep ==
  ASSUME KeyInv, KeyOrder, Polling, NoSti \/ Devices = {}, MouseLine \notin Devices, [Next]_vars
  PROVE  KeyOrder' /\ (Len(bda') > Len(bda) => Last(bda') \in Keys /\ Last(bda') > typed)
<1>1. /\ Effects /\ CpuOK(cpu) /\ cpu \in CpuState /\ IInv /\ IInv' /\ Ready16
      /\ KeysOf(cpu) \subseteq {kbc.scanCode}
      /\ Size(cpu, KeyLocs) <= Count(KeyboardLine \in pic.isr)
      /\ cpu.loc # "int15"
  BY CoreReady, CoreStep, StepEffects, NotThere DEF KeyInv, Core, KeyServed
<1>2. PICK q : Queued(q) /\ (Loads(q) \/ Keeps(q))
  BY <1>1, KeyboardEffects
<1>3. /\ kbc.scanCode \in Nat /\ kbc.scanCode <= MaxKeys
      /\ pressed \in Nat /\ MaxKeys \in Nat
      /\ keyPresses \in Seq(Keys) /\ kbc \in KbcState
      /\ cpu' \in CpuState
  <2>1. kbc.scanCode \in Keys \cup {NoKey} /\ kbc \in KbcState
    BY <1>1 DEF IInv, TypeOK, KbcState
  <2>2. kbc.scanCode \in Nat /\ kbc.scanCode <= MaxKeys
    BY <2>1, MaxKeysAssumption DEF Keys, NoKey
  <2>3. QED
    BY <1>1, <2>1, <2>2, MaxKeysAssumption DEF IInv, TypeOK, CpuOK
<1>4. /\ q \in Seq(Int) /\ kbc.scanCode + Len(q) = pressed'
      /\ \A j \in 1..Len(q) : q[j] = kbc.scanCode + j
  <2>1. Len(keyPresses) \in Nat /\ keyPresses \in Seq(Int)
    BY <1>3 DEF Keys
  <2>2. CASE q = keyPresses /\ pressed' = pressed
    BY <2>1, <2>2 DEF KeyOrder
  <2>3. CASE q = Append(keyPresses, pressed + 1) /\ pressed' = pressed + 1
    <3>1. /\ q \in Seq(Int) /\ Len(q) = Len(keyPresses) + 1
          /\ \A j \in 1..Len(keyPresses) : q[j] = keyPresses[j]
          /\ q[Len(keyPresses) + 1] = pressed + 1
      BY <1>3, <2>1, <2>3
    <3>2. \A j \in 1..Len(q) : j \in 1..Len(keyPresses) \/ j = Len(keyPresses) + 1
      BY <2>1, <3>1
    <3>3. kbc.scanCode + Len(keyPresses) = pressed
      BY DEF KeyOrder
    <3>4. ASSUME NEW j \in 1..Len(q) PROVE q[j] = kbc.scanCode + j
      <4>1. CASE j \in 1..Len(keyPresses)
        BY <3>1, <4>1 DEF KeyOrder
      <4>2. CASE j = Len(keyPresses) + 1
        BY <1>3, <2>1, <3>1, <3>3, <4>2, SMTT(30)
      <4>3. QED
        BY <3>2, <4>1, <4>2
    <3>5. kbc.scanCode + Len(q) = pressed'
      <4>1. \A a \in Nat, b \in Nat, c \in Nat : a + b = c => a + (b + 1) = c + 1
        OBVIOUS
      <4>2. Len(q) = Len(keyPresses) + 1 /\ pressed' = pressed + 1
        BY <2>3, <3>1
      <4>3. QED
        BY <1>3, <2>1, <3>3, <4>1, <4>2
    <3>6. QED
      BY <3>1, <3>4, <3>5
  <2>4. QED
    BY <1>2, <2>2, <2>3 DEF Queued
<1>5. typed \in Nat /\ typed <= kbc.scanCode
  BY <1>3 DEF KeyOrder
<1>6. CASE Loads(q)
  <2>a. /\ keyPresses' = Tail(q) /\ typed' = typed /\ bda' = bda /\ cpu' = cpu
        /\ KeyboardLine \notin pic.isr /\ kbc' = KeyPress(kbc, Head(q)) /\ q # <<>>
    BY <1>6 DEF Loads
  <2>b. Len(q) \in Nat /\ Len(q) > 0 /\ 1 \in 1..Len(q) /\ Head(q) = q[1]
    BY <1>4, <2>a
  <2>c. kbc'.scanCode = Head(q) /\ kbc'.aux = kbc.aux /\ kbc'.auxEnabled = kbc.auxEnabled
    BY <1>3, <2>a DEF KeyPress, KbcState
  <2>1. /\ kbc'.scanCode = kbc.scanCode + 1 /\ kbc'.aux = <<>> /\ ~kbc'.auxEnabled
        /\ keyPresses' = Tail(q) /\ typed' = typed /\ bda' = bda /\ cpu' = cpu
        /\ KeyboardLine \notin pic.isr /\ Len(q) > 0
    BY <1>4, <2>a, <2>b, <2>c DEF KeyOrder
  <2>2. Size(cpu', KeyLocs) = 0
    BY <1>1, <2>1, NoPlaces DEF Count
  <2>3. /\ kbc'.scanCode + Len(keyPresses') = pressed'
        /\ \A j \in 1..Len(keyPresses') : keyPresses'[j] = kbc'.scanCode + j
    <3>1. /\ Len(Tail(q)) = Len(q) - 1
          /\ \A j \in 1..(Len(q) - 1) : Tail(q)[j] = q[j + 1] /\ j + 1 \in 1..Len(q)
      BY <1>4, <2>1
    <3>2. \A a \in Nat, b \in Nat, c \in Int : a + b = c => (a + 1) + (b - 1) = c
      OBVIOUS
    <3>3. kbc'.scanCode + Len(keyPresses') = pressed'
      BY <1>3, <1>4, <2>1, <2>b, <3>1, <3>2
    <3>4. ASSUME NEW j \in 1..(Len(q) - 1)
          PROVE  Tail(q)[j] = (kbc.scanCode + 1) + j
      <4>1. Tail(q)[j] = kbc.scanCode + (j + 1)
        BY <1>4, <3>1
      <4>2. j \in Int
        BY <2>b
      <4>3. QED
        BY <1>3, <4>1, <4>2
    <3>5. QED
      BY <2>1, <3>1, <3>3, <3>4
  <2>4. QED
    BY <1>3, <1>5, <2>1, <2>2, <2>3 DEF KeyOrder
<1>7. CASE Keeps(q)
  <2>1. /\ kbc'.aux = <<>> /\ ~kbc'.auxEnabled /\ keyPresses' = q
        /\ kbc'.scanCode = kbc.scanCode /\ (kbc'.pendingKey => kbc.pendingKey)
    BY <1>1, <1>7 DEF Keeps, KeyOrder
  <2>2. SUFFICES /\ typed' \in 0..kbc.scanCode
                 /\ kbc'.pendingKey => typed' < kbc.scanCode
                 /\ Size(cpu', KeyLocs) > 0 => typed' < kbc.scanCode /\ ~kbc'.pendingKey
                 /\ Len(bda') > Len(bda) => Last(bda') \in Keys /\ Last(bda') > typed
    BY <1>4, <2>1 DEF KeyOrder
  <2>3. bda \in Seq(Keys \cup {NoKey} \cup AuxBytes)
    BY <1>1 DEF IInv, TypeOK
  <2>4. CASE typed' = typed /\ (bda' = bda \/ (bda # <<>> /\ bda' = Tail(bda)))
    <3>1. ~(Len(bda') > Len(bda))
      BY <2>3, <2>4
    <3>2. CASE Size(cpu, KeyLocs) > 0
      BY <1>3, <1>5, <2>1, <2>4, <3>1, <3>2 DEF KeyOrder
    <3>3. CASE Size(cpu, KeyLocs) = 0
      <4>1. KeysOf(cpu) = {}
        BY <1>1, <3>3, NoPlaces DEF KeysOf
      <4>2. CASE KeysOf(cpu') \subseteq KeysOf(cpu)
        <5>1. Places(cpu', KeyLocs) = {}
          BY <4>1, <4>2 DEF KeysOf
        <5>2. Size(cpu', KeyLocs) = 0
          BY <1>3, <5>1, NoPlaces
        <5>3. QED
          BY <1>3, <1>5, <2>1, <2>4, <3>1, <5>2 DEF KeyOrder
      <4>3. CASE Interrupted(KeyboardLine)
        <5>1. kbc.pendingKey /\ ~kbc'.pendingKey
          BY <4>3 DEF Interrupted, Pending, PitLine, KeyboardLine, Com1Line, MouseLine
        <5>2. QED
          BY <1>3, <1>5, <2>4, <3>1, <5>1 DEF KeyOrder
      <4>4. QED
        BY <1>1, <4>2, <4>3, KeysEffects
    <3>4. QED
      BY <1>1, <3>2, <3>3, NoPlaces
  <2>5. CASE /\ cpu.loc = "int09" /\ BiosEffects /\ typed' = PortData(kbc)
             /\ bda' = bda \/ bda' = Append(bda, PortData(kbc))
    <3>1. PortData(kbc) = kbc.scanCode
      BY DEF PortData, KeyOrder
    <3>2. cpu.loc \in KeyLocs /\ Count(cpu.loc \in KeyLocs) = 1
      BY <2>5 DEF KeyLocs, Count
    <3>3. Size(cpu, KeyLocs) \in Nat /\ Size(cpu, KeyLocs) # 0
      <4>1. Places(cpu, KeyLocs) # {}
        BY <1>1, <3>2, TopPlace DEF KeyLocs
      <4>2. QED
        BY <1>1, <4>1, NoPlaces
    <3>4. typed < kbc.scanCode /\ ~kbc.pendingKey
      BY <3>3 DEF KeyOrder
    <3>5. Size(cpu', KeyLocs) = Size(cpu, KeyLocs) - 1
      BY <1>1, <2>5, <3>2, BiosKeys
    <3>6. Size(cpu', KeyLocs) = 0
      BY <1>1, <3>3, <3>5 DEF Count
    <3>7. Len(bda') > Len(bda) => Last(bda') = kbc.scanCode
      BY <2>3, <2>5, <3>1 DEF Last
    <3>8. kbc.scanCode \in Keys
      BY <1>3, <1>5, <3>4 DEF Keys
    <3>9. QED
      BY <1>3, <1>5, <2>1, <2>5, <3>1, <3>4, <3>6, <3>7, <3>8
  <2>6. QED
    BY <1>7, <2>4, <2>5 DEF Keeps
<1>8. QED
  BY <1>2, <1>6, <1>7

\* Without a mouse, INT 09h buffers only keys, each at most once, and in the
\* order in which the host pressed them.
THEOREM KeysInOrder ==
  ASSUME Polling, NoSti \/ Devices = {}, MouseLine \notin Devices
  PROVE  Spec => BufferedOnceInOrder
<1>1. Init => KeyOrder
  <2> SUFFICES ASSUME Init PROVE KeyOrder
    OBVIOUS
  <2>1. cpu.stack = <<>> /\ cpu \in CpuState
    BY CoreInit DEF Init, Core, IInv, CpuOK
  <2>2. Size(cpu, KeyLocs) = 0
    <3>1. Places(cpu, KeyLocs) = {}
      BY <2>1 DEF Places
    <3>2. QED
      BY <2>1, <3>1, NoPlaces
  <2>3. QED
    BY <2>2 DEF Init, KeyOrder, KbcReset, NoKey
<1>2. KeyInv /\ KeyOrder /\ [Next]_vars
        => KeyOrder' /\ (Len(bda') > Len(bda) => Last(bda') \in Keys /\ Last(bda') > typed)
  BY KeyOrderStep
<1>3. KeyInv /\ KeyOrder /\ [Next]_vars
        => [Len(bda') > Len(bda) => Last(bda') \in Keys /\ Last(bda') > typed]_vars
  BY <1>2
<1>4. Spec => []KeyInv
  BY KeyInvariant
<1>5. QED
  BY <1>1, <1>2, <1>3, <1>4, PTL DEF Spec, BufferedOnceInOrder

-----------------------------------------------------------------------------
(* A hardware interrupt leaves AX as it found it.                            *)

HwVectors == {"int08", "int09", "int0C", "int74"}

\* The mouse callback, and the code that takes the saved registers back.
InCall == {"gMouse", "retMouse"}

\* At most one callback is at work, on top; INT 15h is called by the
\* application only.
CallPlaced(c) ==
  /\ \A i \in 1..Len(c.stack) :
       /\ c.stack[i].ret \in InCall => c.loc = "gMouse" /\ i = Len(c.stack)
       /\ i > 1 => c.stack[i].vec # "int15"
  /\ c.loc = "gMouse" => c.stack[Len(c.stack)].ret = "retMouse"

\* What AX will be when the callback, if one is at work, has returned.
AxBelow(c) == IF c.loc \in InCall THEN c.saved ELSE c.ax

\* The slot of the saved registers is in use during the callback only, and
\* every interrupted program will find the AX it was interrupted with.
AxKept(c) ==
  /\ c.saved # "empty" <=> c.loc \in InCall
  /\ \A f \in Frames(c) : f.vec \in HwVectors => f.ax = AxBelow(c)

LEMMA CallPlacedStep ==
  ASSUME MaskedInv, Polling, NoSti, CallPlaced(cpu), [Next]_vars
  PROVE  CallPlaced(cpu')
<1>1. /\ cpu \in CpuState /\ CpuOK(cpu) /\ Effects
      /\ cpu.loc # "app" => Len(cpu.stack) > 0
      /\ cpu.loc = "app" => Len(cpu.stack) = 0
  BY CoreReady, StepEffects DEF MaskedInv, Core, CpuOK, CpuState, Owned
<1>2. ASSUME NEW c \in CpuState, CallPlaced(c), NEW to, Kept(c, cpu', to),
             to = "gMouse" <=> c.loc = "gMouse"
      PROVE  CallPlaced(cpu')
  <2>1. Len(c.stack) \in Nat /\ (to = "gMouse" => c.stack[Len(c.stack)].ret = "retMouse")
    BY <1>2 DEF CpuState, CallPlaced
  <2>2. CASE Len(c.stack) \in 1..Len(c.stack)
    BY <1>2, <2>1, <2>2 DEF CallPlaced, Kept
  <2>3. CASE to # "gMouse"
    BY <1>2, <2>1, <2>3 DEF CallPlaced, Kept
  <2>4. CASE Len(c.stack) = 0 /\ to = "gMouse"
    <3>2. /\ \A i : i \in 1..Len(cpu'.stack) <=> i \in 1..Len(c.stack)
          /\ Len(cpu'.stack) = 0
      BY <1>2, <2>4 DEF Kept
    <3>3. cpu'.loc = "gMouse" /\ CpuOK(cpu')
      BY <1>2, <2>4, CoreStep DEF Kept, MaskedInv, Core, IInv
    <3>4. QED
      BY <3>2, <3>3 DEF CpuOK, Owned
  <2>5. QED
    BY <2>1, <2>2, <2>3, <2>4
<1>3. ASSUME NEW c \in CpuState, CallPlaced(c), c.loc # "gMouse",
             NEW vec, NEW ret, NEW to, NEW key, Pushed(c, cpu', vec, ret, to, key),
             vec # "int15" \/ Len(c.stack) = 0,
             (ret = "retMouse" /\ to = "gMouse") \/ (ret \notin InCall /\ to # "gMouse")
      PROVE  CallPlaced(cpu')
  <2> DEFINE n == Len(c.stack)
  <2>1. n \in Nat /\ \A i \in 1..(n + 1) : i \in 1..n \/ i = n + 1
    BY DEF CpuState
  <2>2. /\ cpu'.loc = to /\ Len(cpu'.stack) = n + 1
        /\ \A i \in 1..n : cpu'.stack[i] = c.stack[i]
        /\ cpu'.stack[n + 1].ret = ret /\ cpu'.stack[n + 1].vec = vec
    BY <1>3 DEF Pushed
  <2>3. \A i \in 1..n : c.stack[i].ret \notin InCall /\ (i > 1 => c.stack[i].vec # "int15")
    BY <1>3 DEF CallPlaced
  <2>4. n + 1 > 1 => vec # "int15"
    BY <1>3, <2>1
  <2>5. QED
    BY <1>3, <2>1, <2>2, <2>3, <2>4 DEF CallPlaced
<1>4. ASSUME NEW c \in CpuState, CallPlaced(c), Len(c.stack) > 0, Popped(c, cpu')
      PROVE  CallPlaced(cpu')
  <2> DEFINE n == Len(c.stack)
  <2>1. n \in Nat /\ n \in 1..n /\ \A i \in 1..(n - 1) : i \in 1..n /\ i # n
    BY <1>4 DEF CpuState
  <2>2. \A i \in 1..(n - 1) : c.stack[i].ret \notin InCall /\ (i > 1 => c.stack[i].vec # "int15")
    BY <1>4, <2>1 DEF CallPlaced
  <2>3. c.stack[n].ret # "gMouse"
    BY <1>4, <2>1 DEF CallPlaced, InCall
  <2>4. QED
    BY <1>4, <2>1, <2>2, <2>3 DEF CallPlaced, Popped
<1>5. CASE Stays
  BY <1>1, <1>2, <1>5 DEF Stays
<1>6. ASSUME NEW from, NEW to,
             (<<from, to>> \in Forward /\ GoesOn(from, to))
               \/ (<<from, to>> \in Done /\ SendsEoi(from, to))
      PROVE  CallPlaced(cpu')
  <2>1. Kept(cpu, cpu', to) /\ to # "gMouse" /\ cpu.loc # "gMouse"
    BY <1>6 DEF Forward, Done, GoesOn, SendsEoi
  <2>2. QED
    BY <1>1, <1>2, <2>1
<1>7. ASSUME NEW l \in {PitLine, KeyboardLine, Com1Line, MouseLine}, Interrupted(l)
      PROVE  CallPlaced(cpu')
  <2>1. cpu.loc \notin InCall
    BY <1>7 DEF Interrupted, MaskedInv, Masked, Open, InCall
  <2>2. Handler(IrqVector(l)) # "gMouse" /\ IrqVector(l) # "int15"
    BY LineHandlers DEF IrqVector, BeforeEoi, PitLine, KeyboardLine, Com1Line, MouseLine
  <2>3. QED
    BY <1>1, <1>3, <1>7, <2>1, <2>2 DEF Interrupted, InCall
<1>8. ASSUME NEW vec \in {"int15", "int16"}, NEW fn \in AxValues, Calls(vec, fn)
      PROVE  CallPlaced(cpu')
  <2> DEFINE c == [cpu EXCEPT !.ax = fn]
  <2>1. c \in CpuState /\ c.stack = cpu.stack /\ c.loc = cpu.loc /\ cpu.loc = "app"
    BY <1>1, <1>8 DEF CpuState, Calls
  <2>2. Pushed(c, cpu', vec, "app", vec, NoKey)
    BY <1>8 DEF Calls
  <2> HIDE DEF c
  <2>3. CallPlaced(c) /\ Len(c.stack) = 0
    BY <1>1, <2>1 DEF CallPlaced
  <2>4. QED
    BY <1>3, <2>1, <2>2, <2>3 DEF InCall
<1>9. CASE GuestReturns
  <2>1. cpu.loc # "app" /\ Popped(cpu, cpu')
    BY <1>9 DEF GuestReturns
  <2>2. QED
    BY <1>1, <1>4, <2>1
<1>10. CASE BiosEffects
  <2>1. CASE BiosChains \/ BiosCallsBack
    BY <1>1, <1>3, <2>1 DEF BiosChains, BiosCallsBack, InCall
  <2>2. ASSUME NEW c, Worked(c), BiosReturns(c) \/ BiosTicks(c) \/ BiosTimed(c)
        PROVE  CallPlaced(cpu')
    <3>1. /\ c \in CpuState /\ Len(c.stack) > 0 /\ c.stack = cpu.stack /\ c.loc = cpu.loc
          /\ cpu.loc \in BiosLocs
      BY <2>2, WorkedFields DEF BiosReturns, BiosTicks, BiosTimed, AtBios
    <3>2. CallPlaced(c) /\ c.loc # "gMouse"
      BY <3>1 DEF CallPlaced, BiosLocs, Vectors, Trampolines
    <3>3. CASE BiosReturns(c)
      BY <1>4, <3>1, <3>2, <3>3 DEF BiosReturns
    <3>4. CASE BiosTicks(c)
      BY <1>2, <3>1, <3>2, <3>4 DEF BiosTicks
    <3>5. CASE BiosTimed(c)
      BY <1>3, <3>1, <3>2, <3>5 DEF BiosTimed, InCall
    <3>6. QED
      BY <2>2, <3>3, <3>4, <3>5
  <2>3. QED
    BY <1>10, <2>1, <2>2 DEF BiosEffects
<1>11. QED
  BY <1>1, <1>5, <1>6, <1>7, <1>8, <1>9, <1>10 DEF Effects

\* What a pop gives back, and what it leaves.
LEMMA AxKeptStep ==
  ASSUME MaskedInv, Polling, NoSti, CallPlaced(cpu), AxKept(cpu), [Next]_vars
  PROVE  /\ AxKept(cpu')
         /\ Len(cpu'.stack) < Len(cpu.stack) /\ Last(cpu.stack).vec \in HwVectors
              => cpu'.ax = Last(cpu.stack).ax
<1> DEFINE n == Len(cpu.stack)
           Restored == Len(cpu'.stack) < n /\ Last(cpu.stack).vec \in HwVectors
                         => cpu'.ax = Last(cpu.stack).ax
<1>1. /\ cpu \in CpuState /\ CpuOK(cpu) /\ Effects /\ n \in Nat
      /\ cpu.loc # "app" => n > 0
      /\ cpu.loc = "app" => n = 0
      /\ cpu.loc \in {"int15", "int16"} => ~cpu.iflag
      /\ cpu.iflag => cpu.loc \in Open
      /\ cpu.ax \in AxValues /\ "empty" \notin AxValues
  BY CoreReady, StepEffects
     DEF MaskedInv, Core, Quiet, Masked, CpuOK, CpuState, Owned, Placed,
         AxValues, Functions, MouseFunctions
<1>2. n > 0 => /\ Last(cpu.stack) = cpu.stack[n] /\ cpu.stack[n] \in Frames(cpu)
               /\ cpu.stack[n].vec \in Owners(cpu.loc)
  BY <1>1, FramesOf DEF Last, CpuOK, Owned, LocAt
<1>3. SUFFICES AxKept(cpu') /\ Restored
  OBVIOUS
\* The frames stay or one is added, and no callback starts or ends.
<1>4. ASSUME NEW c \in CpuState, c.stack = cpu.stack, c.loc = cpu.loc, AxKept(c),
             SameRegisters(c, cpu'),
             NEW to, to \in InCall <=> c.loc \in InCall, Kept(c, cpu', to)
      PROVE  AxKept(cpu') /\ Restored
  <2>1. Frames(cpu') = Frames(c) /\ ~(Len(cpu'.stack) < n) /\ cpu'.loc = to
    BY <1>1, <1>4, FramesOf DEF Kept
  <2>2. QED
    BY <1>4, <2>1 DEF AxKept, AxBelow, SameRegisters
<1>5. ASSUME NEW c \in CpuState, c.stack = cpu.stack, c.loc = cpu.loc, AxKept(c),
             c.loc \notin InCall, SameRegisters(c, cpu'),
             NEW vec, NEW ret, NEW to, NEW key, to \notin InCall,
             Pushed(c, cpu', vec, ret, to, key)
      PROVE  AxKept(cpu') /\ Restored
  <2>1. Frames(cpu') = Frames(c) \cup
          {[ret |-> ret, iflag |-> c.iflag, vec |-> vec, ax |-> c.ax, key |-> key]}
    BY <1>5, FramesOf
  <2>2. ~(Len(cpu'.stack) < n) /\ cpu'.loc = to
    BY <1>1, <1>5 DEF Pushed
  <2>3. QED
    BY <1>5, <2>1, <2>2 DEF AxKept, AxBelow, SameRegisters
<1>6. CASE Stays
  BY <1>1, <1>4, <1>6 DEF Stays
<1>7. ASSUME NEW from, NEW to,
             (<<from, to>> \in Forward /\ GoesOn(from, to))
               \/ (<<from, to>> \in Done /\ SendsEoi(from, to))
      PROVE  AxKept(cpu') /\ Restored
  <2>1. /\ Kept(cpu, cpu', to) /\ SameRegisters(cpu, cpu')
        /\ to \notin InCall /\ cpu.loc \notin InCall
    BY <1>7 DEF Forward, Done, GoesOn, SendsEoi, InCall
  <2>2. QED
    BY <1>1, <1>4, <2>1
<1>8. ASSUME NEW l \in {PitLine, KeyboardLine, Com1Line, MouseLine}, Interrupted(l)
      PROVE  AxKept(cpu') /\ Restored
  <2>1. cpu.loc \notin InCall
    BY <1>1, <1>8 DEF Interrupted, Open, InCall
  <2>2. Handler(IrqVector(l)) \notin InCall
    BY LineHandlers DEF BeforeEoi, InCall
  <2>3. QED
    BY <1>1, <1>5, <1>8, <2>1, <2>2 DEF Interrupted
<1>9. ASSUME NEW vec \in {"int15", "int16"}, NEW fn \in AxValues, Calls(vec, fn)
      PROVE  AxKept(cpu') /\ Restored
  <2> DEFINE c == [cpu EXCEPT !.ax = fn]
  <2>1. /\ c \in CpuState /\ c.stack = cpu.stack /\ c.loc = cpu.loc /\ cpu.loc = "app"
        /\ c.saved = cpu.saved
    BY <1>1, <1>9 DEF CpuState, Calls
  <2>2. Pushed(c, cpu', vec, "app", vec, NoKey) /\ SameRegisters(c, cpu')
    BY <1>9 DEF Calls
  <2> HIDE DEF c
  <2>3. Frames(c) = {} /\ "app" \notin InCall
    BY <1>1, <2>1 DEF Frames, InCall
  <2>4. AxKept(c)
    BY <2>1, <2>3 DEF AxKept, AxBelow
  <2>5. QED
    BY <1>5, <2>1, <2>2, <2>3, <2>4 DEF InCall
<1>10. CASE GuestReturns
  <2>1. /\ cpu.loc # "app" /\ n > 0 /\ Popped(cpu, cpu') /\ SameRegisters(cpu, cpu')
        /\ cpu.loc \in {"g08done", "g09done", "g0Cdone", "g1C", "gMouse"}
    BY <1>1, <1>10 DEF GuestReturns
  <2>2. Frames(cpu') \subseteq Frames(cpu) /\ cpu'.loc = cpu.stack[n].ret /\ n \in 1..n
    BY <1>1, <2>1, FramesOf DEF Popped
  <2>3. CASE cpu.loc = "gMouse"
    <3>1. cpu'.loc = "retMouse"
      BY <2>2, <2>3 DEF CallPlaced
    <3>2. AxKept(cpu')
      BY <2>1, <2>2, <2>3, <3>1 DEF AxKept, AxBelow, SameRegisters, InCall
    <3>3. Last(cpu.stack).vec \notin HwVectors
      BY <1>2, <2>1, <2>3 DEF Owners, HwVectors
    <3>4. QED
      BY <3>2, <3>3
  <2>4. CASE cpu.loc # "gMouse"
    <3>1. cpu.loc \notin InCall /\ cpu'.loc \notin InCall
      BY <2>1, <2>2, <2>4 DEF CallPlaced, InCall
    <3>2. QED
      BY <1>2, <2>1, <2>2, <3>1 DEF AxKept, AxBelow, SameRegisters
  <2>5. QED
    BY <2>3, <2>4
<1>11. CASE BiosEffects
  <2>1. CASE BiosChains
    BY <1>1, <1>5, <2>1 DEF BiosChains, InCall
  <2>2. CASE BiosCallsBack
    <3>1. /\ cpu.loc = "int74" /\ cpu'.saved = cpu.ax /\ cpu'.loc = "gMouse"
          /\ Pushed(cpu, cpu', "far", "retMouse", "gMouse", NoKey)
      BY <2>2 DEF BiosCallsBack, Pushed
    <3>2. Frames(cpu') = Frames(cpu) \cup
            {[ret |-> "retMouse", iflag |-> cpu.iflag, vec |-> "far", ax |-> cpu.ax, key |-> NoKey]}
      BY <1>1, <3>1, FramesOf
    <3>3. ~(Len(cpu'.stack) < n) /\ "far" \notin HwVectors /\ "int74" \notin InCall
      BY <1>1, <3>1 DEF Pushed, HwVectors, InCall
    <3>4. AxKept(cpu')
      BY <1>1, <3>1, <3>2, <3>3 DEF AxKept, AxBelow, InCall
    <3>5. QED
      BY <3>3, <3>4
  <2>3. ASSUME NEW c, Worked(c), BiosReturns(c) \/ BiosTicks(c) \/ BiosTimed(c)
        PROVE  AxKept(cpu') /\ Restored
    <3>1. /\ c \in CpuState /\ Len(c.stack) > 0 /\ c.stack = cpu.stack /\ c.loc = cpu.loc
          /\ cpu.loc \in BiosLocs /\ Frames(c) = Frames(cpu) /\ n > 0
      BY <2>3, WorkedFields DEF BiosReturns, BiosTicks, BiosTimed, AtBios
    <3>2. cpu.loc # "gMouse" /\ (cpu.loc \in InCall <=> cpu.loc = "retMouse")
      BY <3>1 DEF BiosLocs, Vectors, Trampolines, InCall
    \* With the handler's own frame popped, AX is what every frame below holds.
    <3>3. /\ c.saved = "empty"
          /\ \A f \in Frames(cpu) : f.vec \in HwVectors => f.ax = c.ax
      <4>1. CASE cpu.loc = "retMouse"
        BY <2>3, <3>2, <4>1 DEF Worked, AxKept, AxBelow
      <4>2. CASE cpu.loc \in {"int15", "int16"}
        <5>1. Owners(cpu.loc) = {cpu.loc}
          BY <4>2 DEF Owners
        <5>2. cpu.stack[n].vec = cpu.loc /\ n = 1
          <6>1. cpu.stack[n].vec = cpu.loc
            BY <1>2, <3>1, <5>1
          <6>2. n \in 1..n
            BY <1>1, <3>1
          <6>3. ~(n > 1)
            BY <4>2, <6>1, <6>2, <1>1 DEF CallPlaced, CpuOK, Placed
          <6>4. \A m \in Nat : m > 0 /\ ~(m > 1) => m = 1
            OBVIOUS
          <6>5. n = 1
            BY <1>1, <3>1, <6>3, <6>4
          <6>6. QED
            BY <6>1, <6>5
        <5>3. \A f \in Frames(cpu) : f.vec \notin HwVectors
          BY <4>2, <5>2 DEF Frames, HwVectors
        <5>4. c.saved = "empty"
          BY <2>3, <3>2, <4>2 DEF Worked, AxKept
        <5>5. QED
          BY <5>3, <5>4
      <4>3. CASE cpu.loc \notin {"int15", "int16", "retMouse"}
        BY <2>3, <3>2, <4>3 DEF Worked, AxKept, AxBelow
      <4>4. QED
        BY <4>1, <4>2, <4>3
    <3>4. CASE BiosReturns(c)
      <4>1. /\ Popped(c, cpu') /\ SameRegisters(c, cpu') /\ cpu'.loc = cpu.stack[n].ret
            /\ Frames(cpu') \subseteq Frames(cpu)
        BY <3>1, <3>4, FramesOf DEF BiosReturns, Popped
      <4>2. cpu'.loc \notin InCall
        BY <1>1, <3>1, <3>2, <4>1 DEF CallPlaced
      <4>3. QED
        BY <1>2, <3>1, <3>3, <4>1, <4>2 DEF AxKept, AxBelow, SameRegisters
    <3>5. CASE BiosTicks(c)
      <4>1. /\ Kept(c, cpu', "ret1C") /\ SameRegisters(c, cpu')
            /\ Frames(cpu') = Frames(cpu) /\ cpu'.loc = "ret1C" /\ ~(Len(cpu'.stack) < n)
        BY <1>1, <3>1, <3>5, FramesOf DEF BiosTicks, Kept
      <4>2. QED
        BY <3>3, <4>1 DEF AxKept, AxBelow, SameRegisters, InCall
    <3>6. CASE BiosTimed(c)
      <4>1. Pushed(c, cpu', "int08", "retTimer", "g08", NoKey) /\ SameRegisters(c, cpu')
        BY <3>6 DEF BiosTimed
      <4>2. Frames(cpu') = Frames(c) \cup
              {[ret |-> "retTimer", iflag |-> c.iflag, vec |-> "int08", ax |-> c.ax, key |-> NoKey]}
        BY <3>1, <4>1, FramesOf
      <4>3. cpu'.loc = "g08" /\ ~(Len(cpu'.stack) < n)
        BY <1>1, <3>1, <4>1 DEF Pushed
      <4>4. QED
        BY <3>1, <3>3, <4>1, <4>2, <4>3 DEF AxKept, AxBelow, SameRegisters, InCall
    <3>7. QED
      BY <2>3, <3>4, <3>5, <3>6
  <2>4. QED
    BY <1>11, <2>1, <2>2, <2>3 DEF BiosEffects
<1>12. QED
  BY <1>1, <1>6, <1>7, <1>8, <1>9, <1>10, <1>11 DEF Effects

\* As long as no handler enables interrupts, a hardware interrupt gives back
\* AX as it found it: the one slot for the registers of the mouse callback is
\* never filled twice nor emptied by another handler.
THEOREM InterruptsTransparent == ASSUME Polling, NoSti PROVE Spec => InterruptTransparent
<1> DEFINE Inv == CallPlaced(cpu) /\ AxKept(cpu)
<1>1. Init => Inv
  BY DEF Init, CallPlaced, AxKept, Frames, InCall
<1>2. MaskedInv /\ Inv /\ [Next]_vars =>
        /\ Inv'
        /\ [Len(cpu.stack') < Len(cpu.stack) /\ Last(cpu.stack).vec \in HwVectors
              => cpu.ax' = Last(cpu.stack).ax]_vars
  <2> SUFFICES ASSUME MaskedInv, Inv, [Next]_vars
               PROVE  /\ Inv'
                      /\ Len(cpu.stack') < Len(cpu.stack) /\ Last(cpu.stack).vec \in HwVectors
                           => cpu.ax' = Last(cpu.stack).ax
    OBVIOUS
  <2>1. CallPlaced(cpu') /\ AxKept(cpu')
    BY CallPlacedStep, AxKeptStep
  <2>2. QED
    BY <2>1, AxKeptStep
<1>3. Spec => []MaskedInv
  BY MaskedInvariant
<1> HIDE DEF Inv
<1>4. Spec => [][Len(cpu.stack') < Len(cpu.stack) /\ Last(cpu.stack).vec \in HwVectors
                   => cpu.ax' = Last(cpu.stack).ax]_vars
  BY <1>1, <1>2, <1>3, PTL DEF Spec
<1>5. QED
  BY <1>4 DEF InterruptTransparent, HwVectors
=============================================================================
