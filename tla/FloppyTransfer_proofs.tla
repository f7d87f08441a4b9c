----------------------- MODULE FloppyTransfer_proofs -----------------------
(***************************************************************************)
(* Proofs about FloppyTransfer: type correctness, the refresh line, the    *)
(* agreement of the request line of channel 2 with the phase of the disk   *)
(* controller, and that a read by DMA puts the whole sector into memory.   *)
(***************************************************************************)
EXTENDS FloppyTransfer, NumberLemmas

-----------------------------------------------------------------------------
(* The DMA controller. *)

Bytes == 0..(Radix - 1)

LEMMA ByteSplit ==
  ASSUME NEW word \in Words
  PROVE  word % Radix \in Bytes /\ word \div Radix \in Bytes
<1>1. Radix \in Nat /\ Radix > 0 /\ word \in Nat /\ word < Radix * Radix
  BY DmaAssumption, SMT DEF Words
<1>2. word % Radix \in Bytes
  BY <1>1, SMT DEF Bytes
<1>3. word \div Radix \in Nat /\ (word \div Radix) * Radix <= word
  BY <1>1, SMT
<1>4. word \div Radix < Radix
  BY <1>1, <1>3, SMT
<1> QED
  BY <1>1, <1>2, <1>3, <1>4, SMT DEF Bytes

LEMMA SetByteType ==
  ASSUME NEW word \in Words, NEW high \in BOOLEAN, NEW byte \in Bytes
  PROVE  SetByte(word, high, byte) \in Words
<1>1. word % Radix \in Bytes /\ word \div Radix \in Bytes
  BY ByteSplit
<1>2. ASSUME NEW a \in Bytes, NEW b \in Bytes
      PROVE  (a * Radix) + b \in Words
  <2>1. Radix \in Nat /\ Radix > 0 /\ a \in Nat /\ b \in Nat /\ a <= Radix - 1 /\ b <= Radix - 1
    BY DmaAssumption, SMT DEF Bytes
  <2>2. a * Radix <= (Radix - 1) * Radix
    BY <2>1, SMT
  <2>3. (Radix - 1) * Radix = (Radix * Radix) - Radix
    BY <2>1, SMT
  <2> QED
    BY <2>1, <2>2, <2>3, SMT DEF Words
<1> QED
  BY <1>1, <1>2 DEF SetByte

LEMMA WriteAddressType ==
  ASSUME NEW d \in DmaState, NEW c \in Channels, NEW byte \in Bytes
  PROVE  WriteAddress(d, c, byte) \in DmaState /\ WriteAddress(d, c, byte).dreq = d.dreq
<1> DEFINE word == SetByte(d.ch[c].base, d.flipFlop, byte)
           ch   == [d.ch[c] EXCEPT !.base = word, !.addr = word]
           flip == ~d.flipFlop
<1>1. d.ch[c] \in ChannelState /\ d.flipFlop \in BOOLEAN /\ flip \in BOOLEAN
  BY DEF DmaState
<1>2. word \in Words
  BY <1>1, SetByteType DEF ChannelState
<1>3. WriteAddress(d, c, byte) = [d EXCEPT !.ch[c] = ch, !.flipFlop = flip]
  BY Zenon DEF WriteAddress
<1>4. ch \in ChannelState
  <2> HIDE DEF word
  <2> QED BY <1>1, <1>2 DEF ChannelState
<1> HIDE DEF ch, flip
<1>5. [d.ch EXCEPT ![c] = ch] \in [Channels -> ChannelState]
  BY <1>4 DEF DmaState
<1> QED
  BY <1>1, <1>3, <1>5 DEF DmaState

LEMMA WriteCountType ==
  ASSUME NEW d \in DmaState, NEW c \in Channels, NEW byte \in Bytes
  PROVE  WriteCount(d, c, byte) \in DmaState /\ WriteCount(d, c, byte).dreq = d.dreq
<1> DEFINE word == SetByte(d.ch[c].baseCount, d.flipFlop, byte)
           ch   == [d.ch[c] EXCEPT !.baseCount = word, !.count = word]
           flip == ~d.flipFlop
<1>1. d.ch[c] \in ChannelState /\ d.flipFlop \in BOOLEAN /\ flip \in BOOLEAN
  BY DEF DmaState
<1>2. word \in Words
  BY <1>1, SetByteType DEF ChannelState
<1>3. WriteCount(d, c, byte) = [d EXCEPT !.ch[c] = ch, !.flipFlop = flip]
  BY Zenon DEF WriteCount
<1>4. ch \in ChannelState
  <2> HIDE DEF word
  <2> QED BY <1>1, <1>2 DEF ChannelState
<1> HIDE DEF ch, flip
<1>5. [d.ch EXCEPT ![c] = ch] \in [Channels -> ChannelState]
  BY <1>4 DEF DmaState
<1> QED
  BY <1>1, <1>3, <1>5 DEF DmaState

\* Programming a channel keeps the type and every request line.
LEMMA ProgramType ==
  ASSUME NEW d \in DmaState, NEW c \in Channels, NEW addr \in Words, NEW count \in Words,
         NEW type \in {"verify", "write", "read"}, NEW down \in BOOLEAN, NEW auto \in BOOLEAN
  PROVE  /\ Program(d, c, addr, count, type, down, auto) \in DmaState
         /\ Program(d, c, addr, count, type, down, auto).dreq = d.dreq
<1> DEFINE masked  == ClearFlipFlop(WriteMask(d, c, TRUE))
           addr1   == WriteAddress(masked, c, addr % Radix)
           addr2   == WriteAddress(addr1, c, addr \div Radix)
           cleared == ClearFlipFlop(addr2)
           count1  == WriteCount(cleared, c, count % Radix)
           count2  == WriteCount(count1, c, count \div Radix)
           mode    == WriteMode(count2, c, type, down, auto)
<1>1. masked \in DmaState /\ masked.dreq = d.dreq
  BY DEF ClearFlipFlop, WriteMask, DmaState
<1>2. addr1 \in DmaState /\ addr1.dreq = d.dreq
  <2> HIDE DEF masked
  <2> QED BY <1>1, ByteSplit, WriteAddressType
<1>3. addr2 \in DmaState /\ addr2.dreq = d.dreq
  <2> HIDE DEF addr1
  <2> QED BY <1>2, ByteSplit, WriteAddressType
<1>4. cleared \in DmaState /\ cleared.dreq = d.dreq
  <2> HIDE DEF addr2
  <2> QED BY <1>3 DEF ClearFlipFlop, DmaState
<1>5. count1 \in DmaState /\ count1.dreq = d.dreq
  <2> HIDE DEF cleared
  <2> QED BY <1>4, ByteSplit, WriteCountType
<1>6. count2 \in DmaState /\ count2.dreq = d.dreq
  <2> HIDE DEF count1
  <2> QED BY <1>5, ByteSplit, WriteCountType
<1>7. mode \in DmaState /\ mode.dreq = d.dreq
  <2> HIDE DEF count2
  <2>1. count2.ch[c] \in ChannelState /\ count2.flipFlop \in BOOLEAN
    BY <1>6 DEF DmaState
  <2> DEFINE ch == [count2.ch[c] EXCEPT !.type = type, !.down = down, !.autoInit = auto]
  <2>2. ch \in ChannelState
    BY <2>1 DEF ChannelState
  <2>3. mode = [count2 EXCEPT !.ch[c] = ch]
    BY Zenon DEF WriteMode
  <2> HIDE DEF ch
  <2>4. [count2.ch EXCEPT ![c] = ch] \in [Channels -> ChannelState]
    BY <1>6, <2>2 DEF DmaState
  <2> QED BY <1>6, <2>3, <2>4 DEF DmaState
<1>8. WriteMask(mode, c, FALSE) \in DmaState /\ WriteMask(mode, c, FALSE).dreq = d.dreq
  <2> HIDE DEF mode
  <2> QED BY <1>7 DEF WriteMask, DmaState
<1> QED
  BY <1>8 DEF Program

LEMMA EndsOfWords == 0 \in Words /\ (Radix * Radix) - 1 \in Words
<1>1. Radix * Radix \in Nat /\ Radix * Radix > 0
  BY DmaAssumption, SMT
<1> QED
  BY <1>1, SMT DEF Words

LEMMA WordStep ==
  ASSUME NEW a \in Words
  PROVE  /\ (a + 1) % (Radix * Radix) \in Words
         /\ (a + (Radix * Radix) - 1) % (Radix * Radix) \in Words
<1>1. Radix * Radix \in Nat /\ Radix * Radix > 0 /\ a \in Nat
  BY DmaAssumption, SMT DEF Words
<1> QED
  BY <1>1, SMT DEF Words

\* A bus cycle keeps the type and every request line.
LEMMA CycleType ==
  ASSUME NEW d \in DmaState, NEW c \in Channels
  PROVE  Cycle(d, c) \in DmaState /\ Cycle(d, c).dreq = d.dreq
<1> DEFINE ch == d.ch[c]
<1>1. ch \in ChannelState
  BY DEF DmaState
<1>2. Advanced(ch) \in Words
  BY <1>1, WordStep DEF Advanced, ChannelState
<1>3. ch.count > 0 => ch.count - 1 \in Words
  BY <1>1, DmaAssumption, SMT DEF ChannelState, Words
<1>4. ch.base \in Words /\ ch.baseCount \in Words
  BY <1>1 DEF ChannelState
<1> QED
  BY <1>1, <1>2, <1>3, <1>4 DEF Cycle, DmaState, ChannelState

LEMMA SetDreqType ==
  ASSUME NEW d \in DmaState, NEW asserted \in BOOLEAN
  PROVE  /\ SetDreq(d, 2, asserted) \in DmaState
         /\ asserted => 2 \in SetDreq(d, 2, asserted).dreq
         /\ ~asserted => 2 \notin SetDreq(d, 2, asserted).dreq
<1>1. 2 \in Channels /\ Refresh \subseteq Channels /\ 2 \notin Refresh
  BY DmaAssumption, FloppyAssumption DEF Refresh
<1>2. CASE asserted = TRUE
  BY <1>1, <1>2 DEF SetDreq, DmaState
<1>3. CASE asserted = FALSE
  BY <1>1, <1>3 DEF SetDreq, DmaState
<1> QED
  BY <1>2, <1>3

-----------------------------------------------------------------------------
(* The disk controller. *)

DataPhases == {"execution", "dmaExecution", "writeExecution"}

\* What the phase says of the other fields.
PhaseFacts(f) ==
  /\ f.phase \in DataPhases => f.index < SectorBytes
  /\ f.phase = "dmaExecution" => f.from \in Disks
  /\ f.phase = "command" => f.left > 0 /\ f.index = 0 /\ f.cmd # "sense"

LEMMA IdleType ==
  ASSUME NEW f \in FdcState
  PROVE  /\ Idle(f) \in FdcState /\ PhaseFacts(Idle(f)) /\ Idle(f).phase = "idle"
         /\ Idle(f).pendingDreq = f.pendingDreq /\ Idle(f).pendingIrq = f.pendingIrq
<1>1. 0 \in 0..(ParamBytes + ResultBytes + 2) /\ 0 \in 0..SectorBytes
  BY FdcAssumption
<1> QED
  BY <1>1, ZenonT(60) DEF Idle, FdcState, PhaseFacts, DataPhases, Phases, Commands

LEMMA ReportsType ==
  ASSUME NEW f \in FdcState,
         NEW status \in {"ok", "error", "notReady", "protected", "seekEnd", "invalid"}
  PROVE  /\ Reports(f, status) \in FdcState /\ Reports(f, status).phase = "result"
         /\ Reports(f, status).pendingDreq = f.pendingDreq
         /\ Reports(f, status).pendingIrq = f.pendingIrq
<1>1. ResultBytes \in 0..(ParamBytes + ResultBytes + 2)
  BY FdcAssumption
<1> QED
  BY <1>1 DEF Reports, FdcState, Phases

LEMMA CommandByteType ==
  ASSUME NEW f \in FdcState, NEW cmd \in Commands, f.pendingDreq = "none"
  PROVE  /\ CommandByte(f, cmd) \in FdcState /\ PhaseFacts(CommandByte(f, cmd))
         /\ CommandByte(f, cmd).phase = (IF cmd = "sense" THEN "result" ELSE "command")
         /\ CommandByte(f, cmd).cmd = cmd
         /\ CommandByte(f, cmd).pendingDreq = "none"
         /\ CommandByte(f, cmd).pendingIrq = f.pendingIrq
<1>1. /\ 2 \in 0..(ParamBytes + ResultBytes + 2) /\ 0 \in 0..SectorBytes
      /\ Params(cmd) \in 0..(ParamBytes + ResultBytes + 2) /\ Params(cmd) > 0
  BY FdcAssumption DEF Params
<1>2. CASE cmd = "sense"
  BY <1>1, <1>2, ZenonT(60) DEF CommandByte, FdcState, PhaseFacts, DataPhases, Phases, Commands
<1>3. CASE cmd # "sense"
  BY <1>1, <1>3 DEF CommandByte, FdcState, PhaseFacts, DataPhases, Phases, Commands
<1> QED
  BY <1>2, <1>3

\* What executing a command leads to.
LEMMA ExecuteType ==
  ASSUME NEW f \in FdcState, NEW d \in Disks \cup {NoDisk}, NEW found \in BOOLEAN,
         f.cmd # "sense", f.index = 0, f.pendingDreq = "none"
  PROVE  /\ Execute(f, d, found) \in FdcState /\ PhaseFacts(Execute(f, d, found))
         /\ \/ /\ Execute(f, d, found).phase \in {"execution", "writeExecution"}
               /\ Execute(f, d, found).pendingDreq = "none"
               /\ Execute(f, d, found).pendingIrq = f.pendingIrq
            \/ /\ Execute(f, d, found).phase = "dmaExecution"
               /\ Execute(f, d, found).pendingDreq = "assert"
               /\ Execute(f, d, found).pendingIrq = f.pendingIrq
            \/ /\ Execute(f, d, found).phase = "result"
               /\ Execute(f, d, found).pendingDreq = "none"
            \/ /\ Execute(f, d, found).phase = "idle" /\ f.cmd = "recalibrate"
               /\ Execute(f, d, found).pendingDreq = "none"
               /\ Execute(f, d, found).pendingInterrupt
<1> DEFINE status == ReadStatus(d, found)
           ended  == [Reports(f, status) EXCEPT !.pendingIrq = TRUE]
<1>1. status \in {"ok", "error", "notReady"} /\ (status = "ok" => d \in Disks)
  BY DEF ReadStatus
<1>2. /\ ended \in FdcState /\ PhaseFacts(ended) /\ ended.phase = "result"
      /\ ended.pendingDreq = "none"
  <2> HIDE DEF status
  <2>1. Reports(f, status) \in FdcState /\ Reports(f, status).phase = "result"
        /\ Reports(f, status).pendingDreq = "none"
    BY <1>1, ReportsType
  <2> QED
    BY <2>1 DEF FdcState, PhaseFacts, DataPhases
<1>3. 0 < SectorBytes
  BY FdcAssumption
<1>4. CASE f.cmd = "verify" \/ (f.cmd \in {"readDma", "readPio"} /\ status # "ok")
  <2>1. Execute(f, d, found) = ended
    BY <1>4 DEF Execute
  <2> HIDE DEF ended
  <2> QED BY <1>2, <2>1
<1>5. CASE f.cmd = "write"
  <2>1. Execute(f, d, found) = [f EXCEPT !.phase = "writeExecution"]
    BY <1>5 DEF Execute
  <2> QED BY <1>3, <1>5, <2>1 DEF FdcState, PhaseFacts, DataPhases, Phases
<1>6. CASE f.cmd = "recalibrate"
  <2>1. Execute(f, d, found) = [Idle(f) EXCEPT !.pendingInterrupt = TRUE, !.pendingIrq = TRUE]
    BY <1>6 DEF Execute
  <2>2. Idle(f) \in FdcState /\ Idle(f).phase = "idle" /\ Idle(f).pendingDreq = "none"
    BY IdleType
  <2> QED BY <1>6, <2>1, <2>2 DEF FdcState, PhaseFacts, DataPhases, Phases
<1>7. CASE f.cmd = "readPio" /\ status = "ok"
  <2>1. Execute(f, d, found) = [f EXCEPT !.phase = "execution", !.from = d]
    BY <1>7 DEF Execute
  <2> QED BY <1>3, <1>7, <2>1 DEF FdcState, PhaseFacts, DataPhases, Phases
<1>8. CASE f.cmd = "readDma" /\ status = "ok"
  <2>1. Execute(f, d, found) =
          [f EXCEPT !.phase = "dmaExecution", !.from = d, !.pendingDreq = "assert"]
    BY <1>8 DEF Execute
  <2> HIDE DEF status
  <2> QED BY <1>1, <1>3, <1>8, <2>1 DEF FdcState, PhaseFacts, DataPhases, Phases
<1>9. f.cmd \in Commands
  BY DEF FdcState
<1> HIDE DEF status, ended
<1> QED
  BY <1>4, <1>5, <1>6, <1>7, <1>8, <1>9 DEF Commands

LEMMA ParamByteType ==
  ASSUME NEW f \in FdcState, NEW d \in Disks \cup {NoDisk}, NEW found \in BOOLEAN,
         PhaseFacts(f), f.phase = "command", f.pendingDreq = "none"
  PROVE  /\ ParamByte(f, d, found) \in FdcState /\ PhaseFacts(ParamByte(f, d, found))
         /\ \/ /\ ParamByte(f, d, found).phase \in {"command", "execution", "writeExecution"}
               /\ ParamByte(f, d, found).pendingDreq = "none"
               /\ ParamByte(f, d, found).pendingIrq = f.pendingIrq
               /\ ParamByte(f, d, found).phase = "command"
                    => ParamByte(f, d, found).cmd = f.cmd
            \/ /\ ParamByte(f, d, found).phase = "dmaExecution"
               /\ ParamByte(f, d, found).pendingDreq = "assert"
               /\ ParamByte(f, d, found).pendingIrq = f.pendingIrq
            \/ /\ ParamByte(f, d, found).phase = "result"
               /\ ParamByte(f, d, found).pendingDreq = "none"
            \/ /\ ParamByte(f, d, found).phase = "idle" /\ f.cmd = "recalibrate"
               /\ ParamByte(f, d, found).pendingDreq = "none"
               /\ ParamByte(f, d, found).pendingInterrupt
<1> DEFINE one == [f EXCEPT !.left = @ - 1]
<1>1. f.left > 0 /\ f.index = 0 /\ f.cmd # "sense"
  BY DEF PhaseFacts
<1>2. f.left - 1 \in 0..(ParamBytes + ResultBytes + 2)
  BY <1>1, FdcAssumption DEF FdcState
<1>3. /\ one \in FdcState /\ one.phase = "command" /\ one.index = 0 /\ one.cmd = f.cmd
      /\ one.pendingDreq = "none" /\ one.pendingIrq = f.pendingIrq
  BY <1>1, <1>2 DEF FdcState
<1>4. ParamByte(f, d, found) = IF one.left > 0 THEN one ELSE Execute(one, d, found)
  BY DEF ParamByte
<1> HIDE DEF one
<1>5. CASE one.left > 0
  BY <1>1, <1>3, <1>4, <1>5 DEF PhaseFacts, DataPhases
<1>6. CASE ~(one.left > 0)
  <2>1. one.cmd # "sense"
    BY <1>1, <1>3
  <2>2. ParamByte(f, d, found) = Execute(one, d, found)
    BY <1>4, <1>6
  <2>3. /\ Execute(one, d, found) \in FdcState /\ PhaseFacts(Execute(one, d, found))
        /\ \/ /\ Execute(one, d, found).phase \in {"execution", "writeExecution"}
              /\ Execute(one, d, found).pendingDreq = "none"
              /\ Execute(one, d, found).pendingIrq = one.pendingIrq
           \/ /\ Execute(one, d, found).phase = "dmaExecution"
              /\ Execute(one, d, found).pendingDreq = "assert"
              /\ Execute(one, d, found).pendingIrq = one.pendingIrq
           \/ /\ Execute(one, d, found).phase = "result"
              /\ Execute(one, d, found).pendingDreq = "none"
           \/ /\ Execute(one, d, found).phase = "idle" /\ one.cmd = "recalibrate"
              /\ Execute(one, d, found).pendingDreq = "none"
              /\ Execute(one, d, found).pendingInterrupt
    BY <1>3, <2>1, ExecuteType
  <2> QED
    BY <1>3, <2>2, <2>3
<1> QED
  BY <1>5, <1>6

\* One more data byte.
LEMMA IndexStep ==
  ASSUME NEW f \in FdcState, PhaseFacts(f), f.phase \in DataPhases
  PROVE  f.index + 1 \in 0..SectorBytes
BY FdcAssumption DEF FdcState, PhaseFacts

LEMMA DataByteType ==
  ASSUME NEW f \in FdcState, NEW d \in Disks \cup {NoDisk}, NEW found \in BOOLEAN,
         PhaseFacts(f), f.phase = "writeExecution", f.pendingDreq = "none"
  PROVE  /\ DataByte(f, d, found) \in FdcState /\ PhaseFacts(DataByte(f, d, found))
         /\ DataByte(f, d, found).pendingDreq = "none"
         /\ \/ /\ DataByte(f, d, found).phase = "writeExecution"
               /\ DataByte(f, d, found).pendingIrq = f.pendingIrq
            \/ DataByte(f, d, found).phase = "result"
<1> DEFINE one    == [f EXCEPT !.index = @ + 1]
           status == CASE d = NoDisk -> "notReady"
                       [] d \in Protected -> "protected"
                       [] d \in Disks \ Protected -> IF found THEN "ok" ELSE "error"
<1>1. f.index + 1 \in 0..SectorBytes
  BY IndexStep DEF DataPhases
<1>2. /\ one \in FdcState /\ one.phase = "writeExecution" /\ one.pendingDreq = "none"
      /\ one.pendingIrq = f.pendingIrq
  BY <1>1 DEF FdcState
<1>3. DataByte(f, d, found) =
        IF one.index < SectorBytes THEN one
        ELSE [Reports(one, status) EXCEPT !.pendingIrq = TRUE]
  BY DEF DataByte
<1>4. status \in {"ok", "error", "notReady", "protected", "seekEnd", "invalid"}
  BY FdcAssumption
<1> HIDE DEF one, status
<1>5. /\ Reports(one, status) \in FdcState /\ Reports(one, status).phase = "result"
      /\ Reports(one, status).pendingDreq = "none"
  BY <1>2, <1>4, ReportsType
<1>6. CASE one.index < SectorBytes
  BY <1>2, <1>3, <1>6 DEF PhaseFacts, DataPhases
<1>7. CASE ~(one.index < SectorBytes)
  <2>1. DataByte(f, d, found) = [Reports(one, status) EXCEPT !.pendingIrq = TRUE]
    BY <1>3, <1>7
  <2> QED
    BY <1>5, <2>1 DEF FdcState, PhaseFacts, DataPhases
<1> QED
  BY <1>6, <1>7

LEMMA ReadByteType ==
  ASSUME NEW f \in FdcState, PhaseFacts(f), f.phase \in {"execution", "result"},
         f.pendingDreq = "none"
  PROVE  /\ ReadByte(f) \in FdcState /\ PhaseFacts(ReadByte(f))
         /\ ReadByte(f).pendingDreq = "none"
         /\ \/ f.phase = "execution" /\ ReadByte(f).phase = "result"
            \/ /\ ReadByte(f).phase = f.phase
               /\ ReadByte(f).pendingIrq = f.pendingIrq
            \/ /\ f.phase = "result" /\ ReadByte(f).phase = "idle"
               /\ ReadByte(f).pendingIrq = f.pendingIrq
<1> DEFINE one == [f EXCEPT !.index = @ + 1]
<1>1. CASE f.phase = "execution"
  <2>1. f.index + 1 \in 0..SectorBytes /\ f.index \in Nat /\ SectorBytes \in Nat
    BY <1>1, IndexStep, FdcAssumption DEF DataPhases, FdcState
  <2>2. /\ one \in FdcState /\ one.phase = "execution" /\ one.pendingDreq = "none"
        /\ one.pendingIrq = f.pendingIrq /\ one.index = f.index + 1
    BY <1>1, <2>1 DEF FdcState
  <2>3. CASE f.index + 1 < SectorBytes
    <3>1. ReadByte(f) = one
      BY <1>1, <2>1, <2>3 DEF ReadByte
    <3> HIDE DEF one
    <3> QED BY <1>1, <2>2, <2>3, <3>1 DEF PhaseFacts, DataPhases
  <2>4. CASE ~(f.index + 1 < SectorBytes)
    <3>1. ReadByte(f) = [Reports(one, "ok") EXCEPT !.pendingIrq = TRUE]
      BY <1>1, <2>1, <2>4 DEF ReadByte
    <3> HIDE DEF one
    <3>2. /\ Reports(one, "ok") \in FdcState /\ Reports(one, "ok").phase = "result"
          /\ Reports(one, "ok").pendingDreq = "none"
      BY <2>2, ReportsType
    <3> QED BY <1>1, <3>1, <3>2 DEF FdcState, PhaseFacts, DataPhases
  <2> QED
    BY <2>3, <2>4
<1>2. CASE f.phase = "result"
  <2>1. f.left \in Nat /\ f.left \in 0..(ParamBytes + ResultBytes + 2)
    BY FdcAssumption DEF FdcState
  <2>2. CASE f.left > 1
    <3>1. ReadByte(f) = [f EXCEPT !.left = @ - 1]
      BY <1>2, <2>1, <2>2 DEF ReadByte
    <3>2. f.left - 1 \in 0..(ParamBytes + ResultBytes + 2)
      BY <2>1, <2>2, FdcAssumption
    <3> QED BY <1>2, <3>1, <3>2 DEF FdcState, PhaseFacts, DataPhases
  <2>3. CASE ~(f.left > 1)
    <3>1. ReadByte(f) = Idle(f)
      BY <1>2, <2>1, <2>3 DEF ReadByte
    <3> QED BY <1>2, <3>1, IdleType
  <2> QED
    BY <2>2, <2>3
<1> QED
  BY <1>1, <1>2

LEMMA DmaReadType ==
  ASSUME NEW f \in FdcState, PhaseFacts(f), f.pendingDreq = "none"
  PROVE  /\ DmaRead(f) \in FdcState /\ PhaseFacts(DmaRead(f))
         /\ \/ DmaRead(f) = f /\ f.phase # "dmaExecution"
            \/ /\ f.phase = "dmaExecution" /\ DmaRead(f).phase = "dmaExecution"
               /\ DmaRead(f).pendingDreq = "none" /\ DmaRead(f).pendingIrq = f.pendingIrq
            \/ /\ f.phase = "dmaExecution" /\ DmaRead(f).phase = "result"
               /\ DmaRead(f).pendingDreq = "release"
<1> DEFINE one == [f EXCEPT !.index = @ + 1]
<1>1. CASE f.phase # "dmaExecution"
  BY <1>1 DEF DmaRead
<1>2. CASE f.phase = "dmaExecution"
  <2>1. f.index + 1 \in 0..SectorBytes
    BY <1>2, IndexStep DEF DataPhases
  <2>2. /\ one \in FdcState /\ one.phase = "dmaExecution" /\ one.pendingDreq = "none"
        /\ one.pendingIrq = f.pendingIrq /\ one.from \in Disks
    BY <1>2, <2>1 DEF FdcState, PhaseFacts
  <2>3. CASE one.index < SectorBytes
    <3>1. DmaRead(f) = one
      BY <1>2, <2>3 DEF DmaRead
    <3> HIDE DEF one
    <3> QED BY <1>2, <2>2, <2>3, <3>1 DEF PhaseFacts, DataPhases
  <2>4. CASE ~(one.index < SectorBytes)
    <3>1. DmaRead(f) =
            [Reports(one, "ok") EXCEPT !.pendingDreq = "release", !.pendingIrq = TRUE]
      BY <1>2, <2>4 DEF DmaRead
    <3> HIDE DEF one
    <3>2. Reports(one, "ok") \in FdcState /\ Reports(one, "ok").phase = "result"
      BY <2>2, ReportsType
    <3> QED BY <1>2, <3>1, <3>2 DEF FdcState, PhaseFacts, DataPhases
  <2> QED
    BY <2>3, <2>4
<1> QED
  BY <1>1, <1>2

-----------------------------------------------------------------------------
(* The bus. *)

LEMMA DrainedType ==
  ASSUME NEW d \in DmaState, NEW f \in FdcState
  PROVE  /\ Drained(d, f) \in DmaState
         /\ f.pendingDreq = "none" => Drained(d, f) = d
         /\ f.pendingDreq = "assert" => 2 \in Drained(d, f).dreq
         /\ f.pendingDreq = "release" => 2 \notin Drained(d, f).dreq
<1>1. CASE f.pendingDreq = "none"
  BY <1>1 DEF Drained
<1>2. CASE f.pendingDreq = "assert"
  <2>1. Drained(d, f) = SetDreq(d, 2, TRUE)
    BY <1>2 DEF Drained
  <2> QED
    BY <1>2, <2>1, SetDreqType
<1>3. CASE f.pendingDreq = "release"
  <2>1. Drained(d, f) = SetDreq(d, 2, FALSE)
    BY <1>3 DEF Drained
  <2>2. /\ SetDreq(d, 2, FALSE) \in DmaState /\ 2 \notin SetDreq(d, 2, FALSE).dreq
    BY SetDreqType
  <2> QED
    BY <1>3, <2>1, <2>2
<1> QED
  BY <1>1, <1>2, <1>3 DEF FdcState

LEMMA TakeDreqType ==
  ASSUME NEW f \in FdcState, PhaseFacts(f)
  PROVE  /\ TakeDreq(f) \in FdcState /\ PhaseFacts(TakeDreq(f))
         /\ TakeDreq(f).pendingDreq = "none" /\ TakeDreq(f).phase = f.phase
         /\ TakeDreq(f).pendingIrq = f.pendingIrq /\ TakeDreq(f).cmd = f.cmd
         /\ TakeDreq(f).pendingInterrupt = f.pendingInterrupt
BY DEF TakeDreq, FdcState, PhaseFacts, DataPhases

-----------------------------------------------------------------------------
(* Types. *)

\* Types with what they rest on: the fields of the phase agree, and the bus has
\* drained the controller's request.
TypeInv ==
  /\ TypeOK
  /\ PhaseFacts(fdc) /\ fdc.pendingDreq = "none"

LEMMA ResetType ==
  /\ DmaReset \in DmaState /\ DmaReset.dreq = Refresh
  /\ FdcNew \in FdcState /\ PhaseFacts(FdcNew)
<1>1. 0 \in Words /\ Refresh \subseteq Channels
  BY DmaAssumption, SMT DEF Words, Refresh
<1>2. DmaReset \in DmaState /\ DmaReset.dreq = Refresh
  BY <1>1 DEF DmaReset, DmaState, ChannelState
<1>3. 0 \in 0..(ParamBytes + ResultBytes + 2) /\ 0 \in 0..SectorBytes
  BY FdcAssumption
<1> QED
  BY <1>2, <1>3 DEF FdcNew, FdcState, PhaseFacts, DataPhases, Phases, Commands

LEMMA TypeInit == Init => TypeInv
<1> SUFFICES ASSUME Init PROVE TypeInv
  OBVIOUS
<1>1. dma \in DmaState
  BY ResetType DEF Init, Refresh
<1>2. fdc \in FdcState /\ PhaseFacts(fdc) /\ fdc.pendingDreq = "none"
  BY ResetType DEF Init, FdcNew
<1>3. disk \in Disks \cup {NoDisk} /\ changeline \in BOOLEAN
  BY DEF Init
<1>4. todo \in [Channels -> 0..MaxBurst]
  BY FloppyAssumption DEF Init
<1>5. memory \in [Words -> Data \cup {NoByte}]
  BY DEF Init, Blank
<1>6. driver \in DriverState
  BY DEF Init, Ready, DriverState, Commands
<1> QED
  BY <1>1, <1>2, <1>3, <1>4, <1>5, <1>6 DEF TypeInv, TypeOK

\* A byte of a DMA transfer is data of a disk.
LEMMA DmaByteType ==
  ASSUME NEW f \in FdcState, PhaseFacts(f)
  PROVE  DmaByte(f) \in Data \cup {NoByte}
<1>1. CASE f.phase = "dmaExecution"
  <2>1. f.index + 1 \in 1..SectorBytes /\ f.from \in Disks
    BY <1>1, FdcAssumption DEF PhaseFacts, DataPhases, FdcState
  <2> QED
    BY <1>1, <2>1 DEF DmaByte, Data
<1> QED
  BY <1>1 DEF DmaByte

LEMMA DriverMoves ==
  ASSUME NEW d \in DriverState,
         NEW to \in {"ready", "send", "params", "transfer", "wait", "sense", "results", "reset"}
  PROVE  [d EXCEPT !.at = to] \in DriverState
BY DEF DriverState

LEMMA ReadyType == Ready \in DriverState /\ Blank \in [Words -> Data \cup {NoByte}]
BY DEF Ready, Blank, DriverState, Commands

\* Writing port 0x3F5 keeps the types.
LEMMA WrittenType ==
  ASSUME TypeInv, NEW f \in FdcState, PhaseFacts(f), Written(f)
  PROVE  /\ dma' \in DmaState /\ fdc' \in FdcState
         /\ PhaseFacts(fdc)' /\ (fdc.pendingDreq = "none")'
<1>1. dma' = Drained(dma, f) /\ fdc' = TakeDreq(f) /\ dma \in DmaState
  BY DEF Written, TypeInv, TypeOK
<1>2. PhaseFacts(TakeDreq(f)) /\ TakeDreq(f) \in FdcState /\ TakeDreq(f).pendingDreq = "none"
  BY TakeDreqType
<1>3. PhaseFacts(fdc)' /\ fdc' \in FdcState /\ (fdc.pendingDreq = "none")'
  BY <1>1, <1>2 DEF PhaseFacts
<1>4. Drained(dma, f) \in DmaState
  BY <1>1, DrainedType
<1> QED
  BY <1>1, <1>3, <1>4 DEF TypeInv

LEMMA TypeStep == TypeInv /\ [Next]_vars => TypeInv'
<1> SUFFICES ASSUME TypeInv, [Next]_vars PROVE TypeInv'
  OBVIOUS
<1>0. /\ dma \in DmaState /\ fdc \in FdcState /\ disk \in Disks \cup {NoDisk}
      /\ changeline \in BOOLEAN /\ todo \in [Channels -> 0..MaxBurst]
      /\ memory \in [Words -> Data \cup {NoByte}] /\ driver \in DriverState
      /\ PhaseFacts(fdc) /\ fdc.pendingDreq = "none"
  BY DEF TypeInv, TypeOK
<1>1. CASE Begin
  <2>1. driver' \in DriverState
    BY <1>0, <1>1, FloppyAssumption DEF Begin, DriverState, Commands
  <2>2. SectorBytes - 1 \in Words
    BY DmaAssumption, FdcAssumption, FloppyAssumption, SMT DEF Words
  <2>3. dma' \in DmaState /\ dma'.dreq = dma.dreq
    <3>1. CASE UNCHANGED dma
      BY <1>0, <3>1
    <3>2. ASSUME NEW addr \in Addresses, NEW down \in BOOLEAN, NEW auto \in BOOLEAN,
                 dma' = Program(dma, 2, addr, SectorBytes - 1, "write", down, auto)
          PROVE  dma' \in DmaState /\ dma'.dreq = dma.dreq
      <4>1. addr \in Words /\ 2 \in Channels
        BY FloppyAssumption
      <4> QED
        BY <1>0, <2>2, <3>2, <4>1, ProgramType
    <3> QED
      BY <1>1, <3>1, <3>2 DEF Begin
  <2>4. UNCHANGED <<fdc, disk, changeline, todo, memory>>
    BY <1>1 DEF Begin
  <2> QED
    BY <1>0, <2>1, <2>3, <2>4 DEF TypeInv, TypeOK, PhaseFacts
<1>2. CASE Send
  <2> DEFINE cmd == IF driver.at = "sense" THEN "sense" ELSE driver.op
  <2>1. cmd \in Commands
    BY <1>0 DEF DriverState, Commands
  <2>2. Written(CommandByte(fdc, cmd)) /\ UNCHANGED <<disk, changeline, todo, memory>>
    BY <1>2 DEF Send
  <2>3. driver' \in DriverState
    BY <1>0, <1>2, DriverMoves DEF Send, Moves
  <2> HIDE DEF cmd
  <2>4. CommandByte(fdc, cmd) \in FdcState /\ PhaseFacts(CommandByte(fdc, cmd))
    BY <1>0, <2>1, CommandByteType
  <2>5. /\ dma' \in DmaState /\ fdc' \in FdcState
        /\ PhaseFacts(fdc)' /\ (fdc.pendingDreq = "none")'
    BY <2>2, <2>4, WrittenType
  <2> QED
    BY <1>0, <2>2, <2>3, <2>5 DEF TypeInv, TypeOK
<1>3. CASE SendParam
  <2> DEFINE f == ParamByte(fdc, disk, driver.found)
  <2>1. driver.found \in BOOLEAN /\ fdc.phase = "command"
    BY <1>0, <1>3 DEF DriverState, SendParam
  <2>2. Written(f) /\ UNCHANGED <<disk, changeline, todo, memory>>
    BY <1>3 DEF SendParam
  <2>3. driver' \in DriverState
    BY <1>0, <1>3, DriverMoves DEF SendParam, Moves
  <2>4. f \in FdcState /\ PhaseFacts(f)
    BY <1>0, <2>1, ParamByteType
  <2> HIDE DEF f
  <2>5. /\ dma' \in DmaState /\ fdc' \in FdcState
        /\ PhaseFacts(fdc)' /\ (fdc.pendingDreq = "none")'
    BY <2>2, <2>4, WrittenType
  <2> QED
    BY <1>0, <2>2, <2>3, <2>5 DEF TypeInv, TypeOK
<1>4. CASE Transfer
  <2>1. driver' \in DriverState /\ UNCHANGED <<disk, changeline, todo, memory>>
    BY <1>0, <1>4, DriverMoves DEF Transfer, Moves
  <2>2. CASE fdc.phase = "execution" /\ fdc' = ReadByte(fdc) /\ UNCHANGED dma
    <3>1. /\ ReadByte(fdc) \in FdcState /\ PhaseFacts(ReadByte(fdc))
          /\ ReadByte(fdc).pendingDreq = "none"
      BY <1>0, <2>2, ReadByteType
    <3> QED
      BY <1>0, <2>1, <2>2, <3>1 DEF TypeInv, TypeOK, PhaseFacts
  <2>3. CASE fdc.phase = "writeExecution" /\ Written(DataByte(fdc, disk, driver.found))
    <3>1. driver.found \in BOOLEAN
      BY <1>0 DEF DriverState
    <3>2. /\ DataByte(fdc, disk, driver.found) \in FdcState
          /\ PhaseFacts(DataByte(fdc, disk, driver.found))
      BY <1>0, <2>3, <3>1, DataByteType
    <3>3. /\ dma' \in DmaState /\ fdc' \in FdcState
          /\ PhaseFacts(fdc)' /\ (fdc.pendingDreq = "none")'
      BY <2>3, <3>2, WrittenType
    <3> QED
      BY <1>0, <2>1, <3>3 DEF TypeInv, TypeOK
  <2> QED
    BY <1>4, <2>2, <2>3 DEF Transfer
<1>5. CASE TakeIrq
  <2>1. fdc' \in FdcState /\ PhaseFacts(fdc)' /\ (fdc.pendingDreq = "none")'
    BY <1>0, <1>5 DEF TakeIrq, TakePendingIrq, FdcState, PhaseFacts, DataPhases
  <2>2. driver' \in DriverState
    BY <1>0, <1>5 DEF TakeIrq, DriverState
  <2> QED
    BY <1>0, <1>5, <2>1, <2>2 DEF TakeIrq, TypeInv, TypeOK
<1>6. CASE IrqSeen
  <2>1. driver' \in DriverState
    BY <1>0, <1>6, DriverMoves DEF IrqSeen, Moves
  <2> QED
    BY <1>0, <1>6, <2>1 DEF IrqSeen, TypeInv, TypeOK, PhaseFacts
<1>7. CASE ReadResult
  <2>1. /\ ReadByte(fdc) \in FdcState /\ PhaseFacts(ReadByte(fdc))
        /\ ReadByte(fdc).pendingDreq = "none"
    BY <1>0, <1>7, ReadByteType DEF ReadResult
  <2>2. driver' \in DriverState /\ memory' \in [Words -> Data \cup {NoByte}]
    BY <1>0, <1>7, ReadyType DEF ReadResult
  <2> QED
    BY <1>0, <1>7, <2>1, <2>2 DEF ReadResult, TypeInv, TypeOK, PhaseFacts
<1>8. CASE BeginReset
  <2>1. fdc' \in FdcState /\ PhaseFacts(fdc)' /\ (fdc.pendingDreq = "none")'
    <3>1. Idle(fdc) \in FdcState /\ Idle(fdc).phase = "idle" /\ Idle(fdc).pendingDreq = "none"
      BY <1>0, IdleType
    <3> QED
      BY <1>8, <3>1 DEF BeginReset, AssertReset, FdcState, PhaseFacts, DataPhases
  <2>2. driver' \in DriverState
    BY <1>0, <1>8, DriverMoves DEF BeginReset, Moves
  <2> QED
    BY <1>0, <1>8, <2>1, <2>2 DEF BeginReset, TypeInv, TypeOK
<1>9. CASE EndReset
  <2>1. fdc' \in FdcState /\ PhaseFacts(fdc)' /\ (fdc.pendingDreq = "none")'
    BY <1>0, <1>9 DEF EndReset, ReleaseReset, FdcState, PhaseFacts, DataPhases
  <2> QED
    BY <1>0, <1>9, <2>1, ReadyType DEF EndReset, TypeInv, TypeOK
<1>10. CASE Housekeeping
  <2>1. changeline' \in BOOLEAN /\ UNCHANGED <<fdc, disk, todo, memory, driver>>
    BY <1>0, <1>10 DEF Housekeeping
  <2>2. dma' \in DmaState
    <3>1. CASE UNCHANGED dma
      BY <1>0, <3>1
    <3>2. CASE dma' = AfterStatus(dma)
      BY <1>0, <3>2 DEF AfterStatus, DmaState
    <3>3. CASE dma' = MasterClear(dma)
      BY <1>0, <3>3, DmaAssumption DEF MasterClear, DmaState, Refresh
    <3>4. CASE UsesRefresh /\ dma' = Program(dma, 0, 0, (Radix * Radix) - 1, "read", FALSE, TRUE)
      <4>1. 0 \in Channels /\ 0 \in Words /\ (Radix * Radix) - 1 \in Words
        BY <3>4, FloppyAssumption, EndsOfWords
      <4>2. PICK down \in BOOLEAN, auto \in BOOLEAN :
                   dma' = Program(dma, 0, 0, (Radix * Radix) - 1, "read", down, auto)
        BY <3>4, Zenon
      <4> QED
        BY <1>0, <4>1, <4>2, ProgramType
    <3> QED
      BY <1>10, <3>1, <3>2, <3>3, <3>4 DEF Housekeeping
  <2> QED
    BY <1>0, <2>1, <2>2 DEF TypeInv, TypeOK, PhaseFacts
<1>11. CASE ChangeDisk
  BY <1>0, <1>11 DEF ChangeDisk, TypeInv, TypeOK, PhaseFacts
<1>12. CASE Tick
  <2>1. todo' \in [Channels -> 0..MaxBurst]
    BY <1>12, FloppyAssumption DEF Tick
  <2> QED
    BY <1>0, <1>12, <2>1 DEF Tick, TypeInv, TypeOK, PhaseFacts
<1>13. ASSUME NEW c \in Channels, BusCycle(c) PROVE TypeInv'
  <2> DEFINE d == Cycle(dma, c)
             toMemory == c = 2 /\ dma.ch[c].type = "write"
             f == IF toMemory THEN DmaRead(fdc) ELSE fdc
  <2>1. d \in DmaState /\ d.dreq = dma.dreq
    BY <1>0, CycleType
  <2>2. f \in FdcState /\ PhaseFacts(f)
    BY <1>0, DmaReadType
  <2>3. /\ dma' = Drained(d, f) /\ fdc' = TakeDreq(f)
        /\ todo' = [todo EXCEPT ![c] = IF c \in d.mask THEN 0 ELSE @ - 1]
        /\ memory' = IF toMemory /\ DmaByte(fdc) # NoByte
                     THEN [memory EXCEPT ![dma.ch[c].addr] = DmaByte(fdc)] ELSE memory
        /\ todo[c] > 0 /\ UNCHANGED <<disk, changeline, driver>>
    BY <1>13 DEF BusCycle
  <2>4. memory' \in [Words -> Data \cup {NoByte}]
    <3>1. DmaByte(fdc) \in Data \cup {NoByte}
      BY <1>0, DmaByteType
    <3> QED
      BY <1>0, <2>3, <3>1
  <2>5. todo' \in [Channels -> 0..MaxBurst]
    <3>1. todo[c] - 1 \in 0..MaxBurst /\ 0 \in 0..MaxBurst
      BY <1>0, <2>3, FloppyAssumption
    <3> HIDE DEF d
    <3> QED
      BY <1>0, <2>3, <3>1
  <2> HIDE DEF d, f
  <2>6. /\ Drained(d, f) \in DmaState
    BY <2>1, <2>2, DrainedType
  <2>7. TakeDreq(f) \in FdcState /\ PhaseFacts(TakeDreq(f)) /\ TakeDreq(f).pendingDreq = "none"
    BY <2>2, TakeDreqType
  <2>8. fdc' \in FdcState /\ PhaseFacts(fdc)' /\ (fdc.pendingDreq = "none")'
    BY <2>3, <2>7 DEF PhaseFacts
  <2> QED
    BY <1>0, <2>1, <2>3, <2>4, <2>5, <2>6, <2>8 DEF TypeInv, TypeOK
<1>14. CASE UNCHANGED vars
  BY <1>0, <1>14 DEF vars, TypeInv, TypeOK, PhaseFacts
<1> QED
  BY <1>1, <1>2, <1>3, <1>4, <1>5, <1>6, <1>7, <1>8, <1>9, <1>10, <1>11, <1>12, <1>13, <1>14
  DEF Next, Driver, Bus

LEMMA TypeInductive == Spec => []TypeInv
BY TypeInit, TypeStep, PTL DEF Spec

\* Every variable keeps its type, for any radix, channels, sector and burst
\* length, and however often the driver resets the controller.
THEOREM TypeCorrect == Spec => []TypeOK
<1>1. TypeInv => TypeOK
  BY DEF TypeInv
<1> QED
  BY <1>1, TypeInductive, PTL

-----------------------------------------------------------------------------
(* The request line, the interrupt and the phase. *)

\* A command executes only under the driver that gave it, its interrupt is
\* raised when it is over, and until then the driver waits.
IrqInv ==
  /\ driver.at = "params" => fdc.cmd = driver.op
  /\ fdc.phase = "dmaExecution" => driver.at = "wait" /\ ~fdc.pendingIrq /\ ~driver.irqSeen
  /\ fdc.pendingIrq => driver.at = "wait" /\ ~driver.irqSeen
  /\ driver.irqSeen => driver.at \in {"wait", "sense", "results"}
  /\ driver.at = "wait" =>
       \/ fdc.phase \in {"dmaExecution", "result"}
       \/ driver.op = "recalibrate" /\ fdc.pendingInterrupt

RequestInv == RequestMatchesPhase /\ IrqInv

LEMMA RequestInit == Init => RequestInv
<1> SUFFICES ASSUME Init PROVE RequestInv
  OBVIOUS
<1>1. dma.dreq = Refresh /\ 2 \notin Refresh
  BY ResetType DEF Init, Refresh
<1> QED
  BY <1>1 DEF Init, RequestInv, RequestMatchesPhase, IrqInv, FdcNew, Ready

\* What writing port 0x3F5 does to the request line.
LEMMA WrittenRequest ==
  ASSUME TypeInv, RequestMatchesPhase, NEW f \in FdcState, PhaseFacts(f), Written(f),
         \/ f.pendingDreq = "none" /\ f.phase # "dmaExecution" /\ fdc.phase # "dmaExecution"
         \/ f.pendingDreq = "assert" /\ f.phase = "dmaExecution"
  PROVE  /\ RequestMatchesPhase'
         /\ fdc'.phase = f.phase /\ fdc'.pendingIrq = f.pendingIrq /\ fdc'.cmd = f.cmd
         /\ fdc'.pendingInterrupt = f.pendingInterrupt
<1>1. dma' = Drained(dma, f) /\ fdc' = TakeDreq(f) /\ dma \in DmaState
  BY DEF Written, TypeInv, TypeOK
<1>2. /\ TakeDreq(f).phase = f.phase /\ TakeDreq(f).pendingIrq = f.pendingIrq
      /\ TakeDreq(f).cmd = f.cmd /\ TakeDreq(f).pendingInterrupt = f.pendingInterrupt
  BY TakeDreqType
<1>3. /\ f.pendingDreq = "none" => Drained(dma, f) = dma
      /\ f.pendingDreq = "assert" => 2 \in Drained(dma, f).dreq
  BY <1>1, DrainedType
<1> QED
  BY <1>1, <1>2, <1>3 DEF RequestMatchesPhase

LEMMA RequestStep ==
  ASSUME ResetWhen \subseteq {"ready"}
  PROVE  TypeInv /\ RequestInv /\ [Next]_vars => RequestInv'
<1> SUFFICES ASSUME TypeInv, RequestInv, [Next]_vars PROVE RequestInv'
  OBVIOUS
<1>0. /\ dma \in DmaState /\ fdc \in FdcState /\ disk \in Disks \cup {NoDisk}
      /\ driver \in DriverState
      /\ PhaseFacts(fdc) /\ fdc.pendingDreq = "none" /\ RequestMatchesPhase /\ IrqInv
  BY DEF TypeInv, TypeOK, RequestInv
<1>1. CASE Begin
  <2>1. dma'.dreq = dma.dreq
    <3>1. SectorBytes - 1 \in Words
      BY DmaAssumption, FdcAssumption, FloppyAssumption, SMT DEF Words
    <3>2. ASSUME NEW addr \in Addresses, NEW down \in BOOLEAN, NEW auto \in BOOLEAN,
                 dma' = Program(dma, 2, addr, SectorBytes - 1, "write", down, auto)
          PROVE  dma'.dreq = dma.dreq
      <4>1. addr \in Words /\ 2 \in Channels
        BY FloppyAssumption
      <4> QED
        BY <1>0, <3>1, <3>2, <4>1, ProgramType
    <3> QED
      BY <1>1, <3>2 DEF Begin
  <2> QED
    BY <1>0, <1>1, <2>1 DEF Begin, At, RequestInv, RequestMatchesPhase, IrqInv
<1>2. CASE Send
  <2> DEFINE cmd == IF driver.at = "sense" THEN "sense" ELSE driver.op
             f == CommandByte(fdc, cmd)
  <2>1. /\ Written(f) /\ fdc.phase = "idle" /\ driver.at \in {"send", "sense"}
        /\ driver' = [driver EXCEPT !.at = IF driver.at = "sense" THEN "results" ELSE "params"]
    BY <1>2 DEF Send, At, Moves
  <2>2. cmd \in Commands
    BY <1>0 DEF DriverState, Commands
  <2>3. cmd = driver.op \/ driver.at = "sense"
    OBVIOUS
  <2> HIDE DEF cmd
  <2>4. /\ f \in FdcState /\ PhaseFacts(f) /\ f.phase \in {"result", "command"}
        /\ f.cmd = cmd /\ f.pendingDreq = "none" /\ f.pendingIrq = fdc.pendingIrq
    BY <1>0, <2>2, CommandByteType
  <2> HIDE DEF f
  <2>5. /\ RequestMatchesPhase'
        /\ fdc'.phase = f.phase /\ fdc'.pendingIrq = f.pendingIrq /\ fdc'.cmd = f.cmd
    BY <1>0, <2>1, <2>4, WrittenRequest
  <2> QED
    BY <1>0, <2>1, <2>3, <2>4, <2>5 DEF RequestInv, IrqInv, DriverState
<1>3. CASE SendParam
  <2> DEFINE f == ParamByte(fdc, disk, driver.found)
             to == CASE f.phase = "command" -> "params"
                     [] f.phase \in {"execution", "writeExecution"} -> "transfer"
                     [] OTHER -> "wait"
  <2>1. /\ Written(f) /\ fdc.phase = "command" /\ driver.at = "params"
        /\ driver.found \in BOOLEAN /\ driver' = [driver EXCEPT !.at = to]
    BY <1>0, <1>3 DEF SendParam, At, Moves, DriverState
  <2>2. /\ f \in FdcState /\ PhaseFacts(f)
        /\ \/ /\ f.phase \in {"command", "execution", "writeExecution"}
              /\ f.pendingDreq = "none" /\ f.pendingIrq = fdc.pendingIrq
              /\ f.phase = "command" => f.cmd = fdc.cmd
           \/ /\ f.phase = "dmaExecution" /\ f.pendingDreq = "assert"
              /\ f.pendingIrq = fdc.pendingIrq
           \/ f.phase = "result" /\ f.pendingDreq = "none"
           \/ /\ f.phase = "idle" /\ fdc.cmd = "recalibrate" /\ f.pendingDreq = "none"
              /\ f.pendingInterrupt
    BY <1>0, <2>1, ParamByteType
  <2>3. /\ f.phase = "command" => to = "params"
        /\ f.phase \in {"execution", "writeExecution"} => to = "transfer"
        /\ f.phase \in {"dmaExecution", "result", "idle"} => to = "wait"
    OBVIOUS
  <2> HIDE DEF f, to
  <2>4. /\ RequestMatchesPhase'
        /\ fdc'.phase = f.phase /\ fdc'.pendingIrq = f.pendingIrq /\ fdc'.cmd = f.cmd
        /\ fdc'.pendingInterrupt = f.pendingInterrupt
    BY <1>0, <2>1, <2>2, WrittenRequest
  <2>5. ~fdc.pendingIrq /\ ~driver.irqSeen /\ fdc.cmd = driver.op
    BY <1>0, <2>1 DEF IrqInv
  <2>6. driver'.at = to /\ driver'.op = driver.op /\ driver'.irqSeen = driver.irqSeen
    BY <1>0, <2>1 DEF DriverState
  <2>7. IrqInv'
    <3>1. CASE f.phase \in {"command", "execution", "writeExecution"}
      BY <2>2, <2>3, <2>4, <2>5, <2>6, <3>1 DEF IrqInv
    <3>2. CASE f.phase = "dmaExecution"
      BY <2>2, <2>3, <2>4, <2>5, <2>6, <3>2 DEF IrqInv
    <3>3. CASE f.phase = "result"
      BY <2>2, <2>3, <2>4, <2>5, <2>6, <3>3 DEF IrqInv
    <3>4. CASE f.phase = "idle"
      BY <2>2, <2>3, <2>4, <2>5, <2>6, <3>4 DEF IrqInv
    <3> QED
      BY <2>2, <3>1, <3>2, <3>3, <3>4
  <2> QED
    BY <2>4, <2>7 DEF RequestInv
<1>4. CASE Transfer
  <2>1. /\ driver.at = "transfer"
        /\ driver' = [driver EXCEPT !.at = IF fdc'.phase = "result" THEN "wait" ELSE "transfer"]
    BY <1>4 DEF Transfer, At, Moves
  <2>2. ~fdc.pendingIrq /\ ~driver.irqSeen
    BY <1>0, <2>1 DEF IrqInv
  <2>3. /\ driver'.at = (IF fdc'.phase = "result" THEN "wait" ELSE "transfer")
        /\ driver'.irqSeen = driver.irqSeen
    BY <1>0, <2>1 DEF DriverState
  <2>4. CASE fdc.phase = "execution" /\ fdc' = ReadByte(fdc) /\ UNCHANGED dma
    <3>1. \/ fdc'.phase = "result"
          \/ fdc'.phase = "execution" /\ fdc'.pendingIrq = fdc.pendingIrq
      BY <1>0, <2>4, ReadByteType
    <3> QED
      BY <1>0, <2>2, <2>3, <2>4, <3>1 DEF RequestInv, RequestMatchesPhase, IrqInv
  <2>5. CASE fdc.phase = "writeExecution" /\ Written(DataByte(fdc, disk, driver.found))
    <3> DEFINE f == DataByte(fdc, disk, driver.found)
    <3>1. driver.found \in BOOLEAN
      BY <1>0 DEF DriverState
    <3>2. /\ f \in FdcState /\ PhaseFacts(f) /\ f.pendingDreq = "none"
          /\ \/ f.phase = "writeExecution" /\ f.pendingIrq = fdc.pendingIrq
             \/ f.phase = "result"
      BY <1>0, <2>5, <3>1, DataByteType
    <3>3. Written(f)
      BY <2>5
    <3> HIDE DEF f
    <3>4. RequestMatchesPhase' /\ fdc'.phase = f.phase /\ fdc'.pendingIrq = f.pendingIrq
      BY <1>0, <2>5, <3>2, <3>3, WrittenRequest
    <3> QED
      BY <2>2, <2>3, <3>2, <3>4 DEF RequestInv, IrqInv
  <2> QED
    BY <1>4, <2>4, <2>5 DEF Transfer
<1>5. CASE TakeIrq
  BY <1>0, <1>5 DEF TakeIrq, TakePendingIrq, FdcState, DriverState, RequestInv,
                    RequestMatchesPhase, IrqInv
<1>6. CASE IrqSeen
  BY <1>0, <1>6 DEF IrqSeen, At, Moves, DriverState, RequestInv, RequestMatchesPhase, IrqInv
<1>7. CASE ReadResult
  <2>1. fdc' = ReadByte(fdc) /\ fdc.phase = "result" /\ driver.at = "results" /\ UNCHANGED dma
    BY <1>7 DEF ReadResult, At
  <2>2. fdc'.phase \in {"result", "idle"} /\ fdc'.pendingIrq = fdc.pendingIrq
    BY <1>0, <2>1, ReadByteType
  <2>3. UNCHANGED driver \/ driver' = Ready
    BY <1>7 DEF ReadResult
  <2> QED
    BY <1>0, <2>1, <2>2, <2>3 DEF Ready, RequestInv, RequestMatchesPhase, IrqInv
<1>8. CASE BeginReset
  <2>1. driver.at = "ready"
    BY <1>8 DEF BeginReset
  <2>2. fdc'.phase = "idle" /\ fdc'.pendingIrq = fdc.pendingIrq
    BY <1>0, <1>8, IdleType DEF BeginReset, AssertReset, FdcState
  <2> QED
    BY <1>0, <1>8, <2>1, <2>2
    DEF BeginReset, Moves, DriverState, RequestInv, RequestMatchesPhase, IrqInv
<1>9. CASE EndReset
  BY <1>0, <1>9 DEF EndReset, ReleaseReset, At, Ready, FdcState, RequestInv,
                    RequestMatchesPhase, IrqInv
<1>10. CASE Housekeeping
  <2>1. driver.at = "ready" /\ UNCHANGED <<fdc, driver>>
    BY <1>10 DEF Housekeeping, At
  <2>2. 2 \notin dma.dreq /\ fdc.phase # "dmaExecution"
    BY <1>0, <2>1 DEF RequestMatchesPhase, IrqInv
  <2>3. 2 \notin dma'.dreq
    <3>1. CASE UNCHANGED dma
      BY <2>2, <3>1
    <3>2. CASE dma' = AfterStatus(dma)
      BY <1>0, <2>2, <3>2 DEF AfterStatus, DmaState
    <3>3. CASE dma' = MasterClear(dma)
      BY <1>0, <3>3 DEF MasterClear, DmaState, Refresh
    <3>4. CASE UsesRefresh /\ dma' = Program(dma, 0, 0, (Radix * Radix) - 1, "read", FALSE, TRUE)
      <4>1. 0 \in Channels /\ 0 \in Words /\ (Radix * Radix) - 1 \in Words
        BY <3>4, FloppyAssumption, EndsOfWords
      <4>2. PICK down \in BOOLEAN, auto \in BOOLEAN :
                   dma' = Program(dma, 0, 0, (Radix * Radix) - 1, "read", down, auto)
        BY <3>4, Zenon
      <4> QED
        BY <1>0, <2>2, <4>1, <4>2, ProgramType
    <3> QED
      BY <1>10, <3>1, <3>2, <3>3, <3>4 DEF Housekeeping
  <2> QED
    BY <1>0, <2>1, <2>2, <2>3 DEF RequestInv, RequestMatchesPhase, IrqInv
<1>11. CASE ChangeDisk
  BY <1>0, <1>11 DEF ChangeDisk, RequestInv, RequestMatchesPhase, IrqInv
<1>12. CASE Tick
  BY <1>0, <1>12 DEF Tick, RequestInv, RequestMatchesPhase, IrqInv
<1>13. ASSUME NEW c \in Channels, BusCycle(c) PROVE RequestInv'
  <2> DEFINE d == Cycle(dma, c)
             f == IF c = 2 /\ dma.ch[c].type = "write" THEN DmaRead(fdc) ELSE fdc
  <2>1. d \in DmaState /\ d.dreq = dma.dreq
    BY <1>0, CycleType
  <2>2. dma' = Drained(d, f) /\ fdc' = TakeDreq(f) /\ UNCHANGED driver
    BY <1>13 DEF BusCycle
  <2>3. /\ f \in FdcState /\ PhaseFacts(f)
        /\ \/ f = fdc
           \/ /\ fdc.phase = "dmaExecution" /\ f.phase = "dmaExecution"
              /\ f.pendingDreq = "none" /\ f.pendingIrq = fdc.pendingIrq
           \/ /\ fdc.phase = "dmaExecution" /\ f.phase = "result" /\ f.pendingDreq = "release"
    BY <1>0, DmaReadType
  <2> HIDE DEF d, f
  <2>4. /\ f.pendingDreq = "none" => Drained(d, f) = d
        /\ f.pendingDreq = "release" => 2 \notin Drained(d, f).dreq
    BY <2>1, <2>3, DrainedType
  <2>5. /\ fdc'.phase = f.phase /\ fdc'.pendingIrq = f.pendingIrq /\ fdc'.cmd = f.cmd
        /\ fdc'.pendingInterrupt = f.pendingInterrupt
    BY <2>2, <2>3, TakeDreqType
  <2>6. CASE f = fdc
    BY <1>0, <2>1, <2>2, <2>4, <2>5, <2>6 DEF RequestInv, RequestMatchesPhase, IrqInv
  <2>7. CASE /\ fdc.phase = "dmaExecution" /\ f.phase = "dmaExecution"
             /\ f.pendingDreq = "none" /\ f.pendingIrq = fdc.pendingIrq
    BY <1>0, <2>1, <2>2, <2>4, <2>5, <2>7 DEF RequestInv, RequestMatchesPhase, IrqInv
  <2>8. CASE fdc.phase = "dmaExecution" /\ f.phase = "result" /\ f.pendingDreq = "release"
    BY <1>0, <2>1, <2>2, <2>4, <2>5, <2>8 DEF RequestInv, RequestMatchesPhase, IrqInv
  <2> QED
    BY <2>3, <2>6, <2>7, <2>8
<1>14. CASE UNCHANGED vars
  BY <1>0, <1>14 DEF vars, RequestInv, RequestMatchesPhase, IrqInv
<1> QED
  BY <1>1, <1>2, <1>3, <1>4, <1>5, <1>6, <1>7, <1>8, <1>9, <1>10, <1>11, <1>12, <1>13, <1>14
  DEF Next, Driver, Bus

\* As long as the driver resets the controller between commands only, channel
\* 2 is requested exactly while a DMA read is in progress (dma_read_u8,
\* take_dreq_request and the bus that carries the request), in bursts of any
\* length.
THEOREM RequestAlwaysMatches ==
  ASSUME ResetWhen \subseteq {"ready"}
  PROVE  Spec => []RequestMatchesPhase
<1>1. TypeInv /\ RequestInv /\ [Next]_vars => RequestInv'
  BY RequestStep
<1>2. RequestInv => RequestMatchesPhase
  BY DEF RequestInv
<1> QED
  BY <1>1, <1>2, RequestInit, TypeInductive, PTL DEF Spec

\* Under the same condition IRQ 6 reaches a waiting driver only when the
\* command it gave is over (pending_irq in floppy_disk_controller.rs).
THEOREM IrqAlwaysMeansDone ==
  ASSUME ResetWhen \subseteq {"ready"}
  PROVE  Spec => []IrqMeansDone
<1>1. TypeInv /\ RequestInv /\ [Next]_vars => RequestInv'
  BY RequestStep
<1>2. RequestInv => IrqMeansDone
  BY DEF RequestInv, IrqInv, IrqMeansDone
<1> QED
  BY <1>1, <1>2, RequestInit, TypeInductive, PTL DEF Spec
-----------------------------------------------------------------------------
(* Words, and where a channel puts its bytes. *)

PageSize == Radix * Radix

LEMMA PageIs == PageSize \in Nat \ {0} /\ Words = 0..(PageSize - 1)
BY DmaAssumption, PositiveProduct DEF PageSize, Words

\* A sector fits into a page.
LEMMA SectorFits == SectorBytes \in Nat \ {0} /\ SectorBytes <= PageSize
BY FdcAssumption, FloppyAssumption DEF PageSize

\* The remainder of a number that is less than twice the divisor.
LEMMA Wrapped ==
  ASSUME NEW w \in Nat \ {0}, NEW x \in Nat, x < 2 * w
  PROVE  x % w = IF x < w THEN x ELSE x - w
<1>1. CASE x < w
  BY <1>1, BelowDivisor
<1>2. CASE ~(x < w)
  <2>1. x - w \in 0..(w - 1) /\ (1 * w) + (x - w) = x
    BY <1>2
  <2>2. ((1 * w) + (x - w)) % w = x - w
    BY <2>1, DivisionOfSum
  <2> QED BY <1>2, <2>1, <2>2
<1> QED BY <1>1, <1>2

\* The place of a byte, without the remainder.
LEMMA PlaceIs ==
  ASSUME NEW ch \in ChannelState, NEW i \in 1..SectorBytes
  PROVE  /\ Place(ch, i) \in Words
         /\ ch.down => Place(ch, i) =
              IF ch.base >= i - 1 THEN ch.base - (i - 1) ELSE ch.base + PageSize - (i - 1)
         /\ ~ch.down => Place(ch, i) =
              IF ch.base + (i - 1) < PageSize THEN ch.base + (i - 1)
                                              ELSE (ch.base + (i - 1)) - PageSize
<1> DEFINE w == PageSize
<1>1. w \in Nat \ {0} /\ Words = 0..(w - 1)
  BY PageIs
<1>2. ch.base \in 0..(w - 1) /\ ch.down \in BOOLEAN
  BY <1>1 DEF ChannelState
<1>3. i \in Nat /\ i >= 1 /\ i <= w
  BY <1>1, SectorFits DEF w
<1>4. Place(ch, i) = (ch.base + (IF ch.down THEN w - i + 1 ELSE i - 1)) % w
  BY DEF Place, PageSize
<1> HIDE DEF w
<1>5. CASE ch.down
  <2>1. Place(ch, i) = (ch.base + (w - i + 1)) % w
    BY <1>4, <1>5
  <2>2. ch.base + (w - i + 1) \in Nat /\ ch.base + (w - i + 1) < 2 * w
    BY <1>1, <1>2, <1>3
  <2>3. (ch.base + (w - i + 1)) % w =
          IF ch.base + (w - i + 1) < w THEN ch.base + (w - i + 1)
                                       ELSE (ch.base + (w - i + 1)) - w
    <3> DEFINE sum == ch.base + (w - i + 1)
    <3>1. sum \in Nat /\ sum < 2 * w
      BY <2>2
    <3> HIDE DEF sum
    <3>2. sum % w = IF sum < w THEN sum ELSE sum - w
      BY <1>1, <3>1, Wrapped
    <3> QED BY <3>2 DEF sum
  <2>4. Place(ch, i) = IF ch.base >= i - 1 THEN ch.base - (i - 1) ELSE ch.base + w - (i - 1)
    BY <1>1, <1>2, <1>3, <2>1, <2>3
  <2> QED BY <1>1, <1>2, <1>3, <1>5, <2>4 DEF w
<1>6. CASE ~ch.down
  <2>1. Place(ch, i) = (ch.base + (i - 1)) % w
    BY <1>4, <1>6
  <2>2. ch.base + (i - 1) \in Nat /\ ch.base + (i - 1) < 2 * w
    BY <1>1, <1>2, <1>3
  <2>3. (ch.base + (i - 1)) % w =
          IF ch.base + (i - 1) < w THEN ch.base + (i - 1) ELSE (ch.base + (i - 1)) - w
    <3> DEFINE sum == ch.base + (i - 1)
    <3>1. sum \in Nat /\ sum < 2 * w
      BY <2>2
    <3> HIDE DEF sum
    <3>2. sum % w = IF sum < w THEN sum ELSE sum - w
      BY <1>1, <3>1, Wrapped
    <3> QED BY <3>2 DEF sum
  <2>4. Place(ch, i) = IF ch.base + (i - 1) < w THEN ch.base + (i - 1)
                                                ELSE (ch.base + (i - 1)) - w
    BY <1>1, <1>2, <1>3, <2>1, <2>3
  <2> QED BY <1>1, <1>2, <1>3, <1>6, <2>4 DEF w
<1> QED BY <1>5, <1>6

\* No two bytes of a sector have the same place.
LEMMA PlacesDiffer ==
  ASSUME NEW ch \in ChannelState, NEW i \in 1..SectorBytes, NEW j \in 1..SectorBytes,
         Place(ch, i) = Place(ch, j)
  PROVE  i = j
<1>1. PageSize \in Nat /\ ch.base \in 0..(PageSize - 1)
  BY PageIs DEF ChannelState
<1>2. i \in 1..PageSize /\ j \in 1..PageSize
  BY <1>1, SectorFits
<1>3. CASE ch.down
  BY <1>1, <1>2, <1>3, PlaceIs
<1>4. CASE ~ch.down
  BY <1>1, <1>2, <1>4, PlaceIs
<1> QED BY <1>3, <1>4

\* The first byte goes to the base address.
LEMMA FirstPlace ==
  ASSUME NEW ch \in ChannelState
  PROVE  Place(ch, 1) = ch.base
<1>1. PageSize \in Nat /\ ch.base \in 0..(PageSize - 1) /\ ch.down \in BOOLEAN
  BY PageIs DEF ChannelState
<1>2. 1 \in 1..SectorBytes
  BY FdcAssumption
<1>3. CASE ch.down
  BY <1>1, <1>2, <1>3, PlaceIs
<1>4. CASE ~ch.down
  BY <1>1, <1>2, <1>4, PlaceIs
<1> QED BY <1>3, <1>4

\* A channel that is at the place of a byte advances to that of the next.
LEMMA NextPlace ==
  ASSUME NEW ch \in ChannelState, NEW i \in 1..SectorBytes, i + 1 \in 1..SectorBytes,
         ch.addr = Place(ch, i)
  PROVE  Advanced(ch) = Place(ch, i + 1)
<1> DEFINE w == PageSize
<1>1. w \in Nat \ {0} /\ ch.base \in 0..(w - 1) /\ ch.addr \in 0..(w - 1)
      /\ ch.down \in BOOLEAN
  BY PageIs DEF ChannelState
<1>2. i \in 1..w /\ i + 1 \in 1..w
  BY <1>1, SectorFits DEF w
<1>3. Advanced(ch) = IF ch.down THEN (ch.addr + w - 1) % w ELSE (ch.addr + 1) % w
  BY DEF Advanced, PageSize
<1> HIDE DEF w
<1>4. CASE ch.down
  <2>1. ch.addr + w - 1 \in Nat /\ ch.addr + w - 1 < 2 * w
    BY <1>1
  <2>2. Advanced(ch) = IF ch.addr + w - 1 < w THEN ch.addr + w - 1 ELSE ch.addr - 1
    <3>1. (ch.addr + w - 1) % w = IF ch.addr + w - 1 < w THEN ch.addr + w - 1
                                                         ELSE ch.addr + w - 1 - w
      BY <1>1, <2>1, Wrapped
    <3> QED BY <1>1, <1>3, <1>4, <3>1
  <2>3. ch.addr = IF ch.base >= i - 1 THEN ch.base - (i - 1) ELSE ch.base + w - (i - 1)
    BY <1>4, PlaceIs DEF w
  <2>4. Place(ch, i + 1) = IF ch.base >= i THEN ch.base - i ELSE ch.base + w - i
    <3>1. Place(ch, i + 1) = IF ch.base >= (i + 1) - 1 THEN ch.base - ((i + 1) - 1)
                                                       ELSE ch.base + w - ((i + 1) - 1)
      BY <1>4, PlaceIs DEF w
    <3> QED BY <1>1, <1>2, <3>1
  <2> QED BY <1>1, <1>2, <2>2, <2>3, <2>4
<1>5. CASE ~ch.down
  <2>1. ch.addr + 1 \in Nat /\ ch.addr + 1 < 2 * w
    BY <1>1
  <2>2. Advanced(ch) = IF ch.addr + 1 < w THEN ch.addr + 1 ELSE ch.addr + 1 - w
    BY <1>1, <1>3, <1>5, <2>1, Wrapped
  <2>3. ch.addr = IF ch.base + (i - 1) < w THEN ch.base + (i - 1) ELSE (ch.base + (i - 1)) - w
    BY <1>5, PlaceIs DEF w
  <2>4. Place(ch, i + 1) = IF ch.base + i < w THEN ch.base + i ELSE (ch.base + i) - w
    <3>1. Place(ch, i + 1) = IF ch.base + ((i + 1) - 1) < w THEN ch.base + ((i + 1) - 1)
                                                            ELSE (ch.base + ((i + 1) - 1)) - w
      BY <1>5, PlaceIs DEF w
    <3> QED BY <1>1, <1>2, <3>1
  <2> QED BY <1>1, <1>2, <2>2, <2>3, <2>4
<1> QED BY <1>4, <1>5

\* The place depends on the base address and the direction only.
LEMMA SamePlace ==
  ASSUME NEW ch, NEW other, ch.base = other.base, ch.down = other.down
  PROVE  \A i : Place(ch, i) = Place(other, i)
BY DEF Place

\* Two writes, low byte first, set a word.
LEMMA WordSet ==
  ASSUME NEW old \in Words, NEW word \in Words
  PROVE  SetByte(SetByte(old, FALSE, word % Radix), TRUE, word \div Radix) = word
<1> DEFINE low  == word % Radix
           high == word \div Radix
           keep == old \div Radix
<1>1. Radix \in Nat \ {0} /\ word \in Nat /\ old \in Nat
  BY DmaAssumption, PageIs
<1>2. low \in 0..(Radix - 1) /\ high \in Nat /\ word = (high * Radix) + low
  BY <1>1, DivisionParts
<1>3. keep \in Nat
  BY <1>1, DivisionParts
<1> HIDE DEF low, high, keep
<1>4. ((keep * Radix) + low) % Radix = low
  BY <1>1, <1>2, <1>3, DivisionOfSum
<1>5. SetByte(old, FALSE, low) = (keep * Radix) + low
  BY DEF SetByte, keep
<1>6. SetByte(SetByte(old, FALSE, low), TRUE, high) = (high * Radix) + low
  BY <1>4, <1>5 DEF SetByte
<1> QED BY <1>2, <1>6 DEF low, high

-----------------------------------------------------------------------------
(* What programming a channel and a bus cycle leave. *)

\* One byte of an address.
LEMMA AddressByte ==
  ASSUME NEW d \in DmaState, NEW c \in Channels, NEW byte \in Bytes
  PROVE  /\ WriteAddress(d, c, byte).ch[c].base = SetByte(d.ch[c].base, d.flipFlop, byte)
         /\ WriteAddress(d, c, byte).ch[c].addr = SetByte(d.ch[c].base, d.flipFlop, byte)
         /\ WriteAddress(d, c, byte).ch[c].baseCount = d.ch[c].baseCount
         /\ WriteAddress(d, c, byte).ch[c].count = d.ch[c].count
         /\ d.flipFlop = FALSE => WriteAddress(d, c, byte).flipFlop = TRUE
<1> DEFINE word == SetByte(d.ch[c].base, d.flipFlop, byte)
           ch   == [d.ch[c] EXCEPT !.base = word, !.addr = word]
           flip == ~d.flipFlop
<1>1. d.ch[c] \in ChannelState
  BY DEF DmaState
<1>2. WriteAddress(d, c, byte) = [d EXCEPT !.ch[c] = ch, !.flipFlop = flip]
  BY Zenon DEF WriteAddress
<1>3. d.flipFlop = FALSE => flip = TRUE
  OBVIOUS
<1> HIDE DEF flip, word
<1>4. ch.base = word /\ ch.addr = word /\ ch.baseCount = d.ch[c].baseCount
      /\ ch.count = d.ch[c].count
  BY <1>1 DEF ChannelState
<1> HIDE DEF ch
<1>5. WriteAddress(d, c, byte).ch[c] = ch /\ WriteAddress(d, c, byte).flipFlop = flip
  BY <1>2 DEF DmaState
<1> QED BY <1>3, <1>4, <1>5 DEF word

\* One byte of a count.
LEMMA CountByte ==
  ASSUME NEW d \in DmaState, NEW c \in Channels, NEW byte \in Bytes
  PROVE  /\ WriteCount(d, c, byte).ch[c].baseCount = SetByte(d.ch[c].baseCount, d.flipFlop, byte)
         /\ WriteCount(d, c, byte).ch[c].count = SetByte(d.ch[c].baseCount, d.flipFlop, byte)
         /\ WriteCount(d, c, byte).ch[c].base = d.ch[c].base
         /\ WriteCount(d, c, byte).ch[c].addr = d.ch[c].addr
         /\ d.flipFlop = FALSE => WriteCount(d, c, byte).flipFlop = TRUE
<1> DEFINE word == SetByte(d.ch[c].baseCount, d.flipFlop, byte)
           ch   == [d.ch[c] EXCEPT !.baseCount = word, !.count = word]
           flip == ~d.flipFlop
<1>1. d.ch[c] \in ChannelState
  BY DEF DmaState
<1>2. WriteCount(d, c, byte) = [d EXCEPT !.ch[c] = ch, !.flipFlop = flip]
  BY Zenon DEF WriteCount
<1>3. d.flipFlop = FALSE => flip = TRUE
  OBVIOUS
<1> HIDE DEF flip, word
<1>4. ch.baseCount = word /\ ch.count = word /\ ch.base = d.ch[c].base
      /\ ch.addr = d.ch[c].addr
  BY <1>1 DEF ChannelState
<1> HIDE DEF ch
<1>5. WriteCount(d, c, byte).ch[c] = ch /\ WriteCount(d, c, byte).flipFlop = flip
  BY <1>2 DEF DmaState
<1> QED BY <1>3, <1>4, <1>5 DEF word

\* After a clear of the flip-flop two writes set the address, or the count.
LEMMA AddressSet ==
  ASSUME NEW d \in DmaState, NEW c \in Channels, NEW word \in Words, d.flipFlop = FALSE
  PROVE  LET e == WriteAddress(WriteAddress(d, c, word % Radix), c, word \div Radix) IN
         e \in DmaState /\ e.ch[c].base = word /\ e.ch[c].addr = word
<1> DEFINE low == word % Radix  high == word \div Radix
           half == WriteAddress(d, c, low)
           e    == WriteAddress(half, c, high)
<1>1. low \in Bytes /\ high \in Bytes
  BY ByteSplit
<1>2. d.ch[c].base \in Words
  BY DEF DmaState, ChannelState
<1>3. SetByte(SetByte(d.ch[c].base, FALSE, low), TRUE, high) = word
  BY <1>2, WordSet
<1> HIDE DEF low, high
<1>4. half \in DmaState /\ half.flipFlop = TRUE
      /\ half.ch[c].base = SetByte(d.ch[c].base, FALSE, low)
  <2>1. half \in DmaState
    BY <1>1, WriteAddressType
  <2>2. half.flipFlop = TRUE
    BY <1>1, AddressByte
  <2>3. half.ch[c].base = SetByte(d.ch[c].base, d.flipFlop, low)
    BY <1>1, AddressByte
  <2> HIDE DEF half
  <2> QED BY <2>1, <2>2, <2>3
<1> HIDE DEF half
<1>5. e \in DmaState
  BY <1>1, <1>4, WriteAddressType
<1>6. /\ e.ch[c].base = SetByte(half.ch[c].base, half.flipFlop, high)
      /\ e.ch[c].addr = SetByte(half.ch[c].base, half.flipFlop, high)
  BY <1>1, <1>4, AddressByte
<1>7. e.ch[c].base = word /\ e.ch[c].addr = word
  BY <1>3, <1>4, <1>6
<1> QED BY <1>5, <1>7 DEF half, low, high

LEMMA CountSet ==
  ASSUME NEW d \in DmaState, NEW c \in Channels, NEW word \in Words, d.flipFlop = FALSE
  PROVE  LET e == WriteCount(WriteCount(d, c, word % Radix), c, word \div Radix) IN
         /\ e \in DmaState /\ e.ch[c].count = word
         /\ e.ch[c].base = d.ch[c].base /\ e.ch[c].addr = d.ch[c].addr
<1> DEFINE low == word % Radix  high == word \div Radix
           half == WriteCount(d, c, low)
           e    == WriteCount(half, c, high)
<1>1. low \in Bytes /\ high \in Bytes
  BY ByteSplit
<1>2. d.ch[c].baseCount \in Words
  BY DEF DmaState, ChannelState
<1>3. SetByte(SetByte(d.ch[c].baseCount, FALSE, low), TRUE, high) = word
  BY <1>2, WordSet
<1> HIDE DEF low, high
<1>4. /\ half \in DmaState /\ half.flipFlop = TRUE
      /\ half.ch[c].baseCount = SetByte(d.ch[c].baseCount, FALSE, low)
      /\ half.ch[c].base = d.ch[c].base /\ half.ch[c].addr = d.ch[c].addr
  <2>1. half \in DmaState
    BY <1>1, WriteCountType
  <2>2. half.flipFlop = TRUE
    BY <1>1, CountByte
  <2>3. /\ half.ch[c].baseCount = SetByte(d.ch[c].baseCount, d.flipFlop, low)
        /\ half.ch[c].base = d.ch[c].base /\ half.ch[c].addr = d.ch[c].addr
    BY <1>1, CountByte
  <2> HIDE DEF half
  <2> QED BY <2>1, <2>2, <2>3
<1> HIDE DEF half
<1>5. e \in DmaState
  BY <1>1, <1>4, WriteCountType
<1>6. /\ e.ch[c].count = SetByte(half.ch[c].baseCount, half.flipFlop, high)
      /\ e.ch[c].base = half.ch[c].base /\ e.ch[c].addr = half.ch[c].addr
  BY <1>1, <1>4, CountByte
<1>7. e.ch[c].count = word /\ e.ch[c].base = d.ch[c].base /\ e.ch[c].addr = d.ch[c].addr
  BY <1>3, <1>4, <1>6
<1> QED BY <1>5, <1>7 DEF half, low, high

\* Programming a channel sets the registers a transfer starts from.
LEMMA ProgramSets ==
  ASSUME NEW d \in DmaState, NEW c \in Channels, NEW addr \in Words, NEW count \in Words,
         NEW type \in {"verify", "write", "read"}, NEW down \in BOOLEAN, NEW auto \in BOOLEAN
  PROVE  LET ch == Program(d, c, addr, count, type, down, auto).ch[c] IN
         ch.base = addr /\ ch.addr = addr /\ ch.count = count /\ ch.type = type
<1> DEFINE masked  == ClearFlipFlop(WriteMask(d, c, TRUE))
           address == WriteAddress(WriteAddress(masked, c, addr % Radix), c, addr \div Radix)
           cleared == ClearFlipFlop(address)
           counted == WriteCount(WriteCount(cleared, c, count % Radix), c, count \div Radix)
           mode    == WriteMode(counted, c, type, down, auto)
<1>1. masked \in DmaState /\ masked.flipFlop = FALSE
  BY DEF ClearFlipFlop, WriteMask, DmaState
<1>2. address \in DmaState /\ address.ch[c].base = addr /\ address.ch[c].addr = addr
  <2> HIDE DEF masked
  <2> QED BY <1>1, AddressSet
<1>3. /\ cleared \in DmaState /\ cleared.flipFlop = FALSE
      /\ cleared.ch[c].base = addr /\ cleared.ch[c].addr = addr
  <2> HIDE DEF address
  <2> QED BY <1>2 DEF ClearFlipFlop, DmaState
<1>4. /\ counted \in DmaState /\ counted.ch[c].count = count
      /\ counted.ch[c].base = addr /\ counted.ch[c].addr = addr
  <2> HIDE DEF cleared
  <2> QED BY <1>3, CountSet, ZenonT(60)
<1>5. /\ mode.ch[c].count = count /\ mode.ch[c].type = type
      /\ mode.ch[c].base = addr /\ mode.ch[c].addr = addr
  <2> HIDE DEF counted
  <2> DEFINE now == [counted.ch[c] EXCEPT !.type = type, !.down = down, !.autoInit = auto]
  <2>1. counted.ch[c] \in ChannelState
    BY <1>4 DEF DmaState
  <2>2. now.count = count /\ now.type = type /\ now.base = addr /\ now.addr = addr
    BY <1>4, <2>1 DEF ChannelState
  <2>3. mode = [counted EXCEPT !.ch[c] = now]
    BY Zenon DEF WriteMode
  <2> HIDE DEF now
  <2>4. mode.ch[c] = now
    BY <1>4, <2>3 DEF DmaState
  <2> QED BY <2>2, <2>4
<1>6. WriteMask(mode, c, FALSE).ch = mode.ch
  <2>1. mode = [counted EXCEPT !.ch[c] =
                  [@ EXCEPT !.type = type, !.down = down, !.autoInit = auto]]
    BY DEF WriteMode
  <2>2. counted \in DmaState
    BY <1>4
  <2> HIDE DEF counted
  <2>3. mode = [ch |-> mode.ch, flipFlop |-> counted.flipFlop, tc |-> counted.tc,
                mask |-> counted.mask, dreq |-> counted.dreq]
    BY <2>1, <2>2 DEF DmaState
  <2> HIDE DEF mode
  <2> QED BY <2>3 DEF WriteMask
<1> QED BY <1>5, <1>6 DEF Program

\* A bus cycle of a channel leaves the others alone, its own base address,
\* direction and type, and loses no terminal count.
LEMMA CycleKeeps ==
  ASSUME NEW d \in DmaState, NEW c \in Channels
  PROVE  /\ \A e \in Channels : e # c => Cycle(d, c).ch[e] = d.ch[e]
         /\ Cycle(d, c).ch[c].base = d.ch[c].base /\ Cycle(d, c).ch[c].down = d.ch[c].down
         /\ Cycle(d, c).ch[c].type = d.ch[c].type
         /\ d.tc \subseteq Cycle(d, c).tc
         /\ d.ch[c].count = 0 => c \in Cycle(d, c).tc
         /\ d.ch[c].count > 0 => /\ Cycle(d, c).ch[c].count = d.ch[c].count - 1
                                 /\ Cycle(d, c).ch[c].addr = Advanced(d.ch[c])
<1> DEFINE old  == d.ch[c]
           step == Advanced(old)
           less == old.count - 1
<1>1. old \in ChannelState /\ d \in DmaState
  BY DEF DmaState
<1>2. old.count \in Nat
  BY <1>1, PageIs DEF ChannelState
<1>3. CASE old.count > 0
  <2> DEFINE new == [old EXCEPT !.addr = step, !.count = less]
  <2>1. Cycle(d, c) = [d EXCEPT !.ch[c] = new]
    BY <1>3 DEF Cycle
  <2> HIDE DEF step, less
  <2>2. /\ new.base = old.base /\ new.down = old.down /\ new.type = old.type
        /\ new.count = less /\ new.addr = step
    BY <1>1 DEF ChannelState
  <2> HIDE DEF new
  <2>3. /\ Cycle(d, c).ch[c] = new /\ Cycle(d, c).tc = d.tc
        /\ \A e \in Channels : e # c => Cycle(d, c).ch[e] = d.ch[e]
    BY <2>1 DEF DmaState
  <2> QED BY <1>3, <2>2, <2>3 DEF step, less
<1>4. CASE old.count = 0 /\ old.autoInit
  <2> DEFINE start == old.base  length == old.baseCount
             new   == [old EXCEPT !.addr = start, !.count = length]
             tc    == d.tc \cup {c}
  <2>1. Cycle(d, c) = [d EXCEPT !.tc = tc, !.ch[c] = new]
    BY <1>4 DEF Cycle
  <2>2. new.base = old.base /\ new.down = old.down /\ new.type = old.type
    <3> HIDE DEF start, length
    <3> QED BY <1>1 DEF ChannelState
  <2> HIDE DEF new
  <2>3. c \in tc /\ d.tc \subseteq tc
    OBVIOUS
  <2> HIDE DEF tc
  <2>4. /\ Cycle(d, c).ch[c] = new /\ Cycle(d, c).tc = tc
        /\ \A e \in Channels : e # c => Cycle(d, c).ch[e] = d.ch[e]
    BY <2>1 DEF DmaState
  <2> QED BY <1>4, <2>2, <2>3, <2>4
<1>5. CASE old.count = 0 /\ ~old.autoInit
  <2> DEFINE new  == [old EXCEPT !.addr = step]
             tc   == d.tc \cup {c}
             mask == d.mask \cup {c}
  <2>1. Cycle(d, c) = [d EXCEPT !.tc = tc, !.mask = mask, !.ch[c] = new]
    BY <1>5 DEF Cycle
  <2>2. new.base = old.base /\ new.down = old.down /\ new.type = old.type
    <3> HIDE DEF step
    <3> QED BY <1>1 DEF ChannelState
  <2> HIDE DEF new, mask
  <2>3. c \in tc /\ d.tc \subseteq tc
    OBVIOUS
  <2> HIDE DEF tc
  <2>4. /\ Cycle(d, c).ch[c] = new /\ Cycle(d, c).tc = tc
        /\ \A e \in Channels : e # c => Cycle(d, c).ch[e] = d.ch[e]
    BY <2>1 DEF DmaState
  <2> QED BY <1>5, <2>2, <2>3, <2>4
<1> HIDE DEF old
<1>6. old.count > 0 \/ old.count = 0
  BY <1>2
<1> QED BY <1>3, <1>4, <1>5, <1>6

\* The request lines are all that the bus changes when it drains a request.
LEMMA DrainedKeeps ==
  ASSUME NEW d \in DmaState, NEW f \in FdcState
  PROVE  Drained(d, f).ch = d.ch /\ Drained(d, f).tc = d.tc
BY DEF Drained, SetDreq, DmaState

-----------------------------------------------------------------------------
(* A read by DMA, from the controller's side. *)

\* Executing a read asks for DMA, or reports a failure; nothing else asks.
LEMMA ExecuteReads ==
  ASSUME NEW f \in FdcState, NEW d \in Disks \cup {NoDisk}, NEW found \in BOOLEAN,
         f.cmd # "sense"
  PROVE  /\ f.cmd = "readDma" =>
              \/ /\ Execute(f, d, found).phase = "dmaExecution"
                 /\ Execute(f, d, found).index = f.index
              \/ /\ Execute(f, d, found).phase = "result"
                 /\ Execute(f, d, found).status # "ok"
         /\ Execute(f, d, found).phase = "dmaExecution" => f.cmd = "readDma"
<1> DEFINE status == ReadStatus(d, found)
           ended  == [Reports(f, status) EXCEPT !.pendingIrq = TRUE]
<1>1. ended.phase = "result" /\ ended.status = status
  BY DEF Reports, FdcState
<1>2. CASE f.cmd = "verify" \/ (f.cmd \in {"readDma", "readPio"} /\ status # "ok")
  <2>1. Execute(f, d, found) = ended
    BY <1>2 DEF Execute
  <2> HIDE DEF ended
  <2> QED BY <1>1, <1>2, <2>1
<1>3. CASE f.cmd = "write"
  <2>1. Execute(f, d, found) = [f EXCEPT !.phase = "writeExecution"]
    BY <1>3 DEF Execute
  <2> QED BY <1>3, <2>1 DEF FdcState
<1>4. CASE f.cmd = "recalibrate"
  <2>1. Execute(f, d, found) = [Idle(f) EXCEPT !.pendingInterrupt = TRUE, !.pendingIrq = TRUE]
    BY <1>4 DEF Execute
  <2>2. Idle(f) \in FdcState /\ Idle(f).phase = "idle"
    BY IdleType
  <2> QED BY <1>4, <2>1, <2>2 DEF FdcState
<1>5. CASE f.cmd = "readPio" /\ status = "ok"
  <2>1. Execute(f, d, found) = [f EXCEPT !.phase = "execution", !.from = d]
    BY <1>5 DEF Execute
  <2> QED BY <1>5, <2>1 DEF FdcState
<1>6. CASE f.cmd = "readDma" /\ status = "ok"
  <2>1. Execute(f, d, found) =
          [f EXCEPT !.phase = "dmaExecution", !.from = d, !.pendingDreq = "assert"]
    BY <1>6 DEF Execute
  <2> HIDE DEF status
  <2> QED BY <1>6, <2>1 DEF FdcState
<1>7. f.cmd \in Commands
  BY DEF FdcState
<1> HIDE DEF status, ended
<1> QED BY <1>2, <1>3, <1>4, <1>5, <1>6, <1>7 DEF Commands

LEMMA ParamByteReads ==
  ASSUME NEW f \in FdcState, NEW d \in Disks \cup {NoDisk}, NEW found \in BOOLEAN,
         PhaseFacts(f), f.phase = "command"
  PROVE  /\ f.cmd = "readDma" =>
              \/ ParamByte(f, d, found).phase = "command"
              \/ /\ ParamByte(f, d, found).phase = "dmaExecution"
                 /\ ParamByte(f, d, found).index = 0
              \/ /\ ParamByte(f, d, found).phase = "result"
                 /\ ParamByte(f, d, found).status # "ok"
         /\ ParamByte(f, d, found).phase = "dmaExecution" => f.cmd = "readDma"
<1> DEFINE one == [f EXCEPT !.left = @ - 1]
<1>1. f.left > 0 /\ f.index = 0 /\ f.cmd # "sense"
  BY DEF PhaseFacts
<1>2. f.left - 1 \in 0..(ParamBytes + ResultBytes + 2)
  BY <1>1, FdcAssumption DEF FdcState
<1>3. one \in FdcState /\ one.phase = "command" /\ one.index = 0 /\ one.cmd = f.cmd
  BY <1>1, <1>2 DEF FdcState
<1>4. ParamByte(f, d, found) = IF one.left > 0 THEN one ELSE Execute(one, d, found)
  BY DEF ParamByte
<1> HIDE DEF one
<1>5. CASE one.left > 0
  BY <1>3, <1>4, <1>5
<1>6. CASE ~(one.left > 0)
  <2>1. ParamByte(f, d, found) = Execute(one, d, found) /\ one.cmd # "sense"
    BY <1>1, <1>3, <1>4, <1>6
  <2> DEFINE g == Execute(one, d, found)
  <2>2. /\ one.cmd = "readDma" => \/ g.phase = "dmaExecution" /\ g.index = one.index
                                  \/ g.phase = "result" /\ g.status # "ok"
        /\ g.phase = "dmaExecution" => one.cmd = "readDma"
    BY <1>3, <2>1, ExecuteReads
  <2> HIDE DEF g
  <2> QED BY <1>3, <2>1, <2>2 DEF g
<1> QED BY <1>5, <1>6

\* Each byte DMA takes is the next of the sector; the last one ends the command.
LEMMA DmaReadNext ==
  ASSUME NEW f \in FdcState, PhaseFacts(f), f.phase = "dmaExecution"
  PROVE  /\ DmaByte(f) = [disk |-> f.from, at |-> f.index + 1] /\ DmaByte(f) # NoByte
         /\ DmaRead(f).from = f.from
         /\ f.index + 1 < SectorBytes =>
              DmaRead(f).phase = "dmaExecution" /\ DmaRead(f).index = f.index + 1
         /\ ~(f.index + 1 < SectorBytes) =>
              f.index + 1 = SectorBytes /\ DmaRead(f).phase = "result"
<1>1. f.index \in Nat /\ f.index < SectorBytes /\ f.from \in Disks
  BY FdcAssumption DEF PhaseFacts, DataPhases, FdcState
<1>2. DmaByte(f) = [disk |-> f.from, at |-> f.index + 1] /\ DmaByte(f) # NoByte
  <2>1. f.from # NoDisk
    BY <1>1, FdcAssumption
  <2>2. [disk |-> f.from, at |-> f.index + 1].disk # NoByte.disk
    BY <2>1 DEF NoByte
  <2> QED BY <2>2 DEF DmaByte
<1> DEFINE next == f.index + 1
           one  == [f EXCEPT !.index = next]
<1>3. DmaRead(f) = IF one.index < SectorBytes THEN one
                   ELSE [Reports(one, "ok") EXCEPT !.pendingDreq = "release", !.pendingIrq = TRUE]
  BY DEF DmaRead
<1>4. next \in 0..SectorBytes /\ SectorBytes \in Nat
  BY <1>1, FdcAssumption
<1> HIDE DEF next
<1>5. one \in FdcState /\ one.index = next /\ one.phase = "dmaExecution" /\ one.from = f.from
  BY <1>4 DEF FdcState
<1> HIDE DEF one
<1>6. CASE next < SectorBytes
  BY <1>2, <1>3, <1>5, <1>6 DEF next
<1>7. CASE ~(next < SectorBytes)
  <2>1. DmaRead(f) = [Reports(one, "ok") EXCEPT !.pendingDreq = "release", !.pendingIrq = TRUE]
    BY <1>3, <1>5, <1>7
  <2>2. DmaRead(f).phase = "result" /\ DmaRead(f).from = one.from
    BY <1>5, <2>1 DEF Reports, FdcState
  <2>3. next = SectorBytes
    BY <1>4, <1>7
  <2> QED BY <1>2, <1>5, <1>7, <2>2, <2>3 DEF next
<1> QED BY <1>6, <1>7

LEMMA TakeDreqKeeps ==
  ASSUME NEW f \in FdcState
  PROVE  /\ TakeDreq(f).phase = f.phase /\ TakeDreq(f).index = f.index
         /\ TakeDreq(f).from = f.from /\ TakeDreq(f).status = f.status
BY DEF TakeDreq, FdcState

\* Reading a result byte leaves the result as it is, or ends the command.
LEMMA ReadResultKeeps ==
  ASSUME NEW f \in FdcState, f.phase = "result"
  PROVE  \/ /\ ReadByte(f).phase = "result" /\ ReadByte(f).status = f.status
            /\ ReadByte(f).from = f.from
         \/ ReadByte(f).phase = "idle"
<1>1. f.left \in Nat
  BY FdcAssumption DEF FdcState
<1>2. CASE f.left > 1
  BY <1>1, <1>2 DEF ReadByte, FdcState
<1>3. CASE ~(f.left > 1)
  <2>1. ReadByte(f) = Idle(f)
    BY <1>1, <1>3 DEF ReadByte
  <2> QED BY <2>1, IdleType
<1> QED BY <1>2, <1>3

-----------------------------------------------------------------------------
(* The sector in memory. *)

\* The first n bytes of a sector, and nothing else, are in memory, each where
\* the channel was programmed to put it.
Stored(m, ch, n, from) ==
  \A a \in Words :
    \/ \E j \in 1..n : Place(ch, j) = a /\ m[a] = [disk |-> from, at |-> j]
    \/ (\A j \in 1..n : Place(ch, j) # a) /\ m[a] = NoByte

\* Channel 2 is set up for a read that has not begun.
ReadPrepared(d, t, m) ==
  /\ m = Blank /\ t[2] = 0
  /\ d.ch[2].type = "write" /\ d.ch[2].addr = d.ch[2].base
  /\ d.ch[2].count + 1 = SectorBytes

\* The channel is at the place of the controller's next byte.
ReadUnderWay(d, f, m) ==
  /\ d.ch[2].type = "write"
  /\ d.ch[2].addr = Place(d.ch[2], f.index + 1)
  /\ d.ch[2].count + f.index + 1 = SectorBytes
  /\ Stored(m, d.ch[2], f.index, f.from)

ReadDone(d, f, m) == 2 \in d.tc /\ Stored(m, d.ch[2], SectorBytes, f.from)

\* The channel is set up before the command is sent and keeps in step with the
\* controller until the command is over.
DataInv ==
  /\ (driver.at = "sense" => driver.op = "recalibrate")
  /\ (driver.at = "transfer" => driver.op # "readDma")
  /\ (driver.at = "ready" => memory = Blank)
  /\ (driver.op = "readDma" /\ driver.at \in {"send", "params"} => ReadPrepared(dma, todo, memory))
  /\ (fdc.phase = "dmaExecution" => driver.op = "readDma" /\ ReadUnderWay(dma, fdc, memory))
  /\ (driver.op = "readDma" /\ driver.at \in {"wait", "results"}
      /\ fdc.phase = "result" /\ fdc.status = "ok"
        => ReadDone(dma, fdc, memory))

LEMMA DataPrimed ==
  DataInv' <=>
    /\ (driver'.at = "sense" => driver'.op = "recalibrate")
    /\ (driver'.at = "transfer" => driver'.op # "readDma")
    /\ (driver'.at = "ready" => memory' = Blank)
    /\ (driver'.op = "readDma" /\ driver'.at \in {"send", "params"}
          => ReadPrepared(dma', todo', memory'))
    /\ (fdc'.phase = "dmaExecution"
          => driver'.op = "readDma" /\ ReadUnderWay(dma', fdc', memory'))
    /\ (driver'.op = "readDma" /\ driver'.at \in {"wait", "results"}
        /\ fdc'.phase = "result" /\ fdc'.status = "ok"
          => ReadDone(dma', fdc', memory'))
BY DEF DataInv, ReadPrepared, ReadUnderWay, ReadDone, Stored, Place, Blank

\* Nothing is stored at first.
LEMMA StoredNone ==
  ASSUME NEW ch, NEW from
  PROVE  Stored(Blank, ch, 0, from)
BY DEF Stored, Blank

\* The channel's address and count do not matter to what is stored.
LEMMA StoredSame ==
  ASSUME NEW m, NEW ch, NEW other, NEW n, NEW from, Stored(m, ch, n, from),
         ch.base = other.base, ch.down = other.down
  PROVE  Stored(m, other, n, from)
BY SamePlace DEF Stored

\* The next byte at its place adds to what is stored.
LEMMA StoredNext ==
  ASSUME NEW m \in [Words -> Data \cup {NoByte}], NEW ch \in ChannelState,
         NEW i \in Nat, i + 1 \in 1..SectorBytes, NEW from, Stored(m, ch, i, from),
         NEW byte, byte = [disk |-> from, at |-> i + 1]
  PROVE  Stored([m EXCEPT ![Place(ch, i + 1)] = byte], ch, i + 1, from)
<1> DEFINE here == Place(ch, i + 1)
           n    == [m EXCEPT ![here] = byte]
<1>1. here \in Words
  BY PlaceIs
<1>2. n[here] = byte /\ \A a \in Words : a # here => n[a] = m[a]
  BY <1>1
<1>3. i + 1 \in 1..(i + 1) /\ \A j \in 1..(i + 1) : j \in 1..i \/ j = i + 1
  OBVIOUS
<1>4. ASSUME NEW a \in Words
      PROVE  \/ \E j \in 1..(i + 1) : Place(ch, j) = a /\ n[a] = [disk |-> from, at |-> j]
             \/ (\A j \in 1..(i + 1) : Place(ch, j) # a) /\ n[a] = NoByte
  <2>1. CASE a = here
    <3> HIDE DEF n
    <3> QED BY <1>2, <1>3, <2>1
  <2>2. CASE a # here
    <3>1. n[a] = m[a]
      BY <1>2, <2>2
    <3> HIDE DEF n
    <3>2. CASE \E j \in 1..i : Place(ch, j) = a /\ m[a] = [disk |-> from, at |-> j]
      <4>1. PICK j \in 1..i : Place(ch, j) = a /\ m[a] = [disk |-> from, at |-> j]
        BY <3>2
      <4>2. j \in 1..(i + 1)
        OBVIOUS
      <4> QED BY <3>1, <4>1, <4>2
    <3>3. CASE (\A j \in 1..i : Place(ch, j) # a) /\ m[a] = NoByte
      BY <1>3, <2>2, <3>1, <3>3
    <3> QED BY <3>2, <3>3 DEF Stored
  <2> QED BY <2>1, <2>2
<1> HIDE DEF n
<1>5. Stored(n, ch, i + 1, from)
  BY <1>4 DEF Stored
<1> QED BY <1>5 DEF n, here

LEMMA DataInit == Init => DataInv
BY DEF Init, DataInv, FdcNew, Ready

\* A write to port 0x3F5 leaves the channels alone.
LEMMA WrittenKeeps ==
  ASSUME TypeInv, NEW f \in FdcState, Written(f)
  PROVE  /\ dma'.ch = dma.ch /\ dma'.tc = dma.tc
         /\ fdc'.phase = f.phase /\ fdc'.index = f.index /\ fdc'.from = f.from
         /\ fdc'.status = f.status
<1>1. dma' = Drained(dma, f) /\ fdc' = TakeDreq(f) /\ dma \in DmaState
  BY DEF Written, TypeInv, TypeOK
<1>2. Drained(dma, f).ch = dma.ch /\ Drained(dma, f).tc = dma.tc
  BY <1>1, DrainedKeeps
<1> QED BY <1>1, <1>2, TakeDreqKeeps

\* A bus cycle that moves a byte of the sector.
LEMMA ByteMoves ==
  ASSUME NEW d \in DmaState, NEW f \in FdcState, PhaseFacts(f), f.phase = "dmaExecution",
         NEW m \in [Words -> Data \cup {NoByte}], ReadUnderWay(d, f, m),
         NEW e \in DmaState, e.ch = Cycle(d, 2).ch, e.tc = Cycle(d, 2).tc,
         NEW g \in FdcState, g.phase = DmaRead(f).phase, g.index = DmaRead(f).index,
         g.from = DmaRead(f).from,
         NEW n, n = [m EXCEPT ![d.ch[2].addr] = DmaByte(f)]
  PROVE  /\ g.phase = "dmaExecution" => ReadUnderWay(e, g, n)
         /\ g.phase = "result" => ReadDone(e, g, n)
<1> DEFINE old == d.ch[2]  new == e.ch[2]  i == f.index
<1>1. /\ old.type = "write" /\ old.addr = Place(old, i + 1)
      /\ old.count + i + 1 = SectorBytes /\ Stored(m, old, i, f.from)
  BY DEF ReadUnderWay
<1>2. 2 \in Channels /\ old \in ChannelState /\ new \in ChannelState
  BY FloppyAssumption DEF DmaState
<1>3. /\ new.base = old.base /\ new.down = old.down /\ new.type = old.type
      /\ old.count = 0 => 2 \in e.tc
      /\ old.count > 0 => new.count = old.count - 1 /\ new.addr = Advanced(old)
  BY <1>2, CycleKeeps
<1>4. i \in Nat /\ old.count \in Nat /\ SectorBytes \in Nat
  BY <1>2, PageIs, FdcAssumption DEF ChannelState, FdcState
<1>5. i + 1 \in 1..SectorBytes
  BY <1>1, <1>4
<1>6. /\ DmaByte(f) = [disk |-> f.from, at |-> i + 1] /\ g.from = f.from
      /\ i + 1 < SectorBytes => g.phase = "dmaExecution" /\ g.index = i + 1
      /\ ~(i + 1 < SectorBytes) => i + 1 = SectorBytes /\ g.phase = "result"
  BY DmaReadNext
<1> HIDE DEF old, new, i
<1>7. Stored(n, old, i + 1, f.from)
  <2> DEFINE byte == DmaByte(f)
  <2>1. byte = [disk |-> f.from, at |-> i + 1] /\ n = [m EXCEPT ![Place(old, i + 1)] = byte]
    BY <1>1, <1>6 DEF old
  <2> HIDE DEF byte
  <2>2. Stored([m EXCEPT ![Place(old, i + 1)] = byte], old, i + 1, f.from)
    BY <1>1, <1>2, <1>4, <1>5, <2>1, StoredNext
  <2> QED BY <2>1, <2>2
<1>8. Stored(n, new, i + 1, g.from)
  BY <1>3, <1>6, <1>7, StoredSame
<1>9. CASE i + 1 < SectorBytes
  <2>1. old.count > 0 /\ g.phase = "dmaExecution" /\ g.index = i + 1
    BY <1>1, <1>4, <1>6, <1>9
  <2>2. new.count = old.count - 1 /\ new.count + g.index + 1 = SectorBytes
    BY <1>1, <1>3, <1>4, <2>1
  <2>3. i + 1 + 1 \in 1..SectorBytes
    BY <1>4, <1>9
  <2>4. Advanced(old) = Place(old, i + 1 + 1)
    BY <1>1, <1>2, <1>5, <2>3, NextPlace
  <2>5. new.addr = Place(new, g.index + 1)
    BY <1>3, <2>1, <2>4, SamePlace
  <2> QED BY <1>1, <1>3, <1>8, <2>1, <2>2, <2>5 DEF ReadUnderWay, new
<1>10. CASE ~(i + 1 < SectorBytes)
  <2>1. old.count = 0 /\ i + 1 = SectorBytes /\ g.phase = "result"
    BY <1>1, <1>4, <1>6, <1>10
  <2> QED BY <1>3, <1>8, <2>1 DEF ReadDone, new
<1> QED BY <1>9, <1>10

\* A step that leaves alone what the sector's state is made of.
LEMMA DataSame ==
  ASSUME NEW d, NEW e, NEW f, NEW g, NEW m,
         d.ch[2] = e.ch[2], d.tc \subseteq e.tc, f.from = g.from
  PROVE  /\ ReadUnderWay(d, f, m) /\ f.index = g.index => ReadUnderWay(e, g, m)
         /\ ReadDone(d, f, m) => ReadDone(e, g, m)
BY DEF ReadUnderWay, ReadDone

LEMMA DataStep ==
  ASSUME ResetWhen \subseteq {"ready"}
  PROVE  TypeInv /\ RequestInv /\ DataInv /\ [Next]_vars => DataInv'
<1> SUFFICES ASSUME TypeInv, RequestInv, DataInv, [Next]_vars PROVE DataInv'
  OBVIOUS
<1>0. /\ dma \in DmaState /\ fdc \in FdcState /\ disk \in Disks \cup {NoDisk}
      /\ driver \in DriverState /\ memory \in [Words -> Data \cup {NoByte}]
      /\ PhaseFacts(fdc) /\ fdc.pendingDreq = "none" /\ 2 \in Channels
  BY FloppyAssumption DEF TypeInv, TypeOK
<1>a. /\ (2 \in dma.dreq) <=> (fdc.phase = "dmaExecution")
      /\ driver.at = "params" => fdc.cmd = driver.op
      /\ fdc.phase = "dmaExecution" => driver.at = "wait" /\ ~driver.irqSeen
      /\ fdc.pendingIrq => driver.at = "wait"
      /\ driver.at = "wait" =>
           \/ fdc.phase \in {"dmaExecution", "result"}
           \/ driver.op = "recalibrate" /\ fdc.pendingInterrupt
  BY DEF RequestInv, RequestMatchesPhase, IrqInv
<1>b. /\ (driver.at = "sense" => driver.op = "recalibrate")
      /\ (driver.at = "transfer" => driver.op # "readDma")
      /\ (driver.at = "ready" => memory = Blank)
      /\ (driver.op = "readDma" /\ driver.at \in {"send", "params"}
            => ReadPrepared(dma, todo, memory))
      /\ (fdc.phase = "dmaExecution" => driver.op = "readDma" /\ ReadUnderWay(dma, fdc, memory))
      /\ (driver.op = "readDma" /\ driver.at \in {"wait", "results"}
          /\ fdc.phase = "result" /\ fdc.status = "ok"
            => ReadDone(dma, fdc, memory))
  BY DEF DataInv
<1>1. CASE Begin
  <2>1. driver.at = "ready" /\ todo[2] = 0 /\ UNCHANGED <<fdc, todo, memory>>
        /\ driver'.at = "send"
    BY <1>0, <1>1 DEF Begin, At, Quiet
  <2>2. driver'.op = "readDma" => ReadPrepared(dma', todo', memory')
    <3> SUFFICES ASSUME driver'.op = "readDma" PROVE ReadPrepared(dma', todo', memory')
      OBVIOUS
    <3>1. PICK addr \in Addresses, down \in BOOLEAN, auto \in BOOLEAN :
                 dma' = Program(dma, 2, addr, SectorBytes - 1, "write", down, auto)
      BY <1>1 DEF Begin
    <3>2. addr \in Words
      BY FloppyAssumption
    <3>3. SectorBytes - 1 \in Words /\ (SectorBytes - 1) + 1 = SectorBytes
      BY PageIs, SectorFits
    <3>4. /\ dma'.ch[2].base = addr /\ dma'.ch[2].addr = addr
          /\ dma'.ch[2].count = SectorBytes - 1 /\ dma'.ch[2].type = "write"
      BY <1>0, <3>1, <3>2, <3>3, ProgramSets
    <3> QED BY <1>b, <2>1, <3>3, <3>4 DEF ReadPrepared
  <2>3. fdc.phase # "dmaExecution"
    BY <1>a, <2>1
  <2> QED BY <2>1, <2>2, <2>3, DataPrimed
<1>2. CASE Send
  <2> DEFINE cmd == IF driver.at = "sense" THEN "sense" ELSE driver.op
             f == CommandByte(fdc, cmd)
  <2>1. /\ Written(f) /\ fdc.phase = "idle" /\ driver.at \in {"send", "sense"}
        /\ UNCHANGED <<todo, memory>>
    BY <1>2 DEF Send, At
  <2>2. driver'.at = (IF driver.at = "sense" THEN "results" ELSE "params")
        /\ driver'.op = driver.op
    BY <1>0, <1>2 DEF Send, Moves, DriverState
  <2>3. cmd \in Commands
    BY <1>0 DEF DriverState, Commands
  <2> HIDE DEF cmd
  <2>4. f \in FdcState /\ f.phase \in {"result", "command"}
    BY <1>0, <2>3, CommandByteType
  <2> HIDE DEF f
  <2>5. dma'.ch = dma.ch /\ fdc'.phase = f.phase
    BY <2>1, <2>4, WrittenKeeps
  <2>6. ReadPrepared(dma, todo, memory) => ReadPrepared(dma', todo', memory')
    BY <2>1, <2>5 DEF ReadPrepared
  <2>7. CASE driver.at = "sense"
    BY <1>b, <2>2, <2>4, <2>5, <2>7, DataPrimed
  <2>8. CASE driver.at = "send"
    BY <1>b, <2>2, <2>4, <2>5, <2>6, <2>8, DataPrimed
  <2> QED BY <2>1, <2>7, <2>8
<1>3. CASE SendParam
  <2> DEFINE f == ParamByte(fdc, disk, driver.found)
             to == CASE f.phase = "command" -> "params"
                     [] f.phase \in {"execution", "writeExecution"} -> "transfer"
                     [] OTHER -> "wait"
  <2>1. /\ Written(f) /\ fdc.phase = "command" /\ driver.at = "params"
        /\ driver.found \in BOOLEAN /\ driver' = [driver EXCEPT !.at = to]
        /\ UNCHANGED <<todo, memory>>
    BY <1>0, <1>3 DEF SendParam, At, Moves, DriverState
  <2>2. f \in FdcState /\ f.phase \in {"command", "execution", "writeExecution",
                                       "dmaExecution", "result", "idle"}
    <3>1. f \in FdcState
      BY <1>0, <2>1, ParamByteType
    <3> QED BY <3>1 DEF FdcState, Phases
  <2>3. /\ fdc.cmd = "readDma" => \/ f.phase = "command"
                                  \/ f.phase = "dmaExecution" /\ f.index = 0
                                  \/ f.phase = "result" /\ f.status # "ok"
        /\ f.phase = "dmaExecution" => fdc.cmd = "readDma"
    BY <1>0, <2>1, ParamByteReads
  <2>4. /\ f.phase = "command" => to = "params"
        /\ f.phase \in {"execution", "writeExecution"} => to = "transfer"
        /\ f.phase \in {"dmaExecution", "result", "idle"} => to = "wait"
    OBVIOUS
  <2> HIDE DEF f, to
  <2>5. /\ dma'.ch = dma.ch /\ fdc'.phase = f.phase /\ fdc'.index = f.index
        /\ fdc'.status = f.status
    BY <2>1, <2>2, WrittenKeeps
  <2>6. driver'.at = to /\ driver'.op = driver.op /\ fdc.cmd = driver.op
    BY <1>0, <1>a, <2>1 DEF DriverState
  <2>7. CASE driver.op # "readDma"
    BY <2>2, <2>3, <2>4, <2>5, <2>6, <2>7, DataPrimed
  <2>8. CASE driver.op = "readDma"
    <3>1. ReadPrepared(dma, todo, memory)
      BY <1>b, <2>1, <2>8
    <3>2. CASE f.phase = "command"
      <4>1. ReadPrepared(dma', todo', memory')
        BY <2>1, <2>5, <3>1 DEF ReadPrepared
      <4> QED BY <2>4, <2>5, <2>6, <3>2, <4>1, DataPrimed
    <3>3. CASE f.phase = "dmaExecution" /\ f.index = 0
      <4> DEFINE ch == dma'.ch[2]
      <4>1. /\ ch \in ChannelState /\ ch.type = "write" /\ ch.addr = ch.base
            /\ ch.count + 1 = SectorBytes /\ memory' = Blank
        BY <1>0, <2>1, <2>5, <3>1 DEF ReadPrepared, DmaState
      <4>2. ch.count \in Nat
        BY <4>1, PageIs DEF ChannelState
      <4> HIDE DEF ch
      <4>3. ch.addr = Place(ch, 1)
        BY <4>1, FirstPlace
      <4>4. Stored(memory', ch, 0, fdc'.from)
        BY <4>1, StoredNone
      <4>5. fdc'.index = 0 /\ ch.count + 0 + 1 = SectorBytes /\ 0 + 1 = 1
        BY <2>5, <3>3, <4>1, <4>2
      <4>6. ReadUnderWay(dma', fdc', memory')
        BY <4>1, <4>3, <4>4, <4>5 DEF ReadUnderWay, ch
      <4> QED BY <2>4, <2>5, <2>6, <2>8, <3>3, <4>6, DataPrimed
    <3>4. CASE f.phase = "result" /\ f.status # "ok"
      BY <2>4, <2>5, <2>6, <3>4, DataPrimed
    <3> QED BY <2>3, <2>6, <2>8, <3>2, <3>3, <3>4
  <2> QED BY <2>7, <2>8
<1>4. CASE Transfer
  <2>1. driver.at = "transfer" /\ driver'.op = driver.op /\ driver'.at \in {"wait", "transfer"}
    BY <1>0, <1>4 DEF Transfer, At, Moves, DriverState
  <2>2. fdc'.phase # "dmaExecution"
    <3>1. CASE fdc.phase = "execution" /\ fdc' = ReadByte(fdc)
      BY <1>0, <3>1, ReadByteType
    <3>2. CASE fdc.phase = "writeExecution" /\ Written(DataByte(fdc, disk, driver.found))
      <4> DEFINE f == DataByte(fdc, disk, driver.found)
      <4>1. f \in FdcState /\ f.phase \in {"writeExecution", "result"}
        BY <1>0, <3>2, DataByteType DEF DriverState
      <4>2. Written(f)
        BY <3>2
      <4> HIDE DEF f
      <4> QED BY <4>1, <4>2, WrittenKeeps
    <3> QED BY <1>4, <3>1, <3>2 DEF Transfer
  <2> QED BY <1>b, <2>1, <2>2, DataPrimed
<1>5. CASE TakeIrq
  <2>1. /\ fdc'.phase = fdc.phase /\ fdc'.index = fdc.index /\ fdc'.from = fdc.from
        /\ fdc'.status = fdc.status
    BY <1>0, <1>5 DEF TakeIrq, TakePendingIrq, FdcState
  <2>2. driver'.at = driver.at /\ driver'.op = driver.op /\ UNCHANGED <<dma, todo, memory>>
    BY <1>0, <1>5 DEF TakeIrq, DriverState
  <2>3. /\ ReadUnderWay(dma, fdc, memory) => ReadUnderWay(dma', fdc', memory')
        /\ ReadDone(dma, fdc, memory) => ReadDone(dma', fdc', memory')
        /\ ReadPrepared(dma, todo, memory) => ReadPrepared(dma', todo', memory')
    BY <2>1, <2>2 DEF ReadUnderWay, ReadDone, ReadPrepared
  <2> QED BY <1>b, <2>1, <2>2, <2>3, DataPrimed
<1>6. CASE IrqSeen
  <2>1. /\ driver.at = "wait" /\ driver.irqSeen /\ UNCHANGED <<dma, fdc, todo, memory>>
        /\ driver'.at = (IF driver.op = "recalibrate" THEN "sense" ELSE "results")
        /\ driver'.op = driver.op
    BY <1>0, <1>6 DEF IrqSeen, At, Moves, DriverState
  <2> QED BY <1>a, <1>b, <2>1, DataPrimed
<1>7. CASE ReadResult
  <2>1. /\ driver.at = "results" /\ fdc.phase = "result" /\ fdc' = ReadByte(fdc)
        /\ UNCHANGED <<dma, todo>>
    BY <1>7 DEF ReadResult, At
  <2>2. CASE fdc'.phase = "idle"
    <3>1. driver' = Ready /\ memory' = Blank
      BY <1>7, <2>2 DEF ReadResult
    <3> QED BY <2>2, <3>1, DataPrimed DEF Ready
  <2>3. CASE fdc'.phase = "result" /\ fdc'.status = fdc.status /\ fdc'.from = fdc.from
    <3>1. UNCHANGED <<driver, memory>>
      BY <1>7, <2>3 DEF ReadResult
    <3>2. ReadDone(dma, fdc, memory) => ReadDone(dma', fdc', memory')
      BY <2>1, <2>3, <3>1 DEF ReadDone
    <3> QED BY <1>b, <2>1, <2>3, <3>1, <3>2, DataPrimed
  <2> QED BY <1>0, <2>1, <2>2, <2>3, ReadResultKeeps
<1>8. CASE BeginReset
  <2>1. driver.at = "ready" /\ driver'.at = "reset"
    BY <1>0, <1>8 DEF BeginReset, Moves, DriverState
  <2>2. fdc'.phase = "idle"
    BY <1>0, <1>8, IdleType DEF BeginReset, AssertReset, FdcState
  <2> QED BY <2>1, <2>2, DataPrimed
<1>9. CASE EndReset
  <2>1. driver.at = "reset" /\ driver' = Ready /\ memory' = Blank /\ fdc'.phase = fdc.phase
    BY <1>0, <1>9 DEF EndReset, ReleaseReset, At, FdcState
  <2>2. fdc'.phase # "dmaExecution"
    BY <1>a, <2>1
  <2> QED BY <2>1, <2>2, DataPrimed DEF Ready
<1>10. CASE Housekeeping
  <2>1. driver.at = "ready" /\ UNCHANGED <<fdc, todo, memory, driver>>
    BY <1>10 DEF Housekeeping, At
  <2>2. fdc'.phase # "dmaExecution"
    BY <1>a, <2>1
  <2> QED BY <1>b, <2>1, <2>2, DataPrimed
<1>11. CASE ChangeDisk
  <2>1. UNCHANGED <<dma, fdc, todo, memory, driver>>
    BY <1>11 DEF ChangeDisk
  <2> QED BY <1>b, <2>1, DataPrimed
<1>12. CASE Tick
  <2>1. UNCHANGED <<dma, fdc, memory, driver>>
    BY <1>12 DEF Tick
  <2>2. fdc.phase # "dmaExecution" => todo'[2] = 0
    <3>1. fdc.phase # "dmaExecution" => 2 \notin Active(dma)
      BY <1>a DEF Active
    <3> QED BY <1>0, <1>12, <3>1 DEF Tick
  <2>3. driver.at \in {"send", "params"} => fdc.phase # "dmaExecution"
    BY <1>a
  <2>4. todo'[2] = 0 /\ ReadPrepared(dma, todo, memory) => ReadPrepared(dma', todo', memory')
    BY <2>1 DEF ReadPrepared
  <2> QED BY <1>b, <2>1, <2>2, <2>3, <2>4, DataPrimed
<1>13. ASSUME NEW c \in Channels, BusCycle(c) PROVE DataInv'
  <2> DEFINE d == Cycle(dma, c)
             f == IF c = 2 /\ dma.ch[c].type = "write" THEN DmaRead(fdc) ELSE fdc
  <2>1. /\ dma' = Drained(d, f) /\ fdc' = TakeDreq(f) /\ UNCHANGED driver
        /\ todo' = [todo EXCEPT ![c] = IF c \in d.mask THEN 0 ELSE @ - 1]
        /\ memory' = IF c = 2 /\ dma.ch[c].type = "write" /\ DmaByte(fdc) # NoByte
                     THEN [memory EXCEPT ![dma.ch[c].addr] = DmaByte(fdc)] ELSE memory
        /\ todo[c] > 0
    BY <1>13 DEF BusCycle
  <2>2. d \in DmaState /\ f \in FdcState
    BY <1>0, CycleType, DmaReadType
  <2>3. /\ dma'.ch = d.ch /\ dma'.tc = d.tc
        /\ fdc'.phase = f.phase /\ fdc'.index = f.index /\ fdc'.from = f.from
        /\ fdc'.status = f.status
    <3> HIDE DEF d, f
    <3> QED BY <2>1, <2>2, DrainedKeeps, TakeDreqKeeps
  <2>4. /\ \A e \in Channels : e # c => d.ch[e] = dma.ch[e]
        /\ d.ch[c].base = dma.ch[c].base /\ d.ch[c].down = dma.ch[c].down
        /\ d.ch[c].type = dma.ch[c].type /\ dma.tc \subseteq d.tc
    BY <1>0, CycleKeeps
  <2>5. CASE fdc.phase # "dmaExecution"
    <3>1. f = fdc /\ memory' = memory
      BY <2>1, <2>5 DEF DmaRead, DmaByte
    <3>2. ReadDone(dma, fdc, memory) => ReadDone(dma', fdc', memory')
      <4> SUFFICES ASSUME 2 \in dma.tc, Stored(memory, dma.ch[2], SectorBytes, fdc.from)
                   PROVE  2 \in dma'.tc /\ Stored(memory', dma'.ch[2], SectorBytes, fdc'.from)
        BY DEF ReadDone
      <4> DEFINE old == dma.ch[2]  new == dma'.ch[2]
      <4>1. old.base = new.base /\ old.down = new.down
        BY <1>0, <2>3, <2>4
      <4>2. fdc'.from = fdc.from /\ 2 \in dma'.tc
        BY <2>3, <2>4, <3>1
      <4> HIDE DEF old, new
      <4>3. Stored(memory, old, SectorBytes, fdc.from)
        BY DEF old
      <4>4. Stored(memory, new, SectorBytes, fdc.from)
        BY <4>1, <4>3, StoredSame
      <4> QED BY <3>1, <4>2, <4>4 DEF new
    <3>3. ReadPrepared(dma, todo, memory) => ReadPrepared(dma', todo', memory')
      <4> SUFFICES ASSUME ReadPrepared(dma, todo, memory)
                   PROVE  ReadPrepared(dma', todo', memory')
        OBVIOUS
      <4>1. c # 2 /\ todo[2] = 0
        BY <2>1 DEF ReadPrepared
      <4>2. todo'[2] = 0 /\ dma'.ch[2] = dma.ch[2]
        <5>1. todo \in [Channels -> 0..MaxBurst]
          BY DEF TypeInv, TypeOK
        <5> HIDE DEF d
        <5> QED BY <1>0, <2>1, <2>3, <2>4, <4>1, <5>1
      <4> QED BY <3>1, <4>2 DEF ReadPrepared
    <3>4. fdc'.phase = fdc.phase /\ fdc'.status = fdc.status
      BY <2>3, <3>1
    <3> HIDE DEF d, f
    <3> QED BY <1>b, <2>1, <2>5, <3>1, <3>2, <3>3, <3>4, DataPrimed
  <2>6. CASE fdc.phase = "dmaExecution"
    <3>1. driver.at = "wait" /\ driver.op = "readDma" /\ ReadUnderWay(dma, fdc, memory)
      BY <1>a, <1>b, <2>6
    <3>2. CASE c # 2
      <4>1. f = fdc /\ memory' = memory
        BY <2>1, <3>2
      <4>2. dma'.ch[2] = dma.ch[2] /\ fdc'.phase = fdc.phase /\ fdc'.index = fdc.index
            /\ fdc'.from = fdc.from
        BY <1>0, <2>3, <2>4, <3>2, <4>1
      <4>3. ReadUnderWay(dma', fdc', memory')
        BY <3>1, <4>1, <4>2 DEF ReadUnderWay
      <4> HIDE DEF d, f
      <4> QED BY <2>1, <2>6, <3>1, <4>2, <4>3, DataPrimed
    <3>3. CASE c = 2
      <4>1. dma.ch[2].type = "write" /\ DmaByte(fdc) # NoByte
        BY <1>0, <2>6, <3>1, DmaReadNext DEF ReadUnderWay
      <4>2. f = DmaRead(fdc) /\ memory' = [memory EXCEPT ![dma.ch[2].addr] = DmaByte(fdc)]
        BY <2>1, <3>3, <4>1
      <4>3. dma' \in DmaState /\ fdc' \in FdcState
        <5>1. PhaseFacts(f)
          BY <1>0, DmaReadType
        <5> HIDE DEF d, f
        <5> QED BY <2>1, <2>2, <5>1, DrainedType, TakeDreqType
      <4>4. /\ dma'.ch = Cycle(dma, 2).ch /\ dma'.tc = Cycle(dma, 2).tc
            /\ fdc'.phase = DmaRead(fdc).phase /\ fdc'.index = DmaRead(fdc).index
            /\ fdc'.from = DmaRead(fdc).from
        BY <2>3, <3>3, <4>2
      <4>5. /\ fdc'.phase = "dmaExecution" => ReadUnderWay(dma', fdc', memory')
            /\ fdc'.phase = "result" => ReadDone(dma', fdc', memory')
        BY <1>0, <2>6, <3>1, <4>2, <4>3, <4>4, ByteMoves
      <4> HIDE DEF d, f
      <4> QED BY <2>1, <3>1, <4>5, DataPrimed
    <3> QED BY <3>2, <3>3
  <2> QED BY <2>5, <2>6
<1>14. CASE UNCHANGED vars
  <2>1. UNCHANGED <<dma, fdc, todo, memory, driver>>
    BY <1>14 DEF vars
  <2> QED BY <1>b, <2>1, DataPrimed
<1> QED
  BY <1>1, <1>2, <1>3, <1>4, <1>5, <1>6, <1>7, <1>8, <1>9, <1>10, <1>11, <1>12, <1>13, <1>14
  DEF Next, Driver, Bus

\* What is stored is the whole sector, as the property spells it out.
LEMMA StoredSector ==
  ASSUME NEW m \in [Words -> Data \cup {NoByte}], NEW ch \in ChannelState, NEW from,
         Stored(m, ch, SectorBytes, from)
  PROVE  m = [a \in Words |->
                IF \E i \in 1..SectorBytes : Place(ch, i) = a
                THEN [disk |-> from,
                      at |-> CHOOSE i \in 1..SectorBytes : Place(ch, i) = a]
                ELSE NoByte]
<1> DEFINE place(a) == CHOOSE i \in 1..SectorBytes : Place(ch, i) = a
           Byte(a) == IF \E i \in 1..SectorBytes : Place(ch, i) = a
                      THEN [disk |-> from, at |-> place(a)] ELSE NoByte
<1>1. ASSUME NEW a \in Words PROVE m[a] = Byte(a)
  <2>1. CASE \E j \in 1..SectorBytes : Place(ch, j) = a /\ m[a] = [disk |-> from, at |-> j]
    <3>1. PICK j \in 1..SectorBytes : Place(ch, j) = a /\ m[a] = [disk |-> from, at |-> j]
      BY <2>1
    <3>2. place(a) \in 1..SectorBytes /\ Place(ch, place(a)) = a
      BY <3>1
    <3> HIDE DEF place
    <3>3. place(a) = j
      BY <3>1, <3>2, PlacesDiffer
    <3> QED BY <3>1, <3>3
  <2>2. CASE (\A j \in 1..SectorBytes : Place(ch, j) # a) /\ m[a] = NoByte
    BY <2>2
  <2> QED BY <2>1, <2>2 DEF Stored
<1> HIDE DEF Byte
<1>2. m = [a \in Words |-> Byte(a)]
  BY <1>1
<1> QED BY <1>2 DEF Byte

\* As long as the driver resets the controller between commands only, a DMA
\* read that reports success has put the whole sector into memory
\* (dma_read_u8, execute_dma_transfer and dma_bus_cycle): every byte once, at
\* its place up or down from the programmed address, wrapping at the end of
\* the page, all from the disk that was in the drive when the command was
\* given, and nothing anywhere else, for any radix, sector and burst length,
\* with or without auto-initialisation and other channels at work.
THEOREM SectorAlwaysDelivered ==
  ASSUME ResetWhen \subseteq {"ready"}
  PROVE  Spec => []SectorDelivered
<1>1. TypeInv /\ RequestInv /\ [Next]_vars => RequestInv'
  BY RequestStep
<1>2. TypeInv /\ RequestInv /\ DataInv /\ [Next]_vars => DataInv'
  BY DataStep
<1>3. TypeInv /\ DataInv => SectorDelivered
  <2> SUFFICES ASSUME TypeInv, DataInv, Delivered
               PROVE  /\ 2 \in dma.tc
                      /\ memory = [a \in Words |->
                           IF \E i \in 1..SectorBytes : Place(dma.ch[2], i) = a
                           THEN [disk |-> fdc.from,
                                 at |-> CHOOSE i \in 1..SectorBytes : Place(dma.ch[2], i) = a]
                           ELSE NoByte]
    BY DEF SectorDelivered
  <2>1. 2 \in dma.tc /\ Stored(memory, dma.ch[2], SectorBytes, fdc.from)
    BY DEF DataInv, Delivered, ReadDone
  <2>2. memory \in [Words -> Data \cup {NoByte}] /\ dma.ch[2] \in ChannelState
    BY FloppyAssumption DEF TypeInv, TypeOK, DmaState
  <2> QED BY <2>1, <2>2, StoredSector
<1> QED BY <1>1, <1>2, <1>3, RequestInit, DataInit, TypeInductive, PTL DEF Spec
=============================================================================
