---------------------------- MODULE SoundBlaster ----------------------------
(***************************************************************************)
(* The Sound Blaster at work: its DSP (Dsp) moves samples through channel  *)
(* 1 of either DMA controller (Dma; global channels 1 and 5), its CD-ROM   *)
(* interface (CdInterface) shares the interrupt line with the DSP          *)
(* (devices/sound_blaster/mod.rs), and the bus ties them together          *)
(* (core/src/bus.rs).  On the other side of the ports are the program: a   *)
(* sound driver and a CD driver it calls in turn, their common interrupt   *)
(* handler, and the host, which changes the disc.  A block may be playing  *)
(* while the CD driver is at work.                                         *)
(*                                                                         *)
(* DMA works in ticks, batches of bus cycles, as in FloppyTransfer.  The   *)
(* bus passes a change of the card's request line on after a port write,   *)
(* and only then.                                                          *)
(***************************************************************************)
EXTENDS Dsp, CdInterface

CONSTANTS
  Programs,   \* each the DSP commands it plays with and the CD commands it uses
  Lens,       \* lengths of blocks
  Counts,     \* sectors of one read
  MaxBurst    \* bound: bus cycles in one tick

Singles == {"play8", "record8", "play8x", "play16"}
Loops   == {"loop8", "loop16"}
Wides   == {"play16", "loop16"}
Plays   == Singles \cup Loops \cup {"continue8"}

ASSUME SoundAssumption ==
  /\ Programs \subseteq [play : SUBSET Plays, read : SUBSET CdCommands]
  /\ Lens \subseteq 1..(Radix * Radix)
  /\ Counts \subseteq 1..MaxCount
  /\ MaxBurst \in Nat \ {0}
  /\ Channels = {1} /\ ~HwRefresh

VARIABLES
  program,    \* the program that is running
  dsp, cd,
  dma,        \* the two DMA controllers
  todo,       \* bus cycles left of the current tick, per controller
  handler,    \* where the interrupt handler is; line 5 is in service with it
  sound,      \* the sound driver
  reader      \* the CD driver

vars == <<program, dsp, cd, dma, todo, handler, sound, reader>>

SoundState ==
  [at : {"off", "reset", "fresh", "ready", "send", "wait", "paused", "unmask"},
   op : Plays \cup {"none", "identify"},
   len : 0..(Radix * Radix),
   cmd : DspCommands \cup {"none"},        \* the command to be written to the DSP
   params : Seq(Bytes),                    \* its parameters still to be written
   next : {"wait", "paused", "unmask"},    \* where to go then
   last : BOOLEAN,                         \* the loop has been told to end
   told : BOOLEAN]                         \* the handler has seen the interrupt

ReaderState ==
  [at : {"ready", "command", "params", "await", "result", "data", "finish"},
   op : CdCommands, lba : SectorNumbers, count : 0..MaxCount,
   got : 0..(MaxCount * SectorBytes),      \* bytes of data read so far
   wrong : BOOLEAN,                        \* one within reach was not the byte asked for
   told : BOOLEAN,
   changed : BOOLEAN]                      \* the host has changed the disc

\* The type of every variable.
TypeOK ==
  /\ program \in Programs
  /\ dsp \in DspState /\ cd \in CdState
  /\ dma \in [1..2 -> DmaState]
  /\ todo \in [1..2 -> 0..MaxBurst]
  /\ handler \in {"none", "source", "ack8", "ack16", "ackBoth"}
  /\ sound \in SoundState
  /\ reader \in ReaderState

Idle == [at |-> "ready", op |-> "info", lba |-> 0, count |-> 0,
         got |-> 0, wrong |-> FALSE, told |-> FALSE, changed |-> FALSE]

Init ==
  /\ dsp = DspNew
  /\ cd \in {CdNew(disc) : disc \in Discs \cup {NoDisc}}
  /\ dma = [k \in 1..2 |-> DmaReset]
  /\ todo = [k \in 1..2 |-> 0]
  /\ handler = "none"
  /\ program \in Programs
  /\ sound = [at |-> "off", op |-> "none", len |-> 0, cmd |-> "none",
              params |-> <<>>, next |-> "wait", last |-> FALSE, told |-> FALSE]
  /\ reader = Idle

Quiet == todo = [k \in 1..2 |-> 0]

-----------------------------------------------------------------------------
(* The bus. *)

\* The controller whose channel the DSP uses: global channel 1, or 5.
Side(wide) == IF wide THEN 2 ELSE 1

\* The bus passes a change of the DSP's request line on to the controllers.
Drained(d, m) ==
  IF d.dreq = "none" THEN m
  ELSE [m EXCEPT ![Side(d.wide)] = SetDreq(@, 1, d.dreq = "assert")]

\* A port write leaves the DSP as d and the controllers as m; then the bus
\* drains the request line (io_write_u8).
Written(d, m) ==
  /\ dsp' = TakeDspDreq(d)
  /\ dma' = Drained(d, m)

\* increment_cycle_count: a tick of n bus cycles begins.
Tick ==
  /\ Quiet /\ \E k \in 1..2 : Active(dma[k]) # {}
  /\ \E n \in 1..MaxBurst :
       todo' = [k \in 1..2 |-> IF Active(dma[k]) # {} THEN n ELSE 0]
  /\ UNCHANGED <<dsp, cd, dma, handler, sound, reader>>

\* One bus cycle: execute_dma_transfer has the card supply or take a byte.  It
\* does not pass on a change of the card's request line.
BusCycle(k) ==
  /\ todo[k] > 0 /\ (k = 2 => todo[1] = 0)
  /\ LET m == Cycle(dma[k], 1) IN
       /\ dma' = [dma EXCEPT ![k] = m]
       /\ dsp' = IF dma[k].ch[1].type = "write" THEN SupplyByte(dsp) ELSE ReceiveByte(dsp)
       /\ todo' = [todo EXCEPT ![k] = IF 1 \in m.mask THEN 0 ELSE @ - 1]
  /\ UNCHANGED <<cd, handler, sound, reader>>

Bus == Tick \/ \E k \in 1..2 : BusCycle(k)

-----------------------------------------------------------------------------
(* The interrupt line and its handler. *)

\* CdromController::take_pending_irq: the DSP is asked first, then the CD-ROM.
TakeIrq ==
  /\ Quiet /\ handler = "none" /\ sound.at # "send"
  /\ \/ /\ DspInterrupts(dsp)
        /\ dsp' = TakeDspIrq(dsp) /\ UNCHANGED cd
     \/ /\ ~DspInterrupts(dsp) /\ cd.pendingIrq
        /\ cd' = TakeCdIrq(cd) /\ UNCHANGED dsp
  /\ handler' = "source"
  /\ UNCHANGED <<dma, todo, sound, reader>>

\* The handler looks at the CD-ROM's status on base+2, tells the CD driver, and
\* ends the interrupt.  The DSP has been left as d.
Chain(d) ==
  /\ reader' = [reader EXCEPT !.told = @ \/ ResultAvailable(cd)]
  /\ handler' = "none"
  /\ Written(d, dma)

\* First it reads mixer register 82h: nothing from the DSP ...
Source ==
  /\ Quiet /\ handler = "source"
  /\ \/ /\ dsp.status8 \/ dsp.status16
        /\ handler' = CASE dsp.status8 /\ dsp.status16 -> "ackBoth"
                        [] ~dsp.status16              -> "ack8"
                        [] ~dsp.status8               -> "ack16"
        /\ UNCHANGED <<dsp, dma, reader>>
     \/ ~dsp.status8 /\ ~dsp.status16 /\ Chain(dsp)
  /\ UNCHANGED <<cd, todo, sound>>

\* ... or something, which it acknowledges, telling the sound driver.
Acknowledge ==
  /\ Quiet /\ handler \in {"ack8", "ack16", "ackBoth"}
  /\ Chain(CASE handler = "ack8"    -> ReadStatus(dsp)
             [] handler = "ack16"   -> ReadAck16(dsp)
             [] handler = "ackBoth" -> ReadAck16(ReadStatus(dsp)))
  /\ sound' = [sound EXCEPT !.told = TRUE]
  /\ UNCHANGED <<cd, todo>>

Handler == Source \/ Acknowledge

-----------------------------------------------------------------------------
(* The sound driver. *)

\* The program is in one driver at a time.
SoundAt(loc) == Quiet /\ handler = "none" /\ reader.at = "ready" /\ sound.at = loc
SoundTo(loc) == sound' = [sound EXCEPT !.at = loc]

MaskAll(m) == [k \in 1..2 |-> WriteMask(m[k], 1, TRUE)]

\* It resets the DSP when it starts, and later to abandon what it is playing;
\* not in the middle of a 16-bit transfer, whose request would stand for ever
\* (software_reset forgets the channel before the bus asks for it).
ResetDsp ==
  /\ \/ SoundAt("off") \/ SoundAt("ready") \/ SoundAt("wait") \/ SoundAt("paused")
  /\ sound.at \in {"wait", "paused"} => ~dsp.wide
  /\ Written(WriteReset(WriteReset(dsp, TRUE), FALSE), MaskAll(Drained(dsp, dma)))
  /\ sound' = [sound EXCEPT !.at = "reset", !.op = "none", !.len = 0,
                            !.last = FALSE, !.told = FALSE]
  /\ UNCHANGED <<cd, todo, handler, reader>>

\* The DSP has put its answer into the output buffer.
AwaitReset ==
  /\ SoundAt("reset") /\ dsp.out > 0
  /\ dsp' = ReadData(ReadStatus(dsp))
  /\ SoundTo("fresh")
  /\ UNCHANGED <<cd, dma, todo, handler, reader>>

LengthBytes(len) == <<(len - 1) % Radix, (len - 1) \div Radix>>

Operands(op, len) ==
  CASE op \in {"play8", "record8"}                    -> LengthBytes(len)
    [] op \in {"play8x", "loop8", "play16", "loop16"} -> <<0>> \o LengthBytes(len)
    [] op = "identify"                                -> <<0>>
    [] OTHER                                          -> <<>>

\* The driver s is about to send a command and then goes to next.
Sends(s, cmd, len, next) ==
  [s EXCEPT !.at = "send", !.cmd = cmd, !.params = Operands(cmd, len), !.next = next]

\* Before anything else the driver may look for its DMA channel: the card
\* writes one byte to memory and interrupts.
Identify ==
  /\ SoundAt("fresh")
  /\ Written(dsp, [dma EXCEPT ![1] = Program(@, 1, 0, 0, "write", FALSE, FALSE)])
  /\ sound' = [Sends(sound, "identify", 1, "wait") EXCEPT !.op = "identify", !.len = 1]
  /\ UNCHANGED <<cd, todo, handler, reader>>

\* Start a block, or a loop over a buffer of two blocks: the DMA channel first,
\* then the command.  A block of the length of the one before may be begun by
\* "continue".
Play ==
  /\ SoundAt("fresh") \/ SoundAt("ready")
  /\ \E op \in program.play, len \in Lens :
       LET size == IF op \in Loops THEN 2 * len ELSE len
           k    == Side(op \in Wides)
           type == IF op = "record8" THEN "write" ELSE "read"
       IN  /\ size <= Radix * Radix
           /\ op = "continue8" => sound.len = len /\ len < Radix * Radix /\ sound.op # "identify"
           /\ Written(dsp, [dma EXCEPT ![k] =
                              Program(@, 1, 0, size - 1, type, FALSE, op \in Loops)])
           /\ sound' = [Sends(sound, op, len, "wait") EXCEPT
                          !.op = op, !.len = len, !.last = FALSE, !.told = FALSE]
  /\ UNCHANGED <<cd, todo, handler, reader>>

\* One byte to the DSP's command port, interrupts being disabled.
SendByte ==
  /\ SoundAt("send")
  /\ LET rest == IF sound.cmd # "none" THEN sound.params ELSE Tail(sound.params)
         sent == [sound EXCEPT !.cmd = "none", !.params = rest]
     IN  /\ Written(IF sound.cmd # "none" THEN WriteCommand(dsp, sound.cmd)
                    ELSE WriteParam(dsp, Head(sound.params)), dma)
         /\ sound' = IF rest = <<>> THEN [sent EXCEPT !.at = sound.next, !.next = "wait"]
                     ELSE sent
  /\ UNCHANGED <<cd, todo, handler, reader>>

\* The handler has told of a block.  A single block, or the last one of a loop,
\* is over; otherwise the driver waits for the next.
Told ==
  /\ SoundAt("wait") /\ sound.told
  /\ \/ /\ sound.op \notin Loops \/ sound.last
        /\ Written(dsp, MaskAll(dma))
        /\ sound' = [sound EXCEPT !.at = "ready", !.told = FALSE, !.last = FALSE]
     \/ /\ sound.op \in Loops /\ ~sound.last
        /\ sound' = [sound EXCEPT !.told = FALSE]
        /\ UNCHANGED <<dsp, dma>>
  /\ UNCHANGED <<cd, todo, handler, reader>>

\* The loop shall end with the block in progress: with the channel masked the
\* driver sees that no interrupt of an earlier block is outstanding, says so to
\* the DSP, and lets the channel run.
EndLoop ==
  /\ SoundAt("wait") /\ sound.op \in Loops /\ ~sound.last /\ ~sound.told
  /\ ~dsp.status8 /\ ~dsp.status16
  /\ Written(dsp, MaskAll(dma))
  /\ sound' = [Sends(sound, "exitAuto", 0, "unmask") EXCEPT !.last = TRUE]
  /\ UNCHANGED <<cd, todo, handler, reader>>

\* Pause: the driver masks its channel, sees that the transfer is not complete,
\* and halts the DSP.  A block of 64K cannot be resumed (its length is kept as
\* 0), nor can a loop that is ending be told from one that has ended.
Pause ==
  /\ SoundAt("wait") /\ ~sound.told /\ ~sound.last
  /\ sound.op # "identify" /\ sound.len < Radix * Radix
  /\ sound.op \notin Loops => 1 \notin dma[Side(sound.op \in Wides)].mask
  /\ Written(dsp, MaskAll(dma))
  /\ sound' = Sends(sound, "halt", 0, "paused")
  /\ UNCHANGED <<cd, todo, handler, reader>>

\* The channel is unmasked only after the DSP has been told to continue.
Continue ==
  /\ SoundAt("paused")
  /\ \E c \in IF sound.op \in Wides THEN {"continue16", "resume16"} ELSE {"continue8"} :
       sound' = Sends(sound, c, 0, "unmask")
  /\ UNCHANGED <<dsp, cd, dma, todo, handler, reader>>

Unmask ==
  /\ SoundAt("unmask")
  /\ Written(dsp, [dma EXCEPT ![Side(sound.op \in Wides)] = WriteMask(@, 1, FALSE)])
  /\ SoundTo("wait")
  /\ UNCHANGED <<cd, todo, handler, reader>>

\* What the driver does without being asked to.
Sound == AwaitReset \/ SendByte \/ Told \/ Continue \/ Unmask

-----------------------------------------------------------------------------
(* The CD driver. *)

ReaderAt(loc) == Quiet /\ handler = "none" /\ reader.at = loc
ReaderTo(loc) == reader' = [reader EXCEPT !.at = loc]

\* Any write to a port lets the bus drain the sound card.
CdWritten(c) == cd' = c /\ Written(dsp, dma)

\* The CD driver is called by itself, or while a loop is playing.
BeginCd ==
  /\ ReaderAt("ready")
  /\ \/ sound.at = "off"
     \/ sound.at = "wait" /\ sound.op \in Loops /\ ~sound.last
  /\ \E op \in program.read, lba \in Sectors, count \in Counts :
       reader' = [Idle EXCEPT !.at = "command", !.op = op, !.lba = lba, !.count = count]
  /\ UNCHANGED <<dsp, cd, dma, todo, handler, sound>>

\* The command goes to base+0 and its parameters to base+1, which ignores them
\* when none are expected.
SendCd ==
  /\ \/ /\ ReaderAt("command")
        /\ CdWritten(WriteCdCommand(cd, reader.op))
        /\ ReaderTo(IF reader.op \in TakesParams THEN "params" ELSE "await")
     \/ /\ ReaderAt("params")
        /\ CdWritten(WriteCdParams(cd, reader.lba, reader.count))
        /\ ReaderTo("await")
  /\ UNCHANGED <<todo, handler, sound>>

\* It waits for the interrupt; one kind of read has none and is polled for.
Await ==
  /\ ReaderAt("await")
  /\ \/ reader.told /\ (reader.op = "readBcd" => cd.error) /\ ReaderTo("result")
     \/ reader.op = "readBcd" /\ ResultAvailable(cd) /\ ~cd.error /\ ReaderTo("data")
  /\ UNCHANGED <<dsp, cd, dma, todo, handler, sound>>

\* The status says that the command has been lost: the driver resets the drive.
GiveUp ==
  /\ ReaderAt("await") \/ ReaderAt("result") \/ ReaderAt("finish")
  /\ ~ResultAvailable(cd) /\ ~Busy(cd)
  /\ reader.at = "await" /\ reader.told => reader.op = "readBcd"
  /\ reader.at = "finish" => reader.op = "readBcd" /\ ~Base1Flag(cd)
  /\ CdWritten(CdReset(cd))
  /\ reader' = Idle
  /\ UNCHANGED <<todo, handler, sound>>

\* The result, byte by byte; a read that succeeded goes on to its data.
ReadResult ==
  /\ ReaderAt("result") /\ ResultAvailable(cd)
  /\ cd' = ReadBase0(cd, TRUE)
  /\ reader' = IF reader.op = "read" /\ ~cd.error THEN [reader EXCEPT !.at = "data"]
               ELSE IF cd'.state = "idle" THEN Idle ELSE reader
  /\ UNCHANGED <<dsp, dma, todo, handler, sound>>

\* The byte that comes next when a read goes well.
Wanted ==
  [sector |-> [disc |-> cd.disc, lba |-> reader.lba + (reader.got \div SectorBytes)],
   at |-> (reader.got % SectorBytes) + 1]

\* How many bytes of data can be had: a read with an interrupt ends when its
\* last sector is loaded, and only the first byte of that sector is returned.
Reachable == IF reader.op = "read" THEN ((reader.count - 1) * SectorBytes) + 1
             ELSE reader.count * SectorBytes

\* The data, as many bytes as were asked for, without a look at the status.
ReadSectorByte ==
  /\ ReaderAt("data")
  /\ \E readable \in BOOLEAN :
       LET byte == IF reader.op = "read" THEN Base1Byte(cd, readable)
                   ELSE Base0Byte(cd, readable)
       IN  /\ cd' = IF reader.op = "read" THEN ReadBase1(cd, readable)
                    ELSE ReadBase0(cd, readable)
           /\ reader' = [reader EXCEPT !.got = @ + 1, !.wrong = @ \/ (reader.got < Reachable /\ byte # Wanted),
                           !.at = IF reader.got + 1 = reader.count * SectorBytes
                                  THEN "finish" ELSE "data"]
  /\ UNCHANGED <<dsp, dma, todo, handler, sound>>

\* The end is confirmed on base+1.
Finish ==
  /\ ReaderAt("finish")
  /\ reader.op = "readBcd" => Base1Flag(cd)
  /\ cd' = IF reader.op = "readBcd" THEN ReadBase1(cd, TRUE) ELSE cd
  /\ reader' = Idle
  /\ UNCHANGED <<dsp, dma, todo, handler, sound>>

Reader == SendCd \/ Await \/ GiveUp \/ ReadResult \/ ReadSectorByte \/ Finish

\* Computer::load_cdrom_disc and eject_cdrom_disc: the host, at most once in
\* the course of a command.
ChangeDisc ==
  /\ Quiet /\ reader.at # "ready" /\ ~reader.changed
  /\ \/ \E disc \in Discs : cd' = LoadDisc(cd, disc)
     \/ cd.disc # NoDisc /\ cd' = EjectDisc(cd)
  /\ reader' = [reader EXCEPT !.changed = TRUE]
  /\ UNCHANGED <<dsp, dma, todo, handler, sound>>

-----------------------------------------------------------------------------

Next ==
  /\ \/ Bus \/ TakeIrq \/ Handler
     \/ ResetDsp \/ Identify \/ Play \/ EndLoop \/ Pause \/ Sound
     \/ BeginCd \/ Reader \/ ChangeDisc
  /\ UNCHANGED program

Spec == Init /\ [][Next]_vars

run == <<dsp, cd, dma, todo, handler, sound, reader>>

\* The emulator keeps executing: time passes, interrupts are taken when they
\* can be, and the drivers, once they have begun something, run on.
Fairness ==
  /\ WF_run(Bus) /\ SF_run(TakeIrq) /\ SF_run(Handler)
  /\ SF_run(Sound) /\ SF_run(Reader)

FairSpec == Spec /\ Fairness

-----------------------------------------------------------------------------
(* Properties. *)

\* While the DSP is playing or recording, the DMA channel and the DSP agree on
\* how much of the block is left: whatever the bursts, the pauses and the
\* blocks before, the interrupt comes exactly when DMA is at a block's end, the
\* moment at which the driver may refill the block just played.
InStep ==
  dsp.active =>
    LET ch == dma[Side(dsp.wide)].ch[1]
    IN  (ch.count + 1) % sound.len = dsp.remaining % sound.len

\* A read of the CD-ROM that reports success has delivered every byte of every
\* sector asked for, in order and from one disc, unless the host has changed
\* the disc meanwhile.  Of a read with an interrupt that is every byte up to
\* the first of its last sector: the code lets no program have the others.
SectorIntact ==
  reader.at = "finish" /\ ~reader.changed /\ ~cd.error => ~reader.wrong

\* Neither driver waits in vain on the line they share: every block that is
\* started, single or in a loop, is told of or paused, and every CD command
\* that has been sent comes to its end.
NobodyWaits ==
  /\ (sound.at = "wait" /\ ~sound.told) ~> (sound.at # "wait" \/ sound.told)
  /\ (reader.at = "command") ~> (reader.at = "ready")
=============================================================================
