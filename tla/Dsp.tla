-------------------------------- MODULE Dsp --------------------------------
(***************************************************************************)
(* The digital signal processor of the Sound Blaster                       *)
(* (core/src/devices/sound_blaster/dsp.rs), as operators on its state: the *)
(* command port, which collects a command and its parameters, the          *)
(* transfers the commands start, stop and resume, and what each byte that  *)
(* DMA moves does to the block in progress.                                *)
(*                                                                         *)
(* Commands that differ only in what is heard or answered share a name.    *)
(* Answers are counted, samples left out; registers that are only read     *)
(* back (speaker, test, time constant, ASP) are left out with them.        *)
(* Lengths are words, as the DMA controller counts them, and wrap.         *)
(***************************************************************************)
EXTENDS Dma, Sequences

Bytes == 0..(Radix - 1)

\* params_for_cmd, by name:
\*   play8 14 16, record8 24 28, blockSize 48, identify E2,
\*   play8x C0-C7, loop8 C8-CF, play16 B0-B7, loop16 B8-BF (DAC),
\*   adc those with bit 1, halt D0 D5, continue8 D4 45, continue16 47,
\*   resume16 D6, exitAuto D9 DA, irq8 F2, irq16 F3,
\*   echo E0 0F, query 03 20 83 D8 E8 FB FC, version E1, copyright E3,
\*   set0 D1 D3 and unknown, set1 04 10 40 E4, set2 05 0E 41 42
Params ==
  [play8 |-> 2, record8 |-> 2, blockSize |-> 2, identify |-> 1,
   play8x |-> 3, loop8 |-> 3, play16 |-> 3, loop16 |-> 3, adc |-> 3,
   halt |-> 0, continue8 |-> 0, continue16 |-> 0, resume16 |-> 0,
   exitAuto |-> 0, irq8 |-> 0, irq16 |-> 0,
   echo |-> 1, query |-> 0, version |-> 0, copyright |-> 0,
   set0 |-> 0, set1 |-> 1, set2 |-> 2]

DspCommands == DOMAIN Params

\* How many bytes a command puts into the output buffer.
Answers(c) == CASE c \in {"echo", "query"} -> 1
                [] c = "version"           -> 2
                [] c = "copyright"         -> 45
                [] OTHER                   -> 0

\* SoundBlasterDsp
DspState ==
  [resetting : BOOLEAN,               \* reset_seq
   cmd : DspCommands \cup {"none"}, params : Seq(Bytes),
   out : Nat,                         \* bytes in out_buf
   pending8 : BOOLEAN, pending16 : BOOLEAN,
   status8 : BOOLEAN, status16 : BOOLEAN,
   blockLen : Words, remaining : Words,
   active : BOOLEAN, wide : BOOLEAN, auto : BOOLEAN,
   dreq : {"none", "assert", "release"},
   e2 : BOOLEAN]

\* new, and hardware_reset
DspNew ==
  [resetting |-> FALSE, cmd |-> "none", params |-> <<>>, out |-> 0,
   pending8 |-> FALSE, pending16 |-> FALSE, status8 |-> FALSE, status16 |-> FALSE,
   blockLen |-> 0, remaining |-> 0, active |-> FALSE, wide |-> FALSE, auto |-> FALSE,
   dreq |-> "none", e2 |-> FALSE]

\* software_reset keeps the lengths, and answers with one byte.
SoftwareReset(d) ==
  [DspNew EXCEPT !.out = 1, !.dreq = "release",
                 !.blockLen = d.blockLen, !.remaining = d.remaining]

WriteReset(d, high) ==
  IF high THEN [d EXCEPT !.resetting = TRUE]
  ELSE IF d.resetting THEN SoftwareReset(d) ELSE d

-----------------------------------------------------------------------------
(* Commands. *)

\* Mutant: the length of the longest block is kept in full.
LengthInFull(lo, hi) == (hi * Radix) + lo + 1

\* u16::from_le_bytes(..).wrapping_add(1)
Length(lo, hi) == ((hi * Radix) + lo + 1) % (Radix * Radix)

Start(d, length) ==
  [d EXCEPT !.blockLen = length, !.remaining = length,
            !.active = TRUE, !.dreq = "assert"]

\* Mutant: a transfer resumed begins its block anew.
ResumeAnew(d) ==
  [d EXCEPT !.remaining = d.blockLen, !.active = TRUE, !.dreq = "assert"]

\* Resume after a pause, or restart a block that is complete.
Resume(d) ==
  [d EXCEPT !.remaining = IF @ = 0 THEN d.blockLen ELSE @,
            !.active = TRUE, !.dreq = "assert"]

\* execute_command
Execute(d, c, p) ==
  CASE c = "play8"   -> Start(d, Length(p[1], p[2]))
    [] c = "record8" -> [Start(d, Length(p[1], p[2])) EXCEPT !.wide = FALSE]
    [] c \in {"play8x", "loop8", "play16", "loop16"} ->
         [Start(d, Length(p[2], p[3])) EXCEPT !.wide = c \in {"play16", "loop16"},
                                              !.auto = c \in {"loop8", "loop16"}]
    [] c = "blockSize" -> [d EXCEPT !.blockLen = Length(p[1], p[2])]
    [] c = "halt"      -> [d EXCEPT !.active = FALSE]
    [] c = "continue8"  /\ ~d.wide /\ d.blockLen > 0 -> Resume(d)
    [] c = "continue16" /\ d.wide /\ d.blockLen > 0  -> Resume(d)
    [] c = "resume16"   /\ d.wide /\ d.remaining > 0 -> Resume(d)
    [] c = "exitAuto"  -> [d EXCEPT !.auto = FALSE]
    [] c = "identify"  -> [d EXCEPT !.e2 = TRUE, !.dreq = "assert"]
    [] c = "irq8"      -> [d EXCEPT !.pending8 = TRUE]
    [] c = "irq16"     -> [d EXCEPT !.pending16 = TRUE]
    [] OTHER           -> [d EXCEPT !.out = @ + Answers(c)]

\* write_command_port: a byte is a command, or the next parameter of the
\* command that is being collected.
WriteCommand(d, c) ==
  IF Params[c] = 0 THEN Execute(d, c, <<>>) ELSE [d EXCEPT !.cmd = c, !.params = <<>>]

WriteParam(d, byte) ==
  LET p == Append(d.params, byte)
  IN  IF Len(p) = Params[d.cmd]
      THEN [Execute(d, d.cmd, p) EXCEPT !.cmd = "none", !.params = <<>>]
      ELSE [d EXCEPT !.params = p]

-----------------------------------------------------------------------------
(* The other ports, and DMA. *)

ReadData(d) == [d EXCEPT !.out = IF @ = 0 THEN 0 ELSE @ - 1]

\* read_status and read_ack16 acknowledge an interrupt.
ReadStatus(d) == [d EXCEPT !.pending8 = FALSE, !.status8 = FALSE]
ReadAck16(d)  == [d EXCEPT !.pending16 = FALSE, !.status16 = FALSE]

DspInterrupts(d) == d.pending8 \/ d.pending16

\* take_pending_irq
TakeDspIrq(d) ==
  IF d.pending8 THEN [d EXCEPT !.pending8 = FALSE] ELSE [d EXCEPT !.pending16 = FALSE]

\* Mutant: the end of a 16-bit block is shown by the mixer only.
ReceiveQuietly(d) ==
  LET left == (d.remaining + (Radix * Radix) - 1) % (Radix * Radix)
      done == d.active /\ left = 0
  IN  IF ~d.active THEN d
      ELSE [d EXCEPT
              !.remaining = IF done /\ d.auto THEN d.blockLen ELSE left,
              !.active    = ~done \/ d.auto,
              !.dreq      = IF done /\ ~d.auto THEN "release" ELSE @,
              !.pending8  = @ \/ (done /\ ~d.wide), !.status8  = @ \/ (done /\ ~d.wide),
              !.status16  = @ \/ (done /\ d.wide)]

\* dma_receive_byte: the last byte of a block interrupts, and ends the transfer
\* or begins the block again.  The count wraps, as in a release build.
ReceiveByte(d) ==
  LET left == (d.remaining + (Radix * Radix) - 1) % (Radix * Radix)
      done == d.active /\ left = 0
  IN  IF ~d.active THEN d
      ELSE [d EXCEPT
              !.remaining = IF done /\ d.auto THEN d.blockLen ELSE left,
              !.active    = ~done \/ d.auto,
              !.dreq      = IF done /\ ~d.auto THEN "release" ELSE @,
              !.pending8  = @ \/ (done /\ ~d.wide), !.status8  = @ \/ (done /\ ~d.wide),
              !.pending16 = @ \/ (done /\ d.wide),  !.status16 = @ \/ (done /\ d.wide)]

\* dma_read_u8 of the card: the identification byte first, otherwise a sample
\* of silence is recorded.
SupplyByte(d) ==
  IF d.e2 THEN [d EXCEPT !.e2 = FALSE, !.pending8 = TRUE, !.status8 = TRUE,
                         !.dreq = "release"]
  ELSE ReceiveByte(d)

\* take_dreq_request
TakeDspDreq(d) == [d EXCEPT !.dreq = "none"]
=============================================================================
