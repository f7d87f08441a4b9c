----------------------------- MODULE CdInterface -----------------------------
(***************************************************************************)
(* The CD-ROM interface of the Sound Blaster                               *)
(* (core/src/devices/sound_blaster/cdrom.rs), as operators on its state.   *)
(* A byte of a sector is told by the disc, the sector and its place;       *)
(* results are counted, and a byte that is not sector data is NoByte.      *)
(***************************************************************************)
EXTENDS Naturals

CONSTANTS
  Discs,        \* the discs the host may insert
  NoDisc,
  NoByte,
  Sectors,      \* sector numbers programs read from
  MaxCount,     \* bound: sectors of one read command
  SectorBytes   \* 2048 in the source

ASSUME CdAssumption ==
  /\ NoDisc \notin Discs
  /\ Sectors \subseteq Nat
  /\ MaxCount \in Nat /\ SectorBytes \in Nat \ {0}

\* The commands, by name: info (00 01 05 0C 0D 10 81 83 88 8B), mode 09,
\* discInfo 12, toc 11, seek 0A, read 0B, readBcd 02, sleep 84, bad (any other)
CdCommands == {"info", "mode", "discInfo", "toc", "seek", "read", "readBcd", "sleep", "bad"}

\* params_for_command: those that take parameters, which are written together.
TakesParams == {"mode", "toc", "seek", "read", "readBcd", "sleep"}

NeedDisc == {"discInfo", "toc", "seek", "read", "readBcd"}

SectorNumbers == {s + i : s \in Sectors \cup {0}, i \in 0..MaxCount}

\* What the sector buffer may hold.
Buffered == [disc : Discs \cup {NoDisc}, lba : SectorNumbers]

\* SoundBlasterCdromInner
CdState ==
  [disc : Discs \cup {NoDisc}, doorOpen : BOOLEAN,
   state : {"idle", "params", "result", "stream"},
   command : CdCommands,
   result : 0..2,                           \* bytes in result_buf
   lba : SectorNumbers, remaining : 0..MaxCount,
   pos : 0..SectorBytes,                    \* read_sector_pos
   buffer : Buffered,
   error : BOOLEAN, pendingIrq : BOOLEAN, attention : BOOLEAN,
   viaBase0 : BOOLEAN]

CdNew(disc) ==
  [disc |-> disc, doorOpen |-> FALSE, state |-> "idle", command |-> "info",
   result |-> 0, lba |-> 0, remaining |-> 0, pos |-> 0,
   buffer |-> [disc |-> NoDisc, lba |-> 0], error |-> FALSE, pendingIrq |-> FALSE,
   attention |-> disc # NoDisc, viaBase0 |-> FALSE]

\* The bits of the status byte.
ResultAvailable(c) == c.state \in {"result", "stream"}
Busy(c)            == c.state = "params"

\* Results: n bytes to read, with an interrupt.
Result(c, n) == [c EXCEPT !.result = n, !.state = "result", !.pendingIrq = TRUE]

\* Mutant: a command that fails does not interrupt.
FailQuietly(c) == [c EXCEPT !.result = 1, !.state = "result", !.error = TRUE]

Fail(c) == [Result(c, 1) EXCEPT !.error = TRUE]

\* The interface is about to stream count sectors from lba.
Streams(c, lba, count) ==
  [c EXCEPT !.lba = lba, !.remaining = count, !.pos = SectorBytes]

\* execute_command: the parameters name a sector and a count.
CdExecute(d, cmd, lba, count) ==
  LET c == [d EXCEPT !.error = FALSE, !.result = 0]
      s == Streams(c, lba, count)
  IN  IF cmd \in NeedDisc /\ c.disc = NoDisc THEN Fail(c) ELSE
      CASE cmd \in {"info", "discInfo", "toc"} -> Result(c, 2)
        [] cmd = "mode" -> Result(c, 1)
        [] cmd = "seek" -> Result([c EXCEPT !.lba = lba], 1)
        [] cmd = "bad"  -> Fail(c)
        [] cmd = "read" ->
             [s EXCEPT !.result = 1, !.state = IF count > 0 THEN "stream" ELSE "result",
                       !.pendingIrq = @ \/ count = 0 \/ ~c.viaBase0]
        [] cmd = "readBcd" ->
             [s EXCEPT !.viaBase0 = TRUE, !.state = IF count > 0 THEN "stream" ELSE "idle"]
        [] cmd = "sleep" -> [c EXCEPT !.state = "idle"]

\* A command written to base+0 is ignored unless the interface is idle; the
\* parameters say lba and count, and are ignored unless they are expected.
WriteCdCommand(c, cmd) ==
  CASE c.state = "idle" /\ cmd \in TakesParams -> [c EXCEPT !.command = cmd, !.state = "params"]
    [] c.state = "idle" /\ cmd \notin TakesParams ->
         CdExecute([c EXCEPT !.command = cmd], cmd, 0, 0)
    [] OTHER -> c

WriteCdParams(c, lba, count) ==
  IF c.state = "params" THEN CdExecute(c, c.command, lba, count) ELSE c

-----------------------------------------------------------------------------
(* Reading. *)

\* The next byte needs a sector from the disc.
NeedsSector(c) == c.pos = SectorBytes

\* Mutant: the sector number does not advance.
LoadSame(c) ==
  [c EXCEPT !.buffer = [disc |-> c.disc, lba |-> c.lba],
            !.remaining = @ - 1, !.pos = 0,
            !.state = IF c.remaining = 1 /\ ~c.viaBase0 THEN "idle" ELSE @]

Load(c) ==
  [c EXCEPT !.buffer = [disc |-> c.disc, lba |-> c.lba], !.lba = @ + 1,
            !.remaining = @ - 1, !.pos = 0,
            !.state = IF c.remaining = 1 /\ ~c.viaBase0 THEN "idle" ELSE @]

\* stream_read_byte; readable says whether the disc can be read.  The sector
\* is over, the disc fails, or there is a byte.
StreamRead(c, readable) ==
  LET l == IF NeedsSector(c) THEN Load(c) ELSE c
  IN  IF NeedsSector(c) /\ c.remaining = 0 THEN [c EXCEPT !.state = "idle"]
      ELSE IF NeedsSector(c) /\ (c.disc = NoDisc \/ ~readable)
      THEN [c EXCEPT !.error = TRUE, !.state = "idle"]
      ELSE [l EXCEPT !.pos = @ + 1]

StreamByte(c, readable) ==
  LET l == IF NeedsSector(c) THEN Load(c) ELSE c
  IN  IF NeedsSector(c) /\ (c.remaining = 0 \/ c.disc = NoDisc \/ ~readable)
      THEN NoByte ELSE [sector |-> l.buffer, at |-> l.pos + 1]

\* A read of base+0: a result byte, sector data, or the status.
ReadBase0(c, readable) ==
  CASE c.state = "result" ->
         [c EXCEPT !.result = @ - 1, !.state = IF c.result = 1 THEN "idle" ELSE @]
    [] c.state = "stream" /\ c.result > 0 -> [c EXCEPT !.result = @ - 1]
    [] c.state = "stream" /\ c.result = 0 /\ c.viaBase0 -> StreamRead(c, readable)
    [] OTHER -> c

Base0Byte(c, readable) ==
  IF c.state = "stream" /\ c.result = 0 /\ c.viaBase0 THEN StreamByte(c, readable)
  ELSE NoByte

\* The end of a stream read through base+0.
StreamOver(c) ==
  c.state = "stream" /\ c.viaBase0 /\ NeedsSector(c) /\ c.remaining = 0

\* A read of base+1: sector data, or the flag that the data are over or that
\* the drive wants attention.
ReadBase1(c, readable) ==
  CASE c.state = "stream" /\ c.result = 0 /\ ~c.viaBase0 -> StreamRead(c, readable)
    [] StreamOver(c) -> [c EXCEPT !.state = "idle", !.viaBase0 = FALSE]
    [] c.state = "idle" -> [c EXCEPT !.attention = FALSE]
    [] OTHER -> c

Base1Byte(c, readable) ==
  IF c.state = "stream" /\ c.result = 0 /\ ~c.viaBase0 THEN StreamByte(c, readable)
  ELSE NoByte

Base1Flag(c) == StreamOver(c) \/ (c.state = "idle" /\ c.attention)

-----------------------------------------------------------------------------
(* Reset, the host, the interrupt. *)

CdReset(c) ==
  [c EXCEPT !.state = "idle", !.command = "info", !.result = 0,
            !.remaining = 0, !.pos = SectorBytes, !.error = FALSE,
            !.pendingIrq = FALSE, !.attention = FALSE, !.viaBase0 = FALSE]

LoadDisc(c, disc) ==
  [c EXCEPT !.disc = disc, !.doorOpen = FALSE, !.error = FALSE, !.state = "idle",
            !.result = 0, !.attention = TRUE]

EjectDisc(c) ==
  [c EXCEPT !.disc = NoDisc, !.doorOpen = TRUE, !.state = "idle",
            !.result = 0, !.remaining = 0, !.attention = FALSE]

TakeCdIrq(c) == [c EXCEPT !.pendingIrq = FALSE]
=============================================================================
