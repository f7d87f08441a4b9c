-------------------------------- MODULE Fdc --------------------------------
(***************************************************************************)
(* The floppy disk controller (core/src/devices/floppy_disk_controller.rs) *)
(* as operators on its state: the phases of a command, the bytes software  *)
(* exchanges with it through port 0x3F5, the DMA side, the request line    *)
(* and interrupt it leaves to the bus and the interrupt controller.        *)
(*                                                                         *)
(* A byte of sector data is its disk and its place in the sector.  Of the  *)
(* status bytes only what kind of result they report is kept.              *)
(***************************************************************************)
EXTENDS Naturals

CONSTANTS
  Disks, NoDisk,   \* disk images, and the empty drive
  Protected,       \* the disks that are write protected
  SectorBytes,     \* bytes one command transfers, a multiple of 512 in the source
  ParamBytes,      \* parameter bytes of READ, WRITE and VERIFY, 8 in the source
  ResultBytes      \* result bytes of those commands, 7 in the source

ASSUME FdcAssumption ==
  /\ NoDisk \notin Disks /\ Protected \subseteq Disks
  /\ SectorBytes \in Nat \ {0}
  /\ ParamBytes \in Nat \ {0}
  /\ ResultBytes \in Nat \ {0}

\* READ DATA without and with modifier flags, and the other commands.
Commands == {"readDma", "readPio", "verify", "write", "recalibrate", "sense"}

Phases == {"idle", "command", "execution", "dmaExecution", "writeExecution", "result"}

FdcState ==
  [phase : Phases,
   cmd : Commands,             \* the command of the phase
   left : 0..(ParamBytes + ResultBytes + 2),  \* parameter or result bytes to come
   index : 0..SectorBytes,     \* data bytes transferred
   from : Disks \cup {NoDisk}, \* the disk whose sectors have been read
   status : {"ok", "error", "notReady", "protected", "seekEnd", "invalid"},
   inReset : BOOLEAN,
   pendingInterrupt : BOOLEAN, \* a result for SENSE INTERRUPT STATUS
   pendingDreq : {"none", "assert", "release"},
   pendingIrq : BOOLEAN]

FdcNew ==
  [phase |-> "idle", cmd |-> "sense", left |-> 0, index |-> 0, from |-> NoDisk,
   status |-> "ok", inReset |-> FALSE, pendingInterrupt |-> FALSE,
   pendingDreq |-> "none", pendingIrq |-> FALSE]

Data == [disk : Disks, at : 1..SectorBytes]
NoByte == [disk |-> NoDisk, at |-> 0]

Params(cmd) == IF cmd = "recalibrate" THEN 1 ELSE ParamBytes

\* The MSR tells the driver that a byte may be written, or read.
WantsByte(f)  == ~f.inReset /\ f.phase \in {"idle", "command", "writeExecution"}
OffersByte(f) == ~f.inReset /\ f.phase \in {"execution", "result"}

\* The idle phase holds nothing of the last command.
Idle(f) ==
  [f EXCEPT !.phase = "idle", !.cmd = "sense", !.left = 0, !.index = 0,
            !.from = NoDisk, !.status = "ok"]

\* Enter the result phase.
Reports(f, status) ==
  [f EXCEPT !.phase = "result", !.left = ResultBytes, !.status = status]

\* A command byte, in the idle phase.
CommandByte(f, cmd) ==
  IF cmd = "sense"
  THEN [f EXCEPT !.phase = "result", !.cmd = cmd, !.left = 2,
                 !.status = IF f.pendingInterrupt THEN "seekEnd" ELSE "invalid",
                 !.pendingInterrupt = FALSE]
  ELSE [f EXCEPT !.phase = "command", !.cmd = cmd, !.left = Params(cmd), !.index = 0]

\* What execute_read_data and execute_verify find: the drive's disk, and
\* whether it has the sectors asked for.
ReadStatus(disk, found) ==
  CASE disk = NoDisk -> "notReady" [] disk # NoDisk /\ ~found -> "error"
    [] OTHER -> "ok"

\* Mutant: a read raises IRQ 6 when it starts.
ExecuteEarlyIrq(f, disk, found) ==
  LET status == ReadStatus(disk, found)
      failed == [Reports(f, status) EXCEPT !.pendingIrq = TRUE]
  IN
  CASE f.cmd = "verify" -> failed
    [] f.cmd = "write" -> [f EXCEPT !.phase = "writeExecution"]
    [] f.cmd = "recalibrate" ->
         [Idle(f) EXCEPT !.pendingInterrupt = TRUE, !.pendingIrq = TRUE]
    [] f.cmd \in {"readDma", "readPio"} /\ status # "ok" -> failed
    [] f.cmd = "readPio" /\ status = "ok" ->
         [f EXCEPT !.phase = "execution", !.from = disk, !.pendingIrq = TRUE]
    [] f.cmd = "readDma" /\ status = "ok" ->
         [f EXCEPT !.phase = "dmaExecution", !.from = disk, !.pendingDreq = "assert",
                   !.pendingIrq = TRUE]

\* The last parameter byte executes the command.  All sectors of a read are
\* fetched here and now.
Execute(f, disk, found) ==
  LET status == ReadStatus(disk, found)
      ended  == [Reports(f, status) EXCEPT !.pendingIrq = TRUE]
  IN
  CASE f.cmd = "verify" -> ended
    [] f.cmd = "write" -> [f EXCEPT !.phase = "writeExecution"]
    [] f.cmd = "recalibrate" ->
         [Idle(f) EXCEPT !.pendingInterrupt = TRUE, !.pendingIrq = TRUE]
    [] f.cmd \in {"readDma", "readPio"} /\ status # "ok" -> ended
    [] f.cmd = "readPio" /\ status = "ok" ->
         [f EXCEPT !.phase = "execution", !.from = disk]
    [] f.cmd = "readDma" /\ status = "ok" ->
         [f EXCEPT !.phase = "dmaExecution", !.from = disk, !.pendingDreq = "assert"]

\* A parameter byte, in the command phase.
ParamByte(f, disk, found) ==
  LET one == [f EXCEPT !.left = @ - 1]
  IN  IF one.left > 0 THEN one ELSE Execute(one, disk, found)

\* A data byte, in the write phase.  The last one writes the sectors, to the
\* disk that is in the drive by then.
DataByte(f, disk, found) ==
  LET one == [f EXCEPT !.index = @ + 1]
  IN  IF one.index < SectorBytes THEN one
      ELSE [Reports(one, CASE disk = NoDisk -> "notReady"
                           [] disk \in Protected -> "protected"
                           [] disk \in Disks \ Protected ->
                                IF found THEN "ok" ELSE "error")
              EXCEPT !.pendingIrq = TRUE]

\* Reading port 0x3F5 in the execution phase and in the result phase.
ReadByte(f) ==
  CASE f.phase = "execution" /\ f.index + 1 < SectorBytes ->
         [f EXCEPT !.index = @ + 1]
    [] f.phase = "execution" /\ f.index + 1 >= SectorBytes ->
         [Reports([f EXCEPT !.index = @ + 1], "ok") EXCEPT !.pendingIrq = TRUE]
    [] f.phase = "result" /\ f.left > 1 -> [f EXCEPT !.left = @ - 1]
    [] f.phase = "result" /\ f.left <= 1 -> Idle(f)
    [] OTHER -> f

\* Mutants of the last byte: the request line stays asserted, or no interrupt.
DmaReadHolds(f) ==
  LET one == [f EXCEPT !.index = @ + 1] IN
  IF f.phase # "dmaExecution" THEN f
  ELSE IF one.index < SectorBytes THEN one
  ELSE [Reports(one, "ok") EXCEPT !.pendingIrq = TRUE]

DmaReadSilent(f) ==
  LET one == [f EXCEPT !.index = @ + 1] IN
  IF f.phase # "dmaExecution" THEN f
  ELSE IF one.index < SectorBytes THEN one
  ELSE [Reports(one, "ok") EXCEPT !.pendingDreq = "release"]

\* dma_read_u8 supplies a byte only in the DMA phase; the last one releases
\* the request line and raises IRQ 6.
DmaByte(f) ==
  IF f.phase = "dmaExecution" THEN [disk |-> f.from, at |-> f.index + 1] ELSE NoByte

DmaRead(f) ==
  LET one == [f EXCEPT !.index = @ + 1] IN
  IF f.phase # "dmaExecution" THEN f
  ELSE IF one.index < SectorBytes THEN one
  ELSE [Reports(one, "ok") EXCEPT !.pendingDreq = "release", !.pendingIrq = TRUE]

TakeDreq(f) == [f EXCEPT !.pendingDreq = "none"]

TakePendingIrq(f) == [f EXCEPT !.pendingIrq = FALSE]

\* A write to the DOR with nRESET low, and high.
AssertReset(f) ==
  [Idle(f) EXCEPT !.inReset = TRUE, !.pendingInterrupt = FALSE]

ReleaseReset(f) == [f EXCEPT !.inReset = FALSE]
=============================================================================
