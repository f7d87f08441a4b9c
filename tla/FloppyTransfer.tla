--------------------------- MODULE FloppyTransfer ---------------------------
(***************************************************************************)
(* Floppy transfers: the disk controller (Fdc) and the DMA controller      *)
(* (Dma), tied together by the bus (increment_cycle_count,                 *)
(* execute_dma_transfer and io_write_u8 in core/src/bus.rs), a driver that *)
(* runs commands on them, and the host, which changes the disk at any time *)
(* (Computer::set_floppy_disk).                                            *)
(*                                                                         *)
(* DMA works in ticks: the time an instruction has taken is turned into    *)
(* bus cycles, all of which are performed for the channels found requested *)
(* and unmasked at the beginning; the program sees nothing in between.     *)
(* A tick is therefore a batch of Cycle steps that only the batch itself   *)
(* can follow; `todo' holds the cycles left of it.                         *)
(***************************************************************************)
EXTENDS Dma, Fdc

CONSTANTS
  Ops,         \* the commands the driver uses: a subset of Commands \ {"sense"}
  Addresses,   \* where the program's buffers begin
  ResetWhen,   \* where the driver may reset the controller through the DOR
  UsesRefresh, \* the program sets up channel 0 for refresh
  MaxBurst     \* bound: bus cycles in one tick

ASSUME FloppyAssumption ==
  /\ Ops \subseteq Commands \ {"sense"}
  /\ Addresses \subseteq Words
  /\ ResetWhen \subseteq {"ready", "wait"} /\ UsesRefresh \in BOOLEAN
  /\ MaxBurst \in Nat \ {0}
  /\ 2 \in Channels /\ (UsesRefresh => 0 \in Channels)
  /\ SectorBytes <= Radix * Radix

VARIABLES
  dma, fdc,
  disk,        \* the disk in the drive
  changeline,  \* the disk change line, read through the DIR
  todo,        \* bus cycles left of the current tick, per channel
  memory,      \* the words of one page
  driver       \* where the driver is, its command, and whether IRQ 6 has come

vars == <<dma, fdc, disk, changeline, todo, memory, driver>>

DriverState ==
  [at : {"ready", "send", "params", "transfer", "wait", "sense", "results", "reset"},
   op : Commands, found : BOOLEAN, irqSeen : BOOLEAN]

\* The type of every variable.
TypeOK ==
  /\ dma \in DmaState
  /\ fdc \in FdcState
  /\ disk \in Disks \cup {NoDisk}
  /\ changeline \in BOOLEAN
  /\ todo \in [Channels -> 0..MaxBurst]
  /\ memory \in [Words -> Data \cup {NoByte}]
  /\ driver \in DriverState

Ready == [at |-> "ready", op |-> "sense", found |-> TRUE, irqSeen |-> FALSE]

Blank == [a \in Words |-> NoByte]

Init ==
  /\ dma = DmaReset
  /\ fdc = FdcNew
  /\ disk \in Disks \cup {NoDisk}
  /\ changeline = (disk # NoDisk)
  /\ todo = [c \in Channels |-> 0]
  /\ memory = Blank
  /\ driver = Ready

\* No tick is in progress.
Quiet == \A c \in Channels : todo[c] = 0

-----------------------------------------------------------------------------
(* The bus. *)

\* The bus passes a change of the request line on to channel 2.
Drained(d, f) ==
  IF f.pendingDreq = "none" THEN d ELSE SetDreq(d, 2, f.pendingDreq = "assert")

\* increment_cycle_count: a tick of n bus cycles begins.
Tick ==
  /\ Quiet /\ Active(dma) # {}
  /\ \E n \in 1..MaxBurst :
       todo' = [c \in Channels |-> IF c \in Active(dma) THEN n ELSE 0]
  /\ UNCHANGED <<dma, fdc, disk, changeline, memory, driver>>

\* Mutant: the address is captured after it has been advanced.
BusCycleLate(c) ==
  /\ todo[c] > 0 /\ \A b \in Channels : b < c => todo[b] = 0
  /\ LET d == Cycle(dma, c)
         toMemory == c = 2 /\ dma.ch[c].type = "write"
         f == IF toMemory THEN DmaRead(fdc) ELSE fdc
     IN  /\ dma' = Drained(d, f)
         /\ fdc' = TakeDreq(f)
         /\ memory' = IF toMemory /\ DmaByte(fdc) # NoByte
                      THEN [memory EXCEPT ![d.ch[c].addr] = DmaByte(fdc)] ELSE memory
         /\ todo' = [todo EXCEPT ![c] = IF c \in d.mask THEN 0 ELSE @ - 1]
  /\ UNCHANGED <<disk, changeline, driver>>

\* One bus cycle of the lowest channel with cycles left.  On channel 2, in the
\* direction to memory, the controller may supply a byte.  A channel that has
\* masked itself ends its batch; a request line that drops does not.
BusCycle(c) ==
  /\ todo[c] > 0 /\ \A b \in Channels : b < c => todo[b] = 0
  /\ LET d == Cycle(dma, c)
         toMemory == c = 2 /\ dma.ch[c].type = "write"
         f == IF toMemory THEN DmaRead(fdc) ELSE fdc
     IN  /\ dma' = Drained(d, f)
         /\ fdc' = TakeDreq(f)
         /\ memory' = IF toMemory /\ DmaByte(fdc) # NoByte
                      THEN [memory EXCEPT ![dma.ch[c].addr] = DmaByte(fdc)] ELSE memory
         /\ todo' = [todo EXCEPT ![c] = IF c \in d.mask THEN 0 ELSE @ - 1]
  /\ UNCHANGED <<disk, changeline, driver>>

\* A write to port 0x3F5 leaves the controller as f; the bus drains the change
\* of the request line.
Written(f) ==
  /\ fdc' = TakeDreq(f)
  /\ dma' = Drained(dma, f)

-----------------------------------------------------------------------------
(* The driver and the host. *)

At(loc)  == Quiet /\ driver.at = loc
Moves(to) == driver' = [driver EXCEPT !.at = to]

\* The driver starts a command: it forgets earlier interrupts and, for DMA,
\* programs channel 2 with the length of the transfer.
Begin ==
  /\ At("ready")
  /\ \E op \in Ops, found \in BOOLEAN :
       /\ driver' = [at |-> "send", op |-> op, found |-> found, irqSeen |-> FALSE]
       /\ \/ /\ op = "readDma"
             /\ \E addr \in Addresses, down \in BOOLEAN, auto \in BOOLEAN :
                  dma' = Program(dma, 2, addr, SectorBytes - 1, "write", down, auto)
          \/ op # "readDma" /\ UNCHANGED dma
  /\ UNCHANGED <<fdc, disk, changeline, todo, memory>>

\* It waits for the controller to be ready and sends the command byte.
Send ==
  /\ At("send") \/ At("sense")
  /\ WantsByte(fdc) /\ fdc.phase = "idle"
  /\ Written(CommandByte(fdc, IF driver.at = "sense" THEN "sense" ELSE driver.op))
  /\ Moves(IF driver.at = "sense" THEN "results" ELSE "params")
  /\ UNCHANGED <<disk, changeline, todo, memory>>

SendParam ==
  /\ At("params") /\ WantsByte(fdc) /\ fdc.phase = "command"
  /\ LET f == ParamByte(fdc, disk, driver.found)
     IN  /\ Written(f)
         /\ Moves(CASE f.phase = "command" -> "params"
                    [] f.phase \in {"execution", "writeExecution"} -> "transfer"
                    [] OTHER -> "wait")
  /\ UNCHANGED <<disk, changeline, todo, memory>>

\* Programmed transfers of data, byte by byte.
Transfer ==
  /\ At("transfer")
  /\ \/ /\ fdc.phase = "execution" /\ OffersByte(fdc)
        /\ fdc' = ReadByte(fdc)
        /\ UNCHANGED dma
     \/ /\ fdc.phase = "writeExecution" /\ WantsByte(fdc)
        /\ Written(DataByte(fdc, disk, driver.found))
  /\ Moves(IF fdc'.phase = "result" THEN "wait" ELSE "transfer")
  /\ UNCHANGED <<disk, changeline, todo, memory>>

\* Pic::take_irq delivers IRQ 6, whatever the driver is doing.
TakeIrq ==
  /\ Quiet /\ fdc.pendingIrq
  /\ fdc' = TakePendingIrq(fdc)
  /\ driver' = [driver EXCEPT !.irqSeen = TRUE]
  /\ UNCHANGED <<dma, disk, changeline, todo, memory>>

IrqSeen ==
  /\ At("wait") /\ driver.irqSeen
  /\ Moves(IF driver.op = "recalibrate" THEN "sense" ELSE "results")
  /\ UNCHANGED <<dma, fdc, disk, changeline, todo, memory>>

\* The last result byte ends the command; the program uses up the sector.
ReadResult ==
  /\ At("results") /\ OffersByte(fdc) /\ fdc.phase = "result"
  /\ fdc' = ReadByte(fdc)
  /\ IF fdc'.phase = "idle" THEN driver' = Ready /\ memory' = Blank
                            ELSE UNCHANGED <<driver, memory>>
  /\ UNCHANGED <<dma, disk, changeline, todo>>

\* The driver resets the controller through the DOR: between commands, or
\* because IRQ 6 is late.
BeginReset ==
  /\ Quiet /\ driver.at \in ResetWhen
  /\ driver.at = "wait" => ~driver.irqSeen
  /\ fdc' = AssertReset(fdc)
  /\ Moves("reset")
  /\ UNCHANGED <<dma, disk, changeline, todo, memory>>

EndReset ==
  /\ At("reset")
  /\ fdc' = ReleaseReset(fdc)
  /\ driver' = Ready /\ memory' = Blank
  /\ UNCHANGED <<dma, disk, changeline, todo>>

\* Between commands the driver may look at the change line, clear the status
\* or the whole DMA controller, or set up memory refresh once that is masked:
\* channel 0 runs through all addresses again and again.
Housekeeping ==
  /\ At("ready")
  /\ \/ changeline' = FALSE /\ UNCHANGED dma
     \/ dma' \in {AfterStatus(dma), MasterClear(dma)} /\ UNCHANGED changeline
     \/ /\ UsesRefresh /\ 0 \in dma.mask
        /\ dma' = Program(dma, 0, 0, (Radix * Radix) - 1, "read", FALSE, TRUE)
        /\ UNCHANGED changeline
  /\ UNCHANGED <<fdc, disk, todo, memory, driver>>

\* set_drive_disk: the host inserts, changes or ejects the disk.
ChangeDisk ==
  /\ Quiet
  /\ disk' \in (Disks \cup {NoDisk}) \ {disk}
  /\ changeline' = TRUE
  /\ UNCHANGED <<dma, fdc, todo, memory, driver>>

Driver ==
  \/ Send \/ SendParam \/ Transfer \/ IrqSeen \/ ReadResult \/ EndReset

Bus == Tick \/ \E c \in Channels : BusCycle(c)

Next == Begin \/ Driver \/ BeginReset \/ Housekeeping \/ TakeIrq \/ ChangeDisk \/ Bus

Spec == Init /\ [][Next]_vars

\* The emulator keeps executing instructions, so time passes, the program runs
\* on and interrupts are taken; it need not begin a command.  A tick, which is
\* one step of the code, disables the others only while its batch lasts, hence
\* the strong fairness.
Fairness == SF_vars(Driver) /\ SF_vars(TakeIrq) /\ WF_vars(Bus)

FairSpec == Spec /\ Fairness

-----------------------------------------------------------------------------
(* Properties. *)

\* Channel 2 is requested exactly while a DMA read is in progress: a request
\* that stands longer runs the channel down with nobody to supply data, and one
\* that falls early strands the controller.
RequestMatchesPhase == (2 \in dma.dreq) = (fdc.phase = "dmaExecution")

\* IRQ 6 says that the command at hand is over: while the driver waits for it,
\* none comes before the result is there to be read.
IrqMeansDone ==
  fdc.pendingIrq \/ driver.irqSeen
    => \/ driver.at \in {"ready", "send", "sense", "results", "reset"}
       \/ fdc.phase = "result"
       \/ driver.op = "recalibrate" /\ fdc.pendingInterrupt

\* Where byte i of a transfer programmed on a channel belongs.
Place(ch, i) ==
  (ch.base + (IF ch.down THEN (Radix * Radix) - i + 1 ELSE i - 1)) % (Radix * Radix)

\* A DMA read has reported success.
Delivered ==
  /\ driver.op = "readDma" /\ driver.at \in {"wait", "results"} /\ Quiet
  /\ fdc.phase = "result" /\ fdc.status = "ok"

\* When a DMA read reports success, memory holds the sector: every byte at its
\* place, all from the disk that was in the drive when the command was given,
\* nothing else has been touched, whatever the bursts, and the channel has
\* reached its terminal count.
SectorDelivered ==
  Delivered =>
    /\ 2 \in dma.tc
    /\ memory = [a \in Words |->
                   IF \E i \in 1..SectorBytes : Place(dma.ch[2], i) = a
                   THEN [disk |-> fdc.from,
                         at |-> CHOOSE i \in 1..SectorBytes : Place(dma.ch[2], i) = a]
                   ELSE NoByte]

\* Every command the driver begins comes to its end.
CommandEnds == driver.at = "send" ~> driver.at = "ready"

\* Channel 0 has come to its terminal count and goes on; all has been cleared.
Turned  == 0 \in dma.tc /\ 0 \notin dma.mask
Cleared == dma.tc = {} /\ dma.mask = Channels

\* Memory refresh goes on.  Once channel 0 is set up it comes to its terminal
\* count and starts over, and again whenever the status has been read, until
\* the controller is cleared: no command, request or master clear before it
\* has left it without its request, and it never masks itself.  This is what
\* set_dreq and io_write_u8 do for a machine before the AT (HwRefresh); the
\* file's header (dma.rs:10-12) still says that there is no such line.
RefreshGoesOn == HwRefresh => (0 \notin dma.mask ~> Turned \/ Cleared)
=============================================================================
