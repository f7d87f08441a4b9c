---------------------------- MODULE DiskServices ----------------------------
(***************************************************************************)
(* The disk services of the BIOS, INT 13h                                  *)
(* (core/src/cpu/bios/int13_disk_services.rs), on top of the hard disk     *)
(* controller (HardDisk) and the floppy controller, and a program that     *)
(* also drives the hard disk controller through its ports; the machine may *)
(* be reset and the floppy changed at any time.                            *)
(*                                                                         *)
(* A service executes in the place of one instruction and polls its        *)
(* controller until it is done, so it is one action; a program at the      *)
(* ports moves one byte at a time.  What a service does to the floppy      *)
(* controller between its first port write and its last result byte is     *)
(* one read or write of the disk: the controller is idle before and after. *)
(* Both kinds of request end in a reply, which the program takes.          *)
(***************************************************************************)
EXTENDS HardDisk

CONSTANTS
  HardDisks,    \* what is installed as drives 0 and 1: media, or NoMedium
  Floppies,     \* the media the host may insert into drive A
  Values,       \* what a byte of a sector may be: u8 in the source
  Payload,      \* what programs write: sectors
  Counts,       \* sectors of one request
  Requested,    \* addresses programs use, per drive
  MaxWrites     \* bound: write requests in a behaviour

Indices == {0, 1}
Drives  == {"A", "C", "D"}
Index   == [C |-> 0, D |-> 1]
HardDrives == DOMAIN Index

Sector == [1..SectorBytes -> Values]
Disk   == [geometry : Geometry, sectors : Seq(Sector)]

\* A disk has all of its sectors.
Whole(m) == m \in Disk /\ Len(m.sectors) = TotalSectors(m.geometry)

Media == {m \in {HardDisks[i] : i \in Indices} \cup Floppies : m # NoMedium}

ASSUME ServicesAssumption ==
  /\ DOMAIN HardDisks = Indices /\ NoMedium \notin Floppies \cup Disk
  /\ \A m \in Media : Whole(m)
  /\ Payload \in Seq(Sector)
  /\ Counts \subseteq 1..Len(Payload)
  /\ \A d \in Drives : Requested[d] \subseteq Address
  /\ MaxWrites \in Nat

VARIABLES
  media,      \* the hard disks
  floppy,     \* the disk in drive A, or NoMedium
  changeline,
  hdc,        \* the hard disk controller
  status,     \* last_disk_status
  port,       \* the program's transfer at the ports, if one is under way
  reply,      \* the answer to the last request
  writes      \* write requests so far

vars == <<media, floppy, changeline, hdc, status, port, reply, writes>>

\* DiskError
Errors == {"success", "invalidCommand", "sectorNotFound", "driveNotReady",
           "writeFault", "diskChanged"}

Operations == {"none", "read", "write", "verify", "params", "reset", "status",
               "changed", "identify", "diagnose"}

NoAddress == [c |-> 0, h |-> 0, s |-> 0]

NoReply == [by |-> "nobody", op |-> "none", drive |-> "none", at |-> NoAddress,
            n |-> 0, ok |-> TRUE, bytes |-> <<>>]

Resting == [at |-> "ready", op |-> "none", drive |-> "none", addr |-> NoAddress,
            n |-> 0, bytes |-> <<>>]

\* A byte a program may read: NoByte, of a sector, or of an Identity.
ByteSet == Values \cup {NoByte, <<0>>, <<1>>}

\* What a program is told, and what it is doing.
ReplyType ==
  [by : {"nobody", "service", "ports"}, op : Operations, drive : Drives \cup {"none"},
   at : Address, n : Nat, ok : BOOLEAN, bytes : Seq(ByteSet)]

PortType ==
  [at : {"ready", "read", "write", "held"}, op : Operations, drive : HardDrives \cup {"none"},
   addr : Address, n : Nat, bytes : Seq(ByteSet)]

HdcType ==
  [phase : {"idle", "read", "write"}, data : Seq(ByteSet), index : Nat, drive : Indices,
   at : Address, expected : Nat, error : {"none", "abort", "diagnosed"}, srst : BOOLEAN]

\* A disk stays whole and keeps its geometry.
DisksOK ==
  /\ DOMAIN media = Indices
  /\ \A i \in Indices :
       IF HardDisks[i] = NoMedium THEN media[i] = NoMedium
       ELSE Whole(media[i]) /\ media[i].geometry = HardDisks[i].geometry
  /\ floppy = NoMedium \/ Whole(floppy)

\* The type of every variable.
TypeOK ==
  /\ DisksOK
  /\ changeline \in BOOLEAN
  /\ hdc \in HdcType
  /\ hdc.phase = "read" => hdc.index < Len(hdc.data)
  /\ hdc.phase = "write" => Len(hdc.data) < hdc.expected
  /\ status \in Errors
  /\ port \in PortType
  /\ reply \in ReplyType
  /\ writes \in 0..MaxWrites

\* post_probe_hard_drives: IDENTIFY each drive, and drain the response.
Probe(h, disks) ==
  LET probe(g, i) == AfterReads(Command(g, disks, "identify", i, NoAddress, 0), SectorBytes)
  IN  probe(probe(h, 0), 1)

\* Computer::new resets the machine.
Init ==
  /\ media = HardDisks
  /\ floppy \in Floppies \cup {NoMedium}
  /\ changeline = FALSE
  /\ hdc = Probe(HdcNew, HardDisks)
  /\ status = "success"
  /\ port = Resting
  /\ reply = NoReply
  /\ writes = 0

\* The payload of n sectors as bytes.
Bytes(n) ==
  [b \in 1..(n * SectorBytes) |->
     Payload[((b - 1) \div SectorBytes) + 1][((b - 1) % SectorBytes) + 1]]

\* The program may make a request.
Free == port.at = "ready" /\ reply = NoReply

\* A service returns: AH and the carry flag, and the status remembered.
Returns(op, d, a, n, error, bytes) ==
  /\ status' = error
  /\ reply' = [by |-> "service", op |-> op, drive |-> d, at |-> a, n |-> n,
               ok |-> error = "success", bytes |-> bytes]

-----------------------------------------------------------------------------
(* INT 13h on a hard disk. *)

\* int13_read_sectors: the command, a look at the status, and every byte.
ReadHard(d, a, n) ==
  LET h == Command(hdc, media, "read", Index[d], a, n)
      bytes == n * SectorBytes
  IN  /\ IF Err(h) \/ ~Drq(h)
         THEN hdc' = h /\ Returns("read", d, a, n, "driveNotReady", <<>>)
         ELSE /\ hdc' = AfterReads(h, bytes)
              /\ Returns("read", d, a, n, "success", PortBytes(h, bytes))
      /\ UNCHANGED <<media, writes>>

\* Mutant: the status is not looked at once the data have been written.
WriteHardBlindly(d, a, n) ==
  LET h == Command(hdc, media, "write", Index[d], a, n)
      g == AfterWrites(h, media, Bytes(n))
  IN  /\ writes < MaxWrites /\ writes' = writes + 1
      /\ IF Err(h) \/ ~Drq(h)
         THEN /\ hdc' = h /\ UNCHANGED media
              /\ Returns("write", d, a, n, "driveNotReady", <<>>)
         ELSE /\ hdc' = g /\ media' = MediaAfterWrites(h, media, Bytes(n))
              /\ Returns("write", d, a, n, "success", <<>>)

\* int13_write_sectors
WriteHard(d, a, n) ==
  LET h == Command(hdc, media, "write", Index[d], a, n)
      g == AfterWrites(h, media, Bytes(n))
  IN  /\ writes < MaxWrites /\ writes' = writes + 1
      /\ IF Err(h) \/ ~Drq(h)
         THEN /\ hdc' = h /\ UNCHANGED media
              /\ Returns("write", d, a, n, "driveNotReady", <<>>)
         ELSE /\ hdc' = g /\ media' = MediaAfterWrites(h, media, Bytes(n))
              /\ Returns("write", d, a, n, IF Err(g) THEN "writeFault" ELSE "success", <<>>)

\* int13_verify_sectors: no data are requested, so only the error bit counts.
VerifyHard(d, a, n) ==
  LET h == Command(hdc, media, "verify", Index[d], a, n)
  IN  /\ hdc' = h
      /\ Returns("verify", d, a, n, IF Err(h) THEN "sectorNotFound" ELSE "success", <<>>)
      /\ UNCHANGED <<media, writes>>

\* int13_get_drive_params and int13_get_disk_type ask the controller who it is.
IdentifyHard(d, a, n) ==
  LET h == Command(hdc, media, "identify", Index[d], NoAddress, 0)
  IN  /\ IF Err(h) \/ ~Drq(h)
         THEN hdc' = h /\ Returns("params", d, NoAddress, 0, "driveNotReady", <<>>)
         ELSE /\ hdc' = AfterReads(h, SectorBytes)
              /\ Returns("params", d, NoAddress, 0, "success", PortBytes(h, SectorBytes))
      /\ UNCHANGED <<media, writes>>

\* int13_reset_disk pulses SRST.
ResetHard(d, a, n) ==
  /\ hdc' = ReleaseSrst(AssertSrst(hdc))
  /\ Returns("reset", d, NoAddress, 0, "success", <<>>)
  /\ UNCHANGED <<media, writes>>

HardService ==
  /\ Free
  /\ \E d \in HardDrives, n \in Counts : \E a \in Requested[d] :
       \/ ReadHard(d, a, n) \/ WriteHard(d, a, n) \/ VerifyHard(d, a, n)
       \/ IdentifyHard(d, a, n) \/ ResetHard(d, a, n)
  /\ UNCHANGED <<floppy, changeline, port>>

-----------------------------------------------------------------------------
(* INT 13h on the floppy. *)

FloppyHas(a, n) == Readable(floppy, a, n)

\* What ST0 says of a transfer.
FloppyError(a, n) ==
  CASE floppy = NoMedium -> "driveNotReady"
    [] floppy # NoMedium -> IF FloppyHas(a, n) THEN "success" ELSE "sectorNotFound"

ReadFloppy(a, n) ==
  LET error == FloppyError(a, n)
  IN  /\ Returns("read", "A", a, n, error,
                 IF error = "success" THEN ReadSectors(floppy, a, n) ELSE <<>>)
      /\ UNCHANGED <<floppy, changeline, writes>>

WriteFloppy(a, n) ==
  /\ writes < MaxWrites /\ writes' = writes + 1
  /\ Returns("write", "A", a, n, FloppyError(a, n), <<>>)
  /\ floppy' = IF floppy = NoMedium THEN floppy ELSE WriteSectors(floppy, a, Bytes(n))
  /\ UNCHANGED changeline

VerifyFloppy(a, n) ==
  /\ Returns("verify", "A", a, n, FloppyError(a, n), <<>>)
  /\ UNCHANGED <<floppy, changeline, writes>>

\* int13_reset_disk recalibrates the drive, which always succeeds.
ResetFloppy ==
  /\ Returns("reset", "A", NoAddress, 0, "success", <<>>)
  /\ UNCHANGED <<floppy, changeline, writes>>

FloppyService ==
  /\ Free
  /\ \/ \E n \in Counts, a \in Requested["A"] :
          ReadFloppy(a, n) \/ WriteFloppy(a, n) \/ VerifyFloppy(a, n)
     \/ ResetFloppy
  /\ UNCHANGED <<media, hdc, port>>

\* int13_detect_disk_change: for a floppy, reading the DIR clears the line.
DetectChange ==
  /\ Free
  /\ \E d \in Drives :
       /\ changeline' = IF d = "A" THEN FALSE ELSE changeline
       /\ Returns("changed", d, NoAddress, 0,
                  CASE d \in HardDrives -> "invalidCommand"
                    [] d = "A" -> IF changeline THEN "diskChanged" ELSE "success", <<>>)
  /\ UNCHANGED <<media, floppy, hdc, port, writes>>

\* int13_get_status: AH is the status of the last service; carry is clear.
GetStatus ==
  /\ Free
  /\ \E d \in Drives :
       reply' = [by |-> "service", op |-> "status", drive |-> d, at |-> NoAddress,
                 n |-> 0, ok |-> status = "success", bytes |-> <<>>]
  /\ UNCHANGED <<media, floppy, changeline, hdc, status, port, writes>>

-----------------------------------------------------------------------------
(* A program at the ports. *)

PortReply(op, d, a, n, ok, bytes) ==
  reply' = [by |-> "ports", op |-> op, drive |-> d, at |-> a, n |-> n,
            ok |-> ok, bytes |-> bytes]

\* Registers, command, and a look at the status: the command has failed, or is
\* over, or asks for data.
PortCommand ==
  /\ Free
  /\ \E op \in {"read", "write", "verify", "identify", "diagnose"},
        d \in HardDrives, n \in Counts : \E a \in Requested[d] :
       LET h == Command(hdc, media, op, Index[d], a, n) IN
       /\ hdc' = h
       /\ op = "write" => writes < MaxWrites
       /\ writes' = IF op = "write" THEN writes + 1 ELSE writes
       /\ CASE Drq(h) ->
                 /\ port' = [at |-> h.phase, op |-> op, drive |-> d, addr |-> a,
                             n |-> IF op = "identify" THEN 1 ELSE n, bytes |-> <<>>]
                 /\ UNCHANGED reply
            [] ~Drq(h) /\ op \in {"read", "write", "verify"} ->
                 PortReply(op, d, a, n, ~Err(h), <<>>) /\ UNCHANGED port
            [] ~Drq(h) /\ op = "identify" ->
                 PortReply("params", d, NoAddress, 0, FALSE, <<>>) /\ UNCHANGED port
            [] ~Drq(h) /\ op = "diagnose" -> UNCHANGED <<port, reply>>
  /\ UNCHANGED <<media, floppy, changeline, status>>

PortRead ==
  /\ port.at = "read"
  /\ hdc' = AfterReads(hdc, 1)
  /\ LET bytes == port.bytes \o PortBytes(hdc, 1) IN
     IF Len(bytes) = port.n * SectorBytes
     THEN /\ port' = Resting
          /\ IF port.op = "identify"
             THEN PortReply("params", port.drive, NoAddress, 0, TRUE, bytes)
             ELSE PortReply("read", port.drive, port.addr, port.n, TRUE, bytes)
     ELSE port' = [port EXCEPT !.bytes = bytes] /\ UNCHANGED reply
  /\ UNCHANGED <<media, floppy, changeline, status, writes>>

\* The program writes its bytes; after the last it looks at the error bit.
PortWrite ==
  /\ port.at = "write"
  /\ LET one == <<Bytes(port.n)[Len(port.bytes) + 1]>>
         h   == AfterWrites(hdc, media, one)
     IN  /\ hdc' = h
         /\ media' = MediaAfterWrites(hdc, media, one)
         /\ IF Len(port.bytes) + 1 = port.n * SectorBytes
            THEN /\ port' = Resting
                 /\ PortReply("write", port.drive, port.addr, port.n, ~Err(h), <<>>)
            ELSE port' = [port EXCEPT !.bytes = @ \o one] /\ UNCHANGED reply
  /\ UNCHANGED <<floppy, changeline, status, writes>>

\* It may abandon a transfer by a software reset, in two writes.
PortReset ==
  /\ reply = NoReply
  /\ \/ /\ port.at \in {"ready", "read", "write"}
        /\ hdc' = AssertSrst(hdc) /\ port' = [Resting EXCEPT !.at = "held"]
     \/ /\ port.at = "held"
        /\ hdc' = ReleaseSrst(hdc) /\ port' = Resting
  /\ UNCHANGED <<media, floppy, changeline, status, reply, writes>>

-----------------------------------------------------------------------------
(* The program takes a reply; the host. *)

Take ==
  /\ reply # NoReply /\ reply' = NoReply
  /\ UNCHANGED <<media, floppy, changeline, hdc, status, port, writes>>

\* Computer::reset, in the middle of anything.
MachineReset ==
  /\ hdc' = Probe(HdcReset(hdc), media)
  /\ port' = Resting /\ reply' = NoReply
  /\ UNCHANGED <<media, floppy, changeline, status, writes>>

\* Computer::set_floppy_disk
ChangeFloppy ==
  /\ reply = NoReply
  /\ floppy' \in Floppies \cup {NoMedium}
  /\ changeline' = TRUE
  /\ UNCHANGED <<media, hdc, status, port, reply, writes>>

Next ==
  \/ HardService \/ FloppyService \/ DetectChange \/ GetStatus
  \/ PortCommand \/ PortRead \/ PortWrite \/ PortReset
  \/ Take \/ MachineReset \/ ChangeFloppy

Spec == Init /\ [][Next]_vars

-----------------------------------------------------------------------------
(* What the services promise. *)

Medium(d) == IF d = "A" THEN floppy ELSE media[Index[d]]

Contents(m) == IF m = NoMedium THEN <<>> ELSE m.sectors

\* Where a request points to: the first sector in a row, or Nowhere.
First(d, a) ==
  IF Medium(d) # NoMedium /\ OnDisk(Medium(d).geometry, a)
  THEN Lba(Medium(d).geometry, a) ELSE -1

\* The sectors a program can address with the parameters it has been told.
Told(bytes) ==
  IF bytes = <<>> \/ bytes[1] \notin {<<0>>, <<1>>} THEN 0
  ELSE LET g == media[bytes[1][1]].geometry
       IN  (((g.cylinders - 1) % CylinderRadix) + 1) * g.heads * g.spt

RowOf(r) ==
  [by |-> r.by, op |-> r.op, drive |-> r.drive,
   first |-> IF r.op \in {"read", "write", "verify"} THEN First(r.drive, r.at) ELSE -1,
   n |-> IF r.op = "params" THEN Told(r.bytes) ELSE r.n, ok |-> r.ok,
   data |-> IF r.op = "read" THEN Chunks(r.bytes) ELSE <<>>]

Store == INSTANCE BlockStore WITH
  Stores     <- {[d \in Drives |-> IF d = "A" THEN f ELSE Contents(HardDisks[Index[d]])] :
                   f \in {Contents(m) : m \in Floppies \cup {NoMedium}}},
  Media      <- {Contents(m) : m \in Floppies \cup {NoMedium}},
  store      <- [d \in Drives |-> Contents(Medium(d))],
  changed    <- IF changeline THEN {"A"} ELSE {},
  failed     <- status # "success",
  reply      <- RowOf(reply)

\* Whatever a program does through INT 13h and the ports, in whatever order,
\* with transfers abandoned by a software reset, machine resets and floppies
\* changed in between: every request is answered truly.  One that reports
\* success has read or written exactly the sectors it named, one that fails
\* has changed at most a beginning of them and no others, and the status kept
\* for AH=01h is that of the last service.
Truthful == Store!Spec
=============================================================================
