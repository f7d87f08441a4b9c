------------------------------ MODULE HardDisk ------------------------------
(***************************************************************************)
(* Disk images (core/src/disk/backed_disk.rs, disk_geometry.rs) and the    *)
(* ATA controller that reads and writes them byte by byte                  *)
(* (core/src/devices/hard_disk_controller.rs), as operators.               *)
(*                                                                         *)
(* An address is a cylinder, a head and a sector; a medium has a geometry  *)
(* and its sectors in a row, the first one being sectors[1].  Programs     *)
(* write the controller's registers before every command, so here they are *)
(* parameters of the command.                                              *)
(***************************************************************************)
EXTENDS Integers, Sequences

CONSTANTS
  NoMedium,
  SectorBytes,    \* 512 in the source
  CylinderRadix,  \* cylinders a transfer tells apart: 256, they are cast to u8
  HeadRadix       \* heads the drive/head register tells apart: 16

ASSUME DiskAssumption ==
  /\ SectorBytes \in Nat \ {0}
  /\ CylinderRadix \in Nat \ {0} /\ HeadRadix \in Nat \ {0}

\* DiskGeometry
Geometry == [cylinders : Nat, heads : Nat \ {0}, spt : Nat \ {0}]
Address  == [c : Nat, h : Nat, s : Nat]

TotalSectors(g) == g.cylinders * g.heads * g.spt

\* chs_to_lba
OnDisk(g, a) == a.c < g.cylinders /\ a.h < g.heads /\ a.s \in 1..g.spt
Lba(g, a)    == (((a.c * g.heads) + a.h) * g.spt) + a.s - 1

\* Mutant: after the last head the cylinder does not advance.
Following0(g, a) ==
  CASE a.s < g.spt                       -> [a EXCEPT !.s = @ + 1]
    [] a.s >= g.spt /\ a.h + 1 < g.heads  -> [a EXCEPT !.s = 1, !.h = @ + 1]
    [] a.s >= g.spt /\ a.h + 1 >= g.heads -> [a EXCEPT !.s = 1, !.h = 0]

\* The address of the sector that follows.
Following(g, a) ==
  CASE a.s < g.spt                       -> [a EXCEPT !.s = @ + 1]
    [] a.s >= g.spt /\ a.h + 1 < g.heads  -> [a EXCEPT !.s = 1, !.h = @ + 1]
    [] a.s >= g.spt /\ a.h + 1 >= g.heads -> [c |-> a.c + 1, h |-> 0, s |-> 1]

\* The addresses of n sectors, from a on.
Run(g, a, n) ==
  LET run[i \in 1..n] == IF i = 1 THEN a ELSE Following(g, run[i - 1])
  IN  [i \in 1..n |-> run[i]]

\* How many of these sectors come before the first that is not on the disk.
Reachable(g, run) ==
  CHOOSE k \in 0..Len(run) :
    /\ \A i \in 1..k : OnDisk(g, run[i])
    /\ k < Len(run) => ~OnDisk(g, run[k + 1])

\* read_sectors: the bytes of n sectors.
Readable(m, a, n) == Reachable(m.geometry, Run(m.geometry, a, n)) = n

ReadSectors(m, a, n) ==
  LET run == Run(m.geometry, a, n)
  IN  [b \in 1..(n * SectorBytes) |->
         m.sectors[Lba(m.geometry, run[((b - 1) \div SectorBytes) + 1]) + 1]
           [((b - 1) % SectorBytes) + 1]]

\* The sectors that bytes make up.
Chunks(bytes) ==
  [i \in 1..(Len(bytes) \div SectorBytes) |->
     SubSeq(bytes, ((i - 1) * SectorBytes) + 1, i * SectorBytes)]

\* write_sectors stores sector by sector and stops at the first that is not on
\* the disk.
WriteSectors(m, a, bytes) ==
  LET data == Chunks(bytes)
      run  == Run(m.geometry, a, Len(data))
      k    == Reachable(m.geometry, run)
      at(l) == {i \in 1..k : Lba(m.geometry, run[i]) + 1 = l}
  IN  [m EXCEPT !.sectors =
         [l \in DOMAIN @ |-> IF at(l) = {} THEN @[l] ELSE data[CHOOSE i \in at(l) : TRUE]]]

-----------------------------------------------------------------------------
(* HardDiskController.  A drive is 0 or 1; media[i] is its disk. *)

HdcNew ==
  [phase |-> "idle", data |-> <<>>, index |-> 0, drive |-> 0,
   at |-> [c |-> 0, h |-> 0, s |-> 0], expected |-> 0,
   error |-> "none", srst |-> FALSE]

\* HdcPhase::Idle holds nothing of the last command.
ToIdle(h) == [HdcNew EXCEPT !.error = h.error, !.srst = h.srst]

\* The status bits.
Bsy(h) == h.srst
Drq(h) == ~h.srst /\ h.phase # "idle"
Err(h) == ~h.srst /\ h.phase = "idle" /\ h.error # "none"

Aborts(h) == [h EXCEPT !.error = "abort"]

Serves(h, data) ==
  [ToIdle(h) EXCEPT !.phase = "read", !.data = data, !.error = "none"]

\* A byte of the response to IDENTIFY: whose geometry it tells.
Identity(drive) == [b \in 1..SectorBytes |-> <<drive>>]

\* execute_command on the registers' drive, address and count.  A command that
\* fails leaves the phase as it was.
Command(h, media, cmd, drive, addr, n) ==
  LET m     == media[drive]
      a     == [addr EXCEPT !.c = @ % CylinderRadix, !.h = @ % HeadRadix]
      known == m # NoMedium /\ addr.c < m.geometry.cylinders
      found == known /\ Readable(m, a, n)
  IN  CASE cmd = "read" /\ found    -> Serves(h, ReadSectors(m, a, n))
        [] cmd = "verify" /\ found  -> [h EXCEPT !.error = "none"]
        [] cmd = "write" /\ known   ->
             [ToIdle(h) EXCEPT !.phase = "write", !.at = a, !.drive = drive,
                               !.expected = n * SectorBytes, !.error = "none"]
        [] cmd = "identify" /\ m # NoMedium -> Serves(h, Identity(drive))
        [] cmd = "diagnose" -> [h EXCEPT !.error = "diagnosed"]
        [] OTHER -> Aborts(h)

\* n reads of the data port: the bytes, and the controller afterwards.
NoByte == <<>>

PortBytes(h, n) ==
  [i \in 1..n |-> IF h.phase = "read" /\ h.index + i <= Len(h.data)
                  THEN h.data[h.index + i] ELSE NoByte]

\* Mutant: the phase outlasts the data.
AfterReadsOn(h, n) ==
  IF h.phase # "read" \/ n = 0 THEN h
  ELSE IF h.index + n > Len(h.data) THEN ToIdle(h)
  ELSE [h EXCEPT !.index = @ + n]

AfterReads(h, n) ==
  IF h.phase # "read" \/ n = 0 THEN h
  ELSE IF h.index + n >= Len(h.data) THEN ToIdle(h)
  ELSE [h EXCEPT !.index = @ + n]

\* Writes to the data port.  The last byte expected writes the sectors; further
\* ones are ignored.
Commits(h, bytes) ==
  h.phase = "write" /\ bytes # <<>> /\ Len(h.data) + Len(bytes) >= h.expected

AfterWrites(h, media, bytes) ==
  LET m     == media[h.drive]
      whole == Readable(m, h.at, h.expected \div SectorBytes)
  IN  IF h.phase # "write" THEN h
      ELSE IF Commits(h, bytes)
      THEN [ToIdle(h) EXCEPT !.error = IF whole THEN "none" ELSE "abort"]
      ELSE [h EXCEPT !.data = @ \o bytes]

MediaAfterWrites(h, media, bytes) ==
  IF Commits(h, bytes)
  THEN [media EXCEPT ![h.drive] =
          WriteSectors(@, h.at, SubSeq(h.data \o bytes, 1, h.expected))]
  ELSE media

\* The device control register: software reset asserted, and released.
AssertSrst(h)  == IF h.srst THEN h ELSE [ToIdle(h) EXCEPT !.srst = TRUE]
ReleaseSrst(h) == IF h.srst THEN [h EXCEPT !.srst = FALSE, !.error = "none"] ELSE h

HdcReset(h) == HdcNew
=============================================================================
