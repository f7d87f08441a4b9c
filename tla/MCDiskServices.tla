--------------------------- MODULE MCDiskServices ---------------------------
(***************************************************************************)
(* Small instances of DiskServices for TLC: a hard disk of two or more     *)
(* cylinders, two heads and one sector a track, and no second one; floppies*)
(* of two sectors a track.  A byte is the medium it was on at first, or    *)
(* "P" for the payload, its sector and its place.                          *)
(***************************************************************************)
EXTENDS DiskServices

CONSTANT MCCylinders   \* of the hard disk

Filled(name, i) == [k \in 1..SectorBytes |-> <<name, i, k>>]

Fresh(name, g) ==
  [geometry |-> g, sectors |-> [i \in 1..TotalSectors(g) |-> Filled(name, i)]]

Chs(c, h, s) == [c |-> c, h |-> h, s |-> s]

MCHardDisks ==
  [i \in Indices |->
     IF i = 0 THEN Fresh("C", [cylinders |-> MCCylinders, heads |-> 2, spt |-> 1])
     ELSE NoMedium]

MCValues == {<<name, i, k>> : name \in {"C", "A", "P"}, i \in 1..6, k \in 1..SectorBytes}

MCFloppies == {Fresh("A", [cylinders |-> 1, heads |-> 2, spt |-> 2])}

MCPayload == <<Filled("P", 1), Filled("P", 2), Filled("P", 3)>>

\* Every address of the media, and for each part of an address one beyond.
MCRequested ==
  [d \in Drives |->
     CASE d = "A" -> {Chs(0, 0, 1), Chs(0, 0, 2), Chs(0, 1, 2), Chs(0, 2, 1), Chs(0, 1, 0)}
       [] d = "C" -> {Chs(c, h, 1) : c \in 0..(MCCylinders - 1), h \in 0..1}
                        \cup {Chs(MCCylinders, 0, 1), Chs(0, 1, 2)}
       [] d = "D" -> {Chs(0, 0, 1)}]
=============================================================================
