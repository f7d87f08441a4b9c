\* The two drivers, every way of playing, and a CD driver whose reads are
\* polled; the disc may be changed at any time.
SPECIFICATION FairSpec
CONSTANTS
  d1 = d1
  NoDisc = NoDisc
  NoByte = NoByte
  Radix = 2
  Channels = {1}
  HwRefresh = FALSE
  Discs <- MCDiscs
  Sectors = {1}
  MaxCount = 2
  SectorBytes = 2
  Programs <- MCPrograms
  Lens = {2, 4}
  Counts = {2}
  MaxBurst = 2
INVARIANTS
  TypeOK
  InStep
  SectorIntact
PROPERTIES
  NobodyWaits
