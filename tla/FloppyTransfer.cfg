SPECIFICATION FairSpec
CONSTANTS
  Radix = 2
  Channels = {0, 2}
  HwRefresh = TRUE
  Disks = {d1, d2}
  NoDisk = NoDisk
  Protected = {d2}
  SectorBytes = 2
  ParamBytes = 2
  ResultBytes = 2
  Ops = {"readDma", "readPio", "verify", "write", "recalibrate"}
  Addresses = {3}
  ResetWhen = {"ready"}
  UsesRefresh = TRUE
  MaxBurst = 3
INVARIANTS TypeOK RequestMatchesPhase IrqMeansDone SectorDelivered
PROPERTIES CommandEnds RefreshGoesOn
