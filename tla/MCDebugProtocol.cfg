CONSTANTS
  Clients = {c1}
  Addrs = {a1, a2}
  Writers = {a1}
  NoClient = NoClient
  NoAddr = NoAddr
  Tools = {"pause", "continue", "step", "read", "key", "breakpoint", "watchpoint"}
  MaxSteps = 2
SPECIFICATION FairSpec
INVARIANTS TypeOK SnapshotCurrent CommandServedOnce
PROPERTIES WatchpointStops CommandAnswered
