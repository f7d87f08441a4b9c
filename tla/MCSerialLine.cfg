SPECIFICATION FairSpec
CONSTANTS
  MaxCalls = 2
  GuardPolls = 2
  Known <- MCKnown
  MaxData = 2
  Sends <- MCSends
  MaxSends = 2
  Styles = {"poll", "irq"}
  EchoOn = FALSE
INVARIANTS TypeOK StreamIntact EscapeHeld
PROPERTIES LostCarrierNoticed ConnectionEnds
