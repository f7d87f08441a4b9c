SPECIFICATION Spec
CONSTANTS
  PollInterval = 2
  MaxKeys = 2
  GuestOps = {"cli", "mask"}
  Hookable = {"int0C", "int1C", "callback"}
  Devices = {4, 12}
  BdaCapacity = 1
  TimerPeriod = 0
  MaxAux = 5
  MaxDepth = 0
INVARIANTS TypeOK InServiceExact
PROPERTY InterruptTransparent
