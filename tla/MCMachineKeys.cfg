SPECIFICATION Spec
CONSTANTS
  PollInterval = 3
  MaxKeys = 2
  GuestOps = {"cli", "mask", "hlt", "sti"}
  Hookable = {"int08", "int09", "int1C"}
  Devices = {}
  BdaCapacity = 1
  TimerPeriod = 0
  MaxAux = 0
  MaxDepth = 2
INVARIANTS FrameDiscipline HandlerSeesItsKey TicksNotInvented
PROPERTIES BufferedOnceInOrder
