SPECIFICATION FairSpec
CONSTANTS
  PollInterval = 3
  MaxKeys = 2
  GuestOps = {"cli", "hlt"}
  Hookable = {"int08", "int09"}
  Devices = {4}
  BdaCapacity = 1
  TimerPeriod = 3
  MaxAux = 0
  MaxDepth = 0
PROPERTIES KeyDelivered SerialDelivered
