SPECIFICATION Spec
CONSTANTS
  Programs <- MCPrograms
  Cases <- MCCases
  Requests = {8}
  StackBottom = 1024
  TraceCount = 256
  OwnMemory <- Own
  Canary = {1402, 1403, 1404, 1405, 1406, 1407}
INVARIANTS TypeOK ArithmeticExact ComparisonsAgree BlocksMoved FramesRestored ProtectionKept
CHECK_DEADLOCK FALSE
