SPECIFICATION Spec
CONSTANTS
  Programs <- MCPrograms
  Cases <- PairCases
  Requests = {8}
  StackBottom = 1024
  TraceCount = 256
  OwnMemory <- Own
  Canary = {1402, 1403, 1404, 1405, 1406, 1407}
INVARIANTS PairAtomic
CHECK_DEADLOCK FALSE
