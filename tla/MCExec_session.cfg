\* One session, with or without a terminal; every fault, goroutines are scheduled.
SPECIFICATION FairSpec
CONSTANTS
  Codes <- MCCodes
  other = other
  Success = Success
  NoCode = NoCode
  Failed = Failed
  Faults <- AllFaults
  MaxTyped = 2
  MaxSizes = 2
  MaxPrinted = 1
  Window = 2
  InputRoom = 1
CHECK_DEADLOCK FALSE
INVARIANTS
  OpensSized
PROPERTIES
  KeepsPromise
  LastSizeArrives
  InputEnds
