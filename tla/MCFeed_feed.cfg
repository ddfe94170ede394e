SPECIFICATION FairSpec
CONSTANTS
  d1 = d1
  d2 = d2
  n1 = n1
  n2 = n2
  Decisions <- MCDecisions
  Sandboxes <- MCSandboxes
  SandboxOf <- MCSandboxOf
  NoSandbox = NoSandbox
  Reads = {k1, k2}
  LogLimit = 2
  HeldLimit = 2
  MaxSeq = 3
INVARIANTS
  NothingPassedOver
  FoldedRight
PROPERTIES
  CursorStays
  EveryDecisionShows
