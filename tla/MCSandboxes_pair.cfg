\* Two sandboxes whose calls overlap, and that ask for the same host port; nothing goes
\* wrong.
SPECIFICATION Spec
CONSTANTS
  n1 = n1
  n2 = n2
  p1 = p1
  p2 = p2
  r1 = r1
  r2 = r2
  NoRecord = NoRecord
  NoName = NoName
  Names = {n1, n2}
  Ports = {p1}
  Requests = {r1, r2}
  Clones = {n1}
  Egress = FALSE
  Faults <- NoFaults
  TakeTurns = TRUE
SYMMETRY AnySlot
INVARIANTS
  RemotesMatchRecords
PROPERTIES
  KeepsPromise
