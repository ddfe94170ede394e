\* One sandbox, one call at a time, every fault.
SPECIFICATION Spec
CONSTANTS
  n1 = n1
  n2 = n2
  p1 = p1
  p2 = p2
  r1 = r1
  r2 = r2
  NoRecord = NoRecord
  NoName = NoName
  Names = {n1}
  Ports = {p1, p2}
  Requests = {r1}
  Clones = {n1}
  Egress = TRUE
  Faults <- AllFaults
  TakeTurns = TRUE
INVARIANTS
  SidecarsHaveRecord
  PolicySettled
  OrphansNeverRan
PROPERTIES
  StopTakesPortsOff
  RemoveLeavesNothing
  StartDelivers
  PublishDelivers
  CloneKept
