\* Commands overlap, daemons are started at once, killed, or slower than their commands.
SPECIFICATION Spec
CONSTANTS
  d1 = d1
  d2 = d2
  d3 = d3
  c1 = c1
  c2 = c2
  Nobody = Nobody
  Daemons = {d1, d2, d3}
  Clients = {c1, c2}
  Wants = {"use", "start", "stop", "restart"}
  Faults <- AllFaults
  TakeTurns = FALSE
SYMMETRY Alike
INVARIANTS
  OneDaemonServes
  CleansUpItsOwn
  PidNamesAnswering
