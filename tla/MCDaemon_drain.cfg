\* A restart while a session is open.
SPECIFICATION Spec
CONSTANTS
  d1 = d1
  d2 = d2
  d3 = d3
  c1 = c1
  c2 = c2
  Nobody = Nobody
  Daemons = {d1, d2, d3}
  Clients = {c1, c2}
  Wants = {"use", "restart"}
  Faults <- NoFaults
  TakeTurns = TRUE
SYMMETRY Alike
PROPERTIES
  RestartSucceeds
