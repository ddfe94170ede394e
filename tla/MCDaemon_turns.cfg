\* Commands look for the daemon one at a time; processes run, users do as
\* they like.
SPECIFICATION FairSpec
CONSTANTS
  d1 = d1
  d2 = d2
  d3 = d3
  c1 = c1
  c2 = c2
  Nobody = Nobody
  Daemons = {d1, d2, d3}
  Clients = {c1, c2}
  Wants = {"use", "start", "stop", "restart"}
  Faults <- DaemonFaults
  TakeTurns = TRUE
INVARIANTS
  ReachableWhileServing
PROPERTIES
  WaitsEnd
