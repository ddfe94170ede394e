\* One connection by each route; either end may leave, hops and processes fail.
SPECIFICATION FairSpec
CONSTANTS
  Routes <- AllRoutes
  PortSets <- OnePortTwice
  Faults <- AllFaults
  MaxSent = 2
  Room = 1
CHECK_DEADLOCK FALSE
INVARIANTS
  EndMeansAll
PROPERTIES
  EndArrives
  LetsGo
