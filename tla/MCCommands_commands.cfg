\* Two commands at once, and the arguments and messages of any.
SPECIFICATION Spec
CONSTANTS
  c1 = c1
  c2 = c2
  n1 = n1
  n2 = n2
  n3 = n3
  t1 = t1
  NoName = NoName
  NoWhere = NoWhere
  NoError = NoError
  ZeroTime = ZeroTime
  Answers <- MCAnswers
  Refused = Refused
  MaxName = 3
  MaxPort = 3
  Processes = {c1, c2}
  Runs <- MCRuns
  Stores <- MCStores
  Order <- MCOrder
  Paths <- MCPaths
  DirName <- MCDirName
  Workspace <- MCWorkspace
  Faults <- AllFaults
CHECK_DEADLOCK FALSE
INVARIANTS
  ArgumentsMean
  ValuesSurvive
  ListingFaithful
  ReportsTruly
PROPERTIES
  RemovedAsAsked
  OthersPortsKept
  SessionIsOurs
