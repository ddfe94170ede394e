SPECIFICATION Spec
CONSTANTS
  Hosts <- MCHosts
  Private <- MCPrivate
  TcpPorts <- MCTcpPorts
  Balanced <- MCBalanced
  Requests = {r1}
  Targets <- MCTargets
  Editors = {e1}
  Patterns <- MCPatterns
  Faults = {"unreadable", "refused"}
  MaxAddresses = 2
  LogLimit = 1
  NoPolicy = NoPolicy
  NoPattern = NoPattern
INVARIANTS
  OpenWasPermitted
PROPERTIES
  EveryOutcomeRecorded
  ChoicesSurvive
  DenyTakesHold
