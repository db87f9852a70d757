\* Nodes that decide on each other's HELLOs.
SPECIFICATION Spec
CONSTANTS
  Node <- MCNode
  Nobody = 9
  Links <- MCLinks
  Weight <- MCWeight
  InitStatus <- MCInitStatus
  Rule1 = TRUE
  Rule2 = TRUE
INVARIANTS
  TypeOK
PROPERTIES
  StaysTogether
  SplitsOnlyWhenStale
