\* Safety of a node's neighbour list and its decisions.
SPECIFICATION Spec
CONSTANTS
  Peer <- MCPeer
  Me = 3
  Nobody <- MCNobody
  MinHello = 1
  Rule1 = TRUE
  Rule2 = TRUE
  Hello <- MCHello
  WeightFunction = "NODE_DEGREE"
  InitWeight = 1
  InitStatus <- MCInitStatus
  Traffic <- MCTraffic
  MaxHellos = 4
INVARIANTS
  TypeOK
  HonestHello
  ConnectorStays
PROPERTIES
  QuitKeepsClients
  AssociatesUpwards
  LossesReported
