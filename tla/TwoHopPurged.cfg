\* A neighbour that data traffic keeps when its HELLO has become old.
SPECIFICATION Spec
CONSTANTS
  Peer <- MCFewPeer
  Me = 3
  Nobody <- MCNobody
  MinHello = 1
  Rule1 = TRUE
  Rule2 = TRUE
  Hello <- MCFewHello
  WeightFunction = "NODE_IP"
  InitWeight = 1
  InitStatus = {"CORE"}
  Traffic <- MCFewTraffic
  MaxHellos = 3
PROPERTIES
  TwoHopPurged
