\* Safety of one node's route discovery.
SPECIFICATION Spec
CONSTANTS
  a = a
  b = b
  Addr = {a, b}
  NoAddr = NoAddr
  Iface = {1, 2}
  NoIface = NoIface
  IfaceOf <- MCIfaceOf
  MainOf <- MCMainOf
  Me = Me
  RreqRetries = 2
  RreqRateLimit = 1
  ReqCountModulus = 4
  MaxQueueLen = 1
  DestinationOnly = FALSE
  SeqNos = {1}
  HopCounts <- MCHopCounts
  MaxPackets = 2
  MaxMessages = 2
CONSTRAINT MCBudget
INVARIANTS
  TypeOK
  SearchSupervised
  NoOrphanPacket
  FreshRetryCount
  OneFate
PROPERTIES
  
  FailsForCause
  KeepsPromise
  SearchNearsEnd
