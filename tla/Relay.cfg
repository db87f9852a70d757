\* What a node does for three neighbours on two interfaces.
SPECIFICATION RelaySpec
CONSTANTS
  a = a
  b = b
  n = n
  Addr = {a, b, n}
  NoAddr = NoAddr
  NoIface = NoIface
  Me = Me
  RreqRetries = 1
  RreqRateLimit = 1
  ReqCountModulus = 2
  MaxQueueLen = 1
  DestinationOnly = FALSE
  SeqNos <- MCSeqNos
  HopCounts <- MCHopCounts
  MaxPackets = 1
  MaxMessages = 3
  Iface = {1, 2}
  IfaceOf <- MCIfaceOf
  MainOf <- MCMainOf
  RerrRateLimit = 1
  Message <- MCMessage
  Broadcast <- MCBroadcast
  MaxRerrCount = 1
CONSTRAINT MCBudget
INVARIANT
  RelayTypeOK
PROPERTIES
  PrecursorsReal
  PrecursorsTold
  ErrorsHonoured
  BrokenRoutesGo
