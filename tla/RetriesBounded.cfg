\* Three requests for one destination postponed by the rate limit.
SPECIFICATION Spec
CONSTANTS
  a = a
  b = b
  Addr = {a, b}
  NoAddr = NoAddr
  Iface = {1, 2}
  NoIface = NoIface
  IfaceOf <- MCIfaceOf
  MainOf <- MCMainOf
  Me = Me
  RreqRetries = 2
  RreqRateLimit = 1
  ReqCountModulus = 256
  MaxQueueLen = 64
  DestinationOnly = FALSE
  SeqNos <- MCSeqNos
  HopCounts <- MCHopCounts
  MaxPackets = 4
  MaxMessages = 0
INVARIANT
  RetriesBounded
