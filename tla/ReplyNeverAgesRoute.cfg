\* A search for a route whose entry knows a newer sequence number.
SPECIFICATION Spec
CONSTANTS
  a = a
  b = b
  Addr = {a, b}
  NoAddr = NoAddr
  Iface = {1, 2}
  NoIface = NoIface
  IfaceOf <- MCIfaceOf
  MainOf <- MCMainOf
  Me = Me
  RreqRetries = 2
  RreqRateLimit = 10
  ReqCountModulus = 256
  MaxQueueLen = 64
  DestinationOnly = FALSE
  SeqNos <- MCSeqNos
  HopCounts <- MCHopCounts
  MaxPackets = 1
  MaxMessages = 2
PROPERTY
  ReplyNeverAgesRoute
