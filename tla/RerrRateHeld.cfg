\* More RERRs than RERR_RATELIMIT between two resets of the count.
SPECIFICATION RelaySpec
CONSTANTS
  a = a
  b = b
  n = n
  Addr = {a, b, n}
  NoAddr = NoAddr
  NoIface = NoIface
  Me = Me
  RreqRetries = 1
  RreqRateLimit = 1
  ReqCountModulus = 2
  MaxQueueLen = 1
  DestinationOnly = FALSE
  SeqNos <- MCSeqNos
  HopCounts <- MCHopCounts
  MaxPackets = 1
  MaxMessages = 3
  Iface = {1, 2}
  IfaceOf <- MCIfaceOf
  MainOf <- MCMainOf
  RerrRateLimit = 2
  Message <- MCMessage
  Broadcast <- MCBroadcast
  MaxRerrCount = 1
CONSTRAINT MCBudget
INVARIANT RerrRateHeld
