\* Liveness of one node's route discovery: two packets can wait for the same
\* destination, so that a retry count steps past RreqRetries.
SPECIFICATION FairSpec
CONSTANTS
  a = a
  b = b
  Addr = {a, b}
  NoAddr = NoAddr
  Iface = {1, 2}
  NoIface = NoIface
  IfaceOf <- MCIfaceOf
  MainOf <- MCMainOf
  Me = Me
  RreqRetries = 1
  RreqRateLimit = 1
  ReqCountModulus = 2
  MaxQueueLen = 2
  DestinationOnly = FALSE
  SeqNos = {1}
  HopCounts = {1}
  MaxPackets = 3
  MaxMessages = 1
PROPERTIES
  SearchEnds
  PacketsLeave
