\* Route discovery while interfaces come and go.
SPECIFICATION IfaceSpec
CONSTANTS
  a = a
  b = b
  i = i
  j = j
  Addr = {a, b}
  NoAddr = NoAddr
  NoIface = NoIface
  Me = Me
  RreqRetries = 2
  RreqRateLimit = 1
  ReqCountModulus = 3
  MaxQueueLen = 2
  DestinationOnly = FALSE
  SeqNos = {1}
  HopCounts = {2}
  MaxPackets = 2
  MaxMessages = 1
  Iface = {i, j}
  AnyIface = AnyIface
  IfaceOf <- MCIfaceOf
  MainOf <- MCMainOf
  MaxChanges = 2
CONSTRAINT MCBudget
INVARIANTS
  IfaceTypeOK
  RoutesHaveSockets
  SearchSupervised
  StrandedBehind
  OnePlace
  LostForCause
  SearchersSayHello
PROPERTIES
  FailsForCause
  KeepsPromise
  SearchOutlastsChanges
