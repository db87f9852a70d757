-------------------------- MODULE InterfacesProofs --------------------------
(***************************************************************************)
(* Proofs about Interfaces, for every set of interfaces, neighbours and    *)
(* packets and every bound.  What RouteDiscoveryProofs knows of a queued   *)
(* packet, that somebody looks after it, does not hold here; SearchInv is  *)
(* the part of its invariant that does.  To it come invariants about the   *)
(* timers, the places of the packets, and the packets that                 *)
(* SendPacketFromQueue leaves behind.                                      *)
(***************************************************************************)
EXTENDS Interfaces, RouteDiscoveryProofs

-----------------------------------------------------------------------------
(* The table. *)

\* Whatever loses an interface: entries go or stay as they are.
LEMMA ForgetCalm ==
  ASSUME NEW t, GoodTable(t), NEW i
  PROVE  Calm(t, DeleteAllRoutesFromInterface(t, i))
<1> DEFINE u == DeleteAllRoutesFromInterface(t, i)
<1>1. \A a \in Addr : u[a] = NoRoute \/ u[a] = t[a]
  BY DEF DeleteAllRoutesFromInterface
<1>2. \A a \in Addr : GoodEntry(a, t[a]) /\ GoodEntry(a, NoRoute)
  BY EntryOperations DEF GoodTable
<1>3. u = [a \in Addr |-> u[a]]
  BY DEF DeleteAllRoutesFromInterface
<1>4. NoRoute.flag # "IN_SEARCH" /\ ~NoHop(NoRoute)
  BY DEF NoRoute, NoHop
<1> HIDE DEF u
<1>5. \A a \in Addr : GoodEntry(a, u[a]) /\ u[a] \in Entry
  BY <1>1, <1>2 DEF GoodEntry
<1>6. u \in [Addr -> Entry]
  BY <1>3, <1>5
<1>7. GoodTable(u)
  BY <1>5, <1>6 DEF GoodTable
<1>8. NoNewSearch(t, u) /\ NoNewBroken(t, u)
  BY <1>1, <1>4 DEF NoNewSearch, NoNewBroken, InSearch
<1>9. QED BY <1>7, <1>8 DEF Calm, Quiet, u

LEMMA ClearCalm ==
  ASSUME NEW t
  PROVE  Calm(t, [a \in Addr |-> NoRoute]) /\ \A a \in Addr : ~InSearch([x \in Addr |-> NoRoute], a)
<1>1. /\ \A a \in Addr : GoodEntry(a, NoRoute)
      /\ NoRoute \in Entry /\ NoRoute.flag # "IN_SEARCH" /\ ~NoHop(NoRoute)
  BY NoAddrAssumption DEF GoodEntry, NoRoute, NoHop, Entry, Flags
<1>2. QED BY <1>1 DEF Calm, Quiet, GoodTable, NoNewSearch, NoNewBroken, InSearch

-----------------------------------------------------------------------------
(* Searches and types of the discovery. *)

SearchInv ==
  /\ GoodTable(rt)
  /\ TimersOK
  /\ PacketsOK
  /\ received \in 0..MaxMessages
  /\ \A d \in Addr : InSearch(rt, d) => Tended(d)

\* No search starts, or the hello timer runs after the step.
Announced == NoNewSearch(rt, rt') \/ htimer'

\* Who was tended still is, but perhaps for D.
TendsAllBut(D) == \A a \in Addr \ D : Tended(a) => Tended(a)'

\* A step that changes nothing but the table, quietly, and counts a message.
LEMMA TableKeeps ==
  ASSUME SearchInv, Quiet(rt, rt'), OnlyTable, received' \in 0..MaxMessages
  PROVE  SearchInv' /\ Announced /\ TendsAllBut({})
<1>1. TimersOK' /\ PacketsOK'
  BY DEF SearchInv, OnlyTable, packetVars, TimersOK, PacketsOK
<1>2. \A d \in Addr : Tended(d)' <=> Tended(d)
  BY DEF OnlyTable, Tended
<1>3. \A d \in Addr : InSearch(rt', d) => Tended(d)'
  BY <1>2 DEF SearchInv, Quiet, NoNewSearch
<1>4. QED BY <1>1, <1>2, <1>3 DEF SearchInv, TendsAllBut, Quiet, Announced

\* SendRequest (d), with the timer of d stopped before or not.
LEMMA RequestKeeps ==
  ASSUME SearchInv, NEW d \in Addr, NEW t, Calm(rt, t),
         NEW tm \in [Addr -> {Off} \cup 0..(ReqCountModulus - 1)],
         \A a \in Addr \ {d} : tm[a] = timer[a],
         SendRequest(t, tm, d), due' \in [Addr -> Nat],
         \A a \in Addr \ {d} : due'[a] = due[a],
         PacketsOK', received' = received
  PROVE  /\ SearchInv' /\ TendsAllBut({}) /\ Tended(d)'
         /\ NoNewSearch(rt, rt') \/ rreqCount' = rreqCount + 1
<1>1. TimersOK
  BY DEF SearchInv
<1>2. /\ GoodTable(rt')
      /\ timer' \in [Addr -> {Off} \cup 0..(ReqCountModulus - 1)]
      /\ waiting' \in [Addr -> Nat]
      /\ rreqCount' \in 0..RreqRateLimit
      /\ timer'[d] # Off \/ waiting'[d] > 0
      /\ \A a \in Addr \ {d} : timer'[a] = tm[a] /\ waiting'[a] = waiting[a]
      /\ \A a \in Addr \ {d} : InSearch(rt', a) => InSearch(rt, a)
  BY <1>1, SendRequestStep
<1>3. TimersOK'
  BY <1>2 DEF TimersOK
<1>4. Tended(d)' /\ \A a \in Addr \ {d} : Tended(a) => Tended(a)'
  BY <1>2 DEF Tended
<1>5. \A a \in Addr : InSearch(rt', a) => Tended(a)'
  BY <1>2, <1>4 DEF SearchInv
<1>6. NoNewSearch(rt, rt') \/ rreqCount' = rreqCount + 1
  BY DEF SendRequest, Calm, Quiet
<1>7. QED BY <1>2, <1>3, <1>4, <1>5, <1>6 DEF SearchInv, TendsAllBut

\* The timer of d stops, or nothing happens to the timers, when d is not
\* searched any more.
LEMMA StopKeeps ==
  ASSUME SearchInv, NEW d \in Addr, Calm(rt, rt'),
         \/ UNCHANGED timer
         \/ timer' = [timer EXCEPT ![d] = Off] /\ ~InSearch(rt', d),
         UNCHANGED <<waiting, due, rreqCount>>, PacketsOK', received' \in 0..MaxMessages
  PROVE  SearchInv' /\ Announced /\ TendsAllBut({d})
<1>1. TimersOK'
  BY DEF SearchInv, TimersOK
<1>2. \A a \in Addr \ {d} : Tended(a) => Tended(a)'
  BY DEF SearchInv, TimersOK, Tended
<1>3. InSearch(rt', d) => Tended(d)'
  BY DEF SearchInv, Calm, Quiet, NoNewSearch, Tended
<1>4. \A a \in Addr : InSearch(rt', a) => Tended(a)'
  BY <1>2, <1>3 DEF SearchInv, Calm, Quiet, NoNewSearch
<1>5. QED BY <1>1, <1>2, <1>4 DEF SearchInv, TendsAllBut, Calm, Quiet, Announced

-----------------------------------------------------------------------------
(* Each action keeps SearchInv. *)

LEMMA SendByPackets ==
  ASSUME PacketsOK, NEW d, NEW i, SendBy(d, i), UNCHANGED <<loopback, sent>>
  PROVE  PacketsOK'
<1>1. Dequeued(d, i) \subseteq queue /\ Expired(queue) \subseteq queue
  BY DEF Dequeued, WithDst, PurgeQueue, Expired
<1> DEFINE D == Dequeued(d, i) \ Bound(d, i)
           X == Expired(queue)
<1>2. D \subseteq Packet /\ X \subseteq Packet
  BY <1>1 DEF PacketsOK
<1>3. delivered' = delivered \cup Ids(D) /\ failed' = failed \cup Ids(X) /\ queue' \subseteq queue
  BY DEF SendBy, PurgeQueue
<1> HIDE DEF D, X
<1>4. Ids(D) \subseteq 1..MaxPackets /\ Ids(X) \subseteq 1..MaxPackets
  BY <1>2, IdsInRange
<1>5. QED BY <1>3, <1>4 DEF PacketsOK

LEMMA InterfaceChangeKeeps ==
  ASSUME SearchInv, NEW i \in Iface, InterfaceUp(i) \/ InterfaceDown(i) \/ AddressRemoved(i)
  PROVE  SearchInv' /\ Announced /\ TendsAllBut({})
<1>1. GoodTable(rt) /\ received' \in 0..MaxMessages /\ OnlyTable
  BY DEF SearchInv, InterfaceUp, InterfaceDown, AddressRemoved
<1>2. CASE InterfaceUp(i)
  BY <1>1, <1>2, PurgeCalm, TableKeeps DEF InterfaceUp, Calm
<1>3. CASE InterfaceDown(i)
  <2>1. \/ rt' = [a \in Addr |-> NoRoute]
        \/ rt' = DeleteAllRoutesFromInterface(rt, i)
    BY <1>3 DEF InterfaceDown, NoInterfacesLeft
  <2>2. Calm(rt, rt')
    BY <1>1, <2>1, ForgetCalm, ClearCalm
  <2>3. QED BY <1>1, <2>2, TableKeeps DEF Calm
<1>4. CASE AddressRemoved(i)
  <2> DEFINE t == DeleteAllRoutesFromInterface(rt, i)
  <2>1. rt' = Purge(t)
    BY <1>4 DEF AddressRemoved
  <2>2. Calm(rt, t) /\ GoodTable(t)
    BY <1>1, ForgetCalm DEF Calm, Quiet
  <2> HIDE DEF t
  <2>3. Calm(rt, rt')
    BY <2>1, <2>2, PurgeCalm, CalmTransitive
  <2>4. QED BY <1>1, <2>3, TableKeeps DEF Calm
<1>5. QED BY <1>2, <1>3, <1>4

LEMMA OutputRefusedKeeps ==
  ASSUME SearchInv, NEW d, NEW i, OutputRefused(d, i)
  PROVE  SearchInv' /\ Announced /\ TendsAllBut({})
<1>1. Calm(rt, rt')
  <2>1. rt' = rt \/ rt' = Purge(rt)
    BY DEF OutputRefused
  <2>2. GoodTable(rt) /\ Calm(rt, Purge(rt))
    BY PurgeCalm DEF SearchInv
  <2>3. QED BY <2>1, <2>2, CalmReflexive
<1>2. TimersOK' /\ received' = received
  BY DEF SearchInv, OutputRefused, Refuse, TimersOK
<1>3. PacketsOK'
  <2>1. sent + 1 \in 1..MaxPackets /\ sent' = sent + 1 /\ failed' = failed \cup {sent + 1}
    BY BoundsAssumption DEF OutputRefused, Refuse, SearchInv, PacketsOK
  <2>2. QED BY <2>1, BoundsAssumption DEF OutputRefused, Refuse, SearchInv, PacketsOK
<1>4. \A a \in Addr : Tended(a)' <=> Tended(a)
  BY DEF OutputRefused, Refuse, Tended
<1>5. \A a \in Addr : InSearch(rt', a) => Tended(a)'
  BY <1>1, <1>4 DEF SearchInv, Calm, Quiet, NoNewSearch
<1>6. QED BY <1>1, <1>2, <1>3, <1>4, <1>5 DEF SearchInv, Calm, Quiet, TendsAllBut, Announced

LEMMA OutputKeeps ==
  ASSUME SearchInv, NEW d \in Addr, NEW i, Output(d, i)
  PROVE  SearchInv' /\ Announced /\ TendsAllBut({})
<1>1. RouteOutput(d)
  BY DEF Output
<1>2. Calm(rt, rt')
  BY <1>1, PurgeCalm DEF SearchInv, RouteOutput
<1>3. TimersOK' /\ received' = received
  BY <1>1 DEF SearchInv, RouteOutput, TimersOK
<1>4. PacketsOK'
  BY <1>1, OutputPackets DEF SearchInv
<1>5. \A a \in Addr : Tended(a)' <=> Tended(a)
  BY <1>1 DEF RouteOutput, Tended
<1>6. \A a \in Addr : InSearch(rt', a) => Tended(a)'
  BY <1>2, <1>5 DEF SearchInv, Calm, Quiet, NoNewSearch
<1>7. QED BY <1>2, <1>3, <1>4, <1>5, <1>6 DEF SearchInv, Calm, Quiet, TendsAllBut, Announced

\* A packet that is queued is tended from then on.
LEMMA DeferredKeeps ==
  ASSUME SearchInv, NEW p, Deferred(p)
  PROVE  /\ SearchInv' /\ Announced /\ TendsAllBut({})
         /\ p \in Packet
         /\ ~IsQueued(queue, p) => Tended(p.dst)'
<1>1. DeferredRouteOutput(p) /\ PacketsOK
  BY DEF Deferred, SearchInv
<1>2. PacketsOK' /\ p \in Packet
  BY <1>1, EnqueueStep
<1>3. p.dst \in Addr /\ GoodTable(rt) /\ Calm(rt, Purge(rt)) /\ TimersOK
  BY <1>2, PurgeCalm DEF Packet, SearchInv
<1>4. due' = due /\ received' = received /\ received \in 0..MaxMessages
  BY <1>1 DEF DeferredRouteOutput, SearchInv
<1>5. CASE IsQueued(queue, p) \/ InSearch(rt, p.dst)
  <2>1. (rt' = rt \/ rt' = Purge(rt)) /\ UNCHANGED <<timer, waiting, rreqCount>>
    BY <1>1, <1>5 DEF DeferredRouteOutput, tableVars
  <2>2. Calm(rt, rt')
    BY <1>3, <2>1, CalmReflexive
  <2>3. TimersOK' /\ \A a \in Addr : Tended(a)' <=> Tended(a)
    BY <1>3, <1>4, <2>1 DEF TimersOK, Tended
  <2>4. \A a \in Addr : InSearch(rt', a) => Tended(a)'
    BY <2>2, <2>3 DEF SearchInv, Calm, Quiet, NoNewSearch
  <2>5. InSearch(rt, p.dst) => Tended(p.dst)'
    BY <1>3, <2>3 DEF SearchInv
  <2>6. QED BY <1>2, <1>4, <1>5, <2>2, <2>3, <2>4, <2>5
            DEF SearchInv, Calm, Quiet, TendsAllBut, Announced
<1>6. CASE ~IsQueued(queue, p) /\ ~InSearch(rt, p.dst)
  <2>1. SendRequest(Purge(rt), timer, p.dst)
    BY <1>1, <1>6 DEF DeferredRouteOutput
  <2>2. QED BY <1>2, <1>3, <1>4, <2>1, RequestKeeps DEF TimersOK, Deferred, RestartsHello, Announced
<1>7. QED BY <1>5, <1>6

LEMMA NotReceivedKeeps ==
  ASSUME SearchInv, NEW p, NotReceived(p)
  PROVE  SearchInv' /\ Announced /\ TendsAllBut({})
BY DEF SearchInv, NotReceived, TimersOK, PacketsOK, tableVars, TendsAllBut, Tended, InSearch,
       GoodTable, Announced, NoNewSearch

LEMMA PostponedKeeps ==
  ASSUME SearchInv, NEW d \in Addr, Postponed(d)
  PROVE  SearchInv' /\ Announced /\ TendsAllBut({})
<1>1. RunDeferredRequest(d) /\ TimersOK /\ Calm(rt, Purge(rt))
  BY PurgeCalm DEF Postponed, SearchInv
<1>2. due' \in [Addr -> Nat] /\ \A a \in Addr \ {d} : due'[a] = due[a]
  BY <1>1 DEF RunDeferredRequest, TimersOK
<1>3. PacketsOK' /\ received' = received /\ SendRequest(Purge(rt), timer, d)
  BY <1>1 DEF RunDeferredRequest, packetVars, PacketsOK, SearchInv
<1>4. QED BY <1>1, <1>2, <1>3, RequestKeeps DEF TimersOK, Postponed, RestartsHello, Announced

LEMMA RateLimitKeeps ==
  ASSUME SearchInv, RateLimitTimerExpire
  PROVE  SearchInv' /\ Announced /\ TendsAllBut({})
<1>1. RreqRateLimitTimerExpire
  BY DEF RateLimitTimerExpire
<1>2. TimersOK' /\ PacketsOK' /\ \A d \in Addr : Tended(d) => Tended(d)'
  BY <1>1, LimitsAssumption
     DEF SearchInv, RreqRateLimitTimerExpire, TimersOK, PacketsOK, packetVars, Tended
<1>3. rt' = rt /\ received' = received
  BY <1>1 DEF RreqRateLimitTimerExpire
<1>4. QED BY <1>2, <1>3 DEF SearchInv, TendsAllBut, Announced, NoNewSearch

\* The retry timer: the packets go on, fail, or stay with a new request.
LEMMA RequestTimerKeeps ==
  ASSUME SearchInv, NEW d \in Addr, RequestTimerExpire(d)
  PROVE  /\ SearchInv' /\ Announced /\ UNCHANGED <<loopback, sent>>
         /\ \/ TendsAllBut({d}) /\ \E i \in Iface : SendBy(d, i)
            \/ TendsAllBut({d}) /\ DropPacketWithDst(d) /\ UNCHANGED lost
            \/ TendsAllBut({}) /\ UNCHANGED <<queue, delivered, failed, lost>>
<1> DEFINE t == Purge(rt)
<1>1. Calm(rt, t) /\ GoodTable(t) /\ TimersOK /\ PacketsOK
  BY PurgeCalm DEF SearchInv, Calm, Quiet
<1>2. UNCHANGED <<due, loopback, sent, received>> /\ received' \in 0..MaxMessages
  BY DEF RequestTimerExpire, SearchInv
<1>3. \/ TakesRoute(t, d) /\ SendBy(d, t[d].iface)
      \/ GiveUp(t, d) /\ UNCHANGED lost
      \/ Retry(t, d) /\ UNCHANGED lost /\ RestartsHello
  BY DEF RequestTimerExpire
<1> HIDE DEF t
<1>4. CASE TakesRoute(t, d) /\ SendBy(d, t[d].iface)
  <2>1. rt' = t /\ ~InSearch(rt', d) /\ timer' = [timer EXCEPT ![d] = Off]
        /\ UNCHANGED <<waiting, rreqCount>>
    BY <1>4 DEF TakesRoute, IsValid, InSearch
  <2>2. PacketsOK'
    BY <1>1, <1>2, <1>4, SendByPackets
  <2>3. t[d].iface \in Iface
    BY <1>1, <1>4 DEF TakesRoute, IsValid, GoodTable, GoodEntry, Entry
  <2>4. QED BY <1>1, <1>2, <1>4, <2>1, <2>2, <2>3, StopKeeps
<1>5. CASE GiveUp(t, d) /\ UNCHANGED lost
  <2>1. rt' = DeleteRoute(t, d) /\ DropPacketWithDst(d) /\ timer' = [timer EXCEPT ![d] = Off]
        /\ UNCHANGED <<waiting, rreqCount>>
    BY <1>5 DEF GiveUp
  <2>2. Calm(rt, rt') /\ ~InSearch(rt', d)
    BY <1>1, <2>1, DeleteCalm, CalmTransitive
  <2>3. PacketsOK'
    BY <1>1, <1>2, <2>1, ClearQueueStep
  <2>4. QED BY <1>2, <1>5, <2>1, <2>2, <2>3, StopKeeps
<1>6. CASE Retry(t, d) /\ UNCHANGED lost /\ RestartsHello
  <2> DEFINE tm == [timer EXCEPT ![d] = Off]
  <2>1. tm \in [Addr -> {Off} \cup 0..(ReqCountModulus - 1)]
        /\ \A a \in Addr \ {d} : tm[a] = timer[a]
    BY <1>1 DEF TimersOK
  <2>2. SendRequest(t, tm, d) /\ UNCHANGED <<queue, delivered, failed>>
    BY <1>6 DEF Retry
  <2>4. rreqCount' = rreqCount + 1 => htimer'
    BY <1>6 DEF RestartsHello
  <2>3. PacketsOK' /\ due' \in [Addr -> Nat] /\ \A a \in Addr \ {d} : due'[a] = due[a]
    BY <1>1, <1>2, <2>2 DEF PacketsOK, TimersOK
  <2> HIDE DEF tm
  <2>5. QED BY <1>1, <1>2, <1>6, <2>1, <2>2, <2>3, <2>4, RequestKeeps DEF Announced
<1>7. QED BY <1>3, <1>4, <1>5, <1>6

LEMMA ReplyForMeKeeps ==
  ASSUME SearchInv, NEW s \in Addr, NEW d \in Addr, NEW seq \in SeqNos, NEW hop \in HopCounts,
         Direct(s, d, hop), ReplyForMe(s, d, seq, hop)
  PROVE  /\ SearchInv' /\ Announced /\ TendsAllBut({d}) /\ UNCHANGED <<loopback, sent>>
         /\ \E i : SendBy(d, i)
<1>1. /\ Receive /\ OwnReply(s, d, seq, hop) /\ SendBy(d, rt'[d].iface)
      /\ UNCHANGED <<waiting, due, rreqCount, loopback, sent>>
  BY DEF ReplyForMe
<1>2. /\ Calm(rt, rt')
      /\ \/ UNCHANGED timer
         \/ timer' = [timer EXCEPT ![d] = Off] /\ ~InSearch(rt', d)
  BY <1>1, OwnReplyTable DEF SearchInv
<1>3. PacketsOK'
  BY <1>1, SendByPackets DEF SearchInv
<1>4. received' \in 0..MaxMessages
  BY <1>1, ReceivedInRange DEF SearchInv
<1>5. SearchInv' /\ Announced /\ TendsAllBut({d})
  BY <1>1, <1>2, <1>3, <1>4, StopKeeps
<1>6. QED BY <1>1, <1>5

\* Every other message changes nothing but the table.
LEMMA OtherMessageQuiet ==
  ASSUME SearchInv, NEW s \in Addr,
         \/ OtherMessage(s)
         \/ \E o \in Addr, d \in Addr \cup {Me}, seq \in SeqNos,
              ask \in SeqNos \cup {Unknown}, hop \in HopCounts :
              Direct(s, o, hop) /\ Request(s, o, d, seq, ask, hop)
  PROVE  Quiet(rt, rt') /\ OnlyTable /\ Receive /\ UNCHANGED lost
<1>0. GoodTable(rt)
  BY DEF SearchInv
<1>1. CASE RecvIgnored(s) /\ UNCHANGED lost
  BY <1>0, <1>1, HeardTable DEF RecvIgnored, Calm
<1>2. CASE (RecvReplyAck(s) \/ \E seq \in SeqNos : RecvHello(s, seq)) /\ UNCHANGED lost
  BY <1>0, <1>2, AckTable, HelloTable DEF RecvReplyAck, RecvHello, Calm
<1>3. ASSUME NEW dsts, RecvError(s, dsts), UNCHANGED lost
      PROVE  Quiet(rt, rt') /\ OnlyTable /\ Receive /\ UNCHANGED lost
  BY <1>0, <1>3, ErrorTable DEF RecvError, Calm
<1>4. ASSUME NEW d \in Addr, NEW o \in Addr, NEW seq \in SeqNos, NEW hop \in HopCounts,
             Direct(s, d, hop), RecvReply(s, d, o, seq, hop), UNCHANGED lost
      PROVE  Quiet(rt, rt') /\ OnlyTable /\ Receive /\ UNCHANGED lost
  BY <1>0, <1>4, RelayTable DEF RecvReply, Calm
<1>5. ASSUME NEW o \in Addr, NEW d \in Addr \cup {Me}, NEW seq \in SeqNos,
             NEW ask \in SeqNos \cup {Unknown}, NEW hop \in HopCounts,
             Direct(s, o, hop), Request(s, o, d, seq, ask, hop)
      PROVE  Quiet(rt, rt') /\ OnlyTable /\ Receive /\ UNCHANGED lost
  <2>1. RecvRequest(s, o, d, seq, ask, hop) /\ UNCHANGED lost
    BY <1>5 DEF Request
  <2>2. QED BY <1>0, <1>5, <2>1, RequestTable DEF RecvRequest, Calm
<1>6. QED BY <1>1, <1>2, <1>3, <1>4, <1>5 DEF OtherMessage

LEMMA OtherMessageKeeps ==
  ASSUME SearchInv, NEW s \in Addr,
         \/ OtherMessage(s)
         \/ \E o \in Addr, d \in Addr \cup {Me}, seq \in SeqNos,
              ask \in SeqNos \cup {Unknown}, hop \in HopCounts :
              Direct(s, o, hop) /\ Request(s, o, d, seq, ask, hop)
  PROVE  SearchInv' /\ Announced /\ TendsAllBut({}) /\ UNCHANGED <<packetVars, lost>>
<1>1. Quiet(rt, rt') /\ OnlyTable /\ Receive /\ UNCHANGED lost
  BY OtherMessageQuiet
<1>2. received' \in 0..MaxMessages
  BY <1>1, ReceivedInRange DEF SearchInv
<1>3. QED BY <1>1, <1>2, TableKeeps DEF OnlyTable

\* What may happen to the packets in a step that leaves some d untended: those
\* queued for d are sent on, some may stay, or all of them are dropped.
QueueServed(d) ==
  /\ TendsAllBut({d})
  /\ UNCHANGED <<loopback, sent, oif>>
  /\ \/ \E i : SendBy(d, i)
     \/ DropPacketWithDst(d) /\ UNCHANGED lost

\* One of the events that move a single packet.
PacketMoves ==
  \/ \E d \in Addr, i \in Iface \cup {AnyIface} : Output(d, i) \/ OutputRefused(d, i)
  \/ \E p \in loopback : Deferred(p) \/ NotReceived(p)
  \/ \E p \in queue : PacketLifetimePasses(p) /\ UNCHANGED historyVars

LEMMA ElsewhereKeeps ==
  ASSUME SearchInv, Elsewhere
  PROVE  /\ SearchInv' /\ Announced /\ TendsAllBut({})
         /\ UNCHANGED <<packetVars, historyVars>> \/ PacketMoves
<1>1. Environment /\ UNCHANGED historyVars /\ GoodTable(rt) /\ received \in 0..MaxMessages
  BY DEF Elsewhere, SearchInv
<1>2. ASSUME \/ \E a \in Addr : SendRerrWhenBreaksLinkToNextHop(a) \/ LifetimePasses(a)
             \/ LookupRoute
      PROVE  SearchInv' /\ Announced /\ TendsAllBut({}) /\ UNCHANGED packetVars
  BY <1>1, <1>2, EnvironmentTable, TableKeeps DEF OnlyTable, Calm
<1>3. ASSUME NEW p \in queue, PacketLifetimePasses(p)
      PROVE  SearchInv' /\ Announced /\ TendsAllBut({})
  <2>1. PacketsOK
    BY DEF SearchInv
  <2>2. [p EXCEPT !.live = FALSE] \in Packet
    BY <2>1 DEF PacketsOK, Packet
  <2>3. PacketsOK'
    BY <1>3, <2>1, <2>2 DEF PacketLifetimePasses, PacketsOK
  <2>4. UNCHANGED <<tableVars, due, received>>
    BY <1>3 DEF PacketLifetimePasses
  <2>5. TimersOK' /\ \A a \in Addr : Tended(a)' <=> Tended(a)
    BY <2>4 DEF SearchInv, TimersOK, tableVars, Tended
  <2>6. rt' = rt /\ received' = received
    BY <2>4 DEF tableVars
  <2>7. QED BY <2>3, <2>5, <2>6 DEF SearchInv, TendsAllBut, Announced, NoNewSearch
<1>4. QED BY <1>1, <1>2, <1>3 DEF Environment, PacketMoves

\* Every step keeps SearchInv; the packets rest, one moves, or those of some
\* destination leave the queue.
LEMMA IfaceStep ==
  ASSUME SearchInv, [IfaceNext]_ifaceVars
  PROVE  /\ SearchInv' /\ Announced
         /\ \/ \E d \in Addr : QueueServed(d)
            \/ TendsAllBut({}) /\ (UNCHANGED <<packetVars, historyVars>> \/ PacketMoves)
<1>1. CASE \E i \in Iface : InterfaceUp(i) \/ InterfaceDown(i) \/ AddressRemoved(i)
  BY <1>1, InterfaceChangeKeeps
     DEF InterfaceUp, InterfaceDown, AddressRemoved, OnlyTable
<1>2. CASE UNCHANGED ifaceVars \/ \E k \in first : FirstExpiry(k)
  <2>1. UNCHANGED <<vars, historyVars>>
    BY <1>2 DEF FirstExpiry, ifaceVars, historyVars
  <2>2. QED BY <2>1 DEF vars, packetVars, SearchInv, GoodTable, TimersOK, PacketsOK, Tended,
               TendsAllBut, InSearch, Announced, NoNewSearch
<1>3. CASE \E d \in Addr, i \in Iface \cup {AnyIface} : Output(d, i) \/ OutputRefused(d, i)
  BY <1>3, OutputKeeps, OutputRefusedKeeps DEF PacketMoves
<1>4. CASE \E p \in loopback : Deferred(p) \/ NotReceived(p)
  BY <1>4, DeferredKeeps, NotReceivedKeeps DEF PacketMoves
<1>5. ASSUME NEW d \in Addr, Postponed(d)
      PROVE  SearchInv' /\ Announced /\ TendsAllBut({}) /\ UNCHANGED <<packetVars, historyVars>>
  BY <1>5, PostponedKeeps DEF Postponed, RunDeferredRequest, Unbothered, historyVars
<1>6. ASSUME NEW d \in Addr, RequestTimerExpire(d)
      PROVE  /\ SearchInv' /\ Announced
             /\ \/ QueueServed(d)
                \/ TendsAllBut({}) /\ UNCHANGED <<packetVars, historyVars>>
  <2>1. oif' = oif
    BY <1>6 DEF RequestTimerExpire, Unbothered
  <2>2. QED BY <1>6, <2>1, RequestTimerKeeps DEF QueueServed, packetVars, historyVars
<1>7. CASE RateLimitTimerExpire
  BY <1>7, RateLimitKeeps DEF RateLimitTimerExpire, RreqRateLimitTimerExpire
<1>8. ASSUME NEW s \in Addr, Receives(s)
      PROVE  /\ SearchInv' /\ Announced
             /\ \/ \E d \in Addr : QueueServed(d)
                \/ TendsAllBut({}) /\ UNCHANGED <<packetVars, historyVars>>
  <2>1. oif' = oif
    BY <1>8 DEF Receives, Unbothered
  <2>2. ASSUME NEW d \in Addr, NEW seq \in SeqNos, NEW hop \in HopCounts,
               Direct(s, d, hop), ReplyForMe(s, d, seq, hop)
        PROVE  SearchInv' /\ Announced /\ QueueServed(d)
    BY <2>1, <2>2, ReplyForMeKeeps DEF QueueServed
  <2>3. CASE \/ OtherMessage(s)
             \/ \E o \in Addr, d \in Addr \cup {Me}, seq \in SeqNos,
                  ask \in SeqNos \cup {Unknown}, hop \in HopCounts :
                  Direct(s, o, hop) /\ Request(s, o, d, seq, ask, hop)
    BY <2>1, <2>3, OtherMessageKeeps DEF historyVars
  <2>4. QED BY <1>8, <2>2, <2>3 DEF Receives
<1>9. CASE Elsewhere
  BY <1>9, ElsewhereKeeps
<1>10. QED BY <1>1, <1>2, <1>3, <1>4, <1>5, <1>6, <1>7, <1>8, <1>9 DEF IfaceNext

LEMMA InitSearchInv == Init => SearchInv
<1> SUFFICES ASSUME Init PROVE SearchInv
  OBVIOUS
<1>1. IInv
  BY InitIInv
<1>2. QED BY <1>1, IInvParts DEF SearchInv

LEMMA SearchInvariance == IfaceSpec => []SearchInv
<1>1. IfaceInit => SearchInv
  BY InitSearchInv DEF IfaceInit
<1>2. SearchInv /\ [IfaceNext]_ifaceVars => SearchInv'
  BY IfaceStep
<1>3. QED BY <1>1, <1>2, PTL DEF IfaceSpec

\* SearchesStaySupervised: interfaces that come and go, cleared tables and
\* packets that were left behind do not cost a search its timer or its request.
THEOREM SearchesStaySupervised == IfaceSpec => []SearchSupervised
<1>1. SearchInv => SearchSupervised
  BY DEF SearchInv, TimersOK, Tended, SearchSupervised
<1>2. QED BY <1>1, SearchInvariance, PTL

-----------------------------------------------------------------------------
(* Interfaces and timers. *)

\* Only these actions change the interfaces.
LEMMA LinkSteps ==
  ASSUME [IfaceNext]_ifaceVars
  PROVE  \/ UNCHANGED linkVars
         \/ \E i \in Iface : InterfaceUp(i) \/ InterfaceDown(i) \/ AddressRemoved(i)
BY DEF IfaceNext, ifaceVars, linkVars, FirstExpiry, Output, OutputRefused, Refuse, Deferred,
       NotReceived, Postponed, RequestTimerExpire, RateLimitTimerExpire, Receives, Elsewhere,
       Unbothered

TimersTyped == htimer \in BOOLEAN /\ ltimer \in BOOLEAN /\ first \subseteq {"hello", "long"}

\* What a step may do to the timers: set the hello timer going, start one of
\* them for the first time, or stop both and clear the table.
HelloStarts == UNCHANGED <<first, ltimer>> /\ htimer' \in {htimer, TRUE}

TimersStop == \E i \in Iface : InterfaceDown(i) /\ NoInterfacesLeft /\ UNCHANGED first

LEMMA TimerSteps ==
  ASSUME TimersTyped, [IfaceNext]_ifaceVars
  PROVE  HelloStarts \/ TimersStop \/ \E k \in first : FirstExpiry(k)
<1>1. CASE \E i \in Iface : InterfaceUp(i) \/ InterfaceDown(i) \/ AddressRemoved(i)
  BY <1>1 DEF InterfaceUp, InterfaceDown, AddressRemoved, timerVars, HelloStarts, TimersStop
<1>2. CASE \E d \in Addr, i \in Iface \cup {AnyIface} : Output(d, i) \/ OutputRefused(d, i)
  BY <1>2 DEF Output, OutputRefused, Refuse, timerVars, HelloStarts
<1>3. ASSUME RestartsHello \/ UNCHANGED htimer, Unbothered
      PROVE  HelloStarts
  BY <1>3 DEF RestartsHello, Unbothered, HelloStarts, TimersTyped
<1>4. CASE \E p \in loopback : Deferred(p) \/ NotReceived(p)
  BY <1>3, <1>4 DEF Deferred, NotReceived
<1>5. CASE \E d \in Addr : Postponed(d) \/ RequestTimerExpire(d)
  BY <1>3, <1>5 DEF Postponed, RequestTimerExpire
<1>6. ASSUME NEW s \in Addr, Receives(s)
      PROVE  HelloStarts
  BY <1>6 DEF Receives, OtherMessage, ReplyForMe, Request, Unbothered, HelloStarts
<1>7. CASE RateLimitTimerExpire \/ Elsewhere \/ UNCHANGED ifaceVars
  BY <1>7 DEF RateLimitTimerExpire, Elsewhere, ifaceVars, timerVars, HelloStarts
<1>8. QED BY <1>1, <1>2, <1>4, <1>5, <1>6, <1>7 DEF IfaceNext

LinksTyped == up \subseteq Iface /\ cleared \in BOOLEAN /\ changes \in 0..MaxChanges

\* The inductive invariant of interfaces and timers.
TimerInv == LinksTyped /\ TimersTyped /\ SearchersSayHello

LEMMA LinksStep ==
  ASSUME LinksTyped, [IfaceNext]_ifaceVars
  PROVE  LinksTyped' /\ (cleared => cleared')
<1>1. CASE UNCHANGED linkVars
  BY <1>1 DEF LinksTyped, linkVars
<1>2. ASSUME NEW i \in Iface, InterfaceUp(i) \/ InterfaceDown(i) \/ AddressRemoved(i)
      PROVE  LinksTyped' /\ (cleared => cleared')
  <2>1. changes' \in 0..MaxChanges
    BY <1>2, ChangesAssumption DEF LinksTyped, Change, InterfaceUp, InterfaceDown, AddressRemoved
  <2>2. up' \subseteq Iface /\ (cleared' = cleared \/ cleared' = TRUE)
    BY <1>2 DEF LinksTyped, InterfaceUp, InterfaceDown, AddressRemoved, NoInterfacesLeft
  <2>3. cleared' \in BOOLEAN
    BY <2>2 DEF LinksTyped
  <2>4. cleared => cleared'
    BY <2>2
  <2>5. QED BY <2>1, <2>2, <2>3, <2>4 DEF LinksTyped
<1>3. QED BY <1>1, <1>2, LinkSteps

LEMMA TimerInvStep ==
  ASSUME SearchInv, TimerInv, [IfaceNext]_ifaceVars
  PROVE  TimerInv'
<1>1. Announced /\ LinksTyped' /\ (cleared => cleared')
  BY IfaceStep, LinksStep DEF TimerInv
<1>2. CASE HelloStarts
  BY <1>1, <1>2 DEF HelloStarts, TimerInv, TimersTyped, SearchersSayHello, Announced,
     NoNewSearch
<1>3. CASE TimersStop
  <2>1. rt' = [a \in Addr |-> NoRoute] /\ htimer' = FALSE /\ ltimer' = FALSE /\ cleared' = TRUE
        /\ first' = first
    BY <1>3 DEF TimersStop, NoInterfacesLeft
  <2>2. \A a \in Addr : ~InSearch(rt', a)
    BY <2>1, ClearCalm
  <2>3. QED BY <1>1, <2>1, <2>2 DEF TimerInv, TimersTyped, SearchersSayHello
<1>4. ASSUME NEW k \in first, FirstExpiry(k)
      PROVE  TimerInv'
  <2>1. rt' = rt /\ UNCHANGED cleared
    BY <1>4 DEF FirstExpiry, vars, linkVars
  <2>2. /\ first' = first \ {k} /\ htimer' = (htimer \/ k = "hello")
        /\ ltimer' = (ltimer \/ k = "long")
    BY <1>4 DEF FirstExpiry
  <2>3. TimersTyped'
    BY <2>2 DEF TimerInv, TimersTyped
  <2>4. SearchersSayHello'
    BY <2>1, <2>2 DEF TimerInv, SearchersSayHello
  <2>5. QED BY <1>1, <2>3, <2>4 DEF TimerInv
<1>5. QED BY <1>2, <1>3, <1>4, TimerSteps DEF TimerInv

LEMMA TimerInvariance == IfaceSpec => [](SearchInv /\ TimerInv)
<1>1. ASSUME IfaceInit
      PROVE  TimerInv
  <2>1. \A d \in Addr : ~InSearch(rt, d)
    BY <1>1, ClearCalm DEF IfaceInit, Init
  <2>2. up \subseteq Iface /\ cleared = FALSE /\ changes \in 0..MaxChanges
    BY <1>1, ChangesAssumption DEF IfaceInit
  <2>3. htimer = FALSE /\ ltimer = FALSE /\ first = {"hello", "long"}
    BY <1>1 DEF IfaceInit
  <2>4. QED BY <2>1, <2>2, <2>3 DEF TimerInv, LinksTyped, TimersTyped, SearchersSayHello
<1>2. SearchInv /\ TimerInv /\ [IfaceNext]_ifaceVars => TimerInv'
  BY TimerInvStep
<1>3. QED BY <1>1, <1>2, SearchInvariance, PTL DEF IfaceSpec

\* SearchingNodesSayHello: a node that searches a route sends hellos, whatever
\* became of its interfaces since SendRequest set the timer going.
THEOREM SearchingNodesSayHello == IfaceSpec => []SearchersSayHello
<1>1. TimerInv => SearchersSayHello
  BY DEF TimerInv
<1>2. QED BY <1>1, TimerInvariance, PTL

-----------------------------------------------------------------------------
(* Every packet is in one place. *)

\* OnePlace with its five places written out; queued packets differ in their ids.
Places ==
  /\ 1..sent = Ids(loopback) \cup Ids(queue) \cup delivered \cup failed \cup Ids(lost)
  /\ Ids(loopback) \cap Ids(queue) = {}
  /\ Ids(loopback) \cap delivered = {}
  /\ Ids(loopback) \cap failed = {}
  /\ Ids(loopback) \cap Ids(lost) = {}
  /\ Ids(queue) \cap delivered = {}
  /\ Ids(queue) \cap failed = {}
  /\ Ids(queue) \cap Ids(lost) = {}
  /\ delivered \cap failed = {}
  /\ delivered \cap Ids(lost) = {}
  /\ failed \cap Ids(lost) = {}
  /\ \A p, q \in loopback \cup queue : p.id = q.id => p = q

LEMMA PlacesGiveOnePlace == Places => OnePlace
<1> SUFFICES ASSUME Places PROVE OnePlace
  OBVIOUS
<1> DEFINE places == <<Ids(loopback), Ids(queue), delivered, failed, Ids(lost)>>
<1>1. /\ places[1] = Ids(loopback) /\ places[2] = Ids(queue)
      /\ places[3] = delivered /\ places[4] = failed /\ places[5] = Ids(lost)
  OBVIOUS
<1>2. 1..5 = {1, 2, 3, 4, 5}
  OBVIOUS
<1> HIDE DEF places
<1>3. UNION {places[i] : i \in 1..5} = 1..sent
  <2>1. UNION {places[i] : i \in 1..5}
          = places[1] \cup places[2] \cup places[3] \cup places[4] \cup places[5]
    BY <1>2
  <2>2. QED BY <1>1, <2>1 DEF Places
<1>4. \A i, j \in 1..5 : i # j => places[i] \cap places[j] = {}
  BY <1>1, <1>2 DEF Places
<1>5. QED BY <1>3, <1>4 DEF OnePlace, places

\* A step that moves packets of the queue to delivered, failed and lost.
LEMMA QueueMovesPlaces ==
  ASSUME Places, NEW D \in SUBSET queue, NEW F \in SUBSET (queue \ D),
         NEW L \in SUBSET ((queue \ D) \ F), queue' = ((queue \ D) \ F) \ L,
         delivered' = delivered \cup Ids(D), failed' = failed \cup Ids(F),
         lost' = lost \cup L, UNCHANGED <<loopback, sent>>
  PROVE  Places'
<1>1. \A p, q \in loopback \cup queue : p.id = q.id => p = q
  BY DEF Places
<1>2. Ids(queue) = Ids(queue') \cup Ids(D) \cup Ids(F) \cup Ids(L)
  BY DEF Ids
<1>3. /\ Ids(queue') \cap Ids(D) = {} /\ Ids(queue') \cap Ids(F) = {}
      /\ Ids(queue') \cap Ids(L) = {} /\ Ids(D) \cap Ids(F) = {}
      /\ Ids(D) \cap Ids(L) = {} /\ Ids(F) \cap Ids(L) = {}
  BY <1>1 DEF Ids
<1>4. Ids(loopback') = Ids(loopback) /\ sent' = sent /\ Ids(lost') = Ids(lost) \cup Ids(L)
  BY DEF Ids
<1>5. \A p, q \in loopback' \cup queue' : p.id = q.id => p = q
  BY <1>1
<1>6. QED BY <1>2, <1>3, <1>4, <1>5 DEF Places

LEMMA ServedPlaces ==
  ASSUME Places, NEW d, QueueServed(d)
  PROVE  Places'
<1> DEFINE X == Expired(queue)
           W == WithDst(queue, d)
<1>1. X \subseteq queue /\ W \subseteq queue /\ X \cap W = {} /\ PurgeQueue(queue) = queue \ X
  BY DEF Expired, WithDst, PurgeQueue
<1>2. UNCHANGED <<loopback, sent>>
  BY DEF QueueServed
<1>3. ASSUME NEW i, SendBy(d, i)
      PROVE  Places'
  <2> DEFINE D == Dequeued(d, i) \ Bound(d, i)
             L == Dequeued(d, i) \cap Bound(d, i)
  <2>1. Dequeued(d, i) \subseteq W
    BY DEF Dequeued
  <2>2. /\ queue' = (queue \ X) \ Dequeued(d, i) /\ delivered' = delivered \cup Ids(D)
        /\ failed' = failed \cup Ids(X) /\ lost' = lost \cup L
    BY <1>1, <1>3 DEF SendBy
  <2>3. queue' = ((queue \ D) \ X) \ L
    BY <2>2
  <2>4. D \in SUBSET queue /\ X \in SUBSET (queue \ D) /\ L \in SUBSET ((queue \ D) \ X)
    BY <1>1, <2>1
  <2> HIDE DEF D, L, X
  <2>5. QED BY <1>2, <2>2, <2>3, <2>4, QueueMovesPlaces
<1>4. CASE DropPacketWithDst(d) /\ UNCHANGED lost
  <2>1. /\ queue' = ((queue \ {}) \ (X \cup W)) \ {} /\ delivered' = delivered \cup Ids({})
        /\ failed' = failed \cup Ids(X \cup W) /\ lost' = lost \cup {}
    BY <1>1, <1>4 DEF DropPacketWithDst, Ids
  <2>2. X \cup W \in SUBSET (queue \ {}) /\ {} \in SUBSET ((queue \ {}) \ (X \cup W))
    BY <1>1
  <2> HIDE DEF X, W
  <2>3. QED BY <1>2, <2>1, <2>2, QueueMovesPlaces
<1>5. QED BY <1>3, <1>4 DEF QueueServed

\* A new packet leaves, is refused, or goes to the loopback device.
LEMMA SubmitPlaces ==
  ASSUME SearchInv, Places, NEW d, NEW i, Output(d, i) \/ OutputRefused(d, i)
  PROVE  Places'
<1> DEFINE n == sent + 1
           p == [id |-> n, dst |-> d, live |-> TRUE]
<1>1. sent \in Nat
  BY BoundsAssumption DEF SearchInv, PacketsOK
<1>2. sent' = n /\ 1..n = 1..sent \cup {n} /\ n \notin 1..sent
  BY <1>1 DEF Output, RouteOutput, OutputRefused, Refuse
<1>3. n \notin Ids(loopback) \cup Ids(queue) \cup delivered \cup failed \cup Ids(lost)
  BY <1>2 DEF Places
<1>4. queue' = queue /\ lost' = lost
  BY DEF Output, RouteOutput, OutputRefused, Refuse, historyVars
<1>5. p.id = n
  OBVIOUS
<1>6. \/ delivered' = delivered \cup {n} /\ UNCHANGED <<loopback, failed>>
      \/ failed' = failed \cup {n} /\ UNCHANGED <<loopback, delivered>>
      \/ loopback' = loopback \cup {p} /\ UNCHANGED <<delivered, failed>>
  BY DEF Output, RouteOutput, OutputRefused, Refuse
<1> HIDE DEF n, p
<1>7. CASE delivered' = delivered \cup {n} /\ UNCHANGED <<loopback, failed>>
  BY <1>2, <1>3, <1>4, <1>7 DEF Places
<1>8. CASE failed' = failed \cup {n} /\ UNCHANGED <<loopback, delivered>>
  BY <1>2, <1>3, <1>4, <1>8 DEF Places
<1>9. CASE loopback' = loopback \cup {p} /\ UNCHANGED <<delivered, failed>>
  <2>1. Ids(loopback') = Ids(loopback) \cup {n}
    BY <1>5, <1>9 DEF Ids
  <2>2. \A q, r \in loopback' \cup queue' : q.id = r.id => q = r
    BY <1>3, <1>4, <1>5, <1>9 DEF Places, Ids
  <2>3. QED BY <1>2, <1>3, <1>4, <1>9, <2>1, <2>2 DEF Places
<1>10. QED BY <1>6, <1>7, <1>8, <1>9

LEMMA DeferredPlaces ==
  ASSUME SearchInv, Places, NEW p, Deferred(p)
  PROVE  Places' /\ ~IsQueued(queue, p)
<1> DEFINE X == Expired(queue)
           E == Evicted(queue, MaxQueueLen)
           F == X \cup E
<1>1. queue \subseteq Packet /\ p \in loopback /\ DeferredRouteOutput(p) /\ lost' = lost
  BY DEF SearchInv, PacketsOK, Deferred, DeferredRouteOutput
<1>2. X \subseteq queue /\ E \subseteq PurgeQueue(queue) /\ PurgeQueue(queue) = queue \ X
  BY <1>1, EvictedInQueue DEF Expired, PurgeQueue
<1>3. ~IsQueued(queue, p)
  BY <1>1 DEF IsQueued, PurgeQueue, Places, Ids
<1>4. /\ queue' = (queue \ F) \cup {p} /\ failed' = failed \cup Ids(F)
      /\ loopback' = loopback \ {p} /\ delivered' = delivered /\ sent' = sent
  BY <1>1, <1>2, <1>3 DEF DeferredRouteOutput, Enqueue, EnqueueDrops
<1>5. F \subseteq queue
  BY <1>2
<1> HIDE DEF F
<1>6. \A q, r \in loopback \cup queue : q.id = r.id => q = r
  BY DEF Places
<1>7. /\ Ids(loopback) = Ids(loopback') \cup {p.id}
      /\ p.id \notin Ids(loopback')
  BY <1>1, <1>4, <1>6 DEF Ids
<1>8. /\ Ids(queue') = Ids(queue \ F) \cup {p.id}
      /\ Ids(queue) = Ids(queue \ F) \cup Ids(F)
      /\ Ids(queue \ F) \cap Ids(F) = {}
  BY <1>4, <1>5, <1>6 DEF Ids
<1>9. \A q, r \in loopback' \cup queue' : q.id = r.id => q = r
  <2>1. loopback' \cup queue' \subseteq loopback \cup queue
    BY <1>1, <1>4
  <2>2. QED BY <1>6, <2>1
<1> DEFINE lostIds == Ids(lost)
           rest == Ids(queue \ F)
<1>10. /\ 1..sent = Ids(loopback) \cup Ids(queue) \cup delivered \cup failed \cup lostIds
       /\ Ids(loopback) \cap Ids(queue) = {} /\ Ids(loopback) \cap delivered = {}
       /\ Ids(loopback) \cap failed = {} /\ Ids(loopback) \cap lostIds = {}
       /\ Ids(queue) \cap delivered = {} /\ Ids(queue) \cap failed = {}
       /\ Ids(queue) \cap lostIds = {} /\ delivered \cap failed = {}
       /\ delivered \cap lostIds = {} /\ failed \cap lostIds = {}
  BY DEF Places
<1>11. Ids(lost') = lostIds /\ Ids(queue') = rest \cup {p.id} /\ Ids(queue) = rest \cup Ids(F)
       /\ rest \cap Ids(F) = {}
  BY <1>1, <1>8
<1> HIDE DEF lostIds, rest
<1>12. 1..sent' = Ids(loopback') \cup Ids(queue') \cup delivered' \cup failed' \cup Ids(lost')
  BY <1>4, <1>7, <1>10, <1>11
<1>13. /\ Ids(loopback') \cap Ids(queue') = {} /\ Ids(loopback') \cap delivered' = {}
       /\ Ids(loopback') \cap failed' = {} /\ Ids(loopback') \cap Ids(lost') = {}
  <2>1. Ids(loopback') \subseteq Ids(loopback) /\ Ids(F) \subseteq Ids(queue)
        /\ rest \subseteq Ids(queue)
    BY <1>7, <1>11
  <2>2. Ids(loopback') \cap Ids(queue') = {}
    BY <1>7, <1>10, <1>11, <2>1
  <2>3. Ids(loopback') \cap failed' = {}
    BY <1>4, <1>10, <2>1
  <2>4. Ids(loopback') \cap delivered' = {} /\ Ids(loopback') \cap Ids(lost') = {}
    BY <1>4, <1>10, <1>11, <2>1
  <2>5. QED BY <2>2, <2>3, <2>4
<1>14. /\ Ids(queue') \cap delivered' = {} /\ Ids(queue') \cap failed' = {}
       /\ Ids(queue') \cap Ids(lost') = {}
  BY <1>4, <1>7, <1>10, <1>11
<1>15. /\ delivered' \cap failed' = {} /\ delivered' \cap Ids(lost') = {}
       /\ failed' \cap Ids(lost') = {}
  BY <1>4, <1>10, <1>11
<1>16. QED BY <1>3, <1>9, <1>12, <1>13, <1>14, <1>15 DEF Places

LEMMA NotReceivedPlaces ==
  ASSUME Places, NEW p, NotReceived(p)
  PROVE  Places'
<1>1. /\ p \in loopback /\ loopback' = loopback \ {p} /\ lost' = lost \cup {p}
      /\ UNCHANGED <<queue, sent, delivered, failed>>
  BY DEF NotReceived
<1>2. \A q, r \in loopback \cup queue : q.id = r.id => q = r
  BY DEF Places
<1>3. /\ Ids(loopback) = Ids(loopback') \cup {p.id} /\ p.id \notin Ids(loopback')
      /\ Ids(lost') = Ids(lost) \cup {p.id} /\ Ids(queue') = Ids(queue)
  BY <1>1, <1>2 DEF Ids
<1>4. \A q, r \in loopback' \cup queue' : q.id = r.id => q = r
  BY <1>1, <1>2
<1>5. /\ 1..sent' = Ids(loopback') \cup Ids(queue') \cup delivered' \cup failed' \cup Ids(lost')
      /\ Ids(loopback') \subseteq Ids(loopback) /\ p.id \in Ids(loopback)
  BY <1>1, <1>3 DEF Places
<1>6. /\ Ids(loopback') \cap Ids(queue') = {} /\ Ids(loopback') \cap delivered' = {}
      /\ Ids(loopback') \cap failed' = {}
      /\ Ids(queue') \cap delivered' = {} /\ Ids(queue') \cap failed' = {}
      /\ delivered' \cap failed' = {}
  BY <1>1, <1>3, <1>5 DEF Places
<1>7. /\ Ids(loopback') \cap Ids(lost') = {} /\ Ids(queue') \cap Ids(lost') = {}
      /\ delivered' \cap Ids(lost') = {} /\ failed' \cap Ids(lost') = {}
  <2>1. p.id \notin Ids(loopback') \cup Ids(queue) \cup delivered \cup failed
    BY <1>3, <1>5 DEF Places
  <2>2. Ids(loopback') \cap Ids(lost) = {} /\ Ids(queue) \cap Ids(lost) = {}
        /\ delivered \cap Ids(lost) = {} /\ failed \cap Ids(lost) = {}
    BY <1>5 DEF Places
  <2>3. QED BY <1>1, <1>3, <2>1, <2>2
<1>8. QED BY <1>4, <1>5, <1>6, <1>7 DEF Places

LEMMA LifetimePlaces ==
  ASSUME SearchInv, Places, NEW p \in queue, PacketLifetimePasses(p), UNCHANGED historyVars
  PROVE  Places'
<1> DEFINE e == [p EXCEPT !.live = FALSE]
<1>1. e.id = p.id
  BY DEF SearchInv, PacketsOK, Packet
<1>2. queue' = (queue \ {p}) \cup {e} /\ UNCHANGED <<loopback, sent, delivered, failed, lost>>
  BY DEF PacketLifetimePasses, historyVars
<1> HIDE DEF e
<1>3. Ids(queue') = Ids(queue) /\ Ids(loopback') = Ids(loopback) /\ Ids(lost') = Ids(lost)
  BY <1>1, <1>2 DEF Ids
<1>4. \A q, r \in loopback' \cup queue' : q.id = r.id => q = r
  BY <1>1, <1>2 DEF Places, Ids
<1>5. QED BY <1>2, <1>3, <1>4 DEF Places

LEMMA PlacesStep == SearchInv /\ Places /\ [IfaceNext]_ifaceVars => Places'
<1> SUFFICES ASSUME SearchInv, Places, [IfaceNext]_ifaceVars PROVE Places'
  OBVIOUS
<1>1. CASE UNCHANGED <<packetVars, historyVars>>
  BY <1>1 DEF packetVars, historyVars, Places, Ids
<1>2. CASE PacketMoves
  BY <1>2, SubmitPlaces, DeferredPlaces, NotReceivedPlaces, LifetimePlaces DEF PacketMoves
<1>3. QED BY <1>1, <1>2, IfaceStep, ServedPlaces

LEMMA PlacesInvariance == IfaceSpec => [](SearchInv /\ Places)
<1>1. IfaceInit => Places
  <2>1. Ids({}) = {} /\ 1..0 = {}
    BY DEF Ids
  <2>2. QED BY <2>1 DEF IfaceInit, Init, Places
<1>2. QED BY <1>1, PlacesStep, SearchInvariance, PTL DEF IfaceSpec

\* PacketsHaveOnePlace: a packet that was refused, lost or left behind has no
\* second copy, and no packet disappears without being counted as lost.
THEOREM PacketsHaveOnePlace == IfaceSpec => []OnePlace
<1>1. SearchInv /\ Places => OnePlace
  BY PlacesGiveOnePlace
<1>2. QED BY <1>1, PlacesInvariance, PTL

-----------------------------------------------------------------------------
(* The promise to the applications. *)

\* What a step does to the packets: it hands one over, or settles some for good.
LEMMA OnlySettles ==
  ASSUME SearchInv, [IfaceNext]_ifaceVars
  PROVE  \/ \E d \in Addr, i \in Iface \cup {AnyIface} : Output(d, i) \/ OutputRefused(d, i)
         \/ sent' = sent /\ delivered \subseteq delivered' /\ failed \subseteq failed'
<1>1. ASSUME NEW d, QueueServed(d)
      PROVE  sent' = sent /\ delivered \subseteq delivered' /\ failed \subseteq failed'
  BY <1>1 DEF QueueServed, SendBy, DropPacketWithDst
<1>2. ASSUME NEW p, Deferred(p) \/ NotReceived(p) \/ PacketLifetimePasses(p)
      PROVE  sent' = sent /\ delivered \subseteq delivered' /\ failed \subseteq failed'
  BY <1>2 DEF Deferred, DeferredRouteOutput, NotReceived, PacketLifetimePasses
<1>3. QED BY <1>1, <1>2, IfaceStep DEF PacketMoves, packetVars

\* A packet that is refused is settled on the spot; one that is lost never is.
LEMMA PromiseStep ==
  SearchInv /\ Places /\ Places' /\ [IfaceNext]_ifaceVars
    => [Service!ServiceNext]_(Service!serviceVars)
<1> SUFFICES ASSUME SearchInv, Places, Places', [IfaceNext]_ifaceVars
             PROVE  Service!ServiceNext
  OBVIOUS
<1>1. ASSUME NEW d, NEW i, Output(d, i)
      PROVE  Service!Submit
  BY <1>1 DEF Output, RouteOutput, Service!Submit
<1>2. ASSUME NEW d, NEW i, OutputRefused(d, i)
      PROVE  Service!Submit
  BY <1>2 DEF OutputRefused, Refuse, Service!Submit
<1>3. ASSUME sent' = sent, delivered \subseteq delivered', failed \subseteq failed'
      PROVE  Service!Settle
  <2> DEFINE r == delivered' \ delivered
             e == failed' \ failed
  <2>1. delivered' \cup failed' \subseteq 1..sent /\ delivered' \cap failed' = {}
    BY <1>3 DEF Places
  <2>2. r \in SUBSET Service!Unsettled
    BY <2>1, <1>3 DEF Service!Unsettled
  <2>3. e \in SUBSET (Service!Unsettled \ r)
    BY <2>1, <1>3 DEF Service!Unsettled
  <2>4. delivered' = delivered \cup r /\ failed' = failed \cup e
    BY <1>3
  <2> HIDE DEF r, e
  <2>5. QED BY <1>3, <2>2, <2>3, <2>4 DEF Service!Settle
<1>4. QED BY <1>1, <1>2, <1>3, OnlySettles DEF Service!ServiceNext

\* PromiseKeptAnyway: a node whose interfaces come and go still implements the
\* safety of PacketService: no packet is settled twice, none before it was sent,
\* and one that was lost never gets a late answer.
THEOREM PromiseKeptAnyway == IfaceSpec => KeepsPromise
<1>1. IfaceInit => Service!ServiceInit
  BY DEF IfaceInit, Init, Service!ServiceInit
<1>2. QED BY <1>1, PromiseStep, PlacesInvariance, PTL
         DEF IfaceSpec, KeepsPromise, Service!ServiceSpec

-----------------------------------------------------------------------------
(* Why packets fail. *)

\* The three operations that hand a queued packet to its error callback.
LEMMA WhoFailsQueued ==
  ASSUME SearchInv, Places, [IfaceNext]_ifaceVars, NEW p \in queue, p.id \in failed'
  PROVE  \/ p \in Expired(queue)
         \/ p \in Evicted(queue, MaxQueueLen) /\ ~(Ids(queue') \subseteq Ids(queue))
         \/ \E d \in Addr : GiveUp(Purge(rt), d) /\ p \in WithDst(queue, d)
<1>1. /\ p.id \notin failed /\ p.id \in 1..sent
      /\ \A q \in loopback \cup queue : q.id = p.id => q = p
  BY DEF Places, Ids
<1>2. /\ queue \subseteq Packet /\ Expired(queue) \subseteq queue
      /\ \A d \in Addr : WithDst(queue, d) \subseteq queue
  BY DEF SearchInv, PacketsOK, Expired, WithDst, PurgeQueue
<1>3. Evicted(queue, MaxQueueLen) \subseteq queue
  BY <1>2, EvictedInQueue DEF PurgeQueue
<1>4. ASSUME NEW d, NEW i, SendBy(d, i)
      PROVE  p \in Expired(queue)
  BY <1>1, <1>2, <1>4 DEF SendBy, Ids
<1>5. ASSUME NEW q, Deferred(q)
      PROVE  \/ p \in Expired(queue)
             \/ p \in Evicted(queue, MaxQueueLen) /\ ~(Ids(queue') \subseteq Ids(queue))
  <2>1. DeferredRouteOutput(q) /\ ~IsQueued(queue, q)
    BY <1>5, DeferredPlaces DEF Deferred
  <2>2. p \in EnqueueDrops(queue, q, MaxQueueLen)
    BY <1>1, <1>2, <1>3, <2>1 DEF DeferredRouteOutput, EnqueueDrops, Ids
  <2>3. q \in queue' /\ q \in loopback
    BY <2>1 DEF DeferredRouteOutput, Enqueue
  <2>4. q.id \in Ids(queue') /\ q.id \notin Ids(queue)
    BY <2>3 DEF Places, Ids
  <2>5. QED BY <2>1, <2>2, <2>4 DEF EnqueueDrops
<1>6. ASSUME NEW d \in Addr, RequestTimerExpire(d)
      PROVE  \/ p \in Expired(queue)
             \/ GiveUp(Purge(rt), d) /\ p \in WithDst(queue, d)
  <2>1. \/ \E i : SendBy(d, i)
        \/ GiveUp(Purge(rt), d)
        \/ failed' = failed
    BY <1>6 DEF RequestTimerExpire, Retry
  <2>2. CASE GiveUp(Purge(rt), d)
    BY <1>1, <1>2, <2>2 DEF GiveUp, DropPacketWithDst, Ids
  <2>3. QED BY <1>1, <1>4, <2>1, <2>2
<1>7. ASSUME NEW d, NEW i, Output(d, i) \/ OutputRefused(d, i)
      PROVE  FALSE
  <2>1. sent \in Nat /\ failed' \subseteq failed \cup {sent + 1}
    BY <1>7, BoundsAssumption DEF SearchInv, PacketsOK, Output, RouteOutput, OutputRefused, Refuse
  <2>2. QED BY <1>1, <2>1
<1>8. ASSUME NEW s \in Addr, Receives(s)
      PROVE  p \in Expired(queue)
  <2>1. ASSUME NEW d \in Addr, NEW seq \in SeqNos, NEW hop \in HopCounts,
               ReplyForMe(s, d, seq, hop)
        PROVE  p \in Expired(queue)
    BY <1>4, <2>1 DEF ReplyForMe
  <2>2. CASE \/ OtherMessage(s)
             \/ \E o \in Addr, d \in Addr \cup {Me}, seq \in SeqNos,
                  ask \in SeqNos \cup {Unknown}, hop \in HopCounts :
                  Direct(s, o, hop) /\ Request(s, o, d, seq, ask, hop)
    BY <1>1, <2>2, OtherMessageKeeps DEF packetVars
  <2>3. QED BY <1>8, <2>1, <2>2 DEF Receives
<1>9. CASE Elsewhere
  BY <1>1, <1>9 DEF Elsewhere, Environment, SendRerrWhenBreaksLinkToNextHop, LifetimePasses,
     LookupRoute, PacketLifetimePasses, OnlyTable, packetVars
<1>10. CASE \/ \E i \in Iface : InterfaceUp(i) \/ InterfaceDown(i) \/ AddressRemoved(i)
            \/ \E k \in first : FirstExpiry(k)
            \/ \E q \in loopback : NotReceived(q)
            \/ \E d \in Addr : Postponed(d)
            \/ RateLimitTimerExpire \/ UNCHANGED ifaceVars
  BY <1>1, <1>10 DEF InterfaceUp, InterfaceDown, AddressRemoved, FirstExpiry, NotReceived,
     Postponed, RunDeferredRequest, RateLimitTimerExpire, RreqRateLimitTimerExpire, ifaceVars,
     OnlyTable, packetVars, vars
<1>11. QED BY <1>5, <1>6, <1>7, <1>8, <1>9, <1>10 DEF IfaceNext

\* FailuresKeepTheirCause: interfaces that come and go, and routes that are
\* cleared, give no further reason to fail a queued packet.
THEOREM FailuresKeepTheirCause == IfaceSpec => FailsForCause
<1> DEFINE Caused(p) ==
             \/ ~p.live
             \/ /\ p = Oldest(PurgeQueue(queue)) /\ Cardinality(PurgeQueue(queue)) = MaxQueueLen
                /\ ~(Ids(queue') \subseteq Ids(queue))
             \/ ~Present(rt', p.dst)
           Step == \A p \in queue : p.id \in failed' => Caused(p)
<1>1. SearchInv /\ Places /\ [IfaceNext]_ifaceVars => Step
  <2>1. SUFFICES ASSUME SearchInv, Places, [IfaceNext]_ifaceVars,
                        NEW p \in queue, p.id \in failed'
                 PROVE  Caused(p)
    OBVIOUS
  <2>2. ASSUME NEW d \in Addr, GiveUp(Purge(rt), d), p \in WithDst(queue, d)
        PROVE  Caused(p)
    BY <2>2 DEF GiveUp, DeleteRoute, Purge, Present, NoRoute, WithDst
  <2>3. QED BY <2>1, <2>2, WhoFailsQueued DEF Expired, Evicted
<1> HIDE DEF Step
<1>2. IfaceSpec => [][Step]_vars
  BY <1>1, PlacesInvariance, PTL DEF IfaceSpec
<1>3. QED BY <1>2 DEF FailsForCause, Step

-----------------------------------------------------------------------------
(* Packets that are lost or left behind. *)

HistoryTyped == oif \in [1..MaxPackets -> Iface \cup {AnyIface}] /\ lost \subseteq Packet

\* The inductive invariant about lost packets: a node that has no interface
\* now has lost its last one.
LostInv ==
  /\ HistoryTyped
  /\ LostForCause
  /\ up = {} => cleared
  /\ StrandedBehind

PacketInv == SearchInv /\ TimerInv /\ Places

\* What a packet that was sent is tagged with does not change.
LEMMA TagsStay ==
  ASSUME PacketInv, HistoryTyped, [IfaceNext]_ifaceVars
  PROVE  /\ oif' \in [1..MaxPackets -> Iface \cup {AnyIface}]
         /\ \A k \in 1..sent : oif'[k] = oif[k]
<1>1. sent \in 0..MaxPackets
  BY DEF PacketInv, SearchInv, PacketsOK
<1>2. ASSUME NEW d \in Addr, NEW i \in Iface \cup {AnyIface}, Output(d, i)
      PROVE  oif' = oif \/ oif' = [oif EXCEPT ![sent + 1] = i]
  BY <1>2 DEF Output
<1>3. oif' = oif \/ \E i \in Iface \cup {AnyIface} : oif' = [oif EXCEPT ![sent + 1] = i]
  BY <1>2, IfaceStep
     DEF PacketInv, QueueServed, PacketMoves, OutputRefused, Refuse, historyVars, Deferred,
         NotReceived, Unbothered
<1>4. QED BY <1>1, <1>3, BoundsAssumption DEF HistoryTyped

\* What becomes of lost: a step adds packets bound to an interface, or one that
\* came back while there was no interface.
LEMMA LostSteps ==
  ASSUME PacketInv, [IfaceNext]_ifaceVars
  PROVE  \/ UNCHANGED lost
         \/ up = {} /\ \E p \in loopback : lost' = lost \cup {p}
         \/ \E d \in Addr : \E i : lost' = lost \cup (Dequeued(d, i) \cap Bound(d, i))
<1>1. ASSUME NEW d \in Addr, QueueServed(d)
      PROVE  \/ UNCHANGED lost
             \/ \E i : lost' = lost \cup (Dequeued(d, i) \cap Bound(d, i))
  BY <1>1 DEF QueueServed, SendBy
<1>2. CASE PacketMoves
  BY <1>2 DEF PacketMoves, Output, OutputRefused, Refuse, historyVars, Deferred, NotReceived
<1>3. QED BY <1>1, <1>2, IfaceStep DEF PacketInv, historyVars

LEMMA LostForCauseStep ==
  ASSUME PacketInv, LostInv, [IfaceNext]_ifaceVars
  PROVE  HistoryTyped' /\ LostForCause'
<1>1. /\ oif' \in [1..MaxPackets -> Iface \cup {AnyIface}]
      /\ \A k \in 1..sent : oif'[k] = oif[k]
  BY TagsStay DEF LostInv
<1>2. cleared => cleared'
  BY LinksStep DEF PacketInv, TimerInv
<1>3. \A p \in lost \cup queue \cup loopback : p \in Packet /\ p.id \in 1..sent
  BY DEF PacketInv, Places, Ids, LostInv, HistoryTyped, SearchInv, PacketsOK
<1>4. \A p \in lost : oif'[p.id] # AnyIface \/ cleared'
  BY <1>1, <1>2, <1>3 DEF LostInv, LostForCause
<1>5. CASE UNCHANGED lost
  BY <1>1, <1>4, <1>5 DEF HistoryTyped, LostForCause, LostInv
<1>6. ASSUME up = {}, NEW p \in loopback, lost' = lost \cup {p}
      PROVE  HistoryTyped' /\ LostForCause'
  <2>1. cleared'
    BY <1>2, <1>6 DEF LostInv
  <2>2. QED BY <1>1, <1>3, <1>6, <2>1 DEF HistoryTyped, LostForCause, LostInv
<1>7. ASSUME NEW d, NEW i, lost' = lost \cup (Dequeued(d, i) \cap Bound(d, i))
      PROVE  HistoryTyped' /\ LostForCause'
  <2>1. \A p \in Bound(d, i) : p \in queue /\ oif[p.id] # AnyIface
    BY DEF Bound, WithDst, PurgeQueue
  <2>2. \A p \in lost' : p \in Packet /\ (oif'[p.id] # AnyIface \/ cleared')
    BY <1>1, <1>3, <1>4, <1>7, <2>1
  <2>3. QED BY <1>1, <2>2 DEF HistoryTyped, LostForCause
<1>8. QED BY <1>5, <1>6, <1>7, LostSteps

\* The first of the packets that may not leave is dequeued, and so is lost.
LEMMA FirstBound ==
  ASSUME queue \subseteq Packet, NEW d, NEW i, NEW b \in Bound(d, i)
  PROVE  \E l \in Dequeued(d, i) \cap Bound(d, i) : l.id <= b.id
<1> DEFINE I == {q.id : q \in Bound(d, i)}
<1>1. Bound(d, i) \subseteq WithDst(queue, d) /\ WithDst(queue, d) \subseteq queue
  BY DEF Bound, WithDst, PurgeQueue
<1>2. \A q \in Bound(d, i) : q.id \in Nat
  BY <1>1, BoundsAssumption DEF Packet
<1>3. I \subseteq Nat /\ b.id \in I
  BY <1>2
<1>4. PICK m \in I : \A k \in I : m <= k
  <2> HIDE DEF I
  <2>1. QED BY <1>3, LeastElement
<1>5. PICK l \in Bound(d, i) : l.id = m
  OBVIOUS
<1>6. \A q \in Bound(d, i) : l.id <= q.id
  BY <1>4, <1>5
<1>7. ~StaysBehind(Bound(d, i), l)
  BY <1>2, <1>6 DEF StaysBehind
<1>8. l \in Dequeued(d, i)
  BY <1>1, <1>7 DEF Dequeued
<1>9. QED BY <1>6, <1>8

\* p has a witness of StrandedBehind: an earlier packet for the same destination
\* that was lost because its socket was bound.
LeftBehind(p) == \E l \in lost : l.dst = p.dst /\ l.id < p.id /\ oif[l.id] # AnyIface

LEMMA WitnessStays ==
  ASSUME PacketInv, HistoryTyped, [IfaceNext]_ifaceVars, NEW p, LeftBehind(p)
  PROVE  LeftBehind(p)'
<1>1. PICK l \in lost : l.dst = p.dst /\ l.id < p.id /\ oif[l.id] # AnyIface
  BY DEF LeftBehind
<1>2. l.id \in 1..sent
  BY DEF PacketInv, Places, Ids
<1>3. oif'[l.id] = oif[l.id]
  BY <1>2, TagsStay
<1>4. lost \subseteq lost'
  BY LostSteps
<1>5. QED BY <1>1, <1>3, <1>4 DEF LeftBehind

LEMMA StrandedBehindStep ==
  ASSUME PacketInv, LostInv, [IfaceNext]_ifaceVars
  PROVE  StrandedBehind'
<1>1. queue \subseteq Packet /\ loopback \subseteq Packet /\ TimersOK /\ TimersOK'
  BY IfaceStep DEF PacketInv, SearchInv, PacketsOK
<1>2. \A p \in queue : p.dst \in Addr /\ (~Tended(p.dst) => LeftBehind(p))
  BY <1>1 DEF LostInv, StrandedBehind, Stranded, LeftBehind, Tended, TimersOK, Packet
<1>3. SUFFICES ASSUME NEW p \in queue', p.dst \in Addr => ~Tended(p.dst)'
               PROVE  LeftBehind(p)'
  BY <1>1, <1>3 DEF StrandedBehind, Stranded, LeftBehind, Tended, TimersOK
<1>4. ASSUME p \in queue, TendsAllBut({})
      PROVE  LeftBehind(p)'
  <2>1. LeftBehind(p)
    BY <1>2, <1>3, <1>4 DEF TendsAllBut
  <2>2. QED BY <2>1, WitnessStays DEF LostInv
<1>5. ASSUME NEW d \in Addr, QueueServed(d)
      PROVE  LeftBehind(p)'
  <2>1. p \in PurgeQueue(queue) /\ p \in queue
    BY <1>5 DEF QueueServed, SendBy, DropPacketWithDst, PurgeQueue
  <2>2. CASE p.dst # d
    <3>1. LeftBehind(p)
      BY <1>2, <1>3, <1>5, <2>1, <2>2 DEF QueueServed, TendsAllBut
    <3>2. QED BY <3>1, WitnessStays DEF LostInv
  <2>3. CASE p.dst = d
    <3>1. p \in WithDst(queue, d)
      BY <2>1, <2>3 DEF WithDst
    <3>2. PICK i : SendBy(d, i)
      BY <1>5, <3>1 DEF QueueServed, DropPacketWithDst
    <3>3. p \notin Dequeued(d, i) /\ lost' = lost \cup (Dequeued(d, i) \cap Bound(d, i))
      BY <3>2 DEF SendBy
    <3>4. PICK b \in Bound(d, i) : b.id < p.id
      BY <3>1, <3>3 DEF Dequeued, StaysBehind
    <3>5. PICK l \in Dequeued(d, i) \cap Bound(d, i) : l.id <= b.id
      BY <1>1, FirstBound
    <3>6. l \in queue /\ b \in queue /\ l.dst = d /\ oif[l.id] # AnyIface
      BY <3>5 DEF Bound, WithDst, PurgeQueue
    <3>7. l.id < p.id
      BY <1>1, <2>1, <3>4, <3>5, <3>6, BoundsAssumption DEF Packet
    <3>8. l \in lost' /\ oif' = oif
      BY <1>5, <3>3, <3>5 DEF QueueServed
    <3>9. QED BY <2>3, <3>6, <3>7, <3>8 DEF LeftBehind
  <2>4. QED BY <2>2, <2>3
<1>6. ASSUME NEW q \in queue, PacketLifetimePasses(q), TendsAllBut({})
      PROVE  LeftBehind(p)'
  <2> DEFINE e == [q EXCEPT !.live = FALSE]
  <2>1. e.id = q.id /\ e.dst = q.dst
    BY <1>1 DEF Packet
  <2>2. queue' = (queue \ {q}) \cup {e}
    BY <1>6 DEF PacketLifetimePasses
  <2> HIDE DEF e
  <2>3. CASE p \in queue
    BY <1>4, <1>6, <2>3
  <2>4. CASE p = e
    <3>1. LeftBehind(q)
      BY <1>2, <1>3, <1>6, <2>1, <2>4 DEF TendsAllBut
    <3>2. LeftBehind(q)'
      BY <3>1, WitnessStays DEF LostInv
    <3>3. QED BY <2>1, <2>4, <3>2 DEF LeftBehind
  <2>5. QED BY <2>2, <2>3, <2>4
<1>7. ASSUME NEW q \in loopback, Deferred(q)
      PROVE  LeftBehind(p)'
  <2>1. TendsAllBut({}) /\ Tended(q.dst)' /\ q \in Packet
    BY <1>7, DeferredKeeps, DeferredPlaces DEF PacketInv
  <2>2. p # q
    BY <1>3, <2>1 DEF Packet
  <2>3. queue' \subseteq queue \cup {q}
    BY <1>7 DEF Deferred, DeferredRouteOutput, Enqueue, PurgeQueue
  <2>4. QED BY <1>4, <2>1, <2>2, <2>3
<1>8. CASE TendsAllBut({}) /\ PacketMoves
  <2>1. CASE \E d \in Addr, i \in Iface \cup {AnyIface} : Output(d, i) \/ OutputRefused(d, i)
    BY <1>4, <1>8, <2>1 DEF Output, RouteOutput, OutputRefused, Refuse
  <2>2. CASE \E q \in loopback : NotReceived(q)
    BY <1>4, <1>8, <2>2 DEF NotReceived
  <2>3. QED BY <1>6, <1>7, <1>8, <2>1, <2>2 DEF PacketMoves
<1>9. CASE TendsAllBut({}) /\ UNCHANGED <<packetVars, historyVars>>
  BY <1>4, <1>9 DEF packetVars
<1>10. QED BY <1>5, <1>8, <1>9, IfaceStep DEF PacketInv

LEMMA EmptyCleared ==
  ASSUME LinksTyped, up = {} => cleared, [IfaceNext]_ifaceVars
  PROVE  (up = {} => cleared)'
<1>1. CASE UNCHANGED linkVars
  BY <1>1 DEF linkVars
<1>2. ASSUME NEW i \in Iface, InterfaceUp(i) \/ InterfaceDown(i) \/ AddressRemoved(i)
      PROVE  (up = {} => cleared)'
  BY <1>2 DEF InterfaceUp, InterfaceDown, AddressRemoved, NoInterfacesLeft
<1>3. QED BY <1>1, <1>2, LinkSteps

LEMMA LostInvariance == IfaceSpec => [](PacketInv /\ LostInv)
<1>1. IfaceInit => LostInv
  BY AnyAssumption DEF IfaceInit, Init, LostInv, HistoryTyped, LostForCause, StrandedBehind
<1>2. PacketInv /\ LostInv /\ [IfaceNext]_ifaceVars => LostInv'
  BY LostForCauseStep, StrandedBehindStep, EmptyCleared DEF LostInv, PacketInv, TimerInv
<1>3. IfaceSpec => []PacketInv
  BY TimerInvariance, PlacesInvariance, PTL DEF PacketInv
<1>4. QED BY <1>1, <1>2, <1>3, PTL DEF IfaceSpec

\* PacketsLostForCause: only a packet whose socket was bound to an interface, or
\* one on the loopback device of a node without interfaces, goes unanswered.
THEOREM PacketsLostForCause == IfaceSpec => []LostForCause
<1>1. LostInv => LostForCause
  BY DEF LostInv
<1>2. QED BY <1>1, LostInvariance, PTL

\* OnlyBoundPacketsStrand: the early return of SendPacketFromQueue at a packet
\* bound to another interface is the only way a queued packet is forgotten.
THEOREM OnlyBoundPacketsStrand == IfaceSpec => []StrandedBehind
<1>1. LostInv => StrandedBehind
  BY DEF LostInv
<1>2. QED BY <1>1, LostInvariance, PTL

\* IfaceTypes: every action of a node whose interfaces come and go leaves the
\* table, the packets, the timers and the tags with their types.
THEOREM IfaceTypes == IfaceSpec => []IfaceTypeOK
<1>1. PacketInv /\ LostInv => IfaceTypeOK
  BY DEF PacketInv, SearchInv, TimerInv, LinksTyped, TimersTyped, LostInv, HistoryTyped,
         TimersOK, PacketsOK, GoodTable, TypeOK, IfaceTypeOK
<1>2. QED BY <1>1, LostInvariance, PTL

-----------------------------------------------------------------------------
(* The interfaces of routes: a table whose entries name interfaces in U,   *)
(* if any, is a function into EntryVia(U); each operation keeps it one if  *)
(* the message came in by an interface in U, and what deletes the routes   *)
(* of an interface takes it out of U.                                      *)

EntryVia(U) == {e \in Entry : e.iface \in U \cup {NoIface}}

TableVia(U) == [Addr -> EntryVia(U)]

LEMMA ViaEntry ==
  ASSUME NEW U, NEW e \in EntryVia(U)
  PROVE  /\ NoRoute \in EntryVia(U) /\ Stored(e) \in EntryVia(U)
         /\ Invalidate(e) \in EntryVia(U) /\ PurgeEntry(e) \in EntryVia(U)
         /\ \A P \in SUBSET (Addr \cup {NoAddr}) : [e EXCEPT !.precursors = P] \in EntryVia(U)
         /\ \A l \in BOOLEAN : [e EXCEPT !.live = l] \in EntryVia(U)
<1>1. e \in Entry /\ e.iface \in U \cup {NoIface}
  BY DEF EntryVia
<1>2. NoRoute \in EntryVia(U)
  BY DEF EntryVia, NoRoute, Entry, Flags
<1>3. Stored(e) \in EntryVia(U)
  BY <1>1 DEF EntryVia, Stored, Entry
<1>4. Invalidate(e) \in EntryVia(U)
  BY <1>1 DEF EntryVia, Invalidate, Entry, Flags
<1>5. PurgeEntry(e) \in EntryVia(U)
  BY <1>2, <1>4 DEF PurgeEntry
<1>6. \A P \in SUBSET (Addr \cup {NoAddr}) : [e EXCEPT !.precursors = P] \in EntryVia(U)
  BY <1>1 DEF EntryVia, Entry
<1>7. \A l \in BOOLEAN : [e EXCEPT !.live = l] \in EntryVia(U)
  BY <1>1 DEF EntryVia, Entry
<1>8. QED BY <1>2, <1>3, <1>4, <1>5, <1>6, <1>7

LEMMA ViaPurge ==
  ASSUME NEW U, NEW t \in TableVia(U)
  PROVE  /\ Purge(t) \in TableVia(U)
         /\ \A S : InvalidateRoutesWithDst(t, S) \in TableVia(U)
         /\ \A ns : BreakLinks(t, ns) \in TableVia(U)
         /\ \A a \in Addr : DeleteRoute(t, a) \in TableVia(U)
<1>1. \A a \in Addr : t[a] \in EntryVia(U)
  BY DEF TableVia
<1>2. \A a \in Addr : PurgeEntry(t[a]) \in EntryVia(U) /\ NoRoute \in EntryVia(U)
  BY <1>1, ViaEntry
<1>3. Purge(t) \in TableVia(U) /\ \A a \in Addr : Purge(t)[a] \in EntryVia(U)
  BY <1>2 DEF Purge, TableVia
<1>4. \A a \in Addr : Invalidate(Purge(t)[a]) \in EntryVia(U)
  BY <1>3, ViaEntry
<1>5. \A S : InvalidateRoutesWithDst(t, S) \in TableVia(U)
  BY <1>3, <1>4 DEF InvalidateRoutesWithDst, TableVia
<1>6. \A a \in Addr : DeleteRoute(t, a) \in TableVia(U)
  BY <1>2, <1>3 DEF DeleteRoute, TableVia
<1>7. QED BY <1>3, <1>5, <1>6 DEF BreakLinks

LEMMA ViaUpdate ==
  ASSUME NEW U, NEW t \in TableVia(U), NEW a \in Addr, NEW e \in EntryVia(U)
  PROVE  Update(t, a, e) \in TableVia(U) /\ AddRoute(t, a, e) \in TableVia(U)
<1>1. Stored(e) \in EntryVia(U) /\ Purge(t) \in TableVia(U)
  BY ViaEntry, ViaPurge
<1>2. QED BY <1>1 DEF Update, AddRoute, TableVia

LEMMA ViaInsert ==
  ASSUME NEW U, NEW t \in TableVia(U), NEW a \in Addr, NEW p \in Addr \cup {NoAddr}
  PROVE  InsertPrecursor(t, a, p) \in TableVia(U)
<1> DEFINE P == t[a].precursors \cup {p}
           e == [t[a] EXCEPT !.precursors = P]
<1>1. t[a] \in EntryVia(U) /\ t[a] \in Entry
  BY DEF TableVia, EntryVia
<1>2. P \in SUBSET (Addr \cup {NoAddr})
  BY <1>1 DEF Entry
<1>3. [t[a] EXCEPT !.precursors = @ \cup {p}] = e
  BY <1>1 DEF Entry
<1> HIDE DEF P
<1>4. e \in EntryVia(U)
  BY <1>1, <1>2, ViaEntry
<1> HIDE DEF e
<1>5. QED BY <1>3, <1>4, ViaUpdate DEF InsertPrecursor

LEMMA ViaNewEntry ==
  ASSUME NEW U, U \subseteq Iface, NEW s \in Addr, NEW i \in U, NEW known \in BOOLEAN,
         NEW seq \in Nat, NEW hop \in Nat
  PROVE  NewEntry(known, seq, hop, s, i) \in EntryVia(U)
BY DEF NewEntry, EntryVia, Entry, Flags

LEMMA ViaHeard ==
  ASSUME NEW U, U \subseteq Iface, rt \in TableVia(U), NEW s \in Addr, IfaceOf[s] \in U
  PROVE  Heard(s) \in TableVia(U)
<1> DEFINE direct == NewEntry(FALSE, 0, 1, s, IfaceOf[s])
<1>1. direct \in EntryVia(U) /\ Purge(rt) \in TableVia(U)
  BY ViaNewEntry, ViaPurge
<1> HIDE DEF direct
<1>2. /\ AddRoute(Purge(rt), s, direct) \in TableVia(U)
      /\ Update(Purge(rt), s, direct) \in TableVia(U)
  BY <1>1, ViaUpdate
<1>3. QED BY <1>1, <1>2 DEF Heard, UpdateRouteToNeighbor, direct

LEMMA ViaForward ==
  ASSUME NEW U, U \subseteq Iface, rt \in TableVia(U), NEW s \in Addr, IfaceOf[s] \in U,
         NEW d \in Addr, NEW seq \in SeqNos, NEW hop \in HopCounts
  PROVE  LET new == NewEntry(TRUE, seq, hop, s, IfaceOf[s])
         IN  new \in EntryVia(U) /\ ForwardRoute(Heard(s), d, new) \in TableVia(U)
<1> DEFINE new == NewEntry(TRUE, seq, hop, s, IfaceOf[s])
<1>1. new \in EntryVia(U) /\ Heard(s) \in TableVia(U)
  BY MessagesAssumption, ViaNewEntry, ViaHeard
<1> HIDE DEF new
<1>2. ForwardRoute(Heard(s), d, new) \in TableVia(U)
  BY <1>1, ViaUpdate DEF ForwardRoute
<1>3. QED BY <1>1, <1>2 DEF new

LEMMA ViaRelay ==
  ASSUME NEW U, NEW t \in TableVia(U), NEW d \in Addr, NEW o \in Addr
  PROVE  RelayReply(t, d, o) \in TableVia(U)
<1> DEFINE t1 == Update(t, o, [t[o] EXCEPT !.live = TRUE])
           toOrigin == t1[o]
           towards == t1[d].nextHop
           back == toOrigin.nextHop
           t2 == InsertPrecursor(t1, d, back)
           t3 == IF towards \in Addr THEN InsertPrecursor(t2, towards, back) ELSE t2
           t4 == Update(t3, o, [toOrigin EXCEPT !.precursors = @ \cup {towards}])
           t5 == IF back \in Addr THEN InsertPrecursor(t4, back, towards) ELSE t4
<1>1. t1 \in TableVia(U)
  <2>1. [t[o] EXCEPT !.live = TRUE] \in EntryVia(U)
    BY ViaEntry DEF TableVia
  <2>2. QED BY <2>1, ViaUpdate
<1> HIDE DEF t1
<1>2. toOrigin \in EntryVia(U) /\ toOrigin \in Entry /\ t1[d] \in Entry
  BY <1>1 DEF TableVia, EntryVia
<1>3. towards \in Addr \cup {NoAddr} /\ back \in Addr \cup {NoAddr}
  BY <1>2 DEF Entry
<1>4. t2 \in TableVia(U)
  BY <1>1, <1>3, ViaInsert
<1>5. t3 \in TableVia(U)
  BY <1>3, <1>4, ViaInsert
<1>6. t4 \in TableVia(U)
  <2> DEFINE P == toOrigin.precursors \cup {towards}
  <2>1. P \in SUBSET (Addr \cup {NoAddr})
    BY <1>2, <1>3 DEF Entry
  <2>2. [toOrigin EXCEPT !.precursors = @ \cup {towards}] = [toOrigin EXCEPT !.precursors = P]
    BY <1>2 DEF Entry
  <2> HIDE DEF P, toOrigin, t3
  <2>3. [toOrigin EXCEPT !.precursors = P] \in EntryVia(U)
    BY <1>2, <2>1, ViaEntry
  <2>4. QED BY <1>5, <2>2, <2>3, ViaUpdate
<1>7. t5 \in TableVia(U)
  BY <1>3, <1>6, ViaInsert
<1>8. RelayReply(t, d, o) \in {t, t1, t5}
  BY DEF RelayReply, t1
<1>9. QED BY <1>1, <1>7, <1>8

LEMMA ViaReverse ==
  ASSUME NEW U, U \subseteq Iface, NEW t \in TableVia(U), NEW o \in Addr, NEW s \in Addr,
         IfaceOf[s] \in U, NEW seq \in Nat, NEW hop \in Nat
  PROVE  ReverseRoute(t, o, seq, hop, s) \in TableVia(U)
<1>1. CASE ~Present(t, o)
  BY <1>1, ViaNewEntry, ViaUpdate DEF ReverseRoute
<1>2. CASE Present(t, o)
  <2> DEFINE n == IF ~t[o].validSeqNo \/ seq > t[o].seqNo THEN seq ELSE t[o].seqNo
             e == [t[o] EXCEPT !.seqNo = n, !.validSeqNo = TRUE, !.nextHop = s,
                               !.iface = IfaceOf[s], !.hop = hop, !.live = TRUE]
  <2>1. t[o] \in Entry /\ n \in Nat
    BY DEF TableVia, EntryVia, Entry
  <2>2. ReverseRoute(t, o, seq, hop, s) = Update(t, o, e)
    <3>1. e = [t[o] EXCEPT !.seqNo = IF ~t[o].validSeqNo \/ seq > t[o].seqNo THEN seq ELSE @,
                           !.validSeqNo = TRUE, !.nextHop = s, !.iface = IfaceOf[s],
                           !.hop = hop, !.live = TRUE]
      BY <2>1 DEF Entry
    <3>2. QED BY <1>2, <3>1 DEF ReverseRoute
  <2> HIDE DEF n
  <2>3. e \in EntryVia(U)
    BY <2>1 DEF Entry, EntryVia
  <2> HIDE DEF e
  <2>4. QED BY <2>2, <2>3, ViaUpdate
<1>3. QED BY <1>1, <1>2

LEMMA ViaReplyFromTable ==
  ASSUME NEW U, NEW t \in TableVia(U), NEW src \in TableVia(U), NEW d \in Addr, NEW o \in Addr
  PROVE  ReplyFromTable(t, src, d, o) \in TableVia(U)
<1> DEFINE P == src[d].precursors \cup {src[o].nextHop}
           Q == src[o].precursors \cup {src[d].nextHop}
           e == [src[d] EXCEPT !.precursors = P]
           f == [src[o] EXCEPT !.precursors = Q]
<1>1. src[d] \in EntryVia(U) /\ src[o] \in EntryVia(U) /\ src[d] \in Entry /\ src[o] \in Entry
  BY DEF TableVia, EntryVia
<1>2. ReplyFromTable(t, src, d, o) = Update(Update(t, d, e), o, f)
  BY <1>1 DEF ReplyFromTable, Entry
<1>3. P \in SUBSET (Addr \cup {NoAddr}) /\ Q \in SUBSET (Addr \cup {NoAddr})
  BY <1>1 DEF Entry
<1> HIDE DEF P, Q
<1>4. e \in EntryVia(U) /\ f \in EntryVia(U)
  BY <1>1, <1>3, ViaEntry
<1> HIDE DEF e, f
<1>5. QED BY <1>2, <1>4, ViaUpdate

\* RecvReplyAck.
LEMMA ViaReactivate ==
  ASSUME NEW U, NEW t \in TableVia(U), NEW s \in Addr
  PROVE  Update(t, s, [t[s] EXCEPT !.flag = "VALID"]) \in TableVia(U)
<1> DEFINE e == [t[s] EXCEPT !.flag = "VALID"]
<1>1. t[s] \in Entry /\ t[s].iface \in U \cup {NoIface}
  BY DEF TableVia, EntryVia
<1>2. e \in EntryVia(U)
  BY <1>1 DEF EntryVia, Entry, Flags
<1> HIDE DEF e
<1>3. QED BY <1>2, ViaUpdate DEF e

\* RecvHello names the interface it came in by.
LEMMA ViaHello ==
  ASSUME NEW U, U \subseteq Iface, NEW t \in TableVia(U), NEW s \in Addr, IfaceOf[s] \in U,
         NEW seq \in Nat
  PROVE  HelloRoute(t, s, seq) \in TableVia(U)
<1> DEFINE o == MainOf[s]
           i == IfaceOf[s]
           new == NewEntry(TRUE, seq, 1, o, i)
           f == Refreshed(t[o], seq, i)
<1>1. o \in Addr /\ i \in U /\ i \in Iface
  BY AddressesAssumption
<1>2. t[o] \in Entry
  BY <1>1 DEF TableVia, EntryVia
<1>3. HelloRoute(t, s, seq) = IF ~Present(t, o) THEN AddRoute(t, o, new) ELSE Update(t, o, f)
  BY DEF HelloRoute
<1> HIDE DEF o, i
<1>4. new \in EntryVia(U)
  BY <1>1, ViaNewEntry
<1>5. f \in EntryVia(U)
  BY <1>1, <1>2 DEF Refreshed, EntryVia, Entry, Flags
<1> HIDE DEF new, f
<1>6. QED BY <1>1, <1>3, <1>4, <1>5, ViaUpdate

LEMMA ViaSendRequest ==
  ASSUME NEW U, NEW t \in TableVia(U), NEW d \in Addr, NEW tm, SendRequest(t, tm, d)
  PROVE  rt' \in TableVia(U)
<1> DEFINE e == SearchEntry(t, d)
           f == [e EXCEPT !.reqCount = NextReqCount(e)]
<1>1. rt' = t \/ rt' = [Purge(t) EXCEPT ![d] = f]
  BY DEF SendRequest
<1>2. Purge(t) \in TableVia(U) /\ NoRoute \in EntryVia(U)
  BY ViaPurge, ViaEntry DEF TableVia
<1>3. e \in EntryVia(U)
  <2>1. \A x \in EntryVia(U) : [x EXCEPT !.flag = "IN_SEARCH"] \in EntryVia(U)
    BY DEF EntryVia, Entry, Flags
  <2>2. QED BY <1>2, <2>1 DEF SearchEntry, TableVia
<1> HIDE DEF e
<1>4. NextReqCount(e) \in Nat
  <2>1. e.reqCount \in Nat
    BY <1>3 DEF EntryVia, Entry
  <2>2. QED BY <2>1, LimitsAssumption DEF NextReqCount
<1>5. f \in EntryVia(U)
  BY <1>3, <1>4 DEF EntryVia, Entry
<1> HIDE DEF f
<1>6. QED BY <1>1, <1>2, <1>5 DEF TableVia

-----------------------------------------------------------------------------
(* The actions. *)

\* Entries name interfaces with a socket.
HopsInv == rt \in TableVia(up)

LEMMA ReceivesHops ==
  ASSUME NEW U, U \subseteq Iface, rt \in TableVia(U), NEW s \in Addr, IfaceOf[s] \in U,
         Receives(s)
  PROVE  rt' \in TableVia(U)
<1>1. s \in Addr /\ rt \in TableVia(U)
  OBVIOUS
<1>2. Heard(s) \in TableVia(U)
  BY <1>1, ViaHeard
<1>3. ASSUME NEW seq \in SeqNos, RecvHello(s, seq)
      PROVE  rt' \in TableVia(U)
  <2>1. seq \in Nat
    BY MessagesAssumption
  <2>2. QED BY <1>2, <1>3, <2>1, ViaHello DEF RecvHello
<1>4. CASE RecvIgnored(s) \/ RecvReplyAck(s)
  BY <1>1, <1>2, <1>4, ViaReactivate DEF RecvIgnored, RecvReplyAck
<1>5. ASSUME NEW dsts, RecvError(s, dsts)
      PROVE  rt' \in TableVia(U)
  BY <1>2, <1>5, ViaPurge DEF RecvError
<1>6. ASSUME NEW d \in Addr, NEW o \in Addr, NEW seq \in SeqNos, NEW hop \in HopCounts,
             RecvReply(s, d, o, seq, hop)
      PROVE  rt' \in TableVia(U)
  <2> DEFINE t == ForwardRoute(Heard(s), d, NewEntry(TRUE, seq, hop, s, IfaceOf[s]))
  <2>1. t \in TableVia(U) /\ rt' = RelayReply(t, d, o)
    BY <1>1, <1>6, ViaForward, MeAssumption DEF RecvReply
  <2> HIDE DEF t
  <2>2. QED BY <1>1, <2>1, ViaRelay
<1>7. ASSUME NEW d \in Addr, NEW seq \in SeqNos, NEW hop \in HopCounts, ReplyForMe(s, d, seq, hop)
      PROVE  rt' \in TableVia(U)
  <2> DEFINE new == NewEntry(TRUE, seq, hop, s, IfaceOf[s])
             t == ForwardRoute(Heard(s), d, new)
  <2>1. new \in EntryVia(U) /\ t \in TableVia(U)
    BY <1>1, ViaForward
  <2>2. rt' = t \/ rt' = Update(t, d, new)
    BY <1>7 DEF ReplyForMe, OwnReply
  <2> HIDE DEF new, t
  <2>3. QED BY <2>1, <2>2, ViaUpdate
<1>8. ASSUME NEW o \in Addr, NEW d \in Addr \cup {Me}, NEW seq \in SeqNos,
             NEW ask \in SeqNos \cup {Unknown}, NEW hop \in HopCounts,
             Request(s, o, d, seq, ask, hop)
      PROVE  rt' \in TableVia(U)
  <2> DEFINE t == ReverseRoute(Heard(s), o, seq, hop, s)
  <2>1. t \in TableVia(U)
    BY <1>1, <1>2, MessagesAssumption, ViaReverse
  <2>2. \/ \E broken : rt' = BreakLinks(t, broken)
        \/ d \in Addr /\ \E broken : rt' = ReplyFromTable(BreakLinks(t, broken), t, d, o)
    BY <1>8 DEF Request, RecvRequest
  <2> HIDE DEF t
  <2>3. \A broken : BreakLinks(t, broken) \in TableVia(U)
    BY <2>1, ViaPurge
  <2>4. QED BY <2>1, <2>2, <2>3, ViaReplyFromTable
<1>9. CASE OtherMessage(s)
  BY <1>3, <1>4, <1>5, <1>6, <1>9 DEF OtherMessage
<1>10. QED BY <1>7, <1>8, <1>9 DEF Receives

LEMMA PacketHops ==
  ASSUME HopsInv,
         \/ \E d \in Addr, i \in Iface \cup {AnyIface} : Output(d, i) \/ OutputRefused(d, i)
         \/ \E p \in loopback : p.dst \in Addr /\ (Deferred(p) \/ NotReceived(p))
  PROVE  rt' \in TableVia(up)
<1>1. rt \in TableVia(up) /\ Purge(rt) \in TableVia(up)
  BY ViaPurge DEF HopsInv
<1>2. CASE \E d \in Addr, i \in Iface \cup {AnyIface} : Output(d, i) \/ OutputRefused(d, i)
  BY <1>1, <1>2 DEF Output, RouteOutput, OutputRefused
<1>3. ASSUME NEW p \in loopback, p.dst \in Addr, Deferred(p)
      PROVE  rt' \in TableVia(up)
  <2>1. \/ rt' = rt \/ rt' = Purge(rt)
        \/ SendRequest(Purge(rt), timer, p.dst)
    BY <1>3 DEF Deferred, DeferredRouteOutput, tableVars
  <2>2. QED BY <1>1, <1>3, <2>1, ViaSendRequest
<1>4. ASSUME NEW p, NotReceived(p)
      PROVE  rt' \in TableVia(up)
  BY <1>1, <1>4 DEF NotReceived, tableVars
<1>5. QED BY <1>2, <1>3, <1>4

LEMMA TimerHops ==
  ASSUME HopsInv,
         \/ \E d \in Addr : Postponed(d) \/ RequestTimerExpire(d)
         \/ RateLimitTimerExpire
         \/ \E k \in first : FirstExpiry(k)
  PROVE  rt' \in TableVia(up)
<1>1. rt \in TableVia(up) /\ Purge(rt) \in TableVia(up)
  BY ViaPurge DEF HopsInv
<1>2. ASSUME NEW d \in Addr, Postponed(d)
      PROVE  rt' \in TableVia(up)
  BY <1>1, <1>2, ViaSendRequest DEF Postponed, RunDeferredRequest
<1>3. ASSUME NEW d \in Addr, RequestTimerExpire(d)
      PROVE  rt' \in TableVia(up)
  <2> DEFINE t == Purge(rt)
  <2>1. TakesRoute(t, d) \/ GiveUp(t, d) \/ Retry(t, d)
    BY <1>3 DEF RequestTimerExpire
  <2> HIDE DEF t
  <2>2. t \in TableVia(up)
    BY <1>1 DEF t
  <2>3. QED BY <2>1, <2>2, ViaPurge, ViaSendRequest DEF TakesRoute, GiveUp, Retry
<1>4. CASE RateLimitTimerExpire \/ \E k \in first : FirstExpiry(k)
  BY <1>1, <1>4 DEF RateLimitTimerExpire, RreqRateLimitTimerExpire, FirstExpiry, vars
<1>5. QED BY <1>2, <1>3, <1>4

LEMMA ElsewhereHops ==
  ASSUME HopsInv, Elsewhere
  PROVE  rt' \in TableVia(up)
<1>1. rt \in TableVia(up) /\ Environment
  BY DEF HopsInv, Elsewhere
<1>2. ASSUME NEW a \in Addr, LifetimePasses(a)
      PROVE  rt' \in TableVia(up)
  <2>1. rt' = [rt EXCEPT ![a] = [rt[a] EXCEPT !.live = FALSE]]
    BY <1>2 DEF LifetimePasses
  <2>2. rt[a] \in EntryVia(up)
    BY <1>1 DEF TableVia
  <2>3. [rt[a] EXCEPT !.live = FALSE] \in EntryVia(up)
    BY <2>2, ViaEntry
  <2>4. QED BY <1>1, <2>1, <2>3 DEF TableVia
<1>3. QED BY <1>1, <1>2, ViaPurge
      DEF Environment, SendRerrWhenBreaksLinkToNextHop, LookupRoute, PacketLifetimePasses, tableVars

\* A new socket makes room for more routes; a lost one takes its routes with it.
LEMMA InterfaceHops ==
  ASSUME HopsInv, NEW i \in Iface, InterfaceUp(i) \/ InterfaceDown(i) \/ AddressRemoved(i)
  PROVE  HopsInv'
<1>1. rt \in TableVia(up) /\ Purge(rt) \in TableVia(up)
  BY ViaPurge DEF HopsInv
<1> DEFINE t == DeleteAllRoutesFromInterface(rt, i)
           kept == up \ {i}
<1>2. \A a \in Addr : rt[a] \in EntryVia(up) /\ NoRoute \in EntryVia(kept)
  BY <1>1 DEF TableVia, EntryVia, NoRoute, Entry, Flags
<1>3. t \in TableVia(kept)
  BY <1>2 DEF DeleteAllRoutesFromInterface, TableVia, EntryVia
<1>4. TableVia(kept) \subseteq TableVia(up)
  <2>1. EntryVia(kept) \subseteq EntryVia(up)
    BY DEF EntryVia
  <2>2. QED BY <2>1 DEF TableVia
<1>5. CASE InterfaceUp(i)
  <2>1. rt' = Purge(rt) /\ up \subseteq up'
    BY <1>5 DEF InterfaceUp
  <2>2. EntryVia(up) \subseteq EntryVia(up')
    BY <2>1 DEF EntryVia
  <2>3. rt' \in TableVia(up')
    BY <1>1, <2>1, <2>2 DEF TableVia
  <2>4. QED BY <2>3 DEF HopsInv, TableVia, EntryVia
<1>6. CASE InterfaceDown(i)
  <2>1. up' = kept
    BY <1>6 DEF InterfaceDown
  <2>2. rt' = t \/ rt' = [a \in Addr |-> NoRoute]
    BY <1>6 DEF InterfaceDown, NoInterfacesLeft
  <2> HIDE DEF t, kept
  <2>3. rt' \in TableVia(kept)
    BY <1>2, <1>3, <2>2 DEF TableVia
  <2>4. QED BY <2>1, <2>3 DEF HopsInv, TableVia, EntryVia
<1>7. CASE AddressRemoved(i)
  <2>1. up' = up /\ rt' = Purge(t)
    BY <1>7 DEF AddressRemoved
  <2> HIDE DEF t, kept
  <2>2. rt' \in TableVia(up)
    BY <1>3, <1>4, <2>1, ViaPurge
  <2>3. QED BY <2>1, <2>2 DEF HopsInv, TableVia, EntryVia
<1>8. QED BY <1>5, <1>6, <1>7

LEMMA HopsStep ==
  ASSUME SearchInv, LinksTyped, HopsInv, [IfaceNext]_ifaceVars
  PROVE  HopsInv'
<1>1. CASE \E i \in Iface : InterfaceUp(i) \/ InterfaceDown(i) \/ AddressRemoved(i)
  BY <1>1, InterfaceHops
<1>2. ASSUME UNCHANGED up, rt' \in TableVia(up)
      PROVE  HopsInv'
  BY <1>2 DEF HopsInv, TableVia, EntryVia
<1>3. CASE UNCHANGED linkVars
  <2>1. UNCHANGED up
    BY <1>3 DEF linkVars
  <2>2. CASE \E d \in Addr, i \in Iface \cup {AnyIface} : Output(d, i) \/ OutputRefused(d, i)
    BY <1>2, <2>1, <2>2, PacketHops
  <2>3. CASE \E p \in loopback : Deferred(p) \/ NotReceived(p)
    <3>1. \A p \in loopback : p.dst \in Addr
      BY DEF SearchInv, PacketsOK, Packet
    <3>2. QED BY <1>2, <2>1, <2>3, <3>1, PacketHops
  <2>4. CASE \/ \E d \in Addr : Postponed(d) \/ RequestTimerExpire(d)
             \/ RateLimitTimerExpire
             \/ \E k \in first : FirstExpiry(k)
    BY <1>2, <2>1, <2>4, TimerHops
  <2>5. ASSUME NEW s \in Addr, Receives(s)
        PROVE  HopsInv'
    <3>1. up \subseteq Iface /\ IfaceOf[s] \in up /\ rt \in TableVia(up)
      BY <2>5 DEF Receives, LinksTyped, HopsInv
    <3>2. rt' \in TableVia(up)
      BY <2>5, <3>1, ReceivesHops
    <3>3. QED BY <1>2, <2>1, <3>2
  <2>6. CASE Elsewhere
    BY <1>2, <2>1, <2>6, ElsewhereHops
  <2>7. CASE UNCHANGED ifaceVars
    BY <1>2, <2>1, <2>7 DEF HopsInv, ifaceVars, vars
  <2>8. QED BY <1>1, <2>2, <2>3, <2>4, <2>5, <2>6, <2>7 DEF IfaceNext
<1>4. QED BY <1>1, <1>3, LinkSteps

LEMMA InitHops == IfaceInit => HopsInv
<1>1. NoRoute \in EntryVia(up)
  BY DEF EntryVia, NoRoute, Entry, Flags
<1>2. QED BY <1>1 DEF IfaceInit, Init, HopsInv, TableVia

\* RoutesKeepTheirSockets: whoever sends along an entry finds the socket of its
\* interface: NotifyInterfaceDown and NotifyRemoveAddress leave no route behind,
\* and no message, reply from the table or search brings one back.
THEOREM RoutesKeepTheirSockets == IfaceSpec => []RoutesHaveSockets
<1>1. SearchInv /\ HopsInv => RoutesHaveSockets
  BY DEF HopsInv, TableVia, EntryVia, SearchInv, GoodTable, GoodEntry, RoutesHaveSockets
<1>2. SearchInv /\ TimerInv /\ HopsInv /\ [IfaceNext]_ifaceVars => HopsInv'
  BY HopsStep DEF TimerInv
<1>3. QED BY <1>1, <1>2, InitHops, TimerInvariance, PTL DEF IfaceSpec

-----------------------------------------------------------------------------
(* Searches that interfaces come and go under. *)

LEMMA InterfaceChangeRests ==
  ASSUME GoodTable(rt), NEW d \in Addr, InSearch(rt', d),
         NEW i \in Iface, InterfaceUp(i) \/ InterfaceDown(i) \/ AddressRemoved(i)
  PROVE  Rests(d)
<1> DEFINE t == DeleteAllRoutesFromInterface(rt, i)
<1>1. Calm(rt, t) /\ GoodTable(t)
  BY ForgetCalm DEF Calm, Quiet
<1>2. UNCHANGED <<timer, waiting, due>>
  BY DEF InterfaceUp, InterfaceDown, AddressRemoved, OnlyTable
<1>3. \/ rt' = Purge(rt) \/ rt' = [a \in Addr |-> NoRoute]
      \/ rt' = t \/ rt' = Purge(t)
  BY DEF InterfaceUp, InterfaceDown, AddressRemoved, NoInterfacesLeft
<1> HIDE DEF t
<1>4. Calm(rt, rt')
  BY <1>1, <1>3, PurgeCalm, ClearCalm, CalmTransitive
<1>5. QED BY <1>2, <1>4, QuietRests DEF Calm

\* No message changes what is under way for a search that goes on.
LEMMA MessageRests ==
  ASSUME SearchInv, NEW d \in Addr, InSearch(rt', d), NEW s \in Addr, Receives(s)
  PROVE  Rests(d)
<1>1. GoodTable(rt) /\ TimersOK
  BY DEF SearchInv
<1>2. ASSUME NEW a \in Addr, NEW seq \in SeqNos, NEW hop \in HopCounts,
             Direct(s, a, hop), ReplyForMe(s, a, seq, hop)
      PROVE  Rests(d)
  BY <1>1, <1>2, OwnReplyRests DEF ReplyForMe
<1>3. CASE \/ OtherMessage(s)
           \/ \E o \in Addr, a \in Addr \cup {Me}, seq \in SeqNos,
                ask \in SeqNos \cup {Unknown}, hop \in HopCounts :
                Direct(s, o, hop) /\ Request(s, o, a, seq, ask, hop)
  BY <1>3, OtherMessageQuiet, QuietRests DEF OnlyTable
<1>4. QED BY <1>2, <1>3 DEF Receives

\* What becomes of a search in a step, as in RouteDiscoveryProofs: an interface
\* that changes, a first expiry and a refused packet leave it alone.
LEMMA IfaceSearchStep ==
  ASSUME SearchInv, [IfaceNext]_ifaceVars, NEW d \in Addr, InSearch(rt, d), InSearch(rt', d)
  PROVE  \/ /\ Rests(d)
            /\ ~RequestTimerExpire(d) /\ ~(Postponed(d) /\ rreqCount' # rreqCount)
         \/ /\ Sends(d) \/ Postpones(d)
            /\ rt[d].reqCount # RreqRetries \/ (Sends(d) /\ Requests(d)' # Requests(d))
<1>1. GoodTable(rt) /\ TimersOK /\ PacketsOK
  BY DEF SearchInv
<1>2. \A a \in Addr : RequestTimerExpire(a) => TimerGoesOff(a)
  BY DEF RequestTimerExpire, TimerGoesOff
<1>3. CASE RequestTimerExpire(d)
  BY <1>1, <1>2, <1>3, RetryAdvances
<1>4. CASE Postponed(d) /\ rreqCount' # rreqCount
  BY <1>1, <1>4, PostponedAdvances DEF Postponed
<1>5. CASE ~RequestTimerExpire(d) /\ ~(Postponed(d) /\ rreqCount' # rreqCount)
  <2>1. SUFFICES Rests(d)
    BY <1>5
  <2>2. ASSUME NEW i \in Iface, InterfaceUp(i) \/ InterfaceDown(i) \/ AddressRemoved(i)
        PROVE  Rests(d)
    BY <1>1, <2>2, InterfaceChangeRests
  <2>3. ASSUME NEW a \in Addr, NEW i, Output(a, i) \/ OutputRefused(a, i)
        PROVE  Rests(d)
    <3>1. (rt' = rt \/ rt' = Purge(rt)) /\ UNCHANGED <<timer, waiting, due>>
      BY <2>3 DEF Output, RouteOutput, OutputRefused, Refuse
    <3>2. QED BY <1>1, <3>1, PurgeCalm, CalmReflexive, QuietRests DEF Calm
  <2>4. ASSUME NEW p, Deferred(p) \/ NotReceived(p)
        PROVE  Rests(d)
    <3>1. CASE Deferred(p)
      BY <1>1, <3>1, DeferredRests DEF Deferred
    <3>2. CASE NotReceived(p)
      BY <3>2 DEF NotReceived, tableVars, Rests, Requests
    <3>3. QED BY <2>4, <3>1, <3>2
  <2>5. ASSUME NEW a \in Addr, Postponed(a) \/ RequestTimerExpire(a)
        PROVE  Rests(d)
    <3>1. CASE a = d
      BY <1>1, <1>5, <2>5, <3>1, PostponedAdvances DEF Postponed
    <3>2. CASE a # d
      BY <1>1, <1>2, <2>5, <3>2, OthersRest DEF Postponed
    <3>3. QED BY <3>1, <3>2
  <2>6. ASSUME NEW s \in Addr, Receives(s)
        PROVE  Rests(d)
    BY <2>6, MessageRests
  <2>7. CASE (\E k \in first : FirstExpiry(k)) \/ UNCHANGED ifaceVars
    BY <2>7 DEF FirstExpiry, ifaceVars, vars, Rests, Requests
  <2>8. QED BY <1>1, <2>2, <2>3, <2>4, <2>5, <2>6, <2>7, RateLimitRests, EnvironmentRests
            DEF IfaceNext, RateLimitTimerExpire, Elsewhere
<1>6. QED BY <1>3, <1>4, <1>5

\* SearchesOutlastChanges: whatever a cleared table and interfaces that return
\* leave behind of earlier searches, each event of a search brings its end
\* nearer and nothing takes it further away.
THEOREM SearchesOutlastChanges == IfaceSpec => SearchOutlastsChanges
<1> DEFINE Step == \A d \in Addr : InSearch(rt, d) /\ InSearch(rt', d) =>
                     \/ Nearer(d)
                     \/ /\ Underway(d)' = Underway(d) /\ EventsAhead(d)' = EventsAhead(d)
                        /\ ~RequestTimerExpire(d)
                        /\ ~(Postponed(d) /\ rreqCount' # rreqCount)
<1>1. SearchInv /\ SearchInv' /\ [IfaceNext]_ifaceVars => Step
  <2>1. SUFFICES ASSUME SearchInv, SearchInv', [IfaceNext]_ifaceVars,
                        NEW d \in Addr, InSearch(rt, d), InSearch(rt', d)
                 PROVE  \/ Nearer(d)
                        \/ /\ Underway(d)' = Underway(d) /\ EventsAhead(d)' = EventsAhead(d)
                           /\ ~RequestTimerExpire(d)
                           /\ ~(Postponed(d) /\ rreqCount' # rreqCount)
    BY <2>1
  <2>2. GoodTable(rt) /\ TimersOK /\ TimersOK'
    BY <2>1 DEF SearchInv
  <2>3. QED BY <2>1, <2>2, IfaceSearchStep, SearchAdvances
<1> HIDE DEF Step
<1>2. IfaceSpec => [][Step]_ifaceVars
  BY <1>1, SearchInvariance, PTL DEF IfaceSpec
<1>3. QED BY <1>2 DEF SearchOutlastsChanges, Step

=============================================================================
