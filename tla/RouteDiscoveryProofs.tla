------------------------ MODULE RouteDiscoveryProofs ------------------------
(***************************************************************************)
(* Proofs about RouteDiscovery, for every set of addresses, every limit    *)
(* and every bound: type correctness and the safety invariants about the   *)
(* table and the searches.  The inductive invariant IInv adds to them what *)
(* GoodEntry (TableProofs) says of every entry.  One lemma per group of    *)
(* actions shows that a step keeps it.                                     *)
(***************************************************************************)
EXTENDS TableProofs, FiniteSetTheorems, WellFoundedInduction

-----------------------------------------------------------------------------
(* The inductive invariant. *)

\* Something will look after d: its retry timer or a postponed SendRequest.
Tended(d) == timer[d] # Off \/ waiting[d] + due[d] > 0

IInv ==
  /\ TypeOK
  /\ GoodTable(rt)
  /\ \A d \in Addr : InSearch(rt, d) => Tended(d)
  /\ \A p \in queue : Tended(p.dst)

\* The part of TypeOK about the packets, the part about the counters.
PacketsOK ==
  /\ loopback \subseteq Packet
  /\ queue \subseteq Packet
  /\ sent \in 0..MaxPackets
  /\ delivered \subseteq 1..MaxPackets
  /\ failed \subseteq 1..MaxPackets

TimersOK ==
  /\ timer \in [Addr -> {Off} \cup 0..(ReqCountModulus - 1)]
  /\ waiting \in [Addr -> Nat]
  /\ due \in [Addr -> Nat]
  /\ rreqCount \in 0..RreqRateLimit

LEMMA IInvParts ==
  IInv <=> /\ GoodTable(rt)
           /\ TimersOK
           /\ PacketsOK
           /\ received \in 0..MaxMessages
           /\ \A d \in Addr : InSearch(rt, d) => Tended(d)
           /\ \A p \in queue : Tended(p.dst)
BY DEF IInv, TypeOK, TimersOK, PacketsOK, GoodTable

\* The same of the next state.
LEMMA IInvNext ==
  ASSUME GoodTable(rt'), TimersOK', PacketsOK', received' \in 0..MaxMessages,
         \A d \in Addr : InSearch(rt', d) => Tended(d)',
         \A p \in queue' : Tended(p.dst)'
  PROVE  IInv'
BY DEF IInv, TypeOK, TimersOK, PacketsOK, GoodTable

LEMMA InitIInv == Init => IInv
<1> SUFFICES ASSUME Init PROVE IInv
  OBVIOUS
<1>1. GoodTable(rt)
  BY NoAddrAssumption DEF Init, GoodTable, GoodEntry, NoRoute, Entry, Flags
<1>2. TimersOK
  BY LimitsAssumption DEF Init, TimersOK
<1>3. PacketsOK /\ received \in 0..MaxMessages
  BY BoundsAssumption DEF Init, PacketsOK
<1>4. \A d \in Addr : ~InSearch(rt, d)
  BY DEF Init, InSearch, NoRoute
<1>5. QED BY <1>1, <1>2, <1>3, <1>4, IInvParts DEF Init

-----------------------------------------------------------------------------
(* The queue. *)

\* A set of naturals that is not empty has a least element.
LEMMA LeastElement ==
  ASSUME NEW I, I \subseteq Nat, I # {}
  PROVE  \E m \in I : \A k \in I : m <= k
<1> DEFINE R == StrictSubsetOrdering(Nat)
           T == {0..n : n \in I}
<1>1. IsWellFoundedOn(R, FiniteSubsetsOf(Nat))
  BY FS_StrictSubsetOrderingWellFounded
<1>2. T # {} /\ T \subseteq FiniteSubsetsOf(Nat)
  <2>1. \A n \in I : IsFiniteSet(0..n) /\ 0..n \in SUBSET Nat
    BY FS_Interval
  <2>2. \A n \in I : 0..n \in FiniteSubsetsOf(Nat)
    BY <2>1 DEF FiniteSubsetsOf
  <2>3. QED BY <2>2
<1> HIDE DEF R, T
<1>3. \E x \in T : \A y \in T : ~ (<<y, x>> \in R)
  BY <1>1, <1>2, WFMin
<1>4. PICK m \in I : \A k \in I : ~ (<<0..k, 0..m>> \in R)
  BY <1>3 DEF T
<1>5. ASSUME NEW k \in I, k < m
      PROVE  FALSE
  <2>1. 0..k \subseteq 0..m /\ 0..k # 0..m
    BY <1>5
  <2>2. <<0..k, 0..m>> \in R
    BY <2>1 DEF R, StrictSubsetOrdering
  <2>3. QED BY <2>2, <1>4
<1>6. QED BY <1>4, <1>5

\* The front of a queue that is not empty is one of its packets.
LEMMA OldestIsMember ==
  ASSUME NEW q, q \subseteq Packet, q # {}
  PROVE  Oldest(q) \in q /\ \A e \in q : Oldest(q).id <= e.id
<1>1. Ids(q) \subseteq Nat /\ Ids(q) # {}
  BY BoundsAssumption DEF Packet, Ids
<1>2. PICK m \in Ids(q) : \A k \in Ids(q) : m <= k
  BY <1>1, LeastElement
<1>3. \E e \in q : \A f \in q : e.id <= f.id
  BY <1>2 DEF Ids
<1>4. QED BY <1>3 DEF Oldest

\* What Enqueue evicts is in the queue.
LEMMA EvictedInQueue ==
  ASSUME NEW q, q \subseteq Packet
  PROVE  Evicted(q, MaxQueueLen) \subseteq PurgeQueue(q)
<1>1. CASE Cardinality(PurgeQueue(q)) = MaxQueueLen
  <2>1. PurgeQueue(q) # {} /\ PurgeQueue(q) \subseteq Packet
    BY <1>1, FS_EmptySet, LimitsAssumption DEF PurgeQueue
  <2>2. Oldest(PurgeQueue(q)) \in PurgeQueue(q)
    BY <2>1, OldestIsMember
  <2>3. QED BY <2>2 DEF Evicted
<1>2. CASE Cardinality(PurgeQueue(q)) # MaxQueueLen
  BY <1>2 DEF Evicted
<1>3. QED BY <1>1, <1>2

LEMMA IdsInRange ==
  ASSUME NEW q, q \subseteq Packet
  PROVE  Ids(q) \subseteq 1..MaxPackets
BY DEF Ids, Packet

-----------------------------------------------------------------------------
(* Steps that keep the invariant. *)

\* A step that changes nothing but the table, quietly, and counts a message.
LEMMA TableStep ==
  ASSUME IInv, Quiet(rt, rt'), OnlyTable, received' \in 0..MaxMessages
  PROVE  IInv'
<1>1. TimersOK' /\ PacketsOK'
  BY IInvParts DEF OnlyTable, packetVars, TimersOK, PacketsOK
<1>2. \A d \in Addr : Tended(d)' <=> Tended(d)
  BY DEF OnlyTable, Tended
<1>3. \A d \in Addr : InSearch(rt', d) => Tended(d)'
  BY <1>2, IInvParts DEF Calm, Quiet, NoNewSearch
<1>4. \A p \in queue' : Tended(p.dst)'
  BY <1>2, IInvParts DEF OnlyTable, packetVars, PacketsOK, Packet
<1>5. GoodTable(rt')
  BY DEF Calm, Quiet
<1>6. QED BY <1>1, <1>3, <1>4, <1>5, IInvNext

\* The entry SendRequest stores.
LEMMA SearchEntryGood ==
  ASSUME NEW t, GoodTable(t), NEW d \in Addr
  PROVE  LET e == SearchEntry(t, d)
         IN  /\ NextReqCount(e) \in 0..(ReqCountModulus - 1)
             /\ GoodEntry(d, [e EXCEPT !.reqCount = NextReqCount(e)])
             /\ ~NoHop([e EXCEPT !.reqCount = NextReqCount(e)])
<1> DEFINE e == SearchEntry(t, d)
           f == [e EXCEPT !.reqCount = NextReqCount(e)]
<1>1. Purge(t)[d] \in Entry /\ GoodEntry(d, Purge(t)[d])
  BY PurgeCalm DEF Calm, Quiet, GoodTable
<1>2. /\ e \in Entry /\ e.flag = "IN_SEARCH" /\ (e.hop = 1 => e.nextHop = d)
      /\ (e.hop = 0) <=> (e.nextHop = NoAddr)
      /\ e.nextHop # NoAddr => e.iface # NoIface
  <2>1. CASE Present(Purge(t), d)
    BY <1>1, <2>1 DEF SearchEntry, Entry, Flags, GoodEntry
  <2>2. CASE ~Present(Purge(t), d)
    <3>1. NoRoute \in Entry
      BY DEF NoRoute, Entry, Flags
    <3>2. e = [NoRoute EXCEPT !.flag = "IN_SEARCH"]
      BY <2>2 DEF SearchEntry
    <3>3. e \in Entry /\ e.flag = "IN_SEARCH"
      BY <3>1, <3>2 DEF Entry, Flags
    <3>4. e.hop = 0 /\ e.nextHop = NoAddr
      BY <3>1, <3>2 DEF Entry, NoRoute
    <3>5. QED BY <3>3, <3>4
  <2>3. QED BY <2>1, <2>2
<1>3. NextReqCount(e) \in 0..(ReqCountModulus - 1)
  <2>1. e.reqCount \in Nat
    BY <1>2 DEF Entry
  <2>2. QED BY <2>1, LimitsAssumption DEF NextReqCount
<1>4. NextReqCount(e) \in Nat
  BY <1>3, LimitsAssumption
<1> HIDE DEF e
<1>5. /\ f \in Entry /\ f.flag = "IN_SEARCH" /\ f.hop = e.hop /\ f.nextHop = e.nextHop
      /\ f.iface = e.iface /\ f.reqCount = NextReqCount(e)
  BY <1>2, <1>4 DEF Entry
<1>6. f.reqCount < ReqCountModulus
  BY <1>3, <1>5, LimitsAssumption
<1> HIDE DEF f
<1>7. GoodEntry(d, f) /\ ~NoHop(f)
  BY <1>2, <1>5, <1>6 DEF GoodEntry, NoHop
<1>8. QED BY <1>3, <1>7 DEF e, f

\* SendRequest leaves d tended and all else as it was.
LEMMA SendRequestStep ==
  ASSUME TimersOK, NEW t, Calm(rt, t), NEW d \in Addr,
         NEW tm \in [Addr -> {Off} \cup 0..(ReqCountModulus - 1)], SendRequest(t, tm, d)
  PROVE  /\ GoodTable(rt')
         /\ timer' \in [Addr -> {Off} \cup 0..(ReqCountModulus - 1)]
         /\ waiting' \in [Addr -> Nat]
         /\ rreqCount' \in 0..RreqRateLimit
         /\ timer'[d] # Off \/ waiting'[d] > 0
         /\ \A a \in Addr \ {d} : timer'[a] = tm[a] /\ waiting'[a] = waiting[a]
         /\ \A a \in Addr \ {d} :
              InSearch(rt', a) => InSearch(rt, a) /\ rt'[a].reqCount = rt[a].reqCount
         /\ NoNewBroken(rt, rt')
<1>1. GoodTable(t)
  BY DEF Calm, Quiet
<1>2. CASE RateLimited
  <2>1. rt' = t /\ timer' = tm /\ waiting' = [waiting EXCEPT ![d] = @ + 1]
        /\ rreqCount' = rreqCount
    BY <1>2 DEF SendRequest
  <2>2. QED BY <2>1 DEF TimersOK, Calm, Quiet, NoNewSearch
<1>3. CASE ~RateLimited
  <2> DEFINE e == SearchEntry(t, d)
             f == [e EXCEPT !.reqCount = NextReqCount(e)]
  <2>1. rt' = [Purge(t) EXCEPT ![d] = f] /\ timer' = [tm EXCEPT ![d] = NextReqCount(e)]
        /\ waiting' = waiting /\ rreqCount' = rreqCount + 1
    BY <1>3 DEF SendRequest
  <2>2. /\ NextReqCount(e) \in 0..(ReqCountModulus - 1) /\ GoodEntry(d, f) /\ f \in Entry
        /\ ~NoHop(f)
    BY <1>1, SearchEntryGood DEF GoodEntry
  <2> HIDE DEF e, f
  <2>3. GoodTable(Purge(t)) /\ NoNewSearch(t, Purge(t)) /\ NoNewBroken(t, Purge(t))
    BY <1>1, PurgeCalm DEF Calm, Quiet
  <2>4. GoodTable(rt')
    BY <2>1, <2>2, <2>3 DEF GoodTable
  <2>5. \A a \in Addr \ {d} :
          InSearch(rt', a) => InSearch(rt, a) /\ rt'[a].reqCount = rt[a].reqCount
    BY <2>1, <2>3 DEF GoodTable, NoNewSearch, InSearch, Calm, Quiet
  <2>6. timer'[d] # Off
    BY <2>1, <2>2 DEF Off
  <2>7. rreqCount' \in 0..RreqRateLimit
    BY <1>3, <2>1, LimitsAssumption DEF TimersOK, RateLimited
  <2>8. NoNewBroken(rt, rt')
    BY <2>1, <2>2, <2>3 DEF GoodTable, NoNewBroken, Calm
  <2>9. QED BY <2>1, <2>2, <2>4, <2>5, <2>6, <2>7, <2>8 DEF TimersOK
<1>4. QED BY <1>2, <1>3

\* Emptying the queue for d, either way.
LEMMA ClearQueueStep ==
  ASSUME PacketsOK, NEW d \in Addr, SendPacketFromQueue(d) \/ DropPacketWithDst(d),
         UNCHANGED <<loopback, sent>>
  PROVE  PacketsOK' /\ queue' \subseteq queue /\ \A p \in queue' : p.dst # d
<1>1. queue \subseteq Packet
  BY DEF PacketsOK
<1>2. Ids(Expired(queue)) \subseteq 1..MaxPackets /\ Ids(WithDst(queue, d)) \subseteq 1..MaxPackets
  BY <1>1, IdsInRange DEF Expired, WithDst, PurgeQueue
<1>3. queue' = PurgeQueue(queue) \ WithDst(queue, d)
  BY DEF SendPacketFromQueue, DropPacketWithDst
<1>4. queue' \subseteq queue /\ \A p \in queue' : p.dst # d
  BY <1>3 DEF PurgeQueue, WithDst
<1>5. delivered' \subseteq 1..MaxPackets /\ failed' \subseteq 1..MaxPackets
  BY <1>2 DEF PacketsOK, SendPacketFromQueue, DropPacketWithDst
<1>6. QED BY <1>4, <1>5 DEF PacketsOK

\* The packets of a RouteOutput.
LEMMA OutputPackets ==
  ASSUME PacketsOK, NEW d \in Addr, RouteOutput(d)
  PROVE  PacketsOK'
<1>1. sent + 1 \in 1..MaxPackets /\ sent' = sent + 1
  BY BoundsAssumption DEF RouteOutput, PacketsOK
<1>2. [id |-> sent + 1, dst |-> d, live |-> TRUE] \in Packet
  BY <1>1 DEF Packet
<1>3. loopback' \subseteq Packet /\ delivered' \subseteq 1..MaxPackets
  BY <1>1, <1>2 DEF RouteOutput, PacketsOK
<1>4. QED BY <1>1, <1>3, BoundsAssumption DEF RouteOutput, PacketsOK

LEMMA RouteOutputStep ==
  ASSUME IInv, NEW d \in Addr, RouteOutput(d)
  PROVE  IInv'
<1>1. Calm(rt, rt')
  BY IInvParts, PurgeCalm DEF RouteOutput
<1>2. TimersOK' /\ received' \in 0..MaxMessages
  BY IInvParts DEF RouteOutput, TimersOK
<1>3. PacketsOK'
  BY IInvParts, OutputPackets
<1>4. \A a \in Addr : InSearch(rt', a) => Tended(a)'
  BY <1>1, IInvParts DEF Calm, Quiet, NoNewSearch, RouteOutput, Tended
<1>5. \A p \in queue' : Tended(p.dst)'
  BY IInvParts DEF RouteOutput, Tended
<1>6. QED BY <1>1, <1>2, <1>3, <1>4, <1>5, IInvNext DEF Calm, Quiet

\* The packets of a DeferredRouteOutput.
LEMMA EnqueueStep ==
  ASSUME PacketsOK, NEW p, DeferredRouteOutput(p)
  PROVE  PacketsOK' /\ p \in Packet /\ queue' \subseteq queue \cup {p}
         /\ (IsQueued(queue, p) => queue' \subseteq queue)
<1>1. queue \subseteq Packet /\ p \in Packet
  BY DEF PacketsOK, DeferredRouteOutput
<1>2. EnqueueDrops(queue, p, MaxQueueLen) \subseteq queue
  BY <1>1, EvictedInQueue DEF EnqueueDrops, Expired, PurgeQueue
<1>3. Ids(EnqueueDrops(queue, p, MaxQueueLen)) \subseteq 1..MaxPackets
  <2> DEFINE q == EnqueueDrops(queue, p, MaxQueueLen)
  <2>1. q \subseteq Packet
    BY <1>1, <1>2
  <2> HIDE DEF q
  <2>2. QED BY <2>1, IdsInRange DEF q
<1>4. queue' \subseteq queue \cup {p} /\ (IsQueued(queue, p) => queue' \subseteq queue)
  BY DEF DeferredRouteOutput, Enqueue, PurgeQueue
<1>5. QED BY <1>1, <1>3, <1>4 DEF DeferredRouteOutput, PacketsOK

LEMMA DeferredRouteOutputStep ==
  ASSUME IInv, NEW p, DeferredRouteOutput(p)
  PROVE  IInv'
<1>1. PacketsOK' /\ p \in Packet /\ queue' \subseteq queue \cup {p}
      /\ (IsQueued(queue, p) => queue' \subseteq queue)
  BY IInvParts, EnqueueStep
<1>2. p.dst \in Addr /\ \A q \in queue : q.dst \in Addr
  BY <1>1, IInvParts DEF Packet, PacketsOK
<1>3. GoodTable(rt) /\ Calm(rt, Purge(rt)) /\ TimersOK
  BY IInvParts, PurgeCalm
<1>4. due' = due /\ received' = received
  BY DEF DeferredRouteOutput
<1>5. CASE IsQueued(queue, p)
  <2>1. UNCHANGED tableVars /\ queue' \subseteq queue
    BY <1>1, <1>5 DEF DeferredRouteOutput
  <2>2. QED BY <1>1, <1>3, <1>4, <2>1, IInvParts, IInvNext DEF tableVars, TimersOK, Tended
<1>6. CASE ~IsQueued(queue, p) /\ InSearch(rt, p.dst)
  <2>1. rt' = Purge(rt) /\ UNCHANGED <<timer, waiting, rreqCount>>
    BY <1>6 DEF DeferredRouteOutput
  <2>2. TimersOK' /\ \A d \in Addr : Tended(d) => Tended(d)'
    BY <1>3, <1>4, <2>1 DEF TimersOK, Tended
  <2>3. \A d \in Addr : InSearch(rt', d) => Tended(d)'
    BY <1>3, <2>1, <2>2, IInvParts DEF Calm, Quiet, NoNewSearch
  <2>4. \A q \in queue' : Tended(q.dst)'
    BY <1>1, <1>2, <1>6, <2>2, IInvParts
  <2>5. QED BY <1>1, <1>3, <1>4, <2>1, <2>2, <2>3, <2>4, IInvParts, IInvNext DEF Calm, Quiet
<1>7. CASE ~IsQueued(queue, p) /\ ~InSearch(rt, p.dst)
  <2>1. SendRequest(Purge(rt), timer, p.dst)
    BY <1>7 DEF DeferredRouteOutput
  <2>2. /\ GoodTable(rt') /\ TimersOK'
        /\ timer'[p.dst] # Off \/ waiting'[p.dst] > 0
        /\ \A a \in Addr \ {p.dst} : timer'[a] = timer[a] /\ waiting'[a] = waiting[a]
        /\ \A a \in Addr \ {p.dst} : InSearch(rt', a) => InSearch(rt, a)
    BY <1>2, <1>3, <1>4, <2>1, SendRequestStep DEF TimersOK
  <2>3. Tended(p.dst)' /\ \A d \in Addr \ {p.dst} : Tended(d) => Tended(d)'
    BY <1>2, <1>4, <2>2 DEF TimersOK, Tended
  <2>4. (\A d \in Addr : InSearch(rt', d) => Tended(d)') /\ \A q \in queue' : Tended(q.dst)'
    BY <1>1, <1>2, <2>2, <2>3, IInvParts
  <2>5. QED BY <1>1, <1>4, <2>2, <2>4, IInvParts, IInvNext
<1>8. QED BY <1>5, <1>6, <1>7

-----------------------------------------------------------------------------
(* Timer steps. *)

LEMMA RunDeferredRequestStep ==
  ASSUME IInv, NEW d \in Addr, RunDeferredRequest(d)
  PROVE  IInv'
<1>1. GoodTable(rt) /\ Calm(rt, Purge(rt)) /\ TimersOK /\ PacketsOK
  BY IInvParts, PurgeCalm
<1>2. /\ GoodTable(rt')
      /\ timer' \in [Addr -> {Off} \cup 0..(ReqCountModulus - 1)]
      /\ waiting' \in [Addr -> Nat]
      /\ rreqCount' \in 0..RreqRateLimit
      /\ timer'[d] # Off \/ waiting'[d] > 0
      /\ \A a \in Addr \ {d} : timer'[a] = timer[a] /\ waiting'[a] = waiting[a]
      /\ \A a \in Addr \ {d} : InSearch(rt', a) => InSearch(rt, a)
  BY <1>1, SendRequestStep DEF RunDeferredRequest, TimersOK
<1>3. due' \in [Addr -> Nat] /\ \A a \in Addr \ {d} : due'[a] = due[a]
  BY <1>1 DEF RunDeferredRequest, TimersOK
<1>4. TimersOK'
  BY <1>2, <1>3 DEF TimersOK
<1>5. Tended(d)' /\ \A a \in Addr \ {d} : Tended(a) => Tended(a)'
  BY <1>2, <1>3 DEF Tended
<1>6. PacketsOK' /\ queue' = queue /\ \A p \in queue : p.dst \in Addr
  BY <1>1 DEF RunDeferredRequest, packetVars, PacketsOK, Packet
<1>7. (\A a \in Addr : InSearch(rt', a) => Tended(a)') /\ \A p \in queue' : Tended(p.dst)'
  BY <1>2, <1>5, <1>6, IInvParts
<1>8. QED BY <1>2, <1>4, <1>6, <1>7, IInvParts, IInvNext DEF RunDeferredRequest

LEMMA RateLimitStep ==
  ASSUME IInv, RreqRateLimitTimerExpire
  PROVE  IInv'
<1>1. TimersOK' /\ PacketsOK' /\ \A d \in Addr : Tended(d) => Tended(d)'
  BY IInvParts, LimitsAssumption
     DEF RreqRateLimitTimerExpire, TimersOK, PacketsOK, packetVars, Tended
<1>2. rt' = rt /\ queue' = queue /\ \A p \in queue : p.dst \in Addr
  BY IInvParts DEF RreqRateLimitTimerExpire, packetVars, PacketsOK, Packet
<1>3. QED BY <1>1, <1>2, IInvParts, IInvNext DEF RreqRateLimitTimerExpire

\* The timer stops without a new request.
LEMMA RetryStops ==
  ASSUME IInv, NEW d \in Addr, Quiet(rt, rt'), ~InSearch(rt', d),
         timer' = [timer EXCEPT ![d] = Off], UNCHANGED <<waiting, due, rreqCount>>,
         PacketsOK', queue' \subseteq queue, \A p \in queue' : p.dst # d,
         received' \in 0..MaxMessages
  PROVE  IInv'
<1>1. TimersOK' /\ \A a \in Addr \ {d} : Tended(a)' <=> Tended(a)
  BY IInvParts DEF TimersOK, Tended
<1>2. \A a \in Addr : InSearch(rt', a) => Tended(a)'
  BY <1>1, IInvParts DEF Calm, Quiet, NoNewSearch
<1>3. \A p \in queue' : Tended(p.dst)'
  BY <1>1, IInvParts DEF PacketsOK, Packet
<1>4. QED BY <1>1, <1>2, <1>3, IInvNext DEF Calm, Quiet

LEMMA RouteRequestTimerExpireStep ==
  ASSUME IInv, NEW d \in Addr, RouteRequestTimerExpire(d)
  PROVE  IInv'
<1> DEFINE t == Purge(rt)
<1>1. GoodTable(rt) /\ Calm(rt, t) /\ GoodTable(t) /\ TimersOK /\ PacketsOK
  BY IInvParts, PurgeCalm DEF Calm, Quiet
<1>2. UNCHANGED <<due, loopback, sent, received>> /\ received' \in 0..MaxMessages
  BY IInvParts DEF RouteRequestTimerExpire
<1>3. RouteFound(t, d) \/ GiveUp(t, d) \/ Retry(t, d)
  BY DEF RouteRequestTimerExpire
<1> HIDE DEF t
<1>4. CASE RouteFound(t, d)
  <2>1. rt' = t /\ ~InSearch(rt', d) /\ SendPacketFromQueue(d)
    BY <1>4 DEF RouteFound, TakesRoute, IsValid, InSearch
  <2>2. PacketsOK' /\ queue' \subseteq queue /\ \A p \in queue' : p.dst # d
    BY <1>1, <1>2, <2>1, ClearQueueStep
  <2>3. QED BY <1>1, <1>2, <1>4, <2>1, <2>2, RetryStops DEF Calm, RouteFound, TakesRoute
<1>5. CASE GiveUp(t, d)
  <2>1. rt' = DeleteRoute(t, d) /\ DropPacketWithDst(d)
    BY <1>5 DEF GiveUp
  <2>2. Calm(rt, rt') /\ ~InSearch(rt', d)
    BY <1>1, <2>1, DeleteCalm, CalmTransitive
  <2>3. PacketsOK' /\ queue' \subseteq queue /\ \A p \in queue' : p.dst # d
    BY <1>1, <1>2, <2>1, ClearQueueStep
  <2>4. QED BY <1>2, <1>5, <2>2, <2>3, RetryStops DEF Calm, GiveUp
<1>6. CASE Retry(t, d)
  <2> DEFINE tm == [timer EXCEPT ![d] = Off]
  <2>1. tm \in [Addr -> {Off} \cup 0..(ReqCountModulus - 1)]
    BY <1>1 DEF TimersOK
  <2>2. \A a \in Addr \ {d} : tm[a] = timer[a]
    BY <1>1 DEF TimersOK
  <2>3. SendRequest(t, tm, d) /\ UNCHANGED <<queue, delivered, failed>>
    BY <1>6 DEF Retry
  <2> HIDE DEF tm
  <2>4. /\ GoodTable(rt')
        /\ timer' \in [Addr -> {Off} \cup 0..(ReqCountModulus - 1)]
        /\ waiting' \in [Addr -> Nat]
        /\ rreqCount' \in 0..RreqRateLimit
        /\ timer'[d] # Off \/ waiting'[d] > 0
        /\ \A a \in Addr \ {d} : timer'[a] = tm[a] /\ waiting'[a] = waiting[a]
        /\ \A a \in Addr \ {d} : InSearch(rt', a) => InSearch(rt, a)
    BY <1>1, <2>1, <2>3, SendRequestStep
  <2>5. TimersOK'
    BY <1>1, <1>2, <2>4 DEF TimersOK
  <2>6. Tended(d)' /\ \A a \in Addr \ {d} : Tended(a) => Tended(a)'
    BY <1>1, <1>2, <2>2, <2>4 DEF TimersOK, Tended
  <2>7. PacketsOK' /\ \A p \in queue' : p.dst \in Addr
    BY <1>1, <1>2, <2>3 DEF PacketsOK, Packet
  <2>8. (\A a \in Addr : InSearch(rt', a) => Tended(a)') /\ \A p \in queue' : Tended(p.dst)'
    BY <2>3, <2>4, <2>6, <2>7, IInvParts
  <2>9. QED BY <1>2, <2>4, <2>5, <2>7, <2>8, IInvNext
<1>7. QED BY <1>3, <1>4, <1>5, <1>6

-----------------------------------------------------------------------------
(* What messages and the environment do to the table. *)

\* The table once the sender was noted.
LEMMA HeardTable ==
  ASSUME GoodTable(rt), NEW s \in Addr
  PROVE  /\ Calm(rt, Heard(s)) /\ GoodTable(Heard(s))
         /\ Heard(s)[s].hop = 1 /\ Heard(s)[s].nextHop = s
BY HeardCalm DEF Heard, Calm, Quiet

LEMMA AckTable ==
  ASSUME GoodTable(rt), NEW s \in Addr, RecvReplyAck(s)
  PROVE  Calm(rt, rt')
<1>1. Calm(Heard(s), rt')
  BY HeardTable, ReactivateCalm DEF RecvReplyAck
<1>2. QED BY <1>1, HeardTable, CalmTransitive

\* A HELLO: the one message that may break a route.
LEMMA HelloTable ==
  ASSUME GoodTable(rt), NEW s \in Addr, NEW seq \in SeqNos, RecvHello(s, seq)
  PROVE  /\ Quiet(rt, rt')
         /\ \A a \in Addr : NoHop(rt'[a]) => NoHop(rt[a]) \/ (a = MainOf[s] /\ a # s)
<1>1. seq \in Nat /\ rt' = HelloRoute(Heard(s), s, seq)
  BY MessagesAssumption DEF RecvHello
<1>2. /\ Quiet(Heard(s), rt')
      /\ \A a \in Addr : NoHop(rt'[a]) => NoHop(Heard(s)[a]) \/ (a = MainOf[s] /\ a # s)
  BY <1>1, HeardTable, HelloQuiet
<1>3. QED BY <1>2, HeardTable DEF Calm, Quiet, NoNewSearch, NoNewBroken

LEMMA ErrorTable ==
  ASSUME GoodTable(rt), NEW s \in Addr, NEW dsts, RecvError(s, dsts)
  PROVE  Calm(rt, rt')
<1>1. Calm(Heard(s), rt')
  BY HeardTable, InvalidateCalm DEF RecvError
<1>2. QED BY <1>1, HeardTable, CalmTransitive

LEMMA RequestTable ==
  ASSUME GoodTable(rt), NEW s \in Addr, NEW o \in Addr, NEW d, NEW seq \in SeqNos, NEW ask,
         NEW hop \in HopCounts, Direct(s, o, hop), RecvRequest(s, o, d, seq, ask, hop)
  PROVE  Calm(rt, rt')
<1> DEFINE t == ReverseRoute(Heard(s), o, seq, hop, s)
<1>1. seq \in Nat /\ hop \in Nat \ {0} /\ (hop = 1 => s = o)
  BY MessagesAssumption DEF Direct
<1>2. Calm(rt, t) /\ GoodTable(t)
  <2>1. Calm(Heard(s), t)
    BY <1>1, HeardTable, ReverseCalm
  <2>2. QED BY <2>1, HeardTable, CalmTransitive DEF Calm, Quiet
<1> HIDE DEF t
<1>3. ASSUME NEW broken, rt' = BreakLinks(t, broken)
      PROVE  Calm(rt, rt')
  BY <1>2, <1>3, BreakCalm, CalmTransitive
<1>4. ASSUME d \in Addr, NEW broken, rt' = ReplyFromTable(BreakLinks(t, broken), t, d, o)
      PROVE  Calm(rt, rt')
  <2>1. Calm(t, BreakLinks(t, broken))
    BY <1>2, BreakCalm
  <2>2. Calm(t, rt')
    BY <1>2, <1>4, <2>1, ReplyFromTableCalm
  <2>3. QED BY <1>2, <2>2, CalmTransitive
<1>5. QED BY <1>3, <1>4 DEF RecvRequest, t

\* An RREP: the forward route.
LEMMA ForwardTable ==
  ASSUME GoodTable(rt), NEW s \in Addr, NEW d \in Addr, NEW seq \in SeqNos,
         NEW hop \in HopCounts, Direct(s, d, hop)
  PROVE  LET new == NewEntry(TRUE, seq, hop, s, IfaceOf[s])
             t == ForwardRoute(Heard(s), d, new)
         IN  /\ Calm(rt, t) /\ GoodTable(t)
             /\ GoodEntry(d, new) /\ new \in Entry /\ new.flag = "VALID" /\ ~NoHop(new)
<1> DEFINE new == NewEntry(TRUE, seq, hop, s, IfaceOf[s])
<1>1. seq \in Nat /\ hop \in Nat \ {0} /\ (hop = 1 => s = d)
  BY MessagesAssumption DEF Direct
<1>2. GoodEntry(d, new) /\ new \in Entry /\ new.flag = "VALID" /\ ~NoHop(new)
  <2>1. IfaceOf[s] \in Iface
    BY AddressesAssumption
  <2>2. QED BY <1>1, <2>1, NoAddrAssumption, NoIfaceAssumption
            DEF GoodEntry, NewEntry, NoHop, Entry, Flags
<1> HIDE DEF new
<1>3. Calm(Heard(s), ForwardRoute(Heard(s), d, new))
  BY <1>2, HeardTable, ForwardCalm
<1>4. QED BY <1>2, <1>3, HeardTable, CalmTransitive DEF Calm, Quiet, new

\* An RREP this node relays.
LEMMA RelayTable ==
  ASSUME GoodTable(rt), NEW s \in Addr, NEW d \in Addr, NEW o \in Addr, NEW seq \in SeqNos,
         NEW hop \in HopCounts, Direct(s, d, hop), RecvReply(s, d, o, seq, hop)
  PROVE  Calm(rt, rt') /\ OnlyTable
<1> DEFINE t == ForwardRoute(Heard(s), d, NewEntry(TRUE, seq, hop, s, IfaceOf[s]))
<1>1. Calm(rt, t) /\ GoodTable(t)
  BY ForwardTable
<1>2. rt' = RelayReply(t, d, o) /\ OnlyTable
  BY MeAssumption DEF RecvReply, OnlyTable, packetVars
<1> HIDE DEF t
<1>3. Calm(t, rt')
  BY <1>1, <1>2, RelayCalm
<1>4. QED BY <1>1, <1>2, <1>3, CalmTransitive

\* An RREP for this node stops the timer of a search only when that is over.
LEMMA OwnReplyTable ==
  ASSUME GoodTable(rt), NEW s \in Addr, NEW d \in Addr, NEW seq \in SeqNos,
         NEW hop \in HopCounts, Direct(s, d, hop), OwnReply(s, d, seq, hop)
  PROVE  /\ Calm(rt, rt')
         /\ \/ UNCHANGED timer
            \/ timer' = [timer EXCEPT ![d] = Off] /\ ~InSearch(rt', d)
<1> DEFINE new == NewEntry(TRUE, seq, hop, s, IfaceOf[s])
           t == ForwardRoute(Heard(s), d, new)
<1>1. /\ Calm(rt, t) /\ GoodTable(t) /\ GoodEntry(d, new)
      /\ new \in Entry /\ new.flag = "VALID" /\ ~NoHop(new)
  BY ForwardTable
<1>2. \/ rt' = Update(t, d, new) /\ timer' = [timer EXCEPT ![d] = Off]
      \/ rt' = t /\ UNCHANGED timer
  BY DEF OwnReply
<1> HIDE DEF new, t
<1>3. CASE rt' = Update(t, d, new) /\ timer' = [timer EXCEPT ![d] = Off]
  <2>1. Calm(t, rt')
    BY <1>1, <1>3, OverwriteCalm
  <2>2. ~InSearch(rt', d)
    BY <1>1, <1>3 DEF Update, Stored, InSearch, Present, GoodTable, Entry
  <2>3. QED BY <1>1, <1>3, <2>1, <2>2, CalmTransitive
<1>4. CASE rt' = t /\ UNCHANGED timer
  BY <1>1, <1>4
<1>5. QED BY <1>2, <1>3, <1>4

\* Broken links, looked-up entries and passing lifetimes.
LEMMA EnvironmentTable ==
  ASSUME GoodTable(rt),
         \/ \E a \in Addr : SendRerrWhenBreaksLinkToNextHop(a) \/ LifetimePasses(a)
         \/ LookupRoute
  PROVE  Calm(rt, rt') /\ OnlyTable /\ UNCHANGED received
<1>1. OnlyTable /\ UNCHANGED received
  BY DEF SendRerrWhenBreaksLinkToNextHop, LifetimePasses, LookupRoute
<1>2. ASSUME NEW n \in Addr, SendRerrWhenBreaksLinkToNextHop(n)
      PROVE  Calm(rt, rt')
  BY <1>2, BreakCalm DEF SendRerrWhenBreaksLinkToNextHop
<1>3. ASSUME NEW a \in Addr, LifetimePasses(a)
      PROVE  Calm(rt, rt')
  <2> DEFINE e == [rt[a] EXCEPT !.live = FALSE]
  <2>1. rt[a] \in Entry /\ GoodEntry(a, rt[a])
    BY DEF GoodTable
  <2>2. /\ e \in Entry /\ GoodEntry(a, e) /\ e.flag = rt[a].flag /\ e.reqCount = rt[a].reqCount
        /\ NoHop(e) <=> NoHop(rt[a])
    BY <2>1 DEF GoodEntry, NoHop, Entry
  <2>3. rt' = [rt EXCEPT ![a] = e]
    BY <1>3 DEF LifetimePasses, GoodTable
  <2> HIDE DEF e
  <2>4. QED BY <2>2, <2>3 DEF Calm, Quiet, GoodTable, NoNewSearch, NoNewBroken, InSearch
<1>4. CASE LookupRoute
  BY <1>4, PurgeCalm DEF LookupRoute
<1>5. QED BY <1>1, <1>2, <1>3, <1>4

-----------------------------------------------------------------------------
(* Message and environment steps. *)

LEMMA ReceivedInRange ==
  ASSUME received \in 0..MaxMessages, Receive
  PROVE  received' \in 0..MaxMessages
BY BoundsAssumption DEF Receive

\* The messages that change nothing but the table.
LEMMA TableMessageStep ==
  ASSUME IInv, Quiet(rt, rt'), OnlyTable, Receive
  PROVE  IInv'
BY IInvParts, ReceivedInRange, TableStep

LEMMA RecvIgnoredStep ==
  ASSUME IInv, NEW s \in Addr, RecvIgnored(s)
  PROVE  IInv'
BY IInvParts, HeardTable, TableMessageStep DEF RecvIgnored, Calm

LEMMA RecvReplyAckStep ==
  ASSUME IInv, NEW s \in Addr, RecvReplyAck(s)
  PROVE  IInv'
BY IInvParts, AckTable, TableMessageStep DEF RecvReplyAck, Calm

LEMMA RecvHelloStep ==
  ASSUME IInv, NEW s \in Addr, NEW seq \in SeqNos, RecvHello(s, seq)
  PROVE  IInv'
BY IInvParts, HelloTable, TableMessageStep DEF RecvHello

LEMMA RecvErrorStep ==
  ASSUME IInv, NEW s \in Addr, NEW dsts, RecvError(s, dsts)
  PROVE  IInv'
BY IInvParts, ErrorTable, TableMessageStep DEF RecvError, Calm

LEMMA RecvRequestStep ==
  ASSUME IInv, NEW s \in Addr, NEW o \in Addr, NEW d, NEW seq \in SeqNos, NEW ask,
         NEW hop \in HopCounts, Direct(s, o, hop), RecvRequest(s, o, d, seq, ask, hop)
  PROVE  IInv'
BY IInvParts, RequestTable, TableMessageStep DEF RecvRequest, Calm

LEMMA OwnReplyStep ==
  ASSUME IInv, NEW s \in Addr, NEW d \in Addr, NEW seq \in SeqNos, NEW hop \in HopCounts,
         Direct(s, d, hop), OwnReply(s, d, seq, hop), SendPacketFromQueue(d), Receive,
         UNCHANGED <<waiting, due, rreqCount, loopback, sent>>
  PROVE  IInv'
<1>1. /\ Calm(rt, rt')
      /\ \/ UNCHANGED timer
         \/ timer' = [timer EXCEPT ![d] = Off] /\ ~InSearch(rt', d)
  BY IInvParts, OwnReplyTable
<1>2. PacketsOK' /\ queue' \subseteq queue /\ \A p \in queue' : p.dst # d
  BY IInvParts, ClearQueueStep
<1>3. received' \in 0..MaxMessages
  BY IInvParts, ReceivedInRange
<1>4. CASE UNCHANGED timer
  <2>1. TimersOK' /\ \A a \in Addr : Tended(a) => Tended(a)'
    BY <1>4, IInvParts DEF TimersOK, Tended
  <2>2. \A a \in Addr : InSearch(rt', a) => Tended(a)'
    BY <1>1, <2>1, IInvParts DEF Calm, Quiet, NoNewSearch
  <2>3. \A p \in queue' : Tended(p.dst)'
    BY <1>2, <2>1, IInvParts DEF PacketsOK, Packet
  <2>4. QED BY <1>1, <1>2, <1>3, <2>1, <2>2, <2>3, IInvNext DEF Calm, Quiet
<1>5. CASE timer' = [timer EXCEPT ![d] = Off] /\ ~InSearch(rt', d)
  BY <1>1, <1>2, <1>3, <1>5, RetryStops DEF Calm
<1>6. QED BY <1>1, <1>4, <1>5

LEMMA RecvReplyStep ==
  ASSUME IInv, NEW s \in Addr, NEW d \in Addr, NEW o \in Addr \cup {Me}, NEW seq \in SeqNos,
         NEW hop \in HopCounts, Direct(s, d, hop), RecvReply(s, d, o, seq, hop)
  PROVE  IInv'
<1>1. CASE o = Me
  BY <1>1, OwnReplyStep DEF RecvReply
<1>2. CASE o # Me
  BY <1>2, IInvParts, RelayTable, TableMessageStep DEF RecvReply, Calm
<1>3. QED BY <1>1, <1>2

LEMMA EnvironmentStep ==
  ASSUME IInv, Environment
  PROVE  IInv'
<1>1. GoodTable(rt) /\ PacketsOK /\ TimersOK /\ received \in 0..MaxMessages
  BY IInvParts
<1>2. ASSUME \/ \E a \in Addr : SendRerrWhenBreaksLinkToNextHop(a) \/ LifetimePasses(a)
             \/ LookupRoute
      PROVE  IInv'
  BY <1>1, <1>2, EnvironmentTable, TableStep DEF Calm
<1>3. ASSUME NEW p \in queue, PacketLifetimePasses(p)
      PROVE  IInv'
  <2>1. p \in Packet /\ [p EXCEPT !.live = FALSE] \in Packet
        /\ [p EXCEPT !.live = FALSE].dst = p.dst
    BY <1>1 DEF PacketsOK, Packet
  <2>2. PacketsOK' /\ TimersOK'
    BY <1>1, <1>3, <2>1 DEF PacketLifetimePasses, PacketsOK, TimersOK, tableVars
  <2>3. UNCHANGED tableVars /\ due' = due
    BY <1>3 DEF PacketLifetimePasses
  <2>4. \A d \in Addr : Tended(d)' <=> Tended(d)
    BY <2>3 DEF Tended, tableVars
  <2>5. \A q \in queue' : Tended(q.dst)'
    BY <1>1, <1>3, <2>1, <2>4, IInvParts DEF PacketLifetimePasses, PacketsOK, Packet
  <2>6. QED BY <1>1, <1>3, <2>2, <2>3, <2>4, <2>5, IInvParts, IInvNext
            DEF PacketLifetimePasses, tableVars
<1>4. QED BY <1>2, <1>3 DEF Environment

-----------------------------------------------------------------------------
(* The theorems. *)

LEMMA NextIInv == IInv /\ [Next]_vars => IInv'
<1> SUFFICES ASSUME IInv, [Next]_vars PROVE IInv'
  OBVIOUS
<1>1. CASE NextPacket
  BY <1>1, RouteOutputStep, DeferredRouteOutputStep DEF NextPacket
<1>2. CASE NextTimer
  BY <1>2, RunDeferredRequestStep, RouteRequestTimerExpireStep, RateLimitStep DEF NextTimer
<1>3. CASE NextMessage
  BY <1>3, RecvIgnoredStep, RecvReplyAckStep, RecvHelloStep, RecvErrorStep,
     RecvReplyStep, RecvRequestStep DEF NextMessage
<1>4. CASE Environment
  BY <1>4, EnvironmentStep
<1>5. CASE UNCHANGED vars
  BY <1>5 DEF vars, IInv, TypeOK, GoodTable, InSearch, Tended
<1>6. QED BY <1>1, <1>2, <1>3, <1>4, <1>5 DEF Next

THEOREM Invariance == Spec => []IInv
BY InitIInv, NextIInv, PTL DEF Spec

\* TypeCorrect: every variable keeps its type in every behaviour; the timer
\* and the request count stay below the modulus, the rate count at its limit.
THEOREM TypeCorrect == Spec => []TypeOK
<1>1. IInv => TypeOK
  BY DEF IInv
<1>2. QED BY <1>1, Invariance, PTL

\* SearchesSupervised: an entry IN_SEARCH always has its retry timer running or
\* a SendRequest scheduled behind the rate limit, whatever messages arrive.
THEOREM SearchesSupervised == Spec => []SearchSupervised
<1>1. IInv => SearchSupervised
  BY DEF IInv, SearchSupervised, Tended
<1>2. QED BY <1>1, Invariance, PTL

\* PacketsTended: a queued packet always has an event that will look after it.
THEOREM PacketsTended == Spec => []NoOrphanPacket
<1>1. IInv => NoOrphanPacket
  BY DEF IInv, NoOrphanPacket, Tended
<1>2. QED BY <1>1, Invariance, PTL

\* RetryCountFresh: every search starts counting its attempts from 0.
THEOREM RetryCountFresh == Spec => []FreshRetryCount
<1>1. IInv => FreshRetryCount
  BY DEF IInv, GoodTable, GoodEntry, FreshRetryCount, InSearch
<1>2. QED BY <1>1, Invariance, PTL

\* A step breaks no route, unless it is a HELLO that names another address than
\* that of its sender.
LEMMA RoutesKept ==
  ASSUME IInv, [Next]_vars, NEW d \in Addr, NoHop(rt'[d]), ~NoHop(rt[d])
  PROVE  \E s \in Addr \ {d}, seq \in SeqNos : MainOf[s] = d /\ RecvHello(s, seq)
<1>1. /\ GoodTable(rt) /\ TimersOK /\ Calm(rt, Purge(rt)) /\ GoodTable(Purge(rt))
      /\ ~NoNewBroken(rt, rt') /\ ~Calm(rt, rt') /\ ~(UNCHANGED rt)
      /\ timer \in [Addr -> {Off} \cup 0..(ReqCountModulus - 1)]
  BY IInvParts, PurgeCalm DEF Calm, Quiet, NoNewBroken, TimersOK
<1>2. CASE NextPacket
  <2>1. ~\E a \in Addr : RouteOutput(a)
    BY <1>1 DEF RouteOutput
  <2>2. PICK p \in loopback : DeferredRouteOutput(p)
    BY <1>2, <2>1 DEF NextPacket
  <2>3. p.dst \in Addr
    BY IInvParts DEF PacketsOK, Packet
  <2>4. SendRequest(Purge(rt), timer, p.dst)
    BY <1>1, <2>2 DEF DeferredRouteOutput, tableVars
  <2>5. QED BY <1>1, <2>3, <2>4, SendRequestStep
<1>3. CASE NextTimer
  <2>1. ~RreqRateLimitTimerExpire
    BY <1>1 DEF RreqRateLimitTimerExpire
  <2>2. ASSUME NEW a \in Addr, RouteRequestTimerExpire(a)
        PROVE  FALSE
    <3> DEFINE t == Purge(rt)
               tm == [timer EXCEPT ![a] = Off]
    <3>1. GoodTable(t) /\ Calm(rt, t)
      BY <1>1
    <3>2. tm \in [Addr -> {Off} \cup 0..(ReqCountModulus - 1)]
      BY <1>1
    <3>3. RouteFound(t, a) \/ GiveUp(t, a) \/ Retry(t, a)
      BY <2>2 DEF RouteRequestTimerExpire
    <3> HIDE DEF t, tm
    <3>4. ~RouteFound(t, a)
      BY <1>1, <3>1 DEF RouteFound, TakesRoute
    <3>5. ~GiveUp(t, a)
      BY <1>1, <3>1, DeleteCalm, CalmTransitive DEF GiveUp
    <3>6. SendRequest(t, tm, a)
      BY <3>3, <3>4, <3>5 DEF Retry, tm
    <3>7. QED BY <1>1, <3>1, <3>2, <3>6, SendRequestStep
  <2>3. ~\E a \in Addr : RunDeferredRequest(a)
    BY <1>1, SendRequestStep DEF RunDeferredRequest
  <2>4. QED BY <1>3, <2>1, <2>2, <2>3 DEF NextTimer
<1>4. CASE Environment
  <2>1. ~\E p \in queue : PacketLifetimePasses(p)
    BY <1>1 DEF PacketLifetimePasses, tableVars
  <2>2. QED BY <1>1, <1>4, <2>1, EnvironmentTable DEF Environment
<1>5. CASE NextMessage
  <2>1. ASSUME NEW s \in Addr,
               \/ RecvIgnored(s) \/ RecvReplyAck(s)
               \/ \E dsts \in SUBSET Addr : RecvError(s, dsts)
        PROVE  FALSE
    BY <1>1, <2>1, HeardTable, AckTable, ErrorTable DEF RecvIgnored
  <2>2. ASSUME NEW s \in Addr, NEW a \in Addr, NEW o \in Addr \cup {Me}, NEW seq \in SeqNos,
               NEW hop \in HopCounts, Direct(s, a, hop), RecvReply(s, a, o, seq, hop)
        PROVE  FALSE
    <3>1. CASE o = Me
      BY <1>1, <2>2, <3>1, OwnReplyTable DEF RecvReply
    <3>2. CASE o # Me
      BY <1>1, <2>2, <3>2, RelayTable
    <3>3. QED BY <3>1, <3>2
  <2>3. ASSUME NEW s \in Addr, NEW o \in Addr, NEW a, NEW seq \in SeqNos, NEW ask,
               NEW hop \in HopCounts, Direct(s, o, hop), RecvRequest(s, o, a, seq, ask, hop)
        PROVE  FALSE
    BY <1>1, <2>3, RequestTable
  <2>4. PICK s \in Addr, seq \in SeqNos : RecvHello(s, seq)
    BY <1>5, <2>1, <2>2, <2>3 DEF NextMessage
  <2>5. MainOf[s] = d /\ d # s
    BY <1>1, <2>4, HelloTable
  <2>6. QED BY <2>4, <2>5
<1>6. CASE UNCHANGED vars
  BY <1>1, <1>6 DEF vars
<1>7. QED BY <1>2, <1>3, <1>4, <1>5, <1>6 DEF Next

\* RoutesUsable: no reply, request, answer, timer or broken link ever leaves a
\* route without a next hop or with a length that does not fit it; only a HELLO
\* of a node heard on another interface than that of its main address does.
THEOREM RoutesUsable == Spec => UsableRoute
<1> DEFINE Step == \A d \in Addr : Broken(rt', d) =>
                     \/ Broken(rt, d)
                     \/ \E s \in Addr \ {d}, seq \in SeqNos :
                          MainOf[s] = d /\ RecvHello(s, seq)
<1>1. IInv /\ IInv' /\ [Next]_vars => Step
  <2>1. SUFFICES ASSUME IInv, IInv', [Next]_vars, NEW d \in Addr, Broken(rt', d), ~Broken(rt, d)
                 PROVE  \E s \in Addr \ {d}, seq \in SeqNos : MainOf[s] = d /\ RecvHello(s, seq)
    BY <2>1
  <2>2. GoodTable(rt) /\ GoodTable(rt')
    BY <2>1 DEF IInv
  <2>3. NoHop(rt'[d]) /\ ~NoHop(rt[d])
    BY <2>1, <2>2, BrokenIsNoHop
  <2>4. QED BY <2>1, <2>3, RoutesKept
<1> HIDE DEF Step
<1>2. Spec => [][Step]_vars
  BY <1>1, InitIInv, NextIInv, PTL DEF Spec
<1>3. QED BY <1>2 DEF UsableRoute, Step

-----------------------------------------------------------------------------
(* Searches near their end. *)

Requests(d) == waiting[d] + due[d]

\* What a step may do to a search that goes on: nothing; send a request for
\* it, from the retry timer or a postponed one; postpone the timer's request.
Rests(d) ==
  /\ rt'[d].reqCount = rt[d].reqCount
  /\ timer'[d] = timer[d]
  /\ Requests(d)' = Requests(d)

Sends(d) ==
  /\ rt'[d].reqCount = NextReqCount(rt[d])
  /\ timer'[d] = NextReqCount(rt[d])
  /\ \/ timer[d] # Off /\ Requests(d)' = Requests(d)
     \/ Requests(d)' = Requests(d) - 1

Postpones(d) ==
  /\ rt'[d].reqCount = rt[d].reqCount
  /\ timer[d] # Off /\ timer'[d] = Off
  /\ Requests(d)' = Requests(d) + 1

\* Counts fit the width of m_reqCount.
CountsFit == \A d \in Addr : rt[d].reqCount \in 0..(ReqCountModulus - 1)

LEMMA GoodCountsFit == GoodTable(rt) => CountsFit
<1> SUFFICES ASSUME GoodTable(rt), NEW d \in Addr
             PROVE  rt[d].reqCount \in 0..(ReqCountModulus - 1)
  BY DEF CountsFit
<1>1. /\ rt[d].reqCount \in Nat
      /\ rt[d].reqCount = 0 \/ rt[d].reqCount < ReqCountModulus
  BY DEF GoodTable, GoodEntry, Entry
<1>2. QED BY <1>1, LimitsAssumption

\* One attempt more is one attempt less ahead, but at RreqRetries, from where
\* the count has the whole way round to go.
LEMMA NextAttempt ==
  ASSUME NEW c \in 0..(ReqCountModulus - 1)
  PROVE  LET n == (c + 1) % ReqCountModulus
         IN  /\ n \in 0..(ReqCountModulus - 1)
             /\ AttemptsAhead(c) \in Nat /\ AttemptsAhead(n) \in Nat
             /\ c # RreqRetries => AttemptsAhead(n) = AttemptsAhead(c) - 1
<1>1. CASE c + 1 < ReqCountModulus
  <2>1. (c + 1) % ReqCountModulus = c + 1
    BY <1>1, LimitsAssumption
  <2>2. QED BY <1>1, <2>1, LimitsAssumption DEF AttemptsAhead
<1>2. CASE c + 1 = ReqCountModulus
  <2>1. (c + 1) % ReqCountModulus = 0
    BY <1>2, LimitsAssumption
  <2>2. QED BY <1>2, <2>1, LimitsAssumption DEF AttemptsAhead
<1>3. QED BY <1>1, <1>2, LimitsAssumption

\* Sending and postponing bring the end nearer; resting leaves it where it is.
\* The timer sends only before the last attempt.
LEMMA SearchAdvances ==
  ASSUME GoodTable(rt), TimersOK, TimersOK', NEW d \in Addr
  PROVE  /\ Rests(d) => Underway(d)' = Underway(d) /\ EventsAhead(d)' = EventsAhead(d)
         /\ Postpones(d) /\ rt[d].reqCount # RreqRetries => Nearer(d)
         /\ Sends(d) /\ (rt[d].reqCount # RreqRetries \/ Requests(d)' # Requests(d)) => Nearer(d)
<1> DEFINE c == rt[d].reqCount
           n == (c + 1) % ReqCountModulus
<1>1. c \in 0..(ReqCountModulus - 1) /\ NextReqCount(rt[d]) = n
  BY GoodCountsFit DEF CountsFit, NextReqCount
<1>2. /\ n \in 0..(ReqCountModulus - 1) /\ Off \notin 0..(ReqCountModulus - 1)
      /\ AttemptsAhead(c) \in Nat /\ AttemptsAhead(n) \in Nat
      /\ c # RreqRetries => AttemptsAhead(n) = AttemptsAhead(c) - 1
  BY <1>1, NextAttempt DEF Off
<1>3. Requests(d) \in Nat /\ Requests(d)' \in Nat
  BY DEF TimersOK, Requests
<1> DEFINE on == timer[d] # Off
           onNext == timer'[d] # Off
<1>4. /\ Underway(d) = Requests(d) + (IF on THEN 1 ELSE 0)
      /\ Underway(d)' = Requests(d)' + (IF onNext THEN 1 ELSE 0)
  BY <1>3 DEF Underway, Requests, TimersOK
<1>5. /\ on => EventsAhead(d) = 2 * AttemptsAhead(c) + 1
      /\ ~on => EventsAhead(d) = 2 * AttemptsAhead(n) + 2
  BY <1>1 DEF EventsAhead
<1>6. /\ onNext => EventsAhead(d)' = 2 * AttemptsAhead(rt'[d].reqCount) + 1
      /\ ~onNext => EventsAhead(d)' = 2 * AttemptsAhead((rt'[d].reqCount + 1) % ReqCountModulus) + 2
  BY DEF EventsAhead, NextReqCount, AttemptsAhead
<1>7. ASSUME Rests(d)
      PROVE  Underway(d)' = Underway(d) /\ EventsAhead(d)' = EventsAhead(d)
  BY <1>4, <1>5, <1>6, <1>7 DEF Rests
<1>8. ASSUME Postpones(d), c # RreqRetries
      PROVE  Nearer(d)
  <2>1. on /\ ~onNext /\ rt'[d].reqCount = c /\ Requests(d)' = Requests(d) + 1
    BY <1>8 DEF Postpones
  <2>2. Underway(d)' = Underway(d)
    BY <1>3, <1>4, <2>1
  <2>3. EventsAhead(d)' < EventsAhead(d)
    BY <1>2, <1>5, <1>6, <1>8, <2>1
  <2>4. QED BY <2>2, <2>3 DEF Nearer
<1>9. ASSUME Sends(d), c # RreqRetries \/ Requests(d)' # Requests(d)
      PROVE  Nearer(d)
  <2>1. onNext /\ rt'[d].reqCount = n
    BY <1>1, <1>2, <1>9 DEF Sends
  <2>2. EventsAhead(d)' = 2 * AttemptsAhead(n) + 1
    BY <1>6, <2>1
  <2>3. CASE on /\ Requests(d)' = Requests(d)
    <3>1. Underway(d)' = Underway(d) /\ EventsAhead(d)' < EventsAhead(d)
      BY <1>2, <1>4, <1>5, <1>9, <2>1, <2>2, <2>3
    <3>2. QED BY <3>1 DEF Nearer
  <2>4. CASE on /\ Requests(d)' = Requests(d) - 1
    <3>1. Underway(d)' < Underway(d)
      BY <1>3, <1>4, <2>1, <2>4
    <3>2. QED BY <3>1 DEF Nearer
  <2>5. CASE ~on /\ Requests(d)' = Requests(d) - 1
    <3>1. Underway(d)' = Underway(d) /\ EventsAhead(d)' < EventsAhead(d)
      BY <1>2, <1>3, <1>4, <1>5, <2>1, <2>2, <2>5
    <3>2. QED BY <3>1 DEF Nearer
  <2>6. QED BY <1>9, <2>3, <2>4, <2>5 DEF Sends
<1>10. QED BY <1>7, <1>8, <1>9

\* SendRequest, from a purged table: put off, or sent with the next count.
LEMMA RequestCounts ==
  ASSUME GoodTable(rt), TimersOK, NEW d \in Addr,
         NEW tm \in [Addr -> {Off} \cup 0..(ReqCountModulus - 1)],
         SendRequest(Purge(rt), tm, d)
  PROVE  \/ /\ rt' = Purge(rt) /\ timer' = tm /\ rreqCount' = rreqCount
            /\ waiting' = [waiting EXCEPT ![d] = @ + 1]
         \/ /\ rreqCount' # rreqCount /\ waiting' = waiting
            /\ rt'[d].reqCount \in 0..(ReqCountModulus - 1)
            /\ timer'[d] = rt'[d].reqCount
            /\ InSearch(rt, d) => rt'[d].reqCount = NextReqCount(rt[d])
<1>1. CASE RateLimited
  BY <1>1 DEF SendRequest
<1>2. CASE ~RateLimited
  <2> DEFINE e == SearchEntry(Purge(rt), d)
             f == [e EXCEPT !.reqCount = NextReqCount(e)]
  <2>1. rt' = [Purge(Purge(rt)) EXCEPT ![d] = f] /\ timer' = [tm EXCEPT ![d] = NextReqCount(e)]
        /\ waiting' = waiting /\ rreqCount' = rreqCount + 1
    BY <1>2 DEF SendRequest
  <2>2. /\ GoodTable(Purge(rt))
        /\ NextReqCount(e) \in 0..(ReqCountModulus - 1)
    BY PurgeCalm, SearchEntryGood DEF Calm, Quiet
  <2>3. GoodEntry(d, f)
    BY <2>2, SearchEntryGood
  <2>4. ASSUME InSearch(rt, d)
        PROVE  NextReqCount(e) = NextReqCount(rt[d])
    <3>1. Purge(Purge(rt))[d] = rt[d]
      BY <2>4 DEF Purge, PurgeEntry, InSearch
    <3>2. e = [rt[d] EXCEPT !.flag = "IN_SEARCH"] /\ rt[d] \in Entry
      BY <2>4, <3>1 DEF SearchEntry, Present, InSearch, GoodTable
    <3>3. QED BY <3>2 DEF NextReqCount, Entry
  <2>5. f.reqCount = NextReqCount(e)
    <3>1. e \in Entry
      <4>1. Purge(Purge(rt))[d] \in Entry
        BY <2>2, PurgeCalm DEF Calm, Quiet, GoodTable
      <4>2. QED BY <4>1 DEF SearchEntry, Entry, Flags, NoRoute
    <3>2. QED BY <3>1 DEF Entry
  <2> HIDE DEF e, f
  <2>6. rt'[d] = f
    BY <2>1 DEF Purge
  <2>7. rreqCount' # rreqCount
    BY <2>1 DEF TimersOK
  <2>8. QED BY <2>1, <2>2, <2>4, <2>5, <2>6, <2>7
<1>3. QED BY <1>1, <1>2

\* The retry timer of d goes off, whatever it does to the packets.
TimerGoesOff(d) ==
  /\ timer[d] # Off /\ due' = due
  /\ TakesRoute(Purge(rt), d) \/ GiveUp(Purge(rt), d) \/ Retry(Purge(rt), d)

\* A retry is sent or postponed, and is none of the last attempt.
LEMMA RetryAdvances ==
  ASSUME GoodTable(rt), TimersOK, NEW d \in Addr, InSearch(rt, d), InSearch(rt', d),
         TimerGoesOff(d)
  PROVE  rt[d].reqCount # RreqRetries /\ (Sends(d) \/ Postpones(d))
<1> DEFINE t == Purge(rt)
           tm == [timer EXCEPT ![d] = Off]
<1>1. t[d] = rt[d] /\ Calm(rt, t)
  BY PurgeCalm DEF Purge, PurgeEntry, InSearch
<1>2. ~TakesRoute(t, d)
  BY <1>1 DEF TakesRoute, IsValid, InSearch
<1>3. ~GiveUp(t, d)
  BY <1>1, DeleteCalm DEF GiveUp, Calm, Quiet
<1>4. Retry(t, d) /\ due' = due /\ timer[d] # Off
  BY <1>2, <1>3 DEF TimerGoesOff
<1>5. rt[d].reqCount # RreqRetries
  BY <1>1, <1>4 DEF Retry, GivesUp, IsValid, InSearch
<1>6. tm \in [Addr -> {Off} \cup 0..(ReqCountModulus - 1)] /\ tm[d] = Off
  BY DEF TimersOK
<1>7. SendRequest(t, tm, d)
  BY <1>4 DEF Retry
<1> HIDE DEF tm
<1>8. \/ /\ rt' = t /\ timer' = tm /\ waiting' = [waiting EXCEPT ![d] = @ + 1]
      \/ /\ waiting' = waiting /\ timer'[d] = rt'[d].reqCount
         /\ rt'[d].reqCount = NextReqCount(rt[d])
  BY <1>6, <1>7, RequestCounts
<1>9. QED BY <1>1, <1>4, <1>5, <1>6, <1>8 DEF Sends, Postpones, Requests, TimersOK

LEMMA PostponedAdvances ==
  ASSUME GoodTable(rt), TimersOK, NEW d \in Addr, InSearch(rt, d), RunDeferredRequest(d)
  PROVE  \/ rreqCount' # rreqCount /\ Sends(d) /\ Requests(d)' # Requests(d)
         \/ rreqCount' = rreqCount /\ Rests(d)
<1>1. Purge(rt)[d] = rt[d]
  BY DEF Purge, PurgeEntry, InSearch
<1>2. due' = [due EXCEPT ![d] = @ - 1] /\ SendRequest(Purge(rt), timer, d)
  BY DEF RunDeferredRequest
<1>3. \/ /\ rt' = Purge(rt) /\ timer' = timer /\ rreqCount' = rreqCount
         /\ waiting' = [waiting EXCEPT ![d] = @ + 1]
      \/ /\ rreqCount' # rreqCount /\ waiting' = waiting
         /\ rt'[d].reqCount = NextReqCount(rt[d]) /\ timer'[d] = rt'[d].reqCount
  BY <1>2, RequestCounts DEF TimersOK
<1>4. QED BY <1>1, <1>2, <1>3 DEF Sends, Rests, Requests, TimersOK

\* A request for another destination.
LEMMA OthersRest ==
  ASSUME GoodTable(rt), TimersOK, NEW d \in Addr, InSearch(rt', d), NEW a \in Addr \ {d},
         RunDeferredRequest(a) \/ TimerGoesOff(a)
  PROVE  Rests(d)
<1> DEFINE t == Purge(rt)
           tm == [timer EXCEPT ![a] = Off]
<1>1. Calm(rt, t) /\ d \in Addr \ {a}
  BY PurgeCalm
<1>2. /\ tm \in [Addr -> {Off} \cup 0..(ReqCountModulus - 1)] /\ tm[d] = timer[d]
      /\ timer \in [Addr -> {Off} \cup 0..(ReqCountModulus - 1)]
  BY <1>1 DEF TimersOK
<1> HIDE DEF t, tm
<1>3. CASE RunDeferredRequest(a)
  <2>1. SendRequest(t, timer, a) /\ due' = [due EXCEPT ![a] = @ - 1]
    BY <1>3 DEF RunDeferredRequest, t
  <2>2. /\ timer'[d] = timer[d] /\ waiting'[d] = waiting[d] /\ rt'[d].reqCount = rt[d].reqCount
    BY <1>1, <1>2, <2>1, SendRequestStep
  <2>3. due'[d] = due[d]
    BY <1>1, <2>1 DEF TimersOK
  <2>4. QED BY <2>2, <2>3 DEF Rests, Requests
<1>4. CASE TimerGoesOff(a)
  <2>1. due' = due /\ (TakesRoute(t, a) \/ GiveUp(t, a) \/ Retry(t, a))
    BY <1>4 DEF TimerGoesOff, t
  <2>2. CASE TakesRoute(t, a) \/ GiveUp(t, a)
    <3>1. Calm(t, rt') /\ timer' = tm /\ waiting' = waiting
      BY <1>1, <2>2, DeleteCalm, CalmReflexive DEF TakesRoute, GiveUp, tm, Calm, Quiet
    <3>2. rt'[d].reqCount = rt[d].reqCount
      BY <1>1, <3>1 DEF Calm, Quiet, NoNewSearch
    <3>3. QED BY <1>2, <2>1, <3>1, <3>2 DEF Rests, Requests
  <2>3. CASE Retry(t, a)
    <3>1. SendRequest(t, tm, a)
      BY <2>3 DEF Retry, tm
    <3>2. /\ timer'[d] = tm[d] /\ waiting'[d] = waiting[d] /\ rt'[d].reqCount = rt[d].reqCount
      BY <1>1, <1>2, <3>1, SendRequestStep
    <3>3. QED BY <1>2, <2>1, <3>2 DEF Rests, Requests
  <2>4. QED BY <2>1, <2>2, <2>3
<1>5. QED BY <1>3, <1>4

\* The steps that are quiet and touch neither timers nor requests.
LEMMA QuietRests ==
  ASSUME Quiet(rt, rt'), UNCHANGED <<timer, waiting, due>>, NEW d \in Addr, InSearch(rt', d)
  PROVE  Rests(d)
BY DEF Quiet, NoNewSearch, Rests, Requests

LEMMA DeferredRests ==
  ASSUME GoodTable(rt), TimersOK, PacketsOK, NEW d \in Addr, InSearch(rt, d), InSearch(rt', d),
         NEW p, DeferredRouteOutput(p)
  PROVE  Rests(d)
<1>1. p.dst \in Addr /\ due' = due
  BY DEF PacketsOK, Packet, DeferredRouteOutput
<1>2. CASE IsQueued(queue, p)
  BY <1>1, <1>2 DEF DeferredRouteOutput, tableVars, Rests, Requests
<1>3. CASE ~IsQueued(queue, p) /\ InSearch(rt, p.dst)
  BY <1>1, <1>3, PurgeCalm, QuietRests DEF Calm, DeferredRouteOutput
<1>4. CASE ~IsQueued(queue, p) /\ ~InSearch(rt, p.dst)
  <2>1. d \in Addr \ {p.dst} /\ SendRequest(Purge(rt), timer, p.dst)
    BY <1>4 DEF DeferredRouteOutput
  <2>2. timer \in [Addr -> {Off} \cup 0..(ReqCountModulus - 1)] /\ Calm(rt, Purge(rt))
    BY PurgeCalm DEF TimersOK
  <2>3. /\ timer'[d] = timer[d] /\ waiting'[d] = waiting[d]
        /\ rt'[d].reqCount = rt[d].reqCount
    BY <1>1, <2>1, <2>2, SendRequestStep
  <2>4. QED BY <1>1, <2>3 DEF Rests, Requests
<1>5. QED BY <1>2, <1>3, <1>4

LEMMA RateLimitRests ==
  ASSUME TimersOK, NEW d \in Addr, RreqRateLimitTimerExpire
  PROVE  Rests(d)
BY DEF RreqRateLimitTimerExpire, Rests, Requests, TimersOK

LEMMA EnvironmentRests ==
  ASSUME GoodTable(rt), NEW d \in Addr, InSearch(rt', d), Environment
  PROVE  Rests(d)
<1>1. ASSUME \/ \E a \in Addr : SendRerrWhenBreaksLinkToNextHop(a) \/ LifetimePasses(a)
             \/ LookupRoute
      PROVE  Rests(d)
  BY <1>1, EnvironmentTable, QuietRests DEF Calm, OnlyTable
<1>2. ASSUME NEW p \in queue, PacketLifetimePasses(p)
      PROVE  Rests(d)
  BY <1>2 DEF PacketLifetimePasses, tableVars, Rests, Requests
<1>3. QED BY <1>1, <1>2 DEF Environment

LEMMA OwnReplyRests ==
  ASSUME GoodTable(rt), TimersOK, NEW d \in Addr, InSearch(rt', d), NEW s \in Addr,
         NEW a \in Addr, NEW seq \in SeqNos, NEW hop \in HopCounts, Direct(s, a, hop),
         OwnReply(s, a, seq, hop), UNCHANGED <<waiting, due>>
  PROVE  Rests(d)
<1>1. /\ Calm(rt, rt')
      /\ UNCHANGED timer \/ (timer' = [timer EXCEPT ![a] = Off] /\ ~InSearch(rt', a))
  BY OwnReplyTable
<1>2. timer'[d] = timer[d]
  BY <1>1 DEF TimersOK
<1>3. QED BY <1>1, <1>2 DEF Rests, Requests, Calm, Quiet, NoNewSearch

\* The steps that bring the end of the search for d nearer.
Advancing(d) ==
  RouteRequestTimerExpire(d) \/ (RunDeferredRequest(d) /\ rreqCount' # rreqCount)

\* What becomes of a search in a step.
LEMMA SearchStep ==
  ASSUME IInv, [Next]_vars, NEW d \in Addr, InSearch(rt, d), InSearch(rt', d)
  PROVE  \/ Rests(d) /\ ~Advancing(d)
         \/ /\ Sends(d) \/ Postpones(d)
            /\ rt[d].reqCount # RreqRetries \/ (Sends(d) /\ Requests(d)' # Requests(d))
<1>1. GoodTable(rt) /\ TimersOK /\ PacketsOK
  BY IInvParts
<1>2. \A a \in Addr : RouteRequestTimerExpire(a) => TimerGoesOff(a)
  BY DEF RouteRequestTimerExpire, RouteFound, TimerGoesOff
<1>3. CASE RouteRequestTimerExpire(d)
  BY <1>1, <1>2, <1>3, RetryAdvances
<1>4. CASE RunDeferredRequest(d) /\ rreqCount' # rreqCount
  BY <1>1, <1>4, PostponedAdvances
<1>5. CASE ~Advancing(d)
  <2>1. SUFFICES Rests(d)
    BY <1>5
  <2>2. ASSUME NEW a \in Addr, RouteOutput(a)
        PROVE  Rests(d)
    BY <1>1, <2>2, PurgeCalm, QuietRests DEF Calm, RouteOutput
  <2>3. ASSUME NEW a \in Addr, RunDeferredRequest(a) \/ RouteRequestTimerExpire(a)
        PROVE  Rests(d)
    <3>1. CASE a = d
      BY <1>1, <1>5, <2>3, <3>1, PostponedAdvances DEF Advancing
    <3>2. CASE a # d
      BY <1>1, <1>2, <2>3, <3>2, OthersRest
    <3>3. QED BY <3>1, <3>2
  <2>4. ASSUME NEW s \in Addr,
               \/ RecvIgnored(s) \/ RecvReplyAck(s)
               \/ \E seq \in SeqNos : RecvHello(s, seq)
               \/ \E dsts \in SUBSET Addr : RecvError(s, dsts)
        PROVE  Rests(d)
    <3>1. Quiet(rt, rt')
      BY <1>1, <2>4, HeardTable, AckTable, HelloTable, ErrorTable DEF RecvIgnored, Calm
    <3>2. OnlyTable
      BY <2>4 DEF RecvIgnored, RecvReplyAck, RecvHello, RecvError
    <3>3. QED BY <3>1, <3>2, QuietRests DEF OnlyTable
  <2>5. ASSUME NEW s \in Addr, NEW a \in Addr, NEW o \in Addr \cup {Me}, NEW seq \in SeqNos,
               NEW hop \in HopCounts, Direct(s, a, hop), RecvReply(s, a, o, seq, hop)
        PROVE  Rests(d)
    <3>1. CASE o = Me
      BY <1>1, <2>5, <3>1, OwnReplyRests DEF RecvReply
    <3>2. CASE o # Me
      BY <1>1, <2>5, <3>2, RelayTable, QuietRests DEF Calm, OnlyTable
    <3>3. QED BY <3>1, <3>2
  <2>6. ASSUME NEW s \in Addr, NEW o \in Addr, NEW a, NEW seq \in SeqNos, NEW ask,
               NEW hop \in HopCounts, Direct(s, o, hop), RecvRequest(s, o, a, seq, ask, hop)
        PROVE  Rests(d)
    BY <1>1, <2>6, RequestTable, QuietRests DEF Calm, RecvRequest, OnlyTable
  <2>7. CASE NextPacket
    BY <1>1, <2>2, <2>7, DeferredRests DEF NextPacket
  <2>8. CASE NextTimer
    BY <1>1, <2>3, <2>8, RateLimitRests DEF NextTimer
  <2>9. CASE NextMessage
    BY <2>4, <2>5, <2>6, <2>9 DEF NextMessage
  <2>10. CASE UNCHANGED vars
    BY <2>10 DEF vars, Rests, Requests
  <2>11. QED BY <1>1, <2>7, <2>8, <2>9, <2>10, EnvironmentRests DEF Next
<1>6. QED BY <1>3, <1>4, <1>5 DEF Advancing

\* SearchesNearTheirEnd: every retry and every postponed request that is sent
\* brings the end of its search nearer, and no packet, message or rate limit
\* takes it further away, although the count may step past RreqRetries.
THEOREM SearchesNearTheirEnd == Spec => SearchNearsEnd
<1> DEFINE Step == \A d \in Addr : InSearch(rt, d) /\ InSearch(rt', d) =>
                     \/ Nearer(d)
                     \/ /\ Underway(d)' = Underway(d) /\ EventsAhead(d)' = EventsAhead(d)
                        /\ ~RouteRequestTimerExpire(d)
                        /\ ~(RunDeferredRequest(d) /\ rreqCount' # rreqCount)
<1>1. IInv /\ IInv' /\ [Next]_vars => Step
  <2>1. SUFFICES ASSUME IInv, IInv', [Next]_vars,
                        NEW d \in Addr, InSearch(rt, d), InSearch(rt', d)
                 PROVE  \/ Nearer(d)
                        \/ /\ Underway(d)' = Underway(d) /\ EventsAhead(d)' = EventsAhead(d)
                           /\ ~Advancing(d)
    BY <2>1 DEF Advancing
  <2>2. GoodTable(rt) /\ TimersOK /\ TimersOK'
    BY <2>1 DEF IInv, TypeOK, TimersOK
  <2>3. QED BY <2>1, <2>2, SearchStep, SearchAdvances
<1> HIDE DEF Step
<1>2. Spec => [][Step]_vars
  BY <1>1, InitIInv, NextIInv, PTL DEF Spec
<1>3. QED BY <1>2 DEF SearchNearsEnd, Step

=============================================================================
