--------------------------- MODULE RouteDiscovery ---------------------------
(***************************************************************************)
(* Route discovery at one node (src/model/aodv-routing-protocol.cc): the   *)
(* data packets the node's own applications send, the queue they wait in,  *)
(* the routing table, the RREQ retry timer of each destination, the RREQ   *)
(* rate limit with the requests it postpones, and every handler of a       *)
(* received control message as far as it touches these.                    *)
(*                                                                         *)
(* ns-3 runs one event at a time, so a handler is one step; what is        *)
(* interleaved is the order of events: packets, messages, timers, expiring *)
(* lifetimes.  Timers have no clock: a running timer may fire at any       *)
(* moment, which covers every delay.  The other nodes are the environment: *)
(* they send any message a node of this protocol could send, in any order, *)
(* at most MaxMessages of them; messages about routes to this node itself  *)
(* are left out.  Every address of another node is heard on one interface; *)
(* another node may have several, and names only its main address in its   *)
(* HELLOs.  This node always has its interfaces (Interfaces lets them go), *)
(* is not configured as malicious, and its neighbour list is a free choice.*)
(***************************************************************************)
EXTENDS RoutingTable, RequestQueue

CONSTANTS
  Me,               \* this node's address
  IfaceOf,          \* the interface on which each address is heard
  MainOf,           \* the main address of the node each address belongs to
  RreqRetries,      \* attempts after which discovery gives up
  RreqRateLimit,    \* RREQs the node may send per second
  ReqCountModulus,  \* m_reqCount is uint8_t: 256 in the code
  MaxQueueLen,      \* m_maxLen of the request queue
  DestinationOnly,  \* the attribute, copied into every RREQ by all nodes
  SeqNos,           \* sequence numbers that occur in messages
  HopCounts,        \* hop counts of messages, after the receiver's + 1
  MaxPackets,       \* bound: data packets the applications send
  MaxMessages       \* bound: control messages the node receives

ASSUME MeAssumption == Me \notin Addr /\ Me # NoAddr
ASSUME AddressesAssumption ==
  /\ IfaceOf \in [Addr -> Iface]
  /\ MainOf \in [Addr -> Addr]
  /\ \A s \in Addr : MainOf[MainOf[s]] = MainOf[s]
ASSUME LimitsAssumption ==
  /\ ReqCountModulus \in Nat \ {0}
  /\ RreqRetries \in 1..(ReqCountModulus - 1)
  /\ RreqRateLimit \in Nat \ {0}
  /\ MaxQueueLen \in Nat \ {0}
  /\ DestinationOnly \in BOOLEAN
ASSUME MessagesAssumption == SeqNos \subseteq Nat /\ HopCounts \subseteq Nat \ {0}
ASSUME BoundsAssumption == MaxPackets \in Nat /\ MaxMessages \in Nat

VARIABLES
  rt,         \* m_routingTable
  timer,      \* m_addressReqTimer: multiple of NetTraversalTime, or Off
  waiting,    \* SendRequest events scheduled behind the next rate reset
  due,        \* SendRequest events whose time has come
  rreqCount,  \* m_rreqCount
  loopback,   \* packets sent to the loopback device, not yet received there
  queue,      \* m_queue
  sent,       \* data packets the applications have sent so far
  delivered,  \* ids of packets given a route (returned, or by the callback)
  failed,     \* ids of packets handed to their error callback
  received    \* control messages received so far

tableVars == <<rt, timer, waiting, rreqCount>>
packetVars == <<loopback, queue, sent, delivered, failed>>
vars == <<rt, timer, waiting, due, rreqCount, loopback, queue, sent, delivered,
          failed, received>>

Off == -1

Packet == [id : 1..MaxPackets, dst : Addr, live : BOOLEAN]

Ids(S) == {p.id : p \in S}

TypeOK ==
  /\ rt \in [Addr -> Entry]
  /\ timer \in [Addr -> {Off} \cup 0..(ReqCountModulus - 1)]
  /\ waiting \in [Addr -> Nat]
  /\ due \in [Addr -> Nat]
  /\ rreqCount \in 0..RreqRateLimit
  /\ loopback \subseteq Packet
  /\ queue \subseteq Packet
  /\ sent \in 0..MaxPackets
  /\ delivered \subseteq 1..MaxPackets
  /\ failed \subseteq 1..MaxPackets
  /\ received \in 0..MaxMessages

Init ==
  /\ rt = [a \in Addr |-> NoRoute]
  /\ timer = [a \in Addr |-> Off]
  /\ waiting = [a \in Addr |-> 0]
  /\ due = [a \in Addr |-> 0]
  /\ rreqCount = 0
  /\ loopback = {}
  /\ queue = {}
  /\ sent = 0
  /\ delivered = {}
  /\ failed = {}
  /\ received = 0

-----------------------------------------------------------------------------
(* Sending a route request. *)

\* The entry for d while it is searched; a new one has no next hop.
SearchEntry(t, d) ==
  IF Present(Purge(t), d) THEN [Purge(t)[d] EXCEPT !.flag = "IN_SEARCH"]
  ELSE [NoRoute EXCEPT !.flag = "IN_SEARCH"]

\* Faulty variant: A request that is sent again is not counted.
NextReqCountOnce(e) == IF e.reqCount = 0 THEN 1 ELSE e.reqCount

\* IncrementRreqCnt in ScheduleRreqRetry.
NextReqCount(e) == (e.reqCount + 1) % ReqCountModulus

\* Faulty variant: One request too many per second.
RateLimitedLate == rreqCount > RreqRateLimit

RateLimited == rreqCount = RreqRateLimit

\* SendRequest (d), from the table t and the timers tm.  Over the rate limit
\* the call is put off to just after the next reset of the count, and nothing
\* else happens: neither table nor timer shows that a search is on its way.
SendRequest(t, tm, d) ==
  \/ /\ RateLimited
     /\ waiting' = [waiting EXCEPT ![d] = @ + 1]
     /\ rt' = t
     /\ timer' = tm
     /\ UNCHANGED rreqCount
  \/ /\ ~RateLimited
     /\ rreqCount' = rreqCount + 1
     /\ LET e == SearchEntry(t, d)
        IN  /\ rt' = [Purge(t) EXCEPT ![d] = [e EXCEPT !.reqCount = NextReqCount(e)]]
            /\ timer' = [tm EXCEPT ![d] = NextReqCount(e)]
     /\ UNCHANGED waiting

-----------------------------------------------------------------------------
(* Data packets. *)

\* RouteOutput: with a VALID route the packet leaves at once; otherwise it
\* goes through the loopback device.
RouteOutput(d) ==
  /\ sent < MaxPackets
  /\ sent' = sent + 1
  /\ rt' = Purge(rt)
  /\ IF IsValid(Purge(rt), d)
     THEN delivered' = delivered \cup {sent + 1} /\ UNCHANGED loopback
     ELSE /\ loopback' = loopback \cup {[id |-> sent + 1, dst |-> d, live |-> TRUE]}
          /\ UNCHANGED delivered
  /\ UNCHANGED <<timer, waiting, due, rreqCount, queue, failed, received>>

\* RouteInput from the loopback device, in the order of sending:
\* DeferredRouteOutput queues the packet and asks for a route unless one is
\* being searched; it does not look whether a VALID one has turned up.
DeferredRouteOutput(p) ==
  /\ p \in loopback
  /\ p = Oldest(loopback)
  /\ loopback' = loopback \ {p}
  /\ queue' = Enqueue(queue, p, MaxQueueLen)
  /\ failed' = failed \cup Ids(EnqueueDrops(queue, p, MaxQueueLen))
  /\ IF IsQueued(queue, p) THEN UNCHANGED tableVars
     ELSE IF InSearch(rt, p.dst)
     THEN rt' = Purge(rt) /\ UNCHANGED <<timer, waiting, rreqCount>>
     ELSE SendRequest(Purge(rt), timer, p.dst)
  /\ UNCHANGED <<due, sent, delivered, received>>

\* SendPacketFromQueue: every packet for d leaves, whatever the route's state.
SendPacketFromQueue(d) ==
  /\ queue' = PurgeQueue(queue) \ WithDst(queue, d)
  /\ delivered' = delivered \cup Ids(WithDst(queue, d))
  /\ failed' = failed \cup Ids(Expired(queue))

\* Faulty variant: The packets of a search that was given up stay queued.
DropForgotten(d) == UNCHANGED <<queue, delivered, failed>>

DropPacketWithDst(d) ==
  /\ queue' = PurgeQueue(queue) \ WithDst(queue, d)
  /\ failed' = failed \cup Ids(Expired(queue)) \cup Ids(WithDst(queue, d))
  /\ UNCHANGED delivered

-----------------------------------------------------------------------------
(* Timers and scheduled events. *)

\* A postponed SendRequest runs.  It does not look at what became of the
\* search: a VALID route goes back to IN_SEARCH.
RunDeferredRequest(d) ==
  /\ due[d] > 0
  /\ due' = [due EXCEPT ![d] = @ - 1]
  /\ SendRequest(Purge(rt), timer, d)
  /\ UNCHANGED <<packetVars, received>>

\* The rate timer resets the count; the requests postponed in the past
\* second come 100 microseconds later, well before the next reset.
RreqRateLimitTimerExpire ==
  /\ \A d \in Addr : due[d] = 0
  /\ rreqCount' = 0
  /\ due' = waiting
  /\ waiting' = [d \in Addr |-> 0]
  /\ UNCHANGED <<rt, timer, packetVars, received>>

\* The three ways RouteRequestTimerExpire can go once the timer has stopped.
TakesRoute(t, d) ==
  /\ IsValid(t, d)
  /\ rt' = t
  /\ timer' = [timer EXCEPT ![d] = Off]
  /\ UNCHANGED <<waiting, rreqCount>>

RouteFound(t, d) == TakesRoute(t, d) /\ SendPacketFromQueue(d)

\* Faulty variant: The number of attempts is not looked at.
GivesUpNever(t, d) == ~IsValid(t, d) /\ ~InSearch(t, d)

GivesUp(t, d) == ~IsValid(t, d) /\ (t[d].reqCount = RreqRetries \/ ~InSearch(t, d))

GiveUp(t, d) ==
  /\ GivesUp(t, d)
  /\ rt' = DeleteRoute(t, d)
  /\ timer' = [timer EXCEPT ![d] = Off]
  /\ DropPacketWithDst(d)
  /\ UNCHANGED <<waiting, rreqCount>>

Retry(t, d) ==
  /\ InSearch(t, d) /\ ~GivesUp(t, d)
  /\ SendRequest(t, [timer EXCEPT ![d] = Off], d)
  /\ UNCHANGED <<queue, delivered, failed>>

RouteRequestTimerExpire(d) ==
  /\ timer[d] # Off
  /\ LET t == Purge(rt) IN RouteFound(t, d) \/ GiveUp(t, d) \/ Retry(t, d)
  /\ UNCHANGED <<due, loopback, sent, received>>

-----------------------------------------------------------------------------
(* Received control messages.  RecvAodv first calls UpdateRouteToNeighbor.  *)

\* A known one-hop route over the interface it came in by, with a valid
\* sequence number, is refreshed on a local copy only; any other entry is
\* replaced by a fresh one without such a number.
UpdateRouteToNeighbor(t, s) ==
  LET u == Purge(t)
      direct == NewEntry(FALSE, 0, 1, s, IfaceOf[s])
  IN  IF ~Present(u, s) THEN AddRoute(u, s, direct)
      ELSE IF u[s].validSeqNo /\ u[s].hop = 1 /\ u[s].iface = IfaceOf[s] THEN u
      ELSE Update(u, s, direct)

\* Faulty variant: The route to the sender is not refreshed.
HeardSilently(s) == Purge(rt)

\* The table after a message from s was received and its sender noted.
Heard(s) == UpdateRouteToNeighbor(rt, s)

Receive == received < MaxMessages /\ received' = received + 1

OnlyTable == UNCHANGED <<timer, waiting, due, rreqCount, packetVars>>

\* A message that is discarded: a duplicate RREQ or HELLO, an RREP that is a
\* hello (dst = origin), an unknown type.
RecvIgnored(s) ==
  /\ Receive
  /\ rt' = Heard(s)
  /\ OnlyTable

\* Circumstances (i) to (iv) in which RecvReply updates an existing entry.
ReplyIsFresher(e, seq, hop) ==
  \/ ~e.validSeqNo
  \/ seq > e.seqNo
  \/ seq = e.seqNo /\ (e.flag # "VALID" \/ hop < e.hop)

ForwardRoute(t, d, new) ==
  IF ~Present(t, d) THEN AddRoute(t, d, new)
  ELSE IF ReplyIsFresher(t[d], new.seqNo, new.hop) THEN Update(t, d, new)
  ELSE t

\* Faulty variant: An origin under search will do.
HeardOfOrigin(t, o) == Present(t, o)

KnowsOrigin(t, o) == Present(t, o) /\ ~InSearch(t, o)

\* The precursor bookkeeping of a node that relays an RREP for d to o.  The
\* code works on copies: that of the entry to o is older than the update of
\* the next hop to d and overwrites it when they are the same entry.
RelayReply(t, d, o) ==
  LET t1 == Update(t, o, [t[o] EXCEPT !.live = TRUE])
      toOrigin == t1[o]
      towards == t1[d].nextHop
      t2 == InsertPrecursor(t1, d, toOrigin.nextHop)
      t3 == IF towards \in Addr THEN InsertPrecursor(t2, towards, toOrigin.nextHop) ELSE t2
      t4 == Update(t3, o, [toOrigin EXCEPT !.precursors = @ \cup {towards}])
      back == toOrigin.nextHop
  IN  IF ~KnowsOrigin(t, o) THEN t
      ELSE IF ~IsValid(t1, d) THEN t1
      ELSE IF back \in Addr THEN InsertPrecursor(t4, back, towards) ELSE t4

\* An RREP for d from the neighbour s that answers this node's own RREQ ends
\* the search, if one is going on.
OwnReply(s, d, seq, hop) ==
  LET heard == Heard(s)
      new == NewEntry(TRUE, seq, hop, s, IfaceOf[s])
      t == ForwardRoute(heard, d, new)
  IN  IF InSearch(heard, d)
      THEN rt' = Update(t, d, new) /\ timer' = [timer EXCEPT ![d] = Off]
      ELSE rt' = t /\ UNCHANGED timer

\* RecvReply: an RREP for d, on its way to o, from the neighbour s.
RecvReply(s, d, o, seq, hop) ==
  /\ Receive
  /\ \/ o = Me /\ OwnReply(s, d, seq, hop) /\ SendPacketFromQueue(d)
     \/ /\ o # Me
        /\ LET new == NewEntry(TRUE, seq, hop, s, IfaceOf[s])
           IN  rt' = RelayReply(ForwardRoute(Heard(s), d, new), d, o)
        /\ UNCHANGED <<timer, queue, delivered, failed>>
  /\ UNCHANGED <<waiting, due, rreqCount, loopback, sent>>

\* RecvReplyAck: the lifetime is left as it was.
RecvReplyAck(s) ==
  /\ Receive
  /\ rt' = Update(Heard(s), s, [Heard(s)[s] EXCEPT !.flag = "VALID"])
  /\ OnlyTable

\* What RecvHello does to an entry it finds: it is refreshed and made VALID,
\* with the hello's message number as its sequence number; hop count and next
\* hop stay.
Refreshed(e, seq, i) ==
  [e EXCEPT !.flag = "VALID", !.live = TRUE, !.validSeqNo = TRUE, !.seqNo = seq,
            !.iface = i]

\* The table t after a HELLO from s.  Its originator is the main address of the
\* node, whichever interface it was sent on: the entry that is created or
\* refreshed need not be the one that was just noted for the sender.
HelloRoute(t, s, seq) ==
  LET o == MainOf[s]
  IN  IF ~Present(t, o) THEN AddRoute(t, o, NewEntry(TRUE, seq, 1, o, IfaceOf[s]))
      ELSE Update(t, o, Refreshed(t[o], seq, IfaceOf[s]))

RecvHello(s, seq) ==
  /\ Receive
  /\ rt' = HelloRoute(Heard(s), s, seq)
  /\ OnlyTable

\* The reverse route of an RREQ.  An existing entry keeps its flag.
ReverseRoute(t, o, seq, hop, s) ==
  IF ~Present(t, o) THEN AddRoute(t, o, NewEntry(TRUE, seq, hop, s, IfaceOf[s]))
  ELSE LET newer == ~t[o].validSeqNo \/ seq > t[o].seqNo
       IN  Update(t, o, [t[o] EXCEPT !.seqNo = IF newer THEN seq ELSE @,
                                     !.validSeqNo = TRUE, !.nextHop = s,
                                     !.iface = IfaceOf[s], !.hop = hop,
                                     !.live = TRUE])

\* Faulty variant: The neighbour itself is not put on the list.
BreakLinksBehind(t, ns) ==
  InvalidateRoutesWithDst(t, UNION {DestinationsWithNextHop(t, n) : n \in ns} \ ns)

\* SendRerrWhenBreaksLinkToNextHop for every neighbour in ns, of which the
\* table keeps: without an entry for the neighbour itself nothing happens.
BreakLinks(t, ns) ==
  LET known == {n \in ns : Present(Purge(t), n)}
  IN  InvalidateRoutesWithDst(t, known \cup UNION {DestinationsWithNextHop(t, n) : n \in known})

\* SendReplyByIntermediateNode writes back copies of both entries (src, the
\* table before) with a precursor added to each.
ReplyFromTable(t, src, d, o) ==
  LET t1 == Update(t, d, [src[d] EXCEPT !.precursors = @ \cup {src[o].nextHop}])
  IN  Update(t1, o, [src[o] EXCEPT !.precursors = @ \cup {src[d].nextHop}])

\* The node has a route it may answer an RREQ for d with; ask is the sequence
\* number the RREQ requires, Unknown if it requires none.
Unknown == -1
Answers(t, s, d, ask) ==
  /\ IsValid(t, d) /\ t[d].nextHop # s
  /\ t[d].validSeqNo /\ t[d].seqNo >= ask /\ ~DestinationOnly

\* RecvRequest: a new RREQ of o for d from the neighbour s.  Only a backbone
\* node whose neighbour s qualifies answers from its table or forwards, and
\* looking s or o up first purges the neighbour list, which may report the
\* links in "broken" as failed; the handler that answers already holds copies
\* of its two entries by then.
RecvRequest(s, o, d, seq, ask, hop) ==
  LET t == ReverseRoute(Heard(s), o, seq, hop, s)
  IN  /\ Receive
      /\ \/ \E broken \in SUBSET Addr : rt' = BreakLinks(t, broken)
         \/ /\ d \in Addr /\ Answers(t, s, d, ask)
            /\ \E broken \in SUBSET (Addr \ {s}) :
                 rt' = ReplyFromTable(BreakLinks(t, broken), t, d, o)
      /\ OnlyTable

\* RecvError: an RERR from s that lists the destinations dsts.
RecvError(s, dsts) ==
  /\ Receive
  /\ rt' = InvalidateRoutesWithDst(Heard(s), dsts \cap DestinationsWithNextHop(Heard(s), s))
  /\ OnlyTable

-----------------------------------------------------------------------------
(* The rest of the node, as far as the table notices it. *)

\* The neighbour list or the MAC layer reports that the link to n is broken.
SendRerrWhenBreaksLinkToNextHop(n) ==
  /\ rt' = BreakLinks(rt, {n})
  /\ UNCHANGED received
  /\ OnlyTable

\* Forwarding a data packet, delivering one, or asking for a lifetime looks
\* entries up and refreshes VALID ones, which Purge just found to be live.
LookupRoute ==
  /\ rt' = Purge(rt)
  /\ UNCHANGED received
  /\ OnlyTable

LifetimePasses(a) ==
  /\ Present(rt, a) /\ rt[a].live
  /\ rt' = [rt EXCEPT ![a].live = FALSE]
  /\ UNCHANGED received
  /\ OnlyTable

\* Packets expire in the order in which they were queued.
PacketLifetimePasses(p) ==
  /\ p \in queue /\ p.live /\ p = Oldest(PurgeQueue(queue))
  /\ queue' = (queue \ {p}) \cup {[p EXCEPT !.live = FALSE]}
  /\ UNCHANGED <<tableVars, due, loopback, sent, delivered, failed, received>>

-----------------------------------------------------------------------------
\* Only the node a message is about sends it with a hop count of 0.
Direct(s, a, hop) == hop = 1 => s = a

NextMessage ==
  \/ \E s \in Addr : RecvIgnored(s) \/ RecvReplyAck(s)
  \/ \E s \in Addr, seq \in SeqNos : RecvHello(s, seq)
  \/ \E s \in Addr, dsts \in SUBSET Addr : RecvError(s, dsts)
  \/ \E s, d \in Addr, o \in Addr \cup {Me}, seq \in SeqNos, hop \in HopCounts :
       d # o /\ Direct(s, d, hop) /\ RecvReply(s, d, o, seq, hop)
  \/ \E s, o \in Addr, d \in Addr \cup {Me}, seq \in SeqNos,
        ask \in SeqNos \cup {Unknown}, hop \in HopCounts :
       d # o /\ Direct(s, o, hop) /\ RecvRequest(s, o, d, seq, ask, hop)

NextTimer ==
  \/ \E d \in Addr : RunDeferredRequest(d) \/ RouteRequestTimerExpire(d)
  \/ RreqRateLimitTimerExpire

NextPacket ==
  \/ \E d \in Addr : RouteOutput(d)
  \/ \E p \in loopback : DeferredRouteOutput(p)

Environment ==
  \/ \E a \in Addr : SendRerrWhenBreaksLinkToNextHop(a) \/ LifetimePasses(a)
  \/ \E p \in queue : PacketLifetimePasses(p)
  \/ LookupRoute

Next == NextPacket \/ NextTimer \/ Environment \/ NextMessage

Spec == Init /\ [][Next]_vars

\* The simulator runs every event it has scheduled: the loopback delivery, a
\* running timer, a postponed request.  Nothing is assumed of the messages.
Fairness ==
  /\ WF_vars(\E p \in loopback : DeferredRouteOutput(p))
  /\ WF_vars(RreqRateLimitTimerExpire)
  /\ \A d \in Addr : WF_vars(RunDeferredRequest(d)) /\ WF_vars(RouteRequestTimerExpire(d))

FairSpec == Spec /\ Fairness

-----------------------------------------------------------------------------
(* Properties. *)

\* SearchSupervised: an entry IN_SEARCH has its retry timer running or a
\* postponed SendRequest on its way.  Purge never touches such an entry and
\* DeferredRouteOutput sends no request for it, so without one of the two the
\* destination would stay unreachable for ever.
SearchSupervised ==
  \A d \in Addr : InSearch(rt, d) => timer[d] # Off \/ waiting[d] + due[d] > 0

\* NoOrphanPacket: a packet in m_queue has an event that will look after it.
\* Nothing else sweeps the queue: not the table, not the queue's own timeout,
\* which is only looked at when somebody uses the queue.
NoOrphanPacket ==
  \A p \in queue : timer[p.dst] # Off \/ waiting[p.dst] + due[p.dst] > 0

\* FreshRetryCount: the retry count of an entry that is not searched is 0
\* (AddRoute, Update and Invalidate see to it), so that the next search makes
\* its own attempts before RouteRequestTimerExpire gives up.
FreshRetryCount ==
  \A d \in Addr : ~InSearch(rt, d) => rt[d].reqCount = 0

\* Broken: an entry that was ever made VALID has no next hop or length, or is of
\* length one with another next hop than the destination itself.
Broken(t, d) ==
  /\ t[d].flag \in {"VALID", "INVALID"}
  /\ ~(t[d].nextHop # NoAddr /\ t[d].hop > 0 /\ (t[d].hop = 1 => t[d].nextHop = d))

\* UsableRoute: every route has a next hop and a length that fit, with one
\* exception the code has.  SendRequest makes entries without a next hop;
\* RecvHello and RecvReplyAck set VALID without giving one, and rely on
\* UpdateRouteToNeighbor before them, which is about the sender.  A HELLO that
\* comes in by another interface than that of the main address it names, and
\* nothing else, no reply, request, answer or timer, breaks a route.
UsableRoute ==
  [][\A d \in Addr : Broken(rt', d) =>
       \/ Broken(rt, d)
       \/ \E s \in Addr \ {d}, seq \in SeqNos : MainOf[s] = d /\ RecvHello(s, seq)]_vars

\* OneFate: every packet an application sent is in exactly one place: on the
\* loopback device, queued, given a route, or handed to its error callback.
OneFate ==
  LET places == <<Ids(loopback), Ids(queue), delivered, failed>>
  IN  /\ 1..sent = UNION {places[i] : i \in 1..4}
      /\ \A i, j \in 1..4 : i # j => places[i] \cap places[j] = {}
      /\ \A p, q \in loopback \cup queue : p.id = q.id => p = q

\* FailsForCause: a queued packet is handed to its error callback only when
\* its time has passed, when a new packet took the place of the oldest one
\* alive in a full queue, or when discovery gave up and removed the route to
\* its destination.
FailsForCause ==
  [][\A p \in queue : p.id \in failed' =>
       \/ ~p.live
       \/ /\ p = Oldest(PurgeQueue(queue)) /\ Cardinality(PurgeQueue(queue)) = MaxQueueLen
          /\ ~(Ids(queue') \subseteq Ids(queue))
       \/ ~Present(rt', p.dst)]_vars

\* SearchEnds: once messages stop coming every search ends: the retries of
\* RouteRequestTimerExpire come to RreqRetries, even past a missed comparison.
SearchEnds == \A d \in Addr : InSearch(rt, d) ~> ~InSearch(rt, d)

\* The requests for d that are under way: postponed ones, and the one its
\* retry timer waits for.  Each goes on by itself until a timer gives up.
Underway(d) == waiting[d] + due[d] + IF timer[d] = Off THEN 0 ELSE 1

\* Attempts until the count of an entry comes round to RreqRetries.
AttemptsAhead(count) ==
  IF count <= RreqRetries THEN RreqRetries - count ELSE RreqRetries + ReqCountModulus - count

\* Events until the timer gives up if only one request for d is under way: each
\* attempt may be postponed once.
EventsAhead(d) ==
  IF timer[d] # Off THEN 2 * AttemptsAhead(rt[d].reqCount) + 1
  ELSE 2 * AttemptsAhead(NextReqCount(rt[d])) + 2

Nearer(d) ==
  \/ Underway(d)' < Underway(d)
  \/ Underway(d)' = Underway(d) /\ EventsAhead(d)' < EventsAhead(d)

\* SearchNearsEnd: while a search goes on, each expiry of its timer and each
\* request sent for it brings its end nearer, and nothing else that happens
\* takes it further away: no packet, no message, not the limit on requests.
\* This is why the count may step past RreqRetries, wrap, and still SearchEnds.
SearchNearsEnd ==
  [][\A d \in Addr : InSearch(rt, d) /\ InSearch(rt', d) =>
       \/ Nearer(d)
       \/ /\ Underway(d)' = Underway(d) /\ EventsAhead(d)' = EventsAhead(d)
          /\ ~RouteRequestTimerExpire(d)
          /\ ~(RunDeferredRequest(d) /\ rreqCount' # rreqCount)]_vars

\* The promise to the applications (PacketService) that this node keeps.
Service == INSTANCE PacketService WITH routed <- delivered, errored <- failed

\* KeepsPromise: RouteOutput, the queue and the retry timer together settle
\* every packet exactly once and never touch it again.
KeepsPromise == Service!ServiceSpec

\* PacketsLeave: every packet an application sent gets a route or its error
\* callback.
PacketsLeave ==
  \A i \in 1..MaxPackets : i <= sent ~> i \in delivered \cup failed

-----------------------------------------------------------------------------
(* What comments in the source say and the code does not do. *)

\* HelloGivesRoute: RecvHello's comment wants the node to make sure that it has
\* an active route to the neighbour, and to create one if necessary.  The code
\* makes an entry under search VALID as it is, without a next hop if the HELLO
\* came by another interface than that of the address it names.
HelloGivesRoute ==
  [][\A s \in Addr, seq \in SeqNos :
       RecvHello(s, seq) => IsValid(rt', MainOf[s]) /\ ~Broken(rt', MainOf[s])]_vars

\* RetriesBounded: RouteRequestTimerExpire's comment drops the packets once
\* discovery was attempted RreqRetries times, so no search counts more
\* attempts.  The code compares for equality when the timer fires, and
\* requests postponed by the rate limit raise the count in between.
RetriesBounded == \A d \in Addr : rt[d].reqCount <= RreqRetries

\* ReplyNeverAgesRoute: RecvReply's comment updates an existing entry only in
\* circumstances (i) to (iv), none of which lets a reply replace a valid
\* sequence number by a smaller one.  The code at the origin of the request
\* stores the reply whatever it says if the entry is IN_SEARCH.
ReplyNeverAgesRoute ==
  [][\A s, d \in Addr, o \in Addr \cup {Me}, seq \in SeqNos, hop \in HopCounts :
       RecvReply(s, d, o, seq, hop) /\ Heard(s)[d].validSeqNo
         => rt'[d].seqNo >= Heard(s)[d].seqNo]_vars

=============================================================================
