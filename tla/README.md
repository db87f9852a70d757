# HTMS / aodvmesh: a TLA+ development

The repository holds an ns-3 routing protocol, `src/model/` (a fork of the AODV
module, called *aodvmesh*), and a simulation driver, `src/input.cc`.  The
protocol is AODV with a backbone: nodes exchange HELLO messages, elect backbone
nodes from them, and only backbone nodes forward route requests.

This directory holds TLA+ modules translated from that code, the TLC
configurations that check them, and TLAPS proofs about them.

## 1. The system

ns-3 is a single-threaded discrete-event simulator.  Every handler and timer
callback runs to its end before the next event; nothing is preempted.  What is
interleaved is the *order of events*: packets from applications, messages from
other nodes (which wifi may lose, delay, reorder or repeat), timers, and
lifetimes that pass in between.  Nothing is persisted: a node has no restart.

| Component | Code | State | Operations | Talks to |
|---|---|---|---|---|
| Routing table | `aodv-rtable.*` | a map address -> entry (flag VALID / INVALID / IN_SEARCH, sequence number, hop count, next hop, interface, precursors, lifetime, request count, blacklist) | LookupRoute, AddRoute, Update, DeleteRoute, Purge, InvalidateRoutesWithDst, precursors | called by every handler |
| Request queue | `aodv-rqueue.*` | data packets waiting for a route, with expiry times | Enqueue, Dequeue, Find, DropPacketWithDst, Purge | hands dropped packets to their error callback |
| Route discovery | `aodv-routing-protocol.cc` 380-454, 869-1031, 1406-1545, 1653-1691, 1758-1764, 1826-1848 | retry timer per destination, RREQ count of this second, scheduled SendRequest events | RouteOutput, DeferredRouteOutput, SendRequest, ScheduleRreqRetry, RouteRequestTimerExpire, RecvRequest, RecvReply, SendPacketFromQueue | table, queue, other nodes (RREQ, RREP) |
| Forwarding | 456-635 | none of its own | RouteInput, Forwarding | table (refreshes lifetimes), neighbours, RERR |
| Route errors | 1599-1651, 1850-2025 | RERR count of this second | RecvError, SendRerrWhenBreaksLinkToNextHop, SendRerrWhenNoRouteToForward, SendRerrMessage | table, other nodes (RERR) |
| Duplicate detection | `aodv-id-cache.*`, `aodv-dpd.*` | (address, id, expiry) triples | IsDuplicate, Purge | RecvRequest, RecvHello, RouteInput |
| Neighbour list | `aodv-neighbor.*` | neighbours with expiry, weight, status, hello counter and their two-hop backbone neighbours | Update, UpdateNeighborTuple, UpdateMulticastNeighborTuple, Purge, PurgeHello, set queries | link-failure callback to Route errors; MAC error callback |
| Backbone election | 1547-1597, 1693-1756, 2041-2534 | own status (RN, CORE, NEIGH), associated CORE, indicator, weight, last and current backbone-neighbour counts | RecvHello, SendHello, ShortTimerExpire, LongTimerExpire and the join / quit rules | neighbour list, other nodes (HELLO) |
| Interfaces and timers | 72-378, 637-851, 1758-1772 | sockets per address, periodic timers | Start, SetIpv4, NotifyInterfaceUp/Down, NotifyAdd/RemoveAddress | clears table, starts and stops timers |
| Packet headers | `aodv-packet.*` | none | serialize and deserialize HELLO, RREQ, RREP, RREP-ACK, RERR | all message handlers |
| Common definitions | `aodv-common.h` | none | enums and intervals | all |
| Simulation driver | `input.cc` | a scenario | sets up nodes, mobility, traffic | ns-3 only |

### What is hard in it

* **The search for a route is spread over four places**: the entry IN_SEARCH in
  the table, the per-destination retry timer, the packets in the queue, and the
  requests postponed by the rate limit.  No handler owns all four.
  `DeferredRouteOutput` trusts the table, the timer trusts the retry count, the
  queue relies on the timer, and a postponed request looks at none of them.
* **Copies of entries**: handlers look an entry up, work on the copy and write it
  back, sometimes after another write to the same entry.
* **Purge as a side effect**: nearly every table, queue, cache and neighbour
  operation first drops what has expired, and the neighbour list reports its
  drops to the routing table in the middle of a handler.
* **Counters**: the retry count is an 8-bit number compared for equality.
* **Nodes and addresses**: a node has an address per interface and speaks of itself
  by its main address in every HELLO.  Messages are noted for the address they
  were sent from.
* **Views of each other**: a node decides whether it joins or quits the backbone
  from what its neighbours last advertised, which may be about the node itself,
  a period old, or kept alive by data traffic after the neighbour fell silent.
  Joining and quitting are separate code that must agree on the same links.
* **Limits**: the queue evicts its oldest packet; RREQs are limited per second.

`PROJECT.json` lists the hazards line by line, with the properties that cover
each, and a note where no property does.

### What makes each component correct

* Routing table: an entry that forwards has a next hop; purging never loses a
  search; a fresh search starts with a fresh count; invalidation reaches every
  route over a broken link.
* Queue: every packet is dropped with its callback or taken out, once.
* Route discovery: a search always has something that will end it; it ends; every
  packet gets a route or an error, once, and an error only for cause.
* Duplicate detection: an id is accepted once per lifetime.
* Neighbour list: a neighbour that leaves is reported, a reported one leaves, and
  a silent one does leave; it lists nodes, with no expired entries.
* Backbone: joining and quitting agree on a view; a node that quits leaves its
  clients served; a node associates upwards; what it advertises is coherent.
* Route errors: at most RerrRateLimit errors per second; every precursor is told;
  a route reported as gone is not used; no route leads over a broken link.
* Interfaces and timers: an interface that comes back has its timers running; no
  route leads over an interface that is gone; what is dropped with it has a cause.

## 2. The modules

| Module | Models | Role |
|---|---|---|
| `RoutingTable` | `aodv-rtable.*` | operators on a table (a function from addresses to entries); no state of its own |
| `RequestQueue` | `aodv-rqueue.*` | operators on a queue (a set of entries in order of id); no state of its own |
| `RouteDiscovery` | `aodv-routing-protocol.*` | one node: state, one action per handler, properties |
| `Neighbors` | `aodv-neighbor.*` | operators on a neighbour list (a function from addresses to tuples); no state of its own |
| `Election` | `aodv-routing-protocol.cc` 2097-2534 | the joining and quitting rules, as predicates of a neighbour list and a weight |
| `Backbone` | `aodv-routing-protocol.cc` 1547-1597, 1693-1756, 2043-2094, 2307-2324, `aodv-neighbor.cc` | one node: its list, status and timers, one action per handler, properties |
| `IdCache` | `aodv-id-cache.*`, `aodv-dpd.*` | operators on a set of remembered keys; no state of its own |
| `Relay` | `aodv-routing-protocol.cc` 549-635, 1033-1082, 1134-1307, 1406-1651, 1766-1772, 1850-2025 | one node, what it does for the others: duplicates, reverse routes and precursors, forwarding, RERRs and their limit |
| `Interfaces` | `aodv-routing-protocol.cc` 380-485, 637-851, 1003-1010, 1826-1848 | one node whose interfaces come and go: sockets, timers, packets bound to an interface |
| `Network` | 637-683, 1693-1756, 1781-1799, 2065-2094, 2307-2534 | several nodes that apply `Election` to each other's HELLOs, in a settled network |
| `MCBackbone` | - | addresses and HELLOs for TLC |
| `MCNetwork` | - | a network for TLC |
| `MCRelay` | - | messages and interfaces for TLC |
| `MCInterfaces` | - | interfaces for TLC |
| `PacketService` | - | abstract specification: what the protocol promises the applications |
| `MCRouteDiscovery` | - | values of constants and a budget for TLC |
| `TableProofs` | - | lemmas about the table operators |
| `RouteDiscoveryProofs` | - | the inductive invariant and the theorems about searches, retries and routes |
| `PacketProofs` | - | the fate of packets; `RouteDiscovery` implements `PacketService` |
| `BackboneProofs` | - | the rules agree; the invariant of a node and its list; what the long timer may do |
| `PrecursorProofs` | - | lemmas about precursors, RERR recipients and broken links; which operators leave VALID routes alone |
| `RelayProofs` | - | `Relay` implements `RouteDiscovery`; its invariant and its action properties |
| `InterfacesProofs` | - | searches, their ranking, packets, timers and sockets while interfaces come and go |
| `NetworkProofs` | - | the backbone stays together: the HELLOs of a network, and what nodes that quit leave behind |

`RouteDiscovery` extends `RoutingTable` and `RequestQueue`; `Backbone` extends
`Election`, which extends `Neighbors`.  `Network` instantiates `Election` once per
node (`At(m)`), so that both apply the same rules.  `Relay` extends `RouteDiscovery` and
`IdCache`, and `Interfaces` extends `RouteDiscovery`: both take its state and its
handlers and add what the handlers send, remember, start and stop.

The machines meet where the neighbour list reports a lost link and where
RecvRequest asks whether somebody is a neighbour.  `RouteDiscovery` leaves open
what the list answers and loses (any set of neighbours), `Relay` narrows that to
at most one lost link per request (`Lost`), and `Backbone` shows in `broken` what
the list reports.  `Relay` implements `RouteDiscovery`, which implements
`PacketService`.  `Interfaces` does not implement `RouteDiscovery`: tables are
cleared, packets are dropped without a callback, and packets are left behind in
the queue.  It still implements the safety of `PacketService`, whose Submit may
refuse a packet on the spot (RouteOutput without a socket or a route returns an
error to its caller); what remains true besides is stated and proved again.

### How the state corresponds to the code

| Variable | Code |
|---|---|
| `rt` | `m_routingTable`; an address without an entry is mapped to `NoRoute`; `iface` is the interface (and device) of an entry |
| `IfaceOf`, `MainOf` | constants: the interface each address is heard on, and the main address of its node, which its HELLOs name |
| `timer` | `m_addressReqTimer[d]`: `Off` when not running, else its delay as a multiple of NetTraversalTime |
| `waiting`, `due` | `Simulator::Schedule` of SendRequest at the next rate reset + 100 us (before and after that reset) |
| `rreqCount` | `m_rreqCount` |
| `loopback` | packets RouteOutput returned the loopback route for, on their way back to RouteInput |
| `queue` | `m_queue` |
| `sent`, `delivered`, `failed` | history: packets handed over, given a route, handed to their error callback |
| `received` | bound: control messages so far |

In `Backbone`:

| Variable | Code |
|---|---|
| `nb` | `m_nb.localNeighborList`; its domain is the addresses listed |
| `status`, `assoc`, `indicator`, `weight` | `m_localNodeStatus`, `m_localAssociatedCORE`, `m_localcore_noncoreIndicator`, `m_localWeight` |
| `currentBn` | `m_localCurrentBnNeighbors`; `m_localLastBnNeighbors` is written just before it is read, so that it is the value of `currentBn` before the step |
| `broken` | the links the last event handed to `m_handleLinkFailure` |
| `hellos` | bound: HELLOs so far |

In `Relay`, beside the variables of `RouteDiscovery`:

| Variable | Code |
|---|---|
| `seen` | the keys in `m_helloIdCache`, `m_rreqIdCache` and `m_dpd`; a key expires by an action of its own |
| `rerrCount` | `m_rerrCount` |
| `errors` | the RERRs of the last event: their destinations, interface, and who hears them |
| `originated` | history: RERRs since the last reset of the count, up to one more than the limit |

In `Interfaces`, beside the variables of `RouteDiscovery`:

| Variable | Code |
|---|---|
| `up` | `m_socketAddresses`: the interfaces with a socket |
| `htimer`, `ltimer` | `m_htimer` and `m_ltimer` are running |
| `first` | the first expiries SetIpv4 schedules, which nobody cancels |
| `oif` | the interface of a packet's DeferredRouteOutputTag |
| `lost` | history: packets dropped without a callback |
| `cleared` | history: the last interface went down once |
| `changes` | bound: changes of interfaces so far |

In `Network`, for each node:

| Variable | Code |
|---|---|
| `status`, `indicator`, `assoc` | as in `Backbone`; the last HELLO said so |
| `list` | the backbone nodes its last HELLO named (`GetBnNeighbors`) |
| `currentBn` | `m_localCurrentBnNeighbors` |
| `misled` | history: a node quit that some HELLO still has as BREAK, or by nothing but rule 1 |

The neighbour list of a node is a function of these (`NeighborList`): the last
HELLO of each node it hears.

Each action is a handler with every call it makes: `RecvReply`, for instance, is
RecvAodv's UpdateRouteToNeighbor, then the update of the forward route, then
either the end of the search with SendPacketFromQueue or the relaying with its
four precursor updates, in the code's order and on the code's copies.

### What is abstracted

* **Time.** An entry of the table or the queue is `live` until its time has
  passed, which happens as an action of its own at any moment.  Timers have no
  clock: one that runs may fire at any moment.  Every order of events that real
  delays can produce is thus covered, and some that they cannot.  Two orders the
  code does depend on are kept: packets expire in the order of queueing, and
  postponed requests run before the next rate reset.
* **Other nodes** send any message a node of this protocol could send, in any
  order, lost or repeated, at most `MaxMessages` of them.  A hop count of 1 (0
  before the receiver adds its own) comes only from the node the message is
  about.  Messages about routes to this node itself (an RREP for one of its own
  addresses) are left out, as are malformed ones.
* **The neighbour list** is a free choice outside of `Backbone`: whether it purges
  neighbours during RecvRequest, and which, is left open (`broken`, `Lost`).
* **Addresses and interfaces.**  An address belongs to one interface of one node,
  and is heard on one interface of this node (`IfaceOf`), as where the interfaces
  of a node use different channels.  A node may have several addresses; RREQs,
  RREPs, RERRs and ACKs name the one they are sent from, HELLOs the main address
  (`MainOf`), so that the originator of a HELLO need not be its sender.  `Iface`
  stands for interface, device and own address alike.  A socket is bound to an
  interface that has a socket of the protocol, which LoopbackRoute asserts.  A
  node starts with at least one interface; those without a link-local or IPv4
  address never get a socket.
* **Fields not kept**: blacklist (the ack timer that would fill it is never
  scheduled, so it stays empty), exact lifetimes.  IsMalicious is an attribute
  that is false unless a script sets it and is taken to be false.
* **Messages sent** are the environment of other nodes, except RERRs: who hears
  one is what `Relay` is about.  A RERR is sent with TTL 1, so a unicast reaches
  a precursor only if that is its own next hop.
* **A RERR holds any number of destinations**: AddUnDestination never refuses
  one, so the branches that send a full RERR and begin another are not taken.
* **In `Backbone`**, `live` and `bnLive` say whether a neighbour and its two-hop
  list still have time; a two-hop list comes from one HELLO and expires as a
  whole.  The order of the list is left out: it matters only to GetBestNeighbor,
  whose comparison leaves some neighbours unordered, so `Best` is the set of what
  any order can give.  Hello counters stop at `MinHello`, the only value they are
  compared with.  Other nodes send HELLOs that satisfy `HelloAssumption`, and
  `HonestHello` shows that this node's own HELLOs are of that kind: an indicator
  other than OTHER only in the backbone, a list that names other nodes, each once.
  The assumption is thus met in a network of such nodes; in one where nobody
  moves, `Network`'s type invariant says so of all nodes together.  HELLOs are
  enabled, as by default, also in `Interfaces`.  Clearing the list when an
  interface goes down is left out.
* **In `Network`** nobody moves and no HELLO is lost, so that links and weights are
  fixed (any weight function but NODE_BNDEGREE), lists never expire, and lifetimes
  and hello counters can be left out.  A long timer and the HELLO that follows it
  a millisecond later are one step.  That leaves out neighbours whose random
  starts fall within the same millisecond, which decide without the other's
  HELLO: three of them in a chain can split the backbone, if the outer two, as
  candidates, join for each other's side at the moment the middle one quits.
* **Widths.**  `m_reqCount` keeps its width as the constant `ReqCountModulus` (256 in
  the code).  Two other wraps are not modelled: the hop count, 8 bits wide, which
  would take a path of 255 nodes, and the sequence number, which the code compares
  as a signed 32-bit difference and the models as numbers.

## 3. The runs

| Run | Question | Bounds |
|---|---|---|
| `route_discovery` | do the safety properties hold over all handlers? | 2 addresses of one node on 2 interfaces, 2 packets, 2 messages, 3 of both together, one destination at a time once there was a message; RreqRetries 2, 1 RREQ per second, queue of 1, count modulo 4; 108,521 states |
| `route_discovery_live` | does every search end, and does every packet leave? | 2 addresses, 3 packets, 1 message, RreqRetries 1, 1 RREQ per second, queue of 2, count modulo 2; 124,896 states |
| `retries_bounded` | finding 1 | 4 packets, no messages, the code's default count width |
| `reply_never_ages_route` | finding 2 | 1 packet, 2 messages, sequence numbers 1 and 2 |
| `hello_gives_route` | finding 3 | 1 packet, 2 messages, 2 addresses of one node |
| `backbone` | do a node's decisions and its list obey their safety properties? | 4 peers with addresses below and above the node's, 8 different HELLOs, 4 of them received, traffic with the address of no node; 1,598,949 states |
| `backbone_live` | does a silent neighbour leave? | 2 peers, 3 HELLOs, traffic with everybody |
| `two_hop_purged` | finding 4 | as `backbone_live` |
| `relay` | does a node that relays keep precursors, and report what is no more? | 3 addresses of 2 neighbours on 2 interfaces, 7 messages (a request and its copy over another neighbour, a request of that one, a reply, a RERR, a HELLO sent from the second address, an ACK), 1 broadcast packet; 3 messages, or a packet of its own and a message; limit of 1 RERR, links break while the count is at most 1; 146,521 states |
| `rerr_rate_held` | finding 5 | as `relay`, limit of 2 RERRs |
| `interfaces` | what becomes of routes, searches, packets and timers when interfaces go and return? | 2 addresses of one node on 2 interfaces, 2 packets, the first bound or not, 1 message, 2 changes; at most 3 of those in all (4 without a message once an interface has returned), and 2 packets or messages unless all interfaces are up and nothing is postponed; one until the first expiries; queue of 2, RreqRetries 2, count modulo 3; 139,158 states |
| `network` | does a backbone that several nodes leave stay in one piece? | 6 nodes: the lowest hears a path of four others, which rule 1 lets it leave; a regular node hears one end; both rules on, as by default; no bound on steps, all 192,190 states |

Properties of `route_discovery`:

* `TypeOK`, the type invariant.
* `SearchSupervised`: an entry IN_SEARCH has a running timer or a postponed request.
* `NoOrphanPacket`: a queued packet has one too.  The queue has no timer of its own.
* `FreshRetryCount`: an entry that is not searched counts no attempts.
* `UsableRoute`: an entry that is or was VALID has a next hop and a length, and a
  route of length 1 goes to the destination itself; if an event breaks this, it is
  a HELLO a node sent on another interface than that of its main address, and the
  entry is that of the main address (finding 3).
* `OneFate`: each packet is in exactly one place.
* `FailsForCause`: a queued packet fails only because it expired, was evicted by
  a full queue, or its search was given up.
* `SearchNearsEnd`: while a search goes on, each expiry of its timer and each
  request sent for it brings its end nearer: fewer requests are under way, or
  fewer events are left until a timer gives up, past the limit and through the
  wrapped count too.  No other step takes the end further away.
* `KeepsPromise`: the node implements `PacketService`.

Properties of `route_discovery_live`: `SearchEnds` and `PacketsLeave`.

Properties of `backbone`:

* `TypeOK`, the type invariant.
* `HonestHello`: only a node in the backbone advertises an indicator other than OTHER,
  and the backbone neighbours it lists are other nodes, each named once.
* `ConnectorStays`: on no view of its neighbours does a node see both a gap it
  would join to close and leave to quit.
* `QuitKeepsClients`: a node that quits leaves no regular client, and no candidate
  client that hears no other backbone node.  The code counts a list that may
  hold the node itself.
* `AssociatesUpwards`: a node associates with a listed neighbour of the highest
  status there is, and the heaviest of those.
* `LossesReported`: the neighbours that leave are exactly those reported, and each
  was overdue, unheard or unreachable.

`backbone_live`: `SilentLeave`, every address is again and again not listed.

Properties of `relay`:

* `RelayTypeOK`, the type invariant.
* `PrecursorsReal`: an event that puts the address of no node among the precursors
  finds a route that a HELLO has broken; RecvReply and the answering node store the
  next hops of entries that may be gone or have none.
* `PrecursorsTold`: when a route over a broken link or past a reporting
  neighbour becomes invalid, each precursor with a direct route is among the
  hearers of a RERR about it, unless the limit is reached.
* `ErrorsHonoured`: what is reported as unreachable is not VALID afterwards;
  the exception is a RecvRequest that writes back a copy taken before the break.
* `BrokenRoutesGo`: after a reported break of a known link, no VALID route leads
  over it.

Properties of `interfaces`:

* `IfaceTypeOK`, the type invariant.
* `RoutesHaveSockets`: every entry that is or was VALID, or names an interface at
  all, names one with a socket, also when a HELLO moved it to another interface.
* `SearchSupervised`, as above, now with tables cleared in the middle of a search.
* `StrandedBehind`: a queued packet without timer and request is there only
  because one bound to another interface stood before it, was dropped, and made
  SendPacketFromQueue return.  Cleared tables strand no packet.
* `OnePlace`: a packet is in one of five places; the fifth is "dropped, and
  nobody was told".
* `LostForCause`: such a packet was bound, or the node had lost its last interface.
* `SearchersSayHello`: a node with a search under way has its hello timer running
  or about to start, also after all interfaces were down.
* `FailsForCause` and `KeepsPromise`, as in `route_discovery`: interfaces that go
  give no further reason to fail a packet, and one that was dropped or refused
  is never answered later.
* `SearchOutlastsChanges`: the timers and postponed requests a cleared table leaves
  behind count for the next search of the destination; every event of a search
  brings its end nearer, and no event, no interface that goes or returns, takes it
  further away.

Properties of `network`:

* `TypeOK`, the type invariant, with the HELLOs every node sends.
* `StaysTogether`: parts of the backbone without a link between them after a step
  were parts without a link before.  Several nodes may quit, each counting on
  others from lists that are older than what these have decided since.
* `SplitsOnlyWhenStale`: the same of every step, without exception, as long as no
  list names a node that has quit: the rules read links from lists, and those
  they accept are paths through the backbone around the node that quits.

The exceptions of `StaysTogether` are the code's own, and needed.  Rule 1
(HandlePushJoinNonDC) counts on a path of two other nodes without looking at their
weights or indicators.  Take the links 1-2, 1-3, 1-4, 1-5, 2-3, 2-4, 2-5, 3-4, equal
weights, everybody in the backbone: 2 quits counting on the path 3-1 or 4-1 between
two others, then 1 quits counting on 2 from the lists of its neighbours, and 5 is
cut off.  And a node that told BREAK is counted on whatever its weight; when its
clients leave it, it may quit while the others still count on it.  `misled` records
both, and the property says nothing after it.

The network of the run is the smallest with a pair that only rule 1 keeps: the node
that quits and a path of four.  Its weights have it quit first; others then quit
on lists that still name it.

Why the bounds of `backbone` are enough: four HELLOs fill the list with one
neighbour from each peer, which is the least number that a pair linked through
another pair needs (LinkedByTwo); each peer has two HELLOs, or a status it
changes; clients are regular ones, candidates that hear this node only, and
candidates that hear another one too; there are equal weights, so that addresses
decide, and the weight of the node is the number of its neighbours, which grows
and shrinks.  Both statuses change and every action is taken in the run.

Why the bounds of `route_discovery` are enough: with a limit of 1 per second a
second request is postponed at once; with a queue of 1 a second packet evicts the
first; two packets for one destination let a retry count step past RreqRetries, so
that only the wrapped count ends the search; two addresses give a neighbour and a
destination behind it, precursors of both, and a main address and another one of
the same node; two messages give a route and then its replacement, invalidation or
expiry, or a HELLO for it; two hop counts give direct and longer routes.
`MCBudget` leaves out what only repeats this for a second destination at the same
time as a message.  `SeqNos` is a single number in the passing run, which keeps it
small: the "unknown", "equal" and "greater" branches of RecvReply and RecvRequest
stay reachable through entries without a valid number (their sequence number is
0), and the proofs cover every set of numbers.

Why the bounds of `relay` are enough: a request, its copy over another
neighbour and a reply make an entry with a precursor on the other interface; the
break of the link, or the RERR, in place of the third message takes it away;
a RERR for two destinations has precursors of both; with a limit of 1 the
second error is suppressed; a packet of the node's own puts its search on the
same table.  Why those of `interfaces` are: an interface can go and
return, both can go, one can come up late, with a search or a route in
between; two packets are the bound one and the one left behind it, and they need
all interfaces.  `HopCounts` is {2} there; length 1 comes from hearing the
neighbour itself.  The proofs hold without any of these bounds.

No run uses symmetry: one address is the main address, the other is not.

Deadlock is checked in every run.  `LookupRoute` stands for the node's other
traffic and is always enabled, so this says little; the liveness run says what
matters.

### Fairness

`FairSpec` assumes weak fairness of the delivery from the loopback device, the
rate timer, each postponed request and each retry timer.  All four are events
the simulator has scheduled, or a timer its own handler schedules again, and it
runs every scheduled event.  Nothing is assumed of messages, of further packets
or of lifetimes: searches end and packets leave even if nobody ever answers.

In `Backbone`, `FairSpec` assumes weak fairness of LongTimerExpire only, a timer
that schedules itself again in its own handler.  HELLOs stop after `MaxHellos`,
data traffic may go on forever.

`RelaySpec` and `IfaceSpec` state no fairness: their properties are about safety.

### Findings: where comments and code differ

1. **Retries can exceed RreqRetries** (`RetriesBounded`).  The comment at
   `aodv-routing-protocol.cc` 1665-1667 has packets dropped once discovery was
   attempted RreqRetries times.  The code compares for equality when the timer fires.
   Requests postponed by the rate limit, one for each packet that found the
   table without a search, each raise the count and restart the timer; the count
   can step past the limit and the search then lasts until the 8-bit count has
   wrapped.  `SearchEnds` shows that it does end.
2. **A reply can replace a newer route** (`ReplyNeverAgesRoute`).  The comment in
   RecvReply lists when an existing entry is updated; the origin of a request
   afterwards stores the reply whatever its sequence number if the entry is
   IN_SEARCH.
3. **A HELLO can give a route to nowhere** (`HelloGivesRoute`).  RecvHello is to make
   sure of an active route to the neighbour (1549-1553).  It looks up the
   originator, which is the main address on every interface (1797), and makes the
   entry VALID as it is.  If the HELLO came from another address of the node,
   UpdateRouteToNeighbor noted that one; an entry that SendRequest made for the main
   address has hop count 0 and no next hop, and becomes a VALID route.
   `UsableRoute` shows that nothing else breaks a route.  A message that comes from
   the main address itself mends it.
4. **Expired two-hop neighbours stay** (`TwoHopPurged`).  Purge is to "remove all
   expired entries" (`aodv-neighbor.h` 219).  It copies a neighbour to the new list
   and then erases the expired two-hop entries from the old list, which it drops.
   A neighbour that data traffic keeps is judged by links nobody confirms.
5. **The limit on RERRs does not hold** (`RerrRateHeld`).  The comments at 1902 and
   1965 allow RERR_RATELIMIT per second.  SendRerrWhenNoRouteToForward compares
   the count but never raises it; SendRerrMessage raises it once per interface,
   and compares for equality, so it can step past the limit.

Differences met in the code that no run is spent on:

* The comment in ScheduleRreqRetry (`aodv-routing-protocol.h` 237) has binary
  exponential backoff; the delay is the request count times NetTraversalTime.
* SetIpv4's comment (657) runs the long timer 1 ms after the short one; the code
  schedules it 1 ms before.  The HELLO after a decision then tells it.
* The attribute Rule1 is described as a rule to convert to the backbone (226); it
  also decides who may leave.
* InvalidateRoutesWithDst is to increment sequence numbers (`aodv-rtable.h`
  199-205); it does not.  GetListOfDestinationWithNextHop is to look at
  precursors (197); it does not.
* The long timer is stopped when the last interface goes down and never started
  again, and the backbone of that node ends there; the hello timer is started
  again, by the next RREQ only (`SearchersSayHello`).
* Forwarding uses the entry of the packet's origin whether the lookup found it or
  not (611-616), and enters its default next hop into the neighbour list: the
  address of no node is a candidate of weight 0, and counts in the degree.
* A route broken by a HELLO (finding 3) makes RecvReply and the answering node
  store the address of no node as a precursor, to which RERRs then go
  (`PrecursorsReal`).  A HELLO from a second interface also moves the entry of the
  main address to that interface and leaves its next hop, so that a unicast RERR to
  this neighbour leaves by an interface it does not hear; `PrecursorsTold` speaks of
  precursors whose entry has the interface they are heard on.
* The reverse route takes the next hop and length of a request also when its
  sequence number is older than that of the entry, whose number is kept.
* A request is dropped if the entry of its destination has the sender as next
  hop, also when that entry is INVALID.
* UpdateRouteToNeighbor replaces the sequence number and the precursors of an
  entry of length above 1 by none.  The sockets of NotifyAddAddress have no TTL of 1,
  and NotifyRemoveAddress does not close those it forgets.
* SendRerrWhenBreaksLinkToNextHop repeats its RERRs for a neighbour whose entry is
  INVALID already.  A unicast RERR to a precursor that is not a neighbour is
  lost, since its TTL is 1.
* SendPacketFromQueue returns at the first packet bound to another interface; the
  packets behind it stay in the queue until they expire (`StrandedBehind`).

## 4. The proofs

All are checked by TLAPS for every value of the constants that satisfies the
assumptions in the modules: any number of addresses, packets and messages, any
limits, any sequence numbers and hop counts.  The assumptions are those the code
justifies: `NoAddr` and `Me` are not among the other addresses, limits are
positive, `RreqRetries` fits the count's width, hop counts start at 1 since
the receiver adds 1.

| Theorem | Establishes |
|---|---|
| `TypeCorrect` | `Spec => []TypeOK` |
| `SearchesSupervised` | `Spec => []SearchSupervised` |
| `PacketsTended` | `Spec => []NoOrphanPacket` |
| `RetryCountFresh` | `Spec => []FreshRetryCount` |
| `RoutesUsable` | `Spec => UsableRoute` |
| `PacketsHaveOneFate` | `Spec => []OneFate` |
| `PacketsFailForCause` | `Spec => FailsForCause` |
| `SearchesNearTheirEnd` | `Spec => SearchNearsEnd` |
| `NodeKeepsPromise` | `Spec => KeepsPromise`: refinement of `PacketService` |
| `ConnectorsStay` | `Spec => []ConnectorStays` (of `Backbone`, as are the next) |
| `BackboneTypeCorrect` | `Spec => []TypeOK` |
| `HelloStaysHonest` | `Spec => []HonestHello` |
| `ClientsKept` | `Spec => QuitKeepsClients` |
| `AssociationGoesUp` | `Spec => AssociatesUpwards` |
| `AllLossesReported` | `Spec => LossesReported` |
| `RelayImplementsDiscovery` | `RelaySpec => RelaysDiscovery`: `Relay` implements `RouteDiscovery` |
| `RelaySearchesSupervised` | `RelaySpec => []SearchSupervised`, by the refinement |
| `RelayServesItself` | `RelaySpec => KeepsPromise`, with its failures and searches as those of `RouteDiscovery` |
| `RelayTypeCorrect` | `RelaySpec => []RelayTypeOK` |
| `PrecursorsAreNeighbours` | `RelaySpec => PrecursorsReal` |
| `EveryPrecursorTold` | `RelaySpec => PrecursorsTold` |
| `ReportedRoutesGone` | `RelaySpec => ErrorsHonoured` |
| `NoRouteOverBrokenLink` | `RelaySpec => BrokenRoutesGo` |
| `IfaceTypes` | `IfaceSpec => []IfaceTypeOK` |
| `RoutesKeepTheirSockets` | `IfaceSpec => []RoutesHaveSockets` |
| `SearchesStaySupervised` | `IfaceSpec => []SearchSupervised` |
| `OnlyBoundPacketsStrand` | `IfaceSpec => []StrandedBehind` |
| `PacketsHaveOnePlace` | `IfaceSpec => []OnePlace` |
| `PacketsLostForCause` | `IfaceSpec => []LostForCause` |
| `SearchesOutlastChanges` | `IfaceSpec => SearchOutlastsChanges` |
| `SearchingNodesSayHello` | `IfaceSpec => []SearchersSayHello` |
| `PromiseKeptAnyway` | `IfaceSpec => KeepsPromise` |
| `FailuresKeepTheirCause` | `IfaceSpec => FailsForCause` |
| `NetworkTypes` | `Spec => []TypeOK` (of `Network`) |
| `BackboneStaysTogether` | `Spec => StaysTogether` (of `Network`) |
| `BackboneSplitsOnlyWhenStale` | `Spec => SplitsOnlyWhenStale` (of `Network`) |

**The argument.**  `TableProofs` calls a table *good* (`GoodTable`) when each entry is
well typed, counts attempts only while it is searched and fewer than the width
allows, has a next hop exactly if it has a length, and names an interface if it has
a next hop or a past.  Every operator keeps a table good, and each but DeleteRoute
and the end of a search leaves the entries under search where they are (`Quiet`).
Usable routes are followed from step to step, since a HELLO may break one: `Calm`
says moreover that each route without a next hop was one before (`NoNewBroken`), and
every operator is calm but `HelloRoute`.  That one breaks at most the entry of the
main address, and only if that is not the sender, whose own entry
UpdateRouteToNeighbor has just made direct.

`SearchSupervised` is not inductive by itself, nor is `NoOrphanPacket`: a retry
timer that stops takes care of the packets in the queue only if no packet is left
to a search that has none.  The invariant `IInv` of `RouteDiscoveryProofs` joins
the type invariant, the good table, supervision of each search, and attention to
each queued packet; it is shown preserved by one lemma per group of actions.
The interesting cases are GiveUp, which must drop the destination's packets
together with the entry, and RecvReply, which stops the timer and must have emptied
the queue of that destination in the same step.

`SearchesNearTheirEnd` is the ranking argument behind `SearchEnds`, without its
fairness.  The rank is a pair: the requests under way (postponed ones, and the one
the timer waits for), and the attempts until the count, modulo its width, meets
RreqRetries, each of which may be postponed once.  `CountsFit`, a part of the good
table, keeps the counts below the width.  Every step does one of three things to a
search that goes on, and each lowers the rank or leaves it alone: it `Rests`, a
request for it is sent (`Sends`), or the timer's request is postponed
(`Postpones`).  That the table operators start no search by the way and keep the
counts is `NoNewSearch` of `TableProofs`.

`PacketProofs` adds where the packets are: ids are unique, the loopback holds the
newest ones, and the four places are disjoint (`PInv`).  Two facts carry the
refinement: each step moves unsettled packets only, and it moves each to one place.
The oldest packet of a non-empty queue exists by the least-number principle
(`LeastElement`), obtained from well-founded subset ordering of finite sets.

`BackboneProofs` holds for any set of nodes, any HELLOs within the assumption,
every weight function and both rules on or off.  `ConnectorStays` needs no
invariant: `NotLinkedNotKept` shows that a pair the joining rules find unlinked is
kept by none of the three ways the quitting rules know, since those look at the
same links; so BackboneKept or CandidatesKept fails on the pair that made Connects
true.  For the rest, `IInv` says that every listed tuple is one a HELLO or data
traffic can have left (`GoodList`, with each two-hop list finite and naming an
address once) and that the node's own variables have their types.  That each
address is named once is what `QuitKeepsClients` rests on: more than one entry
then means somebody besides this node (`MoreThanMe`).  `ToldListHonest` closes the
circle: from a good list, GetBnNeighbors makes a HELLO of the kind that made it
good.

`RelayProofs` begins with the refinement: each action of `Relay` is an action of
`RouteDiscovery` with one choice of `broken`, or leaves its variables alone, so
`IInv` and all that follows from it holds of a node that relays.  `PrecursorProofs`
calls the operators *mild* that invalidate nothing, break nothing, and put nobody
but neighbours on a list of precursors if every route of the table has a next hop
(`Whole`).  The RERR properties then come from the
handlers that write a route INVALID and from who is a hearer of what they send.
They need finitely many addresses and interfaces, since RERRs are counted.

In `Interfaces`, `NoOrphanPacket` fails, and `IInv` with it.  `SearchInv` is the
part of `IInv` that is left: types, the good table, supervision.  `IfaceStep` then
says what a step may do with packets: they all rest, one of them moves, or those
of one destination are served; `OnePlace` and `LostForCause` follow from these
three kinds instead of from every action.  For `StrandedBehind`, the first packet
that is bound elsewhere is a least element of the queue (`LeastElement`): it is
dequeued and lost, and those behind it have it as their cause.
`SearchersSayHello` rests on `Announced`: a step that starts a search starts the
hello timer.  For the sockets it looks at the tables that name interfaces in a set
U only (`TableVia`): each operator keeps a table there when the sender it hears is
heard on one of U, HELLOs included, and an interface that goes down takes its
routes out with it, so that U may be the interfaces with a socket.
`SearchesOutlastChanges` uses the ranking of `SearchNearsEnd` again: its lemmas
ask for a good table and typed timers only, which `SearchInv` has, and an
interface that goes or returns starts no search and leaves timers and requests
alone (`InterfaceChangeRests`).

`NetworkProofs` is about what the nodes know of each other.  Its first lemmas say
so of one HELLO (`ToldIsHonest`, `Counts`, `KnowsNeighbours`, `KnowsBackbone`).
`StaysTogether` is not inductive: old lists name nodes that have quit.  The
invariant says what still links the backbone nodes that name one.  `Covered`: if two
backbone nodes name a node that has quit, they hear each other, or one names a
`Backup` that the other names too, which is higher than the one that quit or told
BREAK.  `PromisesKept`: who told BREAK in a HELLO that is still believed is in the
backbone.  A node that quits has checked a Backup for each pair (`QuitChecks`).
For the theorem, take the highest of the nodes that both of a pair name (`Highest`;
there are finitely many): had it quit, it would have a backup higher still, or one
that told BREAK, which stays.  So it has not quit, and links the pair (`Bridge`):
no two parts come of the neighbours of a node that quits (`NoNewSplit`).  Rank makes
this well-founded, which is why a quit by rule 1 alone, that has none, is excepted.
`Whole` and `OnlyWhoLeaves` reduce both properties to pairs of neighbours of the
node that quits; for `SplitsOnlyWhenStale` no history is needed, only that each
way of keeping a pair is a path of nodes that are there (`QuitFindsPath`).

**Only model-checked**: `SearchEnds`, `PacketsLeave` and `SilentLeave`, because
liveness under fairness is out of the prover's reach.

## 5. What is not modelled, and the plan

| Next | Module | What it covers |
|---|---|---|
| 1 | `Network` | decision and HELLO as two steps; nodes that move and HELLOs that are lost |
| 2 | `Backbone` with interfaces | the neighbour list cleared and the long timer stopped when the last interface goes down |

To prove next: what of `StaysTogether` is left when decision and HELLO are two steps,
and what the joining rules do to a backbone that has come apart.

Not modelled:

* `aodv-packet.*`: pure serialisation without state.  The handlers are modelled
  with the fields the headers carry.
* `input.cc`: a script for the simulator that sets up nodes, mobility and
  traffic; it uses a module `ns3::htms` that is not in this repository.
* The acknowledgement timer and the blacklist, which nothing schedules; deletion
  of precursors, which nobody calls; malicious nodes, ARP caches, printing and
  tracing.
* What ns-3 does with a packet that RouteInput accepts: the delivery callbacks
  belong to it.
