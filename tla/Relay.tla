------------------------------- MODULE Relay --------------------------------
(***************************************************************************)
(* What a node does for the others (src/model/aodv-routing-protocol.cc):   *)
(* it recognises copies of a message, keeps reverse routes and precursors, *)
(* forwards data packets, and reports routes that are no more, with the    *)
(* limit on such reports (RERRs).  The node's own route discovery goes on  *)
(* at the same time, on the same table: this module takes its state and    *)
(* its handlers from RouteDiscovery and adds what they send and remember.  *)
(*                                                                         *)
(* The node has several interfaces, and an RERR leaves by the one that the *)
(* entry of its receiver names; whoever is not on that interface does not  *)
(* hear it.  The other nodes are a set of messages under way: any of them  *)
(* may arrive next, be lost, or arrive more than once.  An RERR is sent    *)
(* with TTL 1: a unicast reaches a node only when that node is its own     *)
(* next hop.  (The unicasts of the protocol leave through RouteOutput like *)
(* any packet; RouteOutput, which may run after any event, stands for      *)
(* that, too.)                                                             *)
(***************************************************************************)
EXTENDS RouteDiscovery, IdCache

CONSTANTS
  RerrRateLimit,  \* RERRs the node may send per second
  Message,        \* control messages the other nodes send
  Broadcast,      \* data packets <<origin, uid>> that are broadcast to the node
  MaxRerrCount    \* bound: links break while m_rerrCount is at most this

\* Of a message the handlers use the sender, what identifies its copies, and
\* what they store.  Hop counts are those after the receiver's + 1.
MessageType ==
       [type : {"HELLO"}, from : Addr, seq : SeqNos]
  \cup [type : {"RREQ"}, from : Addr, origin : Addr, id : Nat, dst : Addr \cup {Me},
        seq : SeqNos, ask : SeqNos \cup {Unknown}, hop : HopCounts]
  \cup [type : {"RREP"}, from : Addr, origin : Addr \cup {Me}, dst : Addr,
        seq : SeqNos, hop : HopCounts]
  \cup [type : {"RERR"}, from : Addr, dsts : SUBSET Addr]
  \cup [type : {"ACK"}, from : Addr]

ASSUME FiniteAssumption == IsFiniteSet(Addr) /\ IsFiniteSet(Iface)
ASSUME RerrAssumption == RerrRateLimit \in Nat \ {0} /\ MaxRerrCount \in Nat
ASSUME MessageAssumption ==
  /\ Message \subseteq MessageType
  /\ \A m \in Message :
       /\ m.type = "RREQ" => m.dst # m.origin /\ Direct(m.from, m.origin, m.hop)
       /\ m.type = "RREP" => m.dst # m.origin /\ Direct(m.from, m.dst, m.hop)

\* What a cache remembers of a message: its origin, which for a HELLO is the
\* main address of its sender, and its id or number.
Key(m) ==
  IF m.type = "HELLO" THEN <<"HELLO", MainOf[m.from], m.seq>> ELSE <<"RREQ", m.origin, m.id>>

Keys ==
  {Key(m) : m \in {k \in Message : k.type \in {"HELLO", "RREQ"}}}
    \cup {<<"data", p[1], p[2]>> : p \in Broadcast}

VARIABLES
  seen,       \* m_helloIdCache, m_rreqIdCache and m_dpd, told apart by the keys
  rerrCount,  \* m_rerrCount (uint16_t: a second is too short to wrap it)
  errors,     \* the RERRs the last event sent
  originated  \* history: RERRs sent since the count was reset, up to a cap

errorVars == <<rerrCount, errors, originated>>
relayVars == <<vars, seen, rerrCount, errors, originated>>

\* An RERR: what it lists, and the neighbours it is addressed to and reaches.
Rerr == [dsts : SUBSET Addr, iface : Iface, hearers : SUBSET Addr]

OriginatedCap == RerrRateLimit + 1

RelayTypeOK ==
  /\ TypeOK
  /\ seen \subseteq Keys
  /\ rerrCount \in Nat
  /\ errors \subseteq Rerr
  /\ originated \in 0..OriginatedCap

RelayInit ==
  /\ Init
  /\ seen = {}
  /\ rerrCount = 0
  /\ errors = {}
  /\ originated = 0

-----------------------------------------------------------------------------
(* Sending RERRs. *)

Sent(rerrs) ==
  /\ errors' = rerrs
  /\ originated' = IF originated + Cardinality(rerrs) > OriginatedCap THEN OriginatedCap
                   ELSE originated + Cardinality(rerrs)

Silent == errors' = {} /\ UNCHANGED <<rerrCount, originated>>

Counted(rerrs) == Sent(rerrs) /\ rerrCount' = rerrCount + Cardinality(rerrs)

OnIface(i) == {a \in Addr : IfaceOf[a] = i}

BroadcastRerr(dsts, i) == [dsts |-> dsts, iface |-> i, hearers |-> OnIface(i)]

\* Faulty variant: The interface of an entry that was never looked up.
UnicastRerrAnywhere(t, dsts, p) ==
  [dsts |-> dsts, iface |-> NoAddr, hearers |-> {p} \cap {t[p].nextHop}]

UnicastRerr(t, dsts, p) ==
  [dsts |-> dsts, iface |-> t[p].iface,
   hearers |-> {p} \cap {t[p].nextHop} \cap OnIface(t[p].iface)]

Precursors(t, dsts) == UNION {t[d].precursors : d \in dsts}

\* Faulty variant: A list of several precursors is cut down to one interface.
RerrMessagesToOne(t, dsts) ==
  LET known == {p \in Precursors(t, dsts) \cap Addr : IsValid(t, p)}
  IN  IF rerrCount = RerrRateLimit \/ known = {} THEN {}
      ELSE {UnicastRerr(t, dsts, CHOOSE p \in known : TRUE)}

\* SendRerrMessage: what leaves for the precursors of dsts.  The limit is
\* compared once, for as many messages as there are interfaces.
RerrMessages(t, dsts) ==
  LET known == {p \in Precursors(t, dsts) \cap Addr : IsValid(t, p)}
  IN  IF rerrCount = RerrRateLimit THEN {}
      ELSE IF \E p \in Precursors(t, dsts) : Precursors(t, dsts) = {p}
      THEN {UnicastRerr(t, dsts, p) : p \in known}
      ELSE {BroadcastRerr(dsts, t[p].iface) : p \in known}

-----------------------------------------------------------------------------
(* Broken links. *)

\* What SendRerrWhenBreaksLinkToNextHop (n) sends: nothing without an entry
\* for n; else it lists n and every destination behind it, VALID or not.
LinkErrors(t, n) ==
  IF Present(t, n) THEN RerrMessages(t, {n} \cup DestinationsWithNextHop(t, n)) ELSE {}

\* The neighbour list or the MAC layer reports a broken link.
LinkBreaks(n) ==
  /\ rerrCount <= MaxRerrCount
  /\ SendRerrWhenBreaksLinkToNextHop(n)
  /\ Counted(LinkErrors(Purge(rt), n))
  /\ UNCHANGED seen

-----------------------------------------------------------------------------
(* Data packets of other nodes. *)

\* Forwarding, with a VALID route: the packet leaves; the lifetimes it
\* refreshes are those of VALID entries, which Purge just found to be live.
\* RouteInput of a packet for this node does no more to the table.
ForwardOrDeliver ==
  /\ LookupRoute
  /\ Silent
  /\ UNCHANGED seen

\* SendRerrWhenNoRouteToForward: to the next hop towards the origin, or to
\* everybody.  The count is compared and left alone.
NoRouteErrors(t, o, d) ==
  IF rerrCount = RerrRateLimit THEN {}
  ELSE IF IsValid(t, o)
  THEN {[dsts |-> {d}, iface |-> t[o].iface,
         hearers |-> {t[o].nextHop} \cap OnIface(t[o].iface)]}
  ELSE {BroadcastRerr({d}, i) : i \in Iface}

\* Forwarding, without a VALID route.
NoRouteToForward(o, d) ==
  /\ o # d /\ ~IsValid(Purge(rt), d)
  /\ LookupRoute
  /\ Sent(NoRouteErrors(Purge(rt), o, d))
  /\ UNCHANGED <<rerrCount, seen>>

-----------------------------------------------------------------------------
(* Copies of a message. *)

\* The handler goes on with a message that is no duplicate, and remembers it.
Handle(key) ==
  /\ ~IsDuplicate(seen, key)
  /\ seen' = Remember(seen, key)

Discard(key) == IsDuplicate(seen, key) /\ UNCHANGED seen

\* RouteInput, for a packet that was broadcast: a copy of one that was
\* delivered is dropped before the table is looked at.
BroadcastInput(p) ==
  LET key == <<"data", p[1], p[2]>>
  IN  /\ \/ Handle(key) /\ LookupRoute
         \/ Discard(key) /\ UNCHANGED vars
      /\ Silent

KeyExpires(key) ==
  /\ key \in seen
  /\ seen' = Expire(seen, key)
  /\ Silent
  /\ UNCHANGED vars

-----------------------------------------------------------------------------
(* Control messages. *)

HandleHello(m) ==
  /\ m.type = "HELLO"
  /\ \/ Discard(Key(m)) /\ RecvIgnored(m.from)
     \/ Handle(Key(m)) /\ RecvHello(m.from, m.seq)
  /\ Silent

\* The neighbours a look at the neighbour list may find to be gone.  Bound: at
\* most one at a time.
Lost == {{}} \cup {{n} : n \in Addr}

\* RecvRequest gets as far as asking for a neighbour: it is not for this node
\* and the known route to its destination does not lead back to the sender.
AsksNeighbors(t, m) ==
  m.dst \in Addr /\ (Present(t, m.dst) => t[m.dst].nextHop # m.from)

\* The answer goes out from copies of the two entries that are older than
\* what looking for the sender did to the table.
AnswerRequest(t, m, lost) ==
  /\ m.dst \in Addr /\ Answers(t, m.from, m.dst, m.ask)
  /\ m.from \notin lost
  /\ rt' = ReplyFromTable(BreakLinks(t, lost), t, m.dst, m.origin)

HandleRequest(m) ==
  LET t == ReverseRoute(Heard(m.from), m.origin, m.seq, m.hop, m.from)
  IN  /\ m.type = "RREQ"
      /\ \/ /\ Discard(Key(m))
            /\ RecvIgnored(m.from)
            /\ Silent
         \/ /\ Handle(Key(m))
            /\ Receive
            /\ \E lost \in Lost :
                 /\ lost # {} => AsksNeighbors(t, m)
                 /\ rt' = BreakLinks(t, lost) \/ AnswerRequest(t, m, lost)
                 /\ Counted(UNION {LinkErrors(t, n) : n \in lost})
            /\ OnlyTable

HandleReply(m) ==
  /\ m.type = "RREP"
  /\ RecvReply(m.from, m.dst, m.origin, m.seq, m.hop)
  /\ Silent
  /\ UNCHANGED seen

\* RecvError: only destinations routed through the sender count, and they are
\* passed on to those who used them.
Unreachable(m) == m.dsts \cap DestinationsWithNextHop(Heard(m.from), m.from)

HandleError(m) ==
  /\ m.type = "RERR"
  /\ RecvError(m.from, m.dsts)
  /\ Counted(RerrMessages(Heard(m.from), Unreachable(m)))
  /\ UNCHANGED seen

HandleAck(m) ==
  /\ m.type = "ACK"
  /\ RecvReplyAck(m.from)
  /\ Silent
  /\ UNCHANGED seen

RecvAodv(m) ==
  HandleHello(m) \/ HandleRequest(m) \/ HandleReply(m) \/ HandleError(m) \/ HandleAck(m)

-----------------------------------------------------------------------------
\* The rate timer of the RERRs.
RerrRateLimitTimerExpire ==
  /\ rerrCount' = 0
  /\ originated' = 0
  /\ errors' = {}
  /\ UNCHANGED <<vars, seen>>

\* The node's own packets, and time.
OwnStep ==
  /\ \/ NextPacket \/ NextTimer
     \/ \E a \in Addr : LifetimePasses(a)
     \/ \E p \in queue : PacketLifetimePasses(p)
  /\ Silent
  /\ UNCHANGED seen

RelayNext ==
  \/ OwnStep
  \/ \E m \in Message : RecvAodv(m)
  \/ \E n \in Addr : LinkBreaks(n)
  \/ ForwardOrDeliver
  \/ \E o, d \in Addr : NoRouteToForward(o, d)
  \/ \E p \in Broadcast : BroadcastInput(p)
  \/ \E k \in Keys : KeyExpires(k)
  \/ RerrRateLimitTimerExpire

RelaySpec == RelayInit /\ [][RelayNext]_relayVars

-----------------------------------------------------------------------------
(* Properties. *)

\* PrecursorsReal: a precursor is a neighbour.  RecvReply and the answer of an
\* intermediate node insert the next hops of entries they looked up, and an
\* entry under search may have none.  Only while the table has a route that a
\* HELLO has broken may an event put the precursor of nobody on a list.
PrecursorsReal ==
  [][\A a \in Addr : rt'[a].precursors \subseteq rt[a].precursors \cup Addr
                     \/ \E d \in Addr : Broken(rt, d)]_relayVars

\* A neighbour is told that it has no route to d through this node any more.
Told(p, d) == \E e \in errors' : d \in e.dsts /\ p \in e.hearers

\* PrecursorsTold: when a route that was in use becomes invalid, every
\* precursor that still has a direct route, by the interface it is heard on, is
\* told in the same event, unless m_rerrCount is just at the limit: not one of
\* several is forgotten, on none of the interfaces, whether a link broke,
\* another node reported it, or the neighbour list noticed in the middle of a
\* request.
PrecursorsTold ==
  [][\A d, p \in Addr :
       /\ IsValid(Purge(rt), d) /\ rt'[d].flag = "INVALID"
       /\ p \in rt'[d].precursors
       /\ IsValid(rt', p) /\ rt'[p].nextHop = p /\ rt'[p].iface = IfaceOf[p]
       => Told(p, d) \/ rerrCount = RerrRateLimit]_relayVars

\* ErrorsHonoured: a destination this node reports as unreachable is not VALID
\* afterwards, with one exception the code has: RecvRequest may answer from
\* copies it took before the list of neighbours reported a broken link.
ErrorsHonoured ==
  [][\A e \in errors' : \A d \in e.dsts :
       IsValid(rt', d) =>
         \E m \in Message :
           HandleRequest(m) /\ d \in {m.dst, m.origin}]_relayVars

\* BrokenRoutesGo: after a link broke no VALID route leads over it, be the RERR
\* suppressed or not, provided the table knows the neighbour.  (Without an
\* entry of the neighbour the code returns at once and such routes stay.)
BrokenRoutesGo ==
  [][\A n \in Addr :
       LinkBreaks(n) /\ Present(Purge(rt), n)
         => \A d \in Addr : rt'[d].nextHop = n => ~IsValid(rt', d)]_relayVars

\* RelaysDiscovery: all the while the node's route discovery behaves as
\* RouteDiscovery says.
RelaysDiscovery == Spec

-----------------------------------------------------------------------------
(* What a comment in the source says and the code does not do. *)

\* RerrRateHeld: the comment in SendRerrWhenNoRouteToForward and in
\* SendRerrMessage allows no more than RERR_RATELIMIT RERRs a second.  The
\* former never counts its own, and the latter counts past the limit, where
\* the comparison for equality no longer holds.
RerrRateHeld == originated <= RerrRateLimit

=============================================================================
