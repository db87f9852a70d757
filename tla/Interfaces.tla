----------------------------- MODULE Interfaces -----------------------------
(***************************************************************************)
(* Route discovery at a node whose interfaces come and go                  *)
(* (NotifyInterfaceUp and -Down, NotifyAddAddress and -RemoveAddress in    *)
(* src/model/aodv-routing-protocol.cc).  Without an interface it refuses   *)
(* packets, drops those on their way through the loopback device, clears   *)
(* its table and stops two timers; its queue, its retry timers and its     *)
(* postponed requests go on.                                               *)
(*                                                                         *)
(* An application may bind its socket to an interface.  Such a packet is   *)
(* dropped when the route that was found leaves by another one, and        *)
(* SendPacketFromQueue returns at once, with later packets still queued.   *)
(*                                                                         *)
(* State and handlers are those of RouteDiscovery; what they do to timers  *)
(* and interfaces is added here.  The expiry of a running hello or long    *)
(* timer restarts it and changes nothing here.                             *)
(***************************************************************************)
EXTENDS RouteDiscovery

CONSTANTS
  AnyIface,    \* DeferredRouteOutputTag::oif = -1: the packet may leave anywhere
  MaxChanges   \* bound: changes of interfaces

ASSUME AnyAssumption == AnyIface \notin Iface
ASSUME ChangesAssumption == MaxChanges \in Nat

VARIABLES
  up,        \* m_socketAddresses: the interfaces with a socket
  htimer,    \* m_htimer, the hello timer, is running
  ltimer,    \* m_ltimer, the timer of the backbone, is running
  first,     \* the first expiries SetIpv4 scheduled, not to be cancelled
  oif,       \* the interface a packet's tag names, if its socket is bound to one
  lost,      \* history: packets dropped without an error callback
  cleared,   \* history: the last interface has gone down at least once
  changes    \* interface changes so far

timerVars == <<htimer, ltimer, first>>
historyVars == <<oif, lost>>
linkVars == <<up, cleared, changes>>
ifaceVars == <<vars, up, htimer, ltimer, first, oif, lost, cleared, changes>>

IfaceTypeOK ==
  /\ TypeOK
  /\ up \subseteq Iface
  /\ htimer \in BOOLEAN /\ ltimer \in BOOLEAN
  /\ first \subseteq {"hello", "long"}
  /\ oif \in [1..MaxPackets -> Iface \cup {AnyIface}]
  /\ lost \subseteq Packet
  /\ cleared \in BOOLEAN
  /\ changes \in 0..MaxChanges

\* The protocol is installed with the loopback device only; some interfaces
\* come up before the first event, others later.
IfaceInit ==
  /\ Init
  /\ up \in (SUBSET Iface) \ {{}}
  /\ htimer = FALSE /\ ltimer = FALSE
  /\ first = {"hello", "long"}
  /\ oif = [i \in 1..MaxPackets |-> AnyIface]
  /\ lost = {}
  /\ cleared = FALSE
  /\ changes = 0

-----------------------------------------------------------------------------
(* Interfaces. *)

Change == changes < MaxChanges /\ changes' = changes + 1

\* NotifyInterfaceUp, NotifyAddAddress: a socket, and a route to the broadcast
\* address (not modelled), for which AddRoute purges the table.
InterfaceUp(i) ==
  /\ Change
  /\ i \notin up
  /\ up' = up \cup {i}
  /\ rt' = Purge(rt)
  /\ OnlyTable
  /\ UNCHANGED <<received, timerVars, historyVars, cleared>>

NoInterfacesLeft ==
  /\ rt' = [a \in Addr |-> NoRoute]
  /\ htimer' = FALSE
  /\ ltimer' = FALSE
  /\ cleared' = TRUE

\* NotifyInterfaceDown, and NotifyRemoveAddress for the only address.
InterfaceDown(i) ==
  /\ Change
  /\ i \in up
  /\ up' = up \ {i}
  /\ \/ up = {i} /\ NoInterfacesLeft
     \/ /\ up # {i}
        /\ rt' = DeleteAllRoutesFromInterface(rt, i)
        /\ UNCHANGED <<htimer, ltimer, cleared>>
  /\ OnlyTable
  /\ UNCHANGED <<received, first, historyVars>>

\* NotifyRemoveAddress when the interface has another address: the routes go,
\* the socket is replaced.
AddressRemoved(i) ==
  /\ Change
  /\ i \in up
  /\ rt' = Purge(DeleteAllRoutesFromInterface(rt, i))
  /\ OnlyTable
  /\ UNCHANGED <<received, up, timerVars, historyVars, cleared>>

\* The two events SetIpv4 scheduled start the timers, whatever happened since;
\* that of the long timer comes nearly a long interval after the other.
FirstExpiry(k) ==
  /\ k \in first /\ (k = "long" => "hello" \notin first)
  /\ first' = first \ {k}
  /\ htimer' = (htimer \/ k = "hello")
  /\ ltimer' = (ltimer \/ k = "long")
  /\ UNCHANGED <<vars, linkVars, historyVars>>

-----------------------------------------------------------------------------
(* Data packets. *)

\* RouteOutput returns ERROR_NOROUTETOHOST.
Refuse ==
  /\ sent < MaxPackets
  /\ sent' = sent + 1
  /\ failed' = failed \cup {sent + 1}
  /\ UNCHANGED <<timer, waiting, due, rreqCount, loopback, queue, delivered, received>>
  /\ UNCHANGED <<timerVars, historyVars, linkVars>>

\* The VALID route to d leaves by another interface than i.
Mismatch(t, d, i) == IsValid(t, d) /\ i \notin {AnyIface, t[d].iface}

OutputRefused(d, i) ==
  /\ \/ up = {} /\ UNCHANGED rt
     \/ up # {} /\ Mismatch(Purge(rt), d, i) /\ rt' = Purge(rt)
  /\ Refuse

\* A socket is bound to interfaces with an AODV socket only: LoopbackRoute
\* asserts that it finds a source address.  Only packets for the loopback
\* device are tagged with it.
Output(d, i) ==
  /\ up # {} /\ i \in up \cup {AnyIface}
  /\ ~Mismatch(Purge(rt), d, i)
  /\ RouteOutput(d)
  /\ oif' = IF IsValid(Purge(rt), d) THEN oif ELSE [oif EXCEPT ![sent + 1] = i]
  /\ UNCHANGED <<timerVars, linkVars, lost>>

\* Faulty variant: The hello timer is left alone.
RestartsNothing == UNCHANGED htimer

\* SendRequest sets the hello timer going unless it only postpones itself.
RestartsHello == htimer' = (htimer \/ rreqCount' = rreqCount + 1)

Unbothered == UNCHANGED <<ltimer, first, oif, linkVars>>

\* RouteInput from the loopback device.
Deferred(p) ==
  /\ up # {}
  /\ DeferredRouteOutput(p)
  /\ RestartsHello
  /\ Unbothered
  /\ UNCHANGED lost

\* RouteInput without an interface: it returns false before it looks at the
\* packet, and no callback is called.
NotReceived(p) ==
  /\ up = {}
  /\ p \in loopback
  /\ p = Oldest(loopback)
  /\ loopback' = loopback \ {p}
  /\ lost' = lost \cup {p}
  /\ UNCHANGED <<tableVars, due, queue, sent, delivered, failed, received>>
  /\ UNCHANGED htimer
  /\ Unbothered

\* The packets that stay in the queue when one that may not leave is dropped.
StaysBehind(bad, p) == \E b \in bad : b.id < p.id

\* The packets for d that may not leave by interface i, and those that are
\* taken out of the queue: up to the first of these.
Bound(d, i) == {p \in WithDst(queue, d) : oif[p.id] \notin {AnyIface, i}}

Dequeued(d, i) == {p \in WithDst(queue, d) : ~StaysBehind(Bound(d, i), p)}

\* Faulty variants: The packet is dropped and stays queued; all are dropped.
SendByKeeps(d, i) ==
  /\ queue' = PurgeQueue(queue) \ (Dequeued(d, i) \ Bound(d, i))
  /\ delivered' = delivered \cup Ids(Dequeued(d, i) \ Bound(d, i))
  /\ lost' = lost \cup (Dequeued(d, i) \cap Bound(d, i))
  /\ failed' = failed \cup Ids(Expired(queue))
SendByDropsAll(d, i) ==
  /\ queue' = PurgeQueue(queue) \ WithDst(queue, d)
  /\ delivered' = delivered \cup Ids(Dequeued(d, i) \ Bound(d, i))
  /\ lost' = lost \cup (WithDst(queue, d) \ (Dequeued(d, i) \ Bound(d, i)))
  /\ failed' = failed \cup Ids(Expired(queue))

\* SendPacketFromQueue with a route that leaves by interface i.
SendBy(d, i) ==
  /\ queue' = PurgeQueue(queue) \ Dequeued(d, i)
  /\ delivered' = delivered \cup Ids(Dequeued(d, i) \ Bound(d, i))
  /\ lost' = lost \cup (Dequeued(d, i) \cap Bound(d, i))
  /\ failed' = failed \cup Ids(Expired(queue))

-----------------------------------------------------------------------------
(* Timers. *)

Postponed(d) ==
  /\ RunDeferredRequest(d)
  /\ RestartsHello
  /\ Unbothered
  /\ UNCHANGED lost

RequestTimerExpire(d) ==
  /\ timer[d] # Off
  /\ LET t == Purge(rt)
     IN  \/ TakesRoute(t, d) /\ SendBy(d, t[d].iface) /\ UNCHANGED htimer
         \/ GiveUp(t, d) /\ UNCHANGED <<lost, htimer>>
         \/ Retry(t, d) /\ RestartsHello /\ UNCHANGED lost
  /\ UNCHANGED <<due, loopback, sent, received>>
  /\ Unbothered

RateLimitTimerExpire == RreqRateLimitTimerExpire /\ UNCHANGED <<timerVars, linkVars, historyVars>>

-----------------------------------------------------------------------------
(* Messages. *)

\* An RREP that answers an RREQ of this node.
ReplyForMe(s, d, seq, hop) ==
  /\ Receive
  /\ OwnReply(s, d, seq, hop)
  /\ SendBy(d, rt'[d].iface)
  /\ UNCHANGED <<waiting, due, rreqCount, loopback, sent, htimer>>

\* A node that forwards an RREQ sets its hello timer going.
Request(s, o, d, seq, ask, hop) ==
  /\ RecvRequest(s, o, d, seq, ask, hop)
  /\ \/ UNCHANGED htimer
     \/ /\ \E broken \in SUBSET Addr :
             rt' = BreakLinks(ReverseRoute(Heard(s), o, seq, hop, s), broken)
        /\ htimer' = TRUE
  /\ UNCHANGED lost

OtherMessage(s) ==
  /\ \/ RecvIgnored(s) \/ RecvReplyAck(s)
     \/ \E seq \in SeqNos : RecvHello(s, seq)
     \/ \E dsts \in SUBSET Addr : RecvError(s, dsts)
     \/ \E d, o \in Addr, seq \in SeqNos, hop \in HopCounts :
          d # o /\ Direct(s, d, hop) /\ RecvReply(s, d, o, seq, hop)
  /\ UNCHANGED <<htimer, lost>>

Receives(s) ==
  /\ IfaceOf[s] \in up
  /\ \/ OtherMessage(s)
     \/ \E d \in Addr, seq \in SeqNos, hop \in HopCounts :
          Direct(s, d, hop) /\ ReplyForMe(s, d, seq, hop)
     \/ \E o \in Addr, d \in Addr \cup {Me}, seq \in SeqNos,
           ask \in SeqNos \cup {Unknown}, hop \in HopCounts :
          d # o /\ Direct(s, o, hop) /\ Request(s, o, d, seq, ask, hop)
  /\ Unbothered

-----------------------------------------------------------------------------
Elsewhere == Environment /\ UNCHANGED <<timerVars, linkVars, historyVars>>

IfaceNext ==
  \/ \E i \in Iface : InterfaceUp(i) \/ InterfaceDown(i) \/ AddressRemoved(i)
  \/ \E k \in first : FirstExpiry(k)
  \/ \E d \in Addr, i \in Iface \cup {AnyIface} : Output(d, i) \/ OutputRefused(d, i)
  \/ \E p \in loopback : Deferred(p) \/ NotReceived(p)
  \/ \E d \in Addr : Postponed(d) \/ RequestTimerExpire(d)
  \/ RateLimitTimerExpire
  \/ \E s \in Addr : Receives(s)
  \/ Elsewhere

IfaceSpec == IfaceInit /\ [][IfaceNext]_ifaceVars

-----------------------------------------------------------------------------
(* Properties. *)

\* RoutesHaveSockets: every entry names an interface with a socket, and every
\* route names one.  Whoever sends along an entry asserts that
\* FindSocketWithInterfaceAddress finds a socket.
RoutesHaveSockets ==
  \A a \in Addr :
    /\ rt[a].iface \in up \cup {NoIface}
    /\ rt[a].flag \in {"VALID", "INVALID"} => rt[a].iface # NoIface

\* StrandedBehind: a queued packet that no timer and no request looks after was
\* left behind by SendPacketFromQueue, which gave up at an earlier packet for
\* the same destination that was bound to another interface.  Neither cleared
\* tables nor interfaces that return strand a packet.
Stranded(p) == p \in queue /\ timer[p.dst] = Off /\ waiting[p.dst] + due[p.dst] = 0

StrandedBehind ==
  \A p \in queue : Stranded(p) =>
    \E l \in lost : l.dst = p.dst /\ l.id < p.id /\ oif[l.id] # AnyIface

\* OnePlace: every packet sent is in exactly one place, be the interfaces as
\* they may: two callbacks for a packet, or a copy of a lost one, cannot be.
OnePlace ==
  LET places == <<Ids(loopback), Ids(queue), delivered, failed, Ids(lost)>>
  IN  /\ 1..sent = UNION {places[i] : i \in 1..5}
      /\ \A i, j \in 1..5 : i # j => places[i] \cap places[j] = {}

\* LostForCause: a packet is lost without its error callback only if it was
\* bound to an interface, or if the node was without interfaces once.
LostForCause == \A p \in lost : oif[p.id] # AnyIface \/ cleared

\* SearchersSayHello: while a route is searched the hello timer runs, even if
\* all interfaces went down and returned: SendRequest starts it, and the
\* search is forgotten whenever it is stopped.
SearchersSayHello ==
  (\E d \in Addr : InSearch(rt, d)) => htimer \/ "hello" \in first

\* SearchOutlastsChanges: a timer or a postponed request that NotifyInterfaceDown
\* leaves behind belongs to a search the cleared table has forgotten, and counts
\* for the next search of the destination.  However interfaces change, every
\* event of a search brings its end nearer and nothing takes it further away.
SearchOutlastsChanges ==
  [][\A d \in Addr : InSearch(rt, d) /\ InSearch(rt', d) =>
       \/ Nearer(d)
       \/ /\ Underway(d)' = Underway(d) /\ EventsAhead(d)' = EventsAhead(d)
          /\ ~RequestTimerExpire(d)
          /\ ~(Postponed(d) /\ rreqCount' # rreqCount)]_ifaceVars

=============================================================================
