---------------------------- MODULE RelayProofs -----------------------------
(***************************************************************************)
(* Proofs about Relay, for every set of neighbours and interfaces, every   *)
(* set of messages and every limit.  First, every step of Relay is a step  *)
(* of RouteDiscovery or leaves its variables alone, so that everything     *)
(* proved of RouteDiscovery holds in Relay.  Then the invariants, then the *)
(* action properties about what is reported when a route is lost: a step   *)
(* is followed from the purged table through the reverse route and the     *)
(* broken link to the answer.                                              *)
(***************************************************************************)
EXTENDS Relay, PrecursorProofs, PacketProofs, FiniteSetTheorems

-----------------------------------------------------------------------------
(* Relay implements RouteDiscovery. *)

\* The fields of a message that arrives.
LEMMA MessageFields ==
  ASSUME NEW m \in Message
  PROVE  /\ m.type = "HELLO" => m.from \in Addr /\ m.seq \in SeqNos
         /\ m.type = "RREQ" =>
              /\ m.from \in Addr /\ m.origin \in Addr /\ m.dst \in Addr \cup {Me}
              /\ m.seq \in SeqNos /\ m.ask \in SeqNos \cup {Unknown} /\ m.hop \in HopCounts
              /\ m.dst # m.origin /\ Direct(m.from, m.origin, m.hop)
         /\ m.type = "RREP" =>
              /\ m.from \in Addr /\ m.origin \in Addr \cup {Me} /\ m.dst \in Addr
              /\ m.seq \in SeqNos /\ m.hop \in HopCounts
              /\ m.dst # m.origin /\ Direct(m.from, m.dst, m.hop)
         /\ m.type = "RERR" => m.from \in Addr /\ m.dsts \in SUBSET Addr
         /\ m.type = "ACK" => m.from \in Addr
<1>1. m \in MessageType
  BY MessageAssumption
<1>2. /\ m.type = "RREQ" => m.dst # m.origin /\ Direct(m.from, m.origin, m.hop)
      /\ m.type = "RREP" => m.dst # m.origin /\ Direct(m.from, m.dst, m.hop)
  BY MessageAssumption
<1>3. QED BY <1>1, <1>2 DEF MessageType

LEMMA RequestIsDiscovery ==
  ASSUME NEW m \in Message, HandleRequest(m)
  PROVE  NextMessage
<1>1. m.type = "RREQ"
  BY DEF HandleRequest
<1>2. CASE RecvIgnored(m.from)
  BY <1>1, <1>2, MessageFields DEF NextMessage
<1>3. CASE ~RecvIgnored(m.from)
  <2> DEFINE t == ReverseRoute(Heard(m.from), m.origin, m.seq, m.hop, m.from)
  <2>1. PICK lost \in Lost : rt' = BreakLinks(t, lost) \/ AnswerRequest(t, m, lost)
    BY <1>3 DEF HandleRequest
  <2>2. Receive /\ OnlyTable
    BY <1>3 DEF HandleRequest
  <2>3. lost \in SUBSET Addr
    BY DEF Lost
  <2>4. AnswerRequest(t, m, lost) =>
          /\ m.dst \in Addr /\ Answers(t, m.from, m.dst, m.ask)
          /\ lost \in SUBSET (Addr \ {m.from})
          /\ rt' = ReplyFromTable(BreakLinks(t, lost), t, m.dst, m.origin)
    BY <2>3 DEF AnswerRequest
  <2>5. RecvRequest(m.from, m.origin, m.dst, m.seq, m.ask, m.hop)
    BY <2>1, <2>2, <2>3, <2>4 DEF RecvRequest
  <2>6. QED BY <1>1, <2>5, MessageFields DEF NextMessage
<1>4. QED BY <1>2, <1>3

\* A control message is one RouteDiscovery expects.
LEMMA MessageIsDiscovery ==
  ASSUME NEW m \in Message, RecvAodv(m)
  PROVE  NextMessage
<1>1. CASE HandleHello(m)
  BY <1>1, MessageFields DEF HandleHello, NextMessage
<1>2. CASE HandleRequest(m)
  BY <1>2, RequestIsDiscovery
<1>3. CASE HandleReply(m)
  BY <1>3, MessageFields DEF HandleReply, NextMessage
<1>4. CASE HandleError(m)
  BY <1>4, MessageFields DEF HandleError, NextMessage
<1>5. CASE HandleAck(m)
  BY <1>5, MessageFields DEF HandleAck, NextMessage
<1>6. QED BY <1>1, <1>2, <1>3, <1>4, <1>5 DEF RecvAodv

LEMMA StepIsDiscovery == [RelayNext]_relayVars => [Next]_vars
<1> SUFFICES ASSUME [RelayNext]_relayVars PROVE [Next]_vars
  OBVIOUS
<1>1. CASE OwnStep
  BY <1>1 DEF OwnStep, Next, Environment
<1>2. CASE \E m \in Message : RecvAodv(m)
  BY <1>2, MessageIsDiscovery DEF Next
<1>3. CASE \E n \in Addr : LinkBreaks(n)
  BY <1>3 DEF LinkBreaks, Next, Environment
<1>4. CASE ForwardOrDeliver \/ \E o, d \in Addr : NoRouteToForward(o, d)
  BY <1>4 DEF ForwardOrDeliver, NoRouteToForward, Next, Environment
<1>5. CASE \E p \in Broadcast : BroadcastInput(p)
  BY <1>5 DEF BroadcastInput, Next, Environment
<1>6. CASE (\E k \in Keys : KeyExpires(k)) \/ RerrRateLimitTimerExpire
  BY <1>6 DEF KeyExpires, RerrRateLimitTimerExpire
<1>7. CASE UNCHANGED relayVars
  BY <1>7 DEF relayVars
<1>8. QED BY <1>1, <1>2, <1>3, <1>4, <1>5, <1>6, <1>7 DEF RelayNext

\* RelaysDiscovery: with other nodes' packets and messages handled, RERRs
\* sent and copies recognised, the node's route discovery (RouteInput,
\* RecvAodv and the timers) still behaves as RouteDiscovery says.
THEOREM RelayImplementsDiscovery == RelaySpec => RelaysDiscovery
<1>1. RelayInit => Init
  BY DEF RelayInit
<1>2. QED BY <1>1, StepIsDiscovery, PTL DEF RelaySpec, RelaysDiscovery, Spec

\* SearchSupervised, NoOrphanPacket: no search and no queued packet of
\* RouteDiscovery is left alone because of what the node does for others.
THEOREM RelaySearchesSupervised == RelaySpec => [](SearchSupervised /\ NoOrphanPacket)
BY RelayImplementsDiscovery, SearchesSupervised, PacketsTended, PTL DEF RelaysDiscovery

\* RelayServesItself: a node that relays still keeps its promise to its own
\* applications, fails packets for no further cause, and what it does for others
\* takes no search of its own further from its end.
THEOREM RelayServesItself == RelaySpec => KeepsPromise /\ FailsForCause /\ SearchNearsEnd
BY RelayImplementsDiscovery, NodeKeepsPromise, PacketsFailForCause, SearchesNearTheirEnd, PTL
   DEF RelaysDiscovery

-----------------------------------------------------------------------------
(* What a broken link takes along. *)

\* PrecursorsReal: as long as no HELLO has broken a route, RecvReply and the
\* answer of an intermediate node never put the empty next hop of an entry
\* under search on a list of precursors.
THEOREM PrecursorsAreNeighbours == RelaySpec => PrecursorsReal
<1> DEFINE A == \A a \in Addr : rt'[a].precursors \subseteq rt[a].precursors \cup Addr
                               \/ \E d \in Addr : Broken(rt, d)
<1>1. ASSUME IInv, [RelayNext]_relayVars
      PROVE  A
  <2>1. CASE Whole(rt)
    BY <1>1, <2>1, StepIsDiscovery, NextHonest DEF Honest
  <2>2. CASE ~Whole(rt)
    BY <1>1, <2>2, IInvParts, BrokenIsNoHop DEF Whole
  <2>3. QED BY <2>1, <2>2
<1>2. IInv /\ [RelayNext]_relayVars => [A]_relayVars
  BY <1>1
<1> HIDE DEF A
<1>3. RelaySpec => []IInv
  BY RelayImplementsDiscovery, Invariance, PTL DEF RelaysDiscovery
<1>4. RelaySpec => [][A]_relayVars
  BY <1>2, <1>3, PTL DEF RelaySpec
<1>5. QED BY <1>4 DEF A, PrecursorsReal

\* What SendRerrWhenBreaksLinkToNextHop invalidates for one neighbour.
Behind(t, n) == IF Present(t, n) THEN {n} \cup DestinationsWithNextHop(t, n) ELSE {}

\* Breaking links, in a settled table, invalidates what is behind them.
LEMMA BreakEffect ==
  ASSUME NEW t, Settled(t), NEW ns
  PROVE  LET u == BreakLinks(t, ns)
         IN  /\ Settled(u)
             /\ \A a \in Addr :
                  /\ u[a].precursors = t[a].precursors
                  /\ u[a].nextHop = t[a].nextHop /\ u[a].iface = t[a].iface
                  /\ u[a].flag = IF (\E n \in ns : a \in Behind(t, n)) /\ IsValid(t, a)
                                 THEN "INVALID" ELSE t[a].flag
<1> DEFINE known == {n \in ns : Present(Purge(t), n)}
           S == known \cup UNION {DestinationsWithNextHop(t, n) : n \in known}
<1>1. BreakLinks(t, ns) = InvalidateRoutesWithDst(t, S)
  BY DEF BreakLinks
<1>2. \A a : a \in S <=> \E n \in ns : a \in Behind(t, n)
  BY SettledIsPurged DEF Behind
<1> HIDE DEF S
<1>3. QED BY <1>1, <1>2, InvalidateEffect

\* Links break in the purged table.
LEMMA LinkBreaksPurged ==
  ASSUME IInv, NEW n \in Addr, LinkBreaks(n)
  PROVE  /\ Settled(Purge(rt)) /\ Purge(Purge(rt)) = Purge(rt)
         /\ rt' = BreakLinks(Purge(rt), {n})
         /\ errors' = LinkErrors(Purge(rt), n)
<1>1. Settled(Purge(rt)) /\ Purge(Purge(rt)) = Purge(rt)
  BY IInvParts, PurgeSettles, SettledIsPurged
<1>2. BreakLinks(rt, {n}) = BreakLinks(Purge(rt), {n})
  BY <1>1 DEF BreakLinks, InvalidateRoutesWithDst, DestinationsWithNextHop
<1>3. QED BY <1>1, <1>2 DEF LinkBreaks, SendRerrWhenBreaksLinkToNextHop, Counted, Sent

\* BrokenRoutesGo: SendRerrWhenBreaksLinkToNextHop invalidates what it lists
\* even when SendRerrMessage sends nothing.
THEOREM NoRouteOverBrokenLink == RelaySpec => BrokenRoutesGo
<1>1. ASSUME IInv, NEW n \in Addr, LinkBreaks(n), Present(Purge(rt), n),
             NEW d \in Addr, rt'[d].nextHop = n
      PROVE  ~IsValid(rt', d)
  <2> DEFINE t == Purge(rt)
  <2>1. Settled(t) /\ Purge(t) = t /\ rt' = BreakLinks(t, {n})
    BY <1>1, LinkBreaksPurged
  <2>2. Present(t, n)
    BY <1>1
  <2> HIDE DEF t
  <2>3. /\ t[d].nextHop = n
        /\ rt'[d].flag = IF d \in Behind(t, n) /\ IsValid(t, d) THEN "INVALID" ELSE t[d].flag
    BY <1>1, <2>1, BreakEffect
  <2>4. IsValid(t, d) => d \in Behind(t, n)
    BY <2>1, <2>2, <2>3 DEF Behind, DestinationsWithNextHop, IsValid, Present
  <2>5. QED BY <2>3, <2>4 DEF IsValid
<1> DEFINE A == \A n \in Addr :
                  LinkBreaks(n) /\ Present(Purge(rt), n)
                    => \A d \in Addr : rt'[d].nextHop = n => ~IsValid(rt', d)
<1>2. IInv => A
  BY <1>1
<1>3. RelaySpec => []IInv
  BY RelayImplementsDiscovery, Invariance, PTL DEF RelaysDiscovery
<1> HIDE DEF A
<1>4. RelaySpec => [][A]_relayVars
  BY <1>2, <1>3, PTL
<1>5. QED BY <1>4 DEF A, BrokenRoutesGo

-----------------------------------------------------------------------------
(* What is reported, and to whom. *)

\* The destinations an RERR lists.
LEMMA ErrorsList ==
  /\ \A t, S : \A e \in RerrMessages(t, S) : e.dsts = S
  /\ \A t, n : \A e \in LinkErrors(t, n) :
       Present(t, n) /\ e.dsts = {n} \cup DestinationsWithNextHop(t, n)
<1>1. \A t, S : \A e \in RerrMessages(t, S) : e.dsts = S
  BY DEF RerrMessages, UnicastRerr, BroadcastRerr
<1>2. QED BY <1>1 DEF LinkErrors

\* SendRerrMessage reaches every precursor that has a direct route.
LEMMA ErrorsReach ==
  ASSUME NEW t, NEW S, NEW d \in S, NEW p \in Addr, p \in t[d].precursors,
         IsValid(t, p), t[p].nextHop = p, t[p].iface = IfaceOf[p], rerrCount # RerrRateLimit
  PROVE  \E e \in RerrMessages(t, S) : d \in e.dsts /\ p \in e.hearers
<1> DEFINE known == {q \in Precursors(t, S) \cap Addr : IsValid(t, q)}
<1>1. p \in Precursors(t, S) /\ p \in known
  BY DEF Precursors
<1>2. CASE \E q \in Precursors(t, S) : Precursors(t, S) = {q}
  <2>1. UnicastRerr(t, S, p) \in RerrMessages(t, S)
    BY <1>1, <1>2 DEF RerrMessages
  <2>2. UnicastRerr(t, S, p).dsts = S /\ p \in UnicastRerr(t, S, p).hearers
    BY DEF UnicastRerr, OnIface
  <2>3. QED BY <2>1, <2>2
<1>3. CASE ~\E q \in Precursors(t, S) : Precursors(t, S) = {q}
  <2> DEFINE e == BroadcastRerr(S, t[p].iface)
  <2>1. e \in RerrMessages(t, S)
    BY <1>1, <1>3 DEF RerrMessages
  <2>2. e.dsts = S /\ p \in e.hearers
    BY DEF BroadcastRerr, OnIface
  <2>3. QED BY <2>1, <2>2
<1>4. QED BY <1>2, <1>3

\* What a step that handles a request does, in terms of the reverse route.
LEMMA RequestStep ==
  ASSUME IInv, NEW m \in Message, HandleRequest(m), ~Discard(Key(m))
  PROVE  LET t == ReverseRoute(Heard(m.from), m.origin, m.seq, m.hop, m.from)
         IN  /\ Settled(t) /\ Mild(Purge(rt), t)
             /\ \E lost \in Lost :
                  /\ errors' = UNION {LinkErrors(t, n) : n \in lost}
                  /\ \/ rt' = BreakLinks(t, lost)
                     \/ /\ \A a \in Addr : /\ rt'[a].nextHop = t[a].nextHop
                                          /\ rt'[a].iface = t[a].iface
                        /\ \A a \in Addr : rt'[a].flag =
                             IF a \in {m.dst, m.origin} THEN t[a].flag
                             ELSE BreakLinks(t, lost)[a].flag
                        /\ \A a \in Addr \ {m.dst, m.origin} : rt'[a] = BreakLinks(t, lost)[a]
<1> DEFINE t == ReverseRoute(Heard(m.from), m.origin, m.seq, m.hop, m.from)
<1>0. /\ m.from \in Addr /\ m.origin \in Addr
      /\ m.seq \in SeqNos /\ m.hop \in HopCounts /\ Direct(m.from, m.origin, m.hop)
  BY MessageFields DEF HandleRequest
<1>1. Settled(t) /\ Mild(Purge(rt), t) /\ t[m.origin].nextHop = m.from
  BY <1>0, RequestEffect
<1>2. PICK lost \in Lost :
        /\ errors' = UNION {LinkErrors(t, n) : n \in lost}
        /\ rt' = BreakLinks(t, lost) \/ AnswerRequest(t, m, lost)
  BY DEF HandleRequest, Counted, Sent, Discard
<1> HIDE DEF t
<1>3. ASSUME AnswerRequest(t, m, lost)
      PROVE  /\ \A a \in Addr : rt'[a].nextHop = t[a].nextHop /\ rt'[a].iface = t[a].iface
             /\ \A a \in Addr : rt'[a].flag =
                  IF a \in {m.dst, m.origin} THEN t[a].flag ELSE BreakLinks(t, lost)[a].flag
             /\ \A a \in Addr \ {m.dst, m.origin} : rt'[a] = BreakLinks(t, lost)[a]
  <2> DEFINE d == m.dst
             o == m.origin
  <2>1. d \in Addr /\ o \in Addr /\ rt' = ReplyFromTable(BreakLinks(t, lost), t, d, o)
    BY <1>0, <1>3 DEF AnswerRequest
  <2> HIDE DEF d, o
  <2>2. /\ \A a \in Addr : rt'[a].nextHop = t[a].nextHop /\ rt'[a].iface = t[a].iface
        /\ \A a \in Addr : rt'[a].flag =
             IF a \in {d, o} THEN t[a].flag ELSE BreakLinks(t, lost)[a].flag
        /\ \A a \in Addr \ {d, o} : rt'[a] = BreakLinks(t, lost)[a]
    BY <1>1, <2>1, AnswerAfterBreak
  <2>3. QED BY <2>2 DEF d, o
<1>4. QED BY <1>1, <1>2, <1>3 DEF t

\* The steps that send no RERR.
Unreported ==
  \/ OwnStep \/ ForwardOrDeliver \/ RerrRateLimitTimerExpire
  \/ \E m \in Message : HandleHello(m) \/ HandleReply(m) \/ HandleAck(m)
  \/ \E m \in Message : HandleRequest(m) /\ Discard(Key(m))
  \/ \E p \in Broadcast : BroadcastInput(p)
  \/ \E k \in Keys : KeyExpires(k)

\* The other steps.
LEMMA StepKinds ==
  ASSUME RelayNext
  PROVE  \/ Unreported
         \/ \E n \in Addr : LinkBreaks(n)
         \/ \E o, d \in Addr : NoRouteToForward(o, d)
         \/ \E m \in Message : HandleError(m)
         \/ \E m \in Message : HandleRequest(m) /\ ~Discard(Key(m))
BY DEF RelayNext, RecvAodv, Unreported

LEMMA UnreportedStep ==
  ASSUME IInv, Unreported
  PROVE  errors' = {} /\ Gentle(rt, rt')
<1>0. GoodTable(rt)
  BY IInvParts
<1>1. CASE OwnStep
  <2>1. errors' = {}
    BY <1>1 DEF OwnStep, Silent
  <2>2. ASSUME NEW p, PacketLifetimePasses(p)
        PROVE  Gentle(rt, rt')
    BY <1>0, <2>2, PurgeGentle DEF PacketLifetimePasses, tableVars
  <2>3. QED BY <1>0, <1>1, <2>1, <2>2, PacketGentle, TimerGentle, LifetimeGentle DEF OwnStep
<1>2. CASE ForwardOrDeliver
  BY <1>0, <1>2, PurgeGentle DEF ForwardOrDeliver, LookupRoute, Silent
<1>3. CASE RerrRateLimitTimerExpire
  BY <1>0, <1>3, PurgeGentle DEF RerrRateLimitTimerExpire, vars
<1>4. ASSUME NEW s \in Addr, RecvIgnored(s)
      PROVE  Gentle(rt, rt')
  BY <1>0, <1>4, HeardSettled, MildIsGentle DEF RecvIgnored
<1>5. ASSUME NEW m \in Message, HandleHello(m)
      PROVE  errors' = {} /\ Gentle(rt, rt')
  BY <1>4, <1>5, MessageFields, HelloGentle DEF HandleHello, Silent
<1>6. ASSUME NEW m \in Message, HandleReply(m)
      PROVE  errors' = {} /\ Gentle(rt, rt')
  BY <1>6, MessageFields, ReplyGentle DEF HandleReply, Silent
<1>7. ASSUME NEW m \in Message, HandleAck(m)
      PROVE  errors' = {} /\ Gentle(rt, rt')
  BY <1>7, MessageFields, AckGentle DEF HandleAck, Silent
<1>8. ASSUME NEW m \in Message, HandleRequest(m), Discard(Key(m))
      PROVE  errors' = {} /\ Gentle(rt, rt')
  BY <1>4, <1>8, MessageFields DEF HandleRequest, Silent, Discard, Handle
<1>9. ASSUME NEW p \in Broadcast, BroadcastInput(p)
      PROVE  errors' = {} /\ Gentle(rt, rt')
  BY <1>0, <1>9, PurgeGentle DEF BroadcastInput, LookupRoute, Silent, vars
<1>10. ASSUME NEW k \in Keys, KeyExpires(k)
       PROVE  errors' = {} /\ Gentle(rt, rt')
  BY <1>0, <1>10, PurgeGentle DEF KeyExpires, Silent, vars
<1>11. QED BY <1>1, <1>2, <1>3, <1>5, <1>6, <1>7, <1>8, <1>9, <1>10 DEF Unreported

\* What a step that handles an RERR does.
LEMMA ErrorStep ==
  ASSUME IInv, NEW m \in Message, HandleError(m)
  PROVE  LET t == Heard(m.from)
             S == Unreachable(m)
         IN  /\ Settled(t) /\ Mild(Purge(rt), t)
             /\ rt' = InvalidateRoutesWithDst(t, S)
             /\ errors' = RerrMessages(t, S)
<1>1. m.from \in Addr
  BY MessageFields DEF HandleError
<1>2. QED BY <1>1, HeardSettled DEF HandleError, RecvError, Unreachable, Counted, Sent

\* ErrorsHonoured, for one step.
LEMMA HonouredStep ==
  ASSUME IInv, RelayNext, NEW e \in errors', NEW d \in e.dsts, d \in Addr,
         IsValid(rt', d)
  PROVE  \E m \in Message : HandleRequest(m) /\ d \in {m.dst, m.origin}
<1>1. CASE Unreported
  BY <1>1, UnreportedStep
<1>2. ASSUME NEW n \in Addr, LinkBreaks(n)
      PROVE  FALSE
  <2> DEFINE t == Purge(rt)
  <2>1. Settled(t) /\ Purge(t) = t /\ rt' = BreakLinks(t, {n}) /\ errors' = LinkErrors(t, n)
    BY <1>2, LinkBreaksPurged
  <2> HIDE DEF t
  <2>2. d \in Behind(t, n)
    BY <2>1, ErrorsList DEF Behind
  <2>3. rt'[d].flag = IF d \in Behind(t, n) /\ IsValid(t, d) THEN "INVALID" ELSE t[d].flag
    BY <2>1, BreakEffect
  <2>4. QED BY <2>2, <2>3 DEF IsValid
<1>3. ASSUME NEW o \in Addr, NEW c \in Addr, NoRouteToForward(o, c)
      PROVE  FALSE
  <2>1. \A f \in NoRouteErrors(Purge(rt), o, c) : f.dsts = {c}
    BY DEF NoRouteErrors, BroadcastRerr
  <2>2. d = c /\ rt' = Purge(rt) /\ ~IsValid(Purge(rt), c)
    BY <1>3, <2>1 DEF NoRouteToForward, Sent, LookupRoute
  <2>3. QED BY <2>2
<1>4. ASSUME NEW m \in Message, HandleError(m)
      PROVE  FALSE
  <2> DEFINE t == Heard(m.from)
             S == Unreachable(m)
  <2>1. Settled(t) /\ rt' = InvalidateRoutesWithDst(t, S) /\ errors' = RerrMessages(t, S)
    BY <1>4, ErrorStep
  <2> HIDE DEF t, S
  <2>2. d \in S
    BY <2>1, ErrorsList
  <2>3. rt'[d].flag = IF d \in S /\ IsValid(t, d) THEN "INVALID" ELSE t[d].flag
    BY <2>1, InvalidateEffect
  <2>4. QED BY <2>2, <2>3 DEF IsValid
<1>5. ASSUME NEW m \in Message, HandleRequest(m), ~Discard(Key(m))
      PROVE  d \in {m.dst, m.origin}
  <2> SUFFICES ASSUME d \notin {m.dst, m.origin} PROVE FALSE
    OBVIOUS
  <2> DEFINE t == ReverseRoute(Heard(m.from), m.origin, m.seq, m.hop, m.from)
  <2>1. Settled(t)
    BY <1>5, RequestStep
  <2>2. PICK lost \in Lost :
          /\ errors' = UNION {LinkErrors(t, n) : n \in lost}
          /\ rt'[d].flag = BreakLinks(t, lost)[d].flag
    BY <1>5, RequestStep
  <2> HIDE DEF t
  <2>3. PICK n \in lost : e \in LinkErrors(t, n)
    BY <2>2
  <2>4. d \in Behind(t, n)
    BY <2>3, ErrorsList DEF Behind
  <2>5. rt'[d].flag = IF (\E k \in lost : d \in Behind(t, k)) /\ IsValid(t, d)
                      THEN "INVALID" ELSE t[d].flag
    BY <2>1, <2>2, BreakEffect
  <2>6. QED BY <2>4, <2>5 DEF IsValid
<1>6. QED BY <1>1, <1>2, <1>3, <1>4, <1>5, StepKinds

\* PrecursorsTold, for one step.
LEMMA ToldStep ==
  ASSUME IInv, RelayNext, NEW d \in Addr, NEW p \in Addr,
         IsValid(Purge(rt), d), rt'[d].flag = "INVALID", p \in rt'[d].precursors,
         IsValid(rt', p), rt'[p].nextHop = p, rt'[p].iface = IfaceOf[p], rerrCount # RerrRateLimit
  PROVE  Told(p, d)
<1>1. CASE Unreported
  BY <1>1, UnreportedStep DEF Gentle, Kept
<1>2. ASSUME NEW n \in Addr, LinkBreaks(n)
      PROVE  Told(p, d)
  <2> DEFINE t == Purge(rt)
  <2>1. Settled(t) /\ Purge(t) = t /\ rt' = BreakLinks(t, {n}) /\ errors' = LinkErrors(t, n)
    BY <1>2, LinkBreaksPurged
  <2>2. IsValid(t, d)
    OBVIOUS
  <2> HIDE DEF t
  <2>3. d \in Behind(t, n) /\ p \in t[d].precursors /\ IsValid(t, p)
        /\ t[p].nextHop = p /\ t[p].iface = IfaceOf[p]
    BY <2>1, <2>2, BreakEffect DEF IsValid
  <2>4. errors' = RerrMessages(t, Behind(t, n))
    BY <2>1, <2>3 DEF Behind, LinkErrors
  <2>5. QED BY <2>3, <2>4, ErrorsReach DEF Told
<1>3. ASSUME NEW o \in Addr, NEW c \in Addr, NoRouteToForward(o, c)
      PROVE  FALSE
  BY <1>3 DEF NoRouteToForward, LookupRoute, IsValid
<1>4. ASSUME NEW m \in Message, HandleError(m)
      PROVE  Told(p, d)
  <2> DEFINE t == Heard(m.from)
             S == Unreachable(m)
  <2>1. /\ Settled(t) /\ Mild(Purge(rt), t)
        /\ rt' = InvalidateRoutesWithDst(t, S) /\ errors' = RerrMessages(t, S)
    BY <1>4, ErrorStep
  <2> HIDE DEF t, S
  <2>2. t[d].flag # "INVALID"
    BY <2>1 DEF Mild, NoLoss, IsValid
  <2>3. d \in S /\ p \in t[d].precursors /\ IsValid(t, p)
        /\ t[p].nextHop = p /\ t[p].iface = IfaceOf[p]
    BY <2>1, <2>2, InvalidateEffect DEF IsValid
  <2>4. QED BY <2>1, <2>3, ErrorsReach DEF Told
<1>5. ASSUME NEW m \in Message, HandleRequest(m), ~Discard(Key(m))
      PROVE  Told(p, d)
  <2> DEFINE t == ReverseRoute(Heard(m.from), m.origin, m.seq, m.hop, m.from)
  <2>1. Settled(t) /\ Mild(Purge(rt), t)
    BY <1>5, RequestStep
  <2>2. PICK lost \in Lost :
          /\ errors' = UNION {LinkErrors(t, n) : n \in lost}
          /\ \/ rt' = BreakLinks(t, lost)
             \/ /\ \A a \in Addr : /\ rt'[a].nextHop = t[a].nextHop
                                          /\ rt'[a].iface = t[a].iface
                /\ \A a \in Addr : rt'[a].flag =
                     IF a \in {m.dst, m.origin} THEN t[a].flag ELSE BreakLinks(t, lost)[a].flag
                /\ \A a \in Addr \ {m.dst, m.origin} : rt'[a] = BreakLinks(t, lost)[a]
    BY <1>5, RequestStep
  <2>3. t[d].flag # "INVALID"
    BY <2>1 DEF Mild, NoLoss, IsValid
  <2> HIDE DEF t
  <2> DEFINE u == BreakLinks(t, lost)
  <2>4. /\ \A a \in Addr :
             /\ u[a].precursors = t[a].precursors
             /\ u[a].nextHop = t[a].nextHop /\ u[a].iface = t[a].iface
             /\ u[a].flag = IF (\E n \in lost : a \in Behind(t, n)) /\ IsValid(t, a)
                            THEN "INVALID" ELSE t[a].flag
    BY <2>1, BreakEffect
  <2> HIDE DEF u
  <2>5. rt'[d] = u[d]
    BY <2>2, <2>3 DEF u
  <2>6. PICK n \in lost : d \in Behind(t, n)
    BY <2>3, <2>4, <2>5
  <2>7. p \in t[d].precursors /\ IsValid(t, p)
        /\ t[p].nextHop = p /\ t[p].iface = IfaceOf[p]
    <3>1. \A a \in Addr : rt'[a].nextHop = t[a].nextHop /\ rt'[a].iface = t[a].iface
      BY <2>2, <2>4 DEF u
    <3>2. \A a \in Addr : rt'[a].flag \in {t[a].flag, u[a].flag}
      BY <2>2 DEF u
    <3>3. QED BY <2>4, <2>5, <3>1, <3>2 DEF IsValid
  <2>8. RerrMessages(t, Behind(t, n)) \subseteq errors'
    BY <2>2, <2>6 DEF Behind, LinkErrors
  <2>9. QED BY <2>6, <2>7, <2>8, ErrorsReach DEF Told
<1>6. QED BY <1>1, <1>2, <1>3, <1>4, <1>5, StepKinds

-----------------------------------------------------------------------------
(* The RERRs of a step are finitely many, and well-formed. *)

LEMMA FiniteImage ==
  ASSUME NEW S, IsFiniteSet(S), NEW f, DOMAIN f = S
  PROVE  IsFiniteSet({f[x] : x \in S})
<1> DEFINE T == {f[x] : x \in S}
           g == [x \in S |-> f[x]]
<1>1. g \in Surjection(S, T)
  BY DEF Surjection
<1> HIDE DEF g, T
<1>2. IsFiniteSet(T)
  BY <1>1, FS_Surjection
<1>3. QED BY <1>2 DEF T

WellFormed(rerrs) == rerrs \subseteq Rerr /\ IsFiniteSet(rerrs)

LEMMA MessagesWellFormed ==
  ASSUME NEW t, GoodTable(t), NEW S \in SUBSET Addr
  PROVE  WellFormed(RerrMessages(t, S))
<1> DEFINE known == {p \in Precursors(t, S) \cap Addr : IsValid(t, p)}
           one == [p \in known |-> UnicastRerr(t, S, p)]
           all == [p \in known |-> BroadcastRerr(S, t[p].iface)]
<1>1. IsFiniteSet(known) /\ IsFiniteSet({})
  BY FiniteAssumption, FS_Subset, FS_EmptySet
<1>2. IsFiniteSet({one[p] : p \in known}) /\ IsFiniteSet({all[p] : p \in known})
  <2> HIDE DEF known
  <2>1. DOMAIN one = known /\ DOMAIN all = known
    OBVIOUS
  <2> HIDE DEF one, all
  <2>2. QED BY <1>1, <2>1, FiniteImage
<1>3. \A p \in known : t[p].iface \in Iface
  BY DEF GoodTable, GoodEntry, IsValid, Entry
<1>4. \A p \in known : one[p] \in Rerr /\ all[p] \in Rerr
  BY <1>3 DEF UnicastRerr, BroadcastRerr, OnIface, Rerr
<1>5. RerrMessages(t, S) \in {{}, {one[p] : p \in known}, {all[p] : p \in known}}
  BY DEF RerrMessages
<1> HIDE DEF known, one, all
<1>6. QED BY <1>1, <1>2, <1>4, <1>5 DEF WellFormed

LEMMA LinkErrorsWellFormed ==
  ASSUME NEW t, GoodTable(t), NEW n \in Addr
  PROVE  WellFormed(LinkErrors(t, n))
<1>1. {n} \cup DestinationsWithNextHop(t, n) \in SUBSET Addr
  BY DEF DestinationsWithNextHop
<1>2. WellFormed({})
  BY FS_EmptySet DEF WellFormed
<1>3. QED BY <1>1, <1>2, MessagesWellFormed DEF LinkErrors

LEMMA NoRouteErrorsWellFormed ==
  ASSUME NEW t, GoodTable(t), NEW o \in Addr, NEW d \in Addr
  PROVE  WellFormed(NoRouteErrors(t, o, d))
<1>1. WellFormed({})
  BY FS_EmptySet DEF WellFormed
<1>2. ASSUME IsValid(t, o)
      PROVE  WellFormed({[dsts |-> {d}, iface |-> t[o].iface,
                          hearers |-> {t[o].nextHop} \cap OnIface(t[o].iface)]})
  <2>1. t[o].iface \in Iface
    BY <1>2 DEF GoodTable, GoodEntry, IsValid, Entry
  <2> DEFINE e == [dsts |-> {d}, iface |-> t[o].iface,
                   hearers |-> {t[o].nextHop} \cap OnIface(t[o].iface)]
  <2>2. e \in Rerr
    BY <2>1 DEF Rerr, OnIface
  <2> HIDE DEF e
  <2>3. WellFormed({e})
    BY <2>2, FS_Singleton DEF WellFormed
  <2>4. QED BY <2>3 DEF e
<1>3. WellFormed({BroadcastRerr({d}, i) : i \in Iface})
  <2> DEFINE all == [i \in Iface |-> BroadcastRerr({d}, i)]
  <2>1. DOMAIN all = Iface
    OBVIOUS
  <2>2. \A i \in Iface : all[i] = BroadcastRerr({d}, i) /\ all[i] \in Rerr
    BY DEF BroadcastRerr, OnIface, Rerr
  <2>3. {BroadcastRerr({d}, i) : i \in Iface} = {all[i] : i \in Iface}
    BY <2>2
  <2> HIDE DEF all
  <2>4. IsFiniteSet({all[i] : i \in Iface})
    BY <2>1, FiniteAssumption, FiniteImage
  <2>5. QED BY <2>2, <2>3, <2>4 DEF WellFormed
<1>4. QED BY <1>1, <1>2, <1>3 DEF NoRouteErrors

\* Every step sends well-formed RERRs, and keeps the counts' types.
CountsOK == rerrCount \in Nat /\ errors \subseteq Rerr /\ originated \in 0..OriginatedCap

LEMMA SentKeeps ==
  ASSUME CountsOK, NEW rerrs, WellFormed(rerrs), Sent(rerrs)
  PROVE  /\ errors' \subseteq Rerr /\ originated' \in 0..OriginatedCap
         /\ rerrCount' = rerrCount + Cardinality(rerrs) => rerrCount' \in Nat
<1>1. Cardinality(rerrs) \in Nat
  BY FS_CardinalityType DEF WellFormed
<1>2. OriginatedCap \in Nat /\ originated \in Nat /\ rerrCount \in Nat
  BY RerrAssumption DEF OriginatedCap, CountsOK
<1>3. originated' \in 0..OriginatedCap
  <2> DEFINE c == Cardinality(rerrs)
  <2>1. originated' = IF originated + c > OriginatedCap THEN OriginatedCap ELSE originated + c
    BY DEF Sent
  <2> HIDE DEF c
  <2>2. c \in Nat
    BY <1>1 DEF c
  <2>3. QED BY <1>2, <2>1, <2>2
<1>4. QED BY <1>1, <1>2, <1>3 DEF Sent, WellFormed

LEMMA CountsStep == IInv /\ CountsOK /\ [RelayNext]_relayVars => CountsOK'
<1> SUFFICES ASSUME IInv, CountsOK, [RelayNext]_relayVars PROVE CountsOK'
  OBVIOUS
<1>1. CASE UNCHANGED errorVars
  BY <1>1 DEF errorVars, CountsOK
<1>2. CASE Silent
  BY <1>2 DEF Silent, CountsOK
<1>3. CASE RerrRateLimitTimerExpire
  BY <1>3, RerrAssumption DEF RerrRateLimitTimerExpire, CountsOK, OriginatedCap
<1>4. ASSUME NEW rerrs, WellFormed(rerrs), Counted(rerrs)
      PROVE  CountsOK'
  BY <1>4, SentKeeps DEF Counted, CountsOK
<1>5. ASSUME NEW n \in Addr, LinkBreaks(n)
      PROVE  CountsOK'
  <2>1. WellFormed(LinkErrors(Purge(rt), n))
    BY <1>5, LinkBreaksPurged, LinkErrorsWellFormed DEF Settled
  <2>2. QED BY <1>4, <1>5, <2>1 DEF LinkBreaks
<1>6. ASSUME NEW o \in Addr, NEW d \in Addr, NoRouteToForward(o, d)
      PROVE  CountsOK'
  <2>1. WellFormed(NoRouteErrors(Purge(rt), o, d))
    BY IInvParts, PurgeSettles, NoRouteErrorsWellFormed DEF Settled
  <2>2. QED BY <1>6, <2>1, SentKeeps DEF NoRouteToForward, CountsOK
<1>7. ASSUME NEW m \in Message, HandleError(m)
      PROVE  CountsOK'
  <2>1. WellFormed(RerrMessages(Heard(m.from), Unreachable(m)))
    <3>1. Unreachable(m) \in SUBSET Addr
      BY DEF Unreachable, DestinationsWithNextHop
    <3>2. QED BY <1>7, <3>1, ErrorStep, MessagesWellFormed DEF Settled
  <2>2. QED BY <1>4, <1>7, <2>1 DEF HandleError
<1>8. ASSUME NEW m \in Message, HandleRequest(m), ~Silent
      PROVE  CountsOK'
  <2> DEFINE t == ReverseRoute(Heard(m.from), m.origin, m.seq, m.hop, m.from)
  <2>1. PICK lost \in Lost : Counted(UNION {LinkErrors(t, n) : n \in lost})
    BY <1>8 DEF HandleRequest
  <2>2. GoodTable(t)
    <3>1. /\ m.from \in Addr /\ m.origin \in Addr
          /\ m.seq \in SeqNos /\ m.hop \in HopCounts /\ Direct(m.from, m.origin, m.hop)
      BY <1>8, MessageFields DEF HandleRequest
    <3>2. QED BY <3>1, RequestEffect DEF Settled
  <2> HIDE DEF t
  <2>3. CASE lost = {}
    <3>1. UNION {LinkErrors(t, n) : n \in lost} = {}
      BY <2>3
    <3>2. QED BY <1>4, <2>1, <3>1, FS_EmptySet DEF WellFormed
  <2>4. ASSUME NEW n \in Addr, lost = {n}
        PROVE  CountsOK'
    <3>1. UNION {LinkErrors(t, k) : k \in lost} = LinkErrors(t, n)
      BY <2>4
    <3>2. QED BY <1>4, <2>1, <2>2, <3>1, LinkErrorsWellFormed
  <2>5. QED BY <2>3, <2>4 DEF Lost
<1>9. \/ UNCHANGED errorVars \/ Silent \/ RerrRateLimitTimerExpire
      \/ \E n \in Addr : LinkBreaks(n)
      \/ \E o, d \in Addr : NoRouteToForward(o, d)
      \/ \E m \in Message : HandleError(m)
      \/ \E m \in Message : HandleRequest(m) /\ ~Silent
  BY DEF RelayNext, RecvAodv, OwnStep, ForwardOrDeliver, BroadcastInput, KeyExpires,
         HandleHello, HandleReply, HandleAck, relayVars, errorVars
<1>10. QED BY <1>1, <1>2, <1>3, <1>5, <1>6, <1>7, <1>8, <1>9

\* Only keys of messages are remembered.
SeenOK == seen \subseteq Keys

LEMMA SeenStep == SeenOK /\ [RelayNext]_relayVars => SeenOK'
<1> SUFFICES ASSUME seen \subseteq Keys, [RelayNext]_relayVars PROVE seen' \subseteq Keys
  BY DEF SeenOK
<1>1. CASE UNCHANGED seen
  BY <1>1
<1>2. ASSUME NEW key \in Keys, Handle(key)
      PROVE  seen' \subseteq Keys
  BY <1>2 DEF Handle, Remember
<1>3. ASSUME NEW m \in Message, HandleHello(m) \/ HandleRequest(m), ~UNCHANGED seen
      PROVE  seen' \subseteq Keys
  <2>1. Key(m) \in Keys
    BY <1>3 DEF Keys, HandleHello, HandleRequest
  <2>2. QED BY <1>2, <1>3, <2>1 DEF HandleHello, HandleRequest, Discard
<1>4. ASSUME NEW p \in Broadcast, BroadcastInput(p), ~UNCHANGED seen
      PROVE  seen' \subseteq Keys
  <2>1. <<"data", p[1], p[2]>> \in Keys
    BY DEF Keys
  <2>2. QED BY <1>2, <1>4, <2>1 DEF BroadcastInput, Discard
<1>5. ASSUME NEW k \in Keys, KeyExpires(k)
      PROVE  seen' \subseteq Keys
  BY <1>5 DEF KeyExpires, Expire
<1>6. \/ UNCHANGED seen
      \/ \E m \in Message : (HandleHello(m) \/ HandleRequest(m)) /\ ~UNCHANGED seen
      \/ \E p \in Broadcast : BroadcastInput(p) /\ ~UNCHANGED seen
      \/ \E k \in Keys : KeyExpires(k)
  BY DEF RelayNext, RecvAodv, OwnStep, HandleReply, HandleError, HandleAck, LinkBreaks,
         ForwardOrDeliver, NoRouteToForward, RerrRateLimitTimerExpire, relayVars
<1>7. QED BY <1>1, <1>3, <1>4, <1>5, <1>6

-----------------------------------------------------------------------------
(* The theorems about RERRs. *)

RelayInv == IInv /\ CountsOK

LEMMA RelayInvariance == RelaySpec => []RelayInv
<1>1. RelaySpec => []IInv
  BY RelayImplementsDiscovery, Invariance, PTL DEF RelaysDiscovery
<1>2. RelayInit => CountsOK
  BY RerrAssumption DEF RelayInit, CountsOK, OriginatedCap
<1>3. QED BY <1>1, <1>2, CountsStep, PTL DEF RelaySpec, RelayInv

\* RelayTypeOK: the type of the state, and every RERR names an interface of
\* the node and neighbours as its addressees, whatever the table holds.
THEOREM RelayTypeCorrect == RelaySpec => []RelayTypeOK
<1>1. RelayInit => SeenOK
  BY DEF RelayInit, SeenOK
<1>2. RelaySpec => []SeenOK
  BY <1>1, SeenStep, PTL DEF RelaySpec
<1>3. RelayInv /\ SeenOK => RelayTypeOK
  BY DEF RelayInv, SeenOK, IInv, CountsOK, RelayTypeOK
<1>4. QED BY <1>2, <1>3, RelayInvariance, PTL

\* PrecursorsTold: the three callers of SendRerrMessage tell every precursor
\* with a direct route of every route they invalidate.
THEOREM EveryPrecursorTold == RelaySpec => PrecursorsTold
<1> DEFINE A == \A d, p \in Addr :
                  /\ IsValid(Purge(rt), d) /\ rt'[d].flag = "INVALID"
                  /\ p \in rt'[d].precursors
                  /\ IsValid(rt', p) /\ rt'[p].nextHop = p /\ rt'[p].iface = IfaceOf[p]
                  => Told(p, d) \/ rerrCount = RerrRateLimit
<1>1. RelayInv /\ [RelayNext]_relayVars => [A]_relayVars
  BY ToldStep DEF RelayInv
<1> HIDE DEF A
<1>2. RelaySpec => [][A]_relayVars
  BY <1>1, RelayInvariance, PTL DEF RelaySpec
<1>3. QED BY <1>2 DEF A, PrecursorsTold

\* ErrorsHonoured: this node does not go on using what it reported, except
\* that RecvRequest's answer may write back a route it just reported.
THEOREM ReportedRoutesGone == RelaySpec => ErrorsHonoured
<1> DEFINE A == \A e \in errors' : \A d \in e.dsts :
                  IsValid(rt', d) =>
                    \E m \in Message : HandleRequest(m) /\ d \in {m.dst, m.origin}
<1>1. RelayInv /\ RelayInv' /\ [RelayNext]_relayVars => [A]_relayVars
  <2>1. RelayInv' => \A e \in errors' : e.dsts \subseteq Addr
    BY DEF RelayInv, CountsOK, Rerr
  <2>2. QED BY <2>1, HonouredStep DEF RelayInv
<1> HIDE DEF A
<1>2. RelaySpec => [][A]_relayVars
  BY <1>1, RelayInvariance, PTL DEF RelaySpec
<1>3. QED BY <1>2 DEF A, ErrorsHonoured

=============================================================================
