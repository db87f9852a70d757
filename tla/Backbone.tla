------------------------------ MODULE Backbone ------------------------------
(***************************************************************************)
(* A node's neighbour list and its place in the backbone                   *)
(* (src/model/aodv-routing-protocol.cc): HELLOs come in, data traffic      *)
(* refreshes neighbours, links break, and two periodic timers advertise    *)
(* the node and decide whether it joins or quits.                          *)
(*                                                                         *)
(* The other nodes are the environment: they send the HELLOs of Hello at   *)
(* any moment, at most MaxHellos of them.  Every node runs this code, and  *)
(* HelloAssumption is what HonestHello shows of this node's own HELLOs.    *)
(* Timers have no clock and fire at any moment.  HELLOs are enabled (the   *)
(* default), and HELLOs received twice change nothing and are left out.    *)
(***************************************************************************)
EXTENDS Election

CONSTANTS
  Hello,            \* HELLOs that may come in
  WeightFunction,   \* the attribute localWeightFunction
  InitWeight,       \* the attribute localWeight, or what Start draws for 0
  InitStatus,       \* values of the attribute localNodeStatus
  Traffic,          \* addresses that data is exchanged with
  MaxHellos         \* bound: HELLOs the node receives

\* from is the sender, client whether it names this node as its backbone node.
HelloType == [from : Peer, weight : Nat, status : Status, indicator : Indicator,
              client : BOOLEAN, bn : SUBSET TwoHop]

\* A node in the backbone may advertise any indicator, another one only OTHER.
HonestAs(s, i) == s \in Status /\ i \in Indicator /\ (i # "OTHER" => s = "NEIGH")

\* n lists other nodes, each once.
HonestList(n, bn) ==
  /\ bn \subseteq TwoHop /\ IsFiniteSet(bn)
  /\ \A t \in bn : t.addr # n
  /\ \A t, u \in bn : t.addr = u.addr => t = u

ASSUME HelloAssumption ==
  /\ Hello \subseteq HelloType
  /\ \A h \in Hello :
       HonestAs(h.status, h.indicator) /\ HonestList(h.from, h.bn)
ASSUME AttributesAssumption ==
  /\ WeightFunction \in {"NODE_IP", "NODE_RND", "NODE_BNDEGREE", "NODE_DEGREE"}
  /\ InitWeight \in Nat
  /\ InitStatus \subseteq Status
  /\ Traffic \subseteq Peer \cup {Nobody}
  /\ IsFiniteSet(Peer)
ASSUME MaxHellosAssumption == MaxHellos \in Nat

NoCORE == Nobody    \* m_localAssociatedCORE before the first association

VARIABLES
  nb,         \* localNeighborList
  status,     \* m_localNodeStatus
  assoc,      \* m_localAssociatedCORE
  indicator,  \* m_localcore_noncoreIndicator
  weight,     \* m_localWeight
  currentBn,  \* m_localCurrentBnNeighbors; m_localLastBnNeighbors is only read
              \* right after it was set, to the value before this event
  broken,     \* links the last event reported to m_handleLinkFailure
  hellos      \* HELLOs received so far

ownVars == <<status, assoc, indicator, weight, currentBn>>
vars == <<nb, ownVars, broken, hellos>>

Listable == Peer \cup {Nobody}

TypeOK ==
  /\ DOMAIN nb \subseteq Listable
  /\ \A n \in DOMAIN nb : nb[n] \in Tuple /\ HonestAs(nb[n].status, nb[n].indicator)
  /\ status \in Status
  /\ assoc \in Listable
  /\ indicator \in Indicator
  /\ weight \in Nat /\ currentBn \in Nat
  /\ broken \subseteq Listable
  /\ hellos \in 0..MaxHellos

Init ==
  /\ nb = [n \in {} |-> NewTuple]
  /\ status \in InitStatus
  /\ assoc = NoCORE
  /\ indicator = "OTHER"
  /\ weight = InitWeight
  /\ currentBn = 0
  /\ broken = {}
  /\ hellos = 0

-----------------------------------------------------------------------------
(* Periodic timers. *)

UpdateLocalWeight(L) ==
  weight' = CASE WeightFunction = "NODE_IP" -> Me
              [] WeightFunction = "NODE_RND" -> weight
              [] WeightFunction = "NODE_BNDEGREE" -> Cardinality(OneHop(L, "NEIGH"))
              [] WeightFunction = "NODE_DEGREE" -> Cardinality(DOMAIN L)

UpdateLocalLastBnNeighbors(L) == currentBn' = Cardinality(OneHop(L, "NEIGH"))

\* ShortTimerExpire; the HELLO it sends changes nothing here.
ShortTimerExpire ==
  /\ UpdateLocalLastBnNeighbors(nb)
  /\ UpdateLocalWeight(nb)
  /\ broken' = {}
  /\ UNCHANGED <<nb, status, assoc, indicator, hellos>>

\* Faulty variant: A candidate is preferred to a backbone node.
AssociateWithAny(L) ==
  assoc' \in IF OneHop(L, "CORE") # {} THEN Best(L, "CORE") ELSE {assoc}

\* A node without neighbours keeps assoc as it was.
AssociationAlgorithm(L) ==
  assoc' \in IF Candidates(L) = {} THEN {assoc} ELSE Candidates(L)

\* BCN2BNRule2, after the counts were updated.
SettledEnough == Rule2 => currentBn' <= currentBn

Joining_Quitting_Mechanism(L) ==
  /\ status' = IF SettledEnough /\ (HandleJoin(L, weight') \/ Connects(L, weight'))
               THEN "NEIGH" ELSE status
  /\ UNCHANGED indicator

\* Faulty variant: A node that quits goes on advertising its indicator.
QuitWithIndicator(L) ==
  /\ status' = IF MayQuit(L, weight') THEN "CORE" ELSE status
  /\ indicator' = StayIndicator(L)
  /\ UNCHANGED assoc

\* The node quits, or stays and says whether others may quit.
HeartBeat_Pushjoin_Anchors(L) ==
  /\ IF MayQuit(L, weight')
     THEN status' = "CORE" /\ indicator' = "OTHER"
     ELSE status' = status /\ indicator' = StayIndicator(L)
  /\ UNCHANGED assoc

LongTimerExpire ==
  LET heard == PurgeHello(nb)
      L == PurgeList(heard)
  IN  /\ broken' = Unheard(nb) \cup Overdue(heard)
      /\ nb' = ResetHelloCounter(L)
      /\ UpdateLocalWeight(L)
      /\ UpdateLocalLastBnNeighbors(L)
      /\ \/ status = "RN" /\ AssociationAlgorithm(L) /\ UNCHANGED <<status, indicator>>
         \/ status = "CORE" /\ AssociationAlgorithm(L) /\ Joining_Quitting_Mechanism(L)
         \/ status = "NEIGH" /\ HeartBeat_Pushjoin_Anchors(L)
      /\ UNCHANGED hellos

-----------------------------------------------------------------------------
(* The neighbour list. *)

RecvHello(h) ==
  /\ hellos < MaxHellos
  /\ hellos' = hellos + 1
  /\ nb' = LearnHello(nb, h.from, h)
  /\ broken' = {}
  /\ UNCHANGED ownVars

\* Data was delivered from n, or forwarded to or for it.  Forwarding takes the
\* previous hop from an entry it did not find if there is no route back.
DataTraffic(n) ==
  /\ nb' = Update(nb, n)
  /\ broken' = IF n \in DOMAIN nb THEN {} ELSE Overdue(nb)
  /\ UNCHANGED <<ownVars, hellos>>

\* The list's own timer, GetExpireTime, and IsNeighbor while an RREQ is handled.
Purge ==
  /\ nb' = PurgeList(nb)
  /\ broken' = Overdue(nb)
  /\ UNCHANGED <<ownVars, hellos>>

\* The MAC layer gave up a frame to n, whose hardware address is known.
ProcessTxError(n) ==
  /\ n \in DOMAIN nb
  /\ nb' = PurgeList([nb EXCEPT ![n].live = FALSE])
  /\ broken' = Overdue(nb) \cup {n}
  /\ UNCHANGED <<ownVars, hellos>>

LifetimePasses(n) ==
  /\ n \in DOMAIN nb /\ nb[n].live
  /\ nb' = [nb EXCEPT ![n].live = FALSE]
  /\ broken' = {}
  /\ UNCHANGED <<ownVars, hellos>>

\* A HELLO's two-hop neighbours are kept longer (LongInterval) than its sender
\* ((AllowedHelloLoss + 1) * HelloInterval), and nothing looks at their time but
\* Purge: it matters only of a neighbour that data traffic keeps.
BnLifetimePasses(n) ==
  /\ n \in DOMAIN nb /\ nb[n].bn # {} /\ nb[n].bnLive
  /\ nb' = [nb EXCEPT ![n].bnLive = FALSE]
  /\ broken' = {}
  /\ UNCHANGED <<ownVars, hellos>>

-----------------------------------------------------------------------------
Next ==
  \/ ShortTimerExpire
  \/ LongTimerExpire
  \/ \E h \in Hello : RecvHello(h)
  \/ \E n \in Peer : ProcessTxError(n)
  \/ \E n \in Listable : LifetimePasses(n)
  \/ \E n \in Traffic : DataTraffic(n) \/ BnLifetimePasses(n)
  \/ Purge

Spec == Init /\ [][Next]_vars

\* The long timer schedules itself again each time.
FairSpec == Spec /\ WF_vars(LongTimerExpire)

-----------------------------------------------------------------------------
(* Properties. *)

\* HonestHello: the HELLO that SendHello would send now is of the kind the node
\* itself assumes of others (HelloAssumption).  Only a node in the backbone has
\* an indicator other than OTHER, on which the ordering of neighbours by
\* GetBestNeighbor depends; joining and quitting are different handlers.  And
\* the list names nodes, although forwarding enters the address of no node as
\* a neighbour, so that the receivers' counts of backbone nodes are of nodes.
HonestHello == HonestAs(status, indicator) /\ HonestList(Me, GetBnNeighbors(nb))

\* ConnectorStays: a node that would join to connect two parts of the backbone
\* would not quit on the same view of its neighbours.  The two decisions are
\* separate code (HandlePushJoin and HandleJoinAmDuplex, and the three
\* HeartBeat_Pushjoin_Anchors); if they disagreed, the node would leave and
\* rejoin at every long timer.
ConnectorStays == Connects(nb, weight) => ~MayQuit(nb, weight)

\* QuitKeepsClients: when the node quits, no regular node depends on it, and
\* every candidate that does hears another backbone node.  The code counts a
\* list that may hold this node itself.
QuitKeepsClients ==
  [][status = "NEIGH" /\ status' # "NEIGH" =>
       /\ Clients(nb', "RN") = {}
       /\ \A c \in Clients(nb', "CORE") : Bn(nb', c) \ {Me} # {}]_vars

\* AssociatesUpwards: a node outside the backbone that picks a node to associate with
\* picks a listed one, no other of which has a higher status or,
\* with the same status, a greater weight.
Rank(s) == CASE s = "NEIGH" -> 3 [] s = "CORE" -> 2 [] s = "RN" -> 1
AssociatesUpwards ==
  [][assoc' # assoc =>
       /\ assoc' \in DOMAIN nb'
       /\ \A n \in DOMAIN nb' :
            \/ Rank(nb'[n].status) < Rank(nb'[assoc'].status)
            \/ /\ nb'[n].status = nb'[assoc'].status
               /\ nb'[n].weight <= nb'[assoc'].weight]_vars

\* LossesReported: a neighbour leaves the list exactly when the event reports
\* its link as broken, on which the routes over it are invalidated; and
\* neighbours that are heard, not overdue and reachable stay.
LossesReported ==
  [][/\ DOMAIN nb \ DOMAIN nb' = broken'
     /\ \A n \in broken' : \/ ~nb[n].live
                           \/ nb[n].heard < MinHello
                           \/ n \in Peer /\ ProcessTxError(n)]_vars

\* SilentLeave: a node that stops sending HELLOs leaves the list again and
\* again, however much data traffic puts it back; the list's own purge timer
\* stops when the list is empty, and data traffic refreshes lifetimes, so that
\* only PurgeHello sees to it.
SilentLeave == \A n \in Listable : []<>(n \notin DOMAIN nb)

-----------------------------------------------------------------------------
(* What comments in the source say and the code does not do. *)

\* TwoHopPurged: Purge is to remove all expired entries.  It copies each
\* neighbour before it erases the neighbour's expired two-hop entries from the
\* list it is about to replace.
TwoHopPurged == [][Purge => \A n \in DOMAIN nb' : nb'[n].bn # {} => nb'[n].bnLive]_vars

=============================================================================
