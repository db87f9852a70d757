--------------------------- MODULE BackboneProofs ---------------------------
(***************************************************************************)
(* Proofs about Backbone, for every set of nodes, every HELLO a node of    *)
(* this protocol may send, every weight function and both rules on or off. *)
(***************************************************************************)
EXTENDS Backbone, FiniteSetTheorems, TLAPS

-----------------------------------------------------------------------------
(* The rules agree with each other. *)

\* A pair that is not linked is not kept by anybody else: the two decisions
\* look at the same links.
LEMMA NotLinkedNotKept ==
  ASSUME NEW L, NEW w, NEW v, NEW u, NEW keepers, ~Linked(L, v, u)
  PROVE  ~Kept(L, w, v, u, keepers)
<1>1. ~DirectlyKept(L, w, v, u, keepers)
  BY DEF Linked, DirectlyKept
<1>2. ~IndirectlyKept(L, w, v, u)
  BY DEF Linked, Are2Hop, Bn, IndirectlyKept
<1>3. QED BY <1>1, <1>2 DEF Linked, Kept

LEMMA ConnectingNodeStays ==
  ASSUME NEW L, NEW w, Connects(L, w)
  PROVE  ~MayQuit(L, w)
<1>1. CASE HandlePushJoin(L, w)
  <2>1. PICK p \in Pairs(OneHop(L, "NEIGH"), OneHop(L, "NEIGH")) : ~Linked(L, p[1], p[2])
    BY <1>1 DEF HandlePushJoin
  <2>2. ~Kept(L, w, p[1], p[2], {p[1], p[2]})
    BY <2>1, NotLinkedNotKept
  <2>3. QED BY <2>2 DEF BackboneKept, MayQuit
<1>2. CASE HandleJoinAmDuplex(L, w)
  <2>1. PICK p \in Pairs(OneHop(L, "NEIGH"), OneHop(L, "CORE")) : ~Linked(L, p[1], p[2])
    BY <1>2 DEF HandleJoinAmDuplex
  <2>2. ~Kept(L, w, p[1], p[2], {p[1]})
    BY <2>1, NotLinkedNotKept
  <2>3. QED BY <2>2 DEF CandidatesKept, MayQuit
<1>3. QED BY <1>1, <1>2 DEF Connects

\* ConnectorsStay: on no view of its neighbours does a node both see a need to
\* join as a connector and a chance to quit.
THEOREM ConnectorsStay == Spec => []ConnectorStays
<1>1. ConnectorStays
  BY ConnectingNodeStays DEF ConnectorStays
<1>2. QED BY <1>1, PTL

-----------------------------------------------------------------------------
(* The invariant. *)

\* A neighbour n as a HELLO or data traffic leaves it.  No HELLO comes from
\* the address of no node.
HonestTuple(n, e) ==
  /\ e \in Tuple
  /\ HonestAs(e.status, e.indicator)
  /\ HonestList(n, e.bn)
  /\ n = Nobody => e.status = "CORE"

GoodList(L) ==
  /\ DOMAIN L \subseteq Listable
  /\ \A n \in DOMAIN L : HonestTuple(n, L[n])

OwnOK ==
  /\ HonestAs(status, indicator)
  /\ assoc \in Listable
  /\ weight \in Nat /\ currentBn \in Nat
  /\ broken \subseteq Listable
  /\ hellos \in 0..MaxHellos

IInv == GoodList(nb) /\ OwnOK

LEMMA ListableFinite ==
  /\ IsFiniteSet(Listable)
  /\ \A S \in SUBSET Listable : IsFiniteSet(S) /\ Cardinality(S) \in Nat
<1>1. IsFiniteSet(Peer)
  BY AttributesAssumption
<1>2. Listable = Peer \cup {Nobody}
  BY DEF Listable
<1>3. IsFiniteSet(Listable)
  BY <1>1, <1>2, FS_AddElement
<1>4. QED BY <1>3, FS_Subset, FS_CardinalityType

LEMMA OneHopCount ==
  ASSUME NEW L, GoodList(L), NEW s
  PROVE  Cardinality(OneHop(L, s)) \in Nat /\ Cardinality(DOMAIN L) \in Nat
BY ListableFinite DEF GoodList, OneHop

LEMMA NewTupleHonest ==
  ASSUME NEW n
  PROVE  HonestTuple(n, NewTuple)
<1>1. IsFiniteSet({})
  BY FS_EmptySet
<1>2. NewTuple \in Tuple
  BY MinHelloAssumption DEF NewTuple, Tuple, Status, Indicator
<1>3. QED BY <1>1, <1>2 DEF HonestTuple, HonestAs, HonestList, NewTuple, Status, Indicator

LEMMA OnlyGood ==
  ASSUME NEW L, GoodList(L), NEW S \in SUBSET (DOMAIN L)
  PROVE  GoodList(Only(L, S))
BY DEF GoodList, Only

LEMMA PurgeGood ==
  ASSUME NEW L, GoodList(L)
  PROVE  GoodList(PurgeList(L)) /\ GoodList(PurgeHello(L))
BY OnlyGood DEF PurgeList, PurgeHello

LEMMA WithGood ==
  ASSUME NEW L, GoodList(L), NEW n \in Listable, NEW e, HonestTuple(n, e)
  PROVE  GoodList(With(L, n, e))
BY DEF GoodList, With

LEMMA LiveFlag ==
  ASSUME NEW n, NEW e, HonestTuple(n, e), NEW b \in BOOLEAN
  PROVE  /\ HonestTuple(n, [e EXCEPT !.live = b])
         /\ HonestTuple(n, [e EXCEPT !.bnLive = b])
BY DEF HonestTuple, HonestAs, Tuple

LEMMA ResetGood ==
  ASSUME NEW L, GoodList(L)
  PROVE  GoodList(ResetHelloCounter(L))
<1>1. ASSUME NEW n, NEW e, HonestTuple(n, e)
      PROVE  HonestTuple(n, [e EXCEPT !.heard = 0])
  BY <1>1, MinHelloAssumption DEF HonestTuple, HonestAs, Tuple
<1>2. QED BY <1>1 DEF GoodList, ResetHelloCounter

LEMMA UpdateGood ==
  ASSUME NEW L, GoodList(L), NEW n \in Listable
  PROVE  GoodList(Update(L, n))
<1>1. CASE n \in DOMAIN L
  <2>1. HonestTuple(n, [L[n] EXCEPT !.live = TRUE])
    BY <1>1, LiveFlag DEF GoodList
  <2>2. QED BY <1>1, <2>1, WithGood DEF Update
<1>2. CASE n \notin DOMAIN L
  <2>1. GoodList(With(L, n, NewTuple))
    BY NewTupleHonest, WithGood
  <2>2. QED BY <1>2, <2>1, PurgeGood DEF Update
<1>3. QED BY <1>1, <1>2

LEMMA LearnGood ==
  ASSUME NEW L, GoodList(L), NEW h \in Hello
  PROVE  GoodList(LearnHello(L, h.from, h))
<1> DEFINE old == IF h.from \in DOMAIN L THEN L[h.from].heard ELSE 0
           e == [weight |-> h.weight, status |-> h.status, indicator |-> h.indicator,
                 client |-> h.client, bn |-> h.bn,
                 heard |-> IF old < MinHello THEN old + 1 ELSE MinHello,
                 live |-> TRUE, bnLive |-> TRUE]
<1>1. /\ h \in HelloType /\ HonestAs(h.status, h.indicator) /\ HonestList(h.from, h.bn)
      /\ h.from \in Listable /\ h.from # Nobody
  BY HelloAssumption, NodesAssumption DEF HelloType, Listable
<1>2. old \in 0..MinHello
  BY MinHelloAssumption DEF GoodList, HonestTuple, Tuple
<1>3. (IF old < MinHello THEN old + 1 ELSE MinHello) \in 0..MinHello
  BY <1>2, MinHelloAssumption
<1>4. e \in Tuple
  BY <1>1, <1>3 DEF Tuple, HelloType
<1>5. HonestTuple(h.from, e)
  BY <1>1, <1>4 DEF HonestTuple
<1>6. LearnHello(L, h.from, h) = With(L, h.from, e)
  BY DEF LearnHello
<1>7. QED BY <1>1, <1>5, <1>6, WithGood

\* What a node tells of a list it has from HELLOs is itself fit for a HELLO.
LEMMA ToldListHonest ==
  ASSUME NEW L, GoodList(L)
  PROVE  HonestList(Me, GetBnNeighbors(L))
<1> DEFINE B == OneHop(L, "NEIGH")
           Told(n) == [addr |-> n, weight |-> L[n].weight, indicator |-> L[n].indicator]
<1>1. B \subseteq DOMAIN L /\ B \subseteq Listable
  BY DEF OneHop, GoodList
<1>2. B \subseteq Peer
  BY <1>1 DEF OneHop, GoodList, HonestTuple, Listable
<1>3. IsFiniteSet(B)
  BY <1>1, ListableFinite
<1>4. GetBnNeighbors(L) = {Told(n) : n \in B}
  BY DEF GetBnNeighbors
<1>5. \A n \in B : Told(n) \in TwoHop
  BY <1>1, <1>2 DEF TwoHop, GoodList, HonestTuple, Tuple
<1>6. IsFiniteSet({Told(n) : n \in B})
  <2> DEFINE f == [n \in B |-> Told(n)]
  <2>1. f \in Surjection(B, {Told(n) : n \in B})
    <3> HIDE DEF Told, B
    <3>1. QED BY DEF Surjection
  <2>2. QED BY <1>3, <2>1, FS_Surjection
<1>7. QED BY <1>2, <1>4, <1>5, <1>6, NodesAssumption DEF HonestList

LEMMA IInvTypeOK == IInv => TypeOK /\ HonestHello
BY ToldListHonest DEF IInv, GoodList, HonestTuple, OwnOK, HonestHello, HonestAs, TypeOK

LEMMA WeightType ==
  ASSUME NEW L, GoodList(L), IInv, UpdateLocalWeight(L)
  PROVE  weight' \in Nat
<1>1. Cardinality(OneHop(L, "NEIGH")) \in Nat /\ Cardinality(DOMAIN L) \in Nat
  BY OneHopCount
<1>2. QED BY <1>1, NodesAssumption, AttributesAssumption DEF UpdateLocalWeight, IInv, OwnOK

LEMMA CountType ==
  ASSUME NEW L, GoodList(L), UpdateLocalLastBnNeighbors(L)
  PROVE  currentBn' \in Nat
BY OneHopCount DEF UpdateLocalLastBnNeighbors

LEMMA AssociatesWithListed ==
  ASSUME NEW L, AssociationAlgorithm(L)
  PROVE  assoc' = assoc \/ assoc' \in DOMAIN L
<1>1. Candidates(L) \subseteq DOMAIN L
  BY DEF Candidates, Best, OneHop
<1>2. QED BY <1>1 DEF AssociationAlgorithm

LEMMA InitIInv == Init => IInv
<1> SUFFICES ASSUME Init PROVE IInv
  OBVIOUS
<1>1. GoodList(nb)
  BY DEF Init, GoodList
<1>2. HonestAs(status, indicator)
  BY AttributesAssumption DEF Init, HonestAs, Status, Indicator
<1>3. OwnOK
  BY <1>2, AttributesAssumption, MaxHellosAssumption DEF Init, OwnOK, NoCORE, Listable
<1>4. QED BY <1>1, <1>3 DEF IInv

LEMMA ShortTimerIInv == IInv /\ ShortTimerExpire => IInv'
<1> SUFFICES ASSUME IInv, ShortTimerExpire PROVE IInv'
  OBVIOUS
<1>1. nb' = nb /\ GoodList(nb)
  BY DEF ShortTimerExpire, IInv
<1>2. weight' \in Nat /\ currentBn' \in Nat
  BY <1>1, WeightType, CountType DEF ShortTimerExpire
<1>3. QED BY <1>1, <1>2 DEF ShortTimerExpire, IInv, OwnOK, HonestAs, GoodList

\* The list the long timer decides on.
Remaining == PurgeList(PurgeHello(nb))

LEMMA LongTimerIInv == IInv /\ LongTimerExpire => IInv'
<1> SUFFICES ASSUME IInv, LongTimerExpire PROVE IInv'
  OBVIOUS
<1>1. GoodList(nb) /\ GoodList(PurgeHello(nb)) /\ GoodList(Remaining)
  BY PurgeGood DEF IInv, Remaining
<1>2. GoodList(nb')
  <2>1. nb' = ResetHelloCounter(Remaining)
    BY DEF LongTimerExpire, Remaining
  <2>2. GoodList(ResetHelloCounter(Remaining))
    BY <1>1, ResetGood
  <2>3. QED BY <2>1, <2>2
<1>3. weight' \in Nat /\ currentBn' \in Nat
  BY <1>1, WeightType, CountType DEF LongTimerExpire, Remaining
<1>4. broken' \subseteq Listable
  BY <1>1 DEF LongTimerExpire, Unheard, Overdue, GoodList
<1>5. assoc' \in Listable
  <2>1. DOMAIN Remaining \subseteq Listable /\ assoc \in Listable
    BY <1>1 DEF GoodList, IInv, OwnOK
  <2>2. assoc' = assoc \/ AssociationAlgorithm(Remaining)
    BY DEF LongTimerExpire, HeartBeat_Pushjoin_Anchors, Remaining
  <2>3. QED BY <2>1, <2>2, AssociatesWithListed
<1>6. HonestAs(status, indicator)'
  BY DEF LongTimerExpire, Joining_Quitting_Mechanism, HeartBeat_Pushjoin_Anchors,
     StayIndicator, IInv, OwnOK, HonestAs, Status, Indicator
<1>7. hellos' = hellos
  BY DEF LongTimerExpire
<1>8. QED BY <1>2, <1>3, <1>4, <1>5, <1>6, <1>7 DEF IInv, OwnOK, GoodList

\* The events of the list leave the node's own variables alone.
LEMMA ListEventIInv ==
  ASSUME IInv, UNCHANGED ownVars, GoodList(nb'), broken' \subseteq Listable,
         hellos' \in 0..MaxHellos
  PROVE  IInv'
<1>1. HonestAs(status, indicator)' /\ assoc' = assoc /\ weight' = weight /\ currentBn' = currentBn
  BY DEF IInv, OwnOK, HonestAs, ownVars
<1>2. QED BY <1>1 DEF IInv, OwnOK, GoodList

LEMMA NextIInv == IInv /\ [Next]_vars => IInv'
<1> SUFFICES ASSUME IInv, [Next]_vars PROVE IInv'
  OBVIOUS
<1>1. GoodList(nb) /\ hellos \in 0..MaxHellos /\ DOMAIN nb \subseteq Listable
  BY DEF IInv, OwnOK, GoodList
<1>2. Overdue(nb) \subseteq Listable
  BY <1>1 DEF Overdue
<1>3. ASSUME NEW h \in Hello, RecvHello(h)
      PROVE  IInv'
  <2>1. GoodList(nb')
    BY <1>1, <1>3, LearnGood DEF RecvHello
  <2>2. hellos' \in 0..MaxHellos
    BY <1>1, <1>3, MaxHellosAssumption DEF RecvHello
  <2>3. QED BY <1>3, <2>1, <2>2, ListEventIInv DEF RecvHello
<1>4. ASSUME NEW n \in Traffic, DataTraffic(n)
      PROVE  IInv'
  <2>1. GoodList(nb')
    BY <1>1, <1>4, UpdateGood, AttributesAssumption DEF DataTraffic, Listable
  <2>2. QED BY <1>1, <1>2, <1>4, <2>1, ListEventIInv DEF DataTraffic
<1>5. ASSUME Purge
      PROVE  IInv'
  <2>1. GoodList(nb')
    BY <1>1, <1>5, PurgeGood DEF Purge
  <2>2. QED BY <1>1, <1>2, <1>5, <2>1, ListEventIInv DEF Purge
<1>6. ASSUME NEW n \in DOMAIN nb, NEW b \in BOOLEAN
      PROVE  /\ GoodList([nb EXCEPT ![n].live = b])
             /\ GoodList([nb EXCEPT ![n].bnLive = b])
  BY <1>1, LiveFlag DEF GoodList
<1>7. ASSUME NEW n \in Peer, ProcessTxError(n)
      PROVE  IInv'
  <2>1. GoodList(nb')
    BY <1>6, <1>7, PurgeGood DEF ProcessTxError
  <2>2. n \in Listable
    BY DEF Listable
  <2>3. QED BY <1>1, <1>2, <1>7, <2>1, <2>2, ListEventIInv DEF ProcessTxError
<1>8. ASSUME NEW n, LifetimePasses(n) \/ BnLifetimePasses(n)
      PROVE  IInv'
  <2>1. GoodList(nb')
    BY <1>6, <1>8 DEF LifetimePasses, BnLifetimePasses
  <2>2. QED BY <1>1, <1>8, <2>1, ListEventIInv DEF LifetimePasses, BnLifetimePasses
<1>9. CASE UNCHANGED vars
  BY <1>9 DEF vars, ownVars, IInv, OwnOK, HonestAs, GoodList
<1>10. QED BY <1>3, <1>4, <1>5, <1>7, <1>8, <1>9, ShortTimerIInv, LongTimerIInv DEF Next

LEMMA Invariance == Spec => []IInv
BY InitIInv, NextIInv, PTL DEF Spec

\* BackboneTypeCorrect: every reachable state is well typed, and what the list
\* holds is what a node of this protocol can have sent.
THEOREM BackboneTypeCorrect == Spec => []TypeOK
BY Invariance, IInvTypeOK, PTL

\* HelloStaysHonest: this node's own HELLOs, with the list of backbone nodes they
\* carry, are of the kind it assumes of others: in a network of such nodes the
\* assumption is met by all.
THEOREM HelloStaysHonest == Spec => []HonestHello
BY Invariance, IInvTypeOK, PTL

-----------------------------------------------------------------------------
(* What the long timer may do. *)

LEMMA ResetKeeps ==
  ASSUME NEW L, GoodList(L)
  PROVE  /\ DOMAIN ResetHelloCounter(L) = DOMAIN L
         /\ \A s : OneHop(ResetHelloCounter(L), s) = OneHop(L, s)
         /\ \A s : Clients(ResetHelloCounter(L), s) = Clients(L, s)
         /\ \A n \in DOMAIN L :
              /\ Bn(ResetHelloCounter(L), n) = Bn(L, n)
              /\ ResetHelloCounter(L)[n].weight = L[n].weight
              /\ ResetHelloCounter(L)[n].status = L[n].status
<1> DEFINE R == ResetHelloCounter(L)
<1>1. DOMAIN R = DOMAIN L
  BY DEF ResetHelloCounter
<1>2. ASSUME NEW n \in DOMAIN L
      PROVE  /\ R[n].weight = L[n].weight /\ R[n].status = L[n].status
             /\ R[n].client = L[n].client /\ R[n].bn = L[n].bn
  <2>1. L[n] \in Tuple
    BY DEF GoodList, HonestTuple
  <2>2. QED BY <2>1 DEF ResetHelloCounter, Tuple
<1> HIDE DEF R
<1>3. \A s : OneHop(R, s) = OneHop(L, s)
  BY <1>1, <1>2 DEF OneHop
<1>4. \A s : Clients(R, s) = Clients(L, s)
  BY <1>2, <1>3 DEF Clients, OneHop
<1>5. QED BY <1>1, <1>2, <1>3, <1>4 DEF Bn, R

\* Only the long timer changes the node's status or whom it associates with.
LEMMA OnlyLongTimerDecides ==
  ASSUME [Next]_vars, status' # status \/ assoc' # assoc
  PROVE  LongTimerExpire
BY DEF Next, vars, ownVars, ShortTimerExpire, RecvHello, DataTraffic, Purge, ProcessTxError,
   LifetimePasses, BnLifetimePasses

\* A list of more than one honest two-hop entries names somebody besides Me.
LEMMA MoreThanMe ==
  ASSUME NEW n, NEW bn, HonestList(n, bn), Cardinality(bn) > 1
  PROVE  \E t \in bn : t.addr # Me
<1> SUFFICES ASSUME \A t \in bn : t.addr = Me
             PROVE  Cardinality(bn) = 0 \/ Cardinality(bn) = 1
  BY FS_CardinalityType DEF HonestList
<1>1. CASE bn = {}
  BY <1>1, FS_EmptySet
<1>2. CASE bn # {}
  <2>1. PICK t : t \in bn
    BY <1>2
  <2>2. bn = {t}
    BY <2>1 DEF HonestList
  <2>3. QED BY <2>2, FS_Singleton
<1>3. QED BY <1>1, <1>2

LEMMA QuitStep ==
  ASSUME IInv, [Next]_vars, status = "NEIGH", status' # "NEIGH"
  PROVE  /\ Clients(nb', "RN") = {}
         /\ \A c \in Clients(nb', "CORE") : Bn(nb', c) \ {Me} # {}
<1>1. LongTimerExpire
  BY OnlyLongTimerDecides
<1>2. nb' = ResetHelloCounter(Remaining)
  BY <1>1 DEF LongTimerExpire, Remaining
<1>3. ClientsServed(Remaining)
  BY <1>1 DEF LongTimerExpire, HeartBeat_Pushjoin_Anchors, MayQuit, Remaining
<1>4. GoodList(Remaining)
  BY PurgeGood DEF IInv, Remaining
<1>5. ASSUME NEW c \in Clients(Remaining, "CORE")
      PROVE  Bn(Remaining, c) \ {Me} # {}
  <2>1. HonestList(c, Remaining[c].bn) /\ Cardinality(Remaining[c].bn) > 1
    BY <1>3, <1>4 DEF ClientsServed, GoodList, HonestTuple, Clients, OneHop
  <2>2. QED BY <2>1, MoreThanMe DEF Bn
<1>6. Clients(Remaining, "CORE") \subseteq DOMAIN Remaining
  BY DEF Clients, OneHop
<1>7. QED BY <1>2, <1>3, <1>4, <1>5, <1>6, ResetKeeps DEF ClientsServed

\* ClientsKept: whatever the views and the weights, a node quits the backbone
\* only when each of its clients hears another backbone node.
THEOREM ClientsKept == Spec => QuitKeepsClients
<1>1. IInv /\ [Next]_vars =>
        [status = "NEIGH" /\ status' # "NEIGH" =>
           /\ Clients(nb', "RN") = {}
           /\ \A c \in Clients(nb', "CORE") : Bn(nb', c) \ {Me} # {}]_vars
  BY QuitStep
<1>2. QED BY <1>1, Invariance, PTL DEF Spec, QuitKeepsClients

LEMMA BestIsHeaviest ==
  ASSUME NEW L, GoodList(L), NEW s, NEW n \in Best(L, s), NEW m \in OneHop(L, s)
  PROVE  L[m].weight <= L[n].weight
<1>1. L[m].weight \in Nat /\ L[n].weight \in Nat
  BY DEF Best, OneHop, GoodList, HonestTuple, Tuple
<1>2. QED BY <1>1 DEF Best, Better

LEMMA CandidatesRank ==
  ASSUME NEW L, GoodList(L), NEW b \in Candidates(L), NEW n \in DOMAIN L
  PROVE  /\ b \in DOMAIN L
         /\ \/ Rank(L[n].status) < Rank(L[b].status)
            \/ L[n].status = L[b].status /\ L[n].weight <= L[b].weight
<1>1. L[n].status \in Status /\ n \in OneHop(L, L[n].status)
  BY DEF GoodList, HonestTuple, Tuple, OneHop
<1>2. \A s : Best(L, s) \subseteq OneHop(L, s)
  BY DEF Best
<1>3. CASE OneHop(L, "NEIGH") # {}
  <2>1. b \in Best(L, "NEIGH") /\ L[b].status = "NEIGH" /\ b \in DOMAIN L
    BY <1>2, <1>3 DEF Candidates, OneHop
  <2>2. QED BY <1>1, <2>1, BestIsHeaviest DEF Rank, Status
<1>4. CASE OneHop(L, "NEIGH") = {} /\ OneHop(L, "CORE") # {}
  <2>1. b \in Best(L, "CORE") /\ L[b].status = "CORE" /\ b \in DOMAIN L
    BY <1>2, <1>4 DEF Candidates, OneHop
  <2>2. L[n].status # "NEIGH"
    BY <1>1, <1>4
  <2>3. QED BY <1>1, <2>1, <2>2, BestIsHeaviest DEF Rank, Status
<1>5. CASE OneHop(L, "NEIGH") = {} /\ OneHop(L, "CORE") = {}
  <2>1. b \in Best(L, "RN") /\ L[b].status = "RN" /\ b \in DOMAIN L
    BY <1>2, <1>5 DEF Candidates, OneHop
  <2>2. L[n].status = "RN"
    BY <1>1, <1>5 DEF Status
  <2>3. QED BY <1>1, <2>1, <2>2, BestIsHeaviest DEF Rank
<1>6. QED BY <1>3, <1>4, <1>5

LEMMA AssociationStep ==
  ASSUME IInv, [Next]_vars, assoc' # assoc
  PROVE  /\ assoc' \in DOMAIN nb'
         /\ \A n \in DOMAIN nb' :
              \/ Rank(nb'[n].status) < Rank(nb'[assoc'].status)
              \/ /\ nb'[n].status = nb'[assoc'].status
                 /\ nb'[n].weight <= nb'[assoc'].weight
<1>1. LongTimerExpire
  BY OnlyLongTimerDecides
<1>2. nb' = ResetHelloCounter(Remaining)
  BY <1>1 DEF LongTimerExpire, Remaining
<1>3. assoc' \in Candidates(Remaining)
  BY <1>1 DEF LongTimerExpire, HeartBeat_Pushjoin_Anchors, AssociationAlgorithm, Remaining
<1>4. GoodList(Remaining)
  BY PurgeGood DEF IInv, Remaining
<1>5. assoc' \in DOMAIN Remaining
  BY <1>3 DEF Candidates, Best, OneHop
<1>6. ASSUME NEW n \in DOMAIN Remaining
      PROVE  \/ Rank(Remaining[n].status) < Rank(Remaining[assoc'].status)
             \/ /\ Remaining[n].status = Remaining[assoc'].status
                /\ Remaining[n].weight <= Remaining[assoc'].weight
  BY <1>3, <1>4, CandidatesRank
<1>7. QED BY <1>2, <1>4, <1>5, <1>6, ResetKeeps

\* AssociationGoesUp: a node associates with a neighbour of the highest status
\* in its list, and the heaviest of them.
THEOREM AssociationGoesUp == Spec => AssociatesUpwards
<1>1. IInv /\ [Next]_vars =>
        [assoc' # assoc =>
           /\ assoc' \in DOMAIN nb'
           /\ \A n \in DOMAIN nb' :
                \/ Rank(nb'[n].status) < Rank(nb'[assoc'].status)
                \/ /\ nb'[n].status = nb'[assoc'].status
                   /\ nb'[n].weight <= nb'[assoc'].weight]_vars
  BY AssociationStep
<1>2. QED BY <1>1, Invariance, PTL DEF Spec, AssociatesUpwards

-----------------------------------------------------------------------------
(* Losses. *)

LEMMA LongTimerLosses ==
  ASSUME IInv, LongTimerExpire
  PROVE  /\ DOMAIN nb \ DOMAIN nb' = broken'
         /\ \A n \in broken' : ~nb[n].live \/ nb[n].heard < MinHello
<1> DEFINE heard == PurgeHello(nb)
<1>1. /\ DOMAIN heard = DOMAIN nb \ Unheard(nb)
      /\ \A n \in DOMAIN heard : heard[n] = nb[n]
  BY DEF PurgeHello, Only
<1>2. DOMAIN nb' = DOMAIN heard \ Overdue(heard)
  BY DEF LongTimerExpire, ResetHelloCounter, PurgeList, Only
<1>3. broken' = Unheard(nb) \cup Overdue(heard)
  BY DEF LongTimerExpire
<1> HIDE DEF heard
<1>4. Unheard(nb) \subseteq DOMAIN nb /\ Overdue(heard) \subseteq DOMAIN heard
  BY DEF Unheard, Overdue
<1>5. QED BY <1>1, <1>2, <1>3, <1>4 DEF Unheard, Overdue

LEMMA PurgeLosses ==
  ASSUME NEW L
  PROVE  /\ DOMAIN L \ DOMAIN PurgeList(L) = Overdue(L)
         /\ \A n \in Overdue(L) : ~L[n].live
BY DEF PurgeList, Overdue, Only

LEMMA UpdateLosses ==
  ASSUME NEW L, NEW n
  PROVE  DOMAIN L \ DOMAIN Update(L, n) = IF n \in DOMAIN L THEN {} ELSE Overdue(L)
<1>1. CASE n \in DOMAIN L
  BY <1>1 DEF Update, With
<1>2. CASE n \notin DOMAIN L
  <2> DEFINE M == With(L, n, NewTuple)
  <2>1. /\ DOMAIN M = DOMAIN L \cup {n} /\ M[n].live
        /\ \A m \in DOMAIN L : M[m] = L[m]
    BY <1>2 DEF With, NewTuple
  <2>2. Update(L, n) = PurgeList(M)
    BY <1>2 DEF Update
  <2> HIDE DEF M
  <2>3. Overdue(M) = Overdue(L)
    BY <1>2, <2>1 DEF Overdue
  <2>4. DOMAIN PurgeList(M) = DOMAIN M \ Overdue(M)
    BY DEF PurgeList, Only
  <2>5. n \notin DOMAIN L /\ Overdue(L) \subseteq DOMAIN L
    BY <1>2 DEF Overdue
  <2>6. QED BY <1>2, <2>1, <2>2, <2>3, <2>4, <2>5
<1>3. QED BY <1>1, <1>2

LEMMA TxErrorLosses ==
  ASSUME IInv, NEW n \in Peer, ProcessTxError(n)
  PROVE  /\ DOMAIN nb \ DOMAIN nb' = broken'
         /\ \A m \in broken' : ~nb[m].live \/ m = n
<1> DEFINE M == [nb EXCEPT ![n].live = FALSE]
<1>1. n \in DOMAIN nb /\ nb[n] \in Tuple
  BY DEF ProcessTxError, IInv, GoodList, HonestTuple
<1>2. /\ DOMAIN M = DOMAIN nb /\ M[n].live = FALSE
      /\ \A m \in DOMAIN nb \ {n} : M[m] = nb[m]
  BY <1>1 DEF Tuple
<1>3. nb' = PurgeList(M) /\ broken' = Overdue(nb) \cup {n}
  BY DEF ProcessTxError
<1> HIDE DEF M
<1>4. Overdue(M) = Overdue(nb) \cup {n}
  BY <1>1, <1>2 DEF Overdue
<1>5. QED BY <1>2, <1>3, <1>4, PurgeLosses DEF Overdue

LEMMA LossesStep ==
  ASSUME IInv, [Next]_vars, vars' # vars
  PROVE  /\ DOMAIN nb \ DOMAIN nb' = broken'
         /\ \A n \in broken' : \/ ~nb[n].live
                               \/ nb[n].heard < MinHello
                               \/ n \in Peer /\ ProcessTxError(n)
<1>1. CASE ShortTimerExpire
  BY <1>1 DEF ShortTimerExpire
<1>2. CASE LongTimerExpire
  BY <1>2, LongTimerLosses
<1>3. CASE \E h \in Hello : RecvHello(h)
  BY <1>3 DEF RecvHello, LearnHello, With
<1>4. CASE \E n \in Peer : ProcessTxError(n)
  BY <1>4, TxErrorLosses
<1>5. CASE \E n \in Traffic : DataTraffic(n)
  <2>1. PICK n \in Traffic : DataTraffic(n)
    BY <1>5
  <2>2. DOMAIN nb \ DOMAIN nb' = broken'
    BY <2>1, UpdateLosses DEF DataTraffic
  <2>3. broken' \subseteq Overdue(nb)
    BY <2>1 DEF DataTraffic
  <2>4. QED BY <2>2, <2>3, PurgeLosses
<1>6. CASE Purge
  BY <1>6, PurgeLosses DEF Purge
<1>7. CASE \E n : LifetimePasses(n) \/ BnLifetimePasses(n)
  <2>1. DOMAIN nb' = DOMAIN nb /\ broken' = {}
    BY <1>7 DEF LifetimePasses, BnLifetimePasses
  <2>2. QED BY <2>1
<1>8. QED BY <1>1, <1>2, <1>3, <1>4, <1>5, <1>6, <1>7 DEF Next

\* AllLossesReported: whatever happens to the list, the links reported as broken
\* are exactly those of the neighbours that leave it, and each has a reason.
THEOREM AllLossesReported == Spec => LossesReported
<1>1. IInv /\ [Next]_vars =>
        [/\ DOMAIN nb \ DOMAIN nb' = broken'
         /\ \A n \in broken' : \/ ~nb[n].live
                               \/ nb[n].heard < MinHello
                               \/ n \in Peer /\ ProcessTxError(n)]_vars
  BY LossesStep
<1>2. QED BY <1>1, Invariance, PTL DEF Spec, LossesReported

=============================================================================
