------------------------------ MODULE Election ------------------------------
(***************************************************************************)
(* The rules by which a node joins and quits the backbone                  *)
(* (src/model/aodv-routing-protocol.cc from AssociationAlgorithm on), as   *)
(* predicates of its neighbour list L and its own weight w.  Loops over    *)
(* pairs that stop at the first hit are quantifiers; a Groups list that is *)
(* only asked whether it is empty is a set.                                *)
(***************************************************************************)
EXTENDS Neighbors

CONSTANTS Rule1, Rule2    \* attributes: conversion rules on or off

ASSUME RulesAssumption == Rule1 \in BOOLEAN /\ Rule2 \in BOOLEAN

HigherWeight(L, w, n) == w > L[n].weight \/ (w = L[n].weight /\ Me > n)

HigherThanTwoHop(w, t) == w > t.weight \/ (w = t.weight /\ Me > t.addr)

\* AssociationAlgorithm: the best neighbour of the best status there is.
Candidates(L) ==
  IF OneHop(L, "NEIGH") # {} THEN Best(L, "NEIGH")
  ELSE IF OneHop(L, "CORE") # {} THEN Best(L, "CORE")
  ELSE Best(L, "RN")

\* HandlePushJoinNonDC: v and w are linked through two other backbone
\* neighbours that hear each other.
LinkedByTwo(L, v, w) ==
  \E p \in Pairs(OneHop(L, "NEIGH"), OneHop(L, "NEIGH")) :
    /\ Are1Hop(L, p[1], p[2])
    /\ {p[1], p[2]} \cap {v, w} = {}
    /\ \/ p[1] \in Bn(L, w) /\ p[2] \in Bn(L, v)
       \/ p[2] \in Bn(L, w) /\ p[1] \in Bn(L, v)

\* The ways in which a pair is linked without this node.
Linked(L, v, w) ==
  Are1Hop(L, v, w) \/ Are2Hop(L, v, w) \/ (Rule1 /\ LinkedByTwo(L, v, w))

-----------------------------------------------------------------------------
(* Joining. *)

\* HandleJoin: no backbone neighbour and a better weight than every other
\* candidate, or a client.  Candidates all have the indicator OTHER, so that
\* the best one is unique.
HandleJoin(L, w) ==
  \/ OneHop(L, "NEIGH") = {} /\ \E n \in Best(L, "CORE") : HigherWeight(L, w, n)
  \/ Clients(L, "CORE") # {} \/ Clients(L, "RN") # {}

\* HandlePushJoin: two backbone neighbours are not linked, and no other
\* candidate with a better weight hears both.
HandlePushJoin(L, w) ==
  \E p \in Pairs(OneHop(L, "NEIGH"), OneHop(L, "NEIGH")) :
    /\ ~Linked(L, p[1], p[2])
    /\ ~\E x \in OneHop(L, "CORE") :
          Are1Hop(L, x, p[1]) /\ Are1Hop(L, x, p[2]) /\ ~HigherWeight(L, w, x)

\* HandleJoinAmDuplex, with HandleJoinAmNotDuplex: a backbone neighbour and a
\* candidate that hears another one are not linked, and no other candidate
\* with a better weight could link them.
HandleJoinAmDuplex(L, w) ==
  \E p \in Pairs(OneHop(L, "NEIGH"), OneHop(L, "CORE")) :
    /\ ~Linked(L, p[1], p[2])
    /\ Bn(L, p[2]) # {}
    /\ ~\E x \in OneHop(L, "CORE") \ {p[2]} :
          p[1] \in Bn(L, x) /\ Are2Hop(L, x, p[2]) /\ ~HigherWeight(L, w, x)

\* The joining rules that are there to connect parts of the backbone.
Connects(L, w) == HandlePushJoin(L, w) \/ HandleJoinAmDuplex(L, w)

-----------------------------------------------------------------------------
(* Quitting. *)

\* Faulty variant: One backbone neighbour, which may be this node, is enough.
ClientsServedByOne(L) ==
  /\ Clients(L, "RN") = {}
  /\ \A c \in Clients(L, "CORE") : Cardinality(L[c].bn) >= 1

\* HeartBeat_Pushjoin_Anchors_1: no client depends on this node.
ClientsServed(L) ==
  /\ Clients(L, "RN") = {}
  /\ \A c \in Clients(L, "CORE") : Cardinality(L[c].bn) > 1

\* HeartBeat_Pushjoin_Anchors_2a and _3a: the pair hear each other, and a
\* better one of the two, or one that may not quit, will keep the link.
DirectlyKept(L, w, v, u, keepers) ==
  /\ Are1Hop(L, v, u)
  /\ \E n \in keepers : ~HigherWeight(L, w, n) \/ L[n].indicator = "BREAK"

\* Faulty variant: Any backbone node that both hear will do, however low.
IndirectlyKeptByAny(L, w, v, u) ==
  \E t \in L[v].bn : t.addr \in Bn(L, u) /\ t.addr # Me

\* Faulty variant: The node counts on itself.
IndirectlyKeptByMe(L, w, v, u) ==
  \E t \in L[v].bn :
    t.addr \in Bn(L, u) /\ (~HigherThanTwoHop(w, t) \/ t.indicator = "BREAK")

\* _2b and _3b: so will a backbone node that both hear, as v describes it.
IndirectlyKept(L, w, v, u) ==
  \E t \in L[v].bn :
    /\ t.addr \in Bn(L, u) /\ t.addr # Me
    /\ ~HigherThanTwoHop(w, t) \/ t.indicator = "BREAK"

Kept(L, w, v, u, keepers) ==
  \/ DirectlyKept(L, w, v, u, keepers)
  \/ IndirectlyKept(L, w, v, u)
  \/ Rule1 /\ LinkedByTwo(L, v, u)

\* Faulty variant: Backbone neighbours that are not linked are overlooked.
BackboneKeptIfHeard(L, w) ==
  \A p \in Pairs(OneHop(L, "NEIGH"), OneHop(L, "NEIGH")) :
    Are1Hop(L, p[1], p[2]) => Kept(L, w, p[1], p[2], {p[1], p[2]})

\* _2: every two backbone neighbours stay linked without this node.
BackboneKept(L, w) ==
  \A p \in Pairs(OneHop(L, "NEIGH"), OneHop(L, "NEIGH")) :
    Kept(L, w, p[1], p[2], {p[1], p[2]})

\* _3: so do every backbone neighbour and every candidate.
CandidatesKept(L, w) ==
  \A p \in Pairs(OneHop(L, "NEIGH"), OneHop(L, "CORE")) :
    Kept(L, w, p[1], p[2], {p[1]})

\* HeartBeat_Pushjoin_Anchors: the node is not needed in the backbone.
MayQuit(L, w) == ClientsServed(L) /\ BackboneKept(L, w) /\ CandidatesKept(L, w)

\* The indicator of a node that stays in the backbone.
StayIndicator(L) == IF ClientsServed(L) THEN "ALLOW" ELSE "BREAK"

=============================================================================
