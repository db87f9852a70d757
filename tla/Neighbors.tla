----------------------------- MODULE Neighbors -----------------------------
(***************************************************************************)
(* The neighbour list of a node (src/model/aodv-neighbor.cc) as operators  *)
(* on a function from the listed addresses to what is known of each.       *)
(* Everything here is pure: Backbone keeps the list in a variable.         *)
(*                                                                         *)
(* Times are abstracted to whether they have passed: "live" for the        *)
(* neighbour itself, "bnLive" for its two-hop neighbours, which were all   *)
(* learned from the same HELLO and expire together.  A tuple is "close"    *)
(* only within ProcessTxError, which purges it at once.  Addresses are     *)
(* numbers, as Ipv4Address::Get () has them; the order of the list is left *)
(* out, and GetBestNeighbor allows every order.                            *)
(***************************************************************************)
EXTENDS Integers, FiniteSets

CONSTANTS Peer,      \* the other nodes
          Me,        \* this node
          Nobody,    \* Ipv4Address (): the address of no node
          MinHello   \* HELLOs a neighbour must send in a long interval

ASSUME NodesAssumption ==
  /\ Peer \subseteq Nat \ {Me, Nobody}
  /\ Me \in Nat /\ Nobody \in Nat /\ Me # Nobody
ASSUME MinHelloAssumption == MinHello \in Nat

\* BCN and BN in the comments of the code are CORE and NEIGH here.
Status == {"RN", "CORE", "NEIGH"}
Indicator == {"BREAK", "ALLOW", "OTHER"}

TwoHop == [addr : Peer \cup {Me}, weight : Nat, indicator : Indicator]

Tuple == [weight : Nat, status : Status, indicator : Indicator, client : BOOLEAN,
          bn : SUBSET TwoHop,
          heard : 0..MinHello,    \* helloCounter, as far as MinHello
          live : BOOLEAN, bnLive : BOOLEAN]

\* Faulty variant: The indicator starts with the first value of its type.
NewTupleBreak == [weight |-> 0, status |-> "CORE", indicator |-> "BREAK", client |-> FALSE,
                  bn |-> {}, heard |-> 0, live |-> TRUE, bnLive |-> TRUE]

\* The constructor: nothing is known of the neighbour yet.
NewTuple == [weight |-> 0, status |-> "CORE", indicator |-> "OTHER", client |-> FALSE,
             bn |-> {}, heard |-> 0, live |-> TRUE, bnLive |-> TRUE]

Only(L, S) == [n \in S |-> L[n]]

Overdue(L) == {n \in DOMAIN L : ~L[n].live}

\* Faulty variant: An expired neighbour stays.
PurgeNothing(L) == L

\* Purge: neighbours whose time has passed go.  Two-hop neighbours whose time
\* has passed are erased from the old list only, after the copy was made.
PurgeList(L) == Only(L, DOMAIN L \ Overdue(L))

Unheard(L) == {n \in DOMAIN L : L[n].heard < MinHello}

\* Faulty variant: Silence is not held against a neighbour.
PurgeHelloNothing(L) == L

\* PurgeHello: neighbours with too few HELLOs go.
PurgeHello(L) == Only(L, DOMAIN L \ Unheard(L))

ResetHelloCounter(L) == [n \in DOMAIN L |-> [L[n] EXCEPT !.heard = 0]]

With(L, n, tuple) == [m \in DOMAIN L \cup {n} |-> IF m = n THEN tuple ELSE L[m]]

\* Update, after data was exchanged with n: a listed neighbour is refreshed, an
\* unlisted one is added, and only then the list is purged.
Update(L, n) ==
  IF n \in DOMAIN L THEN With(L, n, [L[n] EXCEPT !.live = TRUE])
  ELSE PurgeList(With(L, n, NewTuple))

\* UpdateNeighborTuple, UpdateMulticastNeighborTuple and Update, after a HELLO.
LearnHello(L, n, h) ==
  LET old == IF n \in DOMAIN L THEN L[n].heard ELSE 0
  IN  With(L, n, [weight |-> h.weight, status |-> h.status, indicator |-> h.indicator,
                  client |-> h.client, bn |-> h.bn,
                  heard |-> IF old < MinHello THEN old + 1 ELSE MinHello,
                  live |-> TRUE, bnLive |-> TRUE])

-----------------------------------------------------------------------------
(* Queries. *)

OneHop(L, s) == {n \in DOMAIN L : L[n].status = s}

Clients(L, s) == {n \in OneHop(L, s) : L[n].client}

\* GetMulticastNeighbors: the backbone nodes n said it hears.
Bn(L, n) == {t.addr : t \in L[n].bn}

\* The backbone nodes that a HELLO names.
GetBnNeighbors(L) ==
  {[addr |-> n, weight |-> L[n].weight, indicator |-> L[n].indicator] :
     n \in OneHop(L, "NEIGH")}

Pairs(S, T) == {p \in S \X T : p[1] # p[2]}

Are1Hop(L, v, w) == w \in Bn(L, v) \/ v \in Bn(L, w)

Are2Hop(L, v, w) == Bn(L, v) \cap Bn(L, w) # {}

\* operator > of two neighbours.  It leaves two neighbours of the same weight
\* unordered if one indicator is ALLOW and the other is OTHER.
Better(L, m, n) ==
  \/ L[m].weight > L[n].weight
  \/ /\ L[m].weight = L[n].weight
     /\ \/ L[m].indicator = "BREAK" /\ L[n].indicator # "BREAK"
        \/ L[m].indicator = L[n].indicator /\ m > n

\* What GetBestNeighbor may return: with unordered neighbours it depends on
\* the order of the list.
Best(L, s) == {n \in OneHop(L, s) : \A m \in OneHop(L, s) : ~Better(L, m, n)}

=============================================================================
