------------------------------ MODULE Network ------------------------------
(***************************************************************************)
(* Several nodes that run the rules of Election on each other, in a        *)
(* settled network: nobody moves, so that the links and the weights stay   *)
(* (every weight function but NODE_BNDEGREE), and no HELLO is lost.        *)
(*                                                                         *)
(* SetIpv4 schedules the long timer a millisecond before the short one,    *)
(* whose HELLO tells the neighbours at once what the node has decided:     *)
(* both are one step here.  That is so if no two neighbours draw starts    *)
(* (of 1 to 1000 ms) within that millisecond; a node thus knows what its   *)
(* neighbours are.  What it knows of their neighbours is as old as their   *)
(* last HELLO, and the long timers fire in any order: the decisions of a   *)
(* whole neighbourhood may rest on what was true before all of them.       *)
(***************************************************************************)
EXTENDS Integers, FiniteSets

CONSTANTS Node,          \* addresses
          Nobody,        \* Ipv4Address (): the address of no node
          Links,         \* pairs of nodes that hear each other
          Weight,        \* m_localWeight of each node
          InitStatus,    \* the attribute localNodeStatus of each node
          Rule1, Rule2   \* attributes: conversion rules on or off

\* The rules as node m applies them.
At(m) == INSTANCE Election WITH Peer <- Node \ {m}, Me <- m, MinHello <- 0

ASSUME NetworkAssumption ==
  /\ Node \subseteq Nat \ {Nobody} /\ IsFiniteSet(Node)
  /\ Nobody \in Nat
  /\ Links \subseteq {l \in Node \X Node : l[1] # l[2]}
  /\ \A m, n \in Node : <<m, n>> \in Links => <<n, m>> \in Links
  /\ Weight \in [Node -> Nat]
  /\ Rule1 \in BOOLEAN /\ Rule2 \in BOOLEAN
ASSUME InitStatusAssumption == InitStatus \in [Node -> {"RN", "CORE", "NEIGH"}]

VARIABLES
  status, indicator, assoc,  \* what each node is, and its last HELLO said
  list,                      \* backbone nodes that its last HELLO named
  currentBn,                 \* m_localCurrentBnNeighbors of each node
  misled                     \* history: a node quit that others had reason to count
                             \* on whatever its rank, or by a rule without rank

decided == <<status, indicator, assoc>>
vars == <<decided, list, currentBn, misled>>

Heard(m) == {n \in Node : <<m, n>> \in Links}

Status == At(Nobody)!Status
Indicator == At(Nobody)!Indicator

\* The HELLOs are of the kind that Backbone assumes of them: an indicator is
\* told by backbone nodes only, a list names nodes that its sender hears.
TypeOK ==
  /\ status \in [Node -> Status]
  /\ indicator \in [Node -> Indicator]
  /\ assoc \in [Node -> Node \cup {Nobody}]
  /\ list \in [Node -> SUBSET [addr : Node, weight : Nat, indicator : Indicator]]
  /\ currentBn \in [Node -> Nat]
  /\ misled \in BOOLEAN
  /\ \A m \in Node :
       /\ indicator[m] # "OTHER" => status[m] = "NEIGH"
       /\ \A t \in list[m] : t.addr \in Heard(m) /\ t.weight = Weight[t.addr]

\* m's neighbour list: the last HELLO of each node it hears.
NeighborList(m) ==
  [n \in Heard(m) |->
     [At(m)!NewTuple EXCEPT !.weight = Weight[n], !.status = status[n],
                            !.indicator = indicator[n], !.client = (assoc[n] = m),
                            !.bn = list[n]]]

Backbone == {m \in Node : status[m] = "NEIGH"}

\* The first HELLOs: nobody has heard anybody.
Init ==
  /\ status = InitStatus
  /\ indicator = [m \in Node |-> "OTHER"]
  /\ assoc = [m \in Node |-> Nobody]
  /\ list = [m \in Node |-> {}]
  /\ currentBn = [m \in Node |-> 0]
  /\ misled = FALSE

-----------------------------------------------------------------------------

\* UpdateLocalLastBnNeighbors and SendHello.
SayHello(m, L) ==
  /\ currentBn' = [currentBn EXCEPT ![m] = Cardinality(At(m)!OneHop(L, "NEIGH"))]
  /\ list' = [list EXCEPT ![m] = At(m)!GetBnNeighbors(L)]

ShortTimerExpire(m) ==
  SayHello(m, NeighborList(m)) /\ UNCHANGED <<decided, misled>>

AssociationAlgorithm(m, L) ==
  \E n \in IF At(m)!Candidates(L) = {} THEN {assoc[m]} ELSE At(m)!Candidates(L) :
    assoc' = [assoc EXCEPT ![m] = n]

\* A regular node.
LongTimerRegular(m) ==
  /\ status[m] = "RN"
  /\ AssociationAlgorithm(m, NeighborList(m))
  /\ SayHello(m, NeighborList(m))
  /\ UNCHANGED <<status, indicator, misled>>

\* Joining_Quitting_Mechanism, with BCN2BNRule2.
Joins(m, L) ==
  /\ Rule2 => currentBn'[m] <= currentBn[m]
  /\ At(m)!HandleJoin(L, Weight[m]) \/ At(m)!Connects(L, Weight[m])

\* A candidate, which joins or not.
LongTimerCandidate(m) ==
  /\ status[m] = "CORE"
  /\ AssociationAlgorithm(m, NeighborList(m))
  /\ SayHello(m, NeighborList(m))
  /\ status' = [status EXCEPT ![m] = IF Joins(m, NeighborList(m)) THEN "NEIGH" ELSE "CORE"]
  /\ UNCHANGED <<indicator, misled>>

\* Somebody has it from a HELLO that m breaks the backbone when it quits.
CountedOn(m) ==
  \E n \in Node : \E t \in list[n] : t.addr = m /\ t.indicator = "BREAK"

\* Two backbone neighbours of m are linked only by a path of two others, which
\* rule 1 accepts whatever their rank.
ReliesOnRule1(m, L) ==
  \E p \in At(m)!Pairs(At(m)!OneHop(L, "NEIGH"), At(m)!OneHop(L, "NEIGH")) :
    /\ ~At(m)!DirectlyKept(L, Weight[m], p[1], p[2], {p[1], p[2]})
    /\ ~At(m)!IndirectlyKept(L, Weight[m], p[1], p[2])

Misleads(m) == CountedOn(m) \/ ReliesOnRule1(m, NeighborList(m))

\* Faulty variant: A node that quits goes on telling its indicator.
QuitsWithIndicator(m) ==
  /\ status' = [status EXCEPT ![m] = "CORE"]
  /\ misled' = (misled \/ Misleads(m))
  /\ UNCHANGED indicator

Quits(m) ==
  /\ status' = [status EXCEPT ![m] = "CORE"]
  /\ indicator' = [indicator EXCEPT ![m] = "OTHER"]
  /\ misled' = (misled \/ Misleads(m))

Stays(m, L) ==
  /\ indicator' = [indicator EXCEPT ![m] = At(m)!StayIndicator(L)]
  /\ UNCHANGED <<status, misled>>

\* A backbone node: HeartBeat_Pushjoin_Anchors.
LongTimerBackbone(m) ==
  /\ status[m] = "NEIGH"
  /\ IF At(m)!MayQuit(NeighborList(m), Weight[m])
     THEN Quits(m)
     ELSE Stays(m, NeighborList(m))
  /\ SayHello(m, NeighborList(m))
  /\ UNCHANGED assoc

Next ==
  \E m \in Node :
    \/ ShortTimerExpire(m)
    \/ LongTimerRegular(m)
    \/ LongTimerCandidate(m)
    \/ LongTimerBackbone(m)

Spec == Init /\ [][Next]_vars

-----------------------------------------------------------------------------
(* Properties. *)

Apart(X, Y) == X \cap Y = {} /\ \A m \in X, n \in Y : <<m, n>> \notin Links

\* Two parts of the backbone that no link joins.
Split(S, X) == X \subseteq S /\ Apart(X, S \ X)

\* A step that splits nothing: parts of the backbone between which there is no
\* link afterwards, were parts of it before.  Who joins splits nothing.
KeepsTogether ==
  \/ Backbone \subseteq Backbone'
  \/ \A X \in SUBSET Backbone' :
       Split(Backbone', X) =>
         \E Y \in SUBSET Backbone : Split(Backbone, Y) /\ Y \cap Backbone' = X \cap Backbone

\* StaysTogether: no decision of a node splits what was connected, although
\* neighbouring nodes may quit one after the other, each counting on others that
\* have already quit, and that it still has from old HELLOs.  Excepted is what
\* follows when a node quits that told BREAK, or by nothing but rule 1.
StaysTogether == [][~misled' => KeepsTogether]_vars

\* The backbone nodes that HELLOs named are still in the backbone.
UpToDate == \A m \in Node : \A t \in list[m] : t.addr \in Backbone

\* SplitsOnlyWhenStale: what the rules check does keep the backbone together,
\* rule 1 and BREAK included, if nobody has quit since it was named in a HELLO:
\* HeartBeat_Pushjoin_Anchors reads links from lists, but these are links.
SplitsOnlyWhenStale == [][UpToDate => KeepsTogether]_vars

=============================================================================
