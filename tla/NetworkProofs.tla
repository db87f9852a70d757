--------------------------- MODULE NetworkProofs ---------------------------
(***************************************************************************)
(* Proofs about Network, for every set of nodes, all links and weights.    *)
(* No decision splits the backbone (StaysTogether), in whatever order the  *)
(* nodes decide and however old the lists are from which they know what    *)
(* their neighbours hear; from lists without nodes that have quit, none    *)
(* does, whatever it relies on (SplitsOnlyWhenStale).                      *)
(***************************************************************************)
EXTENDS Network, FiniteSetTheorems, TLAPS

-----------------------------------------------------------------------------
(* The rank of a node, by which the quitting rules decide who stays. *)

Above(s, t) == Weight[s] > Weight[t] \/ (Weight[s] = Weight[t] /\ s > t)

LEMMA AboveOrders ==
  ASSUME NEW r \in Node, NEW s \in Node, NEW t \in Node
  PROVE  /\ ~Above(r, r)
         /\ r = s \/ Above(r, s) \/ Above(s, r)
         /\ Above(r, s) /\ Above(s, t) => Above(r, t)
<1>1. Weight[r] \in Nat /\ Weight[s] \in Nat /\ Weight[t] \in Nat
  BY NetworkAssumption
<1>2. r \in Nat /\ s \in Nat /\ t \in Nat
  BY NetworkAssumption
<1>3. QED BY <1>1, <1>2 DEF Above

\* Of some nodes, one is above the others.
LEMMA Highest ==
  ASSUME NEW C \in SUBSET Node, C # {}
  PROVE  \E m \in C : \A c \in C : ~Above(c, m)
<1> DEFINE R == StrictSubsetOrdering(Node)
           Over(c) == {d \in Node : Above(d, c)}
           T == {Over(c) : c \in C}
<1>1. IsWellFoundedOn(R, FiniteSubsetsOf(Node))
  BY FS_StrictSubsetOrderingWellFounded
<1>2. T # {} /\ T \subseteq FiniteSubsetsOf(Node)
  <2>1. FiniteSubsetsOf(Node) = SUBSET Node
    BY NetworkAssumption, FS_FiniteSubsetsOfFinite
  <2>2. \A c \in C : Over(c) \in FiniteSubsetsOf(Node)
    BY <2>1
  <2> HIDE DEF Over
  <2>3. QED BY <2>2
<1> HIDE DEF R, T
<1>3. \E x \in T : \A y \in T : ~ (<<y, x>> \in R)
  BY <1>1, <1>2, WFMin
<1>4. PICK m \in C : \A c \in C : ~ (<<Over(c), Over(m)>> \in R)
  BY <1>3 DEF T
<1>5. ASSUME NEW c \in C, Above(c, m)
      PROVE  FALSE
  <2>1. Over(c) \subseteq Over(m)
    BY <1>5, AboveOrders
  <2>2. c \in Over(m) /\ c \notin Over(c)
    BY <1>5, AboveOrders
  <2>3. <<Over(c), Over(m)>> \in R
    BY <2>1, <2>2 DEF R, StrictSubsetOrdering
  <2>4. QED BY <2>3, <1>4
<1>6. QED BY <1>4, <1>5

-----------------------------------------------------------------------------
(* What a node knows. *)

LEMMA HeardBack ==
  ASSUME NEW m \in Node, NEW n \in Heard(m)
  PROVE  n \in Node /\ n # m /\ m \in Heard(n) /\ <<m, n>> \in Links /\ <<n, m>> \in Links
BY NetworkAssumption DEF Heard

LEMMA KnowsNeighbours ==
  ASSUME TypeOK, NEW m \in Node
  PROVE  /\ DOMAIN NeighborList(m) = Heard(m)
         /\ \A n \in Heard(m) :
              /\ NeighborList(m)[n].weight = Weight[n]
              /\ NeighborList(m)[n].status = status[n]
              /\ NeighborList(m)[n].indicator = indicator[n]
              /\ NeighborList(m)[n].bn = list[n]
BY DEF NeighborList, At!NewTuple

LEMMA KnowsBackbone ==
  ASSUME TypeOK, NEW m \in Node
  PROVE  /\ At(m)!OneHop(NeighborList(m), "NEIGH") = Heard(m) \cap Backbone
         /\ At(m)!GetBnNeighbors(NeighborList(m)) =
              {[addr |-> n, weight |-> Weight[n], indicator |-> indicator[n]] :
                 n \in Heard(m) \cap Backbone}
<1>1. At(m)!OneHop(NeighborList(m), "NEIGH") = Heard(m) \cap Backbone
  BY KnowsNeighbours DEF At!OneHop, Backbone, Heard
<1>2. \A n \in Heard(m) \cap Backbone :
        [addr |-> n, weight |-> NeighborList(m)[n].weight,
         indicator |-> NeighborList(m)[n].indicator]
          = [addr |-> n, weight |-> Weight[n], indicator |-> indicator[n]]
  BY KnowsNeighbours
<1>3. QED BY <1>1, <1>2 DEF At!GetBnNeighbors

\* The list that m tells next.
Told(m) == {[addr |-> n, weight |-> Weight[n], indicator |-> indicator[n]] :
              n \in Heard(m) \cap Backbone}

LEMMA ToldIsHonest ==
  ASSUME TypeOK, NEW m \in Node, NEW t \in Told(m)
  PROVE  /\ t \in [addr : Node, weight : Nat, indicator : Indicator]
         /\ t.addr \in Heard(m) \cap Backbone
         /\ t.weight = Weight[t.addr] /\ t.indicator = indicator[t.addr]
<1>1. PICK n \in Heard(m) \cap Backbone :
        t = [addr |-> n, weight |-> Weight[n], indicator |-> indicator[n]]
  BY DEF Told
<1>2. n \in Node /\ Weight[n] \in Nat /\ indicator[n] \in Indicator
  BY NetworkAssumption DEF TypeOK, Heard
<1>3. QED BY <1>1, <1>2

-----------------------------------------------------------------------------
(* Types. *)

LEMMA Counts ==
  ASSUME TypeOK, NEW m \in Node
  PROVE  Cardinality(At(m)!OneHop(NeighborList(m), "NEIGH")) \in Nat
<1>1. Heard(m) \cap Backbone \subseteq Node
  BY DEF Heard
<1>2. IsFiniteSet(Heard(m) \cap Backbone)
  BY <1>1, NetworkAssumption, FS_Subset
<1>3. QED BY <1>2, KnowsBackbone, FS_CardinalityType

\* What a HELLO of m changes.
LEMMA Says ==
  ASSUME TypeOK, NEW m \in Node, SayHello(m, NeighborList(m))
  PROVE  /\ list' = [list EXCEPT ![m] = Told(m)]
         /\ list' \in [Node -> SUBSET [addr : Node, weight : Nat, indicator : Indicator]]
         /\ \A n \in Node : \A t \in list'[n] :
              t.addr \in Heard(n) /\ t.weight = Weight[t.addr]
         /\ currentBn' \in [Node -> Nat]
<1>1. list' = [list EXCEPT ![m] = Told(m)]
  BY KnowsBackbone DEF SayHello, Told
<1>2. Told(m) \in SUBSET [addr : Node, weight : Nat, indicator : Indicator]
  BY ToldIsHonest
<1>3. list' \in [Node -> SUBSET [addr : Node, weight : Nat, indicator : Indicator]]
  BY <1>1, <1>2 DEF TypeOK
<1>4. ASSUME NEW n \in Node, NEW t \in list'[n]
      PROVE  t.addr \in Heard(n) /\ t.weight = Weight[t.addr]
  <2>1. CASE n = m
    BY <1>1, <1>4, <2>1, ToldIsHonest DEF TypeOK
  <2>2. CASE n # m
    BY <1>1, <1>4, <2>2 DEF TypeOK
  <2>3. QED BY <2>1, <2>2
<1>5. currentBn' \in [Node -> Nat]
  BY Counts DEF SayHello, TypeOK
<1>6. QED BY <1>1, <1>3, <1>4, <1>5

LEMMA Associates ==
  ASSUME TypeOK, NEW m \in Node, AssociationAlgorithm(m, NeighborList(m))
  PROVE  assoc' \in [Node -> Node \cup {Nobody}]
<1>1. At(m)!Candidates(NeighborList(m)) \subseteq Heard(m)
  BY KnowsNeighbours DEF At!Candidates, At!Best, At!OneHop
<1>2. QED BY <1>1 DEF AssociationAlgorithm, TypeOK, Heard

LEMMA StatusTypes ==
  /\ Status = {"RN", "CORE", "NEIGH"}
  /\ Indicator = {"BREAK", "ALLOW", "OTHER"}
  /\ \A m, L : At(m)!StayIndicator(L) \in Indicator
BY DEF Status, At!Status, Indicator, At!Indicator, At!StayIndicator

LEMMA InitTypes == Init => TypeOK
<1> SUFFICES ASSUME Init PROVE TypeOK
  OBVIOUS
<1>1. status \in [Node -> Status] /\ indicator \in [Node -> Indicator]
  BY InitStatusAssumption, StatusTypes DEF Init
<1>2. /\ assoc \in [Node -> Node \cup {Nobody}]
      /\ currentBn \in [Node -> Nat]
      /\ misled \in BOOLEAN
  BY DEF Init
<1>3. \A m \in Node : list[m] = {} /\ indicator[m] = "OTHER"
  BY DEF Init
<1>4. list \in [Node -> SUBSET [addr : Node, weight : Nat, indicator : Indicator]]
  BY DEF Init
<1>5. QED BY <1>1, <1>2, <1>3, <1>4 DEF TypeOK

LEMMA NextTypes == TypeOK /\ [Next]_vars => TypeOK'
<1> SUFFICES ASSUME TypeOK, [Next]_vars PROVE TypeOK'
  OBVIOUS
<1>1. ASSUME NEW m \in Node, ShortTimerExpire(m)
      PROVE  TypeOK'
  BY <1>1, Says DEF ShortTimerExpire, decided, TypeOK
<1>2. ASSUME NEW m \in Node, LongTimerRegular(m)
      PROVE  TypeOK'
  BY <1>2, Says, Associates DEF LongTimerRegular, TypeOK
<1>3. ASSUME NEW m \in Node, LongTimerCandidate(m)
      PROVE  TypeOK'
  <2>1. status' \in [Node -> Status] /\ indicator' = indicator /\ misled' = misled
    BY <1>3, StatusTypes DEF LongTimerCandidate, TypeOK
  <2>2. \A n \in Node : indicator'[n] # "OTHER" => status'[n] = "NEIGH"
    BY <1>3 DEF LongTimerCandidate, TypeOK
  <2>3. QED BY <1>3, <2>1, <2>2, Says, Associates DEF LongTimerCandidate, TypeOK
<1>4. ASSUME NEW m \in Node, LongTimerBackbone(m)
      PROVE  TypeOK'
  <2>1. /\ status' \in [Node -> Status] /\ indicator' \in [Node -> Indicator]
        /\ misled' \in BOOLEAN
        /\ \A n \in Node : indicator'[n] # "OTHER" => status'[n] = "NEIGH"
    <3>1. CASE Quits(m)
      BY <1>4, <3>1, StatusTypes DEF Quits, TypeOK
    <3>2. CASE Stays(m, NeighborList(m))
      BY <1>4, <3>2, StatusTypes DEF Stays, LongTimerBackbone, TypeOK
    <3>3. QED BY <1>4, <3>1, <3>2 DEF LongTimerBackbone
  <2>2. QED BY <1>4, <2>1, Says DEF LongTimerBackbone, TypeOK
<1>5. CASE UNCHANGED vars
  BY <1>5 DEF vars, decided, TypeOK
<1>6. QED BY <1>1, <1>2, <1>3, <1>4, <1>5 DEF Next

\* NetworkTypes: in every reachable state each node's HELLO is of the kind that
\* the others assume, and the variables have their types.
THEOREM NetworkTypes == Spec => []TypeOK
BY InitTypes, NextTypes, PTL DEF Spec

-----------------------------------------------------------------------------
(* What a node that quits has checked. *)

Named(m) == {t.addr : t \in list[m]}

\* u and w name a node that, as far as u knows, stays longer than t.
Backup(u, w, t) ==
  \E e \in list[u] :
    /\ e.addr \in Named(w) /\ e.addr # t
    /\ Above(e.addr, t) \/ e.indicator = "BREAK"

LEMMA NamedIsHeard ==
  ASSUME TypeOK, NEW m \in Node
  PROVE  Named(m) \subseteq Heard(m) /\ Named(m) \subseteq Node
<1>1. \A t \in list[m] : t.addr \in Heard(m)
  BY DEF TypeOK
<1>2. Heard(m) \subseteq Node
  BY DEF Heard
<1>3. QED BY <1>1, <1>2 DEF Named

\* For each two backbone nodes it hears, a node that may quit has found a link
\* or a backup.
LEMMA QuitChecks ==
  ASSUME TypeOK, NEW m \in Node, ~ReliesOnRule1(m, NeighborList(m)),
         At(m)!MayQuit(NeighborList(m), Weight[m]),
         NEW u \in Heard(m) \cap Backbone, NEW w \in Heard(m) \cap Backbone, u # w
  PROVE  <<u, w>> \in Links \/ Backup(u, w, m)
<1> DEFINE L == NeighborList(m)
<1>1. <<u, w>> \in At(m)!Pairs(At(m)!OneHop(L, "NEIGH"), At(m)!OneHop(L, "NEIGH"))
  BY KnowsBackbone DEF At!Pairs
<1>3. /\ u \in Node /\ w \in Node
      /\ At(m)!Bn(L, u) = Named(u) /\ At(m)!Bn(L, w) = Named(w)
      /\ L[u].bn = list[u]
  BY KnowsNeighbours DEF At!Bn, Named, Heard
<1> HIDE DEF L
<1>4. CASE At(m)!DirectlyKept(L, Weight[m], u, w, {u, w})
  <2>1. w \in Named(u) \/ u \in Named(w)
    BY <1>3, <1>4 DEF At!DirectlyKept, At!Are1Hop
  <2>2. QED BY <1>3, <2>1, NamedIsHeard, HeardBack
<1>5. CASE At(m)!IndirectlyKept(L, Weight[m], u, w)
  <2>1. PICK e \in list[u] :
          /\ e.addr \in Named(w) /\ e.addr # m
          /\ ~At(m)!HigherThanTwoHop(Weight[m], e) \/ e.indicator = "BREAK"
    BY <1>3, <1>5 DEF At!IndirectlyKept
  <2>2. e.addr \in Node /\ e.weight = Weight[e.addr]
    BY <1>3, <2>1 DEF TypeOK, Heard
  <2>3. At(m)!HigherThanTwoHop(Weight[m], e) \/ Above(e.addr, m)
    <3>1. Above(m, e.addr) \/ Above(e.addr, m)
      BY <2>1, <2>2, AboveOrders
    <3>2. Above(m, e.addr) => At(m)!HigherThanTwoHop(Weight[m], e)
      BY <2>2 DEF At!HigherThanTwoHop, Above
    <3>3. QED BY <3>1, <3>2
  <2>4. QED BY <2>1, <2>3 DEF Backup
<1>6. At(m)!DirectlyKept(L, Weight[m], u, w, {u, w}) \/ At(m)!IndirectlyKept(L, Weight[m], u, w)
  BY <1>1, Zenon DEF ReliesOnRule1, L
<1>7. QED BY <1>4, <1>5, <1>6

-----------------------------------------------------------------------------
(* The invariant. *)

\* Lists may name nodes that have quit.  Where two backbone nodes name the same
\* such node, they are linked, or name a backup of it.
Covered ==
  \A u, w \in Backbone : \A t \in Named(u) \cap Named(w) :
    u # w /\ t \notin Backbone => <<u, w>> \in Links \/ Backup(u, w, t)

PromisesKept == \A s \in Node : CountedOn(s) => s \in Backbone

NInv == TypeOK /\ (~misled => Covered /\ PromisesKept)

\* A step of m that does not take it out of the backbone.
Remains(m) ==
  /\ Backbone \subseteq Backbone' /\ Backbone' \subseteq Backbone \cup {m}
  /\ list' = [list EXCEPT ![m] = Told(m)]
  /\ misled' = misled

\* A step in which m quits.
Leaves(m) ==
  /\ m \in Backbone /\ At(m)!MayQuit(NeighborList(m), Weight[m])
  /\ Backbone' = Backbone \ {m}
  /\ list' = [list EXCEPT ![m] = Told(m)]
  /\ misled' = (misled \/ Misleads(m))

LEMMA StepKinds ==
  ASSUME TypeOK, Next
  PROVE  \E m \in Node : Remains(m) \/ Leaves(m)
<1>1. ASSUME NEW m \in Node, ShortTimerExpire(m) \/ LongTimerRegular(m)
      PROVE  Remains(m)
  BY <1>1, Says DEF ShortTimerExpire, LongTimerRegular, decided, Remains, Backbone
<1>2. ASSUME NEW m \in Node, LongTimerCandidate(m)
      PROVE  Remains(m)
  BY <1>2, Says DEF LongTimerCandidate, Remains, Backbone, TypeOK
<1>3. ASSUME NEW m \in Node, LongTimerBackbone(m)
      PROVE  Remains(m) \/ Leaves(m)
  <2>1. list' = [list EXCEPT ![m] = Told(m)] /\ m \in Backbone
    BY <1>3, Says DEF LongTimerBackbone, Backbone
  <2>2. CASE At(m)!MayQuit(NeighborList(m), Weight[m])
    <3>1. Quits(m)
      BY <1>3, <2>2 DEF LongTimerBackbone
    <3>2. Backbone' = Backbone \ {m}
      BY <3>1 DEF Quits, Backbone, TypeOK
    <3>3. QED BY <2>1, <2>2, <3>1, <3>2 DEF Quits, Leaves
  <2>3. CASE ~At(m)!MayQuit(NeighborList(m), Weight[m])
    BY <1>3, <2>1, <2>3 DEF LongTimerBackbone, Stays, Remains, Backbone
  <2>4. QED BY <2>2, <2>3
<1>4. QED BY <1>1, <1>2, <1>3 DEF Next

\* Nodes that say nothing keep their lists.
LEMMA OthersSilent ==
  ASSUME TypeOK, NEW m \in Node, list' = [list EXCEPT ![m] = Told(m)]
  PROVE  /\ list'[m] = Told(m) /\ Named(m)' \subseteq Backbone \ {m}
         /\ \A n \in Node \ {m} : list'[n] = list[n] /\ Named(n)' = Named(n)
         /\ \A u, w \in Node \ {m} : \A t : Backup(u, w, t)' = Backup(u, w, t)
<1>1. list'[m] = Told(m)
  BY DEF TypeOK
<1>2. \A n \in Node \ {m} : list'[n] = list[n] /\ Named(n)' = Named(n)
  BY DEF Named
<1>3. Named(m)' \subseteq Backbone \ {m}
  <2>1. \A t \in Told(m) : t.addr \in Backbone \ {m}
    BY ToldIsHonest, HeardBack
  <2>2. QED BY <1>1, <2>1 DEF Named
<1>4. ASSUME NEW u \in Node \ {m}, NEW w \in Node \ {m}, NEW t
      PROVE  Backup(u, w, t)' = Backup(u, w, t)
  BY <1>2 DEF Backup, Above
<1>5. QED BY <1>1, <1>2, <1>3, <1>4

LEMMA InitNInv == Init => NInv
<1> SUFFICES ASSUME Init PROVE NInv
  OBVIOUS
<1>1. \A m \in Node : list[m] = {}
  BY DEF Init
<1>2. Covered /\ PromisesKept
  BY <1>1 DEF Covered, PromisesKept, Named, Backbone, CountedOn
<1>3. QED BY <1>2, InitTypes DEF NInv

LEMMA CoveredStays ==
  ASSUME TypeOK, Covered, NEW m \in Node, Remains(m) \/ Leaves(m), ~misled'
  PROVE  Covered'
<1> SUFFICES ASSUME NEW u \in Backbone', NEW w \in Backbone', u # w,
                    NEW t \in Named(u)' \cap Named(w)', t \notin Backbone'
             PROVE  <<u, w>> \in Links \/ Backup(u, w, t)'
  BY DEF Covered
<1>1. list' = [list EXCEPT ![m] = Told(m)]
  BY DEF Remains, Leaves
<1>2. Named(m)' \subseteq Backbone \ {m} /\ Backbone \ {m} \subseteq Backbone'
  BY <1>1, OthersSilent DEF Remains, Leaves
<1>3. u # m /\ w # m
  BY <1>2
<1>4. u \in Backbone /\ w \in Backbone /\ u \in Node /\ w \in Node
  BY <1>3 DEF Remains, Leaves, Backbone
<1>5. t \in Named(u) \cap Named(w) /\ Backup(u, w, t)' = Backup(u, w, t)
  <2>1. u \in Node \ {m} /\ w \in Node \ {m}
    BY <1>3, <1>4
  <2>2. Named(u)' = Named(u) /\ Named(w)' = Named(w)
    BY <1>1, <2>1, OthersSilent
  <2>3. Backup(u, w, t)' = Backup(u, w, t)
    BY <1>1, <2>1, OthersSilent
  <2>4. QED BY <2>2, <2>3
<1>6. CASE t \notin Backbone
  BY <1>4, <1>5, <1>6 DEF Covered
<1>7. CASE t \in Backbone
  <2>1. t = m /\ Leaves(m)
    BY <1>7 DEF Remains, Leaves
  <2>2. u \in Heard(m) \cap Backbone /\ w \in Heard(m) \cap Backbone
    BY <1>4, <1>5, <2>1, NamedIsHeard, HeardBack
  <2>3. ~ReliesOnRule1(m, NeighborList(m))
    BY <2>1 DEF Leaves, Misleads
  <2>4. QED BY <1>5, <2>1, <2>2, <2>3, QuitChecks DEF Leaves
<1>8. QED BY <1>6, <1>7

LEMMA PromisesStay ==
  ASSUME TypeOK, PromisesKept, NEW m \in Node, Remains(m) \/ Leaves(m), ~misled'
  PROVE  PromisesKept'
<1> SUFFICES ASSUME NEW s \in Node, NEW n \in Node,
                    NEW e \in list'[n], e.addr = s, e.indicator = "BREAK"
             PROVE  s \in Backbone'
  BY DEF PromisesKept, CountedOn
<1>1. list' = [list EXCEPT ![m] = Told(m)]
  BY DEF Remains, Leaves
<1>2. CASE n = m
  <2>0. e \in Told(m)
    BY <1>1, <1>2, OthersSilent
  <2>1. s \in Backbone \ {m}
    BY <2>0, ToldIsHonest, HeardBack
  <2>2. QED BY <2>1 DEF Remains, Leaves
<1>3. CASE n # m
  <2>1. CountedOn(s)
    BY <1>1, <1>3, OthersSilent DEF CountedOn
  <2>2. s \in Backbone
    BY <2>1 DEF PromisesKept
  <2>3. Leaves(m) => s # m
    BY <2>1 DEF Leaves, Misleads
  <2>4. QED BY <2>2, <2>3 DEF Remains, Leaves
<1>4. QED BY <1>2, <1>3

LEMMA NextNInv == NInv /\ [Next]_vars => NInv'
<1> SUFFICES ASSUME NInv, [Next]_vars PROVE NInv'
  OBVIOUS
<1>1. TypeOK /\ TypeOK'
  BY NextTypes DEF NInv
<1>2. ASSUME NEW m \in Node, Remains(m) \/ Leaves(m), ~misled'
      PROVE  Covered' /\ PromisesKept'
  <2>0. ~misled
    <3>1. (misled' = misled) \/ (misled' = (misled \/ Misleads(m)))
      BY <1>2, Zenon DEF Remains, Leaves
    <3>2. QED BY <1>2, <3>1, Zenon
  <2>1. Covered /\ PromisesKept
    BY <2>0 DEF NInv
  <2>2. QED BY <1>1, <1>2, <2>1, CoveredStays, PromisesStay
<1>3. CASE Next
  BY <1>1, <1>2, <1>3, StepKinds DEF NInv
<1>4. CASE UNCHANGED vars
  BY <1>1, <1>4 DEF vars, decided, NInv, Covered, PromisesKept, CountedOn, Backbone, Named,
     Backup
<1>5. QED BY <1>3, <1>4

-----------------------------------------------------------------------------
(* The backbone stays together. *)

\* Two backbone nodes that a quitting node links are linked without it, directly
\* or by a node that has not quit.
LEMMA Bridge ==
  ASSUME TypeOK, Covered, PromisesKept,
         NEW m \in Node, Leaves(m), ~misled',
         NEW u \in Heard(m) \cap Backbone', NEW w \in Heard(m) \cap Backbone', u # w
  PROVE  \/ <<u, w>> \in Links
         \/ \E s \in Backbone' : <<u, s>> \in Links /\ <<s, w>> \in Links
<1> DEFINE C == {s \in Node \ {m} : s \in Named(u) /\ s \in Named(w)}
<1> SUFFICES ASSUME <<u, w>> \notin Links
             PROVE  \E s \in C : s \in Backbone'
  <2>1. \A s \in C : s \in Heard(u) /\ s \in Heard(w) /\ u \in Node /\ w \in Node
    BY NamedIsHeard DEF Heard
  <2>2. \A s \in C : <<u, s>> \in Links /\ <<s, w>> \in Links
    BY <2>1, HeardBack
  <2>3. QED BY <2>2
<1>1. /\ u \in Node /\ w \in Node /\ u \in Backbone /\ w \in Backbone
      /\ Backbone' = Backbone \ {m}
  BY DEF Leaves, Heard
<1>2. ~CountedOn(m) /\ ~ReliesOnRule1(m, NeighborList(m))
  BY DEF Leaves, Misleads
<1>3. PICK e \in list[u] : e.addr \in Named(w) /\ e.addr # m
                          /\ (Above(e.addr, m) \/ e.indicator = "BREAK")
  BY <1>1, <1>2, QuitChecks DEF Leaves, Backup
<1>4. \A f \in list[u] : f.addr \in Node /\ f.addr \in Named(u)
  BY <1>1, NamedIsHeard DEF Named
<1>5. CASE \E f \in list[u] : f.addr \in C /\ f.indicator = "BREAK"
  <2>1. PICK f \in list[u] : f.addr \in C /\ f.indicator = "BREAK"
    BY <1>5
  <2>2. f.addr \in Backbone
    BY <1>1, <2>1 DEF PromisesKept, CountedOn
  <2>3. QED BY <1>1, <2>1, <2>2
<1>6. CASE \A f \in list[u] : f.addr \in C => f.indicator # "BREAK"
  <2>1. e.addr \in C /\ Above(e.addr, m)
    BY <1>3, <1>4, <1>6
  <2>2. PICK t \in C : \A c \in C : ~Above(c, t)
    BY <2>1, Highest
  <2>3. Above(t, m)
    BY <2>1, <2>2, AboveOrders
  <2>4. ~Backup(u, w, t)
    <3>1. SUFFICES ASSUME NEW f \in list[u], f.addr \in Named(w), f.addr # t,
                          Above(f.addr, t) \/ f.indicator = "BREAK"
                   PROVE  FALSE
      BY DEF Backup
    <3>2. CASE f.addr = m
      <4>1. f.indicator # "BREAK"
        BY <1>1, <1>2, <3>2 DEF CountedOn
      <4>2. QED BY <2>3, <3>1, <3>2, <4>1, AboveOrders
    <3>3. CASE f.addr # m
      BY <1>4, <1>6, <2>2, <3>1, <3>3
    <3>4. QED BY <3>2, <3>3
  <2>5. t \in Backbone
    BY <1>1, <2>4 DEF Covered
  <2>6. QED BY <1>1, <2>5
<1>7. QED BY <1>5, <1>6

\* If a part that a node leaves behind is none of before, the node was what
\* linked it to the rest.
LEMMA Whole ==
  ASSUME NEW m \in Backbone, Backbone' = Backbone \ {m},
         NEW X \in SUBSET Backbone', Split(Backbone', X),
         \A u \in X, w \in Backbone' \ X : u \notin Heard(m) \/ w \notin Heard(m)
  PROVE  \E Y \in SUBSET Backbone : Split(Backbone, Y) /\ Y \cap Backbone' = X \cap Backbone
<1>1. Backbone \subseteq Node
  BY DEF Backbone
<1>2. \A u \in X, w \in Backbone' \ X : <<u, w>> \notin Links
  BY DEF Split, Apart
<1>3. \A n \in Backbone : <<m, n>> \in Links \/ <<n, m>> \in Links => n \in Heard(m)
  BY <1>1, NetworkAssumption DEF Heard
<1>4. CASE \E u \in X : u \in Heard(m)
  <2>1. \A w \in Backbone' \ X : w \notin Heard(m)
    BY <1>4
  <2>2. Backbone \ (X \cup {m}) = Backbone' \ X
    OBVIOUS
  <2>3. Split(Backbone, X \cup {m})
    BY <1>2, <1>3, <2>1, <2>2 DEF Split, Apart
  <2>4. (X \cup {m}) \cap Backbone' = X \cap Backbone
    OBVIOUS
  <2>5. QED BY <2>3, <2>4
<1>5. CASE \A u \in X : u \notin Heard(m)
  <2>1. Backbone \ X = (Backbone' \ X) \cup {m}
    OBVIOUS
  <2>2. Split(Backbone, X)
    BY <1>2, <1>3, <1>5, <2>1 DEF Split, Apart
  <2>3. QED BY <2>2
<1>6. QED BY <1>4, <1>5

\* Only a step in which a node quits can split the backbone.
LEMMA OnlyWhoLeaves ==
  ASSUME TypeOK, [Next]_vars,
         \A m \in Node : Leaves(m) =>
           \A X \in SUBSET Backbone' : Split(Backbone', X) =>
             \A u \in X, w \in Backbone' \ X : u \notin Heard(m) \/ w \notin Heard(m)
  PROVE  KeepsTogether
<1>1. CASE UNCHANGED vars
  BY <1>1 DEF vars, decided, Backbone, KeepsTogether
<1>2. ASSUME NEW m \in Node, Remains(m)
      PROVE  KeepsTogether
  BY <1>2 DEF Remains, KeepsTogether
<1>3. ASSUME NEW m \in Node, Leaves(m)
      PROVE  KeepsTogether
  <2>1. m \in Backbone /\ Backbone' = Backbone \ {m}
    BY <1>3 DEF Leaves
  <2>2. ASSUME NEW X \in SUBSET Backbone', Split(Backbone', X)
        PROVE  \E Y \in SUBSET Backbone :
                 Split(Backbone, Y) /\ Y \cap Backbone' = X \cap Backbone
    <3>1. \A u \in X, w \in Backbone' \ X : u \notin Heard(m) \/ w \notin Heard(m)
      BY <1>3, <2>2
    <3>2. QED BY <2>1, <2>2, <3>1, Whole
  <2>3. QED BY <2>2 DEF KeepsTogether
<1>4. QED BY <1>1, <1>2, <1>3, StepKinds

LEMMA NoNewSplit ==
  ASSUME NInv, [Next]_vars, ~misled'
  PROVE  KeepsTogether
<1> SUFFICES ASSUME NEW m \in Node, Leaves(m),
                    NEW X \in SUBSET Backbone', Split(Backbone', X),
                    NEW u \in X, NEW w \in Backbone' \ X,
                    u \in Heard(m), w \in Heard(m)
             PROVE  FALSE
  BY OnlyWhoLeaves DEF NInv
<1>1. ~misled
  <2>1. misled' = (misled \/ Misleads(m))
    BY DEF Leaves
  <2>2. QED BY <2>1, Zenon
<1>2. TypeOK /\ Covered /\ PromisesKept
  BY <1>1 DEF NInv
<1>3. \A a \in X, b \in Backbone' \ X : <<a, b>> \notin Links
  BY DEF Split, Apart
<1>4. PICK s \in Backbone' : <<u, s>> \in Links /\ <<s, w>> \in Links
  BY <1>2, <1>3, Bridge
<1>5. QED BY <1>3, <1>4

\* BackboneStaysTogether: in every network, whatever the order of the timers, no
\* node that quits splits the backbone.
THEOREM BackboneStaysTogether == Spec => StaysTogether
<1>1. NInv /\ [Next]_vars => [~misled' => KeepsTogether]_vars
  BY NoNewSplit
<1>2. QED BY <1>1, InitNInv, NextNInv, PTL DEF Spec, StaysTogether

-----------------------------------------------------------------------------
(* Lists without nodes that have quit. *)

\* Each way in which a pair is kept is a way through the backbone.
LEMMA QuitFindsPath ==
  ASSUME TypeOK, UpToDate, NEW m \in Node,
         At(m)!MayQuit(NeighborList(m), Weight[m]),
         NEW u \in Heard(m) \cap Backbone, NEW w \in Heard(m) \cap Backbone, u # w
  PROVE  \/ <<u, w>> \in Links
         \/ \E s \in Backbone \ {m} : <<u, s>> \in Links /\ <<s, w>> \in Links
         \/ \E s, t \in Backbone \ {m} :
              <<u, s>> \in Links /\ <<s, t>> \in Links /\ <<t, w>> \in Links
<1> DEFINE L == NeighborList(m)
           B == Heard(m) \cap Backbone
<1>1. At(m)!OneHop(L, "NEIGH") = B
  BY KnowsBackbone
<1>2. At(m)!Kept(L, Weight[m], u, w, {u, w})
  <2>1. <<u, w>> \in At(m)!Pairs(At(m)!OneHop(L, "NEIGH"), At(m)!OneHop(L, "NEIGH"))
    BY <1>1 DEF At!Pairs
  <2>2. QED BY <2>1 DEF At!MayQuit, At!BackboneKept
<1>3. \A n \in Heard(m) :
        /\ n \in Node /\ At(m)!Bn(L, n) = Named(n)
        /\ L[n].bn = list[n]
  BY KnowsNeighbours DEF At!Bn, Named, Heard
<1>4. \A n \in Node : \A a \in Named(n) :
        a \in Backbone /\ <<n, a>> \in Links /\ <<a, n>> \in Links
  <2>1. \A n \in Node : Named(n) \subseteq Backbone
    BY DEF UpToDate, Named
  <2>2. \A n \in Node : \A a \in Named(n) : <<n, a>> \in Links /\ <<a, n>> \in Links
    BY NamedIsHeard, HeardBack
  <2>3. QED BY <2>1, <2>2
<1>5. \A a \in Named(u) : <<u, a>> \in Links
  BY <1>3, <1>4
<1>6. \A a \in Named(w) : <<a, w>> \in Links
  BY <1>3, <1>4
<1> HIDE DEF L
<1>7. CASE At(m)!DirectlyKept(L, Weight[m], u, w, {u, w})
  <2>1. w \in Named(u) \/ u \in Named(w)
    BY <1>3, <1>7 DEF At!DirectlyKept, At!Are1Hop
  <2>2. QED BY <1>5, <1>6, <2>1
<1>8. CASE At(m)!IndirectlyKept(L, Weight[m], u, w)
  <2>1. PICK e \in list[u] : e.addr \in Named(w) /\ e.addr # m
    BY <1>3, <1>8 DEF At!IndirectlyKept
  <2>2. e.addr \in Named(u)
    BY <2>1 DEF Named
  <2>3. QED BY <1>3, <1>4, <2>1, <2>2
<1>9. CASE At(m)!LinkedByTwo(L, u, w)
  <2>1. PICK p \in At(m)!Pairs(B, B) :
          /\ At(m)!Are1Hop(L, p[1], p[2])
          /\ \/ p[1] \in At(m)!Bn(L, w) /\ p[2] \in At(m)!Bn(L, u)
             \/ p[2] \in At(m)!Bn(L, w) /\ p[1] \in At(m)!Bn(L, u)
    BY <1>1, <1>9 DEF At!LinkedByTwo
  <2>2. p[1] \in B /\ p[2] \in B
    BY <2>1 DEF At!Pairs
  <2>3. p[1] \in Backbone \ {m} /\ p[2] \in Backbone \ {m}
    BY <2>2, HeardBack
  <2>4. <<p[1], p[2]>> \in Links /\ <<p[2], p[1]>> \in Links
    BY <1>3, <1>4, <2>1, <2>2 DEF At!Are1Hop
  <2>5. \/ p[1] \in Named(w) /\ p[2] \in Named(u)
        \/ p[2] \in Named(w) /\ p[1] \in Named(u)
    BY <1>3, <2>1
  <2>6. CASE p[1] \in Named(w) /\ p[2] \in Named(u)
    <3>1. <<u, p[2]>> \in Links /\ <<p[1], w>> \in Links
      BY <1>5, <1>6, <2>6
    <3>2. QED BY <2>3, <2>4, <3>1
  <2>7. CASE p[2] \in Named(w) /\ p[1] \in Named(u)
    <3>1. <<u, p[1]>> \in Links /\ <<p[2], w>> \in Links
      BY <1>5, <1>6, <2>7
    <3>2. QED BY <2>3, <2>4, <3>1
  <2>8. QED BY <2>5, <2>6, <2>7
<1>10. QED BY <1>2, <1>7, <1>8, <1>9 DEF At!Kept

LEMMA NoSplitWhenUpToDate ==
  ASSUME TypeOK, [Next]_vars, UpToDate
  PROVE  KeepsTogether
<1> SUFFICES ASSUME NEW m \in Node, Leaves(m),
                    NEW X \in SUBSET Backbone', Split(Backbone', X),
                    NEW u \in X, NEW w \in Backbone' \ X,
                    u \in Heard(m), w \in Heard(m)
             PROVE  FALSE
  BY OnlyWhoLeaves
<1>1. Backbone' = Backbone \ {m} /\ At(m)!MayQuit(NeighborList(m), Weight[m])
  BY DEF Leaves
<1>2. \A a \in X, b \in Backbone' \ X : <<a, b>> \notin Links
  BY DEF Split, Apart
<1>3. \/ \E s \in Backbone' : <<u, s>> \in Links /\ <<s, w>> \in Links
      \/ \E s, t \in Backbone' :
           <<u, s>> \in Links /\ <<s, t>> \in Links /\ <<t, w>> \in Links
  BY <1>1, <1>2, QuitFindsPath
<1>4. QED BY <1>2, <1>3

\* BackboneSplitsOnlyWhenStale: in every network, if a node that quits splits the
\* backbone, some HELLO named one that had already quit.
THEOREM BackboneSplitsOnlyWhenStale == Spec => SplitsOnlyWhenStale
<1>1. TypeOK /\ [Next]_vars => [UpToDate => KeepsTogether]_vars
  BY NoSplitWhenUpToDate
<1>2. QED BY <1>1, NetworkTypes, PTL DEF Spec, SplitsOnlyWhenStale

=============================================================================
