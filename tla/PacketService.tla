--------------------------- MODULE PacketService ----------------------------
(***************************************************************************)
(* What the routing protocol promises the applications of a node about     *)
(* their data packets, whatever goes on inside: a packet that was handed   *)
(* over is settled exactly once, by a route or by its error callback, and  *)
(* it is settled some day.  Nothing is promised about the order.           *)
(***************************************************************************)
EXTENDS Integers

CONSTANT MaxPackets     \* bound: packets handed over

VARIABLES sent,         \* packets handed over so far, with ids 1, 2, ...
          routed,       \* ids that were given a route
          errored       \* ids that were handed to the error callback

serviceVars == <<sent, routed, errored>>

Unsettled == (1..sent) \ (routed \cup errored)

ServiceInit == sent = 0 /\ routed = {} /\ errored = {}

\* A packet is handed over; it may be given a route or refused on the spot.
Submit ==
  /\ sent < MaxPackets
  /\ sent' = sent + 1
  /\ \/ routed' \in {routed, routed \cup {sent + 1}} /\ UNCHANGED errored
     \/ errored' = errored \cup {sent + 1} /\ UNCHANGED routed

\* One event settles some packets, each in one way.
Settle ==
  \E r \in SUBSET Unsettled :
    \E e \in SUBSET (Unsettled \ r) :
      /\ routed' = routed \cup r
      /\ errored' = errored \cup e
      /\ UNCHANGED sent

ServiceNext == Submit \/ Settle

ServiceSpec == ServiceInit /\ [][ServiceNext]_serviceVars

SettlesPacket(i) == i \in Unsettled /\ Settle /\ i \notin Unsettled'

\* Every packet is settled some day.
ServiceFairness == \A i \in 1..MaxPackets : WF_serviceVars(SettlesPacket(i))

=============================================================================
