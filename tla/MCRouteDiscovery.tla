-------------------------- MODULE MCRouteDiscovery --------------------------
(***************************************************************************)
(* Instances of RouteDiscovery for TLC.  The request count wraps at 4      *)
(* instead of 256 so that runs get past the missed comparison.  The node   *)
(* hears a on one interface and b on another; b is the second address of   *)
(* the node a.                                                             *)
(***************************************************************************)
EXTENDS RouteDiscovery

CONSTANTS a, b

MCSeqNos == {1, 2}
MCHopCounts == {1, 2}

MCIfaceOf == [x \in Addr |-> IF x = b THEN 2 ELSE 1]
MCMainOf == [x \in Addr |-> a]

\* Bound: three packets and messages together; once there was a message the
\* packets that wait, and the searches, are for one destination, and of two
\* packets none expires.
MCBudget ==
  /\ sent + received <= 3
  /\ received > 0 => /\ \A p, q \in loopback \cup queue : p.dst = q.dst
                     /\ \E d \in Addr : Underway(d) = 0
                     /\ sent = 2 => \A p \in queue : p.live
=============================================================================
