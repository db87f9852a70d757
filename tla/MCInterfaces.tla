---------------------------- MODULE MCInterfaces ----------------------------
(***************************************************************************)
(* An instance of Interfaces for TLC: two addresses heard on two           *)
(* interfaces; b is the second address of the node a.                      *)
(***************************************************************************)
EXTENDS Interfaces, TLC

CONSTANTS a, b, i, j

MCIfaceOf == a :> i @@ b :> j
MCMainOf == [x \in Addr |-> a]

\* Bound: three packets, messages and changes of interfaces together, and one
\* more packet after all interfaces were gone if there is no message; at most
\* two are packets or messages unless all interfaces are up, the first packet is
\* bound to i, and no request is postponed; only the first packet is bound, and
\* only while no interface has changed; the first expiries come before a second
\* packet, message or change.
MCAllUp == up = Iface /\ oif[1] = i /\ \A d \in Addr : waiting[d] + due[d] = 0

MCBudget ==
  /\ sent + received + changes <= IF received = 0 /\ cleared /\ up # {} THEN 4 ELSE 3
  /\ sent + received <= IF MCAllUp THEN 3 ELSE 2
  /\ oif[2] = AnyIface /\ (changes > 0 => oif[1] = AnyIface)
  /\ first # {} => sent + received + changes <= 1
=============================================================================
