------------------------------ MODULE MCRelay -------------------------------
(***************************************************************************)
(* An instance of Relay for TLC.  The neighbours a and b ask for n, another*)
(* neighbour, which may have answered before.  b is on an interface of its *)
(* own: it is the second address of the node a, so that a HELLO from b     *)
(* names a.  n may also pass on that a asks for this node.                 *)
(***************************************************************************)
EXTENDS Relay

CONSTANTS a, b, n

MCIfaceOf == [x \in Addr |-> IF x = b THEN 2 ELSE 1]
MCMainOf == [x \in Addr |-> IF x = b THEN a ELSE x]

Request(origin) ==
  [type |-> "RREQ", from |-> origin, origin |-> origin, id |-> 1, dst |-> n,
   seq |-> 1, ask |-> Unknown, hop |-> 1]

Reply(origin) ==
  [type |-> "RREP", from |-> n, origin |-> origin, dst |-> n, seq |-> 1, hop |-> 1]

MCMessage ==
  {Request(a), Request(b), Reply(a),
   [Request(a) EXCEPT !.from = n, !.id = 2, !.dst = Me, !.hop = 2],
   [type |-> "RERR", from |-> n, dsts |-> {a, n}],
   [type |-> "HELLO", from |-> b, seq |-> 1],
   [type |-> "ACK", from |-> b]}

MCBroadcast == {<<a, 1>>}

\* Bound: one packet of its own, or two more messages; a broadcast packet is
\* remembered before there are two messages.
MCBudget ==
  /\ 2 * sent + received <= MaxMessages
  /\ <<"data", a, 1>> \in seen => received <= 1

MCSeqNos == {1}
MCHopCounts == {1, 2}
=============================================================================
