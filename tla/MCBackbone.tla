----------------------------- MODULE MCBackbone -----------------------------
(***************************************************************************)
(* Instances of Backbone for TLC: node 3 with smaller and greater          *)
(* addresses around it.  The HELLOs let every rule decide both ways:       *)
(* regular and candidate clients, with one backbone node or more; backbone *)
(* nodes that hear each other, a third one, another pair or nobody.        *)
(***************************************************************************)
EXTENDS Backbone

MCPeer == {1, 2, 4, 5}
MCNobody == 9
MCTraffic == {MCNobody}

BnOf(addrs, w, i) == {[addr |-> a, weight |-> w, indicator |-> i] : a \in addrs}

HelloOf(n, s, w, i, c, bn) ==
  [from |-> n, status |-> s, weight |-> w, indicator |-> i, client |-> c, bn |-> bn]

MCHello ==
  { HelloOf(1, "NEIGH", 1, "OTHER", FALSE, BnOf({5}, 0, "ALLOW")),
    HelloOf(1, "CORE", 1, "OTHER", TRUE, BnOf({3}, 1, "OTHER")),
    HelloOf(2, "NEIGH", 2, "ALLOW", FALSE, BnOf({4}, 3, "ALLOW")),
    HelloOf(2, "CORE", 2, "OTHER", TRUE, BnOf({3, 4}, 1, "OTHER")),
    HelloOf(4, "NEIGH", 1, "BREAK", FALSE, BnOf({5}, 1, "OTHER")),
    HelloOf(4, "CORE", 3, "OTHER", FALSE, BnOf({1, 2}, 1, "BREAK")),
    HelloOf(5, "NEIGH", 0, "OTHER", FALSE, {}),
    HelloOf(5, "RN", 1, "OTHER", TRUE, {}) }

MCInitStatus == Status

\* A few HELLOs for runs about the list alone.
MCFewHello ==
  { HelloOf(1, "NEIGH", 1, "OTHER", FALSE, BnOf({2}, 1, "OTHER")),
    HelloOf(2, "CORE", 2, "OTHER", TRUE, BnOf({1, 3}, 1, "OTHER")) }
MCFewPeer == {1, 2}
MCFewTraffic == {1, 2, MCNobody}
=============================================================================
