----------------------------- MODULE MCNetwork -----------------------------
(***************************************************************************)
(* A network for TLC: node 1 hears the backbone nodes of the path 2-3-4-5  *)
(* and is the lowest of them, so that it may quit, which rule 1 allows.    *)
(* The regular node 6 hears 2.                                             *)
(***************************************************************************)
EXTENDS Network

MCNode == 1..6
Both(S) == S \cup {<<l[2], l[1]>> : l \in S}
MCLinks == Both(({1} \X (2..5)) \cup {<<2, 3>>, <<3, 4>>, <<4, 5>>, <<2, 6>>})
MCWeight == <<0, 3, 2, 2, 3, 0>>
MCInitStatus == [m \in MCNode |-> IF m = 6 THEN "RN" ELSE "NEIGH"]
=============================================================================
