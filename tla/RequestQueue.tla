---------------------------- MODULE RequestQueue ----------------------------
(***************************************************************************)
(* The buffer of data packets that wait for a route                        *)
(* (src/model/aodv-rqueue.cc), as operators on a set of entries            *)
(* [id, dst, live].  The vector of the code is ordered by arrival; ids     *)
(* (the packet uids) are handed out in that order, so the first entry of   *)
(* the vector is the one with the smallest id.  "live" is                  *)
(* GetExpireTime () >= 0; the module that owns the queue lets it pass.     *)
(*                                                                         *)
(* Every operation starts with Purge, which hands each entry whose time    *)
(* has passed to its error callback: Expired(q) are those entries.         *)
(***************************************************************************)
EXTENDS Integers, FiniteSets

\* Faulty variants: The error callback is forgotten; the entries are not erased.
ExpiredSilently(q) == {}
PurgeKeeps(q) == q

Expired(q) == {e \in q : ~e.live}
PurgeQueue(q) == {e \in q : e.live}

Oldest(q) == CHOOSE e \in q : \A f \in q : e.id <= f.id

\* Faulty variants: The destination is not compared; one Dequeue in place of a loop.
WithAnyDst(q, d) == PurgeQueue(q)
FirstWithDst(q, d) ==
  LET s == {e \in PurgeQueue(q) : e.dst = d} IN IF s = {} THEN {} ELSE {Oldest(s)}

\* The entries with destination d: what DropPacketWithDst drops and what a
\* loop of Dequeue calls takes out, oldest first.
WithDst(q, d) == {e \in PurgeQueue(q) : e.dst = d}

\* Enqueue refuses a packet the queue already holds.
IsQueued(q, p) == \E e \in PurgeQueue(q) : e.id = p.id /\ e.dst = p.dst

\* The entry Enqueue evicts: the most aged one, when the queue is full.
Evicted(q, maxLen) ==
  IF Cardinality(PurgeQueue(q)) = maxLen THEN {Oldest(PurgeQueue(q))} ELSE {}

Enqueue(q, p, maxLen) ==
  IF IsQueued(q, p) THEN PurgeQueue(q)
  ELSE (PurgeQueue(q) \ Evicted(q, maxLen)) \cup {p}

\* The packets the error callback is called for during Enqueue.
EnqueueDrops(q, p, maxLen) ==
  Expired(q) \cup (IF IsQueued(q, p) THEN {} ELSE Evicted(q, maxLen))

=============================================================================
