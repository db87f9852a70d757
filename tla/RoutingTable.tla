---------------------------- MODULE RoutingTable ----------------------------
(***************************************************************************)
(* The routing table of a node (src/model/aodv-rtable.cc) as operators on  *)
(* a function from addresses to entries.  Everything here is pure: the     *)
(* modules of the protocol keep the table in a variable.                   *)
(*                                                                         *)
(* Time is abstracted to what the table does with it.  An entry is "live"  *)
(* until its lifetime has passed; the module that owns the table decides   *)
(* when that happens, and Purge acts on entries that are no longer live.   *)
(* Every lifetime the code stores is in the future (or is now, and the     *)
(* comparison in Purge is strict), so storing one makes the entry live.    *)
(* An address without an entry is mapped to NoRoute.                       *)
(***************************************************************************)
EXTENDS Integers

CONSTANTS Addr,     \* the addresses of other nodes a table may hold
          NoAddr,   \* Ipv4Address (), the next hop of an entry under search
          Iface,    \* the interfaces of the node
          NoIface   \* Ipv4InterfaceAddress (), the interface of such an entry

ASSUME NoAddrAssumption == NoAddr \notin Addr
ASSUME NoIfaceAssumption == NoIface \notin Iface

Flags == {"VALID", "INVALID", "IN_SEARCH", "ABSENT"}

Entry == [flag       : Flags,
          reqCount   : Nat,                  \* m_reqCount
          validSeqNo : BOOLEAN,
          seqNo      : Nat,
          hop        : Nat,
          nextHop    : Addr \cup {NoAddr},
          iface      : Iface \cup {NoIface},   \* m_iface and its device
          precursors : SUBSET (Addr \cup {NoAddr}),
          live       : BOOLEAN]              \* GetLifeTime () >= 0

\* What a default-constructed entry holds, with the flag of an absent one.
NoRoute == [flag |-> "ABSENT", reqCount |-> 0, validSeqNo |-> FALSE, seqNo |-> 0,
            hop |-> 0, nextHop |-> NoAddr, iface |-> NoIface, precursors |-> {},
            live |-> TRUE]

\* The constructor: a new entry is VALID and was never requested.
NewEntry(validSeqNo, seqNo, hop, nextHop, iface) ==
  [flag |-> "VALID", reqCount |-> 0, validSeqNo |-> validSeqNo, seqNo |-> seqNo,
   hop |-> hop, nextHop |-> nextHop, iface |-> iface, precursors |-> {}, live |-> TRUE]

Present(t, a) == t[a].flag # "ABSENT"
IsValid(t, a) == t[a].flag = "VALID"
InSearch(t, a) == t[a].flag = "IN_SEARCH"

\* RoutingTableEntry::Invalidate: the lifetime becomes the deletion time.
Invalidate(e) ==
  IF e.flag = "INVALID" THEN e
  ELSE [e EXCEPT !.flag = "INVALID", !.reqCount = 0, !.live = TRUE]

\* RoutingTable::Purge, for one entry: an entry under search is never touched.
PurgeEntry(e) ==
  IF e.live \/ e.flag = "IN_SEARCH" THEN e
  ELSE IF e.flag = "VALID" THEN Invalidate(e) ELSE NoRoute

Purge(t) == [a \in Addr |-> PurgeEntry(t[a])]

\* Faulty variant: The count survives the end of a search.
StoredWithCount(e) == e

\* AddRoute and Update forget the request count unless the entry is searched.
Stored(e) == IF e.flag = "IN_SEARCH" THEN e ELSE [e EXCEPT !.reqCount = 0]

Update(t, a, e) ==
  IF Present(t, a) THEN [t EXCEPT ![a] = Stored(e)] ELSE t

AddRoute(t, a, e) ==
  LET u == Purge(t)
  IN  IF Present(u, a) THEN u ELSE [u EXCEPT ![a] = Stored(e)]

\* Faulty variant: The entry is not erased.
DeleteRouteMisses(t, a) == Purge(t)

DeleteRoute(t, a) == [Purge(t) EXCEPT ![a] = NoRoute]

\* Faulty variant: Only destinations with precursors, as the header has it.
DestinationsInUse(t, n) ==
  {a \in Addr : Present(Purge(t), a) /\ Purge(t)[a].nextHop = n /\ Purge(t)[a].precursors # {}}

\* GetListOfDestinationWithNextHop: the destinations of the list.
DestinationsWithNextHop(t, n) ==
  {a \in Addr : Present(Purge(t), a) /\ Purge(t)[a].nextHop = n}

\* InvalidateRoutesWithDst: only VALID entries, whatever their precursors.
InvalidateRoutesWithDst(t, unreachable) ==
  [a \in Addr |-> IF a \in unreachable /\ IsValid(Purge(t), a)
                  THEN Invalidate(Purge(t)[a])
                  ELSE Purge(t)[a]]

\* Faulty variant: Only routes of length one count as routes of the interface.
DeleteNeighboursFromInterface(t, i) ==
  [a \in Addr |-> IF t[a].iface = i /\ t[a].hop = 1 THEN NoRoute ELSE t[a]]

\* DeleteAllRoutesFromInterface: an entry under search that is new has no
\* interface yet.  The table is not purged.
DeleteAllRoutesFromInterface(t, i) ==
  [a \in Addr |-> IF t[a].iface = i THEN NoRoute ELSE t[a]]

\* InsertPrecursor on a looked-up copy, then Update; nothing if a is absent.
InsertPrecursor(t, a, p) ==
  Update(t, a, [t[a] EXCEPT !.precursors = @ \cup {p}])

=============================================================================
