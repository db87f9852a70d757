---------------------------- MODULE TableProofs -----------------------------
(***************************************************************************)
(* Lemmas about the routing table as the handlers of RouteDiscovery change *)
(* it, one per operation, for every set of addresses: the operation maps a *)
(* good table to a good one, starts no search and breaks no route, except  *)
(* that a HELLO may break the route to the address it names.               *)
(* RouteDiscoveryProofs uses them, one or a few per action.                *)
(***************************************************************************)
EXTENDS RouteDiscovery, TLAPS

-----------------------------------------------------------------------------
(* Good tables. *)

\* What holds of every entry: its type, a count of 0 outside of a search and one
\* that fits its width in it, a length that fits its next hop, whatever the flag
\* (RecvHello and RecvReplyAck may make an entry VALID as it is), and an
\* interface if something may be sent along it.
GoodEntry(a, e) ==
  /\ e \in Entry
  /\ e.reqCount = 0 \/ (e.flag = "IN_SEARCH" /\ e.reqCount < ReqCountModulus)
  /\ (e.hop = 0) <=> (e.nextHop = NoAddr)
  /\ e.hop = 1 => e.nextHop = a
  /\ e.nextHop # NoAddr \/ e.flag \in {"VALID", "INVALID"} => e.iface # NoIface

GoodTable(t) ==
  /\ t \in [Addr -> Entry]
  /\ \A a \in Addr : GoodEntry(a, t[a])

\* A route to nobody; in a good table, the only way in which one is Broken.
NoHop(e) == e.flag \in {"VALID", "INVALID"} /\ e.nextHop = NoAddr

LEMMA BrokenIsNoHop ==
  ASSUME NEW t, GoodTable(t), NEW a \in Addr
  PROVE  Broken(t, a) <=> NoHop(t[a])
<1>1. GoodEntry(a, t[a]) /\ t[a] \in Entry
  BY DEF GoodTable
<1>2. QED BY <1>1 DEF Broken, NoHop, GoodEntry, Entry

\* Each entry searched in u is searched in t, with the same count of attempts.
NoNewSearch(t, u) ==
  \A a \in Addr : InSearch(u, a) => InSearch(t, a) /\ u[a].reqCount = t[a].reqCount

\* Each route to nobody in u is one in t.
NoNewBroken(t, u) == \A a \in Addr : NoHop(u[a]) => NoHop(t[a])

\* Quiet: u is a good table and no search starts between t and u.
Quiet(t, u) == GoodTable(u) /\ NoNewSearch(t, u)

\* Calm: moreover no route breaks.
Calm(t, u) == Quiet(t, u) /\ NoNewBroken(t, u)

LEMMA CalmReflexive ==
  ASSUME NEW t, GoodTable(t)
  PROVE  Calm(t, t)
BY DEF Calm, Quiet, NoNewSearch, NoNewBroken

\* Invalidating, purging and storing an entry keep it good.
LEMMA EntryOperations ==
  ASSUME NEW a \in Addr, NEW e, GoodEntry(a, e)
  PROVE  /\ GoodEntry(a, NoRoute) /\ ~NoHop(NoRoute)
         /\ e.flag = "VALID" => /\ GoodEntry(a, Invalidate(e))
                                /\ Invalidate(e).flag = "INVALID"
                                /\ NoHop(Invalidate(e)) => NoHop(e)
         /\ GoodEntry(a, PurgeEntry(e))
         /\ NoHop(PurgeEntry(e)) => NoHop(e)
         /\ PurgeEntry(e).flag = "IN_SEARCH" <=> e.flag = "IN_SEARCH"
         /\ e.flag = "IN_SEARCH" => PurgeEntry(e) = e
<1>1. GoodEntry(a, NoRoute) /\ ~NoHop(NoRoute)
  BY NoAddrAssumption DEF GoodEntry, NoRoute, NoHop, Entry, Flags
<1>2. ASSUME e.flag = "VALID"
      PROVE  /\ GoodEntry(a, Invalidate(e)) /\ Invalidate(e).flag = "INVALID"
             /\ NoHop(Invalidate(e)) => NoHop(e)
  BY <1>2 DEF GoodEntry, Invalidate, NoHop, Entry, Flags
<1>3. /\ GoodEntry(a, PurgeEntry(e)) /\ (NoHop(PurgeEntry(e)) => NoHop(e))
      /\ (PurgeEntry(e).flag = "IN_SEARCH" <=> e.flag = "IN_SEARCH")
      /\ e.flag = "IN_SEARCH" => PurgeEntry(e) = e
  <2>1. NoRoute.flag = "ABSENT"
    BY DEF NoRoute
  <2>2. QED BY <1>1, <1>2, <2>1 DEF PurgeEntry
<1>4. QED BY <1>1, <1>2, <1>3

\* Purge is calm and keeps the searches.
LEMMA PurgeCalm ==
  ASSUME NEW t, GoodTable(t)
  PROVE  /\ Calm(t, Purge(t))
         /\ \A a \in Addr : InSearch(Purge(t), a) <=> InSearch(t, a)
<1>1. \A a \in Addr : /\ GoodEntry(a, PurgeEntry(t[a]))
                      /\ PurgeEntry(t[a]).flag = "IN_SEARCH" <=> t[a].flag = "IN_SEARCH"
                      /\ t[a].flag = "IN_SEARCH" => PurgeEntry(t[a]) = t[a]
                      /\ NoHop(PurgeEntry(t[a])) => NoHop(t[a])
  BY EntryOperations DEF GoodTable
<1>2. \A a \in Addr : PurgeEntry(t[a]) \in Entry
  BY <1>1 DEF GoodEntry
<1>3. QED BY <1>1, <1>2 DEF Calm, Quiet, GoodTable, NoNewSearch, NoNewBroken, Purge, InSearch

\* Update with an entry that is good once stored, and that src justifies: it is
\* searched or broken only if it was in src.
LEMMA UpdateCalm ==
  ASSUME NEW src, GoodTable(src), NEW t, Calm(src, t), NEW a \in Addr, NEW e \in Entry,
         GoodEntry(a, [e EXCEPT !.reqCount = 0]), NoHop(e) => NoHop(src[a]),
         e.flag = "IN_SEARCH" => InSearch(src, a) /\ e.reqCount = src[a].reqCount
  PROVE  Calm(src, Update(t, a, e))
<1>1. /\ GoodEntry(a, Stored(e)) /\ Stored(e).flag = e.flag
      /\ e.flag = "IN_SEARCH" => Stored(e) = e
      /\ NoHop(Stored(e)) => NoHop(e)
  <2>1. src[a].reqCount = 0 \/ src[a].reqCount < ReqCountModulus
    BY DEF GoodTable, GoodEntry
  <2>2. CASE e.flag = "IN_SEARCH"
    <3>1. e.reqCount = 0 \/ e.reqCount < ReqCountModulus
      BY <2>1, <2>2
    <3>2. Stored(e) = e
      BY <2>2 DEF Stored
    <3>3. GoodEntry(a, e)
      BY <2>2, <3>1 DEF GoodEntry, Entry
    <3>4. QED BY <3>2, <3>3
  <2>3. CASE e.flag # "IN_SEARCH"
    BY <2>3 DEF GoodEntry, Stored, NoHop, Entry
  <2>4. QED BY <2>2, <2>3
<1>2. Stored(e) \in Entry
  BY <1>1 DEF GoodEntry
<1>3. CASE ~Present(t, a)
  BY <1>3 DEF Update
<1>4. CASE Present(t, a)
  <2>1. Update(t, a, e) = [t EXCEPT ![a] = Stored(e)]
    BY <1>4 DEF Update
  <2>2. QED BY <1>1, <1>2, <2>1 DEF Calm, Quiet, GoodTable, NoNewSearch, NoNewBroken, InSearch
<1>5. QED BY <1>3, <1>4

LEMMA CalmTransitive ==
  ASSUME NEW t, NEW u, NEW v, Calm(t, u), Calm(u, v)
  PROVE  Calm(t, v)
BY DEF Calm, Quiet, NoNewSearch, NoNewBroken

\* Adding a good VALID entry, where there is none.
LEMMA AddCalm ==
  ASSUME NEW t, GoodTable(t), NEW a \in Addr, NEW e, GoodEntry(a, e), e.flag = "VALID",
         ~NoHop(e)
  PROVE  Calm(t, AddRoute(t, a, e))
<1>1. Calm(t, Purge(t))
  BY PurgeCalm
<1>2. Stored(e) = e
  BY DEF GoodEntry, Stored, Entry
<1>3. AddRoute(t, a, e) \in {Purge(t), [Purge(t) EXCEPT ![a] = e]}
  BY <1>2 DEF AddRoute
<1>4. Calm(Purge(t), [Purge(t) EXCEPT ![a] = e])
  <2>1. e \in Entry
    BY DEF GoodEntry
  <2>2. QED BY <1>1, <2>1 DEF Calm, Quiet, GoodTable, NoNewSearch, NoNewBroken, InSearch
<1>5. QED BY <1>1, <1>3, <1>4, CalmTransitive

LEMMA DeleteCalm ==
  ASSUME NEW t, GoodTable(t), NEW a \in Addr
  PROVE  /\ Calm(t, DeleteRoute(t, a))
         /\ ~InSearch(DeleteRoute(t, a), a)
<1>1. Calm(t, Purge(t))
  BY PurgeCalm
<1>2. GoodEntry(a, NoRoute) /\ NoRoute \in Entry /\ ~NoHop(NoRoute)
  <2>1. GoodEntry(a, NoRoute) /\ ~NoHop(NoRoute)
    BY NoAddrAssumption DEF GoodEntry, NoRoute, NoHop, Entry, Flags
  <2>2. QED BY <2>1 DEF GoodEntry
<1>3. NoRoute.flag = "ABSENT"
  BY DEF NoRoute
<1>4. QED BY <1>1, <1>2, <1>3
          DEF DeleteRoute, Calm, Quiet, GoodTable, NoNewSearch, NoNewBroken, InSearch

LEMMA InvalidateCalm ==
  ASSUME NEW t, GoodTable(t), NEW S
  PROVE  Calm(t, InvalidateRoutesWithDst(t, S))
<1> DEFINE u == InvalidateRoutesWithDst(t, S)
<1>1. Calm(t, Purge(t))
  BY PurgeCalm
<1>2. \A a \in Addr : /\ GoodEntry(a, u[a]) /\ u[a] \in Entry
                      /\ InSearch(u, a) => InSearch(Purge(t), a) /\ u[a] = Purge(t)[a]
                      /\ NoHop(u[a]) => NoHop(Purge(t)[a])
  <2>1. SUFFICES ASSUME NEW a \in Addr
                 PROVE  /\ GoodEntry(a, u[a])
                        /\ InSearch(u, a) => InSearch(Purge(t), a) /\ u[a] = Purge(t)[a]
                        /\ NoHop(u[a]) => NoHop(Purge(t)[a])
    BY <2>1 DEF GoodEntry
  <2>2. GoodEntry(a, Purge(t)[a])
    BY <1>1 DEF Calm, Quiet, GoodTable
  <2>3. CASE a \in S /\ IsValid(Purge(t), a)
    <3>1. u[a] = Invalidate(Purge(t)[a])
      BY <2>3 DEF InvalidateRoutesWithDst
    <3>2. QED BY <2>2, <2>3, <3>1, EntryOperations DEF IsValid, InSearch
  <2>4. CASE ~(a \in S /\ IsValid(Purge(t), a))
    BY <2>2, <2>4 DEF InvalidateRoutesWithDst, InSearch
  <2>5. QED BY <2>3, <2>4
<1>3. u \in [Addr -> Entry]
  BY <1>2 DEF InvalidateRoutesWithDst
<1>4. Calm(Purge(t), u)
  BY <1>2, <1>3 DEF Calm, Quiet, GoodTable, NoNewSearch, NoNewBroken
<1>5. QED BY <1>1, <1>4, CalmTransitive

\* A new entry that names the node it was heard from.
LEMMA NewEntryGood ==
  ASSUME NEW a \in Addr, NEW s \in Addr, NEW seq \in Nat, NEW hop \in Nat \ {0},
         NEW known \in BOOLEAN, hop = 1 => s = a, NEW i \in Iface
  PROVE  LET e == NewEntry(known, seq, hop, s, i)
         IN  /\ GoodEntry(a, e) /\ e \in Entry /\ e.flag = "VALID" /\ e.reqCount = 0
             /\ ~NoHop(e)
BY NoAddrAssumption, NoIfaceAssumption DEF GoodEntry, NewEntry, NoHop, Entry, Flags

\* Writing a good VALID entry over an existing one.
LEMMA OverwriteCalm ==
  ASSUME NEW t, GoodTable(t), NEW a \in Addr, NEW e, GoodEntry(a, e), e.flag = "VALID",
         ~NoHop(e)
  PROVE  Calm(t, Update(t, a, e))
<1>1. e \in Entry /\ [e EXCEPT !.reqCount = 0] = e
  BY DEF GoodEntry, Entry
<1>2. QED BY <1>1, CalmReflexive, UpdateCalm

\* UpdateRouteToNeighbor leaves an entry for the sender that can be made VALID:
\* it has a next hop.
LEMMA HeardCalm ==
  ASSUME NEW t, GoodTable(t), NEW s \in Addr
  PROVE  LET u == UpdateRouteToNeighbor(t, s)
         IN  /\ Calm(t, u)
             /\ u[s].hop = 1 /\ u[s].nextHop = s
             /\ Present(u, s)
<1> DEFINE p == Purge(t)
           direct == NewEntry(FALSE, 0, 1, s, IfaceOf[s])
           u == UpdateRouteToNeighbor(t, s)
<1>1. Calm(t, p) /\ GoodTable(p) /\ GoodTable(t)
  BY PurgeCalm DEF Calm, Quiet
<1>2. /\ GoodEntry(s, direct) /\ direct \in Entry /\ direct.flag = "VALID"
      /\ direct.reqCount = 0 /\ ~NoHop(direct)
  <2>1. IfaceOf[s] \in Iface
    BY AddressesAssumption
  <2>2. QED BY <2>1, NoAddrAssumption, NoIfaceAssumption
            DEF GoodEntry, NewEntry, NoHop, Entry, Flags
<1>3. direct.hop = 1 /\ direct.nextHop = s /\ Stored(direct) = direct
  BY <1>2 DEF NewEntry, Stored, Entry
<1>4. CASE ~Present(p, s)
  <2>1. u = AddRoute(p, s, direct)
    BY <1>4 DEF UpdateRouteToNeighbor
  <2>2. Calm(p, u)
    BY <1>1, <1>2, <2>1, AddCalm
  <2>3. ~Present(Purge(p), s)
    BY <1>1, <1>4 DEF Present, Purge, PurgeEntry, NoRoute, GoodTable, Entry
  <2>4. u = [Purge(p) EXCEPT ![s] = direct]
    BY <1>3, <2>1, <2>3 DEF AddRoute
  <2>5. u[s] = direct
    BY <2>4 DEF Purge
  <2>6. QED BY <1>1, <1>2, <1>3, <2>2, <2>5, CalmTransitive DEF Present
<1> DEFINE kept == p[s].validSeqNo /\ p[s].hop = 1 /\ p[s].iface = IfaceOf[s]
<1>5. CASE Present(p, s) /\ kept
  <2>1. u = p
    BY <1>5 DEF UpdateRouteToNeighbor
  <2>2. QED BY <1>1, <1>5, <2>1 DEF GoodTable, GoodEntry
<1>6. CASE Present(p, s) /\ ~kept
  <2>1. u = Update(p, s, direct)
    BY <1>6 DEF UpdateRouteToNeighbor
  <2>2. Calm(p, u)
    BY <1>1, <1>2, <2>1, OverwriteCalm
  <2>3. u[s] = direct
    BY <1>1, <1>3, <1>6, <2>1 DEF Update, GoodTable
  <2>4. QED BY <1>1, <1>2, <1>3, <2>2, <2>3, CalmTransitive DEF Present
<1>7. QED BY <1>4, <1>5, <1>6

LEMMA ForwardCalm ==
  ASSUME NEW t, GoodTable(t), NEW d \in Addr, NEW e, GoodEntry(d, e), e.flag = "VALID",
         ~NoHop(e)
  PROVE  Calm(t, ForwardRoute(t, d, e))
<1>1. CASE ~Present(t, d)
  BY <1>1, AddCalm DEF ForwardRoute
<1>2. CASE Present(t, d) /\ ReplyIsFresher(t[d], e.seqNo, e.hop)
  BY <1>2, OverwriteCalm DEF ForwardRoute
<1>3. CASE Present(t, d) /\ ~ReplyIsFresher(t[d], e.seqNo, e.hop)
  BY <1>3, CalmReflexive DEF ForwardRoute
<1>4. QED BY <1>1, <1>2, <1>3

\* Writing an entry that is good itself, with other precursors or lifetime.
LEMMA RewriteCalm ==
  ASSUME NEW src, GoodTable(src), NEW t, Calm(src, t), NEW a \in Addr, NEW e \in Entry,
         NEW P \in SUBSET (Addr \cup {NoAddr}), NEW l \in BOOLEAN, GoodEntry(a, e),
         NoHop(e) => NoHop(src[a]),
         e.flag = "IN_SEARCH" => InSearch(src, a) /\ e.reqCount = src[a].reqCount
  PROVE  /\ Calm(src, Update(t, a, [e EXCEPT !.precursors = P]))
         /\ Calm(src, Update(t, a, [e EXCEPT !.live = l]))
<1> DEFINE f == [e EXCEPT !.precursors = P]
           g == [e EXCEPT !.live = l]
<1>1. /\ f \in Entry /\ f.flag = e.flag /\ f.reqCount = e.reqCount
      /\ GoodEntry(a, [f EXCEPT !.reqCount = 0]) /\ (NoHop(f) => NoHop(e))
  BY DEF GoodEntry, NoHop, Entry
<1>2. /\ g \in Entry /\ g.flag = e.flag /\ g.reqCount = e.reqCount
      /\ GoodEntry(a, [g EXCEPT !.reqCount = 0]) /\ (NoHop(g) => NoHop(e))
  BY DEF GoodEntry, NoHop, Entry
<1>3. Calm(src, Update(t, a, f))
  <2> HIDE DEF f
  <2> QED BY <1>1, UpdateCalm
<1>4. Calm(src, Update(t, a, g))
  <2> HIDE DEF g
  <2> QED BY <1>2, UpdateCalm
<1>5. QED BY <1>3, <1>4

\* An entry of a good table justifies itself.
LEMMA OwnEntry ==
  ASSUME NEW t, GoodTable(t), NEW a \in Addr
  PROVE  t[a] \in Entry /\ GoodEntry(a, t[a]) /\ (t[a].flag = "IN_SEARCH" => InSearch(t, a))
BY DEF GoodTable, InSearch

LEMMA PrecursorCalm ==
  ASSUME NEW t, GoodTable(t), NEW a \in Addr, NEW p \in Addr \cup {NoAddr}
  PROVE  Calm(t, InsertPrecursor(t, a, p))
<1> DEFINE P == t[a].precursors \cup {p}
<1>1. t[a] \in Entry /\ GoodEntry(a, t[a]) /\ (t[a].flag = "IN_SEARCH" => InSearch(t, a))
  BY OwnEntry
<1>2. P \in SUBSET (Addr \cup {NoAddr})
  BY <1>1 DEF Entry
<1>3. [t[a] EXCEPT !.precursors = @ \cup {p}] = [t[a] EXCEPT !.precursors = P]
  BY <1>1 DEF Entry
<1> HIDE DEF P
<1>4. Calm(t, Update(t, a, [t[a] EXCEPT !.precursors = P]))
  BY <1>1, <1>2, CalmReflexive, RewriteCalm
<1>5. QED BY <1>3, <1>4 DEF InsertPrecursor

LEMMA RelayCalm ==
  ASSUME NEW t, GoodTable(t), NEW d \in Addr, NEW o \in Addr
  PROVE  Calm(t, RelayReply(t, d, o))
<1> DEFINE t1 == Update(t, o, [t[o] EXCEPT !.live = TRUE])
           toOrigin == t1[o]
           towards == t1[d].nextHop
           back == toOrigin.nextHop
           t2 == InsertPrecursor(t1, d, back)
           t3 == IF towards \in Addr THEN InsertPrecursor(t2, towards, back) ELSE t2
           t4 == Update(t3, o, [toOrigin EXCEPT !.precursors = @ \cup {towards}])
           t5 == IF back \in Addr THEN InsertPrecursor(t4, back, towards) ELSE t4
<1>1. Calm(t, t1)
  <2>1. t[o] \in Entry /\ GoodEntry(o, t[o]) /\ (t[o].flag = "IN_SEARCH" => InSearch(t, o))
    BY OwnEntry
  <2>2. QED BY <2>1, CalmReflexive, RewriteCalm
<1>2. GoodTable(t1) /\ toOrigin \in Entry /\ GoodEntry(o, toOrigin)
  BY <1>1 DEF Calm, Quiet, GoodTable
<1>3. towards \in Addr \cup {NoAddr} /\ back \in Addr \cup {NoAddr}
  BY <1>2 DEF GoodTable, Entry
<1>4. CASE ~Present(t, o) \/ InSearch(t, o)
  BY <1>4, CalmReflexive DEF RelayReply, KnowsOrigin
<1>5. CASE Present(t, o) /\ ~InSearch(t, o) /\ ~IsValid(t1, d)
  <2>1. RelayReply(t, d, o) = t1
    BY <1>5 DEF RelayReply, KnowsOrigin
  <2>2. QED BY <1>1, <2>1
<1>6. CASE Present(t, o) /\ ~InSearch(t, o) /\ IsValid(t1, d)
  <2> HIDE DEF t1
  <2>1. toOrigin.flag # "IN_SEARCH"
    BY <1>1, <1>6 DEF Calm, Quiet, NoNewSearch, InSearch
  <2>2. Calm(t1, t2)
    BY <1>2, <1>3, PrecursorCalm
  <2>3. Calm(t1, t3)
    <3> HIDE DEF t2
    <3>1. CASE towards \in Addr
      <4>1. Calm(t2, t3)
        BY <2>2, <3>1, <1>3, PrecursorCalm DEF Calm, Quiet
      <4>2. QED BY <2>2, <4>1, CalmTransitive
    <3>2. CASE towards \notin Addr
      BY <2>2, <3>2
    <3>3. QED BY <3>1, <3>2
  <2>4. Calm(t1, t4)
    <3>1. DEFINE P == toOrigin.precursors \cup {towards}
    <3>2. P \in SUBSET (Addr \cup {NoAddr})
      BY <1>2, <1>3 DEF Entry
    <3>3. [toOrigin EXCEPT !.precursors = @ \cup {towards}] = [toOrigin EXCEPT !.precursors = P]
      BY <1>2 DEF Entry
    <3> HIDE DEF P, t3
    <3>4. Calm(t1, Update(t3, o, [toOrigin EXCEPT !.precursors = P]))
      BY <1>2, <2>1, <2>3, <3>2, RewriteCalm
    <3>5. QED BY <3>3, <3>4
  <2>5. Calm(t1, t5)
    <3> HIDE DEF t4
    <3>1. CASE back \in Addr
      <4>1. Calm(t4, t5)
        BY <2>4, <3>1, <1>3, PrecursorCalm DEF Calm, Quiet
      <4>2. QED BY <2>4, <4>1, CalmTransitive
    <3>2. CASE back \notin Addr
      BY <2>4, <3>2
    <3>3. QED BY <3>1, <3>2
  <2>6. RelayReply(t, d, o) = t5
    BY <1>6 DEF RelayReply, KnowsOrigin, t1
  <2> HIDE DEF t2, t3, t4, t5
  <2>7. QED BY <1>1, <2>5, <2>6, CalmTransitive
<1>7. QED BY <1>4, <1>5, <1>6

\* Once its count is forgotten, an entry needs only a length that fits its next
\* hop, and an interface.
LEMMA ResetGood ==
  ASSUME NEW a \in Addr, NEW e \in Entry, (e.hop = 0) <=> (e.nextHop = NoAddr),
         e.hop = 1 => e.nextHop = a, e.iface # NoIface
  PROVE  GoodEntry(a, [e EXCEPT !.reqCount = 0])
<1> DEFINE f == [e EXCEPT !.reqCount = 0]
<1>1. f \in Entry
  BY DEF Entry
<1>2. /\ f.flag = e.flag /\ f.nextHop = e.nextHop /\ f.hop = e.hop /\ f.reqCount = 0
      /\ f.iface = e.iface
  BY DEF Entry
<1> HIDE DEF f
<1>3. GoodEntry(a, f)
  BY <1>1, <1>2 DEF GoodEntry
<1>4. QED BY <1>3 DEF f

LEMMA ReverseCalm ==
  ASSUME NEW t, GoodTable(t), NEW o \in Addr, NEW s \in Addr, NEW seq \in Nat,
         NEW hop \in Nat \ {0}, hop = 1 => s = o
  PROVE  Calm(t, ReverseRoute(t, o, seq, hop, s))
<1> DEFINE new == NewEntry(TRUE, seq, hop, s, IfaceOf[s])
<1>1. IfaceOf[s] \in Iface /\ IfaceOf[s] # NoIface
  BY AddressesAssumption, NoIfaceAssumption
<1>2. CASE ~Present(t, o)
  <2>1. GoodEntry(o, new) /\ new.flag = "VALID" /\ ~NoHop(new)
    BY <1>1, NoAddrAssumption, NoIfaceAssumption DEF GoodEntry, NewEntry, NoHop, Entry, Flags
  <2>2. QED BY <1>2, <2>1, AddCalm DEF ReverseRoute
<1>3. CASE Present(t, o)
  <2> DEFINE n == IF ~t[o].validSeqNo \/ seq > t[o].seqNo THEN seq ELSE t[o].seqNo
             e == [t[o] EXCEPT !.seqNo = n, !.validSeqNo = TRUE, !.nextHop = s,
                               !.iface = IfaceOf[s], !.hop = hop, !.live = TRUE]
  <2>1. t[o] \in Entry /\ GoodEntry(o, t[o]) /\ n \in Nat
    BY DEF GoodTable, Entry
  <2>2. ReverseRoute(t, o, seq, hop, s) = Update(t, o, e)
    <3>1. e = [t[o] EXCEPT !.seqNo = IF ~t[o].validSeqNo \/ seq > t[o].seqNo THEN seq ELSE @,
                           !.validSeqNo = TRUE, !.nextHop = s, !.iface = IfaceOf[s],
                           !.hop = hop, !.live = TRUE]
      BY <2>1 DEF Entry
    <3>2. QED BY <1>3, <3>1 DEF ReverseRoute
  <2> HIDE DEF n
  <2>3. e \in Entry
    BY <1>1, <2>1 DEF Entry
  <2>4. /\ e.flag = t[o].flag /\ e.nextHop = s /\ e.hop = hop /\ e.iface = IfaceOf[s]
        /\ e.reqCount = t[o].reqCount
    BY <2>1 DEF Entry
  <2> HIDE DEF e
  <2>5. GoodEntry(o, [e EXCEPT !.reqCount = 0])
    BY <1>1, <2>3, <2>4, NoAddrAssumption, ResetGood
  <2>6. /\ e.flag = "IN_SEARCH" => InSearch(t, o) /\ e.reqCount = t[o].reqCount
        /\ ~NoHop(e)
    BY <2>4, NoAddrAssumption DEF InSearch, NoHop
  <2>7. QED BY <2>2, <2>3, <2>5, <2>6, CalmReflexive, UpdateCalm
<1>4. QED BY <1>2, <1>3

LEMMA BreakCalm ==
  ASSUME NEW t, GoodTable(t), NEW ns
  PROVE  Calm(t, BreakLinks(t, ns))
BY InvalidateCalm DEF BreakLinks

\* The stale copies: both were taken from src, which had no search t lacks.
LEMMA ReplyFromTableCalm ==
  ASSUME NEW src, GoodTable(src), NEW t, Calm(src, t), NEW d \in Addr, NEW o \in Addr
  PROVE  Calm(src, ReplyFromTable(t, src, d, o))
<1> DEFINE P == src[d].precursors \cup {src[o].nextHop}
           Q == src[o].precursors \cup {src[d].nextHop}
           t1 == Update(t, d, [src[d] EXCEPT !.precursors = P])
           t2 == Update(t1, o, [src[o] EXCEPT !.precursors = Q])
<1>1. /\ src[d] \in Entry /\ GoodEntry(d, src[d]) /\ (src[d].flag = "IN_SEARCH" => InSearch(src, d))
      /\ src[o] \in Entry /\ GoodEntry(o, src[o]) /\ (src[o].flag = "IN_SEARCH" => InSearch(src, o))
  BY OwnEntry
<1>2. ReplyFromTable(t, src, d, o) = t2
  BY <1>1 DEF ReplyFromTable, Entry
<1>3. P \in SUBSET (Addr \cup {NoAddr}) /\ Q \in SUBSET (Addr \cup {NoAddr})
  BY <1>1 DEF Entry
<1> HIDE DEF P, Q
<1>4. Calm(src, t1)
  BY <1>1, <1>3, RewriteCalm
<1> HIDE DEF t1
<1>5. Calm(src, t2)
  BY <1>1, <1>3, <1>4, RewriteCalm
<1>6. QED BY <1>2, <1>5

\* RecvReplyAck: the sender's entry becomes VALID.
LEMMA ReactivateCalm ==
  ASSUME NEW t, GoodTable(t), NEW s \in Addr, t[s].hop = 1, t[s].nextHop = s
  PROVE  Calm(t, Update(t, s, [t[s] EXCEPT !.flag = "VALID"]))
<1> DEFINE e == [t[s] EXCEPT !.flag = "VALID"]
<1>1. t[s] \in Entry /\ GoodEntry(s, t[s]) /\ s # NoAddr
  BY NoAddrAssumption DEF GoodTable
<1>2. t[s].iface # NoIface
  BY <1>1 DEF GoodEntry
<1>3. e \in Entry /\ e.flag = "VALID" /\ e.hop = 1 /\ e.nextHop = s /\ e.iface = t[s].iface
  BY <1>1 DEF Entry, Flags
<1> HIDE DEF e
<1>4. GoodEntry(s, [e EXCEPT !.reqCount = 0]) /\ ~NoHop(e)
  BY <1>1, <1>2, <1>3, ResetGood DEF NoHop
<1>5. QED BY <1>3, <1>4, CalmReflexive, UpdateCalm DEF e

\* RecvHello starts no search; it breaks no other route than that to the address
\* it names, and not this one if it is the sender's, which was just noted.
LEMMA HelloQuiet ==
  ASSUME NEW t, GoodTable(t), NEW s \in Addr, NEW seq \in Nat, t[s].nextHop = s
  PROVE  LET u == HelloRoute(t, s, seq)
         IN  /\ Quiet(t, u)
             /\ \A a \in Addr : NoHop(u[a]) => NoHop(t[a]) \/ (a = MainOf[s] /\ a # s)
<1> DEFINE o == MainOf[s]
           new == NewEntry(TRUE, seq, 1, o, IfaceOf[s])
           f == Refreshed(t[o], seq, IfaceOf[s])
<1>1. o \in Addr /\ o # NoAddr /\ IfaceOf[s] \in Iface /\ IfaceOf[s] # NoIface
  BY AddressesAssumption, NoIfaceAssumption, NoAddrAssumption
<1>2. CASE ~Present(t, o)
  <2>1. GoodEntry(o, new) /\ new.flag = "VALID" /\ ~NoHop(new)
    BY <1>1, NoAddrAssumption, NoIfaceAssumption DEF GoodEntry, NewEntry, NoHop, Entry, Flags
  <2>2. Calm(t, AddRoute(t, o, new))
    BY <1>1, <2>1, AddCalm
  <2>3. QED BY <1>2, <2>2 DEF HelloRoute, Calm, NoNewBroken
<1>3. CASE Present(t, o)
  <2>1. HelloRoute(t, s, seq) = [t EXCEPT ![o] = Stored(f)]
    BY <1>3 DEF HelloRoute, Update
  <2>2. t[o] \in Entry /\ GoodEntry(o, t[o])
    BY <1>1 DEF GoodTable
  <2>3. /\ Stored(f) \in Entry /\ Stored(f).flag = "VALID" /\ Stored(f).reqCount = 0
        /\ Stored(f).hop = t[o].hop /\ Stored(f).nextHop = t[o].nextHop
        /\ Stored(f).iface = IfaceOf[s]
    <3>1. f \in Entry /\ f.flag = "VALID" /\ f.hop = t[o].hop /\ f.nextHop = t[o].nextHop
          /\ f.iface = IfaceOf[s]
      BY <1>1, <2>2 DEF Refreshed, Entry, Flags
    <3> HIDE DEF f
    <3>2. QED BY <3>1 DEF Stored, Entry
  <2> HIDE DEF f
  <2>4. GoodEntry(o, Stored(f))
    BY <1>1, <2>2, <2>3 DEF GoodEntry
  <2>5. o = s => ~NoHop(Stored(f))
    BY <1>1, <2>3 DEF NoHop
  <2>6. QED BY <1>1, <2>1, <2>3, <2>4, <2>5 DEF Quiet, GoodTable, NoNewSearch, InSearch
<1>4. QED BY <1>2, <1>3

=============================================================================
