-------------------------- MODULE PrecursorProofs ---------------------------
(***************************************************************************)
(* More lemmas about the routing table, for what the others depend on: who *)
(* becomes a precursor, and which routes become invalid.  All operations   *)
(* of the handlers but those for broken links, RERRs and HELLOs are mild:  *)
(* applied to a settled table they leave a settled table, break and        *)
(* invalidate nothing, and put nobody but neighbours on a list of          *)
(* precursors if every route of the table has a next hop.                  *)
(***************************************************************************)
EXTENDS RouteDiscoveryProofs

-----------------------------------------------------------------------------
(* Settled tables. *)

\* A settled table: good and purged.
Settled(t) ==
  /\ GoodTable(t)
  /\ \A a \in Addr : t[a].live \/ InSearch(t, a)

\* No route of the table leads nowhere.
Whole(t) == \A a \in Addr : ~NoHop(t[a])

\* Every new precursor is a neighbour, not the next hop of an entry without one.
Honest(t, u) == \A a \in Addr : u[a].precursors \subseteq t[a].precursors \cup Addr

\* No entry is INVALID in u that is not in t.
NoLoss(t, u) == \A a \in Addr : u[a].flag = "INVALID" => t[a].flag = "INVALID"

Mild(t, u) ==
  /\ Settled(u)
  /\ NoLoss(t, u)
  /\ NoNewBroken(t, u)
  /\ Whole(t) => Honest(t, u)

LEMMA MildReflexive ==
  ASSUME NEW t, Settled(t)
  PROVE  Mild(t, t)
BY DEF Mild, NoLoss, NoNewBroken, Honest

LEMMA MildTransitive ==
  ASSUME NEW t, NEW u, NEW v, Mild(t, u), Mild(u, v)
  PROVE  Mild(t, v)
<1>1. Settled(v) /\ NoLoss(t, v) /\ NoNewBroken(t, v)
  BY DEF Mild, NoLoss, NoNewBroken
<1>2. ASSUME Whole(t)
      PROVE  Honest(t, v)
  <2>1. Whole(u)
    BY <1>2 DEF Mild, Whole, NoNewBroken
  <2>2. Honest(t, u) /\ Honest(u, v)
    BY <1>2, <2>1 DEF Mild
  <2>3. QED BY <2>2 DEF Honest
<1>3. QED BY <1>1, <1>2 DEF Mild

LEMMA PurgeSettles ==
  ASSUME NEW t, GoodTable(t)
  PROVE  Settled(Purge(t))
<1>1. GoodTable(Purge(t))
  BY PurgeCalm DEF Calm, Quiet
<1>2. \A a \in Addr : PurgeEntry(t[a]).live \/ PurgeEntry(t[a]).flag = "IN_SEARCH"
  <2> SUFFICES ASSUME NEW a \in Addr
               PROVE  PurgeEntry(t[a]).live \/ PurgeEntry(t[a]).flag = "IN_SEARCH"
    OBVIOUS
  <2>1. t[a] \in Entry
    BY DEF GoodTable
  <2>2. CASE t[a].live \/ t[a].flag = "IN_SEARCH"
    BY <2>1, <2>2 DEF PurgeEntry
  <2>3. CASE ~t[a].live /\ t[a].flag = "VALID"
    BY <2>1, <2>3 DEF PurgeEntry, Invalidate, Entry
  <2>4. CASE ~t[a].live /\ t[a].flag \notin {"IN_SEARCH", "VALID"}
    BY <2>4 DEF PurgeEntry, NoRoute
  <2>5. QED BY <2>2, <2>3, <2>4
<1>3. QED BY <1>1, <1>2 DEF Settled, Purge, InSearch

\* Purging removes precursors, and adds none.
LEMMA PurgeHonest ==
  ASSUME NEW t, GoodTable(t)
  PROVE  \A a \in Addr : Purge(t)[a].precursors \subseteq t[a].precursors
<1> SUFFICES ASSUME NEW a \in Addr
             PROVE  PurgeEntry(t[a]).precursors \subseteq t[a].precursors
  BY DEF Purge
<1>1. t[a] \in Entry
  BY DEF GoodTable
<1>2. QED BY <1>1 DEF PurgeEntry, Invalidate, NoRoute, Entry

\* A settled table has nothing to purge.
LEMMA SettledIsPurged ==
  ASSUME NEW t, Settled(t)
  PROVE  Purge(t) = t
<1>1. \A a \in Addr : PurgeEntry(t[a]) = t[a]
  BY DEF Settled, PurgeEntry, InSearch
<1>2. t = [a \in Addr |-> t[a]]
  BY DEF Settled, GoodTable
<1>3. QED BY <1>1, <1>2 DEF Purge

\* Update with an entry that src justifies.
LEMMA UpdateMild ==
  ASSUME NEW src, NEW t, Mild(src, t), NEW a \in Addr, NEW e \in Entry,
         GoodTable(Update(t, a, e)), e.live \/ e.flag = "IN_SEARCH",
         Whole(src) => e.precursors \subseteq src[a].precursors \cup Addr,
         NoHop(e) => NoHop(src[a]), e.flag = "INVALID" => src[a].flag = "INVALID"
  PROVE  Mild(src, Update(t, a, e))
<1>1. CASE ~Present(t, a)
  BY <1>1 DEF Update
<1>2. CASE Present(t, a)
  <2> DEFINE f == Stored(e)
  <2>1. Update(t, a, e) = [t EXCEPT ![a] = f]
    BY <1>2 DEF Update
  <2>2. /\ f.flag = e.flag /\ f.live = e.live /\ f.precursors = e.precursors
        /\ NoHop(f) => NoHop(e)
    BY DEF Stored, NoHop, Entry
  <2> HIDE DEF f
  <2>3. \A b \in Addr : Update(t, a, e)[b] = IF b = a THEN f ELSE t[b]
    BY <2>1 DEF Mild, Settled, GoodTable
  <2> DEFINE u == Update(t, a, e)
  <2> HIDE DEF u
  <2>4. Settled(u) /\ NoLoss(src, u) /\ NoNewBroken(src, u)
    BY <2>2, <2>3 DEF Mild, Settled, NoLoss, NoNewBroken, InSearch, u
  <2>5. Whole(src) => Honest(src, u)
    BY <2>2, <2>3 DEF Mild, Honest, u
  <2>6. QED BY <2>4, <2>5 DEF Mild, u
<1>3. QED BY <1>1, <1>2

\* Storing a new VALID entry, in either way.
LEMMA NewEntryMild ==
  ASSUME NEW t, Settled(t), NEW a \in Addr, NEW e, GoodEntry(a, e), e.flag = "VALID",
         ~NoHop(e), e.live, e.precursors = {}
  PROVE  Mild(t, Update(t, a, e)) /\ Mild(t, AddRoute(t, a, e))
<1>1. e \in Entry
  BY DEF GoodEntry
<1>2. GoodTable(t) /\ Purge(t) = t /\ Mild(t, t)
  BY SettledIsPurged, MildReflexive DEF Settled
<1>3. Mild(t, Update(t, a, e))
  <2>1. GoodTable(Update(t, a, e))
    BY <1>2, OverwriteCalm DEF Calm, Quiet
  <2>2. QED BY <1>1, <1>2, <2>1, UpdateMild
<1>4. Mild(t, AddRoute(t, a, e))
  <2>1. Calm(t, AddRoute(t, a, e))
    BY <1>2, AddCalm
  <2>2. CASE Present(t, a)
    BY <1>2, <2>2 DEF AddRoute
  <2>3. CASE ~Present(t, a)
    <3>1. AddRoute(t, a, e) = [t EXCEPT ![a] = Stored(e)]
      BY <1>2, <2>3 DEF AddRoute
    <3>2. Stored(e).flag = "VALID" /\ Stored(e).live /\ Stored(e).precursors = {}
      BY <1>1 DEF Stored, Entry
    <3>3. QED BY <2>1, <3>1, <3>2
              DEF Calm, Quiet, Mild, Settled, GoodTable, NoLoss, Honest, InSearch
  <2>4. QED BY <2>2, <2>3
<1>5. QED BY <1>3, <1>4

\* An entry that names a neighbour is such an entry.
LEMMA NewEntryFits ==
  ASSUME NEW a \in Addr, NEW s \in Addr, NEW seq \in Nat, NEW hop \in Nat \ {0},
         NEW known \in BOOLEAN, hop = 1 => s = a, NEW i \in Addr
  PROVE  LET e == NewEntry(known, seq, hop, s, IfaceOf[i])
         IN  GoodEntry(a, e) /\ e.flag = "VALID" /\ ~NoHop(e) /\ e.live /\ e.precursors = {}
<1>1. IfaceOf[i] \in Iface
  BY AddressesAssumption
<1>2. QED BY <1>1, NoAddrAssumption, NoIfaceAssumption
          DEF GoodEntry, NewEntry, NoHop, Entry, Flags

-----------------------------------------------------------------------------
(* The handlers' operations. *)

LEMMA HeardMild ==
  ASSUME NEW t, GoodTable(t), NEW s \in Addr
  PROVE  Mild(Purge(t), UpdateRouteToNeighbor(t, s))
<1> DEFINE u == Purge(t)
           direct == NewEntry(FALSE, 0, 1, s, IfaceOf[s])
<1>1. Settled(u)
  BY PurgeSettles
<1>2. /\ GoodEntry(s, direct) /\ direct.flag = "VALID" /\ ~NoHop(direct)
      /\ direct.live /\ direct.precursors = {}
  <2>1. IfaceOf[s] \in Iface
    BY AddressesAssumption
  <2>2. QED BY <2>1, NoAddrAssumption, NoIfaceAssumption
            DEF GoodEntry, NewEntry, NoHop, Entry, Flags
<1>3. UpdateRouteToNeighbor(t, s) \in {u, Update(u, s, direct), AddRoute(u, s, direct)}
  BY DEF UpdateRouteToNeighbor
<1> HIDE DEF u, direct
<1>4. Mild(u, Update(u, s, direct)) /\ Mild(u, AddRoute(u, s, direct)) /\ Mild(u, u)
  BY <1>1, <1>2, NewEntryMild, MildReflexive
<1>5. QED BY <1>3, <1>4 DEF u

LEMMA ForwardMild ==
  ASSUME NEW t, Settled(t), NEW d \in Addr, NEW e, GoodEntry(d, e), e.flag = "VALID",
         ~NoHop(e), e.live, e.precursors = {}
  PROVE  Mild(t, ForwardRoute(t, d, e))
<1>1. Mild(t, Update(t, d, e)) /\ Mild(t, AddRoute(t, d, e)) /\ Mild(t, t)
  BY NewEntryMild, MildReflexive
<1>2. QED BY <1>1 DEF ForwardRoute

\* The reverse route leads back to the sender.
LEMMA ReverseMild ==
  ASSUME NEW t, Settled(t), NEW o \in Addr, NEW s \in Addr, NEW seq \in Nat,
         NEW hop \in Nat \ {0}, hop = 1 => s = o
  PROVE  /\ Mild(t, ReverseRoute(t, o, seq, hop, s))
         /\ ReverseRoute(t, o, seq, hop, s)[o].nextHop = s
<1>1. GoodTable(t) /\ GoodTable(ReverseRoute(t, o, seq, hop, s)) /\ Purge(t) = t
  BY ReverseCalm, SettledIsPurged
     DEF Calm, Quiet, Settled
<1>2. CASE ~Present(t, o)
  <2> DEFINE e == NewEntry(TRUE, seq, hop, s, IfaceOf[s])
  <2>1. ReverseRoute(t, o, seq, hop, s) = AddRoute(t, o, e)
    BY <1>2 DEF ReverseRoute
  <2>2. Mild(t, AddRoute(t, o, e))
    BY NewEntryFits, NewEntryMild
  <2>3. AddRoute(t, o, e) = [t EXCEPT ![o] = Stored(e)]
    BY <1>1, <1>2 DEF AddRoute
  <2>4. Stored(e).nextHop = s
    BY DEF Stored, NewEntry
  <2> HIDE DEF e
  <2>5. QED BY <1>1, <2>1, <2>2, <2>3, <2>4 DEF GoodTable
<1>3. CASE Present(t, o)
  <2> DEFINE n == IF ~t[o].validSeqNo \/ seq > t[o].seqNo THEN seq ELSE t[o].seqNo
             e == [t[o] EXCEPT !.seqNo = n, !.validSeqNo = TRUE, !.nextHop = s,
                               !.iface = IfaceOf[s], !.hop = hop, !.live = TRUE]
  <2>1. t[o] \in Entry /\ n \in Nat /\ IfaceOf[s] \in Iface
    BY AddressesAssumption DEF Settled, GoodTable, Entry
  <2>2. ReverseRoute(t, o, seq, hop, s) = Update(t, o, e)
    <3>1. e = [t[o] EXCEPT !.seqNo = IF ~t[o].validSeqNo \/ seq > t[o].seqNo THEN seq ELSE @,
                           !.validSeqNo = TRUE, !.nextHop = s, !.iface = IfaceOf[s],
                           !.hop = hop, !.live = TRUE]
      BY <2>1 DEF Entry
    <3>2. QED BY <1>3, <3>1 DEF ReverseRoute
  <2> HIDE DEF n
  <2>3. /\ e \in Entry /\ e.live /\ e.flag = t[o].flag
        /\ e.precursors = t[o].precursors /\ e.nextHop = s
    BY <2>1 DEF Entry
  <2> HIDE DEF e
  <2>4. Mild(t, Update(t, o, e))
    <3>1. ~NoHop(e)
      BY <2>3, NoAddrAssumption DEF NoHop
    <3>2. QED BY <1>1, <2>2, <2>3, <3>1, MildReflexive, UpdateMild
  <2>5. Update(t, o, e) = [t EXCEPT ![o] = Stored(e)] /\ Stored(e).nextHop = s
    BY <1>3, <2>3 DEF Update, Stored, Entry
  <2>6. QED BY <1>1, <2>2, <2>4, <2>5 DEF GoodTable
<1>4. QED BY <1>2, <1>3

\* A further precursor.
LEMMA InsertMild ==
  ASSUME NEW src, NEW t, Mild(src, t), NEW a \in Addr, NEW p \in Addr \cup {NoAddr},
         Whole(src) => p \in Addr
  PROVE  Mild(src, InsertPrecursor(t, a, p))
<1> DEFINE P == t[a].precursors \cup {p}
           e == [t[a] EXCEPT !.precursors = P]
<1>1. t[a] \in Entry /\ Settled(t) /\ GoodTable(t)
  BY DEF Mild, Settled, GoodTable
<1>2. /\ P \in SUBSET (Addr \cup {NoAddr})
      /\ Whole(src) => P \subseteq src[a].precursors \cup Addr
  BY <1>1 DEF Mild, Honest, Entry
<1>3. InsertPrecursor(t, a, p) = Update(t, a, e)
  BY <1>1 DEF InsertPrecursor, Entry
<1> HIDE DEF P
<1>4. /\ e \in Entry /\ e.flag = t[a].flag /\ e.live = t[a].live /\ e.precursors = P
      /\ NoHop(e) <=> NoHop(t[a])
  BY <1>1, <1>2 DEF NoHop, Entry
<1> HIDE DEF e
<1>5. GoodTable(Update(t, a, e))
  BY <1>1, <1>3, PrecursorCalm DEF Calm, Quiet
<1>6. e.live \/ e.flag = "IN_SEARCH"
  BY <1>1, <1>4 DEF Settled, InSearch
<1>7. (NoHop(e) => NoHop(src[a])) /\ (e.flag = "INVALID" => src[a].flag = "INVALID")
  BY <1>4 DEF Mild, NoLoss, NoNewBroken
<1>8. QED BY <1>2, <1>3, <1>4, <1>5, <1>6, <1>7, UpdateMild

\* RecvReply passes on next hops of entries that are VALID, or at least not
\* under search: in a whole table they have one.
LEMMA RelayMild ==
  ASSUME NEW t, Settled(t), NEW d \in Addr, NEW o \in Addr
  PROVE  Mild(t, RelayReply(t, d, o))
<1> DEFINE l == [t[o] EXCEPT !.live = TRUE]
           t1 == Update(t, o, l)
           toOrigin == t1[o]
           towards == t1[d].nextHop
           back == toOrigin.nextHop
           t2 == InsertPrecursor(t1, d, back)
           t3 == IF towards \in Addr THEN InsertPrecursor(t2, towards, back) ELSE t2
           t4 == Update(t3, o, [toOrigin EXCEPT !.precursors = @ \cup {towards}])
           t5 == IF back \in Addr THEN InsertPrecursor(t4, back, towards) ELSE t4
<1>1. Mild(t, t)
  BY MildReflexive
<1>2. CASE ~KnowsOrigin(t, o)
  BY <1>1, <1>2 DEF RelayReply
<1>3. CASE KnowsOrigin(t, o)
  <2>1. t[o] \in Entry /\ GoodEntry(o, t[o]) /\ GoodTable(t)
    BY DEF Settled, GoodTable
  <2>2. /\ l \in Entry /\ l.live /\ l.flag = t[o].flag /\ l.nextHop = t[o].nextHop
        /\ l.precursors = t[o].precursors
    BY <2>1 DEF Entry
  <2>3. GoodTable(t1)
    BY <2>1, CalmReflexive, RewriteCalm, t[o].flag = "IN_SEARCH" => InSearch(t, o)
       DEF Calm, Quiet, InSearch
  <2> HIDE DEF l
  <2>4. Mild(t, t1)
    BY <1>1, <2>2, <2>3, UpdateMild DEF NoHop
  <2>5. toOrigin.flag = t[o].flag /\ toOrigin.nextHop = t[o].nextHop /\ toOrigin.live
    BY <1>3, <2>1, <2>2 DEF KnowsOrigin, Update, Stored, Entry, GoodTable
  <2>6. /\ Settled(t1) /\ toOrigin \in Entry /\ GoodEntry(o, toOrigin) /\ t1[d] \in Entry
        /\ towards \in Addr \cup {NoAddr} /\ back \in Addr \cup {NoAddr}
    BY <2>4 DEF Mild, Settled, GoodTable, Entry
  <2>7. toOrigin.flag \in {"VALID", "INVALID"} /\ (Whole(t1) => back \in Addr)
    <3>1. t[o].flag \in {"VALID", "INVALID"}
      BY <1>3, <2>1 DEF KnowsOrigin, Present, InSearch, Entry, Flags
    <3>2. QED BY <2>5, <2>6, <3>1 DEF Whole, NoHop
  <2>8. CASE ~IsValid(t1, d)
    <3>1. RelayReply(t, d, o) = t1
      BY <1>3, <2>8 DEF RelayReply, KnowsOrigin, l
    <3>2. QED BY <2>4, <3>1
  <2>9. CASE IsValid(t1, d)
    <3>1. RelayReply(t, d, o) = t5
      BY <1>3, <2>9 DEF RelayReply, KnowsOrigin, l
    <3>2. Whole(t1) => towards \in Addr
      BY <2>6, <2>9 DEF Whole, NoHop, IsValid
    <3> DEFINE Q == toOrigin.precursors \cup {towards}
               f == [toOrigin EXCEPT !.precursors = Q]
    <3>3. Q \in SUBSET (Addr \cup {NoAddr})
      BY <2>6 DEF Entry
    <3>4. t4 = Update(t3, o, f)
      BY <2>6 DEF Entry
    <3>5. Whole(t1) => Q \subseteq t1[o].precursors \cup Addr
      BY <3>2
    <3>6. Mild(t1, t1)
      BY <2>6, MildReflexive
    <3> HIDE DEF t1, Q
    <3>7. /\ f \in Entry /\ f.flag = toOrigin.flag /\ f.live = toOrigin.live
          /\ f.precursors = Q
          /\ NoHop(f) <=> NoHop(toOrigin)
      BY <2>6, <3>3 DEF Entry, NoHop
    <3>8. Mild(t1, t2)
      BY <2>6, <2>7, <3>6, InsertMild
    <3> HIDE DEF t2, towards
    <3>9. Mild(t1, t3)
      <4> HIDE DEF back
      <4>1. QED BY <2>6, <2>7, <3>8, InsertMild
    <3> HIDE DEF t3
    <3>10. Mild(t1, t4)
      <4>1. GoodTable(Update(t3, o, f))
        <5>1. GoodTable(t3) /\ toOrigin.flag # "IN_SEARCH"
          BY <2>7, <3>9 DEF Mild, Settled
        <5>2. Calm(t1, t1) /\ GoodTable(t1)
          BY <2>6, CalmReflexive DEF Settled
        <5>3. Quiet(t3, Update(t3, o, f))
          <6>1. GoodEntry(o, f) /\ [f EXCEPT !.reqCount = 0] = f
            BY <2>6, <3>3, <3>7, <5>1 DEF GoodEntry, Entry
          <6>2. Stored(f) = f
            BY <6>1 DEF Stored
          <6> HIDE DEF f
          <6>3. QED BY <3>7, <5>1, <6>1, <6>2
                    DEF Update, Quiet, GoodTable, NoNewSearch, InSearch
        <5>4. QED BY <5>3 DEF Quiet
      <4> HIDE DEF f
      <4>2. QED BY <2>5, <3>4, <3>5, <3>7, <3>9, <4>1, UpdateMild
    <3> HIDE DEF t4
    <3>11. Mild(t1, t5)
      BY <2>6, <3>2, <3>10, InsertMild
    <3> HIDE DEF t5
    <3>12. QED BY <2>4, <3>1, <3>11, MildTransitive
  <2>10. QED BY <2>8, <2>9
<1>4. QED BY <1>2, <1>3

-----------------------------------------------------------------------------
(* Broken links, and answers from copies. *)

\* What InvalidateRoutesWithDst changes in a settled table: flags of VALID
\* entries, not where they lead and whom they serve.
LEMMA InvalidateEffect ==
  ASSUME NEW t, Settled(t), NEW S
  PROVE  LET u == InvalidateRoutesWithDst(t, S)
         IN  /\ Settled(u)
             /\ \A a \in Addr :
                  /\ u[a].precursors = t[a].precursors
                  /\ u[a].nextHop = t[a].nextHop /\ u[a].iface = t[a].iface
                  /\ u[a].flag = IF a \in S /\ IsValid(t, a) THEN "INVALID" ELSE t[a].flag
<1> DEFINE u == InvalidateRoutesWithDst(t, S)
<1>1. GoodTable(u)
  BY InvalidateCalm DEF Settled, Calm, Quiet
<1>2. \A a \in Addr : u[a] = IF a \in S /\ IsValid(t, a) THEN Invalidate(t[a]) ELSE t[a]
  BY SettledIsPurged DEF InvalidateRoutesWithDst
<1> HIDE DEF u
<1>3. ASSUME NEW a \in Addr
      PROVE  /\ u[a].precursors = t[a].precursors
             /\ u[a].nextHop = t[a].nextHop /\ u[a].iface = t[a].iface
             /\ u[a].flag = IF a \in S /\ IsValid(t, a) THEN "INVALID" ELSE t[a].flag
             /\ u[a].live \/ u[a].flag = "IN_SEARCH"
  <2>1. t[a] \in Entry /\ (t[a].live \/ t[a].flag = "IN_SEARCH")
    BY DEF Settled, GoodTable, InSearch
  <2>2. IsValid(t, a) =>
          LET e == Invalidate(t[a])
          IN  /\ e.precursors = t[a].precursors
              /\ e.nextHop = t[a].nextHop /\ e.iface = t[a].iface
              /\ e.flag = "INVALID" /\ e.live
    BY <2>1 DEF Invalidate, Entry, IsValid
  <2>3. QED BY <1>2, <2>1, <2>2
<1>4. QED BY <1>1, <1>3 DEF Settled, InSearch, u

\* SendReplyByIntermediateNode, on a table that lost VALID entries since the
\* copies in src were taken: the entries of d and o are as they were in src.
LEMMA AnswerEffect ==
  ASSUME NEW src, Settled(src), NEW t, Settled(t), NEW d \in Addr, NEW o \in Addr,
         \A a \in Addr : /\ Present(t, a) <=> Present(src, a)
                         /\ t[a].nextHop = src[a].nextHop /\ t[a].iface = src[a].iface
                         /\ t[a].precursors = src[a].precursors
  PROVE  LET u == ReplyFromTable(t, src, d, o)
         IN  /\ src[d].nextHop \in Addr /\ src[o].nextHop \in Addr => Honest(src, u)
             /\ \A a \in Addr : u[a].nextHop = src[a].nextHop /\ u[a].iface = src[a].iface
             /\ \A a \in Addr : u[a].flag = IF a \in {d, o} THEN src[a].flag ELSE t[a].flag
             /\ \A a \in Addr \ {d, o} : u[a] = t[a]
<1> DEFINE P == src[d].precursors \cup {src[o].nextHop}
           Q == src[o].precursors \cup {src[d].nextHop}
           e == [src[d] EXCEPT !.precursors = P]
           f == [src[o] EXCEPT !.precursors = Q]
           t1 == Update(t, d, e)
           u == ReplyFromTable(t, src, d, o)
<1>1. /\ src[d] \in Entry /\ src[o] \in Entry /\ DOMAIN t = Addr
  BY DEF Settled, GoodTable
<1>2. u = Update(t1, o, f)
  BY <1>1 DEF ReplyFromTable, Entry
<1>3. /\ e \in Entry /\ e.flag = src[d].flag /\ e.precursors = P
      /\ f \in Entry /\ f.flag = src[o].flag /\ f.precursors = Q
      /\ e.nextHop = src[d].nextHop /\ f.nextHop = src[o].nextHop
      /\ e.iface = src[d].iface /\ f.iface = src[o].iface
  BY <1>1 DEF Entry
<1> DEFINE Named == src[d].nextHop \in Addr /\ src[o].nextHop \in Addr
<1>0. Named => /\ P \subseteq src[d].precursors \cup Addr
               /\ Q \subseteq src[o].precursors \cup Addr
  OBVIOUS
<1> HIDE DEF P, Q, e, f, u
<1>4. /\ Stored(e).flag = src[d].flag /\ Stored(e).precursors = P
      /\ Stored(f).flag = src[o].flag /\ Stored(f).precursors = Q
      /\ Stored(e).nextHop = src[d].nextHop /\ Stored(f).nextHop = src[o].nextHop
      /\ Stored(e).iface = src[d].iface /\ Stored(f).iface = src[o].iface
  BY <1>3 DEF Stored, Entry
<1>5. /\ \A a \in Addr : t1[a].flag = IF a = d THEN src[a].flag ELSE t[a].flag
      /\ \A a \in Addr : t1[a].nextHop = src[a].nextHop /\ t1[a].iface = src[a].iface
      /\ \A a \in Addr \ {d} : t1[a] = t[a]
      /\ (Named => Honest(src, t1)) /\ DOMAIN t1 = Addr
  <2> HIDE DEF Named
  <2>1. CASE Present(t, d)
    BY <1>0, <1>1, <1>4, <2>1 DEF Update, Honest
  <2>2. CASE ~Present(t, d)
    BY <1>1, <2>2 DEF Update, Honest, Present
  <2>3. QED BY <2>1, <2>2
<1>6. Present(t1, o) <=> Present(src, o)
  BY <1>5 DEF Present
<1> HIDE DEF t1
<1>7. /\ \A a \in Addr : u[a].flag = IF a = o THEN src[a].flag ELSE t1[a].flag
      /\ \A a \in Addr : u[a].nextHop = src[a].nextHop /\ u[a].iface = src[a].iface
      /\ \A a \in Addr \ {o} : u[a] = t1[a]
      /\ Named => Honest(src, u)
  <2> HIDE DEF Named
  <2>1. CASE Present(t1, o)
    BY <1>0, <1>1, <1>2, <1>4, <1>5, <2>1 DEF Update, Honest
  <2>2. CASE ~Present(t1, o)
    BY <1>2, <1>5, <1>6, <2>2 DEF Update, Present
  <2>3. QED BY <2>1, <2>2
<1>8. QED BY <1>5, <1>7 DEF u

-----------------------------------------------------------------------------
(* The steps that break no link. *)

\* No route that is found VALID becomes INVALID.
Kept(t, u) == \A d \in Addr : IsValid(Purge(t), d) => u[d].flag # "INVALID"

Gentle(t, u) == (Whole(t) => Honest(t, u)) /\ Kept(t, u)

\* A table that is as honest towards the purged table is so towards the table.
LEMMA PurgedHonest ==
  ASSUME NEW t, NEW u, GoodTable(t), Whole(t), Whole(Purge(t)) => Honest(Purge(t), u)
  PROVE  Honest(t, u)
<1>1. Whole(Purge(t))
  BY PurgeCalm DEF Calm, NoNewBroken, Whole
<1>2. QED BY <1>1, PurgeHonest DEF Honest

LEMMA MildIsGentle ==
  ASSUME NEW t, NEW u, GoodTable(t), Mild(Purge(t), u)
  PROVE  Gentle(t, u)
BY PurgedHonest DEF Mild, NoLoss, Gentle, Kept, IsValid

LEMMA PurgeGentle ==
  ASSUME NEW t, GoodTable(t)
  PROVE  Gentle(t, Purge(t)) /\ Gentle(t, t)
<1>1. Mild(Purge(t), Purge(t))
  BY PurgeSettles, MildReflexive
<1>2. \A d \in Addr : t[d].flag = "INVALID" => PurgeEntry(t[d]).flag # "VALID"
  BY DEF PurgeEntry, NoRoute
<1>3. Gentle(t, t)
  BY <1>2 DEF Gentle, Honest, Kept, IsValid, Purge
<1>4. QED BY <1>1, <1>3, MildIsGentle

LEMMA DeleteGentle ==
  ASSUME NEW t, GoodTable(t), NEW d \in Addr
  PROVE  Gentle(t, DeleteRoute(Purge(t), d))
<1> DEFINE u == Purge(t)
           v == DeleteRoute(u, d)
<1>1. Settled(u) /\ Purge(u) = u
  BY PurgeSettles, SettledIsPurged
<1>2. v = [u EXCEPT ![d] = NoRoute] /\ DOMAIN u = Addr
  BY <1>1 DEF DeleteRoute, Settled, GoodTable
<1> HIDE DEF u, v
<1>3. NoRoute.flag = "ABSENT" /\ NoRoute.precursors = {}
  BY DEF NoRoute
<1>4. \A a \in Addr : v[a] = IF a = d THEN NoRoute ELSE u[a]
  BY <1>2
<1>5. Honest(u, v) /\ \A a \in Addr : u[a].flag = "VALID" => v[a].flag # "INVALID"
  BY <1>3, <1>4 DEF Honest
<1>6. QED BY <1>5, PurgedHonest DEF Gentle, Kept, IsValid, u, v

LEMMA SendRequestGentle ==
  ASSUME GoodTable(rt), NEW tm, NEW d \in Addr, SendRequest(Purge(rt), tm, d)
  PROVE  Gentle(rt, rt')
<1> DEFINE t == Purge(rt)
<1>1. Settled(t) /\ Purge(t) = t
  BY PurgeSettles, SettledIsPurged
<1>2. CASE RateLimited
  BY <1>2, PurgeGentle DEF SendRequest
<1>3. CASE ~RateLimited
  <2> DEFINE e == SearchEntry(t, d)
             f == [e EXCEPT !.reqCount = NextReqCount(e)]
  <2>1. rt' = [t EXCEPT ![d] = f]
    BY <1>1, <1>3 DEF SendRequest
  <2>2. e \in Entry /\ e.flag = "IN_SEARCH" /\ e.precursors \subseteq t[d].precursors
    <3>1. t[d] \in Entry
      BY <1>1 DEF Settled, GoodTable
    <3>2. NoRoute \in Entry /\ NoRoute.precursors = {}
      BY DEF NoRoute, Entry, Flags
    <3>3. QED BY <1>1, <3>1, <3>2 DEF SearchEntry, Entry, Flags
  <2>3. f.flag = "IN_SEARCH" /\ f.precursors \subseteq t[d].precursors
    BY <2>2 DEF Entry
  <2> HIDE DEF e, f, t
  <2>4. DOMAIN t = Addr
    BY <1>1 DEF Settled, GoodTable
  <2>5. \A a \in Addr : rt'[a] = IF a = d THEN f ELSE t[a]
    BY <2>1, <2>4
  <2>6. Honest(t, rt') /\ \A a \in Addr : t[a].flag = "VALID" => rt'[a].flag # "INVALID"
    BY <2>3, <2>5 DEF Honest
  <2>7. QED BY <2>6, PurgedHonest DEF Gentle, Kept, IsValid, t
<1>4. QED BY <1>2, <1>3

\* A message whose sender is noted, and nothing else.
LEMMA HeardSettled ==
  ASSUME IInv, NEW s \in Addr
  PROVE  Mild(Purge(rt), Heard(s)) /\ Settled(Heard(s))
BY IInvParts, HeardMild DEF Heard, Mild

\* Making an entry VALID whatever else changes in it, but its precursors.
LEMMA ReactivateGentle ==
  ASSUME IInv, NEW s \in Addr, NEW a \in Addr, NEW e \in Entry, e.flag = "VALID",
         e.precursors = Heard(s)[a].precursors, rt' = Update(Heard(s), a, e)
  PROVE  Gentle(rt, rt')
<1> DEFINE t == Heard(s)
<1>1. Settled(t) /\ Mild(Purge(rt), t) /\ GoodTable(t) /\ GoodTable(rt)
  BY IInvParts, HeardSettled DEF Settled
<1> HIDE DEF t
<1>2. Stored(e).flag = "VALID" /\ Stored(e).precursors = t[a].precursors
  BY DEF Stored, Entry, t
<1>3. \A b \in Addr : /\ rt'[b].precursors = t[b].precursors
                      /\ rt'[b].flag = "INVALID" => t[b].flag = "INVALID"
  <2>1. CASE Present(t, a)
    BY <1>1, <1>2, <2>1 DEF Update, GoodTable, t
  <2>2. CASE ~Present(t, a)
    BY <2>2 DEF Update, t
  <2>3. QED BY <2>1, <2>2
<1>4. Whole(Purge(rt)) => Honest(Purge(rt), rt')
  BY <1>1, <1>3 DEF Mild, Honest
<1>5. QED BY <1>1, <1>3, <1>4, PurgedHonest DEF Mild, NoLoss, Gentle, Kept, IsValid

\* RecvReplyAck makes the sender's entry VALID.
LEMMA AckGentle ==
  ASSUME IInv, NEW s \in Addr, RecvReplyAck(s)
  PROVE  Gentle(rt, rt')
<1> DEFINE t == Heard(s)
           e == [t[s] EXCEPT !.flag = "VALID"]
<1>1. t[s] \in Entry /\ rt' = Update(t, s, e)
  BY HeardSettled DEF Settled, GoodTable, RecvReplyAck
<1>2. e \in Entry /\ e.flag = "VALID" /\ e.precursors = t[s].precursors
  BY <1>1 DEF Entry, Flags
<1> HIDE DEF e
<1>3. QED BY <1>1, <1>2, ReactivateGentle

\* RecvHello makes the entry of the address it names VALID, or adds one.
LEMMA HelloGentle ==
  ASSUME IInv, NEW s \in Addr, NEW seq \in SeqNos, RecvHello(s, seq)
  PROVE  Gentle(rt, rt')
<1> DEFINE t == Heard(s)
           o == MainOf[s]
           e == Refreshed(t[o], seq, IfaceOf[s])
           new == NewEntry(TRUE, seq, 1, o, IfaceOf[s])
<1>1. /\ t \in [Addr -> Entry] /\ rt' = HelloRoute(t, s, seq) /\ Settled(t)
      /\ Mild(Purge(rt), t) /\ GoodTable(rt) /\ o \in Addr /\ IfaceOf[s] \in Iface
      /\ seq \in Nat
  BY IInvParts, HeardSettled, AddressesAssumption, MessagesAssumption
     DEF Settled, GoodTable, RecvHello
<1>2. CASE ~Present(t, o)
  <2>1. rt' = AddRoute(t, o, new)
    BY <1>1, <1>2 DEF HelloRoute
  <2>2. /\ GoodEntry(o, new) /\ new.flag = "VALID" /\ ~NoHop(new)
        /\ new.live /\ new.precursors = {}
    BY <1>1, NoAddrAssumption, NoIfaceAssumption DEF GoodEntry, NewEntry, NoHop, Entry, Flags
  <2> HIDE DEF new, t, o
  <2>3. Mild(t, rt')
    BY <1>1, <2>1, <2>2, NewEntryMild
  <2>4. QED BY <1>1, <2>3, MildTransitive, MildIsGentle
<1>3. CASE Present(t, o)
  <2>1. rt' = Update(t, o, e)
    BY <1>1, <1>3 DEF HelloRoute
  <2>2. e \in Entry /\ e.flag = "VALID" /\ e.precursors = t[o].precursors
    <3>1. t[o] \in Entry
      BY <1>1
    <3> HIDE DEF t, o
    <3>2. QED BY <1>1, <3>1 DEF Refreshed, Entry, Flags
  <2>3. o \in Addr
    BY <1>1
  <2> HIDE DEF e, o
  <2>4. QED BY <2>1, <2>2, <2>3, ReactivateGentle
<1>4. QED BY <1>2, <1>3

LEMMA ReplyGentle ==
  ASSUME IInv, NEW s \in Addr, NEW d \in Addr, NEW o \in Addr \cup {Me},
         NEW seq \in SeqNos, NEW hop \in HopCounts, Direct(s, d, hop),
         RecvReply(s, d, o, seq, hop)
  PROVE  Gentle(rt, rt')
<1> DEFINE h == Heard(s)
           new == NewEntry(TRUE, seq, hop, s, IfaceOf[s])
           t == ForwardRoute(h, d, new)
<1>1. seq \in Nat /\ hop \in Nat \ {0} /\ (hop = 1 => s = d)
  BY MessagesAssumption DEF Direct
<1>2. Settled(h) /\ Mild(Purge(rt), h) /\ GoodTable(rt)
  BY IInvParts, HeardSettled
<1>3. /\ GoodEntry(d, new) /\ new.flag = "VALID" /\ ~NoHop(new)
      /\ new.live /\ new.precursors = {}
  <2>1. IfaceOf[s] \in Iface
    BY AddressesAssumption
  <2>2. QED BY <1>1, <2>1, NoAddrAssumption, NoIfaceAssumption
            DEF GoodEntry, NewEntry, NoHop, Entry, Flags
<1> HIDE DEF h, new
<1>4. Mild(h, t)
  BY <1>2, <1>3, ForwardMild
<1>5. Mild(t, Update(t, d, new)) /\ Mild(t, t)
  BY <1>3, <1>4, NewEntryMild, MildReflexive DEF Mild
<1>6. o \in Addr => Mild(t, RelayReply(t, d, o))
  BY <1>4, RelayMild DEF Mild
<1> HIDE DEF t
<1>7. \/ rt' = Update(t, d, new)
      \/ rt' = t
      \/ o \in Addr /\ rt' = RelayReply(t, d, o)
  BY DEF RecvReply, OwnReply, h, t, new
<1>8. Mild(Purge(rt), rt')
  BY <1>2, <1>4, <1>5, <1>6, <1>7, MildTransitive
<1>9. QED BY <1>2, <1>8, MildIsGentle

LEMMA LifetimeGentle ==
  ASSUME GoodTable(rt), NEW a \in Addr, LifetimePasses(a)
  PROVE  Gentle(rt, rt')
<1>1. rt' = [rt EXCEPT ![a] = [rt[a] EXCEPT !.live = FALSE]]
  BY DEF LifetimePasses
<1>2. rt[a] \in Entry
  BY DEF GoodTable
<1> DEFINE e == [rt[a] EXCEPT !.live = FALSE]
<1>3. e.flag = rt[a].flag /\ e.precursors = rt[a].precursors
  BY <1>2 DEF Entry
<1> HIDE DEF e
<1>4. \A b \in Addr : rt'[b].flag = rt[b].flag /\ rt'[b].precursors = rt[b].precursors
  BY <1>1, <1>3 DEF GoodTable, e
<1>5. QED BY <1>4, PurgeGentle DEF Gentle, Honest, Kept

LEMMA TimerGentle ==
  ASSUME GoodTable(rt), NextTimer
  PROVE  Gentle(rt, rt')
<1>1. CASE RreqRateLimitTimerExpire
  BY <1>1, PurgeGentle DEF RreqRateLimitTimerExpire
<1>2. ASSUME NEW d \in Addr, RunDeferredRequest(d)
      PROVE  Gentle(rt, rt')
  BY <1>2, SendRequestGentle DEF RunDeferredRequest
<1>3. ASSUME NEW d \in Addr, RouteRequestTimerExpire(d)
      PROVE  Gentle(rt, rt')
  <2>1. CASE RouteFound(Purge(rt), d)
    BY <2>1, PurgeGentle DEF RouteFound, TakesRoute
  <2>2. CASE GiveUp(Purge(rt), d)
    BY <2>2, DeleteGentle DEF GiveUp
  <2>3. CASE Retry(Purge(rt), d)
    BY <2>3, SendRequestGentle DEF Retry
  <2>4. QED BY <1>3, <2>1, <2>2, <2>3 DEF RouteRequestTimerExpire
<1>4. QED BY <1>1, <1>2, <1>3 DEF NextTimer

LEMMA PacketGentle ==
  ASSUME IInv, NextPacket
  PROVE  Gentle(rt, rt')
<1>0. GoodTable(rt) /\ \A p \in loopback : p.dst \in Addr
  BY DEF IInv, TypeOK, Packet
<1>1. ASSUME NEW d \in Addr, RouteOutput(d)
      PROVE  Gentle(rt, rt')
  BY <1>0, <1>1, PurgeGentle DEF RouteOutput
<1>2. ASSUME NEW p \in loopback, DeferredRouteOutput(p), p.dst \in Addr
      PROVE  Gentle(rt, rt')
  <2>1. \/ UNCHANGED tableVars
        \/ rt' = Purge(rt)
        \/ SendRequest(Purge(rt), timer, p.dst)
    BY <1>2 DEF DeferredRouteOutput
  <2>2. QED BY <1>0, <1>2, <2>1, PurgeGentle, SendRequestGentle DEF tableVars
<1>3. QED BY <1>0, <1>1, <1>2 DEF NextPacket

-----------------------------------------------------------------------------
(* The steps that break links, and every step. *)

\* What RecvRequest does to the table: it may lose links, and answer.
LEMMA RequestEffect ==
  ASSUME IInv, NEW s \in Addr, NEW o \in Addr, NEW seq \in SeqNos,
         NEW hop \in HopCounts, Direct(s, o, hop)
  PROVE  LET t == ReverseRoute(Heard(s), o, seq, hop, s)
         IN  Settled(t) /\ Mild(Purge(rt), t) /\ t[o].nextHop = s
<1> DEFINE h == Heard(s)
<1>1. seq \in Nat /\ hop \in Nat \ {0} /\ (hop = 1 => s = o)
  BY MessagesAssumption DEF Direct
<1>2. Settled(h) /\ Mild(Purge(rt), h)
  BY HeardSettled
<1> HIDE DEF h
<1>3. Mild(h, ReverseRoute(h, o, seq, hop, s)) /\ ReverseRoute(h, o, seq, hop, s)[o].nextHop = s
  BY <1>1, <1>2, ReverseMild
<1>4. Mild(Purge(rt), ReverseRoute(h, o, seq, hop, s))
  BY <1>2, <1>3, MildTransitive
<1>5. QED BY <1>3, <1>4 DEF Mild, h

\* A table after broken links has the entries it had.
LEMMA BreakKeepsEntries ==
  ASSUME NEW t, Settled(t), NEW ns
  PROVE  LET u == BreakLinks(t, ns)
         IN  /\ Settled(u)
             /\ \A a \in Addr : /\ Present(u, a) <=> Present(t, a)
                                /\ u[a].nextHop = t[a].nextHop /\ u[a].iface = t[a].iface
                                /\ u[a].precursors = t[a].precursors
BY InvalidateEffect DEF BreakLinks, Present, IsValid

\* An answer from copies taken before links broke.
LEMMA AnswerAfterBreak ==
  ASSUME NEW t, Settled(t), NEW ns, NEW d \in Addr, NEW o \in Addr
  PROVE  LET u == BreakLinks(t, ns)
             v == ReplyFromTable(u, t, d, o)
         IN  /\ t[d].nextHop \in Addr /\ t[o].nextHop \in Addr => Honest(t, v)
             /\ \A a \in Addr : v[a].nextHop = t[a].nextHop /\ v[a].iface = t[a].iface
             /\ \A a \in Addr : v[a].flag = IF a \in {d, o} THEN t[a].flag ELSE u[a].flag
             /\ \A a \in Addr \ {d, o} : v[a] = u[a]
<1> DEFINE u == BreakLinks(t, ns)
<1>1. /\ Settled(u)
      /\ \A a \in Addr : /\ Present(u, a) <=> Present(t, a)
                         /\ u[a].nextHop = t[a].nextHop /\ u[a].iface = t[a].iface
                         /\ u[a].precursors = t[a].precursors
  BY BreakKeepsEntries
<1> HIDE DEF u
<1>2. QED BY <1>1, AnswerEffect DEF u

LEMMA RequestHonest ==
  ASSUME IInv, Whole(rt), NEW s \in Addr, NEW o \in Addr, NEW d \in Addr \cup {Me},
         NEW seq \in SeqNos, NEW ask, NEW hop \in HopCounts, Direct(s, o, hop),
         RecvRequest(s, o, d, seq, ask, hop)
  PROVE  Honest(rt, rt')
<1> DEFINE t == ReverseRoute(Heard(s), o, seq, hop, s)
<1>1. /\ Settled(t) /\ t[o].nextHop = s /\ Mild(Purge(rt), t) /\ GoodTable(rt)
  BY IInvParts, RequestEffect
<1>2. \/ \E broken \in SUBSET Addr : rt' = BreakLinks(t, broken)
      \/ /\ d \in Addr /\ Answers(t, s, d, ask)
         /\ \E broken \in SUBSET Addr : rt' = ReplyFromTable(BreakLinks(t, broken), t, d, o)
  BY DEF RecvRequest
<1> HIDE DEF t
<1>3. Whole(t) /\ Honest(rt, t)
  <2>1. Whole(Purge(rt))
    BY <1>1, PurgeCalm DEF Calm, NoNewBroken, Whole
  <2>2. QED BY <1>1, <2>1, PurgedHonest DEF Mild, NoNewBroken, Whole
<1>4. Honest(t, rt') => Honest(rt, rt')
  BY <1>3 DEF Honest
<1>5. ASSUME NEW broken \in SUBSET Addr, rt' = BreakLinks(t, broken)
      PROVE  Honest(t, rt')
  BY <1>1, <1>5, BreakKeepsEntries DEF Honest
<1>6. ASSUME d \in Addr, Answers(t, s, d, ask), NEW broken \in SUBSET Addr,
             rt' = ReplyFromTable(BreakLinks(t, broken), t, d, o)
      PROVE  Honest(t, rt')
  <2>1. t[d].nextHop \in Addr
    BY <1>1, <1>3, <1>6 DEF Answers, IsValid, Settled, GoodTable, Whole, NoHop, Entry
  <2>2. QED BY <1>1, <1>6, <2>1, AnswerAfterBreak
<1>7. QED BY <1>2, <1>4, <1>5, <1>6

LEMMA MessageHonest ==
  ASSUME IInv, Whole(rt), NextMessage
  PROVE  Honest(rt, rt')
<1>1. GoodTable(rt)
  BY IInvParts
<1>2. ASSUME NEW s \in Addr
      PROVE  Honest(rt, Heard(s)) /\ Settled(Heard(s))
  BY <1>1, <1>2, HeardSettled, PurgedHonest DEF Mild
<1>3. ASSUME NEW s \in Addr, RecvIgnored(s)
      PROVE  Honest(rt, rt')
  BY <1>2, <1>3 DEF RecvIgnored
<1>4. ASSUME NEW s \in Addr, NEW dsts, RecvError(s, dsts)
      PROVE  Honest(rt, rt')
  BY <1>2, <1>4, InvalidateEffect DEF RecvError, Honest
<1>5. QED BY <1>3, <1>4, AckGentle, HelloGentle, ReplyGentle, RequestHonest
          DEF NextMessage, Gentle

LEMMA EnvironmentHonest ==
  ASSUME GoodTable(rt), Whole(rt), Environment
  PROVE  Honest(rt, rt')
<1>1. ASSUME NEW n \in Addr, SendRerrWhenBreaksLinkToNextHop(n)
      PROVE  Honest(rt, rt')
  <2>1. BreakLinks(rt, {n}) = BreakLinks(Purge(rt), {n}) /\ Settled(Purge(rt))
    <3>1. Settled(Purge(rt)) /\ Purge(Purge(rt)) = Purge(rt)
      BY PurgeSettles, SettledIsPurged
    <3>2. QED BY <3>1 DEF BreakLinks, InvalidateRoutesWithDst, DestinationsWithNextHop
  <2>2. Honest(Purge(rt), rt')
    BY <1>1, <2>1, BreakKeepsEntries DEF SendRerrWhenBreaksLinkToNextHop, Honest
  <2>3. QED BY <2>2, PurgedHonest
<1>2. QED BY <1>1, LifetimeGentle, PurgeGentle
          DEF Environment, LookupRoute, PacketLifetimePasses, tableVars, Gentle

\* In RouteDiscovery, nobody becomes a precursor but a neighbour, as long as every
\* route of the table has a next hop.
LEMMA NextHonest ==
  ASSUME IInv, Whole(rt), [Next]_vars
  PROVE  Honest(rt, rt')
<1>1. GoodTable(rt)
  BY IInvParts
<1>2. CASE UNCHANGED vars
  BY <1>2 DEF vars, Honest
<1>3. QED
  BY <1>1, <1>2, TimerGentle, PacketGentle, MessageHonest, EnvironmentHonest DEF Next, Gentle

=============================================================================
