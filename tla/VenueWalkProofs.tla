-------------------------- MODULE VenueWalkProofs --------------------------
(***************************************************************************)
(* What the match walk and the seats promise, for every number of wallets, *)
(* seats and orders.  First price then time, the taker's limit, a book     *)
(* that is never crossed, handles that name one order and a mode that      *)
(* stops minting: all of it rests on one fact about the book, that between *)
(* two placements that rest an order, orders only shrink.  Then one seat   *)
(* to an authority, positions that move only while the Window trades, and  *)
(* a closing that sweeps only donations: these rest on one fact about the  *)
(* ledger, that a seat is empty or held within it by one authority alone.  *)
(* Last the refinement of Tenancy, which Settlement relies on: what is     *)
(* given up is empty, and a decided Window is never stuck.                 *)
(***************************************************************************)
EXTENDS VenueProofs, VenueHandles

\* Order b is what became of order a: it is gone, or it is a with fewer lots.
Shrunk(a, b) ==
  b.live => a.live /\ b.lots <= a.lots /\ (a.lots > 0 => b.lots > 0) /\ b = [a EXCEPT !.lots = b.lots]

BookShrinks(v, w) == w.nextSeq = v.nextSeq /\ \A n \in Nodes : Shrunk(v.nodes[n], w.nodes[n])

\* Every live order has lots, and a seq that has been given out.
Queued(v) == \A n \in Live(v) : v.nodes[n].seq < v.nextSeq /\ v.nodes[n].lots > 0

\* No two unexpired orders of v cross.
Uncrossed(v) ==
  \A b, a \in Live(v) :
    IsBid(v.nodes[b].kind) /\ ~IsBid(v.nodes[a].kind) /\ ~Expired(v, b) /\ ~Expired(v, a)
      => v.nodes[b].price < v.nodes[a].price

\* What a taker gave and got, against its limit.
WithinLimit(t) ==
  IF IsBuy(t.order.kind)
  THEN t.spent + CashOf(t.order.kind, t.order.price, t.remaining)
         <= CashOf(t.order.kind, t.order.price, t.order.lots)
  ELSE t.received >= CashOf(t.order.kind, t.order.price, t.order.lots - t.remaining)

Priority ==
  \A m, n \in Nodes : Filled(m) /\ PassedOver(n) =>
    Precedes(taker.order.kind, venue.nodes[m], venue.nodes[n])

Walking ==
  /\ BookShrinks(venue, work)
  /\ \A n \in taker.skipped : Expired(work, n)
  /\ taker.order.type = "PostOnly" => taker.stop # "FillCap"
  /\ taker.remaining <= taker.order.lots
  /\ WithinLimit(taker)
  /\ Priority
  /\ mode # "Normal" => ~IsBuy(taker.order.kind) /\ work.backing <= venue.backing

WalkInv ==
  /\ Queued(venue)
  /\ Uncrossed(venue)
  /\ phase = "match" => Walking

-----------------------------------------------------------------------------
(* Orders that only shrink.                                                *)

\* An order left as it is.
LEMMA ShrunkSame ==
  ASSUME NEW a \in Node
  PROVE  Shrunk(a, a)
BY DEF Shrunk, Node

\* What a live shrunk order keeps.
LEMMA ShrunkFields ==
  ASSUME NEW a \in Node, NEW b \in Node, Shrunk(a, b), b.live
  PROVE  /\ a.live /\ b.kind = a.kind /\ b.price = a.price /\ b.seat = a.seat /\ b.seq = a.seq
         /\ b.expire = a.expire /\ b.lots <= a.lots /\ (a.lots > 0 => b.lots > 0)
BY DEF Shrunk, Node

\* Shrinking twice is shrinking.
LEMMA ShrunkTwice ==
  ASSUME NEW a \in Node, NEW b \in Node, NEW c \in Node, Shrunk(a, b), Shrunk(b, c)
  PROVE  Shrunk(a, c)
<1>1. SUFFICES ASSUME c.live
               PROVE  a.live /\ c.lots <= a.lots /\ (a.lots > 0 => c.lots > 0) /\ c = [a EXCEPT !.lots = c.lots]
  BY DEF Shrunk
<1>2. b.live /\ c.lots <= b.lots /\ (b.lots > 0 => c.lots > 0) /\ c = [b EXCEPT !.lots = c.lots]
  BY <1>1 DEF Shrunk
<1>3. a.live /\ b.lots <= a.lots /\ (a.lots > 0 => b.lots > 0) /\ b = [a EXCEPT !.lots = b.lots]
  BY <1>2 DEF Shrunk
<1>4. a.lots \in Nat /\ b.lots \in Nat /\ c.lots \in Nat
  BY DEF Node
<1>5. c = [a EXCEPT !.lots = c.lots]
  BY <1>2, <1>3 DEF Node
<1>6. QED
  BY <1>2, <1>3, <1>4, <1>5

\* The same for the whole book.
LEMMA BookTwice ==
  ASSUME NEW u \in VenueState, NEW v \in VenueState, NEW w \in VenueState,
         BookShrinks(u, v), BookShrinks(v, w)
  PROVE  BookShrinks(u, w)
<1>1. \A n \in Nodes : u.nodes[n] \in Node /\ v.nodes[n] \in Node /\ w.nodes[n] \in Node
  BY DEF VenueState
<1>2. QED
  BY <1>1, ShrunkTwice DEF BookShrinks

\* A book left as it is.
LEMMA BookSame ==
  ASSUME NEW v \in VenueState, NEW w, w.nodes = v.nodes, w.nextSeq = v.nextSeq
  PROVE  BookShrinks(v, w)
<1>1. \A n \in Nodes : v.nodes[n] \in Node
  BY DEF VenueState
<1>2. QED
  BY <1>1, ShrunkSame DEF BookShrinks

\* Removing orders.
LEMMA RemoveShrinks ==
  ASSUME NEW v \in VenueState, NEW S \in SUBSET Nodes, NEW w, w = RemoveNodes(v, S)
  PROVE  /\ BookShrinks(v, w) /\ w.backing = v.backing
         /\ w.nodes = [n \in Nodes |-> IF n \in S THEN EmptyNode ELSE v.nodes[n]]
<1>1. /\ w.nodes = [n \in Nodes |-> IF n \in S THEN EmptyNode ELSE v.nodes[n]]
      /\ w.nextSeq = v.nextSeq /\ w.backing = v.backing
  BY DEF RemoveNodes, VenueState
<1>2. ~EmptyNode.live
  BY DEF EmptyNode
<1>3. ASSUME NEW n \in Nodes PROVE Shrunk(v.nodes[n], w.nodes[n])
  <2>1. v.nodes[n] \in Node
    BY DEF VenueState
  <2>2. w.nodes[n] = EmptyNode \/ w.nodes[n] = v.nodes[n]
    BY <1>1
  <2>3. QED
    BY <1>2, <2>1, <2>2, ShrunkSame DEF Shrunk
<1>4. QED
  BY <1>1, <1>3 DEF BookShrinks

\* Reducing one.
LEMMA ReduceShrinks ==
  ASSUME NEW v \in VenueState, NEW n \in Live(v), NEW q \in Nat, 0 < q, q <= v.nodes[n].lots,
         NEW w, w = ReduceNode(v, n, q)
  PROVE  BookShrinks(v, w) /\ w.backing = v.backing
<1>1. n \in Nodes /\ v.nodes[n].live
  BY DEF Live
<1>2. w.nodes = [v.nodes EXCEPT ![n].lots = q] /\ w.nextSeq = v.nextSeq /\ w.backing = v.backing
  BY DEF ReduceNode, VenueState
<1>3. v.nodes \in [Nodes -> Node]
  BY DEF VenueState
<1>4. ASSUME NEW m \in Nodes PROVE Shrunk(v.nodes[m], w.nodes[m])
  <2>1. v.nodes[m] \in Node
    BY <1>3
  <2>2. CASE m # n
    BY <1>2, <1>3, <2>1, <2>2, ShrunkSame
  <2>3. CASE m = n
    <3>1. w.nodes[n] = [v.nodes[n] EXCEPT !.lots = q]
      BY <1>1, <1>2, <1>3
    <3>2. w.nodes[n].lots = q /\ w.nodes[n].live
      BY <1>1, <1>3, <3>1 DEF Node
    <3>3. QED
      BY <1>1, <2>3, <3>1, <3>2 DEF Shrunk
  <2>4. QED
    BY <2>2, <2>3
<1>5. QED
  BY <1>2, <1>4 DEF BookShrinks

\* Filling one.
LEMMA FillShrinks ==
  ASSUME NEW v \in VenueState, NEW n \in Live(v), NEW i, NEW k, NEW q \in Nat,
         q <= v.nodes[n].lots, NEW w, w = FillNode(v, n, i, k, q)
  PROVE  /\ BookShrinks(v, w)
         /\ w.backing = v.backing + BackingChange(k, v.nodes[n].kind, q)
         /\ \A m \in Nodes \ {n} : w.nodes[m] = v.nodes[m]
         /\ w.nodes[n].live => w.nodes[n].lots = v.nodes[n].lots - q
<1> DEFINE o == v.nodes[n]
           new == IF o.lots = q THEN EmptyNode ELSE [o EXCEPT !.lots = @ - q]
<1>1. n \in Nodes /\ o.live /\ o \in Node /\ o.lots \in Nat
  BY DEF Live, VenueState, Node
<1>2. /\ w.nodes = [v.nodes EXCEPT ![n] = new] /\ w.nextSeq = v.nextSeq
      /\ w.backing = v.backing + BackingChange(k, o.kind, q)
  BY DEF FillNode, VenueState
<1>3. w.nodes[n] = new /\ \A m \in Nodes \ {n} : w.nodes[m] = v.nodes[m]
  BY <1>1, <1>2 DEF VenueState
<1>4. ~EmptyNode.live
  BY DEF EmptyNode
<1>5. new.live => new.lots = o.lots - q
  BY <1>1, <1>4 DEF Node
<1>6. Shrunk(o, new)
  <2>1. CASE o.lots = q
    BY <1>4, <2>1 DEF Shrunk
  <2>2. CASE o.lots # q
    <3> DEFINE l == o.lots - q
    <3>1. new = [o EXCEPT !.lots = l] /\ l \in Nat /\ 0 < l /\ l <= o.lots
      BY <1>1, <2>2
    <3> HIDE DEF new, l
    <3>2. new.lots = l /\ new.live
      BY <1>1, <3>1 DEF Node
    <3>3. QED
      BY <1>1, <3>1, <3>2 DEF Shrunk
  <2>3. QED
    BY <2>1, <2>2
<1>7. ASSUME NEW m \in Nodes PROVE Shrunk(v.nodes[m], w.nodes[m])
  <2>1. v.nodes[m] \in Node
    BY DEF VenueState
  <2>2. QED
    BY <1>3, <1>6, <2>1, ShrunkSame
<1>8. QED
  BY <1>2, <1>3, <1>5, <1>7 DEF BookShrinks

-----------------------------------------------------------------------------
(* Inside a placement.                                                     *)

\* What the invariants give a step of the match loop.
LEMMA WalkFacts ==
  ASSUME IInv, WalkInv, phase = "match"
  PROVE  /\ Walking /\ work \in VenueState /\ venue \in VenueState /\ taker \in TakerState
         /\ Queued(work) /\ Uncrossed(work)
         /\ taker.order.kind \in Kinds /\ ValidPrice(taker.order.price) /\ taker.order.lots \in Nat
         /\ taker.remaining \in Nat /\ taker.spent \in Nat /\ taker.received \in Nat
         /\ taker.skipped \in SUBSET Nodes /\ now \in Nat
         /\ \A n \in Nodes : venue.nodes[n] \in Node /\ work.nodes[n] \in Node
<1>1. Walking /\ Queued(venue) /\ Uncrossed(venue)
  BY DEF WalkInv
<1>2. /\ Matching /\ work \in VenueState /\ venue \in VenueState /\ taker \in TakerState
      /\ taker.order \in OrderArg /\ taker.order.kind \in Kinds
      /\ taker.remaining \in Nat /\ taker.spent \in Nat /\ taker.received \in Nat
  BY InMatch
<1>3. ValidPrice(taker.order.price) /\ taker.order.lots \in Nat /\ taker.skipped \in SUBSET Nodes /\ now \in Nat
  BY <1>2 DEF Matching, OrderArg, TakerState, IInv, Scalars
<1>4. \A n \in Nodes : venue.nodes[n] \in Node /\ work.nodes[n] \in Node
  BY <1>2 DEF VenueState
<1>5. BookShrinks(venue, work)
  BY <1>1 DEF Walking
<1>6. ASSUME NEW n \in Live(work)
      PROVE  /\ n \in Live(venue) /\ work.nodes[n].kind = venue.nodes[n].kind
             /\ work.nodes[n].price = venue.nodes[n].price /\ work.nodes[n].seq = venue.nodes[n].seq
             /\ work.nodes[n].expire = venue.nodes[n].expire
             /\ (venue.nodes[n].lots > 0 => work.nodes[n].lots > 0)
  <2>1. n \in Nodes /\ work.nodes[n].live
    BY DEF Live
  <2>2. Shrunk(venue.nodes[n], work.nodes[n])
    BY <1>5, <2>1 DEF BookShrinks
  <2>3. QED
    BY <1>4, <2>1, <2>2, ShrunkFields DEF Live
<1>7. Queued(work)
  BY <1>1, <1>5, <1>6 DEF Queued, BookShrinks
<1>8. Uncrossed(work)
  BY <1>1, <1>6 DEF Uncrossed, Expired
<1>9. QED
  BY <1>1, <1>2, <1>3, <1>4, <1>7, <1>8

\* An order in the way of the walk is still as old and as priced as it was when the placement began.
LEMMA VisitedFields ==
  ASSUME IInv, WalkInv, phase = "match", NEW n \in Live(work)
  PROVE  /\ n \in Nodes /\ n \in Live(venue)
         /\ work.nodes[n].kind = venue.nodes[n].kind /\ work.nodes[n].price = venue.nodes[n].price
         /\ work.nodes[n].seat = venue.nodes[n].seat /\ work.nodes[n].seq = venue.nodes[n].seq
         /\ work.nodes[n].expire = venue.nodes[n].expire /\ work.nodes[n].lots <= venue.nodes[n].lots
<1>1. n \in Nodes /\ work.nodes[n].live
  BY DEF Live
<1>2. Shrunk(venue.nodes[n], work.nodes[n]) /\ venue.nodes[n] \in Node /\ work.nodes[n] \in Node
  BY <1>1, WalkFacts DEF Walking, BookShrinks
<1>3. QED
  BY <1>1, <1>2, ShrunkFields DEF Live

\* The order the walk visits precedes every live opposite order that it has not visited, crossing or not.
LEMMA VisitedPrecedes ==
  ASSUME IInv, WalkInv, NEW x, Visits(x), NEW n \in Nodes, PassedOver(n), n # x
  PROVE  Precedes(taker.order.kind, venue.nodes[x], venue.nodes[n])
<1> DEFINE k == taker.order.kind
           l == taker.order.price
<1>1. phase = "match" /\ x \in Ahead /\ \A m \in Ahead \ {x} : Precedes(k, work.nodes[x], work.nodes[m])
  BY DEF Visits
<1>2. x \in Live(work) /\ Crosses(k, l, work.nodes[x].price)
  BY <1>1 DEF Ahead
<1>3. /\ venue.nodes[x].price = work.nodes[x].price /\ venue.nodes[x].seq = work.nodes[x].seq
      /\ x \in Nodes
  BY <1>1, <1>2, VisitedFields
<1>4. n \in Live(work) /\ work.nodes[n] = venue.nodes[n] /\ Opposite(k, n) /\ ~Expired(work, n)
  BY DEF PassedOver, Live, Expired
<1>5. n \notin taker.skipped
  BY <1>1, <1>4, WalkFacts DEF Walking
<1>6. CASE Crosses(k, l, work.nodes[n].price)
  <2>1. n \in Ahead \ {x}
    BY <1>4, <1>5, <1>6 DEF Ahead
  <2>2. QED
    BY <1>1, <1>3, <1>4, <2>1 DEF Precedes
<1>7. CASE ~Crosses(k, l, work.nodes[n].price)
  <2>1. work.nodes[n].price \in Nat /\ work.nodes[x].price \in Nat /\ l \in Nat
    BY <1>1, <1>3, WalkFacts DEF Node, ValidPrice
  <2>2. QED
    BY <1>2, <1>3, <1>4, <1>7, <2>1 DEF Crosses, Precedes
<1>8. QED
  BY <1>6, <1>7

\* Priority survives a step that disturbs one order, if that order is no longer as it was, and either
\* is not counted as filled or precedes what is passed over.
LEMMA PriorityKept ==
  ASSUME IInv, WalkInv, phase = "match", NEW x \in Nodes, venue' = venue, now' = now,
         taker'.seat = taker.seat, taker'.order = taker.order,
         \A m \in Nodes \ {x} : work'.nodes[m] = work.nodes[m],
         venue.nodes[x].live => work'.nodes[x] # venue.nodes[x],
         \/ Expired(venue, x) \/ venue.nodes[x].seat = taker.seat
         \/ \A n \in Nodes : PassedOver(n) /\ n # x => Precedes(taker.order.kind, venue.nodes[x], venue.nodes[n])
  PROVE  Priority'
<1>1. Priority
  BY WalkFacts DEF Walking
<1>2. SUFFICES ASSUME NEW m \in Nodes, NEW n \in Nodes, Filled(m)', PassedOver(n)'
               PROVE  Precedes(taker.order.kind, venue.nodes[m], venue.nodes[n])
  BY DEF Priority, Precedes
<1>3. /\ venue.nodes[n].live /\ venue.nodes[n].expire > now /\ venue.nodes[n].seat # taker.seat
      /\ IsBid(work'.nodes[n].kind) # IsBid(taker.order.kind)
      /\ work'.nodes[n] = venue.nodes[n]
  <2>1. venue.nodes[n].expire \in Nat /\ now \in Nat
    BY WalkFacts DEF Node
  <2>2. QED
    BY <1>2, <2>1 DEF PassedOver, Expired, Opposite
<1>4. n # x
  BY <1>3
<1>5. PassedOver(n)
  <2>1. work.nodes[n] = work'.nodes[n] /\ ~(venue.nodes[n].expire <= now)
    BY <1>2, <1>4 DEF PassedOver, Expired
  <2>2. QED
    BY <1>3, <2>1 DEF PassedOver, Expired, Opposite
<1>6. /\ venue.nodes[m].live /\ ~Expired(venue, m) /\ venue.nodes[m].seat # taker.seat
      /\ ~(work'.nodes[m].live /\ work'.nodes[m].lots = venue.nodes[m].lots)
  BY <1>2 DEF Filled, Expired
<1>7. CASE m = x
  BY <1>4, <1>5, <1>6, <1>7
<1>8. CASE m # x
  <2>1. Filled(m)
    BY <1>6, <1>8 DEF Filled
  <2>2. QED
    BY <1>1, <1>5, <2>1 DEF Priority
<1>9. QED
  BY <1>7, <1>8

-----------------------------------------------------------------------------
(* The steps of the walk.                                                  *)

\* A step of the walk: nothing is committed, and orders only shrink.
WalksOn == UNCHANGED <<venue, phase, mvault, control>> /\ Walking'

\* Such a step keeps the invariant.
LEMMA WalksOnKeeps ==
  ASSUME IInv, WalkInv, phase = "match", WalksOn
  PROVE  WalkInv'
<1>1. venue' = venue /\ now' = now /\ Walking'
  BY DEF WalksOn, control
<1>2. QED
  BY <1>1 DEF WalkInv, Queued, Uncrossed, Live, Expired

\* Passing over an expired order, or stopping the walk.
LEMMA WalkOnWalks ==
  ASSUME IInv, WalkInv, NEW n \in Nodes, SkipExpired(n) \/ StopAtFillCap(n)
  PROVE  phase = "match" /\ WalksOn
<1>1. phase = "match" /\ work' = work /\ UNCHANGED <<venue, phase, mvault, control>>
  BY DEF SkipExpired, StopAtFillCap, VisitsLive, Visits
<1>2. /\ Walking /\ taker \in TakerState
  BY <1>1, WalkFacts
<1>3. /\ taker'.order = taker.order /\ taker'.seat = taker.seat /\ taker'.remaining = taker.remaining
      /\ taker'.spent = taker.spent /\ taker'.received = taker.received
      /\ \A m \in taker'.skipped : Expired(work, m)
      /\ taker.order.type = "PostOnly" => taker'.stop # "FillCap"
  <2>1. CASE SkipExpired(n)
    BY <1>2, <2>1 DEF SkipExpired, TakerState, Walking
  <2>2. CASE StopAtFillCap(n)
    BY <1>2, <2>2 DEF StopAtFillCap, VisitsLive, TakerState, Walking
  <2>3. QED
    BY <2>1, <2>2
<1>4. venue' = venue /\ now' = now /\ mode' = mode
  BY <1>1 DEF control
<1>5. Priority'
  BY <1>1, <1>2, <1>3, <1>4 DEF Walking, Priority, Filled, PassedOver, Expired, Opposite
<1>6. WithinLimit(taker')
  BY <1>2, <1>3 DEF Walking, WithinLimit
<1>7. Walking'
  BY <1>1, <1>2, <1>3, <1>4, <1>5, <1>6 DEF Walking, Expired
<1>8. QED
  BY <1>1, <1>7 DEF WalksOn

\* Removing an order that is expired or the taker's own.
LEMMA RemovalWalks ==
  ASSUME IInv, WalkInv, NEW n \in Nodes, Visits(n), Expired(work, n) \/ Own(n),
         work' = RemoveNodes(work, {n}), UNCHANGED <<venue, phase, mvault, control>>,
         taker'.seat = taker.seat, taker'.order = taker.order, taker'.remaining = taker.remaining,
         taker'.spent = taker.spent, taker'.received = taker.received,
         taker'.skipped = taker.skipped, taker'.stop = taker.stop
  PROVE  phase = "match" /\ WalksOn
<1>1. phase = "match" /\ n \in Live(work) /\ n \notin taker.skipped
  BY DEF Visits, Ahead
<1>2. /\ Walking /\ work \in VenueState /\ venue \in VenueState /\ taker.skipped \in SUBSET Nodes
  BY <1>1, WalkFacts
<1>3. venue' = venue /\ now' = now /\ mode' = mode
  BY DEF control
<1>4. /\ BookShrinks(work, work') /\ work'.backing = work.backing
      /\ work'.nodes = [m \in Nodes |-> IF m \in {n} THEN EmptyNode ELSE work.nodes[m]]
  BY <1>2, RemoveShrinks
<1>5. work' \in VenueState
  <2>1. Sound(work) /\ {n} \in SUBSET Live(work)
    BY <1>1, InMatch
  <2>2. Sound(work')
    BY <2>1, RemoveNodesKeeps
  <2>3. QED
    BY <2>2 DEF Sound
<1>6. BookShrinks(venue, work')
  BY <1>2, <1>4, <1>5, BookTwice DEF Walking
<1>7. \A m \in Nodes \ {n} : work'.nodes[m] = work.nodes[m]
  BY <1>4
<1>8. ~work'.nodes[n].live
  BY <1>4 DEF EmptyNode
<1>9. Expired(venue, n) \/ venue.nodes[n].seat = taker.seat
  BY <1>1, VisitedFields DEF Expired, Own
<1>10. Priority'
  BY <1>1, <1>3, <1>7, <1>8, <1>9, PriorityKept
<1>11. \A m \in taker.skipped : work'.nodes[m].expire <= now
  BY <1>1, <1>2, <1>7 DEF Walking, Expired
<1>12. WithinLimit(taker')
  BY <1>2 DEF Walking, WithinLimit
<1>13. Walking'
  BY <1>2, <1>3, <1>4, <1>6, <1>10, <1>11, <1>12 DEF Walking, Expired
<1>14. QED
  BY <1>1, <1>13 DEF WalksOn

\* Evicting an expired order; cancelling the taker's own.
LEMMA EvictionWalks ==
  ASSUME IInv, WalkInv, NEW n \in Nodes, EvictExpired(n) \/ CancelOwnMaker(n)
  PROVE  phase = "match" /\ WalksOn
<1>1. /\ Visits(n) /\ (Expired(work, n) \/ Own(n)) /\ work' = RemoveNodes(work, {n})
      /\ UNCHANGED <<venue, phase, mvault, control>>
  BY DEF EvictExpired, CancelOwnMaker, VisitsLive
<1>2. taker \in TakerState
  BY <1>1, Visited, InMatch
<1>3. /\ taker'.seat = taker.seat /\ taker'.order = taker.order /\ taker'.remaining = taker.remaining
      /\ taker'.spent = taker.spent /\ taker'.received = taker.received
      /\ taker'.skipped = taker.skipped /\ taker'.stop = taker.stop
  <2>1. CASE EvictExpired(n)
    BY <1>2, <2>1 DEF EvictExpired, TakerState
  <2>2. CASE CancelOwnMaker(n)
    BY <1>2, <2>2 DEF CancelOwnMaker, TakerState
  <2>3. QED
    BY <2>1, <2>2
<1>4. QED
  BY <1>1, <1>3, RemovalWalks

\* A price that crosses a limit is no worse than the limit, in the ticks of the taker's own outcome.
LEMMA CrossingTicks ==
  ASSUME NEW k \in Kinds, NEW p, ValidPrice(p), NEW l, ValidPrice(l), Crosses(k, l, p)
  PROVE  IF IsBuy(k) THEN OwnTicks(k, p) <= OwnTicks(k, l) ELSE OwnTicks(k, p) >= OwnTicks(k, l)
BY GridAssumption DEF ValidPrice, Crosses, OwnTicks, Outcome, IsBuy, IsBid, Kinds

\* So is its cash.
LEMMA CrossingCash ==
  ASSUME NEW k \in Kinds, NEW p, ValidPrice(p), NEW l, ValidPrice(l), Crosses(k, l, p), NEW q \in Nat
  PROVE  IF IsBuy(k) THEN CashOf(k, p, q) <= CashOf(k, l, q) ELSE CashOf(k, p, q) >= CashOf(k, l, q)
<1>1. OwnTicks(k, p) \in Nat /\ OwnTicks(k, l) \in Nat
  BY OwnTicksRange, GridAssumption
<1>2. \A a, b, c \in Nat : a <= b => c * a <= c * b
  <2>1. SUFFICES ASSUME NEW a \in Nat, NEW b \in Nat, NEW c \in Nat, a <= b PROVE c * a <= c * b
    OBVIOUS
  <2>2. b - a \in Nat /\ c * (b - a) \in Nat
    BY <2>1, NatProduct
  <2>3. c * b = c * a + c * (b - a) /\ c * a \in Nat
    BY <2>1, <2>2
  <2>4. QED
    BY <2>2, <2>3
<1>3. QED
  BY <1>1, <1>2, CrossingTicks DEF CashOf

\* A fill at a crossing price keeps the taker within its limit.
LEMMA LimitKept ==
  ASSUME NEW t, NEW u, t.order.kind \in Kinds, ValidPrice(t.order.price), t.order.lots \in Nat,
         t.remaining \in Nat, t.spent \in Nat, t.received \in Nat, t.remaining <= t.order.lots,
         NEW p, ValidPrice(p), Crosses(t.order.kind, t.order.price, p), NEW q \in Nat, q <= t.remaining,
         u.order = t.order, u.remaining = t.remaining - q,
         u.spent = t.spent + CashPart(t.order.kind, p, q),
         u.received = t.received + Proceeds(t.order.kind, p, q),
         WithinLimit(t)
  PROVE  WithinLimit(u)
<1> DEFINE k == t.order.kind
           l == t.order.price
           r == t.remaining - q
           f == t.order.lots - t.remaining
<1>1. r \in Nat /\ f \in Nat /\ q + r = t.remaining /\ f + q = t.order.lots - r
  OBVIOUS
<1>2. CashOf(k, l, t.remaining) = CashOf(k, l, q) + CashOf(k, l, r)
  <2> HIDE DEF k, l, r
  <2> QED BY <1>1, CashSplit DEF k, l
<1>3. CashOf(k, l, t.order.lots - r) = CashOf(k, l, f) + CashOf(k, l, q)
  <2> HIDE DEF r, f
  <2> QED BY <1>1, CashSplit
<1>4. /\ CashOf(k, p, q) \in Nat /\ CashOf(k, l, q) \in Nat /\ CashOf(k, l, r) \in Nat
      /\ CashOf(k, l, f) \in Nat /\ CashOf(k, l, t.order.lots) \in Nat
  <2> HIDE DEF r, f
  <2> QED BY <1>1, CashNat
<1>5. IF IsBuy(k) THEN CashOf(k, p, q) <= CashOf(k, l, q) ELSE CashOf(k, p, q) >= CashOf(k, l, q)
  BY CrossingCash
<1>6. CASE IsBuy(k)
  <2>1. u.spent = t.spent + CashOf(k, p, q)
    BY <1>6 DEF CashPart
  <2>2. t.spent + CashOf(k, l, t.remaining) <= CashOf(k, l, t.order.lots)
    BY <1>6 DEF WithinLimit
  <2>3. u.spent + CashOf(k, l, r) <= CashOf(k, l, t.order.lots)
    <3> HIDE DEF k, l, r
    <3> QED BY <1>2, <1>4, <1>5, <1>6, <2>1, <2>2
  <2>4. QED
    BY <1>6, <2>3 DEF WithinLimit
<1>7. CASE ~IsBuy(k)
  <2>1. u.received = t.received + CashOf(k, p, q)
    BY <1>7 DEF Proceeds
  <2>2. t.received >= CashOf(k, l, f)
    BY <1>7 DEF WithinLimit
  <2>3. u.received >= CashOf(k, l, t.order.lots - r)
    <3> HIDE DEF k, l, r, f
    <3> QED BY <1>3, <1>4, <1>5, <1>7, <2>1, <2>2
  <2>4. QED
    BY <1>7, <2>3 DEF WithinLimit
<1>8. QED
  BY <1>6, <1>7

\* A fill: the visited order precedes whatever is left as it was, and its price is within the limit.
LEMMA FillWalks ==
  ASSUME IInv, WalkInv, NEW n \in Nodes, Fill(n)
  PROVE  phase = "match" /\ WalksOn
<1> DEFINE m == work.nodes[n]
           k == taker.order.kind
           q == IF taker.remaining <= m.lots THEN taker.remaining ELSE m.lots
           cash == CashOf(k, m.price, q)
<1>1. /\ Visits(n) /\ ~Own(n) /\ ~Expired(work, n) /\ work' = FillNode(work, n, taker.seat, k, q)
      /\ UNCHANGED <<venue, phase, mvault, control>>
  BY DEF Fill, VisitsLive
<1>2. /\ phase = "match" /\ n \in Live(work) /\ n \notin taker.skipped /\ taker.remaining > 0
      /\ Crosses(k, taker.order.price, m.price)
  BY <1>1 DEF Visits, Ahead
<1>3. /\ Walking /\ work \in VenueState /\ venue \in VenueState /\ taker \in TakerState
      /\ k \in Kinds /\ ValidPrice(taker.order.price) /\ taker.order.lots \in Nat
      /\ taker.remaining \in Nat /\ taker.spent \in Nat /\ taker.received \in Nat
      /\ taker.skipped \in SUBSET Nodes /\ m \in Node /\ ValidPrice(m.price) /\ Queued(work)
  BY <1>1, <1>2, WalkFacts, Visited
<1>4. m.lots \in Nat /\ m.lots > 0
  BY <1>2, <1>3 DEF Node, Queued
<1>5. q \in Nat /\ q > 0 /\ q <= m.lots /\ q <= taker.remaining
  BY <1>2, <1>3, <1>4
<1>6. cash \in Nat
  <2> HIDE DEF q, m, k
  <2> QED BY <1>3, <1>5, CashNat
<1>7. taker' = [taker EXCEPT
                  !.remaining = @ - q,
                  !.used = @ + 1,
                  !.spent = IF IsBuy(k) THEN @ + cash ELSE @,
                  !.received = IF IsBuy(k) THEN @ ELSE @ + cash]
  BY DEF Fill
<1>8. /\ taker'.seat = taker.seat /\ taker'.order = taker.order /\ taker'.remaining = taker.remaining - q
      /\ taker'.spent = taker.spent + CashPart(k, m.price, q)
      /\ taker'.received = taker.received + Proceeds(k, m.price, q)
      /\ taker'.skipped = taker.skipped /\ taker'.stop = taker.stop
  <2> DEFINE sp == IF IsBuy(k) THEN taker.spent + cash ELSE taker.spent
             rc == IF IsBuy(k) THEN taker.received ELSE taker.received + cash
  <2>1. sp = taker.spent + CashPart(k, m.price, q) /\ rc = taker.received + Proceeds(k, m.price, q)
    BY <1>3, <1>6 DEF CashPart, Proceeds, cash
  <2> HIDE DEF q, cash
  <2>2. taker' = [taker EXCEPT !.remaining = @ - q, !.used = @ + 1, !.spent = sp, !.received = rc]
    BY <1>7
  <2> HIDE DEF sp, rc, m
  <2>3. QED
    BY <1>3, <2>1, <2>2 DEF TakerState
<1> HIDE DEF q, cash
<1>9. venue' = venue /\ now' = now /\ mode' = mode
  BY <1>1 DEF control
<1>10. /\ BookShrinks(work, work') /\ work'.backing = work.backing + BackingChange(k, m.kind, q)
       /\ \A j \in Nodes \ {n} : work'.nodes[j] = work.nodes[j]
       /\ work'.nodes[n].live => work'.nodes[n].lots = m.lots - q
  BY <1>1, <1>2, <1>3, <1>5, FillShrinks
<1>11. work' \in VenueState
  <2>1. IInv'
    BY FillKeeps
  <2>2. phase' = "match"
    BY <1>1, <1>2
  <2>3. QED
    BY <2>1, <2>2 DEF IInv, Matching, Sound
<1>12. BookShrinks(venue, work')
  BY <1>3, <1>10, <1>11, BookTwice DEF Walking
<1>13. venue.nodes[n].live => work'.nodes[n] # venue.nodes[n]
  <2>1. m.lots <= venue.nodes[n].lots /\ venue.nodes[n].lots \in Nat
    BY <1>2, VisitedFields, WalkFacts DEF Node
  <2>2. work'.nodes[n].live => work'.nodes[n].lots < venue.nodes[n].lots
    BY <1>4, <1>5, <1>10, <2>1
  <2>3. QED
    BY <2>1, <2>2
<1>14. \A j \in Nodes : PassedOver(j) /\ j # n => Precedes(k, venue.nodes[n], venue.nodes[j])
  BY <1>1, VisitedPrecedes
<1>15. Priority'
  BY <1>2, <1>8, <1>9, <1>10, <1>13, <1>14, PriorityKept
<1>16. WithinLimit(taker')
  <2> HIDE DEF m
  <2> QED BY <1>2, <1>3, <1>5, <1>8, LimitKept DEF Walking
<1>17. \A j \in taker.skipped : work'.nodes[j].expire <= now
  BY <1>2, <1>3, <1>10 DEF Walking, Expired
<1>18. taker'.remaining <= taker.order.lots
  BY <1>3, <1>5, <1>8 DEF Walking
<1>19. mode # "Normal" => work'.backing <= venue.backing
  <2>1. venue.backing \in Nat /\ work.backing \in Nat
    BY <1>3 DEF VenueState
  <2>2. ~IsBuy(k) => BackingChange(k, m.kind, q) = -q \/ BackingChange(k, m.kind, q) = 0
    BY DEF BackingChange
  <2>3. mode # "Normal" => ~IsBuy(k) /\ work.backing <= venue.backing
    BY <1>3 DEF Walking
  <2>4. QED
    BY <1>5, <1>10, <2>1, <2>2, <2>3
<1>20. Walking'
  BY <1>3, <1>8, <1>9, <1>12, <1>15, <1>16, <1>17, <1>18, <1>19 DEF Walking, Expired
<1>21. QED
  BY <1>1, <1>2, <1>20 DEF WalksOn

\* A placement begins on a book nobody has touched, having filled nothing.
LEMMA PlaceBeginWalks ==
  ASSUME IInv, WalkInv, NEW a \in Owners, NEW i \in Seats, NEW o \in OrderArgs, PlaceBegin(a, i, o)
  PROVE  WalkInv' /\ venue' = venue
<1>1. /\ phase = "idle" /\ ModeAdmits(o.kind) /\ OrderAdmitted(o)
      /\ work' = ResolveSeat(venue, a, i) /\ UNCHANGED <<venue, mvault, control>>
      /\ taker' = [seat |-> i, order |-> o, claimed |-> Claims(venue, i),
                   remaining |-> o.lots, spent |-> 0, received |-> 0,
                   used |-> 0, evictions |-> 0, skipped |-> {}, stop |-> "none"]
  BY DEF PlaceBegin, Idle
<1>2. venue' = venue /\ now' = now /\ mode' = mode
  BY <1>1 DEF control
<1>3. venue \in VenueState /\ Queued(venue) /\ Uncrossed(venue)
  BY DEF IInv, Sound, WalkInv
<1>4. work'.nodes = venue.nodes /\ work'.nextSeq = venue.nextSeq /\ work'.backing = venue.backing
  BY <1>1, <1>3 DEF ResolveSeat, VenueState
<1>5. BookShrinks(venue, work')
  BY <1>3, <1>4, BookSame
<1>6. o.lots \in Nat /\ o.kind \in Kinds /\ ValidPrice(o.price)
  BY <1>1, BoundsAssumption DEF OrderArg, OrderAdmitted
<1>7. /\ taker'.order = o /\ taker'.remaining = o.lots /\ taker'.spent = 0 /\ taker'.received = 0
      /\ taker'.skipped = {} /\ taker'.stop = "none"
  BY <1>1
<1>8. WithinLimit(taker')
  <2> DEFINE z == 0
  <2>1. CashOf(o.kind, o.price, o.lots) \in Nat /\ o.lots - o.lots = z /\ z \in Nat
    BY <1>6, CashNat
  <2>2. CashOf(o.kind, o.price, z) = 0
    <3>1. OwnTicks(o.kind, o.price) \in Nat
      BY <1>6, OwnTicksRange, GridAssumption
    <3>2. QED
      BY <3>1 DEF CashOf
  <2> HIDE DEF z
  <2>3. QED
    BY <1>7, <2>1, <2>2 DEF WithinLimit, z
<1>9. Priority'
  BY <1>2, <1>4 DEF Priority, Filled
<1>10. mode # "Normal" => ~IsBuy(o.kind) /\ work'.backing <= venue.backing
  <2>1. venue.backing \in Nat
    BY <1>3 DEF VenueState
  <2>2. QED
    BY <1>1, <1>4, <2>1 DEF ModeAdmits
<1>11. Walking'
  BY <1>2, <1>5, <1>6, <1>7, <1>8, <1>9, <1>10 DEF Walking
<1>12. QED
  BY <1>2, <1>3, <1>11 DEF WalkInv, Queued, Uncrossed, Live, Expired

-----------------------------------------------------------------------------
(* The steps that commit.                                                  *)

\* A node that stays live under one seq is one order, which only shrinks; any other live order has a
\* seq that was never given out before.
HandlesKeep ==
  /\ venue.nextSeq <= venue'.nextSeq
  /\ \A n \in Nodes :
       LET a == venue.nodes[n]
           b == venue'.nodes[n]
       IN  /\ a.live /\ b.live /\ a.seq = b.seq => b.lots <= a.lots /\ b = [a EXCEPT !.lots = b.lots]
           /\ b.live => (a.live /\ b.seq = a.seq) \/ venue.nextSeq <= b.seq

MintsStop == mode # "Normal" => venue'.backing <= venue.backing

StepKept == WalkInv' /\ HandlesKeep /\ MintsStop

\* Committing a book whose orders only shrank.
LEMMA ShrinkCommits ==
  ASSUME IInv, WalkInv, BookShrinks(venue, venue'), venue' \in VenueState, phase' = "idle",
         now' = now \/ now' = now + 1, MintsStop
  PROVE  StepKept
<1>1. venue \in VenueState /\ Queued(venue) /\ Uncrossed(venue) /\ now \in Nat
  BY DEF IInv, Sound, WalkInv, Scalars
<1>2. \A n \in Nodes : venue.nodes[n] \in Node /\ venue'.nodes[n] \in Node
  BY <1>1 DEF VenueState
<1>3. ASSUME NEW n \in Live(venue')
      PROVE  /\ n \in Live(venue) /\ venue'.nodes[n].kind = venue.nodes[n].kind
             /\ venue'.nodes[n].price = venue.nodes[n].price /\ venue'.nodes[n].seq = venue.nodes[n].seq
             /\ venue'.nodes[n].expire = venue.nodes[n].expire
             /\ (venue.nodes[n].lots > 0 => venue'.nodes[n].lots > 0)
             /\ venue.nodes[n].expire \in Nat
  <2>1. n \in Nodes /\ venue'.nodes[n].live
    BY DEF Live
  <2>2. Shrunk(venue.nodes[n], venue'.nodes[n])
    BY <2>1 DEF BookShrinks
  <2>3. QED
    BY <1>2, <2>1, <2>2, ShrunkFields DEF Live, Node
<1>4. Queued(venue')
  BY <1>1, <1>3 DEF Queued, BookShrinks
<1>5. ASSUME NEW n \in Live(venue'), ~(venue'.nodes[n].expire <= now') PROVE ~Expired(venue, n)
  BY <1>1, <1>3, <1>5 DEF Expired
<1>6. Uncrossed(venue)'
  <2>1. SUFFICES ASSUME NEW b \in Live(venue'), NEW a \in Live(venue'),
                        IsBid(venue'.nodes[b].kind), ~IsBid(venue'.nodes[a].kind),
                        ~(venue'.nodes[b].expire <= now'), ~(venue'.nodes[a].expire <= now')
                 PROVE  venue'.nodes[b].price < venue'.nodes[a].price
    BY DEF Uncrossed, Expired
  <2>2. ~Expired(venue, a) /\ ~Expired(venue, b)
    BY <1>5, <2>1
  <2>3. QED
    BY <1>1, <1>3, <2>1, <2>2 DEF Uncrossed
<1>7. WalkInv'
  BY <1>4, <1>6 DEF WalkInv, Queued
<1>8. HandlesKeep
  <2>1. venue.nextSeq \in Nat
    BY <1>1 DEF VenueState
  <2>2. ASSUME NEW n \in Nodes, venue'.nodes[n].live
        PROVE  venue.nodes[n].live /\ venue'.nodes[n].seq = venue.nodes[n].seq
    BY <1>3, <2>2 DEF Live
  <2>3. QED
    BY <2>1, <2>2 DEF HandlesKeep, BookShrinks, Shrunk
<1>9. QED
  BY <1>7, <1>8 DEF StepKept

\* The walk itself commits nothing.
LEMMA WalkCommitsNothing ==
  ASSUME IInv, WalkInv, WalkInv', venue' = venue
  PROVE  StepKept
<1>1. venue \in VenueState
  BY DEF IInv, Sound
<1>2. BookShrinks(venue, venue) /\ venue.backing \in Nat /\ venue.nextSeq \in Nat
  BY <1>1, BookSame DEF VenueState
<1>3. HandlesKeep
  BY <1>2 DEF HandlesKeep, BookShrinks, Shrunk
<1>4. QED
  BY <1>2, <1>3 DEF StepKept, MintsStop

\* What the settling of a placement does not touch.
LEMMA SettleLeaves ==
  ASSUME NEW v \in VenueState, NEW e, Settle(v, e)
  PROVE  /\ venue'.nodes = v.nodes /\ venue'.nextSeq = v.nextSeq /\ venue'.backing = v.backing
         /\ phase' = "idle" /\ now' = now
<1> DEFINE need == taker.spent + e + BondFor(taker.claimed)
           credit == v.seats[taker.seat].credit + taker.received
           left == credit - CreditUsed(credit, need, taker.order.useCredit)
           funded == [v EXCEPT !.seats[taker.seat].credit = left]
<1>1. venue' = SweepCredit(funded, taker.seat, taker.order.withdraw) /\ phase' = "idle" /\ now' = now
  BY DEF Settle, control
<1> HIDE DEF left
<1>2. funded.nodes = v.nodes /\ funded.nextSeq = v.nextSeq /\ funded.backing = v.backing
  BY DEF VenueState
<1>3. venue' = funded \/ venue' = [funded EXCEPT !.seats[taker.seat].credit = 0]
  BY <1>1 DEF SweepCredit
<1>4. /\ venue'.nodes = funded.nodes /\ venue'.nextSeq = funded.nextSeq /\ venue'.backing = funded.backing
  BY <1>3 DEF VenueState
<1>5. QED
  BY <1>1, <1>2, <1>4

\* A placement that rests nothing commits the walk's removals and fills.
LEMMA PlaceDoneCommits ==
  ASSUME IInv, WalkInv, PlaceDone
  PROVE  StepKept
<1> DEFINE e == 0
<1>1. phase = "match" /\ Settle(work, e)
  BY DEF PlaceDone
<1>2. Walking /\ work \in VenueState /\ venue \in VenueState
  BY <1>1, WalkFacts
<1> HIDE DEF e
<1>3. /\ venue'.nodes = work.nodes /\ venue'.nextSeq = work.nextSeq /\ venue'.backing = work.backing
      /\ phase' = "idle" /\ now' = now
  BY <1>1, <1>2, SettleLeaves
<1>4. venue' \in VenueState
  BY PlaceDoneKeeps DEF IInv, Sound
<1>5. BookShrinks(venue, venue')
  BY <1>2, <1>3 DEF BookShrinks, Walking
<1>6. MintsStop
  BY <1>2, <1>3 DEF MintsStop, Walking
<1>7. QED
  BY <1>3, <1>4, <1>5, <1>6, ShrinkCommits

\* A placement that rests finds nothing left that it crosses, and its order gets a seq of its own.
LEMMA PlaceRestCommits ==
  ASSUME IInv, WalkInv, NEW n \in Nodes, PlaceRest(n)
  PROVE  StepKept
<1> DEFINE o == taker.order
           i == taker.seat
           q == taker.remaining
           e == IF IsBuy(o.kind) THEN CashOf(o.kind, o.price, q) ELSE 0
           v == RestOrder(work, n, i, o, q)
           new == [live |-> TRUE, kind |-> o.kind, price |-> o.price, lots |-> q,
                   seat |-> i, seq |-> work.nextSeq, expire |-> o.expire]
<1>1. /\ phase = "match" /\ n \notin Live(work) /\ Settle(v, e) /\ WalkDone /\ Accepted /\ Rests /\ q > 0
  BY DEF PlaceRest, Rests
<1>2. /\ Walking /\ work \in VenueState /\ venue \in VenueState /\ Queued(work) /\ Uncrossed(work)
      /\ o.kind \in Kinds /\ ValidPrice(o.price) /\ q \in Nat /\ now \in Nat
      /\ \A m \in Nodes : venue.nodes[m] \in Node /\ work.nodes[m] \in Node
  BY <1>1, WalkFacts
<1>3. Queued(venue)
  BY DEF WalkInv
<1>4. /\ v.nodes = [work.nodes EXCEPT ![n] = new] /\ v.nextSeq = work.nextSeq + 1 /\ v.backing = work.backing
  BY <1>2 DEF RestOrder, VenueState
<1>5. v \in VenueState
  <2>1. /\ Sound(work) /\ i \in Seats /\ o.expire \in Nat /\ Matching
    BY <1>1, InMatch
  <2>2. n \in Nodes \ Live(work) /\ (~IsBuy(o.kind) => work.seats[i].free[Outcome(o.kind)] >= q)
    BY <1>1, <2>1 DEF Matching, FreeCovers
  <2> HIDE DEF o, i, q, v
  <2>3. Sound(v)
    BY <1>2, <2>1, <2>2, RestOrderKeeps DEF v
  <2>4. QED
    BY <2>3 DEF Sound
<1> HIDE DEF e, v
<1>6. /\ venue'.nodes = v.nodes /\ venue'.nextSeq = v.nextSeq /\ venue'.backing = v.backing
      /\ phase' = "idle" /\ now' = now
  BY <1>1, <1>5, SettleLeaves
<1>7. /\ venue'.nodes[n] = new /\ venue'.nextSeq = work.nextSeq + 1 /\ work.nextSeq = venue.nextSeq
      /\ \A m \in Nodes \ {n} : venue'.nodes[m] = work.nodes[m]
  BY <1>2, <1>4, <1>6 DEF VenueState, Walking, BookShrinks
<1>8. Ahead = {}
  <2>1. o.type = "PostOnly" => taker.stop # "FillCap" /\ taker.stop # "SkipCap"
    BY <1>1, <1>2 DEF Walking, Accepted
  <2>2. taker.stop \in {"none", "FillCap", "SkipCap"}
    BY <1>1, WalkFacts DEF TakerState
  <2>3. taker.stop = "none"
    BY <1>1, <2>1, <2>2 DEF Rests
  <2>4. QED
    BY <1>1, <1>2, <2>3 DEF WalkDone
<1>9. \A m \in Live(work) : IsBid(work.nodes[m].kind) # IsBid(o.kind) /\ ~Expired(work, m)
        => ~Crosses(o.kind, o.price, work.nodes[m].price)
  BY <1>2, <1>8 DEF Ahead, Opposite, Walking
<1>10. work.nextSeq \in Nat
  BY <1>2 DEF VenueState
<1>11. Queued(venue')
  <2>1. SUFFICES ASSUME NEW m \in Live(venue')
                 PROVE  venue'.nodes[m].seq < venue'.nextSeq /\ venue'.nodes[m].lots > 0
    BY DEF Queued
  <2>2. CASE m = n
    BY <1>1, <1>7, <1>10, <2>2
  <2>3. CASE m # n
    <3>1. m \in Nodes /\ m \in Live(work) /\ venue'.nodes[m] = work.nodes[m]
      BY <1>7, <2>1, <2>3 DEF Live
    <3>2. work.nodes[m].seq \in Nat
      BY <1>2, <3>1 DEF Node
    <3>3. QED
      BY <1>2, <1>7, <1>10, <3>1, <3>2 DEF Queued
  <2>4. QED
    BY <2>2, <2>3
<1>12. Uncrossed(venue)'
  <2>1. SUFFICES ASSUME NEW b \in Live(venue'), NEW a \in Live(venue'),
                        IsBid(venue'.nodes[b].kind), ~IsBid(venue'.nodes[a].kind),
                        ~(venue'.nodes[b].expire <= now), ~(venue'.nodes[a].expire <= now)
                 PROVE  venue'.nodes[b].price < venue'.nodes[a].price
    BY <1>6 DEF Uncrossed, Expired
  <2>2. a \in Nodes /\ b \in Nodes
    BY DEF Live
  <2>3. \A m \in Live(venue') : m # n => m \in Live(work) /\ venue'.nodes[m] = work.nodes[m]
    BY <1>7 DEF Live
  <2>4. \A m \in Nodes : work.nodes[m].price \in Nat
    BY <1>2 DEF Node
  <2>5. o.price \in Nat
    BY <1>2 DEF ValidPrice
  <2>6. CASE a # n /\ b # n
    BY <1>2, <2>1, <2>3, <2>6 DEF Uncrossed, Expired
  <2>7. CASE b = n
    <3>1. IsBid(o.kind) /\ venue'.nodes[b].price = o.price /\ a # n
      BY <1>7, <2>1, <2>7
    <3>2. ~Crosses(o.kind, o.price, work.nodes[a].price)
      BY <1>9, <2>1, <2>3, <3>1 DEF Expired
    <3>3. QED
      BY <2>2, <2>3, <2>4, <2>5, <3>1, <3>2 DEF Crosses
  <2>8. CASE a = n
    <3>1. ~IsBid(o.kind) /\ venue'.nodes[a].price = o.price /\ b # n
      BY <1>7, <2>1, <2>8
    <3>2. ~Crosses(o.kind, o.price, work.nodes[b].price)
      BY <1>9, <2>1, <2>3, <3>1 DEF Expired
    <3>3. QED
      BY <2>2, <2>3, <2>4, <2>5, <3>1, <3>2 DEF Crosses
  <2>9. QED
    BY <2>6, <2>7, <2>8
<1>13. WalkInv'
  BY <1>6, <1>11, <1>12 DEF WalkInv, Queued
<1>14. HandlesKeep
  <2>1. venue.nextSeq \in Nat /\ venue'.nextSeq = venue.nextSeq + 1
    BY <1>7, <1>10
  <2>2. ASSUME NEW m \in Nodes, venue.nodes[m].live
        PROVE  venue.nodes[m].seq < venue.nextSeq /\ venue.nodes[m].seq \in Nat
    BY <1>2, <1>3, <2>2 DEF Queued, Live, Node
  <2>3. ASSUME NEW m \in Nodes, m # n PROVE Shrunk(venue.nodes[m], venue'.nodes[m])
    BY <1>2, <1>7, <2>3 DEF Walking, BookShrinks
  <2>4. venue'.nodes[n].seq = venue.nextSeq
    BY <1>7
  <2>5. ASSUME NEW m \in Nodes, venue.nodes[m].live, venue'.nodes[m].live,
               venue.nodes[m].seq = venue'.nodes[m].seq
        PROVE  /\ venue'.nodes[m].lots <= venue.nodes[m].lots
               /\ venue'.nodes[m] = [venue.nodes[m] EXCEPT !.lots = venue'.nodes[m].lots]
    <3>1. m # n
      BY <2>1, <2>2, <2>4, <2>5
    <3>2. QED
      BY <2>3, <2>5, <3>1 DEF Shrunk
  <2>6. ASSUME NEW m \in Nodes, venue'.nodes[m].live
        PROVE  (venue.nodes[m].live /\ venue'.nodes[m].seq = venue.nodes[m].seq)
                 \/ venue.nextSeq <= venue'.nodes[m].seq
    <3>1. CASE m = n
      BY <2>1, <2>4, <3>1
    <3>2. CASE m # n
      <4>1. /\ venue.nodes[m].live
            /\ venue'.nodes[m] = [venue.nodes[m] EXCEPT !.lots = venue'.nodes[m].lots]
        BY <2>3, <2>6, <3>2 DEF Shrunk
      <4>2. venue.nodes[m] \in Node
        BY <1>2
      <4>3. QED
        BY <4>1, <4>2 DEF Node
    <3>3. QED
      BY <3>1, <3>2
  <2>7. QED
    BY <2>1, <2>5, <2>6 DEF HandlesKeep
<1>15. MintsStop
  BY <1>2, <1>4, <1>6 DEF MintsStop, Walking
<1>16. QED
  BY <1>13, <1>14, <1>15 DEF StepKept

-----------------------------------------------------------------------------
(* The other instructions.                                                 *)

\* Committing accounts v, whose orders only shrank, whatever happens to the seats.
LEMMA EditCommits ==
  ASSUME IInv, WalkInv, IInv', NEW v, BookShrinks(venue, v), v.backing <= venue.backing \/ mode = "Normal",
         venue'.nodes = v.nodes, venue'.nextSeq = v.nextSeq, venue'.backing = v.backing,
         phase' = "idle", now' = now
  PROVE  StepKept
<1>1. venue' \in VenueState
  BY DEF IInv, Sound
<1>2. BookShrinks(venue, venue')
  BY DEF BookShrinks
<1>3. MintsStop
  BY DEF MintsStop
<1>4. QED
  BY <1>1, <1>2, <1>3, ShrinkCommits

\* Committing seats alone.
LEMMA SeatsCommit ==
  ASSUME IInv, WalkInv, IInv', venue'.nodes = venue.nodes, venue'.nextSeq = venue.nextSeq,
         venue'.backing = venue.backing, phase' = "idle", now' = now
  PROVE  StepKept
<1>1. venue \in VenueState
  BY DEF IInv, Sound
<1>2. BookShrinks(venue, venue) /\ venue.backing <= venue.backing
  BY <1>1, BookSame DEF VenueState
<1>3. QED
  BY <1>2, EditCommits

\* Sweeping a seat's credit leaves the book.
LEMMA SweepLeaves ==
  ASSUME NEW v \in VenueState, NEW i, NEW b \in BOOLEAN, NEW w, w = SweepCredit(v, i, b)
  PROVE  w.nodes = v.nodes /\ w.nextSeq = v.nextSeq /\ w.backing = v.backing
BY DEF SweepCredit, VenueState

\* Cancelling and sweeping orders.
LEMMA RemovalCommits ==
  ASSUME IInv, WalkInv, IInv', NEW S \in SUBSET Live(venue), NEW i, NEW b \in BOOLEAN,
         venue' = SweepCredit(RemoveNodes(venue, S), i, b), phase' = "idle", now' = now
  PROVE  StepKept
<1> DEFINE v == RemoveNodes(venue, S)
<1>1. Sound(venue) /\ venue \in VenueState /\ S \in SUBSET Nodes
  BY DEF IInv, Sound, Live
<1>2. BookShrinks(venue, v) /\ v.backing = venue.backing
  BY <1>1, RemoveShrinks
<1>3. v \in VenueState
  BY <1>1, RemoveNodesKeeps DEF Sound
<1>4. venue.backing \in Nat
  BY <1>1 DEF VenueState
<1>5. venue' = SweepCredit(v, i, b)
  OBVIOUS
<1> HIDE DEF v
<1>6. venue'.nodes = v.nodes /\ venue'.nextSeq = v.nextSeq /\ venue'.backing = v.backing
  BY <1>3, <1>5, SweepLeaves
<1>7. QED
  BY <1>2, <1>4, <1>6, EditCommits

\* user_cancel_orders, user_cancel_all and public_sweep_expired.
LEMMA CancelsCommit ==
  ASSUME IInv, WalkInv, IInv', NEW i, NEW H, NEW m, NEW b \in BOOLEAN,
         CancelOrders(i, H, b) \/ CancelAll(i, m, b) \/ SweepExpired(m)
  PROVE  StepKept
<1>1. CASE CancelOrders(i, H, b)
  <2>1. /\ LiveHandles(H) \in SUBSET Live(venue) /\ phase' = "idle" /\ now' = now
        /\ venue' = SweepCredit(RemoveNodes(venue, LiveHandles(H)), i, b)
    BY <1>1 DEF CancelOrders, Commit, Idle, LiveOf, control
  <2>2. QED
    BY <2>1, RemovalCommits
<1>2. CASE CancelAll(i, m, b)
  <2> DEFINE S == FirstBy({n \in LiveOf(venue, i) : n <= m}, MaxRemoved)
  <2>1. /\ S \in SUBSET Live(venue) /\ phase' = "idle" /\ now' = now
        /\ venue' = SweepCredit(RemoveNodes(venue, S), i, b)
    BY <1>2 DEF CancelAll, Commit, Idle, LiveOf, FirstBy, control
  <2> HIDE DEF S
  <2>2. QED
    BY <2>1, RemovalCommits
<1>3. CASE SweepExpired(m)
  <2> DEFINE S == FirstBy({n \in Live(venue) : DrainAll \/ Expired(venue, n)}, m)
  <2>1. /\ S \in SUBSET Live(venue) /\ phase' = "idle" /\ now' = now
        /\ venue' = SweepCredit(RemoveNodes(venue, S), i, FALSE)
    BY <1>3 DEF SweepExpired, Commit, Idle, FirstBy, control, SweepCredit
  <2> HIDE DEF S
  <2>2. QED
    BY <2>1, RemovalCommits
<1>4. QED
  BY <1>1, <1>2, <1>3

\* user_reduce_order.
LEMMA ReduceCommits ==
  ASSUME IInv, WalkInv, IInv', NEW i, NEW n \in Nodes, NEW q \in Nat, ReduceOrder(i, n, q)
  PROVE  StepKept
<1> DEFINE v == ReduceNode(venue, n, q)
<1>1. /\ n \in Live(venue) /\ MinLots <= q /\ q < venue.nodes[n].lots
      /\ venue' = v /\ phase' = "idle" /\ now' = now
  BY DEF ReduceOrder, Commit, Idle, LiveOf, control
<1>2. venue \in VenueState /\ venue.nodes[n].lots \in Nat /\ venue.backing \in Nat
  BY DEF IInv, Sound, VenueState, Node
<1>3. 0 < q /\ q <= venue.nodes[n].lots
  BY <1>1, <1>2, GridAssumption
<1>4. v = ReduceNode(venue, n, q)
  OBVIOUS
<1> HIDE DEF v
<1>6. BookShrinks(venue, v) /\ v.backing = venue.backing
  BY <1>1, <1>2, <1>3, <1>4, ReduceShrinks
<1>5. QED
  BY <1>1, <1>2, <1>6, EditCommits

\* The complete-set instructions: only Normal mode mints.
LEMMA SetsCommit ==
  ASSUME IInv, WalkInv, IInv', NEW a, NEW i \in Seats, NEW q \in Nat, NEW b \in BOOLEAN,
         MintSet(a, i, q, b) \/ MergeSet(i, q, b)
  PROVE  StepKept
<1>1. venue \in VenueState /\ venue.backing \in Nat
  BY DEF IInv, Sound, VenueState
<1>2. CASE MintSet(a, i, q, b)
  <2> DEFINE c == CreditUsed(venue.seats[i].credit, q * PairTicks + BondFor(Claims(venue, i)), b)
             v == ResolveSeat(venue, a, i)
  <2>1. /\ mode = "Normal" /\ phase' = "idle" /\ now' = now
        /\ venue' = [v EXCEPT !.backing = @ + q,
                              !.seats[i].credit = @ - c,
                              !.seats[i].free = [x \in Outcomes |-> @[x] + q]]
    BY <1>2 DEF MintSet, Commit, Idle, control
  <2>2. v.nodes = venue.nodes /\ v.nextSeq = venue.nextSeq
    BY <1>1 DEF ResolveSeat, VenueState
  <2> HIDE DEF c
  <2>3. DOMAIN v = {"seats", "nodes", "nextSeq", "seatsUsed", "capacity", "backing"}
    BY <1>1 DEF ResolveSeat, VenueState
  <2> HIDE DEF v
  <2>4. venue'.nodes = v.nodes /\ venue'.nextSeq = v.nextSeq
    BY <2>1, <2>3
  <2>5. BookShrinks(venue, venue')
    BY <1>1, <2>2, <2>4, BookSame
  <2>6. QED
    BY <2>1, <2>5, EditCommits
<1>3. CASE MergeSet(i, q, b)
  <2> DEFINE v == [venue EXCEPT !.backing = @ - q,
                                !.seats[i].credit = @ + q * PairTicks,
                                !.seats[i].free = [x \in Outcomes |-> @[x] - q]]
  <2>1. phase' = "idle" /\ now' = now /\ venue' = SweepCredit(v, i, b)
    BY <1>3 DEF MergeSet, Commit, Idle, control
  <2>2. /\ v.nodes = venue.nodes /\ v.nextSeq = venue.nextSeq /\ v.backing = venue.backing - q
        /\ DOMAIN v = {"seats", "nodes", "nextSeq", "seatsUsed", "capacity", "backing"}
    BY <1>1 DEF VenueState
  <2> HIDE DEF v
  <2>3. BookShrinks(venue, v) /\ v.backing <= venue.backing
    BY <1>1, <2>2, BookSame
  <2>4. venue'.nodes = v.nodes /\ venue'.nextSeq = v.nextSeq /\ venue'.backing = v.backing
    BY <2>1, <2>2 DEF SweepCredit
  <2>5. QED
    BY <2>1, <2>3, <2>4, EditCommits
<1>4. QED
  BY <1>2, <1>3

\* Instructions that touch seats, or the ledger's size, alone.
LEMMA SeatsOnly ==
  ASSUME IInv, WalkInv, IInv', NEW i, NEW c, NEW x,
         WithdrawCredit(i, c) \/ GrowLedger(c) \/ RedeemFull(i) \/ RedeemPartial(i, x, c)
  PROVE  StepKept
<1>1. venue \in VenueState
  BY DEF IInv, Sound
<1>2. phase' = "idle" /\ now' = now
  BY DEF WithdrawCredit, GrowLedger, RedeemFull, RedeemPartial, Commit, Idle, control
<1>3. venue'.nodes = venue.nodes /\ venue'.nextSeq = venue.nextSeq /\ venue'.backing = venue.backing
  <2>1. CASE WithdrawCredit(i, c)
    BY <1>1, <2>1 DEF WithdrawCredit, Commit, VenueState
  <2>2. CASE GrowLedger(c)
    BY <1>1, <2>2 DEF GrowLedger, Commit, VenueState
  <2>3. CASE RedeemFull(i)
    BY <1>1, <2>3 DEF RedeemFull, Commit, VenueState
  <2>4. CASE RedeemPartial(i, x, c)
    BY <1>1, <2>4 DEF RedeemPartial, Commit, VenueState
  <2>5. QED
    BY <2>1, <2>2, <2>3, <2>4
<1>4. QED
  BY <1>2, <1>3, SeatsCommit

\* What happens around the accounts leaves them; time only adds expired orders.
LEMMA AroundCommits ==
  ASSUME IInv, WalkInv, IInv', ReleaseBook \/ CloseLedger \/ Environment
  PROVE  StepKept
<1>1. venue' = venue /\ phase' = "idle" /\ (now' = now \/ now' = now + 1)
  BY DEF ReleaseBook, CloseLedger, Environment, Tick, Donate, SetMode, Resolve, Idle
<1>2. venue \in VenueState
  BY DEF IInv, Sound
<1>3. BookShrinks(venue, venue') /\ venue'.backing <= venue.backing /\ venue' \in VenueState
  BY <1>1, <1>2, BookSame DEF VenueState
<1>4. QED
  BY <1>1, <1>3, ShrinkCommits DEF MintsStop

-----------------------------------------------------------------------------
(* The theorems.                                                           *)

\* The empty book.
LEMMA InitWalk == Init => WalkInv
<1> SUFFICES ASSUME Init PROVE WalkInv
  OBVIOUS
<1>1. Live(venue) = {} /\ phase = "idle"
  BY DEF Init, InitialVenue, Live, EmptyNode
<1>2. QED
  BY <1>1 DEF WalkInv, Queued, Uncrossed

\* Every step keeps the invariant, the handles, and the stop of minting.
LEMMA StepKeeps == IInv /\ WalkInv /\ [Next]_vars => StepKept
<1> SUFFICES ASSUME IInv, WalkInv, [Next]_vars PROVE StepKept
  OBVIOUS
<1>0. IInv'
  BY NextKeeps
<1>1. ASSUME NEW a \in Owners, NEW i \in Seats, WalletStep(a, i) PROVE StepKept
  <2>1. ASSUME NEW o \in OrderArgs, PlaceBegin(a, i, o) PROVE StepKept
    BY <2>1, PlaceBeginWalks, WalkCommitsNothing
  <2>2. ASSUME NEW q \in MintLots, NEW c \in BOOLEAN, MintSet(a, i, q, c) PROVE StepKept
    BY <1>0, <2>2, BoundsAssumption, SetsCommit
  <2>3. QED
    BY <1>1, <2>1, <2>2 DEF WalletStep
<1>2. ASSUME NEW i \in Seats, SeatStep(i) PROVE StepKept
  <2>1. ASSUME NEW H \in HandleSets, NEW w \in BOOLEAN, CancelOrders(i, H, w) PROVE StepKept
    BY <1>0, <2>1, CancelsCommit
  <2>2. ASSUME NEW m \in 0..NNodes, NEW w \in BOOLEAN, CancelAll(i, m, w) PROVE StepKept
    BY <1>0, <2>2, CancelsCommit
  <2>3. ASSUME NEW n \in Nodes, NEW q \in 0..venue.nodes[n].lots, ReduceOrder(i, n, q) PROVE StepKept
    BY <1>0, <2>3, ReduceCommits
  <2>4. ASSUME NEW q \in MintLots, NEW w \in BOOLEAN, MergeSet(i, q, w) PROVE StepKept
    BY <1>0, <2>4, BoundsAssumption, SetsCommit
  <2>5. ASSUME NEW c \in 0..MaxCash, WithdrawCredit(i, c) PROVE StepKept
    BY <1>0, <2>5, SeatsOnly
  <2>6. ASSUME RedeemFull(i) PROVE StepKept
    BY <1>0, <2>6, SeatsOnly
  <2>7. ASSUME NEW x \in Outcomes, NEW q \in 0..venue.seats[i].free[x], RedeemPartial(i, x, q) PROVE StepKept
    BY <1>0, <2>7, SeatsOnly
  <2>8. QED
    BY <1>2, <2>1, <2>2, <2>3, <2>4, <2>5, <2>6, <2>7 DEF SeatStep, UserRedeem, RedeemFor
<1>3. ASSUME PlaceStep PROVE StepKept
  <2>1. ASSUME WalkStep PROVE StepKept
    <3>1. phase = "match" /\ WalksOn
      BY <2>1, EvictionWalks, WalkOnWalks, FillWalks DEF WalkStep
    <3>2. WalkInv' /\ venue' = venue
      BY <3>1, WalksOnKeeps DEF WalksOn
    <3>3. QED
      BY <3>2, WalkCommitsNothing
  <2>2. ASSUME PlaceRefused PROVE StepKept
    <3>1. venue' = venue /\ now' = now /\ phase' = "idle"
      BY <2>2 DEF PlaceRefused, control
    <3>2. WalkInv'
      BY <3>1 DEF WalkInv, Queued, Uncrossed, Live, Expired
    <3>3. QED
      BY <3>1, <3>2, WalkCommitsNothing
  <2>3. QED
    BY <1>3, <2>1, <2>2, PlaceRestCommits, PlaceDoneCommits DEF PlaceStep
<1>4. ASSUME Crank PROVE StepKept
  <2>1. ASSUME NEW m \in 1..MaxRemoved, SweepExpired(m) PROVE StepKept
    <3> DEFINE b == FALSE
    <3>1. b \in BOOLEAN
      OBVIOUS
    <3> HIDE DEF b
    <3>2. QED
      BY <1>0, <2>1, <3>1, CancelsCommit
  <2>2. ASSUME NEW k \in 1..GrowMax, GrowLedger(k) PROVE StepKept
    BY <1>0, <2>2, SeatsOnly
  <2>3. QED
    BY <1>0, <1>4, <2>1, <2>2, AroundCommits DEF Crank
<1>5. ASSUME Environment PROVE StepKept
  BY <1>0, <1>5, AroundCommits
<1>6. ASSUME UNCHANGED vars PROVE StepKept
  <2>1. WalkInv'
    BY <1>6 DEF vars, WalkInv, Queued, Uncrossed, Live, Expired, Walking, Priority, Filled, PassedOver,
                Opposite
  <2>2. venue' = venue
    BY <1>6 DEF vars
  <2>3. QED
    BY <2>1, <2>2, WalkCommitsNothing
<1>7. QED
  BY <1>1, <1>2, <1>3, <1>4, <1>5, <1>6 DEF Next

\* The second inductive invariant.
THEOREM WalkInvariantHolds == Spec => [](IInv /\ WalkInv)
<1>1. Init => IInv /\ WalkInv
  BY InitHolds, InitWalk
<1>2. IInv /\ WalkInv /\ [Next]_vars => (IInv /\ WalkInv)'
  BY NextKeeps, StepKeeps DEF StepKept
<1>3. QED
  BY <1>1, <1>2, PTL DEF Spec

\* The book never holds two unexpired orders that cross: whatever stops a walk, a remainder rests only
\* when nothing it crosses is left (user_place_order, the rest decision).
THEOREM NoLiveCrossHolds == Spec => []NoLiveCross
<1>1. WalkInv => NoLiveCross
  BY DEF WalkInv, Uncrossed, NoLiveCross
<1>2. QED
  BY <1>1, WalkInvariantHolds, PTL

\* A taker never pays more than its limit for what it bought, nor gets less for what it sold, in YES or
\* NO, on any path of a fill.
THEOREM TakerWithinLimitHolds == Spec => []TakerWithinLimit
<1>1. WalkInv => TakerWithinLimit
  BY DEF WalkInv, Walking, WithinLimit, TakerWithinLimit
<1>2. QED
  BY <1>1, WalkInvariantHolds, PTL

\* No order is filled past a live crossing order ahead of it, whatever is evicted, skipped or
\* cancelled on the way.
THEOREM PriceTimePriorityHolds == Spec => []PriceTimePriority
<1>1. WalkInv => PriceTimePriority
  BY DEF WalkInv, Walking, Priority, PriceTimePriority
<1>2. QED
  BY <1>1, WalkInvariantHolds, PTL

\* No handle of an order that is gone names a live one, and each was given out before nextSeq.
SpentInv ==
  /\ Named(venue) \cap spent = {}
  /\ \A h \in spent : h[2] \in Nat /\ h[2] < venue.nextSeq

LEMMA RetireKeeps ==
  ASSUME IInv, WalkInv, SpentInv, HandlesKeep, venue' \in VenueState, Retire
  PROVE  SpentInv'
<1>1. venue \in VenueState /\ Queued(venue)
  BY DEF IInv, Sound, WalkInv
<1>2. /\ venue.nextSeq \in Nat /\ venue'.nextSeq \in Nat /\ venue.nextSeq <= venue'.nextSeq
      /\ \A n \in Nodes : venue.nodes[n].seq \in Nat /\ venue'.nodes[n].seq \in Nat
  BY <1>1 DEF VenueState, Node, HandlesKeep
<1>3. ASSUME NEW n \in Live(venue')
      PROVE  <<n, venue'.nodes[n].seq>> \in Named(venue) \/ venue.nextSeq <= venue'.nodes[n].seq
  BY <1>3 DEF HandlesKeep, Named, Live
<1>4. \A h \in Named(venue) : h[2] \in Nat /\ h[2] < venue.nextSeq
  BY <1>1, <1>2 DEF Named, Queued, Live
<1>5. spent' = spent \cup (Named(venue) \ Named(venue'))
  BY DEF Retire
<1>6. ASSUME NEW n \in Live(venue'), <<n, venue'.nodes[n].seq>> \in spent' PROVE FALSE
  <2>1. <<n, venue'.nodes[n].seq>> \in Named(venue')
    BY DEF Named
  <2>2. <<n, venue'.nodes[n].seq>> \in spent
    BY <1>5, <1>6, <2>1
  <2>3. venue'.nodes[n].seq < venue.nextSeq
    BY <2>2 DEF SpentInv
  <2>4. venue'.nodes[n].seq \in Nat
    BY <1>2 DEF Live
  <2>5. <<n, venue'.nodes[n].seq>> \in Named(venue)
    BY <1>2, <1>3, <2>3, <2>4
  <2>6. QED
    BY <2>2, <2>5 DEF SpentInv
<1>7. Named(venue') \cap spent' = {}
  BY <1>6 DEF Named
<1>8. ASSUME NEW h \in spent' PROVE h[2] \in Nat /\ h[2] < venue'.nextSeq
  <2>1. CASE h \in spent
    <3>1. h[2] \in Nat /\ h[2] < venue.nextSeq
      BY <2>1 DEF SpentInv
    <3>2. QED
      BY <1>2, <3>1
  <2>2. CASE h \in Named(venue)
    BY <1>2, <1>4, <2>2
  <2>3. QED
    BY <1>5, <2>1, <2>2
<1>9. QED
  BY <1>7, <1>8 DEF SpentInv, Named, Live

\* A (node, seq) handle names one order for ever: in every behaviour, once its order is gone no live
\* order has it again, however late its node is reused.
THEOREM HandleNamesOneOrderHolds == HandlesSpec => HandleNamesOneOrder
<1> DEFINE Shrinks ==
       \A n \in Nodes :
         LET a == venue.nodes[n]
             b == venue'.nodes[n]
         IN  a.live /\ b.live /\ a.seq = b.seq => b.lots <= a.lots /\ b = [a EXCEPT !.lots = b.lots]
<1>1. HandlesInit => IInv /\ WalkInv /\ SpentInv
  <2>1. ASSUME Init PROVE Named(venue) = {}
    <3>1. Live(venue) = {}
      BY <2>1 DEF Init, InitialVenue, Live, EmptyNode
    <3>2. QED
      BY <3>1 DEF Named
  <2>2. QED
    BY <2>1, InitHolds, InitWalk DEF HandlesInit, SpentInv
<1>2. IInv /\ WalkInv /\ [Next]_vars => IInv' /\ WalkInv' /\ HandlesKeep
  BY NextKeeps, StepKeeps DEF StepKept
<1>3. IInv /\ WalkInv /\ SpentInv /\ [HandlesNext]_<<vars, spent>> => (IInv /\ WalkInv /\ SpentInv)'
  <2>1. ASSUME IInv, WalkInv, SpentInv, HandlesNext PROVE (IInv /\ WalkInv /\ SpentInv)'
    <3>1. IInv' /\ WalkInv' /\ HandlesKeep /\ Retire
      BY <1>2, <2>1 DEF HandlesNext
    <3>2. venue' \in VenueState
      BY <3>1 DEF IInv, Sound
    <3>3. SpentInv'
      BY <2>1, <3>1, <3>2, RetireKeeps
    <3>4. QED
      BY <3>1, <3>3
  <2>2. ASSUME IInv, WalkInv, SpentInv, UNCHANGED <<vars, spent>> PROVE (IInv /\ WalkInv /\ SpentInv)'
    <3>1. IInv' /\ WalkInv'
      BY <1>2, <2>2
    <3>2. venue' = venue /\ spent' = spent
      BY <2>2 DEF vars
    <3>3. QED
      BY <2>2, <3>1, <3>2 DEF SpentInv, Named, Live
  <2>3. QED
    BY <2>1, <2>2
<1>4. IInv /\ WalkInv /\ [HandlesNext]_<<vars, spent>> => [Shrinks]_vars
  <2>1. IInv /\ WalkInv /\ HandlesNext => Shrinks
    BY <1>2 DEF HandlesNext, HandlesKeep
  <2>2. UNCHANGED <<vars, spent>> => UNCHANGED vars
    OBVIOUS
  <2>3. QED
    BY <2>1, <2>2
<1>5. SpentInv => Named(venue) \cap spent = {}
  BY DEF SpentInv
<1>6. QED
  BY <1>1, <1>3, <1>4, <1>5, PTL DEF HandlesSpec, HandleNamesOneOrder

\* Outside Normal mode no step raises the collateral at risk, a walk's sells and burns included.
THEOREM HaltNeverMintsHolds == Spec => HaltNeverMints
<1>1. IInv /\ WalkInv /\ [Next]_vars => MintsStop
  BY StepKeeps DEF StepKept
<1>2. MintsStop => [mode # "Normal" => venue'.backing <= venue.backing]_vars
  BY DEF MintsStop
<1>3. QED
  BY <1>1, <1>2, WalkInvariantHolds, PTL DEF Spec, HaltNeverMints

-----------------------------------------------------------------------------
(* Who holds a seat.                                                       *)

Empty(s) == s.owner = NoOwner /\ Drained(s)

\* A seat is empty, or one authority holds it, it alone, within the ledger.
Seated(v) ==
  \A j \in Seats :
    \/ Empty(v.seats[j])
    \/ /\ v.seats[j].owner # NoOwner /\ j <= v.seatsUsed /\ j <= v.capacity
       /\ \A k \in Seats \ {j} : v.seats[k].owner # v.seats[j].owner

\* From v to w seats are only emptied, and the ledger only grows.
HoldersStay(v, w) ==
  /\ w.seatsUsed = v.seatsUsed /\ v.capacity <= w.capacity
  /\ \A j \in Seats : \/ Empty(w.seats[j])
                      \/ w.seats[j].owner # NoOwner /\ w.seats[j].owner = v.seats[j].owner

\* Escrowed or not, every seat holds the same lots.
PositionsKept(v, w) == \A i \in Seats, x \in Outcomes : Lots(w.seats[i], x) = Lots(v.seats[i], x)

\* Seats that are only emptied stay one to an authority.
LEMMA SeatedKept ==
  ASSUME NEW v \in VenueState, NEW w \in VenueState, Seated(v), HoldersStay(v, w)
  PROVE  Seated(w)
<1>1. SUFFICES ASSUME NEW j \in Seats, ~Empty(w.seats[j])
               PROVE  /\ w.seats[j].owner # NoOwner /\ j <= w.seatsUsed /\ j <= w.capacity
                      /\ \A k \in Seats \ {j} : w.seats[k].owner # w.seats[j].owner
  BY DEF Seated
<1>2. w.seats[j].owner # NoOwner /\ w.seats[j].owner = v.seats[j].owner
  BY <1>1 DEF HoldersStay
<1>3. /\ j <= v.seatsUsed /\ j <= v.capacity
      /\ \A k \in Seats \ {j} : v.seats[k].owner # v.seats[j].owner
  BY <1>2 DEF Seated, Empty
<1>4. v.capacity \in Nat /\ w.capacity \in Nat /\ j \in Nat
  BY SizesAssumption DEF VenueState, Seats
<1>5. j <= w.seatsUsed /\ j <= w.capacity
  BY <1>3, <1>4 DEF HoldersStay
<1>6. ASSUME NEW k \in Seats \ {j} PROVE w.seats[k].owner # w.seats[j].owner
  BY <1>2, <1>3 DEF HoldersStay, Empty
<1>7. QED
  BY <1>2, <1>5, <1>6

\* Editing the seats of I, which keep their owners.
LEMMA OwnedEdit ==
  ASSUME NEW v \in VenueState, NEW w, Seated(v), NEW I \in SUBSET Seats,
         w.seatsUsed = v.seatsUsed, w.capacity = v.capacity,
         \A j \in Seats \ I : w.seats[j] = v.seats[j],
         \A j \in I : v.seats[j].owner # NoOwner /\ w.seats[j].owner = v.seats[j].owner
  PROVE  HoldersStay(v, w)
<1>1. v.capacity <= w.capacity
  BY DEF VenueState
<1>2. \A j \in Seats : \/ Empty(w.seats[j])
                       \/ w.seats[j].owner # NoOwner /\ w.seats[j].owner = v.seats[j].owner
  BY DEF Seated
<1>3. QED
  BY <1>1, <1>2 DEF HoldersStay

\* A seat without orders on its count has no live order.
LEMMA NoOrdersNoneLive ==
  ASSUME NEW v, Sound(v), NEW n \in Live(v)
  PROVE  v.nodes[n].seat \in Seats /\ v.seats[v.nodes[n].seat].openOrders # 0
<1> DEFINE a == [m \in Nodes |-> 1]
           i == v.nodes[n].seat
<1>1. Live(v) \in SUBSET Nodes /\ i \in Seats
  BY DEF Live, Sound, LiveOK
<1>2. (\A m \in Live(v) : a[m] \in Nat) /\ a[n] = 1
  BY <1>1
<1>3. a[n] <= Total(v, Live(v), i, a)
  <2> HIDE DEF a
  <2> QED BY <1>1, <1>2, TotalBound
<1>4. v.seats[i].openOrders = Total(v, Live(v), i, a)
  BY <1>1 DEF Sound, Escrowed, OrderCount
<1>5. QED
  BY <1>1, <1>2, <1>3, <1>4

\* So a live order's seat is held.
LEMMA LiveSeatHeld ==
  ASSUME NEW v, Sound(v), Seated(v), NEW n \in Live(v)
  PROVE  v.nodes[n].seat \in Seats /\ v.seats[v.nodes[n].seat].owner # NoOwner
BY NoOrdersNoneLive DEF Seated, Empty, Drained

\* Removing orders empties no seat and moves no position.
LEMMA RemoveHolds ==
  ASSUME NEW v, Sound(v), Seated(v), NEW S \in SUBSET Live(v), NEW w, w = RemoveNodes(v, S)
  PROVE  HoldersStay(v, w) /\ PositionsKept(v, w)
<1> DEFINE R == Live(v) \ S
<1>1. v \in VenueState /\ S \in SUBSET Nodes /\ LiveOK(v)
  BY DEF Sound, Live
<1>2. /\ \A j : EscrowCash(v, S, j) \in Nat /\ \A x : EscrowLots(v, S, j, x) \in Nat
  BY <1>1, EscrowNat DEF VenueState, LiveOK
<1>3. w.seatsUsed = v.seatsUsed /\ w.capacity = v.capacity /\ v.capacity <= w.capacity
  BY <1>1 DEF RemoveNodes, VenueState
<1>4. ASSUME NEW j \in Seats PROVE Returned(v, S, R, w, j)
  <2> DEFINE T == R
  <2>1. T = Live(v) \ S
    OBVIOUS
  <2> HIDE DEF T
  <2>2. Returned(v, S, T, w, j)
    BY <2>1, RemovedSeat
  <2>3. QED
    BY <2>2 DEF T
<1>5. ASSUME NEW j \in Seats PROVE v.seats[j] \in Seat /\ w.seats[j] \in Seat
  BY <1>1, <1>4 DEF VenueState, Returned
<1>6. PositionsKept(v, w)
  <2>1. SUFFICES ASSUME NEW j \in Seats, NEW x \in Outcomes PROVE Lots(w.seats[j], x) = Lots(v.seats[j], x)
    BY DEF PositionsKept
  <2>2. /\ v.seats[j].free[x] \in Nat /\ v.seats[j].locked[x] \in Nat
    BY <1>5 DEF Seat
  <2>3. EscrowLots(v, S, j, x) \in Nat
    BY <1>2
  <2>4. /\ w.seats[j].free[x] = v.seats[j].free[x] + EscrowLots(v, S, j, x)
        /\ w.seats[j].locked[x] = v.seats[j].locked[x] - EscrowLots(v, S, j, x)
    BY <1>4 DEF Returned
  <2>5. QED
    BY <2>2, <2>3, <2>4 DEF Lots
<1>7. ASSUME NEW j \in Seats, Empty(v.seats[j]) PROVE Empty(w.seats[j])
  <2>1. /\ w.seats[j].owner = NoOwner /\ v.seats[j].credit = 0 /\ v.seats[j].lockedCash = 0
        /\ \A x \in Outcomes : v.seats[j].free[x] = 0 /\ v.seats[j].locked[x] = 0
    BY <1>4, <1>7 DEF Returned, SameHolder, Empty, Drained
  <2>2. /\ w.seats[j].credit \in Nat /\ w.seats[j].lockedCash \in Nat /\ w.seats[j].openOrders \in Nat
        /\ \A x \in Outcomes : w.seats[j].locked[x] \in Nat
    BY <1>5 DEF Seat
  <2>3. w.seats[j].credit = 0 /\ w.seats[j].lockedCash = 0
    <3>1. /\ w.seats[j].credit = 0 + EscrowCash(v, S, j)
          /\ w.seats[j].lockedCash = 0 - EscrowCash(v, S, j)
      BY <1>4, <2>1 DEF Returned
    <3>2. QED
      BY <1>2, <2>2, <3>1
  <2>4. ASSUME NEW x \in Outcomes PROVE w.seats[j].free[x] = 0 /\ w.seats[j].locked[x] = 0
    <3>1. /\ w.seats[j].free[x] = 0 + EscrowLots(v, S, j, x)
          /\ w.seats[j].locked[x] = 0 - EscrowLots(v, S, j, x)
      BY <1>4, <2>1 DEF Returned
    <3>2. QED
      BY <1>2, <2>2, <3>1
  <2>5. w.seats[j].openOrders = 0
    <3>1. Sound(w)
      BY RemoveNodesKeeps
    <3>2. w.seats[j].openOrders = OrderCount(v, R, j)
      BY <1>4 DEF Returned
    <3>3. \A n \in R : v.nodes[n].seat # j
      BY <1>7, NoOrdersNoneLive DEF Empty, Drained
    <3> DEFINE f == [n \in Nodes |-> IF n \in R /\ v.nodes[n].seat = j THEN [m \in Nodes |-> 1][n] ELSE 0]
    <3>4. \A n \in 1..NNodes : f[n] = 0
      BY <3>3 DEF Nodes
    <3>5. OrderCount(v, R, j) = Sum(f, NNodes)
      BY DEF OrderCount, Total
    <3> HIDE DEF f
    <3>6. Sum(f, NNodes) = 0
      BY <3>4, SizesAssumption, SumZeros
    <3>7. QED
      BY <3>2, <3>5, <3>6
  <2>6. QED
    BY <2>1, <2>3, <2>4, <2>5 DEF Empty, Drained
<1>8. ASSUME NEW j \in Seats PROVE w.seats[j].owner = v.seats[j].owner
  BY <1>4 DEF Returned, SameHolder
<1>9. QED
  BY <1>3, <1>6, <1>7, <1>8 DEF HoldersStay, Seated

\* A seat whose free and locked lots change by opposite amounts holds what it held.
LEMMA OneSeatMoves ==
  ASSUME NEW v \in VenueState, NEW w, NEW i \in Seats, \A j \in Seats \ {i} : w.seats[j] = v.seats[j],
         NEW d, \A x \in Outcomes : d[x] \in Nat,
         \/ \A x \in Outcomes : /\ w.seats[i].free[x] = v.seats[i].free[x] + d[x]
                                /\ w.seats[i].locked[x] = v.seats[i].locked[x] - d[x]
         \/ \A x \in Outcomes : /\ w.seats[i].free[x] = v.seats[i].free[x] - d[x]
                                /\ w.seats[i].locked[x] = v.seats[i].locked[x] + d[x]
  PROVE  PositionsKept(v, w)
<1>1. SUFFICES ASSUME NEW j \in Seats, NEW x \in Outcomes PROVE Lots(w.seats[j], x) = Lots(v.seats[j], x)
  BY DEF PositionsKept
<1>2. v.seats[i].free[x] \in Nat /\ v.seats[i].locked[x] \in Nat
  BY DEF VenueState, Seat
<1>3. CASE j # i
  BY <1>3
<1>4. CASE j = i
  BY <1>2, <1>4 DEF Lots
<1>5. QED
  BY <1>3, <1>4

\* Reducing an order.
LEMMA ReduceHolds ==
  ASSUME NEW v, Sound(v), Seated(v), NEW n \in Live(v), NEW q \in Nat, q <= v.nodes[n].lots,
         NEW w, w = ReduceNode(v, n, q)
  PROVE  HoldersStay(v, w) /\ PositionsKept(v, w)
<1> DEFINE o == v.nodes[n]
           i == o.seat
           c == o.lots - q
           s == v.seats[i]
           r == RefundEscrow(s, o.kind, o.price, c)
<1>1. v \in VenueState /\ n \in Nodes /\ o \in Node /\ i \in Seats /\ s.owner # NoOwner
  BY LiveSeatHeld DEF Sound, Live, VenueState
<1>2. s \in LooseSeat /\ o.kind \in Kinds /\ ValidPrice(o.price) /\ o.lots \in Nat /\ c \in Nat
  BY <1>1, LoosenSeat DEF VenueState, Sound, LiveOK, Node
<1>3. w.seats = [v.seats EXCEPT ![i] = r]
  BY <1>1 DEF ReduceNode, VenueState
<1>10. w.seatsUsed = v.seatsUsed /\ w.capacity = v.capacity
  BY <1>1 DEF ReduceNode, VenueState
<1>4. r = RefundEscrow(s, o.kind, o.price, c)
  OBVIOUS
<1> HIDE DEF r, c
<1>5. SameHolder(r, s) /\ \A x \in Outcomes : /\ r.free[x] = s.free[x] + LotsPart(o.kind, c, x)
                                              /\ r.locked[x] = s.locked[x] - LotsPart(o.kind, c, x)
  <2> HIDE DEF o, i, s
  <2> QED BY <1>2, <1>4, RefundFields
<1>6. w.seats[i] = r /\ \A j \in Seats \ {i} : w.seats[j] = v.seats[j]
  BY <1>1, <1>3 DEF VenueState
<1>7. HoldersStay(v, w)
  <2> DEFINE I == {i}
  <2>1. \A j \in Seats \ I : w.seats[j] = v.seats[j]
    BY <1>6
  <2>2. I \in SUBSET Seats /\ \A j \in I : v.seats[j].owner # NoOwner /\ w.seats[j].owner = v.seats[j].owner
    BY <1>1, <1>5, <1>6 DEF SameHolder
  <2> HIDE DEF I
  <2>3. QED
    BY <1>1, <1>10, <2>1, <2>2, OwnedEdit
<1>8. PositionsKept(v, w)
  <2> DEFINE d == [x \in Outcomes |-> LotsPart(o.kind, c, x)]
  <2>1. \A x \in Outcomes : d[x] = LotsPart(o.kind, c, x)
    OBVIOUS
  <2> HIDE DEF d
  <2>2. \A x \in Outcomes : d[x] \in Nat
    BY <1>2, <2>1 DEF LotsPart
  <2>3. \A x \in Outcomes : /\ w.seats[i].free[x] = v.seats[i].free[x] + d[x]
                            /\ w.seats[i].locked[x] = v.seats[i].locked[x] - d[x]
    BY <1>5, <1>6, <2>1
  <2>4. QED
    <3> HIDE DEF o, i, s
    <3> QED BY <1>1, <1>6, <2>2, <2>3, OneSeatMoves
<1>9. QED
  BY <1>7, <1>8

\* Resting an order of a held seat.
LEMMA RestHolds ==
  ASSUME NEW v, Sound(v), Seated(v), NEW n, NEW i \in Seats, v.seats[i].owner # NoOwner,
         NEW o, o.kind \in Kinds, ValidPrice(o.price), NEW q \in Nat,
         ~IsBuy(o.kind) => v.seats[i].free[Outcome(o.kind)] >= q,
         NEW w, w = RestOrder(v, n, i, o, q)
  PROVE  HoldersStay(v, w) /\ PositionsKept(v, w)
<1> DEFINE s == v.seats[i]
           l == LockEscrow(s, o.kind, o.price, q)
           r == [l EXCEPT !.openOrders = @ + 1]
<1>1. v \in VenueState /\ s \in LooseSeat
  BY LoosenSeat DEF Sound, VenueState
<1>2. w.seats = [v.seats EXCEPT ![i] = r]
  BY <1>1 DEF RestOrder, VenueState
<1>10. w.seatsUsed = v.seatsUsed /\ w.capacity = v.capacity
  BY <1>1 DEF RestOrder, VenueState
<1>3. l = LockEscrow(s, o.kind, o.price, q)
  OBVIOUS
<1> HIDE DEF l
<1>4. l \in LooseSeat /\ SameHolder(l, s)
      /\ \A x \in Outcomes : /\ l.free[x] = s.free[x] - LotsPart(o.kind, q, x)
                             /\ l.locked[x] = s.locked[x] + LotsPart(o.kind, q, x)
  BY <1>1, <1>3, LockFields
<1>5. r.owner = l.owner /\ r.free = l.free /\ r.locked = l.locked
  BY <1>4 DEF LooseSeat
<1> HIDE DEF r
<1>6. w.seats[i] = r /\ \A j \in Seats \ {i} : w.seats[j] = v.seats[j]
  BY <1>1, <1>2 DEF VenueState
<1>7. HoldersStay(v, w)
  <2> DEFINE I == {i}
  <2>1. \A j \in Seats \ I : w.seats[j] = v.seats[j]
    BY <1>6
  <2>2. I \in SUBSET Seats /\ \A j \in I : v.seats[j].owner # NoOwner /\ w.seats[j].owner = v.seats[j].owner
    BY <1>4, <1>5, <1>6 DEF SameHolder
  <2> HIDE DEF I
  <2>3. QED
    BY <1>1, <1>10, <2>1, <2>2, OwnedEdit
<1>8. PositionsKept(v, w)
  <2> DEFINE d == [x \in Outcomes |-> LotsPart(o.kind, q, x)]
  <2>1. \A x \in Outcomes : d[x] = LotsPart(o.kind, q, x)
    OBVIOUS
  <2> HIDE DEF d
  <2>2. \A x \in Outcomes : d[x] \in Nat
    BY <2>1 DEF LotsPart
  <2>3. \A x \in Outcomes : /\ w.seats[i].free[x] = v.seats[i].free[x] - d[x]
                            /\ w.seats[i].locked[x] = v.seats[i].locked[x] + d[x]
    BY <1>4, <1>5, <1>6, <2>1
  <2>4. QED
    BY <1>1, <1>6, <2>2, <2>3, OneSeatMoves
<1>9. QED
  BY <1>7, <1>8

\* Filling an order, by a held seat.
LEMMA FillHolds ==
  ASSUME NEW v, Sound(v), Seated(v), NEW n \in Live(v), NEW i \in Seats, v.seats[i].owner # NoOwner,
         v.nodes[n].seat # i, NEW k \in Kinds, NEW q, NEW w, w = FillNode(v, n, i, k, q),
         SameHolders(v, w)
  PROVE  HoldersStay(v, w)
<1> DEFINE z == v.nodes[n].seat
           I == {z, i}
<1>1. v \in VenueState /\ z \in Seats /\ v.seats[z].owner # NoOwner
  BY LiveSeatHeld DEF Sound
<1>2. w.seatsUsed = v.seatsUsed /\ w.capacity = v.capacity
  BY <1>1 DEF FillNode, VenueState
<1>3. \A j \in Seats \ I : w.seats[j] = v.seats[j]
  BY <1>1 DEF FillNode, VenueState
<1>4. I \in SUBSET Seats /\ \A j \in I : v.seats[j].owner # NoOwner /\ w.seats[j].owner = v.seats[j].owner
  BY <1>1 DEF SameHolders, SameHolder
<1> HIDE DEF I
<1>5. QED
  BY <1>1, <1>2, <1>3, <1>4, OwnedEdit

\* Editing a held seat's credit, or its free lots.
LEMMA SeatHolds ==
  ASSUME NEW v \in VenueState, Seated(v), NEW i \in Seats, v.seats[i].owner # NoOwner, NEW r,
         r.owner = v.seats[i].owner, NEW w, w.seats[i] = r, \A j \in Seats \ {i} : w.seats[j] = v.seats[j],
         w.seatsUsed = v.seatsUsed, w.capacity = v.capacity
  PROVE  /\ HoldersStay(v, w)
         /\ r.free = v.seats[i].free /\ r.locked = v.seats[i].locked => PositionsKept(v, w)
<1> DEFINE I == {i}
<1>2. \A j \in Seats \ I : w.seats[j] = v.seats[j]
  OBVIOUS
<1>3. HoldersStay(v, w)
  <2>1. I \in SUBSET Seats /\ \A j \in I : v.seats[j].owner # NoOwner /\ w.seats[j].owner = v.seats[j].owner
    OBVIOUS
  <2>2. w.seatsUsed = v.seatsUsed /\ w.capacity = v.capacity
    OBVIOUS
  <2> HIDE DEF I
  <2> QED BY <1>2, <2>1, <2>2, OwnedEdit
<1>4. ASSUME r.free = v.seats[i].free, r.locked = v.seats[i].locked PROVE PositionsKept(v, w)
  BY <1>4 DEF PositionsKept, Lots
<1>5. QED
  BY <1>3, <1>4

\* Setting a held seat's credit.
LEMMA CreditHolds ==
  ASSUME NEW v \in VenueState, Seated(v), NEW i \in Seats, v.seats[i].owner # NoOwner,
         NEW c, NEW w, w = [v EXCEPT !.seats[i].credit = c]
  PROVE  HoldersStay(v, w) /\ PositionsKept(v, w) /\ w.seats[i].owner # NoOwner
<1> DEFINE s == v.seats[i]
           r == [s EXCEPT !.credit = c]
<1>1. s \in Seat
  BY DEF VenueState
<1>2. r.owner = s.owner /\ r.free = s.free /\ r.locked = s.locked
  BY <1>1 DEF Seat
<1>3. w.seatsUsed = v.seatsUsed /\ w.capacity = v.capacity
  BY DEF VenueState
<1>4. w.seats[i] = r /\ \A j \in Seats \ {i} : w.seats[j] = v.seats[j]
  BY DEF VenueState
<1> HIDE DEF r
<1>5. QED
  BY <1>2, <1>3, <1>4, SeatHolds

\* Sweeping it.
LEMMA SweepHolds ==
  ASSUME NEW v \in VenueState, Seated(v), NEW i \in Seats, v.seats[i].owner # NoOwner,
         NEW b \in BOOLEAN, NEW w, w = SweepCredit(v, i, b)
  PROVE  HoldersStay(v, w) /\ PositionsKept(v, w)
<1>1. CASE b
  <2> DEFINE c == 0
  <2>1. w = [v EXCEPT !.seats[i].credit = c]
    BY <1>1 DEF SweepCredit
  <2> HIDE DEF c
  <2>2. QED
    BY <2>1, CreditHolds
<1>2. CASE ~b
  <2>1. w = v
    BY <1>2 DEF SweepCredit
  <2>2. v.capacity <= v.capacity
    BY DEF VenueState
  <2>3. QED
    BY <2>1, <2>2 DEF HoldersStay, PositionsKept, Seated
<1>3. QED
  BY <1>1, <1>2

\* Holders stay through two changes.
LEMMA HoldersTwice ==
  ASSUME NEW u \in VenueState, NEW v \in VenueState, NEW w \in VenueState,
         HoldersStay(u, v), HoldersStay(v, w)
  PROVE  HoldersStay(u, w) /\ (PositionsKept(u, v) /\ PositionsKept(v, w) => PositionsKept(u, w))
<1>1. u.capacity <= w.capacity
  BY DEF HoldersStay, VenueState
<1>2. \A j \in Seats : \/ Empty(w.seats[j])
                       \/ w.seats[j].owner # NoOwner /\ w.seats[j].owner = u.seats[j].owner
  BY DEF HoldersStay, Empty
<1>3. QED
  BY <1>1, <1>2 DEF HoldersStay, PositionsKept

\* resolve_seat: an authority that holds a seat is never given an empty one.
LEMMA ClaimSeats ==
  ASSUME NEW v, Sound(v), Seated(v), NEW a \in Owners, NEW i \in Seats, ResolvesTo(v, a, i),
         NEW w, w = ResolveSeat(v, a, i)
  PROVE  Seated(w) /\ w.seats[i].owner # NoOwner /\ PositionsKept(v, w)
<1>1. v \in VenueState /\ a # NoOwner /\ i \in Nat /\ v.seats[i] \in Seat /\ i <= v.capacity
  BY SizesAssumption DEF Sound, VenueState, Seats, ResolvesTo
<1>2. CASE ~Claims(v, i)
  BY <1>2 DEF ResolveSeat, Claims, PositionsKept
<1>3. CASE Claims(v, i)
  <2> DEFINE used == IF i > v.seatsUsed THEN i ELSE v.seatsUsed
             r == [v.seats[i] EXCEPT !.owner = a, !.bonded = TRUE]
  <2>1. w.seats = [v.seats EXCEPT ![i] = r] /\ w.seatsUsed = used /\ w.capacity = v.capacity
    BY <1>1, <1>3 DEF ResolveSeat, VenueState
  <2>2. r.owner = a /\ r.free = v.seats[i].free /\ r.locked = v.seats[i].locked
    BY <1>1 DEF Seat
  <2> HIDE DEF r
  <2>3. w.seats[i] = r /\ \A j \in Seats \ {i} : w.seats[j] = v.seats[j]
    BY <1>1, <2>1 DEF VenueState
  <2>4. v.seatsUsed <= used /\ i <= used /\ used \in Nat /\ v.seatsUsed \in Nat
    BY <1>1 DEF VenueState
  <2> HIDE DEF used
  <2>5. \A j \in Seats : v.seats[j].owner # a
    <3>1. SUFFICES ASSUME NEW j \in Seats, v.seats[j].owner = a PROVE FALSE
      OBVIOUS
    <3>2. j <= v.seatsUsed /\ j <= v.capacity
      BY <1>1, <3>1 DEF Seated, Empty
    <3>3. HoldsSeat(v, a)
      BY <3>1, <3>2 DEF HoldsSeat
    <3>4. QED
      BY <1>1, <1>3, <3>3 DEF ResolvesTo, Claims
  <2>6. ASSUME NEW j \in Seats, j # i, ~Empty(v.seats[j])
        PROVE  /\ w.seats[j].owner # NoOwner /\ j <= w.seatsUsed /\ j <= w.capacity
               /\ \A k \in Seats \ {j} : w.seats[k].owner # w.seats[j].owner
    <3>1. /\ v.seats[j].owner # NoOwner /\ j <= v.seatsUsed /\ j <= v.capacity /\ j \in Nat
          /\ \A k \in Seats \ {j} : v.seats[k].owner # v.seats[j].owner
      BY <2>6, SizesAssumption DEF Seated, Seats
    <3>2. j <= w.seatsUsed /\ j <= w.capacity
      BY <2>1, <2>4, <3>1
    <3>3. \A k \in Seats \ {j} : w.seats[k].owner # w.seats[j].owner
      BY <2>2, <2>3, <2>5, <2>6, <3>1
    <3>4. QED
      BY <2>3, <2>6, <3>1, <3>2, <3>3
  <2>7. /\ w.seats[i].owner # NoOwner /\ i <= w.seatsUsed /\ i <= w.capacity
        /\ \A k \in Seats \ {i} : w.seats[k].owner # w.seats[i].owner
    BY <1>1, <2>1, <2>2, <2>3, <2>4, <2>5
  <2>8. Seated(w)
    BY <2>3, <2>6, <2>7 DEF Seated
  <2>9. PositionsKept(v, w)
    BY <2>2, <2>3 DEF PositionsKept, Lots
  <2>10. QED
    BY <2>7, <2>8, <2>9
<1>4. QED
  BY <1>2, <1>3

-----------------------------------------------------------------------------
(* The third invariant: seats, positions and what the closing sweeps.      *)

\* A placement runs in a Window that takes it; a Listed one lets nothing be traded.
Placing ==
  /\ Seated(work) /\ work.seats[taker.seat].owner # NoOwner
  /\ Status \in {"Listed", "Trading"}
  /\ Status = "Listed" => taker.order.type = "PostOnly" /\ PositionsKept(venue, work)

SeatInv ==
  /\ Seated(venue)
  /\ closed => residue = donated
  /\ phase = "match" => Placing

PositionsFrozen == Status = "Listed" \/ Status = "Locked" => PositionsKept(venue, venue')

SeatsKept == SeatInv' /\ PositionsFrozen

\* The book, the seats and what was swept, of a step that leaves the accounts alone.
LEMMA SameSeats ==
  ASSUME NEW v \in VenueState, Seated(v)
  PROVE  HoldersStay(v, v) /\ PositionsKept(v, v)
<1>1. v.capacity <= v.capacity
  BY DEF VenueState
<1>2. QED
  BY <1>1 DEF HoldersStay, PositionsKept, Seated

\* A step that commits seats which stay held.
LEMMA CommitSeats ==
  ASSUME IInv, IInv', SeatInv, HoldersStay(venue, venue'), PositionsFrozen, phase' = "idle",
         closed' => residue' = donated'
  PROVE  SeatsKept
<1>1. venue \in VenueState /\ venue' \in VenueState
  BY DEF IInv, Sound
<1>2. Seated(venue')
  BY <1>1, SeatedKept DEF SeatInv
<1>3. Seated(venue)'
  BY <1>2 DEF Seated, Empty, Drained
<1>4. QED
  BY <1>3 DEF SeatsKept, SeatInv

\* A step of the walk.
LEMMA WalkSeats ==
  ASSUME IInv, SeatInv, phase = "match", UNCHANGED <<venue, phase, mvault, control>>,
         taker'.seat = taker.seat, taker'.order = taker.order,
         Seated(work'), work'.seats[taker.seat].owner # NoOwner,
         Status = "Listed" => PositionsKept(work, work')
  PROVE  SeatsKept
<1>1. /\ venue' = venue /\ phase' = phase /\ now' = now /\ result' = result
      /\ residue' = residue /\ donated' = donated /\ closed' = closed
  BY DEF control
<1>2. Status' = Status
  BY <1>1 DEF Status, Terminal
<1>3. Status = "Listed" => PositionsKept(venue, work')
  BY DEF SeatInv, Placing, PositionsKept
<1>4. Placing'
  <2>1. Seated(work)'
    BY DEF Seated, Empty, Drained
  <2>2. Status = "Listed" => PositionsKept(venue, work)'
    BY <1>1, <1>3 DEF PositionsKept
  <2>3. QED
    BY <1>1, <1>2, <2>1, <2>2 DEF SeatInv, Placing
<1>5. Seated(venue)'
  BY <1>1 DEF SeatInv, Seated, Empty, Drained
<1>6. PositionsFrozen
  BY <1>1 DEF PositionsFrozen, PositionsKept
<1>7. QED
  BY <1>1, <1>4, <1>5, <1>6 DEF SeatInv, SeatsKept

\* Passing over an order, or stopping.
LEMMA WalkOnSeats ==
  ASSUME IInv, SeatInv, NEW n \in Nodes, SkipExpired(n) \/ StopAtFillCap(n)
  PROVE  SeatsKept
<1>1. phase = "match" /\ work' = work /\ UNCHANGED <<venue, phase, mvault, control>>
  BY DEF SkipExpired, StopAtFillCap, VisitsLive, Visits
<1>2. taker \in TakerState
  BY <1>1, InMatch
<1>3. taker'.seat = taker.seat /\ taker'.order = taker.order
  BY <1>2 DEF SkipExpired, StopAtFillCap, TakerState
<1>4. Seated(work) /\ work.seats[taker.seat].owner # NoOwner
  BY <1>1 DEF SeatInv, Placing
<1>5. PositionsKept(work, work')
  BY <1>1 DEF PositionsKept
<1>6. Seated(work')
  BY <1>1, <1>4
<1>7. work'.seats[taker.seat].owner # NoOwner
  BY <1>1, <1>4
<1>8. QED
  BY <1>1, <1>3, <1>5, <1>6, <1>7, WalkSeats

\* Evicting an order, or cancelling one's own.
LEMMA EvictionSeats ==
  ASSUME IInv, SeatInv, NEW n \in Nodes, EvictExpired(n) \/ CancelOwnMaker(n)
  PROVE  SeatsKept
<1>1. /\ Visits(n) /\ work' = RemoveNodes(work, {n}) /\ UNCHANGED <<venue, phase, mvault, control>>
  BY DEF EvictExpired, CancelOwnMaker, VisitsLive
<1>2. /\ phase = "match" /\ {n} \in SUBSET Live(work) /\ taker \in TakerState /\ Sound(work)
      /\ taker.seat \in Seats
  BY <1>1, Visited, InMatch
<1>3. taker'.seat = taker.seat /\ taker'.order = taker.order
  BY <1>2 DEF EvictExpired, CancelOwnMaker, TakerState
<1>4. Seated(work) /\ work.seats[taker.seat].owner # NoOwner
  BY <1>2 DEF SeatInv, Placing
<1>5. HoldersStay(work, work') /\ PositionsKept(work, work')
  BY <1>1, <1>2, <1>4, RemoveHolds
<1>6. Sound(work') /\ SameHolders(work, work')
  BY <1>1, <1>2, RemoveNodesKeeps
<1>7. Seated(work')
  BY <1>2, <1>4, <1>5, <1>6, SeatedKept DEF Sound
<1>8. work'.seats[taker.seat].owner # NoOwner
  BY <1>2, <1>4, <1>6 DEF SameHolders, SameHolder
<1>9. QED
  BY <1>1, <1>2, <1>3, <1>5, <1>7, <1>8, WalkSeats

\* A fill: the Window trades, or the order would be PostOnly.
LEMMA FillSeats ==
  ASSUME IInv, SeatInv, NEW n \in Nodes, Fill(n)
  PROVE  SeatsKept
<1> DEFINE m == work.nodes[n]
           k == taker.order.kind
           i == taker.seat
           q == IF taker.remaining <= m.lots THEN taker.remaining ELSE m.lots
           cash == CashOf(k, m.price, q)
<1>1. /\ phase = "match" /\ n \in Live(work) /\ m \in Node /\ IsBid(k) # IsBid(m.kind)
  BY Visited DEF Fill, VisitsLive
<1>2. /\ Matching /\ Sound(work) /\ Paired(work) /\ taker \in TakerState /\ i \in Seats /\ k \in Kinds
      /\ taker.remaining \in Nat /\ work \in VenueState
  BY <1>1, InMatch
<1>3. m.lots \in Nat
  BY <1>1 DEF Node
<1>4. q \in Nat /\ q <= m.lots /\ q <= taker.remaining
  BY <1>2, <1>3
<1>5. /\ m.seat # i /\ taker.order.type # "PostOnly"
      /\ work' = FillNode(work, n, i, k, q) /\ UNCHANGED <<venue, phase, mvault, control>>
  BY DEF Fill, Own, VisitsLive
<1>6. taker'.seat = i /\ taker'.order = taker.order
  BY <1>2 DEF Fill, TakerState
<1>7. ~IsBuy(k) => work.seats[i].free[Outcome(k)] >= q
  <2>1. ~IsBuy(k) => work.seats[i].free[Outcome(k)] >= taker.remaining
    BY <1>2 DEF Matching, FreeCovers
  <2>2. work.seats[i].free[Outcome(k)] \in Nat
    BY <1>2, FreeNat
  <2> HIDE DEF q
  <2>3. QED
    BY <1>2, <1>4, <2>1, <2>2
<1> HIDE DEF q
<1>8. Sound(work') /\ SameHolders(work, work')
  BY <1>1, <1>2, <1>4, <1>5, <1>7, FillNodeKeeps
<1>9. Seated(work) /\ work.seats[i].owner # NoOwner /\ Status # "Listed"
  BY <1>1, <1>5 DEF SeatInv, Placing
<1>10. HoldersStay(work, work')
  BY <1>1, <1>2, <1>5, <1>8, <1>9, FillHolds
<1>11. Seated(work')
  BY <1>2, <1>8, <1>9, <1>10, SeatedKept DEF Sound
<1>12. work'.seats[i].owner # NoOwner
  BY <1>2, <1>8, <1>9 DEF SameHolders, SameHolder
<1>13. QED
  BY <1>1, <1>5, <1>6, <1>9, <1>11, <1>12, WalkSeats

\* A placement begins with a seat of its own.
LEMMA PlaceBeginSeats ==
  ASSUME IInv, SeatInv, NEW a \in Owners, NEW i \in Seats, NEW o \in OrderArgs, PlaceBegin(a, i, o)
  PROVE  SeatsKept
<1>1. /\ OrderAdmitted(o) /\ ResolvesTo(venue, a, i) /\ phase' = "match"
      /\ work' = ResolveSeat(venue, a, i) /\ UNCHANGED <<venue, mvault, control>>
      /\ taker'.seat = i /\ taker'.order = o
  BY DEF PlaceBegin
<1>2. /\ venue' = venue /\ now' = now /\ result' = result
      /\ residue' = residue /\ donated' = donated /\ closed' = closed
  BY <1>1 DEF control
<1>3. Sound(venue) /\ Seated(venue)
  BY DEF IInv, SeatInv
<1>4. Seated(work') /\ work'.seats[i].owner # NoOwner /\ PositionsKept(venue, work')
  BY <1>1, <1>3, ClaimSeats
<1>5. Status' = Status
  BY <1>2 DEF Status, Terminal
<1>6. Status \in {"Listed", "Trading"} /\ (Status = "Listed" => o.type = "PostOnly")
  BY <1>1 DEF OrderAdmitted, StatusAdmits
<1>7. Placing'
  <2>1. Seated(work)'
    BY <1>4 DEF Seated, Empty, Drained
  <2>2. PositionsKept(venue, work)'
    BY <1>2, <1>4 DEF PositionsKept
  <2>3. QED
    BY <1>1, <1>4, <1>5, <1>6, <2>1, <2>2 DEF Placing
<1>8. Seated(venue)'
  BY <1>2, <1>3 DEF Seated, Empty, Drained
<1>9. PositionsFrozen
  BY <1>2 DEF PositionsFrozen, PositionsKept
<1>10. QED
  BY <1>2, <1>7, <1>8, <1>9 DEF SeatInv, SeatsKept

\* A step that commits seats of one authority each.
LEMMA SeatedCommits ==
  ASSUME Seated(venue'), PositionsFrozen, phase' = "idle", closed' => residue' = donated'
  PROVE  SeatsKept
<1>1. Seated(venue)'
  BY DEF Seated, Empty, Drained
<1>2. QED
  BY <1>1 DEF SeatsKept, SeatInv

\* A refused placement leaves the committed seats.
LEMMA PlaceRefusedSeats ==
  ASSUME IInv, SeatInv, PlaceRefused
  PROVE  SeatsKept
<1>1. venue' = venue /\ phase' = "idle" /\ closed' = closed /\ residue' = residue /\ donated' = donated
  BY DEF PlaceRefused, control
<1>2. PositionsFrozen
  BY <1>1 DEF PositionsFrozen, PositionsKept
<1>3. QED
  BY <1>1, <1>2, SeatedCommits DEF SeatInv

\* Settling writes one credit of the accounts v, which the walk held on to.
LEMMA SettleSeats ==
  ASSUME IInv, IInv', SeatInv, phase = "match", NEW v, NEW e, Settle(v, e), Sound(v), SameHolders(work, v),
         HoldersStay(work, v), PositionsKept(work, v)
  PROVE  SeatsKept
<1> DEFINE i == taker.seat
           need == taker.spent + e + BondFor(taker.claimed)
           credit == v.seats[i].credit + taker.received
           left == credit - CreditUsed(credit, need, taker.order.useCredit)
           funded == [v EXCEPT !.seats[i].credit = left]
<1>1. /\ venue' = SweepCredit(funded, i, taker.order.withdraw) /\ phase' = "idle"
      /\ now' = now /\ result' = result /\ closed' = closed /\ residue' = residue /\ donated' = donated
  BY DEF Settle, control
<1>2. /\ i \in Seats /\ work \in VenueState /\ v \in VenueState /\ venue \in VenueState /\ venue' \in VenueState
      /\ ~closed
  BY InMatch DEF Sound, Matching, IInv
<1>3. /\ Seated(work) /\ work.seats[i].owner # NoOwner /\ Status \in {"Listed", "Trading"}
      /\ (Status = "Listed" => PositionsKept(venue, work))
  BY DEF SeatInv, Placing
<1>4. Seated(v)
  BY <1>2, <1>3, SeatedKept
<1>5. v.seats[i].owner # NoOwner
  BY <1>2, <1>3 DEF SameHolders, SameHolder
<1> HIDE DEF left
<1> DEFINE r == venue'.seats[i]
<1>6. /\ r.owner = v.seats[i].owner /\ r.free = v.seats[i].free /\ r.locked = v.seats[i].locked
      /\ \A j \in Seats \ {i} : venue'.seats[j] = v.seats[j]
      /\ venue'.seatsUsed = v.seatsUsed /\ venue'.capacity = v.capacity
  <2>1. v.seats \in [Seats -> Seat] /\ v.seats[i] \in Seat
    BY <1>2 DEF VenueState
  <2>2. /\ funded.seats[i] = [v.seats[i] EXCEPT !.credit = left]
        /\ \A j \in Seats \ {i} : funded.seats[j] = v.seats[j]
        /\ funded.seatsUsed = v.seatsUsed /\ funded.capacity = v.capacity
        /\ DOMAIN funded = DOMAIN v /\ DOMAIN funded.seats = Seats
    BY <1>2, <2>1 DEF VenueState
  <2>3. "seats" \in DOMAIN v
    BY <1>2 DEF VenueState
  <2> HIDE DEF funded
  <2>4. CASE taker.order.withdraw
    <3>1. venue' = [funded EXCEPT !.seats[i].credit = 0]
      BY <1>1, <2>4 DEF SweepCredit
    <3>2. /\ venue'.seats[i] = [funded.seats[i] EXCEPT !.credit = 0]
          /\ \A j \in Seats \ {i} : venue'.seats[j] = funded.seats[j]
          /\ venue'.seatsUsed = funded.seatsUsed /\ venue'.capacity = funded.capacity
      BY <1>2, <2>2, <2>3, <3>1
    <3>3. QED
      BY <2>1, <2>2, <3>2 DEF Seat
  <2>5. CASE ~taker.order.withdraw
    <3>1. venue' = funded
      BY <1>1, <2>5 DEF SweepCredit
    <3>2. QED
      BY <2>1, <2>2, <3>1 DEF Seat
  <2>6. QED
    BY <2>4, <2>5
<1>7. HoldersStay(v, venue') /\ PositionsKept(v, venue')
  <2>1. venue'.seats[i] = r
    OBVIOUS
  <2> HIDE DEF r, i
  <2>2. QED
    BY <1>2, <1>4, <1>5, <1>6, <2>1, SeatHolds
<1>8. Seated(venue')
  BY <1>2, <1>4, <1>7, SeatedKept
<1>9. PositionsFrozen
  BY <1>3, <1>7 DEF PositionsFrozen, PositionsKept
<1>10. QED
  BY <1>1, <1>2, <1>8, <1>9, SeatedCommits

\* A placement that rests: its order locks lots its seat already holds.
LEMMA PlaceRestSeats ==
  ASSUME IInv, IInv', SeatInv, NEW n \in Nodes, PlaceRest(n)
  PROVE  SeatsKept
<1> DEFINE o == taker.order
           i == taker.seat
           q == taker.remaining
           e == IF IsBuy(o.kind) THEN CashOf(o.kind, o.price, q) ELSE 0
           v == RestOrder(work, n, i, o, q)
<1>1. phase = "match" /\ n \in Nodes \ Live(work) /\ Settle(v, e)
  BY DEF PlaceRest
<1>2. /\ Matching /\ Sound(work) /\ i \in Seats /\ q \in Nat /\ o.kind \in Kinds /\ o.expire \in Nat
  BY <1>1, InMatch
<1>3. ValidPrice(o.price) /\ (~IsBuy(o.kind) => work.seats[i].free[Outcome(o.kind)] >= q)
  BY <1>2 DEF Matching, FreeCovers
<1>4. Seated(work) /\ work.seats[i].owner # NoOwner
  BY <1>1 DEF SeatInv, Placing
<1>5. v = RestOrder(work, n, i, o, q)
  OBVIOUS
<1> HIDE DEF e, o, i, q, v
<1>6. Sound(v) /\ SameHolders(work, v)
  BY <1>1, <1>2, <1>3, <1>5, RestOrderKeeps
<1>7. HoldersStay(work, v) /\ PositionsKept(work, v)
  BY <1>1, <1>2, <1>3, <1>4, <1>5, RestHolds
<1>8. QED
  BY <1>1, <1>6, <1>7, SettleSeats

\* A placement that rests nothing.
LEMMA PlaceDoneSeats ==
  ASSUME IInv, IInv', SeatInv, PlaceDone
  PROVE  SeatsKept
<1> DEFINE e == 0
<1>1. phase = "match" /\ Settle(work, e)
  BY DEF PlaceDone
<1>2. Sound(work) /\ work \in VenueState /\ Seated(work)
  BY <1>1, InMatch DEF SeatInv, Placing
<1>3. HoldersStay(work, work) /\ PositionsKept(work, work)
  BY <1>2, SameSeats
<1>4. SameHolders(work, work)
  BY DEF SameHolders, SameHolder
<1> HIDE DEF e
<1>5. QED
  BY <1>1, <1>2, <1>3, <1>4, SettleSeats

\* Removing orders, then sweeping a held seat's credit.
LEMMA RemovalSeats ==
  ASSUME IInv, IInv', SeatInv, NEW S \in SUBSET Live(venue), NEW v, v = RemoveNodes(venue, S),
         NEW i \in Seats, NEW b \in BOOLEAN, b => venue.seats[i].owner # NoOwner,
         venue' = SweepCredit(v, i, b), phase' = "idle", UNCHANGED control
  PROVE  SeatsKept
<1>1. /\ Sound(venue) /\ Seated(venue) /\ venue \in VenueState /\ venue' \in VenueState
      /\ closed' = closed /\ residue' = residue /\ donated' = donated
  BY DEF IInv, Sound, SeatInv, control
<1>2. Sound(v) /\ SameHolders(venue, v) /\ v \in VenueState
  BY <1>1, RemoveNodesKeeps DEF Sound
<1>3. HoldersStay(venue, v) /\ PositionsKept(venue, v)
  BY <1>1, RemoveHolds
<1>4. Seated(v)
  BY <1>1, <1>2, <1>3, SeatedKept
<1>5. HoldersStay(v, venue') /\ PositionsKept(v, venue')
  <2>1. CASE b
    <3>1. v.seats[i].owner # NoOwner
      BY <1>2, <2>1 DEF SameHolders, SameHolder
    <3>2. QED
      BY <1>2, <1>4, <3>1, SweepHolds
  <2>2. CASE ~b
    <3>1. venue' = v
      BY <2>2 DEF SweepCredit
    <3>2. QED
      BY <1>2, <1>4, <3>1, SameSeats
  <2>3. QED
    BY <2>1, <2>2
<1>6. Seated(venue')
  BY <1>1, <1>2, <1>4, <1>5, SeatedKept
<1>7. PositionsFrozen
  BY <1>3, <1>5 DEF PositionsFrozen, PositionsKept
<1>8. QED
  BY <1>1, <1>6, <1>7, SeatedCommits DEF SeatInv

\* user_cancel_orders and user_cancel_all.
LEMMA CancelsSeats ==
  ASSUME IInv, IInv', SeatInv, NEW i \in Seats, NEW H, NEW m, NEW b \in BOOLEAN,
         CancelOrders(i, H, b) \/ CancelAll(i, m, b)
  PROVE  SeatsKept
<1>1. CASE CancelOrders(i, H, b)
  <2>1. /\ LiveHandles(H) \in SUBSET Live(venue) /\ phase' = "idle" /\ UNCHANGED control
        /\ venue' = SweepCredit(RemoveNodes(venue, LiveHandles(H)), i, b)
        /\ venue.seats[i].owner # NoOwner
    BY <1>1 DEF CancelOrders, Commit, Idle, LiveOf, OwnedSeat
  <2>2. QED
    BY <2>1, RemovalSeats
<1>2. CASE CancelAll(i, m, b)
  <2> DEFINE S == FirstBy({n \in LiveOf(venue, i) : n <= m}, MaxRemoved)
  <2>1. /\ S \in SUBSET Live(venue) /\ phase' = "idle" /\ UNCHANGED control
        /\ venue' = SweepCredit(RemoveNodes(venue, S), i, b)
        /\ venue.seats[i].owner # NoOwner
    BY <1>2 DEF CancelAll, Commit, Idle, LiveOf, FirstBy, OwnedSeat
  <2> HIDE DEF S
  <2>2. QED
    BY <2>1, RemovalSeats
<1>3. QED
  BY <1>1, <1>2

\* public_sweep_expired.
LEMMA SweepExpiredSeats ==
  ASSUME IInv, IInv', SeatInv, NEW m, SweepExpired(m)
  PROVE  SeatsKept
<1> DEFINE S == FirstBy({n \in Live(venue) : DrainAll \/ Expired(venue, n)}, m)
           v == RemoveNodes(venue, S)
<1>1. S \in SUBSET Live(venue) /\ phase' = "idle" /\ UNCHANGED control /\ venue' = v
  BY DEF SweepExpired, Commit, Idle, FirstBy
<1>2. v = RemoveNodes(venue, S)
  OBVIOUS
<1> HIDE DEF S, v
<1>3. Sound(venue) /\ Seated(venue)
  BY DEF IInv, SeatInv
<1>4. HoldersStay(venue, v) /\ PositionsKept(venue, v)
  BY <1>1, <1>2, <1>3, RemoveHolds
<1>5. HoldersStay(venue, venue') /\ PositionsFrozen
  BY <1>1, <1>4 DEF PositionsFrozen
<1>6. closed' => residue' = donated'
  BY <1>1 DEF SeatInv, control
<1>7. QED
  BY <1>1, <1>5, <1>6, CommitSeats

\* user_reduce_order.
LEMMA ReduceSeats ==
  ASSUME IInv, IInv', SeatInv, NEW i \in Seats, NEW n \in Nodes, NEW q \in 0..venue.nodes[n].lots,
         ReduceOrder(i, n, q)
  PROVE  SeatsKept
<1> DEFINE v == ReduceNode(venue, n, q)
<1>1. /\ n \in Live(venue) /\ venue' = v /\ phase' = "idle" /\ UNCHANGED control
  BY DEF ReduceOrder, Commit, Idle, LiveOf
<1>2. Sound(venue) /\ Seated(venue) /\ venue.nodes[n] \in Node
  BY DEF IInv, SeatInv, Sound, VenueState
<1>3. q \in Nat /\ q <= venue.nodes[n].lots
  BY <1>2 DEF Node
<1>4. v = ReduceNode(venue, n, q)
  OBVIOUS
<1> HIDE DEF v
<1>5. HoldersStay(venue, v) /\ PositionsKept(venue, v)
  BY <1>1, <1>2, <1>3, <1>4, ReduceHolds
<1>6. HoldersStay(venue, venue') /\ PositionsFrozen
  BY <1>1, <1>5 DEF PositionsFrozen
<1>7. closed' => residue' = donated'
  BY <1>1 DEF SeatInv, control
<1>8. QED
  BY <1>1, <1>6, <1>7, CommitSeats

\* user_withdraw_credit.
LEMMA WithdrawSeats ==
  ASSUME IInv, IInv', SeatInv, NEW i \in Seats, NEW c, WithdrawCredit(i, c)
  PROVE  SeatsKept
<1> DEFINE left == venue.seats[i].credit - c
           v == [venue EXCEPT !.seats[i].credit = left]
<1>1. /\ venue.seats[i].owner # NoOwner /\ phase' = "idle" /\ UNCHANGED control /\ venue' = v
  BY DEF WithdrawCredit, Commit, Idle, OwnedSeat
<1>2. venue \in VenueState /\ Seated(venue)
  BY DEF IInv, SeatInv, Sound
<1>3. HoldersStay(venue, v) /\ PositionsKept(venue, v)
  <2> HIDE DEF left
  <2> QED BY <1>1, <1>2, CreditHolds
<1>4. HoldersStay(venue, venue') /\ PositionsFrozen
  BY <1>1, <1>3 DEF PositionsFrozen
<1>5. closed' => residue' = donated'
  BY <1>1 DEF SeatInv, control
<1>6. QED
  BY <1>1, <1>4, <1>5, CommitSeats

\* public_grow_ledger.
LEMMA GrowSeats ==
  ASSUME IInv, IInv', SeatInv, NEW k \in Nat, GrowLedger(k)
  PROVE  SeatsKept
<1>1. /\ phase' = "idle" /\ UNCHANGED control /\ venue' = [venue EXCEPT !.capacity = @ + k]
  BY DEF GrowLedger, Commit, Idle
<1>2. venue \in VenueState /\ Seated(venue)
  BY DEF IInv, SeatInv, Sound
<1>3. /\ venue'.seats = venue.seats /\ venue'.seatsUsed = venue.seatsUsed
      /\ venue.capacity <= venue'.capacity
  BY <1>1, <1>2 DEF VenueState
<1>4. HoldersStay(venue, venue') /\ PositionsFrozen
  BY <1>2, <1>3 DEF HoldersStay, PositionsFrozen, PositionsKept, Seated
<1>5. closed' => residue' = donated'
  BY <1>1 DEF SeatInv, control
<1>6. QED
  BY <1>1, <1>4, <1>5, CommitSeats

\* user_mint_set: the seat is claimed as for an order, and the Window trades.
LEMMA MintSeats ==
  ASSUME IInv, IInv', SeatInv, NEW a \in Owners, NEW i \in Seats, NEW q, NEW b, MintSet(a, i, q, b)
  PROVE  SeatsKept
<1> DEFINE c == CreditUsed(venue.seats[i].credit, q * PairTicks + BondFor(Claims(venue, i)), b)
           v == ResolveSeat(venue, a, i)
<1>1. /\ Status = "Trading" /\ phase' = "idle" /\ UNCHANGED control /\ ResolvesTo(venue, a, i)
      /\ venue' = [v EXCEPT !.backing = @ + q, !.seats[i].credit = @ - c,
                            !.seats[i].free = [x \in Outcomes |-> @[x] + q]]
  BY DEF MintSet, Commit, Idle
<1>2. Sound(venue) /\ Seated(venue) /\ venue' \in VenueState
  BY DEF IInv, SeatInv, Sound
<1>3. v = ResolveSeat(venue, a, i)
  OBVIOUS
<1> HIDE DEF v, c
<1>4. Seated(v) /\ v.seats[i].owner # NoOwner
  BY <1>1, <1>2, <1>3, ClaimSeats
<1>5. v \in VenueState
  BY <1>2, <1>3, ClaimKeeps DEF Sound
<1> DEFINE r == venue'.seats[i]
<1>6. /\ r.owner = v.seats[i].owner
      /\ \A j \in Seats \ {i} : venue'.seats[j] = v.seats[j]
      /\ venue'.seatsUsed = v.seatsUsed /\ venue'.capacity = v.capacity
  BY <1>1, <1>5 DEF VenueState, Seat
<1>7. r = venue'.seats[i]
  OBVIOUS
<1> HIDE DEF r
<1>8. HoldersStay(v, venue')
  BY <1>4, <1>5, <1>6, <1>7, SeatHolds
<1>9. Seated(venue')
  BY <1>2, <1>4, <1>5, <1>8, SeatedKept
<1>10. PositionsFrozen /\ (closed' => residue' = donated')
  BY <1>1 DEF PositionsFrozen, SeatInv, control
<1>11. QED
  BY <1>1, <1>9, <1>10, SeatedCommits

\* user_merge_set.
LEMMA MergeSeats ==
  ASSUME IInv, IInv', SeatInv, NEW i \in Seats, NEW q, NEW b, MergeSet(i, q, b)
  PROVE  SeatsKept
<1> DEFINE v == [venue EXCEPT !.backing = @ - q, !.seats[i].credit = @ + q * PairTicks,
                              !.seats[i].free = [x \in Outcomes |-> @[x] - q]]
<1>1. /\ Status = "Trading" /\ phase' = "idle" /\ UNCHANGED control /\ venue.seats[i].owner # NoOwner
      /\ venue' = SweepCredit(v, i, b)
  BY DEF MergeSet, Commit, Idle, OwnedSeat
<1>2. venue \in VenueState /\ Seated(venue) /\ venue' \in VenueState /\ venue.seats[i] \in Seat
  BY DEF IInv, SeatInv, Sound, VenueState
<1>3. /\ v.seats[i].owner = venue.seats[i].owner /\ "owner" \in DOMAIN v.seats[i]
      /\ \A j \in Seats \ {i} : v.seats[j] = venue.seats[j]
      /\ v.seatsUsed = venue.seatsUsed /\ v.capacity = venue.capacity
      /\ DOMAIN v = DOMAIN venue /\ DOMAIN v.seats = Seats /\ "seats" \in DOMAIN v
  BY <1>2 DEF VenueState, Seat
<1> HIDE DEF v
<1> DEFINE r == venue'.seats[i]
<1>4. /\ r.owner = venue.seats[i].owner
      /\ \A j \in Seats \ {i} : venue'.seats[j] = venue.seats[j]
      /\ venue'.seatsUsed = venue.seatsUsed /\ venue'.capacity = venue.capacity
  <2>1. CASE b
    <3>1. venue' = [v EXCEPT !.seats[i].credit = 0]
      BY <1>1, <2>1 DEF SweepCredit
    <3>2. QED
      BY <1>3, <3>1
  <2>2. CASE ~b
    BY <1>1, <1>3, <2>2 DEF SweepCredit
  <2>3. QED
    BY <2>1, <2>2
<1>5. r = venue'.seats[i]
  OBVIOUS
<1> HIDE DEF r
<1>6. HoldersStay(venue, venue')
  BY <1>1, <1>2, <1>4, <1>5, SeatHolds
<1>7. PositionsFrozen /\ (closed' => residue' = donated')
  BY <1>1 DEF PositionsFrozen, SeatInv, control
<1>8. QED
  BY <1>1, <1>6, <1>7, CommitSeats

\* Redeeming empties a wallet's seat and leaves a product's with its owner.
LEMMA RedeemFullSeats ==
  ASSUME IInv, IInv', SeatInv, NEW i \in Seats, RedeemFull(i)
  PROVE  SeatsKept
<1> DEFINE s == venue.seats[i]
<1>1. /\ Terminal /\ phase' = "idle" /\ UNCHANGED control /\ s.owner # NoOwner
      /\ venue' = [venue EXCEPT !.seats[i] = ClearedSeat(s)]
  BY DEF RedeemFull, Commit, Idle, OwnedSeat
<1>2. venue \in VenueState /\ Seated(venue)
  BY DEF IInv, SeatInv, Sound
<1>3. /\ venue'.seats[i] = ClearedSeat(s) /\ \A j \in Seats \ {i} : venue'.seats[j] = venue.seats[j]
      /\ venue'.seatsUsed = venue.seatsUsed /\ venue'.capacity = venue.capacity
      /\ venue.capacity <= venue'.capacity
  BY <1>1, <1>2 DEF VenueState
<1>4. Empty(ClearedSeat(s)) \/ ClearedSeat(s).owner = s.owner
  BY DEF ClearedSeat, Empty, Drained, EmptySeat, NoLots
<1>5. HoldersStay(venue, venue')
  BY <1>1, <1>2, <1>3, <1>4 DEF HoldersStay, Seated
<1>6. PositionsFrozen /\ (closed' => residue' = donated')
  BY <1>1 DEF PositionsFrozen, SeatInv, control, Status
<1>7. QED
  BY <1>1, <1>5, <1>6, CommitSeats

\* user_redeem_partial.
LEMMA RedeemPartialSeats ==
  ASSUME IInv, IInv', SeatInv, NEW i \in Seats, NEW x, NEW q, RedeemPartial(i, x, q)
  PROVE  SeatsKept
<1>1. /\ Terminal /\ phase' = "idle" /\ UNCHANGED control /\ venue.seats[i].owner # NoOwner
      /\ venue' = [venue EXCEPT !.seats[i].free[x] = @ - q]
  BY DEF RedeemPartial, Commit, Idle, OwnedSeat
<1>2. venue \in VenueState /\ Seated(venue)
  BY DEF IInv, SeatInv, Sound
<1> DEFINE r == venue'.seats[i]
<1>3. /\ r.owner = venue.seats[i].owner
      /\ \A j \in Seats \ {i} : venue'.seats[j] = venue.seats[j]
      /\ venue'.seatsUsed = venue.seatsUsed /\ venue'.capacity = venue.capacity
  BY <1>1, <1>2 DEF VenueState, Seat
<1>4. r = venue'.seats[i]
  OBVIOUS
<1> HIDE DEF r
<1>5. HoldersStay(venue, venue')
  BY <1>1, <1>2, <1>3, <1>4, SeatHolds
<1>6. PositionsFrozen /\ (closed' => residue' = donated')
  BY <1>1 DEF PositionsFrozen, SeatInv, control, Status
<1>7. QED
  BY <1>1, <1>5, <1>6, CommitSeats

\* A ledger whose used seats are drained and unbonded owes nothing.
LEMMA EmptyLedgerOwesNothing ==
  ASSUME IInv, SeatInv, Terminal, LedgerEmpty
  PROVE  Owed(venue) = 0
<1>1. venue \in VenueState /\ Seated(venue) /\ BondsOwned(venue) /\ NSeats \in Nat
  BY SizesAssumption DEF IInv, SeatInv, Sound
<1>2. ASSUME NEW j \in 1..NSeats PROVE SeatCash(venue.seats[j]) = 0 /\ Payout(venue.seats[j]) = 0
  <2>1. Drained(venue.seats[j]) /\ ~venue.seats[j].bonded
    BY <1>1, <1>2 DEF Seated, Empty, LedgerEmpty, BondsOwned, Seats
  <2>2. SeatCash(venue.seats[j]) = 0
    BY <2>1 DEF Drained, SeatCash, BondOf
  <2>3. Lots(venue.seats[j], "yes") = 0 /\ Lots(venue.seats[j], "no") = 0
    BY <2>1 DEF Drained, Lots, Outcomes
  <2>4. PayoutTicks("yes") \in Nat /\ PayoutTicks("no") \in Nat
    BY PayoutTicksSum
  <2>5. Payout(venue.seats[j]) = 0
    BY <2>3, <2>4 DEF Payout
  <2>6. QED
    BY <2>2, <2>5
<1> DEFINE f == [i \in Seats |-> SeatCash(venue.seats[i])]
           g == [i \in Seats |-> Payout(venue.seats[i])]
<1>3. \A j \in 1..NSeats : f[j] = 0 /\ g[j] = 0
  BY <1>2 DEF Seats
<1>4. CashHeld(venue) = Sum(f, NSeats) /\ PayoutsDue(venue) = Sum(g, NSeats)
  BY DEF CashHeld, PayoutsDue
<1> HIDE DEF f, g
<1>5. Sum(f, NSeats) = 0 /\ Sum(g, NSeats) = 0
  BY <1>1, <1>3, SumZeros
<1>6. QED
  BY <1>4, <1>5 DEF Owed

\* public_close_ledger sweeps what was donated, and nothing that was owed.
LEMMA CloseLedgerSeats ==
  ASSUME IInv, SeatInv, CloseLedger
  PROVE  SeatsKept
<1>1. /\ Terminal /\ LedgerEmpty /\ ~closed /\ phase' = "idle" /\ venue' = venue /\ donated' = donated
      /\ residue' = mvault
  BY DEF CloseLedger, Idle, LedgerOpen
<1>2. mvault = Owed(venue) + donated /\ donated \in Nat
  BY <1>1, MvaultIs
<1>3. residue' = donated'
  BY <1>1, <1>2, EmptyLedgerOwesNothing
<1>4. Seated(venue') /\ PositionsFrozen
  BY <1>1 DEF SeatInv, PositionsFrozen, PositionsKept
<1>5. QED
  BY <1>1, <1>3, <1>4, SeatedCommits

\* What happens around the accounts, before the ledger closes or after.
LEMMA AroundSeats ==
  ASSUME IInv, SeatInv, ReleaseBook \/ Environment
  PROVE  SeatsKept
<1>1. venue' = venue /\ phase' = "idle" /\ closed' = closed /\ residue' = residue
  BY DEF ReleaseBook, Environment, Tick, Donate, SetMode, Resolve, Idle
<1>2. closed => donated' = donated
  BY DEF ReleaseBook, Environment, Tick, Donate, SetMode, Resolve, LedgerOpen
<1>3. Seated(venue') /\ PositionsFrozen
  BY <1>1 DEF SeatInv, PositionsFrozen, PositionsKept
<1>4. QED
  BY <1>1, <1>2, <1>3, SeatedCommits DEF SeatInv

-----------------------------------------------------------------------------
(* The theorems on seats.                                                  *)

\* The product authorities are seated at open, one seat each.
LEMMA InitSeats == Init => SeatInv
<1> SUFFICES ASSUME Init PROVE SeatInv
  OBVIOUS
<1>1. venue = InitialVenue /\ phase = "idle" /\ ~closed
  BY DEF Init
<1>2. PICK k \in 0..InitialSeats :
        /\ DOMAIN Authorities = 1..k
        /\ \A i, j \in 1..k : Authorities[i] = Authorities[j] /\ i # j => Authorities[i] = NoOwner
  BY SizesAssumption
<1>3. k \in Nat /\ InitialSeats \in Nat /\ k <= InitialSeats
  BY <1>2, SizesAssumption
<1>4. venue.seatsUsed = k /\ venue.capacity = InitialSeats
  <2>1. Cardinality(1..k) = k
    BY <1>3, FS_Interval
  <2>2. QED
    BY <1>1, <1>2, <2>1 DEF InitialVenue
<1>5. Empty(EmptySeat)
  BY DEF Empty, Drained, EmptySeat, NoLots
<1> DEFINE Given(j) == j \in 1..k /\ Authorities[j] # NoOwner
<1>6. ASSUME NEW j \in Seats
      PROVE  /\ Given(j) => venue.seats[j].owner = Authorities[j]
             /\ ~Given(j) => venue.seats[j] = EmptySeat
  <2>1. venue.seats[j] = IF Given(j) THEN [EmptySeat EXCEPT !.owner = Authorities[j], !.program = TRUE]
                         ELSE EmptySeat
    BY <1>1, <1>2 DEF InitialVenue
  <2>2. QED
    BY <2>1 DEF EmptySeat
<1>7. EmptySeat.owner = NoOwner
  BY DEF EmptySeat
<1>8. ASSUME NEW j \in Seats, Given(j)
      PROVE  /\ venue.seats[j].owner # NoOwner /\ j <= venue.seatsUsed /\ j <= venue.capacity
             /\ \A i \in Seats \ {j} : venue.seats[i].owner # venue.seats[j].owner
  <2>1. venue.seats[j].owner = Authorities[j] /\ Authorities[j] # NoOwner
    BY <1>6, <1>8
  <2>2. j <= venue.seatsUsed /\ j <= venue.capacity
    BY <1>3, <1>4, <1>8
  <2>3. ASSUME NEW i \in Seats \ {j} PROVE venue.seats[i].owner # venue.seats[j].owner
    <3>1. CASE Given(i)
      <4>1. venue.seats[i].owner = Authorities[i]
        BY <1>6, <3>1
      <4>2. QED
        BY <1>2, <1>8, <2>1, <3>1, <4>1
    <3>2. CASE ~Given(i)
      BY <1>6, <1>7, <2>1, <3>2
    <3>3. QED
      BY <3>1, <3>2
  <2>4. QED
    BY <2>1, <2>2, <2>3
<1>9. Seated(venue)
  <2> HIDE DEF Given
  <2> QED BY <1>5, <1>6, <1>8 DEF Seated
<1>10. QED
  BY <1>1, <1>9 DEF SeatInv

\* Every step keeps the seats and moves positions only where they may move.
LEMMA StepSeats == IInv /\ SeatInv /\ [Next]_vars => SeatsKept
<1> SUFFICES ASSUME IInv, SeatInv, [Next]_vars PROVE SeatsKept
  OBVIOUS
<1>0. IInv'
  BY NextKeeps
<1>1. ASSUME NEW a \in Owners, NEW i \in Seats, WalletStep(a, i) PROVE SeatsKept
  <2>1. ASSUME NEW o \in OrderArgs, PlaceBegin(a, i, o) PROVE SeatsKept
    BY <2>1, PlaceBeginSeats
  <2>2. ASSUME NEW q \in MintLots, NEW c \in BOOLEAN, MintSet(a, i, q, c) PROVE SeatsKept
    BY <1>0, <2>2, MintSeats
  <2>3. QED
    BY <1>1, <2>1, <2>2 DEF WalletStep
<1>2. ASSUME NEW i \in Seats, SeatStep(i) PROVE SeatsKept
  <2>1. ASSUME NEW H \in HandleSets, NEW w \in BOOLEAN, CancelOrders(i, H, w) PROVE SeatsKept
    BY <1>0, <2>1, CancelsSeats
  <2>2. ASSUME NEW m \in 0..NNodes, NEW w \in BOOLEAN, CancelAll(i, m, w) PROVE SeatsKept
    BY <1>0, <2>2, CancelsSeats
  <2>3. ASSUME NEW n \in Nodes, NEW q \in 0..venue.nodes[n].lots, ReduceOrder(i, n, q) PROVE SeatsKept
    BY <1>0, <2>3, ReduceSeats
  <2>4. ASSUME NEW q \in MintLots, NEW w \in BOOLEAN, MergeSet(i, q, w) PROVE SeatsKept
    BY <1>0, <2>4, MergeSeats
  <2>5. ASSUME NEW c \in 0..MaxCash, WithdrawCredit(i, c) PROVE SeatsKept
    BY <1>0, <2>5, WithdrawSeats
  <2>6. ASSUME RedeemFull(i) PROVE SeatsKept
    BY <1>0, <2>6, RedeemFullSeats
  <2>7. ASSUME NEW x \in Outcomes, NEW q \in 0..venue.seats[i].free[x], RedeemPartial(i, x, q) PROVE SeatsKept
    BY <1>0, <2>7, RedeemPartialSeats
  <2>8. QED
    BY <1>2, <2>1, <2>2, <2>3, <2>4, <2>5, <2>6, <2>7 DEF SeatStep, UserRedeem, RedeemFor
<1>3. ASSUME PlaceStep PROVE SeatsKept
  <2>1. ASSUME WalkStep PROVE SeatsKept
    BY <2>1, EvictionSeats, WalkOnSeats, FillSeats DEF WalkStep
  <2>2. QED
    BY <1>0, <1>3, <2>1, PlaceRefusedSeats, PlaceRestSeats, PlaceDoneSeats DEF PlaceStep
<1>4. ASSUME Crank PROVE SeatsKept
  <2>1. ASSUME NEW k \in 1..GrowMax, GrowLedger(k) PROVE SeatsKept
    <3>1. k \in Nat
      BY CapsAssumption
    <3>2. QED
      BY <1>0, <2>1, <3>1, GrowSeats
  <2>2. QED
    BY <1>0, <1>4, <2>1, SweepExpiredSeats, AroundSeats, CloseLedgerSeats DEF Crank
<1>5. ASSUME Environment PROVE SeatsKept
  BY <1>5, AroundSeats
<1>6. ASSUME UNCHANGED vars PROVE SeatsKept
  <2>1. SeatInv'
    BY <1>6 DEF vars, SeatInv, Placing, Seated, Empty, Drained, PositionsKept, Status, Terminal
  <2>2. PositionsFrozen
    BY <1>6 DEF vars, PositionsFrozen, PositionsKept
  <2>3. QED
    BY <2>1, <2>2 DEF SeatsKept
<1>7. QED
  BY <1>1, <1>2, <1>3, <1>4, <1>5, <1>6 DEF Next

\* The third inductive invariant.
THEOREM SeatInvariantHolds == Spec => [](IInv /\ SeatInv)
<1>1. Init => IInv /\ SeatInv
  BY InitHolds, InitSeats
<1>2. IInv /\ SeatInv /\ [Next]_vars => (IInv /\ SeatInv)'
  BY NextKeeps, StepSeats DEF SeatsKept
<1>3. QED
  BY <1>1, <1>2, PTL DEF Spec

\* An authority holds one seat, whatever hints its instructions carry and however seats are emptied and
\* claimed again (resolve_seat, redeem).
THEOREM OneSeatPerOwnerHolds == Spec => []OneSeatPerOwner
<1>1. SeatInv => OneSeatPerOwner
  BY DEF SeatInv, Seated, Empty, OneSeatPerOwner
<1>2. QED
  BY <1>1, SeatInvariantHolds, PTL

\* The closing of the ledger sweeps to the treasury what was donated, and nothing a seat was owed.
THEOREM ResidueIsDonatedHolds == Spec => []ResidueIsDonated
<1>1. SeatInv => ResidueIsDonated
  BY DEF SeatInv, ResidueIsDonated
<1>2. QED
  BY <1>1, SeatInvariantHolds, PTL

\* No position moves in a Listed Window, nor from lock until the result.
THEOREM PositionsMoveOnlyWhileTradingHolds == Spec => PositionsMoveOnlyWhileTrading
<1>1. IInv /\ SeatInv /\ [Next]_vars => PositionsFrozen
  BY StepSeats DEF SeatsKept
<1>2. PositionsFrozen =>
        [Status = "Listed" \/ Status = "Locked" => \A i \in Seats, x \in Outcomes :
           Lots(venue'.seats[i], x) = Lots(venue.seats[i], x)]_vars
  BY DEF PositionsFrozen, PositionsKept
<1>3. QED
  BY <1>1, <1>2, SeatInvariantHolds, PTL DEF Spec, PositionsMoveOnlyWhileTrading

-----------------------------------------------------------------------------
(* The Window is a tenant: every step is one of Tenancy's, or leaves what  *)
(* Tenancy sees of it as it was.                                           *)

TenantMoves == [Tenant!Next]_(Tenant!vars)

\* No seat, used or not, holds anything.
Vacant(v) == \A i \in Seats : Drained(v.seats[i]) /\ ~v.seats[i].bonded

\* close_ledger looks at every seat that may hold something, and a resting order has such a seat.
LedgerFacts ==
  /\ LedgerEmpty <=> Vacant(venue)
  /\ Live(venue) # {} => ~Vacant(venue)

\* From venue to venue' orders and balances only leave.
OnlyLeaves ==
  /\ Live(venue') \subseteq Live(venue)
  /\ Vacant(venue) => Vacant(venue')

LEMMA LedgerIs == IInv /\ SeatInv => LedgerFacts
<1> SUFFICES ASSUME IInv, SeatInv PROVE LedgerFacts
  OBVIOUS
<1>1. Sound(venue) /\ Seated(venue) /\ BondsOwned(venue)
  BY DEF IInv, SeatInv, Sound
<1>2. ASSUME NEW j \in Seats, ~(j <= venue.seatsUsed /\ j <= venue.capacity)
      PROVE  Drained(venue.seats[j]) /\ ~venue.seats[j].bonded
  BY <1>1, <1>2 DEF Seated, Empty, BondsOwned
<1>3. LedgerEmpty <=> Vacant(venue)
  BY <1>2 DEF LedgerEmpty, Vacant
<1>4. ASSUME NEW n \in Live(venue), Vacant(venue) PROVE FALSE
  <2>1. venue.nodes[n].seat \in Seats /\ venue.seats[venue.nodes[n].seat].openOrders # 0
    BY <1>1, NoOrdersNoneLive
  <2>2. QED
    BY <1>4, <2>1 DEF Vacant, Drained
<1>5. QED
  BY <1>3, <1>4 DEF LedgerFacts

\* A step that leaves the accounts.
LEMMA TenantStill ==
  ASSUME venue' = venue, released' = released, closed' = closed, Stage' = Stage
  PROVE  TenantMoves
<1>1. (Live(venue) # {})' <=> Live(venue) # {}
  BY DEF Live
<1>2. LedgerEmpty' <=> LedgerEmpty
  BY DEF LedgerEmpty, Drained
<1>3. UNCHANGED Tenant!vars
  BY <1>1, <1>2 DEF Tenant!vars
<1>4. QED
  BY <1>3 DEF TenantMoves

\* A step on the accounts: before the lock anything, from the lock on only what leaves.
LEMMA AccountsMove ==
  ASSUME UNCHANGED control, result \in Results, LedgerFacts, LedgerFacts',
         Status \in {"Listed", "Trading"} \/ OnlyLeaves
  PROVE  TenantMoves
<1>1. Stage' = Stage /\ released' = released /\ closed' = closed
  BY DEF control, Stage, Status, Terminal
<1>2. Live(venue)' = Live(venue') /\ (Vacant(venue)' <=> Vacant(venue'))
  BY DEF Live, Vacant, Drained
<1>3. (Live(venue) # {})' \in BOOLEAN /\ (~LedgerEmpty)' \in BOOLEAN
  OBVIOUS
<1>4. (Live(venue) # {})' => (~LedgerEmpty)'
  BY DEF LedgerFacts
<1>5. CASE Stage \in {"Listed", "Trading"}
  <2>1. Tenant!Use
    BY <1>1, <1>3, <1>4, <1>5 DEF Tenant!Use
  <2>2. Tenant!Next
    BY <2>1 DEF Tenant!Next
  <2>3. QED
    BY <2>2 DEF TenantMoves
<1>6. CASE Stage \in {"Locked", "Resolved", "Voided"}
  <2>1. OnlyLeaves
    BY <1>6 DEF Stage, Status, Terminal
  <2>2. (Live(venue) # {})' => Live(venue) # {}
    BY <1>2, <2>1 DEF OnlyLeaves
  <2>3. (~LedgerEmpty)' => ~LedgerEmpty
    BY <1>2, <2>1 DEF OnlyLeaves, LedgerFacts
  <2>4. Tenant!Leave
    BY <1>1, <1>3, <1>4, <1>6, <2>2, <2>3 DEF Tenant!Leave
  <2>5. Tenant!Next
    BY <2>4 DEF Tenant!Next
  <2>6. QED
    BY <2>5 DEF TenantMoves
<1>7. Stage \in {"Listed", "Trading", "Locked", "Resolved", "Voided"}
  BY DEF Stage, Status, Terminal
<1>8. QED
  BY <1>5, <1>6, <1>7

-----------------------------------------------------------------------------
(* What only leaves.                                                       *)

\* Removing orders from a vacant ledger's book leaves it vacant, and so does sweeping a credit.
LEMMA RemovalLeaves ==
  ASSUME IInv, NEW S \in SUBSET Live(venue), NEW v, v = RemoveNodes(venue, S),
         NEW i \in Seats, NEW b \in BOOLEAN, venue' = SweepCredit(v, i, b)
  PROVE  OnlyLeaves
<1>1. Sound(venue) /\ venue \in VenueState /\ S \in SUBSET Nodes
  BY DEF IInv, Sound, Live
<1>2. v \in VenueState
  BY <1>1, RemoveNodesKeeps DEF Sound
<1>3. Live(v) \subseteq Live(venue)
  <2>1. v.nodes = [n \in Nodes |-> IF n \in S THEN EmptyNode ELSE venue.nodes[n]]
    BY <1>1, RemoveShrinks
  <2>2. QED
    BY <2>1 DEF Live, EmptyNode
<1>4. ASSUME NEW j \in Seats, Drained(venue.seats[j]), ~venue.seats[j].bonded
      PROVE  Drained(v.seats[j]) /\ ~v.seats[j].bonded
  <2> DEFINE R == Live(venue) \ S
             C == EscrowCash(venue, S, j)
             L(x) == EscrowLots(venue, S, j, x)
  <2>1. Returned(venue, S, R, v, j)
    BY <1>1, RemovedSeat
  <2>2. /\ C \in Nat /\ \A x : L(x) \in Nat
    BY <1>1, EscrowNat DEF Sound, VenueState
  <2>3. v.seats[j] \in Seat
    BY <1>2 DEF VenueState
  <2>4. /\ v.seats[j].credit \in Nat /\ v.seats[j].lockedCash \in Nat /\ v.seats[j].openOrders \in Nat
        /\ \A x \in Outcomes : v.seats[j].free[x] \in Nat /\ v.seats[j].locked[x] \in Nat
    BY <2>3 DEF Seat
  <2>5. C = 0 /\ v.seats[j].credit = 0 /\ v.seats[j].lockedCash = 0
    <3>1. v.seats[j].lockedCash = 0 - C /\ v.seats[j].credit = 0 + C
      BY <1>4, <2>1 DEF Returned, Drained
    <3> HIDE DEF C
    <3>2. QED
      BY <2>2, <2>4, <3>1
  <2>6. ASSUME NEW x \in Outcomes PROVE v.seats[j].free[x] = 0 /\ v.seats[j].locked[x] = 0
    <3>1. v.seats[j].locked[x] = 0 - L(x) /\ v.seats[j].free[x] = 0 + L(x) /\ L(x) \in Nat
      BY <1>4, <2>1, <2>2 DEF Returned, Drained
    <3> HIDE DEF L
    <3>2. QED
      BY <2>4, <3>1
  <2>7. v.seats[j].openOrders = 0
    <3> DEFINE N == OrderCount(venue, S, j)
    <3>1. N \in Nat
      BY <1>1, EscrowNat DEF Sound, VenueState
    <3>2. venue.seats[j] \in Seat
      BY <1>1 DEF VenueState
    <3>3. v.seats[j].openOrders = venue.seats[j].openOrders - N
      BY <1>1, <3>2 DEF RemoveNodes, VenueState, Seat
    <3>4. v.seats[j].openOrders = 0 - N
      BY <1>4, <3>3 DEF Drained
    <3> HIDE DEF N
    <3>5. QED
      BY <2>4, <3>1, <3>4
  <2>8. v.seats[j].bonded = venue.seats[j].bonded
    BY <2>1 DEF Returned, SameHolder
  <2>9. QED
    BY <1>4, <2>5, <2>6, <2>7, <2>8 DEF Drained
<1>5. CASE b
  <2>1. venue' = [v EXCEPT !.seats[i].credit = 0]
    BY <1>5 DEF SweepCredit
  <2>2. /\ venue'.nodes = v.nodes
        /\ \A j \in Seats : venue'.seats[j] = v.seats[j]
                           \/ venue'.seats[j] = [v.seats[j] EXCEPT !.credit = 0]
    BY <1>2, <2>1 DEF VenueState
  <2>3. \A j \in Seats : v.seats[j] \in Seat
    BY <1>2 DEF VenueState
  <2>4. \A j \in Seats : Drained(v.seats[j]) /\ ~v.seats[j].bonded
                        => Drained(venue'.seats[j]) /\ ~venue'.seats[j].bonded
    BY <2>2, <2>3 DEF Drained, Seat
  <2>5. QED
    BY <1>3, <1>4, <2>2, <2>4 DEF OnlyLeaves, Vacant, Live
<1>6. CASE ~b
  <2>1. venue' = v
    BY <1>6 DEF SweepCredit
  <2>2. QED
    BY <1>3, <1>4, <2>1 DEF OnlyLeaves, Vacant
<1>7. QED
  BY <1>5, <1>6

LEMMA CancelsLeave ==
  ASSUME IInv, NEW i \in Seats, NEW H, NEW m, NEW b \in BOOLEAN,
         CancelOrders(i, H, b) \/ CancelAll(i, m, b)
  PROVE  OnlyLeaves
<1>1. CASE CancelOrders(i, H, b)
  <2>1. /\ LiveHandles(H) \in SUBSET Live(venue)
        /\ venue' = SweepCredit(RemoveNodes(venue, LiveHandles(H)), i, b)
    BY <1>1 DEF CancelOrders, Commit, LiveOf
  <2>2. QED
    BY <2>1, RemovalLeaves
<1>2. CASE CancelAll(i, m, b)
  <2> DEFINE S == FirstBy({n \in LiveOf(venue, i) : n <= m}, MaxRemoved)
  <2>1. /\ S \in SUBSET Live(venue)
        /\ venue' = SweepCredit(RemoveNodes(venue, S), i, b)
    BY <1>2 DEF CancelAll, Commit, LiveOf, FirstBy
  <2> HIDE DEF S
  <2>2. QED
    BY <2>1, RemovalLeaves
<1>3. QED
  BY <1>1, <1>2

LEMMA SweepExpiredLeaves ==
  ASSUME IInv, NEW m, SweepExpired(m)
  PROVE  OnlyLeaves
<1> DEFINE S == FirstBy({n \in Live(venue) : DrainAll \/ Expired(venue, n)}, m)
           v == RemoveNodes(venue, S)
           b == FALSE
<1>1. S \in SUBSET Live(venue) /\ venue' = v /\ b \in BOOLEAN
  BY DEF SweepExpired, Commit, FirstBy
<1>2. v = RemoveNodes(venue, S)
  OBVIOUS
<1>3. CASE Seats # {}
  <2>1. PICK i : i \in Seats
    BY <1>3
  <2>2. venue' = SweepCredit(v, i, b)
    BY <1>1 DEF SweepCredit
  <2> HIDE DEF S, v, b
  <2>3. QED
    BY <1>1, <1>2, <2>1, <2>2, RemovalLeaves
<1>4. CASE Seats = {}
  <2>1. Vacant(venue')
    BY <1>4 DEF Vacant
  <2>2. venue'.nodes = [n \in Nodes |-> IF n \in S THEN EmptyNode ELSE venue.nodes[n]]
    <3>1. S \in SUBSET Nodes /\ venue \in VenueState
      BY <1>1 DEF Live, IInv, Sound
    <3> HIDE DEF S, v
    <3>2. QED
      BY <1>1, <1>2, <3>1, RemoveShrinks
  <2>3. QED
    BY <2>1, <2>2 DEF OnlyLeaves, Live, EmptyNode
<1>5. QED
  BY <1>3, <1>4

LEMMA ReduceLeaves ==
  ASSUME IInv, LedgerFacts, NEW i \in Seats, NEW n \in Nodes, NEW q \in 0..venue.nodes[n].lots,
         ReduceOrder(i, n, q)
  PROVE  OnlyLeaves
<1>1. n \in Live(venue) /\ venue' = ReduceNode(venue, n, q) /\ venue \in VenueState
  BY DEF ReduceOrder, Commit, LiveOf, IInv, Sound
<1>2. ~Vacant(venue)
  BY <1>1 DEF LedgerFacts
<1>3. venue'.nodes = [venue.nodes EXCEPT ![n] = [@ EXCEPT !.lots = q]]
  BY <1>1 DEF ReduceNode, VenueState
<1>4. Live(venue') \subseteq Live(venue)
  <2>1. \A m \in Nodes : m # n => venue'.nodes[m] = venue.nodes[m]
    BY <1>1, <1>3 DEF VenueState
  <2>2. QED
    BY <1>1, <2>1 DEF Live
<1>5. QED
  BY <1>2, <1>4 DEF OnlyLeaves

LEMMA WithdrawLeaves ==
  ASSUME IInv, NEW i \in Seats, NEW c \in Nat, WithdrawCredit(i, c)
  PROVE  OnlyLeaves
<1>1. /\ 0 < c /\ c <= venue.seats[i].credit /\ venue \in VenueState
      /\ venue' = [venue EXCEPT !.seats[i].credit = @ - c]
  BY DEF WithdrawCredit, Commit, IInv, Sound
<1>2. venue.seats[i].credit \in Nat
  BY <1>1 DEF VenueState, Seat
<1>3. ~Vacant(venue)
  BY <1>1, <1>2 DEF Vacant, Drained
<1>4. venue'.nodes = venue.nodes
  BY <1>1 DEF VenueState
<1>5. QED
  BY <1>3, <1>4 DEF OnlyLeaves, Live

LEMMA RedeemFullLeaves ==
  ASSUME IInv, NEW i \in Seats, RedeemFull(i)
  PROVE  OnlyLeaves
<1> DEFINE s == venue.seats[i]
<1>1. venue' = [venue EXCEPT !.seats[i] = ClearedSeat(s)] /\ venue \in VenueState
  BY DEF RedeemFull, Commit, IInv, Sound
<1>2. venue'.nodes = venue.nodes /\ venue'.seats[i] = ClearedSeat(s)
      /\ \A j \in Seats \ {i} : venue'.seats[j] = venue.seats[j]
  BY <1>1 DEF VenueState
<1>3. Drained(ClearedSeat(s)) /\ ~ClearedSeat(s).bonded
  BY DEF ClearedSeat, EmptySeat, NoLots, Drained
<1>4. QED
  BY <1>2, <1>3 DEF OnlyLeaves, Live, Vacant

LEMMA RedeemPartialLeaves ==
  ASSUME IInv, NEW i \in Seats, NEW x \in Outcomes, NEW q \in Nat, RedeemPartial(i, x, q)
  PROVE  OnlyLeaves
<1>1. /\ 0 < q /\ q <= venue.seats[i].free[x] /\ venue \in VenueState
      /\ venue' = [venue EXCEPT !.seats[i].free[x] = @ - q]
  BY DEF RedeemPartial, Commit, IInv, Sound
<1>2. venue.seats[i].free[x] \in Nat
  BY <1>1 DEF VenueState, Seat
<1>3. ~Vacant(venue)
  BY <1>1, <1>2 DEF Vacant, Drained
<1>4. venue'.nodes = venue.nodes
  BY <1>1 DEF VenueState
<1>5. QED
  BY <1>3, <1>4 DEF OnlyLeaves, Live


-----------------------------------------------------------------------------
(* Around the accounts.                                                    *)

\* The clock passes one stage at most.
LEMMA TickPasses ==
  ASSUME IInv, Tick
  PROVE  TenantMoves
<1>1. /\ now \in Nat /\ now' = now + 1 /\ venue' = venue /\ result' = result
      /\ released' = released /\ closed' = closed
  BY DEF Tick, IInv, Scalars
<1>2. TradingStart \in Nat /\ LockAt \in Nat /\ TradingStart < LockAt
  BY ClockAssumption
<1>3. CASE Terminal
  <2>1. Stage' = Stage
    BY <1>1, <1>3 DEF Stage, Terminal
  <2>2. QED
    BY <1>1, <2>1, TenantStill
<1>4. CASE ~Terminal
  <2>1. /\ Stage = IF now < TradingStart THEN "Listed" ELSE IF now < LockAt THEN "Trading" ELSE "Locked"
        /\ Stage' = IF now' < TradingStart THEN "Listed" ELSE IF now' < LockAt THEN "Trading" ELSE "Locked"
    BY <1>1, <1>4 DEF Stage, Status, Terminal
  <2>2. \/ Stage' = Stage
        \/ Stage = "Listed" /\ Stage' = "Trading"
        \/ Stage = "Trading" /\ Stage' = "Locked"
    BY <1>1, <1>2, <2>1
  <2>3. CASE Stage' = Stage
    BY <1>1, <2>3, TenantStill
  <2>4. CASE Stage' # Stage
    <3>1. (Live(venue) # {})' = (Live(venue) # {}) /\ (~LedgerEmpty)' = ~LedgerEmpty
      BY <1>1 DEF Live, LedgerEmpty, Drained
    <3>2. Tenant!Pass
      BY <1>1, <2>2, <2>4, <3>1 DEF Tenant!Pass
    <3>3. Tenant!Next
      BY <3>2 DEF Tenant!Next
    <3>4. QED
      BY <3>3 DEF TenantMoves
  <2>5. QED
    BY <2>3, <2>4
<1>5. QED
  BY <1>3, <1>4

\* A winner comes after the lock, a void after the Window opened.
LEMMA ResolveDecides ==
  ASSUME IInv, NEW r \in Results, Resolve(r)
  PROVE  TenantMoves
<1>1. /\ ~Terminal /\ now \in Nat /\ now' = now /\ venue' = venue /\ result' = r
      /\ released' = released /\ closed' = closed
      /\ (r \in Outcomes /\ now >= Expiry) \/ (r = "void" /\ (now > OpenDeadline \/ now >= Expiry))
  BY DEF Resolve, IInv, Scalars
<1>2. /\ {TradingStart, OpenDeadline, LockAt, Expiry} \subseteq Nat
      /\ TradingStart < LockAt /\ LockAt <= Expiry /\ TradingStart <= OpenDeadline
  BY ClockAssumption
<1>3. Stage = IF now < TradingStart THEN "Listed" ELSE IF now < LockAt THEN "Trading" ELSE "Locked"
  BY <1>1 DEF Stage, Status, Terminal
<1>4. Stage' = IF r = "void" THEN "Voided" ELSE "Resolved"
  BY <1>1 DEF Stage, Terminal, Outcomes
<1>5. \/ Stage = "Locked" /\ Stage' = "Resolved"
      \/ Stage \in {"Trading", "Locked"} /\ Stage' = "Voided"
  <2>1. CASE r = "void"
    <3>1. now >= TradingStart
      BY <1>1, <1>2, <2>1 DEF Outcomes
    <3>2. QED
      BY <1>1, <1>2, <1>3, <1>4, <2>1, <3>1
  <2>2. CASE r # "void"
    <3>1. now >= LockAt /\ now >= TradingStart
      BY <1>1, <1>2, <2>2
    <3>2. QED
      BY <1>1, <1>2, <1>3, <1>4, <2>2, <3>1
  <2>3. QED
    BY <2>1, <2>2
<1>6. (Live(venue) # {})' = (Live(venue) # {}) /\ (~LedgerEmpty)' = ~LedgerEmpty
  BY <1>1 DEF Live, LedgerEmpty, Drained
<1>7. Tenant!Decide
  BY <1>1, <1>5, <1>6 DEF Tenant!Decide
<1>8. Tenant!Next
  BY <1>7 DEF Tenant!Next
<1>9. QED
  BY <1>8 DEF TenantMoves

LEMMA ReleaseBookGivesBack ==
  ASSUME ReleaseBook
  PROVE  TenantMoves
<1>1. /\ ~released /\ Status \in {"Locked", "Terminal"} /\ Live(venue) = {} /\ released' = TRUE
      /\ venue' = venue /\ now' = now /\ result' = result /\ closed' = closed
  BY DEF ReleaseBook, BookBound
<1>2. Stage' = Stage /\ Stage \in {"Locked", "Resolved", "Voided"}
  BY <1>1 DEF Stage, Status, Terminal
<1>3. (Live(venue) # {})' = (Live(venue) # {}) /\ (~LedgerEmpty)' = ~LedgerEmpty
  BY <1>1 DEF Live, LedgerEmpty, Drained
<1>4. Tenant!GiveBack
  BY <1>1, <1>2, <1>3 DEF Tenant!GiveBack
<1>5. Tenant!Next
  BY <1>4 DEF Tenant!Next
<1>6. QED
  BY <1>5 DEF TenantMoves

LEMMA CloseLedgerCloses ==
  ASSUME CloseLedger
  PROVE  TenantMoves
<1>1. /\ ~closed /\ Terminal /\ LedgerEmpty /\ closed' = TRUE
      /\ venue' = venue /\ now' = now /\ result' = result /\ released' = released
  BY DEF CloseLedger, LedgerOpen
<1>2. Stage' = Stage /\ Stage \in {"Resolved", "Voided"}
  BY <1>1 DEF Stage, Status, Terminal
<1>3. (Live(venue) # {})' = (Live(venue) # {}) /\ (~LedgerEmpty)' = ~LedgerEmpty
  BY <1>1 DEF Live, LedgerEmpty, Drained
<1>4. Tenant!CloseLedger
  BY <1>1, <1>2, <1>3 DEF Tenant!CloseLedger
<1>5. Tenant!Next
  BY <1>4 DEF Tenant!Next
<1>6. QED
  BY <1>5 DEF TenantMoves

LEMMA EnvironmentIsTenant ==
  ASSUME IInv, Environment
  PROVE  TenantMoves
<1>1. ASSUME Donate \/ (\E m \in Modes : SetMode(m)) PROVE TenantMoves
  <2>1. /\ venue' = venue /\ now' = now /\ result' = result
        /\ released' = released /\ closed' = closed
    BY <1>1 DEF Donate, SetMode
  <2>2. Stage' = Stage
    BY <2>1 DEF Stage, Status, Terminal
  <2>3. QED
    BY <2>1, <2>2, TenantStill
<1>2. QED
  BY <1>1, TickPasses, ResolveDecides DEF Environment

-----------------------------------------------------------------------------
(* The refinement.                                                         *)

LEMMA TenantBegins == Init => Tenant!Init
<1> SUFFICES ASSUME Init PROVE Tenant!Init
  OBVIOUS
<1>1. venue = InitialVenue /\ result = "open" /\ now = 0 /\ released = FALSE /\ closed = FALSE
  BY DEF Init
<1>2. Stage \in {"Listed", "Trading"}
  <2>1. 0 < LockAt
    BY ClockAssumption
  <2>2. QED
    BY <1>1, <2>1 DEF Stage, Status, Terminal
<1>3. (Live(venue) # {}) = FALSE
  BY <1>1 DEF InitialVenue, Live, EmptyNode
<1>4. (~LedgerEmpty) = FALSE
  <2>1. \A i \in Seats : Drained(venue.seats[i]) /\ ~venue.seats[i].bonded
    <3>1. \A i \in Seats : \/ venue.seats[i] = EmptySeat
                           \/ venue.seats[i] = [EmptySeat EXCEPT !.owner = Authorities[i], !.program = TRUE]
      BY <1>1 DEF InitialVenue
    <3>2. Drained(EmptySeat) /\ ~EmptySeat.bonded
      BY DEF EmptySeat, NoLots, Drained
    <3>3. ASSUME NEW s, NEW a, s = [EmptySeat EXCEPT !.owner = a, !.program = TRUE]
          PROVE  Drained(s) /\ ~s.bonded
      BY <3>3 DEF EmptySeat, NoLots, Drained
    <3>4. QED
      BY <3>1, <3>2, <3>3
  <2>2. QED
    BY <2>1 DEF LedgerEmpty
<1>5. QED
  BY <1>1, <1>2, <1>3, <1>4 DEF Tenant!Init

\* While a placement runs, or any instruction that lets lots or seats in, the Window is before its lock.
LEMMA TenantMoved ==
  ASSUME IInv, SeatInv, LedgerFacts, LedgerFacts', [Next]_vars
  PROVE  TenantMoves
<1>0. result \in Results
  BY DEF IInv, Scalars
<1>1. ASSUME UNCHANGED <<venue, control>> PROVE TenantMoves
  <2>1. venue' = venue /\ released' = released /\ closed' = closed /\ Stage' = Stage
    BY <1>1 DEF control, Stage, Status, Terminal
  <2>2. QED
    BY <2>1, TenantStill
<1>2. ASSUME NEW a \in Owners, NEW i \in Seats, WalletStep(a, i) PROVE TenantMoves
  <2>1. ASSUME NEW o \in OrderArgs, PlaceBegin(a, i, o) PROVE TenantMoves
    BY <1>1, <2>1 DEF PlaceBegin
  <2>2. ASSUME NEW q \in MintLots, NEW c \in BOOLEAN, MintSet(a, i, q, c) PROVE TenantMoves
    BY <1>0, <2>2, AccountsMove DEF MintSet
  <2>3. QED
    BY <1>2, <2>1, <2>2 DEF WalletStep
<1>3. ASSUME NEW i \in Seats, SeatStep(i) PROVE TenantMoves
  <2>1. ASSUME NEW H \in HandleSets, NEW w \in BOOLEAN, CancelOrders(i, H, w) PROVE TenantMoves
    <3>1. UNCHANGED control /\ OnlyLeaves
      BY <2>1, CancelsLeave DEF CancelOrders
    <3>2. QED
      BY <1>0, <3>1, AccountsMove
  <2>2. ASSUME NEW m \in 0..NNodes, NEW w \in BOOLEAN, CancelAll(i, m, w) PROVE TenantMoves
    <3>1. UNCHANGED control /\ OnlyLeaves
      BY <2>2, CancelsLeave DEF CancelAll
    <3>2. QED
      BY <1>0, <3>1, AccountsMove
  <2>3. ASSUME NEW n \in Nodes, NEW q \in 0..venue.nodes[n].lots, ReduceOrder(i, n, q) PROVE TenantMoves
    <3>1. UNCHANGED control /\ OnlyLeaves
      BY <2>3, ReduceLeaves DEF ReduceOrder
    <3>2. QED
      BY <1>0, <3>1, AccountsMove
  <2>4. ASSUME NEW q \in MintLots, NEW w \in BOOLEAN, MergeSet(i, q, w) PROVE TenantMoves
    BY <1>0, <2>4, AccountsMove DEF MergeSet
  <2>5. ASSUME NEW c \in 0..MaxCash, WithdrawCredit(i, c) PROVE TenantMoves
    <3>1. c \in Nat
      BY BoundsAssumption
    <3>2. UNCHANGED control /\ OnlyLeaves
      BY <2>5, <3>1, WithdrawLeaves DEF WithdrawCredit
    <3>3. QED
      BY <1>0, <3>2, AccountsMove
  <2>6. ASSUME RedeemFull(i) PROVE TenantMoves
    <3>1. UNCHANGED control /\ OnlyLeaves
      BY <2>6, RedeemFullLeaves DEF RedeemFull
    <3>2. QED
      BY <1>0, <3>1, AccountsMove
  <2>7. ASSUME NEW x \in Outcomes, NEW q \in 0..venue.seats[i].free[x], RedeemPartial(i, x, q) PROVE TenantMoves
    <3>1. q \in Nat
      BY <2>7 DEF IInv, Sound, VenueState, Seat
    <3>2. UNCHANGED control /\ OnlyLeaves
      BY <2>7, <3>1, RedeemPartialLeaves DEF RedeemPartial
    <3>3. QED
      BY <1>0, <3>2, AccountsMove
  <2>8. QED
    BY <1>3, <2>1, <2>2, <2>3, <2>4, <2>5, <2>6, <2>7 DEF SeatStep, UserRedeem, RedeemFor
<1>4. ASSUME PlaceStep PROVE TenantMoves
  <2>1. ASSUME WalkStep \/ PlaceRefused PROVE TenantMoves
    BY <1>1, <2>1 DEF WalkStep, EvictExpired, SkipExpired, StopAtFillCap, CancelOwnMaker, Fill, PlaceRefused
  <2>2. ASSUME NEW n \in Nodes, PlaceRest(n) PROVE TenantMoves
    <3>1. phase = "match" /\ UNCHANGED control
      BY <2>2 DEF PlaceRest, Settle
    <3>2. QED
      BY <1>0, <3>1, AccountsMove DEF SeatInv, Placing
  <2>3. ASSUME PlaceDone PROVE TenantMoves
    <3>1. phase = "match" /\ UNCHANGED control
      BY <2>3 DEF PlaceDone, Settle
    <3>2. QED
      BY <1>0, <3>1, AccountsMove DEF SeatInv, Placing
  <2>4. QED
    BY <1>4, <2>1, <2>2, <2>3 DEF PlaceStep
<1>5. ASSUME Crank PROVE TenantMoves
  <2>1. ASSUME NEW m \in 1..MaxRemoved, SweepExpired(m) PROVE TenantMoves
    <3>1. UNCHANGED control /\ OnlyLeaves
      BY <2>1, SweepExpiredLeaves DEF SweepExpired
    <3>2. QED
      BY <1>0, <3>1, AccountsMove
  <2>2. ASSUME NEW k \in 1..GrowMax, GrowLedger(k) PROVE TenantMoves
    <3>1. UNCHANGED control /\ Status \in {"Listed", "Trading"}
      BY <2>2 DEF GrowLedger, Status
    <3>2. QED
      BY <1>0, <3>1, AccountsMove
  <2>3. QED
    BY <1>5, <2>1, <2>2, ReleaseBookGivesBack, CloseLedgerCloses DEF Crank
<1>6. ASSUME UNCHANGED vars PROVE TenantMoves
  BY <1>1, <1>6 DEF vars, control
<1>7. QED
  BY <1>2, <1>3, <1>4, <1>5, <1>6, EnvironmentIsTenant DEF Next

\* A Window's book and ledger are what Settlement takes them for, for every number of wallets, seats and
\* orders: from the lock on they only empty, and they are given up only once they hold nothing.
THEOREM VenueKeepsTenancy == Spec => KeepsTenancy
<1>1. IInv /\ SeatInv /\ LedgerFacts /\ LedgerFacts' /\ [Next]_vars => [Tenant!Next]_(Tenant!vars)
  BY TenantMoved DEF TenantMoves
<1>2. QED
  BY <1>1, LedgerIs, TenantBegins, SeatInvariantHolds, PTL DEF Spec, KeepsTenancy, Tenant!Spec

-----------------------------------------------------------------------------
(* What the tenancy gives: nothing is given up full, and nothing is left   *)
(* that no instruction takes out.                                          *)

\* A book given back rests no order and never will again, and a closed ledger holds nothing.
GivenUp ==
  /\ released => Stage \in {"Locked", "Resolved", "Voided"} /\ Live(venue) = {}
  /\ closed => Stage \in {"Resolved", "Voided"} /\ Vacant(venue)

LEMMA TenancyKeepsGivenUp ==
  ASSUME LedgerFacts, LedgerFacts', GivenUp, TenantMoves
  PROVE  GivenUp'
<1>1. /\ released => Stage \in {"Locked", "Resolved", "Voided"} /\ ~(Live(venue) # {})
      /\ closed => Stage \in {"Resolved", "Voided"} /\ ~(~LedgerEmpty)
  BY DEF GivenUp, LedgerFacts
<1>2. /\ released' => Stage' \in {"Locked", "Resolved", "Voided"} /\ ~(Live(venue) # {})'
      /\ closed' => Stage' \in {"Resolved", "Voided"} /\ ~(~LedgerEmpty)'
  <2>1. CASE UNCHANGED Tenant!vars
    BY <1>1, <2>1 DEF Tenant!vars
  <2>2. CASE Tenant!Leave \/ Tenant!Decide
    BY <1>1, <2>2 DEF Tenant!Leave, Tenant!Decide
  <2>3. CASE Tenant!GiveBack \/ Tenant!CloseLedger
    BY <1>1, <2>3 DEF Tenant!GiveBack, Tenant!CloseLedger
  <2>4. CASE Tenant!List \/ Tenant!Pass \/ Tenant!Use
    BY <1>1, <2>4 DEF Tenant!List, Tenant!Pass, Tenant!Use
  <2>5. CASE Tenant!Forget
    <3>1. Stage' = "Closed"
      BY <2>5 DEF Tenant!Forget
    <3>2. QED
      BY <3>1 DEF Stage, Status
  <2>6. QED
    BY <2>1, <2>2, <2>3, <2>4, <2>5 DEF TenantMoves, Tenant!Next
<1>3. QED
  BY <1>2 DEF GivenUp, LedgerFacts

\* Whatever wallets, products and cranks send, no order is in a book that went on to another Window and no
\* seat holds anything in a ledger that was closed (public_release_book, public_close_ledger).
THEOREM NothingGivenUpFull ==
  Spec => []((released => Live(venue) = {}) /\ (closed => Vacant(venue)))
<1>1. Init => GivenUp
  BY DEF Init, GivenUp
<1>2. IInv /\ SeatInv /\ LedgerFacts /\ LedgerFacts' /\ GivenUp /\ [Next]_vars => GivenUp'
  BY TenantMoved, TenancyKeepsGivenUp
<1>3. GivenUp => (released => Live(venue) = {}) /\ (closed => Vacant(venue))
  BY DEF GivenUp
<1>4. QED
  BY <1>1, <1>2, <1>3, LedgerIs, SeatInvariantHolds, PTL DEF Spec

\* Once the Window is decided there is always an instruction left that empties it, until the ledger can be
\* closed: the sweep while orders rest, a redeem of a seat that holds something and has no order, or the
\* closing itself.
NothingIsStranded ==
  Idle /\ Terminal /\ LedgerOpen =>
    \/ LedgerEmpty
    \/ BookBound /\ Live(venue) # {}
    \/ \E i \in Seats : /\ OwnedSeat(venue, i) /\ venue.seats[i].openOrders = 0
                        /\ ~Drained(venue.seats[i]) \/ venue.seats[i].bonded

LEMMA NoLiveNoOrders ==
  ASSUME NEW v, Sound(v), Live(v) = {}, NEW j \in Seats
  PROVE  v.seats[j].openOrders = 0
<1> DEFINE f == [n \in Nodes |-> IF n \in Live(v) /\ v.nodes[n].seat = j THEN [m \in Nodes |-> 1][n] ELSE 0]
<1>1. \A n \in 1..NNodes : f[n] = 0
  BY DEF Nodes
<1>2. OrderCount(v, Live(v), j) = Sum(f, NNodes)
  BY DEF OrderCount, Total
<1>3. v.seats[j].openOrders = OrderCount(v, Live(v), j)
  BY DEF Sound, Escrowed
<1> HIDE DEF f
<1>4. Sum(f, NNodes) = 0
  BY <1>1, SizesAssumption, SumZeros
<1>5. QED
  BY <1>2, <1>3, <1>4

LEMMA StrandedNever == IInv /\ SeatInv /\ GivenUp => NothingIsStranded
<1> SUFFICES ASSUME IInv, SeatInv, GivenUp PROVE NothingIsStranded
  OBVIOUS
<1> DEFINE Redeemable(i) == /\ OwnedSeat(venue, i) /\ venue.seats[i].openOrders = 0
                            /\ ~Drained(venue.seats[i]) \/ venue.seats[i].bonded
<1> SUFFICES ASSUME ~LedgerEmpty, ~(BookBound /\ Live(venue) # {}) PROVE \E i \in Seats : Redeemable(i)
  BY DEF NothingIsStranded
<1>1. Sound(venue) /\ Seated(venue) /\ BondsOwned(venue)
  BY DEF IInv, SeatInv, Sound
<1>2. Live(venue) = {}
  BY DEF GivenUp, BookBound
<1>3. PICK j \in Seats : j <= venue.capacity /\ ~(Drained(venue.seats[j]) /\ ~venue.seats[j].bonded)
  BY DEF LedgerEmpty
<1>4. venue.seats[j].owner # NoOwner
  BY <1>1, <1>3 DEF Seated, Empty, BondsOwned
<1>5. venue.seats[j].openOrders = 0
  BY <1>1, <1>2, NoLiveNoOrders
<1>6. QED
  BY <1>3, <1>4, <1>5 DEF OwnedSeat

\* Funds of a decided Window are never stuck behind a guard, for every number of wallets, seats and orders:
\* what LedgerCloses then needs is only that somebody goes on sending.
THEOREM NothingIsStrandedHolds == Spec => []NothingIsStranded
<1>1. Init => GivenUp
  BY DEF Init, GivenUp
<1>2. IInv /\ SeatInv /\ LedgerFacts /\ LedgerFacts' /\ GivenUp /\ [Next]_vars => GivenUp'
  BY TenantMoved, TenancyKeepsGivenUp
<1>3. QED
  BY <1>1, <1>2, StrandedNever, LedgerIs, SeatInvariantHolds, PTL DEF Spec

============================================================================
