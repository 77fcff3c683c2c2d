---------------------------- MODULE VenueProofs ----------------------------
(***************************************************************************)
(* The safety of a Window, for every number of wallets, seats and orders.  *)
(* The inductive invariant adds to the checked properties what is true     *)
(* inside a placement: the accounts being mutated are as sound as the      *)
(* committed ones, and they are worth exactly what the placement has spent *)
(* and received more.                                                      *)
(***************************************************************************)
EXTENDS VenueOperations, FiniteSetTheorems, TLAPS

Scalars ==
  /\ phase \in {"idle", "match"}
  /\ mvault \in Nat /\ donated \in Nat /\ residue \in Nat /\ now \in Nat
  /\ mode \in Modes /\ result \in Results
  /\ released \in BOOLEAN /\ closed \in BOOLEAN

\* The running placement: its budgets, the lots it may still sell, and the cash it has moved.
Matching ==
  /\ taker \in TakerState
  /\ ~Terminal /\ ~closed
  /\ Sound(work) /\ Paired(work)
  /\ ValidPrice(taker.order.price)
  /\ FreeCovers(work.seats[taker.seat], taker.order.kind, taker.remaining)
  /\ Value(work) = Value(venue) + BondFor(taker.claimed) + taker.spent - taker.received

IInv ==
  /\ Scalars
  /\ Sound(venue)
  /\ PairsBacked
  /\ Solvency
  /\ phase = "idle" => work = venue
  /\ phase = "match" => Matching

-----------------------------------------------------------------------------
(* What is owed.                                                           *)

\* A lot pays a natural number of ticks; a YES and a NO lot together always pay one pair.
LEMMA PayoutTicksSum ==
  /\ PayoutTicks("yes") \in Nat /\ PayoutTicks("no") \in Nat
  /\ Terminal /\ result \in Results => PayoutTicks("yes") + PayoutTicks("no") = PairTicks
<1>1. PairTicks \in Nat /\ PairTicks \div 2 \in Nat /\ (PairTicks \div 2) + (PairTicks \div 2) = PairTicks
  BY GridAssumption
<1>2. QED
  BY <1>1 DEF PayoutTicks, Terminal, Results

\* What is owed, by the supply of each outcome.
LEMMA OwedIs ==
  ASSUME NEW v, v \in VenueState
  PROVE  /\ Terminal => Owed(v) = CashHeld(v) + (Supply(v, "yes") * PayoutTicks("yes")
                                                 + Supply(v, "no") * PayoutTicks("no"))
         /\ ~Terminal => Owed(v) = Value(v)
         /\ Owed(v) \in Nat
<1>1. v.seats \in [Seats -> Seat] /\ v.backing \in Nat /\ PairTicks \in Nat
  BY GridAssumption DEF VenueState
<1>2. PayoutTicks("yes") \in Nat /\ PayoutTicks("no") \in Nat
  BY PayoutTicksSum
<1>3. PayoutsDue(v) = Supply(v, "yes") * PayoutTicks("yes") + Supply(v, "no") * PayoutTicks("no")
  BY <1>1, <1>2, PayoutSum DEF PayoutsDue, Payout
<1>4. CashHeld(v) \in Nat /\ Supply(v, "yes") \in Nat /\ Supply(v, "no") \in Nat
  BY <1>1, TotalsNat DEF Outcomes
<1>5. \A a, b \in Nat : a * b \in Nat
  OBVIOUS
<1>6. PayoutsDue(v) \in Nat /\ v.backing * PairTicks \in Nat
  BY <1>1, <1>2, <1>3, <1>4, <1>5
<1>7. QED
  BY <1>3, <1>4, <1>6 DEF Owed, Value

\* Moving cash moves what is owed by as much.
LEMMA OwedMoved ==
  ASSUME NEW v, NEW w, v \in VenueState, w \in VenueState, NEW a \in Int, CashMoved(v, w, a)
  PROVE  Owed(w) = Owed(v) + a /\ Value(w) = Value(v) + a /\ (Paired(v) => Paired(w))
<1>1. "yes" \in Outcomes /\ "no" \in Outcomes
  BY DEF Outcomes
<1>2. CashHeld(v) \in Nat /\ Supply(v, "yes") \in Nat /\ Supply(v, "no") \in Nat
  BY <1>1, TotalsNat DEF VenueState
<1>3. /\ CashHeld(w) = CashHeld(v) + a /\ w.backing = v.backing
      /\ Supply(w, "yes") = Supply(v, "yes") /\ Supply(w, "no") = Supply(v, "no")
  BY <1>1 DEF CashMoved
<1>4. v.backing * PairTicks \in Nat
  BY GridAssumption DEF VenueState
<1>5. Value(w) = Value(v) + a
  BY <1>2, <1>3, <1>4 DEF Value
<1>6. Owed(w) = Owed(v) + a
  <2>1. CASE ~Terminal
    BY <1>5, <2>1, OwedIs
  <2>2. CASE Terminal
    <3> DEFINE due == Supply(v, "yes") * PayoutTicks("yes") + Supply(v, "no") * PayoutTicks("no")
    <3>1. due \in Nat
      <4>1. \A m, n \in Nat : m * n \in Nat
        OBVIOUS
      <4>2. QED
        BY <1>2, <4>1, PayoutTicksSum
    <3>2. Owed(v) = CashHeld(v) + due /\ Owed(w) = CashHeld(w) + due
      BY <1>3, <2>2, OwedIs
    <3> HIDE DEF due
    <3>3. QED
      BY <1>2, <1>3, <3>1, <3>2
  <2>3. QED
    BY <2>1, <2>2
<1>7. Paired(v) => Paired(w)
  BY <1>3 DEF CashMoved, Paired
<1>8. QED
  BY <1>5, <1>6, <1>7

\* Accounts of the same worth are owed the same.
LEMMA OwedSame ==
  ASSUME NEW v, NEW w, v \in VenueState, w \in VenueState, SameWorth(v, w)
  PROVE  Owed(w) = Owed(v) /\ Value(w) = Value(v) /\ (Paired(v) => Paired(w))
<1> DEFINE a == 0
<1>1. CashHeld(v) \in Nat
  BY TotalsNat DEF VenueState
<1>2. a \in Int /\ CashMoved(v, w, a)
  BY <1>1 DEF SameWorth, CashMoved
<1>3. Owed(v) \in Nat /\ Value(v) \in Int
  <2>1. v.backing * PairTicks \in Nat
    BY GridAssumption DEF VenueState
  <2>2. QED
    BY <1>1, <2>1, OwedIs DEF Value
<1>4. Owed(w) = Owed(v) + a /\ Value(w) = Value(v) + a /\ (Paired(v) => Paired(w))
  <2> HIDE DEF a
  <2> QED BY <1>2, OwedMoved
<1>5. QED
  BY <1>3, <1>4

-----------------------------------------------------------------------------
(* The shapes of a step.                                                   *)

\* A step that commits the accounts v.
Commits(v) ==
  /\ ~closed
  /\ venue' = v /\ work' = v /\ phase' = "idle"
  /\ UNCHANGED control
  /\ Sound(v) /\ (~Terminal => Paired(v))
  /\ mvault' = Owed(v) + donated

\* Such a step keeps the invariant.
LEMMA CommitKeeps ==
  ASSUME IInv, NEW v, Commits(v)
  PROVE  IInv'
<1>1. /\ venue' = v /\ work' = v /\ phase' = "idle"
      /\ donated' = donated /\ residue' = residue /\ mode' = mode /\ now' = now /\ result' = result
      /\ released' = released /\ closed' = closed
  BY DEF Commits, control
<1>2. Sound(v) /\ (~Terminal => Paired(v)) /\ mvault' = Owed(v) + donated
  BY DEF Commits
<1>3. mvault' \in Nat
  BY <1>2, OwedIs DEF Sound, IInv, Scalars
<1>4. Scalars'
  BY <1>1, <1>3 DEF IInv, Scalars
<1>5. Owed(venue)' = Owed(v)
  BY <1>1 DEF Owed, Terminal, PayoutsDue, Payout, PayoutTicks
<1>6. PairsBacked' /\ Solvency'
  BY <1>1, <1>2, <1>5 DEF PairsBacked, Solvency, Terminal
<1>7. QED
  BY <1>1, <1>2, <1>4, <1>6 DEF IInv

\* A step of a placement that keeps Matching keeps the invariant.
LEMMA MatchKeeps ==
  ASSUME IInv, phase = "match", UNCHANGED <<venue, phase, mvault, control>>, Matching'
  PROVE  IInv'
<1>1. /\ venue' = venue /\ phase' = "match" /\ mvault' = mvault
      /\ donated' = donated /\ residue' = residue /\ mode' = mode /\ now' = now /\ result' = result
      /\ released' = released /\ closed' = closed
  BY DEF control
<1>2. Scalars'
  BY <1>1 DEF IInv, Scalars
<1>3. PairsBacked' /\ Solvency'
  BY <1>1 DEF IInv, PairsBacked, Solvency, Terminal, Owed, PayoutsDue, Payout, PayoutTicks
<1>4. QED
  BY <1>1, <1>2, <1>3 DEF IInv

-----------------------------------------------------------------------------
(* Inside a placement.                                                     *)

\* What the invariant gives a step of the match loop.
LEMMA InMatch ==
  ASSUME IInv, phase = "match"
  PROVE  /\ Matching /\ Sound(work) /\ Paired(work) /\ work \in VenueState /\ venue \in VenueState
         /\ taker \in TakerState /\ taker.seat \in Seats /\ taker.order \in OrderArg
         /\ taker.order.kind \in Kinds /\ taker.order.expire \in Nat /\ taker.order.withdraw \in BOOLEAN
         /\ taker.remaining \in Nat /\ taker.spent \in Nat /\ taker.received \in Nat
         /\ BondFor(taker.claimed) \in Nat
<1>1. Matching
  BY DEF IInv
<1>2. taker.order \in OrderArg
  BY <1>1 DEF Matching, TakerState
<1>3. taker.order.kind \in Kinds /\ taker.order.expire \in Nat /\ taker.order.withdraw \in BOOLEAN
  BY <1>2 DEF OrderArg
<1>4. QED
  BY <1>1, <1>2, <1>3, GridAssumption DEF Matching, TakerState, Sound, IInv, BondFor

\* An order the walk visits is live, opposite, and has a seat and a price.
LEMMA Visited ==
  ASSUME IInv, NEW n, Visits(n)
  PROVE  /\ phase = "match" /\ n \in Live(work)
         /\ work.nodes[n] \in Node /\ work.nodes[n].seat \in Seats /\ ValidPrice(work.nodes[n].price)
         /\ IsBid(taker.order.kind) # IsBid(work.nodes[n].kind)
<1>1. phase = "match" /\ n \in Live(work) /\ Opposite(taker.order.kind, n)
  BY DEF Visits, Ahead
<1>2. Sound(work) /\ n \in Nodes
  BY <1>1, InMatch DEF Live
<1>3. QED
  BY <1>1, <1>2 DEF Sound, LiveOK, VenueState, Opposite

\* A seat's free lots are natural.
LEMMA FreeNat ==
  ASSUME NEW v, v \in VenueState, NEW i \in Seats, NEW k \in Kinds
  PROVE  Outcome(k) \in Outcomes /\ v.seats[i].free[Outcome(k)] \in Nat
<1>1. Outcome(k) \in Outcomes
  BY DEF Outcome, Outcomes
<1>2. v.seats[i] \in Seat
  BY DEF VenueState
<1>3. v.seats[i].free \in [Outcomes -> Nat]
  BY <1>2 DEF Seat
<1>4. QED
  BY <1>1, <1>3

\* Removing an order from the working accounts keeps the placement's invariant.
LEMMA EvictionKeeps ==
  ASSUME IInv, phase = "match", NEW n \in Live(work), work' = RemoveNodes(work, {n}),
         UNCHANGED <<venue, phase, mvault, control>>,
         taker' \in TakerState, taker'.seat = taker.seat, taker'.order = taker.order,
         taker'.claimed = taker.claimed, taker'.remaining = taker.remaining,
         taker'.spent = taker.spent, taker'.received = taker.received
  PROVE  IInv'
<1>1. {n} \in SUBSET Live(work) /\ Sound(work)
  BY InMatch
<1>2. /\ Sound(work') /\ SameWorth(work, work') /\ SameHolders(work, work')
      /\ \A j \in Seats, x \in Outcomes : work'.seats[j].free[x] >= work.seats[j].free[x]
  BY <1>1, RemoveNodesKeeps
<1>3. work' \in VenueState /\ work \in VenueState
  BY <1>1, <1>2 DEF Sound
<1>4. Value(work') = Value(work) /\ Paired(work')
  BY <1>2, <1>3, InMatch, OwedSame
<1>5. FreeCovers(work'.seats[taker.seat], taker.order.kind, taker.remaining)
  <2> DEFINE i == taker.seat
             k == taker.order.kind
             old == work.seats[i].free[Outcome(k)]
             new == work'.seats[i].free[Outcome(k)]
  <2>1. i \in Seats /\ k \in Kinds /\ taker.remaining \in Nat
    BY InMatch
  <2> HIDE DEF i, k
  <2>2. Outcome(k) \in Outcomes /\ old \in Nat /\ new \in Nat
    BY <1>3, <2>1, FreeNat
  <2>3. new >= old
    BY <1>2, <2>1, <2>2
  <2>4. ~IsBuy(k) => old >= taker.remaining
    BY InMatch DEF Matching, FreeCovers, i, k
  <2> HIDE DEF old, new
  <2>5. ~IsBuy(k) => new >= taker.remaining
    BY <2>1, <2>2, <2>3, <2>4
  <2>6. QED
    BY <2>5 DEF FreeCovers, new, i, k
<1>6. Matching'
  <2>1. result' = result /\ closed' = closed /\ venue' = venue
    BY DEF control
  <2>2. Matching
    BY InMatch
  <2>3. QED
    BY <1>2, <1>4, <1>5, <2>1, <2>2 DEF Matching, Terminal
<1>7. QED
  BY <1>6, MatchKeeps

\* Evicting an expired order keeps the invariant.
LEMMA EvictExpiredKeeps ==
  ASSUME IInv, NEW n \in Nodes, EvictExpired(n)
  PROVE  IInv'
<1>1. phase = "match" /\ n \in Live(work) /\ taker \in TakerState
  BY Visited, InMatch DEF EvictExpired
<1>2. taker' = [taker EXCEPT !.evictions = @ + 1]
  BY DEF EvictExpired
<1>3. /\ taker' \in TakerState /\ taker'.seat = taker.seat /\ taker'.order = taker.order
      /\ taker'.claimed = taker.claimed /\ taker'.remaining = taker.remaining
      /\ taker'.spent = taker.spent /\ taker'.received = taker.received
  BY <1>1, <1>2 DEF TakerState
<1>4. QED
  BY <1>1, <1>3, EvictionKeeps DEF EvictExpired

\* So does cancelling the taker's own order.
LEMMA CancelOwnMakerKeeps ==
  ASSUME IInv, NEW n \in Nodes, CancelOwnMaker(n)
  PROVE  IInv'
<1>1. phase = "match" /\ n \in Live(work) /\ taker \in TakerState
  BY Visited, InMatch DEF CancelOwnMaker, VisitsLive
<1>2. taker' = [taker EXCEPT !.used = @ + 1]
  BY DEF CancelOwnMaker
<1>3. /\ taker' \in TakerState /\ taker'.seat = taker.seat /\ taker'.order = taker.order
      /\ taker'.claimed = taker.claimed /\ taker'.remaining = taker.remaining
      /\ taker'.spent = taker.spent /\ taker'.received = taker.received
  BY <1>1, <1>2 DEF TakerState
<1>4. QED
  BY <1>1, <1>3, EvictionKeeps DEF CancelOwnMaker

\* Passing over an order, or stopping the walk, moves nothing.
LEMMA WalkOnKeeps ==
  ASSUME IInv, NEW n \in Nodes, SkipExpired(n) \/ StopAtFillCap(n)
  PROVE  IInv'
<1>1. phase = "match" /\ Matching /\ taker \in TakerState
  BY Visited, InMatch DEF SkipExpired, StopAtFillCap, VisitsLive
<1>2. /\ taker' \in TakerState /\ taker'.seat = taker.seat /\ taker'.order = taker.order
      /\ taker'.claimed = taker.claimed /\ taker'.remaining = taker.remaining
      /\ taker'.spent = taker.spent /\ taker'.received = taker.received
  <2>1. CASE SkipExpired(n)
    BY <1>1, <2>1 DEF SkipExpired, TakerState
  <2>2. CASE StopAtFillCap(n)
    BY <1>1, <2>2 DEF StopAtFillCap, TakerState
  <2>3. QED
    BY <2>1, <2>2
<1>3. UNCHANGED <<venue, work, phase, mvault, control>>
  BY DEF SkipExpired, StopAtFillCap
<1>4. Matching'
  BY <1>1, <1>2, <1>3 DEF Matching, Terminal, control
<1>5. QED
  BY <1>1, <1>3, <1>4, MatchKeeps

\* A fill keeps the invariant: the maker, the taker and the backing move together.
LEMMA FillKeeps ==
  ASSUME IInv, NEW n \in Nodes, Fill(n)
  PROVE  IInv'
<1> DEFINE m == work.nodes[n]
           k == taker.order.kind
           i == taker.seat
           q == IF taker.remaining <= m.lots THEN taker.remaining ELSE m.lots
           cash == CashOf(k, m.price, q)
<1>1. /\ phase = "match" /\ n \in Live(work) /\ m \in Node /\ m.seat \in Seats /\ ValidPrice(m.price)
      /\ IsBid(k) # IsBid(m.kind)
  BY Visited DEF Fill, VisitsLive
<1>2. /\ Matching /\ Sound(work) /\ Paired(work) /\ taker \in TakerState /\ i \in Seats /\ k \in Kinds
      /\ taker.remaining \in Nat /\ taker.spent \in Nat /\ taker.received \in Nat
      /\ BondFor(taker.claimed) \in Nat /\ work \in VenueState /\ venue \in VenueState
  BY <1>1, InMatch
<1>3. m.lots \in Nat
  BY <1>1 DEF Node
<1>4. q \in Nat /\ q <= m.lots /\ q <= taker.remaining /\ taker.remaining - q \in Nat
  BY <1>2, <1>3
<1>5. cash \in Nat
  <2> HIDE DEF q, m, k
  <2> QED BY <1>1, <1>2, <1>4, CashNat
<1>6. /\ m.seat # i
      /\ work' = FillNode(work, n, i, k, q)
      /\ taker' = [taker EXCEPT
                     !.remaining = @ - q,
                     !.used = @ + 1,
                     !.spent = IF IsBuy(k) THEN @ + cash ELSE @,
                     !.received = IF IsBuy(k) THEN @ ELSE @ + cash]
      /\ UNCHANGED <<venue, phase, mvault, control>>
  BY DEF Fill, Own
<1> HIDE DEF q, cash
<1>7. /\ taker' \in TakerState /\ taker'.seat = i /\ taker'.order = taker.order
      /\ taker'.claimed = taker.claimed /\ taker'.remaining = taker.remaining - q
      /\ taker'.spent = taker.spent + CashPart(k, m.price, q)
      /\ taker'.received = taker.received + Proceeds(k, m.price, q)
  <2> DEFINE sp == IF IsBuy(k) THEN taker.spent + cash ELSE taker.spent
             rc == IF IsBuy(k) THEN taker.received ELSE taker.received + cash
  <2>1. sp \in Nat /\ rc \in Nat
    BY <1>2, <1>5
  <2>2. sp = taker.spent + CashPart(k, m.price, q) /\ rc = taker.received + Proceeds(k, m.price, q)
    BY <1>2, <1>5 DEF CashPart, Proceeds, cash
  <2>3. taker' = [taker EXCEPT !.remaining = @ - q, !.used = @ + 1, !.spent = sp, !.received = rc]
    BY <1>6
  <2> HIDE DEF sp, rc, m
  <2>4. /\ taker'.seat = i /\ taker'.order = taker.order /\ taker'.claimed = taker.claimed
        /\ taker'.remaining = taker.remaining - q /\ taker'.spent = sp /\ taker'.received = rc
    BY <1>2, <2>3 DEF TakerState
  <2>5. taker' \in TakerState
    <3> DEFINE rm == taker.remaining - q
               us == taker.used + 1
    <3>1. rm \in Nat /\ us \in Nat
      BY <1>2, <1>4 DEF TakerState
    <3>2. taker' = [taker EXCEPT !.remaining = rm, !.used = us, !.spent = sp, !.received = rc]
      BY <2>3
    <3> HIDE DEF rm, us
    <3>3. QED
      BY <1>2, <2>1, <3>1, <3>2 DEF TakerState
  <2>6. QED
    BY <2>2, <2>4, <2>5
<1>8. ~IsBuy(k) => work.seats[i].free[Outcome(k)] >= taker.remaining
  BY <1>2 DEF Matching, FreeCovers
<1>9. Outcome(k) \in Outcomes /\ work.seats[i].free[Outcome(k)] \in Nat
  BY <1>2, FreeNat
<1>10. ~IsBuy(k) => work.seats[i].free[Outcome(k)] >= q
  BY <1>2, <1>4, <1>8, <1>9
<1>11. /\ Sound(work') /\ Paired(work')
       /\ Value(work') = Value(work) + CashPart(k, m.price, q) - Proceeds(k, m.price, q)
       /\ \A x \in Outcomes : work'.seats[i].free[x] = work.seats[i].free[x] + Bought(k, q, x) - LotsPart(k, q, x)
  BY <1>1, <1>2, <1>4, <1>6, <1>10, FillNodeKeeps
<1>12. FreeCovers(work'.seats[i], k, taker.remaining - q)
  BY <1>2, <1>4, <1>8, <1>9, <1>11 DEF FreeCovers, Bought, LotsPart
<1>13. Value(work) \in Int /\ Value(venue) \in Int
  <2>1. work.backing * PairTicks \in Int /\ venue.backing * PairTicks \in Int
    BY <1>2, GridAssumption DEF VenueState
  <2>2. CashHeld(work) \in Nat /\ CashHeld(venue) \in Nat
    BY <1>2, TotalsNat DEF VenueState
  <2>3. QED
    BY <2>1, <2>2 DEF Value
<1>14. CashPart(k, m.price, q) \in Nat /\ Proceeds(k, m.price, q) \in Nat
  <2> HIDE DEF m, k
  <2> QED BY <1>1, <1>2, <1>4, PartsNat
<1>15. Value(work') = Value(venue) + BondFor(taker.claimed) + taker'.spent - taker'.received
  <2>1. Value(work) = Value(venue) + BondFor(taker.claimed) + taker.spent - taker.received
    BY <1>2 DEF Matching
  <2> HIDE DEF m, k
  <2>2. QED
    BY <1>2, <1>7, <1>11, <1>13, <1>14, <2>1
<1>16. Matching'
  <2>1. result' = result /\ closed' = closed /\ venue' = venue
    BY <1>6 DEF control
  <2>2. QED
    BY <1>2, <1>7, <1>11, <1>12, <1>15, <2>1 DEF Matching, Terminal
<1>17. QED
  BY <1>1, <1>6, <1>16, MatchKeeps

-----------------------------------------------------------------------------
(* Beginning and ending a placement.                                       *)

\* Before a result the mvault holds the value of the accounts and the donations.
LEMMA MvaultIs ==
  ASSUME IInv, ~closed
  PROVE  /\ mvault = Owed(venue) + donated /\ donated \in Nat /\ Owed(venue) \in Nat
         /\ ~Terminal => Owed(venue) = Value(venue) /\ Paired(venue)
         /\ Sound(venue) /\ venue \in VenueState
BY OwedIs DEF IInv, Solvency, PairsBacked, Scalars, Sound

\* A placement begins on the accounts with its seat claimed, everything still to match.
LEMMA PlaceBeginKeeps ==
  ASSUME IInv, NEW a \in Owners, NEW i \in Seats, NEW o \in OrderArgs, PlaceBegin(a, i, o)
  PROVE  IInv'
<1>1. phase = "idle" /\ ~closed /\ OrderAdmitted(o) /\ CoversSale(venue.seats[i], o)
  BY DEF PlaceBegin, Idle, LedgerOpen
<1>2. ~Terminal /\ ValidPrice(o.price)
  BY <1>1 DEF OrderAdmitted, StatusAdmits, Status
<1>3. o \in OrderArg /\ o.lots \in Nat
  BY BoundsAssumption DEF OrderArg
<1>4. Sound(venue) /\ Paired(venue) /\ venue \in VenueState
  BY <1>1, <1>2, MvaultIs
<1>5. work' = ResolveSeat(venue, a, i) /\ phase' = "match" /\ UNCHANGED <<venue, mvault, control>>
  BY DEF PlaceBegin
<1>6. /\ Sound(work') /\ CashMoved(venue, work', BondFor(Claims(venue, i)))
      /\ BondFor(Claims(venue, i)) \in Nat /\ work'.seats[i].free = venue.seats[i].free
  BY <1>4, <1>5, ClaimKeeps
<1>7. Value(work') = Value(venue) + BondFor(Claims(venue, i)) /\ Paired(work')
  <2>1. work' \in VenueState
    BY <1>6 DEF Sound
  <2>2. QED
    BY <1>4, <1>6, <2>1, OwedMoved, SMTT(30)
<1>8. taker' = [seat |-> i, order |-> o, claimed |-> Claims(venue, i),
                remaining |-> o.lots, spent |-> 0, received |-> 0,
                used |-> 0, evictions |-> 0, skipped |-> {}, stop |-> "none"]
  BY DEF PlaceBegin
<1>9. taker' \in TakerState
  BY <1>3, <1>8 DEF TakerState, Claims
<1>10. Value(venue) \in Int
  BY <1>1, <1>2, MvaultIs
<1>11. Matching'
  <2>1. /\ taker'.seat = i /\ taker'.order = o /\ taker'.claimed = Claims(venue, i)
        /\ taker'.remaining = o.lots /\ taker'.spent = 0 /\ taker'.received = 0
    BY <1>8
  <2>2. FreeCovers(work'.seats[i], o.kind, o.lots)
    BY <1>1, <1>6 DEF FreeCovers, CoversSale
  <2>3. Value(work') = Value(venue) + BondFor(taker'.claimed) + taker'.spent - taker'.received
    BY <1>6, <1>7, <1>10, <2>1
  <2>4. result' = result /\ closed' = closed /\ venue' = venue
    BY <1>5 DEF control
  <2>5. QED
    BY <1>1, <1>2, <1>6, <1>7, <1>9, <2>1, <2>2, <2>3, <2>4 DEF Matching, Terminal
<1>12. QED
  <2>1. /\ venue' = venue /\ mvault' = mvault /\ phase' = "match"
        /\ donated' = donated /\ residue' = residue /\ mode' = mode /\ now' = now /\ result' = result
        /\ released' = released /\ closed' = closed
    BY <1>5 DEF control
  <2>2. Scalars'
    BY <2>1 DEF IInv, Scalars
  <2>3. PairsBacked' /\ Solvency'
    BY <2>1 DEF IInv, PairsBacked, Solvency, Terminal, Owed, PayoutsDue, Payout, PayoutTicks
  <2>4. QED
    BY <1>11, <2>1, <2>2, <2>3 DEF IInv

\* A refused placement leaves no trace.
LEMMA PlaceRefusedKeeps ==
  ASSUME IInv, PlaceRefused
  PROVE  IInv'
<1>1. /\ venue' = venue /\ work' = venue /\ mvault' = mvault /\ phase' = "idle"
      /\ donated' = donated /\ residue' = residue /\ mode' = mode /\ now' = now /\ result' = result
      /\ released' = released /\ closed' = closed
  BY DEF PlaceRefused, control
<1>2. Scalars'
  BY <1>1 DEF IInv, Scalars
<1>3. PairsBacked' /\ Solvency'
  BY <1>1 DEF IInv, PairsBacked, Solvency, Terminal, Owed, PayoutsDue, Payout, PayoutTicks
<1>4. QED
  BY <1>1, <1>2, <1>3 DEF IInv

\* Settling pays into the mvault exactly what the accounts gained and the seat's credit did not pay.
LEMMA SettleKeeps ==
  ASSUME IInv, phase = "match", NEW v, NEW e \in Nat, Settle(v, e),
         Sound(v), Paired(v), Value(v) = Value(work) + e
  PROVE  IInv'
<1> DEFINE i == taker.seat
           need == taker.spent + e + BondFor(taker.claimed)
           credit == v.seats[i].credit + taker.received
           used == CreditUsed(credit, need, taker.order.useCredit)
           left == credit - used
           funded == WithCredit(v, i, left)
           b == taker.order.withdraw
           w == SweepCredit(funded, i, b)
           out == Swept(funded, i, b)
<1>1. /\ Matching /\ i \in Seats /\ b \in BOOLEAN /\ taker.spent \in Nat /\ taker.received \in Nat
      /\ BondFor(taker.claimed) \in Nat /\ taker.order \in OrderArg
  BY InMatch
<1>2. /\ mvault' = mvault + (need - used) - out
      /\ venue' = w /\ work' = w /\ phase' = "idle" /\ UNCHANGED control
  BY DEF Settle, WithCredit
<1>3. v \in VenueState /\ v.seats[i].credit \in Nat
  BY <1>1 DEF Sound, VenueState, Seat
<1>4. credit \in Nat /\ need \in Nat
  BY <1>1, <1>3
<1> HIDE DEF i, need, credit, b
<1>6. used \in Nat /\ used <= credit /\ left \in Nat
  BY <1>4 DEF CreditUsed
<1> HIDE DEF used, left
<1>7. Sound(funded) /\ CashMoved(v, funded, left - v.seats[i].credit)
  BY <1>1, <1>6, CreditKeeps
<1> HIDE DEF funded
<1>8. Sound(w) /\ CashMoved(funded, w, -out) /\ out \in Nat
  BY <1>1, <1>7, SweepKeeps
<1> HIDE DEF w, out
<1>9. funded \in VenueState /\ w \in VenueState
  BY <1>7, <1>8 DEF Sound
<1>10. Value(funded) = Value(v) + (left - v.seats[i].credit) /\ Paired(funded)
  <2>1. left - v.seats[i].credit \in Int
    BY <1>3, <1>6
  <2>2. QED
    BY <1>3, <1>7, <1>9, <2>1, OwedMoved
<1>11. Value(w) = Value(funded) + (-out) /\ Paired(w)
  <2>1. -out \in Int
    BY <1>8
  <2>2. QED
    BY <1>8, <1>9, <1>10, <2>1, OwedMoved
<1>12. ~Terminal /\ ~closed
  BY <1>1 DEF Matching
<1>13. mvault = Value(venue) + donated /\ donated \in Nat /\ Value(venue) \in Nat
  BY <1>12, MvaultIs
<1>14. Value(work) = Value(venue) + BondFor(taker.claimed) + taker.spent - taker.received
  BY <1>1 DEF Matching
<1>15. Value(w) = Value(venue) + (need - used) - out
  BY <1>1, <1>3, <1>4, <1>6, <1>8, <1>10, <1>11, <1>13, <1>14 DEF need, credit, left
<1>16. mvault' = Owed(w) + donated
  <2>1. Owed(w) = Value(w)
    BY <1>9, <1>12, OwedIs
  <2>2. QED
    BY <1>2, <1>4, <1>6, <1>8, <1>13, <1>15, <2>1
<1>17. Commits(w)
  BY <1>2, <1>8, <1>11, <1>12, <1>16 DEF Commits
<1>18. QED
  BY <1>17, CommitKeeps

\* Resting the remainder locks its escrow.
LEMMA PlaceRestKeeps ==
  ASSUME IInv, NEW n \in Nodes, PlaceRest(n)
  PROVE  IInv'
<1> DEFINE o == taker.order
           i == taker.seat
           q == taker.remaining
           e == IF IsBuy(o.kind) THEN CashOf(o.kind, o.price, q) ELSE 0
           v == RestOrder(work, n, i, o, q)
<1>1. phase = "match" /\ n \in Nodes \ Live(work) /\ Settle(v, e)
  BY DEF PlaceRest
<1>2. /\ Matching /\ Sound(work) /\ Paired(work) /\ i \in Seats /\ q \in Nat /\ work \in VenueState
      /\ o.kind \in Kinds /\ o.expire \in Nat
  BY <1>1, InMatch
<1>3. ValidPrice(o.price) /\ (~IsBuy(o.kind) => work.seats[i].free[Outcome(o.kind)] >= q)
  BY <1>2 DEF Matching, FreeCovers
<1>4. e = CashPart(o.kind, o.price, q) /\ e \in Nat
  <2>1. e = CashPart(o.kind, o.price, q)
    BY DEF CashPart
  <2> HIDE DEF e, o, q
  <2>2. QED
    BY <1>2, <1>3, <2>1, PartsNat
<1> HIDE DEF e, o, i, q, v
<1>5. /\ Sound(v) /\ CashHeld(v) = CashHeld(work) + CashPart(o.kind, o.price, q)
      /\ \A x \in Outcomes : Supply(v, x) = Supply(work, x)
      /\ v.backing = work.backing
  BY <1>1, <1>2, <1>3, RestOrderKeeps DEF v
<1>6. CashMoved(work, v, e)
  BY <1>4, <1>5 DEF CashMoved
<1>7. v \in VenueState
  BY <1>5 DEF Sound
<1>8. Value(v) = Value(work) + e /\ Paired(v)
  BY <1>2, <1>4, <1>6, <1>7, OwedMoved
<1>9. QED
  BY <1>1, <1>4, <1>5, <1>8, SettleKeeps

\* A placement that rests nothing settles the working accounts as they are.
LEMMA PlaceDoneKeeps ==
  ASSUME IInv, PlaceDone
  PROVE  IInv'
<1> DEFINE e == 0
<1>1. phase = "match" /\ Settle(work, e) /\ e \in Nat
  BY DEF PlaceDone
<1>2. Sound(work) /\ Paired(work) /\ work \in VenueState
  BY <1>1, InMatch
<1>3. Value(work) = Value(work) + e
  <2>1. CashHeld(work) \in Nat /\ work.backing * PairTicks \in Nat
    BY <1>2, GridAssumption, TotalsNat DEF VenueState
  <2>2. QED
    BY <2>1 DEF Value
<1> HIDE DEF e
<1>4. QED
  BY <1>1, <1>2, <1>3, SettleKeeps

-----------------------------------------------------------------------------
(* The other instructions.                                                 *)

\* Committing accounts of moved cash a keeps the invariant when the mvault moves as much.
LEMMA MovedCommits ==
  ASSUME IInv, ~closed, NEW w, NEW a \in Int, Sound(w), CashMoved(venue, w, a),
         venue' = w, work' = w, phase' = "idle", UNCHANGED control, mvault' = mvault + a
  PROVE  IInv'
<1>1. /\ mvault = Owed(venue) + donated /\ donated \in Nat /\ Owed(venue) \in Nat
      /\ (~Terminal => Paired(venue)) /\ venue \in VenueState
  BY MvaultIs
<1>2. w \in VenueState
  BY DEF Sound
<1>3. Owed(w) = Owed(venue) + a /\ (Paired(venue) => Paired(w))
  BY <1>1, <1>2, OwedMoved
<1>4. Commits(w)
  BY <1>1, <1>3 DEF Commits
<1>5. QED
  BY <1>4, CommitKeeps

\* Cancelling orders, then sweeping the seat's credit out.
LEMMA CancelKeeps ==
  ASSUME IInv, ~closed, NEW S \in SUBSET Live(venue), NEW i \in Seats, NEW b \in BOOLEAN,
         NEW v, v = RemoveNodes(venue, S), NEW w, w = SweepCredit(v, i, b),
         venue' = w, work' = w, phase' = "idle", UNCHANGED control,
         mvault' = mvault - Swept(v, i, b)
  PROVE  IInv'
<1> DEFINE out == Swept(v, i, b)
<1>1. Sound(venue) /\ venue \in VenueState /\ mvault \in Nat
  BY DEF IInv, Scalars, Sound
<1>2. Sound(v) /\ SameWorth(venue, v)
  BY <1>1, RemoveNodesKeeps
<1>3. Sound(w) /\ CashMoved(v, w, -out) /\ out \in Nat
  BY <1>2, SweepKeeps
<1> HIDE DEF out
<1>4. CashMoved(venue, w, -out)
  BY <1>2, <1>3 DEF SameWorth, CashMoved
<1>5. -out \in Int /\ mvault' = mvault + (-out)
  BY <1>1, <1>3 DEF out
<1>6. QED
  BY <1>3, <1>4, <1>5, MovedCommits

\* user_cancel_orders keeps the invariant.
LEMMA CancelOrdersKeeps ==
  ASSUME IInv, NEW i \in Seats, NEW H \in HandleSets, NEW b \in BOOLEAN, CancelOrders(i, H, b)
  PROVE  IInv'
<1> DEFINE S == LiveHandles(H)
           v == RemoveNodes(venue, S)
           w == SweepCredit(v, i, b)
<1>1. /\ ~closed /\ S \in SUBSET Live(venue)
      /\ venue' = w /\ work' = w /\ phase' = "idle" /\ UNCHANGED control
      /\ mvault' = mvault - Swept(v, i, b)
  BY DEF CancelOrders, Commit, Idle, LedgerOpen, LiveOf
<1> HIDE DEF S, w
<1>2. QED
  BY <1>1, CancelKeeps DEF w

\* user_cancel_all keeps the invariant.
LEMMA CancelAllKeeps ==
  ASSUME IInv, NEW i \in Seats, NEW m, NEW b \in BOOLEAN, CancelAll(i, m, b)
  PROVE  IInv'
<1> DEFINE S == FirstBy({n \in LiveOf(venue, i) : n <= m}, MaxRemoved)
           v == RemoveNodes(venue, S)
           w == SweepCredit(v, i, b)
<1>1. /\ ~closed /\ S \in SUBSET Live(venue)
      /\ venue' = w /\ work' = w /\ phase' = "idle" /\ UNCHANGED control
      /\ mvault' = mvault - Swept(v, i, b)
  BY DEF CancelAll, Commit, Idle, LedgerOpen, LiveOf, FirstBy
<1> HIDE DEF S, w
<1>2. QED
  BY <1>1, CancelKeeps DEF w

\* Committing accounts of the same worth keeps the invariant when the mvault does not move.
LEMMA SameCommits ==
  ASSUME IInv, ~closed, NEW w, Sound(w), SameWorth(venue, w),
         venue' = w, work' = w, phase' = "idle", UNCHANGED <<mvault, control>>
  PROVE  IInv'
<1> DEFINE a == 0
<1>1. CashHeld(venue) \in Nat /\ mvault \in Nat
  BY TotalsNat DEF IInv, Scalars, Sound, VenueState
<1>2. a \in Int /\ CashMoved(venue, w, a) /\ mvault' = mvault + a
  BY <1>1 DEF SameWorth, CashMoved
<1> HIDE DEF a
<1>3. QED
  BY <1>2, MovedCommits

\* public_sweep_expired keeps the invariant.
LEMMA SweepExpiredKeeps ==
  ASSUME IInv, NEW m, SweepExpired(m)
  PROVE  IInv'
<1> DEFINE S == FirstBy({n \in Live(venue) : DrainAll \/ Expired(venue, n)}, m)
           w == RemoveNodes(venue, S)
<1>1. /\ ~closed /\ S \in SUBSET Live(venue)
      /\ venue' = w /\ work' = w /\ phase' = "idle" /\ UNCHANGED <<mvault, control>>
  BY DEF SweepExpired, Commit, Idle, LedgerOpen, FirstBy
<1>2. Sound(venue)
  BY DEF IInv
<1> HIDE DEF S
<1>3. Sound(w) /\ SameWorth(venue, w)
  BY <1>1, <1>2, RemoveNodesKeeps
<1> HIDE DEF w
<1>4. QED
  BY <1>1, <1>3, SameCommits

\* user_reduce_order keeps the invariant.
LEMMA ReduceOrderKeeps ==
  ASSUME IInv, NEW i \in Seats, NEW n \in Nodes, NEW q \in 0..venue.nodes[n].lots, ReduceOrder(i, n, q)
  PROVE  IInv'
<1> DEFINE w == ReduceNode(venue, n, q)
<1>1. /\ ~closed /\ n \in Live(venue)
      /\ venue' = w /\ work' = w /\ phase' = "idle" /\ UNCHANGED <<mvault, control>>
  BY DEF ReduceOrder, Commit, Idle, LedgerOpen, LiveOf
<1>2. Sound(venue) /\ venue.nodes[n] \in Node
  BY DEF IInv, Sound, VenueState
<1>3. q \in Nat /\ q <= venue.nodes[n].lots
  BY <1>2 DEF Node
<1>4. Sound(w) /\ SameWorth(venue, w)
  BY <1>1, <1>2, <1>3, ReduceNodeKeeps
<1> HIDE DEF w
<1>5. QED
  BY <1>1, <1>4, SameCommits

\* user_withdraw_credit keeps the invariant.
LEMMA WithdrawCreditKeeps ==
  ASSUME IInv, NEW i \in Seats, NEW c \in Nat, WithdrawCredit(i, c)
  PROVE  IInv'
<1> DEFINE left == venue.seats[i].credit - c
           w == WithCredit(venue, i, left)
           a == left - venue.seats[i].credit
<1>1. /\ ~closed /\ c <= venue.seats[i].credit /\ mvault' = mvault - c
      /\ venue' = w /\ work' = w /\ phase' = "idle" /\ UNCHANGED control
  BY DEF WithdrawCredit, Commit, Idle, LedgerOpen, WithCredit
<1>2. Sound(venue) /\ venue.seats[i].credit \in Nat /\ mvault \in Nat
  BY DEF IInv, Scalars, Sound, VenueState, Seat
<1>3. left \in Nat /\ a \in Int /\ mvault' = mvault + a
  BY <1>1, <1>2
<1>4. Sound(w) /\ CashMoved(venue, w, a)
  <2> HIDE DEF left
  <2> QED BY <1>2, <1>3, CreditKeeps
<1> HIDE DEF w, a
<1>5. QED
  BY <1>1, <1>3, <1>4, MovedCommits

\* public_grow_ledger keeps the invariant.
LEMMA GrowLedgerKeeps ==
  ASSUME IInv, NEW k \in Nat, GrowLedger(k)
  PROVE  IInv'
<1> DEFINE w == [venue EXCEPT !.capacity = @ + k]
<1>1. /\ ~closed
      /\ venue' = w /\ work' = w /\ phase' = "idle" /\ UNCHANGED <<mvault, control>>
  BY DEF GrowLedger, Commit, Idle, LedgerOpen
<1>2. Sound(venue) /\ venue \in VenueState
  BY DEF IInv, Sound
<1>3. w \in VenueState /\ w.seats = venue.seats /\ w.nodes = venue.nodes /\ w.backing = venue.backing
  BY <1>2 DEF VenueState
<1> HIDE DEF w
<1>4. Sound(w)
  <2>1. Live(w) = Live(venue)
    BY <1>3 DEF Live
  <2>2. LiveOK(w) /\ BondsOwned(w)
    BY <1>2, <1>3, <2>1 DEF Sound, LiveOK, BondsOwned
  <2>3. \A j : /\ EscrowCash(w, Live(w), j) = EscrowCash(venue, Live(venue), j)
               /\ \A x : EscrowLots(w, Live(w), j, x) = EscrowLots(venue, Live(venue), j, x)
               /\ OrderCount(w, Live(w), j) = OrderCount(venue, Live(venue), j)
    BY <1>3, <2>1 DEF EscrowCash, EscrowLots, OrderCount, Total
  <2>4. Escrowed(w)
    BY <1>2, <1>3, <2>3 DEF Sound, Escrowed
  <2>5. QED
    BY <1>3, <2>2, <2>4 DEF Sound
<1>5. SameWorth(venue, w)
  BY <1>3 DEF SameWorth, CashHeld, Supply
<1>6. QED
  BY <1>1, <1>4, <1>5, SameCommits

\* Before the result, committing paired accounts of value a more keeps the invariant when the mvault
\* moves as much.
LEMMA ValueCommits ==
  ASSUME IInv, ~closed, ~Terminal, NEW w, NEW a \in Int, Sound(w), Paired(w), Value(w) = Value(venue) + a,
         venue' = w, work' = w, phase' = "idle", UNCHANGED control, mvault' = mvault + a
  PROVE  IInv'
<1>1. mvault = Value(venue) + donated /\ donated \in Nat /\ Value(venue) \in Nat
  BY MvaultIs
<1>2. Owed(w) = Value(w)
  BY OwedIs DEF Sound
<1>3. Commits(w)
  BY <1>1, <1>2 DEF Commits
<1>4. QED
  BY <1>3, CommitKeeps

\* user_mint_set keeps the invariant: every minted pair is paid for in full.
LEMMA MintSetKeeps ==
  ASSUME IInv, NEW a \in Owners, NEW i \in Seats, NEW q \in MintLots, NEW u \in BOOLEAN,
         MintSet(a, i, q, u)
  PROVE  IInv'
<1> DEFINE v == ResolveSeat(venue, a, i)
           bond == BondFor(Claims(venue, i))
           cost == q * PairTicks
           need == cost + bond
           credit == venue.seats[i].credit
           used == CreditUsed(credit, need, u)
           left == credit - used
           b == v.backing + q
           f == [x \in Outcomes |-> v.seats[i].free[x] + q]
           w == WithPairs(v, i, b, left, f)
<1>1. /\ ~closed /\ Status = "Trading" /\ mvault' = mvault + (need - used)
      /\ venue' = [v EXCEPT !.backing = @ + q, !.seats[i].credit = @ - used,
                            !.seats[i].free = [x \in Outcomes |-> @[x] + q]]
      /\ work' = venue' /\ phase' = "idle" /\ UNCHANGED control
  BY DEF MintSet, Commit, Idle, LedgerOpen
<1>2. ~Terminal
  BY <1>1 DEF Status
<1>3. Sound(venue) /\ Paired(venue) /\ venue \in VenueState /\ Value(venue) \in Nat /\ mvault \in Nat
  BY <1>1, <1>2, MvaultIs DEF IInv, Scalars
<1>4. /\ Sound(v) /\ CashMoved(venue, v, bond) /\ bond \in Nat
      /\ v.seats[i].free = venue.seats[i].free /\ v.seats[i].credit = credit
  BY <1>3, ClaimKeeps
<1> HIDE DEF v, bond
<1>5. v \in VenueState /\ v.seats[i] \in Seat /\ v.backing \in Nat
  BY <1>4 DEF Sound, VenueState
<1>6. Value(v) = Value(venue) + bond /\ Paired(v)
  BY <1>3, <1>4, <1>5, OwedMoved
<1>7. q \in Nat /\ cost \in Nat /\ credit \in Nat
  <2>1. q \in Nat /\ PairTicks \in Nat
    BY BoundsAssumption, GridAssumption
  <2>2. credit \in Nat
    BY <1>4, <1>5 DEF Seat
  <2>3. QED
    BY <2>1, <2>2
<1> HIDE DEF credit, cost
<1>8. need \in Nat /\ used \in Nat /\ used <= credit /\ left \in Nat
  BY <1>4, <1>7 DEF CreditUsed
<1> HIDE DEF used, need
<1>9. f \in [Outcomes -> Nat] /\ b \in Nat
  BY <1>5, <1>7 DEF Seat
<1>10. venue' = w
  <2>1. v.seats \in [Seats -> Seat] /\ DOMAIN v.seats = Seats
    BY <1>5 DEF VenueState
  <2>2. venue' = [v EXCEPT !.backing = b, !.seats[i].credit = left, !.seats[i].free = f]
    BY <1>1, <1>4, <1>5, <2>1 DEF VenueState, Seat
  <2>3. QED
    BY <2>2 DEF WithPairs
<1> HIDE DEF left, b, f
<1>11. /\ Sound(w) /\ Paired(w)
       /\ Value(w) = Value(v) + (left - v.seats[i].credit) + q * PairTicks
  <2>1. b = v.backing + q /\ q \in Int /\ \A x \in Outcomes : f[x] = v.seats[i].free[x] + q
    BY <1>7 DEF b, f
  <2> HIDE DEF w
  <2>2. w = WithPairs(v, i, b, left, f)
    BY DEF w
  <2>3. QED
    BY <1>4, <1>6, <1>8, <1>9, <2>1, <2>2, PairsKeep, SMTT(30)
<1> HIDE DEF w
<1>12. Value(w) = Value(venue) + (need - used)
  BY <1>3, <1>4, <1>6, <1>7, <1>8, <1>11 DEF left, need, cost
<1>13. need - used \in Int
  BY <1>8
<1>14. QED
  BY <1>1, <1>2, <1>10, <1>11, <1>12, <1>13, ValueCommits

\* user_merge_set keeps the invariant: the pairs burned were backed, and are paid out as credit.
LEMMA MergeSetKeeps ==
  ASSUME IInv, NEW i \in Seats, NEW q \in MintLots, NEW u \in BOOLEAN, MergeSet(i, q, u)
  PROVE  IInv'
<1> DEFINE s == venue.seats[i]
           cost == q * PairTicks
           c == s.credit + cost
           b == venue.backing - q
           f == [x \in Outcomes |-> s.free[x] - q]
           v == WithPairs(venue, i, b, c, f)
           w == SweepCredit(v, i, u)
           out == Swept(v, i, u)
           m == [venue EXCEPT !.backing = @ - q, !.seats[i].credit = @ + q * PairTicks,
                              !.seats[i].free = [x \in Outcomes |-> @[x] - q]]
<1>1. /\ ~closed /\ Status = "Trading" /\ \A x \in Outcomes : s.free[x] >= q
      /\ venue' = SweepCredit(m, i, u) /\ work' = venue' /\ phase' = "idle" /\ UNCHANGED control
      /\ mvault' = mvault - Swept(m, i, u)
  BY DEF MergeSet, Commit, Idle, LedgerOpen
<1>2. ~Terminal
  BY <1>1 DEF Status
<1>3. Sound(venue) /\ Paired(venue) /\ venue \in VenueState /\ Value(venue) \in Nat /\ mvault \in Nat
  BY <1>1, <1>2, MvaultIs DEF IInv, Scalars
<1>4. s \in Seat /\ venue.backing \in Nat /\ q \in Nat /\ PairTicks \in Nat
  BY <1>3, BoundsAssumption, GridAssumption DEF VenueState
<1>5. /\ s.credit \in Nat /\ s.free \in [Outcomes -> Nat] /\ s.locked \in [Outcomes -> Nat]
      /\ "yes" \in Outcomes
  BY <1>4 DEF Seat, Outcomes
<1>6. b \in Nat
  <2>1. Lots(s, "yes") <= Supply(venue, "yes") /\ Supply(venue, "yes") = venue.backing
    BY <1>3, <1>5, TotalsNat DEF Paired, VenueState
  <2>2. s.free["yes"] \in Nat /\ s.locked["yes"] \in Nat /\ s.free["yes"] >= q
    BY <1>1, <1>5
  <2>3. QED
    BY <1>4, <2>1, <2>2 DEF Lots
<1>7. f \in [Outcomes -> Nat] /\ cost \in Nat /\ c \in Nat
  BY <1>1, <1>4, <1>5
<1>8. m = v
  <2>1. venue.seats \in [Seats -> Seat] /\ DOMAIN venue.seats = Seats
    BY <1>3 DEF VenueState
  <2>2. m = [venue EXCEPT !.backing = b, !.seats[i].credit = c, !.seats[i].free = f]
    BY <1>3, <1>4, <2>1 DEF VenueState, Seat
  <2>3. QED
    BY <2>2 DEF WithPairs
<1>9. venue' = w /\ work' = w /\ mvault' = mvault - out
  BY <1>1, <1>8
<1> HIDE DEF m, b, c, f
<1>10. Sound(v) /\ Paired(v) /\ Value(v) = Value(venue)
  <2> DEFINE d == -q
  <2>1. b = venue.backing + d /\ d \in Int /\ \A x \in Outcomes : f[x] = venue.seats[i].free[x] + d
    BY <1>4, <1>5 DEF b, f
  <2>2. d * PairTicks = -cost
    BY <1>4
  <2> HIDE DEF d, v
  <2>3. v = WithPairs(venue, i, b, c, f)
    BY DEF v
  <2>4. Sound(v) /\ Paired(v) /\ Value(v) = Value(venue) + (c - venue.seats[i].credit) + d * PairTicks
    BY <1>3, <1>6, <1>7, <2>1, <2>3, PairsKeep
  <2> HIDE DEF cost
  <2>5. QED
    BY <1>3, <1>5, <1>7, <2>2, <2>4 DEF c
<1> HIDE DEF v
<1>11. Sound(w) /\ CashMoved(v, w, -out) /\ out \in Nat
  BY <1>10, SweepKeeps
<1> HIDE DEF w, out
<1>12. -out \in Int /\ mvault' = mvault + (-out)
  BY <1>3, <1>9, <1>11
<1>13. Value(w) = Value(venue) + (-out) /\ Paired(w)
  <2>1. v \in VenueState /\ w \in VenueState
    BY <1>10, <1>11 DEF Sound
  <2>2. QED
    BY <1>10, <1>11, <1>12, <2>1, OwedMoved
<1>14. QED
  BY <1>1, <1>2, <1>9, <1>11, <1>12, <1>13, ValueCommits

\* A product of naturals is one.
LEMMA NatProduct == \A g, h \in Nat : g * h \in Nat
OBVIOUS

\* Redeeming a whole seat keeps the invariant: the mvault pays all that the seat was owed.
LEMMA RedeemFullKeeps ==
  ASSUME IInv, NEW i \in Seats, RedeemFull(i)
  PROVE  IInv'
<1> DEFINE s == venue.seats[i]
           w == [venue EXCEPT !.seats[i] = ClearedSeat(s)]
           y == Lots(s, "yes")
           n == Lots(s, "no")
           py == PayoutTicks("yes")
           pn == PayoutTicks("no")
           Y == Supply(venue, "yes")
           N == Supply(venue, "no")
           C == CashHeld(venue)
<1>1. /\ ~closed /\ Terminal /\ s.openOrders = 0
      /\ venue' = w /\ work' = w /\ phase' = "idle" /\ UNCHANGED control
      /\ mvault' = mvault - (s.credit + s.lockedCash + Payout(s) + BondOf(s))
  BY DEF RedeemFull, Commit, Idle, LedgerOpen
<1>2. Sound(venue) /\ venue \in VenueState /\ mvault = Owed(venue) + donated /\ donated \in Nat
  BY <1>1, MvaultIs
<1>3. /\ Sound(w) /\ CashHeld(w) = C - SeatCash(s)
      /\ Supply(w, "yes") = Y - y /\ Supply(w, "no") = N - n /\ y \in Nat /\ n \in Nat
  <2> HIDE DEF w
  <2>1. w = [venue EXCEPT !.seats[i] = ClearedSeat(venue.seats[i])]
    BY DEF w
  <2>2. QED
    BY <1>1, <1>2, <2>1, ClearKeeps DEF Outcomes
<1>4. C \in Nat /\ Y \in Nat /\ N \in Nat
  BY <1>2, TotalsNat DEF VenueState, Outcomes
<1>5. py \in Nat /\ pn \in Nat
  BY PayoutTicksSum
<1>6. SeatCash(s) \in Nat /\ SeatCash(s) = s.credit + s.lockedCash + BondOf(s) /\ Payout(s) = y * py + n * pn
  BY <1>2, SeatNat DEF VenueState, SeatCash, Payout
<1>7. Owed(venue) = C + (Y * py + N * pn)
  BY <1>1, <1>2, OwedIs
<1>8. Owed(w) = (C - SeatCash(s)) + ((Y - y) * py + (N - n) * pn)
  <2>1. w \in VenueState
    BY <1>3 DEF Sound
  <2>2. QED
    BY <1>1, <1>3, <2>1, OwedIs
<1>9. mvault' = Owed(w) + donated
  <2>1. s.credit \in Nat /\ s.lockedCash \in Nat /\ BondOf(s) \in Nat
    BY <1>2, GridAssumption DEF VenueState, Seat, BondOf
  <2>2. mvault' = mvault - (SeatCash(s) + Payout(s))
    <3> DEFINE p == Payout(s)
    <3>1. p \in Nat
      BY <1>3, <1>5, <1>6, NatProduct
    <3> HIDE DEF p
    <3>2. QED
      BY <1>1, <1>6, <2>1, <3>1 DEF p
  <2> HIDE DEF y, n, py, pn, Y, N, C, s, w
  <2>3. (Y - y) * py = Y * py - y * py /\ (N - n) * pn = N * pn - n * pn
    BY <1>3, <1>4, <1>5
  <2> DEFINE Yp == Y * py
             yp == y * py
             Np == N * pn
             np == n * pn
  <2>4. Yp \in Nat /\ yp \in Nat /\ Np \in Nat /\ np \in Nat
    BY <1>3, <1>4, <1>5, NatProduct
  <2>5. /\ Owed(venue) = C + (Yp + Np) /\ Payout(s) = yp + np
        /\ Owed(w) = (C - SeatCash(s)) + ((Yp - yp) + (Np - np))
    BY <1>6, <1>7, <1>8, <2>3
  <2> HIDE DEF Yp, yp, Np, np
  <2>6. QED
    BY <1>2, <1>4, <1>6, <2>2, <2>4, <2>5
<1> HIDE DEF w
<1>10. Commits(w)
  BY <1>1, <1>3, <1>9 DEF Commits
<1>11. QED
  BY <1>10, CommitKeeps

\* Redeeming some free lots of one outcome keeps the invariant.
LEMMA RedeemPartialKeeps ==
  ASSUME IInv, NEW i \in Seats, NEW x \in Outcomes, NEW q \in Nat, RedeemPartial(i, x, q)
  PROVE  IInv'
<1> DEFINE s == venue.seats[i]
           w == LessFree(venue, i, x, q)
           p == PayoutTicks(x)
           Y == Supply(venue, "yes")
           N == Supply(venue, "no")
           C == CashHeld(venue)
           py == PayoutTicks("yes")
           pn == PayoutTicks("no")
<1>1. /\ ~closed /\ Terminal /\ q <= s.free[x]
      /\ venue' = w /\ work' = w /\ phase' = "idle" /\ UNCHANGED control
      /\ mvault' = mvault - q * p
  BY DEF RedeemPartial, Commit, Idle, LedgerOpen, LessFree
<1>2. Sound(venue) /\ venue \in VenueState /\ mvault = Owed(venue) + donated /\ donated \in Nat
  BY <1>1, MvaultIs
<1>3. /\ Sound(w) /\ CashHeld(w) = C /\ Supply(w, x) = Supply(venue, x) - q
      /\ \A y \in Outcomes \ {x} : Supply(w, y) = Supply(venue, y)
  <2> HIDE DEF w
  <2>1. w = LessFree(venue, i, x, q)
    BY DEF w
  <2>2. QED
    BY <1>1, <1>2, <2>1, PartialKeeps
<1>4. C \in Nat /\ Y \in Nat /\ N \in Nat
  BY <1>2, TotalsNat DEF VenueState, Outcomes
<1>5. py \in Nat /\ pn \in Nat
  BY PayoutTicksSum
<1>6. Owed(venue) = C + (Y * py + N * pn)
  BY <1>1, <1>2, OwedIs
<1>7. Owed(w) = C + (Supply(w, "yes") * py + Supply(w, "no") * pn)
  <2>1. w \in VenueState
    BY <1>3 DEF Sound
  <2>2. QED
    BY <1>1, <1>3, <2>1, OwedIs
<1>8. mvault' = Owed(w) + donated
  <2>1. CASE x = "yes"
    <3>1. Supply(w, "yes") = Y - q /\ Supply(w, "no") = N /\ p = py
      BY <1>3, <2>1 DEF Outcomes
    <3> HIDE DEF Y, N, C, py, pn, p, w
    <3>2. (Y - q) * py = Y * py - q * py
      BY <1>4, <1>5
    <3> DEFINE a == Y * py
               b == N * pn
               d == q * py
    <3>3. a \in Nat /\ b \in Nat /\ d \in Nat
      BY <1>4, <1>5, NatProduct
    <3>4. Owed(venue) = C + (a + b) /\ Owed(w) = C + ((a - d) + b) /\ mvault' = mvault - d
      BY <1>1, <1>6, <1>7, <3>1, <3>2
    <3> HIDE DEF a, b, d
    <3>5. QED
      BY <1>2, <1>4, <3>3, <3>4
  <2>2. CASE x = "no"
    <3>1. Supply(w, "yes") = Y /\ Supply(w, "no") = N - q /\ p = pn
      BY <1>3, <2>2 DEF Outcomes
    <3> HIDE DEF Y, N, C, py, pn, p, w
    <3>2. (N - q) * pn = N * pn - q * pn
      BY <1>4, <1>5
    <3> DEFINE a == Y * py
               b == N * pn
               d == q * pn
    <3>3. a \in Nat /\ b \in Nat /\ d \in Nat
      BY <1>4, <1>5, NatProduct
    <3>4. Owed(venue) = C + (a + b) /\ Owed(w) = C + (a + (b - d)) /\ mvault' = mvault - d
      BY <1>1, <1>6, <1>7, <3>1, <3>2
    <3> HIDE DEF a, b, d
    <3>5. QED
      BY <1>2, <1>4, <3>3, <3>4
  <2>3. QED
    BY <2>1, <2>2 DEF Outcomes
<1> HIDE DEF w
<1>9. Commits(w)
  BY <1>1, <1>3, <1>8 DEF Commits
<1>10. QED
  BY <1>9, CommitKeeps

-----------------------------------------------------------------------------
(* Steps that leave the accounts alone.                                    *)

\* Between transactions, a step that leaves the accounts and the result alone keeps the invariant, if
\* the mvault keeps what is owed and what was donated.
LEMMA QuietKeeps ==
  ASSUME IInv, phase = "idle", UNCHANGED <<venue, work, phase, result>>, Scalars', Solvency'
  PROVE  IInv'
<1>1. venue' = venue /\ work' = work /\ phase' = "idle" /\ result' = result
  OBVIOUS
<1>2. PairsBacked'
  BY <1>1 DEF IInv, PairsBacked, Terminal
<1>3. QED
  BY <1>1, <1>2 DEF IInv

\* What is owed depends on the accounts and the result alone.
LEMMA OwedKept ==
  ASSUME UNCHANGED <<venue, result>>
  PROVE  Owed(venue)' = Owed(venue)
BY DEF Owed, Terminal, PayoutsDue, Payout, PayoutTicks

\* public_release_book keeps the invariant.
LEMMA ReleaseBookKeeps ==
  ASSUME IInv, ReleaseBook
  PROVE  IInv'
<1>1. Scalars' /\ Solvency'
  BY OwedKept DEF ReleaseBook, IInv, Scalars, Solvency
<1>2. QED
  BY <1>1, QuietKeeps DEF ReleaseBook, Idle

\* public_close_ledger keeps the invariant.
LEMMA CloseLedgerKeeps ==
  ASSUME IInv, CloseLedger
  PROVE  IInv'
<1>1. Scalars' /\ Solvency'
  BY DEF CloseLedger, IInv, Scalars, Solvency
<1>2. QED
  BY <1>1, QuietKeeps DEF CloseLedger, Idle

\* The clock keeps the invariant.
LEMMA TickKeeps ==
  ASSUME IInv, Tick
  PROVE  IInv'
<1>1. Scalars' /\ Solvency'
  BY OwedKept DEF Tick, IInv, Scalars, Solvency
<1>2. QED
  BY <1>1, QuietKeeps DEF Tick, Idle

\* The admin's mode keeps the invariant.
LEMMA SetModeKeeps ==
  ASSUME IInv, NEW m \in Modes, SetMode(m)
  PROVE  IInv'
<1>1. Scalars' /\ Solvency'
  BY OwedKept DEF SetMode, IInv, Scalars, Solvency
<1>2. QED
  BY <1>1, QuietKeeps DEF SetMode, Idle

\* A transfer to the mvault keeps the invariant.
LEMMA DonateKeeps ==
  ASSUME IInv, Donate
  PROVE  IInv'
<1>1. mvault = Owed(venue) + donated /\ Owed(venue) \in Nat /\ donated \in Nat
  BY MvaultIs DEF Donate, LedgerOpen
<1>2. Scalars' /\ Solvency'
  BY <1>1, OwedKept DEF Donate, IInv, Scalars, Solvency
<1>3. QED
  BY <1>2, QuietKeeps DEF Donate, Idle

\* The result keeps the invariant: whichever way the Window resolves, the payouts due are the backing
\* of the pairs, because as many lots of NO are out as of YES.
LEMMA ResolveKeeps ==
  ASSUME IInv, NEW r \in Results, Resolve(r)
  PROVE  IInv'
<1>1. /\ phase = "idle" /\ ~Terminal /\ result' = r /\ r # "open"
      /\ venue' = venue /\ work' = work /\ phase' = phase /\ mvault' = mvault
      /\ UNCHANGED <<donated, residue, mode, now, released, closed>>
  BY DEF Resolve, Idle, Outcomes
<1>2. Terminal'
  BY <1>1 DEF Terminal
<1>3. Scalars'
  BY <1>1 DEF IInv, Scalars
<1>4. Solvency'
  <2> SUFFICES ASSUME ~closed PROVE mvault = Owed(venue)' + donated
    BY <1>1 DEF Solvency
  <2> DEFINE py == PayoutTicks("yes")'
             pn == PayoutTicks("no")'
  <2>1. /\ mvault = Value(venue) + donated /\ Paired(venue) /\ venue.seats \in [Seats -> Seat]
        /\ venue.backing \in Nat /\ CashHeld(venue) \in Nat
    BY <1>1, MvaultIs, TotalsNat DEF VenueState
  <2>2. py \in Nat /\ pn \in Nat /\ py + pn = PairTicks
    <3>1. PairTicks \in Nat /\ PairTicks \div 2 \in Nat /\ (PairTicks \div 2) + (PairTicks \div 2) = PairTicks
      BY GridAssumption
    <3>2. QED
      BY <1>1, <3>1 DEF PayoutTicks, Results
  <2>3. PayoutsDue(venue)' = Sum([j \in Seats |-> Lots(venue.seats[j], "yes") * py
                                                   + Lots(venue.seats[j], "no") * pn], NSeats)
    BY <1>1 DEF PayoutsDue, Payout
  <2> HIDE DEF py, pn
  <2>4. PayoutsDue(venue)' = Supply(venue, "yes") * py + Supply(venue, "no") * pn
    BY <2>1, <2>2, <2>3, PayoutSum
  <2>5. Supply(venue, "yes") = venue.backing /\ Supply(venue, "no") = venue.backing
    BY <2>1 DEF Paired, Outcomes
  <2>6. venue.backing * py + venue.backing * pn = venue.backing * PairTicks
    BY <2>1, <2>2
  <2>7. Owed(venue)' = CashHeld(venue) + venue.backing * PairTicks
    BY <1>1, <1>2, <2>4, <2>5, <2>6 DEF Owed
  <2>8. QED
    BY <2>1, <2>7 DEF Value
<1>5. PairsBacked'
  BY <1>2 DEF PairsBacked
<1>6. QED
  BY <1>1, <1>3, <1>4, <1>5 DEF IInv

\* A step that changes nothing.
LEMMA StutterKeeps ==
  ASSUME IInv, UNCHANGED vars
  PROVE  IInv'
<1>1. /\ venue' = venue /\ work' = work /\ phase' = phase /\ taker' = taker /\ mvault' = mvault
      /\ donated' = donated /\ residue' = residue /\ mode' = mode /\ now' = now /\ result' = result
      /\ released' = released /\ closed' = closed
  BY DEF vars
<1>2. Owed(venue)' = Owed(venue)
  BY <1>1, OwedKept
<1>3. Scalars' /\ PairsBacked' /\ Solvency'
  BY <1>1, <1>2 DEF IInv, Scalars, PairsBacked, Solvency, Terminal
<1>4. Matching' <=> Matching
  BY <1>1 DEF Matching, Terminal
<1>5. QED
  BY <1>1, <1>3, <1>4 DEF IInv

-----------------------------------------------------------------------------
(* The invariant.                                                          *)

\* The venue at listing: authorities seated, nothing held, no order.
LEMMA InitialSound ==
  /\ Sound(InitialVenue) /\ Paired(InitialVenue)
  /\ CashHeld(InitialVenue) = 0 /\ InitialVenue.backing = 0
<1> DEFINE v == InitialVenue
<1>1. NSeats \in Nat /\ NNodes \in Nat /\ InitialSeats \in Nat
  BY SizesAssumption
<1>2. ASSUME NEW i \in Seats
      PROVE  /\ v.seats[i] \in Seat /\ ~v.seats[i].bonded
             /\ v.seats[i].credit = 0 /\ v.seats[i].lockedCash = 0 /\ v.seats[i].openOrders = 0
             /\ \A x \in Outcomes : v.seats[i].free[x] = 0 /\ v.seats[i].locked[x] = 0
  <2>1. \A j \in DOMAIN Authorities : Authorities[j] \in Owners \cup {NoOwner}
    BY SizesAssumption
  <2>2. EmptySeat \in Seat /\ NoLots \in [Outcomes -> Nat]
    BY DEF EmptySeat, NoLots, Seat
  <2>3. CASE i \in DOMAIN Authorities /\ Authorities[i] # NoOwner
    <3>1. v.seats[i] = [EmptySeat EXCEPT !.owner = Authorities[i], !.program = TRUE]
      BY <2>3 DEF InitialVenue
    <3>2. Authorities[i] \in Owners \cup {NoOwner}
      BY <2>1, <2>3
    <3> DEFINE s == v.seats[i]
    <3>3. /\ ~s.bonded /\ s.credit = 0 /\ s.lockedCash = 0 /\ s.openOrders = 0
          /\ s.free = NoLots /\ s.locked = NoLots
      BY <3>1 DEF EmptySeat
    <3>4. s \in Seat
      <4> HIDE DEF v
      <4> QED BY <2>2, <3>1, <3>2 DEF Seat
    <3>5. QED
      BY <3>3, <3>4 DEF NoLots
  <2>4. CASE ~(i \in DOMAIN Authorities /\ Authorities[i] # NoOwner)
    <3>1. v.seats[i] = EmptySeat
      BY <2>4 DEF InitialVenue
    <3>2. QED
      BY <2>2, <3>1 DEF EmptySeat, NoLots
  <2>5. QED
    BY <2>3, <2>4
<1>3. Cardinality(DOMAIN Authorities) \in Nat
  <2>1. PICK k \in 0..InitialSeats : DOMAIN Authorities = 1..k
    BY SizesAssumption
  <2>2. IsFiniteSet(1..k)
    BY <1>1, <2>1, FS_Interval
  <2>3. QED
    BY <2>1, <2>2, FS_CardinalityType
<1>4. \A n \in Nodes : v.nodes[n] = EmptyNode
  BY DEF InitialVenue
<1>5. v \in VenueState
  <2>1. EmptyNode \in Node
    BY DEF EmptyNode, Node, Kinds
  <2>2. v.seats \in [Seats -> Seat] /\ v.nodes \in [Nodes -> Node]
    BY <1>2, <1>4, <2>1 DEF InitialVenue
  <2>3. v.nextSeq = 0 /\ v.seatsUsed \in Nat /\ v.capacity \in Nat /\ v.backing = 0
    BY <1>1, <1>3 DEF InitialVenue
  <2>4. v = [seats |-> v.seats, nodes |-> v.nodes, nextSeq |-> v.nextSeq, seatsUsed |-> v.seatsUsed,
             capacity |-> v.capacity, backing |-> v.backing]
    BY DEF InitialVenue
  <2> HIDE DEF v
  <2>5. QED
    BY <2>2, <2>3, <2>4 DEF VenueState
<1>6. Live(v) = {}
  BY <1>4 DEF Live, EmptyNode
<1> HIDE DEF v
<1>7. \A i, a : Total(v, {}, i, a) = 0
  <2> SUFFICES ASSUME NEW i, NEW a PROVE Total(v, {}, i, a) = 0
    OBVIOUS
  <2> DEFINE f == [n \in Nodes |-> IF n \in {} /\ v.nodes[n].seat = i THEN a[n] ELSE 0]
  <2>1. \A n \in 1..NNodes : f[n] = 0
    BY DEF Nodes
  <2>2. Total(v, {}, i, a) = Sum(f, NNodes)
    BY DEF Total
  <2> HIDE DEF f
  <2>3. QED
    BY <1>1, <2>1, <2>2, SumZeros
<1>8. Escrowed(v)
  BY <1>2, <1>6, <1>7 DEF Escrowed, EscrowCash, EscrowLots, OrderCount
<1>9. Sound(v)
  BY <1>2, <1>5, <1>6, <1>8 DEF Sound, LiveOK, BondsOwned
<1>10. CashHeld(v) = 0
  <2> DEFINE f == [i \in Seats |-> SeatCash(v.seats[i])]
  <2>1. \A i \in 1..NSeats : f[i] = 0
    BY <1>2 DEF SeatCash, BondOf, Seats
  <2>2. CashHeld(v) = Sum(f, NSeats)
    BY DEF CashHeld
  <2> HIDE DEF f
  <2>3. QED
    BY <1>1, <2>1, <2>2, SumZeros
<1>11. \A x \in Outcomes : Supply(v, x) = 0
  <2> SUFFICES ASSUME NEW x \in Outcomes PROVE Supply(v, x) = 0
    OBVIOUS
  <2> DEFINE f == [i \in Seats |-> Lots(v.seats[i], x)]
  <2>1. \A i \in 1..NSeats : f[i] = 0
    BY <1>2 DEF Lots, Seats
  <2>2. Supply(v, x) = Sum(f, NSeats)
    BY DEF Supply
  <2> HIDE DEF f
  <2>3. QED
    BY <1>1, <2>1, <2>2, SumZeros
<1>12. v.backing = 0
  BY DEF InitialVenue, v
<1>13. QED
  BY <1>9, <1>10, <1>11, <1>12 DEF Paired, v

\* The invariant holds at listing.
LEMMA InitHolds == Init => IInv
<1> SUFFICES ASSUME Init PROVE IInv
  OBVIOUS
<1>1. /\ venue = InitialVenue /\ work = venue /\ phase = "idle"
      /\ mvault = 0 /\ donated = 0 /\ residue = 0
      /\ mode = "Normal" /\ now = 0 /\ result = "open"
      /\ released = FALSE /\ closed = FALSE
  BY DEF Init
<1>2. Scalars
  BY <1>1 DEF Scalars, Modes, Results
<1>3. Sound(venue) /\ Paired(venue) /\ CashHeld(venue) = 0 /\ venue.backing = 0
  BY <1>1, InitialSound
<1>4. PairsBacked /\ Solvency
  <2>1. ~Terminal
    BY <1>1 DEF Terminal
  <2>2. venue.backing * PairTicks = 0
    BY <1>3, GridAssumption
  <2>3. Owed(venue) = 0
    BY <1>3, <2>1, <2>2 DEF Owed
  <2>4. QED
    BY <1>1, <1>3, <2>3 DEF PairsBacked, Solvency
<1>5. QED
  BY <1>1, <1>2, <1>3, <1>4 DEF IInv

\* Every step keeps the invariant.
LEMMA NextKeeps == IInv /\ [Next]_vars => IInv'
<1> SUFFICES ASSUME IInv, [Next]_vars PROVE IInv'
  OBVIOUS
<1>1. ASSUME NEW a \in Owners, NEW i \in Seats, WalletStep(a, i) PROVE IInv'
  <2>1. ASSUME NEW o \in OrderArgs, PlaceBegin(a, i, o) PROVE IInv'
    BY <2>1, PlaceBeginKeeps
  <2>2. ASSUME NEW q \in MintLots, NEW c \in BOOLEAN, MintSet(a, i, q, c) PROVE IInv'
    BY <2>2, MintSetKeeps
  <2>3. QED
    BY <1>1, <2>1, <2>2 DEF WalletStep
<1>2. ASSUME NEW i \in Seats, SeatStep(i) PROVE IInv'
  <2>1. ASSUME NEW H \in HandleSets, NEW w \in BOOLEAN, CancelOrders(i, H, w) PROVE IInv'
    BY <2>1, CancelOrdersKeeps
  <2>2. ASSUME NEW m \in 0..NNodes, NEW w \in BOOLEAN, CancelAll(i, m, w) PROVE IInv'
    BY <2>2, CancelAllKeeps
  <2>3. ASSUME NEW n \in Nodes, NEW q \in 0..venue.nodes[n].lots, ReduceOrder(i, n, q) PROVE IInv'
    BY <2>3, ReduceOrderKeeps
  <2>4. ASSUME NEW q \in MintLots, NEW w \in BOOLEAN, MergeSet(i, q, w) PROVE IInv'
    BY <2>4, MergeSetKeeps
  <2>5. ASSUME NEW c \in 0..MaxCash, WithdrawCredit(i, c) PROVE IInv'
    BY <2>5, WithdrawCreditKeeps
  <2>6. ASSUME RedeemFull(i) PROVE IInv'
    BY <2>6, RedeemFullKeeps
  <2>7. ASSUME NEW x \in Outcomes, NEW q \in 0..venue.seats[i].free[x], RedeemPartial(i, x, q) PROVE IInv'
    BY <2>7, RedeemPartialKeeps
  <2>8. QED
    BY <1>2, <2>1, <2>2, <2>3, <2>4, <2>5, <2>6, <2>7 DEF SeatStep, UserRedeem, RedeemFor
<1>3. ASSUME PlaceStep PROVE IInv'
  <2>1. ASSUME WalkStep PROVE IInv'
    BY <2>1, EvictExpiredKeeps, WalkOnKeeps, CancelOwnMakerKeeps, FillKeeps DEF WalkStep
  <2>2. QED
    BY <1>3, <2>1, PlaceRefusedKeeps, PlaceRestKeeps, PlaceDoneKeeps DEF PlaceStep
<1>4. ASSUME Crank PROVE IInv'
  <2>1. ASSUME NEW m \in 1..MaxRemoved, SweepExpired(m) PROVE IInv'
    BY <2>1, SweepExpiredKeeps
  <2>2. ASSUME NEW k \in 1..GrowMax, GrowLedger(k) PROVE IInv'
    BY <2>2, GrowLedgerKeeps
  <2>3. QED
    BY <1>4, <2>1, <2>2, ReleaseBookKeeps, CloseLedgerKeeps DEF Crank
<1>5. ASSUME Environment PROVE IInv'
  BY <1>5, TickKeeps, DonateKeeps, SetModeKeeps, ResolveKeeps DEF Environment
<1>6. ASSUME UNCHANGED vars PROVE IInv'
  BY <1>6, StutterKeeps
<1>7. QED
  BY <1>1, <1>2, <1>3, <1>4, <1>5, <1>6 DEF Next

\* The inductive invariant holds in every behaviour of a Window.
THEOREM InvariantHolds == Spec => []IInv
<1>1. Init => IInv
  BY InitHolds
<1>2. IInv /\ [Next]_vars => IInv'
  BY NextKeeps
<1>3. QED
  BY <1>1, <1>2, PTL DEF Spec

\* No balance, counter or budget ever leaves its unsigned type: no checked subtraction of the
\* exchange can fail, whatever is placed, filled, evicted, cancelled, merged and redeemed.
THEOREM TypeOKHolds == Spec => []TypeOK
<1>1. IInv => TypeOK
  BY DEF IInv, Scalars, Sound, Matching, TypeOK
<1>2. QED
  BY <1>1, InvariantHolds, PTL

\* The mvault holds to the unit what the seats are owed and what was donated, before and after the
\* result.
THEOREM SolvencyHolds == Spec => []Solvency
<1>1. IInv => Solvency
  BY DEF IInv
<1>2. QED
  BY <1>1, InvariantHolds, PTL

\* Until the result there are as many lots of YES as of NO as backed pairs.
THEOREM PairsBackedHolds == Spec => []PairsBacked
<1>1. IInv => PairsBacked
  BY DEF IInv
<1>2. QED
  BY <1>1, InvariantHolds, PTL

\* A seat's locked cash, locked lots and open orders are exactly those of its orders on the book.
THEOREM EscrowMatchesBookHolds == Spec => []EscrowMatchesBook
<1>1. IInv => EscrowMatchesBook
  BY DEF IInv, Sound, EscrowMatchesBook
<1>2. QED
  BY <1>1, InvariantHolds, PTL
============================================================================
