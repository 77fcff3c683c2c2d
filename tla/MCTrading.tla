------------------------------ MODULE MCTrading ------------------------------
(***************************************************************************)
(* One instance of Venue that trades in one of two ways.  At time 0 two    *)
(* wallets match on an open book where nothing expires; if time moves on   *)
(* before anybody has traded, the walk meets expired orders and its caps,  *)
(* and wallets reduce and cancel by handle.                                *)
(***************************************************************************)
EXTENDS MCVenue, VenueHandles

Matching == now = 0

MatchingOrders ==
  {Order(k, "Normal", p, q) : k \in Kinds, p \in {1, 2}, q \in {1, 2}}
    \cup {Order(k, "Fok", 2, 1) : k \in {"BuyNo", "SellYes"}}

ExpiryOrders ==
  LET Capped(k, t, q) == [Order(k, t, 2, q) EXCEPT !.maxFills = 1, !.expire = 3]
      Sides == {"BuyYes", "BuyNo"}
  IN  UNION {{[Capped(k, "Normal", 1) EXCEPT !.expire = 2],
              [Capped(k, "Normal", 1) EXCEPT !.maxEvictions = 0],
              Capped(k, "Normal", 2),
              [Capped(k, "PostOnly", 1) EXCEPT !.maxEvictions = 0],
              [Capped(k, "Ioc", 1) EXCEPT !.selfMatch = "CancelTaker"]} : k \in Sides}

TradingOrders == MatchingOrders \cup ExpiryOrders

\* Which free node is taken matters to handles alone, and at time 0 nobody uses one.
FirstFree(n) == \A m \in Nodes : m < n => work.nodes[m].live

\* Every step keeps the history of spent handles; the arms of the walk are listed one by one.
TradingNext ==
  \/ \E a \in Owners, i \in Seats, o \in IF Matching THEN MatchingOrders ELSE ExpiryOrders :
       PlaceBegin(a, i, o) /\ Retire
  \/ \E n \in Nodes :
       \/ EvictExpired(n) /\ Retire
       \/ SkipExpired(n) /\ Retire
       \/ StopAtFillCap(n) /\ Retire
       \/ CancelOwnMaker(n) /\ Retire
       \/ Fill(n) /\ Retire
       \/ (Matching => FirstFree(n)) /\ PlaceRest(n) /\ Retire
  \/ PlaceRefused /\ Retire
  \/ PlaceDone /\ Retire
  \/ \E a \in Owners, i \in Seats, q \in IF Matching THEN MintLots ELSE {}, c \in BOOLEAN : MintSet(a, i, q, c) /\ Retire
  \/ \E i \in IF Matching THEN Seats ELSE {} : CancelAll(i, NNodes, FALSE) /\ Retire
  \/ \E i \in Seats, H \in IF Matching THEN {} ELSE HandleSets : CancelOrders(i, H, TRUE) /\ Retire
  \/ \E i \in IF Matching THEN {} ELSE Seats, n \in Nodes :
       \E q \in 0..venue.nodes[n].lots : ReduceOrder(i, n, q) /\ Retire
  \/ \E m \in IF Matching THEN {} ELSE 1..MaxRemoved : SweepExpired(m) /\ Retire
  \/ (Matching => venue = InitialVenue) /\ Tick /\ Retire

TradingSpec == HandlesInit /\ [][TradingNext]_<<vars, spent>>
============================================================================
