------------------------------ MODULE MCVenue ------------------------------
(***************************************************************************)
(* Instances of Venue for TLC.                                             *)
(***************************************************************************)
EXTENDS Venue, TLC

CONSTANTS ann, bob, prog, nobody

MCOwners == {ann, bob}
MCNoAuthorities == <<>>
Wallets == Permutations({ann, bob})
Handles == {{<<n, s>>} : n \in Nodes, s \in 0..(MaxOrders - 1)}

\* An order with the fields no run varies at their usual values.
Order(k, t, p, q) ==
  [kind |-> k, type |-> t, selfMatch |-> "CancelMaker", price |-> p, lots |-> q, expire |-> 1,
   maxFills |-> 2, maxEvictions |-> 1, useCredit |-> TRUE, withdraw |-> FALSE]

-----------------------------------------------------------------------------
(* Lifecycle: a product authority with its reserved seat and a wallet,     *)
(* from listing to the closing of the ledger, with every instruction.      *)

LifecycleOwners == {ann, prog}
ProductSeat == <<prog>>
LifecycleOrders ==
  {[Order(k, t, 2, 1) EXCEPT !.expire = 3] : k \in Kinds, t \in {"Normal", "PostOnly"}}
    \cup {[Order("BuyYes", "PostOnly", 2, 2) EXCEPT !.expire = 3]}

-----------------------------------------------------------------------------
(* Closing: once the result is in, cranks empty the book and the ledger.   *)

\* The settler sweeps, redeems wallets' seats and closes the ledger in every pass; a product redeems
\* its own seat; a transaction ends.  Nothing makes a wallet act.
ClosingFairness ==
  /\ WF_vars(PlaceStep)
  /\ WF_vars(SweepExpired(MaxRemoved))
  /\ \A i \in Seats : WF_vars(RedeemFor(i)) /\ WF_vars(venue.seats[i].program /\ UserRedeem(i))
  /\ WF_vars(CloseLedger)

\* One node holds one order and none expires before the lock, so that no walk meets an expired order or
\* a second one: those arms of it are left to the trading instance.
ShortWalk == \E n \in Nodes : CancelOwnMaker(n) \/ Fill(n)
LifecycleNext ==
  \/ \E a \in Owners, i \in Seats : WalletStep(a, i)
  \/ \E i \in Seats : SeatStep(i)
  \/ ShortWalk \/ PlaceRefused \/ (\E n \in Nodes : PlaceRest(n)) \/ PlaceDone
  \/ Crank \/ Environment

ClosingSpec == Init /\ [][LifecycleNext]_vars /\ ClosingFairness

\* A Window with a result always gets its ledger closed, whatever rested, whoever holds seats and
\* however early the void came: no resting order, balance or bond can block it for ever.
LedgerCloses == Terminal ~> closed
============================================================================
