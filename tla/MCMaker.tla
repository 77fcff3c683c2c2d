------------------------------ MODULE MCMaker ------------------------------
(***************************************************************************)
(* Instances of Maker for TLC.                                             *)
(***************************************************************************)
EXTENDS Maker

Wide == [exposure |-> 10, minSpread |-> 1, minPrice |-> 1, maxPrice |-> 3,
         maxLots |-> 1, maxWindow |-> 4, maxOpen |-> 2]
OneSpread == [Wide EXCEPT !.minSpread = 2]
Tight == [Wide EXCEPT !.exposure = 5, !.minSpread = 2, !.maxOpen = 1]
WideOrTight == {Wide, Tight}
OnlyWide == {Wide}

-----------------------------------------------------------------------------
(* Trading: the params stay as they were set.                              *)

TradingNext == ProviderStep \/ VaultStep \/ VenueStep
TradingSpec == Init /\ [][TradingNext]_vars

-----------------------------------------------------------------------------
(* Closing: who empties the vault's Windows.                               *)

\* The settler drains a Window's book once it stopped trading.
Drain(w) == market[w] # "trading" /\ \E leg \in OpenOrders(seat[w]) : Release(w, leg, seat[w].resting[leg])

\* The maker actor's cycle returns before it tends its open Windows while the vault is paused.
ActorSettle(w) == ~vault.paused /\ Settle(w)
ActorFairness == \A w \in Windows : WF_vars(Drain(w)) /\ WF_vars(ActorSettle(w))

ClosingSpec == Spec /\ ActorFairness

\* A closed Ledger ends the race to settle: a record it finds unsettled stays so.
OutOfReach(w) == book[w].settled \/ market[w] = "closed"

\* Once the venue has resolved or voided a Window the vault quoted, all the vault has on its seat comes into
\* custody and its record is settled, whatever rested or was held, unless a pause stops the settling or the
\* Ledger, its seats drained, closes before the record is settled.
CapitalComesHome ==
  \A w \in Windows :
    book[w].quotes > 0 /\ market[w] \in Results ~> (seat[w] = EmptySeat /\ OutOfReach(w)) \/ vault.paused

\* The maker actor logs "the vault is paused; tending open Windows only": a Window the venue settled
\* while the vault is paused is settled, unless its Ledger closes or the pause ends first.
PausedCapitalComesHome ==
  \A w \in Windows :
    vault.paused /\ book[w].quotes > 0 /\ market[w] \in Results ~> OutOfReach(w) \/ ~vault.paused
============================================================================
