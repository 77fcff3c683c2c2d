------------------------------- MODULE Maker -------------------------------
(***************************************************************************)
(* The maker vault (the agari-maker program): providers pool collateral    *)
(* for shares, one maker key rests two-sided post-only quotes with it on   *)
(* many Windows, and anyone may merge and settle what they became.         *)
(*                                                                         *)
(* Each instruction is one transaction.  Of the exchange only the vault's  *)
(* own seat on each Window is kept: what it rests, what it holds and the   *)
(* credit it can reuse.  Other wallets appear as Fill, the venue's         *)
(* removals as Release, the Window's clock as Lock and Resolve, and the    *)
(* end of its Ledger as CloseLedger.  Cash is counted in cash units, so a  *)
(* pair is worth PairTicks per lot.                                        *)
(***************************************************************************)
EXTENDS Summation, FiniteSets

CONSTANTS
  NumWindows, NumProviders, \* how many of each
  PairTicks,                \* PAIR_TICKS
  Bps,                      \* the denominator of max_exposure_bps
  ParamSets,                \* the MakerParams an admin chooses among
  Amounts,                  \* what a provider supplies at once
  MaxSupplied, MaxQuotes    \* bounds: tokens ever supplied, quotes per Window

Windows == 1..NumWindows
Providers == 1..NumProviders
Prices == 1..(PairTicks - 1)
Outcomes == {"yes", "no"}
Results == Outcomes \cup {"void"}
Phases == {"trading", "locked", "closed"} \cup Results
Params ==
  [exposure : 0..Bps, minSpread : Nat, minPrice : Nat, maxPrice : Nat,
   maxLots : Nat, maxWindow : Nat, maxOpen : Nat]

ASSUME MakerAssumption ==
  /\ {NumWindows, NumProviders} \subseteq Nat
  /\ PairTicks \in Nat /\ PairTicks % 2 = 0 /\ PairTicks > 1
  /\ Bps \in Nat \ {0}
  /\ ParamSets \subseteq Params /\ ParamSets # {}
  /\ Amounts \subseteq Nat
  /\ {MaxSupplied, MaxQuotes} \subseteq Nat

VARIABLES
  custody,   \* tokens of the vault's own account
  vault,     \* MakerVault: deployed_base, supply_shares, open_windows, paused, params
  position,  \* Provider accounts
  book,      \* WindowBook records
  seat,      \* the vault's seat on each Window
  market     \* each Window's phase, "closed" once its Ledger is gone

vars == <<custody, vault, position, book, seat, market>>

-----------------------------------------------------------------------------
(* Amounts.                                                                *)

SatSub(a, b) == IF a > b THEN a - b ELSE 0

\* WindowBook::deployed_base, floored at every subtraction.
DeployedBase(b) == SatSub(SatSub(SatSub(b.out, b.back), b.merged), b.payout)

\* MakerVault::total_value_base.
TotalValue == custody + vault.deployed

\* A leg is the outcome it buys at a YES price; the ask buys NO.
Legs == Outcomes \X Prices
OwnTicks(leg) == IF leg[1] = "yes" THEN leg[2] ELSE PairTicks - leg[2]
EscrowAt(resting, p) == resting[<<"yes", p>>] * p + resting[<<"no", p>>] * (PairTicks - p)
Escrow(resting) == Sum([p \in Prices |-> EscrowAt(resting, p)], PairTicks - 1)
OpenOrders(s) == {leg \in Legs : s.resting[leg] > 0}

\* What a lot of outcome x pays once the result is r.
LotPays(x, r) == IF r = "void" THEN PairTicks \div 2 ELSE IF x = r THEN PairTicks ELSE 0

NoOrders == [leg \in Legs |-> 0]
EmptySeat == [credit |-> 0, resting |-> NoOrders, lots |-> [x \in Outcomes |-> 0]]

-----------------------------------------------------------------------------
Init ==
  /\ custody = 0
  /\ \E p \in ParamSets :
       vault = [deployed |-> 0, shares |-> 0, open |-> 0, paused |-> FALSE, params |-> p]
  /\ position = [a \in Providers |-> [shares |-> 0, supplied |-> 0, withdrawn |-> 0]]
  /\ book = [w \in Windows |-> [out |-> 0, back |-> 0, merged |-> 0, payout |-> 0,
                                quotes |-> 0, settled |-> FALSE]]
  /\ seat = [w \in Windows |-> EmptySeat]
  /\ market = [w \in Windows |-> "trading"]

-----------------------------------------------------------------------------
(* Providers.                                                              *)

\* mutant: shares round up, against those already in
SharesRoundedUp(amount) ==
  IF vault.shares = 0 \/ TotalValue = 0 THEN amount
  ELSE (amount * vault.shares + TotalValue - 1) \div TotalValue
SharesFor(amount) ==
  IF vault.shares = 0 \/ TotalValue = 0 THEN amount
  ELSE (amount * vault.shares) \div TotalValue

Supplied == Sum([a \in Providers |-> position[a].supplied], NumProviders)

Supply(a, amount) ==
  LET shares == SharesFor(amount)
  IN  /\ ~vault.paused
      /\ amount > 0 /\ shares > 0
      /\ Supplied + amount <= MaxSupplied
      /\ custody' = custody + amount
      /\ position' = [position EXCEPT ![a].shares = @ + shares, ![a].supplied = @ + amount]
      /\ vault' = [vault EXCEPT !.shares = @ + shares]
      /\ UNCHANGED <<book, seat, market>>

Withdraw(a, shares) ==
  LET amount == (shares * TotalValue) \div vault.shares
  IN  /\ shares \in 1..position[a].shares
      /\ vault.shares > 0
      /\ amount > 0 /\ amount <= custody
      /\ custody' = custody - amount
      /\ position' = [position EXCEPT ![a].shares = @ - shares, ![a].withdrawn = @ + amount]
      /\ vault' = [vault EXCEPT !.shares = @ - shares]
      /\ UNCHANGED <<book, seat, market>>

-----------------------------------------------------------------------------
(* The maker.                                                              *)

WithinParams(bid, ask, q) ==
  /\ q \in 1..vault.params.maxLots
  /\ ask > bid /\ ask - bid >= vault.params.minSpread
  /\ bid >= vault.params.minPrice /\ ask <= vault.params.maxPrice

\* A post-only leg that meets the vault's own other side is refused.
MeetsItself(s, bid, ask) ==
  \E leg \in OpenOrders(s) :
     \/ leg[1] = "no" /\ leg[2] <= bid
     \/ leg[1] = "yes" /\ leg[2] >= ask

\* mutant: what credit paid for is counted as leaving custody again
DeployedAtCost(cost, out) == vault.deployed + cost
DeployedAfter(cost, out) == vault.deployed + out

\* Both legs draw on the seat's credit first; only the rest leaves custody.
Quote(w, bid, ask, q) ==
  LET first == book[w].quotes = 0
      cost == q * (bid + PairTicks - ask)
      out == SatSub(cost, seat[w].credit)
      record == [book[w] EXCEPT !.out = @ + out, !.quotes = @ + 1]
      deployed == DeployedAfter(cost, out)
  IN  /\ ~vault.paused
      /\ WithinParams(bid, ask, q)
      /\ market[w] = "trading"
      /\ first => vault.open < vault.params.maxOpen
      /\ ~MeetsItself(seat[w], bid, ask)
      /\ out <= custody
      /\ DeployedBase(record) <= vault.params.maxWindow
      /\ deployed <= (TotalValue * vault.params.exposure) \div Bps
      /\ book[w].quotes < MaxQuotes
      /\ custody' = custody - out
      /\ book' = [book EXCEPT ![w] = record]
      /\ vault' = [vault EXCEPT !.deployed = deployed, !.open = IF first THEN @ + 1 ELSE @]
      /\ seat' = [seat EXCEPT ![w].credit = SatSub(@, cost),
                              ![w].resting[<<"yes", bid>>] = @ + q,
                              ![w].resting[<<"no", ask>>] = @ + q]
      /\ UNCHANGED <<position, market>>

\* mutant: only the cancelled escrow is booked, not the credit swept with it
BookedEscrow(credit, escrow) == escrow
BookedReturn(credit, escrow) == credit + escrow

\* The maker at any time, anyone from lock_at on.  The scan is capped, so it may reach only some orders;
\* the seat's credit is swept with what they free.  Every instruction on a Window loads its Ledger.
Pull(w, reached) ==
  LET resting == seat[w].resting
      escrow == Escrow([leg \in Legs |-> IF leg \in reached THEN resting[leg] ELSE 0])
      returned == BookedReturn(seat[w].credit, escrow)
  IN  /\ book[w].quotes > 0
      /\ market[w] # "closed"
      /\ custody' = custody + seat[w].credit + escrow
      /\ book' = [book EXCEPT ![w].back = @ + returned]
      /\ vault' = [vault EXCEPT !.deployed = SatSub(@, returned)]
      /\ seat' = [seat EXCEPT ![w].credit = 0,
                              ![w].resting = [leg \in Legs |-> IF leg \in reached THEN 0 ELSE resting[leg]]]
      /\ UNCHANGED <<position, market>>

-----------------------------------------------------------------------------
(* The cranks, for anyone.                                                 *)

\* A complete set is merged into credit and the whole credit is swept.
Merge(w, q) ==
  LET returned == seat[w].credit + q * PairTicks
  IN  /\ book[w].quotes > 0 /\ ~book[w].settled
      /\ market[w] = "trading"
      /\ q > 0 /\ \A x \in Outcomes : seat[w].lots[x] >= q
      /\ custody' = custody + returned
      /\ book' = [book EXCEPT ![w].merged = @ + returned]
      /\ vault' = [vault EXCEPT !.deployed = SatSub(@, returned)]
      /\ seat' = [seat EXCEPT ![w].credit = 0, ![w].lots = [x \in Outcomes |-> seat[w].lots[x] - q]]
      /\ UNCHANGED <<position, market>>

\* mutant: a settled Window may be settled again
NotSettledTwice(w) == TRUE
NotYetSettled(w) == ~book[w].settled

\* mutant: a voided Window is not a settled one
ResolvedOnly(w) == market[w] \in Outcomes
IsSettled(w) == market[w] \in Results

RestsNothing(s) == OpenOrders(s) = {}

\* What the record still shows once the payout is in is written off.
Settle(w) ==
  LET s == seat[w]
      returned == s.credit + s.lots["yes"] * LotPays("yes", market[w])
                           + s.lots["no"] * LotPays("no", market[w])
      record == [book[w] EXCEPT !.payout = @ + returned, !.settled = TRUE]
  IN  /\ book[w].quotes > 0 /\ NotYetSettled(w)
      /\ IsSettled(w)
      /\ RestsNothing(s)
      /\ custody' = custody + returned
      /\ book' = [book EXCEPT ![w] = record]
      /\ vault' = [vault EXCEPT !.deployed = SatSub(SatSub(@, returned), DeployedBase(record)),
                                !.open = SatSub(@, 1)]
      /\ seat' = [seat EXCEPT ![w].credit = 0, ![w].lots = EmptySeat.lots]
      /\ UNCHANGED <<position, market>>

SetParams(p, paused) ==
  /\ vault' = [vault EXCEPT !.params = p, !.paused = paused]
  /\ UNCHANGED <<custody, position, book, seat, market>>

-----------------------------------------------------------------------------
(* The venue around the seat.                                              *)

Fill(w, leg, q) ==
  /\ market[w] = "trading" /\ q \in 1..seat[w].resting[leg]
  /\ seat' = [seat EXCEPT ![w].resting[leg] = @ - q, ![w].lots[leg[1]] = @ + q]
  /\ UNCHANGED <<custody, vault, position, book, market>>

\* An order expires and is evicted by a walk, or a sweep removes it: its escrow becomes credit.
Release(w, leg, q) ==
  /\ q \in 1..seat[w].resting[leg]
  /\ seat' = [seat EXCEPT ![w].resting[leg] = @ - q, ![w].credit = @ + q * OwnTicks(leg)]
  /\ UNCHANGED <<custody, vault, position, book, market>>

Lock(w) ==
  /\ market[w] = "trading"
  /\ market' = [market EXCEPT ![w] = "locked"]
  /\ UNCHANGED <<custody, vault, position, book, seat>>

\* An early void needs no lock.
Resolve(w, r) ==
  /\ market[w] = "locked" \/ (market[w] = "trading" /\ r = "void")
  /\ market' = [market EXCEPT ![w] = r]
  /\ UNCHANGED <<custody, vault, position, book, seat>>

\* The settler closes the Ledger of a decided Window once every seat is drained, the vault's record settled
\* or not; what the other seats hold is left open.  From then on no instruction of the vault reaches the Window.
CloseLedger(w) ==
  /\ market[w] \in Results
  /\ seat[w] = EmptySeat
  /\ market' = [market EXCEPT ![w] = "closed"]
  /\ UNCHANGED <<custody, vault, position, book, seat>>

ProviderStep == \E a \in Providers :
  \/ \E amount \in Amounts : Supply(a, amount)
  \/ \E shares \in 1..position[a].shares : Withdraw(a, shares)
VaultStep == \E w \in Windows :
  \/ \E bid, ask \in Prices, q \in 1..vault.params.maxLots : Quote(w, bid, ask, q)
  \/ \E reached \in SUBSET OpenOrders(seat[w]) : Pull(w, reached)
  \/ \E q \in 1..seat[w].lots["yes"] : Merge(w, q)
  \/ Settle(w)
VenueStep == \E w \in Windows :
  \/ \E leg \in Legs : \E q \in 1..seat[w].resting[leg] : Fill(w, leg, q) \/ Release(w, leg, q)
  \/ Lock(w)
  \/ \E r \in Results : Resolve(w, r)
  \/ CloseLedger(w)
AdminStep == \E p \in ParamSets, paused \in BOOLEAN : SetParams(p, paused)

Next == ProviderStep \/ VaultStep \/ VenueStep \/ AdminStep
Spec == Init /\ [][Next]_vars

-----------------------------------------------------------------------------
(* What the vault promises.                                                *)

\* Every account keeps the shape its layout gives it.
TypeOK ==
  /\ custody \in Nat
  /\ vault \in [deployed : Nat, shares : Nat, open : Nat, paused : BOOLEAN, params : ParamSets]
  /\ position \in [Providers -> [shares : Nat, supplied : Nat, withdrawn : Nat]]
  /\ book \in [Windows -> [out : Nat, back : Nat, merged : Nat, payout : Nat, quotes : Nat, settled : BOOLEAN]]
  /\ seat \in [Windows -> [credit : Nat, resting : [Legs -> Nat], lots : [Outcomes -> Nat]]]
  /\ market \in [Windows -> Phases]

BroughtIn == [a \in Providers |-> position[a].supplied - position[a].withdrawn]
StillOut == [w \in Windows |-> book[w].out - book[w].back - book[w].merged - book[w].payout]

\* Custody and the Window records tell the same story: what providers brought in and have not taken out
\* is in custody or went out to a Window and has not come back, however quotes, credit, merges and
\* redemptions mixed.  A return booked short or twice breaks it.
EveryTokenIsAccounted ==
  custody = Sum(BroughtIn, NumProviders) - Sum(StillOut, NumWindows)

UnsettledWindows == {w \in Windows : book[w].quotes > 0 /\ ~book[w].settled}

\* open_windows, which caps how many Windows the maker may quote, counts the Windows with an unsettled
\* record: one settled twice would free a slot it never took.
OpenWindowsAreCounted ==
  vault.open = Cardinality(UnsettledWindows)

\* A Window leaves the books only with nothing of the vault's left on it, and stays that way: no resting
\* order can fill and no refund can land after the record is closed.
SettledWindowIsEmpty == \A w \in Windows : book[w].settled => seat[w] = EmptySeat

\* Resting a quote moves money between custody and the venue without moving the value shares are priced
\* at, whatever part of it the seat's credit paid.
QuoteNeverMovesTheClaim ==
  [][(\E w \in Windows : book'[w].quotes > book[w].quotes) => TotalValue' = TotalValue]_vars

\* Neither joining nor leaving takes value from those who stay: while shares are worth something, a
\* supply or a withdrawal never lowers what the remaining shares are worth.
SharesKeepTheirWorth ==
  [][vault'.shares # vault.shares /\ vault.shares > 0 /\ TotalValue > 0
       => TotalValue' * vault.shares >= TotalValue * vault'.shares]_vars

\* "Whatever the venue still shows against this Window is gone with it": once every Window the vault
\* quoted is settled, nothing is deployed.
NothingDeployedOnceSettled == vault.open = 0 => vault.deployed = 0
============================================================================
