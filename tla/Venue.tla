------------------------------- MODULE Venue -------------------------------
(***************************************************************************)
(* One Window of the exchange (the agari-events program): its book, its    *)
(* ledger of seats, the backing of its outcome pairs, the token account    *)
(* (mvault) that holds the collateral, and every instruction that touches  *)
(* them between listing and the closing of the ledger.                     *)
(*                                                                         *)
(* An instruction is one Solana transaction: it holds write locks on the   *)
(* accounts it names and either commits or leaves no trace.  All of them   *)
(* are single steps except user_place_order, whose match loop is run one   *)
(* visited order at a time on `work`, the account bytes being mutated,     *)
(* until it commits `work` to `venue` or is refused and drops it.          *)
(*                                                                         *)
(* Cash is counted in cash units (every amount the code moves is           *)
(* lots x ticks x cash_unit), so one pair costs PairTicks.  A seat's       *)
(* outcome fields yes_free, no_free, ... are free["yes"], free["no"], ...  *)
(* A node index is 1-based here.  Which free node alloc returns is left    *)
(* open: nothing below depends on it.                                      *)
(***************************************************************************)
EXTENDS Integers, FiniteSets, Summation

CONSTANTS
  Owners,          \* wallets and product authorities
  NoOwner,         \* Pubkey::default(): the owner of an empty seat
  Authorities,     \* [1..k -> Owners \cup {NoOwner}]: the product authorities seated at open
  NSeats,          \* most seats a ledger grows to (LEDGER_MAX_SEATS)
  InitialSeats,    \* LEDGER_INITIAL_SEATS
  GrowMax,         \* LEDGER_GROW_MAX
  NNodes,          \* order nodes of the book
  PairTicks,       \* ticks of one YES + NO pair (PAIR_TICKS)
  SeatBond,        \* refundable bond of a claimed seat
  MinLots,         \* smallest order of the Series
  FillsCap,        \* most fills + self-cancels a placement may ask for
  EvictionsCap,    \* most evictions a placement may ask for
  MaxSkips,        \* expired orders skipped before the walk stops (MAX_SKIPS)
  MaxOpenOrders,   \* MAX_OPEN_ORDERS_PER_SEAT
  MaxHandles,      \* MAX_CANCEL_HANDLES
  MaxRemoved,      \* MAX_REMOVED_PER_CALL
  TradingStart, OpenDeadline, LockAt, Expiry,   \* the Window's clock
  OrderArgs,       \* the arguments wallets send to user_place_order
  HandleSets,      \* the (node, seq) handles they send to user_cancel_orders
  MintLots,        \* the lots they send to the complete-set instructions
  MaxTime, MaxOrders, MaxCash, MaxDonations     \* bounds of the exploration

Outcomes == {"yes", "no"}
Kinds == {"BuyYes", "SellYes", "BuyNo", "SellNo"}
OrderTypes == {"Normal", "Fok", "Ioc", "PostOnly"}
Modes == {"Normal", "ReduceOnly", "Halted"}
Results == {"open", "yes", "no", "void"}
Seats == 1..NSeats
Nodes == 1..NNodes

OrderArg ==
  [kind : Kinds, type : OrderTypes, selfMatch : {"CancelTaker", "CancelMaker"},
   price : Nat, lots : Nat, expire : Nat, maxFills : Nat, maxEvictions : Nat,
   useCredit : BOOLEAN, withdraw : BOOLEAN]

ASSUME SizesAssumption ==
  /\ NSeats \in Nat /\ NNodes \in Nat
  /\ InitialSeats \in Nat /\ InitialSeats <= NSeats
  /\ NoOwner \notin Owners
  /\ \E k \in 0..InitialSeats :
       /\ Authorities \in [1..k -> Owners \cup {NoOwner}]
       /\ \A i, j \in 1..k : Authorities[i] = Authorities[j] /\ i # j => Authorities[i] = NoOwner

ASSUME GridAssumption ==
  /\ PairTicks \in Nat /\ PairTicks > 1 /\ PairTicks % 2 = 0
  /\ SeatBond \in Nat
  /\ MinLots \in Nat \ {0}

ASSUME CapsAssumption ==
  /\ {FillsCap, EvictionsCap, MaxSkips, MaxOpenOrders, MaxHandles, MaxRemoved, GrowMax} \subseteq Nat
  /\ MaxSkips > 0

ASSUME ClockAssumption ==
  /\ {TradingStart, OpenDeadline, LockAt, Expiry} \subseteq Nat
  /\ TradingStart < LockAt /\ LockAt <= Expiry /\ TradingStart <= OpenDeadline

ASSUME BoundsAssumption ==
  /\ OrderArgs \subseteq OrderArg
  /\ HandleSets \subseteq SUBSET (Nodes \X Nat)
  /\ MintLots \subseteq Nat
  /\ {MaxTime, MaxOrders, MaxCash, MaxDonations} \subseteq Nat

VARIABLES
  venue,        \* the committed accounts: seats, nodes, next_seq, seats_used, capacity, backing_lots
  work,         \* the same accounts inside the running placement; equal to venue between transactions
  phase,        \* "idle" or "match"
  taker,        \* the running placement's arguments and budgets
  mvault,       \* tokens the mvault holds
  donated,      \* tokens sent to the mvault from outside the program
  residue,      \* tokens the closing of the ledger swept to the treasury
  mode,         \* config.mode
  now,          \* the cluster clock
  result,       \* how the Window resolved
  released,     \* MARKET_FLAG_BOOK_RELEASED
  closed        \* MARKET_FLAG_LEDGER_CLOSED

vars == <<venue, work, phase, taker, mvault, donated, residue, mode, now, result, released, closed>>
control == <<donated, residue, mode, now, result, released, closed>>

-----------------------------------------------------------------------------
(* Kinds and prices.                                                       *)

IsBid(k) == k \in {"BuyYes", "SellNo"}
IsBuy(k) == k \in {"BuyYes", "BuyNo"}
Outcome(k) == IF k \in {"BuyYes", "SellYes"} THEN "yes" ELSE "no"

\* A YES kind trades at the YES price p, a NO kind at the complement.
OwnTicksYesPrice(k, p) == p   \* mutant: NO kinds trade at the YES price
OwnTicks(k, p) == IF Outcome(k) = "yes" THEN p ELSE PairTicks - p
CashOf(k, p, q) == q * OwnTicks(k, p)

ValidPrice(p) == p \in 1..(PairTicks - 1)

\* mutant: a burn leaves the backing
BackingKeptOnBurn(takerKind, makerKind, q) == IF IsBuy(takerKind) /\ IsBuy(makerKind) THEN q ELSE 0

\* Both buy: a pair is minted.  Both sell: a pair is burned.
BackingChange(takerKind, makerKind, q) ==
  IF IsBuy(takerKind) /\ IsBuy(makerKind) THEN q
  ELSE IF ~IsBuy(takerKind) /\ ~IsBuy(makerKind) THEN -q
  ELSE 0

-----------------------------------------------------------------------------
(* The accounts.                                                           *)

NoLots == [x \in Outcomes |-> 0]
EmptySeat ==
  [owner |-> NoOwner, program |-> FALSE, bonded |-> FALSE,
   credit |-> 0, lockedCash |-> 0, free |-> NoLots, locked |-> NoLots, openOrders |-> 0]
EmptyNode ==
  [live |-> FALSE, kind |-> "BuyYes", price |-> 0, lots |-> 0, seat |-> 0, seq |-> 0, expire |-> 0]

Seat ==
  [owner : Owners \cup {NoOwner}, program : BOOLEAN, bonded : BOOLEAN,
   credit : Nat, lockedCash : Nat, free : [Outcomes -> Nat], locked : [Outcomes -> Nat],
   openOrders : Nat]
Node ==
  [live : BOOLEAN, kind : Kinds, price : Nat, lots : Nat, seat : Nat, seq : Nat, expire : Nat]
VenueState ==
  [seats : [Seats -> Seat], nodes : [Nodes -> Node], nextSeq : Nat,
   seatsUsed : Nat, capacity : Nat, backing : Nat]

Live(v) == {n \in Nodes : v.nodes[n].live}
LiveOf(v, i) == {n \in Live(v) : v.nodes[n].seat = i}
Expired(v, n) == v.nodes[n].expire <= now

\* What order o escrows: the cash of a buy, the lots of a sell.
CashOfOrder(o) == IF IsBuy(o.kind) THEN CashOf(o.kind, o.price, o.lots) ELSE 0
LotsOfOrder(o, x) == IF ~IsBuy(o.kind) /\ Outcome(o.kind) = x THEN o.lots ELSE 0

\* The total of `amount` over seat i's orders in S; what they escrow, or refund; their number.
Total(v, S, i, amount) ==
  Sum([n \in Nodes |-> IF n \in S /\ v.nodes[n].seat = i THEN amount[n] ELSE 0], NNodes)
EscrowCash(v, S, i) == Total(v, S, i, [n \in Nodes |-> CashOfOrder(v.nodes[n])])
EscrowLots(v, S, i, x) == Total(v, S, i, [n \in Nodes |-> LotsOfOrder(v.nodes[n], x)])
OrderCount(v, S, i) == Total(v, S, i, [n \in Nodes |-> 1])

\* remove_node on every order of S: escrow back to its owner's credit or free lots, node freed.
RemoveNodes(v, S) ==
  [v EXCEPT
    !.nodes = [n \in Nodes |-> IF n \in S THEN EmptyNode ELSE v.nodes[n]],
    !.seats = [i \in Seats |->
      [v.seats[i] EXCEPT
        !.credit = @ + EscrowCash(v, S, i),
        !.lockedCash = @ - EscrowCash(v, S, i),
        !.free = [x \in Outcomes |-> @[x] + EscrowLots(v, S, i, x)],
        !.locked = [x \in Outcomes |-> @[x] - EscrowLots(v, S, i, x)],
        !.openOrders = @ - OrderCount(v, S, i)]]]

RefundEscrow(s, k, p, q) ==
  IF IsBuy(k)
  THEN [s EXCEPT !.lockedCash = @ - CashOf(k, p, q), !.credit = @ + CashOf(k, p, q)]
  ELSE [s EXCEPT !.locked[Outcome(k)] = @ - q, !.free[Outcome(k)] = @ + q]

LockEscrow(s, k, p, q) ==
  IF IsBuy(k)
  THEN [s EXCEPT !.lockedCash = @ + CashOf(k, p, q)]
  ELSE [s EXCEPT !.free[Outcome(k)] = @ - q, !.locked[Outcome(k)] = @ + q]

\* mutant: a filled sell keeps its lots locked
ApplyMakerKeepsLock(s, k, p, q) ==
  IF IsBuy(k)
  THEN [s EXCEPT !.lockedCash = @ - CashOf(k, p, q), !.free[Outcome(k)] = @ + q]
  ELSE [s EXCEPT !.credit = @ + CashOf(k, p, q)]

ApplyMaker(s, k, p, q) ==
  IF IsBuy(k)
  THEN [s EXCEPT !.lockedCash = @ - CashOf(k, p, q), !.free[Outcome(k)] = @ + q]
  ELSE [s EXCEPT !.locked[Outcome(k)] = @ - q, !.credit = @ + CashOf(k, p, q)]

ApplyTaker(s, k, q) ==
  [s EXCEPT !.free[Outcome(k)] = IF IsBuy(k) THEN @ + q ELSE @ - q]

\* reduce_node: shrink in place, keep the queue position, refund the difference.
ReduceNode(v, n, newLots) ==
  LET o == v.nodes[n]
  IN  [v EXCEPT !.nodes[n].lots = newLots,
                !.seats[o.seat] = RefundEscrow(@, o.kind, o.price, o.lots - newLots)]

\* mutant: next_seq is not advanced
RestKeepsSeq(v, n, i, o, lots) ==
  [v EXCEPT
    !.nodes[n] = [live |-> TRUE, kind |-> o.kind, price |-> o.price, lots |-> lots,
                  seat |-> i, seq |-> v.nextSeq, expire |-> o.expire],
    !.seats[i] = [LockEscrow(v.seats[i], o.kind, o.price, lots) EXCEPT !.openOrders = @ + 1]]

\* rest_order: a live order behind every older one, its escrow locked.
RestOrder(v, n, i, o, lots) ==
  [v EXCEPT
    !.nodes[n] = [live |-> TRUE, kind |-> o.kind, price |-> o.price, lots |-> lots,
                  seat |-> i, seq |-> v.nextSeq, expire |-> o.expire],
    !.nextSeq = @ + 1,
    !.seats[i] = [LockEscrow(v.seats[i], o.kind, o.price, lots) EXCEPT !.openOrders = @ + 1]]

\* One fill of q lots of maker order n by seat i.
FillNode(v, n, i, k, q) ==
  LET m == v.nodes[n]
      gone == IF m.lots = q THEN 1 ELSE 0
      maker == [ApplyMaker(v.seats[m.seat], m.kind, m.price, q) EXCEPT !.openOrders = @ - gone]
  IN  [v EXCEPT
        !.nodes[n] = IF m.lots = q THEN EmptyNode ELSE [m EXCEPT !.lots = @ - q],
        !.seats[m.seat] = maker,
        !.seats[i] = ApplyTaker(@, k, q),
        !.backing = @ + BackingChange(k, m.kind, q)]
-----------------------------------------------------------------------------
(* Seats, funding and the Window's status.                                 *)

Terminal == result # "open"
Status ==
  IF Terminal THEN "Terminal"
  ELSE IF now < TradingStart THEN "Listed"
  ELSE IF now < LockAt THEN "Trading"
  ELSE "Locked"

HoldsSeat(v, a) == \E j \in Seats : j <= v.seatsUsed /\ j <= v.capacity /\ v.seats[j].owner = a

\* mutant: an authority may claim a second seat
ResolvesToAnyEmpty(v, a, i) == i <= v.capacity /\ v.seats[i].owner \in {a, NoOwner}

\* resolve_seat: the hinted seat is the authority's, or is empty and the authority holds none.
\* The hint u16::MAX takes the first empty seat, which an explicit hint may name too.
ResolvesTo(v, a, i) ==
  /\ i <= v.capacity
  /\ \/ v.seats[i].owner = a
     \/ v.seats[i].owner = NoOwner /\ ~HoldsSeat(v, a)

Claims(v, i) == v.seats[i].owner = NoOwner

ResolveSeat(v, a, i) ==
  IF Claims(v, i)
  THEN [v EXCEPT !.seats[i].owner = a, !.seats[i].bonded = TRUE,
                 !.seatsUsed = IF i > @ THEN i ELSE @]
  ELSE v

BondFor(claimed) == IF claimed THEN SeatBond ELSE 0

\* owned_seat for whoever owns seat i (the empty key signs nothing).
OwnedSeat(v, i) == i <= v.capacity /\ v.seats[i].owner # NoOwner

\* fund: how much of `need` the seat's credit pays; the rest is pulled from the wallet.
CreditUsed(credit, need, useCredit) ==
  IF ~useCredit THEN 0 ELSE IF credit <= need THEN credit ELSE need

\* sweep_credit, and the whole credit it pays out.
SweepCredit(v, i, withdraw) == IF withdraw THEN [v EXCEPT !.seats[i].credit = 0] ELSE v
Swept(v, i, withdraw) == IF withdraw THEN v.seats[i].credit ELSE 0

-----------------------------------------------------------------------------
(* The match loop.                                                         *)

Opposite(k, n) == IsBid(work.nodes[n].kind) # IsBid(k)
\* mutant: one tick past the limit still crosses
CrossesOneTickPast(k, limit, p) == IF IsBid(k) THEN p <= limit + 1 ELSE p + 1 >= limit
Crosses(k, limit, p) == IF IsBid(k) THEN p <= limit ELSE p >= limit

\* Price, then time, as a taker of kind k meets them.
Precedes(k, a, b) ==
  \/ a.price = b.price /\ a.seq < b.seq
  \/ IF IsBid(k) THEN a.price < b.price ELSE a.price > b.price

\* The opposite orders the walk has still to visit.
Ahead ==
  {n \in Live(work) \ taker.skipped :
     Opposite(taker.order.kind, n) /\ Crosses(taker.order.kind, taker.order.price, work.nodes[n].price)}

\* mutant: any order of the best level, not its oldest
VisitsAnyOfLevel(n) ==
  /\ phase = "match" /\ taker.stop = "none" /\ taker.remaining > 0
  /\ n \in Ahead
  /\ \A m \in Ahead : work.nodes[m].price # work.nodes[n].price
                       => Precedes(taker.order.kind, work.nodes[n], work.nodes[m])

Visits(n) ==
  /\ phase = "match" /\ taker.stop = "none" /\ taker.remaining > 0
  /\ n \in Ahead
  /\ \A m \in Ahead \ {n} : Precedes(taker.order.kind, work.nodes[n], work.nodes[m])

VisitsLive(n) == Visits(n) /\ ~Expired(work, n) /\ taker.order.type # "PostOnly"

Own(n) == work.nodes[n].seat = taker.seat

WalkDone == taker.remaining = 0 \/ taker.stop # "none" \/ Ahead = {}

\* An expired order in the way: evicted while the budget lasts, then skipped.
EvictExpired(n) ==
  /\ Visits(n) /\ Expired(work, n)
  /\ taker.evictions < taker.order.maxEvictions
  /\ work' = RemoveNodes(work, {n})
  /\ taker' = [taker EXCEPT !.evictions = @ + 1]
  /\ UNCHANGED <<venue, phase, mvault, control>>

SkipExpired(n) ==
  /\ Visits(n) /\ Expired(work, n)
  /\ taker.evictions = taker.order.maxEvictions
  /\ taker' = [taker EXCEPT
                 !.skipped = @ \cup {n},
                 !.stop = IF Cardinality(taker.skipped) + 1 = MaxSkips THEN "SkipCap" ELSE @]
  /\ UNCHANGED <<venue, work, phase, mvault, control>>

\* Fills and self-cancels share one budget.
StopAtFillCap(n) ==
  /\ VisitsLive(n)
  /\ Own(n) => taker.order.selfMatch = "CancelMaker"
  /\ taker.used = taker.order.maxFills
  /\ taker' = [taker EXCEPT !.stop = "FillCap"]
  /\ UNCHANGED <<venue, work, phase, mvault, control>>

CancelOwnMaker(n) ==
  /\ VisitsLive(n) /\ Own(n)
  /\ taker.order.selfMatch = "CancelMaker"
  /\ taker.used < taker.order.maxFills
  /\ work' = RemoveNodes(work, {n})
  /\ taker' = [taker EXCEPT !.used = @ + 1]
  /\ UNCHANGED <<venue, phase, mvault, control>>

Fill(n) ==
  LET m == work.nodes[n]
      k == taker.order.kind
      q == IF taker.remaining <= m.lots THEN taker.remaining ELSE m.lots
      cash == CashOf(k, m.price, q)
  IN  /\ VisitsLive(n) /\ ~Own(n)
      /\ taker.used < taker.order.maxFills
      /\ work' = FillNode(work, n, taker.seat, k, q)
      /\ taker' = [taker EXCEPT
                     !.remaining = @ - q,
                     !.used = @ + 1,
                     !.spent = IF IsBuy(k) THEN @ + cash ELSE @,
                     !.received = IF IsBuy(k) THEN @ ELSE @ + cash]
      /\ UNCHANGED <<venue, phase, mvault, control>>

-----------------------------------------------------------------------------
(* user_place_order.                                                       *)

ModeAdmitsSellPath(k) == mode # "Halted"   \* mutant: ReduceOnly refuses nothing
ModeAdmits(k) == mode = "Normal" \/ (mode = "ReduceOnly" /\ ~IsBuy(k))

\* mutant: a Listed Window takes every order type
StatusAdmitsListed(o) == Status \in {"Trading", "Listed"}

\* Listed takes PostOnly quotes alone; Trading takes every type.
StatusAdmits(o) == Status = "Trading" \/ (Status = "Listed" /\ o.type = "PostOnly")

\* check_order, steps 3-7.
OrderAdmitted(o) ==
  /\ StatusAdmits(o)
  /\ o.maxFills \in 1..FillsCap /\ o.maxEvictions \in 0..EvictionsCap
  /\ ValidPrice(o.price)
  /\ o.lots >= MinLots
  /\ now < o.expire /\ o.expire <= LockAt

NoTaker == [seat |-> 0]

Idle == phase = "idle"
BookBound == ~released
LedgerOpen == ~closed

\* A sale is covered by free lots for its whole size, before anything matches.
CoversSale(s, o) == ~IsBuy(o.kind) => s.free[Outcome(o.kind)] >= o.lots

PlaceBegin(a, i, o) ==
  /\ Idle /\ BookBound /\ LedgerOpen
  /\ ModeAdmits(o.kind) /\ OrderAdmitted(o)
  /\ ResolvesTo(venue, a, i)
  /\ CoversSale(venue.seats[i], o)
  /\ o.type = "PostOnly" => venue.seats[i].openOrders < MaxOpenOrders
  /\ phase' = "match"
  /\ work' = ResolveSeat(venue, a, i)
  /\ taker' = [seat |-> i, order |-> o, claimed |-> Claims(venue, i),
               remaining |-> o.lots, spent |-> 0, received |-> 0,
               used |-> 0, evictions |-> 0, skipped |-> {}, stop |-> "none"]
  /\ UNCHANGED <<venue, mvault, control>>

\* A PostOnly order that met a live crossing order, a CancelTaker order that met its own, a FOK with
\* a remainder, an IOC without a fill, a full book, a wallet that can't pay or a transaction that runs
\* out of compute: the error rolls every account back.
PlaceRefused ==
  /\ phase = "match"
  /\ phase' = "idle" /\ work' = venue /\ taker' = NoTaker
  /\ UNCHANGED <<venue, mvault, control>>

Accepted ==
  /\ taker.order.type = "Fok" => taker.remaining = 0
  /\ taker.order.type = "Ioc" => taker.remaining < taker.order.lots
  /\ taker.order.type = "PostOnly" => taker.stop # "SkipCap"

\* mutant: a remainder left by a cap rests too
RestsAfterCap == taker.remaining > 0 /\ taker.order.type \in {"PostOnly", "Normal"}

\* The remainder rests only if the walk ran out of crossing orders.
Rests ==
  /\ taker.remaining > 0
  /\ \/ taker.order.type = "PostOnly"
     \/ taker.order.type = "Normal" /\ taker.stop = "none"

\* Credit the proceeds, fund what is owed credit-first, optionally withdraw, and commit v.
Settle(v, escrow) ==
  LET i == taker.seat
      need == taker.spent + escrow + BondFor(taker.claimed)
      credit == v.seats[i].credit + taker.received
      fromCredit == CreditUsed(credit, need, taker.order.useCredit)
      funded == [v EXCEPT !.seats[i].credit = credit - fromCredit]
  IN  /\ mvault' = mvault + (need - fromCredit) - Swept(funded, i, taker.order.withdraw)
      /\ mvault + (need - fromCredit) <= MaxCash
      /\ venue' = SweepCredit(funded, i, taker.order.withdraw)
      /\ work' = venue'
      /\ phase' = "idle" /\ taker' = NoTaker
      /\ UNCHANGED control

PlaceRest(n) ==
  LET o == taker.order
      escrow == IF IsBuy(o.kind) THEN CashOf(o.kind, o.price, taker.remaining) ELSE 0
  IN  /\ phase = "match" /\ WalkDone /\ Accepted /\ Rests
      /\ work.seats[taker.seat].openOrders < MaxOpenOrders
      /\ n \notin Live(work)
      /\ work.nextSeq < MaxOrders
      /\ Settle(RestOrder(work, n, taker.seat, o, taker.remaining), escrow)

PlaceDone ==
  /\ phase = "match" /\ WalkDone /\ Accepted /\ ~Rests
  /\ Settle(work, 0)
-----------------------------------------------------------------------------
(* The other instructions, each one committed step.                        *)

Commit(v) ==
  /\ venue' = v /\ work' = v
  /\ UNCHANGED <<phase, taker>>

\* The k lowest-numbered nodes of S: what a scan by node index removes when it may remove k.
FirstBy(S, k) == {n \in S : Cardinality({m \in S : m <= n}) <= k}

\* Handles are (node, seq); a handle whose order is gone, or whose node holds a later one, is skipped.
LiveHandles(H) == {h[1] : h \in {g \in H : venue.nodes[g[1]].live /\ venue.nodes[g[1]].seq = g[2]}}

CancelOrders(i, H, withdraw) ==
  LET v == RemoveNodes(venue, LiveHandles(H))
  IN  /\ Idle /\ BookBound /\ LedgerOpen /\ OwnedSeat(venue, i)
      /\ Cardinality(H) <= MaxHandles
      /\ LiveHandles(H) \subseteq LiveOf(venue, i)
      /\ Commit(SweepCredit(v, i, withdraw))
      /\ mvault' = mvault - Swept(v, i, withdraw)
      /\ UNCHANGED control

CancelAll(i, maxScan, withdraw) ==
  LET v == RemoveNodes(venue, FirstBy({n \in LiveOf(venue, i) : n <= maxScan}, MaxRemoved))
  IN  /\ Idle /\ BookBound /\ LedgerOpen /\ OwnedSeat(venue, i)
      /\ Commit(SweepCredit(v, i, withdraw))
      /\ mvault' = mvault - Swept(v, i, withdraw)
      /\ UNCHANGED control

ReduceOrder(i, n, newLots) ==
  /\ Idle /\ BookBound /\ LedgerOpen /\ OwnedSeat(venue, i)
  /\ n \in LiveOf(venue, i)
  /\ MinLots <= newLots /\ newLots < venue.nodes[n].lots
  /\ Commit(ReduceNode(venue, n, newLots))
  /\ UNCHANGED <<mvault, control>>

DrainAllFromLock == now >= LockAt   \* mutant: an early void does not open the drain

DrainAll == Terminal \/ now >= LockAt

\* Permissionless.  At or after lock, or once terminal, every order may go.
SweepExpired(max) ==
  LET sweepable == {n \in Live(venue) : DrainAll \/ Expired(venue, n)}
  IN  /\ Idle /\ BookBound /\ LedgerOpen
      /\ max \in 1..MaxRemoved
      /\ Commit(RemoveNodes(venue, FirstBy(sweepable, max)))
      /\ UNCHANGED <<mvault, control>>

MintSet(a, i, lots, useCredit) ==
  LET claimed == ResolveSeat(venue, a, i)
      need == lots * PairTicks + BondFor(Claims(venue, i))
      fromCredit == CreditUsed(venue.seats[i].credit, need, useCredit)
  IN  /\ Idle /\ LedgerOpen /\ mode = "Normal" /\ Status = "Trading"
      /\ lots > 0
      /\ ResolvesTo(venue, a, i)
      /\ mvault + (need - fromCredit) <= MaxCash
      /\ mvault' = mvault + (need - fromCredit)
      /\ Commit([claimed EXCEPT
                   !.backing = @ + lots,
                   !.seats[i].credit = @ - fromCredit,
                   !.seats[i].free = [x \in Outcomes |-> @[x] + lots]])
      /\ UNCHANGED control

MergeSet(i, lots, withdraw) ==
  LET merged == [venue EXCEPT
                   !.backing = @ - lots,
                   !.seats[i].credit = @ + lots * PairTicks,
                   !.seats[i].free = [x \in Outcomes |-> @[x] - lots]]
  IN  /\ Idle /\ LedgerOpen /\ Status = "Trading"
      /\ OwnedSeat(venue, i)
      /\ lots > 0 /\ \A x \in Outcomes : venue.seats[i].free[x] >= lots
      /\ Commit(SweepCredit(merged, i, withdraw))
      /\ mvault' = mvault - Swept(merged, i, withdraw)
      /\ UNCHANGED control

WithdrawCredit(i, amount) ==
  /\ Idle /\ LedgerOpen /\ OwnedSeat(venue, i)
  /\ 0 < amount /\ amount <= venue.seats[i].credit
  /\ Commit([venue EXCEPT !.seats[i].credit = @ - amount])
  /\ mvault' = mvault - amount
  /\ UNCHANGED control

GrowLedger(extra) ==
  /\ Idle /\ LedgerOpen /\ mode = "Normal" /\ ~Terminal /\ now < LockAt
  /\ extra \in 1..GrowMax /\ venue.capacity + extra <= NSeats
  /\ Commit([venue EXCEPT !.capacity = @ + extra])
  /\ UNCHANGED <<mvault, control>>

-----------------------------------------------------------------------------
(* After the result.                                                       *)

\* Ticks one lot of outcome x redeems for.
PayoutTicks(x) ==
  IF result = "void" THEN PairTicks \div 2 ELSE IF result = x THEN PairTicks ELSE 0

Lots(s, x) == s.free[x] + s.locked[x]
BondOf(s) == IF s.bonded THEN SeatBond ELSE 0
Payout(s) == Lots(s, "yes") * PayoutTicks("yes") + Lots(s, "no") * PayoutTicks("no")

\* A product seat keeps its owner and flag; any other is cleared.
ClearedSeat(s) == IF s.program THEN [EmptySeat EXCEPT !.owner = s.owner, !.program = TRUE] ELSE EmptySeat

RedeemFull(i) ==
  LET s == venue.seats[i]
  IN  /\ Idle /\ LedgerOpen /\ Terminal /\ OwnedSeat(venue, i)
      /\ s.openOrders = 0
      /\ Commit([venue EXCEPT !.seats[i] = ClearedSeat(s)])
      /\ mvault' = mvault - (s.credit + s.lockedCash + Payout(s) + BondOf(s))
      /\ UNCHANGED control

\* The owner redeems any seat of theirs; anyone redeems a wallet's seat to the wallet.
UserRedeem(i) == RedeemFull(i)
RedeemFor(i) == ~venue.seats[i].program /\ RedeemFull(i)

RedeemPartial(i, x, lots) ==
  LET s == venue.seats[i]
  IN  /\ Idle /\ LedgerOpen /\ Terminal /\ OwnedSeat(venue, i)
      /\ s.openOrders = 0 /\ s.program
      /\ 0 < lots /\ lots <= s.free[x]
      /\ Commit([venue EXCEPT !.seats[i].free[x] = @ - lots])
      /\ mvault' = mvault - lots * PayoutTicks(x)
      /\ UNCHANGED control

Drained(s) ==
  /\ s.credit = 0 /\ s.lockedCash = 0 /\ s.openOrders = 0
  /\ \A x \in Outcomes : s.free[x] = 0 /\ s.locked[x] = 0

\* mutant: the last used seat is not looked at
LedgerEmptyButLast ==
  \A i \in Seats : i < venue.seatsUsed /\ i <= venue.capacity =>
    Drained(venue.seats[i]) /\ ~venue.seats[i].bonded

LedgerEmpty ==
  \A i \in Seats : i <= venue.seatsUsed /\ i <= venue.capacity =>
    Drained(venue.seats[i]) /\ ~venue.seats[i].bonded

\* mutant: public_release_book does not look into the book
ReleaseRestingBook ==
  /\ Idle /\ BookBound
  /\ Status \in {"Locked", "Terminal"}
  /\ released' = TRUE
  /\ UNCHANGED <<venue, work, phase, taker, mvault, donated, residue, mode, now, result, closed>>

\* The series' list of free books has room: checked where books are modelled, not here.
ReleaseBook ==
  /\ Idle /\ BookBound
  /\ Status \in {"Locked", "Terminal"}
  /\ Live(venue) = {}
  /\ released' = TRUE
  /\ UNCHANGED <<venue, work, phase, taker, mvault, donated, residue, mode, now, result, closed>>

CloseLedger ==
  /\ Idle /\ LedgerOpen /\ Terminal /\ LedgerEmpty
  /\ closed' = TRUE
  /\ residue' = mvault /\ mvault' = 0
  /\ UNCHANGED <<venue, work, phase, taker, donated, mode, now, result, released>>

-----------------------------------------------------------------------------
(* The Window's environment: the clock, the admin, the settlement of the   *)
(* prints, and transfers to the mvault from outside the program.           *)

Tick ==
  /\ Idle /\ now < MaxTime
  /\ now' = now + 1
  /\ UNCHANGED <<venue, work, phase, taker, mvault, donated, residue, mode, result, released, closed>>

SetMode(m) ==
  /\ Idle /\ mode' = m
  /\ UNCHANGED <<venue, work, phase, taker, mvault, donated, residue, now, result, released, closed>>

\* A winner needs the close print, taken at Expiry; a void needs a missed deadline or a divergence.
Resolve(r) ==
  /\ Idle /\ ~Terminal
  /\ \/ r \in Outcomes /\ now >= Expiry
     \/ r = "void" /\ (now > OpenDeadline \/ now >= Expiry)
  /\ result' = r
  /\ UNCHANGED <<venue, work, phase, taker, mvault, donated, residue, mode, now, released, closed>>

Donate ==
  /\ Idle /\ LedgerOpen /\ donated < MaxDonations /\ mvault < MaxCash
  /\ donated' = donated + 1 /\ mvault' = mvault + 1
  /\ UNCHANGED <<venue, work, phase, taker, residue, mode, now, result, released, closed>>

-----------------------------------------------------------------------------

InitialVenue ==
  [seats |-> [i \in Seats |->
     IF i \in DOMAIN Authorities /\ Authorities[i] # NoOwner
     THEN [EmptySeat EXCEPT !.owner = Authorities[i], !.program = TRUE]
     ELSE EmptySeat],
   nodes |-> [n \in Nodes |-> EmptyNode],
   nextSeq |-> 0,
   seatsUsed |-> Cardinality(DOMAIN Authorities),
   capacity |-> InitialSeats,
   backing |-> 0]

Init ==
  /\ venue = InitialVenue /\ work = venue
  /\ phase = "idle" /\ taker = NoTaker
  /\ mvault = 0 /\ donated = 0 /\ residue = 0
  /\ mode = "Normal" /\ now = 0 /\ result = "open"
  /\ released = FALSE /\ closed = FALSE

WalkStep ==
  \E n \in Nodes : EvictExpired(n) \/ SkipExpired(n) \/ StopAtFillCap(n) \/ CancelOwnMaker(n) \/ Fill(n)

PlaceStep == WalkStep \/ PlaceRefused \/ (\E n \in Nodes : PlaceRest(n)) \/ PlaceDone

SeatStep(i) ==
  \/ \E H \in HandleSets, w \in BOOLEAN : CancelOrders(i, H, w)
  \/ \E m \in 0..NNodes, w \in BOOLEAN : CancelAll(i, m, w)
  \/ \E n \in Nodes : \E q \in 0..venue.nodes[n].lots : ReduceOrder(i, n, q)
  \/ \E q \in MintLots, w \in BOOLEAN : MergeSet(i, q, w)
  \/ \E c \in 0..MaxCash : WithdrawCredit(i, c)
  \/ UserRedeem(i) \/ RedeemFor(i)
  \/ \E x \in Outcomes : \E q \in 0..venue.seats[i].free[x] : RedeemPartial(i, x, q)

WalletStep(a, i) ==
  \/ \E o \in OrderArgs : PlaceBegin(a, i, o)
  \/ \E q \in MintLots, c \in BOOLEAN : MintSet(a, i, q, c)

Crank ==
  \/ \E m \in 1..MaxRemoved : SweepExpired(m)
  \/ \E k \in 1..GrowMax : GrowLedger(k)
  \/ ReleaseBook \/ CloseLedger

Environment ==
  \/ Tick \/ Donate
  \/ \E m \in Modes : SetMode(m)
  \/ \E r \in Results : Resolve(r)

Next ==
  \/ \E a \in Owners, i \in Seats : WalletStep(a, i)
  \/ \E i \in Seats : SeatStep(i)
  \/ PlaceStep \/ Crank \/ Environment

Spec == Init /\ [][Next]_vars
-----------------------------------------------------------------------------
(* Properties.                                                             *)

TakerState ==
  [seat : Seats, order : OrderArg, claimed : BOOLEAN, remaining : Nat, spent : Nat, received : Nat,
   used : Nat, evictions : Nat, skipped : SUBSET Nodes, stop : {"none", "FillCap", "SkipCap"}]

\* Every balance, counter and budget keeps its unsigned type: no checked_sub of the program can fail.
TypeOK ==
  /\ venue \in VenueState /\ work \in VenueState
  /\ phase \in {"idle", "match"}
  /\ phase = "match" => taker \in TakerState
  /\ {mvault, donated, residue, now} \subseteq Nat
  /\ mode \in Modes /\ result \in Results
  /\ released \in BOOLEAN /\ closed \in BOOLEAN

SeatCash(s) == s.credit + s.lockedCash + BondOf(s)
CashHeld(v) == Sum([i \in Seats |-> SeatCash(v.seats[i])], NSeats)
Supply(v, x) == Sum([i \in Seats |-> Lots(v.seats[i], x)], NSeats)
PayoutsDue(v) == Sum([i \in Seats |-> Payout(v.seats[i])], NSeats)

Owed(v) == CashHeld(v) + (IF Terminal THEN PayoutsDue(v) ELSE v.backing * PairTicks)

\* The mvault holds, to the unit, what the seats are owed plus what was donated: before the result
\* the pairs' backing (matching, mint, merge), after it the payouts (redeem).
Solvency == ~closed => mvault = Owed(venue) + donated

\* Every lot of YES is matched by a lot of NO and by one backed pair, whatever paths filled it.
Paired(v) == \A x \in Outcomes : Supply(v, x) = v.backing
PairsBacked == ~Terminal => Paired(venue)

\* A seat's locked cash, locked lots and open-order count are exactly its resting orders' (remove_node,
\* reduce_node, rest_order and fill keep the ledger and the book in step).
Escrowed(v) ==
  \A i \in Seats :
    /\ v.seats[i].lockedCash = EscrowCash(v, Live(v), i)
    /\ \A x \in Outcomes : v.seats[i].locked[x] = EscrowLots(v, Live(v), i, x)
    /\ v.seats[i].openOrders = OrderCount(v, Live(v), i)
EscrowMatchesBook == Escrowed(venue)

\* An authority holds one seat, whatever hints it sends, so a self-match is always seen as one.
OneSeatPerOwner ==
  \A i, j \in Seats : venue.seats[i].owner = venue.seats[j].owner /\ i # j => venue.seats[i].owner = NoOwner

\* Two unexpired resting orders never cross: a remainder rests only when nothing it crosses is left.
NoLiveCross ==
  \A b, a \in Live(venue) :
    IsBid(venue.nodes[b].kind) /\ ~IsBid(venue.nodes[a].kind) /\ ~Expired(venue, b) /\ ~Expired(venue, a)
      => venue.nodes[b].price < venue.nodes[a].price

\* What a buy has spent and may still spend at its limit never exceeds its cost at the limit (the
\* checked_sub behind `refunded`); a sell never receives less than its limit for what it filled.
TakerWithinLimit ==
  phase = "match" =>
    LET o == taker.order
        filled == o.lots - taker.remaining
    IN  IF IsBuy(o.kind)
        THEN taker.spent + CashOf(o.kind, o.price, taker.remaining) <= CashOf(o.kind, o.price, o.lots)
        ELSE taker.received >= CashOf(o.kind, o.price, filled)

\* All the closing of the ledger sweeps to the treasury is what was donated.
ResidueIsDonated == closed => residue = donated

\* A placement that fills an order of another seat has filled every live crossing order that was
\* ahead of it in price, then time.
Filled(m) ==
  /\ venue.nodes[m].live /\ ~Expired(venue, m) /\ venue.nodes[m].seat # taker.seat
  /\ ~(work.nodes[m].live /\ work.nodes[m].lots = venue.nodes[m].lots)
PassedOver(n) ==
  /\ venue.nodes[n].live /\ ~Expired(venue, n) /\ venue.nodes[n].seat # taker.seat
  /\ Opposite(taker.order.kind, n)
  /\ work.nodes[n] = venue.nodes[n]
PriceTimePriority ==
  phase = "match" =>
    \A m, n \in Nodes : Filled(m) /\ PassedOver(n) =>
      Precedes(taker.order.kind, venue.nodes[m], venue.nodes[n])

\* Outside Normal mode no instruction increases the collateral at risk.
HaltNeverMints == [][mode # "Normal" => venue'.backing <= venue.backing]_vars

\* No seat's position changes in a Listed Window, which has no strike yet (D-088), nor from lock until
\* the result, whatever is placed, cancelled, swept or reduced meanwhile.
PositionsMoveOnlyWhileTrading ==
  [][Status = "Listed" \/ Status = "Locked" => \A i \in Seats, x \in Outcomes :
       Lots(venue'.seats[i], x) = Lots(venue.seats[i], x)]_vars

\* The Window as Tenancy sees it.
Stage == IF result = "void" THEN "Voided" ELSE IF Terminal THEN "Resolved" ELSE Status
Tenant == INSTANCE Tenancy WITH
  stage <- Stage,
  resting <- Live(venue) # {},
  seated <- ~LedgerEmpty,
  ledgerClosed <- closed

\* Venue implements Tenancy, the contract Settlement relies on: whatever wallets, products and cranks send,
\* an order rests only over a ledger that holds something, from the lock on book and ledger only empty, and
\* neither the book nor the ledger is given up with anything in it (public_release_book, public_close_ledger).
KeepsTenancy == Tenant!Spec
============================================================================
