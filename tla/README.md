# Agari in TLA+

Agari is a venue for short binary "Up or Down" markets on Solana: Anchor programs hold the money
(`src/anchor`), a TypeScript service drives what nobody else is paid to do (`src/services/ops`),
and packages and user interfaces sit around them. This directory holds specifications of the parts
that move money and of the actors that must survive crashes, the TLC configurations that check them
on small instances, and TLAPS proofs.

| module | what it is |
| --- | --- |
| `Venue` | one Window of the exchange: book, match walk, seats, outcome pairs, collateral, closing |
| `VenueHandles` | `Venue` with a history of the handles whose order is gone |
| `Tenancy` | abstract: what the Series and the exchange owe each other over one Window |
| `Summation` | finite sums as a recursive function, so that they can be reasoned about |
| `SummationProofs`, `VenueOperations`, `VenueProofs`, `VenueWalkProofs` | theorems about `Venue`, among them that it implements `Tenancy` |
| `Verdict` | abstract: what a Series promises about its Windows |
| `Settlement` | one Series: listing, policy versions, prints, resolution, books and accounts given back |
| `SettlementProofs` | theorems about `Settlement`, among them that it implements `Verdict` and `Tenancy` |
| `Maker` | the maker vault: shares, two-sided quotes on many Windows, settling |
| `MakerProofs` | theorems about `Maker` |
| `Errand` | abstract: one instruction, as the user who posted it may count on it |
| `Relay` | the x-relay: mentions, journalled orders, recovery, public replies, crashes |
| `RelayProofs` | theorems about `Relay`, among them that it implements `Errand` |
| `Indexer` | the indexer: three writers, a cursor, forks, restarts |
| `IndexerProofs` | theorems about `Indexer` |
| `MCVenue`, `MCSettlement`, `MCMaker` | instances TLC checks, and what they share |
| `MCTrading`, `MCWindows`, `MCMakerVault`, `MCRelay`, `MCIndexer` | instances used in one of two ways each, `MCWindows` in one of three |

## 1. The system

### 1.1 Components, their state and operations

**agari-events, one Window** (`anchor/programs/agari-events/src/matching`, `instructions/user_*`,
`redeem.rs`, `ledger_growth.rs`). State: the `Book` (price levels, a slab of order nodes, `next_seq`),
the `Ledger` (seats with credit, locked cash, free and locked lots of each outcome, an order count,
a bond), `market.backing_lots`, and the mvault's tokens. Operations: place (Normal, FOK, IOC,
PostOnly, four kinds that pair up as transfer, mint or burn), cancel by handle, cancel all, reduce,
sweep, mint and merge complete sets, withdraw credit, redeem (by the owner, by anyone for a wallet,
partially by a product), grow, release and close. Correct when the mvault owes exactly what it
holds, the ledger's locked amounts are the book's, price-time priority holds, nothing moves
positions outside trading, and every Window is eventually emptied and closed.

**agari-events, one Series** (`admin_series.rs`, `policy_rules.rs`, `roller_open_window.rs`,
`print_rules.rs`, `record_print_*.rs`, `copy_open_from_prev.rs`, `resolve_*.rs`, `closure.rs`).
State: `Series` (next index, last expiry, policy versions, free books), each `Market` (clock,
deadlines, four print slots, result, dependents, flags), the book's `market` field. Operations: add a
policy version or book, list a Window, record each print from each source, copy an Open from the
Window before, settle, void, register and release a dependent, release the book, close the ledger,
close the Market. Correct when a result follows from the prints and not from who cranked when, a
Window is never voidable and completable together, each print is its own boundary's, books are
never shared or lost, and every Window is decided and closed.

**Book storage** (`book/ladder.rs`, `slab.rs`, `walk.rs`): bitmaps, linked levels and a free list
implementing the ordered book. Correct when it refines a FIFO queue per price.

**agari-common** (`anchor/crates/agari-common`): the price grid, verifiers of signed prints, and
account views shared by the programs.

**agari-maker** (`anchor/programs/agari-maker`): `MakerVault` (deployed base, shares, open Windows,
paused, params), `Provider` accounts, one `WindowBook` record per quoted Window. Operations: supply,
withdraw, quote, pull, merge, settle, set params. Correct when every token is accounted for, shares
are priced fairly and capital always comes home.

**agari-vault**: custody for one owner, a private budget and grants to actors with per-trade and
daily caps; places through the exchange, attributes positions to slots. Correct when custody equals
available + private + grant budgets, a revoked grant spends nothing and position counts are exact.

**agari-leverage, agari-parlay, agari-range, agari-private**: reserves funded by suppliers that front
positions, back tickets or rounds, and lock capital per boundary until a result. Correct when locks
equal open liabilities, tickets end once, and expiry ordering never lets a supplier leave early.

**agari-arena, agari-strategy, agari-desk** (+ `agari-swap-stub`): seasons with commit and reveal;
a strategy registry; a guarded desk whose actions form a sealed chain.

**Ops actors** (`services/ops/src/actors`): *window-roller* lists Windows; *price-relay* brings
prints; *settler* reads each Market and decides one of resolve, void, sweep, redeem, release, close
or wait; *market-maker* quotes and settles for the maker vault; *x-relay* turns mentions into trades
and replies, with checkpoints in a database: correct when an instruction becomes at most one order and
gets at most one reply, whatever is lost, and what landed is reported; *indexer* stores the programs'
transactions and projects their events: correct when its cursor leaves nothing behind, its projections
are what a replay gives and what is finalized arrives; *desk-runner*, *strategy-runner* send and
reconcile transactions; others are sockets and monitors.

**Packages, web, mobile**: shared types, clients, a submitter with a journal, user interfaces.

### 1.2 How they interact

- A program calls the exchange through CPI and owns a *product seat* in each Window's ledger. The
  product redeems its own seat; a wallet's seat can be redeemed by anybody to its owner.
- `market.dependents` keeps a Market alive while a product still has to read it. At this commit no
  product program calls `product_add_dependent`, so dependents are modelled as external readers that
  may come and go.
- Windows of one Series take turns on a small set of books, and hand their boundary print on: the
  Close of one is the Open of the next when they are adjacent.
- The ops service has no privilege over results: everything it does after listing is permissionless
  or belongs to a product's own maker key. It matters for liveness only, and that is how the models
  use it.
- The relay and the indexer keep what must survive in PostgreSQL: receipts, deliveries, the mention
  cursor; stored transactions, projections, the slot cursor. A restart loses everything else. Between a
  read of a row and the write that depends on it another loop or process may have written.
- A Solana transaction locks the accounts it writes and commits or vanishes, so within one account
  set instructions are serial. Concurrency is in the order in which independent senders land, and in
  what they read before they sent.

### 1.3 What is hard here

Listed line by line in `PROJECT.json` under `hazards`. In short: long legal sequences over four kinds
of fill that must keep several sums in step; a match walk with three caps over a book that expires
under it; handles to nodes that are reused; deadlines racing late prints from two sources; policy
versions changing between adjacent Windows; one book, one free list and one dependents counter shared
over many Windows; saturating arithmetic that absorbs profit; off-chain actors that crash between
a send and its confirmation, or post and never hear back; and three writers that store transactions out
of order while the cluster changes its mind.

## 2. How the modules correspond to the code

### 2.1 Venue

One instruction is one step. `user_place_order` is the exception: its match walk (`engine.rs`) is run
one visited order at a time on `work`, the bytes of the accounts inside the transaction. `PlaceBegin`
is `check_order` and the seat resolution, `EvictExpired`, `SkipExpired`, `StopAtFillCap`,
`CancelOwnMaker` and `Fill` are the arms of the walk, `PlaceRest` and `PlaceDone` the funding and the
commit to `venue`, `PlaceRefused` every error that rolls back. No other instruction interleaves with
it, as on chain: the steps exist so that the walk's order, budgets and intermediate sums can be stated
and proved about.

`venue` holds seats, nodes, `next_seq`, `seats_used`, capacity and backing; `mvault`, `donated` and
`residue` are tokens; `mode`, `now`, `result`, `released`, `closed` are config, clock and Market
flags. Data abstractions: cash is counted in cash units so a pair costs `PairTicks` (every amount in
the code is lots x ticks x unit); the book is the set of live nodes ordered by price and `seq` (the
ladder's linked levels are the first item of the plan); which free node is allocated is left open.
`now` does not move inside a transaction. A refused instruction is a step that is not enabled.
`Resolve` and `Donate` are the environment: `Settlement` models the first, anybody may transfer
tokens to the mvault. `VenueHandles` adds `spent`, the (node, seq) handles whose order has left the book. It is
written by every step and read by none, so it restricts nothing; it lets `HandleNamesOneOrder` speak of a handle
that somebody sends long after its node was given out again.

### 2.2 Settlement, Verdict and Tenancy

Every instruction is one step. What a source can prove about a boundary is the constant `Quotes`: a set of
prices per source and time (a Switchboard quote has several possible values, a Pyth update one), which stands
for the signature and layout checks of `agari-common`. Prints may come in any order, or never: this covers the
price relay, lost and late transactions, and any other sender. Trading is reduced to what closing waits for: a
book that rests orders or not (`Trade`, `EmptyBook`) and a ledger somebody is seated in or not (`RedeemSeats`,
`WithdrawSeats`); `Venue` has the detail. The ledger's account and the Market's are given back by
`CloseLedger` and `CloseMarket`.

`market.dependents` is one counter, as in the program: any current product authority may raise it on any listed Market,
decided or not, and lower it while it is above zero, whoever raised it (`ledger_growth.rs:38-49`).
`reading` is a history beside it: how many reads each product registered and how many it released. No guard of
the program's steps reads it (`MaxReads` bounds it); the properties and a product's fairness do.

`Verdict` says what that is for: Windows are listed in order, evidence is only added while a Window is
open, one verdict follows from the evidence, and it stands until every read announced was called off, by
whomever.
`Settlement!KeepsPromise` is `Verdict!Spec` under the mapping given there.

`Venue` takes the Series for granted (its `Resolve` names any winner), `Settlement` takes the trading
for granted (its `Trade` fills and empties a book at will). `Tenancy` is what each may take for granted
of the other, for one Window: its stage, whether its book rests an order and a seat of its ledger holds
something, and whether book and ledger were given up. Before the lock orders and seats come and go and
no order rests without a seat; from the lock on they only leave; a winner is named after the lock; an
empty book goes back from the lock on, an empty ledger closes from the verdict on. `Venue!KeepsTenancy`
maps it to nodes and seats, `Settlement!KeepsTenancy` to two flags per Window, and both are proved: the
abstraction of trading in `Settlement` is one that `Venue` is known to meet.

### 2.3 Maker

Of the exchange only the vault's own seat per Window is kept: what rests, what it holds and the credit it can
reuse. Others are `Fill`; evictions and sweeps are `Release`; the Window's clock is `Lock` and `Resolve`.
`CloseLedger` is the settler's: it closes a decided Window's Ledger once every seat is drained
(`decide.ts:97-99`, `closure.rs:96-98`), the vault's record settled or not. Every maker instruction that
reaches the Window loads that Ledger (`engine.rs:94`), so from then on none of them succeeds there: a record
left unsettled stays so. What the other seats hold is left open. `Pull` may reach only part of the orders, as
its scan is capped; a quote draws on the seat's credit before custody, as `fund` does. The floored
subtractions of `deployed_base` are kept (`SatSub`). Not told apart: who signs a pull (the maker, or anyone
after lock). Not modelled: tokens sent to custody directly, a halted exchange, the remaining-time limit of a
quote (a refusal).

### 2.4 Relay

One step is what happens between two awaits: a database statement, or a call to the chain or to X with
what is done with its answer. The polling loop runs in one process (`Host`, advisory locked) and takes
one mention at a time: claim the receipt, pin the target, record the intent, mark the signed hash,
send, confirm, save; its program counter is `poll`. Before every batch it recovers (`Recover`): receipts
left `submitted` or `unknown` are resolved from the chain by their hash. `MarkSent` stores the hash
before `Send` lets the bytes go. The delivery loop runs in every worker and overlaps with itself across
processes; a lease in the row (`Acquire`) is all that orders them. `feed` is X, `chain` the network per
order, `sent` and `posts` count what left: they are history, read by no guard of the loops.

`Crash` empties a process's memory; `CycleFails`, `RecoverBlind`, `ExecutionThrows`, `LaneThrows`,
`PreparationFails` and `PostUnacknowledged` are the places where a call fails, with the catch that
answers. Each SQL statement is atomic, its `WHERE` is a guard. Left out: the wording of replies, the
cash checks of the vault (a refusal), how long waits take (`ReceiptAges` and `DeliveryAges` say that
they passed).

`Errand` is the view of whoever posted one instruction. The mention is taken up at most once, recorded
before it is sent and sent at most once; its receipt stays open (`submitted`, `unknown`) until it names
what the chain did, or refuses, and either is final; one reply is worded from the receipt and published
at most once. A refused errand is sent no more, but it may be on its way: that much the code does not
exclude (`relay_refused`, 3.1). `Relay!KeepsErrand` is that contract for every mention, with the
receipt, the delivery row and the order on chain as its state.

### 2.5 Indexer

A database transaction is one step. The live path (`LiveFetch`, `LiveWrite`) and the pass (list,
walk, flush, apply, check for dropped rows, fill gaps) hold what they read in `live` and `walk` until
they write. One Market is kept, with one event per transaction whose sequence number is the slot where
it landed; signatures are numbers, ordered as the code orders strings. `Reorg` drops a suffix of slots
that are not finalized; the dropped transactions may land again elsewhere. `NotAvailable`, `PassFails`
and `Restart` are the failures the code handles. `LiveFails` a live write that is not retried.

`writeTransaction` takes a lock per Market (`packages/db/src/idx/write.ts:96`); `dropTransactions` takes none
(`write.ts:137-145`). At READ COMMITTED its rebuild deletes the projections in one statement and selects the events
to replay in a later one (`write.ts:33-34`), and a live write may commit in between on another connection of the
pool. So a drop is two steps, `DropGone` and `RebuildGone`, with any number of `LiveWrite`s between them:

- what they put into the projections is collected in `kept`, outlives the delete, and is selected and applied again;
- a rebuild of the live path that ran into rows the drop had deleted waits for it, and its own delete was
  taken before (`waits`, `ProjectLate`); while it waits it holds the Market's lock (`LockFree`);
- a live write of a signature the drop is deleting waits for the drop at the insert (`Barred`).

Nothing of the drop is visible before it commits. `surplus` is a history of what such an overlap left in the projections;
the next rebuild of the Market removes it.

## 3. What is checked

Each module states a type invariant; those of `Venue`, `Settlement`, `Maker`, `Relay` and `Indexer` are
proved (section 4) and take no place in a run. Passing runs:

| run | instance | question |
| --- | --- | --- |
| `trading` | 2 wallets, 2 nodes; at time 0 prices 1-2, sizes 1-2, all kinds, Normal and FOK, mint sets; or, once time has moved on, orders that expire, budgets of 1 fill and 0-1 evictions, handles with any seq | do collateral, pairs, escrow, limits and price-time priority survive every fill combination; does a capped walk leave a crossed book, can a handle hit another order? (675k states) |
| `lifecycle` | a wallet and a product seat, 3 seats of which one is grown, bond 1, 1 node, modes, each result, a donation | does everything hold from listing to the closing, in every mode and status, does the exchange keep its contract with the Series, and does the closing always come, after an early void too? (90k) |
| `windows` | 1 Window under the checked policy, 3 prices of which one diverges; or, under the second version, 2 Windows on one book; or 1 Window and 2 products of up to 2 reads each, which may lose and regain their authority | does the result follow from the prints and not from the moment of settling; are books and accounts given back exactly once, in order, and in the end; who can close a Market under a product that still has to read it? (208k) |
| `handover` | 2 Gap Windows, 3 policy versions, a price of its own per source and boundary | are prints of the right boundary and source across copies, and void and completion exclusive? (107k) |
| `maker_vault` | 2 providers, 1 Window, two parameter sets, pauses; or, under a third set, 1 provider, 2 Windows, 2 quotes on one of them | are shares fair, do custody, records, counters and seats agree when credit is reused, does capital come home as long as the Ledger is open? (357k) |
| `relay` | 2 instructions and no delivery; or 1 instruction answered by 2 workers, whose reply shows up as a mention; 2 faults | at most one order and one reply per mention, recorded before sent, reported truthfully and in the end? (148k) |
| `indexer` | 3 transactions landing once each; or 2 and a fork, a third landing while a row the fork left is dropped; 1 fault | does the cursor leave anything behind, do projections depend on the order of arrival and what may a drop leave in them, does what is final arrive? (368k) |

What they say, in short (the statements are in the modules, each with the code it is about):

- `trading`, `lifecycle`: `Solvency` (the mvault holds what seats and pairs are owed, to the unit),
  `PairsBacked` (YES = NO = backing), `EscrowMatchesBook` (locked amounts and counts are the live
  orders'), `TakerWithinLimit`, `PriceTimePriority`, `NoLiveCross`, `HandleNamesOneOrder`; `OneSeatPerOwner`,
  `ResidueIsDonated` (closing sweeps nobody's money), `HaltNeverMints`, `PositionsMoveOnlyWhileTrading`,
  `KeepsTenancy` (the refinement of `Tenancy`), `LedgerCloses`.
- `windows`: `ResultMatchesPrints`, `OutcomeIsFixed` (once settleable, waiting changes nothing),
  `NoEarlySingleSource`, `EveryWindowIsDecided`, `BooksAccounted`, `DecidedWindowCloses`, `ReadersKeepTheWindow`
  (a Market closes under a product with reads owed only if another released more than it registered), and
  `KeepsPromise` and `KeepsTenancy`, the refinements of `Verdict` and of `Tenancy`.
- `handover`: `PrintOrVoid` (once voidable, a Window is completed by nothing), `PrintsOfTheirBoundary`.
- `maker_vault`: `EveryTokenIsAccounted`, `SharesKeepTheirWorth`, `CapitalComesHome`
  (the seat is emptied in the end, and the record settled unless its Ledger closed first),
  `OpenWindowsAreCounted`, `QuoteNeverMovesTheClaim`. (`SettledWindowIsEmpty` is only proved.)
- `relay`: `OneOrderPerCommand`, `BroadcastIsRecorded`, `OneReplyPerMention`, `OnlyTrueResults`,
  `KeepsErrand` (the refinement of `Errand`), `EveryCommandIsTaken`, `LandedOrderIsReported`.
- `indexer`: `CursorMeansIndexed`, `ProjectionIsReplay` (a replay of the stored events, after the surplus of an
  overlapped drop if there was a fork), `FinalIsForGood`, `FinalizedIsIndexed`.

For every
property of a passing run `PROJECT.json` lists a plausible defect of a mapped definition under which
TLC finds it violated (`mutant:` comments in the modules).

### 3.1 Where the code does something else than it says

Five runs are expected to fail; each has one property, quoted from the repository.

- `shared_boundary`: `record_print_switchboard.rs:12` says adjacent Windows *always* share their
  boundary print. The refusal of a direct Open looks at the previous Close only if it is already
  recorded, so an Open recorded first and a Close recorded after may carry different quotes.
- `public_fill`: the direct path treats Windows as adjacent whatever their policy version; the copy
  demands the same version. Across a version change an Open can then be filled by neither and the
  Window voids, against `record_print_switchboard.rs:10`.
- `maker_stranded`: `deployed_base` is lowered by everything that comes back, profit included, with a
  floor at zero. After a profitable merge and a later loss on one Window, settling writes off too
  little: capital stays "deployed" with no Window open (against `crank.rs:108`), and shares are priced
  at it. The same arithmetic, with two Windows, lets profit on one erase the escrow of the other from
  `deployed_base`.
- `maker_paused`: the market maker's cycle returns before its settling pass while the vault is paused,
  though it logs that it keeps tending open Windows.
- `relay_refused`: the catch around the relay's whole submission lane (`order.ts:187`) answers "refused
  before anything was sent" (`order.ts:92`) also for what throws after the send, a journal write for
  one. The order may fill; the receipt says refused, the public reply repeats it, and a refused receipt
  is no candidate for recovery, so nothing corrects it. That is why `LandedOrderIsReported` accepts a
  refusal as a report.

Met while modelling, and without a run of their own:

- A live write that commits between a drop's delete and its select is in the projections twice until the
  Market's next rebuild: its event is applied by the writer and again by the drop's replay. `write.ts:95` says of the
  lock in `writeTransaction` that it serializes writers per Market, and the drop is a writer without it.
  `ProjectionIsReplay` states exactly what remains true.
- Once everybody's seat is drained, the vault's by a pull or a redemption for it, the settler closes the Ledger,
  and a maker record that was not settled by then never will be: its Window stays in `open_windows` and what it had
  deployed stays in `deployed_base`. `CapitalComesHome` names this case.
- A product's dependents are not its own: any current authority can release them, and the Market then closes while
  the product still means to read it. `ReadersKeepTheWindow` names the only way.
- A row whose transaction a fork dropped is looked for only by the walk that moves the cursor over its slot,
  and only if that walk reached the head, so a restart in between keeps it for ever (`indexer/backfill.ts:66`).
- A transaction that lands again after a fork keeps the slot and the sequence number it was first stored with, also
  once its row is final (`write.ts:88`, `:124`), so `FinalIsForGood` speaks of the row and not of the slot it names.
- An old `submitted` receipt that recovery turns `unknown` gets an automatic reply, where `x-relay/README.md:83`
  says it will not.

### 3.2 Bounds, and why they are enough

*Venue.* Two wallets are enough for a self-match and a foreign match; a third seat only matters for
empty-seat hints, and `lifecycle` has it. With `PairTicks = 4` prices 1 to 3 exist, YES and NO prices
differ, and payouts of a void are whole. Two nodes give a walk that visits two orders (two levels, or
two of one level), reuse of a node and a full book. `FillsCap`, `EvictionsCap`, `MaxSkips` are reached by orders of size 2
and budgets of 0 and 1. `MaxOrders` bounds `next_seq`, `MaxCash` the mvault (it caps inflows
only, so no withdrawal is blocked), `MaxDonations` and `MaxTime` the environment; the deadlines of an
instance lie within `MaxTime`, so `LedgerCloses` is not cut off by the clock. The proofs are for all
values of these constants. `trading` uses a next-state relation restricted to what each of its two
questions needs (no clock, or no complete sets); a clock that moves before anybody traded chooses the
second. At time 0, where no handle is used, an order takes the first free node; later any. `lifecycle` uses all of `Next`
but the three arms of the walk its single node never reaches (an expired order, evicted or skipped, and a second order past the
fill budget); `trading` has them. Wallets are permuted in `trading`: no action tells them apart and
the run checks no liveness.

*Settlement.* `WithinTime` lists only Windows whose deadlines pass before `MaxTime`, so that "decided" is not
cut off. Three prices make a pair that agrees within the divergence bound and one that does not; two Windows
are one boundary; three policy versions are two changes, one of the source and one of the check only.
`HandoverSpec` leaves trading and closing out. In `windows` the policy version a Window is listed under, and
then whether a product registers before a second listing, choose between the three ways of using the instance
(`MCNext`); a halt is tried before the listing, which is all it stops. Two products of up to two reads each
(`MaxReads`) are the least where one releases another's, or more than its own. `DecidedWindowCloses` asks for
Windows whose retention ends within `MaxTime`.

*Maker.* `MaxSupplied` bounds tokens, `MaxQuotes` the quotes of one Window. Two quotes on a Window are needed
for reuse of credit; two Windows for the counters. A Ledger may close at any moment the program allows it. The
params a vault starts with choose between the two ways of using the instance; no step leads from one to the
other.

*Relay.* Two mentions (`MaxMentions`) are an instruction beside another, or an instruction and the relay's own
reply. `MaxAttempts` bounds how often one delivery is acquired: once, and once more after a failure or an
expired lease. Two faults (`MaxFaults`) are a failure and another one during its repair. Two instructions and
two overlapping workers are not combined: the loops share only receipt and delivery rows of one mention.

*Indexer.* Three transactions are the least with an order of arrival that leaves a hole and one that
fills it from the middle; a fork (`MaxReorgs`) needs two, one kept and one dropped, and a third that lands
during the drop (only then, and only once, in the second way of using the instance) is the live write that overlaps it. One
fault (`MaxFaults`) at any point of a pass.

Deadlock is not checked where instances end: the clock stops at its bound, and a closed Window or a
locked-up trading instance has nothing left to do.

### 3.3 Fairness

Nothing makes a wallet, a provider or an admin act. What is assumed:

- *A started transaction ends* (`WF(PlaceStep)`), since a transaction is bounded by its compute budget
  and `PlaceRefused` is always possible.
- *The clock advances* (`WF(Tick)` in `Settlement`).
- *The settler cranks.* It passes every 5 s over all Markets it knows, decides per Market
  (`actors/settler/decide.ts`, `openWindow` 56-71, terminal 73-105) and retries what did not land; at
  most 12 sends per pass only delay. Hence weak fairness for settle, void, sweep, `redeem_for`,
  release, close ledger and close market. In `Venue` and `Settlement` each of these stays enabled until
  somebody does it, so weak fairness is enough, and it holds whoever sends them. Two things can stand in the way: a full
  free list (`FreeListHasRoom`, section 4; the instances never add that many books) and a product that registers
  another read of a decided Market (`MaxReads` of them).
- *A product redeems its seat* while it has the authority to, *and releases the reads it still owes*
  (`WF(ReleaseDependent(p, i) /\ Owed(reading[i], p) > 0)`). Releasing others' is never assumed.
  `DecidedWindowCloses` excepts a product that lost its authority with reads owed.
- *The maker vault's Windows are settled* (`WF(ActorSettle(w))`). This crank does **not** stay enabled until
  somebody does it: closing the Ledger ends it, and weak fairness then asks for nothing. That is why
  `CapitalComesHome` concludes that the seat is emptied, and the record settled *or its Ledger closed*. It
  also excepts a pause, in which the market maker does not settle (`market-maker/index.ts:102`), and
  `maker_paused` shows why it must. `public_settle` is open to anyone; of the actor's own pass note that at
  this commit `listMakerOpenWindows` is a stub that returns no Window
  (`packages/markets/src/maker/index.ts:25`), so until it is wired the assumption is about another caller.
- *The relay's timers* start a polling cycle and a delivery pass again whenever the last one ended or
  failed (`WF(PollStep)`, `WF(DeliveryStep(w))`); a sent transaction lands or expires (`WF(Execute(m))`);
  minutes pass (`WF(ReceiptAges(m))`).
- *The indexer's timer* starts pass after pass and its requests end (`WF(PassStep)`), and so does a live write
  that was begun, for a pass may wait for its lock (`WF(LiveWrite)`). Nothing is assumed of the subscription,
  of what the live path fetches or of the cluster.
- *Faults are finitely many* in both. `EveryCommandIsTaken` excepts an order that may have been sent
  without a hash to ask for: the code then holds the relay for an operator.

## 4. What is proved

Every invariant, action property and refinement of every passing run is proved, for all values of the
constants the named assumptions admit; only the liveness properties are not.

For `Venue` that is any number of seats and nodes, any grid, caps, clock and orders. `VenueProofs` has
`TypeOKHolds`, `SolvencyHolds`, `PairsBackedHolds` and `EscrowMatchesBookHolds`, all from `InvariantHolds`;
`VenueWalkProofs` has the rest.

The inductive invariant is `IInv`. Between transactions it says the accounts are `Sound` (typed, live
orders name seats and valid prices, empty seats hold no bond, escrow matches the book), pairs are backed, and
the mvault owes what it holds. None of that is inductive through the match walk, where `work` has moved
lots and backing while the taker has paid nothing yet, so during a placement `IInv` also has `Matching`:
`work` is sound and paired; its value (credit + locked cash + bonds + backing) equals the committed
value plus the bond, plus what the taker has spent, minus what it has received; and a
seller's free lots cover what is still to be filled. `Settle` then collects exactly the difference,
which is where solvency returns.

The argument is built from the bottom: `SummationProofs` (a sum changes by what one entry changes by,
sums of equals are equal, a partial sum function exists); `VenueOperations` (typing, how escrow moves when
one order changes, then one lemma per operation on the accounts: removal, reduction, fill, rest, seat claim);
`VenueProofs` (one lemma per action, then `NextKeeps`).

`VenueWalkProofs` puts four more inductive invariants on top of `IInv`.

- `WalkInv` gives `NoLiveCross`, `TakerWithinLimit`, `PriceTimePriority` and `HaltNeverMints`. It compares
  `work` with `venue`: since the placement began orders only shrank (`BookShrinks`: same kind, price, seat and
  seq, no more lots, no new order), every skipped order is expired, the money moved keeps to the limit, no
  order was filled past a live one ahead of it, and the committed book is uncrossed. Shrinking is what carries
  an uncrossed book through a walk: only a placement that rests adds an order, and it rests when nothing it
  crosses is left but what is expired.
- `SpentInv` gives `HandleNamesOneOrder`: no spent handle names a live order, and each carries a seq below `next_seq`.
  A step keeps every live handle's order or ends it, and a new order takes a seq that is not below `next_seq`, so a handle
  that left the book cannot come back.
- `SeatInv` gives `OneSeatPerOwner`, `ResidueIsDonated` and `PositionsMoveOnlyWhileTrading`. `OneSeatPerOwner` alone is
  not inductive: `resolve_seat` looks only at used seats within the ledger, so the invariant (`Seated`) also says that
  a held seat is one of those, and that any other is drained. The same fact makes an empty ledger owe nothing
  when it closes. For positions it adds that a placement runs in a Listed or Trading Window, and in a
  Listed one has moved no lots so far.
- `GivenUp` says that a released book rests no order and a closed ledger keeps no seat
  (`NothingGivenUpFull`). With it each step is an action of `Tenancy` or changes nothing of it
  (`VenueKeepsTenancy`), and a decided Window is never stuck: until its ledger may be closed there is an
  order left to sweep or an owned seat left to redeem (`NothingIsStrandedHolds`, the safety half of `LedgerCloses`;
  that somebody does so is fairness, and stays with TLC).

Assumptions: `SizesAssumption`, `GridAssumption`, `CapsAssumption`, `ClockAssumption`,
`BoundsAssumption`. They say the constants are natural numbers in the order the code enforces at listing (lock
after start, expiry not before lock), that the pair is even, and that reserved seats fit and differ.

`SettlementProofs`, for any Series that satisfies `SeriesAssumption` and `LimitsAssumption` (policies the
program accepts, natural bounds): `TypeOK`, `BooksAccounted`, `ReadersKeepTheWindow`,
`ResultMatchesPrints`, `PrintsOfTheirBoundary`, the action properties `OutcomeIsFixed`,
`NoEarlySingleSource` and `PrintOrVoid`, and two refinements: every behaviour of `Settlement` is one of `Verdict`
(`SettlementKeepsPromise`) and, for each of its Windows, one of `Tenancy` (`SettlementKeepsTenancy`). The
inductive invariant `SettlementInv` adds to the properties what they lean on: Windows are sound (deadlines
in order, prints within their deadlines' meaning, a result only where a rule gave it), listed in order and
without gaps, a bound book was added, and the dependents counter is what all products together
have yet to release. Each step then
has a shape (`StepShape`): it leaves every Window's story alone, or opens, fills, decides or
forgets exactly one. The action properties and the refinements follow from the shapes. `OnTimeInvariant` adds the
clock: a listed Window's times are in order, and no print, copied ones included, is held before its boundary.
`ReadersKeepTheWindow` is what that counter is worth to a product: a Market closes at zero, so if it closes under a
product with reads owed, another product's balance is negative. `FreeListHasRoom` is about a limit no run reaches:
whenever `public_release_book` fails for want of a place, more than `MaxFreeBooks` books were added to the
Series (the book that waits is bound, so it is none of those on the list). Nothing in the program prevents that case:
`admin_add_book` counts only the free ones.

`MakerProofs` (`MakerAssumption`): the four safety properties of `maker_vault` and `SettledWindowIsEmpty` from
`MakerInv`, which ties custody, records and seats token by token. `RelayProofs` (`RelayAssumption`): the four
safety properties of `relay`. Alone they are not inductive: `OrderInv`, `ReplyInv` and `ResultInv` add what
each loop holds in memory between two awaits, so that a receipt claimed, signed or sent, a lease taken and a
post under way each exclude the states from which they would be repeated. `RelayKeepsErrand` adds two more:
`HandInv` (the poll loop holds a receipt nobody has answered yet, recovery only receipts that are still open)
and `WordInv` (a worker takes up only answered mentions, and the text it holds is the receipt's status or a
doubt that was settled since). Each step is then a step of one mention's `Errand` and leaves the others'
alone. `IndexerProofs` (`IndexerAssumption`): `CursorMeansIndexed` from `IndexInv`, which says what a running
walk has accounted for behind its position; `ProjectionIsReplay` from `ReplayInv`, by way of two facts about a
finite set of events: it can be put in order, and in one way only (an event stands at the number of events up
to it), so that appending the newest event and rebuilding give the same sequence. On top of it
`SurplusAndReplay` follows `kept` and `surplus` through a drop, and `ForkFree` says that without a fork every
row is where the chain has it, so nothing is dropped and no surplus arises; `FinalIsForGood` from `FinalInv`:
nothing becomes final between the moment a pass decides what to promote or drop and its write.

Only model-checked, because the prover used here does not reason about fairness and `ENABLED`: the liveness
properties `LedgerCloses`, `EveryWindowIsDecided`, `DecidedWindowCloses`, `CapitalComesHome`,
`EveryCommandIsTaken`, `LandedOrderIsReported` and `FinalizedIsIndexed`. Also out of its reach are induction
over data and `RECURSIVE` operators (none is used).

A consequence of the policies a Series accepts, met while proving `PrintOrVoid`: an `UntilLock` open
whose minimum delay reaches past the lock is legal and can never be printed directly; unless it can be
copied, its Window can only be voided.

## 5. Not modelled

Each component left out is in `PROJECT.json` with its reason. In the modelled ones: account and token
checks (they only refuse), bytes and signatures of prints, integer widths (amounts are checked
arithmetic in the code, which refuses; the models have no refusal by overflow), rent, events, and
config instructions other than the mode and product authorities.

## 6. Plan

Done: `Venue`, `Tenancy`, `Verdict`, `Settlement`, `Maker`, `Errand`, `Relay` and `Indexer`, with the proofs
of section 4. Next:

1. `BookStore`: slab, linked levels and bitmaps, refining an abstract FIFO book per price.
2. `Vault`: custody = available + private + sum of grant budgets, slots, `open_positions`, daily cap, a
   revocation racing a placement; proofs of the custody equation.
3. `Exchange`: an abstract escrow of collateral against pairs, which `Venue` refines.
4. `Reserve` (the pattern of parlay, range and leverage: locks per boundary, endings of a ticket),
   composed with the closing of Markets in `Settlement`: a ticket whose Market is gone.
5. `Settler`: views, batches and waits of the actor against `Settlement`, to replace its fairness
   assumption by its own decisions; the window-roller with it.
6. `DeskRunner` in the style of `Relay`.
