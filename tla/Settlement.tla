----------------------------- MODULE Settlement -----------------------------
(***************************************************************************)
(* One Series of the exchange (the agari-events program) and the life of   *)
(* its Windows: a roller lists a Window on a free book, the prints of its  *)
(* two boundaries arrive or miss their deadlines, anybody settles or voids *)
(* it, and its book, ledger and account are given back.                    *)
(*                                                                         *)
(* Every instruction is one transaction and one step.  What the wallets do *)
(* with the book and the ledger is module Venue's; here a book only rests  *)
(* orders or not, and a ledger only holds somebody's seat or not.  What a  *)
(* source can prove about a boundary is the constant Quotes: a quote of a  *)
(* Switchboard queue proves one of several prices, a Pyth update a single  *)
(* one.                                                                    *)
(***************************************************************************)
EXTENDS Integers, FiniteSets, Sequences, Summation

CONSTANTS
  Books,           \* the Series' order books
  NumProducts,     \* the product programs that may register as readers of a result
  Prices,          \* normalized prices a print may carry
  Sources,         \* Source::Pyth, RedStone, Switchboard, Attested
  Quotes,          \* [Sources -> [Nat -> SUBSET Prices]]: the prices a source proves for a boundary
  PolicyList,      \* the policy versions the admin appends, in order
  GapLane,         \* the Series' basis is Gap
  Cadence,         \* cadence_sec
  MaxGap,          \* MAX_GAP_DURATION_SEC
  MaxLead,         \* max_lead_sec
  MaxFreeBooks,    \* MAX_FREE_BOOKS
  PublicAfter,     \* SWITCHBOARD_PUBLIC_AFTER_SEC
  Retention,       \* config.result_retention_sec
  MaxWindows, MaxTime, MaxReads   \* bounds of the exploration

NoSource == "None"
UntilLock == -1    \* ADMIT_UNTIL_LOCK, a value no admission period has
NoPrint == 0       \* an empty print slot; a normalized price is positive
Slots == {"Open", "Close", "CheckOpen", "CheckClose"}
Indices == 0..(MaxWindows - 1)
Times == 0..MaxTime
Products == 1..NumProducts

PrintPolicy ==
  [source : Sources \cup {NoSource}, minDelay : Nat, openAdmission : Nat \cup {UntilLock}, closeAdmission : Nat]
PolicyVersion ==
  [from : Nat, until : Nat, primary : PrintPolicy, check : PrintPolicy,
   maxDivergence : Nat, checkAdmission : Nat]

\* check_source_rules and validate_policy_version, as far as the clock depends on them.
SourceRules(p) ==
  /\ p.source # NoSource
  /\ IF p.source \in {"Switchboard", "Attested"}
       THEN /\ p.minDelay >= 1
            /\ p.openAdmission > p.minDelay \/ p.openAdmission = UntilLock
            /\ p.closeAdmission > p.minDelay
       ELSE p.minDelay = 0
ValidPolicy(v) ==
  /\ v.from < v.until
  /\ v.primary.openAdmission # 0 /\ v.primary.closeAdmission >= 1
  /\ v.primary.openAdmission = UntilLock => GapLane
  /\ SourceRules(v.primary)
  /\ IF v.check.source = NoSource
       THEN v.checkAdmission = 0 /\ v.maxDivergence = 0
       ELSE /\ v.check.source # v.primary.source
            /\ SourceRules(v.check)
            /\ v.checkAdmission >= 1
            /\ v.check.openAdmission = v.checkAdmission
            /\ v.check.closeAdmission = v.checkAdmission
            /\ v.maxDivergence \in 1..10000

ASSUME SeriesAssumption ==
  /\ Prices \subseteq Nat \ {0}
  /\ NoSource \notin Sources
  /\ PolicyList \in Seq(PolicyVersion)
  /\ \A k \in 1..Len(PolicyList) : ValidPolicy(PolicyList[k])
  /\ GapLane \in BOOLEAN
  /\ {Cadence, MaxGap, MaxLead, PublicAfter, Retention} \subseteq Nat
  /\ Cadence > 0

ASSUME LimitsAssumption ==
  /\ MaxFreeBooks \in Nat /\ MaxWindows \in Nat /\ MaxTime \in Nat
  /\ NumProducts \in Nat /\ MaxReads \in Nat
  /\ IsFiniteSet(Books)

VARIABLES
  now,        \* the cluster clock
  halted,     \* config.mode is not Normal
  authorized, \* config.program_authorities
  series,     \* next_index, last_expiry, version_count and the free list
  books,      \* per book: the Window it is bound to, and whether it rests orders
  windows,    \* per index: the Market account
  reading     \* history, per index and product: the reads it registered and the reads it released

vars == <<now, halted, authorized, series, books, windows, reading>>

NoWindow == -1     \* Pubkey::default() in book.market

EmptyWindow ==
  [state |-> "Unlisted", start |-> 0, lock |-> 0, expiry |-> 0, openDeadline |-> 0, closeDeadline |-> 0,
   version |-> 0, book |-> NoWindow, prints |-> [s \in Slots |-> NoPrint], winner |-> "None",
   reason |-> "None", single |-> FALSE, resolvedAt |-> 0, dependents |-> 0, released |-> FALSE,
   seated |-> FALSE, ledgerClosed |-> FALSE]
NoReads == [p \in Products |-> [added |-> 0, released |-> 0]]

-----------------------------------------------------------------------------
(* A Window's clock, policy and prints.                                    *)

Terminal(w) == w.state \in {"Resolved", "Voided"}
Live(w) == w.state = "Open"
Listed(w) == w.state \in {"Open", "Resolved", "Voided"}
Status(w) ==
  IF Terminal(w) THEN w.state
  ELSE IF now < w.start THEN "Listed"
  ELSE IF now < w.lock THEN "Trading" ELSE "Locked"

Policy(w) == PolicyList[w.version]
HasCheck(w) == Policy(w).check.source # NoSource
PolicyFor(w, s) == IF s \in {"CheckOpen", "CheckClose"} THEN Policy(w).check ELSE Policy(w).primary
Boundary(w, s) == IF s \in {"Open", "CheckOpen"} THEN w.start ELSE w.expiry
Missing(w, s) == w.prints[s] = NoPrint

\* mutant: a check print is admitted one second past its bound
DeadlineLate(w, s) ==
  CASE s = "Open" -> w.openDeadline
    [] s = "Close" -> w.closeDeadline
    [] OTHER -> Boundary(w, s) + Policy(w).checkAdmission + 1
\* The last second a slot is admitted.
Deadline(w, s) ==
  CASE s = "Open" -> w.openDeadline
    [] s = "Close" -> w.closeDeadline
    [] OTHER -> Boundary(w, s) + Policy(w).checkAdmission

\* The shared rules of every public_record_print_*.
Admits(w, s) ==
  /\ Live(w)
  /\ PolicyFor(w, s).source # NoSource
  /\ Missing(w, s)
  /\ now >= Boundary(w, s) + PolicyFor(w, s).minDelay
  /\ now <= Deadline(w, s)

\* Window i follows its predecessor without a gap.
Adjacent(i) == windows[i - 1].expiry = windows[i].start

\* A Switchboard Open has to name the account of Window i - 1, which must still exist, and
\* belongs to the copy once that Window is adjacent and has its Close.
OpenNotCopyable(i) ==
  i > 0 => /\ Listed(windows[i - 1])
           /\ ~(Adjacent(i) /\ ~Missing(windows[i - 1], "Close"))

\* Until the public window opens only an attestor chooses a Switchboard quote.
RecorderAdmitted(attestor, t) == attestor \/ now >= t + PublicAfter

RecordAdmitted(i, s, attestor) ==
  /\ Admits(windows[i], s)
  /\ PolicyFor(windows[i], s).source = "Switchboard" =>
       /\ RecorderAdmitted(attestor, Boundary(windows[i], s))
       /\ s = "Open" => OpenNotCopyable(i)

\* mutant: the copy does not compare the versions
CopyAnyVersion(i) ==
  /\ i > 0
  /\ Live(windows[i]) /\ Missing(windows[i], "Open")
  /\ now <= windows[i].openDeadline
  /\ Listed(windows[i - 1])
  /\ Adjacent(i)
  /\ ~Missing(windows[i - 1], "Close")
CopyAdmitted(i) ==
  /\ i > 0
  /\ Live(windows[i]) /\ Missing(windows[i], "Open")
  /\ now <= windows[i].openDeadline
  /\ Listed(windows[i - 1])
  /\ Adjacent(i)
  /\ windows[i - 1].version = windows[i].version
  /\ ~Missing(windows[i - 1], "Close")

-----------------------------------------------------------------------------
(* The two decisions.                                                      *)

Diverges(p, c, bps) == (IF p > c THEN p - c ELSE c - p) * 10000 > bps * p

BothChecks(w) == ~Missing(w, "CheckOpen") /\ ~Missing(w, "CheckClose")
CheckBound(w) == w.expiry + Policy(w).checkAdmission

\* mutant: the bound counts from the opening boundary
SettleableEarly(w) ==
  /\ ~Missing(w, "Open") /\ ~Missing(w, "Close")
  /\ HasCheck(w) => BothChecks(w) \/ now > w.start + Policy(w).checkAdmission
\* mutant: a missing check is waited for without end
SettleableWithChecks(w) ==
  /\ ~Missing(w, "Open") /\ ~Missing(w, "Close")
  /\ HasCheck(w) => BothChecks(w)
\* Both prints are in, and no check may still land.
Settleable(w) ==
  /\ ~Missing(w, "Open") /\ ~Missing(w, "Close")
  /\ HasCheck(w) => BothChecks(w) \/ now > CheckBound(w)

\* mutant: a check counts only once both are in
DisputedOnceComplete(w) ==
  /\ BothChecks(w)
  /\ \E s \in {"Open", "Close"} :
       LET c == IF s = "Open" THEN "CheckOpen" ELSE "CheckClose"
       IN  Diverges(w.prints[s], w.prints[c], Policy(w).maxDivergence)
Disputed(w) ==
  \E s \in {"Open", "Close"} :
    LET c == IF s = "Open" THEN "CheckOpen" ELSE "CheckClose"
    IN  ~Missing(w, c) /\ Diverges(w.prints[s], w.prints[c], Policy(w).maxDivergence)

Voided(reason) == [state |-> "Voided", winner |-> "Void", reason |-> reason, single |-> FALSE]
\* mutant: a tie goes to Down
SettlementTieDown(w) ==
  IF HasCheck(w) /\ Disputed(w) THEN Voided("CrossCheckDivergence")
  ELSE [state |-> "Resolved", winner |-> IF w.prints["Close"] > w.prints["Open"] THEN "Yes" ELSE "No",
        reason |-> "None", single |-> HasCheck(w) /\ ~BothChecks(w)]
\* settle_decision: a close at or above the open pays Up.
Settlement(w) ==
  IF HasCheck(w) /\ Disputed(w) THEN Voided("CrossCheckDivergence")
  ELSE [state |-> "Resolved", winner |-> IF w.prints["Close"] >= w.prints["Open"] THEN "Yes" ELSE "No",
        reason |-> "None", single |-> HasCheck(w) /\ ~BothChecks(w)]

\* mutant: the void is admitted in the last second of the deadline
VoidableAtDeadline(w) ==
  \/ Missing(w, "Open") /\ now >= w.openDeadline
  \/ Missing(w, "Close") /\ now >= w.closeDeadline
\* void_decision: a primary print is missing and its deadline has passed.
Voidable(w) ==
  \/ Missing(w, "Open") /\ now > w.openDeadline
  \/ Missing(w, "Close") /\ now > w.closeDeadline

-----------------------------------------------------------------------------
(* Configuration and listing.                                              *)

Init ==
  /\ now = 0
  /\ halted = FALSE
  /\ authorized = Products
  /\ series = [next |-> 0, lastExpiry |-> 0, versions |-> 0, free |-> {}]
  /\ books = [b \in Books |-> [added |-> FALSE, window |-> NoWindow, resting |-> FALSE]]
  /\ windows = [i \in Indices |-> EmptyWindow]
  /\ reading = [i \in Indices |-> NoReads]

Tick ==
  /\ now < MaxTime
  /\ now' = now + 1
  /\ UNCHANGED <<halted, authorized, series, books, windows, reading>>

SetMode ==
  /\ halted' = ~halted
  /\ UNCHANGED <<now, authorized, series, books, windows, reading>>

SetAuthorities(P) ==
  /\ authorized' = P
  /\ UNCHANGED <<now, halted, series, books, windows, reading>>

AddBook(b) ==
  /\ ~books[b].added
  /\ Cardinality(series.free) < MaxFreeBooks
  /\ books' = [books EXCEPT ![b].added = TRUE]
  /\ series' = [series EXCEPT !.free = @ \cup {b}]
  /\ UNCHANGED <<now, halted, authorized, windows, reading>>

AddPolicyVersion ==
  /\ series.versions < Len(PolicyList)
  /\ series' = [series EXCEPT !.versions = @ + 1]
  /\ UNCHANGED <<now, halted, authorized, books, windows, reading>>

Covers(v, start, expiry) == PolicyList[v].from <= start /\ expiry <= PolicyList[v].until

\* Ordering, no overlap, alignment and the listing horizon (check_window).
SpanAdmitted(start, lock, expiry) ==
  /\ start < lock /\ lock <= expiry /\ lock > now
  /\ start >= series.lastExpiry
  /\ IF GapLane
       THEN expiry - start <= MaxGap
       ELSE start % Cadence = 0 /\ expiry - start = Cadence /\ lock = expiry
  /\ start <= now + MaxLead

HighestCovering(v, start, expiry) ==
  /\ Covers(v, start, expiry)
  /\ \A u \in (v + 1)..series.versions : ~Covers(u, start, expiry)

NewWindow(b, start, lock, expiry, v) ==
  LET p == PolicyList[v].primary
  IN  [EmptyWindow EXCEPT
         !.state = "Open", !.start = start, !.lock = lock, !.expiry = expiry, !.version = v, !.book = b,
         !.openDeadline = IF p.openAdmission = UntilLock THEN lock ELSE start + p.openAdmission,
         !.closeDeadline = expiry + p.closeAdmission]

\* Bound: every deadline of a listed Window passes before the clock stops.
WithinTime(w) == w.openDeadline < MaxTime /\ w.closeDeadline < MaxTime /\ CheckBound(w) < MaxTime

OpenWindow(b) ==
  /\ series.next < MaxWindows
  /\ ~halted
  /\ b \in series.free
  /\ ~books[b].resting /\ books[b].window = NoWindow
  /\ \E start, lock, expiry \in Times, v \in 1..series.versions :
       LET w == NewWindow(b, start, lock, expiry, v)
       IN  /\ SpanAdmitted(start, lock, expiry)
           /\ HighestCovering(v, start, expiry)
           /\ WithinTime(w)
           /\ series' = [series EXCEPT !.next = @ + 1, !.lastExpiry = expiry, !.free = @ \ {b}]
           /\ books' = [books EXCEPT ![b].window = series.next]
           /\ windows' = [windows EXCEPT ![series.next] = w]
  /\ UNCHANGED <<now, halted, authorized, reading>>

-----------------------------------------------------------------------------
(* Prints and resolution.                                                  *)

RecordPrint(i, s, attestor, p) ==
  /\ RecordAdmitted(i, s, attestor)
  /\ p \in Quotes[PolicyFor(windows[i], s).source][Boundary(windows[i], s)]
  /\ windows' = [windows EXCEPT ![i].prints[s] = p]
  /\ UNCHANGED <<now, halted, authorized, series, books, reading>>

CopiesCheck(i) ==
  /\ ~Missing(windows[i - 1], "CheckClose") /\ Missing(windows[i], "CheckOpen")
  /\ now <= Deadline(windows[i], "CheckOpen")

CopyOpen(i) ==
  /\ CopyAdmitted(i)
  /\ windows' = [windows EXCEPT
       ![i].prints["Open"] = windows[i - 1].prints["Close"],
       ![i].prints["CheckOpen"] = IF CopiesCheck(i) THEN windows[i - 1].prints["CheckClose"] ELSE @]
  /\ UNCHANGED <<now, halted, authorized, series, books, reading>>

Resolve(i, r) ==
  /\ windows' = [windows EXCEPT ![i].state = r.state, ![i].winner = r.winner, ![i].reason = r.reason,
                                ![i].single = r.single, ![i].resolvedAt = now]
  /\ UNCHANGED <<now, halted, authorized, series, books, reading>>

SettleWindow(i) ==
  /\ Live(windows[i])
  /\ Settleable(windows[i])
  /\ Resolve(i, Settlement(windows[i]))

VoidExpired(i) ==
  /\ Live(windows[i])
  /\ Voidable(windows[i])
  /\ Resolve(i, Voided("MissingPrint"))

-----------------------------------------------------------------------------
(* Trading, as far as the closing of a Window waits for it.                *)

\* Orders come, fill and go, and seats with them, from listing to lock: a Listed Window takes quotes
\* already.  Who rests an order holds a seat.
Trade(i) ==
  /\ Status(windows[i]) \in {"Listed", "Trading"} /\ Listed(windows[i])
  /\ books[windows[i].book].window = i
  /\ \E rests, seats \in BOOLEAN :
       /\ rests => seats
       /\ books' = [books EXCEPT ![windows[i].book].resting = rests]
       /\ windows' = [windows EXCEPT ![i].seated = seats]
  /\ UNCHANGED <<now, halted, authorized, series, reading>>

\* The last order leaves by a fill, a cancel or, from the lock on, by the sweep.
EmptyBook(i) ==
  /\ Listed(windows[i])
  /\ ~windows[i].released
  /\ books[windows[i].book].resting
  /\ books' = [books EXCEPT ![windows[i].book].resting = FALSE]
  /\ UNCHANGED <<now, halted, authorized, series, windows, reading>>

\* The last seat is redeemed or, if a product's, emptied by a withdrawal from the lock on; a seat with
\* open orders holds their escrow.
EmptySeats(i) ==
  /\ windows[i].seated
  /\ ~windows[i].released => ~books[windows[i].book].resting
  /\ windows' = [windows EXCEPT ![i].seated = FALSE]
  /\ UNCHANGED <<now, halted, authorized, series, books, reading>>
RedeemSeats(i) == Terminal(windows[i]) /\ EmptySeats(i)
WithdrawSeats(i) == Live(windows[i]) /\ now >= windows[i].lock /\ EmptySeats(i)

-----------------------------------------------------------------------------
(* Closure.                                                                *)

\* mutant: a book goes back only before its Window is decided
LockedOnly == {"Locked"}
Releasable == {"Locked", "Resolved", "Voided"}

ReleaseBook(i) ==
  LET b == windows[i].book
  IN  /\ Listed(windows[i])
      /\ ~windows[i].released
      /\ books[b].window = i
      /\ Status(windows[i]) \in Releasable
      /\ ~books[b].resting
      /\ Cardinality(series.free) < MaxFreeBooks
      /\ books' = [books EXCEPT ![b].window = NoWindow]
      /\ series' = [series EXCEPT !.free = @ \cup {b}]
      /\ windows' = [windows EXCEPT ![i].released = TRUE]
      /\ UNCHANGED <<now, halted, authorized, reading>>

CloseLedger(i) ==
  /\ Terminal(windows[i])
  /\ ~windows[i].ledgerClosed
  /\ ~windows[i].seated
  /\ windows' = [windows EXCEPT ![i].ledgerClosed = TRUE]
  /\ UNCHANGED <<now, halted, authorized, series, books, reading>>

\* mutant: close_market does not wait for the ledger
CloseableBeforeLedger(w) == w.released /\ w.dependents = 0 /\ now >= w.resolvedAt + Retention
\* mutant: close_market does not wait for the book
CloseableBound(w) == w.ledgerClosed /\ w.dependents = 0 /\ now >= w.resolvedAt + Retention
\* mutant: close_market does not wait for the readers
CloseableUnderReaders(w) == w.released /\ w.ledgerClosed /\ now >= w.resolvedAt + Retention
Closeable(w) == w.released /\ w.ledgerClosed /\ w.dependents = 0 /\ now >= w.resolvedAt + Retention

CloseMarket(i) ==
  /\ Terminal(windows[i])
  /\ Closeable(windows[i])
  /\ windows' = [windows EXCEPT ![i].state = "Closed"]
  /\ UNCHANGED <<now, halted, authorized, series, books, reading>>

\* Any current authority moves the one counter all products share, in any state of the account; whose
\* reads it counts is noted nowhere in the program.  Bound: a product registers MaxReads times.
AddDependent(p, i) ==
  /\ p \in authorized
  /\ Listed(windows[i])
  /\ reading[i][p].added < MaxReads
  /\ windows' = [windows EXCEPT ![i].dependents = @ + 1]
  /\ reading' = [reading EXCEPT ![i][p].added = @ + 1]
  /\ UNCHANGED <<now, halted, authorized, series, books>>

ReleaseDependent(p, i) ==
  /\ p \in authorized
  /\ Listed(windows[i])
  /\ windows[i].dependents > 0
  /\ windows' = [windows EXCEPT ![i].dependents = @ - 1]
  /\ reading' = [reading EXCEPT ![i][p].released = @ + 1]
  /\ UNCHANGED <<now, halted, authorized, series, books>>

\* What a product has yet to release; less than zero once it released reads another registered.
Owed(reads, p) == reads[p].added - reads[p].released
Outstanding(reads) == Sum([p \in Products |-> Owed(reads, p)], NumProducts)

-----------------------------------------------------------------------------
(* The specification.                                                      *)

Listing ==
  \/ \E b \in Books : AddBook(b) \/ OpenWindow(b)
  \/ AddPolicyVersion

\* What anybody may send about Window i.
Printing(i) ==
  \/ \E s \in Slots, attestor \in BOOLEAN, p \in Prices : RecordPrint(i, s, attestor, p)
  \/ CopyOpen(i)
Resolving(i) == SettleWindow(i) \/ VoidExpired(i)
Closing(i) == ReleaseBook(i) \/ CloseLedger(i) \/ CloseMarket(i)

Next ==
  \/ Tick
  \/ SetMode
  \/ \E P \in SUBSET Products : SetAuthorities(P)
  \/ Listing
  \/ \E i \in Indices :
       \/ Printing(i)
       \/ Resolving(i)
       \/ Trade(i) \/ EmptyBook(i) \/ RedeemSeats(i) \/ WithdrawSeats(i)
       \/ Closing(i)
       \/ \E p \in Products : AddDependent(p, i) \/ ReleaseDependent(p, i)

Spec == Init /\ [][Next]_vars

\* The clock advances and the settler looks at every Window again after each wait it decided.
DecidingFairness ==
  /\ WF_vars(Tick)
  /\ \A i \in Indices : WF_vars(SettleWindow(i)) /\ WF_vars(VoidExpired(i))
DecidingSpec == Spec /\ DecidingFairness

\* The settler's sweep, redeem and closing cranks, and products that release what they registered.
ClosingFairness ==
  /\ DecidingFairness
  /\ \A i \in Indices :
       /\ WF_vars(EmptyBook(i)) /\ WF_vars(RedeemSeats(i))
       /\ WF_vars(ReleaseBook(i)) /\ WF_vars(CloseLedger(i)) /\ WF_vars(CloseMarket(i))
       /\ \A p \in Products : WF_vars(ReleaseDependent(p, i) /\ Owed(reading[i], p) > 0)
ClosingSpec == Spec /\ ClosingFairness

-----------------------------------------------------------------------------
(* Properties.                                                             *)

Window ==
  [state : {"Unlisted", "Open", "Resolved", "Voided", "Closed"},
   start : Nat, lock : Nat, expiry : Nat, openDeadline : Nat, closeDeadline : Nat,
   version : Nat, book : Books \cup {NoWindow}, prints : [Slots -> Prices \cup {NoPrint}],
   winner : {"None", "Yes", "No", "Void"}, reason : {"None", "MissingPrint", "CrossCheckDivergence"},
   single : BOOLEAN, resolvedAt : Nat, dependents : Nat, released : BOOLEAN, seated : BOOLEAN,
   ledgerClosed : BOOLEAN]
Reads == [Products -> [added : Nat, released : Nat]]
Book == [added : BOOLEAN, window : Indices \cup {NoWindow}, resting : BOOLEAN]

\* Every account holds what its layout allows; the dependents counter never goes negative.
TypeOK ==
  /\ now \in Nat
  /\ halted \in BOOLEAN
  /\ authorized \subseteq Products
  /\ series \in [next : Nat, lastExpiry : Nat, versions : 0..Len(PolicyList), free : SUBSET Books]
  /\ books \in [Books -> Book]
  /\ windows \in [Indices -> Window]
  /\ reading \in [Indices -> Reads]

\* The free list, book.market and the Markets' released flags agree: a book is free and empty or
\* bound to the one Window that names it, and none is lost however Windows are listed,
\* released and closed (roller_open_window, public_release_book, public_close_market).
BooksAccounted ==
  /\ Cardinality(series.free) <= MaxFreeBooks
  /\ \A b \in Books :
       /\ b \in series.free <=> books[b].added /\ books[b].window = NoWindow
       /\ books[b].resting => books[b].window # NoWindow
       /\ books[b].window # NoWindow =>
            LET w == windows[books[b].window] IN Listed(w) /\ ~w.released /\ w.book = b
  /\ \A i \in Indices : Listed(windows[i]) /\ ~windows[i].released => books[windows[i].book].window = i

Has(w, s) == w.prints[s] # NoPrint
Checked(w) == PolicyList[w.version].check.source # NoSource
Contradicted(w) ==
  LET bps == PolicyList[w.version].maxDivergence
  IN  \/ Has(w, "CheckOpen") /\ Diverges(w.prints["Open"], w.prints["CheckOpen"], bps)
      \/ Has(w, "CheckClose") /\ Diverges(w.prints["Close"], w.prints["CheckClose"], bps)
ResultFollows(w) ==
  /\ w.state = "Resolved" =>
       /\ Has(w, "Open") /\ Has(w, "Close")
       /\ w.winner = (IF w.prints["Open"] <= w.prints["Close"] THEN "Yes" ELSE "No")
       /\ w.single <=> Checked(w) /\ ~(Has(w, "CheckOpen") /\ Has(w, "CheckClose"))
       /\ Checked(w) => ~Contradicted(w)
  /\ w.state = "Voided" /\ w.reason = "MissingPrint" => ~Has(w, "Open") \/ ~Has(w, "Close")
  /\ w.state = "Voided" /\ w.reason = "CrossCheckDivergence" => Checked(w) /\ Contradicted(w)

\* What a Window resolved to follows from the prints its account and its MarketResult hold, long
\* after it resolved: the winner from the primary prints, and no result stands against a check
\* print that diverges, even a single-source one (prints.md 5 and 6).
ResultMatchesPrints == \A i \in Indices : ResultFollows(windows[i])

\* PD-6, "the clock makes the two mutually exclusive": from the moment a Window may be voided no record
\* and no copy completes it any more, so however the two senders' transactions land it stays voidable
\* until it is voided for the missing print (void_decision against every slot's admission).
PrintOrVoid ==
  [][\A i \in Indices :
       Live(windows[i]) /\ Voidable(windows[i])
         => IF windows'[i].state = "Open" THEN Voidable(windows[i])'
            ELSE windows'[i].reason = "MissingPrint"]_vars

\* Every recorded print is one its own policy's source proves for the Window's own boundary: a
\* copied Open never carries a Friday's close into a Monday, nor one version's source into the next.
PrintsOfTheirBoundary ==
  \A i \in Indices, s \in Slots :
    LET w == windows[i]
    IN  w.prints[s] # NoPrint => w.prints[s] \in Quotes[PolicyFor(w, s).source][Boundary(w, s)]

\* From the moment a Window can be settled, waiting changes nothing: whatever prints others record
\* before somebody settles it, it settles the same way (settle_decision against admit's deadlines).
OutcomeIsFixed ==
  [][\A i \in Indices :
       Live(windows[i]) /\ Settleable(windows[i])
         => IF windows'[i].state = "Open" THEN Settlement(windows'[i]) = Settlement(windows[i])
            ELSE windows'[i].winner = Settlement(windows[i]).winner]_vars

\* "An early settler can't skip a check that may still land": a Window settles on its primary
\* source alone only when no missing check print could be admitted any more.
NoEarlySingleSource ==
  [][\A i \in Indices :
       Live(windows[i]) /\ windows'[i].single
         => \A s \in {"CheckOpen", "CheckClose"} :
              Missing(windows[i], s) => now > Boundary(windows[i], s) + Policy(windows[i]).checkAdmission]_vars

\* The one counter is what all products together have yet to release, and so a Market is closed under a
\* product that still has to read its result only if another one released reads it never registered.
ReadersKeepTheWindow ==
  \A i \in Indices :
    /\ windows[i].dependents = Outstanding(reading[i])
    /\ windows[i].state = "Closed" /\ (\E p \in Products : Owed(reading[i], p) > 0)
         => \E q \in Products : Owed(reading[i], q) < 0

\* The promise Settlement keeps: verdicts given once, from evidence only added to, in listing order.
Phase(w) ==
  CASE w.state = "Unlisted" -> "none"
    [] w.state = "Open" -> "open"
    [] w.state = "Closed" -> "closed"
    [] OTHER -> "decided"
Promise == INSTANCE Verdict WITH
  phase <- [i \in Indices |-> Phase(windows[i])],
  evidence <- [i \in Indices |-> windows[i].prints],
  verdict <- [i \in Indices |-> windows[i].winner],
  readers <- [i \in Indices |-> windows[i].dependents]

\* Settlement implements Verdict: nothing rewrites a print or a verdict, and none comes out of turn.
KeepsPromise == Promise!Spec

\* Each Window as Tenancy sees it.
Stage(w) ==
  CASE w.state = "Unlisted" -> "Unlisted"
    [] w.state = "Closed" -> "Closed"
    [] OTHER -> Status(w)
Rests(w) == Listed(w) /\ ~w.released /\ books[w.book].resting
Stay(i) == INSTANCE Tenancy WITH
  stage <- Stage(windows[i]),
  resting <- Rests(windows[i]),
  seated <- windows[i].seated,
  released <- windows[i].released,
  ledgerClosed <- windows[i].ledgerClosed

\* Settlement implements Tenancy for every Window at once, books handed from one to the next included:
\* nothing enters a locked Window, a winner is named only after the lock, and a book, a ledger and an
\* account go back in their order and only empty.
KeepsTenancy ==
  /\ \A i \in Indices : Stay(i)!Init
  /\ [][\A i \in Indices : [Stay(i)!Next]_(Stay(i)!vars)]_vars

\* Every listed Window is settled or voided, whichever of its four prints never come.
EveryWindowIsDecided ==
  \A i \in Indices : windows[i].state = "Open" ~> Terminal(windows[i])

\* A decided Window is closed and its book given back, whoever released whose reads, unless a product
\* loses its authority with reads it has yet to release.  (Bounds: the clock still reaches the end of the
\* retention, and no product registers for ever.)
DecidedWindowCloses ==
  \A i \in Indices :
    Terminal(windows[i]) /\ windows[i].resolvedAt + Retention <= MaxTime
      ~> windows[i].state = "Closed" \/ \E p \in Products \ authorized : Owed(reading[i], p) > 0

\* record_print_switchboard.rs: "so Window N's close and Window N + 1's open are always the same
\* print".
BoundaryPrintShared ==
  \A i \in Indices \ {0} :
    Listed(windows[i]) /\ Listed(windows[i - 1]) /\ Adjacent(i)
      /\ ~Missing(windows[i - 1], "Close") /\ ~Missing(windows[i], "Open")
      => windows[i - 1].prints["Close"] = windows[i].prints["Open"]

\* record_print_switchboard.rs: "the public path then reopens so a stalled relay can't strand a
\* Window": from then to the deadline anybody can fill an empty Open.
PublicCanFillOpen ==
  \A i \in Indices :
    LET w == windows[i]
    IN  Live(w) /\ Missing(w, "Open") /\ PolicyFor(w, "Open").source = "Switchboard"
          /\ now >= w.start + PublicAfter /\ now >= w.start + PolicyFor(w, "Open").minDelay
          /\ now <= w.openDeadline
          => RecordAdmitted(i, "Open", FALSE) \/ CopyAdmitted(i)

=============================================================================
