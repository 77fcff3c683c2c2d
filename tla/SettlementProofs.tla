-------------------------- MODULE SettlementProofs --------------------------
(***************************************************************************)
(* What Settlement keeps for any policy list a ValidPolicy admits, any     *)
(* number of Windows, books and products, and any set of prices a source   *)
(* may prove.                                                              *)
(*                                                                         *)
(* The inductive invariant joins the type, the soundness of every Window   *)
(* (its terms, where its prints come from, what its verdict follows from), *)
(* the order of listing, the books' bindings and the count of readers.     *)
(* After it, every step is given a shape: nothing that was promised        *)
(* changes, or one Window is opened, filled, decided or forgotten.  The    *)
(* action properties and the refinements of Verdict and of Tenancy follow  *)
(* from the shapes.                                                        *)
(***************************************************************************)
EXTENDS Settlement, SummationProofs, FiniteSetTheorems

Prints == [Slots -> Prices \cup {NoPrint}]

SameTerms(v, w) ==
  /\ v.start = w.start /\ v.lock = w.lock /\ v.expiry = w.expiry
  /\ v.openDeadline = w.openDeadline /\ v.closeDeadline = w.closeDeadline
  /\ v.version = w.version /\ v.book = w.book
SameVerdict(v, w) ==
  /\ v.state = w.state /\ v.winner = w.winner /\ v.reason = w.reason
  /\ v.resolvedAt = w.resolvedAt /\ v.single = w.single
SameUpkeep(v, w) ==
  /\ v.dependents = w.dependents
  /\ v.released = w.released /\ v.seated = w.seated /\ v.ledgerClosed = w.ledgerClosed

LEMMA PrintsChange ==
  ASSUME NEW w \in Window, NEW ps \in Prints
  PROVE  LET v == [w EXCEPT !.prints = ps]
         IN  v \in Window /\ SameTerms(v, w) /\ SameVerdict(v, w) /\ SameUpkeep(v, w) /\ v.prints = ps
BY DEF Window, SameTerms, SameVerdict, SameUpkeep, Prints

LEMMA SeatedChange ==
  ASSUME NEW w \in Window, NEW b \in BOOLEAN
  PROVE  LET v == [w EXCEPT !.seated = b]
         IN  v \in Window /\ SameTerms(v, w) /\ SameVerdict(v, w)
             /\ v.dependents = w.dependents /\ v.released = w.released /\ v.ledgerClosed = w.ledgerClosed
             /\ v.prints = w.prints /\ v.seated = b
BY DEF Window, SameTerms, SameVerdict, SameUpkeep

LEMMA StateChange ==
  ASSUME NEW w \in Window, NEW s \in {"Unlisted", "Open", "Resolved", "Voided", "Closed"}
  PROVE  LET v == [w EXCEPT !.state = s]
         IN  v \in Window /\ SameTerms(v, w) /\ SameUpkeep(v, w) /\ v.prints = w.prints /\ v.state = s
             /\ v.winner = w.winner /\ v.reason = w.reason /\ v.single = w.single /\ v.resolvedAt = w.resolvedAt
BY DEF Window, SameTerms, SameUpkeep

\* A Window that has just been listed: open, on its terms, and otherwise blank.
NewlyListed(w, b, start, lock, expiry, v) ==
  /\ w \in Window
  /\ w.state = "Open" /\ w.start = start /\ w.lock = lock /\ w.expiry = expiry
  /\ w.version = v /\ w.book = b /\ w.dependents = 0 /\ w.winner = "None"
  /\ w.prints = EmptyWindow.prints
  /\ ~w.released /\ ~w.single /\ ~w.seated /\ ~w.ledgerClosed
  /\ (start <= lock => start <= w.openDeadline) /\ expiry <= w.closeDeadline

LEMMA NewWindowIs ==
  ASSUME NEW b \in Books, NEW start \in Nat, NEW lock \in Nat, NEW expiry \in Nat,
         NEW v \in 1..Len(PolicyList), NEW w, w = NewWindow(b, start, lock, expiry, v)
  PROVE  NewlyListed(w, b, start, lock, expiry, v)
<1> DEFINE p == PolicyList[v].primary
           od == IF p.openAdmission = UntilLock THEN lock ELSE start + p.openAdmission
           cd == expiry + p.closeAdmission
<1>1. PolicyList[v] \in PolicyVersion
  BY SeriesAssumption
<1>2. p \in PrintPolicy
  BY <1>1 DEF PolicyVersion
<1>3. p.openAdmission \in Nat \cup {UntilLock} /\ p.closeAdmission \in Nat
  BY <1>2 DEF PrintPolicy
<1>4. od \in Nat /\ cd \in Nat /\ (start <= lock => start <= od) /\ expiry <= cd
  <2>1. CASE p.openAdmission = UntilLock
    BY <1>3, <2>1
  <2>2. CASE p.openAdmission # UntilLock
    <3>1. p.openAdmission \in Nat /\ od = start + p.openAdmission
      BY <1>3, <2>2
    <3>2. \A x, y \in Nat : x + y \in Nat /\ x <= x + y
      OBVIOUS
    <3>3. od \in Nat /\ start <= od
      BY <3>1, <3>2
    <3>4. cd \in Nat /\ expiry <= cd
      BY <1>3, <3>2
    <3>5. QED
      BY <3>3, <3>4
  <2>3. QED
    BY <2>1, <2>2
<1> HIDE DEF p
<1>5. v \in Nat
  OBVIOUS
<1>6. [s \in Slots |-> NoPrint] \in Prints
  BY DEF Prints
<1> DEFINE noPrints == [s \in Slots |-> NoPrint]
<1>7. NewWindow(b, start, lock, expiry, v) =
        [EmptyWindow EXCEPT !.state = "Open", !.start = start, !.lock = lock, !.expiry = expiry,
                            !.version = v, !.book = b, !.openDeadline = od, !.closeDeadline = cd]
  BY DEF NewWindow, p
<1> HIDE DEF od, cd
<1>8. EmptyWindow \in Window
  BY <1>6 DEF EmptyWindow, Window, Prints
<1>9. /\ EmptyWindow.dependents = 0 /\ EmptyWindow.winner = "None"
      /\ EmptyWindow.prints = noPrints
      /\ ~EmptyWindow.released /\ ~EmptyWindow.single /\ ~EmptyWindow.seated /\ ~EmptyWindow.ledgerClosed
  BY DEF EmptyWindow
<1> DEFINE w1 == [EmptyWindow EXCEPT !.state = "Open", !.start = start]
           w2 == [w1 EXCEPT !.lock = lock, !.expiry = expiry]
           w3 == [w2 EXCEPT !.version = v, !.book = b]
           w4 == [w3 EXCEPT !.openDeadline = od, !.closeDeadline = cd]
<1>10. NewWindow(b, start, lock, expiry, v) = w4
  BY <1>7
<1> HIDE DEF noPrints
<1>11. w1 \in Window
      /\ w1.state = "Open" /\ w1.start = start
      /\ w1.lock = EmptyWindow.lock /\ w1.expiry = EmptyWindow.expiry
      /\ w1.openDeadline = EmptyWindow.openDeadline
      /\ w1.closeDeadline = EmptyWindow.closeDeadline /\ w1.version = EmptyWindow.version
      /\ w1.book = EmptyWindow.book /\ w1.prints = EmptyWindow.prints
      /\ w1.winner = EmptyWindow.winner /\ w1.reason = EmptyWindow.reason
      /\ w1.single = EmptyWindow.single /\ w1.resolvedAt = EmptyWindow.resolvedAt
      /\ w1.dependents = EmptyWindow.dependents /\ w1.released = EmptyWindow.released
      /\ w1.seated = EmptyWindow.seated /\ w1.ledgerClosed = EmptyWindow.ledgerClosed
  BY <1>4, <1>5, <1>8 DEF Window
<1> HIDE DEF w1
<1>12. w2 \in Window
      /\ w2.lock = lock /\ w2.expiry = expiry
      /\ w2.state = w1.state /\ w2.start = w1.start /\ w2.openDeadline = w1.openDeadline
      /\ w2.closeDeadline = w1.closeDeadline /\ w2.version = w1.version /\ w2.book = w1.book
      /\ w2.prints = w1.prints /\ w2.winner = w1.winner /\ w2.reason = w1.reason
      /\ w2.single = w1.single /\ w2.resolvedAt = w1.resolvedAt /\ w2.dependents = w1.dependents
      /\ w2.released = w1.released /\ w2.seated = w1.seated /\ w2.ledgerClosed = w1.ledgerClosed
  BY <1>4, <1>5, <1>11 DEF Window
<1> HIDE DEF w2
<1>13. w3 \in Window
      /\ w3.version = v /\ w3.book = b
      /\ w3.state = w2.state /\ w3.start = w2.start /\ w3.lock = w2.lock /\ w3.expiry = w2.expiry
      /\ w3.openDeadline = w2.openDeadline /\ w3.closeDeadline = w2.closeDeadline
      /\ w3.prints = w2.prints /\ w3.winner = w2.winner /\ w3.reason = w2.reason
      /\ w3.single = w2.single /\ w3.resolvedAt = w2.resolvedAt /\ w3.dependents = w2.dependents
      /\ w3.released = w2.released /\ w3.seated = w2.seated /\ w3.ledgerClosed = w2.ledgerClosed
  BY <1>4, <1>5, <1>12 DEF Window
<1> HIDE DEF w3
<1>14. w4 \in Window
      /\ w4.openDeadline = od /\ w4.closeDeadline = cd
      /\ w4.state = w3.state /\ w4.start = w3.start /\ w4.lock = w3.lock /\ w4.expiry = w3.expiry
      /\ w4.version = w3.version /\ w4.book = w3.book /\ w4.prints = w3.prints
      /\ w4.winner = w3.winner /\ w4.reason = w3.reason /\ w4.single = w3.single
      /\ w4.resolvedAt = w3.resolvedAt /\ w4.dependents = w3.dependents
      /\ w4.released = w3.released /\ w4.seated = w3.seated /\ w4.ledgerClosed = w3.ledgerClosed
  BY <1>4, <1>5, <1>13 DEF Window
<1> HIDE DEF w4
<1>15. w = w4
  BY <1>10
<1>16. QED
  BY <1>4, <1>9, <1>11, <1>12, <1>13, <1>14, <1>15 DEF NewlyListed

-----------------------------------------------------------------------------
(* The invariant.                                                          *)

\* The terms of a listed Window, whatever was decided about it, and where its prints come from.
WindowSound(w) ==
  /\ w.state # "Unlisted" => /\ w.version \in 1..Len(PolicyList) /\ w.book \in Books
                             /\ w.start < w.expiry
  /\ w.state = "Open" => w.winner = "None" /\ ~w.single
  /\ ResultFollows(w)
  /\ \A s \in Slots : w.prints[s] # NoPrint => w.prints[s] \in Quotes[PolicyFor(w, s).source][Boundary(w, s)]
WindowsSound == \A i \in Indices : WindowSound(windows[i])

\* Windows are listed in the order of their indices, and one not listed yet is blank.
ListedInOrder ==
  \A i \in Indices :
    /\ i < series.next <=> windows[i].state # "Unlisted"
    /\ ~(i < series.next) => windows[i] = EmptyWindow /\ reading[i] = NoReads

BoundBooksAreAdded == \A b \in Books : books[b].window # NoWindow => books[b].added
\* The counter is the sum of what the products have yet to release, and none is left of it at the close.
ReadsCounted ==
  \A i \in Indices :
    /\ windows[i].dependents = Outstanding(reading[i])
    /\ windows[i].state = "Closed" => windows[i].dependents = 0

SettlementInv ==
  /\ TypeOK
  /\ WindowsSound
  /\ ListedInOrder
  /\ BooksAccounted /\ BoundBooksAreAdded
  /\ ReadsCounted

LEMMA TypesOf ==
  ASSUME SettlementInv
  PROVE  /\ now \in Nat /\ authorized \subseteq Products /\ series.free \subseteq Books
         /\ series \in [next : Nat, lastExpiry : Nat, versions : 0..Len(PolicyList), free : SUBSET Books]
         /\ books \in [Books -> Book] /\ windows \in [Indices -> Window]
         /\ reading \in [Indices -> Reads]
BY DEF SettlementInv, TypeOK

LEMMA FreeIsFinite ==
  ASSUME NEW S \in SUBSET Books
  PROVE  IsFiniteSet(S) /\ Cardinality(S) \in Nat
BY LimitsAssumption, FS_Subset, FS_CardinalityType

LEMMA NoReadsOwed == NoReads \in Reads /\ Outstanding(NoReads) = 0
<1> DEFINE g == [p \in Products |-> Owed(NoReads, p)]
<1>1. NoReads \in Reads
  BY DEF NoReads, Reads
<1>2. \A p \in 1..NumProducts : g[p] = 0
  BY DEF NoReads, Owed, Products
<1> HIDE DEF g
<1>3. Sum(g, NumProducts) = 0
  BY <1>2, LimitsAssumption, SumZeros
<1>4. QED
  BY <1>1, <1>3 DEF Outstanding, g

-----------------------------------------------------------------------------
(* What steps that leave most of it alone keep.                            *)

\* Only the clock, the mode or the authorities move.
LEMMA OutsideStepKeeps ==
  ASSUME SettlementInv, now' \in Nat, halted' \in BOOLEAN, authorized' \subseteq Products,
         UNCHANGED <<series, books, windows, reading>>
  PROVE  SettlementInv'
<1>1. TypeOK'
  BY DEF SettlementInv, TypeOK
<1>2. WindowsSound'
  BY DEF SettlementInv, WindowsSound
<1>3. ListedInOrder'
  BY DEF SettlementInv, ListedInOrder
<1>4. BooksAccounted' /\ BoundBooksAreAdded'
  BY DEF SettlementInv, BooksAccounted, BoundBooksAreAdded
<1>5. ReadsCounted'
  BY DEF SettlementInv, ReadsCounted
<1>6. QED
  BY <1>1, <1>2, <1>3, <1>4, <1>5 DEF SettlementInv

\* One listed Window changes, and stays listed, on its book and under its readers.
LEMMA WindowStepKeeps ==
  ASSUME SettlementInv, NEW i \in Indices, NEW v \in Window, WindowSound(v),
         windows' = [windows EXCEPT ![i] = v],
         Listed(windows[i]), Listed(v), v.book = windows[i].book, v.released = windows[i].released,
         v.dependents = windows[i].dependents,
         UNCHANGED <<now, halted, authorized, series, books, reading>>
  PROVE  SettlementInv'
<1>1. windows \in [Indices -> Window]
  BY TypesOf
<1>2. windows' \in [Indices -> Window] /\ windows'[i] = v /\ \A j \in Indices : j # i => windows'[j] = windows[j]
  BY <1>1
<1>3. TypeOK'
  BY <1>2 DEF SettlementInv, TypeOK
<1>4. WindowsSound'
  BY <1>2 DEF SettlementInv, WindowsSound
<1>5. windows[i].state # "Unlisted" /\ v.state # "Unlisted" /\ windows[i].state # "Closed" /\ v.state # "Closed"
  BY DEF Listed
<1>6. ListedInOrder'
  BY <1>2, <1>5 DEF SettlementInv, ListedInOrder
<1>7. BooksAccounted'
  <2>1. \A j \in Indices : /\ Listed(windows'[j]) <=> Listed(windows[j])
                           /\ windows'[j].book = windows[j].book
                           /\ windows'[j].released = windows[j].released
    BY <1>2
  <2>2. \A b \in Books : books[b].window # NoWindow => books[b].window \in Indices
    BY TypesOf DEF Book
  <2>3. QED
    BY <2>1, <2>2 DEF SettlementInv, BooksAccounted
<1>8. BoundBooksAreAdded'
  BY DEF SettlementInv, BoundBooksAreAdded
<1>9. ReadsCounted'
  BY <1>2, <1>5 DEF SettlementInv, ReadsCounted
<1>10. QED
  BY <1>3, <1>4, <1>6, <1>7, <1>8, <1>9 DEF SettlementInv

\* A Window whose terms, prints and verdict stay is as sound as it was.
LEMMA SoundKept ==
  ASSUME NEW w \in Window, NEW v \in Window, WindowSound(w), SameTerms(v, w), v.prints = w.prints,
         v.state = w.state, v.winner = w.winner, v.reason = w.reason, v.single = w.single
  PROVE  WindowSound(v)
<1>1. ResultFollows(v)
  BY DEF WindowSound, ResultFollows, Has, Checked, Contradicted, SameTerms
<1>2. \A s \in Slots : PolicyFor(v, s) = PolicyFor(w, s) /\ Boundary(v, s) = Boundary(w, s)
  BY DEF PolicyFor, Policy, Boundary, SameTerms
<1>3. QED
  BY <1>1, <1>2 DEF WindowSound, SameTerms

\* The times of a listed Window and its policy's periods are numbers.
LEMMA NumbersOf ==
  ASSUME SettlementInv, NEW i \in Indices, windows[i].state # "Unlisted"
  PROVE  LET w == windows[i]
         IN  /\ w.start \in Nat /\ w.lock \in Nat /\ w.expiry \in Nat
             /\ w.openDeadline \in Nat /\ w.closeDeadline \in Nat
             /\ Policy(w).checkAdmission \in Nat
             /\ \A s \in Slots : /\ Boundary(w, s) \in Nat /\ PolicyFor(w, s).minDelay \in Nat
                                 /\ Deadline(w, s) \in Nat
<1> DEFINE w == windows[i]
<1>1. w \in Window /\ w.version \in 1..Len(PolicyList)
  BY TypesOf DEF SettlementInv, WindowsSound, WindowSound
<1>2. PolicyList[w.version] \in PolicyVersion
  BY <1>1, SeriesAssumption
<1>3. Policy(w).checkAdmission \in Nat /\ Policy(w).check \in PrintPolicy /\ Policy(w).primary \in PrintPolicy
  BY <1>2 DEF Policy, PolicyVersion
<1>4. /\ w.start \in Nat /\ w.lock \in Nat /\ w.expiry \in Nat
      /\ w.openDeadline \in Nat /\ w.closeDeadline \in Nat
  BY <1>1 DEF Window
<1> HIDE DEF w
<1>5. ASSUME NEW s \in Slots
      PROVE  Boundary(w, s) \in Nat /\ PolicyFor(w, s).minDelay \in Nat /\ Deadline(w, s) \in Nat
  <2>1. PolicyFor(w, s) \in PrintPolicy
    BY <1>3 DEF PolicyFor
  <2>2. Boundary(w, s) \in Nat
    BY <1>4 DEF Boundary
  <2>3. QED
    BY <1>3, <1>4, <2>1, <2>2 DEF PrintPolicy, Deadline
<1>6. QED
  BY <1>3, <1>4, <1>5 DEF w

-----------------------------------------------------------------------------
(* Prints.                                                                 *)

\* A Window that takes prints of its own boundaries while it is open stays sound.
LEMMA PrintingKeeps ==
  ASSUME SettlementInv, NEW i \in Indices, NEW ps \in Prints, Live(windows[i]),
         windows' = [windows EXCEPT ![i] = [windows[i] EXCEPT !.prints = ps]],
         \A s \in Slots : \/ ps[s] = windows[i].prints[s]
                          \/ ps[s] \in Quotes[PolicyFor(windows[i], s).source][Boundary(windows[i], s)],
         UNCHANGED <<now, halted, authorized, series, books, reading>>
  PROVE  SettlementInv'
<1> DEFINE w == windows[i]
           v == [w EXCEPT !.prints = ps]
<1>1. w \in Window /\ WindowSound(w)
  BY TypesOf DEF SettlementInv, WindowsSound
<1> HIDE DEF w
<1>2. v \in Window /\ SameTerms(v, w) /\ SameVerdict(v, w) /\ SameUpkeep(v, w) /\ v.prints = ps
  BY <1>1, PrintsChange
<1> HIDE DEF v
<1>3. w.state = "Open" /\ v.state = "Open"
  BY <1>2 DEF Live, SameVerdict, w
<1>4. \A s \in Slots : PolicyFor(v, s) = PolicyFor(w, s) /\ Boundary(v, s) = Boundary(w, s)
  BY <1>2 DEF PolicyFor, Policy, Boundary, SameTerms
<1>5. \A s \in Slots : v.prints[s] # NoPrint => v.prints[s] \in Quotes[PolicyFor(v, s).source][Boundary(v, s)]
  BY <1>1, <1>2, <1>4 DEF WindowSound, w
<1>6. ResultFollows(v)
  BY <1>3 DEF ResultFollows
<1>7. WindowSound(v)
  BY <1>1, <1>2, <1>3, <1>5, <1>6 DEF WindowSound, SameTerms, SameVerdict
<1>8. QED
  BY <1>2, <1>3, <1>7, WindowStepKeeps DEF Listed, SameTerms, SameUpkeep, v, w

LEMMA RecordPrintKeeps ==
  ASSUME SettlementInv, NEW i \in Indices, NEW s \in Slots, NEW attestor \in BOOLEAN, NEW p \in Prices,
         RecordPrint(i, s, attestor, p)
  PROVE  SettlementInv'
<1> DEFINE ps == [windows[i].prints EXCEPT ![s] = p]
<1>1. windows \in [Indices -> Window] /\ windows[i] \in Window
  BY TypesOf
<1>2. windows[i].prints \in Prints
  BY <1>1 DEF Window, Prints
<1>3. ps \in Prints
  BY <1>2 DEF Prints
<1>4. windows' = [windows EXCEPT ![i] = [windows[i] EXCEPT !.prints = ps]]
  BY <1>1 DEF RecordPrint
<1>5. Live(windows[i])
  BY DEF RecordPrint, RecordAdmitted, Admits
<1>6. \A t \in Slots : \/ ps[t] = windows[i].prints[t]
                       \/ ps[t] \in Quotes[PolicyFor(windows[i], t).source][Boundary(windows[i], t)]
  BY <1>2 DEF RecordPrint, Prints
<1>7. UNCHANGED <<now, halted, authorized, series, books, reading>>
  BY DEF RecordPrint
<1> HIDE DEF ps
<1>8. QED
  BY <1>3, <1>4, <1>5, <1>6, <1>7, PrintingKeeps

\* A copied print is one of the same source and the same instant.
LEMMA CopyOpenKeeps ==
  ASSUME SettlementInv, NEW i \in Indices, CopyOpen(i)
  PROVE  SettlementInv'
<1> DEFINE w == windows[i]
           u == windows[i - 1]
           ps == [w.prints EXCEPT !["Open"] = u.prints["Close"],
                                  !["CheckOpen"] = IF CopiesCheck(i) THEN u.prints["CheckClose"]
                                                   ELSE w.prints["CheckOpen"]]
<1>1. i - 1 \in Indices
  BY LimitsAssumption DEF CopyOpen, CopyAdmitted, Indices
<1>2. /\ windows \in [Indices -> Window] /\ w \in Window /\ u \in Window
      /\ WindowSound(u) /\ w.prints \in Prints /\ u.prints \in Prints
  <2>1. windows \in [Indices -> Window] /\ w \in Window /\ u \in Window
    BY <1>1, TypesOf
  <2>2. WindowSound(u)
    BY <1>1 DEF SettlementInv, WindowsSound
  <2>3. QED
    BY <2>1, <2>2 DEF Window, Prints
<1>3. {"Open", "Close", "CheckOpen", "CheckClose"} = Slots
  BY DEF Slots
<1>4. ps \in Prints
  BY <1>2, <1>3 DEF Prints
<1>5. windows' = [windows EXCEPT ![i] = [windows[i] EXCEPT !.prints = ps]]
  BY <1>2 DEF CopyOpen
<1>6. Live(w) /\ u.expiry = w.start /\ u.version = w.version /\ u.prints["Close"] # NoPrint
  BY DEF CopyOpen, CopyAdmitted, Adjacent, Missing
<1>7. CopiesCheck(i) => u.prints["CheckClose"] # NoPrint
  BY DEF CopiesCheck, Missing
<1>8. /\ ps["Open"] = u.prints["Close"]
      /\ ps["CheckOpen"] = IF CopiesCheck(i) THEN u.prints["CheckClose"] ELSE w.prints["CheckOpen"]
      /\ ps["Close"] = w.prints["Close"] /\ ps["CheckClose"] = w.prints["CheckClose"]
  BY <1>2, <1>3 DEF Prints
<1>9. /\ PolicyFor(u, "Close") = PolicyFor(w, "Open") /\ Boundary(u, "Close") = Boundary(w, "Open")
      /\ PolicyFor(u, "CheckClose") = PolicyFor(w, "CheckOpen")
      /\ Boundary(u, "CheckClose") = Boundary(w, "CheckOpen")
  BY <1>6 DEF PolicyFor, Policy, Boundary
<1>10. /\ u.prints["Close"] \in Quotes[PolicyFor(w, "Open").source][Boundary(w, "Open")]
       /\ CopiesCheck(i) =>
            u.prints["CheckClose"] \in Quotes[PolicyFor(w, "CheckOpen").source][Boundary(w, "CheckOpen")]
  BY <1>2, <1>3, <1>6, <1>7, <1>9 DEF WindowSound
<1>11. UNCHANGED <<now, halted, authorized, series, books, reading>>
  BY DEF CopyOpen
<1> HIDE DEF ps
<1>12. ASSUME NEW s \in Slots
       PROVE  ps[s] = w.prints[s] \/ ps[s] \in Quotes[PolicyFor(w, s).source][Boundary(w, s)]
  BY <1>3, <1>8, <1>10
<1>13. QED
  BY <1>4, <1>5, <1>6, <1>11, <1>12, PrintingKeeps

-----------------------------------------------------------------------------
(* Decisions.                                                              *)

\* v is w once a verdict was given: the one that was fixed, if one was, and on the primary source
\* alone only when no check print is waited for any more.
DecidedNow(v, w) ==
  /\ Live(w) /\ SameTerms(v, w) /\ v.prints = w.prints /\ Terminal(v)
  /\ v.winner \in {"Yes", "No", "Void"}
  /\ ResultFollows(v) /\ (v.winner = "Void" <=> v.state = "Voided")
  /\ v.single => HasCheck(w) /\ now > CheckBound(w)
  /\ Settleable(w) => v.winner = Settlement(w).winner
  /\ v.state = "Resolved" => Settleable(w)
  /\ ~Settleable(w) => Voidable(w) /\ v.reason = "MissingPrint"

\* v is w once this was decided about it.
DecidedAs(v, w, s, win, r, one) ==
  /\ SameTerms(v, w) /\ v.prints = w.prints
  /\ v.state = s /\ v.winner = win /\ v.reason = r /\ v.single = one

ResolvesTo(i, s, win, r, one) ==
  windows' = [windows EXCEPT ![i].state = s, ![i].winner = win, ![i].reason = r,
                             ![i].single = one, ![i].resolvedAt = now]

\* What Resolve writes, field by field.
LEMMA ResolveWrites ==
  ASSUME SettlementInv, NEW i \in Indices, NEW s \in {"Resolved", "Voided"},
         NEW win \in {"Yes", "No", "Void"}, NEW r \in {"None", "MissingPrint", "CrossCheckDivergence"},
         NEW one, one \in BOOLEAN, ResolvesTo(i, s, win, r, one)
  PROVE  \E v \in Window : /\ windows' = [windows EXCEPT ![i] = v]
                           /\ DecidedAs(v, windows[i], s, win, r, one) /\ SameUpkeep(v, windows[i])
<1> DEFINE w == windows[i]
<1>0. PICK v : v = [w EXCEPT !.state = s, !.winner = win, !.reason = r, !.single = one, !.resolvedAt = now]
  OBVIOUS
<1>1. windows \in [Indices -> Window] /\ w \in Window /\ now \in Nat
  BY TypesOf
<1>2. windows' = [windows EXCEPT ![i] = v]
  BY <1>0, <1>1 DEF ResolvesTo
<1> HIDE DEF w
<1>3. v \in Window /\ SameTerms(v, w) /\ SameUpkeep(v, w)
      /\ v.prints = w.prints /\ v.state = s /\ v.winner = win /\ v.reason = r /\ v.single = one
  <2>a. s \in {"Unlisted", "Open", "Resolved", "Voided", "Closed"} /\ win \in {"None", "Yes", "No", "Void"}
    OBVIOUS
  <2> DEFINE v1 == [w EXCEPT !.state = s]
             v2 == [v1 EXCEPT !.winner = win]
             v3 == [v2 EXCEPT !.reason = r]
             v4 == [v3 EXCEPT !.single = one]
             v5 == [v4 EXCEPT !.resolvedAt = now]
  <2>0. v = v5
    BY <1>0
  <2>1. v1 \in Window /\ SameTerms(v1, w) /\ SameUpkeep(v1, w) /\ v1.prints = w.prints /\ v1.state = s
    BY <1>1, <2>a, StateChange
  <2> HIDE DEF v1
  <2>2. v2 \in Window /\ SameTerms(v2, v1) /\ SameUpkeep(v2, v1) /\ v2.prints = v1.prints
        /\ v2.state = v1.state /\ v2.winner = win
    BY <2>a, <2>1 DEF Window, SameTerms, SameUpkeep
  <2> HIDE DEF v2
  <2>3. v3 \in Window /\ SameTerms(v3, v2) /\ SameUpkeep(v3, v2) /\ v3.prints = v2.prints
        /\ v3.state = v2.state /\ v3.winner = v2.winner /\ v3.reason = r
    BY <2>2 DEF Window, SameTerms, SameUpkeep
  <2> HIDE DEF v3
  <2>4. v4 \in Window /\ SameTerms(v4, v3) /\ SameUpkeep(v4, v3) /\ v4.prints = v3.prints
        /\ v4.state = v3.state /\ v4.winner = v3.winner /\ v4.reason = v3.reason /\ v4.single = one
    BY <2>3 DEF Window, SameTerms, SameUpkeep
  <2> HIDE DEF v4
  <2>5. v5 \in Window /\ SameTerms(v5, v4) /\ SameUpkeep(v5, v4) /\ v5.prints = v4.prints
        /\ v5.state = v4.state /\ v5.winner = v4.winner /\ v5.reason = v4.reason
        /\ v5.single = v4.single /\ v5.resolvedAt = now
    BY <1>1, <2>4 DEF Window, SameTerms, SameUpkeep
  <2> HIDE DEF v5
  <2>6. SameTerms(v5, w) /\ SameUpkeep(v5, w)
    BY <2>1, <2>2, <2>3, <2>4, <2>5 DEF SameTerms, SameUpkeep
  <2>7. v5.prints = w.prints /\ v5.state = s /\ v5.winner = win /\ v5.reason = r /\ v5.single = one
        /\ v5.resolvedAt = now
    BY <2>1, <2>2, <2>3, <2>4, <2>5
  <2>8. QED
    BY <2>0, <2>5, <2>6, <2>7
<1>4. QED
  BY <1>2, <1>3 DEF DecidedAs, w

\* A verdict that follows from the prints leaves the Window sound.
LEMMA DecidingKeeps ==
  ASSUME SettlementInv, NEW i \in Indices, NEW v \in Window, DecidedNow(v, windows[i]),
         SameUpkeep(v, windows[i]), windows' = [windows EXCEPT ![i] = v],
         UNCHANGED <<now, halted, authorized, series, books, reading>>
  PROVE  SettlementInv'
<1> DEFINE w == windows[i]
<1>1. w \in Window /\ WindowSound(w)
  BY TypesOf DEF SettlementInv, WindowsSound
<1>2. SameTerms(v, w) /\ v.prints = w.prints /\ ResultFollows(v) /\ Terminal(v) /\ Live(w)
  BY DEF DecidedNow
<1> HIDE DEF w
<1>3. \A t \in Slots : PolicyFor(v, t) = PolicyFor(w, t) /\ Boundary(v, t) = Boundary(w, t)
  BY <1>2 DEF PolicyFor, Policy, Boundary, SameTerms
<1>4. w.state = "Open" /\ v.state # "Open" /\ v.state # "Unlisted"
  BY <1>2 DEF Live, Terminal
<1>5. \A t \in Slots : v.prints[t] # NoPrint => v.prints[t] \in Quotes[PolicyFor(v, t).source][Boundary(v, t)]
  BY <1>1, <1>2, <1>3 DEF WindowSound
<1>6. v.version \in 1..Len(PolicyList) /\ v.book \in Books /\ v.start < v.expiry
  BY <1>1, <1>2, <1>4 DEF WindowSound, SameTerms
<1>7. WindowSound(v)
  BY <1>2, <1>4, <1>5, <1>6 DEF WindowSound
<1>8. Listed(w) /\ Listed(v) /\ v.book = w.book
  BY <1>2 DEF Live, Terminal, Listed, SameTerms
<1>9. QED
  BY <1>7, <1>8, WindowStepKeeps DEF SameUpkeep, w

\* A void is given only while nothing fixed another verdict.
LEMMA VoidExpiredDecides ==
  ASSUME SettlementInv, NEW i \in Indices, VoidExpired(i)
  PROVE  \E v \in Window : /\ windows' = [windows EXCEPT ![i] = v]
                           /\ DecidedNow(v, windows[i]) /\ SameUpkeep(v, windows[i])
<1>1. Live(windows[i]) /\ Voidable(windows[i])
  BY DEF VoidExpired
<1>2. ResolvesTo(i, "Voided", "Void", "MissingPrint", FALSE)
  BY DEF VoidExpired, Resolve, Voided, ResolvesTo
<1>3. PICK v \in Window : /\ windows' = [windows EXCEPT ![i] = v]
                         /\ DecidedAs(v, windows[i], "Voided", "Void", "MissingPrint", FALSE)
                         /\ SameUpkeep(v, windows[i])
  BY <1>2, ResolveWrites
<1>4. ~Has(windows[i], "Open") \/ ~Has(windows[i], "Close")
  BY <1>1 DEF Voidable, Missing, Has
<1>5. ResultFollows(v)
  BY <1>3, <1>4 DEF ResultFollows, Has, DecidedAs
<1>6. ~Settleable(windows[i])
  BY <1>4 DEF Settleable, Missing, Has
<1>7. DecidedNow(v, windows[i])
  BY <1>1, <1>3, <1>5, <1>6 DEF DecidedNow, DecidedAs, Terminal
<1>8. QED
  BY <1>3, <1>7

\* A settlement gives the verdict that was fixed.
LEMMA SettleWindowDecides ==
  ASSUME SettlementInv, NEW i \in Indices, SettleWindow(i)
  PROVE  \E v \in Window : /\ windows' = [windows EXCEPT ![i] = v]
                           /\ DecidedNow(v, windows[i]) /\ SameUpkeep(v, windows[i])
<1> DEFINE w == windows[i]
           disputed == HasCheck(w) /\ Disputed(w)
           one == HasCheck(w) /\ ~BothChecks(w)
           win == IF w.prints["Close"] >= w.prints["Open"] THEN "Yes" ELSE "No"
<1>1. Live(w) /\ Has(w, "Open") /\ Has(w, "Close")
  BY DEF SettleWindow, Settleable, Missing, Has
<1>2. Settleable(w) /\ (one => HasCheck(w) /\ now > CheckBound(w))
  BY DEF SettleWindow, Settleable
<1>3. Checked(w) <=> HasCheck(w)
  BY DEF Checked, HasCheck, Policy
<1>4. Contradicted(w) <=> Disputed(w)
  BY DEF Contradicted, Disputed, Has, Missing, Policy
<1>5. w.prints["Open"] \in Nat /\ w.prints["Close"] \in Nat
  <2>1. w \in Window
    BY TypesOf
  <2>2. w.prints \in Prints
    BY <2>1 DEF Window, Prints
  <2>3. Prices \cup {NoPrint} \subseteq Nat
    BY SeriesAssumption DEF NoPrint
  <2>4. QED
    BY <2>2, <2>3 DEF Slots, Prints
<1>6. CASE disputed
  <2>1. ResolvesTo(i, "Voided", "Void", "CrossCheckDivergence", FALSE)
    BY <1>6 DEF SettleWindow, Resolve, Settlement, Voided, ResolvesTo
  <2>2. PICK v \in Window : /\ windows' = [windows EXCEPT ![i] = v]
                           /\ DecidedAs(v, windows[i], "Voided", "Void", "CrossCheckDivergence", FALSE)
                           /\ SameUpkeep(v, windows[i])
    BY <2>1, ResolveWrites
  <2>3. ResultFollows(v)
    <3>1. Checked(w) /\ Contradicted(w)
      BY <1>3, <1>4, <1>6
    <3>2. Checked(v) /\ Contradicted(v)
      BY <2>2, <3>1 DEF Checked, Contradicted, Has, SameTerms, DecidedAs
    <3>3. QED
      BY <2>2, <3>2 DEF ResultFollows, DecidedAs
  <2>4. Settlement(w).winner = "Void"
    BY <1>6 DEF Settlement, Voided
  <2>5. DecidedNow(v, windows[i])
    <3> HIDE DEF disputed
    <3>1. QED
      BY <1>1, <1>2, <2>2, <2>3, <2>4 DEF DecidedNow, DecidedAs, Terminal
  <2>6. QED
    BY <2>2, <2>5
<1>7. CASE ~disputed
  <2>1. /\ Settlement(w).state = "Resolved" /\ Settlement(w).winner = win
        /\ Settlement(w).reason = "None" /\ Settlement(w).single = one
    BY <1>7 DEF Settlement
  <2>2. ResolvesTo(i, "Resolved", win, "None", one)
    <3> HIDE DEF win, one
    <3>1. QED
      BY <2>1 DEF SettleWindow, Resolve, ResolvesTo
  <2>3. win \in {"Yes", "No"} /\ win \in {"Yes", "No", "Void"} /\ one \in BOOLEAN
    OBVIOUS
  <2>4. PICK v \in Window : /\ windows' = [windows EXCEPT ![i] = v]
                           /\ DecidedAs(v, windows[i], "Resolved", win, "None", one)
                           /\ SameUpkeep(v, windows[i])
    <3> HIDE DEF win, one
    <3>1. QED
      BY <2>2, <2>3, ResolveWrites
  <2>5. ResultFollows(v)
    <3>1. Has(v, "Open") /\ Has(v, "Close")
      BY <1>1, <2>4 DEF Has, DecidedAs
    <3>2. v.winner = (IF v.prints["Open"] <= v.prints["Close"] THEN "Yes" ELSE "No")
      BY <1>5, <2>4 DEF DecidedAs
    <3>3. Checked(v) <=> HasCheck(w)
      BY <1>3, <2>4 DEF Checked, SameTerms, DecidedAs
    <3>4. BothChecks(w) <=> Has(v, "CheckOpen") /\ Has(v, "CheckClose")
      BY <2>4 DEF BothChecks, Missing, Has, DecidedAs
    <3>5. Contradicted(v) <=> Disputed(w)
      BY <1>4, <2>4 DEF Contradicted, Has, SameTerms, DecidedAs
    <3>6. v.single <=> HasCheck(w) /\ ~BothChecks(w)
      BY <2>4 DEF DecidedAs
    <3>7. QED
      BY <1>7, <2>4, <3>1, <3>2, <3>3, <3>4, <3>5, <3>6 DEF ResultFollows, DecidedAs
  <2>6. DecidedNow(v, windows[i])
    <3> HIDE DEF win, one
    <3>1. QED
      BY <1>1, <1>2, <2>1, <2>3, <2>4, <2>5 DEF DecidedNow, DecidedAs, Terminal
  <2>7. QED
    BY <2>4, <2>6
<1>8. QED
  BY <1>6, <1>7

LEMMA ResolvingKeeps ==
  ASSUME SettlementInv, NEW i \in Indices, Resolving(i)
  PROVE  SettlementInv'
<1>1. UNCHANGED <<now, halted, authorized, series, books, reading>>
  BY DEF Resolving, VoidExpired, SettleWindow, Resolve
<1>2. QED
  BY <1>1, VoidExpiredDecides, SettleWindowDecides, DecidingKeeps DEF Resolving

-----------------------------------------------------------------------------
(* Seats and the ledger.                                                   *)

LEMMA EmptySeatsKeeps ==
  ASSUME SettlementInv, NEW i \in Indices, RedeemSeats(i) \/ WithdrawSeats(i)
  PROVE  SettlementInv'
<1> DEFINE w == windows[i]
           v == [w EXCEPT !.seated = FALSE]
<1>1. windows \in [Indices -> Window] /\ w \in Window /\ WindowSound(w)
  BY TypesOf DEF SettlementInv, WindowsSound
<1>2. Listed(w) /\ windows' = [windows EXCEPT ![i] = v]
      /\ UNCHANGED <<now, halted, authorized, series, books, reading>>
  BY <1>1 DEF RedeemSeats, WithdrawSeats, EmptySeats, Terminal, Live, Listed
<1> HIDE DEF w
<1>3. v \in Window /\ SameTerms(v, w) /\ SameVerdict(v, w) /\ v.dependents = w.dependents
      /\ v.released = w.released /\ v.prints = w.prints
  BY <1>1, SeatedChange
<1> HIDE DEF v
<1>4. WindowSound(v)
  BY <1>1, <1>3, SoundKept DEF SameVerdict
<1>5. Listed(w) /\ Listed(v) /\ v.book = w.book
  BY <1>2, <1>3 DEF Listed, SameVerdict, SameTerms
<1>6. QED
  BY <1>2, <1>3, <1>4, <1>5, WindowStepKeeps DEF w

LEMMA LedgerChange ==
  ASSUME NEW w \in Window
  PROVE  LET v == [w EXCEPT !.ledgerClosed = TRUE]
         IN  v \in Window /\ SameTerms(v, w) /\ SameVerdict(v, w)
             /\ v.dependents = w.dependents /\ v.released = w.released /\ v.prints = w.prints
BY DEF Window, SameTerms, SameVerdict

LEMMA CloseLedgerKeeps ==
  ASSUME SettlementInv, NEW i \in Indices, CloseLedger(i)
  PROVE  SettlementInv'
<1> DEFINE w == windows[i]
           v == [w EXCEPT !.ledgerClosed = TRUE]
<1>1. windows \in [Indices -> Window] /\ w \in Window /\ WindowSound(w)
  BY TypesOf DEF SettlementInv, WindowsSound
<1>2. Terminal(w) /\ windows' = [windows EXCEPT ![i] = v]
      /\ UNCHANGED <<now, halted, authorized, series, books, reading>>
  BY <1>1 DEF CloseLedger
<1> HIDE DEF w
<1>3. v \in Window /\ SameTerms(v, w) /\ SameVerdict(v, w) /\ v.dependents = w.dependents
      /\ v.released = w.released /\ v.prints = w.prints
  BY <1>1, LedgerChange
<1> HIDE DEF v
<1>4. WindowSound(v)
  BY <1>1, <1>3, SoundKept DEF SameVerdict
<1>5. Listed(w) /\ Listed(v) /\ v.book = w.book
  BY <1>2, <1>3 DEF Terminal, Listed, SameVerdict, SameTerms
<1>6. QED
  BY <1>2, <1>3, <1>4, <1>5, WindowStepKeeps DEF w

-----------------------------------------------------------------------------
(* Books.                                                                  *)

\* Orders come and go on bound books; nothing else about books and Windows moves.
LEMMA BooksKept ==
  ASSUME SettlementInv, series' = series,
         \A b \in Books : /\ books'[b].added = books[b].added /\ books'[b].window = books[b].window
                          /\ books'[b].resting => books[b].window # NoWindow,
         \A j \in Indices : /\ Listed(windows'[j]) <=> Listed(windows[j])
                            /\ windows'[j].book = windows[j].book
                            /\ windows'[j].released = windows[j].released
  PROVE  BooksAccounted' /\ BoundBooksAreAdded'
<1>1. \A b \in Books : books[b].window # NoWindow => books[b].window \in Indices
  BY TypesOf DEF Book
<1>2. \A j \in Indices : Listed(windows[j]) => windows[j].book \in Books
  BY DEF SettlementInv, WindowsSound, WindowSound, Listed
<1>3. BooksAccounted'
  BY <1>1, <1>2 DEF SettlementInv, BooksAccounted
<1>4. BoundBooksAreAdded'
  BY DEF SettlementInv, BoundBooksAreAdded
<1>5. QED
  BY <1>3, <1>4

LEMMA RestingChange ==
  ASSUME NEW b \in Books, NEW rests, rests \in BOOLEAN, books \in [Books -> Book],
         books' = [books EXCEPT ![b].resting = rests]
  PROVE  /\ books' \in [Books -> Book]
         /\ \A c \in Books : books'[c].added = books[c].added /\ books'[c].window = books[c].window
         /\ \A c \in Books : c # b => books'[c] = books[c]
         /\ books'[b].resting = rests
<1>1. books[b] \in Book
  OBVIOUS
<1>2. books' = [books EXCEPT ![b] = [books[b] EXCEPT !.resting = rests]]
  OBVIOUS
<1>3. [books[b] EXCEPT !.resting = rests] \in Book
  BY <1>1 DEF Book
<1>4. [books[b] EXCEPT !.resting = rests].added = books[b].added
  BY <1>1 DEF Book
<1>5. [books[b] EXCEPT !.resting = rests].window = books[b].window
  BY <1>1 DEF Book
<1>6. [books[b] EXCEPT !.resting = rests].resting = rests
  BY <1>1 DEF Book
<1>7. QED
  BY <1>2, <1>3, <1>4, <1>5, <1>6

LEMMA TradeKeeps ==
  ASSUME SettlementInv, NEW i \in Indices, Trade(i)
  PROVE  SettlementInv'
<1> DEFINE w == windows[i]
           b == w.book
<1>1. windows \in [Indices -> Window] /\ w \in Window /\ WindowSound(w) /\ books \in [Books -> Book]
  BY TypesOf DEF SettlementInv, WindowsSound
<1>4. PICK rests \in BOOLEAN, seats \in BOOLEAN :
        /\ books' = [books EXCEPT ![b].resting = rests]
        /\ windows' = [windows EXCEPT ![i].seated = seats]
  BY DEF Trade
<1> DEFINE v == [w EXCEPT !.seated = seats]
<1>2. /\ Listed(w) /\ books[b].window = i
      /\ windows' = [windows EXCEPT ![i] = v]
      /\ UNCHANGED <<now, halted, authorized, series, reading>>
  BY <1>1, <1>4 DEF Trade
<1>3. b \in Books
  BY <1>1, <1>2 DEF WindowSound, Listed
<1> HIDE DEF w, b
<1>6. /\ books' \in [Books -> Book]
      /\ \A c \in Books : books'[c].added = books[c].added /\ books'[c].window = books[c].window
      /\ \A c \in Books : c # b => books'[c] = books[c]
  BY <1>1, <1>3, <1>4, RestingChange
<1>7. v \in Window /\ SameTerms(v, w) /\ SameVerdict(v, w) /\ v.dependents = w.dependents
      /\ v.released = w.released /\ v.prints = w.prints
  BY <1>1, SeatedChange
<1> HIDE DEF v
<1>8. /\ windows' \in [Indices -> Window] /\ windows'[i] = v
      /\ \A j \in Indices : j # i => windows'[j] = windows[j]
  BY <1>1, <1>2, <1>7
<1>9. i # NoWindow
  BY DEF Indices, NoWindow
<1>10. WindowSound(v) /\ Listed(v)
  BY <1>1, <1>2, <1>7, SoundKept DEF SameVerdict, Listed
<1>11. TypeOK'
  BY <1>2, <1>6, <1>8 DEF SettlementInv, TypeOK
<1>12. WindowsSound'
  BY <1>8, <1>10 DEF SettlementInv, WindowsSound
<1>13. ListedInOrder'
  BY <1>2, <1>8, <1>10 DEF SettlementInv, ListedInOrder, Listed, w
<1>14. BooksAccounted' /\ BoundBooksAreAdded'
  <2>1. \A c \in Books : books'[c].resting => books[c].window # NoWindow
    BY <1>2, <1>6, <1>9 DEF SettlementInv, BooksAccounted
  <2>2. \A j \in Indices : /\ Listed(windows'[j]) <=> Listed(windows[j])
                           /\ windows'[j].book = windows[j].book
                           /\ windows'[j].released = windows[j].released
    BY <1>2, <1>7, <1>8, <1>10 DEF SameTerms, w
  <2>3. series' = series
    BY <1>2
  <2>4. QED
    BY <1>6, <2>1, <2>2, <2>3, BooksKept
<1>15. ReadsCounted'
  BY <1>2, <1>7, <1>8, <1>10 DEF SettlementInv, ReadsCounted, Listed, w
<1>16. QED
  BY <1>11, <1>12, <1>13, <1>14, <1>15 DEF SettlementInv

LEMMA EmptyBookKeeps ==
  ASSUME SettlementInv, NEW i \in Indices, EmptyBook(i)
  PROVE  SettlementInv'
<1> DEFINE b == windows[i].book
<1>1. windows[i] \in Window /\ WindowSound(windows[i]) /\ books \in [Books -> Book]
  BY TypesOf DEF SettlementInv, WindowsSound
<1>2. /\ Listed(windows[i]) /\ books' = [books EXCEPT ![b].resting = FALSE]
      /\ UNCHANGED <<now, halted, authorized, series, windows, reading>>
  BY DEF EmptyBook
<1>3. b \in Books
  BY <1>1, <1>2 DEF WindowSound, Listed
<1> HIDE DEF b
<1>4. /\ books' \in [Books -> Book]
      /\ \A c \in Books : books'[c].added = books[c].added /\ books'[c].window = books[c].window
      /\ \A c \in Books : c # b => books'[c] = books[c]
      /\ books'[b].resting = FALSE
  BY <1>1, <1>2, <1>3, RestingChange
<1>5. TypeOK'
  BY <1>2, <1>4 DEF SettlementInv, TypeOK
<1>6. \A c \in Books : books'[c].resting => books[c].window # NoWindow
  BY <1>4 DEF SettlementInv, BooksAccounted
<1>7. BooksAccounted' /\ BoundBooksAreAdded'
  BY <1>2, <1>4, <1>6, BooksKept
<1>8. WindowsSound' /\ ListedInOrder' /\ ReadsCounted'
  BY <1>2 DEF SettlementInv, WindowsSound, ListedInOrder, ReadsCounted
<1>9. QED
  BY <1>5, <1>7, <1>8 DEF SettlementInv

LEMMA AddBookKeeps ==
  ASSUME SettlementInv, NEW b \in Books, AddBook(b)
  PROVE  SettlementInv'
<1>1. /\ ~books[b].added /\ Cardinality(series.free) < MaxFreeBooks
      /\ books' = [books EXCEPT ![b].added = TRUE]
      /\ series' = [series EXCEPT !.free = @ \cup {b}]
      /\ UNCHANGED <<now, halted, authorized, windows, reading>>
  BY DEF AddBook
<1>2. books \in [Books -> Book] /\ books[b] \in Book /\ series.free \in SUBSET Books
  BY TypesOf
<1>3. books[b].window = NoWindow
  BY <1>1 DEF SettlementInv, BoundBooksAreAdded
<1>4. b \notin series.free
  BY <1>1 DEF SettlementInv, BooksAccounted
<1>5. /\ books' \in [Books -> Book]
      /\ \A c \in Books : c # b => books'[c] = books[c]
      /\ books'[b].added /\ books'[b].window = books[b].window /\ books'[b].resting = books[b].resting
  <2>1. books' = [books EXCEPT ![b] = [books[b] EXCEPT !.added = TRUE]]
    BY <1>1
  <2>2. [books[b] EXCEPT !.added = TRUE] \in Book
    BY <1>2 DEF Book
  <2>3. [books[b] EXCEPT !.added = TRUE].added = TRUE
    BY <1>2 DEF Book
  <2>4. [books[b] EXCEPT !.added = TRUE].window = books[b].window
    BY <1>2 DEF Book
  <2>5. [books[b] EXCEPT !.added = TRUE].resting = books[b].resting
    BY <1>2 DEF Book
  <2>6. QED
    BY <1>2, <2>1, <2>2, <2>3, <2>4, <2>5
<1>6. /\ series' \in [next : Nat, lastExpiry : Nat, versions : 0..Len(PolicyList), free : SUBSET Books]
      /\ series'.free = series.free \cup {b} /\ series'.next = series.next
  BY <1>1, <1>2, TypesOf
<1>7. TypeOK'
  BY <1>1, <1>5, <1>6 DEF SettlementInv, TypeOK
<1>8. Cardinality(series'.free) <= MaxFreeBooks
  <2>1. IsFiniteSet(series.free) /\ Cardinality(series.free) \in Nat
    BY <1>2, FreeIsFinite
  <2>2. Cardinality(series'.free) = Cardinality(series.free) + 1
    BY <1>4, <1>6, <2>1, FS_AddElement
  <2>3. QED
    BY <1>1, <2>1, <2>2, LimitsAssumption
<1>9. BooksAccounted'
  <2>1. \A c \in Books :
          /\ c \in series'.free <=> books'[c].added /\ books'[c].window = NoWindow
          /\ books'[c].resting => books'[c].window # NoWindow
    BY <1>3, <1>5, <1>6 DEF SettlementInv, BooksAccounted
  <2>2. \A c \in Books : books'[c].window = books[c].window
    BY <1>5
  <2>3. \A j \in Indices : Listed(windows[j]) => windows[j].book \in Books
    BY DEF SettlementInv, WindowsSound, WindowSound, Listed
  <2>4. QED
    BY <1>1, <1>8, <2>1, <2>2, <2>3 DEF SettlementInv, BooksAccounted
<1>10. BoundBooksAreAdded'
  BY <1>3, <1>5 DEF SettlementInv, BoundBooksAreAdded
<1>11. WindowsSound' /\ ListedInOrder' /\ ReadsCounted'
  BY <1>1, <1>6 DEF SettlementInv, WindowsSound, ListedInOrder, ReadsCounted
<1>12. QED
  BY <1>7, <1>9, <1>10, <1>11 DEF SettlementInv

LEMMA AddPolicyVersionKeeps ==
  ASSUME SettlementInv, AddPolicyVersion
  PROVE  SettlementInv'
<1>1. /\ series.versions < Len(PolicyList)
      /\ series' = [series EXCEPT !.versions = @ + 1]
      /\ UNCHANGED <<now, halted, authorized, books, windows, reading>>
  BY DEF AddPolicyVersion
<1>2. Len(PolicyList) \in Nat
  BY SeriesAssumption
<1>3. /\ series' \in [next : Nat, lastExpiry : Nat, versions : 0..Len(PolicyList), free : SUBSET Books]
      /\ series'.free = series.free /\ series'.next = series.next
  BY <1>1, <1>2, TypesOf
<1>4. TypeOK'
  BY <1>1, <1>3 DEF SettlementInv, TypeOK
<1>5. BooksAccounted' /\ BoundBooksAreAdded'
  BY <1>1, <1>3 DEF SettlementInv, BooksAccounted, BoundBooksAreAdded
<1>6. WindowsSound' /\ ListedInOrder' /\ ReadsCounted'
  BY <1>1, <1>3 DEF SettlementInv, WindowsSound, ListedInOrder, ReadsCounted
<1>7. QED
  BY <1>4, <1>5, <1>6 DEF SettlementInv

-----------------------------------------------------------------------------
(* Closing.                                                                *)

LEMMA ReleasedChange ==
  ASSUME NEW w \in Window
  PROVE  LET v == [w EXCEPT !.released = TRUE]
         IN  v \in Window /\ SameTerms(v, w) /\ SameVerdict(v, w)
             /\ v.dependents = w.dependents /\ v.prints = w.prints /\ v.released
BY DEF Window, SameTerms, SameVerdict

LEMMA ReleaseBookKeeps ==
  ASSUME SettlementInv, NEW i \in Indices, ReleaseBook(i)
  PROVE  SettlementInv'
<1> DEFINE w == windows[i]
           v == [w EXCEPT !.released = TRUE]
           b == w.book
<1>1. /\ windows \in [Indices -> Window] /\ w \in Window /\ WindowSound(w)
      /\ books \in [Books -> Book] /\ series.free \in SUBSET Books
  BY TypesOf DEF SettlementInv, WindowsSound
<1>2. /\ Listed(w) /\ books[b].window = i /\ ~books[b].resting
      /\ Cardinality(series.free) < MaxFreeBooks
      /\ books' = [books EXCEPT ![b].window = NoWindow]
      /\ series' = [series EXCEPT !.free = @ \cup {b}]
      /\ windows' = [windows EXCEPT ![i] = v]
      /\ UNCHANGED <<now, halted, authorized, reading>>
  BY <1>1 DEF ReleaseBook
<1>3. b \in Books /\ i # NoWindow
  BY <1>1, <1>2 DEF WindowSound, Listed, Indices, NoWindow
<1>4. b \notin series.free /\ books[b].added
  BY <1>2, <1>3 DEF SettlementInv, BooksAccounted, BoundBooksAreAdded
<1>5. \A j \in Indices : j # i /\ Listed(windows[j]) /\ ~windows[j].released => windows[j].book # b
  BY <1>2 DEF SettlementInv, BooksAccounted
<1>6. \A c \in Books : c # b => books[c].window # i
  BY <1>3 DEF SettlementInv, BooksAccounted
<1> HIDE DEF w, b
<1>7. /\ books' \in [Books -> Book]
      /\ \A c \in Books : c # b => books'[c] = books[c]
      /\ books'[b].added /\ books'[b].window = NoWindow /\ ~books'[b].resting
  <2>1. books[b] \in Book
    BY <1>1, <1>3
  <2>2. books' = [books EXCEPT ![b] = [books[b] EXCEPT !.window = NoWindow]]
    BY <1>2
  <2>3. [books[b] EXCEPT !.window = NoWindow] \in Book
    BY <2>1 DEF Book
  <2>4. [books[b] EXCEPT !.window = NoWindow].window = NoWindow
    BY <2>1 DEF Book
  <2>5. [books[b] EXCEPT !.window = NoWindow].added = books[b].added
    BY <2>1 DEF Book
  <2>6. [books[b] EXCEPT !.window = NoWindow].resting = books[b].resting
    BY <2>1 DEF Book
  <2>7. QED
    BY <1>1, <1>2, <1>3, <1>4, <2>2, <2>3, <2>4, <2>5, <2>6
<1>8. /\ series' \in [next : Nat, lastExpiry : Nat, versions : 0..Len(PolicyList), free : SUBSET Books]
      /\ series'.free = series.free \cup {b} /\ series'.next = series.next
  BY <1>1, <1>2, <1>3, TypesOf
<1>9. v \in Window /\ SameTerms(v, w) /\ SameVerdict(v, w) /\ v.dependents = w.dependents
      /\ v.prints = w.prints /\ v.released
  BY <1>1, ReleasedChange
<1> HIDE DEF v
<1>10. /\ windows' \in [Indices -> Window] /\ windows'[i] = v
       /\ \A j \in Indices : j # i => windows'[j] = windows[j]
  BY <1>1, <1>2, <1>9
<1>11. WindowSound(v) /\ Listed(v)
  BY <1>1, <1>2, <1>9, SoundKept DEF SameVerdict, Listed
<1>12. TypeOK'
  BY <1>2, <1>7, <1>8, <1>10 DEF SettlementInv, TypeOK
<1>13. WindowsSound'
  BY <1>10, <1>11 DEF SettlementInv, WindowsSound
<1>14. ListedInOrder'
  BY <1>2, <1>8, <1>10, <1>11 DEF SettlementInv, ListedInOrder, Listed, w
<1>15. BooksAccounted'
  <2>1. Cardinality(series'.free) <= MaxFreeBooks
    <3>1. IsFiniteSet(series.free) /\ Cardinality(series.free) \in Nat
      BY <1>1, FreeIsFinite
    <3>2. Cardinality(series'.free) = Cardinality(series.free) + 1
      BY <1>4, <1>8, <3>1, FS_AddElement
    <3>3. QED
      BY <1>2, <3>1, <3>2, LimitsAssumption
  <2>2. ASSUME NEW c \in Books
        PROVE  /\ c \in series'.free <=> books'[c].added /\ books'[c].window = NoWindow
               /\ books'[c].resting => books'[c].window # NoWindow
               /\ books'[c].window # NoWindow =>
                    /\ Listed(windows'[books'[c].window]) /\ ~windows'[books'[c].window].released
                    /\ windows'[books'[c].window].book = c
    <3>1. CASE c = b
      BY <1>7, <1>8, <3>1
    <3>2. CASE c # b
      <4>1. books'[c] = books[c] /\ books[c].window # i /\ (c \in series'.free <=> c \in series.free)
        BY <1>6, <1>7, <1>8, <3>2
      <4>2. books[c].window # NoWindow => books[c].window \in Indices
        BY <1>1 DEF Book
      <4>3. QED
        BY <1>10, <4>1, <4>2 DEF SettlementInv, BooksAccounted
    <3>3. QED
      BY <3>1, <3>2
  <2>3. ASSUME NEW j \in Indices, Listed(windows'[j]), ~windows'[j].released
        PROVE  books'[windows'[j].book].window = j
    <3>1. j # i
      BY <1>9, <1>10, <2>3
    <3>2. windows'[j] = windows[j] /\ windows[j].book # b /\ windows[j].book \in Books
      <4>1. windows'[j] = windows[j] /\ windows[j].book # b
        BY <1>5, <1>10, <2>3, <3>1
      <4>2. QED
        BY <2>3, <4>1 DEF SettlementInv, WindowsSound, WindowSound, Listed
    <3>3. QED
      BY <1>7, <2>3, <3>2 DEF SettlementInv, BooksAccounted
  <2>4. QED
    BY <2>1, <2>2, <2>3 DEF BooksAccounted
<1>16. BoundBooksAreAdded'
  BY <1>7 DEF SettlementInv, BoundBooksAreAdded
<1>17. ReadsCounted'
  BY <1>2, <1>9, <1>10, <1>11 DEF SettlementInv, ReadsCounted, Listed, w
<1>18. QED
  BY <1>12, <1>13, <1>14, <1>15, <1>16, <1>17 DEF SettlementInv

LEMMA CloseMarketKeeps ==
  ASSUME SettlementInv, NEW i \in Indices, CloseMarket(i)
  PROVE  SettlementInv'
<1> DEFINE w == windows[i]
           v == [w EXCEPT !.state = "Closed"]
<1>1. windows \in [Indices -> Window] /\ w \in Window /\ WindowSound(w) /\ books \in [Books -> Book]
  BY TypesOf DEF SettlementInv, WindowsSound
<1>2. /\ Terminal(w) /\ w.released /\ w.dependents = 0
      /\ windows' = [windows EXCEPT ![i] = v]
      /\ UNCHANGED <<now, halted, authorized, series, books, reading>>
  BY <1>1 DEF CloseMarket, Closeable
<1> HIDE DEF w
<1>3. v \in Window /\ SameTerms(v, w) /\ SameUpkeep(v, w) /\ v.prints = w.prints /\ v.state = "Closed"
  BY <1>1, StateChange
<1> HIDE DEF v
<1>4. /\ windows' \in [Indices -> Window] /\ windows'[i] = v
      /\ \A j \in Indices : j # i => windows'[j] = windows[j]
  BY <1>1, <1>2, <1>3
<1>5. w.state # "Unlisted"
  BY <1>2 DEF Terminal
<1>6. WindowSound(v)
  <2>1. \A s \in Slots : PolicyFor(v, s) = PolicyFor(w, s) /\ Boundary(v, s) = Boundary(w, s)
    BY <1>3 DEF PolicyFor, Policy, Boundary, SameTerms
  <2>2. ResultFollows(v)
    BY <1>3 DEF ResultFollows
  <2>3. QED
    BY <1>1, <1>3, <1>5, <2>1, <2>2 DEF WindowSound, SameTerms
<1>7. TypeOK'
  BY <1>2, <1>4 DEF SettlementInv, TypeOK
<1>8. WindowsSound'
  BY <1>4, <1>6 DEF SettlementInv, WindowsSound
<1>9. ListedInOrder'
  BY <1>2, <1>3, <1>4, <1>5 DEF SettlementInv, ListedInOrder, w
<1>10. BooksAccounted'
  <2>1. \A c \in Books : books[c].window # NoWindow =>
          books[c].window \in Indices /\ books[c].window # i
    BY <1>1, <1>2 DEF SettlementInv, BooksAccounted, Book, w
  <2>2. ~Listed(windows'[i])
    BY <1>3, <1>4 DEF Listed
  <2>3. QED
    BY <1>2, <1>4, <2>1, <2>2 DEF SettlementInv, BooksAccounted
<1>11. ReadsCounted'
  BY <1>2, <1>3, <1>4 DEF SettlementInv, ReadsCounted, SameUpkeep, w
<1>12. BoundBooksAreAdded'
  BY <1>2 DEF SettlementInv, BoundBooksAreAdded
<1>13. QED
  BY <1>7, <1>8, <1>9, <1>10, <1>11, <1>12 DEF SettlementInv

LEMMA DependentsChange ==
  ASSUME NEW w \in Window, NEW n \in Nat
  PROVE  LET v == [w EXCEPT !.dependents = n]
         IN  v \in Window /\ SameTerms(v, w) /\ SameVerdict(v, w)
             /\ v.released = w.released /\ v.prints = w.prints /\ v.dependents = n
BY DEF Window, SameTerms, SameVerdict

\* A listed Window's reads and the counter move together.
LEMMA ReaderStepKeeps ==
  ASSUME SettlementInv, NEW i \in Indices, NEW R \in Reads, NEW n \in Nat, Listed(windows[i]),
         n = Outstanding(R),
         windows' = [windows EXCEPT ![i] = [windows[i] EXCEPT !.dependents = n]],
         reading' = [reading EXCEPT ![i] = R],
         UNCHANGED <<now, halted, authorized, series, books>>
  PROVE  SettlementInv'
<1> DEFINE w == windows[i]
           v == [w EXCEPT !.dependents = n]
<1>1. /\ windows \in [Indices -> Window] /\ w \in Window /\ WindowSound(w)
      /\ reading \in [Indices -> Reads]
  BY TypesOf DEF SettlementInv, WindowsSound
<1>2. windows' = [windows EXCEPT ![i] = v]
  OBVIOUS
<1> HIDE DEF w
<1>3. v \in Window /\ SameTerms(v, w) /\ SameVerdict(v, w) /\ v.released = w.released
      /\ v.prints = w.prints /\ v.dependents = n
  BY <1>1, DependentsChange
<1> HIDE DEF v
<1>4. /\ windows' \in [Indices -> Window] /\ windows'[i] = v
      /\ \A j \in Indices : j # i => windows'[j] = windows[j]
  BY <1>1, <1>2, <1>3
<1>5. /\ reading' \in [Indices -> Reads] /\ reading'[i] = R
      /\ \A j \in Indices : j # i => reading'[j] = reading[j]
  BY <1>1
<1>6. WindowSound(v) /\ Listed(v)
  BY <1>1, <1>3, SoundKept DEF SameVerdict, Listed, w
<1>7. TypeOK'
  BY <1>4, <1>5 DEF SettlementInv, TypeOK
<1>8. WindowsSound'
  BY <1>4, <1>6 DEF SettlementInv, WindowsSound
<1>9. ListedInOrder'
  BY <1>4, <1>5, <1>6 DEF SettlementInv, ListedInOrder, Listed
<1>10. BooksAccounted' /\ BoundBooksAreAdded'
  <2>1. \A j \in Indices : /\ Listed(windows'[j]) <=> Listed(windows[j])
                           /\ windows'[j].book = windows[j].book
                           /\ windows'[j].released = windows[j].released
    BY <1>3, <1>4, <1>6 DEF SameTerms, w
  <2>2. \A c \in Books : books[c].resting => books[c].window # NoWindow
    BY DEF SettlementInv, BooksAccounted
  <2>3. QED
    BY <2>1, <2>2, BooksKept
<1>11. ReadsCounted'
  BY <1>3, <1>4, <1>5, <1>6 DEF SettlementInv, ReadsCounted, Listed
<1>12. QED
  BY <1>7, <1>8, <1>9, <1>10, <1>11 DEF SettlementInv

\* Any authority's read, counted in or out, moves the sum by one, whose ever it was.
LEMMA OutstandingMoves ==
  ASSUME NEW R \in Reads, NEW p \in Products, NEW f \in {"added", "released"}
  PROVE  LET S == [R EXCEPT ![p][f] = @ + 1]
         IN  /\ S \in Reads
             /\ Outstanding(S) = Outstanding(R) + (IF f = "added" THEN 1 ELSE -1)
             /\ Outstanding(R) \in Int
<1> DEFINE S == [R EXCEPT ![p][f] = @ + 1]
           g == [q \in Products |-> Owed(R, q)]
           h == [q \in Products |-> Owed(S, q)]
<1>1. NumProducts \in Nat
  BY LimitsAssumption
<1>2. S \in Reads
  BY DEF Reads
<1>3. \A q \in Products : g[q] \in Int /\ h[q] \in Int /\ (q # p => h[q] = g[q])
  BY <1>2 DEF Owed, Reads
<1>4. h[p] = g[p] + (IF f = "added" THEN 1 ELSE -1)
  BY DEF Owed, Reads
<1>5. Outstanding(R) = Sum(g, NumProducts) /\ Outstanding(S) = Sum(h, NumProducts)
  BY DEF Outstanding
<1>6. p \in 1..NumProducts /\ g[p] \in Int
  BY <1>3 DEF Products
<1>7. \A q \in 1..NumProducts : g[q] \in Int /\ h[q] \in Int /\ (q # p => h[q] = g[q])
  BY <1>3 DEF Products
<1> HIDE DEF g, h
<1>8. Sum(h, NumProducts) = Sum(g, NumProducts) - g[p] + h[p]
  BY <1>1, <1>6, <1>7, SumChange
<1>9. Sum(g, NumProducts) \in Int
  BY <1>1, <1>7, SumInt
<1>10. QED
  BY <1>2, <1>4, <1>5, <1>6, <1>8, <1>9

LEMMA AddDependentKeeps ==
  ASSUME SettlementInv, NEW i \in Indices, NEW p \in Products, AddDependent(p, i)
  PROVE  SettlementInv'
<1> DEFINE R == [reading[i] EXCEPT ![p]["added"] = @ + 1]
           n == windows[i].dependents + 1
<1>1. windows \in [Indices -> Window] /\ reading \in [Indices -> Reads] /\ windows[i].dependents \in Nat
  <2>1. windows \in [Indices -> Window] /\ reading \in [Indices -> Reads]
    BY TypesOf
  <2>2. QED
    BY <2>1 DEF Window
<1>2. R \in Reads /\ n \in Nat /\ n = Outstanding(R)
  <2>1. windows[i].dependents = Outstanding(reading[i])
    BY DEF SettlementInv, ReadsCounted
  <2>2. R \in Reads /\ Outstanding(R) = Outstanding(reading[i]) + 1
    BY <1>1, OutstandingMoves
  <2>3. QED
    BY <1>1, <2>1, <2>2
<1>3. windows' = [windows EXCEPT ![i] = [windows[i] EXCEPT !.dependents = n]]
  BY <1>1 DEF AddDependent
<1>4. reading' = [reading EXCEPT ![i] = R]
  BY <1>1 DEF AddDependent
<1>5. Listed(windows[i]) /\ UNCHANGED <<now, halted, authorized, series, books>>
  BY DEF AddDependent
<1> HIDE DEF R, n
<1>6. QED
  BY <1>2, <1>3, <1>4, <1>5, ReaderStepKeeps

LEMMA ReleaseDependentKeeps ==
  ASSUME SettlementInv, NEW i \in Indices, NEW p \in Products, ReleaseDependent(p, i)
  PROVE  SettlementInv'
<1> DEFINE R == [reading[i] EXCEPT ![p]["released"] = @ + 1]
           n == windows[i].dependents - 1
<1>1. /\ windows \in [Indices -> Window] /\ reading \in [Indices -> Reads]
      /\ windows[i].dependents \in Nat /\ windows[i].dependents > 0
  <2>1. windows \in [Indices -> Window] /\ reading \in [Indices -> Reads]
    BY TypesOf
  <2>2. windows[i].dependents > 0
    BY DEF ReleaseDependent
  <2>3. QED
    BY <2>1, <2>2 DEF Window
<1>2. R \in Reads /\ n \in Nat /\ n = Outstanding(R)
  <2>1. windows[i].dependents = Outstanding(reading[i])
    BY DEF SettlementInv, ReadsCounted
  <2>2. R \in Reads /\ Outstanding(R) = Outstanding(reading[i]) + (-1)
    BY <1>1, OutstandingMoves
  <2>3. QED
    BY <1>1, <2>1, <2>2
<1>3. windows' = [windows EXCEPT ![i] = [windows[i] EXCEPT !.dependents = n]]
  BY <1>1 DEF ReleaseDependent
<1>4. reading' = [reading EXCEPT ![i] = R]
  BY <1>1 DEF ReleaseDependent
<1>5. Listed(windows[i]) /\ UNCHANGED <<now, halted, authorized, series, books>>
  BY DEF ReleaseDependent
<1> HIDE DEF R, n
<1>6. QED
  BY <1>2, <1>3, <1>4, <1>5, ReaderStepKeeps

-----------------------------------------------------------------------------
(* Listing a Window.                                                       *)

\* The first seconds of the series' next Window, on a book nobody uses.
LEMMA OpenWindowKeeps ==
  ASSUME SettlementInv, NEW b \in Books, OpenWindow(b)
  PROVE  SettlementInv'
<1> DEFINE k == series.next
<1>1. /\ k < MaxWindows /\ b \in series.free /\ ~books[b].resting /\ books[b].window = NoWindow
      /\ UNCHANGED <<now, halted, authorized, reading>>
  BY DEF OpenWindow
<1>2. PICK start \in Times, lock \in Times, expiry \in Times, v \in 1..series.versions :
        LET w == NewWindow(b, start, lock, expiry, v)
        IN  /\ SpanAdmitted(start, lock, expiry)
            /\ HighestCovering(v, start, expiry)
            /\ WithinTime(w)
            /\ series' = [series EXCEPT !.next = @ + 1, !.lastExpiry = expiry, !.free = @ \ {b}]
            /\ books' = [books EXCEPT ![b].window = series.next]
            /\ windows' = [windows EXCEPT ![series.next] = w]
  BY Zenon DEF OpenWindow
<1> DEFINE w == NewWindow(b, start, lock, expiry, v)
<1>3. /\ series \in [next : Nat, lastExpiry : Nat, versions : 0..Len(PolicyList), free : SUBSET Books]
      /\ books \in [Books -> Book] /\ windows \in [Indices -> Window]
      /\ reading \in [Indices -> Reads]
  BY TypesOf
<1>4. k \in Nat /\ k \in Indices /\ k # NoWindow
  <2>1. k \in Nat
    BY <1>3
  <2>2. QED
    BY <1>1, <2>1, LimitsAssumption DEF Indices, NoWindow
<1>5. start \in Nat /\ lock \in Nat /\ expiry \in Nat /\ v \in 1..Len(PolicyList)
  <2>1. series.versions \in 0..Len(PolicyList) /\ Len(PolicyList) \in Nat
    BY <1>3, SeriesAssumption
  <2>2. QED
    BY <2>1, LimitsAssumption DEF Times
<1>6. /\ w \in Window
      /\ w.state = "Open" /\ w.start = start /\ w.lock = lock /\ w.expiry = expiry
      /\ w.version = v /\ w.book = b /\ w.dependents = 0 /\ w.winner = "None"
      /\ w.prints = [s \in Slots |-> NoPrint]
      /\ ~w.released /\ ~w.single /\ ~w.seated /\ ~w.ledgerClosed
  <2>1. w = NewWindow(b, start, lock, expiry, v)
    OBVIOUS
  <2> HIDE DEF w
  <2>2. NewlyListed(w, b, start, lock, expiry, v)
    BY <1>5, <2>1, NewWindowIs
  <2>3. EmptyWindow.prints = [s \in Slots |-> NoPrint]
    BY DEF EmptyWindow
  <2>4. QED
    BY <2>2, <2>3 DEF NewlyListed
<1>7. start < expiry
  BY <1>2, <1>5 DEF SpanAdmitted
<1>8. windows[k] = EmptyWindow /\ reading[k] = NoReads /\ windows[k].state = "Unlisted"
  <2>1. ~(k < series.next)
    BY <1>3
  <2>2. windows[k] = EmptyWindow /\ reading[k] = NoReads
    BY <1>4, <2>1 DEF SettlementInv, ListedInOrder
  <2>3. QED
    BY <2>2 DEF EmptyWindow
<1>9. windows' = [windows EXCEPT ![k] = w]
  BY <1>2
<1> HIDE DEF w
<1>10. /\ windows' \in [Indices -> Window] /\ windows'[k] = w
       /\ \A j \in Indices : j # k => windows'[j] = windows[j]
  BY <1>3, <1>4, <1>6, <1>9
<1>11. /\ series' \in [next : Nat, lastExpiry : Nat, versions : 0..Len(PolicyList), free : SUBSET Books]
       /\ series'.free = series.free \ {b} /\ series'.next = k + 1
  <2> DEFINE s1 == [series EXCEPT !.next = series.next + 1]
             s2 == [s1 EXCEPT !.lastExpiry = expiry]
             s3 == [s2 EXCEPT !.free = series.free \ {b}]
  <2>1. series' = s3
    BY <1>2
  <2>2. /\ s1 \in [next : Nat, lastExpiry : Nat, versions : 0..Len(PolicyList), free : SUBSET Books]
        /\ s1.next = k + 1
    BY <1>3
  <2> HIDE DEF s1
  <2>3. /\ s2 \in [next : Nat, lastExpiry : Nat, versions : 0..Len(PolicyList), free : SUBSET Books]
        /\ s2.next = k + 1
    BY <1>5, <2>2
  <2> HIDE DEF s2
  <2>4. series.free \ {b} \in SUBSET Books
    BY <1>3
  <2>5. /\ s3 \in [next : Nat, lastExpiry : Nat, versions : 0..Len(PolicyList), free : SUBSET Books]
        /\ s3.next = k + 1 /\ s3.free = series.free \ {b}
    BY <2>3, <2>4
  <2>6. QED
    BY <2>1, <2>5
<1>12. /\ books' \in [Books -> Book]
       /\ \A c \in Books : c # b => books'[c] = books[c]
       /\ books'[b].added = books[b].added /\ books'[b].window = k /\ books'[b].resting = books[b].resting
  <2>1. books[b] \in Book
    BY <1>3
  <2>2. books' = [books EXCEPT ![b] = [books[b] EXCEPT !.window = k]]
    BY <1>2
  <2>3. [books[b] EXCEPT !.window = k] \in Book
    BY <1>4, <2>1 DEF Book
  <2>4. [books[b] EXCEPT !.window = k].window = k
    BY <2>1 DEF Book
  <2>5. [books[b] EXCEPT !.window = k].added = books[b].added
    BY <2>1 DEF Book
  <2>6. [books[b] EXCEPT !.window = k].resting = books[b].resting
    BY <2>1 DEF Book
  <2>7. QED
    BY <1>3, <2>2, <2>3, <2>4, <2>5, <2>6
<1>13. TypeOK'
  BY <1>1, <1>10, <1>11, <1>12 DEF SettlementInv, TypeOK
<1>14. WindowSound(w)
  <2>1. ResultFollows(w)
    BY <1>6 DEF ResultFollows
  <2>2. \A s \in Slots : w.prints[s] = NoPrint
    BY <1>6
  <2>3. QED
    BY <1>5, <1>6, <1>7, <2>1, <2>2 DEF WindowSound
<1>15. WindowsSound'
  BY <1>10, <1>14 DEF SettlementInv, WindowsSound
<1>16. ListedInOrder'
  <2>1. ASSUME NEW j \in Indices
        PROVE  /\ j < series'.next <=> windows'[j].state # "Unlisted"
               /\ ~(j < series'.next) => windows'[j] = EmptyWindow /\ reading'[j] = NoReads
    <3>1. j \in Int
      BY DEF Indices
    <3>2. CASE j = k
      BY <1>4, <1>6, <1>10, <1>11, <3>2
    <3>3. CASE j # k
      <4>1. windows'[j] = windows[j] /\ reading'[j] = reading[j] /\ (j < k + 1 <=> j < k)
        BY <1>1, <1>4, <1>10, <3>1, <3>3
      <4>2. QED
        BY <1>11, <4>1 DEF SettlementInv, ListedInOrder
    <3>4. QED
      BY <3>2, <3>3
  <2>2. QED
    BY <2>1 DEF ListedInOrder
<1>17. \A c \in Books : c # b => books[c].window # k
  <2>1. ~Listed(windows[k])
    BY <1>8 DEF Listed
  <2>2. QED
    BY <1>4, <2>1 DEF SettlementInv, BooksAccounted
<1>18. BooksAccounted'
  <2>1. Cardinality(series'.free) <= MaxFreeBooks
    <3>1. IsFiniteSet(series.free) /\ Cardinality(series.free) \in Nat
      BY <1>3, FreeIsFinite
    <3>2. Cardinality(series'.free) = Cardinality(series.free) - 1
      <4>1. b \in series.free
        BY <1>1
      <4>2. Cardinality(series.free \ {b}) = Cardinality(series.free) - 1
        BY <3>1, <4>1, FS_RemoveElement
      <4>3. QED
        BY <1>11, <4>2
    <3>3. Cardinality(series.free) <= MaxFreeBooks
      BY DEF SettlementInv, BooksAccounted
    <3>4. QED
      BY <3>1, <3>2, <3>3, LimitsAssumption
  <2>2. ASSUME NEW c \in Books
        PROVE  /\ c \in series'.free <=> books'[c].added /\ books'[c].window = NoWindow
               /\ books'[c].resting => books'[c].window # NoWindow
               /\ books'[c].window # NoWindow =>
                    /\ Listed(windows'[books'[c].window]) /\ ~windows'[books'[c].window].released
                    /\ windows'[books'[c].window].book = c
    <3>1. CASE c = b
      <4>1. Listed(windows'[k])
        BY <1>6, <1>10 DEF Listed
      <4>2. QED
        BY <1>4, <1>6, <1>10, <1>11, <1>12, <3>1, <4>1
    <3>2. CASE c # b
      <4>1. books'[c] = books[c] /\ books[c].window # k /\ (c \in series'.free <=> c \in series.free)
        BY <1>11, <1>12, <1>17, <3>2
      <4>2. books[c].window # NoWindow => books[c].window \in Indices
        BY <1>3 DEF Book
      <4>3. QED
        BY <1>10, <4>1, <4>2 DEF SettlementInv, BooksAccounted
    <3>3. QED
      BY <3>1, <3>2
  <2>3. ASSUME NEW j \in Indices, Listed(windows'[j]), ~windows'[j].released
        PROVE  books'[windows'[j].book].window = j
    <3>1. CASE j = k
      BY <1>6, <1>10, <1>12, <3>1
    <3>2. CASE j # k
      <4>1. windows'[j] = windows[j]
        BY <1>10, <3>2
      <4>2. windows[j].book \in Books
        BY <2>3, <4>1 DEF SettlementInv, WindowsSound, WindowSound, Listed
      <4>3. books[windows[j].book].window = j
        BY <2>3, <4>1 DEF SettlementInv, BooksAccounted
      <4>4. j # NoWindow
        BY DEF Indices, NoWindow
      <4>5. QED
        BY <1>1, <1>12, <4>1, <4>2, <4>3, <4>4
    <3>3. QED
      BY <3>1, <3>2
  <2>4. QED
    BY <2>1, <2>2, <2>3 DEF BooksAccounted
<1>19. BoundBooksAreAdded'
  <2>1. books[b].added
    BY <1>1 DEF SettlementInv, BooksAccounted
  <2>2. QED
    BY <1>12, <2>1 DEF SettlementInv, BoundBooksAreAdded
<1>20. ReadsCounted'
  BY <1>1, <1>4, <1>6, <1>8, <1>10, NoReadsOwed DEF SettlementInv, ReadsCounted
<1>21. QED
  BY <1>13, <1>15, <1>16, <1>18, <1>19, <1>20 DEF SettlementInv

-----------------------------------------------------------------------------
(* The invariant holds.                                                    *)

LEMMA InitHolds == Init => SettlementInv
<1> SUFFICES ASSUME Init
             PROVE  SettlementInv
  OBVIOUS
<1>1. /\ now = 0 /\ halted = FALSE /\ authorized = Products
      /\ series = [next |-> 0, lastExpiry |-> 0, versions |-> 0, free |-> {}]
      /\ books = [b \in Books |-> [added |-> FALSE, window |-> NoWindow, resting |-> FALSE]]
      /\ windows = [i \in Indices |-> EmptyWindow]
      /\ reading = [i \in Indices |-> NoReads]
  BY DEF Init
<1>2. EmptyWindow \in Window
  BY DEF EmptyWindow, Window
<1>3. EmptyWindow.state = "Unlisted" /\ EmptyWindow.dependents = 0 /\ \A s \in Slots : EmptyWindow.prints[s] = NoPrint
  BY DEF EmptyWindow
<1>4. \A i \in Indices : windows[i] = EmptyWindow /\ reading[i] = NoReads /\ ~(i < series.next)
  BY <1>1 DEF Indices
<1>5. \A b \in Books : ~books[b].added /\ books[b].window = NoWindow /\ ~books[b].resting
  BY <1>1
<1>6. TypeOK
  <2>1. Len(PolicyList) \in Nat
    BY SeriesAssumption
  <2>2. [added |-> FALSE, window |-> NoWindow, resting |-> FALSE] \in Book
    BY DEF Book
  <2>3. books \in [Books -> Book] /\ windows \in [Indices -> Window]
    BY <1>1, <1>2, <2>2
  <2>4. series \in [next : Nat, lastExpiry : Nat, versions : 0..Len(PolicyList), free : SUBSET Books]
    BY <1>1, <2>1
  <2>5. halted \in BOOLEAN /\ reading \in [Indices -> Reads] /\ now \in Nat
    BY <1>1, NoReadsOwed
  <2>6. QED
    BY <1>1, <2>3, <2>4, <2>5 DEF TypeOK
<1>7. WindowsSound
  BY <1>3, <1>4 DEF WindowsSound, WindowSound, ResultFollows
<1>8. ListedInOrder
  BY <1>3, <1>4 DEF ListedInOrder
<1>9. BooksAccounted /\ BoundBooksAreAdded
  <2>1. series.free = {} /\ Cardinality(series.free) <= MaxFreeBooks
    BY <1>1, FS_EmptySet, LimitsAssumption
  <2>2. \A i \in Indices : ~Listed(windows[i])
    BY <1>3, <1>4 DEF Listed
  <2>3. QED
    BY <1>5, <2>1, <2>2 DEF BooksAccounted, BoundBooksAreAdded
<1>10. ReadsCounted
  BY <1>3, <1>4, NoReadsOwed DEF ReadsCounted
<1>11. QED
  BY <1>6, <1>7, <1>8, <1>9, <1>10 DEF SettlementInv

LEMMA NextKeeps == SettlementInv /\ [Next]_vars => SettlementInv'
<1> SUFFICES ASSUME SettlementInv, [Next]_vars
             PROVE  SettlementInv'
  OBVIOUS
<1>1. now \in Nat /\ halted \in BOOLEAN /\ authorized \subseteq Products
  BY DEF SettlementInv, TypeOK
<1>2. CASE UNCHANGED vars
  BY <1>1, <1>2, OutsideStepKeeps DEF vars
<1>3. CASE Tick
  BY <1>1, <1>3, OutsideStepKeeps DEF Tick
<1>4. CASE SetMode
  BY <1>1, <1>4, OutsideStepKeeps DEF SetMode
<1>5. ASSUME NEW P \in SUBSET Products, SetAuthorities(P)
      PROVE  SettlementInv'
  BY <1>1, <1>5, OutsideStepKeeps DEF SetAuthorities
<1>6. CASE Listing
  BY <1>6, AddBookKeeps, OpenWindowKeeps, AddPolicyVersionKeeps DEF Listing
<1>7. ASSUME NEW i \in Indices, Printing(i)
      PROVE  SettlementInv'
  BY <1>7, RecordPrintKeeps, CopyOpenKeeps DEF Printing
<1>8. ASSUME NEW i \in Indices, Resolving(i)
      PROVE  SettlementInv'
  BY <1>8, ResolvingKeeps
<1>9. ASSUME NEW i \in Indices, Trade(i) \/ EmptyBook(i) \/ RedeemSeats(i) \/ WithdrawSeats(i)
      PROVE  SettlementInv'
  BY <1>9, TradeKeeps, EmptyBookKeeps, EmptySeatsKeeps
<1>10. ASSUME NEW i \in Indices, Closing(i)
       PROVE  SettlementInv'
  BY <1>10, ReleaseBookKeeps, CloseLedgerKeeps, CloseMarketKeeps DEF Closing
<1>11. ASSUME NEW i \in Indices, NEW p \in Products, AddDependent(p, i) \/ ReleaseDependent(p, i)
       PROVE  SettlementInv'
  BY <1>11, AddDependentKeeps, ReleaseDependentKeeps
<1>12. QED
  BY <1>2, <1>3, <1>4, <1>5, <1>6, <1>7, <1>8, <1>9, <1>10, <1>11 DEF Next

\* Every reachable state of a Series satisfies the invariant: the terms of its Windows, the origin of
\* their prints, the books' bindings and the readers' count hold together under every instruction.
THEOREM SettlementInvariant == Spec => []SettlementInv
<1>1. QED
  BY InitHolds, NextKeeps, PTL DEF Spec

\* Every account of a Series stays within its layout, and the dependents counter never goes negative.
THEOREM SettlementTypeOKHolds == Spec => []TypeOK
<1>1. SettlementInv => TypeOK
  BY DEF SettlementInv
<1>2. QED
  BY <1>1, SettlementInvariant, PTL

\* However Windows are listed, released and closed, every book is free and empty or bound to the one
\* Window that names it (roller_open_window, public_release_book, public_close_market).
THEOREM BooksAccountedHolds == Spec => []BooksAccounted
<1>1. SettlementInv => BooksAccounted
  BY DEF SettlementInv
<1>2. QED
  BY <1>1, SettlementInvariant, PTL

\* The shared counter is the sum of what the products have yet to release, and a Market closes under a
\* product that still has to read its result only if another released reads it never registered
\* (change_dependents, public_close_market).
THEOREM ReadersKeepTheWindowHolds == Spec => []ReadersKeepTheWindow
<1>1. SettlementInv => ReadersKeepTheWindow
  <2>1. ASSUME SettlementInv, NEW i \in Indices, windows[i].state = "Closed",
               NEW p \in Products, Owed(reading[i], p) > 0,
               \A q \in Products : ~(Owed(reading[i], q) < 0)
        PROVE  FALSE
    <3> DEFINE g == [q \in Products |-> Owed(reading[i], q)]
    <3>1. Sum(g, NumProducts) = 0
      BY <2>1 DEF SettlementInv, ReadsCounted, Outstanding
    <3>2. \A q \in 1..NumProducts : g[q] \in Nat
      <4>1. reading[i] \in Reads
        BY <2>1, TypesOf
      <4>2. \A q \in Products : Owed(reading[i], q) \in Int
        BY <4>1 DEF Reads, Owed
      <4>3. QED
        BY <2>1, <4>2 DEF Products
    <3>3. p \in 1..NumProducts /\ g[p] > 0
      BY <2>1 DEF Products
    <3> HIDE DEF g
    <3>4. g[p] <= Sum(g, NumProducts)
      BY <3>2, <3>3, LimitsAssumption, SumBound
    <3>5. QED
      BY <3>1, <3>2, <3>3, <3>4
  <2>2. QED
    BY <2>1 DEF SettlementInv, ReadsCounted, ReadersKeepTheWindow
<1>2. QED
  BY <1>1, SettlementInvariant, PTL

\* Every verdict keeps following from the prints its Market holds (settle_decision, void_decision).
THEOREM ResultMatchesPrintsHolds == Spec => []ResultMatchesPrints
<1>1. SettlementInv => ResultMatchesPrints
  BY DEF SettlementInv, WindowsSound, WindowSound, ResultMatchesPrints
<1>2. QED
  BY <1>1, SettlementInvariant, PTL

\* Every print a Window holds is one its own policy's source proves for its own boundary, copied
\* Opens included (public_record_print_*, public_copy_open).
THEOREM PrintsOfTheirBoundaryHolds == Spec => []PrintsOfTheirBoundary
<1>1. SettlementInv => PrintsOfTheirBoundary
  BY DEF SettlementInv, WindowsSound, WindowSound, PrintsOfTheirBoundary
<1>2. QED
  BY <1>1, SettlementInvariant, PTL

-----------------------------------------------------------------------------
(* What a step does to the Windows, as the action properties and the       *)
(* refinement see it: nothing, or one of four moves of one Window.         *)

Untouched(v, w) ==
  /\ SameTerms(v, w) /\ v.prints = w.prints
  /\ v.state = w.state /\ v.winner = w.winner /\ v.single = w.single

\* The times a listed Window goes through, one after the other.
TimesInOrder(w) ==
  w.start < w.lock /\ w.lock <= w.expiry /\ w.start <= w.openDeadline /\ w.expiry <= w.closeDeadline
\* A print taken over from a Window that closed where w opens.
HandedOver(w, s) ==
  /\ s \in {"Open", "CheckOpen"}
  /\ \E j \in Indices, t \in {"Close", "CheckClose"} :
       ~Missing(windows[j], t) /\ windows[j].expiry = w.start

Opened(v, w) ==
  /\ w.state = "Unlisted" /\ v.state = "Open" /\ v.winner = w.winner /\ v.prints = w.prints /\ ~v.single
  /\ TimesInOrder(v)
Filled(v, w) ==
  /\ Live(w) /\ SameTerms(v, w) /\ v.state = w.state /\ v.winner = w.winner /\ v.single = w.single
  /\ v.prints \in Prints
  /\ \A s \in Slots : w.prints[s] # NoPrint => v.prints[s] = w.prints[s]
  /\ Settleable(w) => v.prints = w.prints
  /\ \A s \in Slots : Missing(w, s) /\ ~Missing(v, s) =>
       now <= Deadline(w, s) /\ (now >= Boundary(w, s) \/ HandedOver(w, s))
Forgotten(v, w) ==
  /\ Terminal(w) /\ SameTerms(v, w) /\ v.prints = w.prints
  /\ v.state = "Closed" /\ v.winner = w.winner /\ v.single = w.single

\* The counters of announced reads.
counts == [i \in Indices |-> windows[i].dependents]
ReadersMove(i) ==
  /\ Listed(windows[i])
  /\ \/ counts' = [counts EXCEPT ![i] = counts[i] + 1]
     \/ counts[i] > 0 /\ counts' = [counts EXCEPT ![i] = counts[i] - 1]
QuietStep ==
  /\ \A j \in Indices : Untouched(windows'[j], windows[j])
  /\ counts' = counts \/ \E i \in Indices : ReadersMove(i)
Moves(i) ==
  /\ counts' = counts
  /\ \A j \in Indices : j # i => Untouched(windows'[j], windows[j])
  /\ \/ Opened(windows'[i], windows[i]) /\ i = series.next
     \/ Filled(windows'[i], windows[i])
     \/ DecidedNow(windows'[i], windows[i])
     \/ Forgotten(windows'[i], windows[i]) /\ counts[i] = 0
StepShape == QuietStep \/ \E i \in Indices : Moves(i)

LEMMA StillWindows ==
  ASSUME windows' = windows
  PROVE  StepShape
BY DEF StepShape, QuietStep, Untouched, SameTerms, counts

\* The counters stay when the Window that changes keeps its own.
LEMMA CountsStay ==
  ASSUME SettlementInv, NEW i \in Indices, NEW v, windows' = [windows EXCEPT ![i] = v],
         v.dependents = windows[i].dependents
  PROVE  counts' = counts
<1>1. \A j \in Indices : windows'[j].dependents = windows[j].dependents
  BY TypesOf
<1>2. QED
  BY <1>1 DEF counts

LEMMA OneWindowChanges ==
  ASSUME SettlementInv, NEW i \in Indices, NEW v, windows' = [windows EXCEPT ![i] = v]
  PROVE  windows'[i] = v /\ \A j \in Indices : j # i => Untouched(windows'[j], windows[j])
BY TypesOf DEF Untouched, SameTerms

LEMMA UpkeepIsQuiet ==
  ASSUME SettlementInv, NEW i \in Indices, NEW v, windows' = [windows EXCEPT ![i] = v],
         Untouched(v, windows[i]), counts' = counts \/ ReadersMove(i)
  PROVE  StepShape
<1>1. windows'[i] = v /\ \A j \in Indices : j # i => Untouched(windows'[j], windows[j])
  BY OneWindowChanges
<1>2. QED
  BY <1>1 DEF StepShape, QuietStep

\* A new Window is open, blank and in order.
LEMMA NewWindowOpens ==
  ASSUME NEW b \in Books, NEW start \in Nat, NEW lock \in Nat, NEW expiry \in Nat,
         NEW v \in 1..Len(PolicyList), NEW w, w = NewWindow(b, start, lock, expiry, v),
         start < lock, lock <= expiry
  PROVE  Opened(w, EmptyWindow)
<1> NewlyListed(w, b, start, lock, expiry, v)
  BY NewWindowIs
<1>1. w.start = start /\ w.lock = lock /\ w.expiry = expiry
      /\ (start <= lock => start <= w.openDeadline) /\ expiry <= w.closeDeadline
  BY DEF NewlyListed
<1>2. TimesInOrder(w)
  BY <1>1 DEF TimesInOrder
<1>3. w.state = "Open" /\ w.winner = "None" /\ w.prints = EmptyWindow.prints /\ ~w.single
  BY DEF NewlyListed
<1>4. EmptyWindow.state = "Unlisted" /\ EmptyWindow.winner = "None"
  BY DEF EmptyWindow
<1>5. QED
  BY <1>2, <1>3, <1>4 DEF Opened

\* What Tenancy reads of it.
NewTenant(w, b, start, lock) ==
  /\ w.state = "Open" /\ w.start = start /\ w.lock = lock /\ w.book = b
  /\ ~w.released /\ ~w.seated /\ ~w.ledgerClosed
  /\ {w.released, w.seated, w.ledgerClosed} \subseteq BOOLEAN

LEMMA NewWindowIsTenant ==
  ASSUME NEW b \in Books, NEW start \in Nat, NEW lock \in Nat, NEW expiry \in Nat,
         NEW v \in 1..Len(PolicyList), NEW w, w = NewWindow(b, start, lock, expiry, v)
  PROVE  NewTenant(w, b, start, lock)
<1> NewlyListed(w, b, start, lock, expiry, v)
  BY NewWindowIs
<1>1. /\ w \in Window /\ w.state = "Open" /\ w.start = start /\ w.lock = lock /\ w.book = b
      /\ ~w.released /\ ~w.seated /\ ~w.ledgerClosed
  BY DEF NewlyListed
<1>2. {w.released, w.seated, w.ledgerClosed} \subseteq BOOLEAN
  BY <1>1 DEF Window
<1>3. QED
  BY <1>1, <1>2 DEF NewTenant

LEMMA OpenWindowShape ==
  ASSUME SettlementInv, NEW b \in Books, OpenWindow(b)
  PROVE  StepShape
<1> DEFINE k == series.next
<1>1. k < MaxWindows
  BY DEF OpenWindow
<1>2. PICK start \in Times, lock \in Times, expiry \in Times, v \in 1..series.versions :
        LET w == NewWindow(b, start, lock, expiry, v)
        IN  /\ SpanAdmitted(start, lock, expiry)
            /\ HighestCovering(v, start, expiry)
            /\ WithinTime(w)
            /\ series' = [series EXCEPT !.next = @ + 1, !.lastExpiry = expiry, !.free = @ \ {b}]
            /\ books' = [books EXCEPT ![b].window = series.next]
            /\ windows' = [windows EXCEPT ![series.next] = w]
  BY Zenon DEF OpenWindow
<1> DEFINE w == NewWindow(b, start, lock, expiry, v)
<1>3. k \in Indices
  <2>1. k \in Nat
    BY TypesOf
  <2>2. QED
    BY <1>1, <2>1, LimitsAssumption DEF Indices
<1>4. start \in Nat /\ lock \in Nat /\ expiry \in Nat /\ v \in 1..Len(PolicyList)
  <2>1. series.versions \in 0..Len(PolicyList) /\ Len(PolicyList) \in Nat
    BY TypesOf, SeriesAssumption
  <2>2. QED
    BY <2>1, LimitsAssumption DEF Times
<1>5. Opened(w, EmptyWindow)
  <2>1. start < lock /\ lock <= expiry
    BY <1>2 DEF SpanAdmitted
  <2>2. w = NewWindow(b, start, lock, expiry, v)
    OBVIOUS
  <2> HIDE DEF w
  <2>3. QED
    BY <1>4, <2>1, <2>2, NewWindowOpens
<1>6. windows[k] = EmptyWindow
  <2>1. ~(k < series.next)
    BY TypesOf
  <2>2. QED
    BY <1>3, <2>1 DEF SettlementInv, ListedInOrder
<1>7. Opened(w, windows[k])
  BY <1>5, <1>6
<1>8. windows' = [windows EXCEPT ![k] = w]
  BY <1>2
<1>12. w.dependents = EmptyWindow.dependents
  <2>1. w = NewWindow(b, start, lock, expiry, v)
    OBVIOUS
  <2> HIDE DEF w
  <2>2. NewlyListed(w, b, start, lock, expiry, v)
    BY <1>4, <2>1, NewWindowIs
  <2>3. QED
    BY <2>2 DEF EmptyWindow, NewlyListed
<1> HIDE DEF w
<1>9. windows'[k] = w /\ \A j \in Indices : j # k => Untouched(windows'[j], windows[j])
  BY <1>3, <1>8, OneWindowChanges
<1>10. counts' = counts
  BY <1>3, <1>6, <1>8, <1>12, CountsStay
<1>13. Moves(k)
  BY <1>7, <1>9, <1>10 DEF Moves
<1>11. QED
  BY <1>3, <1>13 DEF StepShape

\* From the moment a Window can be settled, no slot of it admits a print.
LEMMA NoPrintOnceSettleable ==
  ASSUME SettlementInv, NEW i \in Indices, NEW s \in Slots, Admits(windows[i], s)
  PROVE  ~Settleable(windows[i])
<1> DEFINE w == windows[i]
<1>1. /\ Live(w) /\ PolicyFor(w, s).source # NoSource /\ Missing(w, s) /\ now <= Deadline(w, s)
  BY DEF Admits
<1>2. CASE s \in {"Open", "Close"}
  BY <1>1, <1>2 DEF Settleable
<1>3. CASE s \in {"CheckOpen", "CheckClose"}
  <2>1. HasCheck(w) /\ ~BothChecks(w)
    BY <1>1, <1>3 DEF HasCheck, PolicyFor, BothChecks
  <2>2. w \in Window /\ WindowSound(w) /\ now \in Nat
    BY TypesOf DEF SettlementInv, WindowsSound
  <2>3. w.start \in Nat /\ w.expiry \in Nat
    BY <2>2 DEF Window
  <2>4. w.start < w.expiry /\ w.version \in 1..Len(PolicyList)
    BY <1>1, <2>2 DEF WindowSound, Live
  <2>5. Policy(w).checkAdmission \in Nat
    <3>1. PolicyList[w.version] \in PolicyVersion
      BY <2>4, SeriesAssumption
    <3>2. QED
      BY <3>1 DEF Policy, PolicyVersion
  <2>6. Deadline(w, s) = Boundary(w, s) + Policy(w).checkAdmission
    BY <1>3 DEF Deadline
  <2>7. Boundary(w, s) \in Nat /\ Boundary(w, s) <= w.expiry
    BY <2>3, <2>4 DEF Boundary
  <2> HIDE DEF w
  <2>8. now <= w.expiry + Policy(w).checkAdmission
    BY <1>1, <2>2, <2>3, <2>5, <2>6, <2>7
  <2>9. ~(now > CheckBound(w))
    BY <2>2, <2>3, <2>5, <2>8 DEF CheckBound
  <2>10. QED
    BY <2>1, <2>9 DEF Settleable, w
<1>4. QED
  BY <1>2, <1>3 DEF Slots

\* Prints that fill empty slots of an open Window are a move of that Window.
LEMMA FillingShape ==
  ASSUME SettlementInv, NEW i \in Indices, NEW ps \in Prints, Live(windows[i]),
         windows' = [windows EXCEPT ![i] = [windows[i] EXCEPT !.prints = ps]],
         \A s \in Slots : windows[i].prints[s] # NoPrint => ps[s] = windows[i].prints[s],
         \A s \in Slots : windows[i].prints[s] = NoPrint /\ ps[s] # NoPrint =>
           now <= Deadline(windows[i], s) /\ (now >= Boundary(windows[i], s) \/ HandedOver(windows[i], s)),
         ~Settleable(windows[i])
  PROVE  StepShape
<1> DEFINE w == windows[i]
           v == [w EXCEPT !.prints = ps]
<1>1. w \in Window
  BY TypesOf
<1>2. windows' = [windows EXCEPT ![i] = v]
  OBVIOUS
<1> HIDE DEF w
<1>3. v \in Window /\ SameTerms(v, w) /\ SameVerdict(v, w) /\ SameUpkeep(v, w) /\ v.prints = ps
  BY <1>1, PrintsChange
<1> HIDE DEF v
<1>4. Filled(v, w)
  BY <1>3 DEF Filled, Missing, SameVerdict, w
<1>5. windows'[i] = v /\ \A j \in Indices : j # i => Untouched(windows'[j], windows[j])
  BY <1>2, OneWindowChanges
<1>6. counts' = counts
  BY <1>2, <1>3, CountsStay DEF SameUpkeep, w
<1>7. Moves(i)
  BY <1>4, <1>5, <1>6 DEF Moves, w
<1>8. QED
  BY <1>7 DEF StepShape

LEMMA RecordPrintShape ==
  ASSUME SettlementInv, NEW i \in Indices, NEW s \in Slots, NEW attestor \in BOOLEAN, NEW p \in Prices,
         RecordPrint(i, s, attestor, p)
  PROVE  StepShape
<1> DEFINE ps == [windows[i].prints EXCEPT ![s] = p]
<1>1. windows \in [Indices -> Window] /\ windows[i] \in Window
  BY TypesOf
<1>2. windows[i].prints \in Prints
  BY <1>1 DEF Window, Prints
<1>3. ps \in Prints
  BY <1>2 DEF Prints
<1>4. windows' = [windows EXCEPT ![i] = [windows[i] EXCEPT !.prints = ps]]
  BY <1>1 DEF RecordPrint
<1>5. Admits(windows[i], s)
  BY DEF RecordPrint, RecordAdmitted
<1>6. \A t \in Slots : windows[i].prints[t] # NoPrint => ps[t] = windows[i].prints[t]
  BY <1>2, <1>5 DEF Admits, Missing, Prints
<1>7. ~Settleable(windows[i]) /\ Live(windows[i])
  BY <1>5, NoPrintOnceSettleable DEF Admits
<1>8. \A t \in Slots : t # s => ps[t] = windows[i].prints[t]
  BY <1>2 DEF Prints
<1>9. now <= Deadline(windows[i], s) /\ now >= Boundary(windows[i], s)
  <2>1. now >= Boundary(windows[i], s) + PolicyFor(windows[i], s).minDelay
    BY <1>5 DEF Admits
  <2>2. Boundary(windows[i], s) \in Nat /\ PolicyFor(windows[i], s).minDelay \in Nat
    BY <1>7, NumbersOf DEF Live
  <2>3. QED
    BY <1>5, <2>1, <2>2, TypesOf DEF Admits
<1> HIDE DEF ps
<1>10. QED
  BY <1>3, <1>4, <1>5, <1>6, <1>7, <1>8, <1>9, FillingShape

LEMMA CopyOpenShape ==
  ASSUME SettlementInv, NEW i \in Indices, CopyOpen(i)
  PROVE  StepShape
<1> DEFINE w == windows[i]
           u == windows[i - 1]
           ps == [w.prints EXCEPT !["Open"] = u.prints["Close"],
                                  !["CheckOpen"] = IF CopiesCheck(i) THEN u.prints["CheckClose"]
                                                   ELSE w.prints["CheckOpen"]]
<1>1. i - 1 \in Indices
  BY LimitsAssumption DEF CopyOpen, CopyAdmitted, Indices
<1>2. windows \in [Indices -> Window] /\ w.prints \in Prints /\ u.prints \in Prints
  <2>1. windows \in [Indices -> Window] /\ w \in Window /\ u \in Window
    BY <1>1, TypesOf
  <2>2. QED
    BY <2>1 DEF Window, Prints
<1>3. {"Open", "Close", "CheckOpen", "CheckClose"} = Slots
  BY DEF Slots
<1>4. ps \in Prints
  BY <1>2, <1>3 DEF Prints
<1>5. windows' = [windows EXCEPT ![i] = [windows[i] EXCEPT !.prints = ps]]
  BY <1>2 DEF CopyOpen
<1>6. Live(w) /\ Missing(w, "Open")
  BY DEF CopyOpen, CopyAdmitted
<1>7. CopiesCheck(i) => Missing(w, "CheckOpen")
  BY DEF CopiesCheck
<1>8. \A s \in Slots : w.prints[s] # NoPrint => ps[s] = w.prints[s]
  BY <1>2, <1>3, <1>6, <1>7 DEF Missing, Prints
<1>9. ~Settleable(w)
  BY <1>6 DEF Settleable
<1>10. /\ now <= w.openDeadline /\ u.expiry = w.start /\ ~Missing(u, "Close")
       /\ CopiesCheck(i) => ~Missing(u, "CheckClose") /\ now <= Deadline(w, "CheckOpen")
  BY DEF CopyOpen, CopyAdmitted, Adjacent, CopiesCheck
<1>11. ASSUME NEW s \in Slots, w.prints[s] = NoPrint, ps[s] # NoPrint
       PROVE  now <= Deadline(w, s) /\ HandedOver(w, s)
  <2>1. s \in {"Open", "CheckOpen"} /\ (s = "CheckOpen" => CopiesCheck(i))
    BY <1>2, <1>3, <1>11 DEF Prints
  <2>2. now <= Deadline(w, s)
    BY <1>10, <2>1 DEF Deadline
  <2>3. HandedOver(w, s)
    BY <1>1, <1>10, <2>1 DEF HandedOver
  <2>4. QED
    BY <2>2, <2>3
<1> HIDE DEF ps
<1>12. QED
  BY <1>4, <1>5, <1>6, <1>8, <1>9, <1>11, FillingShape

LEMMA ResolvingShape ==
  ASSUME SettlementInv, NEW i \in Indices, Resolving(i)
  PROVE  StepShape
<1>2. PICK v \in Window : /\ windows' = [windows EXCEPT ![i] = v]
                         /\ DecidedNow(v, windows[i]) /\ SameUpkeep(v, windows[i])
  BY VoidExpiredDecides, SettleWindowDecides DEF Resolving
<1>1. counts' = counts
  BY <1>2, CountsStay DEF SameUpkeep
<1>3. windows'[i] = v /\ \A j \in Indices : j # i => Untouched(windows'[j], windows[j])
  BY <1>2, OneWindowChanges
<1>4. Moves(i)
  BY <1>1, <1>2, <1>3 DEF Moves
<1>5. QED
  BY <1>4 DEF StepShape

LEMMA CloseMarketShape ==
  ASSUME SettlementInv, NEW i \in Indices, CloseMarket(i)
  PROVE  StepShape
<1> DEFINE w == windows[i]
           v == [w EXCEPT !.state = "Closed"]
<1>1. windows \in [Indices -> Window] /\ w \in Window
  BY TypesOf
<1>2. /\ Terminal(w) /\ w.dependents = 0 /\ windows' = [windows EXCEPT ![i] = v]
  BY <1>1 DEF CloseMarket, Closeable
<1>3. counts[i] = 0
  BY <1>2 DEF counts
<1> HIDE DEF w
<1>4. v \in Window /\ SameTerms(v, w) /\ SameUpkeep(v, w) /\ v.prints = w.prints /\ v.state = "Closed"
      /\ v.winner = w.winner /\ v.single = w.single
  BY <1>1, StateChange
<1> HIDE DEF v
<1>5. Forgotten(v, w)
  BY <1>2, <1>4 DEF Forgotten
<1>6. windows'[i] = v /\ \A j \in Indices : j # i => Untouched(windows'[j], windows[j])
  BY <1>2, OneWindowChanges
<1>7. counts' = counts
  BY <1>2, <1>4, CountsStay DEF SameUpkeep, w
<1>8. Moves(i)
  BY <1>3, <1>5, <1>6, <1>7 DEF Moves, w
<1>9. QED
  BY <1>8 DEF StepShape

\* What trading and closing note on a Window's account is not part of its promise.
LEMMA UpkeepShape ==
  ASSUME SettlementInv, NEW i \in Indices,
         Trade(i) \/ RedeemSeats(i) \/ WithdrawSeats(i) \/ ReleaseBook(i) \/ CloseLedger(i)
  PROVE  StepShape
<1> DEFINE w == windows[i]
<1>1. windows \in [Indices -> Window] /\ w \in Window
  BY TypesOf
<1>3. \E v : windows' = [windows EXCEPT ![i] = v] /\ Untouched(v, w) /\ v.dependents = w.dependents
  <2>1. CASE Trade(i)
    <3>1. PICK seats \in BOOLEAN : windows' = [windows EXCEPT ![i] = [w EXCEPT !.seated = seats]]
      BY <1>1, <2>1 DEF Trade
    <3>2. /\ Untouched([w EXCEPT !.seated = seats], w)
          /\ [w EXCEPT !.seated = seats].dependents = w.dependents
      BY <1>1, SeatedChange DEF Untouched, SameVerdict
    <3>3. QED
      BY <3>1, <3>2
  <2>2. CASE RedeemSeats(i) \/ WithdrawSeats(i)
    <3>1. windows' = [windows EXCEPT ![i] = [w EXCEPT !.seated = FALSE]]
      BY <1>1, <2>2 DEF RedeemSeats, WithdrawSeats, EmptySeats
    <3>2. /\ Untouched([w EXCEPT !.seated = FALSE], w)
          /\ [w EXCEPT !.seated = FALSE].dependents = w.dependents
      BY <1>1, SeatedChange DEF Untouched, SameVerdict
    <3>3. QED
      BY <3>1, <3>2
  <2>3. CASE ReleaseBook(i)
    <3>1. windows' = [windows EXCEPT ![i] = [w EXCEPT !.released = TRUE]]
      BY <1>1, <2>3 DEF ReleaseBook
    <3>2. /\ Untouched([w EXCEPT !.released = TRUE], w)
          /\ [w EXCEPT !.released = TRUE].dependents = w.dependents
      BY <1>1, ReleasedChange DEF Untouched, SameVerdict
    <3>3. QED
      BY <3>1, <3>2
  <2>4. CASE CloseLedger(i)
    <3>1. windows' = [windows EXCEPT ![i] = [w EXCEPT !.ledgerClosed = TRUE]]
      BY <1>1, <2>4 DEF CloseLedger
    <3>2. /\ Untouched([w EXCEPT !.ledgerClosed = TRUE], w)
          /\ [w EXCEPT !.ledgerClosed = TRUE].dependents = w.dependents
      BY <1>1, LedgerChange DEF Untouched, SameVerdict
    <3>3. QED
      BY <3>1, <3>2
  <2>5. QED
    BY <2>1, <2>2, <2>3, <2>4
<1>4. QED
  BY <1>3, CountsStay, UpkeepIsQuiet

LEMMA DependentShape ==
  ASSUME SettlementInv, NEW i \in Indices, NEW p \in Products,
         AddDependent(p, i) \/ ReleaseDependent(p, i)
  PROVE  StepShape
<1> DEFINE w == windows[i]
<1>1. windows \in [Indices -> Window] /\ w \in Window /\ w.dependents \in Nat
  <2>1. windows \in [Indices -> Window] /\ w \in Window
    BY TypesOf
  <2>2. QED
    BY <2>1 DEF Window
<1>2. PICK n \in Nat : /\ windows' = [windows EXCEPT ![i] = [w EXCEPT !.dependents = n]]
                       /\ n = w.dependents + 1 \/ (w.dependents > 0 /\ n = w.dependents - 1)
  <2>1. CASE AddDependent(p, i)
    <3>1. w.dependents + 1 \in Nat
      BY <1>1
    <3>2. QED
      BY <1>1, <2>1, <3>1 DEF AddDependent
  <2>2. CASE ReleaseDependent(p, i)
    <3>1. w.dependents - 1 \in Nat /\ w.dependents > 0
      BY <1>1, <2>2 DEF ReleaseDependent
    <3>2. QED
      BY <1>1, <2>2, <3>1 DEF ReleaseDependent
  <2>3. QED
    BY <2>1, <2>2
<1> DEFINE v == [w EXCEPT !.dependents = n]
<1>3. Untouched(v, w) /\ v.dependents = n
  BY <1>1, DependentsChange DEF Untouched, SameVerdict
<1>4. windows' = [windows EXCEPT ![i] = v]
  BY <1>2
<1>5. Listed(w)
  BY DEF AddDependent, ReleaseDependent
<1> HIDE DEF v, w
<1>6. \A j \in Indices : windows'[j].dependents = IF j = i THEN n ELSE windows[j].dependents
  BY <1>1, <1>3, <1>4
<1>7. counts' = [counts EXCEPT ![i] = n]
  BY <1>6 DEF counts
<1>8. ReadersMove(i)
  BY <1>2, <1>5, <1>7 DEF ReadersMove, counts, w
<1>9. QED
  BY <1>3, <1>4, <1>8, UpkeepIsQuiet DEF w

LEMMA EveryStepHasAShape ==
  ASSUME SettlementInv, [Next]_vars
  PROVE  StepShape
<1>1. CASE UNCHANGED vars \/ Tick \/ SetMode \/ \E P \in SUBSET Products : SetAuthorities(P)
  BY <1>1, StillWindows DEF vars, Tick, SetMode, SetAuthorities
<1>2. CASE Listing
  BY <1>2, StillWindows, OpenWindowShape DEF Listing, AddBook, AddPolicyVersion
<1>3. ASSUME NEW i \in Indices, Printing(i)
      PROVE  StepShape
  BY <1>3, RecordPrintShape, CopyOpenShape DEF Printing
<1>4. ASSUME NEW i \in Indices, EmptyBook(i)
      PROVE  StepShape
  BY <1>4, StillWindows DEF EmptyBook
<1>5. ASSUME NEW i \in Indices, Closing(i)
      PROVE  StepShape
  BY <1>5, UpkeepShape, CloseMarketShape DEF Closing
<1>6. QED
  BY <1>1, <1>2, <1>3, <1>4, <1>5, ResolvingShape, UpkeepShape, DependentShape DEF Next

-----------------------------------------------------------------------------
(* What no step does.                                                      *)

OutcomeStays ==
  \A i \in Indices :
    Live(windows[i]) /\ Settleable(windows[i])
      => IF windows'[i].state = "Open" THEN Settlement(windows'[i]) = Settlement(windows[i])
         ELSE windows'[i].winner = Settlement(windows[i]).winner
SingleSourceIsLate ==
  \A i \in Indices :
    Live(windows[i]) /\ windows'[i].single
      => \A s \in {"CheckOpen", "CheckClose"} :
           Missing(windows[i], s) => now > Boundary(windows[i], s) + Policy(windows[i]).checkAdmission

LEMMA OneOfItsMoves ==
  ASSUME SettlementInv, [Next]_vars, NEW i \in Indices
  PROVE  \/ Untouched(windows'[i], windows[i])
         \/ Opened(windows'[i], windows[i])
         \/ Filled(windows'[i], windows[i])
         \/ DecidedNow(windows'[i], windows[i])
         \/ Forgotten(windows'[i], windows[i])
BY EveryStepHasAShape DEF StepShape, QuietStep, Moves

LEMMA StepKeepsOutcome ==
  ASSUME SettlementInv, [Next]_vars
  PROVE  OutcomeStays
<1> SUFFICES ASSUME NEW i \in Indices, Live(windows[i]), Settleable(windows[i])
             PROVE  IF windows'[i].state = "Open" THEN Settlement(windows'[i]) = Settlement(windows[i])
                    ELSE windows'[i].winner = Settlement(windows[i]).winner
  BY DEF OutcomeStays
<1> DEFINE w == windows[i]
           v == windows'[i]
<1>1. CASE Untouched(v, w) \/ Filled(v, w)
  <2>1. SameTerms(v, w) /\ v.prints = w.prints /\ v.state = "Open"
    BY <1>1 DEF Untouched, Filled, Live
  <2> HIDE DEF v, w
  <2>2. Policy(v) = Policy(w)
    BY <2>1 DEF SameTerms, Policy
  <2>3. (HasCheck(v) <=> HasCheck(w)) /\ (BothChecks(v) <=> BothChecks(w)) /\ (Disputed(v) <=> Disputed(w))
    BY <2>1, <2>2 DEF HasCheck, BothChecks, Disputed, Missing
  <2>4. Settlement(v) = Settlement(w)
    BY <2>1, <2>3 DEF Settlement
  <2>5. QED
    BY <2>1, <2>4 DEF v, w
<1>2. CASE DecidedNow(v, w)
  BY <1>2 DEF DecidedNow, Terminal
<1>3. CASE Opened(v, w) \/ Forgotten(v, w)
  BY <1>3 DEF Opened, Forgotten, Live, Terminal
<1>4. QED
  BY <1>1, <1>2, <1>3, OneOfItsMoves

LEMMA StepSettlesLate ==
  ASSUME SettlementInv, [Next]_vars
  PROVE  SingleSourceIsLate
<1> SUFFICES ASSUME NEW i \in Indices, Live(windows[i]), windows'[i].single,
                    NEW s \in {"CheckOpen", "CheckClose"}
             PROVE  now > Boundary(windows[i], s) + Policy(windows[i]).checkAdmission
  BY DEF SingleSourceIsLate
<1> DEFINE w == windows[i]
           v == windows'[i]
<1>1. w \in Window /\ WindowSound(w) /\ now \in Nat
  BY TypesOf DEF SettlementInv, WindowsSound
<1>2. ~w.single /\ w.state = "Open" /\ w.start < w.expiry /\ w.version \in 1..Len(PolicyList)
  BY <1>1 DEF WindowSound, Live
<1>3. DecidedNow(v, w)
  BY <1>2, OneOfItsMoves DEF Untouched, Opened, Filled, Forgotten, Terminal
<1>4. now > w.expiry + Policy(w).checkAdmission
  BY <1>3 DEF DecidedNow, CheckBound
<1>5. w.start \in Nat /\ w.expiry \in Nat /\ Policy(w).checkAdmission \in Nat
  <2>1. PolicyList[w.version] \in PolicyVersion
    BY <1>2, SeriesAssumption
  <2>2. QED
    BY <1>1, <2>1 DEF Window, Policy, PolicyVersion
<1> HIDE DEF v, w
<1>6. Boundary(w, s) \in Nat /\ Boundary(w, s) <= w.expiry
  BY <1>2, <1>5 DEF Boundary
<1>7. now > Boundary(w, s) + Policy(w).checkAdmission
  BY <1>1, <1>4, <1>5, <1>6
<1>8. QED
  BY <1>7 DEF w

\* Once a Window can be settled, no record, copy, void or late settler changes what it settles to:
\* every slot's admission ends before settle_decision may leave it out.
THEOREM OutcomeIsFixedHolds == Spec => OutcomeIsFixed
<1>1. SettlementInv /\ [Next]_vars => OutcomeStays
  BY StepKeepsOutcome
<1>2. QED
  BY <1>1, SettlementInvariant, PTL DEF Spec, OutcomeIsFixed, OutcomeStays

\* No settler skips a check print that may still land (settle_decision's check_bound against
\* admit_slot's deadlines, for every policy the admin may append).
THEOREM NoEarlySingleSourceHolds == Spec => NoEarlySingleSource
<1>1. SettlementInv /\ [Next]_vars => SingleSourceIsLate
  BY StepSettlesLate
<1>2. QED
  BY <1>1, SettlementInvariant, PTL DEF Spec, NoEarlySingleSource, SingleSourceIsLate

-----------------------------------------------------------------------------
(* The clock: no print comes before its boundary, and none after its       *)
(* deadline.                                                               *)

OnTime ==
  \A i \in Indices :
    LET w == windows[i]
    IN  /\ w.state # "Unlisted" => TimesInOrder(w)
        /\ \A s \in Slots : ~Missing(w, s) => w.state # "Unlisted" /\ now >= Boundary(w, s)

\* The clock only advances.
LEMMA ClockAdvances ==
  ASSUME SettlementInv, [Next]_vars
  PROVE  now' \in Nat /\ now <= now'
<1>1. now \in Nat
  BY TypesOf
<1>2. CASE Tick
  BY <1>1, <1>2 DEF Tick
<1>3. now' = now \/ Tick
  <2>1. ASSUME NEW i \in Indices, NEW p \in Products, AddDependent(p, i) \/ ReleaseDependent(p, i)
        PROVE  now' = now
    BY <2>1 DEF AddDependent, ReleaseDependent
  <2>2. QED
    BY <2>1 DEF Next, vars, SetMode, SetAuthorities, Listing, AddBook, OpenWindow, AddPolicyVersion,
         Printing, RecordPrint, CopyOpen, Resolving, SettleWindow, VoidExpired, Resolve, Trade, EmptyBook,
         RedeemSeats, WithdrawSeats, EmptySeats, Closing, ReleaseBook, CloseLedger, CloseMarket
<1>4. QED
  BY <1>1, <1>2, <1>3

LEMMA SameBoundary ==
  ASSUME NEW v, NEW w, SameTerms(v, w)
  PROVE  /\ \A s \in Slots : Boundary(v, s) = Boundary(w, s) /\ Deadline(v, s) = Deadline(w, s)
         /\ TimesInOrder(v) <=> TimesInOrder(w)
BY DEF SameTerms, Boundary, Deadline, Policy, TimesInOrder

\* A print that is handed over was on time where it comes from, and the boundary is the same second.
LEMMA HandedOverOnTime ==
  ASSUME OnTime, NEW w, NEW s, HandedOver(w, s)
  PROVE  now >= Boundary(w, s)
<1>1. PICK j \in Indices, t \in {"Close", "CheckClose"} :
        ~Missing(windows[j], t) /\ windows[j].expiry = w.start
  BY DEF HandedOver
<1>2. now >= Boundary(windows[j], t)
  BY <1>1 DEF OnTime, Slots
<1>3. QED
  BY <1>1, <1>2 DEF HandedOver, Boundary

LEMMA OnTimeKept ==
  ASSUME SettlementInv, OnTime, [Next]_vars
  PROVE  OnTime'
<1> SUFFICES ASSUME NEW i \in Indices
             PROVE  LET v == windows'[i]
                    IN  /\ v.state # "Unlisted" => TimesInOrder(v)
                        /\ \A s \in Slots : ~Missing(v, s) => v.state # "Unlisted" /\ now' >= Boundary(v, s)
  BY DEF OnTime, TimesInOrder, Missing, Boundary
<1> DEFINE w == windows[i]
           v == windows'[i]
<1>1. now \in Nat /\ now' \in Nat /\ now <= now'
  BY TypesOf, ClockAdvances
<1>2. /\ w.state # "Unlisted" => TimesInOrder(w)
      /\ \A s \in Slots : ~Missing(w, s) => w.state # "Unlisted" /\ now >= Boundary(w, s)
  BY DEF OnTime
<1>3. w.state # "Unlisted" => \A s \in Slots : Boundary(w, s) \in Nat
  BY NumbersOf
<1>4. Untouched(v, w) \/ Opened(v, w) \/ Filled(v, w) \/ DecidedNow(v, w) \/ Forgotten(v, w)
  BY OneOfItsMoves
<1> HIDE DEF v, w
<1>5. CASE Untouched(v, w) \/ DecidedNow(v, w) \/ Forgotten(v, w)
  <2>1. /\ SameTerms(v, w) /\ v.prints = w.prints
        /\ w.state = "Unlisted" <=> v.state = "Unlisted"
    BY <1>5 DEF Untouched, DecidedNow, Forgotten, Live, Terminal
  <2>2. \A s \in Slots : Missing(v, s) <=> Missing(w, s)
    BY <2>1 DEF Missing
  <2>3. QED
    BY <1>1, <1>2, <1>3, <2>1, <2>2, SameBoundary DEF v
<1>6. CASE Opened(v, w)
  <2>1. v.prints = w.prints /\ w.state = "Unlisted" /\ v.state = "Open" /\ TimesInOrder(v)
    BY <1>6 DEF Opened
  <2>2. \A s \in Slots : Missing(v, s)
    BY <1>2, <2>1 DEF Missing
  <2>3. QED
    BY <2>1, <2>2 DEF v
<1>7. CASE Filled(v, w)
  <2>1. SameTerms(v, w) /\ v.state = "Open" /\ w.state = "Open"
    BY <1>7 DEF Filled, Live
  <2>2. ASSUME NEW s \in Slots, ~Missing(v, s) PROVE now >= Boundary(w, s)
    <3>1. CASE Missing(w, s)
      BY <1>7, <2>2, <3>1, HandedOverOnTime DEF Filled
    <3>2. CASE ~Missing(w, s)
      BY <1>2, <3>2
    <3>3. QED
      BY <3>1, <3>2
  <2>3. QED
    BY <1>1, <1>2, <1>3, <2>1, <2>2, SameBoundary DEF v
<1>8. QED
  BY <1>4, <1>5, <1>6, <1>7

\* The second inductive invariant: no slot holds a print of a boundary the clock has not reached, not
\* even an Open copied from the predecessor, and the times of a Window follow one another.
THEOREM OnTimeInvariant == Spec => [](SettlementInv /\ OnTime)
<1>1. Init => OnTime
  BY DEF Init, OnTime, EmptyWindow, Missing
<1>2. SettlementInv /\ OnTime /\ [Next]_vars => OnTime'
  BY OnTimeKept
<1>3. QED
  BY <1>1, <1>2, SettlementInvariant, PTL DEF Spec

\* What PrintOrVoid says of one step.
VoidableStays ==
  \A i \in Indices :
    Live(windows[i]) /\ Voidable(windows[i])
      => IF windows'[i].state = "Open" THEN Voidable(windows[i])' ELSE windows'[i].reason = "MissingPrint"

LEMMA StepKeepsVoidable ==
  ASSUME SettlementInv, [Next]_vars
  PROVE  VoidableStays
<1> SUFFICES ASSUME NEW i \in Indices, Live(windows[i]), Voidable(windows[i])
             PROVE  IF windows'[i].state = "Open" THEN Voidable(windows[i])'
                    ELSE windows'[i].reason = "MissingPrint"
  BY DEF VoidableStays
<1> DEFINE w == windows[i]
           v == windows'[i]
<1>1. now \in Nat /\ now' \in Nat /\ now <= now'
  BY TypesOf, ClockAdvances
<1>2. w.openDeadline \in Nat /\ w.closeDeadline \in Nat
  BY NumbersOf DEF Live
<1>3. \/ Missing(w, "Open") /\ now > w.openDeadline
      \/ Missing(w, "Close") /\ now > w.closeDeadline
  BY DEF Voidable
<1>4. CASE Untouched(v, w) \/ Filled(v, w)
  <2>1. SameTerms(v, w) /\ v.state = "Open"
    BY <1>4 DEF Untouched, Filled, Live
  <2>2. ASSUME NEW s \in {"Open", "Close"}, Missing(w, s), now > Deadline(w, s)
        PROVE  Missing(v, s)
    <3>1. CASE Untouched(v, w)
      BY <2>2, <3>1 DEF Untouched, Missing
    <3>2. CASE Filled(v, w)
      <4>1. ~(now <= Deadline(w, s))
        BY <1>1, <1>2, <2>2 DEF Deadline
      <4>2. QED
        BY <2>2, <3>2, <4>1 DEF Filled, Slots
    <3>3. QED
      BY <1>4, <3>1, <3>2
  <2>3. \/ Missing(v, "Open") /\ now' > v.openDeadline
        \/ Missing(v, "Close") /\ now' > v.closeDeadline
    BY <1>1, <1>2, <1>3, <2>1, <2>2 DEF Deadline, SameTerms
  <2>4. QED
    BY <2>1, <2>3 DEF Voidable, Missing
<1>5. CASE DecidedNow(v, w)
  <2>1. ~Settleable(w)
    BY DEF Voidable, Settleable
  <2>2. QED
    BY <1>5, <2>1 DEF DecidedNow, Terminal
<1>6. CASE Opened(v, w) \/ Forgotten(v, w)
  BY <1>6 DEF Opened, Forgotten, Live, Terminal
<1>7. QED
  BY <1>4, <1>5, <1>6, OneOfItsMoves

\* Once a Window may be voided no print can complete it any more, for every policy's admission periods
\* and any order of the instructions: the clock makes print and void mutually exclusive (PD-6).
THEOREM PrintOrVoidHolds == Spec => PrintOrVoid
<1>1. SettlementInv /\ [Next]_vars => VoidableStays
  BY StepKeepsVoidable
<1>2. QED
  BY <1>1, SettlementInvariant, PTL DEF Spec, PrintOrVoid, VoidableStays

-----------------------------------------------------------------------------
(* The refinement: every step is one of Verdict's or leaves its state as   *)
(* it was.                                                                 *)

phases == [i \in Indices |-> Phase(windows[i])]
evidences == [i \in Indices |-> windows[i].prints]
verdicts == [i \in Indices |-> windows[i].winner]

LEMMA PromiseBegins == Init => Promise!Init
<1> SUFFICES ASSUME Init
             PROVE  Promise!Init
  OBVIOUS
<1>1. /\ windows = [i \in Indices |-> EmptyWindow] /\ EmptyWindow.dependents = 0
      /\ EmptyWindow.state = "Unlisted" /\ EmptyWindow.winner = "None"
      /\ EmptyWindow.prints = [s \in Slots |-> NoPrint]
  BY DEF Init, EmptyWindow
<1>2. Phase(EmptyWindow) = "none"
  BY <1>1 DEF Phase
<1>3. QED
  BY <1>1, <1>2 DEF Promise!Init

LEMMA UntouchedIsMapped ==
  ASSUME NEW j \in Indices, Untouched(windows'[j], windows[j])
  PROVE  /\ Phase(windows'[j]) = Phase(windows[j])
         /\ windows'[j].prints = windows[j].prints /\ windows'[j].winner = windows[j].winner
BY DEF Untouched, Phase

\* What the abstract variables become when only Window i moves.
LEMMA MappedMove ==
  ASSUME NEW i \in Indices, \A j \in Indices : j # i => Untouched(windows'[j], windows[j])
  PROVE  /\ phases' = [phases EXCEPT ![i] = Phase(windows'[i])]
         /\ evidences' = [evidences EXCEPT ![i] = windows'[i].prints]
         /\ verdicts' = [verdicts EXCEPT ![i] = windows'[i].winner]
         /\ (windows'[i].prints = windows[i].prints => evidences' = evidences)
         /\ (windows'[i].winner = windows[i].winner => verdicts' = verdicts)
         /\ (Phase(windows'[i]) = Phase(windows[i]) => phases' = phases)
<1>1. \A j \in Indices : j # i => /\ Phase(windows'[j]) = Phase(windows[j])
                                  /\ windows'[j].prints = windows[j].prints
                                  /\ windows'[j].winner = windows[j].winner
  BY UntouchedIsMapped
<1>2. /\ phases' = [j \in Indices |-> Phase(windows'[j])]
      /\ evidences' = [j \in Indices |-> windows'[j].prints]
      /\ verdicts' = [j \in Indices |-> windows'[j].winner]
  BY DEF phases, evidences, verdicts, Phase
<1>3. phases' = [phases EXCEPT ![i] = Phase(windows'[i])]
  BY <1>1, <1>2 DEF phases
<1>4. evidences' = [evidences EXCEPT ![i] = windows'[i].prints]
  BY <1>1, <1>2 DEF evidences
<1>5. verdicts' = [verdicts EXCEPT ![i] = windows'[i].winner]
  BY <1>1, <1>2 DEF verdicts
<1>6. windows'[i].prints = windows[i].prints => evidences' = evidences
  BY <1>1, <1>2 DEF evidences
<1>7. windows'[i].winner = windows[i].winner => verdicts' = verdicts
  BY <1>1, <1>2 DEF verdicts
<1>8. Phase(windows'[i]) = Phase(windows[i]) => phases' = phases
  BY <1>1, <1>2 DEF phases
<1>9. QED
  BY <1>3, <1>4, <1>5, <1>6, <1>7, <1>8

LEMMA ResultIsFollowed ==
  ASSUME NEW v \in Window, ResultFollows(v), Terminal(v), v.winner = "Void" <=> v.state = "Voided"
  PROVE  Promise!Follows(v.winner, v.prints)
<1>1. v.winner \in {"Yes", "No"} => v.state = "Resolved"
  BY DEF Terminal
<1>2. v.prints["Open"] \in Nat /\ v.prints["Close"] \in Nat
  <2>1. v.prints \in Prints
    BY DEF Window, Prints
  <2>2. Prices \cup {NoPrint} \subseteq Nat
    BY SeriesAssumption DEF NoPrint
  <2>3. QED
    BY <2>1, <2>2 DEF Slots, Prints
<1>3. QED
  BY <1>1, <1>2 DEF Promise!Follows, ResultFollows, Has

\* Verdict's actions under the mapping.
LEMMA ListIs ==
  ASSUME NEW i \in Indices, phases[i] = "none", \A j \in Indices : j < i => phases[j] # "none",
         phases' = [phases EXCEPT ![i] = "open"], evidences' = evidences, verdicts' = verdicts,
         counts' = counts
  PROVE  Promise!Next
<1>1. Promise!List(i)
  BY DEF Promise!List, phases, evidences, verdicts, counts
<1>2. QED
  BY <1>1 DEF Promise!Next

LEMMA WitnessIs ==
  ASSUME NEW i \in Indices, phases[i] = "open", evidences'[i] \in Prints,
         \A s \in Slots : evidences[i][s] # NoPrint => evidences'[i][s] = evidences[i][s],
         evidences' = [evidences EXCEPT ![i] = evidences'[i]], phases' = phases, verdicts' = verdicts,
         counts' = counts
  PROVE  Promise!Next
<1>1. Promise!Witness(i)
  BY DEF Promise!Witness, Promise!Evidence, Prints, phases, evidences, verdicts, counts
<1>2. QED
  BY <1>1 DEF Promise!Next

LEMMA DecideIs ==
  ASSUME NEW i \in Indices, NEW v \in {"Yes", "No", "Void"}, phases[i] = "open",
         Promise!Follows(v, evidences[i]),
         phases' = [phases EXCEPT ![i] = "decided"], verdicts' = [verdicts EXCEPT ![i] = v],
         evidences' = evidences, counts' = counts
  PROVE  Promise!Next
<1>1. Promise!Decide(i, v)
  BY DEF Promise!Decide, phases, evidences, verdicts, counts
<1>2. QED
  BY <1>1 DEF Promise!Next

LEMMA ForgetIs ==
  ASSUME NEW i \in Indices, phases[i] = "decided", counts[i] = 0,
         phases' = [phases EXCEPT ![i] = "closed"], verdicts' = verdicts,
         evidences' = evidences, counts' = counts
  PROVE  Promise!Next
<1>1. Promise!Forget(i)
  BY DEF Promise!Forget, phases, evidences, verdicts, counts
<1>2. QED
  BY <1>1 DEF Promise!Next

LEMMA ReaderIs ==
  ASSUME NEW i \in Indices, phases[i] \in {"open", "decided"}, ReadersMove(i),
         phases' = phases, verdicts' = verdicts, evidences' = evidences
  PROVE  Promise!Next
<1>1. Promise!Join(i) \/ Promise!Leave(i)
  BY DEF Promise!Join, Promise!Leave, ReadersMove, phases, evidences, verdicts, counts
<1>2. QED
  BY <1>1 DEF Promise!Next

LEMMA MoveIsPromised ==
  ASSUME SettlementInv, NEW i \in Indices, Moves(i), SettlementInv'
  PROVE  [Promise!Next]_(Promise!vars)
<1> DEFINE w == windows[i]
           v == windows'[i]
<1>1. /\ phases' = [phases EXCEPT ![i] = Phase(v)]
      /\ evidences' = [evidences EXCEPT ![i] = v.prints]
      /\ verdicts' = [verdicts EXCEPT ![i] = v.winner]
      /\ (v.prints = w.prints => evidences' = evidences)
      /\ (v.winner = w.winner => verdicts' = verdicts)
      /\ (Phase(v) = Phase(w) => phases' = phases)
  BY MappedMove DEF Moves
<1>2. phases[i] = Phase(w) /\ evidences[i] = w.prints /\ counts' = counts
  BY DEF phases, evidences, Moves
<1>3. CASE Opened(v, w) /\ i = series.next
  <2>1. Phase(w) = "none" /\ Phase(v) = "open" /\ v.prints = w.prints /\ v.winner = w.winner
    BY <1>3 DEF Opened, Phase
  <2>2. ASSUME NEW j \in Indices, j < i
        PROVE  phases[j] # "none"
    <3>1. windows[j].state # "Unlisted"
      BY <1>3, <2>2 DEF SettlementInv, ListedInOrder
    <3>2. Phase(windows[j]) # "none"
      BY <3>1 DEF Phase
    <3>3. QED
      BY <3>2 DEF phases
  <2>3. QED
    BY <1>1, <1>2, <2>1, <2>2, ListIs
<1>4. CASE Filled(v, w)
  <2>1. Phase(w) = "open" /\ Phase(v) = "open" /\ v.winner = w.winner /\ v.prints \in Prints
    BY <1>4 DEF Filled, Live, Phase
  <2>2. evidences'[i] = v.prints
    BY <1>1 DEF evidences
  <2>3. \A s \in Slots : evidences[i][s] # NoPrint => evidences'[i][s] = evidences[i][s]
    BY <1>2, <1>4, <2>2 DEF Filled
  <2>4. phases[i] = "open" /\ evidences'[i] \in Prints /\ phases' = phases /\ verdicts' = verdicts
        /\ evidences' = [evidences EXCEPT ![i] = evidences'[i]]
    BY <1>1, <1>2, <2>1, <2>2
  <2>5. QED
    BY <1>2, <2>3, <2>4, WitnessIs
<1>5. CASE DecidedNow(v, w)
  <2>1. Phase(w) = "open" /\ Phase(v) = "decided" /\ v.prints = w.prints
    BY <1>5 DEF DecidedNow, Live, Terminal, Phase
  <2>2. v \in Window
    BY DEF SettlementInv, TypeOK
  <2>3. Promise!Follows(v.winner, v.prints) /\ v.winner \in {"Yes", "No", "Void"}
    BY <1>5, <2>2, ResultIsFollowed DEF DecidedNow
  <2> HIDE DEF v, w
  <2>4. QED
    BY <1>1, <1>2, <2>1, <2>3, DecideIs
<1>6. CASE Forgotten(v, w) /\ counts[i] = 0
  <2>1. Phase(w) = "decided" /\ Phase(v) = "closed" /\ v.prints = w.prints /\ v.winner = w.winner
    BY <1>6 DEF Forgotten, Terminal, Phase
  <2>2. QED
    BY <1>1, <1>2, <1>6, <2>1, ForgetIs
<1>7. QED
  BY <1>3, <1>4, <1>5, <1>6 DEF Moves

LEMMA QuietIsPromised ==
  ASSUME QuietStep
  PROVE  [Promise!Next]_(Promise!vars)
<1>1. \A j \in Indices : /\ Phase(windows'[j]) = Phase(windows[j])
                         /\ windows'[j].prints = windows[j].prints
                         /\ windows'[j].winner = windows[j].winner
  BY UntouchedIsMapped DEF QuietStep
<1>2. phases' = phases /\ evidences' = evidences /\ verdicts' = verdicts
  <2>1. phases' = [j \in Indices |-> Phase(windows'[j])]
    BY DEF phases, Phase
  <2>2. QED
    BY <1>1, <2>1 DEF phases, evidences, verdicts
<1>3. CASE counts' = counts
  <2>1. UNCHANGED Promise!vars
    BY <1>2, <1>3 DEF Promise!vars, phases, evidences, verdicts, counts
  <2>2. QED
    BY <2>1
<1>4. ASSUME NEW i \in Indices, ReadersMove(i)
      PROVE  Promise!Next
  <2>1. phases[i] \in {"open", "decided"}
    <3>1. windows[i].state \in {"Open", "Resolved", "Voided"}
      BY <1>4 DEF ReadersMove, Listed
    <3>2. Phase(windows[i]) \in {"open", "decided"}
      BY <3>1 DEF Phase
    <3>3. QED
      BY <3>2 DEF phases
  <2>2. QED
    BY <1>2, <1>4, <2>1, ReaderIs
<1>5. QED
  BY <1>3, <1>4 DEF QuietStep

\* A Series keeps its promise: for every policy list, clock and set of quotes, it lists Windows in
\* turn, only adds to their prints, gives one verdict that follows from them, and forgets a Window
\* no reader still needs.
THEOREM SettlementKeepsPromise == Spec => KeepsPromise
<1>1. SettlementInv /\ SettlementInv' /\ [Next]_vars => [Promise!Next]_(Promise!vars)
  BY EveryStepHasAShape, MoveIsPromised, QuietIsPromised DEF StepShape
<1>2. QED
  BY <1>1, PromiseBegins, SettlementInvariant, PTL DEF Spec, KeepsPromise, Promise!Spec

-----------------------------------------------------------------------------
(* Each Window is a tenant: every step is one of Tenancy's for it, or      *)
(* leaves what Tenancy sees of it as it was.                               *)

TenantMoves(i) == [Stay(i)!Next]_(Stay(i)!vars)
AllTenantsMove == \A j \in Indices : TenantMoves(j)

\* What Tenancy reads of a Window's account.
SameTenant(v, w) ==
  /\ v.state = w.state /\ v.start = w.start /\ v.lock = w.lock /\ v.book = w.book
  /\ v.released = w.released /\ v.seated = w.seated /\ v.ledgerClosed = w.ledgerClosed

\* Whether the book of a Window that has one rests orders did not change.
RestsAlike(j) ==
  Listed(windows[j]) /\ ~windows[j].released
    => books'[windows[j].book].resting = books[windows[j].book].resting

LEMMA SameTenantSame ==
  ASSUME NEW v, NEW w, v = w
  PROVE  SameTenant(v, w)
BY DEF SameTenant

LEMMA TenantStill ==
  ASSUME NEW j \in Indices, SameTenant(windows'[j], windows[j]), now' = now, RestsAlike(j)
  PROVE  TenantMoves(j)
<1>1. Stage(windows[j])' = Stage(windows[j])
  BY DEF Stage, Status, Terminal, SameTenant
<1>2. Rests(windows[j])' = Rests(windows[j])
  BY DEF Rests, Listed, RestsAlike, SameTenant
<1>3. UNCHANGED Stay(j)!vars
  BY <1>1, <1>2 DEF Stay!vars, SameTenant
<1>4. QED
  BY <1>3 DEF TenantMoves

\* No account of a Window changes in what Tenancy reads.
LEMMA TenantsStill ==
  ASSUME \A j \in Indices : SameTenant(windows'[j], windows[j]), now' = now,
         \A j \in Indices : RestsAlike(j)
  PROVE  AllTenantsMove
BY TenantStill DEF AllTenantsMove

\* One Window moves, on a book no other rests on.
LEMMA OneTenantMoves ==
  ASSUME SettlementInv, NEW i \in Indices, TenantMoves(i), now' = now,
         \A j \in Indices : j # i => windows'[j] = windows[j],
         \/ books' = books
         \/ /\ books[windows[i].book].window = i
            /\ \A c \in Books : c # windows[i].book => books'[c] = books[c]
  PROVE  AllTenantsMove
<1>1. ASSUME NEW j \in Indices, j # i PROVE RestsAlike(j)
  <2>1. SUFFICES ASSUME Listed(windows[j]), ~windows[j].released
                 PROVE  books'[windows[j].book].resting = books[windows[j].book].resting
    BY DEF RestsAlike
  <2>2. books[windows[j].book].window = j
    BY <2>1 DEF SettlementInv, BooksAccounted
  <2>3. windows[j].book \in Books
    BY <2>1 DEF SettlementInv, WindowsSound, WindowSound, Listed
  <2>4. QED
    BY <1>1, <2>2, <2>3
<1>2. ASSUME NEW j \in Indices, j # i PROVE TenantMoves(j)
  BY <1>1, <1>2, TenantStill DEF SameTenant
<1>3. QED
  BY <1>2 DEF AllTenantsMove

\* Where a Window stands.
LEMMA StageIs ==
  ASSUME NEW w
  PROVE  /\ w.state = "Unlisted" => Stage(w) = "Unlisted"
         /\ w.state = "Closed" => Stage(w) = "Closed"
         /\ Terminal(w) => Stage(w) = w.state
         /\ Live(w) => /\ Stage(w) = Status(w)
                       /\ Status(w) = IF now < w.start THEN "Listed"
                                      ELSE IF now < w.lock THEN "Trading" ELSE "Locked"
BY DEF Stage, Status, Terminal, Live

LEMMA OutsideTenants ==
  ASSUME UNCHANGED <<now, windows, books>>
  PROVE  AllTenantsMove
<1>1. \A j \in Indices : SameTenant(windows'[j], windows[j]) /\ RestsAlike(j)
  BY DEF SameTenant, RestsAlike
<1>2. QED
  BY <1>1, TenantsStill

\* The times of a Window are numbers.
NumbersAre(w) ==
  {w.start, w.lock, w.expiry, w.openDeadline, w.closeDeadline} \subseteq Nat

-----------------------------------------------------------------------------
(* The clock, the roller and the prints.                                   *)

LEMMA TickPasses ==
  ASSUME SettlementInv, OnTime, Tick
  PROVE  AllTenantsMove
<1> SUFFICES ASSUME NEW j \in Indices PROVE TenantMoves(j)
  BY DEF AllTenantsMove
<1> DEFINE w == windows[j]
<1>1. now \in Nat /\ now' = now + 1 /\ windows' = windows /\ books' = books
  BY TypesOf DEF Tick
<1>2. /\ Rests(windows[j])' = Rests(w) /\ windows'[j].seated = w.seated
      /\ windows'[j].released = w.released /\ windows'[j].ledgerClosed = w.ledgerClosed
  BY <1>1 DEF Rests, Listed
<1>3. CASE ~Live(w)
  <2>1. w.state \in {"Unlisted", "Resolved", "Voided", "Closed"}
    <3>1. w \in Window
      BY TypesOf
    <3>2. QED
      BY <1>3, <3>1 DEF Window, Live
  <2>2. Stage(windows[j])' = Stage(w)
    BY <1>1, <2>1 DEF Stage, Status, Terminal
  <2>3. UNCHANGED Stay(j)!vars
    BY <1>2, <2>2 DEF Stay!vars
  <2>4. QED
    BY <2>3 DEF TenantMoves
<1>4. CASE Live(w)
  <2>1. w.start \in Nat /\ w.lock \in Nat /\ w.start < w.lock
    BY <1>4, NumbersOf DEF OnTime, TimesInOrder, Live
  <2>2. Stage(w) = IF now < w.start THEN "Listed" ELSE IF now < w.lock THEN "Trading" ELSE "Locked"
    BY <1>4, StageIs
  <2>3. Stage(windows[j])' =
          IF now' < w.start THEN "Listed" ELSE IF now' < w.lock THEN "Trading" ELSE "Locked"
    BY <1>1, <1>4 DEF Stage, Status, Terminal, Live
  <2> HIDE DEF w
  <2>4. \/ Stage(windows[j])' = Stage(w)
        \/ Stage(w) = "Listed" /\ Stage(windows[j])' = "Trading"
        \/ Stage(w) = "Trading" /\ Stage(windows[j])' = "Locked"
    BY <1>1, <2>1, <2>2, <2>3
  <2>5. Stay(j)!Pass \/ UNCHANGED Stay(j)!vars
    BY <1>2, <2>4 DEF Stay!Pass, Stay!vars, w
  <2>6. QED
    BY <2>5 DEF TenantMoves, Stay!Next
<1>5. QED
  BY <1>3, <1>4

\* A new Window comes without orders and seats, on a book nobody rests on.
LEMMA NewTenantLists ==
  ASSUME NEW k \in Indices, NEW b \in Books, NEW start \in Nat, NEW lock \in Nat,
         NewTenant(windows'[k], b, start, lock), windows[k].state = "Unlisted", books'[b].resting = FALSE,
         now \in Nat, now' = now, now < lock
  PROVE  TenantMoves(k)
<1>1. Stage(windows[k]) = "Unlisted"
  BY StageIs
<1>2. /\ windows'[k].state = "Open" /\ windows'[k].start = start /\ windows'[k].lock = lock
      /\ windows'[k].book = b /\ windows'[k].seated = FALSE /\ windows'[k].released = FALSE
      /\ windows'[k].ledgerClosed = FALSE
  BY DEF NewTenant
<1>3. Stage(windows[k])' = IF now < start THEN "Listed" ELSE IF now < lock THEN "Trading" ELSE "Locked"
  BY <1>2 DEF Stage, Status, Terminal
<1>4. Stage(windows[k])' \in {"Listed", "Trading"}
  BY <1>3
<1>5. Rests(windows[k])' = FALSE
  BY <1>2 DEF Rests
<1>6. Stay(k)!List
  BY <1>1, <1>2, <1>4, <1>5 DEF Stay!List
<1>7. Stay(k)!Next
  BY <1>6 DEF Stay!Next
<1>8. QED
  BY <1>7 DEF TenantMoves

LEMMA OpenWindowLists ==
  ASSUME SettlementInv, NEW b \in Books, OpenWindow(b)
  PROVE  AllTenantsMove
<1>0. PICK k : k = series.next
  OBVIOUS
<1>1. k < MaxWindows /\ ~books[b].resting /\ now' = now /\ now \in Nat /\ books \in [Books -> Book]
  BY <1>0, TypesOf DEF OpenWindow
<1>2. PICK start \in Times, lock \in Times, expiry \in Times, v \in 1..series.versions :
        LET w == NewWindow(b, start, lock, expiry, v)
        IN  /\ SpanAdmitted(start, lock, expiry)
            /\ HighestCovering(v, start, expiry)
            /\ WithinTime(w)
            /\ series' = [series EXCEPT !.next = @ + 1, !.lastExpiry = expiry, !.free = @ \ {b}]
            /\ books' = [books EXCEPT ![b].window = series.next]
            /\ windows' = [windows EXCEPT ![series.next] = w]
  BY Zenon DEF OpenWindow
<1> DEFINE w == NewWindow(b, start, lock, expiry, v)
<1>3. k \in Indices
  <2>1. k \in Nat
    BY <1>0, TypesOf
  <2>2. QED
    BY <1>1, <2>1, LimitsAssumption DEF Indices
<1>4. start \in Nat /\ lock \in Nat /\ expiry \in Nat /\ v \in 1..Len(PolicyList)
  <2>1. series.versions \in 0..Len(PolicyList) /\ Len(PolicyList) \in Nat
    BY TypesOf, SeriesAssumption
  <2>2. QED
    BY <2>1, LimitsAssumption DEF Times
<1>5. now < lock
  BY <1>1, <1>2, <1>4 DEF SpanAdmitted
<1>6. windows[k].state = "Unlisted"
  <2>1. ~(k < series.next)
    BY <1>0, TypesOf
  <2>2. QED
    BY <1>3, <2>1 DEF SettlementInv, ListedInOrder
<1>7. NewTenant(w, b, start, lock)
  <2>1. w = NewWindow(b, start, lock, expiry, v)
    OBVIOUS
  <2> HIDE DEF w
  <2>2. QED
    BY <1>4, <2>1, NewWindowIsTenant
<1>8. windows' = [windows EXCEPT ![k] = w] /\ windows \in [Indices -> Window]
  BY <1>0, <1>2, TypesOf
<1> HIDE DEF w
<1>9. windows'[k] = w /\ \A j \in Indices : j # k => windows'[j] = windows[j]
  BY <1>3, <1>8
<1>10. \A c \in Books : books'[c].resting = books[c].resting
  <2>1. books[b] \in Book
    BY <1>1
  <2>2. books' = [books EXCEPT ![b] = [books[b] EXCEPT !.window = k]]
    BY <1>0, <1>2
  <2>3. [books[b] EXCEPT !.window = k].resting = books[b].resting
    BY <2>1 DEF Book
  <2>4. QED
    BY <1>1, <2>2, <2>3
<1>11. ASSUME NEW j \in Indices, j # k PROVE TenantMoves(j)
  <2>1. Listed(windows[j]) => windows[j].book \in Books
    BY DEF SettlementInv, WindowsSound, WindowSound, Listed
  <2>2. RestsAlike(j)
    BY <1>10, <2>1 DEF RestsAlike
  <2>3. SameTenant(windows'[j], windows[j])
    BY <1>9, <1>11 DEF SameTenant
  <2>4. QED
    BY <1>1, <2>2, <2>3, TenantStill
<1>12. TenantMoves(k)
  <2>1. NewTenant(windows'[k], b, start, lock)
    BY <1>7, <1>9
  <2>2. books'[b].resting = FALSE
    <3>1. books[b].resting \in BOOLEAN
      BY <1>1 DEF Book
    <3>2. QED
      BY <1>1, <1>10, <3>1
  <2>3. QED
    BY <1>1, <1>3, <1>4, <1>5, <1>6, <2>1, <2>2, NewTenantLists
<1>13. ASSUME NEW j \in Indices PROVE TenantMoves(j)
  <2>1. CASE j = k
    BY <1>12, <2>1
  <2>2. QED
    BY <1>11, <2>1
<1>14. QED
  BY <1>13 DEF AllTenantsMove

\* Prints, readers, books added and what the admin sets are not Tenancy's.
LEMMA UnseenIsStill ==
  ASSUME SettlementInv, NEW i \in Indices, NEW v \in Window,
         windows' = [windows EXCEPT ![i] = v], SameTenant(v, windows[i]), now' = now, books' = books
  PROVE  AllTenantsMove
<1>1. windows'[i] = v /\ \A j \in Indices : j # i => windows'[j] = windows[j]
  BY TypesOf
<1>2. RestsAlike(i)
  BY DEF RestsAlike
<1>3. TenantMoves(i)
  BY <1>1, <1>2, TenantStill
<1>4. QED
  BY <1>1, <1>3, OneTenantMoves

LEMMA PrintsUnseen ==
  ASSUME SettlementInv, NEW i \in Indices, NEW ps \in Prints,
         windows' = [windows EXCEPT ![i] = [windows[i] EXCEPT !.prints = ps]], now' = now, books' = books
  PROVE  AllTenantsMove
<1> DEFINE w == windows[i]
           v == [w EXCEPT !.prints = ps]
<1>1. w \in Window /\ windows' = [windows EXCEPT ![i] = v]
  BY TypesOf
<1> HIDE DEF w
<1>2. v \in Window /\ SameTerms(v, w) /\ SameVerdict(v, w) /\ SameUpkeep(v, w)
  BY <1>1, PrintsChange
<1> HIDE DEF v
<1>3. SameTenant(v, w)
  BY <1>2 DEF SameTenant, SameTerms, SameVerdict, SameUpkeep
<1>4. QED
  BY <1>1, <1>2, <1>3, UnseenIsStill DEF w

LEMMA PrintingUnseen ==
  ASSUME SettlementInv, NEW i \in Indices, Printing(i)
  PROVE  AllTenantsMove
<1>1. windows \in [Indices -> Window] /\ windows[i] \in Window /\ windows[i].prints \in Prints
  <2>1. windows \in [Indices -> Window] /\ windows[i] \in Window
    BY TypesOf
  <2>2. QED
    BY <2>1 DEF Window, Prints
<1>2. ASSUME NEW s \in Slots, NEW attestor \in BOOLEAN, NEW p \in Prices, RecordPrint(i, s, attestor, p)
      PROVE  AllTenantsMove
  <2> DEFINE ps == [windows[i].prints EXCEPT ![s] = p]
  <2>1. ps \in Prints
    BY <1>1 DEF Prints
  <2>2. windows' = [windows EXCEPT ![i] = [windows[i] EXCEPT !.prints = ps]]
    BY <1>1, <1>2 DEF RecordPrint
  <2>3. now' = now /\ books' = books
    BY <1>2 DEF RecordPrint
  <2> HIDE DEF ps
  <2>4. QED
    BY <2>1, <2>2, <2>3, PrintsUnseen
<1>3. ASSUME CopyOpen(i) PROVE AllTenantsMove
  <2> DEFINE u == windows[i - 1]
             ps == [windows[i].prints EXCEPT !["Open"] = u.prints["Close"],
                       !["CheckOpen"] = IF CopiesCheck(i) THEN u.prints["CheckClose"]
                                        ELSE windows[i].prints["CheckOpen"]]
  <2>1. i - 1 \in Indices
    BY <1>3, LimitsAssumption DEF CopyOpen, CopyAdmitted, Indices
  <2>2. u.prints \in Prints
    BY <2>1, TypesOf DEF Window, Prints
  <2>3. ps \in Prints
    BY <1>1, <2>2 DEF Prints, Slots
  <2>4. windows' = [windows EXCEPT ![i] = [windows[i] EXCEPT !.prints = ps]]
    BY <1>1, <1>3 DEF CopyOpen
  <2>5. now' = now /\ books' = books
    BY <1>3 DEF CopyOpen
  <2> HIDE DEF ps
  <2>6. QED
    BY <2>3, <2>4, <2>5, PrintsUnseen
<1>4. QED
  BY <1>2, <1>3 DEF Printing

LEMMA ReadersUnseen ==
  ASSUME SettlementInv, NEW i \in Indices, NEW p \in Products, AddDependent(p, i) \/ ReleaseDependent(p, i)
  PROVE  AllTenantsMove
<1> DEFINE n == windows'[i].dependents
           w == windows[i]
<1>1. windows \in [Indices -> Window] /\ w \in Window /\ w.dependents \in Nat
  <2>1. windows \in [Indices -> Window] /\ w \in Window
    BY TypesOf
  <2>2. QED
    BY <2>1 DEF Window
<1>2. now' = now /\ books' = books
  BY DEF AddDependent, ReleaseDependent
<1>3. PICK m \in Nat : windows' = [windows EXCEPT ![i] = [w EXCEPT !.dependents = m]]
  <2>1. CASE AddDependent(p, i)
    <3>1. w.dependents + 1 \in Nat
      BY <1>1
    <3>2. QED
      BY <1>1, <2>1, <3>1 DEF AddDependent
  <2>2. CASE ReleaseDependent(p, i)
    <3>1. w.dependents - 1 \in Nat
      BY <1>1, <2>2 DEF ReleaseDependent
    <3>2. QED
      BY <1>1, <2>2, <3>1 DEF ReleaseDependent
  <2>3. QED
    BY <2>1, <2>2
<1>4. [w EXCEPT !.dependents = m] \in Window /\ SameTenant([w EXCEPT !.dependents = m], w)
  BY <1>1 DEF Window, SameTenant
<1>5. QED
  BY <1>2, <1>3, <1>4, UnseenIsStill

LEMMA ListingTenants ==
  ASSUME SettlementInv, Listing
  PROVE  AllTenantsMove
<1>1. ASSUME NEW b \in Books, AddBook(b) PROVE AllTenantsMove
  <2>1. windows' = windows /\ now' = now /\ books' = [books EXCEPT ![b].added = TRUE]
    BY <1>1 DEF AddBook
  <2>2. \A c \in Books : books'[c].resting = books[c].resting
    <3>1. books \in [Books -> Book] /\ books[b] \in Book
      BY TypesOf
    <3>2. books' = [books EXCEPT ![b] = [books[b] EXCEPT !.added = TRUE]]
      BY <2>1
    <3>3. [books[b] EXCEPT !.added = TRUE].resting = books[b].resting
      BY <3>1 DEF Book
    <3>4. QED
      BY <3>1, <3>2, <3>3
  <2>3. \A j \in Indices : RestsAlike(j)
    <3>1. \A j \in Indices : Listed(windows[j]) => windows[j].book \in Books
      BY DEF SettlementInv, WindowsSound, WindowSound, Listed
    <3>2. QED
      BY <2>2, <3>1 DEF RestsAlike
  <2>4. QED
    BY <2>1, <2>3, TenantsStill, SameTenantSame
<1>2. ASSUME AddPolicyVersion PROVE AllTenantsMove
  BY <1>2, OutsideTenants DEF AddPolicyVersion
<1>3. QED
  BY <1>1, <1>2, OpenWindowLists DEF Listing

-----------------------------------------------------------------------------
(* Verdicts.                                                               *)

\* A Window is settled only after its lock, voided only after it opened.
LEMMA ResolvingTenants ==
  ASSUME SettlementInv, OnTime, NEW i \in Indices, Resolving(i)
  PROVE  AllTenantsMove
<1>1. UNCHANGED <<now, books>> /\ now \in Nat
  BY TypesOf DEF Resolving, VoidExpired, SettleWindow, Resolve
<1>2. PICK v \in Window : /\ windows' = [windows EXCEPT ![i] = v]
                          /\ DecidedNow(v, windows[i]) /\ SameUpkeep(v, windows[i])
  BY VoidExpiredDecides, SettleWindowDecides DEF Resolving
<1> DEFINE w == windows[i]
<1>3. /\ windows'[i] = v /\ w \in Window
      /\ \A j \in Indices : j # i => windows'[j] = windows[j]
  BY <1>2, TypesOf
<1>4. Live(w) /\ Terminal(v) /\ SameTerms(v, w)
      /\ (v.state = "Resolved" => Settleable(w)) /\ (v.state = "Voided" => Settleable(w) \/ Voidable(w))
  BY <1>2 DEF DecidedNow
<1>5. /\ TimesInOrder(w) /\ NumbersAre(w)
      /\ \A s \in Slots : ~Missing(w, s) => now >= Boundary(w, s)
  <2>1. w.state # "Unlisted"
    BY <1>4 DEF Live
  <2>2. QED
    BY <1>3, <2>1 DEF OnTime, NumbersAre, Window
<1> HIDE DEF w
<1>6. Settleable(w) => now >= w.lock /\ now >= w.start
  <2>1. Settleable(w) => now >= w.expiry
    BY <1>5 DEF Settleable, Boundary, Slots
  <2>2. QED
    BY <1>1, <1>5, <2>1 DEF TimesInOrder, NumbersAre
<1>7. Voidable(w) => now >= w.start
  BY <1>1, <1>5 DEF Voidable, TimesInOrder, NumbersAre
<1>8. Stage(w) = IF now < w.start THEN "Listed" ELSE IF now < w.lock THEN "Trading" ELSE "Locked"
  BY <1>4, StageIs
<1>9. Settleable(w) => Stage(w) = "Locked"
  BY <1>1, <1>5, <1>6, <1>8 DEF NumbersAre
<1>10. Voidable(w) => Stage(w) \in {"Trading", "Locked"}
  BY <1>1, <1>5, <1>7, <1>8 DEF NumbersAre
<1>11. Stage(v)' = v.state /\ v.state \in {"Resolved", "Voided"}
  BY <1>4 DEF Terminal, Stage, Status
<1>12. Rests(v)' = Rests(w)
  BY <1>1, <1>2, <1>4 DEF Rests, Listed, Live, Terminal, SameTerms, SameUpkeep, w
<1>13. Stage(windows[i])' = v.state /\ Rests(windows[i])' = Rests(windows[i])
  BY <1>3, <1>11, <1>12 DEF w
<1>14. windows'[i].seated = windows[i].seated /\ windows'[i].released = windows[i].released
       /\ windows'[i].ledgerClosed = windows[i].ledgerClosed
  BY <1>2, <1>3 DEF SameUpkeep
<1>15. \/ Stage(windows[i]) = "Locked" /\ Stage(windows[i])' = "Resolved"
       \/ Stage(windows[i]) \in {"Trading", "Locked"} /\ Stage(windows[i])' = "Voided"
  BY <1>4, <1>9, <1>10, <1>11, <1>13 DEF w
<1>16. Stay(i)!Decide
  BY <1>13, <1>14, <1>15 DEF Stay!Decide
<1>17. TenantMoves(i)
  <2>1. Stay(i)!Next
    BY <1>16 DEF Stay!Next
  <2>2. QED
    BY <2>1 DEF TenantMoves
<1>18. QED
  BY <1>1, <1>3, <1>17, OneTenantMoves

-----------------------------------------------------------------------------
(* Orders and seats.                                                       *)

LEMMA TradeUses ==
  ASSUME SettlementInv, NEW i \in Indices, Trade(i)
  PROVE  AllTenantsMove
<1> DEFINE w == windows[i]
           b == w.book
<1>1. /\ windows \in [Indices -> Window] /\ w \in Window /\ books \in [Books -> Book]
      /\ Listed(w) => b \in Books
  BY TypesOf DEF SettlementInv, WindowsSound, WindowSound, Listed
<1>2. PICK rests \in BOOLEAN, seats \in BOOLEAN :
        /\ rests => seats
        /\ books' = [books EXCEPT ![b].resting = rests]
        /\ windows' = [windows EXCEPT ![i].seated = seats]
  BY DEF Trade
<1> DEFINE v == [w EXCEPT !.seated = seats]
<1>3. /\ Listed(w) /\ books[b].window = i /\ Status(w) \in {"Listed", "Trading"} /\ now' = now
      /\ windows' = [windows EXCEPT ![i] = v]
  BY <1>1, <1>2 DEF Trade
<1>4. /\ \A c \in Books : c # b => books'[c] = books[c]
      /\ books'[b].resting = rests
  BY <1>1, <1>2, <1>3, RestingChange
<1> HIDE DEF w, b
<1>5. v \in Window /\ SameTerms(v, w) /\ SameVerdict(v, w) /\ v.dependents = w.dependents
      /\ v.released = w.released /\ v.ledgerClosed = w.ledgerClosed /\ v.seated = seats
  BY <1>1, SeatedChange
<1> HIDE DEF v
<1>6. windows'[i] = v /\ \A j \in Indices : j # i => windows'[j] = windows[j]
  BY <1>1, <1>3, <1>5
<1>7. Stage(windows[i])' = Stage(w) /\ Stage(w) \in {"Listed", "Trading"}
  BY <1>3, <1>5, <1>6 DEF Stage, Status, Terminal, Listed, SameTerms, SameVerdict
<1>8. Rests(windows[i])' \in BOOLEAN /\ (Rests(windows[i])' => v.seated)
  BY <1>2, <1>4, <1>5, <1>6 DEF Rests, Listed, SameTerms, b
<1>9. Stay(i)!Use
  <2>1. windows'[i].seated \in BOOLEAN /\ windows'[i].released = windows[i].released
        /\ windows'[i].ledgerClosed = windows[i].ledgerClosed
    BY <1>5, <1>6 DEF w
  <2>2. Stage(windows[i])' = Stage(windows[i]) /\ Stage(windows[i]) \in {"Listed", "Trading"}
    BY <1>6, <1>7 DEF w
  <2>3. Rests(windows[i])' \in BOOLEAN /\ (Rests(windows[i])' => windows'[i].seated)
    BY <1>6, <1>8
  <2>4. QED
    BY <2>1, <2>2, <2>3 DEF Stay!Use
<1>10. TenantMoves(i)
  <2>1. Stay(i)!Next
    BY <1>9 DEF Stay!Next
  <2>2. QED
    BY <2>1 DEF TenantMoves
<1>11. QED
  BY <1>3, <1>4, <1>6, <1>10, OneTenantMoves DEF w, b

LEMMA EmptyBookLeaves ==
  ASSUME SettlementInv, NEW i \in Indices, EmptyBook(i)
  PROVE  AllTenantsMove
<1> DEFINE w == windows[i]
           b == w.book
<1>1. w \in Window /\ books \in [Books -> Book]
  BY TypesOf
<1>2. /\ Listed(w) /\ ~w.released /\ books[b].resting /\ books' = [books EXCEPT ![b].resting = FALSE]
      /\ now' = now /\ windows' = windows
  BY DEF EmptyBook
<1>3. b \in Books /\ books[b].window = i
  BY <1>2 DEF SettlementInv, BooksAccounted, WindowsSound, WindowSound, Listed
<1>4. /\ \A c \in Books : c # b => books'[c] = books[c]
      /\ books'[b].resting = FALSE
  BY <1>1, <1>2, <1>3, RestingChange
<1>5. Rests(windows[i])' = FALSE /\ Rests(windows[i])
  BY <1>2, <1>4 DEF Rests
<1>6. Stage(windows[i])' = Stage(windows[i])
  BY <1>2 DEF Stage, Status, Terminal
<1>7. Stage(windows[i]) \in {"Listed", "Trading", "Locked", "Resolved", "Voided"}
  BY <1>2 DEF Stage, Status, Terminal, Listed
<1>8. /\ windows'[i].seated = windows[i].seated /\ windows'[i].released = windows[i].released
      /\ windows'[i].ledgerClosed = windows[i].ledgerClosed /\ windows[i].seated \in BOOLEAN
  BY <1>1, <1>2 DEF Window
<1>9. Stay(i)!Use \/ Stay(i)!Leave
  BY <1>5, <1>6, <1>7, <1>8 DEF Stay!Use, Stay!Leave
<1>10. TenantMoves(i)
  <2>1. Stay(i)!Next
    BY <1>9 DEF Stay!Next
  <2>2. QED
    BY <2>1 DEF TenantMoves
<1>11. QED
  BY <1>2, <1>3, <1>4, <1>10, OneTenantMoves

LEMMA EmptySeatsLeaves ==
  ASSUME SettlementInv, OnTime, NEW i \in Indices, RedeemSeats(i) \/ WithdrawSeats(i)
  PROVE  AllTenantsMove
<1> DEFINE w == windows[i]
           v == [w EXCEPT !.seated = FALSE]
<1>1. windows \in [Indices -> Window] /\ w \in Window /\ now \in Nat /\ books \in [Books -> Book]
  BY TypesOf
<1>2. /\ Listed(w) /\ windows' = [windows EXCEPT ![i] = v] /\ now' = now /\ books' = books
      /\ w.seated /\ (~w.released => ~books[w.book].resting)
  BY <1>1 DEF RedeemSeats, WithdrawSeats, EmptySeats, Terminal, Live, Listed
<1>3. Stage(w) \in {"Locked", "Resolved", "Voided"}
  <2>1. CASE RedeemSeats(i)
    BY <2>1, StageIs DEF RedeemSeats, Terminal
  <2>2. CASE WithdrawSeats(i)
    <3>1. Live(w) /\ now >= w.lock
      BY <2>2 DEF WithdrawSeats
    <3>2. TimesInOrder(w) /\ NumbersAre(w)
      BY <1>1, <3>1 DEF OnTime, Live, NumbersAre, Window
    <3>3. Stage(w) = IF now < w.start THEN "Listed" ELSE IF now < w.lock THEN "Trading" ELSE "Locked"
      BY <3>1, StageIs
    <3>4. ~(now < w.start) /\ ~(now < w.lock)
      BY <1>1, <3>1, <3>2 DEF TimesInOrder, NumbersAre
    <3>5. QED
      BY <3>3, <3>4
  <2>3. QED
    BY <2>1, <2>2
<1> HIDE DEF w
<1>4. v \in Window /\ SameTerms(v, w) /\ SameVerdict(v, w) /\ v.released = w.released
      /\ v.ledgerClosed = w.ledgerClosed /\ v.seated = FALSE
  BY <1>1, SeatedChange
<1> HIDE DEF v
<1>5. windows'[i] = v /\ \A j \in Indices : j # i => windows'[j] = windows[j]
  BY <1>1, <1>2, <1>4
<1>6. Stage(windows[i])' = Stage(w)
  BY <1>2, <1>4, <1>5 DEF Stage, Status, Terminal, SameTerms, SameVerdict
<1>7. Rests(windows[i])' = FALSE
  <2>1. w.released \in BOOLEAN /\ ~(~w.released /\ books[w.book].resting)
    BY <1>1, <1>2 DEF Window
  <2>2. QED
    BY <1>2, <1>4, <1>5, <2>1 DEF Rests, SameTerms
<1>8. Stay(i)!Leave
  <2>1. windows'[i].seated = FALSE /\ windows'[i].released = windows[i].released
        /\ windows'[i].ledgerClosed = windows[i].ledgerClosed
    BY <1>4, <1>5 DEF w
  <2>2. Stage(windows[i])' = Stage(windows[i]) /\ Stage(windows[i]) \in {"Locked", "Resolved", "Voided"}
    BY <1>3, <1>5, <1>6 DEF w
  <2>3. Rests(windows[i])' = FALSE
    BY <1>5, <1>7
  <2>4. QED
    BY <2>1, <2>2, <2>3 DEF Stay!Leave
<1>9. TenantMoves(i)
  <2>1. Stay(i)!Next
    BY <1>8 DEF Stay!Next
  <2>2. QED
    BY <2>1 DEF TenantMoves
<1>10. QED
  BY <1>2, <1>5, <1>9, OneTenantMoves

-----------------------------------------------------------------------------
(* Closing.                                                                *)

LEMMA ReleaseBookGivesBack ==
  ASSUME SettlementInv, NEW i \in Indices, ReleaseBook(i)
  PROVE  AllTenantsMove
<1> DEFINE w == windows[i]
           v == [w EXCEPT !.released = TRUE]
           b == w.book
<1>1. windows \in [Indices -> Window] /\ w \in Window /\ books \in [Books -> Book]
  BY TypesOf
<1>2. /\ Listed(w) /\ ~w.released /\ books[b].window = i /\ ~books[b].resting
      /\ Status(w) \in {"Locked", "Resolved", "Voided"}
      /\ books' = [books EXCEPT ![b].window = NoWindow]
      /\ windows' = [windows EXCEPT ![i] = v]
      /\ now' = now
  BY <1>1 DEF ReleaseBook, Releasable
<1>3. \A c \in Books : c # b => books'[c] = books[c]
  BY <1>1, <1>2
<1>4. Rests(w) = FALSE
  BY <1>2 DEF Rests
<1> HIDE DEF w, b
<1>5. v \in Window /\ SameTerms(v, w) /\ SameVerdict(v, w) /\ v.released = TRUE
      /\ v.seated = w.seated /\ v.ledgerClosed = w.ledgerClosed
  BY <1>1, ReleasedChange DEF Window
<1> HIDE DEF v
<1>6. windows'[i] = v /\ \A j \in Indices : j # i => windows'[j] = windows[j]
  BY <1>1, <1>2, <1>5
<1>7. Stage(windows[i])' = Stage(w) /\ Stage(w) \in {"Locked", "Resolved", "Voided"}
  BY <1>2, <1>5, <1>6 DEF Stage, Status, Terminal, Listed, SameTerms, SameVerdict
<1>8. Rests(windows[i])' = FALSE
  BY <1>5, <1>6 DEF Rests
<1>9. Stay(i)!GiveBack
  <2>1. windows'[i].seated = windows[i].seated /\ windows'[i].released = TRUE
        /\ windows'[i].ledgerClosed = windows[i].ledgerClosed
    BY <1>5, <1>6 DEF w
  <2>2. Stage(windows[i])' = Stage(windows[i]) /\ Stage(windows[i]) \in {"Locked", "Resolved", "Voided"}
    BY <1>6, <1>7 DEF w
  <2>3. Rests(windows[i])' = FALSE /\ Rests(windows[i]) = FALSE
    BY <1>4, <1>6, <1>8 DEF w
  <2>4. QED
    BY <1>2, <2>1, <2>2, <2>3 DEF Stay!GiveBack, w
<1>10. TenantMoves(i)
  <2>1. Stay(i)!Next
    BY <1>9 DEF Stay!Next
  <2>2. QED
    BY <2>1 DEF TenantMoves
<1>11. QED
  BY <1>2, <1>3, <1>6, <1>10, OneTenantMoves DEF w, b

LEMMA CloseLedgerCloses ==
  ASSUME SettlementInv, NEW i \in Indices, CloseLedger(i)
  PROVE  AllTenantsMove
<1> DEFINE w == windows[i]
           v == [w EXCEPT !.ledgerClosed = TRUE]
<1>1. windows \in [Indices -> Window] /\ w \in Window
  BY TypesOf
<1>2. /\ Terminal(w) /\ ~w.ledgerClosed /\ ~w.seated
      /\ windows' = [windows EXCEPT ![i] = v] /\ now' = now /\ books' = books
  BY <1>1 DEF CloseLedger
<1> HIDE DEF w
<1>3. v \in Window /\ SameTerms(v, w) /\ SameVerdict(v, w) /\ v.released = w.released
      /\ v.seated = w.seated /\ v.ledgerClosed = TRUE
  BY <1>1, LedgerChange DEF Window
<1> HIDE DEF v
<1>4. windows'[i] = v /\ \A j \in Indices : j # i => windows'[j] = windows[j]
  BY <1>1, <1>2, <1>3
<1>5. Stage(windows[i])' = Stage(w) /\ Stage(w) \in {"Resolved", "Voided"}
  BY <1>2, <1>3, <1>4 DEF Stage, Status, Terminal, SameVerdict
<1>6. Rests(windows[i])' = Rests(w)
  BY <1>2, <1>3, <1>4 DEF Rests, Listed, SameTerms, SameVerdict
<1>7. Stay(i)!CloseLedger
  <2>1. windows'[i].seated = windows[i].seated /\ windows'[i].released = windows[i].released
        /\ windows'[i].ledgerClosed = TRUE
    BY <1>3, <1>4 DEF w
  <2>2. Stage(windows[i])' = Stage(windows[i]) /\ Stage(windows[i]) \in {"Resolved", "Voided"}
        /\ Rests(windows[i])' = Rests(windows[i])
    BY <1>4, <1>5, <1>6 DEF w
  <2>3. QED
    BY <1>2, <2>1, <2>2 DEF Stay!CloseLedger, w
<1>8. TenantMoves(i)
  <2>1. Stay(i)!Next
    BY <1>7 DEF Stay!Next
  <2>2. QED
    BY <2>1 DEF TenantMoves
<1>9. QED
  BY <1>2, <1>4, <1>8, OneTenantMoves

LEMMA CloseMarketForgets ==
  ASSUME SettlementInv, NEW i \in Indices, CloseMarket(i)
  PROVE  AllTenantsMove
<1> DEFINE w == windows[i]
           v == [w EXCEPT !.state = "Closed"]
<1>1. windows \in [Indices -> Window] /\ w \in Window
  BY TypesOf
<1>2. /\ Terminal(w) /\ w.released /\ w.ledgerClosed
      /\ windows' = [windows EXCEPT ![i] = v] /\ now' = now /\ books' = books
  BY <1>1 DEF CloseMarket, Closeable
<1> HIDE DEF w
<1>3. v \in Window /\ SameTerms(v, w) /\ SameUpkeep(v, w) /\ v.state = "Closed"
  BY <1>1, StateChange
<1> HIDE DEF v
<1>4. windows'[i] = v /\ \A j \in Indices : j # i => windows'[j] = windows[j]
  BY <1>1, <1>2, <1>3
<1>5. Stage(windows[i])' = "Closed" /\ Stage(w) \in {"Resolved", "Voided"}
  BY <1>2, <1>3, <1>4, StageIs DEF Stage, Terminal
<1>6. Rests(windows[i])' = Rests(w)
  <2>1. v.released = w.released
    BY <1>3 DEF SameUpkeep
  <2>2. Rests(windows[i])' = FALSE /\ Rests(w) = FALSE
    BY <1>2, <1>4, <2>1 DEF Rests
  <2>3. QED
    BY <2>2
<1>7. Stay(i)!Forget
  <2>1. windows'[i].seated = windows[i].seated /\ windows'[i].released = windows[i].released
        /\ windows'[i].ledgerClosed = windows[i].ledgerClosed
    BY <1>3, <1>4 DEF w, SameUpkeep
  <2>2. Stage(windows[i])' = "Closed" /\ Stage(windows[i]) \in {"Resolved", "Voided"}
        /\ Rests(windows[i])' = Rests(windows[i])
    BY <1>4, <1>5, <1>6 DEF w
  <2>3. QED
    BY <1>2, <2>1, <2>2 DEF Stay!Forget, w
<1>8. TenantMoves(i)
  <2>1. Stay(i)!Next
    BY <1>7 DEF Stay!Next
  <2>2. QED
    BY <2>1 DEF TenantMoves
<1>9. QED
  BY <1>2, <1>4, <1>8, OneTenantMoves

-----------------------------------------------------------------------------
(* The refinement.                                                         *)

LEMMA TenantsBegin == Init => \A i \in Indices : Stay(i)!Init
<1> SUFFICES ASSUME Init, NEW i \in Indices PROVE Stay(i)!Init
  OBVIOUS
<1>1. windows[i] = EmptyWindow
  BY DEF Init
<1>2. windows[i].state = "Unlisted" /\ windows[i].seated = FALSE /\ windows[i].released = FALSE
      /\ windows[i].ledgerClosed = FALSE
  BY <1>1 DEF EmptyWindow
<1>3. Stage(windows[i]) = "Unlisted" /\ Rests(windows[i]) = FALSE
  BY <1>2 DEF Stage, Rests, Listed
<1>4. QED
  BY <1>2, <1>3 DEF Stay!Init

LEMMA TenantsMove ==
  ASSUME SettlementInv, OnTime, [Next]_vars
  PROVE  AllTenantsMove
<1>1. CASE SetMode \/ (\E P \in SUBSET Products : SetAuthorities(P)) \/ UNCHANGED vars
  <2>1. UNCHANGED <<now, windows, books>>
    BY <1>1 DEF SetMode, SetAuthorities, vars
  <2>2. QED
    BY <2>1, OutsideTenants
<1>2. ASSUME NEW i \in Indices, Resolving(i) PROVE AllTenantsMove
  BY <1>2, ResolvingTenants
<1>3. ASSUME NEW i \in Indices, Trade(i) \/ EmptyBook(i) \/ RedeemSeats(i) \/ WithdrawSeats(i)
      PROVE  AllTenantsMove
  BY <1>3, TradeUses, EmptyBookLeaves, EmptySeatsLeaves
<1>4. ASSUME NEW i \in Indices, Closing(i) PROVE AllTenantsMove
  BY <1>4, ReleaseBookGivesBack, CloseLedgerCloses, CloseMarketForgets DEF Closing
<1>5. QED
  BY <1>1, <1>2, <1>3, <1>4, TickPasses, ListingTenants, PrintingUnseen, ReadersUnseen DEF Next

\* Every Window is a good tenant: for every policy list, clock, set of quotes and number of books, no
\* order or seat enters it from the lock on, a winner is named after the lock only, its book changes
\* hands empty and its account goes last.
THEOREM SettlementKeepsTenancy == Spec => KeepsTenancy
<1>1. SettlementInv /\ OnTime /\ [Next]_vars
        => \A i \in Indices : [Stay(i)!Next]_(Stay(i)!vars)
  BY TenantsMove DEF AllTenantsMove, TenantMoves
<1>2. QED
  BY <1>1, TenantsBegin, OnTimeInvariant, PTL DEF Spec, KeepsTenancy

-----------------------------------------------------------------------------
(* Room on the free list.                                                  *)

Added == {b \in Books : books[b].added}

\* A Window that cannot give its book back for want of a place means more books than the list holds.
FullListMeansTooManyBooks ==
  \A i \in Indices :
    Listed(windows[i]) /\ ~windows[i].released /\ ~(Cardinality(series.free) < MaxFreeBooks)
      => Cardinality(Added) > MaxFreeBooks

\* public_release_book is refused for want of a place only in a Series that was given more than
\* MAX_FREE_BOOKS books: a book waiting to be released is bound, so it is none of those on the list.
\* Nothing in admin_add_book prevents it, it counts the free books alone.
THEOREM FreeListHasRoom == Spec => []FullListMeansTooManyBooks
<1>1. SettlementInv => FullListMeansTooManyBooks
  <2> SUFFICES ASSUME SettlementInv, NEW i \in Indices, Listed(windows[i]), ~windows[i].released,
                      ~(Cardinality(series.free) < MaxFreeBooks)
               PROVE  Cardinality(Added) > MaxFreeBooks
    BY DEF FullListMeansTooManyBooks
  <2> DEFINE b == windows[i].book
  <2>1. windows[i] \in Window /\ series.free \subseteq Books
    BY TypesOf
  <2>2. books[b].window = i
    BY DEF SettlementInv, BooksAccounted
  <2>3. i # NoWindow
    BY LimitsAssumption DEF Indices, NoWindow
  <2>4. b \in Books
    BY <2>1 DEF SettlementInv, WindowsSound, WindowSound, Listed, Window
  <2>5. b \notin series.free /\ b \in Added
    BY <2>2, <2>3, <2>4 DEF SettlementInv, BooksAccounted, BoundBooksAreAdded, Added
  <2>6. series.free \subseteq Added /\ Added \subseteq Books
    BY <2>1 DEF SettlementInv, BooksAccounted, Added
  <2>7. IsFiniteSet(series.free) /\ IsFiniteSet(Added)
    BY <2>1, <2>6, FreeIsFinite
  <2>8. Cardinality(series.free \cup {b}) = Cardinality(series.free) + 1
    BY <2>5, <2>7, FS_AddElement
  <2>9. Cardinality(series.free \cup {b}) <= Cardinality(Added)
    BY <2>5, <2>6, <2>7, FS_Subset
  <2>10. Cardinality(series.free) \in Nat /\ Cardinality(Added) \in Nat
    BY <2>1, <2>6, FreeIsFinite
  <2>11. QED
    BY <2>8, <2>9, <2>10, LimitsAssumption
<1>2. QED
  BY <1>1, SettlementInvariant, PTL

============================================================================
