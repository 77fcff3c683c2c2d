-------------------------- MODULE VenueOperations --------------------------
(***************************************************************************)
(* What each operation on the accounts of a Window preserves: the escrow   *)
(* recorded in the seats is the escrow of the resting orders, lots of YES  *)
(* and NO come and go in pairs, and cash is only moved.  First prices,     *)
(* sums and seats; then one lemma per operation, which keeps the accounts  *)
(* Sound, with what it does to the cash held, the supply of each outcome   *)
(* and the backing.                                                        *)
(***************************************************************************)
EXTENDS Venue, SummationProofs

LiveOK(v) == \A n \in Live(v) : v.nodes[n].seat \in Seats /\ ValidPrice(v.nodes[n].price)

\* Only an owned seat has a bond.
BondsOwned(v) == \A i \in Seats : v.seats[i].owner = NoOwner => ~v.seats[i].bonded

\* The accounts are of their types, every live order has a seat and a price, and escrow is exact.
Sound(v) ==
  /\ v \in VenueState
  /\ LiveOK(v)
  /\ BondsOwned(v)
  /\ Escrowed(v)

\* The cash the seats hold and the pairs back.
Value(v) == CashHeld(v) + v.backing * PairTicks

-----------------------------------------------------------------------------
(* Prices.                                                                 *)

\* Both sides of a pair have a positive price, and together they cost the pair.
LEMMA OwnTicksRange ==
  ASSUME NEW k \in Kinds, NEW p, ValidPrice(p)
  PROVE  OwnTicks(k, p) \in 1..(PairTicks - 1)
BY GridAssumption DEF OwnTicks, ValidPrice

\* Cash is a natural number.
LEMMA CashNat ==
  ASSUME NEW k \in Kinds, NEW p, ValidPrice(p), NEW q \in Nat
  PROVE  CashOf(k, p, q) \in Nat
<1>1. OwnTicks(k, p) \in Nat
  BY OwnTicksRange, GridAssumption
<1>2. \A a, b \in Nat : a * b \in Nat
  OBVIOUS
<1>3. QED
  BY <1>1, <1>2 DEF CashOf

\* Cash is linear in the lots.
LEMMA CashSplit ==
  ASSUME NEW k \in Kinds, NEW p, ValidPrice(p), NEW q \in Nat, NEW r \in Nat
  PROVE  CashOf(k, p, q + r) = CashOf(k, p, q) + CashOf(k, p, r)
<1>1. OwnTicks(k, p) \in Nat
  BY OwnTicksRange, GridAssumption
<1>2. \A a, b, c \in Nat : (a + b) * c = a * c + b * c
  OBVIOUS
<1>3. QED
  BY <1>1, <1>2 DEF CashOf

\* Two orders that cross pay, between them, for the change of the backing (Path MINT_PAIR, BURN_PAIR);
\* on a direct path the cash of one is the cash of the other.
LEMMA FillCash ==
  ASSUME NEW k \in Kinds, NEW m \in Kinds, NEW p, ValidPrice(p), NEW q \in Nat, IsBid(k) # IsBid(m)
  PROVE  /\ IsBuy(k) /\ IsBuy(m) => CashOf(k, p, q) + CashOf(m, p, q) = q * PairTicks
         /\ ~IsBuy(k) /\ ~IsBuy(m) => CashOf(k, p, q) + CashOf(m, p, q) = q * PairTicks
         /\ IsBuy(k) # IsBuy(m) => CashOf(k, p, q) = CashOf(m, p, q)
<1>1. p \in Nat /\ PairTicks \in Nat /\ PairTicks - p \in Nat
  BY GridAssumption DEF ValidPrice
<1>2. q * p + q * (PairTicks - p) = q * PairTicks
  BY <1>1
<1>3. QED
  BY <1>1, <1>2 DEF CashOf, OwnTicks, Outcome, IsBuy, IsBid, Kinds

\* What an order escrows is a natural number.
LEMMA OrderNat ==
  ASSUME NEW o \in Node, ValidPrice(o.price), NEW x
  PROVE  CashOfOrder(o) \in Nat /\ LotsOfOrder(o, x) \in Nat
<1>1. o.kind \in Kinds /\ o.lots \in Nat
  BY DEF Node
<1>2. CashOf(o.kind, o.price, o.lots) \in Nat
  BY <1>1, CashNat
<1>3. QED
  BY <1>1, <1>2 DEF CashOfOrder, LotsOfOrder

-----------------------------------------------------------------------------
(* Totals over a seat's orders.                                            *)

\* A total of naturals is a natural.
LEMMA TotalNat ==
  ASSUME NEW v, NEW S \in SUBSET Nodes, NEW i, NEW a, \A n \in S : a[n] \in Nat
  PROVE  Total(v, S, i, a) \in Nat
<1> DEFINE f == [n \in Nodes |-> IF n \in S /\ v.nodes[n].seat = i THEN a[n] ELSE 0]
<1>1. \A n \in 1..NNodes : f[n] \in Nat
  BY DEF Nodes
<1>2. NNodes \in Nat /\ NNodes \in 0..NNodes
  BY SizesAssumption
<1>3. Sum(f, NNodes) \in Nat
  <2> HIDE DEF f
  <2> QED BY <1>1, <1>2, SumNat
<1>4. QED
  BY <1>3 DEF Total

\* A total is at least what any one of the seat's orders adds to it.
LEMMA TotalBound ==
  ASSUME NEW v, NEW S \in SUBSET Nodes, NEW i, NEW a, \A n \in S : a[n] \in Nat,
         NEW n \in S, v.nodes[n].seat = i
  PROVE  a[n] <= Total(v, S, i, a)
<1> DEFINE f == [m \in Nodes |-> IF m \in S /\ v.nodes[m].seat = i THEN a[m] ELSE 0]
<1>1. \A m \in 1..NNodes : f[m] \in Nat
  BY DEF Nodes
<1>2. NNodes \in Nat /\ n \in 1..NNodes
  BY SizesAssumption DEF Nodes
<1>3. f[n] <= Sum(f, NNodes)
  <2> HIDE DEF f
  <2> QED BY <1>1, <1>2, SumBound
<1>4. f[n] = a[n]
  OBVIOUS
<1>5. QED
  BY <1>3, <1>4 DEF Total

\* The total over S is the total over a part of S and over the rest.
LEMMA TotalSplit ==
  ASSUME NEW v, NEW S \in SUBSET Nodes, NEW R \in SUBSET S, NEW i, NEW a, \A n \in S : a[n] \in Nat
  PROVE  Total(v, S, i, a) = Total(v, R, i, a) + Total(v, S \ R, i, a)
<1> DEFINE f(P) == [n \in Nodes |-> IF n \in P /\ v.nodes[n].seat = i THEN a[n] ELSE 0]
           fS == f(S)
           fR == f(R)
           fQ == f(S \ R)
<1>1. \A n \in 1..NNodes : fR[n] \in Int /\ fQ[n] \in Int /\ fS[n] = fR[n] + fQ[n]
  BY DEF Nodes
<1>2. NNodes \in Nat
  BY SizesAssumption
<1>3. Sum(fS, NNodes) = Sum(fR, NNodes) + Sum(fQ, NNodes)
  <2> HIDE DEF fS, fR, fQ
  <2> QED BY <1>1, <1>2, SumAdd
<1>4. QED
  BY <1>3 DEF Total

\* Totals of two states whose orders agree where they count are equal.
LEMMA TotalEq ==
  ASSUME NEW v, NEW w, NEW S \in SUBSET Nodes, NEW i, NEW a, NEW b,
         \A n \in S : w.nodes[n].seat = v.nodes[n].seat /\ b[n] = a[n]
  PROVE  Total(w, S, i, b) = Total(v, S, i, a)
<1> DEFINE f == [n \in Nodes |-> IF n \in S /\ v.nodes[n].seat = i THEN a[n] ELSE 0]
           g == [n \in Nodes |-> IF n \in S /\ w.nodes[n].seat = i THEN b[n] ELSE 0]
<1>1. \A n \in 1..NNodes : f[n] = g[n]
  BY DEF Nodes
<1>2. Sum(f, NNodes) = Sum(g, NNodes)
  <2> HIDE DEF f, g
  <2> QED BY <1>1, SizesAssumption, SumEq
<1>3. QED
  BY <1>2 DEF Total

\* The orders R of w, weighed by b, are the orders S of v, weighed by a, except for order n.
DiffersAt(n, v, S, a, w, R, b) ==
  /\ n \in Nodes /\ S \in SUBSET Nodes /\ R \in SUBSET Nodes
  /\ \A m \in S : a[m] \in Nat
  /\ \A m \in R : b[m] \in Nat
  /\ \A m \in Nodes \ {n} : (m \in R <=> m \in S) /\ w.nodes[m].seat = v.nodes[m].seat /\ b[m] = a[m]

\* Changing one order changes the total by that order.
LEMMA TotalChange ==
  ASSUME NEW n, NEW v, NEW S, NEW a, NEW w, NEW R, NEW b, DiffersAt(n, v, S, a, w, R, b), NEW i
  PROVE  Total(w, R, i, b) = Total(v, S, i, a)
           - (IF n \in S /\ v.nodes[n].seat = i THEN a[n] ELSE 0)
           + (IF n \in R /\ w.nodes[n].seat = i THEN b[n] ELSE 0)
<1> DEFINE f == [m \in Nodes |-> IF m \in S /\ v.nodes[m].seat = i THEN a[m] ELSE 0]
           g == [m \in Nodes |-> IF m \in R /\ w.nodes[m].seat = i THEN b[m] ELSE 0]
<1>1. \A m \in 1..NNodes : f[m] \in Int /\ g[m] \in Int /\ (m # n => g[m] = f[m])
  BY DEF Nodes, DiffersAt
<1>3. NNodes \in Nat /\ n \in 1..NNodes
  BY SizesAssumption DEF Nodes, DiffersAt
<1>4. Sum(g, NNodes) = Sum(f, NNodes) - f[n] + g[n]
  <2> HIDE DEF f, g
  <2> QED BY <1>1, <1>3, SumChange
<1>5. /\ f[n] = IF n \in S /\ v.nodes[n].seat = i THEN a[n] ELSE 0
      /\ g[n] = IF n \in R /\ w.nodes[n].seat = i THEN b[n] ELSE 0
  BY DEF DiffersAt
<1>6. QED
  BY <1>4, <1>5 DEF Total

-----------------------------------------------------------------------------
(* Totals over the seats.                                                  *)

\* What a seat holds is a natural number.
LEMMA SeatNat ==
  ASSUME NEW s \in Seat
  PROVE  SeatCash(s) \in Nat /\ \A x \in Outcomes : Lots(s, x) \in Nat
BY GridAssumption DEF Seat, SeatCash, BondOf, Lots

\* Changing one seat changes the cash held and the supply by that seat.
LEMMA SeatChange ==
  ASSUME NEW v, NEW w, v.seats \in [Seats -> Seat], w.seats \in [Seats -> Seat], NEW i \in Seats,
         \A j \in Seats : j # i => w.seats[j] = v.seats[j]
  PROVE  /\ CashHeld(w) = CashHeld(v) - SeatCash(v.seats[i]) + SeatCash(w.seats[i])
         /\ \A x \in Outcomes : Supply(w, x) = Supply(v, x) - Lots(v.seats[i], x) + Lots(w.seats[i], x)
<1>0. \A j \in Seats : v.seats[j] \in Seat /\ w.seats[j] \in Seat /\ (j # i => w.seats[j] = v.seats[j])
  OBVIOUS
<1>1. NSeats \in Nat /\ i \in 1..NSeats
  BY SizesAssumption DEF Seats
<1>2. CashHeld(w) = CashHeld(v) - SeatCash(v.seats[i]) + SeatCash(w.seats[i])
  <2> DEFINE f == [j \in Seats |-> SeatCash(v.seats[j])]
             g == [j \in Seats |-> SeatCash(w.seats[j])]
  <2>0. \A j \in Seats : SeatCash(v.seats[j]) \in Nat /\ SeatCash(w.seats[j]) \in Nat
    BY <1>0, SeatNat
  <2>1. \A j \in 1..NSeats : f[j] \in Int /\ g[j] \in Int /\ (j # i => g[j] = f[j])
    BY <1>0, <2>0 DEF Seats
  <2>3. f[i] = SeatCash(v.seats[i]) /\ g[i] = SeatCash(w.seats[i])
    OBVIOUS
  <2>4. Sum(g, NSeats) = Sum(f, NSeats) - f[i] + g[i]
    <3> HIDE DEF f, g
    <3> QED BY ONLY <1>1, <2>1, SumChange
  <2>5. QED
    BY <2>3, <2>4 DEF CashHeld
<1>3. ASSUME NEW x \in Outcomes
      PROVE  Supply(w, x) = Supply(v, x) - Lots(v.seats[i], x) + Lots(w.seats[i], x)
  <2> DEFINE f == [j \in Seats |-> Lots(v.seats[j], x)]
             g == [j \in Seats |-> Lots(w.seats[j], x)]
  <2>0. \A j \in Seats : Lots(v.seats[j], x) \in Nat /\ Lots(w.seats[j], x) \in Nat
    BY <1>0, SeatNat
  <2>1. \A j \in 1..NSeats : f[j] \in Int /\ g[j] \in Int /\ (j # i => g[j] = f[j])
    BY <1>0, <2>0 DEF Seats
  <2>3. f[i] = Lots(v.seats[i], x) /\ g[i] = Lots(w.seats[i], x)
    OBVIOUS
  <2>4. Sum(g, NSeats) = Sum(f, NSeats) - f[i] + g[i]
    <3> HIDE DEF f, g
    <3> QED BY ONLY <1>1, <2>1, SumChange
  <2>5. QED
    BY <2>3, <2>4 DEF Supply
<1>4. QED
  BY <1>2, <1>3

\* Seats of the same cash and lots add up to the same.
LEMMA SeatsSame ==
  ASSUME NEW v, NEW w,
         \A j \in Seats : /\ SeatCash(w.seats[j]) = SeatCash(v.seats[j])
                          /\ \A x \in Outcomes : Lots(w.seats[j], x) = Lots(v.seats[j], x)
  PROVE  CashHeld(w) = CashHeld(v) /\ \A x \in Outcomes : Supply(w, x) = Supply(v, x)
<1>1. NSeats \in Nat
  BY SizesAssumption
<1>2. CashHeld(w) = CashHeld(v)
  <2> DEFINE f == [j \in Seats |-> SeatCash(v.seats[j])]
             g == [j \in Seats |-> SeatCash(w.seats[j])]
  <2>1. \A j \in 1..NSeats : f[j] = g[j]
    BY DEF Seats
  <2>2. Sum(f, NSeats) = Sum(g, NSeats)
    <3> HIDE DEF f, g
    <3> QED BY <1>1, <2>1, SumEq
  <2>3. QED
    BY <2>2 DEF CashHeld
<1>3. ASSUME NEW x \in Outcomes PROVE Supply(w, x) = Supply(v, x)
  <2> DEFINE f == [j \in Seats |-> Lots(v.seats[j], x)]
             g == [j \in Seats |-> Lots(w.seats[j], x)]
  <2>1. \A j \in 1..NSeats : f[j] = g[j]
    BY DEF Seats
  <2>2. Sum(f, NSeats) = Sum(g, NSeats)
    <3> HIDE DEF f, g
    <3> QED BY <1>1, <2>1, SumEq
  <2>3. QED
    BY <2>2 DEF Supply
<1>4. QED
  BY <1>2, <1>3

\* The cash held and the supply are natural numbers, no seat's share exceeds the supply.
LEMMA TotalsNat ==
  ASSUME NEW v, v.seats \in [Seats -> Seat]
  PROVE  /\ CashHeld(v) \in Nat
         /\ \A x \in Outcomes : Supply(v, x) \in Nat
         /\ \A x \in Outcomes, i \in Seats : Lots(v.seats[i], x) <= Supply(v, x)
<1>1. NSeats \in Nat /\ NSeats \in 0..NSeats
  BY SizesAssumption
<1>2. CashHeld(v) \in Nat
  <2> DEFINE f == [j \in Seats |-> SeatCash(v.seats[j])]
  <2>1. \A j \in 1..NSeats : f[j] \in Nat
    BY SeatNat DEF Seats
  <2>2. Sum(f, NSeats) \in Nat
    <3> HIDE DEF f
    <3> QED BY <1>1, <2>1, SumNat
  <2>3. QED
    BY <2>2 DEF CashHeld
<1>3. ASSUME NEW x \in Outcomes
      PROVE  Supply(v, x) \in Nat /\ \A i \in Seats : Lots(v.seats[i], x) <= Supply(v, x)
  <2> DEFINE f == [j \in Seats |-> Lots(v.seats[j], x)]
  <2>1. \A j \in 1..NSeats : f[j] \in Nat
    BY SeatNat DEF Seats
  <2>2. Sum(f, NSeats) \in Nat /\ \A i \in 1..NSeats : f[i] <= Sum(f, NSeats)
    <3> HIDE DEF f
    <3> QED BY <1>1, <2>1, SumNat, SumBound
  <2>3. QED
    BY <2>2 DEF Supply, Seats
<1>4. QED
  BY <1>2, <1>3

-----------------------------------------------------------------------------
(* What one order adds to its seat's escrow.                               *)

CashAt(o, i) == IF o.live /\ o.seat = i THEN CashOfOrder(o) ELSE 0
LotsAt(o, i, x) == IF o.live /\ o.seat = i THEN LotsOfOrder(o, x) ELSE 0
CountAt(o, i) == IF o.live /\ o.seat = i THEN 1 ELSE 0

\* Two books of well-formed orders that agree except at node n.
OneOrderApart(v, w, n) ==
  /\ v.nodes \in [Nodes -> Node] /\ LiveOK(v)
  /\ w.nodes \in [Nodes -> Node] /\ LiveOK(w)
  /\ n \in Nodes /\ \A m \in Nodes \ {n} : w.nodes[m] = v.nodes[m]

\* Changing one order changes every seat's escrow by what that order adds to it.
LEMMA EscrowChange ==
  ASSUME NEW v, NEW w, NEW n, OneOrderApart(v, w, n), NEW i
  PROVE  /\ EscrowCash(w, Live(w), i) = EscrowCash(v, Live(v), i) - CashAt(v.nodes[n], i) + CashAt(w.nodes[n], i)
         /\ \A x : EscrowLots(w, Live(w), i, x)
                     = EscrowLots(v, Live(v), i, x) - LotsAt(v.nodes[n], i, x) + LotsAt(w.nodes[n], i, x)
         /\ OrderCount(w, Live(w), i) = OrderCount(v, Live(v), i) - CountAt(v.nodes[n], i) + CountAt(w.nodes[n], i)
<1>1. Live(v) \in SUBSET Nodes /\ Live(w) \in SUBSET Nodes
  BY DEF Live
<1>2. \A m \in Nodes \ {n} : (m \in Live(w) <=> m \in Live(v)) /\ w.nodes[m] = v.nodes[m]
  BY DEF Live, OneOrderApart
<1>3. /\ \A m \in Live(v) : v.nodes[m] \in Node /\ ValidPrice(v.nodes[m].price)
      /\ \A m \in Live(w) : w.nodes[m] \in Node /\ ValidPrice(w.nodes[m].price)
  BY <1>1 DEF LiveOK, OneOrderApart
<1>4. (n \in Live(v) <=> v.nodes[n].live) /\ (n \in Live(w) <=> w.nodes[n].live) /\ n \in Nodes
  BY DEF Live, OneOrderApart
<1>5. EscrowCash(w, Live(w), i) = EscrowCash(v, Live(v), i) - CashAt(v.nodes[n], i) + CashAt(w.nodes[n], i)
  <2> DEFINE a == [m \in Nodes |-> CashOfOrder(v.nodes[m])]
             b == [m \in Nodes |-> CashOfOrder(w.nodes[m])]
  <2>1. (\A m \in Live(v) : a[m] \in Nat) /\ (\A m \in Live(w) : b[m] \in Nat)
    BY <1>1, <1>3, OrderNat
  <2>2. DiffersAt(n, v, Live(v), a, w, Live(w), b)
    BY <1>1, <1>2, <1>4, <2>1 DEF DiffersAt
  <2>3. a[n] = CashOfOrder(v.nodes[n]) /\ b[n] = CashOfOrder(w.nodes[n])
    BY <1>4
  <2>4. Total(w, Live(w), i, b) = Total(v, Live(v), i, a)
           - (IF n \in Live(v) /\ v.nodes[n].seat = i THEN a[n] ELSE 0)
           + (IF n \in Live(w) /\ w.nodes[n].seat = i THEN b[n] ELSE 0)
    <3> HIDE DEF a, b
    <3> QED BY <2>2, TotalChange
  <2>5. QED
    BY <1>4, <2>3, <2>4 DEF EscrowCash, CashAt
<1>6. ASSUME NEW x
      PROVE  EscrowLots(w, Live(w), i, x)
                = EscrowLots(v, Live(v), i, x) - LotsAt(v.nodes[n], i, x) + LotsAt(w.nodes[n], i, x)
  <2> DEFINE a == [m \in Nodes |-> LotsOfOrder(v.nodes[m], x)]
             b == [m \in Nodes |-> LotsOfOrder(w.nodes[m], x)]
  <2>1. (\A m \in Live(v) : a[m] \in Nat) /\ (\A m \in Live(w) : b[m] \in Nat)
    BY <1>1, <1>3, OrderNat
  <2>2. DiffersAt(n, v, Live(v), a, w, Live(w), b)
    BY <1>1, <1>2, <1>4, <2>1 DEF DiffersAt
  <2>3. a[n] = LotsOfOrder(v.nodes[n], x) /\ b[n] = LotsOfOrder(w.nodes[n], x)
    BY <1>4
  <2>4. Total(w, Live(w), i, b) = Total(v, Live(v), i, a)
           - (IF n \in Live(v) /\ v.nodes[n].seat = i THEN a[n] ELSE 0)
           + (IF n \in Live(w) /\ w.nodes[n].seat = i THEN b[n] ELSE 0)
    <3> HIDE DEF a, b
    <3> QED BY <2>2, TotalChange
  <2>5. QED
    BY <1>4, <2>3, <2>4 DEF EscrowLots, LotsAt
<1>7. OrderCount(w, Live(w), i) = OrderCount(v, Live(v), i) - CountAt(v.nodes[n], i) + CountAt(w.nodes[n], i)
  <2> DEFINE a == [m \in Nodes |-> 1]
  <2>1. DiffersAt(n, v, Live(v), a, w, Live(w), a)
    BY <1>1, <1>2, <1>4 DEF DiffersAt
  <2>2. a[n] = 1
    BY <1>4
  <2>3. Total(w, Live(w), i, a) = Total(v, Live(v), i, a)
           - (IF n \in Live(v) /\ v.nodes[n].seat = i THEN a[n] ELSE 0)
           + (IF n \in Live(w) /\ w.nodes[n].seat = i THEN a[n] ELSE 0)
    <3> HIDE DEF a
    <3> QED BY <2>1, TotalChange
  <2>4. QED
    BY <1>4, <2>2, <2>3 DEF OrderCount, CountAt
<1>8. QED
  BY <1>5, <1>6, <1>7

\* Every escrow is a natural number.
LEMMA EscrowNat ==
  ASSUME NEW v, v.nodes \in [Nodes -> Node], LiveOK(v), NEW S \in SUBSET Live(v), NEW i
  PROVE  /\ EscrowCash(v, S, i) \in Nat
         /\ \A x : EscrowLots(v, S, i, x) \in Nat
         /\ OrderCount(v, S, i) \in Nat
<1>1. S \in SUBSET Nodes
  BY DEF Live
<1>2. \A m \in S : v.nodes[m] \in Node /\ ValidPrice(v.nodes[m].price)
  BY <1>1 DEF LiveOK
<1>3. EscrowCash(v, S, i) \in Nat
  <2> DEFINE a == [m \in Nodes |-> CashOfOrder(v.nodes[m])]
  <2>1. \A m \in S : a[m] \in Nat
    BY <1>1, <1>2, OrderNat
  <2>2. Total(v, S, i, a) \in Nat
    <3> HIDE DEF a
    <3> QED BY <1>1, <2>1, TotalNat
  <2>3. QED
    BY <2>2 DEF EscrowCash
<1>4. ASSUME NEW x PROVE EscrowLots(v, S, i, x) \in Nat
  <2> DEFINE a == [m \in Nodes |-> LotsOfOrder(v.nodes[m], x)]
  <2>1. \A m \in S : a[m] \in Nat
    BY <1>1, <1>2, OrderNat
  <2>2. Total(v, S, i, a) \in Nat
    <3> HIDE DEF a
    <3> QED BY <1>1, <2>1, TotalNat
  <2>3. QED
    BY <2>2 DEF EscrowLots
<1>5. OrderCount(v, S, i) \in Nat
  <2> DEFINE a == [m \in Nodes |-> 1]
  <2>1. \A m \in S : a[m] \in Nat
    BY <1>1
  <2>2. Total(v, S, i, a) \in Nat
    <3> HIDE DEF a
    <3> QED BY <1>1, <2>1, TotalNat
  <2>3. QED
    BY <2>2 DEF OrderCount
<1>6. QED
  BY <1>3, <1>4, <1>5

\* Every seat's escrow moved by what the order at n moved.
EscrowMoves(v, w, n) ==
  \A j \in Seats :
    /\ w.seats[j].lockedCash = v.seats[j].lockedCash - CashAt(v.nodes[n], j) + CashAt(w.nodes[n], j)
    /\ \A x \in Outcomes : w.seats[j].locked[x]
          = v.seats[j].locked[x] - LotsAt(v.nodes[n], j, x) + LotsAt(w.nodes[n], j, x)
    /\ w.seats[j].openOrders = v.seats[j].openOrders - CountAt(v.nodes[n], j) + CountAt(w.nodes[n], j)

\* If every seat moved its escrow by what the changed order moved, escrow is still exact.
LEMMA EscrowKept ==
  ASSUME NEW v, NEW w, NEW n, OneOrderApart(v, w, n), Escrowed(v), EscrowMoves(v, w, n)
  PROVE  /\ Escrowed(w)
         /\ \A j \in Seats :
              /\ w.seats[j].lockedCash \in Nat /\ w.seats[j].openOrders \in Nat
              /\ \A x \in Outcomes : w.seats[j].locked[x] \in Nat
<1>1. w.nodes \in [Nodes -> Node] /\ LiveOK(w)
  BY DEF OneOrderApart
<1>2. Escrowed(w)
  <2>1. ASSUME NEW j \in Seats
        PROVE  /\ w.seats[j].lockedCash = EscrowCash(w, Live(w), j)
               /\ \A x \in Outcomes : w.seats[j].locked[x] = EscrowLots(w, Live(w), j, x)
               /\ w.seats[j].openOrders = OrderCount(w, Live(w), j)
    <3>1. /\ v.seats[j].lockedCash = EscrowCash(v, Live(v), j)
          /\ \A x \in Outcomes : v.seats[j].locked[x] = EscrowLots(v, Live(v), j, x)
          /\ v.seats[j].openOrders = OrderCount(v, Live(v), j)
      BY DEF Escrowed
    <3>2. /\ EscrowCash(w, Live(w), j) = EscrowCash(v, Live(v), j) - CashAt(v.nodes[n], j) + CashAt(w.nodes[n], j)
          /\ \A x : EscrowLots(w, Live(w), j, x)
                      = EscrowLots(v, Live(v), j, x) - LotsAt(v.nodes[n], j, x) + LotsAt(w.nodes[n], j, x)
          /\ OrderCount(w, Live(w), j) = OrderCount(v, Live(v), j) - CountAt(v.nodes[n], j) + CountAt(w.nodes[n], j)
      BY EscrowChange
    <3>3. QED
      BY <3>1, <3>2 DEF EscrowMoves
  <2>2. QED
    BY <2>1 DEF Escrowed
<1>3. ASSUME NEW j \in Seats
      PROVE  /\ EscrowCash(w, Live(w), j) \in Nat
             /\ \A x : EscrowLots(w, Live(w), j, x) \in Nat
             /\ OrderCount(w, Live(w), j) \in Nat
  BY <1>1, EscrowNat
<1>4. QED
  BY <1>2, <1>3 DEF Escrowed

-----------------------------------------------------------------------------
(* One seat.  q lots of a kind k order at price p are, for the escrow, cash *)
(* of a buy or lots of a sell; a fill gives lots to a buy and cash to a     *)
(* sell.                                                                    *)

CashPart(k, p, q) == IF IsBuy(k) THEN CashOf(k, p, q) ELSE 0
LotsPart(k, q, x) == IF ~IsBuy(k) /\ Outcome(k) = x THEN q ELSE 0
Bought(k, q, x) == IF IsBuy(k) /\ Outcome(k) = x THEN q ELSE 0
Proceeds(k, p, q) == IF IsBuy(k) THEN 0 ELSE CashOf(k, p, q)

\* A seat whose escrow is not yet known to be natural.
LooseSeat ==
  [owner : Owners \cup {NoOwner}, program : BOOLEAN, bonded : BOOLEAN,
   credit : Nat, lockedCash : Int, free : [Outcomes -> Nat], locked : [Outcomes -> Int],
   openOrders : Int]

\* The seat's free lots cover a sale of q lots.
FreeCovers(s, k, q) == ~IsBuy(k) => s.free[Outcome(k)] >= q

SameHolder(r, s) == r.owner = s.owner /\ r.program = s.program /\ r.bonded = s.bonded

\* The parts of an order or a fill are natural numbers.
LEMMA PartsNat ==
  ASSUME NEW k \in Kinds, NEW p, ValidPrice(p), NEW q \in Nat
  PROVE  /\ CashPart(k, p, q) \in Nat /\ Proceeds(k, p, q) \in Nat
         /\ \A x : LotsPart(k, q, x) \in Nat /\ Bought(k, q, x) \in Nat
         /\ Outcome(k) \in Outcomes
BY CashNat DEF CashPart, Proceeds, LotsPart, Bought, Outcome, Outcomes

\* refund_escrow moves escrow to the free side.
LEMMA RefundFields ==
  ASSUME NEW s \in LooseSeat, NEW k \in Kinds, NEW p, ValidPrice(p), NEW q \in Nat,
         NEW r, r = RefundEscrow(s, k, p, q)
  PROVE  /\ r \in LooseSeat /\ SameHolder(r, s) /\ r.openOrders = s.openOrders
         /\ r.credit = s.credit + CashPart(k, p, q)
         /\ r.lockedCash = s.lockedCash - CashPart(k, p, q)
         /\ \A x \in Outcomes : /\ r.free[x] = s.free[x] + LotsPart(k, q, x)
                                /\ r.locked[x] = s.locked[x] - LotsPart(k, q, x)
<1> DEFINE c == CashOf(k, p, q)
<1> DEFINE y == Outcome(k)
<1>1. c \in Nat /\ y \in Outcomes
  BY CashNat DEF Outcome, Outcomes
<1>2. CASE IsBuy(k)
  <2>1. r = [s EXCEPT !.lockedCash = @ - c, !.credit = @ + c]
    BY <1>2 DEF RefundEscrow
  <2> HIDE DEF y, c
  <2>2. r.credit = s.credit + c /\ r.lockedCash = s.lockedCash - c
    BY <1>1, <2>1 DEF LooseSeat
  <2>3. SameHolder(r, s) /\ r.openOrders = s.openOrders /\ r.free = s.free /\ r.locked = s.locked
    BY <2>1 DEF LooseSeat, SameHolder
  <2>4. r.credit \in Nat /\ r.lockedCash \in Int
    BY <1>2, <1>1, <2>2 DEF LooseSeat, y
  <2>5. r \in LooseSeat
    BY <2>1, <2>4 DEF LooseSeat
  <2>6. QED
    BY <1>2, <1>1, <2>2, <2>3, <2>5 DEF LooseSeat, y, c, CashPart, LotsPart
<1>3. CASE ~IsBuy(k)
  <2>1. r = [s EXCEPT !.locked[y] = @ - q, !.free[y] = @ + q]
    BY <1>3 DEF RefundEscrow
  <2> HIDE DEF y, c
  <2>2. r.free = [s.free EXCEPT ![y] = @ + q] /\ r.locked = [s.locked EXCEPT ![y] = @ - q]
    BY <1>1, <2>1 DEF LooseSeat
  <2>3. SameHolder(r, s) /\ r.openOrders = s.openOrders /\ r.credit = s.credit /\ r.lockedCash = s.lockedCash
    BY <2>1 DEF LooseSeat, SameHolder
  <2>4. r.free \in [Outcomes -> Nat] /\ r.locked \in [Outcomes -> Int]
    BY <1>3, <1>1, <2>2 DEF LooseSeat, y
  <2>5. r \in LooseSeat
    BY <2>1, <2>4 DEF LooseSeat
  <2>6. QED
    BY <1>3, <1>1, <2>2, <2>3, <2>5 DEF LooseSeat, y, c, CashPart, LotsPart
<1>4. QED
  BY <1>2, <1>3

\* lock_escrow moves a sale's lots to the locked side, and books a buy's cash there.
LEMMA LockFields ==
  ASSUME NEW s \in LooseSeat, NEW k \in Kinds, NEW p, ValidPrice(p), NEW q \in Nat,
         ~IsBuy(k) => s.free[Outcome(k)] >= q,
         NEW r, r = LockEscrow(s, k, p, q)
  PROVE  /\ r \in LooseSeat /\ SameHolder(r, s) /\ r.openOrders = s.openOrders
         /\ r.credit = s.credit
         /\ r.lockedCash = s.lockedCash + CashPart(k, p, q)
         /\ \A x \in Outcomes : /\ r.free[x] = s.free[x] - LotsPart(k, q, x)
                                /\ r.locked[x] = s.locked[x] + LotsPart(k, q, x)
<1> DEFINE c == CashOf(k, p, q)
<1> DEFINE y == Outcome(k)
<1>1. c \in Nat /\ y \in Outcomes
  BY CashNat DEF Outcome, Outcomes
<1>2. CASE IsBuy(k)
  <2>1. r = [s EXCEPT !.lockedCash = @ + c]
    BY <1>2 DEF LockEscrow
  <2> HIDE DEF y, c
  <2>2. r.lockedCash = s.lockedCash + c
    BY <1>1, <2>1 DEF LooseSeat
  <2>3. SameHolder(r, s) /\ r.openOrders = s.openOrders /\ r.credit = s.credit /\ r.free = s.free /\ r.locked = s.locked
    BY <2>1 DEF LooseSeat, SameHolder
  <2>4. r.lockedCash \in Int
    BY <1>2, <1>1, <2>2 DEF LooseSeat, y
  <2>5. r \in LooseSeat
    BY <2>1, <2>4 DEF LooseSeat
  <2>6. QED
    BY <1>2, <1>1, <2>2, <2>3, <2>5 DEF LooseSeat, y, c, CashPart, LotsPart
<1>3. CASE ~IsBuy(k)
  <2>1. r = [s EXCEPT !.free[y] = @ - q, !.locked[y] = @ + q]
    BY <1>3 DEF LockEscrow
  <2> HIDE DEF y, c
  <2>2. r.free = [s.free EXCEPT ![y] = @ - q] /\ r.locked = [s.locked EXCEPT ![y] = @ + q]
    BY <1>1, <2>1 DEF LooseSeat
  <2>3. SameHolder(r, s) /\ r.openOrders = s.openOrders /\ r.credit = s.credit /\ r.lockedCash = s.lockedCash
    BY <2>1 DEF LooseSeat, SameHolder
  <2>4. r.free \in [Outcomes -> Nat] /\ r.locked \in [Outcomes -> Int]
    BY <1>3, <1>1, <2>2 DEF LooseSeat, y
  <2>5. r \in LooseSeat
    BY <2>1, <2>4 DEF LooseSeat
  <2>6. QED
    BY <1>3, <1>1, <2>2, <2>3, <2>5 DEF LooseSeat, y, c, CashPart, LotsPart
<1>4. QED
  BY <1>2, <1>3

\* apply_maker takes the filled escrow and gives lots or cash.
LEMMA MakerFields ==
  ASSUME NEW s \in LooseSeat, NEW k \in Kinds, NEW p, ValidPrice(p), NEW q \in Nat,
         NEW r, r = ApplyMaker(s, k, p, q)
  PROVE  /\ r \in LooseSeat /\ SameHolder(r, s) /\ r.openOrders = s.openOrders
         /\ r.credit = s.credit + Proceeds(k, p, q)
         /\ r.lockedCash = s.lockedCash - CashPart(k, p, q)
         /\ \A x \in Outcomes : /\ r.free[x] = s.free[x] + Bought(k, q, x)
                                /\ r.locked[x] = s.locked[x] - LotsPart(k, q, x)
<1> DEFINE c == CashOf(k, p, q)
<1> DEFINE y == Outcome(k)
<1>1. c \in Nat /\ y \in Outcomes
  BY CashNat DEF Outcome, Outcomes
<1>2. CASE IsBuy(k)
  <2>1. r = [s EXCEPT !.lockedCash = @ - c, !.free[y] = @ + q]
    BY <1>2 DEF ApplyMaker
  <2> HIDE DEF y, c
  <2>2. r.lockedCash = s.lockedCash - c /\ r.free = [s.free EXCEPT ![y] = @ + q]
    BY <1>1, <2>1 DEF LooseSeat
  <2>3. SameHolder(r, s) /\ r.openOrders = s.openOrders /\ r.credit = s.credit /\ r.locked = s.locked
    BY <2>1 DEF LooseSeat, SameHolder
  <2>4. r.lockedCash \in Int /\ r.free \in [Outcomes -> Nat]
    BY <1>2, <1>1, <2>2 DEF LooseSeat, y
  <2>5. r \in LooseSeat
    BY <2>1, <2>4 DEF LooseSeat
  <2>6. QED
    BY <1>2, <1>1, <2>2, <2>3, <2>5 DEF LooseSeat, y, c, CashPart, LotsPart, Bought, Proceeds
<1>3. CASE ~IsBuy(k)
  <2>1. r = [s EXCEPT !.locked[y] = @ - q, !.credit = @ + c]
    BY <1>3 DEF ApplyMaker
  <2> HIDE DEF y, c
  <2>2. r.credit = s.credit + c /\ r.locked = [s.locked EXCEPT ![y] = @ - q]
    BY <1>1, <2>1 DEF LooseSeat
  <2>3. SameHolder(r, s) /\ r.openOrders = s.openOrders /\ r.lockedCash = s.lockedCash /\ r.free = s.free
    BY <2>1 DEF LooseSeat, SameHolder
  <2>4. r.credit \in Nat /\ r.locked \in [Outcomes -> Int]
    BY <1>3, <1>1, <2>2 DEF LooseSeat, y
  <2>5. r \in LooseSeat
    BY <2>1, <2>4 DEF LooseSeat
  <2>6. QED
    BY <1>3, <1>1, <2>2, <2>3, <2>5 DEF LooseSeat, y, c, CashPart, LotsPart, Bought, Proceeds
<1>4. QED
  BY <1>2, <1>3

\* Seat r is seat s after a fill of q lots as the taker.
TakerMoved(r, s, k, q) ==
  /\ r \in LooseSeat /\ SameHolder(r, s) /\ r.openOrders = s.openOrders
  /\ r.credit = s.credit /\ r.lockedCash = s.lockedCash
  /\ \A x \in Outcomes : /\ r.free[x] = s.free[x] + Bought(k, q, x) - LotsPart(k, q, x)
                         /\ r.locked[x] = s.locked[x]

\* apply_taker moves the taker's free lots alone.
LEMMA TakerFields ==
  ASSUME NEW s \in LooseSeat, NEW k \in Kinds, NEW q \in Nat, FreeCovers(s, k, q)
  PROVE  TakerMoved(ApplyTaker(s, k, q), s, k, q)
<1> DEFINE r == ApplyTaker(s, k, q)
           y == Outcome(k)
<1>1. y \in Outcomes
  BY DEF Outcome, Outcomes
<1>2. CASE IsBuy(k)
  <2>1. r = [s EXCEPT !.free[y] = @ + q]
    BY <1>2 DEF ApplyTaker
  <2> HIDE DEF y, r
  <2>2. r.free = [s.free EXCEPT ![y] = @ + q]
    BY <1>1, <2>1 DEF LooseSeat
  <2>3. SameHolder(r, s) /\ r.openOrders = s.openOrders /\ r.credit = s.credit /\ r.lockedCash = s.lockedCash /\ r.locked = s.locked
    BY <2>1 DEF LooseSeat, SameHolder
  <2>4. r.free \in [Outcomes -> Nat]
    BY <1>2, <1>1, <2>2 DEF LooseSeat, y, FreeCovers
  <2>5. r \in LooseSeat
    BY <2>1, <2>4 DEF LooseSeat
  <2>6. TakerMoved(r, s, k, q)
    BY <1>2, <1>1, <2>2, <2>3, <2>5 DEF LooseSeat, y, LotsPart, Bought, TakerMoved
  <2>7. QED
    BY <2>6 DEF r
<1>3. CASE ~IsBuy(k)
  <2>1. r = [s EXCEPT !.free[y] = @ - q]
    BY <1>3 DEF ApplyTaker
  <2> HIDE DEF y, r
  <2>2. r.free = [s.free EXCEPT ![y] = @ - q]
    BY <1>1, <2>1 DEF LooseSeat
  <2>3. SameHolder(r, s) /\ r.openOrders = s.openOrders /\ r.credit = s.credit /\ r.lockedCash = s.lockedCash /\ r.locked = s.locked
    BY <2>1 DEF LooseSeat, SameHolder
  <2>4. r.free \in [Outcomes -> Nat]
    BY <1>3, <1>1, <2>2 DEF LooseSeat, y, FreeCovers
  <2>5. r \in LooseSeat
    BY <2>1, <2>4 DEF LooseSeat
  <2>6. TakerMoved(r, s, k, q)
    BY <1>3, <1>1, <2>2, <2>3, <2>5 DEF LooseSeat, y, LotsPart, Bought, TakerMoved
  <2>7. QED
    BY <2>6 DEF r
<1>4. QED
  BY <1>2, <1>3

-----------------------------------------------------------------------------
(* The operations.                                                         *)

\* The accounts while a seat's escrow is not yet known to be natural.
LooseVenue ==
  [seats : [Seats -> LooseSeat], nodes : [Nodes -> Node], nextSeq : Nat,
   seatsUsed : Nat, capacity : Nat, backing : Nat]

SameHolders(v, w) == \A j \in Seats : SameHolder(w.seats[j], v.seats[j])

\* A seat with natural escrow is a seat.
LEMMA TightSeat ==
  ASSUME NEW r \in LooseSeat, r.lockedCash \in Nat, r.openOrders \in Nat,
         \A x \in Outcomes : r.locked[x] \in Nat
  PROVE  r \in Seat
<1>1. r.locked \in [Outcomes -> Nat]
  BY DEF LooseSeat
<1>2. QED
  BY <1>1 DEF LooseSeat, Seat

\* Every seat is a loose one.
LEMMA LoosenSeat ==
  ASSUME NEW s \in Seat
  PROVE  s \in LooseSeat
<1>1. s.locked \in [Outcomes -> Int]
  BY DEF Seat
<1>2. QED
  BY <1>1 DEF LooseSeat, Seat

\* Changing one order, and every seat's escrow by what that order moved, keeps the accounts sound.
LEMMA SoundAfter ==
  ASSUME NEW v, NEW w, NEW n, Sound(v), w \in LooseVenue, OneOrderApart(v, w, n),
         EscrowMoves(v, w, n), SameHolders(v, w)
  PROVE  Sound(w)
<1>1. Escrowed(w) /\ \A j \in Seats :
         /\ w.seats[j].lockedCash \in Nat /\ w.seats[j].openOrders \in Nat
         /\ \A x \in Outcomes : w.seats[j].locked[x] \in Nat
  BY EscrowKept DEF Sound
<1>2. \A j \in Seats : w.seats[j] \in LooseSeat
  BY DEF LooseVenue
<1>3. \A j \in Seats : w.seats[j] \in Seat
  BY <1>1, <1>2, TightSeat
<1>4. w.seats \in [Seats -> Seat]
  BY <1>3 DEF LooseVenue
<1>5. w \in VenueState
  BY <1>4 DEF LooseVenue, VenueState
<1>6. LiveOK(w)
  BY DEF OneOrderApart
<1>7. BondsOwned(w)
  BY DEF Sound, BondsOwned, SameHolders, SameHolder
<1>8. QED
  BY <1>1, <1>5, <1>6, <1>7 DEF Sound

-----------------------------------------------------------------------------
(* remove_node.                                                            *)

\* Seat j of v gets back what its orders in S escrow and keeps the escrow of those in R.
Returned(v, S, R, w, j) ==
  /\ w.seats[j].credit = v.seats[j].credit + EscrowCash(v, S, j)
  /\ w.seats[j].lockedCash = v.seats[j].lockedCash - EscrowCash(v, S, j)
  /\ \A x \in Outcomes : /\ w.seats[j].free[x] = v.seats[j].free[x] + EscrowLots(v, S, j, x)
                         /\ w.seats[j].locked[x] = v.seats[j].locked[x] - EscrowLots(v, S, j, x)
  /\ SameHolder(w.seats[j], v.seats[j])
  /\ w.seats[j] \in Seat
  /\ w.seats[j].lockedCash = EscrowCash(v, R, j)
  /\ \A x \in Outcomes : w.seats[j].locked[x] = EscrowLots(v, R, j, x)
  /\ w.seats[j].openOrders = OrderCount(v, R, j)

\* The seats after the orders S are removed and R are left.
LEMMA RemovedSeat ==
  ASSUME NEW v, Sound(v), NEW S \in SUBSET Live(v), NEW R, R = Live(v) \ S,
         NEW w, w = RemoveNodes(v, S), NEW j \in Seats
  PROVE  Returned(v, S, R, w, j)
<1> DEFINE s == v.seats[j]
           r == w.seats[j]
           C == EscrowCash(v, S, j)
           L(x) == EscrowLots(v, S, j, x)
           N == OrderCount(v, S, j)
           CR == EscrowCash(v, R, j)
           LR(x) == EscrowLots(v, R, j, x)
           NR == OrderCount(v, R, j)
<1>1. s \in Seat /\ v.nodes \in [Nodes -> Node] /\ LiveOK(v) /\ Live(v) \in SUBSET Nodes
  BY DEF Sound, VenueState, Live
<1>2. /\ C \in Nat /\ (\A x : L(x) \in Nat) /\ N \in Nat
      /\ CR \in Nat /\ (\A x : LR(x) \in Nat) /\ NR \in Nat
  BY <1>1, EscrowNat
<1>3. \A m \in Live(v) : v.nodes[m] \in Node /\ ValidPrice(v.nodes[m].price)
  BY <1>1 DEF LiveOK
<1>4. s.lockedCash = C + CR
  <2> DEFINE a == [m \in Nodes |-> CashOfOrder(v.nodes[m])]
  <2>1. \A m \in Live(v) : a[m] \in Nat
    BY <1>1, <1>3, OrderNat
  <2>2. Total(v, Live(v), j, a) = Total(v, S, j, a) + Total(v, Live(v) \ S, j, a)
    <3> HIDE DEF a
    <3> QED BY <1>1, <2>1, TotalSplit
  <2>3. QED
    BY <2>2 DEF EscrowCash, Sound, Escrowed
<1>5. ASSUME NEW x \in Outcomes PROVE s.locked[x] = L(x) + LR(x)
  <2> DEFINE a == [m \in Nodes |-> LotsOfOrder(v.nodes[m], x)]
  <2>1. \A m \in Live(v) : a[m] \in Nat
    BY <1>1, <1>3, OrderNat
  <2>2. Total(v, Live(v), j, a) = Total(v, S, j, a) + Total(v, Live(v) \ S, j, a)
    <3> HIDE DEF a
    <3> QED BY <1>1, <2>1, TotalSplit
  <2>3. QED
    BY <2>2 DEF EscrowLots, Sound, Escrowed
<1>6. s.openOrders = N + NR
  <2> DEFINE a == [m \in Nodes |-> 1]
  <2>1. \A m \in Live(v) : a[m] \in Nat
    BY <1>1
  <2>2. Total(v, Live(v), j, a) = Total(v, S, j, a) + Total(v, Live(v) \ S, j, a)
    <3> HIDE DEF a
    <3> QED BY <1>1, <2>1, TotalSplit
  <2>3. QED
    BY <2>2 DEF OrderCount, Sound, Escrowed
<1>7. r = [s EXCEPT
             !.credit = @ + C,
             !.lockedCash = @ - C,
             !.free = [x \in Outcomes |-> @[x] + L(x)],
             !.locked = [x \in Outcomes |-> @[x] - L(x)],
             !.openOrders = @ - N]
  BY <1>1 DEF RemoveNodes, Sound, VenueState
<1> HIDE DEF s, r, C, L, N, CR, LR, NR
<1>8. r.credit = s.credit + C /\ r.lockedCash = s.lockedCash - C /\ r.openOrders = s.openOrders - N
  BY <1>1, <1>7 DEF Seat
<1>9. r.free = [x \in Outcomes |-> s.free[x] + L(x)] /\ r.locked = [x \in Outcomes |-> s.locked[x] - L(x)]
  BY <1>1, <1>7 DEF Seat
<1>10. SameHolder(r, s)
  BY <1>1, <1>7 DEF Seat, SameHolder
<1>11. s.credit \in Nat /\ \A x \in Outcomes : s.free[x] \in Nat
  BY <1>1 DEF Seat
<1>12. r.lockedCash = CR /\ r.openOrders = NR /\ \A x \in Outcomes : r.locked[x] = LR(x)
  BY <1>2, <1>4, <1>5, <1>6, <1>8, <1>9
<1>13. r.free \in [Outcomes -> Nat] /\ r.locked \in [Outcomes -> Nat]
  <2>1. \A x \in Outcomes : s.free[x] + L(x) \in Nat /\ s.locked[x] - L(x) \in Nat
    BY <1>2, <1>5, <1>11
  <2>2. QED
    BY <1>9, <2>1
<1>14. r.credit \in Nat /\ r.lockedCash \in Nat /\ r.openOrders \in Nat
  BY <1>2, <1>8, <1>11, <1>12
<1>15. r \in Seat
  BY <1>1, <1>7, <1>13, <1>14 DEF Seat
<1>16. QED
  BY <1>8, <1>9, <1>10, <1>12, <1>15 DEF s, r, C, L, N, CR, LR, NR, Returned

\* Cash and lots of every seat, and the backing, are as they were.
SameWorth(v, w) ==
  /\ CashHeld(w) = CashHeld(v)
  /\ \A x \in Outcomes : Supply(w, x) = Supply(v, x)
  /\ w.backing = v.backing

\* Removing live orders keeps the accounts sound, moves nothing between seats and only adds to free lots.
LEMMA RemoveNodesKeeps ==
  ASSUME NEW v, Sound(v), NEW S \in SUBSET Live(v), NEW w, w = RemoveNodes(v, S)
  PROVE  /\ Sound(w) /\ SameWorth(v, w) /\ SameHolders(v, w)
         /\ \A j \in Seats, x \in Outcomes : w.seats[j].free[x] >= v.seats[j].free[x]
<1>1. v \in VenueState /\ Live(v) \in SUBSET Nodes /\ LiveOK(v)
  BY DEF Sound, Live
<1>3. \A j : /\ EscrowCash(v, S, j) \in Nat
             /\ \A x : EscrowLots(v, S, j, x) \in Nat
  BY <1>1, EscrowNat DEF VenueState
<1>4. w.nodes = [n \in Nodes |-> IF n \in S THEN EmptyNode ELSE v.nodes[n]]
  BY <1>1 DEF RemoveNodes, VenueState
<1>5. Live(w) = Live(v) \ S /\ \A n \in Live(w) : w.nodes[n] = v.nodes[n]
  BY <1>1, <1>4 DEF Live, EmptyNode
<1>2. \A j \in Seats : Returned(v, S, Live(w), w, j)
  BY <1>5, RemovedSeat
<1>6. w \in VenueState
  <2>1. EmptyNode \in Node
    BY DEF EmptyNode, Node, Kinds
  <2>2. w.nodes \in [Nodes -> Node]
    BY <1>1, <1>4, <2>1 DEF VenueState
  <2>3. w.seats \in [Seats -> Seat]
    BY <1>1, <1>2 DEF RemoveNodes, VenueState, Returned
  <2>4. QED
    BY <1>1, <2>2, <2>3 DEF RemoveNodes, VenueState
<1>7. LiveOK(w)
  BY <1>1, <1>5 DEF LiveOK
<1>8. BondsOwned(w)
  BY <1>2 DEF Sound, BondsOwned, SameHolder, Returned
<1>9. Escrowed(w)
  <2>1. ASSUME NEW j \in Seats PROVE EscrowCash(w, Live(w), j) = EscrowCash(v, Live(w), j)
    <3> DEFINE a == [m \in Nodes |-> CashOfOrder(v.nodes[m])]
               b == [m \in Nodes |-> CashOfOrder(w.nodes[m])]
    <3>1. \A m \in Live(w) : w.nodes[m].seat = v.nodes[m].seat /\ b[m] = a[m]
      BY <1>1, <1>5
    <3>2. Live(w) \in SUBSET Nodes
      BY <1>1, <1>5
    <3>3. Total(w, Live(w), j, b) = Total(v, Live(w), j, a)
      <4> HIDE DEF a, b
      <4> QED BY <3>1, <3>2, TotalEq
    <3>4. QED
      BY <3>3 DEF EscrowCash
  <2>2. ASSUME NEW j \in Seats, NEW x \in Outcomes
        PROVE  EscrowLots(w, Live(w), j, x) = EscrowLots(v, Live(w), j, x)
    <3> DEFINE a == [m \in Nodes |-> LotsOfOrder(v.nodes[m], x)]
               b == [m \in Nodes |-> LotsOfOrder(w.nodes[m], x)]
    <3>1. \A m \in Live(w) : w.nodes[m].seat = v.nodes[m].seat /\ b[m] = a[m]
      BY <1>1, <1>5
    <3>2. Live(w) \in SUBSET Nodes
      BY <1>1, <1>5
    <3>3. Total(w, Live(w), j, b) = Total(v, Live(w), j, a)
      <4> HIDE DEF a, b
      <4> QED BY <3>1, <3>2, TotalEq
    <3>4. QED
      BY <3>3 DEF EscrowLots
  <2>3. ASSUME NEW j \in Seats PROVE OrderCount(w, Live(w), j) = OrderCount(v, Live(w), j)
    <3> DEFINE a == [m \in Nodes |-> 1]
    <3>1. \A m \in Live(w) : w.nodes[m].seat = v.nodes[m].seat /\ a[m] = a[m]
      BY <1>5
    <3>2. Live(w) \in SUBSET Nodes
      BY <1>1, <1>5
    <3>3. Total(w, Live(w), j, a) = Total(v, Live(w), j, a)
      <4> HIDE DEF a
      <4> QED BY <3>1, <3>2, TotalEq
    <3>4. QED
      BY <3>3 DEF OrderCount
  <2>4. ASSUME NEW j \in Seats
        PROVE  /\ w.seats[j].lockedCash = EscrowCash(w, Live(w), j)
               /\ \A x \in Outcomes : w.seats[j].locked[x] = EscrowLots(w, Live(w), j, x)
               /\ w.seats[j].openOrders = OrderCount(w, Live(w), j)
    BY <1>2, <2>1, <2>2, <2>3 DEF Returned
  <2>5. QED
    BY <2>4 DEF Escrowed
<1>10. \A j \in Seats : v.seats[j] \in Seat
  BY <1>1 DEF VenueState
<1>11. ASSUME NEW j \in Seats
       PROVE  /\ SeatCash(w.seats[j]) = SeatCash(v.seats[j])
              /\ \A x \in Outcomes : Lots(w.seats[j], x) = Lots(v.seats[j], x)
  <2>1. BondOf(w.seats[j]) = BondOf(v.seats[j]) /\ BondOf(v.seats[j]) \in Nat
    BY <1>2, GridAssumption DEF BondOf, SameHolder, Returned
  <2>2. v.seats[j].credit \in Nat /\ v.seats[j].lockedCash \in Nat
    BY <1>10 DEF Seat
  <2>3. \A x \in Outcomes : v.seats[j].free[x] \in Nat /\ v.seats[j].locked[x] \in Nat
    BY <1>10 DEF Seat
  <2>4. SeatCash(w.seats[j]) = SeatCash(v.seats[j])
    BY <1>2, <1>3, <2>1, <2>2 DEF SeatCash, Returned
  <2>5. \A x \in Outcomes : Lots(w.seats[j], x) = Lots(v.seats[j], x)
    BY <1>2, <1>3, <2>3 DEF Lots, Returned
  <2>6. QED
    BY <2>4, <2>5
<1>12. SameWorth(v, w)
  <2>1. w.backing = v.backing
    BY <1>1 DEF RemoveNodes, VenueState
  <2>2. QED
    BY <1>11, <2>1, SeatsSame DEF SameWorth
<1>13. \A j \in Seats, x \in Outcomes : w.seats[j].free[x] >= v.seats[j].free[x]
  <2>1. \A j \in Seats, x \in Outcomes : v.seats[j].free[x] \in Nat
    BY <1>10 DEF Seat
  <2>2. QED
    BY <1>2, <1>3, <2>1 DEF Returned
<1>14. QED
  BY <1>2, <1>6, <1>7, <1>8, <1>9, <1>12, <1>13 DEF Sound, SameHolders, Returned

-----------------------------------------------------------------------------
(* reduce_node.                                                            *)

\* Parts of a kind are linear in the lots.
LEMMA PartsSplit ==
  ASSUME NEW k \in Kinds, NEW p, ValidPrice(p), NEW q \in Nat, NEW r \in Nat
  PROVE  /\ CashPart(k, p, q + r) = CashPart(k, p, q) + CashPart(k, p, r)
         /\ \A x : LotsPart(k, q + r, x) = LotsPart(k, q, x) + LotsPart(k, r, x)
BY CashSplit DEF CashPart, LotsPart

\* What an order escrows, by its fields.
LEMMA OrderParts ==
  ASSUME NEW o
  PROVE  /\ CashOfOrder(o) = CashPart(o.kind, o.price, o.lots)
         /\ \A x : LotsOfOrder(o, x) = LotsPart(o.kind, o.lots, x)
BY DEF CashOfOrder, CashPart, LotsOfOrder, LotsPart

\* Shrinking a live order keeps the accounts sound and moves nothing between seats.
LEMMA ReduceNodeKeeps ==
  ASSUME NEW v, Sound(v), NEW n \in Live(v), NEW q \in Nat, q <= v.nodes[n].lots,
         NEW w, w = ReduceNode(v, n, q)
  PROVE  Sound(w) /\ SameWorth(v, w) /\ SameHolders(v, w)
<1> DEFINE o == v.nodes[n]
           i == o.seat
           d == o.lots - q
           s == v.seats[i]
           r == w.seats[i]
<1>1. v \in VenueState /\ n \in Nodes /\ o \in Node /\ o.live /\ LiveOK(v)
  BY DEF Sound, Live, VenueState
<1>2. i \in Seats /\ ValidPrice(o.price) /\ o.kind \in Kinds /\ o.lots \in Nat /\ d \in Nat /\ q + d = o.lots
  BY <1>1 DEF Sound, LiveOK, Node
<1>3. \A j \in Seats : v.seats[j] \in Seat /\ v.seats[j] \in LooseSeat
  BY <1>1, LoosenSeat DEF VenueState
<1>4. w.seats = [v.seats EXCEPT ![i] = RefundEscrow(s, o.kind, o.price, d)]
  BY <1>1 DEF ReduceNode, VenueState
<1>5. w.nodes = [v.nodes EXCEPT ![n].lots = q]
  BY <1>1 DEF ReduceNode, VenueState
<1>6. w.nextSeq = v.nextSeq /\ w.seatsUsed = v.seatsUsed /\ w.capacity = v.capacity /\ w.backing = v.backing
  BY <1>1 DEF ReduceNode, VenueState
<1>7. r = RefundEscrow(s, o.kind, o.price, d) /\ \A j \in Seats \ {i} : w.seats[j] = v.seats[j]
  BY <1>1, <1>2, <1>4 DEF VenueState
<1>8. w.nodes[n] = [o EXCEPT !.lots = q] /\ \A m \in Nodes \ {n} : w.nodes[m] = v.nodes[m]
  BY <1>1, <1>5 DEF VenueState
<1> HIDE DEF o, d, s, r
<1>9. /\ r \in LooseSeat /\ SameHolder(r, s) /\ r.openOrders = s.openOrders
      /\ r.credit = s.credit + CashPart(o.kind, o.price, d)
      /\ r.lockedCash = s.lockedCash - CashPart(o.kind, o.price, d)
      /\ \A x \in Outcomes : /\ r.free[x] = s.free[x] + LotsPart(o.kind, d, x)
                             /\ r.locked[x] = s.locked[x] - LotsPart(o.kind, d, x)
  BY <1>2, <1>3, <1>7, RefundFields DEF s
<1>10. OneOrderApart(v, w, n)
  <2>1. w.nodes[n] \in Node /\ w.nodes[n].live = o.live /\ w.nodes[n].seat = o.seat /\ w.nodes[n].price = o.price
    BY <1>1, <1>8 DEF Node
  <2>2. w.nodes \in [Nodes -> Node]
    BY <1>1, <1>5, <2>1 DEF VenueState, o
  <2>3. LiveOK(w)
    BY <1>1, <1>2, <1>8, <2>1 DEF LiveOK, Live
  <2>4. QED
    BY <1>1, <1>8, <2>2, <2>3 DEF OneOrderApart, VenueState
<1>11. w \in LooseVenue
  <2>1. w.nodes \in [Nodes -> Node]
    BY <1>10 DEF OneOrderApart
  <2>2. w.seats \in [Seats -> LooseSeat]
    BY <1>1, <1>3, <1>4, <1>7, <1>9 DEF VenueState
  <2>3. QED
    BY <1>1, <2>1, <2>2 DEF ReduceNode, VenueState, LooseVenue
<1>12. EscrowMoves(v, w, n)
  <2>1. /\ w.nodes[n].live /\ w.nodes[n].seat = i /\ w.nodes[n].kind = o.kind
        /\ w.nodes[n].price = o.price /\ w.nodes[n].lots = q
    BY <1>1, <1>8 DEF Node
  <2>2. /\ CashPart(o.kind, o.price, o.lots) = CashPart(o.kind, o.price, q) + CashPart(o.kind, o.price, d)
        /\ \A x : LotsPart(o.kind, o.lots, x) = LotsPart(o.kind, q, x) + LotsPart(o.kind, d, x)
    BY <1>2, PartsSplit
  <2>3. /\ CashPart(o.kind, o.price, d) \in Nat /\ CashPart(o.kind, o.price, q) \in Nat
        /\ \A x : LotsPart(o.kind, d, x) \in Nat /\ LotsPart(o.kind, q, x) \in Nat
    BY <1>2, PartsNat
  <2>4. /\ CashAt(o, i) = CashPart(o.kind, o.price, o.lots) /\ CashAt(w.nodes[n], i) = CashPart(o.kind, o.price, q)
        /\ CountAt(o, i) = 1 /\ CountAt(w.nodes[n], i) = 1
        /\ \A x : LotsAt(o, i, x) = LotsPart(o.kind, o.lots, x) /\ LotsAt(w.nodes[n], i, x) = LotsPart(o.kind, q, x)
    BY <1>1, <2>1, OrderParts DEF CashAt, LotsAt, CountAt
  <2>5. \A j \in Seats \ {i} :
          /\ CashAt(o, j) = 0 /\ CashAt(w.nodes[n], j) = 0
          /\ CountAt(o, j) = 0 /\ CountAt(w.nodes[n], j) = 0
          /\ \A x : LotsAt(o, j, x) = 0 /\ LotsAt(w.nodes[n], j, x) = 0
    BY <2>1 DEF CashAt, LotsAt, CountAt
  <2>6. \A j \in Seats : /\ v.seats[j].lockedCash \in Nat /\ v.seats[j].openOrders \in Nat
                         /\ \A x \in Outcomes : v.seats[j].locked[x] \in Nat
    BY <1>3 DEF Seat
  <2>7. ASSUME NEW j \in Seats
        PROVE  /\ w.seats[j].lockedCash = v.seats[j].lockedCash - CashAt(o, j) + CashAt(w.nodes[n], j)
               /\ \A x \in Outcomes : w.seats[j].locked[x]
                     = v.seats[j].locked[x] - LotsAt(o, j, x) + LotsAt(w.nodes[n], j, x)
               /\ w.seats[j].openOrders = v.seats[j].openOrders - CountAt(o, j) + CountAt(w.nodes[n], j)
    <3>1. CASE j = i
      BY <1>9, <2>2, <2>3, <2>4, <2>6, <3>1 DEF r, s
    <3>2. CASE j # i
      BY <1>7, <2>5, <2>6, <3>2
    <3>3. QED
      BY <3>1, <3>2
  <2>8. QED
    BY <2>7 DEF EscrowMoves, o
<1>13. SameHolders(v, w)
  BY <1>7, <1>9 DEF SameHolders, SameHolder, s, r
<1>14. Sound(w)
  BY <1>10, <1>11, <1>12, <1>13, SoundAfter
<1>15. ASSUME NEW j \in Seats
       PROVE  /\ SeatCash(w.seats[j]) = SeatCash(v.seats[j])
              /\ \A x \in Outcomes : Lots(w.seats[j], x) = Lots(v.seats[j], x)
  <2>1. CASE j = i
    <3>1. BondOf(r) = BondOf(s) /\ BondOf(s) \in Nat
      BY <1>9, GridAssumption DEF BondOf, SameHolder
    <3>2. s.credit \in Nat /\ s.lockedCash \in Nat
      BY <1>2, <1>3 DEF Seat, s
    <3>3. \A x \in Outcomes : s.free[x] \in Nat /\ s.locked[x] \in Nat
      BY <1>2, <1>3 DEF Seat, s
    <3>4. CashPart(o.kind, o.price, d) \in Nat /\ \A x : LotsPart(o.kind, d, x) \in Nat
      BY <1>2, PartsNat
    <3>5. SeatCash(r) = SeatCash(s)
      BY <1>9, <3>1, <3>2, <3>4 DEF SeatCash
    <3>6. \A x \in Outcomes : Lots(r, x) = Lots(s, x)
      BY <1>9, <3>3, <3>4 DEF Lots
    <3>7. QED
      BY <2>1, <3>5, <3>6 DEF r, s
  <2>2. CASE j # i
    BY <1>7, <2>2
  <2>3. QED
    BY <2>1, <2>2
<1>16. SameWorth(v, w)
  BY <1>6, <1>15, SeatsSame DEF SameWorth
<1>17. QED
  BY <1>13, <1>14, <1>16

-----------------------------------------------------------------------------
(* rest_order.                                                             *)

\* A new order on a free node keeps the accounts sound; a buy's cash joins the cash held.
LEMMA RestOrderKeeps ==
  ASSUME NEW v, Sound(v), NEW n \in Nodes \ Live(v), NEW i \in Seats,
         NEW o, o.kind \in Kinds, ValidPrice(o.price), o.expire \in Nat, NEW q \in Nat,
         ~IsBuy(o.kind) => v.seats[i].free[Outcome(o.kind)] >= q,
         NEW w, w = RestOrder(v, n, i, o, q)
  PROVE  /\ Sound(w) /\ SameHolders(v, w)
         /\ CashHeld(w) = CashHeld(v) + CashPart(o.kind, o.price, q)
         /\ \A x \in Outcomes : Supply(w, x) = Supply(v, x)
         /\ w.backing = v.backing
         /\ w.seats[i].credit = v.seats[i].credit
<1> DEFINE k == o.kind
           p == o.price
           s == v.seats[i]
           l == LockEscrow(s, k, p, q)
           r == w.seats[i]
           new == w.nodes[n]
<1>1. v \in VenueState /\ n \in Nodes /\ LiveOK(v) /\ ~v.nodes[n].live /\ k \in Kinds /\ p \in Nat
  BY DEF Sound, Live, ValidPrice
<1>2. \A j \in Seats : v.seats[j] \in Seat /\ v.seats[j] \in LooseSeat
  BY <1>1, LoosenSeat DEF VenueState
<1>3. /\ l \in LooseSeat /\ SameHolder(l, s) /\ l.openOrders = s.openOrders
      /\ l.credit = s.credit
      /\ l.lockedCash = s.lockedCash + CashPart(k, p, q)
      /\ \A x \in Outcomes : /\ l.free[x] = s.free[x] - LotsPart(k, q, x)
                             /\ l.locked[x] = s.locked[x] + LotsPart(k, q, x)
  BY <1>1, <1>2, LockFields
<1> DEFINE l1 == [l EXCEPT !.openOrders = @ + 1]
<1>0. w = [v EXCEPT
         !.nodes[n] = [live |-> TRUE, kind |-> k, price |-> p, lots |-> q,
                       seat |-> i, seq |-> v.nextSeq, expire |-> o.expire],
         !.nextSeq = @ + 1,
         !.seats[i] = l1]
  BY DEF RestOrder
<1>4. w.seats = [v.seats EXCEPT ![i] = l1]
  <2> HIDE DEF l1
  <2> QED BY <1>0, <1>1 DEF VenueState
<1>5. w.nodes = [v.nodes EXCEPT ![n] =
         [live |-> TRUE, kind |-> k, price |-> p, lots |-> q, seat |-> i, seq |-> v.nextSeq, expire |-> o.expire]]
  BY <1>1 DEF RestOrder, VenueState
<1>6. r = [l EXCEPT !.openOrders = @ + 1] /\ \A j \in Seats \ {i} : w.seats[j] = v.seats[j]
  BY <1>1, <1>4 DEF VenueState
<1>7. /\ new = [live |-> TRUE, kind |-> k, price |-> p, lots |-> q, seat |-> i, seq |-> v.nextSeq, expire |-> o.expire]
      /\ \A m \in Nodes \ {n} : w.nodes[m] = v.nodes[m]
  BY <1>1, <1>5 DEF VenueState
<1> HIDE DEF k, p, s, l, r, new
<1>8. /\ r \in LooseSeat /\ SameHolder(r, s) /\ r.openOrders = s.openOrders + 1
      /\ r.credit = s.credit
      /\ r.lockedCash = s.lockedCash + CashPart(k, p, q)
      /\ \A x \in Outcomes : /\ r.free[x] = s.free[x] - LotsPart(k, q, x)
                             /\ r.locked[x] = s.locked[x] + LotsPart(k, q, x)
  BY <1>3, <1>6 DEF LooseSeat, SameHolder
<1>9. i \in Nat /\ v.nextSeq \in Nat
  BY <1>1 DEF VenueState, Seats
<1>10. new \in Node /\ new.live /\ new.seat = i /\ new.kind = k /\ new.price = p /\ new.lots = q
  BY <1>1, <1>7, <1>9 DEF Node
<1>11. OneOrderApart(v, w, n)
  <2>1. w.nodes \in [Nodes -> Node]
    BY <1>1, <1>5, <1>7, <1>10 DEF VenueState
  <2>2. LiveOK(w)
    BY <1>1, <1>7, <1>10 DEF LiveOK, Live, new, p
  <2>3. QED
    BY <1>1, <1>7, <2>1, <2>2 DEF OneOrderApart, VenueState
<1>12. w \in LooseVenue
  <2>1. w.seats \in [Seats -> LooseSeat]
    BY <1>1, <1>2, <1>4, <1>6, <1>8 DEF VenueState
  <2>2. w.nodes \in [Nodes -> Node]
    BY <1>11 DEF OneOrderApart
  <2>3. w.nextSeq \in Nat
    BY <1>0, <1>1 DEF VenueState
  <2>4. QED
    <3> HIDE DEF l1
    <3> QED BY <1>0, <1>1, <2>1, <2>2, <2>3 DEF VenueState, LooseVenue
<1>13. SameHolders(v, w)
  BY <1>6, <1>8 DEF SameHolders, SameHolder, s, r
<1>14. CashPart(k, p, q) \in Nat /\ \A x : LotsPart(k, q, x) \in Nat
  BY <1>1, PartsNat DEF p
<1>15. EscrowMoves(v, w, n)
  <2>1. \A j : /\ CashAt(v.nodes[n], j) = 0 /\ CountAt(v.nodes[n], j) = 0
               /\ \A x : LotsAt(v.nodes[n], j, x) = 0
    BY <1>1 DEF CashAt, CountAt, LotsAt
  <2>2. /\ CashAt(new, i) = CashPart(k, p, q) /\ CountAt(new, i) = 1
        /\ \A x : LotsAt(new, i, x) = LotsPart(k, q, x)
    BY <1>10, OrderParts DEF CashAt, CountAt, LotsAt
  <2>3. \A j \in Seats \ {i} : /\ CashAt(new, j) = 0 /\ CountAt(new, j) = 0
                               /\ \A x : LotsAt(new, j, x) = 0
    BY <1>10 DEF CashAt, CountAt, LotsAt
  <2>4. \A j \in Seats : /\ v.seats[j].lockedCash \in Nat /\ v.seats[j].openOrders \in Nat
                         /\ \A x \in Outcomes : v.seats[j].locked[x] \in Nat
    BY <1>2 DEF Seat
  <2>5. ASSUME NEW j \in Seats
        PROVE  /\ w.seats[j].lockedCash = v.seats[j].lockedCash - CashAt(v.nodes[n], j) + CashAt(new, j)
               /\ \A x \in Outcomes : w.seats[j].locked[x]
                     = v.seats[j].locked[x] - LotsAt(v.nodes[n], j, x) + LotsAt(new, j, x)
               /\ w.seats[j].openOrders = v.seats[j].openOrders - CountAt(v.nodes[n], j) + CountAt(new, j)
    <3>1. CASE j = i
      BY <1>8, <1>14, <2>1, <2>2, <2>4, <3>1 DEF r, s
    <3>2. CASE j # i
      BY <1>6, <2>1, <2>3, <2>4, <3>2
    <3>3. QED
      BY <3>1, <3>2
  <2>6. QED
    BY <2>5 DEF EscrowMoves, new
<1>16. Sound(w)
  BY <1>11, <1>12, <1>13, <1>15, SoundAfter
<1>17. v.seats \in [Seats -> Seat] /\ w.seats \in [Seats -> Seat]
  BY <1>16 DEF Sound, VenueState
<1>18. /\ CashHeld(w) = CashHeld(v) - SeatCash(s) + SeatCash(r)
       /\ \A x \in Outcomes : Supply(w, x) = Supply(v, x) - Lots(s, x) + Lots(r, x)
  BY <1>6, <1>17, SeatChange DEF s, r
<1>19. CashHeld(v) \in Nat /\ \A x \in Outcomes : Supply(v, x) \in Nat
  BY <1>17, TotalsNat
<1>20. SeatCash(r) = SeatCash(s) + CashPart(k, p, q) /\ SeatCash(s) \in Nat
  <2>1. BondOf(r) = BondOf(s) /\ BondOf(s) \in Nat
    BY <1>8, GridAssumption DEF BondOf, SameHolder
  <2>2. s.credit \in Nat /\ s.lockedCash \in Nat
    BY <1>2 DEF Seat, s
  <2>3. QED
    BY <1>8, <1>14, <2>1, <2>2 DEF SeatCash
<1>21. \A x \in Outcomes : Lots(r, x) = Lots(s, x) /\ Lots(s, x) \in Nat
  <2>1. \A x \in Outcomes : s.free[x] \in Nat /\ s.locked[x] \in Nat
    BY <1>2 DEF Seat, s
  <2>2. QED
    BY <1>8, <1>14, <2>1 DEF Lots
<1>22. CashHeld(w) = CashHeld(v) + CashPart(k, p, q)
  BY <1>14, <1>18, <1>19, <1>20
<1>23. \A x \in Outcomes : Supply(w, x) = Supply(v, x)
  BY <1>18, <1>19, <1>21
<1>24. w.backing = v.backing
  BY <1>1 DEF RestOrder, VenueState
<1>25. QED
  BY <1>8, <1>13, <1>16, <1>22, <1>23, <1>24 DEF r, s, k, p

-----------------------------------------------------------------------------
(* fill.                                                                   *)

\* The lots a fill gives and takes, of either outcome, are the change of the backing.
LEMMA FillLots ==
  ASSUME NEW k \in Kinds, NEW m \in Kinds, NEW q \in Nat, IsBid(k) # IsBid(m), NEW x \in Outcomes
  PROVE  /\ BackingChange(k, m, q) \in Int
         /\ Bought(m, q, x) - LotsPart(m, q, x) + Bought(k, q, x) - LotsPart(k, q, x) = BackingChange(k, m, q)
<1>1. x = "yes" \/ x = "no"
  BY DEF Outcomes
<1>2. CASE k = "BuyYes"
  BY <1>1, <1>2 DEF Kinds, Bought, LotsPart, BackingChange, IsBuy, IsBid, Outcome
<1>3. CASE k = "SellYes"
  BY <1>1, <1>3 DEF Kinds, Bought, LotsPart, BackingChange, IsBuy, IsBid, Outcome
<1>4. CASE k = "BuyNo"
  BY <1>1, <1>4 DEF Kinds, Bought, LotsPart, BackingChange, IsBuy, IsBid, Outcome
<1>5. CASE k = "SellNo"
  BY <1>1, <1>5 DEF Kinds, Bought, LotsPart, BackingChange, IsBuy, IsBid, Outcome
<1>6. QED
  BY <1>2, <1>3, <1>4, <1>5 DEF Kinds

\* The maker's gain and the backing's are what the taker pays or receives.
LEMMA FillValue ==
  ASSUME NEW k \in Kinds, NEW m \in Kinds, NEW p, ValidPrice(p), NEW q \in Nat, IsBid(k) # IsBid(m)
  PROVE  Proceeds(m, p, q) - CashPart(m, p, q) + BackingChange(k, m, q) * PairTicks
           = CashPart(k, p, q) - Proceeds(k, p, q)
<1>1. /\ IsBuy(k) /\ IsBuy(m) => CashOf(k, p, q) + CashOf(m, p, q) = q * PairTicks
      /\ ~IsBuy(k) /\ ~IsBuy(m) => CashOf(k, p, q) + CashOf(m, p, q) = q * PairTicks
      /\ IsBuy(k) # IsBuy(m) => CashOf(k, p, q) = CashOf(m, p, q)
  BY FillCash
<1>2. CashOf(k, p, q) \in Nat /\ CashOf(m, p, q) \in Nat /\ PairTicks \in Nat /\ q * PairTicks \in Nat
  BY CashNat, GridAssumption
<1>3. (-q) * PairTicks = -(q * PairTicks) /\ 0 * PairTicks = 0
  BY <1>2
<1>4. CASE IsBuy(k) /\ IsBuy(m)
  BY <1>1, <1>2, <1>4 DEF Proceeds, CashPart, BackingChange
<1>5. CASE ~IsBuy(k) /\ ~IsBuy(m)
  BY <1>1, <1>2, <1>3, <1>5 DEF Proceeds, CashPart, BackingChange
<1>6. CASE IsBuy(k) # IsBuy(m)
  BY <1>1, <1>2, <1>3, <1>6 DEF Proceeds, CashPart, BackingChange
<1>7. QED
  BY <1>4, <1>5, <1>6

\* A fill keeps the accounts sound and paired; their value changes by what the taker pays or receives.
LEMMA FillNodeKeeps ==
  ASSUME NEW v, Sound(v), Paired(v), NEW n \in Live(v), NEW i \in Seats, v.nodes[n].seat # i,
         NEW k \in Kinds, IsBid(k) # IsBid(v.nodes[n].kind), NEW q \in Nat, q <= v.nodes[n].lots,
         ~IsBuy(k) => v.seats[i].free[Outcome(k)] >= q,
         NEW w, w = FillNode(v, n, i, k, q)
  PROVE  /\ Sound(w) /\ Paired(w) /\ SameHolders(v, w)
         /\ Value(w) = Value(v) + CashPart(k, v.nodes[n].price, q) - Proceeds(k, v.nodes[n].price, q)
         /\ \A x \in Outcomes : w.seats[i].free[x] = v.seats[i].free[x] + Bought(k, q, x) - LotsPart(k, q, x)
<1> DEFINE m == v.nodes[n]
           z == m.seat
           p == m.price
           h == m.kind
           s == v.seats[z]
           t == v.seats[i]
           gone == IF m.lots = q THEN 1 ELSE 0
           a == ApplyMaker(s, h, p, q)
           r == [a EXCEPT !.openOrders = @ - gone]
           u == ApplyTaker(t, k, q)
           new == IF m.lots = q THEN EmptyNode ELSE [m EXCEPT !.lots = @ - q]
           c == BackingChange(k, h, q)
<1>1. v \in VenueState /\ n \in Nodes /\ LiveOK(v) /\ m \in Node /\ m.live
  BY DEF Sound, Live, VenueState
<1>2. z \in Seats /\ ValidPrice(p) /\ h \in Kinds /\ m.lots \in Nat /\ m.lots - q \in Nat /\ gone \in 0..1
  BY <1>1 DEF LiveOK, Node, Live
<1>3. \A j \in Seats : v.seats[j] \in Seat /\ v.seats[j] \in LooseSeat
  BY <1>1, LoosenSeat DEF VenueState
<1>4. /\ w.seats = [v.seats EXCEPT ![z] = r, ![i] = u]
      /\ w.nodes = [v.nodes EXCEPT ![n] = new]
      /\ w.backing = v.backing + c
      /\ w.nextSeq = v.nextSeq /\ w.seatsUsed = v.seatsUsed /\ w.capacity = v.capacity
      /\ w = [v EXCEPT !.seats = w.seats, !.nodes = w.nodes, !.backing = w.backing]
  <2>1. w = [v EXCEPT !.nodes[n] = new, !.seats[z] = r, !.seats[i] = ApplyTaker(@, k, q), !.backing = @ + c]
    BY DEF FillNode
  <2>2. [v.seats EXCEPT ![z] = r][i] = t
    BY <1>1, <1>2 DEF VenueState
  <2> HIDE DEF r, new, c
  <2>3. w = [v EXCEPT !.nodes[n] = new, !.seats[z] = r, !.seats[i] = u, !.backing = @ + c]
    BY <1>1, <2>1, <2>2 DEF VenueState
  <2> HIDE DEF u
  <2>4. QED
    BY <1>1, <2>3 DEF VenueState
<1>5. /\ w.seats[z] = r /\ w.seats[i] = u
      /\ \A j \in Seats \ {z, i} : w.seats[j] = v.seats[j]
      /\ w.nodes[n] = new /\ \A j \in Nodes \ {n} : w.nodes[j] = v.nodes[j]
  <2> HIDE DEF r, new, c, u
  <2> QED BY <1>1, <1>2, <1>4 DEF VenueState
<1>6. /\ a \in LooseSeat /\ SameHolder(a, s) /\ a.openOrders = s.openOrders
      /\ a.credit = s.credit + Proceeds(h, p, q)
      /\ a.lockedCash = s.lockedCash - CashPart(h, p, q)
      /\ \A x \in Outcomes : /\ a.free[x] = s.free[x] + Bought(h, q, x)
                             /\ a.locked[x] = s.locked[x] - LotsPart(h, q, x)
  <2>1. a = ApplyMaker(s, h, p, q) /\ s \in LooseSeat
    BY <1>2, <1>3
  <2> HIDE DEF m, z, p, h, s, t, gone, a, r, u, new, c
  <2>2. QED
    BY <1>2, <2>1, MakerFields
<1>7. TakerMoved(u, t, k, q)
  BY <1>3, TakerFields DEF FreeCovers
<1>8. /\ r \in LooseSeat /\ SameHolder(r, s) /\ r.openOrders = s.openOrders - gone
      /\ r.credit = s.credit + Proceeds(h, p, q)
      /\ r.lockedCash = s.lockedCash - CashPart(h, p, q)
      /\ \A x \in Outcomes : /\ r.free[x] = s.free[x] + Bought(h, q, x)
                             /\ r.locked[x] = s.locked[x] - LotsPart(h, q, x)
  <2>1. r = [a EXCEPT !.openOrders = @ - gone]
    OBVIOUS
  <2> HIDE DEF m, z, p, h, s, t, gone, a, r, u, new, c
  <2>2. /\ r.openOrders = a.openOrders - gone /\ r.credit = a.credit /\ r.lockedCash = a.lockedCash
        /\ r.free = a.free /\ r.locked = a.locked /\ SameHolder(r, a)
    BY <1>6, <2>1 DEF LooseSeat, SameHolder
  <2>3. r \in LooseSeat
    BY <1>2, <1>6, <2>1 DEF LooseSeat
  <2>4. QED
    BY <1>6, <2>2, <2>3 DEF SameHolder
<1>9. /\ CashPart(h, p, q) \in Nat /\ Proceeds(h, p, q) \in Nat /\ CashPart(h, p, m.lots - q) \in Nat
      /\ \A x : LotsPart(h, q, x) \in Nat /\ Bought(h, q, x) \in Nat /\ LotsPart(h, m.lots - q, x) \in Nat
      /\ CashPart(k, p, q) \in Nat /\ Proceeds(k, p, q) \in Nat
      /\ \A x : LotsPart(k, q, x) \in Nat /\ Bought(k, q, x) \in Nat
  BY <1>2, PartsNat
<1>10. /\ CashPart(h, p, m.lots) = CashPart(h, p, q) + CashPart(h, p, m.lots - q)
       /\ \A x : LotsPart(h, m.lots, x) = LotsPart(h, q, x) + LotsPart(h, m.lots - q, x)
  <2> DEFINE d == m.lots - q
  <2>1. q + d = m.lots /\ d \in Nat
    BY <1>2
  <2>2. /\ CashPart(h, p, q + d) = CashPart(h, p, q) + CashPart(h, p, d)
        /\ \A x : LotsPart(h, q + d, x) = LotsPart(h, q, x) + LotsPart(h, d, x)
    <3> HIDE DEF d, m, z, p, h, s, t, gone, a, r, u, new, c
    <3> QED BY <1>2, <2>1, PartsSplit
  <2>3. QED
    BY <2>1, <2>2
<1>11. new \in Node /\ (new.live => new.seat = z /\ new.price = p)
  BY <1>1, <1>2 DEF Node, EmptyNode, Kinds
<1>12. /\ CashAt(new, z) = CashPart(h, p, m.lots - q)
       /\ CountAt(new, z) = 1 - gone
       /\ \A x : LotsAt(new, z, x) = LotsPart(h, m.lots - q, x)
  <2>1. CASE m.lots = q
    <3>1. m.lots - q = 0 /\ OwnTicks(h, p) \in Int
      BY <1>2, <2>1, OwnTicksRange, GridAssumption
    <3>2. CashPart(h, p, 0) = 0 /\ \A x : LotsPart(h, 0, x) = 0
      BY <3>1 DEF CashPart, CashOf, LotsPart
    <3>3. ~new.live
      BY <2>1 DEF EmptyNode
    <3>4. QED
      BY <2>1, <3>1, <3>2, <3>3 DEF CashAt, CountAt, LotsAt
  <2>2. CASE m.lots # q
    <3>1. new.live /\ new.seat = z /\ new.kind = h /\ new.price = p /\ new.lots = m.lots - q
      BY <1>1, <2>2 DEF Node
    <3>2. gone = 0
      BY <2>2
    <3> HIDE DEF m, z, p, h, s, t, gone, a, r, u, new, c
    <3>3. CashOfOrder(new) = CashPart(h, p, m.lots - q) /\ \A x : LotsOfOrder(new, x) = LotsPart(h, m.lots - q, x)
      BY <3>1, OrderParts
    <3>4. QED
      BY <3>1, <3>2, <3>3 DEF CashAt, CountAt, LotsAt
  <2>3. QED
    BY <2>1, <2>2
<1>13. /\ CashAt(m, z) = CashPart(h, p, m.lots) /\ CountAt(m, z) = 1
       /\ \A x : LotsAt(m, z, x) = LotsPart(h, m.lots, x)
  BY <1>1, OrderParts DEF CashAt, CountAt, LotsAt
<1>14. \A j \in Seats \ {z} :
         /\ CashAt(m, j) = 0 /\ CountAt(m, j) = 0 /\ CashAt(new, j) = 0 /\ CountAt(new, j) = 0
         /\ \A x : LotsAt(m, j, x) = 0 /\ LotsAt(new, j, x) = 0
  <2> HIDE DEF new
  <2> QED BY <1>11 DEF CashAt, CountAt, LotsAt
<1>15. z # i
  OBVIOUS
<1> HIDE DEF a, r, u, new, gone, c, p, h, s, t
<1>16. EscrowMoves(v, w, n)
  <2>1. \A j \in Seats : /\ v.seats[j].lockedCash \in Nat /\ v.seats[j].openOrders \in Nat
                         /\ \A x \in Outcomes : v.seats[j].locked[x] \in Nat
    BY <1>3 DEF Seat
  <2>2. ASSUME NEW j \in Seats
        PROVE  /\ w.seats[j].lockedCash = v.seats[j].lockedCash - CashAt(m, j) + CashAt(new, j)
               /\ \A x \in Outcomes : w.seats[j].locked[x] = v.seats[j].locked[x] - LotsAt(m, j, x) + LotsAt(new, j, x)
               /\ w.seats[j].openOrders = v.seats[j].openOrders - CountAt(m, j) + CountAt(new, j)
    <3>1. CASE j = z
      <4>1. w.seats[j] = r /\ v.seats[j] = s
        BY <1>5, <3>1 DEF s
      <4>2. s.lockedCash \in Nat /\ s.openOrders \in Nat /\ \A x \in Outcomes : s.locked[x] \in Nat
        BY <2>1, <4>1
      <4>3. r.lockedCash = s.lockedCash - CashAt(m, z) + CashAt(new, z)
        BY <1>8, <1>9, <1>10, <1>12, <1>13, <4>2
      <4>4. r.openOrders = s.openOrders - CountAt(m, z) + CountAt(new, z)
        BY <1>2, <1>8, <1>12, <1>13, <4>2
      <4>5. \A x \in Outcomes : r.locked[x] = s.locked[x] - LotsAt(m, z, x) + LotsAt(new, z, x)
        BY <1>8, <1>9, <1>10, <1>12, <1>13, <4>2
      <4>6. QED
        BY <3>1, <4>1, <4>3, <4>4, <4>5
    <3>2. CASE j = i
      BY <1>5, <1>7, <1>14, <1>15, <2>1, <3>2 DEF t, TakerMoved
    <3>3. CASE j \notin {i, z}
      BY <1>5, <1>14, <2>1, <3>3
    <3>4. QED
      BY <3>1, <3>2, <3>3
  <2>3. QED
    BY <1>5, <2>2 DEF EscrowMoves
<1>17. OneOrderApart(v, w, n)
  <2>1. w.nodes \in [Nodes -> Node]
    BY <1>1, <1>4, <1>11 DEF VenueState
  <2>2. LiveOK(w)
    BY <1>1, <1>2, <1>5, <1>11 DEF LiveOK, Live, p
  <2>3. QED
    BY <1>1, <1>5, <2>1, <2>2 DEF OneOrderApart, VenueState
<1>18. c \in Int /\ \A x \in Outcomes :
         Bought(h, q, x) - LotsPart(h, q, x) + Bought(k, q, x) - LotsPart(k, q, x) = c
  <2>1. IsBid(k) # IsBid(h)
    BY DEF h
  <2>2. Outcomes # {}
    BY DEF Outcomes
  <2>3. QED
    BY <1>2, <2>1, <2>2, FillLots DEF c
<1>19. v.seats \in [Seats -> Seat] /\ v.backing \in Nat
  BY <1>1 DEF VenueState
<1>20. v.backing + c \in Nat
  <2>1. CASE IsBuy(k) \/ IsBuy(h)
    BY <1>19, <2>1 DEF c, BackingChange
  <2>2. CASE ~IsBuy(k) /\ ~IsBuy(h)
    <3>1. Outcome(k) \in Outcomes
      BY DEF Outcome, Outcomes
    <3>2. q <= t.free[Outcome(k)] /\ t.free[Outcome(k)] \in Nat /\ t.locked[Outcome(k)] \in Nat
      BY <1>3, <2>2, <3>1 DEF Seat, t
    <3>3. Lots(t, Outcome(k)) <= Supply(v, Outcome(k)) /\ Supply(v, Outcome(k)) = v.backing
      BY <1>19, <3>1, TotalsNat DEF Paired, t
    <3>4. QED
      BY <1>19, <2>2, <3>2, <3>3 DEF c, BackingChange, Lots
  <2>3. QED
    BY <2>1, <2>2
<1>21. w \in LooseVenue
  <2>1. w.seats \in [Seats -> LooseSeat]
    BY <1>1, <1>2, <1>3, <1>4, <1>7, <1>8 DEF VenueState, TakerMoved
  <2>2. w.nodes \in [Nodes -> Node] /\ w.backing \in Nat
    BY <1>4, <1>17, <1>20 DEF OneOrderApart
  <2>3. QED
    BY <1>1, <1>4, <2>1, <2>2 DEF VenueState, LooseVenue
<1>22. SameHolders(v, w)
  BY <1>5, <1>7, <1>8 DEF SameHolders, SameHolder, s, t, TakerMoved
<1>23. Sound(w)
  BY <1>16, <1>17, <1>21, <1>22, SoundAfter
<1>24. w.seats \in [Seats -> Seat] /\ w.backing \in Nat
  BY <1>23 DEF Sound, VenueState
<1> DEFINE mid == [seats |-> [v.seats EXCEPT ![z] = r]]
<1>25. /\ mid.seats \in [Seats -> Seat]
       /\ mid.seats[z] = r /\ mid.seats[i] = t /\ \A j \in Seats \ {z} : mid.seats[j] = v.seats[j]
       /\ \A j \in Seats : j # i => w.seats[j] = mid.seats[j]
  <2>1. r \in Seat
    BY <1>2, <1>5, <1>24
  <2>2. QED
    BY <1>2, <1>5, <1>15, <1>19, <2>1 DEF t
<1> HIDE DEF mid
<1>26. /\ CashHeld(mid) = CashHeld(v) - SeatCash(s) + SeatCash(r)
       /\ \A x \in Outcomes : Supply(mid, x) = Supply(v, x) - Lots(s, x) + Lots(r, x)
  BY <1>2, <1>19, <1>25, SeatChange DEF s
<1>27. /\ CashHeld(w) = CashHeld(mid) - SeatCash(t) + SeatCash(u)
       /\ \A x \in Outcomes : Supply(w, x) = Supply(mid, x) - Lots(t, x) + Lots(u, x)
  BY <1>5, <1>24, <1>25, SeatChange
<1>28. /\ SeatCash(s) \in Nat /\ SeatCash(r) = SeatCash(s) + Proceeds(h, p, q) - CashPart(h, p, q)
       /\ SeatCash(t) \in Nat /\ SeatCash(u) = SeatCash(t)
  <2>1. BondOf(r) = BondOf(s) /\ BondOf(s) \in Nat /\ BondOf(u) = BondOf(t) /\ BondOf(t) \in Nat
    BY <1>7, <1>8, GridAssumption DEF BondOf, SameHolder, TakerMoved
  <2>2. s.credit \in Nat /\ s.lockedCash \in Nat /\ t.credit \in Nat /\ t.lockedCash \in Nat
    BY <1>2, <1>3 DEF Seat, s, t
  <2>3. QED
    BY <1>7, <1>8, <1>9, <2>1, <2>2 DEF SeatCash, TakerMoved
<1>29. \A x \in Outcomes :
         /\ Lots(s, x) \in Nat /\ Lots(r, x) = Lots(s, x) + Bought(h, q, x) - LotsPart(h, q, x)
         /\ Lots(t, x) \in Nat /\ Lots(u, x) = Lots(t, x) + Bought(k, q, x) - LotsPart(k, q, x)
  <2>1. \A x \in Outcomes : /\ s.free[x] \in Nat /\ s.locked[x] \in Nat
                            /\ t.free[x] \in Nat /\ t.locked[x] \in Nat
    BY <1>2, <1>3 DEF Seat, s, t
  <2>2. QED
    BY <1>7, <1>8, <1>9, <2>1 DEF Lots, TakerMoved
<1>30. CashHeld(v) \in Nat /\ \A x \in Outcomes : Supply(v, x) \in Nat
  BY <1>19, TotalsNat
<1>31. \A x \in Outcomes : Supply(w, x) = Supply(v, x) + c
  BY <1>9, <1>18, <1>26, <1>27, <1>29, <1>30
<1>32. CashHeld(w) = CashHeld(v) + Proceeds(h, p, q) - CashPart(h, p, q)
  BY <1>9, <1>26, <1>27, <1>28, <1>30
<1>33. Paired(w)
  BY <1>4, <1>31 DEF Paired
<1>34. Value(w) = Value(v) + CashPart(k, p, q) - Proceeds(k, p, q)
  <2>1. Proceeds(h, p, q) - CashPart(h, p, q) + c * PairTicks = CashPart(k, p, q) - Proceeds(k, p, q)
    <3>1. IsBid(k) # IsBid(h)
      BY DEF h
    <3>2. QED
      BY <1>2, <3>1, FillValue DEF c
  <2>2. PairTicks \in Nat /\ v.backing * PairTicks \in Nat /\ c * PairTicks \in Int
    BY <1>18, <1>19, GridAssumption
  <2>3. (v.backing + c) * PairTicks = v.backing * PairTicks + c * PairTicks
    BY <1>18, <1>19, <2>2
  <2>4. QED
    BY <1>4, <1>9, <1>30, <1>32, <2>1, <2>2, <2>3 DEF Value
<1>35. QED
  BY <1>5, <1>7, <1>22, <1>23, <1>33, <1>34 DEF t, p, TakerMoved

-----------------------------------------------------------------------------
(* Edits of one seat that leave its escrow alone.                          *)

\* w is v but for seat i, whose escrow is as it was.
EditsSeat(v, w, i) ==
  /\ w \in VenueState /\ BondsOwned(w)
  /\ w.nodes = v.nodes
  /\ \A j \in Seats \ {i} : w.seats[j] = v.seats[j]
  /\ w.seats[i].lockedCash = v.seats[i].lockedCash
  /\ w.seats[i].locked = v.seats[i].locked
  /\ w.seats[i].openOrders = v.seats[i].openOrders

\* Such an edit keeps the accounts sound; the totals change by that seat.
LEMMA SeatEdit ==
  ASSUME NEW v, Sound(v), NEW w, NEW i \in Seats, EditsSeat(v, w, i)
  PROVE  /\ Sound(w)
         /\ CashHeld(w) = CashHeld(v) - SeatCash(v.seats[i]) + SeatCash(w.seats[i])
         /\ \A x \in Outcomes : Supply(w, x) = Supply(v, x) - Lots(v.seats[i], x) + Lots(w.seats[i], x)
<1>1. v.seats \in [Seats -> Seat] /\ w.seats \in [Seats -> Seat]
  BY DEF Sound, VenueState, EditsSeat
<1>2. Live(w) = Live(v) /\ LiveOK(w)
  BY DEF Sound, EditsSeat, LiveOK, Live
<1>3. \A j : /\ EscrowCash(w, Live(w), j) = EscrowCash(v, Live(v), j)
             /\ \A x : EscrowLots(w, Live(w), j, x) = EscrowLots(v, Live(v), j, x)
             /\ OrderCount(w, Live(w), j) = OrderCount(v, Live(v), j)
  BY <1>2 DEF EscrowCash, EscrowLots, OrderCount, Total, EditsSeat
<1>4. \A j \in Seats : /\ w.seats[j].lockedCash = v.seats[j].lockedCash
                       /\ w.seats[j].locked = v.seats[j].locked
                       /\ w.seats[j].openOrders = v.seats[j].openOrders
  BY DEF EditsSeat
<1>5. Escrowed(w)
  BY <1>3, <1>4 DEF Sound, Escrowed
<1>6. Sound(w)
  BY <1>2, <1>5 DEF Sound, EditsSeat
<1>7. QED
  BY <1>1, <1>6, SeatChange DEF EditsSeat

\* Cash moved into (or out of) the accounts, and nothing else.
CashMoved(v, w, a) ==
  /\ CashHeld(w) = CashHeld(v) + a
  /\ \A x \in Outcomes : Supply(w, x) = Supply(v, x)
  /\ w.backing = v.backing

WithCredit(v, i, c) == [v EXCEPT !.seats[i].credit = c]

\* Setting a seat's credit moves the difference.
LEMMA CreditKeeps ==
  ASSUME NEW v, Sound(v), NEW i \in Seats, NEW c \in Nat, NEW w, w = WithCredit(v, i, c)
  PROVE  /\ Sound(w) /\ CashMoved(v, w, c - v.seats[i].credit)
         /\ w.seats[i] = [v.seats[i] EXCEPT !.credit = c]
<1> DEFINE s == v.seats[i]
           r == [s EXCEPT !.credit = c]
<1>1. v \in VenueState /\ s \in Seat
  BY DEF Sound, VenueState
<1>2. r \in Seat /\ r.credit = c /\ r.lockedCash = s.lockedCash /\ r.free = s.free /\ r.locked = s.locked
  BY <1>1 DEF Seat
<1>3. r.owner = s.owner /\ r.bonded = s.bonded /\ r.openOrders = s.openOrders
  BY <1>1 DEF Seat
<1>4. w.seats = [v.seats EXCEPT ![i] = r] /\ w.nodes = v.nodes /\ w.backing = v.backing
  BY <1>1 DEF VenueState, WithCredit
<1> HIDE DEF r
<1>5. w.seats[i] = r /\ \A j \in Seats \ {i} : w.seats[j] = v.seats[j]
  BY <1>1, <1>4 DEF VenueState
<1>6. w \in VenueState
  BY <1>1, <1>2, <1>4 DEF VenueState, WithCredit
<1>7. BondsOwned(w)
  BY <1>3, <1>5 DEF Sound, BondsOwned
<1>8. EditsSeat(v, w, i)
  BY <1>2, <1>3, <1>4, <1>5, <1>6, <1>7 DEF EditsSeat
<1>9. /\ Sound(w)
      /\ CashHeld(w) = CashHeld(v) - SeatCash(s) + SeatCash(r)
      /\ \A x \in Outcomes : Supply(w, x) = Supply(v, x) - Lots(s, x) + Lots(r, x)
  BY <1>5, <1>8, SeatEdit
<1>10. CashHeld(v) \in Nat /\ \A x \in Outcomes : Supply(v, x) \in Nat
  BY <1>1, TotalsNat DEF VenueState
<1>11. SeatCash(s) \in Nat /\ \A x \in Outcomes : Lots(s, x) \in Nat
  BY <1>1, SeatNat
<1>12. SeatCash(r) = SeatCash(s) + (c - s.credit)
  <2>1. BondOf(s) \in Nat /\ s.credit \in Nat /\ s.lockedCash \in Nat
    BY <1>1, GridAssumption DEF BondOf, Seat
  <2>2. QED
    BY <1>2, <1>3, <2>1 DEF SeatCash, BondOf
<1>13. \A x \in Outcomes : Lots(r, x) = Lots(s, x)
  BY <1>2 DEF Lots
<1>14. s.credit \in Nat
  BY <1>1 DEF Seat
<1>15. CashMoved(v, w, c - s.credit)
  BY <1>4, <1>9, <1>10, <1>11, <1>12, <1>13, <1>14 DEF CashMoved
<1>16. QED
  BY <1>5, <1>9, <1>15 DEF r

\* sweep_credit takes out what it pays.
LEMMA SweepKeeps ==
  ASSUME NEW v, Sound(v), NEW i \in Seats, NEW b \in BOOLEAN, NEW w, w = SweepCredit(v, i, b)
  PROVE  Sound(w) /\ CashMoved(v, w, -Swept(v, i, b)) /\ Swept(v, i, b) \in Nat
<1>1. v.seats[i].credit \in Nat /\ v \in VenueState
  BY DEF Sound, VenueState, Seat
<1>2. CASE b
  <2>1. w = [v EXCEPT !.seats[i].credit = 0] /\ Swept(v, i, b) = v.seats[i].credit
    BY <1>2 DEF SweepCredit, Swept
  <2> DEFINE c == 0
  <2>2. Sound(w) /\ CashMoved(v, w, c - v.seats[i].credit)
    <3>1. c \in Nat /\ w = WithCredit(v, i, c)
      BY <2>1 DEF WithCredit
    <3> HIDE DEF c
    <3>2. QED
      BY <3>1, CreditKeeps
  <2>3. 0 - v.seats[i].credit = -v.seats[i].credit
    BY <1>1
  <2>4. QED
    BY <1>1, <2>1, <2>2, <2>3
<1>3. CASE ~b
  <2>1. w = v /\ Swept(v, i, b) = 0
    BY <1>3 DEF SweepCredit, Swept
  <2>2. CashHeld(v) \in Nat
    BY <1>1, TotalsNat DEF VenueState
  <2>3. QED
    BY <2>1, <2>2 DEF CashMoved
<1>4. QED
  BY <1>2, <1>3

\* resolve_seat writes the owner and the bond of an empty seat it claims.
LEMMA ClaimKeeps ==
  ASSUME NEW v, Sound(v), NEW i \in Seats, NEW a \in Owners, NEW w, w = ResolveSeat(v, a, i)
  PROVE  /\ Sound(w) /\ CashMoved(v, w, BondFor(Claims(v, i)))
         /\ BondFor(Claims(v, i)) \in Nat
         /\ w.seats[i].free = v.seats[i].free /\ w.seats[i].credit = v.seats[i].credit
<1> DEFINE s == v.seats[i]
           r == [s EXCEPT !.owner = a, !.bonded = TRUE]
<1>1. v \in VenueState /\ s \in Seat /\ SeatBond \in Nat
  BY GridAssumption DEF Sound, VenueState
<1>2. CashHeld(v) \in Nat /\ \A x \in Outcomes : Supply(v, x) \in Nat
  BY <1>1, TotalsNat DEF VenueState
<1>3. CASE ~Claims(v, i)
  <2>1. w = v /\ BondFor(Claims(v, i)) = 0
    BY <1>3 DEF ResolveSeat, BondFor
  <2>2. QED
    BY <1>2, <2>1 DEF CashMoved
<1>4. CASE Claims(v, i)
  <2> DEFINE used == IF i > v.seatsUsed THEN i ELSE v.seatsUsed
  <2>1. w = [v EXCEPT !.seats[i].owner = a, !.seats[i].bonded = TRUE, !.seatsUsed = used]
    BY <1>4 DEF ResolveSeat
  <2>2. used \in Nat
    BY <1>1 DEF VenueState, Seats
  <2>3. a # NoOwner /\ a \in Owners \cup {NoOwner}
    BY SizesAssumption
  <2>4. s.owner = NoOwner /\ ~s.bonded
    BY <1>4 DEF Claims, Sound, BondsOwned
  <2>5. r \in Seat
    BY <1>1, <2>3 DEF Seat
  <2>6. r.owner = a /\ r.bonded = TRUE /\ r.credit = s.credit /\ r.lockedCash = s.lockedCash
    BY <1>1 DEF Seat
  <2>7. r.free = s.free /\ r.locked = s.locked /\ r.openOrders = s.openOrders
    BY <1>1 DEF Seat
  <2>8. w.seats = [v.seats EXCEPT ![i] = r] /\ w.nodes = v.nodes /\ w.backing = v.backing
    <3> HIDE DEF used
    <3>1. /\ w.seats = [[v.seats EXCEPT ![i].owner = a] EXCEPT ![i].bonded = TRUE]
          /\ w.nodes = v.nodes /\ w.backing = v.backing
      BY <1>1, <2>1 DEF VenueState
    <3>2. [[v.seats EXCEPT ![i].owner = a] EXCEPT ![i].bonded = TRUE] = [v.seats EXCEPT ![i] = r]
      BY <1>1 DEF VenueState
    <3>3. QED
      BY <3>1, <3>2
  <2> HIDE DEF r, used
  <2>9. w.seats[i] = r /\ \A j \in Seats \ {i} : w.seats[j] = v.seats[j]
    BY <1>1, <2>8 DEF VenueState
  <2>10. w \in VenueState
    <3>1. w.seats \in [Seats -> Seat]
      BY <1>1, <2>5, <2>8 DEF VenueState
    <3>2. QED
      BY <1>1, <2>1, <2>2, <3>1 DEF VenueState
  <2>11. BondsOwned(w)
    BY <2>3, <2>6, <2>9 DEF Sound, BondsOwned
  <2>12. EditsSeat(v, w, i)
    BY <2>6, <2>7, <2>8, <2>9, <2>10, <2>11 DEF EditsSeat
  <2>13. /\ Sound(w)
         /\ CashHeld(w) = CashHeld(v) - SeatCash(s) + SeatCash(r)
         /\ \A x \in Outcomes : Supply(w, x) = Supply(v, x) - Lots(s, x) + Lots(r, x)
    BY <2>9, <2>12, SeatEdit
  <2>14. SeatCash(r) = SeatCash(s) + SeatBond /\ SeatCash(s) \in Nat
    <3>1. s.credit \in Nat /\ s.lockedCash \in Nat
      BY <1>1 DEF Seat
    <3>2. QED
      BY <1>1, <2>4, <2>6, <3>1 DEF SeatCash, BondOf
  <2>15. \A x \in Outcomes : Lots(r, x) = Lots(s, x) /\ Lots(s, x) \in Nat
    BY <1>1, <2>7, SeatNat DEF Lots
  <2>16. BondFor(Claims(v, i)) = SeatBond
    BY <1>4 DEF BondFor
  <2>17. CashMoved(v, w, SeatBond)
    BY <1>1, <1>2, <2>8, <2>13, <2>14, <2>15 DEF CashMoved
  <2>18. QED
    BY <1>1, <2>6, <2>7, <2>9, <2>13, <2>16, <2>17
<1>5. QED
  BY <1>3, <1>4

WithPairs(v, i, b, c, f) == [v EXCEPT !.backing = b, !.seats[i].credit = c, !.seats[i].free = f]

\* Minting (q > 0) or merging (q < 0) pairs changes one seat's free lots of both outcomes and the backing.
LEMMA PairsKeep ==
  ASSUME NEW v, Sound(v), NEW i \in Seats, NEW q \in Int, NEW c \in Nat, NEW b \in Nat, b = v.backing + q,
         NEW f \in [Outcomes -> Nat], \A x \in Outcomes : f[x] = v.seats[i].free[x] + q,
         NEW w, w = WithPairs(v, i, b, c, f)
  PROVE  /\ Sound(w) /\ (Paired(v) => Paired(w))
         /\ Value(w) = Value(v) + (c - v.seats[i].credit) + q * PairTicks
<1> DEFINE s == v.seats[i]
           r == [s EXCEPT !.credit = c, !.free = f]
<1>1. v \in VenueState /\ s \in Seat
  BY DEF Sound, VenueState
<1>2. r \in Seat /\ r.credit = c /\ r.lockedCash = s.lockedCash /\ r.free = f /\ r.locked = s.locked
  BY <1>1 DEF Seat
<1>3. r.owner = s.owner /\ r.bonded = s.bonded /\ r.openOrders = s.openOrders
  BY <1>1 DEF Seat
<1>4. w.seats = [v.seats EXCEPT ![i] = r] /\ w.nodes = v.nodes /\ w.backing = b
  BY <1>1 DEF VenueState, WithPairs
<1> HIDE DEF r
<1>5. w.seats[i] = r /\ \A j \in Seats \ {i} : w.seats[j] = v.seats[j]
  BY <1>1, <1>4 DEF VenueState
<1>6. w \in VenueState
  <2>1. w.seats \in [Seats -> Seat]
    BY <1>1, <1>2, <1>4 DEF VenueState
  <2>2. QED
    BY <1>1, <2>1 DEF VenueState, WithPairs
<1>7. BondsOwned(w)
  BY <1>3, <1>5 DEF Sound, BondsOwned
<1>8. EditsSeat(v, w, i)
  BY <1>2, <1>3, <1>4, <1>5, <1>6, <1>7 DEF EditsSeat
<1>9. /\ Sound(w)
      /\ CashHeld(w) = CashHeld(v) - SeatCash(s) + SeatCash(r)
      /\ \A x \in Outcomes : Supply(w, x) = Supply(v, x) - Lots(s, x) + Lots(r, x)
  BY <1>5, <1>8, SeatEdit
<1>10. CashHeld(v) \in Nat /\ \A x \in Outcomes : Supply(v, x) \in Nat
  BY <1>1, TotalsNat DEF VenueState
<1>11. SeatCash(s) \in Nat /\ SeatCash(r) = SeatCash(s) + (c - s.credit) /\ s.credit \in Nat
  <2>1. BondOf(s) \in Nat /\ s.credit \in Nat /\ s.lockedCash \in Nat
    BY <1>1, GridAssumption DEF BondOf, Seat
  <2>2. QED
    BY <1>2, <1>3, <2>1 DEF SeatCash, BondOf
<1>12. \A x \in Outcomes : Lots(s, x) \in Nat /\ Lots(r, x) = Lots(s, x) + q
  <2>1. \A x \in Outcomes : s.free[x] \in Nat /\ s.locked[x] \in Nat /\ r.free[x] = s.free[x] + q
    BY <1>1, <1>2 DEF Seat
  <2>2. QED
    BY <1>2, <2>1 DEF Lots
<1>13. \A x \in Outcomes : Supply(w, x) = Supply(v, x) + q
  BY <1>9, <1>10, <1>12
<1>14. Paired(v) => Paired(w)
  BY <1>4, <1>13 DEF Paired
<1>15. CashHeld(w) = CashHeld(v) + (c - s.credit)
  BY <1>9, <1>10, <1>11
<1>16. Value(w) = Value(v) + (c - s.credit) + q * PairTicks
  <2>1. v.backing \in Nat /\ PairTicks \in Nat
    BY <1>1, GridAssumption DEF VenueState
  <2>2. v.backing * PairTicks \in Nat /\ q * PairTicks \in Int
    BY <2>1
  <2>3. b * PairTicks = v.backing * PairTicks + q * PairTicks
    BY <2>1
  <2>4. QED
    BY <1>4, <1>10, <1>11, <1>15, <2>2, <2>3 DEF Value
<1>17. QED
  BY <1>9, <1>14, <1>16

\* A seat without orders has no escrow.
LEMMA NoOrdersNoEscrow ==
  ASSUME NEW v, Sound(v), NEW i \in Seats, v.seats[i].openOrders = 0
  PROVE  v.seats[i].lockedCash = 0 /\ \A x \in Outcomes : v.seats[i].locked[x] = 0
<1>1. Live(v) \in SUBSET Nodes /\ NNodes \in Nat
  BY SizesAssumption DEF Live
<1>2. \A n \in Live(v) : v.nodes[n].seat # i
  <2> DEFINE a == [m \in Nodes |-> 1]
  <2>1. SUFFICES ASSUME NEW n \in Live(v), v.nodes[n].seat = i PROVE FALSE
    OBVIOUS
  <2>2. (\A m \in Live(v) : a[m] \in Nat) /\ a[n] = 1
    BY <1>1
  <2>3. a[n] <= Total(v, Live(v), i, a)
    <3> HIDE DEF a
    <3> QED BY <1>1, <2>1, <2>2, TotalBound
  <2>4. Total(v, Live(v), i, a) = 0
    BY DEF Sound, Escrowed, OrderCount
  <2>5. QED
    BY <2>2, <2>3, <2>4
<1>3. ASSUME NEW a PROVE Total(v, Live(v), i, a) = 0
  <2> DEFINE f == [n \in Nodes |-> IF n \in Live(v) /\ v.nodes[n].seat = i THEN a[n] ELSE 0]
  <2>1. \A n \in 1..NNodes : f[n] = 0
    BY <1>2 DEF Nodes
  <2>2. Sum(f, NNodes) = 0
    <3> HIDE DEF f
    <3> QED BY <1>1, <2>1, SumZeros
  <2>3. QED
    BY <2>2 DEF Total
<1>4. EscrowCash(v, Live(v), i) = 0 /\ \A x : EscrowLots(v, Live(v), i, x) = 0
  BY <1>3 DEF EscrowCash, EscrowLots
<1>5. QED
  BY <1>4 DEF Sound, Escrowed

\* redeem_full clears a seat without orders, whatever it held.
LEMMA ClearKeeps ==
  ASSUME NEW v, Sound(v), NEW i \in Seats, v.seats[i].openOrders = 0,
         NEW w, w = [v EXCEPT !.seats[i] = ClearedSeat(v.seats[i])]
  PROVE  /\ Sound(w)
         /\ CashHeld(w) = CashHeld(v) - SeatCash(v.seats[i])
         /\ \A x \in Outcomes : Supply(w, x) = Supply(v, x) - Lots(v.seats[i], x)
         /\ \A x \in Outcomes : Lots(v.seats[i], x) \in Nat
<1> DEFINE s == v.seats[i]
           r == ClearedSeat(s)
<1>1. v \in VenueState /\ s \in Seat
  BY DEF Sound, VenueState
<1>2. s.lockedCash = 0 /\ \A x \in Outcomes : s.locked[x] = 0
  BY NoOrdersNoEscrow
<1>3. /\ r \in Seat /\ r.credit = 0 /\ r.lockedCash = 0 /\ r.free = NoLots /\ r.locked = NoLots
      /\ r.openOrders = 0 /\ r.bonded = FALSE
  <2>1. EmptySeat \in Seat
    BY DEF EmptySeat, Seat, NoLots
  <2>2. CASE ~s.program
    BY <2>1, <2>2 DEF ClearedSeat, EmptySeat
  <2>3. CASE s.program
    <3>1. r = [EmptySeat EXCEPT !.owner = s.owner, !.program = TRUE]
      BY <2>3 DEF ClearedSeat
    <3>2. s.owner \in Owners \cup {NoOwner}
      BY <1>1 DEF Seat
    <3>3. r \in Seat
      BY <2>1, <3>1, <3>2 DEF Seat
    <3>4. QED
      BY <3>1, <3>3 DEF EmptySeat
  <2>4. QED
    BY <2>2, <2>3
<1>4. s.locked = NoLots
  BY <1>1, <1>2 DEF Seat, NoLots
<1>5. w.seats = [v.seats EXCEPT ![i] = r] /\ w.nodes = v.nodes
  BY <1>1 DEF VenueState
<1> HIDE DEF r
<1>6. w.seats[i] = r /\ \A j \in Seats \ {i} : w.seats[j] = v.seats[j]
  BY <1>1, <1>5 DEF VenueState
<1>7. w \in VenueState
  <2>1. w.seats \in [Seats -> Seat]
    BY <1>1, <1>3, <1>5 DEF VenueState
  <2>2. QED
    BY <1>1, <2>1 DEF VenueState
<1>8. BondsOwned(w)
  BY <1>3, <1>6 DEF Sound, BondsOwned
<1>9. EditsSeat(v, w, i)
  BY <1>2, <1>3, <1>4, <1>5, <1>6, <1>7, <1>8 DEF EditsSeat
<1>10. /\ Sound(w)
       /\ CashHeld(w) = CashHeld(v) - SeatCash(s) + SeatCash(r)
       /\ \A x \in Outcomes : Supply(w, x) = Supply(v, x) - Lots(s, x) + Lots(r, x)
  <2>1. /\ Sound(w)
        /\ CashHeld(w) = CashHeld(v) - SeatCash(v.seats[i]) + SeatCash(w.seats[i])
        /\ \A x \in Outcomes : Supply(w, x) = Supply(v, x) - Lots(v.seats[i], x) + Lots(w.seats[i], x)
    BY <1>9, SeatEdit, Zenon
  <2>2. QED
    BY <1>6, <2>1
<1>11. CashHeld(v) \in Nat /\ \A x \in Outcomes : Supply(v, x) \in Nat
  BY <1>1, TotalsNat DEF VenueState
<1>12. SeatCash(s) \in Nat /\ \A x \in Outcomes : Lots(s, x) \in Nat
  BY <1>1, SeatNat
<1>13. SeatCash(r) = 0 /\ \A x \in Outcomes : Lots(r, x) = 0
  BY <1>3 DEF SeatCash, Lots, BondOf, NoLots
<1>14. QED
  BY <1>10, <1>11, <1>12, <1>13

LessFree(v, i, y, q) == [v EXCEPT !.seats[i].free[y] = @ - q]

\* redeem_partial takes free lots of one outcome.
LEMMA PartialKeeps ==
  ASSUME NEW v, Sound(v), NEW i \in Seats, NEW y \in Outcomes, NEW q \in Nat, q <= v.seats[i].free[y],
         NEW w, w = LessFree(v, i, y, q)
  PROVE  /\ Sound(w) /\ CashHeld(w) = CashHeld(v)
         /\ Supply(w, y) = Supply(v, y) - q
         /\ \A x \in Outcomes \ {y} : Supply(w, x) = Supply(v, x)
<1> DEFINE s == v.seats[i]
           f == [s.free EXCEPT ![y] = @ - q]
           r == [s EXCEPT !.free = f]
<1>1. v \in VenueState /\ s \in Seat
  BY DEF Sound, VenueState
<1>2. s.free \in [Outcomes -> Nat] /\ s.locked \in [Outcomes -> Nat]
  BY <1>1 DEF Seat
<1>3. f \in [Outcomes -> Nat] /\ f[y] = s.free[y] - q /\ \A x \in Outcomes \ {y} : f[x] = s.free[x]
  <2>1. s.free[y] - q \in Nat
    BY <1>2
  <2>2. QED
    BY <1>2, <2>1
<1>4. w.seats = [v.seats EXCEPT ![i] = r] /\ w.nodes = v.nodes
  BY <1>1 DEF VenueState, LessFree
<1> HIDE DEF f
<1>5. /\ r \in Seat /\ r.credit = s.credit /\ r.lockedCash = s.lockedCash /\ r.free = f /\ r.locked = s.locked
      /\ r.openOrders = s.openOrders /\ r.owner = s.owner /\ r.bonded = s.bonded
  BY <1>1, <1>3 DEF Seat
<1> HIDE DEF r
<1>6. w.seats[i] = r /\ \A j \in Seats \ {i} : w.seats[j] = v.seats[j]
  BY <1>1, <1>4 DEF VenueState
<1>7. w \in VenueState
  <2>1. w.seats \in [Seats -> Seat]
    BY <1>1, <1>4, <1>5 DEF VenueState
  <2>2. QED
    BY <1>1, <2>1 DEF VenueState, LessFree
<1>8. BondsOwned(w)
  BY <1>5, <1>6 DEF Sound, BondsOwned
<1>9. EditsSeat(v, w, i)
  BY <1>4, <1>5, <1>6, <1>7, <1>8 DEF EditsSeat
<1>10. /\ Sound(w)
       /\ CashHeld(w) = CashHeld(v) - SeatCash(s) + SeatCash(r)
       /\ \A x \in Outcomes : Supply(w, x) = Supply(v, x) - Lots(s, x) + Lots(r, x)
  BY <1>6, <1>9, SeatEdit
<1>11. CashHeld(v) \in Nat /\ \A x \in Outcomes : Supply(v, x) \in Nat
  BY <1>1, TotalsNat DEF VenueState
<1>12. SeatCash(r) = SeatCash(s) /\ SeatCash(s) \in Nat
  BY <1>1, <1>5, SeatNat DEF SeatCash, BondOf
<1>13. /\ Lots(r, y) = Lots(s, y) - q
       /\ \A x \in Outcomes \ {y} : Lots(r, x) = Lots(s, x)
       /\ \A x \in Outcomes : Lots(s, x) \in Nat
  <2>1. \A x \in Outcomes : s.free[x] \in Nat /\ s.locked[x] \in Nat
    BY <1>2
  <2>2. QED
    BY <1>3, <1>5, <2>1 DEF Lots
<1>14. QED
  BY <1>10, <1>11, <1>12, <1>13

-----------------------------------------------------------------------------
(* Payouts.                                                                *)

\* What all seats are paid is what the supplies of the two outcomes are.
LEMMA PayoutSum ==
  ASSUME NEW v, v.seats \in [Seats -> Seat], NEW a \in Nat, NEW b \in Nat
  PROVE  Sum([i \in Seats |-> Lots(v.seats[i], "yes") * a + Lots(v.seats[i], "no") * b], NSeats)
           = Supply(v, "yes") * a + Supply(v, "no") * b
<1> DEFINE y == [i \in Seats |-> Lots(v.seats[i], "yes")]
           n == [i \in Seats |-> Lots(v.seats[i], "no")]
           ya == [i \in Seats |-> Lots(v.seats[i], "yes") * a]
           nb == [i \in Seats |-> Lots(v.seats[i], "no") * b]
           t == [i \in Seats |-> Lots(v.seats[i], "yes") * a + Lots(v.seats[i], "no") * b]
<1>1. NSeats \in Nat
  BY SizesAssumption
<1>2. \A i \in Seats : Lots(v.seats[i], "yes") \in Nat /\ Lots(v.seats[i], "no") \in Nat
  BY SeatNat DEF Outcomes
<1>3. \A m, c \in Nat : m * c \in Nat
  OBVIOUS
<1>4. \A i \in 1..NSeats : /\ y[i] \in Int /\ ya[i] = y[i] * a /\ ya[i] \in Int
                           /\ n[i] \in Int /\ nb[i] = n[i] * b /\ nb[i] \in Int
                           /\ t[i] = ya[i] + nb[i]
  BY <1>2, <1>3 DEF Seats
<1>5. Sum(ya, NSeats) = Sum(y, NSeats) * a
  <2> HIDE DEF y, n, ya, nb, t
  <2> QED BY <1>1, <1>4, SumScale
<1>6. Sum(nb, NSeats) = Sum(n, NSeats) * b
  <2> HIDE DEF y, n, ya, nb, t
  <2> QED BY <1>1, <1>4, SumScale
<1>7. Sum(t, NSeats) = Sum(ya, NSeats) + Sum(nb, NSeats)
  <2> HIDE DEF y, n, ya, nb, t
  <2> QED BY <1>1, <1>4, SumAdd
<1>8. QED
  BY <1>5, <1>6, <1>7 DEF Supply
============================================================================
