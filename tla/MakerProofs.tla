---------------------------- MODULE MakerProofs ----------------------------
(***************************************************************************)
(* What Maker keeps for any number of Windows and providers, any params an *)
(* admin may set and any amounts.                                          *)
(*                                                                         *)
(* The inductive invariant joins the type, the accounting of tokens and of *)
(* open Windows, the sum of the providers' shares (a withdrawal may not    *)
(* burn more than exist) and what a settled record implies.                *)
(***************************************************************************)
EXTENDS Maker, SummationProofs, FiniteSetTheorems

Vaults == [deployed : Nat, shares : Nat, open : Nat, paused : BOOLEAN, params : ParamSets]
Positions == [shares : Nat, supplied : Nat, withdrawn : Nat]
Records == [out : Nat, back : Nat, merged : Nat, payout : Nat, quotes : Nat, settled : BOOLEAN]
Seats == [credit : Nat, resting : [Legs -> Nat], lots : [Outcomes -> Nat]]

Held == [a \in Providers |-> position[a].shares]
SharesAddUp == vault.shares = Sum(Held, NumProviders)

Over == Results \cup {"closed"}

\* A settled record was once a quoted one, on a Window the venue decided, and its seat is empty.
SettledIsOver ==
  \A w \in Windows :
    book[w].settled => book[w].quotes > 0 /\ market[w] \in Over /\ seat[w] = EmptySeat

MakerInv ==
  /\ TypeOK
  /\ SharesAddUp
  /\ EveryTokenIsAccounted
  /\ OpenWindowsAreCounted
  /\ SettledIsOver

-----------------------------------------------------------------------------
(* Arithmetic.                                                             *)

LEMMA SatSubIsNat ==
  ASSUME NEW a \in Nat, NEW b \in Nat
  PROVE  SatSub(a, b) \in Nat
BY DEF SatSub

\* The floor of a quotient, by its two inequalities.
LEMMA Quotient ==
  ASSUME NEW a \in Nat, NEW b \in Nat, b > 0
  PROVE  /\ a \div b \in Nat
         /\ (a \div b) * b <= a
OBVIOUS

LEMMA ProductIsNat ==
  ASSUME NEW a \in Nat, NEW b \in Nat
  PROVE  a * b \in Nat
OBVIOUS

\* A rounded-down share of a value is worth no more than was paid for it.
LEMMA JoiningIsFair ==
  ASSUME NEW total \in Nat, NEW shares \in Nat, NEW amount \in Nat, total > 0
  PROVE  (total + amount) * shares >= total * (shares + (amount * shares) \div total)
<1> DEFINE minted == (amount * shares) \div total
<1>1. minted \in Nat /\ minted * total <= amount * shares
  BY ProductIsNat, Quotient
<1> HIDE DEF minted
<1>2. (total + amount) * shares = total * shares + amount * shares
  OBVIOUS
<1>3. total * (shares + minted) = total * shares + minted * total
  BY <1>1
<1>4. total * shares \in Nat /\ amount * shares \in Nat /\ minted * total \in Nat
  BY <1>1, ProductIsNat
<1>5. QED
  BY <1>1, <1>2, <1>3, <1>4 DEF minted

LEMMA LeavingIsFair ==
  ASSUME NEW total \in Nat, NEW shares \in Nat, NEW burnt \in 0..shares, shares > 0
  PROVE  (total - (burnt * total) \div shares) * shares >= total * (shares - burnt)
<1> DEFINE paid == (burnt * total) \div shares
<1>1. paid \in Nat /\ paid * shares <= burnt * total
  BY ProductIsNat, Quotient
<1> HIDE DEF paid
<1>2. (total - paid) * shares = total * shares - paid * shares
  BY <1>1
<1>3. total * (shares - burnt) = total * shares - burnt * total
  OBVIOUS
<1>4. total * shares \in Nat /\ paid * shares \in Nat /\ burnt * total \in Nat
  BY <1>1, ProductIsNat
<1>5. QED
  BY <1>1, <1>2, <1>3, <1>4 DEF paid

-----------------------------------------------------------------------------
(* Sums over providers and Windows, when one entry changes.                *)

LEMMA HeldChange ==
  ASSUME NEW p \in [Providers -> Positions], NEW q \in [Providers -> Positions], NEW a \in Providers,
         NumProviders \in Nat,
         \A b \in Providers : b # a => q[b] = p[b]
  PROVE  Sum([b \in Providers |-> q[b].shares], NumProviders)
           = Sum([b \in Providers |-> p[b].shares], NumProviders) - p[a].shares + q[a].shares
<1> DEFINE f == [b \in Providers |-> p[b].shares]
           g == [b \in Providers |-> q[b].shares]
<1>1. a \in 1..NumProviders
  BY DEF Providers
<1>2. \A i \in 1..NumProviders : f[i] \in Int /\ g[i] \in Int /\ (i # a => g[i] = f[i])
  BY DEF Providers, Positions
<1>3. f[a] = p[a].shares /\ g[a] = q[a].shares
  OBVIOUS
<1> HIDE DEF f, g
<1>4. Sum(g, NumProviders) = Sum(f, NumProviders) - f[a] + g[a]
  BY <1>1, <1>2, SumChange
<1>5. QED
  BY <1>3, <1>4 DEF f, g

LEMMA BroughtChange ==
  ASSUME NEW p \in [Providers -> Positions], NEW q \in [Providers -> Positions], NEW a \in Providers,
         NumProviders \in Nat,
         \A b \in Providers : b # a => q[b] = p[b]
  PROVE  Sum([b \in Providers |-> q[b].supplied - q[b].withdrawn], NumProviders)
           = Sum([b \in Providers |-> p[b].supplied - p[b].withdrawn], NumProviders)
             - (p[a].supplied - p[a].withdrawn) + (q[a].supplied - q[a].withdrawn)
<1> DEFINE f == [b \in Providers |-> p[b].supplied - p[b].withdrawn]
           g == [b \in Providers |-> q[b].supplied - q[b].withdrawn]
<1>1. a \in 1..NumProviders
  BY DEF Providers
<1>2. ASSUME NEW i \in 1..NumProviders
      PROVE  f[i] \in Int /\ g[i] \in Int /\ (i # a => g[i] = f[i])
  <2>1. i \in Providers /\ p[i] \in Positions /\ q[i] \in Positions
    BY DEF Providers
  <2>2. f[i] = p[i].supplied - p[i].withdrawn /\ g[i] = q[i].supplied - q[i].withdrawn
    BY <2>1
  <2>3. f[i] \in Int /\ g[i] \in Int
    BY <2>1, <2>2 DEF Positions
  <2>4. QED
    BY <2>1, <2>2, <2>3
<1>3. f[a] = p[a].supplied - p[a].withdrawn /\ g[a] = q[a].supplied - q[a].withdrawn
  OBVIOUS
<1> HIDE DEF f, g
<1>4. Sum(g, NumProviders) = Sum(f, NumProviders) - f[a] + g[a]
  BY <1>1, <1>2, SumChange
<1>5. QED
  BY <1>3, <1>4 DEF f, g

NetOut(r) == r.out - r.back - r.merged - r.payout

LEMMA OutChange ==
  ASSUME NEW b \in [Windows -> Records], NEW c \in [Windows -> Records], NEW w \in Windows,
         NumWindows \in Nat,
         \A v \in Windows : v # w => c[v] = b[v]
  PROVE  Sum([v \in Windows |-> c[v].out - c[v].back - c[v].merged - c[v].payout], NumWindows)
           = Sum([v \in Windows |-> b[v].out - b[v].back - b[v].merged - b[v].payout], NumWindows)
             - NetOut(b[w]) + NetOut(c[w])
<1> DEFINE f == [v \in Windows |-> b[v].out - b[v].back - b[v].merged - b[v].payout]
           g == [v \in Windows |-> c[v].out - c[v].back - c[v].merged - c[v].payout]
<1>1. w \in 1..NumWindows
  BY DEF Windows
<1>2. ASSUME NEW i \in 1..NumWindows
      PROVE  f[i] \in Int /\ g[i] \in Int /\ (i # w => g[i] = f[i])
  <2>1. i \in Windows /\ b[i] \in Records /\ c[i] \in Records
    BY DEF Windows
  <2>2. f[i] = NetOut(b[i]) /\ g[i] = NetOut(c[i])
    BY <2>1 DEF NetOut
  <2>3. f[i] \in Int /\ g[i] \in Int
    BY <2>1, <2>2 DEF Records, NetOut
  <2>4. QED
    BY <2>1, <2>2, <2>3
<1>3. f[w] = NetOut(b[w]) /\ g[w] = NetOut(c[w])
  BY DEF NetOut
<1> HIDE DEF f, g
<1>4. Sum(g, NumWindows) = Sum(f, NumWindows) - f[w] + g[w]
  BY <1>1, <1>2, SumChange
<1>5. QED
  BY <1>3, <1>4 DEF f, g

\* No provider holds more shares than the vault has issued.
LEMMA HeldBound ==
  ASSUME MakerInv, NEW a \in Providers
  PROVE  position[a].shares <= vault.shares
<1>1. a \in 1..NumProviders /\ NumProviders \in Nat
  BY MakerAssumption DEF Providers
<1>2. \A i \in 1..NumProviders : Held[i] \in Nat
  BY DEF Held, MakerInv, TypeOK, Providers
<1>3. Held[a] <= Sum(Held, NumProviders)
  BY <1>1, <1>2, SumBound
<1>4. QED
  BY <1>3 DEF Held, MakerInv, SharesAddUp

\* The escrow of resting orders is a natural number.
LEMMA EscrowIsNat ==
  ASSUME NEW resting \in [Legs -> Nat]
  PROVE  Escrow(resting) \in Nat
<1> DEFINE f == [p \in Prices |-> EscrowAt(resting, p)]
           n == PairTicks - 1
<1>1. n \in Nat /\ PairTicks \in Nat
  BY MakerAssumption
<1>2. ASSUME NEW p \in 1..n PROVE f[p] \in Nat
  <2>1. p \in Prices /\ p \in Nat /\ PairTicks - p \in Nat
    BY <1>1 DEF Prices
  <2>2. <<"yes", p>> \in Legs /\ <<"no", p>> \in Legs
    BY <2>1 DEF Legs, Outcomes
  <2>3. resting[<<"yes", p>>] \in Nat /\ resting[<<"no", p>>] \in Nat
    BY <2>2
  <2>4. resting[<<"yes", p>>] * p \in Nat /\ resting[<<"no", p>>] * (PairTicks - p) \in Nat
    BY <2>1, <2>3, ProductIsNat
  <2>5. f[p] = EscrowAt(resting, p)
    BY <2>1
  <2>6. QED
    BY <2>4, <2>5 DEF EscrowAt
<1>3. Escrow(resting) = Sum(f, n)
  BY DEF Escrow
<1> HIDE DEF f, n
<1>4. n \in 0..n
  BY <1>1
<1>5. QED
  BY <1>1, <1>2, <1>3, <1>4, SumNat

-----------------------------------------------------------------------------
(* What a step that leaves an account alone keeps.                         *)

LEMMA TypesOf ==
  ASSUME MakerInv
  PROVE  /\ custody \in Nat /\ vault \in Vaults /\ position \in [Providers -> Positions]
         /\ book \in [Windows -> Records] /\ seat \in [Windows -> Seats] /\ market \in [Windows -> Phases]
BY DEF MakerInv, TypeOK, Vaults, Positions, Records, Seats

LEMMA TypesAre ==
  ASSUME custody' \in Nat, vault' \in Vaults, position' \in [Providers -> Positions],
         book' \in [Windows -> Records], seat' \in [Windows -> Seats], market' \in [Windows -> Phases]
  PROVE  TypeOK'
BY DEF TypeOK, Vaults, Positions, Records, Seats

LEMMA SharesKept ==
  ASSUME MakerInv, vault'.shares = vault.shares, position' = position
  PROVE  SharesAddUp'
BY DEF MakerInv, SharesAddUp, Held

LEMMA CountKept ==
  ASSUME MakerInv, vault'.open = vault.open,
         \A w \in Windows : /\ book'[w].quotes > 0 <=> book[w].quotes > 0
                            /\ book'[w].settled = book[w].settled
  PROVE  OpenWindowsAreCounted'
<1>1. UnsettledWindows' = UnsettledWindows
  BY DEF UnsettledWindows
<1>2. QED
  BY <1>1 DEF MakerInv, OpenWindowsAreCounted

LEMMA TokensKept ==
  ASSUME MakerInv, custody' = custody, position' = position, book' = book
  PROVE  EveryTokenIsAccounted'
BY DEF MakerInv, EveryTokenIsAccounted, BroughtIn, StillOut

LEMMA SumsAreInts ==
  ASSUME MakerInv
  PROVE  Sum(BroughtIn, NumProviders) \in Int /\ Sum(StillOut, NumWindows) \in Int
<1>1. NumProviders \in Nat /\ NumWindows \in Nat
  BY MakerAssumption
<1>2. \A i \in 1..NumProviders : BroughtIn[i] \in Int
  <2>1. SUFFICES ASSUME NEW i \in Providers PROVE BroughtIn[i] \in Int
    BY DEF Providers
  <2>2. position[i] \in Positions
    BY TypesOf
  <2>3. QED
    BY <2>2 DEF BroughtIn, Positions
<1>3. \A i \in 1..NumWindows : StillOut[i] \in Int
  <2>1. SUFFICES ASSUME NEW i \in Windows PROVE StillOut[i] \in Int
    BY DEF Windows
  <2>2. book[i] \in Records
    BY TypesOf
  <2>3. QED
    BY <2>2 DEF StillOut, Records
<1>4. QED
  BY <1>1, <1>2, <1>3, SumInt

\* A return to custody that the Window's record books in full keeps the account of tokens.
LEMMA ReturnIsAccounted ==
  ASSUME MakerInv, NEW w \in Windows, NEW r \in Int,
         custody' = custody + r, position' = position, book' \in [Windows -> Records],
         \A v \in Windows : v # w => book'[v] = book[v],
         NetOut(book'[w]) = NetOut(book[w]) - r
  PROVE  EveryTokenIsAccounted'
<1>1. book \in [Windows -> Records] /\ NumWindows \in Nat
  BY TypesOf, MakerAssumption
<1>2. Sum(StillOut', NumWindows) = Sum(StillOut, NumWindows) - NetOut(book[w]) + NetOut(book'[w])
  BY <1>1, OutChange DEF StillOut
<1>3. NetOut(book[w]) \in Int
  <2>1. book[w] \in Records
    BY <1>1
  <2>2. QED
    BY <2>1 DEF Records, NetOut
<1>4. BroughtIn' = BroughtIn
  BY DEF BroughtIn
<1>5. custody = Sum(BroughtIn, NumProviders) - Sum(StillOut, NumWindows)
  BY DEF MakerInv, EveryTokenIsAccounted
<1>6. custody' = Sum(BroughtIn', NumProviders) - Sum(StillOut', NumWindows)
  BY <1>2, <1>3, <1>4, <1>5, SumsAreInts
<1>7. QED
  BY <1>6 DEF EveryTokenIsAccounted

LEMMA OverKept ==
  ASSUME MakerInv,
         \A w \in Windows : book[w].settled => /\ book'[w] = book[w] /\ seat'[w] = seat[w]
                                               /\ market'[w] = market[w],
         \A w \in Windows : ~book[w].settled => ~book'[w].settled
  PROVE  SettledIsOver'
BY DEF MakerInv, SettledIsOver

\* A step of the venue around the seat of a Window that is not settled.
LEMMA SeatStepKeeps ==
  ASSUME MakerInv, NEW w \in Windows, ~book[w].settled,
         UNCHANGED <<custody, vault, position, book>>,
         seat' \in [Windows -> Seats], market' \in [Windows -> Phases],
         \A v \in Windows : v # w => seat'[v] = seat[v] /\ market'[v] = market[v]
  PROVE  MakerInv'
<1>1. TypeOK'
  BY TypesOf, TypesAre
<1>2. SharesAddUp' /\ EveryTokenIsAccounted' /\ OpenWindowsAreCounted'
  BY SharesKept, TokensKept, CountKept
<1>3. SettledIsOver'
  BY OverKept
<1>4. QED
  BY <1>1, <1>2, <1>3 DEF MakerInv

-----------------------------------------------------------------------------
(* Providers.                                                              *)

LEMMA TotalIsNat ==
  ASSUME MakerInv
  PROVE  TotalValue \in Nat
<1>1. custody \in Nat /\ vault.deployed \in Nat
  BY TypesOf DEF Vaults
<1>2. QED
  BY <1>1 DEF TotalValue

LEMMA SharesForIsNat ==
  ASSUME MakerInv, NEW amount \in Nat
  PROVE  SharesFor(amount) \in Nat
<1>1. vault.shares \in Nat
  BY TypesOf DEF Vaults
<1>2. CASE vault.shares = 0 \/ TotalValue = 0
  BY <1>2 DEF SharesFor
<1>3. CASE ~ (vault.shares = 0 \/ TotalValue = 0)
  <2>1. (amount * vault.shares) \div TotalValue \in Nat
    BY <1>1, <1>3, TotalIsNat, ProductIsNat, Quotient
  <2>2. QED
    BY <1>3, <2>1 DEF SharesFor
<1>4. QED
  BY <1>2, <1>3

\* A supply or a withdrawal: one provider's account, the vault's shares and custody move together.
LEMMA ProviderStepKeeps ==
  ASSUME MakerInv, NEW a \in Providers, NEW minted \in Int, NEW paid \in Int,
         position' \in [Providers -> Positions],
         \A b \in Providers : b # a => position'[b] = position[b],
         position'[a].shares = position[a].shares + minted,
         position'[a].supplied - position'[a].withdrawn = position[a].supplied - position[a].withdrawn + paid,
         vault' \in Vaults, vault'.shares = vault.shares + minted, vault'.open = vault.open,
         custody' = custody + paid, custody' \in Nat,
         UNCHANGED <<book, seat, market>>
  PROVE  MakerInv'
<1>1. TypeOK'
  BY TypesOf, TypesAre
<1>2. NumProviders \in Nat /\ position \in [Providers -> Positions] /\ position[a] \in Positions
  BY MakerAssumption, TypesOf
<1>3. SharesAddUp'
  <2>1. Sum(Held', NumProviders) = Sum(Held, NumProviders) - position[a].shares + position'[a].shares
    BY <1>2, HeldChange DEF Held
  <2>2. position[a].shares \in Nat /\ vault.shares \in Nat
    BY <1>2, TypesOf DEF Positions, Vaults
  <2>3. vault.shares = Sum(Held, NumProviders)
    BY DEF MakerInv, SharesAddUp
  <2>4. vault'.shares = Sum(Held', NumProviders)
    BY <2>1, <2>2, <2>3
  <2>5. QED
    BY <2>4 DEF SharesAddUp
<1>4. EveryTokenIsAccounted'
  <2>1. Sum(BroughtIn', NumProviders)
          = Sum(BroughtIn, NumProviders) - (position[a].supplied - position[a].withdrawn)
            + (position'[a].supplied - position'[a].withdrawn)
    BY <1>2, BroughtChange DEF BroughtIn
  <2>2. position[a].supplied - position[a].withdrawn \in Int
    BY <1>2 DEF Positions
  <2>3. StillOut' = StillOut
    BY DEF StillOut
  <2>4. custody = Sum(BroughtIn, NumProviders) - Sum(StillOut, NumWindows)
    BY DEF MakerInv, EveryTokenIsAccounted
  <2>5. custody' = Sum(BroughtIn', NumProviders) - Sum(StillOut', NumWindows)
    BY <2>1, <2>2, <2>3, <2>4, SumsAreInts
  <2>6. QED
    BY <2>5 DEF EveryTokenIsAccounted
<1>5. OpenWindowsAreCounted' /\ SettledIsOver'
  BY CountKept, OverKept
<1>6. QED
  BY <1>1, <1>3, <1>4, <1>5 DEF MakerInv

LEMMA SupplyKeeps ==
  ASSUME MakerInv, NEW a \in Providers, NEW amount \in Amounts, Supply(a, amount)
  PROVE  MakerInv'
<1> DEFINE shares == SharesFor(amount)
<1>1. amount \in Nat /\ shares \in Nat
  BY MakerAssumption, SharesForIsNat
<1>2. /\ custody' = custody + amount
      /\ position' = [position EXCEPT ![a].shares = @ + shares, ![a].supplied = @ + amount]
      /\ vault' = [vault EXCEPT !.shares = @ + shares]
      /\ UNCHANGED <<book, seat, market>>
  BY DEF Supply
<1> HIDE DEF shares
<1>3. /\ position \in [Providers -> Positions] /\ position[a] \in Positions
      /\ vault \in Vaults /\ custody \in Nat
  BY TypesOf
<1>4. position' \in [Providers -> Positions]
  <2> DEFINE row == [shares |-> position[a].shares + shares,
                     supplied |-> position[a].supplied + amount,
                     withdrawn |-> position[a].withdrawn]
  <2>0. position[a].shares + shares \in Nat /\ position[a].supplied + amount \in Nat
    BY <1>1, <1>3 DEF Positions
  <2>1. row \in Positions
    BY <1>3, <2>0 DEF Positions
  <2>2. position[a] = [shares |-> position[a].shares, supplied |-> position[a].supplied,
                       withdrawn |-> position[a].withdrawn]
    BY <1>3 DEF Positions
  <2>3. position'[a] = row
    BY <1>2, <1>3, <2>2
  <2>4. position' = [position EXCEPT ![a] = position'[a]]
    BY <1>2, <1>3
  <2> HIDE DEF row
  <2>5. QED
    BY <1>3, <2>1, <2>3, <2>4
<1>5. \A b \in Providers : b # a => position'[b] = position[b]
  BY <1>2, <1>3
<1>6. /\ position'[a].shares = position[a].shares + shares
      /\ position'[a].supplied = position[a].supplied + amount
      /\ position'[a].withdrawn = position[a].withdrawn
  BY <1>2, <1>3 DEF Positions
<1>7. position'[a].supplied - position'[a].withdrawn
        = position[a].supplied - position[a].withdrawn + amount
  BY <1>1, <1>3, <1>6 DEF Positions
<1>8. vault' \in Vaults /\ vault'.shares = vault.shares + shares /\ vault'.open = vault.open
  BY <1>1, <1>2, <1>3 DEF Vaults
<1>9. custody' \in Nat
  BY <1>1, <1>2, <1>3
<1>10. QED
  BY <1>1, <1>2, <1>4, <1>5, <1>6, <1>7, <1>8, <1>9, ProviderStepKeeps

LEMMA WithdrawKeeps ==
  ASSUME MakerInv, NEW a \in Providers, NEW shares \in 1..position[a].shares, Withdraw(a, shares)
  PROVE  MakerInv'
<1> DEFINE amount == (shares * TotalValue) \div vault.shares
<1>1. /\ position \in [Providers -> Positions] /\ position[a] \in Positions
      /\ vault \in Vaults /\ custody \in Nat
  BY TypesOf
<1>2. /\ shares \in Nat /\ shares <= position[a].shares /\ shares <= vault.shares
      /\ vault.shares \in Nat /\ vault.shares > 0
  <2>1. position[a].shares \in Nat /\ vault.shares \in Nat
    BY <1>1 DEF Positions, Vaults
  <2>2. QED
    BY <2>1, HeldBound DEF Withdraw
<1>3. amount \in Nat
  BY <1>2, TotalIsNat, ProductIsNat, Quotient
<1>4. /\ custody' = custody - amount /\ amount <= custody
      /\ position' = [position EXCEPT ![a].shares = @ - shares, ![a].withdrawn = @ + amount]
      /\ vault' = [vault EXCEPT !.shares = @ - shares]
      /\ UNCHANGED <<book, seat, market>>
  BY DEF Withdraw
<1> HIDE DEF amount
<1>5. position' \in [Providers -> Positions]
  <2> DEFINE row == [shares |-> position[a].shares - shares,
                     supplied |-> position[a].supplied,
                     withdrawn |-> position[a].withdrawn + amount]
  <2>1. position[a].shares - shares \in Nat /\ position[a].withdrawn + amount \in Nat
    BY <1>1, <1>2, <1>3 DEF Positions
  <2>2. row \in Positions
    BY <1>1, <2>1 DEF Positions
  <2>3. position[a] = [shares |-> position[a].shares, supplied |-> position[a].supplied,
                       withdrawn |-> position[a].withdrawn]
    BY <1>1 DEF Positions
  <2>4. position'[a] = row
    BY <1>1, <1>4, <2>3
  <2>5. position' = [position EXCEPT ![a] = position'[a]]
    BY <1>1, <1>4
  <2> HIDE DEF row
  <2>6. QED
    BY <1>1, <2>2, <2>4, <2>5
<1>6. \A b \in Providers : b # a => position'[b] = position[b]
  BY <1>1, <1>4
<1>7. /\ position'[a].shares = position[a].shares - shares
      /\ position'[a].supplied = position[a].supplied
      /\ position'[a].withdrawn = position[a].withdrawn + amount
  BY <1>1, <1>4 DEF Positions
<1>8. /\ position'[a].shares = position[a].shares + (-shares)
      /\ position'[a].supplied - position'[a].withdrawn
           = position[a].supplied - position[a].withdrawn + (-amount)
  BY <1>1, <1>2, <1>3, <1>7 DEF Positions
<1>9. vault' \in Vaults /\ vault'.shares = vault.shares + (-shares) /\ vault'.open = vault.open
  BY <1>1, <1>2, <1>4 DEF Vaults
<1>10. custody' \in Nat /\ custody' = custody + (-amount) /\ -amount \in Int /\ -shares \in Int
  BY <1>1, <1>2, <1>3, <1>4
<1>11. QED
  BY <1>4, <1>5, <1>6, <1>8, <1>9, <1>10, ProviderStepKeeps

-----------------------------------------------------------------------------
(* The maker and the cranks.                                               *)

\* One Window's record, its seat and custody move together; nobody's shares do.
LEMMA WindowStepKeeps ==
  ASSUME MakerInv, NEW w \in Windows, NEW r \in Int,
         custody' = custody + r, custody' \in Nat, UNCHANGED <<position, market>>,
         vault' \in Vaults, vault'.shares = vault.shares,
         book' \in [Windows -> Records], \A v \in Windows : v # w => book'[v] = book[v],
         NetOut(book'[w]) = NetOut(book[w]) - r,
         seat' \in [Windows -> Seats], \A v \in Windows : v # w => seat'[v] = seat[v]
  PROVE  TypeOK' /\ SharesAddUp' /\ EveryTokenIsAccounted'
<1>1. TypeOK'
  BY TypesOf, TypesAre
<1>2. SharesAddUp'
  BY SharesKept
<1>3. EveryTokenIsAccounted'
  BY ReturnIsAccounted
<1>4. QED
  BY <1>1, <1>2, <1>3

\* Of a step on one Window, what is left to show of the records is about that Window.
LEMMA WindowIsOver ==
  ASSUME MakerInv, NEW w \in Windows, market' = market,
         \A v \in Windows : v # w => book'[v] = book[v] /\ seat'[v] = seat[v],
         book'[w].settled => /\ book'[w].quotes > 0 /\ market[w] \in Over /\ seat'[w] = EmptySeat
  PROVE  SettledIsOver'
<1>1. SUFFICES ASSUME NEW v \in Windows, book'[v].settled
               PROVE  book'[v].quotes > 0 /\ market[v] \in Over /\ seat'[v] = EmptySeat
  BY DEF SettledIsOver
<1>2. CASE v = w
  BY <1>1, <1>2
<1>3. CASE v # w
  BY <1>1, <1>3 DEF MakerInv, SettledIsOver
<1>4. QED
  BY <1>2, <1>3

LEMMA UnsettledIsFinite ==
  IsFiniteSet(UnsettledWindows) /\ Cardinality(UnsettledWindows) \in Nat
<1>1. NumWindows \in Nat
  BY MakerAssumption
<1>2. IsFiniteSet(Windows)
  BY <1>1, FS_Interval DEF Windows
<1>3. UnsettledWindows \subseteq Windows
  BY DEF UnsettledWindows
<1>4. QED
  BY <1>2, <1>3, FS_Subset, FS_CardinalityType

LEMMA QuoteKeeps ==
  ASSUME MakerInv, NEW w \in Windows, NEW bid \in Prices, NEW ask \in Prices,
         NEW q \in 1..vault.params.maxLots, Quote(w, bid, ask, q)
  PROVE  MakerInv'
<1> DEFINE first == book[w].quotes = 0
           cost == q * (bid + PairTicks - ask)
           out == SatSub(cost, seat[w].credit)
<1>1. /\ book \in [Windows -> Records] /\ book[w] \in Records /\ vault \in Vaults /\ custody \in Nat
      /\ seat \in [Windows -> Seats] /\ seat[w] \in Seats
      /\ PairTicks \in Nat /\ bid \in Nat /\ ask \in Nat /\ PairTicks - ask \in Nat /\ q \in Nat
  <2>1. PairTicks \in Nat
    BY MakerAssumption
  <2>2. vault \in Vaults /\ vault.params \in Params
    BY TypesOf, MakerAssumption DEF Vaults
  <2>3. vault.params.maxLots \in Nat
    BY <2>2 DEF Params
  <2>4. QED
    BY <2>1, <2>2, <2>3, TypesOf DEF Prices
<1>2. seat[w].credit \in Nat
  BY <1>1 DEF Seats
<1>3. cost \in Nat
  <2>1. bid + PairTicks - ask \in Nat
    BY <1>1
  <2>2. QED
    BY <1>1, <2>1, ProductIsNat
<1>4. out \in Nat /\ SatSub(seat[w].credit, cost) \in Nat
  BY <1>2, <1>3, SatSubIsNat
<1>5. /\ market[w] = "trading" /\ out <= custody
      /\ custody' = custody - out
      /\ book' = [book EXCEPT ![w] = [book[w] EXCEPT !.out = @ + out, !.quotes = @ + 1]]
      /\ vault' = [vault EXCEPT !.deployed = vault.deployed + out, !.open = IF first THEN @ + 1 ELSE @]
      /\ seat' = [seat EXCEPT ![w].credit = SatSub(@, cost),
                              ![w].resting[<<"yes", bid>>] = @ + q,
                              ![w].resting[<<"no", ask>>] = @ + q]
      /\ UNCHANGED <<position, market>>
  BY DEF Quote, DeployedAfter
<1> HIDE DEF first, cost, out
<1>6. /\ book'[w].out = book[w].out + out /\ book'[w].quotes = book[w].quotes + 1
      /\ book'[w].back = book[w].back /\ book'[w].merged = book[w].merged
      /\ book'[w].payout = book[w].payout /\ book'[w].settled = book[w].settled
  BY <1>1, <1>5 DEF Records
<1>7. /\ book' \in [Windows -> Records] /\ NetOut(book'[w]) = NetOut(book[w]) - (-out)
      /\ \A v \in Windows : v # w => book'[v] = book[v]
  <2>1. book[w] = [out |-> book[w].out, back |-> book[w].back, merged |-> book[w].merged,
                   payout |-> book[w].payout, quotes |-> book[w].quotes, settled |-> book[w].settled]
    BY <1>1 DEF Records
  <2>2. book'[w] = [out |-> book[w].out + out, back |-> book[w].back, merged |-> book[w].merged,
                    payout |-> book[w].payout, quotes |-> book[w].quotes + 1,
                    settled |-> book[w].settled]
    BY <1>1, <1>5, <2>1
  <2>3. book[w].out + out \in Nat /\ book[w].quotes + 1 \in Nat
    BY <1>1, <1>4 DEF Records
  <2>4. book'[w] \in Records
    BY <1>1, <2>2, <2>3 DEF Records
  <2>5. book' = [book EXCEPT ![w] = book'[w]]
    BY <1>1, <1>5
  <2>6. NetOut(book'[w]) = NetOut(book[w]) - (-out)
    BY <1>1, <1>4, <1>6 DEF NetOut, Records
  <2>7. QED
    BY <1>1, <2>4, <2>5, <2>6
<1>8. /\ vault' \in Vaults /\ vault'.shares = vault.shares
      /\ vault'.open = IF first THEN vault.open + 1 ELSE vault.open
  <2>1. vault.deployed \in Nat /\ vault.open \in Nat
    BY <1>1 DEF Vaults
  <2>2. vault = [deployed |-> vault.deployed, shares |-> vault.shares, open |-> vault.open,
                 paused |-> vault.paused, params |-> vault.params]
    BY <1>1 DEF Vaults
  <2>3. vault' = [deployed |-> vault.deployed + out, shares |-> vault.shares,
                  open |-> IF first THEN vault.open + 1 ELSE vault.open,
                  paused |-> vault.paused, params |-> vault.params]
    BY <1>5, <2>2
  <2>4. /\ vault.deployed + out \in Nat
        /\ (IF first THEN vault.open + 1 ELSE vault.open) \in Nat
    BY <1>4, <2>1
  <2>5. QED
    BY <1>1, <2>3, <2>4 DEF Vaults
<1>9. /\ seat' \in [Windows -> Seats]
      /\ \A v \in Windows : v # w => seat'[v] = seat[v]
  <2>1. <<"yes", bid>> \in Legs /\ <<"no", ask>> \in Legs
    BY DEF Legs, Outcomes
  <2>2. seat[w].resting \in [Legs -> Nat]
    BY <1>1 DEF Seats
  <2> DEFINE resting == [[seat[w].resting EXCEPT ![<<"yes", bid>>] = @ + q]
                                          EXCEPT ![<<"no", ask>>] = @ + q]
  <2>3. resting \in [Legs -> Nat]
    BY <1>1, <2>1, <2>2
  <2>4. seat[w] = [credit |-> seat[w].credit, resting |-> seat[w].resting, lots |-> seat[w].lots]
    BY <1>1 DEF Seats
  <2>5. seat'[w] = [credit |-> SatSub(seat[w].credit, cost), resting |-> resting,
                    lots |-> seat[w].lots]
    BY <1>1, <1>5, <2>4
  <2>6. seat' = [seat EXCEPT ![w] = seat'[w]]
    BY <1>1, <1>5
  <2> HIDE DEF resting
  <2>7. seat'[w] \in Seats
    BY <1>1, <1>4, <2>3, <2>5 DEF Seats
  <2>8. QED
    BY <1>1, <2>6, <2>7
<1>10. custody' \in Nat /\ custody' = custody + (-out) /\ -out \in Int
  BY <1>1, <1>4, <1>5
<1>11. TypeOK' /\ SharesAddUp' /\ EveryTokenIsAccounted'
  BY <1>5, <1>7, <1>8, <1>9, <1>10, WindowStepKeeps
<1>12. ~book[w].settled
  <2>1. "trading" \notin Over
    BY DEF Over, Results, Outcomes
  <2>2. QED
    BY <1>5, <2>1 DEF MakerInv, SettledIsOver
<1>13. OpenWindowsAreCounted'
  <2>1. book[w].quotes \in Nat
    BY <1>1 DEF Records
  <2>2. CASE ~first
    <3>1. \A v \in Windows : /\ book'[v].quotes > 0 <=> book[v].quotes > 0
                             /\ book'[v].settled = book[v].settled
      BY <1>6, <1>7, <2>1, <2>2 DEF first
    <3>2. QED
      BY <1>8, <2>2, <3>1, CountKept
  <2>3. CASE first
    <3>1. UnsettledWindows' = UnsettledWindows \cup {w} /\ w \notin UnsettledWindows
      BY <1>6, <1>7, <1>12, <2>3 DEF UnsettledWindows, first
    <3>2. IsFiniteSet(UnsettledWindows)
      BY UnsettledIsFinite
    <3>3. Cardinality(UnsettledWindows') = Cardinality(UnsettledWindows) + 1
      BY <3>1, <3>2, FS_AddElement
    <3>4. QED
      BY <1>8, <2>3, <3>3 DEF MakerInv, OpenWindowsAreCounted
  <2>4. QED
    BY <2>2, <2>3
<1>14. SettledIsOver'
  BY <1>5, <1>6, <1>7, <1>9, <1>12, WindowIsOver
<1>15. QED
  BY <1>11, <1>13, <1>14 DEF MakerInv

LEMMA PullKeeps ==
  ASSUME MakerInv, NEW w \in Windows, NEW reached \in SUBSET OpenOrders(seat[w]), Pull(w, reached)
  PROVE  MakerInv'
<1> DEFINE resting == seat[w].resting
           freed == [leg \in Legs |-> IF leg \in reached THEN resting[leg] ELSE 0]
           kept == [leg \in Legs |-> IF leg \in reached THEN 0 ELSE resting[leg]]
           escrow == Escrow(freed)
           returned == seat[w].credit + escrow
<1>1. /\ book \in [Windows -> Records] /\ book[w] \in Records /\ vault \in Vaults /\ custody \in Nat
      /\ seat \in [Windows -> Seats] /\ seat[w] \in Seats
  BY TypesOf
<1>2. resting \in [Legs -> Nat] /\ seat[w].credit \in Nat
  BY <1>1 DEF Seats
<1>3. freed \in [Legs -> Nat] /\ kept \in [Legs -> Nat]
  BY <1>2
<1>4. escrow \in Nat
  <2> HIDE DEF freed
  <2>1. QED
    BY <1>3, EscrowIsNat
<1>5. returned \in Nat
  BY <1>2, <1>4
<1>6. /\ book[w].quotes > 0
      /\ custody' = custody + seat[w].credit + escrow
      /\ book' = [book EXCEPT ![w].back = @ + returned]
      /\ vault' = [vault EXCEPT !.deployed = SatSub(@, returned)]
      /\ seat' = [seat EXCEPT ![w].credit = 0, ![w].resting = kept]
      /\ UNCHANGED <<position, market>>
  BY DEF Pull, BookedReturn
<1>7. \A v \in Windows : v # w => book'[v] = book[v] /\ seat'[v] = seat[v]
  BY <1>1, <1>6
<1> HIDE DEF escrow
<1>8. custody' = custody + returned /\ custody' \in Nat /\ returned \in Int
  BY <1>1, <1>2, <1>4, <1>6
<1> HIDE DEF returned
<1>9. /\ book' \in [Windows -> Records] /\ NetOut(book'[w]) = NetOut(book[w]) - returned
      /\ book'[w].quotes = book[w].quotes /\ book'[w].settled = book[w].settled
  <2>1. book[w] = [out |-> book[w].out, back |-> book[w].back, merged |-> book[w].merged,
                   payout |-> book[w].payout, quotes |-> book[w].quotes, settled |-> book[w].settled]
    BY <1>1 DEF Records
  <2>2. book'[w] = [out |-> book[w].out, back |-> book[w].back + returned, merged |-> book[w].merged,
                    payout |-> book[w].payout, quotes |-> book[w].quotes, settled |-> book[w].settled]
    BY <1>1, <1>6, <2>1
  <2>3. book[w].back + returned \in Nat
    BY <1>1, <1>5 DEF Records
  <2>4. book'[w] \in Records
    BY <1>1, <2>2, <2>3 DEF Records
  <2>5. book' = [book EXCEPT ![w] = book'[w]]
    BY <1>1, <1>6
  <2>6. NetOut(book'[w]) = NetOut(book[w]) - returned
    BY <1>1, <1>5, <2>2 DEF NetOut, Records
  <2>7. QED
    BY <1>1, <2>2, <2>4, <2>5, <2>6
<1>10. vault' \in Vaults /\ vault'.shares = vault.shares /\ vault'.open = vault.open
  <2>1. SatSub(vault.deployed, returned) \in Nat
    BY <1>1, <1>5, SatSubIsNat DEF Vaults
  <2>2. QED
    BY <1>1, <1>6, <2>1 DEF Vaults
<1>11. /\ seat' \in [Windows -> Seats]
       /\ seat'[w] = [credit |-> 0, resting |-> kept, lots |-> seat[w].lots]
  <2> HIDE DEF kept
  <2>1. seat[w] = [credit |-> seat[w].credit, resting |-> seat[w].resting, lots |-> seat[w].lots]
    BY <1>1 DEF Seats
  <2>2. seat'[w] = [credit |-> 0, resting |-> kept, lots |-> seat[w].lots]
    BY <1>1, <1>6, <2>1
  <2>3. seat' = [seat EXCEPT ![w] = seat'[w]]
    BY <1>1, <1>6
  <2>4. seat'[w] \in Seats
    BY <1>1, <1>3, <2>2 DEF Seats
  <2>5. QED
    BY <1>1, <2>2, <2>3, <2>4
<1>12. TypeOK' /\ SharesAddUp' /\ EveryTokenIsAccounted'
  BY <1>6, <1>7, <1>8, <1>9, <1>10, <1>11, WindowStepKeeps
<1>13. OpenWindowsAreCounted'
  <2>1. \A v \in Windows : /\ book'[v].quotes > 0 <=> book[v].quotes > 0
                           /\ book'[v].settled = book[v].settled
    BY <1>7, <1>9
  <2>2. QED
    BY <1>10, <2>1, CountKept
<1>14. SettledIsOver'
  <2>1. ASSUME book[w].settled PROVE market[w] \in Over /\ seat'[w] = EmptySeat
    <3>1. market[w] \in Over /\ seat[w] = EmptySeat
      BY <2>1 DEF MakerInv, SettledIsOver
    <3>2. \A leg \in Legs : resting[leg] = 0
      BY <3>1 DEF EmptySeat, NoOrders
    <3>3. kept = NoOrders
      BY <3>2 DEF NoOrders
    <3> HIDE DEF kept
    <3>4. QED
      BY <1>11, <3>1, <3>3 DEF EmptySeat
  <2>2. QED
    BY <1>6, <1>7, <1>9, <2>1, WindowIsOver
<1>15. QED
  BY <1>12, <1>13, <1>14 DEF MakerInv

LEMMA MergeKeeps ==
  ASSUME MakerInv, NEW w \in Windows, NEW q \in 1..seat[w].lots["yes"], Merge(w, q)
  PROVE  MakerInv'
<1> DEFINE returned == seat[w].credit + q * PairTicks
           left == [x \in Outcomes |-> seat[w].lots[x] - q]
<1>1. /\ book \in [Windows -> Records] /\ book[w] \in Records /\ vault \in Vaults /\ custody \in Nat
      /\ seat \in [Windows -> Seats] /\ seat[w] \in Seats
  BY TypesOf
<1>2. seat[w].lots \in [Outcomes -> Nat] /\ seat[w].credit \in Nat
  BY <1>1 DEF Seats
<1>3. q \in Nat /\ PairTicks \in Nat
  <2>1. seat[w].lots["yes"] \in Nat
    BY <1>2 DEF Outcomes
  <2>2. QED
    BY <2>1, MakerAssumption
<1>4. returned \in Nat
  <2>1. q * PairTicks \in Nat
    BY <1>3, ProductIsNat
  <2>2. QED
    BY <1>2, <2>1
<1>5. /\ ~book[w].settled
      /\ \A x \in Outcomes : seat[w].lots[x] >= q
      /\ custody' = custody + returned
      /\ book' = [book EXCEPT ![w].merged = @ + returned]
      /\ vault' = [vault EXCEPT !.deployed = SatSub(@, returned)]
      /\ seat' = [seat EXCEPT ![w].credit = 0, ![w].lots = left]
      /\ UNCHANGED <<position, market>>
  BY DEF Merge
<1>6. left \in [Outcomes -> Nat]
  <2>1. ASSUME NEW x \in Outcomes PROVE seat[w].lots[x] - q \in Nat
    <3>1. seat[w].lots[x] \in Nat /\ seat[w].lots[x] >= q
      BY <1>2, <1>5
    <3>2. QED
      BY <1>3, <3>1
  <2>2. QED
    BY <2>1
<1>7. \A v \in Windows : v # w => book'[v] = book[v] /\ seat'[v] = seat[v]
  BY <1>1, <1>5
<1> HIDE DEF returned, left
<1>8. custody' \in Nat /\ returned \in Int
  BY <1>1, <1>4, <1>5
<1>9. /\ book' \in [Windows -> Records] /\ NetOut(book'[w]) = NetOut(book[w]) - returned
      /\ book'[w].quotes = book[w].quotes /\ book'[w].settled = book[w].settled
  <2>1. book[w] = [out |-> book[w].out, back |-> book[w].back, merged |-> book[w].merged,
                   payout |-> book[w].payout, quotes |-> book[w].quotes, settled |-> book[w].settled]
    BY <1>1 DEF Records
  <2>2. book'[w] = [out |-> book[w].out, back |-> book[w].back, merged |-> book[w].merged + returned,
                    payout |-> book[w].payout, quotes |-> book[w].quotes, settled |-> book[w].settled]
    BY <1>1, <1>5, <2>1
  <2>3. book[w].merged + returned \in Nat
    BY <1>1, <1>4 DEF Records
  <2>4. book'[w] \in Records
    BY <1>1, <2>2, <2>3 DEF Records
  <2>5. book' = [book EXCEPT ![w] = book'[w]]
    BY <1>1, <1>5
  <2>6. NetOut(book'[w]) = NetOut(book[w]) - returned
    BY <1>1, <1>4, <2>2 DEF NetOut, Records
  <2>7. QED
    BY <1>1, <2>2, <2>4, <2>5, <2>6
<1>10. vault' \in Vaults /\ vault'.shares = vault.shares /\ vault'.open = vault.open
  <2>1. SatSub(vault.deployed, returned) \in Nat
    BY <1>1, <1>4, SatSubIsNat DEF Vaults
  <2>2. QED
    BY <1>1, <1>5, <2>1 DEF Vaults
<1>11. seat' \in [Windows -> Seats]
  <2>1. seat[w] = [credit |-> seat[w].credit, resting |-> seat[w].resting, lots |-> seat[w].lots]
    BY <1>1 DEF Seats
  <2>2. seat'[w] = [credit |-> 0, resting |-> seat[w].resting, lots |-> left]
    BY <1>1, <1>5, <2>1
  <2>3. seat' = [seat EXCEPT ![w] = seat'[w]]
    BY <1>1, <1>5
  <2>4. seat'[w] \in Seats
    BY <1>1, <1>6, <2>2 DEF Seats
  <2>5. QED
    BY <1>1, <2>3, <2>4
<1>12. TypeOK' /\ SharesAddUp' /\ EveryTokenIsAccounted'
  BY <1>5, <1>7, <1>8, <1>9, <1>10, <1>11, WindowStepKeeps
<1>13. OpenWindowsAreCounted'
  <2>1. \A v \in Windows : /\ book'[v].quotes > 0 <=> book[v].quotes > 0
                           /\ book'[v].settled = book[v].settled
    BY <1>7, <1>9
  <2>2. QED
    BY <1>10, <2>1, CountKept
<1>14. SettledIsOver'
  BY <1>5, <1>7, <1>9, WindowIsOver
<1>15. QED
  BY <1>12, <1>13, <1>14 DEF MakerInv

LEMMA SettledRecord ==
  ASSUME NEW r \in Records, NEW more, r.payout + more \in Nat
  PROVE  [r EXCEPT !.payout = @ + more, !.settled = TRUE] \in Records
<1> DEFINE paid == [r EXCEPT !.payout = @ + more]
<1>1. paid \in Records
  BY DEF Records
<1>2. [r EXCEPT !.payout = @ + more, !.settled = TRUE] = [paid EXCEPT !.settled = TRUE]
  BY DEF Records
<1> HIDE DEF paid
<1>3. [paid EXCEPT !.settled = TRUE] \in Records
  BY <1>1 DEF Records
<1>4. QED
  BY <1>2, <1>3

LEMMA SettleKeeps ==
  ASSUME MakerInv, NEW w \in Windows, Settle(w)
  PROVE  MakerInv'
<1> DEFINE s == seat[w]
           returned == s.credit + s.lots["yes"] * LotPays("yes", market[w])
                                + s.lots["no"] * LotPays("no", market[w])
           record == [book[w] EXCEPT !.payout = @ + returned, !.settled = TRUE]
           deployed == SatSub(SatSub(vault.deployed, returned), DeployedBase(record))
<1>1. /\ book \in [Windows -> Records] /\ book[w] \in Records /\ vault \in Vaults /\ custody \in Nat
      /\ seat \in [Windows -> Seats] /\ seat[w] \in Seats
  BY TypesOf
<1>2. returned \in Nat
  <2>1. PairTicks \in Nat /\ PairTicks \div 2 \in Nat
    BY MakerAssumption
  <2>2. LotPays("yes", market[w]) \in Nat /\ LotPays("no", market[w]) \in Nat
    BY <2>1 DEF LotPays
  <2>3. s.credit \in Nat /\ s.lots["yes"] \in Nat /\ s.lots["no"] \in Nat
    BY <1>1 DEF Seats, Outcomes
  <2>4. s.lots["yes"] * LotPays("yes", market[w]) \in Nat /\ s.lots["no"] * LotPays("no", market[w]) \in Nat
    BY <2>2, <2>3, ProductIsNat
  <2>5. QED
    BY <2>3, <2>4
<1>3. /\ book[w].quotes > 0 /\ ~book[w].settled
      /\ market[w] \in Results
      /\ OpenOrders(s) = {}
      /\ custody' = custody + returned
      /\ book' = [book EXCEPT ![w] = record]
      /\ vault' = [vault EXCEPT !.deployed = deployed, !.open = SatSub(@, 1)]
      /\ seat' = [seat EXCEPT ![w].credit = 0, ![w].lots = EmptySeat.lots]
      /\ UNCHANGED <<position, market>>
  BY DEF Settle, NotYetSettled, IsSettled, RestsNothing
<1> HIDE DEF returned, deployed
<1>4. \A v \in Windows : v # w => book'[v] = book[v] /\ seat'[v] = seat[v]
  BY <1>1, <1>3
<1>5. custody' \in Nat /\ returned \in Int
  BY <1>1, <1>2, <1>3
<1>6. /\ book' \in [Windows -> Records] /\ NetOut(book'[w]) = NetOut(book[w]) - returned
      /\ book'[w].quotes = book[w].quotes /\ book'[w].settled /\ record \in Records
  <2>1. book[w].payout + returned \in Nat
    BY <1>1, <1>2 DEF Records
  <2>2. /\ record.out = book[w].out /\ record.back = book[w].back /\ record.merged = book[w].merged
        /\ record.payout = book[w].payout + returned /\ record.quotes = book[w].quotes
    BY <1>1 DEF Records
  <2>3. record.settled
    BY <1>1 DEF Records
  <2>4. record \in Records
    BY <1>1, <2>1, SettledRecord
  <2>5. book'[w] = record /\ book' = [book EXCEPT ![w] = record]
    BY <1>1, <1>3
  <2> HIDE DEF record
  <2>6. NetOut(book'[w]) = NetOut(book[w]) - returned
    BY <1>1, <1>2, <2>2, <2>5 DEF NetOut, Records
  <2>7. QED
    BY <1>1, <2>2, <2>3, <2>4, <2>5, <2>6
<1> HIDE DEF record
<1>7. vault' \in Vaults /\ vault'.shares = vault.shares /\ vault'.open = SatSub(vault.open, 1)
  <2>1. deployed \in Nat /\ SatSub(vault.open, 1) \in Nat
    <3>1. vault.deployed \in Nat /\ vault.open \in Nat
      BY <1>1 DEF Vaults
    <3>2. DeployedBase(record) \in Nat
      <4>1. record.out \in Nat /\ record.back \in Nat /\ record.merged \in Nat /\ record.payout \in Nat
        BY <1>6 DEF Records
      <4>2. QED
        BY <4>1, SatSubIsNat DEF DeployedBase
    <3>3. QED
      BY <1>2, <3>1, <3>2, SatSubIsNat DEF deployed
  <2>2. vault = [deployed |-> vault.deployed, shares |-> vault.shares, open |-> vault.open,
                 paused |-> vault.paused, params |-> vault.params]
    BY <1>1 DEF Vaults
  <2>3. vault' = [deployed |-> deployed, shares |-> vault.shares, open |-> SatSub(vault.open, 1),
                  paused |-> vault.paused, params |-> vault.params]
    BY <1>3, <2>2
  <2>4. QED
    BY <1>1, <2>1, <2>3 DEF Vaults
<1>8. seat' \in [Windows -> Seats] /\ seat'[w] = EmptySeat
  <2>1. seat[w] = [credit |-> seat[w].credit, resting |-> seat[w].resting, lots |-> seat[w].lots]
    BY <1>1 DEF Seats
  <2>2. seat'[w] = [credit |-> 0, resting |-> seat[w].resting, lots |-> EmptySeat.lots]
    BY <1>1, <1>3, <2>1
  <2>3. seat' = [seat EXCEPT ![w] = seat'[w]]
    BY <1>1, <1>3
  <2>4. seat[w].resting \in [Legs -> Nat] /\ \A leg \in Legs : ~ (seat[w].resting[leg] > 0)
    BY <1>1, <1>3 DEF Seats, OpenOrders
  <2>5. seat[w].resting = NoOrders
    BY <2>4 DEF NoOrders
  <2>6. EmptySeat.lots \in [Outcomes -> Nat]
    BY DEF EmptySeat
  <2>7. seat'[w] \in Seats
    BY <2>2, <2>4, <2>6 DEF Seats
  <2>8. QED
    BY <1>1, <2>2, <2>3, <2>5, <2>7 DEF EmptySeat
<1>9. TypeOK' /\ SharesAddUp' /\ EveryTokenIsAccounted'
  BY <1>3, <1>4, <1>5, <1>6, <1>7, <1>8, WindowStepKeeps
<1>10. OpenWindowsAreCounted'
  <2>1. UnsettledWindows' = UnsettledWindows \ {w} /\ w \in UnsettledWindows
    BY <1>3, <1>4, <1>6 DEF UnsettledWindows
  <2>2. Cardinality(UnsettledWindows') = Cardinality(UnsettledWindows) - 1
    BY <2>1, UnsettledIsFinite, FS_RemoveElement
  <2>3. Cardinality(UnsettledWindows) # 0
    BY <2>1, UnsettledIsFinite, FS_EmptySet
  <2>4. vault.open = Cardinality(UnsettledWindows) /\ vault.open \in Nat
    BY UnsettledIsFinite DEF MakerInv, OpenWindowsAreCounted
  <2>5. vault'.open = vault.open - 1
    BY <1>7, <2>3, <2>4 DEF SatSub
  <2>6. QED
    BY <2>2, <2>4, <2>5 DEF OpenWindowsAreCounted
<1>11. SettledIsOver'
  BY <1>3, <1>4, <1>6, <1>8, WindowIsOver DEF Over
<1>12. QED
  BY <1>9, <1>10, <1>11 DEF MakerInv

LEMMA SetParamsKeeps ==
  ASSUME MakerInv, NEW p \in ParamSets, NEW paused \in BOOLEAN, SetParams(p, paused)
  PROVE  MakerInv'
<1>1. vault' = [vault EXCEPT !.params = p, !.paused = paused]
      /\ UNCHANGED <<custody, position, book, seat, market>>
  BY DEF SetParams
<1>2. vault \in Vaults
  BY TypesOf
<1>3. vault' \in Vaults
  BY <1>1, <1>2 DEF Vaults
<1>4. vault'.shares = vault.shares /\ vault'.open = vault.open
  BY <1>1, <1>2 DEF Vaults
<1>5. TypeOK'
  BY <1>1, <1>3, TypesOf, TypesAre
<1>6. SharesAddUp' /\ EveryTokenIsAccounted' /\ OpenWindowsAreCounted' /\ SettledIsOver'
  BY <1>1, <1>4, SharesKept, TokensKept, CountKept, OverKept
<1>7. QED
  BY <1>5, <1>6 DEF MakerInv

-----------------------------------------------------------------------------
(* The venue around the seat.                                              *)

LEMMA NothingRestsOnceSettled ==
  ASSUME MakerInv, NEW w \in Windows, NEW leg \in Legs, seat[w].resting[leg] # 0
  PROVE  ~book[w].settled
BY DEF MakerInv, SettledIsOver, EmptySeat, NoOrders

LEMMA FillKeeps ==
  ASSUME MakerInv, NEW w \in Windows, NEW leg \in Legs, NEW q \in 1..seat[w].resting[leg], Fill(w, leg, q)
  PROVE  MakerInv'
<1>1. /\ seat' = [seat EXCEPT ![w].resting[leg] = @ - q, ![w].lots[leg[1]] = @ + q]
      /\ UNCHANGED <<custody, vault, position, book, market>>
  BY DEF Fill
<1>2. seat \in [Windows -> Seats] /\ seat[w] \in Seats
  BY TypesOf
<1>3. seat[w].resting \in [Legs -> Nat] /\ seat[w].lots \in [Outcomes -> Nat] /\ leg[1] \in Outcomes
  BY <1>2 DEF Seats, Legs
<1>4. seat[w].resting[leg] \in Nat
  BY <1>3
<1>5. q \in Nat /\ seat[w].resting[leg] # 0 /\ seat[w].resting[leg] - q \in Nat
  BY <1>4
<1> DEFINE resting == [seat[w].resting EXCEPT ![leg] = @ - q]
           lots == [seat[w].lots EXCEPT ![leg[1]] = @ + q]
<1>6. resting \in [Legs -> Nat] /\ lots \in [Outcomes -> Nat]
  BY <1>3, <1>5
<1>7. seat[w] = [credit |-> seat[w].credit, resting |-> seat[w].resting, lots |-> seat[w].lots]
  BY <1>2 DEF Seats
<1>8. seat'[w] = [credit |-> seat[w].credit, resting |-> resting, lots |-> lots]
  BY <1>1, <1>2, <1>7
<1>9. seat' = [seat EXCEPT ![w] = seat'[w]]
  BY <1>1, <1>2
<1> HIDE DEF resting, lots
<1>10. seat'[w] \in Seats
  BY <1>2, <1>6, <1>8 DEF Seats
<1>11. seat' \in [Windows -> Seats] /\ \A v \in Windows : v # w => seat'[v] = seat[v]
  BY <1>2, <1>9, <1>10
<1>12. ~book[w].settled
  BY <1>5, NothingRestsOnceSettled
<1>13. market' \in [Windows -> Phases] /\ market' = market
  BY <1>1, TypesOf
<1>14. QED
  BY <1>1, <1>11, <1>12, <1>13, SeatStepKeeps

LEMMA ReleaseKeeps ==
  ASSUME MakerInv, NEW w \in Windows, NEW leg \in Legs, NEW q \in 1..seat[w].resting[leg],
         Release(w, leg, q)
  PROVE  MakerInv'
<1>1. /\ seat' = [seat EXCEPT ![w].resting[leg] = @ - q, ![w].credit = @ + q * OwnTicks(leg)]
      /\ UNCHANGED <<custody, vault, position, book, market>>
  BY DEF Release
<1>2. seat \in [Windows -> Seats] /\ seat[w] \in Seats
  BY TypesOf
<1>3. seat[w].resting \in [Legs -> Nat] /\ seat[w].credit \in Nat
  BY <1>2 DEF Seats
<1>4. seat[w].resting[leg] \in Nat
  BY <1>3
<1>5. q \in Nat /\ seat[w].resting[leg] # 0 /\ seat[w].resting[leg] - q \in Nat
  BY <1>4
<1>6. OwnTicks(leg) \in Nat
  <2>1. PairTicks \in Nat /\ leg[2] \in 1..(PairTicks - 1)
    BY MakerAssumption DEF Legs, Prices
  <2>2. QED
    BY <2>1 DEF OwnTicks
<1> DEFINE resting == [seat[w].resting EXCEPT ![leg] = @ - q]
           credit == seat[w].credit + q * OwnTicks(leg)
<1>7. resting \in [Legs -> Nat]
  BY <1>3, <1>5
<1>8. credit \in Nat
  <2>1. q * OwnTicks(leg) \in Nat
    BY <1>5, <1>6, ProductIsNat
  <2>2. QED
    BY <1>3, <2>1
<1>9. seat[w] = [credit |-> seat[w].credit, resting |-> seat[w].resting, lots |-> seat[w].lots]
  BY <1>2 DEF Seats
<1>10. seat'[w] = [credit |-> credit, resting |-> resting, lots |-> seat[w].lots]
  BY <1>1, <1>2, <1>9
<1>11. seat' = [seat EXCEPT ![w] = seat'[w]]
  BY <1>1, <1>2
<1> HIDE DEF resting, credit
<1>12. seat'[w] \in Seats
  BY <1>2, <1>7, <1>8, <1>10 DEF Seats
<1>13. seat' \in [Windows -> Seats] /\ \A v \in Windows : v # w => seat'[v] = seat[v]
  BY <1>2, <1>11, <1>12
<1>14. ~book[w].settled
  BY <1>5, NothingRestsOnceSettled
<1>15. market' \in [Windows -> Phases] /\ market' = market
  BY <1>1, TypesOf
<1>16. QED
  BY <1>1, <1>13, <1>14, <1>15, SeatStepKeeps

\* The Window's clock and its verdict: neither touches a Window that is over.
LEMMA PhaseStepKeeps ==
  ASSUME MakerInv, NEW w \in Windows, NEW phase \in Phases, market[w] \notin Over,
         market' = [market EXCEPT ![w] = phase],
         UNCHANGED <<custody, vault, position, book, seat>>
  PROVE  MakerInv'
<1>1. market \in [Windows -> Phases] /\ seat' \in [Windows -> Seats]
  BY TypesOf
<1>2. ~book[w].settled
  BY DEF MakerInv, SettledIsOver
<1>3. market' \in [Windows -> Phases]
  BY <1>1
<1>4. \A v \in Windows : v # w => seat'[v] = seat[v] /\ market'[v] = market[v]
  BY <1>1
<1>5. QED
  BY <1>1, <1>2, <1>3, <1>4, SeatStepKeeps

LEMMA LockKeeps ==
  ASSUME MakerInv, NEW w \in Windows, Lock(w)
  PROVE  MakerInv'
<1>1. "locked" \in Phases /\ "trading" \notin Over
  BY DEF Phases, Over, Results, Outcomes
<1>2. QED
  BY <1>1, PhaseStepKeeps DEF Lock

LEMMA ResolveKeeps ==
  ASSUME MakerInv, NEW w \in Windows, NEW r \in Results, Resolve(w, r)
  PROVE  MakerInv'
<1>1. r \in Phases /\ "trading" \notin Over /\ "locked" \notin Over
  BY DEF Phases, Over, Results, Outcomes
<1>2. QED
  BY <1>1, PhaseStepKeeps DEF Resolve

LEMMA CloseLedgerKeeps ==
  ASSUME MakerInv, NEW w \in Windows, CloseLedger(w)
  PROVE  MakerInv'
<1>1. /\ market[w] \in Results
      /\ market' = [market EXCEPT ![w] = "closed"]
      /\ UNCHANGED <<custody, vault, position, book, seat>>
  BY DEF CloseLedger
<1>2. market \in [Windows -> Phases] /\ "closed" \in Phases
  BY TypesOf DEF Phases
<1>3. market' \in [Windows -> Phases]
  BY <1>1, <1>2
<1>4. TypeOK'
  BY <1>1, <1>3, TypesOf, TypesAre
<1>5. SharesAddUp' /\ EveryTokenIsAccounted' /\ OpenWindowsAreCounted'
  BY <1>1, SharesKept, TokensKept, CountKept
<1>6. SettledIsOver'
  <2>1. \A v \in Windows : market[v] \in Over => market'[v] \in Over
    BY <1>1, <1>2 DEF Over
  <2>2. QED
    BY <1>1, <2>1 DEF MakerInv, SettledIsOver
<1>7. QED
  BY <1>4, <1>5, <1>6 DEF MakerInv

-----------------------------------------------------------------------------
(* The invariant.                                                          *)

LEMMA InitHolds == Init => MakerInv
<1> SUFFICES ASSUME Init PROVE MakerInv
  OBVIOUS
<1>1. NumWindows \in Nat /\ NumProviders \in Nat
  BY MakerAssumption
<1>2. PICK p \in ParamSets :
        vault = [deployed |-> 0, shares |-> 0, open |-> 0, paused |-> FALSE, params |-> p]
  BY DEF Init
<1>3. /\ custody = 0
      /\ position = [a \in Providers |-> [shares |-> 0, supplied |-> 0, withdrawn |-> 0]]
      /\ book = [w \in Windows |-> [out |-> 0, back |-> 0, merged |-> 0, payout |-> 0,
                                    quotes |-> 0, settled |-> FALSE]]
      /\ seat = [w \in Windows |-> EmptySeat]
      /\ market = [w \in Windows |-> "trading"]
  BY DEF Init
<1>4. TypeOK
  <2>1. vault \in Vaults
    BY <1>2 DEF Vaults
  <2>2. position \in [Providers -> Positions]
    BY <1>3 DEF Positions
  <2>3. book \in [Windows -> Records]
    BY <1>3 DEF Records
  <2>4. seat \in [Windows -> Seats]
    BY <1>3 DEF Seats, EmptySeat, NoOrders
  <2>5. market \in [Windows -> Phases]
    BY <1>3 DEF Phases
  <2>6. QED
    BY <1>3, <2>1, <2>2, <2>3, <2>4, <2>5 DEF TypeOK, Vaults, Positions, Records, Seats
<1>5. SharesAddUp
  <2>1. \A i \in 1..NumProviders : Held[i] = 0
    BY <1>3 DEF Held, Providers
  <2>2. Sum(Held, NumProviders) = 0
    BY <1>1, <2>1, SumZeros
  <2>3. QED
    BY <1>2, <2>2 DEF SharesAddUp
<1>6. EveryTokenIsAccounted
  <2>1. \A i \in 1..NumProviders : BroughtIn[i] = 0
    BY <1>3 DEF BroughtIn, Providers
  <2>2. \A i \in 1..NumWindows : StillOut[i] = 0
    BY <1>3 DEF StillOut, Windows
  <2>3. Sum(BroughtIn, NumProviders) = 0 /\ Sum(StillOut, NumWindows) = 0
    BY <1>1, <2>1, <2>2, SumZeros
  <2>4. QED
    BY <1>3, <2>3 DEF EveryTokenIsAccounted
<1>7. OpenWindowsAreCounted
  <2>1. UnsettledWindows = {}
    BY <1>3 DEF UnsettledWindows
  <2>2. QED
    BY <1>2, <2>1, FS_EmptySet DEF OpenWindowsAreCounted
<1>8. SettledIsOver
  BY <1>3 DEF SettledIsOver
<1>9. QED
  BY <1>4, <1>5, <1>6, <1>7, <1>8 DEF MakerInv

LEMMA NextKeeps ==
  ASSUME MakerInv, [Next]_vars
  PROVE  MakerInv'
<1>1. CASE UNCHANGED vars
  BY <1>1 DEF vars, MakerInv, TypeOK, SharesAddUp, Held, EveryTokenIsAccounted, BroughtIn, StillOut,
              OpenWindowsAreCounted, UnsettledWindows, SettledIsOver
<1>2. CASE ProviderStep
  <2>1. PICK a \in Providers : \/ \E amount \in Amounts : Supply(a, amount)
                               \/ \E shares \in 1..position[a].shares : Withdraw(a, shares)
    BY <1>2 DEF ProviderStep
  <2>2. QED
    BY <2>1, SupplyKeeps, WithdrawKeeps
<1>3. CASE VaultStep
  <2>1. PICK w \in Windows :
          \/ \E bid, ask \in Prices, q \in 1..vault.params.maxLots : Quote(w, bid, ask, q)
          \/ \E reached \in SUBSET OpenOrders(seat[w]) : Pull(w, reached)
          \/ \E q \in 1..seat[w].lots["yes"] : Merge(w, q)
          \/ Settle(w)
    BY <1>3 DEF VaultStep
  <2>2. QED
    BY <2>1, QuoteKeeps, PullKeeps, MergeKeeps, SettleKeeps
<1>4. CASE VenueStep
  <2>1. PICK w \in Windows :
          \/ \E leg \in Legs : \E q \in 1..seat[w].resting[leg] : Fill(w, leg, q) \/ Release(w, leg, q)
          \/ Lock(w)
          \/ \E r \in Results : Resolve(w, r)
          \/ CloseLedger(w)
    BY <1>4 DEF VenueStep
  <2>2. QED
    BY <2>1, FillKeeps, ReleaseKeeps, LockKeeps, ResolveKeeps, CloseLedgerKeeps
<1>5. CASE AdminStep
  BY <1>5, SetParamsKeeps DEF AdminStep
<1>6. QED
  BY <1>1, <1>2, <1>3, <1>4, <1>5 DEF Next

\* The inductive invariant: accounts typed, shares summing to what the vault issued, tokens and open
\* Windows counted, and settled records over.
THEOREM MakerInvariant == Spec => []MakerInv
<1>1. MakerInv /\ [Next]_vars => MakerInv'
  BY NextKeeps
<1>2. QED
  BY InitHolds, <1>1, PTL DEF Spec

\* Every account of the vault keeps its shape: no floored or unfloored subtraction of any instruction
\* takes a balance, a share count or a counter below zero.
THEOREM MakerTypeOKHolds == Spec => []TypeOK
<1>1. MakerInv => TypeOK
  BY DEF MakerInv
<1>2. QED
  BY <1>1, MakerInvariant, PTL

\* Custody and the Window records agree to the unit, for any number of Windows and any mix of quotes,
\* pulls, merges and settlements.
THEOREM EveryTokenIsAccountedHolds == Spec => []EveryTokenIsAccounted
<1>1. MakerInv => EveryTokenIsAccounted
  BY DEF MakerInv
<1>2. QED
  BY <1>1, MakerInvariant, PTL

\* open_windows counts the unsettled records: no order of quotes and settlements frees a slot twice.
THEOREM OpenWindowsAreCountedHolds == Spec => []OpenWindowsAreCounted
<1>1. MakerInv => OpenWindowsAreCounted
  BY DEF MakerInv
<1>2. QED
  BY <1>1, MakerInvariant, PTL

\* A settled Window has nothing of the vault's left, and nothing comes back onto it.
THEOREM SettledWindowIsEmptyHolds == Spec => []SettledWindowIsEmpty
<1>1. MakerInv => SettledWindowIsEmpty
  BY DEF MakerInv, SettledIsOver, SettledWindowIsEmpty
<1>2. QED
  BY <1>1, MakerInvariant, PTL

-----------------------------------------------------------------------------
(* Action properties.                                                      *)

LEMMA QuoteKeepsTheClaim ==
  ASSUME MakerInv, NEW w \in Windows, NEW bid \in Prices, NEW ask \in Prices,
         NEW q \in 1..vault.params.maxLots, Quote(w, bid, ask, q)
  PROVE  TotalValue' = TotalValue /\ vault'.shares = vault.shares
<1> DEFINE cost == q * (bid + PairTicks - ask)
           out == SatSub(cost, seat[w].credit)
<1>1. /\ vault \in Vaults /\ custody \in Nat /\ seat[w] \in Seats
      /\ PairTicks \in Nat /\ bid \in Nat /\ PairTicks - ask \in Nat /\ q \in Nat
  <2>1. PairTicks \in Nat
    BY MakerAssumption
  <2>2. vault \in Vaults /\ vault.params \in Params
    BY TypesOf, MakerAssumption DEF Vaults
  <2>3. vault.params.maxLots \in Nat
    BY <2>2 DEF Params
  <2>4. QED
    BY <2>1, <2>2, <2>3, TypesOf DEF Prices
<1>2. out \in Nat
  <2>1. bid + PairTicks - ask \in Nat
    BY <1>1 DEF Prices
  <2>2. cost \in Nat
    BY <1>1, <2>1, ProductIsNat
  <2>3. seat[w].credit \in Nat
    BY <1>1 DEF Seats
  <2>4. QED
    BY <2>2, <2>3, SatSubIsNat
<1>3. /\ custody' = custody - out
      /\ vault' = [vault EXCEPT !.deployed = vault.deployed + out,
                                !.open = IF book[w].quotes = 0 THEN @ + 1 ELSE @]
  BY DEF Quote, DeployedAfter
<1> HIDE DEF cost, out
<1>4. vault'.deployed = vault.deployed + out /\ vault'.shares = vault.shares
  BY <1>1, <1>3 DEF Vaults
<1>5. vault.deployed \in Nat
  BY <1>1 DEF Vaults
<1>6. QED
  BY <1>1, <1>2, <1>3, <1>4, <1>5 DEF TotalValue

\* The other steps of the vault on a Window leave its quotes and the shares alone.
LEMMA VaultStepFrame ==
  ASSUME MakerInv, NEW w \in Windows,
         \/ \E reached \in SUBSET OpenOrders(seat[w]) : Pull(w, reached)
         \/ \E q \in 1..seat[w].lots["yes"] : Merge(w, q)
         \/ Settle(w)
  PROVE  (\A v \in Windows : book'[v].quotes = book[v].quotes) /\ vault'.shares = vault.shares
<1>1. book \in [Windows -> Records] /\ vault \in Vaults
  BY TypesOf
<1>2. ASSUME NEW reached \in SUBSET OpenOrders(seat[w]), Pull(w, reached)
      PROVE  (\A v \in Windows : book'[v].quotes = book[v].quotes) /\ vault'.shares = vault.shares
  <2>1. \E r, d : book' = [book EXCEPT ![w].back = r] /\ vault' = [vault EXCEPT !.deployed = d]
    BY <1>2 DEF Pull
  <2>2. QED
    BY <1>1, <2>1 DEF Records, Vaults
<1>3. ASSUME NEW q \in 1..seat[w].lots["yes"], Merge(w, q)
      PROVE  (\A v \in Windows : book'[v].quotes = book[v].quotes) /\ vault'.shares = vault.shares
  <2>1. \E r, d : book' = [book EXCEPT ![w].merged = r] /\ vault' = [vault EXCEPT !.deployed = d]
    BY <1>3 DEF Merge
  <2>2. QED
    BY <1>1, <2>1 DEF Records, Vaults
<1>4. ASSUME Settle(w)
      PROVE  (\A v \in Windows : book'[v].quotes = book[v].quotes) /\ vault'.shares = vault.shares
  <2>1. \E r, d, n : /\ book' = [book EXCEPT ![w] = [book[w] EXCEPT !.payout = r, !.settled = TRUE]]
                     /\ vault' = [vault EXCEPT !.deployed = d, !.open = n]
    BY <1>4 DEF Settle
  <2>2. QED
    BY <1>1, <2>1 DEF Records, Vaults
<1>5. QED
  BY <1>2, <1>3, <1>4

\* What the rest of the world does leaves both alone too.
LEMMA OutsideFrame ==
  ASSUME MakerInv, VenueStep \/ AdminStep \/ UNCHANGED vars
  PROVE  book' = book /\ vault'.shares = vault.shares
<1>1. vault \in Vaults
  BY TypesOf
<1>2. CASE VenueStep
  <2>1. PICK w \in Windows :
          \/ \E leg \in Legs : \E q \in 1..seat[w].resting[leg] : Fill(w, leg, q) \/ Release(w, leg, q)
          \/ Lock(w)
          \/ \E r \in Results : Resolve(w, r)
          \/ CloseLedger(w)
    BY <1>2 DEF VenueStep
  <2>2. ASSUME NEW leg, NEW q, Fill(w, leg, q) \/ Release(w, leg, q)
        PROVE  UNCHANGED <<book, vault>>
    BY <2>2 DEF Fill, Release
  <2>3. ASSUME NEW r, Lock(w) \/ Resolve(w, r) \/ CloseLedger(w)
        PROVE  UNCHANGED <<book, vault>>
    BY <2>3 DEF Lock, Resolve, CloseLedger
  <2>4. QED
    BY <2>1, <2>2, <2>3
<1>3. CASE AdminStep
  <2>1. PICK p \in ParamSets, paused \in BOOLEAN : SetParams(p, paused)
    BY <1>3 DEF AdminStep
  <2>2. QED
    BY <1>1, <2>1 DEF SetParams, Vaults
<1>4. CASE UNCHANGED vars
  BY <1>4 DEF vars
<1>5. QED
  BY <1>2, <1>3, <1>4

\* A quote moves collateral between custody and the venue, and never the value shares are priced at.
THEOREM QuoteNeverMovesTheClaimHolds == Spec => QuoteNeverMovesTheClaim
<1>1. ASSUME MakerInv, [Next]_vars
      PROVE  [(\E w \in Windows : book'[w].quotes > book[w].quotes) => TotalValue' = TotalValue]_vars
  <2>1. SUFFICES ASSUME NEW w \in Windows, book'[w].quotes > book[w].quotes PROVE TotalValue' = TotalValue
    OBVIOUS
  <2>2. book[w] \in Records
    BY <1>1, TypesOf
  <2>3. book'[w].quotes # book[w].quotes
    <3>1. book[w].quotes \in Nat
      BY <2>2 DEF Records
    <3>2. QED
      BY <2>1, <3>1
  <2>4. CASE ProviderStep
    BY <2>3, <2>4 DEF ProviderStep, Supply, Withdraw
  <2>5. CASE VaultStep
    <3>1. PICK v \in Windows :
            \/ \E bid, ask \in Prices, q \in 1..vault.params.maxLots : Quote(v, bid, ask, q)
            \/ \E reached \in SUBSET OpenOrders(seat[v]) : Pull(v, reached)
            \/ \E q \in 1..seat[v].lots["yes"] : Merge(v, q)
            \/ Settle(v)
      BY <2>5 DEF VaultStep
    <3>2. QED
      BY <1>1, <2>3, <3>1, QuoteKeepsTheClaim, VaultStepFrame
  <2>6. CASE VenueStep \/ AdminStep \/ UNCHANGED vars
    BY <1>1, <2>3, <2>6, OutsideFrame
  <2>7. QED
    BY <1>1, <2>4, <2>5, <2>6 DEF Next
<1>2. QED
  BY <1>1, MakerInvariant, PTL DEF Spec, QuoteNeverMovesTheClaim

LEMMA SupplyIsFair ==
  ASSUME MakerInv, NEW a \in Providers, NEW amount \in Amounts, Supply(a, amount),
         vault.shares > 0, TotalValue > 0
  PROVE  TotalValue' * vault.shares >= TotalValue * vault'.shares
<1>1. amount \in Nat /\ vault \in Vaults /\ custody \in Nat
  BY MakerAssumption, TypesOf
<1>2. vault.shares \in Nat /\ vault.deployed \in Nat
  BY <1>1 DEF Vaults
<1>3. SharesFor(amount) = (amount * vault.shares) \div TotalValue
  BY <1>2, TotalIsNat DEF SharesFor
<1>4. /\ custody' = custody + amount
      /\ vault' = [vault EXCEPT !.shares = @ + SharesFor(amount)]
  BY DEF Supply
<1>5. vault'.deployed = vault.deployed /\ vault'.shares = vault.shares + SharesFor(amount)
  BY <1>1, <1>4 DEF Vaults
<1>6. TotalValue' = TotalValue + amount
  BY <1>1, <1>2, <1>4, <1>5 DEF TotalValue
<1>7. (TotalValue + amount) * vault.shares
        >= TotalValue * (vault.shares + (amount * vault.shares) \div TotalValue)
  BY <1>1, <1>2, TotalIsNat, JoiningIsFair
<1>8. QED
  BY <1>3, <1>5, <1>6, <1>7

LEMMA WithdrawIsFair ==
  ASSUME MakerInv, NEW a \in Providers, NEW shares \in 1..position[a].shares, Withdraw(a, shares)
  PROVE  TotalValue' * vault.shares >= TotalValue * vault'.shares
<1> DEFINE amount == (shares * TotalValue) \div vault.shares
<1>1. /\ position[a] \in Positions /\ vault \in Vaults /\ custody \in Nat
      /\ position[a].shares \in Nat /\ vault.shares \in Nat /\ vault.deployed \in Nat
  BY TypesOf DEF Positions, Vaults
<1>2. shares \in 0..vault.shares /\ vault.shares > 0
  BY <1>1, HeldBound DEF Withdraw
<1>3. (TotalValue - amount) * vault.shares >= TotalValue * (vault.shares - shares)
  BY <1>1, <1>2, TotalIsNat, LeavingIsFair
<1>4. amount \in Nat
  BY <1>1, <1>2, TotalIsNat, ProductIsNat, Quotient
<1>5. custody' = custody - amount /\ vault' = [vault EXCEPT !.shares = @ - shares]
  BY DEF Withdraw
<1> HIDE DEF amount
<1>6. vault'.deployed = vault.deployed /\ vault'.shares = vault.shares - shares
  BY <1>1, <1>5 DEF Vaults
<1>7. TotalValue' = TotalValue - amount
  BY <1>1, <1>4, <1>5, <1>6 DEF TotalValue
<1>8. QED
  BY <1>3, <1>6, <1>7

\* Whatever is deployed, earned or lost when a provider joins or leaves, what the shares of the others
\* are worth does not fall: rounding is always in favour of those who stay.
THEOREM SharesKeepTheirWorthHolds == Spec => SharesKeepTheirWorth
<1>1. ASSUME MakerInv, [Next]_vars
      PROVE  [vault'.shares # vault.shares /\ vault.shares > 0 /\ TotalValue > 0
                => TotalValue' * vault.shares >= TotalValue * vault'.shares]_vars
  <2>1. SUFFICES ASSUME vault'.shares # vault.shares, vault.shares > 0, TotalValue > 0
                 PROVE  TotalValue' * vault.shares >= TotalValue * vault'.shares
    OBVIOUS
  <2>2. CASE ProviderStep
    <3>1. PICK a \in Providers : \/ \E amount \in Amounts : Supply(a, amount)
                                 \/ \E shares \in 1..position[a].shares : Withdraw(a, shares)
      BY <2>2 DEF ProviderStep
    <3>2. QED
      BY <1>1, <2>1, <3>1, SupplyIsFair, WithdrawIsFair
  <2>3. CASE VaultStep
    <3>1. PICK v \in Windows :
            \/ \E bid, ask \in Prices, q \in 1..vault.params.maxLots : Quote(v, bid, ask, q)
            \/ \E reached \in SUBSET OpenOrders(seat[v]) : Pull(v, reached)
            \/ \E q \in 1..seat[v].lots["yes"] : Merge(v, q)
            \/ Settle(v)
      BY <2>3 DEF VaultStep
    <3>2. QED
      BY <1>1, <2>1, <3>1, QuoteKeepsTheClaim, VaultStepFrame
  <2>4. CASE VenueStep \/ AdminStep \/ UNCHANGED vars
    BY <1>1, <2>1, <2>4, OutsideFrame
  <2>5. QED
    BY <1>1, <2>2, <2>3, <2>4 DEF Next
<1>2. QED
  BY <1>1, MakerInvariant, PTL DEF Spec, SharesKeepTheirWorth
============================================================================
