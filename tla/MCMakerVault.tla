---------------------------- MODULE MCMakerVault ----------------------------
(***************************************************************************)
(* One instance of Maker, used in one of two ways by the params it starts  *)
(* with.  Under wide or tight ones two providers supply to and withdraw    *)
(* from a vault that quotes one Window, and the admin changes the params.  *)
(* Under the third ones a single provider's capital is quoted again and    *)
(* again on two Windows at once.                                           *)
(***************************************************************************)
EXTENDS MCMaker

AllParams == {Wide, Tight, OneSpread}
Sharing == vault.params \in WideOrTight

\* The second Window is quoted once, and only where capital is reused.
QuotesAtMost(w) == IF Sharing THEN 2 - w ELSE 3 - w
Quotable == {w \in Windows : book[w].quotes < QuotesAtMost(w)}
Used == IF Sharing THEN {1} ELSE Windows

\* Where capital is reused, the one provider stays in.
MCNext ==
  \/ \E a \in Providers, amount \in IF Sharing THEN Amounts ELSE {} : Supply(a, amount)
  \/ \E amount \in IF ~Sharing /\ Supplied = 0 THEN {4} ELSE {} : Supply(1, amount)
  \/ \E a \in IF Sharing THEN Providers ELSE {} : \E shares \in 1..position[a].shares : Withdraw(a, shares)
  \/ \E p \in IF Sharing THEN WideOrTight ELSE {}, paused \in BOOLEAN : SetParams(p, paused)
  \/ \E w \in Quotable, bid, ask \in Prices, q \in 1..vault.params.maxLots : Quote(w, bid, ask, q)
  \/ \E w \in Windows :
       \/ \E reached \in SUBSET OpenOrders(seat[w]) : Pull(w, reached)
       \/ \E q \in 1..seat[w].lots["yes"] : Merge(w, q)
       \/ Settle(w)
       \/ \E leg \in Legs : \E q \in 1..seat[w].resting[leg] : Fill(w, leg, q) \/ Release(w, leg, q)
  \/ \E w \in Used :
       \/ Lock(w)
       \/ \E r \in Results : Resolve(w, r)
       \/ CloseLedger(w)

MCSpec == Init /\ [][MCNext]_vars /\ ActorFairness
============================================================================
