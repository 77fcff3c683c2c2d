----------------------------- MODULE MCWindows -----------------------------
(***************************************************************************)
(* One instance of Settlement, used in one of three ways.  Under the first *)
(* policy version, a single Window runs with a check and prices that agree *)
(* or diverge, and the roller is halted and resumed.  Under the second,    *)
(* which has no check, either two back-to-back Windows share one book, or  *)
(* one is closed under two products that register reads of its result and  *)
(* release their own and each other's.                                     *)
(***************************************************************************)
EXTENDS MCSettlement

CheckedThenPlain == CheckedPolicy \o PlainPolicy
Closure == series.versions = 2
Owing == \E i \in Indices, p \in Products : Owed(reading[i], p) > 0

\* Both versions are appended before a halt, or the second is not appended.  A halt stops the listing
\* alone, and authorities matter to readers alone: elsewhere both would only double the states.  The
\* products are alike, so which of the two keeps its authority is one choice.
MCNext ==
  \/ Tick
  \/ ~Closure /\ series.next = 0 /\ SetMode
  \/ series.next = 0 /\ ~halted /\ AddPolicyVersion
  \/ \E b \in Books : AddBook(b)
  \/ \E b \in {c \in Books : series.next = 0 \/ (Closure /\ reading[0] = NoReads)} : OpenWindow(b)
  \/ Owing /\ \E P \in {{}, {1}, Products} : SetAuthorities(P)
  \/ \E i \in Indices :
       \/ \E s \in Slots, attestor \in BOOLEAN, p \in IF Closure THEN {400} ELSE Prices : RecordPrint(i, s, attestor, p)
       \/ CopyOpen(i)
       \/ Resolving(i) \/ Closing(i) \/ Trade(i) \/ EmptyBook(i) \/ RedeemSeats(i) \/ WithdrawSeats(i)
  \/ Closure /\ series.next = 1 /\ \E p \in Products : AddDependent(p, 0) \/ ReleaseDependent(p, 0)

MCSpec == Init /\ [][MCNext]_vars /\ ClosingFairness
============================================================================
