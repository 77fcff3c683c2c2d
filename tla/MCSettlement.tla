---------------------------- MODULE MCSettlement ----------------------------
(***************************************************************************)
(* Instances of Settlement for TLC.                                        *)
(***************************************************************************)
EXTENDS Settlement, TLC

CONSTANTS b1, b2

AllSources == {"Pyth", "RedStone", "Switchboard", "Attested"}
Always == MaxTime

Primary(source, delay, open, close) ==
  [source |-> source, minDelay |-> delay, openAdmission |-> open, closeAdmission |-> close]
NoCheck == Primary(NoSource, 0, 0, 0)
Unchecked(from, until, p) ==
  [from |-> from, until |-> until, primary |-> p, check |-> NoCheck, maxDivergence |-> 0, checkAdmission |-> 0]

EqualBooks == Permutations({b1, b2})

AnyQuote == [source \in AllSources |-> [t \in Times |-> Prices]]

-----------------------------------------------------------------------------
(* One Window under a checked policy.  400 and 401 agree within 25 bps     *)
(* whichever is the check; 404 is too far from both.                       *)

CheckedPolicy ==
  <<[from |-> 0, until |-> Always, primary |-> Primary("Pyth", 0, 2, 2),
     check |-> Primary("RedStone", 0, 1, 1), maxDivergence |-> 25, checkAdmission |-> 1]>>

-----------------------------------------------------------------------------
(* Two Gap Windows, adjacent or days apart, over a change of the source.   *)
(* Every source and boundary has a price of its own.                       *)

\* Three versions: the second changes the source, the third only the check.
GapPolicies ==
  <<Unchecked(0, 3, Primary("Pyth", 0, UntilLock, 1)),
    Unchecked(2, Always, Primary("Attested", 1, UntilLock, 2)),
    [Unchecked(0, Always, Primary("Attested", 1, UntilLock, 2)) EXCEPT
       !.check = Primary("Pyth", 0, 1, 1), !.maxDivergence = 10000, !.checkAdmission = 1]>>
OwnQuotes ==
  [source \in AllSources |-> [t \in Times |-> IF source = "Pyth" THEN {1 + t} ELSE {11 + t}]]
\* Nobody trades: the prints alone.
HandoverNext ==
  \/ Tick
  \/ Listing
  \/ \E i \in Indices : Printing(i) \/ Resolving(i)
HandoverSpec == Init /\ [][HandoverNext]_vars

GapPrices == UNION {OwnQuotes[source][t] : source \in AllSources, t \in Times}

-----------------------------------------------------------------------------
(* Windows closed under a product: one source and no check.                *)

PlainPolicy == <<Unchecked(0, Always, Primary("Pyth", 0, 1, 1))>>

-----------------------------------------------------------------------------
(* The Switchboard lane: every quote of the window is admissible.          *)

TokenPolicy == <<Unchecked(0, Always, Primary("Switchboard", 1, 3, 3))>>
\* The version changes at the boundary the two Windows share.
TokenPolicies ==
  <<Unchecked(0, 2, Primary("Switchboard", 1, 3, 3)), Unchecked(2, Always, Primary("Switchboard", 1, 3, 3))>>

=============================================================================
