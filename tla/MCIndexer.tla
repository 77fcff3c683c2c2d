----------------------------- MODULE MCIndexer -----------------------------
(***************************************************************************)
(* One instance of Indexer, used in one of two ways.  Either three         *)
(* transactions land once each and are stored in any order.  Or two land,  *)
(* a fork takes them off the chain and brings them back, and a third lands *)
(* while a row the fork left behind is dropped.  Signatures order events   *)
(* only where two have the same sequence number, which takes a fork:       *)
(* without one the transactions may as well land in the order of theirs.   *)
(***************************************************************************)
EXTENDS Indexer

Forked == 1..2
Third == 3
InOrderSoFar == reorgs = 0 /\ \A s \in DOMAIN chain : chain[s] = s
Dropping == walk.at \in {"dropping", "rebuilding"}

\* When the third transaction may land.
ThirdLands == IF InOrderSoFar THEN Len(chain) = 2 ELSE Dropping /\ queue = {} /\ live = NoLive

\* The third comes last.
MCNext ==
  \/ Third \notin Landed /\ (Reorg \/ \E t \in Forked : Land(t))
  \/ ThirdLands /\ Land(Third)
  \/ \E t \in Txs : LiveFetch(t)
  \/ Finalize \/ GapAges
  \/ LiveWrite \/ PassStep
  \/ NotAvailable \/ PassFails \/ LiveFails \/ Restart

\* A timer starts pass after pass, requests and database transactions end, and faults are finitely many.
MCSpec == Init /\ [][MCNext]_vars /\ WF_vars(PassStep) /\ WF_vars(LiveWrite)
============================================================================
