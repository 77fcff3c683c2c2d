--------------------------- MODULE IndexerProofs ---------------------------
(***************************************************************************)
(* The cursor leaves nothing behind it, the projections are a replay of    *)
(* the stored events, and what is stored as final stays as it is, for      *)
(* every number of transactions, forks and faults.                         *)
(*                                                                         *)
(* CursorMeansIndexed is not inductive: it says nothing of a pass that is  *)
(* about to move the cursor.  WalkAccounted adds what such a pass has      *)
(* already seen to: every finalized slot before its place is stored and    *)
(* final, or among the transactions it is going to promote.                *)
(*                                                                         *)
(* A replay is CHOSEN among the orders of the stored events: the second    *)
(* part shows that there is one and only one (each event stands at the     *)
(* number of events up to it), so that an event appended at the end gives  *)
(* the same sequence as a rebuild.  What a drop leaves before it stays a   *)
(* surplus; the third part shows that there is none as long as the cluster *)
(* abandoned no fork, since then no row is ever up for dropping.           *)
(***************************************************************************)
EXTENDS Indexer, SequenceTheorems, FiniteSetTheorems, TLAPS

\* A finalized slot the pass has gone by.
SeenTo(s) ==
  /\ rows[chain[s]].at # 0
  /\ rows[chain[s]].commitment = "finalized" \/ chain[s] \in walk.promote

\* What a walk relies on between its requests, while the cluster and the live path go on.
OnTheWay ==
  /\ walk.final <= Len(walk.seen) /\ walk.upto < walk.next /\ walk.upto <= walk.final
  /\ \A s \in 1..walk.final : walk.seen[s] = chain[s]
  /\ \A t \in walk.have : rows[t].at # 0
  /\ \A s \in 1..walk.final : s < walk.next => SeenTo(s)

WalkAccounted ==
  /\ walk.final <= rooted
  /\ walk.at = "listing" => walk.upto = 0 /\ walk.promote = {}
  /\ walk.at \in {"walking", "stopped"} => OnTheWay
  /\ walk.at \in {"dropping", "rebuilding"} => \A s \in 1..cursor : chain[s] \notin walk.gone

IndexInv == TypeOK /\ CursorMeansIndexed /\ WalkAccounted

-----------------------------------------------------------------------------
(* The operators.                                                          *)

LEMMA SlotOfType ==
  ASSUME TypeOK, NEW t \in Txs
  PROVE  /\ SlotOf(t) \in Nat
         /\ SlotOf(t) # 0 => t \in Landed
         /\ SlotOf(t) = 0 => t \notin Landed
<1>1. CASE t \in Landed
  <2>1. PICK s \in DOMAIN chain : chain[s] = t
    BY <1>1 DEF Landed
  <2>2. DOMAIN chain = 1..Len(chain) /\ Len(chain) \in Nat
    BY DEF TypeOK
  <2>3. SlotOf(t) \in DOMAIN chain
    BY <1>1, <2>1 DEF SlotOf
  <2> QED BY <1>1, <2>2, <2>3
<1>2. CASE t \notin Landed
  BY <1>2 DEF SlotOf
<1> QED BY <1>1, <1>2

\* A transaction of a finalized slot is a transaction.
LEMMA RootedTx ==
  ASSUME TypeOK, NEW s \in 1..rooted
  PROVE  chain[s] \in Txs
BY DEF TypeOK

\* One write keeps what is stored stored and what is final final.
LEMMA WriteKeeps ==
  ASSUME TypeOK, NEW t \in Txs, NEW at \in Nat, NEW commitment \in {"confirmed", "finalized"}, NEW slot \in Nat,
         Store(t, at, commitment, slot)
  PROVE  /\ rows' \in [Txs -> Rows]
         /\ cursor' = (IF slot > cursor THEN slot ELSE cursor) /\ cursor' \in Nat
         /\ gap' \in {"none", "young", "due"}
         /\ \A u \in Txs : rows[u].at # 0 => rows'[u].at # 0
         /\ \A u \in Txs : rows[u].at # 0 /\ rows[u].commitment = "finalized" => rows'[u].commitment = "finalized"
         /\ at # 0 => rows'[t].at # 0
         /\ at # 0 /\ commitment = "finalized" => rows'[t].commitment = "finalized"
<1>1. rows \in [Txs -> Rows] /\ cursor \in Nat /\ gap \in {"none", "young", "due"}
  BY DEF TypeOK
<1>2. cursor' = (IF slot > cursor THEN slot ELSE cursor) /\ cursor' \in Nat
  BY <1>1 DEF Advanced, Store
<1>3. CASE rows[t].at # 0
  <2>1. rows' = [rows EXCEPT ![t] = Promoted(rows[t], commitment)] /\ gap' = gap
    BY <1>3 DEF Store
  <2>2. /\ Promoted(rows[t], commitment) \in Rows
        /\ Promoted(rows[t], commitment).at = rows[t].at
        /\ commitment = "finalized" => Promoted(rows[t], commitment).commitment = "finalized"
        /\ rows[t].commitment = "finalized" => Promoted(rows[t], commitment).commitment = "finalized"
    BY <1>1 DEF Promoted, Rows
  <2>3. rows' \in [Txs -> Rows]
    BY <1>1, <2>1, <2>2
  <2>4. rows'[t] = Promoted(rows[t], commitment) /\ \A u \in Txs \ {t} : rows'[u] = rows[u]
    BY <1>1, <2>1
  <2> QED BY <1>1, <1>2, <1>3, <2>1, <2>2, <2>3, <2>4
<1>4. CASE rows[t].at = 0
  <2>1. rows' = [rows EXCEPT ![t] = [at |-> at, commitment |-> commitment]]
    BY <1>4 DEF Store
  <2>2. gap' \in {"none", "young", "due"}
    BY <1>1, <1>4 DEF Store
  <2>3. rows' \in [Txs -> Rows]
    BY <1>1, <2>1 DEF Rows
  <2>4. rows'[t] = [at |-> at, commitment |-> commitment] /\ \A u \in Txs \ {t} : rows'[u] = rows[u]
    BY <1>1, <2>1
  <2> QED BY <1>1, <1>2, <1>4, <2>2, <2>3, <2>4
<1> QED BY <1>3, <1>4

-----------------------------------------------------------------------------
(* Types.                                                                  *)

LEMMA PassType ==
  /\ NoPass \in Passes /\ NoPass.at = "idle" /\ NoPass.final = 0
  /\ NoLive = [tx |-> 0, at |-> 0, waits |-> FALSE]
<1>1. <<>> \in Seq(Txs)
  OBVIOUS
<1> QED BY <1>1 DEF NoPass, NoLive, Passes, Stages

\* What the cluster does leaves its finalized slots as they are, and all but the queue of the indexer.
ClusterStep == Finalize \/ Reorg \/ \E t \in Txs : Land(t)

LEMMA ClusterKeeps ==
  ASSUME TypeOK, ClusterStep
  PROVE  /\ chain' \in Seq(Txs) /\ rooted' \in 0..Len(chain') /\ rooted <= rooted'
         /\ \A s \in 1..rooted : chain'[s] = chain[s]
         /\ UNCHANGED <<rows, applied, surplus, kept, cursor, walk, live, gap, faults>>
         /\ queue' \in SUBSET Txs /\ reorgs' \in 0..MaxReorgs
<1> USE IndexerAssumption
<1>0. /\ chain \in Seq(Txs) /\ rooted \in 0..Len(chain) /\ Len(chain) \in Nat
      /\ queue \in SUBSET Txs /\ reorgs \in 0..MaxReorgs
      /\ \A s \in 1..Len(chain) : chain[s] \in Txs
  BY DEF TypeOK
<1>1. CASE Finalize
  BY <1>0, <1>1 DEF Finalize, projection
<1>2. ASSUME NEW t \in Txs, Land(t)
      PROVE  /\ chain' \in Seq(Txs) /\ rooted' \in 0..Len(chain') /\ rooted <= rooted'
             /\ \A s \in 1..rooted : chain'[s] = chain[s]
             /\ UNCHANGED <<rows, applied, surplus, kept, cursor, walk, live, gap, faults>>
             /\ queue' \in SUBSET Txs /\ reorgs' \in 0..MaxReorgs
  <2>1. chain' = Append(chain, t) /\ rooted' = rooted
    BY <1>2 DEF Land
  <2>2. chain' \in Seq(Txs) /\ Len(chain') = Len(chain) + 1
    BY <1>0, <2>1
  <2>3. \A s \in 1..rooted : chain'[s] = chain[s]
    BY <1>0, <2>1
  <2> QED BY <1>0, <1>2, <2>1, <2>2, <2>3 DEF Land, projection
<1>3. CASE Reorg
  <2>1. PICK n \in rooted..Len(chain) - 1 : chain' = SubSeq(chain, 1, n)
    BY <1>3 DEF Reorg
  <2>2. n \in Nat /\ n <= Len(chain) /\ rooted <= n /\ rooted' = rooted
    BY <1>0, <1>3, <2>1 DEF Reorg
  <2>3. \A i \in 1..n : chain[i] \in Txs
    BY <1>0, <2>2
  <2>4. /\ SubSeq(chain, 1, n) \in Seq(Txs)
        /\ Len(SubSeq(chain, 1, n)) = IF 1 <= n THEN n - 1 + 1 ELSE 0
        /\ \A i \in 1..n - 1 + 1 : SubSeq(chain, 1, n)[i] = chain[1 + i - 1]
    BY <2>2, <2>3, SubSeqProperties
  <2>5. chain' \in Seq(Txs) /\ Len(chain') = n /\ \A i \in 1..n : chain'[i] = chain[i]
    BY <2>1, <2>2, <2>4
  <2> QED BY <1>0, <1>3, <2>2, <2>5 DEF Reorg, projection
<1> QED BY <1>1, <1>2, <1>3 DEF ClusterStep

\* A rebuild leaves the live path what it holds.
LEMMA LiveStays ==
  ASSUME live \in {NoLive} \cup [tx : Txs, at : Nat, waits : BOOLEAN], RebuildGone
  PROVE  /\ live' \in {NoLive} \cup [tx : Txs, at : Nat, waits : BOOLEAN]
         /\ live'.tx = live.tx /\ live'.at = live.at /\ (live' = NoLive <=> live = NoLive)
<1>1. PICK waits \in {live.waits, live.waits \/ MayWait} : live' = [live EXCEPT !.waits = waits]
  BY DEF RebuildGone
<1>2. CASE live = NoLive
  <2>1. live.waits = FALSE /\ ~MayWait
    BY <1>2 DEF NoLive, MayWait
  <2>2. live' = NoLive
    BY <1>1, <1>2, <2>1 DEF NoLive
  <2> QED BY <1>2, <2>2
<1>3. CASE live # NoLive
  <2>1. live \in [tx : Txs, at : Nat, waits : BOOLEAN] /\ waits \in BOOLEAN
    BY <1>1, <1>3 DEF MayWait
  <2>2. /\ live' \in [tx : Txs, at : Nat, waits : BOOLEAN]
        /\ live'.tx = live.tx /\ live'.at = live.at
    BY <1>1, <2>1
  <2>3. live'.tx # 0
    BY <2>1, <2>2 DEF Txs
  <2>4. live' # NoLive
    BY <2>3 DEF NoLive
  <2> QED BY <1>3, <2>2, <2>4
<1> QED BY <1>2, <1>3

LEMMA TypeHolds ==
  ASSUME TypeOK, Next
  PROVE  TypeOK'
<1> USE IndexerAssumption
<1> DEFINE Types ==
      /\ chain \in Seq(Txs) /\ rooted \in 0..Len(chain)
      /\ rows \in [Txs -> Rows] /\ cursor \in Nat
      /\ walk \in Passes
      /\ queue \in SUBSET Txs /\ live \in {NoLive} \cup [tx : Txs, at : Nat, waits : BOOLEAN]
      /\ gap \in {"none", "young", "due"} /\ reorgs \in 0..MaxReorgs /\ faults \in 0..MaxFaults
<1>0. Types
  BY DEF TypeOK
<1> SUFFICES Types'
  BY DEF TypeOK
<1>1. CASE ClusterStep
  BY <1>0, <1>1, ClusterKeeps
<1>2. ASSUME NEW t \in Txs, LiveFetch(t) PROVE Types'
  <2>1. SlotOf(t) \in Nat
    BY SlotOfType
  <2>2. live' \in {NoLive} \cup [tx : Txs, at : Nat, waits : BOOLEAN]
    BY <1>2, <2>1 DEF LiveFetch
  <2> QED BY <1>0, <1>2, <2>2 DEF LiveFetch
<1>5. CASE GapAges
  BY <1>0, <1>5 DEF GapAges, world
<1>6. CASE LiveWrite
  <2>1. live \in [tx : Txs, at : Nat, waits : BOOLEAN]
    BY <1>0, <1>6 DEF LiveWrite
  <2>2. live.tx \in Txs /\ live.at \in Nat
    BY <2>1
  <2>3. Store(live.tx, live.at, "confirmed", 0)
    BY <1>6 DEF LiveWrite
  <2>4. rows' \in [Txs -> Rows] /\ cursor' \in Nat /\ gap' \in {"none", "young", "due"}
    BY <2>2, <2>3, WriteKeeps
  <2> QED BY <1>0, <1>6, <2>4 DEF LiveWrite, world
<1>7. CASE StartPass
  <2>1. walk' = [NoPass EXCEPT !.at = "listing", !.final = rooted] /\ rooted \in Nat
    BY <1>0, <1>7 DEF StartPass
  <2>2. walk' \in Passes
    BY <2>1, PassType DEF Passes, Stages
  <2> QED BY <1>0, <1>7, <2>2 DEF StartPass, world
<1>8. CASE List
  <2>1. Stored(rows) \in SUBSET Txs /\ cursor + 1 \in Nat \ {0}
    BY <1>0 DEF Stored
  <2>2. walk' \in Passes
    BY <1>0, <1>8, <2>1 DEF List, Passes, Stages
  <2> QED BY <1>0, <1>8, <2>2 DEF List, world
<1>9. CASE PassKnown
  <2>1. /\ walk.next \in Nat \ {0} /\ walk.promote \in SUBSET Txs /\ walk.upto \in Nat
        /\ walk.seen \in Seq(Txs)
    BY <1>0 DEF Passes
  <2>2. walk.seen[walk.next] \in Txs
    BY <1>9, <2>1 DEF PassKnown, More
  <2>3. (IF InFinalSlot THEN walk.promote \cup {walk.seen[walk.next]} ELSE walk.promote) \in SUBSET Txs
    BY <2>1, <2>2
  <2>4. (IF InFinalSlot THEN walk.next ELSE walk.upto) \in Nat /\ walk.next + 1 \in Nat \ {0}
    BY <2>1
  <2>5. walk' \in Passes
    BY <1>0, <1>9, <2>3, <2>4 DEF PassKnown, Passes
  <2> QED BY <1>0, <1>9, <2>5 DEF PassKnown, world
<1>10. CASE FetchNext
  <2>1. walk.next \in Nat \ {0} /\ walk.seen \in Seq(Txs)
    BY <1>0 DEF Passes
  <2>2. walk.seen[walk.next] \in Txs
    BY <1>10, <2>1 DEF FetchNext, More
  <2>3. SlotOf(walk.seen[walk.next]) \in Nat
    BY <2>2, SlotOfType
  <2>4. walk' \in Passes
    BY <1>0, <1>10, <2>3 DEF FetchNext, Passes, Stages
  <2> QED BY <1>0, <1>10, <2>4 DEF FetchNext, world
<1>11. CASE Flush
  <2>1. \A t \in Txs : Promoted(rows[t], "finalized") \in Rows
    BY <1>0 DEF Promoted, Rows
  <2>2. rows' \in [Txs -> Rows]
    BY <1>0, <1>11, <2>1 DEF Flush
  <2>3. walk.upto \in Nat
    BY <1>0 DEF Passes
  <2>4. cursor' \in Nat
    BY <1>0, <1>11, <2>3 DEF Flush, Advanced
  <2>5. walk' \in Passes
    BY <1>0, <1>11 DEF Flush, Passes
  <2> QED BY <1>0, <1>11, <2>2, <2>4, <2>5 DEF Flush, world
<1>12. CASE Apply \/ FillWrite
  <2>1. walk.next \in Nat \ {0} /\ walk.seen \in Seq(Txs) /\ walk.got \in Nat /\ walk.final \in Nat
    BY <1>0 DEF Passes
  <2>2. walk.seen[walk.next] \in Txs
    BY <1>12, <2>1 DEF Apply, FillWrite, More
  <2>3. PICK slot \in Nat : Store(walk.seen[walk.next], walk.got, Commitment, slot)
    BY <1>12, <2>1 DEF Apply, FillWrite, Write
  <2>4. rows' \in [Txs -> Rows] /\ cursor' \in Nat /\ gap' \in {"none", "young", "due"}
    <3>1. Commitment \in {"confirmed", "finalized"}
      BY DEF Commitment
    <3> QED BY <2>1, <2>2, <2>3, <3>1, WriteKeeps
  <2>5. walk' \in Passes
    <3>1. walk' = [walk EXCEPT !.next = walk.next + 1, !.got = 0] /\ walk.next + 1 \in Nat \ {0}
      BY <1>12, <2>1 DEF Apply, FillWrite
    <3> QED BY <1>0, <3>1 DEF Passes
  <2> QED BY <1>0, <1>12, <2>4, <2>5 DEF Apply, FillWrite, world
<1>13. CASE EndWalk
  <2>1. walk' \in Passes
    <3>1. PICK at \in {"checking", "gaps"} : walk' = [walk EXCEPT !.at = at]
      BY <1>13 DEF EndWalk
    <3>2. at \in Stages
      BY DEF Stages
    <3> QED BY <1>0, <3>1, <3>2 DEF Passes
  <2> QED BY <1>0, <1>13, <2>1 DEF EndWalk, world
<1>14. CASE CheckStale
  <2>1. Gone \in SUBSET Txs
    BY DEF Gone, Stale, Stored
  <2>2. \A t \in Txs : Promoted(rows[t], "finalized") \in Rows
    BY <1>0 DEF Promoted, Rows
  <2>3. rows' \in [Txs -> Rows]
    BY <1>0, <1>14, <2>2 DEF CheckStale
  <2>4. walk' \in Passes
    BY <1>0, <1>14, <2>1 DEF CheckStale, Passes, Stages
  <2> QED BY <1>0, <1>14, <2>3, <2>4 DEF CheckStale, world
<1>15. CASE DropGone
  <2>1. walk' \in Passes
    BY <1>0, <1>15 DEF DropGone, Passes, Stages
  <2> QED BY <1>0, <1>15, <2>1 DEF DropGone, world
<1>21. CASE RebuildGone
  <2>1. rows' \in [Txs -> Rows]
    BY <1>0, <1>21 DEF RebuildGone, NoRow, Rows
  <2>2. walk' \in Passes
    BY <1>0, <1>21 DEF RebuildGone, Passes, Stages
  <2>3. live' \in {NoLive} \cup [tx : Txs, at : Nat, waits : BOOLEAN]
    BY <1>0, <1>21, LiveStays
  <2> QED BY <1>0, <1>21, <2>1, <2>2, <2>3 DEF RebuildGone, world
<1>16. CASE StartFill
  <2>1. Stored(rows) \in SUBSET Txs
    BY DEF Stored
  <2>2. CASE gap = "due" /\ Hole(rows)
    <3>0. walk' = [walk EXCEPT !.at = "filling", !.seen = chain, !.next = 1, !.have = Stored(rows)]
      BY <1>16, <2>2 DEF StartFill
    <3>1. walk \in Passes /\ chain \in Seq(Txs) /\ "filling" \in Stages /\ 1 \in Nat \ {0}
      BY <1>0 DEF Stages
    <3>2. walk' \in Passes
      BY <2>1, <3>0, <3>1 DEF Passes
    <3> QED BY <1>0, <1>16, <2>2, <3>2 DEF StartFill, world
  <2>3. CASE ~(gap = "due" /\ Hole(rows))
    BY <1>0, <1>16, <2>3, PassType DEF StartFill, world
  <2> QED BY <2>2, <2>3
<1>17. CASE FillFetch
  <2>1. walk.next \in Nat \ {0} /\ walk.seen \in Seq(Txs)
    BY <1>0 DEF Passes
  <2>2. walk.seen[walk.next] \in Txs
    BY <1>17, <2>1 DEF FillFetch, More
  <2>3. SlotOf(walk.seen[walk.next]) \in Nat /\ walk.next + 1 \in Nat \ {0}
    BY <2>1, <2>2, SlotOfType
  <2>4. walk' \in Passes
    BY <1>0, <1>17, <2>3 DEF FillFetch, Passes, Stages
  <2> QED BY <1>0, <1>17, <2>4 DEF FillFetch, world
<1>18. CASE EndFill
  BY <1>0, <1>18, PassType DEF EndFill, world
<1>19. CASE NotAvailable
  <2>1. walk.next + 1 \in Nat \ {0}
    BY <1>0 DEF Passes
  <2>2. walk' \in Passes
    <3>1. CASE walk' = [walk EXCEPT !.at = "stopped"]
      BY <1>0, <3>1 DEF Passes, Stages
    <3>2. CASE walk' = [walk EXCEPT !.next = walk.next + 1]
      BY <1>0, <2>1, <3>2 DEF Passes
    <3> QED BY <1>19, <3>1, <3>2 DEF NotAvailable
  <2> QED BY <1>0, <1>19, <2>2 DEF NotAvailable, Fault, world
<1>20. CASE PassFails \/ LiveFails \/ Restart
  BY <1>0, <1>20, PassType DEF PassFails, LiveFails, Restart, Fault, world
<1> QED
  BY <1>1, <1>2, <1>5, <1>6, <1>7, <1>8, <1>9, <1>10, <1>11, <1>12, <1>13, <1>14, <1>15, <1>16,
     <1>17, <1>18, <1>19, <1>20, <1>21 DEF Next, PassStep, ClusterStep

-----------------------------------------------------------------------------
(* The cursor and the walk, one kind of step at a time.                    *)

\* What is stored stays stored, what is final stays final.
RowsKept ==
  \A u \in Txs :
    /\ rows[u].at # 0 => rows'[u].at # 0
    /\ rows[u].at # 0 /\ rows[u].commitment = "finalized" => rows'[u].commitment = "finalized"

SameWorld == chain' = chain /\ rooted' = rooted

LEMMA SlotTypes ==
  ASSUME TypeOK, CursorMeansIndexed
  PROVE  /\ cursor \in Nat /\ rooted \in Nat /\ cursor <= rooted /\ Len(chain) \in Nat /\ rooted <= Len(chain)
         /\ \A s \in 1..rooted : chain[s] \in Txs
         /\ walk.final \in Nat /\ walk.next \in Nat \ {0} /\ walk.upto \in Nat /\ walk.got \in Nat
         /\ walk.seen \in Seq(Txs) /\ Len(walk.seen) \in Nat /\ walk.have \in SUBSET Txs
         /\ walk.promote \in SUBSET Txs
<1>1. walk \in Passes
  BY DEF TypeOK
<1>2. /\ walk.final \in Nat /\ walk.next \in Nat \ {0} /\ walk.upto \in Nat /\ walk.got \in Nat
      /\ walk.seen \in Seq(Txs) /\ Len(walk.seen) \in Nat /\ walk.have \in SUBSET Txs
      /\ walk.promote \in SUBSET Txs
  BY <1>1 DEF Passes
<1> QED BY <1>2, RootedTx DEF TypeOK, CursorMeansIndexed

LEMMA CursorKept ==
  ASSUME TypeOK, CursorMeansIndexed, SameWorld, cursor' = cursor, RowsKept
  PROVE  CursorMeansIndexed'
BY SlotTypes DEF CursorMeansIndexed, SameWorld, RowsKept

\* The cluster moves: nothing below the finalized slots changes.
LEMMA ClusterAccounted ==
  ASSUME IndexInv, ClusterStep
  PROVE  (CursorMeansIndexed /\ WalkAccounted)'
<1>1. /\ rooted' \in Nat /\ rooted <= rooted' /\ \A s \in 1..rooted : chain'[s] = chain[s]
      /\ rows' = rows /\ cursor' = cursor /\ walk' = walk
  BY ClusterKeeps DEF IndexInv
<1>2. /\ cursor \in Nat /\ rooted \in Nat /\ cursor <= rooted /\ walk.final \in Nat /\ walk.final <= rooted
      /\ \A s \in 1..walk.final : chain'[s] = chain[s]
      /\ \A s \in 1..cursor : chain'[s] = chain[s]
  BY <1>1, SlotTypes DEF IndexInv, WalkAccounted
<1>3. CursorMeansIndexed'
  BY <1>1, <1>2 DEF IndexInv, CursorMeansIndexed
<1>4. ASSUME OnTheWay PROVE OnTheWay'
  <2>1. \A s \in 1..walk.final : SeenTo(s) => SeenTo(s)'
    BY <1>1, <1>2 DEF SeenTo
  <2> QED BY <1>1, <1>2, <1>4, <2>1 DEF OnTheWay
<1>5. WalkAccounted'
  BY <1>1, <1>2, <1>4 DEF IndexInv, WalkAccounted
<1> QED BY <1>3, <1>5

\* The live path writes, or nothing the pass relies on changes.
LEMMA BesideThePass ==
  ASSUME IndexInv, SameWorld, cursor' = cursor, walk' = walk, RowsKept
  PROVE  (CursorMeansIndexed /\ WalkAccounted)'
<1>1. CursorMeansIndexed'
  BY CursorKept DEF IndexInv
<1>2. ASSUME OnTheWay PROVE OnTheWay'
  <2>1. \A s \in 1..walk.final : chain[s] \in Txs
    BY SlotTypes DEF IndexInv, WalkAccounted
  <2>2. \A s \in 1..walk.final : SeenTo(s) => SeenTo(s)'
    BY <2>1 DEF SeenTo, SameWorld, RowsKept
  <2>3. \A t \in walk.have : rows[t].at # 0 => rows'[t].at # 0
    BY SlotTypes DEF IndexInv, RowsKept
  <2> QED BY <1>2, <2>2, <2>3 DEF OnTheWay, SameWorld
<1>3. WalkAccounted'
  BY <1>2 DEF IndexInv, WalkAccounted, SameWorld
<1> QED BY <1>1, <1>3

\* The pass is where it neither moves the cursor nor drops rows.
LEMMA PassElsewhere ==
  ASSUME IndexInv, SameWorld, cursor' = cursor, RowsKept,
         walk'.at \notin {"walking", "stopped", "dropping", "rebuilding"}, walk'.final <= rooted,
         walk'.at = "listing" => walk'.upto = 0 /\ walk'.promote = {}
  PROVE  (CursorMeansIndexed /\ WalkAccounted)'
<1>1. CursorMeansIndexed'
  BY CursorKept DEF IndexInv
<1>2. WalkAccounted'
  BY DEF WalkAccounted, SameWorld
<1> QED BY <1>1, <1>2

OffTheWalk ==
  \/ StartPass \/ EndWalk \/ StartFill \/ FillFetch \/ FillWrite \/ EndFill
  \/ (NotAvailable /\ walk.at = "filling")
  \/ PassFails \/ Restart

LEMMA ElsewhereSteps ==
  ASSUME IndexInv, OffTheWalk
  PROVE  (CursorMeansIndexed /\ WalkAccounted)'
<1>0. /\ walk \in Passes /\ rooted \in Nat /\ walk.final <= rooted /\ cursor \in Nat
      /\ walk.seen \in Seq(Txs) /\ walk.next \in Nat \ {0} /\ walk.got \in Nat /\ walk.final \in Nat
  BY SlotTypes DEF IndexInv, WalkAccounted, TypeOK
<1>1. CASE FillWrite
  <2>1. walk.seen[walk.next] \in Txs /\ walk.got \in Nat
    BY <1>0, <1>1 DEF FillWrite, More
  <2>2. Commitment \in {"confirmed", "finalized"} /\ 0 \in Nat
    BY DEF Commitment
  <2>3. Store(walk.seen[walk.next], walk.got, Commitment, 0)
    BY <1>1 DEF FillWrite, Write
  <2>4. /\ cursor' = (IF 0 > cursor THEN 0 ELSE cursor)
        /\ \A u \in Txs : rows[u].at # 0 => rows'[u].at # 0
        /\ \A u \in Txs : rows[u].at # 0 /\ rows[u].commitment = "finalized" => rows'[u].commitment = "finalized"
    BY <2>1, <2>2, <2>3, WriteKeeps DEF IndexInv
  <2>5. walk'.at = "filling" /\ walk'.final = walk.final
    BY <1>0, <1>1 DEF FillWrite, Passes
  <2> QED BY <1>0, <1>1, <2>4, <2>5, PassElsewhere DEF RowsKept, SameWorld, FillWrite, world
<1>2. CASE StartPass
  <2>1. walk'.at = "listing" /\ walk'.final = rooted /\ walk'.upto = 0 /\ walk'.promote = {}
    BY <1>2 DEF StartPass, NoPass
  <2> QED BY <1>0, <1>2, <2>1, PassElsewhere DEF RowsKept, SameWorld, StartPass, world
<1>3. CASE StartFill
  <2>1. walk'.at \in {"filling", "idle"} /\ walk'.final <= rooted
    <3>1. CASE walk' = NoPass
      BY <1>0, <3>1, PassType
    <3>2. CASE walk' = [walk EXCEPT !.at = "filling", !.seen = chain, !.next = 1, !.have = Stored(rows)]
      <4>1. walk'.at = "filling" /\ walk'.final = walk.final
        BY <1>0, <3>2 DEF Passes
      <4> QED BY <1>0, <4>1
    <3> QED BY <1>3, <3>1, <3>2 DEF StartFill
  <2> QED BY <1>0, <1>3, <2>1, PassElsewhere DEF RowsKept, SameWorld, StartFill, world
<1>4. CASE FillFetch
  <2>1. walk'.at = "filling" /\ walk'.final <= rooted
    BY <1>0, <1>4 DEF FillFetch, Passes
  <2> QED BY <1>0, <1>4, <2>1, PassElsewhere DEF RowsKept, SameWorld, FillFetch, world
<1>5. CASE EndFill \/ PassFails \/ Restart
  <2>1. walk'.at = "idle" /\ walk'.final <= rooted
    BY <1>0, <1>5, PassType DEF EndFill, PassFails, Restart
  <2> QED BY <1>0, <1>5, <2>1, PassElsewhere DEF RowsKept, SameWorld, EndFill, PassFails, Restart, world
<1>6. CASE EndWalk
  <2>1. walk'.at \in {"checking", "gaps"} /\ walk'.final <= rooted
    BY <1>0, <1>6 DEF EndWalk, Passes
  <2> QED BY <1>0, <1>6, <2>1, PassElsewhere DEF RowsKept, SameWorld, EndWalk, world
<1>7. CASE NotAvailable /\ walk.at = "filling"
  <2>1. walk'.at = "filling" /\ walk'.final <= rooted
    BY <1>0, <1>7 DEF NotAvailable, Passes
  <2> QED BY <1>0, <1>7, <2>1, PassElsewhere DEF RowsKept, SameWorld, NotAvailable, world
<1> QED BY <1>1, <1>2, <1>3, <1>4, <1>5, <1>6, <1>7 DEF OffTheWalk

Beside == LiveWrite \/ LiveFails \/ GapAges \/ \E t \in Txs : LiveFetch(t)

LEMMA BesideSteps ==
  ASSUME IndexInv, Beside
  PROVE  (CursorMeansIndexed /\ WalkAccounted)'
<1>1. CASE LiveWrite
  <2>1. live \in [tx : Txs, at : Nat, waits : BOOLEAN] /\ cursor \in Nat
    BY <1>1 DEF IndexInv, TypeOK, LiveWrite
  <2>2. live.tx \in Txs /\ live.at \in Nat /\ 0 \in Nat
    BY <2>1
  <2>3. Store(live.tx, live.at, "confirmed", 0)
    BY <1>1 DEF LiveWrite
  <2>4. /\ cursor' = (IF 0 > cursor THEN 0 ELSE cursor)
        /\ \A u \in Txs : rows[u].at # 0 => rows'[u].at # 0
        /\ \A u \in Txs : rows[u].at # 0 /\ rows[u].commitment = "finalized" => rows'[u].commitment = "finalized"
    BY <2>2, <2>3, WriteKeeps DEF IndexInv
  <2> QED BY <1>1, <2>1, <2>4, BesideThePass DEF RowsKept, SameWorld, LiveWrite, world
<1>2. CASE LiveFails \/ GapAges \/ \E t \in Txs : LiveFetch(t)
  BY <1>2, BesideThePass DEF RowsKept, SameWorld, LiveFails, GapAges, LiveFetch, world
<1> QED BY <1>1, <1>2 DEF Beside

\* The walk has just been listed: what it has not seen to is not behind it.
LEMMA ListStep ==
  ASSUME IndexInv, List
  PROVE  (CursorMeansIndexed /\ WalkAccounted)'
<1>1. /\ walk \in Passes /\ walk.final \in Nat /\ walk.final <= rooted /\ rooted \in Nat /\ rooted <= Len(chain)
      /\ Len(chain) \in Nat /\ cursor \in Nat /\ walk.upto = 0
  BY SlotTypes DEF IndexInv, WalkAccounted, TypeOK, List
<1>2. /\ walk'.at = "walking" /\ walk'.final = walk.final /\ walk'.seen = chain /\ walk'.next = cursor + 1
      /\ walk'.have = Stored(rows) /\ walk'.promote = walk.promote /\ walk'.upto = walk.upto
      /\ SameWorld /\ rows' = rows /\ cursor' = cursor
  BY <1>1 DEF List, Passes, SameWorld, world
<1>3. CursorMeansIndexed'
  BY <1>2, CursorKept DEF IndexInv, RowsKept
<1>4. \A s \in 1..walk.final : s <= cursor => SeenTo(s)'
  BY <1>1, <1>2 DEF SeenTo, SameWorld, IndexInv, CursorMeansIndexed
<1>5. \A t \in walk'.have : rows'[t].at # 0
  BY <1>2 DEF Stored
<1>6. \A s \in 1..walk.final : s < cursor + 1 => s <= cursor
  BY <1>1
<1>7. OnTheWay'
  BY <1>1, <1>2, <1>4, <1>5, <1>6 DEF OnTheWay, SameWorld
<1> QED BY <1>1, <1>2, <1>3, <1>7 DEF WalkAccounted, SameWorld

\* A stored transaction goes by.
LEMMA KnownStep ==
  ASSUME IndexInv, PassKnown
  PROVE  (CursorMeansIndexed /\ WalkAccounted)'
<1>1. /\ walk \in Passes /\ walk.final \in Nat /\ walk.final <= rooted /\ rooted \in Nat
      /\ cursor \in Nat /\ walk.upto \in Nat /\ walk.next \in Nat \ {0} /\ OnTheWay
  BY SlotTypes DEF IndexInv, WalkAccounted, TypeOK, PassKnown
<1>2. /\ walk'.at = "walking" /\ walk'.final = walk.final /\ walk'.seen = walk.seen /\ walk'.next = walk.next + 1
      /\ walk'.have = walk.have
      /\ walk'.promote = (IF InFinalSlot THEN walk.promote \cup {walk.seen[walk.next]} ELSE walk.promote)
      /\ walk'.upto = (IF InFinalSlot THEN walk.next ELSE walk.upto)
      /\ SameWorld /\ rows' = rows /\ cursor' = cursor
  BY <1>1 DEF PassKnown, Passes, SameWorld, world
<1>3. CursorMeansIndexed'
  BY <1>2, CursorKept DEF IndexInv, RowsKept
<1>4. \A s \in 1..walk.final : SeenTo(s) => SeenTo(s)'
  BY <1>2 DEF SeenTo, SameWorld
<1>5. ASSUME NEW s \in 1..walk.final, s = walk.next PROVE SeenTo(s)'
  <2>1. walk.next \in 1..walk.final
    BY <1>5
  <2>2. walk.seen[walk.next] = chain[walk.next] /\ rows[walk.seen[walk.next]].at # 0
    BY <1>1, <2>1 DEF OnTheWay, PassKnown, Known
  <2> QED BY <1>2, <1>5, <2>2 DEF SeenTo, SameWorld, InFinalSlot
<1>6. \A s \in 1..walk.final : s < walk.next + 1 => s < walk.next \/ s = walk.next
  BY <1>1
<1>7. \A s \in 1..walk'.final : s < walk'.next => SeenTo(s)'
  BY <1>1, <1>2, <1>4, <1>5, <1>6 DEF OnTheWay
<1>8. walk'.upto < walk'.next /\ walk'.upto <= walk'.final
  BY <1>1, <1>2 DEF OnTheWay, InFinalSlot
<1>9. OnTheWay'
  BY <1>1, <1>2, <1>7, <1>8 DEF OnTheWay, SameWorld
<1> QED BY <1>1, <1>2, <1>3, <1>9 DEF WalkAccounted, SameWorld

\* A request for the next transaction, answered or not.
Fetches == FetchNext \/ (NotAvailable /\ walk.at = "walking")

LEMMA FetchStep ==
  ASSUME IndexInv, Fetches
  PROVE  (CursorMeansIndexed /\ WalkAccounted)'
<1>1. walk \in Passes /\ walk.final <= rooted /\ OnTheWay
  BY DEF IndexInv, WalkAccounted, TypeOK, Fetches, FetchNext
<1>2. /\ walk'.at \in {"walking", "stopped"} /\ walk'.final = walk.final /\ walk'.seen = walk.seen
      /\ walk'.next = walk.next /\ walk'.have = walk.have /\ walk'.promote = walk.promote
      /\ walk'.upto = walk.upto /\ SameWorld /\ rows' = rows /\ cursor' = cursor
  BY <1>1 DEF Fetches, FetchNext, NotAvailable, Passes, SameWorld, world
<1>3. CursorMeansIndexed'
  BY <1>2, CursorKept DEF IndexInv, RowsKept
<1>4. \A s \in 1..walk.final : SeenTo(s) => SeenTo(s)'
  BY <1>2 DEF SeenTo, SameWorld
<1>5. OnTheWay'
  BY <1>1, <1>2, <1>4 DEF OnTheWay, SameWorld
<1> QED BY <1>1, <1>2, <1>3, <1>5 DEF WalkAccounted, SameWorld

\* What a row is after it was promoted or left alone.
LEMMA PromotedOrNot ==
  ASSUME TypeOK, NEW S \in SUBSET Txs,
         rows' = [t \in Txs |-> IF t \in S THEN Promoted(rows[t], "finalized") ELSE rows[t]]
  PROVE  /\ RowsKept
         /\ \A t \in S : rows'[t].commitment = "finalized"
<1>1. ASSUME NEW t \in Txs
      PROVE  /\ Promoted(rows[t], "finalized").at = rows[t].at
             /\ Promoted(rows[t], "finalized").commitment = "finalized"
  <2>1. rows[t] \in Rows
    BY DEF TypeOK
  <2> QED BY <2>1 DEF Promoted, Rows
<1> QED BY <1>1 DEF RowsKept

\* The batch is promoted, and the cursor follows to the last slot it covers.
LEMMA FlushStep ==
  ASSUME IndexInv, Flush
  PROVE  (CursorMeansIndexed /\ WalkAccounted)'
<1>1. /\ walk \in Passes /\ walk.final \in Nat /\ walk.final <= rooted /\ rooted \in Nat
      /\ cursor \in Nat /\ cursor <= rooted /\ walk.upto \in Nat /\ walk.next \in Nat \ {0}
      /\ walk.at \in {"walking", "stopped"} /\ walk.promote \in SUBSET Txs
      /\ \A s \in 1..rooted : chain[s] \in Txs
  BY SlotTypes DEF IndexInv, WalkAccounted, TypeOK, Flush
<1>2. OnTheWay
  BY <1>1 DEF IndexInv, WalkAccounted
<1>3. /\ walk'.at = walk.at /\ walk'.final = walk.final /\ walk'.seen = walk.seen /\ walk'.next = walk.next
      /\ walk'.have = walk.have /\ walk'.promote = {} /\ walk'.upto = 0 /\ SameWorld
      /\ cursor' = (IF walk.upto > cursor THEN walk.upto ELSE cursor)
  BY <1>1 DEF Flush, Passes, SameWorld, world, Advanced
<1>4. RowsKept /\ \A t \in walk.promote \cap Stored(rows) : rows'[t].commitment = "finalized"
  <2>1. walk.promote \cap Stored(rows) \in SUBSET Txs
    BY <1>1
  <2> QED BY <2>1, PromotedOrNot DEF Flush, IndexInv
<1>5. ASSUME NEW s \in 1..walk.final, s < walk.next
      PROVE  rows'[chain[s]].at # 0 /\ rows'[chain[s]].commitment = "finalized"
  <2>1. s \in 1..rooted /\ chain[s] \in Txs
    BY <1>1
  <2>2. SeenTo(s)
    BY <1>2, <1>5 DEF OnTheWay
  <2>3. CASE rows[chain[s]].commitment = "finalized"
    BY <1>4, <2>1, <2>2, <2>3 DEF RowsKept, SeenTo
  <2>4. CASE chain[s] \in walk.promote
    <3>1. chain[s] \in walk.promote \cap Stored(rows)
      BY <2>1, <2>2, <2>4 DEF SeenTo, Stored
    <3> QED BY <1>4, <2>1, <2>2, <3>1 DEF RowsKept, SeenTo
  <2> QED BY <2>2, <2>3, <2>4 DEF SeenTo
<1>6. CursorMeansIndexed'
  <2>1. cursor' <= rooted'
    BY <1>1, <1>2, <1>3 DEF OnTheWay, SameWorld
  <2>2. ASSUME NEW s \in 1..cursor' PROVE rows'[chain[s]].at # 0 /\ rows'[chain[s]].commitment = "finalized"
    <3>1. CASE s <= cursor
      <4>1. s \in 1..cursor /\ s \in 1..rooted
        BY <1>1, <3>1
      <4> QED BY <1>1, <1>4, <4>1 DEF RowsKept, IndexInv, CursorMeansIndexed
    <3>2. CASE s > cursor
      <4>1. s <= walk.upto
        BY <1>1, <1>3, <3>2
      <4>2. s \in 1..walk.final /\ s < walk.next
        BY <1>1, <1>2, <4>1 DEF OnTheWay
      <4> QED BY <1>5, <4>2
    <3> QED BY <1>1, <3>1, <3>2
  <2> QED BY <1>3, <2>1, <2>2 DEF CursorMeansIndexed, SameWorld
<1>7. OnTheWay'
  <2>1. \A s \in 1..walk.final : s < walk.next => SeenTo(s)'
    BY <1>3, <1>5 DEF SeenTo, SameWorld
  <2>2. \A t \in walk.have : rows'[t].at # 0
    <3>1. walk.have \in SUBSET Txs
      BY SlotTypes DEF IndexInv
    <3> QED BY <1>2, <1>4, <3>1 DEF OnTheWay, RowsKept
  <2> QED BY <1>1, <1>2, <1>3, <2>1, <2>2 DEF OnTheWay, SameWorld
<1> QED BY <1>1, <1>3, <1>6, <1>7 DEF WalkAccounted, SameWorld

\* A transaction is stored; in a finalized slot the cursor moves to it.
LEMMA ApplyStep ==
  ASSUME IndexInv, Apply
  PROVE  (CursorMeansIndexed /\ WalkAccounted)'
<1> DEFINE t == walk.seen[walk.next]
           slot == IF InFinalSlot THEN walk.next ELSE 0
<1>1. /\ walk \in Passes /\ walk.final \in Nat /\ walk.final <= rooted /\ rooted \in Nat
      /\ cursor \in Nat /\ cursor <= rooted /\ walk.next \in Nat \ {0} /\ walk.got \in Nat /\ walk.got # 0
      /\ walk.seen \in Seq(Txs) /\ walk.promote = {} /\ walk.upto = 0 /\ walk.have \in SUBSET Txs
      /\ \A s \in 1..rooted : chain[s] \in Txs
  BY SlotTypes DEF IndexInv, WalkAccounted, TypeOK, Apply, Flushed
<1>2. OnTheWay
  BY DEF IndexInv, WalkAccounted, Apply
<1>3. /\ walk'.at = "walking" /\ walk'.final = walk.final /\ walk'.seen = walk.seen /\ walk'.next = walk.next + 1
      /\ walk'.have = walk.have /\ walk'.promote = {} /\ walk'.upto = 0 /\ SameWorld
  BY <1>1 DEF Apply, Passes, SameWorld, world
<1>4. /\ cursor' = (IF slot > cursor THEN slot ELSE cursor) /\ RowsKept
      /\ rows'[t].at # 0 /\ (InFinalSlot => rows'[t].commitment = "finalized")
  <2>1. t \in Txs /\ slot \in Nat
    BY <1>1 DEF Apply, More
  <2>2. Commitment \in {"confirmed", "finalized"} /\ (InFinalSlot => Commitment = "finalized")
    BY DEF Commitment
  <2>3. Store(t, walk.got, Commitment, slot)
    BY DEF Apply, Write
  <2>4. TypeOK
    BY DEF IndexInv
  <2> HIDE DEF t, slot
  <2> QED BY <1>1, <2>1, <2>2, <2>3, <2>4, WriteKeeps DEF RowsKept
<1>5. ASSUME NEW s \in 1..walk.final, s <= walk.next
      PROVE  rows'[chain[s]].at # 0 /\ rows'[chain[s]].commitment = "finalized"
  <2>1. s \in 1..rooted /\ chain[s] \in Txs
    BY <1>1
  <2>2. CASE s < walk.next
    <3>1. SeenTo(s)
      BY <1>2, <1>5, <2>2 DEF OnTheWay
    <3> QED BY <1>1, <1>4, <2>1, <3>1 DEF RowsKept, SeenTo
  <2>3. CASE s = walk.next
    <3>1. t = chain[s] /\ InFinalSlot
      BY <1>2, <2>3 DEF OnTheWay, InFinalSlot
    <3> QED BY <1>4, <3>1
  <2> QED BY <1>1, <1>5, <2>2, <2>3
<1>6. CursorMeansIndexed'
  <2>1. cursor' <= rooted'
    BY <1>1, <1>3, <1>4 DEF SameWorld, InFinalSlot
  <2>2. ASSUME NEW s \in 1..cursor' PROVE rows'[chain[s]].at # 0 /\ rows'[chain[s]].commitment = "finalized"
    <3>1. CASE s <= cursor
      <4>1. s \in 1..cursor /\ s \in 1..rooted
        BY <1>1, <3>1
      <4> QED BY <1>1, <1>4, <4>1 DEF RowsKept, IndexInv, CursorMeansIndexed
    <3>2. CASE s > cursor
      <4>1. s \in 1..walk.final /\ s <= walk.next
        BY <1>1, <1>4, <3>2 DEF InFinalSlot
      <4> QED BY <1>5, <4>1
    <3> QED BY <1>1, <3>1, <3>2
  <2> QED BY <1>3, <2>1, <2>2 DEF CursorMeansIndexed, SameWorld
<1>7. OnTheWay'
  <2>1. ASSUME NEW s \in 1..walk.final, s < walk.next + 1 PROVE SeenTo(s)'
    <3>1. s <= walk.next
      BY <1>1, <2>1
    <3> QED BY <1>3, <1>5, <3>1 DEF SeenTo, SameWorld
  <2>2. \A u \in walk.have : rows'[u].at # 0
    BY <1>1, <1>2, <1>4 DEF OnTheWay, RowsKept
  <2> QED BY <1>1, <1>2, <1>3, <2>1, <2>2 DEF OnTheWay, SameWorld
<1> QED BY <1>1, <1>3, <1>6, <1>7 DEF WalkAccounted, SameWorld

\* Only a transaction the cluster no longer has is up for dropping, and none of those is behind the cursor.
LEMMA StaleStep ==
  ASSUME IndexInv, CheckStale
  PROVE  (CursorMeansIndexed /\ WalkAccounted)'
<1>1. /\ walk \in Passes /\ walk.final <= rooted /\ cursor \in Nat /\ rooted \in Nat /\ cursor <= rooted
      /\ rooted <= Len(chain) /\ Len(chain) \in Nat /\ chain \in Seq(Txs)
      /\ \A s \in 1..rooted : chain[s] \in Txs
  BY SlotTypes DEF IndexInv, WalkAccounted, TypeOK
<1>2. NowFinal \in SUBSET Txs /\ Gone \in SUBSET Txs
  BY DEF NowFinal, Gone, Stale, Stored
<1>3. RowsKept
  BY <1>2, PromotedOrNot DEF CheckStale, IndexInv
<1>4. /\ walk'.at \in {"gaps", "dropping"} /\ walk'.final = walk.final /\ walk'.gone = Gone
      /\ SameWorld /\ cursor' = cursor
  BY <1>1 DEF CheckStale, Passes, SameWorld, world
<1>5. CursorMeansIndexed'
  BY <1>3, <1>4, CursorKept DEF IndexInv
<1>6. ASSUME NEW s \in 1..cursor PROVE chain[s] \notin Gone
  <2>1. s \in 1..rooted /\ s \in DOMAIN chain
    BY <1>1
  <2>2. chain[s] \in Txs /\ chain[s] \in Landed
    BY <1>1, <2>1 DEF Landed
  <2>3. SlotOf(chain[s]) # 0
    BY <2>2, SlotOfType DEF IndexInv
  <2> QED BY <2>3 DEF Gone
<1> QED BY <1>1, <1>4, <1>5, <1>6 DEF WalkAccounted, SameWorld

\* What is up for dropping stays so until the rebuild.
LEMMA DropStep ==
  ASSUME IndexInv, DropGone
  PROVE  (CursorMeansIndexed /\ WalkAccounted)'
<1>1. walk \in Passes /\ walk.final <= rooted /\ \A s \in 1..cursor : chain[s] \notin walk.gone
  BY DEF IndexInv, WalkAccounted, TypeOK, DropGone
<1>2. /\ walk'.at = "rebuilding" /\ walk'.final = walk.final /\ walk'.gone = walk.gone
      /\ SameWorld /\ rows' = rows /\ cursor' = cursor
  BY <1>1 DEF DropGone, Passes, SameWorld, world
<1>3. CursorMeansIndexed'
  BY <1>2, CursorKept DEF IndexInv, RowsKept
<1> QED BY <1>1, <1>2, <1>3 DEF WalkAccounted, SameWorld

LEMMA RebuildStep ==
  ASSUME IndexInv, RebuildGone
  PROVE  (CursorMeansIndexed /\ WalkAccounted)'
<1>1. /\ walk \in Passes /\ walk.final <= rooted /\ cursor \in Nat /\ rooted \in Nat /\ cursor <= rooted
      /\ \A s \in 1..rooted : chain[s] \in Txs
      /\ \A s \in 1..cursor : chain[s] \notin walk.gone
  BY SlotTypes DEF IndexInv, WalkAccounted, TypeOK, RebuildGone
<1>2. walk'.at = "gaps" /\ walk'.final = walk.final /\ SameWorld /\ cursor' = cursor
  BY <1>1 DEF RebuildGone, Passes, SameWorld, world
<1>3. \A s \in 1..cursor : chain[s] \in Txs /\ rows'[chain[s]] = rows[chain[s]]
  BY <1>1 DEF RebuildGone
<1>4. CursorMeansIndexed'
  BY <1>1, <1>2, <1>3 DEF CursorMeansIndexed, IndexInv, SameWorld
<1> QED BY <1>1, <1>2, <1>4 DEF WalkAccounted, SameWorld

-----------------------------------------------------------------------------
(* The theorems.                                                           *)

LEMMA IndexInvStarts ==
  Init => IndexInv
<1> SUFFICES ASSUME Init PROVE IndexInv
  OBVIOUS
<1> USE IndexerAssumption
<1>1. /\ <<>> \in Seq(Txs) /\ Len(<<>>) = 0 /\ NoRow \in Rows
      /\ walk = NoPass /\ chain = <<>> /\ rooted = 0 /\ cursor = 0
  BY DEF Init, NoRow, Rows
<1>2. TypeOK
  BY <1>1, PassType DEF Init, TypeOK
<1>3. CursorMeansIndexed
  BY <1>1 DEF CursorMeansIndexed
<1>4. WalkAccounted
  BY <1>1, PassType DEF WalkAccounted
<1> QED BY <1>2, <1>3, <1>4 DEF IndexInv

LEMMA IndexInvHolds ==
  IndexInv /\ [Next]_vars => IndexInv'
<1> SUFFICES ASSUME IndexInv, [Next]_vars PROVE IndexInv'
  OBVIOUS
<1>1. CASE Next
  <2>1. TypeOK'
    BY <1>1, TypeHolds DEF IndexInv
  <2>2. (CursorMeansIndexed /\ WalkAccounted)'
    <3>1. CASE ClusterStep
      BY <3>1, ClusterAccounted
    <3>2. CASE Beside
      BY <3>2, BesideSteps
    <3>3. CASE OffTheWalk
      BY <3>3, ElsewhereSteps
    <3>4. CASE Fetches
      BY <3>4, FetchStep
    <3>5. CASE List
      BY <3>5, ListStep
    <3>6. CASE PassKnown
      BY <3>6, KnownStep
    <3>7. CASE Flush
      BY <3>7, FlushStep
    <3>8. CASE Apply
      BY <3>8, ApplyStep
    <3>9. CASE CheckStale
      BY <3>9, StaleStep
    <3>10. CASE DropGone
      BY <3>10, DropStep
    <3>11. CASE RebuildGone
      BY <3>11, RebuildStep
    <3>12. ClusterStep \/ Beside \/ OffTheWalk \/ Fetches
            \/ List \/ PassKnown \/ Flush \/ Apply \/ CheckStale \/ DropGone \/ RebuildGone
      <4>1. NotAvailable => walk.at = "walking" \/ walk.at = "filling"
        BY DEF NotAvailable
      <4> QED BY <1>1, <4>1 DEF Next, PassStep, ClusterStep, Beside, OffTheWalk, Fetches
    <3> QED BY <3>1, <3>2, <3>3, <3>4, <3>5, <3>6, <3>7, <3>8, <3>9, <3>10, <3>11, <3>12
  <2> QED BY <2>1, <2>2 DEF IndexInv
<1>2. CASE UNCHANGED vars
  BY <1>2 DEF IndexInv, TypeOK, CursorMeansIndexed, WalkAccounted, OnTheWay, SeenTo, vars
<1> QED BY <1>1, <1>2

\* The database, the pass and the live path stay within their types.
THEOREM TypeOKHolds ==
  Spec => []TypeOK
<1>1. IndexInv => TypeOK
  BY DEF IndexInv
<1> QED BY <1>1, IndexInvStarts, IndexInvHolds, PTL DEF Spec

\* The cursor never passes a transaction that is missing or not final, however many transactions, forks,
\* restarts, failed passes and withheld answers there are (the promise of idx_cursor).
THEOREM CursorMeansIndexedHolds ==
  Spec => []CursorMeansIndexed
<1>1. IndexInv => CursorMeansIndexed
  BY DEF IndexInv
<1> QED BY <1>1, IndexInvStarts, IndexInvHolds, PTL DEF Spec

-----------------------------------------------------------------------------
(* The order of the events.                                                *)

\* An event with its sequence number, as Replay orders them.
Events == [tx : Txs, seq : Nat]
Earlier(e, f) == e.seq < f.seq \/ (e.seq = f.seq /\ e.tx < f.tx)
EventsOf(r) == {[tx |-> t, seq |-> r[t].at] : t \in Stored(r)}
InOrder(E) == {s \in [1..Cardinality(E) -> E] : \A i, j \in DOMAIN s : i < j => Earlier(s[i], s[j])}

\* Of two events exactly one is earlier.
LEMMA EarlierIsTotal ==
  /\ \A e \in Events : ~Earlier(e, e)
  /\ \A e, f \in Events : e # f => Earlier(e, f) \/ Earlier(f, e)
  /\ \A e, f, g \in Events : Earlier(e, f) /\ Earlier(f, g) => Earlier(e, g)
<1>1. \A e \in Events : e = [tx |-> e.tx, seq |-> e.seq] /\ e.tx \in Int /\ e.seq \in Int
  BY IndexerAssumption DEF Events, Txs
<1>2. \A e \in Events : ~Earlier(e, e)
  BY <1>1 DEF Earlier
<1>3. ASSUME NEW e \in Events, NEW f \in Events, e # f
      PROVE  Earlier(e, f) \/ Earlier(f, e)
  <2>1. e.tx # f.tx \/ e.seq # f.seq
    BY <1>1, <1>3
  <2> QED BY <1>1, <2>1 DEF Earlier
<1>4. \A e, f, g \in Events : Earlier(e, f) /\ Earlier(f, g) => Earlier(e, g)
  BY <1>1 DEF Earlier
<1> QED BY <1>2, <1>3, <1>4

\* The events up to and with one of them: their number is its place.
UpTo(E, e) == {f \in E : ~Earlier(e, f)}

LEMMA PlacesGrow ==
  ASSUME NEW E \in SUBSET Events, IsFiniteSet(E)
  PROVE  /\ \A e \in E : Cardinality(UpTo(E, e)) \in 1..Cardinality(E)
         /\ \A e, f \in E : Earlier(e, f) => Cardinality(UpTo(E, e)) < Cardinality(UpTo(E, f))
<1>1. ASSUME NEW e \in E
      PROVE  /\ UpTo(E, e) \in SUBSET E /\ IsFiniteSet(UpTo(E, e))
             /\ Cardinality(UpTo(E, e)) \in 1..Cardinality(E)
  <2>1. UpTo(E, e) \in SUBSET E /\ e \in UpTo(E, e)
    BY EarlierIsTotal DEF UpTo
  <2>2. IsFiniteSet(UpTo(E, e)) /\ Cardinality(UpTo(E, e)) <= Cardinality(E)
    BY <2>1, FS_Subset
  <2>3. Cardinality(UpTo(E, e)) \in Nat /\ Cardinality(E) \in Nat /\ Cardinality(UpTo(E, e)) # 0
    BY <2>1, <2>2, FS_CardinalityType, FS_EmptySet
  <2> QED BY <2>1, <2>2, <2>3
<1>2. ASSUME NEW e \in E, NEW f \in E, Earlier(e, f)
      PROVE  Cardinality(UpTo(E, e)) < Cardinality(UpTo(E, f))
  <2>1. UpTo(E, e) \in SUBSET UpTo(E, f)
    <3>1. ASSUME NEW g \in E, Earlier(f, g) PROVE Earlier(e, g)
      BY <1>2, <3>1, EarlierIsTotal
    <3> QED BY <3>1 DEF UpTo
  <2>2. f \in UpTo(E, f) /\ f \notin UpTo(E, e)
    BY <1>2, EarlierIsTotal DEF UpTo
  <2>3. UpTo(E, f) # UpTo(E, e)
    BY <2>2
  <2>4. /\ Cardinality(UpTo(E, e)) <= Cardinality(UpTo(E, f))
        /\ Cardinality(UpTo(E, f)) = Cardinality(UpTo(E, e)) => UpTo(E, f) = UpTo(E, e)
    BY <1>1, <2>1, FS_Subset
  <2>5. Cardinality(UpTo(E, e)) \in Int /\ Cardinality(UpTo(E, f)) \in Int
    BY <1>1
  <2> QED BY <2>3, <2>4, <2>5
<1> QED BY <1>1, <1>2

\* A finite set of events can be put in order: each at its place.
LEMMA AnOrderExists ==
  ASSUME NEW E \in SUBSET Events, IsFiniteSet(E)
  PROVE  \E s : s \in InOrder(E)
<1> DEFINE n == Cardinality(E)
           place == [e \in E |-> Cardinality(UpTo(E, e))]
<1>1. n \in Nat /\ IsFiniteSet(1..n) /\ Cardinality(1..n) = n
  BY FS_CardinalityType, FS_Interval
<1>2. \A e \in E : place[e] \in 1..n
  BY PlacesGrow
<1>3. \A e, f \in E : Earlier(e, f) => place[e] < place[f]
  BY PlacesGrow
<1>4. place \in [E -> 1..n]
  BY <1>2
<1> HIDE DEF place
<1>5. ASSUME NEW e \in E, NEW f \in E, e # f PROVE place[e] # place[f]
  <2>1. Earlier(e, f) \/ Earlier(f, e)
    BY <1>5, EarlierIsTotal
  <2> QED BY <1>1, <1>2, <1>3, <2>1
<1>6. place \in Injection(E, 1..n)
  BY <1>4, <1>5 DEF Injection, IsInjective
<1>7. place \in Surjection(E, 1..n)
  BY <1>1, <1>6, FS_Injection
<1>8. \A i \in 1..n : \E e \in E : place[e] = i
  BY <1>7 DEF Surjection
<1> DEFINE s == [i \in 1..n |-> CHOOSE e \in E : place[e] = i]
<1>9. ASSUME NEW i \in 1..n PROVE s[i] \in E /\ place[s[i]] = i
  BY <1>8
<1>10. s \in [1..n -> E] /\ DOMAIN s = 1..n
  BY <1>9
<1> HIDE DEF s
<1>11. ASSUME NEW i \in DOMAIN s, NEW j \in DOMAIN s, i < j PROVE Earlier(s[i], s[j])
  <2>1. s[i] \in E /\ s[j] \in E /\ place[s[i]] = i /\ place[s[j]] = j /\ i \in Int /\ j \in Int
    BY <1>1, <1>9, <1>10
  <2>2. s[i] # s[j] /\ ~Earlier(s[j], s[i])
    BY <1>3, <1>11, <2>1
  <2> QED BY <2>1, <2>2, EarlierIsTotal
<1>12. s \in InOrder(E)
  BY <1>10, <1>11 DEF InOrder
<1> QED BY <1>12

\* In an order, an event stands at its place.
LEMMA OrderIsPlaces ==
  ASSUME NEW E \in SUBSET Events, IsFiniteSet(E), NEW s \in InOrder(E)
  PROVE  /\ \A i \in 1..Cardinality(E) : s[i] \in E /\ Cardinality(UpTo(E, s[i])) = i
         /\ \A e \in E : \E i \in 1..Cardinality(E) : s[i] = e
<1> DEFINE n == Cardinality(E)
<1>1. n \in Nat /\ IsFiniteSet(1..n) /\ Cardinality(1..n) = n
  BY FS_CardinalityType, FS_Interval
<1>2. s \in [1..n -> E] /\ \A i, j \in 1..n : i < j => Earlier(s[i], s[j])
  BY DEF InOrder
<1> HIDE DEF n
<1>3. ASSUME NEW i \in 1..n, NEW j \in 1..n, i # j PROVE s[i] # s[j]
  <2>1. Earlier(s[i], s[j]) \/ Earlier(s[j], s[i])
    BY <1>1, <1>2, <1>3
  <2> QED BY <1>2, <2>1, EarlierIsTotal
<1>4. s \in Injection(1..n, E)
  BY <1>2, <1>3 DEF Injection, IsInjective
<1>5. s \in Surjection(1..n, E)
  BY <1>1, <1>4, FS_Injection DEF n
<1>6. \A e \in E : \E i \in 1..n : s[i] = e
  BY <1>5 DEF Surjection
<1>7. ASSUME NEW i \in 1..n PROVE Cardinality(UpTo(E, s[i])) = i
  <2> DEFINE upto == UpTo(E, s[i])
             first == [j \in 1..i |-> s[j]]
  <2>1. i \in Nat /\ i <= n /\ \A j \in 1..i : j \in 1..n
    BY <1>1
  <2>2. ASSUME NEW j \in 1..i PROVE s[j] \in upto
    <3>1. s[j] \in E /\ s[i] \in E /\ (j = i \/ j < i)
      BY <1>2, <2>1
    <3>2. CASE j = i
      BY <3>1, <3>2, EarlierIsTotal DEF UpTo
    <3>3. CASE j < i
      <4>1. Earlier(s[j], s[i])
        BY <1>2, <2>1, <3>3
      <4>2. ~Earlier(s[i], s[j])
        BY <3>1, <4>1, EarlierIsTotal
      <4> QED BY <3>1, <4>2 DEF UpTo
    <3> QED BY <3>1, <3>2, <3>3
  <2>3. ASSUME NEW e \in upto PROVE \E j \in 1..i : s[j] = e
    <3>1. e \in E /\ ~Earlier(s[i], e)
      BY DEF UpTo
    <3>2. PICK j \in 1..n : s[j] = e
      BY <1>6, <3>1
    <3>3. ~(i < j)
      BY <1>2, <3>1, <3>2
    <3> QED BY <2>1, <3>2, <3>3
  <2> HIDE DEF upto
  <2>4. first \in [1..i -> upto]
    BY <2>2
  <2>5. first \in Injection(1..i, upto)
    <3>1. \A j, k \in 1..i : first[j] = first[k] => j = k
      BY <1>3, <2>1
    <3> HIDE DEF first
    <3> QED BY <2>4, <3>1 DEF Injection, IsInjective
  <2>6. first \in Surjection(1..i, upto)
    <3>1. \A e \in upto : \E j \in 1..i : first[j] = e
      BY <2>3
    <3> HIDE DEF first
    <3> QED BY <2>4, <3>1 DEF Surjection
  <2>7. ExistsBijection(1..i, upto)
    <3> HIDE DEF first
    <3> QED BY <2>5, <2>6 DEF Bijection, ExistsBijection
  <2>8. Cardinality(upto) = i
    BY <2>1, <2>7, FS_CountingElements
  <2> QED BY <2>8 DEF upto
<1> QED BY <1>2, <1>6, <1>7 DEF n

\* So there is one order only.
LEMMA OneOrder ==
  ASSUME NEW E \in SUBSET Events, IsFiniteSet(E), NEW s \in InOrder(E), NEW u \in InOrder(E)
  PROVE  s = u
<1> DEFINE n == Cardinality(E)
<1>1. s \in [1..n -> E] /\ u \in [1..n -> E]
  BY DEF InOrder
<1>2. ASSUME NEW i \in 1..n PROVE s[i] = u[i]
  <2>1. s[i] \in E /\ Cardinality(UpTo(E, s[i])) = i
    BY OrderIsPlaces
  <2>2. PICK j \in 1..n : u[j] = s[i]
    BY <2>1, OrderIsPlaces
  <2>3. Cardinality(UpTo(E, u[j])) = j
    BY OrderIsPlaces
  <2> QED BY <2>1, <2>2, <2>3
<1> HIDE DEF n
<1>3. DOMAIN s = 1..n /\ DOMAIN u = 1..n /\ s = [i \in 1..n |-> s[i]] /\ u = [i \in 1..n |-> u[i]]
  BY <1>1
<1> QED BY <1>2, <1>3, Zenon

-----------------------------------------------------------------------------
(* The projections.                                                        *)

LEMMA ReplayIsChosen ==
  ASSUME NEW r
  PROVE  Replay(r) = CHOOSE s \in [1..Cardinality(EventsOf(r)) -> EventsOf(r)] :
                       \A i, j \in DOMAIN s : i < j => Earlier(s[i], s[j])
BY DEF Replay, EventsOf, Earlier

LEMMA EventsAreFinite ==
  ASSUME NEW r \in [Txs -> Rows]
  PROVE  EventsOf(r) \in SUBSET Events /\ IsFiniteSet(EventsOf(r))
<1> DEFINE E == EventsOf(r)
           emitted == [t \in Stored(r) |-> [tx |-> t, seq |-> r[t].at]]
<1>1. IsFiniteSet(Txs)
  BY IndexerAssumption, FS_Interval DEF Txs
<1>2. IsFiniteSet(Stored(r))
  BY <1>1, FS_Subset DEF Stored
<1>3. E = {emitted[t] : t \in Stored(r)}
  BY DEF EventsOf
<1>4. emitted \in Surjection(Stored(r), E)
  BY <1>3 DEF Surjection
<1>5. IsFiniteSet(E)
  BY <1>2, <1>4, FS_Surjection
<1>6. E \in SUBSET Events
  BY DEF EventsOf, Events, Stored, Rows
<1> QED BY <1>5, <1>6

\* The replay is the one order of the stored events.
LEMMA ReplayIsTheOrder ==
  ASSUME NEW r \in [Txs -> Rows]
  PROVE  /\ Replay(r) \in InOrder(EventsOf(r))
         /\ \A s \in InOrder(EventsOf(r)) : s = Replay(r)
<1> DEFINE E == EventsOf(r)
<1>1. E \in SUBSET Events /\ IsFiniteSet(E)
  BY EventsAreFinite
<1>2. PICK s : s \in InOrder(E)
  BY <1>1, AnOrderExists
<1>3. \E u \in [1..Cardinality(E) -> E] : \A i, j \in DOMAIN u : i < j => Earlier(u[i], u[j])
  BY <1>2 DEF InOrder
<1>4. Replay(r) \in InOrder(E)
  BY <1>3, ReplayIsChosen DEF InOrder
<1> HIDE DEF E
<1>5. \A u \in InOrder(E) : u = Replay(r)
  BY <1>1, <1>4, OneOrder
<1> QED BY <1>4, <1>5 DEF E

\* What changes no place changes no replay.
LEMMA SamePlaces ==
  ASSUME NEW r \in [Txs -> Rows], NEW q \in [Txs -> Rows], \A t \in Txs : q[t].at = r[t].at
  PROVE  Replay(q) = Replay(r)
<1>1. Stored(q) = Stored(r)
  BY DEF Stored
<1>2. \A t \in Stored(r) : q[t].at = r[t].at
  BY DEF Stored
<1>3. EventsOf(q) = EventsOf(r)
  BY <1>1, <1>2 DEF EventsOf
<1> QED BY <1>3, ReplayIsChosen

\* The event of a transaction that was not stored, newer than all that are: the replay ends with it.
LEMMA NewestEndsTheReplay ==
  ASSUME TypeOK, NEW t \in Txs, NEW at \in Nat \ {0}, NEW commitment,
         rows[t].at = 0, NEW r \in [Txs -> Rows],
         r = [rows EXCEPT ![t] = [at |-> at, commitment |-> commitment]],
         \A i \in DOMAIN Replay(rows) : Replay(rows)[i].seq < at
  PROVE  Append(Replay(rows), [tx |-> t, seq |-> at]) = Replay(r)
<1> DEFINE E == EventsOf(rows)
           e == [tx |-> t, seq |-> at]
           n == Cardinality(E)
           replayed == Replay(rows)
<1>0. rows \in [Txs -> Rows]
  BY DEF TypeOK
<1>1. E \in SUBSET Events /\ IsFiniteSet(E) /\ n \in Nat /\ e \in Events
  BY <1>0, EventsAreFinite, FS_CardinalityType DEF Events
<1>2. EventsOf(r) = E \cup {e} /\ e \notin E
  <2>1. r[t].at = at /\ \A u \in Txs \ {t} : r[u] = rows[u]
    BY <1>0
  <2>2. Stored(r) = Stored(rows) \cup {t} /\ t \notin Stored(rows)
    BY <2>1 DEF Stored
  <2>3. \A u \in Stored(rows) : r[u].at = rows[u].at
    BY <2>1, <2>2 DEF Stored
  <2>4. \A f \in E : f.tx \in Stored(rows)
    BY DEF EventsOf
  <2>5. e \notin E
    BY <2>2, <2>4
  <2>6. ASSUME NEW f PROVE f \in EventsOf(r) <=> f \in E \/ f = e
    <3>1. f \in EventsOf(r) <=> \E u \in Stored(rows) \cup {t} : f = [tx |-> u, seq |-> r[u].at]
      BY <2>2 DEF EventsOf
    <3>2. f \in E <=> \E u \in Stored(rows) : f = [tx |-> u, seq |-> rows[u].at]
      BY DEF EventsOf
    <3> QED BY <2>1, <2>3, <3>1, <3>2
  <2> HIDE DEF E, e
  <2> QED BY <2>5, <2>6
<1>3. Cardinality(EventsOf(r)) = n + 1
  <2> HIDE DEF E, e
  <2>1. Cardinality(E \cup {e}) = Cardinality(E) + 1
    BY <1>1, <1>2, FS_AddElement
  <2> QED BY <1>2, <2>1
<1>4. replayed \in InOrder(E)
  BY <1>0, ReplayIsTheOrder
<1>5. replayed \in [1..n -> E] /\ \A i, j \in 1..n : i < j => Earlier(replayed[i], replayed[j])
  BY <1>4 DEF InOrder
<1>6. \A i \in DOMAIN replayed : replayed[i].seq < at
  OBVIOUS
<1> DEFINE s == Append(replayed, e)
<1> HIDE DEF n, E, e, replayed
<1>7. replayed \in Seq(E \cup {e}) /\ Len(replayed) = n
  <2>1. replayed \in [1..n -> E \cup {e}]
    BY <1>5
  <2> QED BY <1>1, <2>1
<1>8. /\ s \in [1..n + 1 -> E \cup {e}] /\ DOMAIN s = 1..n + 1
      /\ s[n + 1] = e /\ \A i \in 1..n : s[i] = replayed[i]
  <2>1. s \in Seq(E \cup {e}) /\ Len(s) = n + 1
    BY <1>7
  <2>2. s[n + 1] = e /\ \A i \in 1..n : s[i] = replayed[i]
    BY <1>1, <1>7
  <2> HIDE DEF s
  <2> QED BY <2>1, <2>2
<1> HIDE DEF s
<1>9. \A i \in 1..n : Earlier(replayed[i], e)
  BY <1>5, <1>6 DEF Earlier, e
<1>10. ASSUME NEW i \in DOMAIN s, NEW j \in DOMAIN s, i < j PROVE Earlier(s[i], s[j])
  <2>1. i \in 1..n
    BY <1>1, <1>8, <1>10
  <2>2. CASE j \in 1..n
    BY <1>5, <1>8, <1>10, <2>1, <2>2
  <2>3. CASE j = n + 1
    BY <1>8, <1>9, <2>1, <2>3
  <2> QED BY <1>1, <1>8, <2>2, <2>3
<1>11. s \in InOrder(EventsOf(r))
  BY <1>2, <1>3, <1>8, <1>10 DEF InOrder
<1>12. s = Replay(r)
  BY <1>11, ReplayIsTheOrder
<1> QED BY <1>12 DEF s, e, replayed

LEMMA ReplayType ==
  ASSUME NEW r \in [Txs -> Rows]
  PROVE  Replay(r) \in Seq(Events)
<1> DEFINE E == EventsOf(r)
<1>1. E \in SUBSET Events /\ IsFiniteSet(E) /\ Cardinality(E) \in Nat
  BY EventsAreFinite, FS_CardinalityType
<1>2. Replay(r) \in [1..Cardinality(E) -> E]
  BY ReplayIsTheOrder DEF InOrder
<1> HIDE DEF E
<1>3. Replay(r) \in [1..Cardinality(E) -> Events]
  BY <1>1, <1>2
<1> QED BY <1>1, <1>3

\* One sequence of events after another.
LEMMA OneAfterAnother ==
  ASSUME NEW a \in Seq(Events), NEW b \in Seq(Events)
  PROVE  /\ a \o b \in Seq(Events) /\ <<>> \o b = b
         /\ \A e \in Events : Append(b, e) \in Seq(Events)
         /\ \A i \in DOMAIN b : Len(a) + i \in DOMAIN (a \o b) /\ (a \o b)[Len(a) + i] = b[i]
<1>1. a \o b \in Seq(Events) /\ <<>> \o b = b
  BY ConcatProperties, ConcatEmptySeq
<1>2. \A e \in Events : Append(b, e) \in Seq(Events)
  BY AppendProperties
<1>3. \A i \in DOMAIN b : Len(a) + i \in DOMAIN (a \o b) /\ (a \o b)[Len(a) + i] = b[i]
  BY ConcatProperties
<1> QED BY <1>1, <1>2, <1>3

\* An event at the end of the two is at the end of the second.
LEMMA EndOfTheSecond ==
  \A a, b \in Seq(Events) : \A e \in Events : Append(a \o b, e) = a \o Append(b, e)
<1>1. ASSUME NEW a \in Seq(Events), NEW b \in Seq(Events), NEW e \in Events
      PROVE  Append(a \o b, e) = a \o Append(b, e)
  <2>1. a \o b \in Seq(Events) /\ <<e>> \in Seq(Events)
    BY ConcatProperties
  <2>2. Append(a \o b, e) = (a \o b) \o <<e>> /\ Append(b, e) = b \o <<e>>
    BY <2>1, AppendIsConcat
  <2>3. (a \o b) \o <<e>> = a \o (b \o <<e>>)
    BY <2>1, ConcatAssociative
  <2> QED BY <2>2, <2>3
<1> QED BY <1>1

\* The projections, whatever overlapped: something no longer stored, then what is stored, in order.
SurplusAndReplay ==
  /\ surplus \in Seq(Events) /\ kept \in Seq(Events)
  /\ applied = surplus \o Replay(rows)

\* A write leaves them so: an event at the end, or a rebuild.
LEMMA WriteReplays ==
  ASSUME TypeOK, SurplusAndReplay, NEW t \in Txs, NEW at \in Nat \ {0},
         NEW commitment \in {"confirmed", "finalized"}, NEW slot \in Nat,
         Store(t, at, commitment, slot), Project(t, at)
  PROVE  surplus' \in Seq(Events) /\ applied' = surplus' \o Replay(rows')
<1>0. rows \in [Txs -> Rows] /\ rows' \in [Txs -> Rows]
  BY WriteKeeps DEF TypeOK
<1>1. /\ surplus \in Seq(Events) /\ Replay(rows) \in Seq(Events) /\ Replay(rows') \in Seq(Events)
      /\ <<>> \in Seq(Events) /\ [tx |-> t, seq |-> at] \in Events /\ <<>> \o Replay(rows') = Replay(rows')
  <2>1. [tx |-> t, seq |-> at] \in Events
    BY DEF Events
  <2>2. surplus \in Seq(Events) /\ Replay(rows) \in Seq(Events) /\ Replay(rows') \in Seq(Events)
    BY <1>0, ReplayType DEF SurplusAndReplay
  <2> QED BY <2>1, <2>2, OneAfterAnother
<1>2. CASE rows[t].at # 0
  <2>1. rows' = [rows EXCEPT ![t] = Promoted(rows[t], commitment)] /\ applied' = applied /\ surplus' = surplus
    BY <1>2 DEF Store, Project
  <2>2. Promoted(rows[t], commitment).at = rows[t].at
    BY <1>0 DEF Promoted, Rows
  <2>3. \A u \in Txs : rows'[u].at = rows[u].at
    BY <1>0, <2>1, <2>2
  <2>4. Replay(rows') = Replay(rows)
    BY <1>0, <2>3, SamePlaces
  <2> QED BY <1>1, <2>1, <2>4 DEF SurplusAndReplay
<1>3. CASE rows[t].at = 0
  <2>1. /\ rows' = [rows EXCEPT ![t] = [at |-> at, commitment |-> commitment]]
        /\ applied' = AppliedWith(t, at, rows')
        /\ surplus' = IF IsNewest(at) THEN surplus ELSE <<>>
    BY <1>3 DEF Store, Project
  <2>2. CASE IsNewest(at)
    <3>1. \A i \in DOMAIN Replay(rows) : Replay(rows)[i].seq < at
      <4>1. \A i \in DOMAIN Replay(rows) :
              Len(surplus) + i \in DOMAIN applied /\ applied[Len(surplus) + i] = Replay(rows)[i]
        BY <1>1, OneAfterAnother DEF SurplusAndReplay
      <4> QED BY <2>2, <4>1 DEF IsNewest
    <3>2. Append(Replay(rows), [tx |-> t, seq |-> at]) = Replay(rows')
      BY <1>0, <1>3, <2>1, <3>1, NewestEndsTheReplay
    <3>3. Append(surplus \o Replay(rows), [tx |-> t, seq |-> at])
            = surplus \o Append(Replay(rows), [tx |-> t, seq |-> at])
      <4> DEFINE e == [tx |-> t, seq |-> at]
      <4>1. e \in Events /\ surplus \in Seq(Events) /\ Replay(rows) \in Seq(Events)
        BY <1>1
      <4> HIDE DEF e
      <4>2. Append(surplus \o Replay(rows), e) = surplus \o Append(Replay(rows), e)
        BY <4>1, EndOfTheSecond, Zenon
      <4> QED BY <4>2 DEF e
    <3> QED BY <1>1, <2>1, <2>2, <3>2, <3>3 DEF AppliedWith, SurplusAndReplay
  <2>3. CASE ~IsNewest(at)
    BY <1>1, <2>1, <2>3 DEF AppliedWith
  <2> QED BY <2>2, <2>3
<1> QED BY <1>2, <1>3

\* The live path holds a place whenever it holds a transaction.
LiveHasAPlace == live # NoLive => live.at # 0

ReplayInv == TypeOK /\ LiveHasAPlace /\ SurplusAndReplay

\* The live path's write, one that waited for a drop included.
LEMMA LiveReplays ==
  ASSUME ReplayInv, TypeOK', LiveWrite
  PROVE  SurplusAndReplay'
<1>1. live \in [tx : Txs, at : Nat, waits : BOOLEAN] /\ live.at # 0
  BY DEF LiveWrite, ReplayInv, LiveHasAPlace, TypeOK
<1>2. live.tx \in Txs /\ live.at \in Nat \ {0} /\ [tx |-> live.tx, seq |-> live.at] \in Events
  BY <1>1 DEF Events
<1>3. Store(live.tx, live.at, "confirmed", 0) /\ kept' = KeptWith(live.tx, live.at, rows')
  BY DEF LiveWrite
<1>4. /\ rows \in [Txs -> Rows] /\ rows' \in [Txs -> Rows]
      /\ surplus \in Seq(Events) /\ kept \in Seq(Events) /\ applied = surplus \o Replay(rows)
  BY DEF ReplayInv, SurplusAndReplay, TypeOK
<1>5. /\ Replay(rows) \in Seq(Events) /\ Replay(rows') \in Seq(Events) /\ <<>> \in Seq(Events)
  BY <1>4, ReplayType
<1>6. applied \in Seq(Events) /\ <<>> \o Replay(rows') = Replay(rows')
  BY <1>2, <1>4, <1>5, OneAfterAnother
<1>7. kept' \in Seq(Events)
  BY <1>2, <1>3, <1>4, <1>5, OneAfterAnother DEF KeptWith
<1>8. surplus' \in Seq(Events) /\ applied' = surplus' \o Replay(rows')
  <2>1. CASE live.waits
    <3>1. ProjectLate
      BY <2>1 DEF LiveWrite
    <3> QED BY <1>5, <1>6, <3>1 DEF ProjectLate
  <2>2. CASE ~live.waits
    <3>1. Project(live.tx, live.at)
      BY <2>2 DEF LiveWrite
    <3> QED BY <1>2, <1>3, <3>1, WriteReplays DEF ReplayInv
  <2> QED BY <2>1, <2>2
<1> QED BY <1>7, <1>8 DEF SurplusAndReplay

\* The steps that leave the database alone, but for commitments.
NoEvent ==
  /\ applied' = applied /\ surplus' = surplus /\ kept' \in {kept, <<>>}
  /\ \A t \in Txs : rows'[t].at = rows[t].at

LEMMA NoEventReplays ==
  ASSUME TypeOK, TypeOK', SurplusAndReplay, NoEvent
  PROVE  SurplusAndReplay'
<1>1. Replay(rows') = Replay(rows)
  BY SamePlaces DEF NoEvent, TypeOK
<1>2. kept' \in Seq(Events)
  <2>1. <<>> \in Seq(Events)
    OBVIOUS
  <2> QED BY <2>1 DEF NoEvent, SurplusAndReplay
<1> QED BY <1>1, <1>2 DEF SurplusAndReplay, NoEvent

LEMMA ReplayHolds ==
  ASSUME ReplayInv, Next
  PROVE  ReplayInv'
<1>0. TypeOK /\ TypeOK' /\ rows \in [Txs -> Rows] /\ rows' \in [Txs -> Rows] /\ walk \in Passes
  BY TypeHolds DEF ReplayInv, TypeOK
<1>1. LiveHasAPlace'
  <2>1. ASSUME NEW t \in Txs, LiveFetch(t) PROVE LiveHasAPlace'
    BY <2>1 DEF LiveFetch, LiveHasAPlace
  <2>2. CASE UNCHANGED live
    BY <2>2 DEF ReplayInv, LiveHasAPlace
  <2>3. CASE live' = NoLive
    BY <2>3 DEF LiveHasAPlace
  <2>4. CASE RebuildGone
    BY <1>0, <2>4, LiveStays DEF ReplayInv, LiveHasAPlace, TypeOK
  <2>5. \/ \E t \in Txs : LiveFetch(t)
        \/ UNCHANGED live
        \/ live' = NoLive
        \/ RebuildGone
    BY DEF Next, PassStep, Land, Finalize, Reorg, GapAges, LiveWrite, StartPass, List, PassKnown, FetchNext,
           Flush, Apply, EndWalk, CheckStale, DropGone, StartFill, FillFetch, FillWrite, EndFill,
           NotAvailable, PassFails, LiveFails, Restart
  <2> QED BY <2>1, <2>2, <2>3, <2>4, <2>5
<1>2. SurplusAndReplay'
  <2>1. CASE LiveWrite
    BY <1>0, <2>1, LiveReplays
  <2>2. CASE Apply \/ FillWrite
    <3>1. walk.seen \in Seq(Txs) /\ walk.next \in Nat \ {0} /\ walk.got \in Nat \ {0}
      BY <1>0, <2>2 DEF Apply, FillWrite, Passes
    <3>2. walk.seen[walk.next] \in Txs
      BY <2>2, <3>1 DEF Apply, FillWrite, More
    <3>3. PICK slot \in Nat : Store(walk.seen[walk.next], walk.got, Commitment, slot)
      BY <2>2, <3>1 DEF Apply, FillWrite, Write
    <3>4. Commitment \in {"confirmed", "finalized"}
      BY DEF Commitment
    <3>5. Project(walk.seen[walk.next], walk.got) /\ kept' = kept
      BY <2>2 DEF Apply, FillWrite, Write
    <3> QED BY <3>1, <3>2, <3>3, <3>4, <3>5, WriteReplays DEF ReplayInv, SurplusAndReplay
  <2>3. CASE RebuildGone
    <3>1. applied' = kept \o Replay(rows') /\ surplus' = kept /\ kept' = <<>> /\ <<>> \in Seq(Events)
      BY <2>3 DEF RebuildGone
    <3> QED BY <3>1 DEF ReplayInv, SurplusAndReplay
  <2>4. CASE Flush \/ CheckStale
    <3>1. \A t \in Txs : Promoted(rows[t], "finalized").at = rows[t].at
      BY <1>0 DEF Promoted, Rows
    <3>2. NoEvent
      BY <1>0, <2>4, <3>1 DEF Flush, CheckStale, NoEvent, projection
    <3> QED BY <1>0, <3>2, NoEventReplays DEF ReplayInv
  <2>5. CASE UNCHANGED <<rows, applied, surplus>> /\ kept' \in {kept, <<>>}
    BY <1>0, <2>5, NoEventReplays DEF ReplayInv, NoEvent
  <2>6. \/ LiveWrite \/ Apply \/ FillWrite \/ RebuildGone \/ Flush \/ CheckStale
        \/ UNCHANGED <<rows, applied, surplus>> /\ kept' \in {kept, <<>>}
    BY DEF Next, PassStep, Land, Finalize, Reorg, GapAges, LiveFetch, StartPass, List, PassKnown, FetchNext,
           EndWalk, DropGone, StartFill, FillFetch, EndFill, NotAvailable, PassFails, LiveFails, Restart,
           projection
  <2> QED BY <2>1, <2>2, <2>3, <2>4, <2>5, <2>6
<1> QED BY <1>0, <1>1, <1>2 DEF ReplayInv

LEMMA ReplayStarts == Init => ReplayInv
<1> SUFFICES ASSUME Init PROVE ReplayInv
  OBVIOUS
<1>1. TypeOK
  BY IndexInvStarts DEF IndexInv
<1>2. LiveHasAPlace
  BY DEF Init, LiveHasAPlace
<1>3. applied \in InOrder(EventsOf(rows))
  <2>1. EventsOf(rows) = {}
    BY DEF Init, EventsOf, Stored, NoRow
  <2>2. Cardinality(EventsOf(rows)) = 0 /\ 1..0 = {}
    BY <2>1, FS_EmptySet
  <2>3. applied = <<>> /\ DOMAIN applied = {} /\ applied \in [{} -> {}]
    BY DEF Init
  <2> QED BY <2>1, <2>2, <2>3 DEF InOrder
<1>4. applied = Replay(rows) /\ Replay(rows) \in Seq(Events)
  BY <1>1, <1>3, ReplayIsTheOrder, ReplayType DEF TypeOK
<1>5. surplus = <<>> /\ kept = <<>> /\ <<>> \in Seq(Events) /\ applied = <<>>
  BY DEF Init
<1>6. <<>> \o <<>> = <<>>
  OBVIOUS
<1> QED BY <1>1, <1>2, <1>4, <1>5, <1>6 DEF ReplayInv, SurplusAndReplay

-----------------------------------------------------------------------------
(* Without a fork nothing is dropped, so nothing overlaps a drop.          *)

Placed(t, at) == at \in DOMAIN chain /\ chain[at] = t
Dropping == walk.at \in {"dropping", "rebuilding"}

RowsPlaced == \A t \in Txs : rows[t].at # 0 => Placed(t, rows[t].at)
LivePlaced == ~live.waits /\ (live # NoLive => Placed(live.tx, live.at))

\* What the pass listed is the chain, up to where it ended then.
SeenPlaced ==
  /\ walk.at \in {"walking", "stopped", "checking", "filling"} => \A s \in DOMAIN walk.seen : Placed(walk.seen[s], s)
  /\ walk.at \in {"walking", "stopped", "checking"} => walk.final <= Len(walk.seen)

GotPlaced ==
  walk.got # 0 =>
    walk.at \in {"walking", "filling"} /\ More /\ ~Known /\ Placed(walk.seen[walk.next], walk.got)

PassPlaced == ~Dropping /\ SeenPlaced /\ GotPlaced
NoOverlap == surplus = <<>> /\ RowsPlaced /\ LivePlaced /\ PassPlaced
ForkFree == reorgs = 0 => NoOverlap

SameChain == chain' = chain /\ reorgs' = reorgs

LEMMA NoPassPlaced ==
  /\ walk = NoPass => PassPlaced
  /\ walk' = NoPass => PassPlaced'
BY DEF NoPass, PassPlaced, Dropping, SeenPlaced, GotPlaced

\* A request finds a transaction at its place.
LEMMA SlotPlaced ==
  ASSUME NEW t, SlotOf(t) # 0
  PROVE  Placed(t, SlotOf(t))
<1>1. t \in Landed
  BY DEF SlotOf
<1> QED BY <1>1 DEF SlotOf, Landed, Placed

LEMMA ClusterForkFree ==
  ASSUME IndexInv, ForkFree, ClusterStep
  PROVE  ForkFree'
<1>1. chain \in Seq(Txs) /\ reorgs \in Nat
  BY DEF IndexInv, TypeOK
<1>2. CASE Reorg
  <2>1. reorgs' # 0
    BY <1>1, <1>2 DEF Reorg
  <2> QED BY <2>1 DEF ForkFree
<1>3. CASE Finalize \/ \E t \in Txs : Land(t)
  <2>1. /\ UNCHANGED <<rows, applied, surplus, kept, walk, live, reorgs>>
        /\ chain' = chain \/ \E t \in Txs : chain' = Append(chain, t)
    BY <1>3 DEF Finalize, Land, projection
  <2>2. \A s \in DOMAIN chain : s \in DOMAIN chain' /\ chain'[s] = chain[s]
    BY <1>1, <2>1
  <2>3. \A t, s : Placed(t, s) => Placed(t, s)'
    BY <2>2 DEF Placed
  <2>4. RowsPlaced /\ LivePlaced => (RowsPlaced /\ LivePlaced)'
    BY <2>1, <2>3 DEF RowsPlaced, LivePlaced
  <2>5. PassPlaced => PassPlaced'
    BY <2>1, <2>3 DEF PassPlaced, Dropping, SeenPlaced, GotPlaced, More, Known
  <2> QED BY <2>1, <2>4, <2>5 DEF ForkFree, NoOverlap
<1> QED BY <1>2, <1>3 DEF ClusterStep

\* What a write stores stands at its place, and leaves no surplus.
LEMMA WritePlaced ==
  ASSUME TypeOK, RowsPlaced, SameChain, NEW t \in Txs, NEW at \in Nat, Placed(t, at),
         NEW commitment \in {"confirmed", "finalized"}, NEW slot \in Nat, Store(t, at, commitment, slot)
  PROVE  RowsPlaced'
<1>1. rows \in [Txs -> Rows]
  BY DEF TypeOK
<1>2. \A u, s : Placed(u, s) => Placed(u, s)'
  BY DEF Placed, SameChain
<1>3. rows'[t].at \in {rows[t].at, at} /\ \A u \in Txs \ {t} : rows'[u] = rows[u]
  <2>1. CASE rows[t].at # 0
    <3>1. rows' = [rows EXCEPT ![t] = Promoted(rows[t], commitment)]
      BY <2>1 DEF Store
    <3>2. Promoted(rows[t], commitment).at = rows[t].at
      BY <1>1 DEF Promoted, Rows
    <3> QED BY <1>1, <3>1, <3>2
  <2>2. CASE rows[t].at = 0
    <3>1. rows' = [rows EXCEPT ![t] = [at |-> at, commitment |-> commitment]]
      BY <2>2 DEF Store
    <3> QED BY <1>1, <3>1
  <2> QED BY <2>1, <2>2
<1> QED BY <1>2, <1>3 DEF RowsPlaced

LEMMA BesideForkFree ==
  ASSUME IndexInv, NoOverlap, SameChain, Beside
  PROVE  NoOverlap'
<1>1. walk' = walk
  BY DEF Beside, LiveWrite, LiveFails, GapAges, LiveFetch
<1>2. PassPlaced'
  BY <1>1 DEF NoOverlap, PassPlaced, Dropping, SeenPlaced, GotPlaced, More, Known, Placed, SameChain
<1>3. \A t, s : Placed(t, s) => Placed(t, s)'
  BY DEF Placed, SameChain
<1>4. CASE LiveWrite
  <2>1. live \in [tx : Txs, at : Nat, waits : BOOLEAN]
    BY <1>4 DEF IndexInv, TypeOK, LiveWrite
  <2>2. live.tx \in Txs /\ live.at \in Nat /\ Placed(live.tx, live.at) /\ 0 \in Nat
    BY <1>4, <2>1 DEF NoOverlap, LivePlaced, LiveWrite
  <2>3. Store(live.tx, live.at, "confirmed", 0) /\ live' = NoLive
    BY <1>4 DEF LiveWrite
  <2>4. RowsPlaced'
    BY <2>2, <2>3, WritePlaced DEF IndexInv, NoOverlap
  <2>5. surplus' = <<>>
    BY <1>4 DEF LiveWrite, Project, NoOverlap, LivePlaced
  <2> QED BY <1>2, <2>3, <2>4, <2>5 DEF NoOverlap, LivePlaced, NoLive
<1>5. CASE LiveFails \/ GapAges
  <2>1. UNCHANGED <<rows, surplus>> /\ live' \in {live, NoLive}
    BY <1>5 DEF LiveFails, GapAges, projection
  <2> QED BY <1>2, <1>3, <2>1 DEF NoOverlap, RowsPlaced, LivePlaced, NoLive
<1>6. ASSUME NEW t \in Txs, LiveFetch(t) PROVE NoOverlap'
  <2>1. /\ UNCHANGED <<rows, surplus>>
        /\ \/ live' = NoLive
           \/ SlotOf(t) # 0 /\ live' = [tx |-> t, at |-> SlotOf(t), waits |-> FALSE]
    BY <1>6 DEF LiveFetch, projection
  <2>2. RowsPlaced'
    BY <1>3, <2>1 DEF NoOverlap, RowsPlaced
  <2>3. LivePlaced'
    BY <1>3, <2>1, SlotPlaced DEF LivePlaced, NoLive
  <2> QED BY <1>2, <2>1, <2>2, <2>3 DEF NoOverlap
<1> QED BY <1>4, <1>5, <1>6 DEF Beside

\* A walk that reached the head of the chain lists every stored row of its range: none is stale.
LEMMA NothingIsStale ==
  ASSUME IndexInv, NoOverlap, walk.at = "checking"
  PROVE  Stale = {}
<1>1. /\ walk.final \in Nat /\ walk.final <= Len(walk.seen) /\ walk.floor \in Nat
      /\ walk.seen \in Seq(Txs) /\ rows \in [Txs -> Rows]
  BY DEF IndexInv, TypeOK, Passes, NoOverlap, PassPlaced, SeenPlaced
<1>2. ASSUME NEW t \in Stored(rows), rows[t].at \in walk.floor + 1..walk.final PROVE t \in Listed
  <2>1. rows[t].at \in DOMAIN walk.seen /\ rows[t].at \in walk.floor + 1..Len(walk.seen)
    BY <1>1, <1>2
  <2>2. Placed(t, rows[t].at) /\ Placed(walk.seen[rows[t].at], rows[t].at)
    BY <2>1 DEF NoOverlap, RowsPlaced, PassPlaced, SeenPlaced, Stored
  <2>3. walk.seen[rows[t].at] = t
    BY <2>2 DEF Placed
  <2> QED BY <2>1, <2>3 DEF Listed
<1> QED BY <1>2 DEF Stale

\* The pass: what it writes it fetched, and it never gets as far as a drop.
LEMMA PassForkFree ==
  ASSUME IndexInv, NoOverlap, SameChain, PassStep \/ NotAvailable \/ PassFails \/ Restart
  PROVE  NoOverlap'
<1>1. /\ walk \in Passes /\ rows \in [Txs -> Rows] /\ chain \in Seq(Txs) /\ rooted \in Nat /\ rooted <= Len(chain)
      /\ walk.final \in Nat /\ walk.final <= rooted /\ walk.next \in Nat \ {0} /\ walk.got \in Nat
      /\ walk.seen \in Seq(Txs) /\ Len(chain) \in Nat
  BY SlotTypes DEF IndexInv, WalkAccounted, TypeOK
<1>2. surplus = <<>> /\ RowsPlaced /\ LivePlaced /\ ~Dropping /\ SeenPlaced /\ GotPlaced
  BY DEF NoOverlap, PassPlaced
<1>3. \A t, s : Placed(t, s) => Placed(t, s)'
  BY DEF Placed, SameChain
<1>4. CASE Apply \/ FillWrite
  <2>1. walk.seen[walk.next] \in Txs /\ Placed(walk.seen[walk.next], walk.got)
    BY <1>1, <1>2, <1>4 DEF Apply, FillWrite, More, GotPlaced
  <2>2. PICK slot \in Nat : Store(walk.seen[walk.next], walk.got, Commitment, slot)
    BY <1>1, <1>4 DEF Apply, FillWrite, Write
  <2>3. Commitment \in {"confirmed", "finalized"}
    BY DEF Commitment
  <2>4. RowsPlaced'
    BY <1>1, <1>2, <2>1, <2>2, <2>3, WritePlaced DEF IndexInv
  <2>5. surplus' = <<>> /\ live' = live
    BY <1>2, <1>4 DEF Apply, FillWrite, Write, Project
  <2>6. walk' = [walk EXCEPT !.next = walk.next + 1, !.got = 0]
    BY <1>4 DEF Apply, FillWrite
  <2>7. walk'.at = walk.at /\ walk'.got = 0 /\ walk'.seen = walk.seen /\ walk'.final = walk.final
    BY <1>1, <2>6 DEF Passes
  <2>8. PassPlaced'
    BY <1>2, <1>3, <2>7 DEF PassPlaced, Dropping, SeenPlaced, GotPlaced
  <2> QED BY <1>2, <1>3, <2>4, <2>5, <2>8 DEF NoOverlap, LivePlaced
<1>5. CASE Flush \/ CheckStale
  <2>1. \A t \in Txs : Promoted(rows[t], "finalized").at = rows[t].at
    BY <1>1 DEF Promoted, Rows
  <2>2. (\A t \in Txs : rows'[t].at = rows[t].at) /\ surplus' = surplus /\ live' = live
    BY <1>5, <2>1 DEF Flush, CheckStale, projection
  <2>3. RowsPlaced' /\ LivePlaced'
    BY <1>2, <1>3, <2>2 DEF RowsPlaced, LivePlaced
  <2>4. CASE Flush
    <3>1. /\ walk'.at = walk.at /\ walk'.got = walk.got /\ walk'.seen = walk.seen /\ walk'.final = walk.final
          /\ walk'.next = walk.next /\ walk'.have = walk.have
      BY <1>1, <2>4 DEF Flush, Passes
    <3>2. PassPlaced'
      BY <1>2, <1>3, <3>1 DEF PassPlaced, Dropping, SeenPlaced, GotPlaced, More, Known
    <3> QED BY <1>2, <2>2, <2>3, <3>2 DEF NoOverlap
  <2>5. CASE CheckStale
    <3>1. Gone = {}
      BY <2>5, NothingIsStale DEF Gone, CheckStale
    <3>2. walk'.at = "gaps" /\ walk'.got = walk.got /\ walk.at = "checking"
      BY <1>1, <2>5, <3>1 DEF CheckStale, Passes
    <3>3. PassPlaced'
      BY <1>2, <3>2 DEF PassPlaced, Dropping, SeenPlaced, GotPlaced
    <3> QED BY <1>2, <2>2, <2>3, <3>3 DEF NoOverlap
  <2> QED BY <1>5, <2>4, <2>5
<1>6. ASSUME UNCHANGED <<rows, surplus>>, live' \in {live, NoLive}, PassPlaced'
      PROVE  NoOverlap'
  BY <1>2, <1>3, <1>6 DEF NoOverlap, RowsPlaced, LivePlaced, NoLive
<1>7. CASE PassFails \/ Restart \/ EndFill
  <2>1. walk' = NoPass /\ UNCHANGED <<rows, surplus>> /\ live' \in {live, NoLive}
    BY <1>7 DEF PassFails, Restart, EndFill, projection
  <2>2. PassPlaced'
    BY <2>1, NoPassPlaced
  <2> QED BY <1>6, <2>1, <2>2
<1>8. CASE DropGone \/ RebuildGone
  BY <1>2, <1>8 DEF DropGone, RebuildGone, Dropping
<1>9. CASE StartPass \/ List \/ PassKnown \/ FetchNext \/ EndWalk \/ StartFill \/ FillFetch \/ NotAvailable
  <2>1. UNCHANGED <<rows, surplus, live>>
    BY <1>9 DEF StartPass, List, PassKnown, FetchNext, EndWalk, StartFill, FillFetch, NotAvailable, projection
  <2>2. PassPlaced'
    <3>1. CASE StartPass
      <4>1. walk'.at = "listing" /\ walk'.got = 0
        BY <3>1 DEF StartPass, NoPass
      <4> QED BY <4>1 DEF PassPlaced, Dropping, SeenPlaced, GotPlaced
    <3>2. CASE List
      <4>1. walk'.at = "walking" /\ walk'.got = walk.got /\ walk'.seen = chain /\ walk'.final = walk.final /\ walk.got = 0
        BY <1>1, <1>2, <3>2 DEF List, Passes, GotPlaced
      <4>2. SeenPlaced'
        BY <1>1, <4>1 DEF SeenPlaced, Placed, SameChain
      <4> QED BY <4>1, <4>2 DEF PassPlaced, Dropping, GotPlaced
    <3>3. CASE PassKnown
      <4>1. /\ walk'.at = "walking" /\ walk'.got = walk.got /\ walk'.seen = walk.seen /\ walk'.final = walk.final
            /\ walk.at = "walking" /\ walk.got = 0
        BY <1>1, <1>2, <3>3 DEF PassKnown, Passes, GotPlaced
      <4> QED BY <1>2, <1>3, <4>1 DEF PassPlaced, Dropping, SeenPlaced, GotPlaced
    <3>4. CASE FetchNext \/ FillFetch \/ NotAvailable
      <4>1. /\ walk'.at \in {walk.at, "stopped"} /\ walk.at \in {"walking", "filling"} /\ walk'.seen = walk.seen
            /\ walk'.final = walk.final /\ walk'.have = walk.have
            /\ walk'.at = "stopped" => walk.at = "walking"
            /\ \/ walk'.got = 0
               \/ /\ walk'.at = walk.at /\ walk'.next = walk.next /\ More /\ ~Known
                  /\ walk'.got # 0 /\ walk'.got = SlotOf(walk.seen[walk.next])
        <5>1. CASE FetchNext
          BY <1>1, <5>1 DEF FetchNext, Passes
        <5>2. CASE FillFetch
          BY <1>1, <5>2 DEF FillFetch, Passes
        <5>3. CASE NotAvailable
          BY <1>1, <5>3 DEF NotAvailable, Passes
        <5> QED BY <3>4, <5>1, <5>2, <5>3
      <4>2. ~Dropping' /\ SeenPlaced'
        BY <1>2, <1>3, <4>1 DEF Dropping, SeenPlaced
      <4>3. GotPlaced'
        BY <1>3, <4>1, SlotPlaced DEF GotPlaced, More, Known
      <4> QED BY <4>2, <4>3 DEF PassPlaced
    <3>5. CASE EndWalk
      <4>1. /\ walk'.at \in {"checking", "gaps"} /\ walk'.got = walk.got /\ walk'.seen = walk.seen
            /\ walk'.final = walk.final /\ walk.at \in {"walking", "stopped"} /\ walk.got = 0
        BY <1>1, <1>2, <3>5 DEF EndWalk, Passes, GotPlaced
      <4> QED BY <1>2, <1>3, <4>1 DEF PassPlaced, Dropping, SeenPlaced, GotPlaced
    <3>6. CASE StartFill
      <4>1. CASE walk' = NoPass
        BY <4>1, NoPassPlaced
      <4>2. CASE walk' = [walk EXCEPT !.at = "filling", !.seen = chain, !.next = 1, !.have = Stored(rows)]
        <5>1. walk'.at = "filling" /\ walk'.got = 0 /\ walk'.seen = chain
          BY <1>1, <1>2, <3>6, <4>2 DEF StartFill, Passes, GotPlaced
        <5>2. SeenPlaced'
          BY <5>1 DEF SeenPlaced, Placed, SameChain
        <5> QED BY <5>1, <5>2 DEF PassPlaced, Dropping, GotPlaced
      <4> QED BY <3>6, <4>1, <4>2 DEF StartFill
    <3> QED BY <1>9, <3>1, <3>2, <3>3, <3>4, <3>5, <3>6
  <2> QED BY <1>6, <2>1, <2>2
<1> QED BY <1>4, <1>5, <1>7, <1>8, <1>9 DEF PassStep

LEMMA ForkFreeHolds ==
  IndexInv /\ ForkFree /\ [Next]_vars => ForkFree'
<1> SUFFICES ASSUME IndexInv, ForkFree, [Next]_vars PROVE ForkFree'
  OBVIOUS
<1>1. CASE ClusterStep
  BY <1>1, ClusterForkFree
<1>2. CASE Next /\ ~ClusterStep
  <2>1. SameChain
    BY <1>2 DEF Next, PassStep, ClusterStep, SameChain, GapAges, LiveFetch, LiveWrite, StartPass, List, PassKnown,
           FetchNext, Flush, Apply, EndWalk, CheckStale, DropGone, RebuildGone, StartFill, FillFetch, FillWrite,
           EndFill, NotAvailable, PassFails, LiveFails, Restart, world
  <2>2. NoOverlap => NoOverlap'
    BY <1>2, <2>1, BesideForkFree, PassForkFree DEF Next, ClusterStep, Beside
  <2> QED BY <2>1, <2>2 DEF ForkFree, SameChain
<1>3. CASE UNCHANGED vars
  BY <1>3 DEF ForkFree, NoOverlap, RowsPlaced, LivePlaced, PassPlaced, Dropping, SeenPlaced, GotPlaced, Placed,
         More, Known, vars
<1> QED BY <1>1, <1>2, <1>3

LEMMA ForkFreeStarts == Init => ForkFree
<1> SUFFICES ASSUME Init PROVE NoOverlap
  BY DEF ForkFree
<1>1. PassPlaced
  BY NoPassPlaced DEF Init
<1>2. \A t \in Txs : rows[t].at = 0
  BY DEF Init, NoRow
<1> QED BY <1>1, <1>2 DEF Init, NoOverlap, RowsPlaced, LivePlaced, NoLive

\* Three writers store events as they reach them, promote and rebuild, and drops delete and rebuild while live
\* writes commit: for every number of transactions, forks and faults the projections are what a replay of the
\* stored events in seq order gives, after a surplus that no run without a fork has.
THEOREM ProjectionIsReplayHolds ==
  Spec => []ProjectionIsReplay
<1>1. ReplayInv /\ [Next]_vars => ReplayInv'
  <2>1. ASSUME ReplayInv, UNCHANGED vars PROVE ReplayInv'
    BY <2>1 DEF ReplayInv, LiveHasAPlace, TypeOK, SurplusAndReplay, Replay, Stored, vars
  <2> QED BY <2>1, ReplayHolds
<1>2. ReplayInv /\ ForkFree => ProjectionIsReplay
  BY DEF ReplayInv, SurplusAndReplay, ForkFree, NoOverlap, ProjectionIsReplay
<1> QED BY <1>1, <1>2, ReplayStarts, IndexInvStarts, IndexInvHolds, ForkFreeStarts, ForkFreeHolds, PTL DEF Spec

-----------------------------------------------------------------------------
(* What is final.                                                          *)

InRooted(t) == \E s \in 1..rooted : chain[s] = t

FinalRowsRooted == \A t \in Txs : rows[t].commitment = "finalized" => rows[t].at # 0 /\ InRooted(t)

\* What a pass is about to write as final is in a finalized slot, and what it is about to drop is not final.
FinalInv ==
  /\ FinalRowsRooted
  /\ \A t \in walk.promote : InRooted(t)
  /\ walk.at = "filling" => \A s \in 1..walk.final : walk.seen[s] = chain[s]
  /\ walk.at \in {"dropping", "rebuilding"} => \A t \in walk.gone : rows[t].commitment # "finalized"

FinalRowsStay == \A t \in Txs : rows[t].commitment = "finalized" => rows'[t] = rows[t]

\* Final rows stay, and a row becomes final only when its transaction is in a finalized slot.
RowsStep ==
  /\ FinalRowsStay
  /\ \A t \in Txs : rows'[t].commitment = "finalized" => rows'[t].at # 0 /\ InRooted(t)

LEMMA WriteStep ==
  ASSUME TypeOK, FinalRowsRooted, NEW t \in Txs, NEW at \in Nat, NEW commitment \in {"confirmed", "finalized"},
         NEW slot \in Nat, Store(t, at, commitment, slot),
         commitment = "finalized" => at # 0 /\ InRooted(t)
  PROVE  /\ RowsStep
         /\ commitment = "confirmed" => \A u \in Txs : rows'[u].commitment = "finalized" => rows[u] = rows'[u]
<1>1. rows \in [Txs -> Rows]
  BY DEF TypeOK
<1>2. CASE rows[t].at # 0
  <2>1. rows' = [rows EXCEPT ![t] = Promoted(rows[t], commitment)]
    BY <1>2 DEF Store
  <2>2. rows[t] \in Rows
    BY <1>1
  <2>3. rows[t].commitment = "finalized" \/ commitment = "confirmed" => Promoted(rows[t], commitment) = rows[t]
    BY <2>2 DEF Promoted, Rows
  <2>4. /\ Promoted(rows[t], commitment).at = rows[t].at
        /\ commitment = "finalized" => Promoted(rows[t], commitment).commitment = "finalized"
    BY <2>2 DEF Promoted, Rows
  <2>5. rows'[t] = Promoted(rows[t], commitment) /\ \A u \in Txs \ {t} : rows'[u] = rows[u]
    BY <1>1, <2>1
  <2> QED BY <1>2, <2>3, <2>4, <2>5 DEF RowsStep, FinalRowsStay, FinalRowsRooted
<1>3. CASE rows[t].at = 0
  <2>1. rows' = [rows EXCEPT ![t] = [at |-> at, commitment |-> commitment]]
    BY <1>3 DEF Store
  <2>2. rows'[t] = [at |-> at, commitment |-> commitment] /\ \A u \in Txs \ {t} : rows'[u] = rows[u]
    BY <1>1, <2>1
  <2>3. rows[t].commitment # "finalized"
    BY <1>3 DEF FinalRowsRooted
  <2> QED BY <2>2, <2>3 DEF RowsStep, FinalRowsStay, FinalRowsRooted
<1> QED BY <1>2, <1>3

LEMMA PromotionStep ==
  ASSUME TypeOK, FinalRowsRooted, NEW S \in SUBSET Stored(rows), \A t \in S : InRooted(t),
         rows' = [t \in Txs |-> IF t \in S THEN Promoted(rows[t], "finalized") ELSE rows[t]]
  PROVE  RowsStep
<1>1. \A t \in Txs : rows[t] \in Rows
  BY DEF TypeOK
<1>2. ASSUME NEW t \in S
      PROVE  t \in Txs /\ rows[t].at # 0 /\ rows'[t].at = rows[t].at
             /\ (rows[t].commitment = "finalized" => rows'[t] = rows[t])
  BY <1>1 DEF Promoted, Rows, Stored
<1>3. \A t \in Txs \ S : rows'[t] = rows[t]
  OBVIOUS
<1> QED BY <1>2, <1>3 DEF RowsStep, FinalRowsStay, FinalRowsRooted

\* The rows and the pass each as they should be, the cluster where it was.
LEMMA FinalMoves ==
  ASSUME SameWorld, RowsStep,
         \A t \in walk'.promote : InRooted(t),
         walk'.at = "filling" => \A s \in 1..walk'.final : walk'.seen[s] = chain[s],
         walk'.at \in {"dropping", "rebuilding"} => \A t \in walk'.gone : rows'[t].commitment # "finalized"
  PROVE  FinalInv' /\ FinalRowsStay
<1>1. \A t : InRooted(t)' <=> InRooted(t)
  BY DEF InRooted, SameWorld
<1> QED BY <1>1 DEF FinalInv, FinalRowsRooted, RowsStep, SameWorld

\* The cluster moves: what is in a finalized slot stays in one.
LEMMA ClusterFinal ==
  ASSUME IndexInv, FinalInv, ClusterStep
  PROVE  FinalInv' /\ FinalRowsStay
<1>1. /\ rooted' \in Nat /\ rooted <= rooted' /\ rooted \in Nat /\ \A s \in 1..rooted : chain'[s] = chain[s]
      /\ rows' = rows /\ walk' = walk /\ walk.final \in Nat /\ walk.final <= rooted
  BY ClusterKeeps, SlotTypes DEF IndexInv, WalkAccounted
<1>2. ASSUME NEW t, InRooted(t) PROVE InRooted(t)'
  <2>1. PICK s \in 1..rooted : chain[s] = t
    BY <1>2 DEF InRooted
  <2>2. s \in 1..rooted' /\ chain'[s] = t
    BY <1>1, <2>1
  <2> QED BY <2>2 DEF InRooted
<1>3. \A s \in 1..walk.final : chain'[s] = chain[s]
  BY <1>1
<1>4. FinalRowsRooted'
  BY <1>1, <1>2 DEF FinalInv, FinalRowsRooted
<1>5. \A t \in walk'.promote : InRooted(t)'
  BY <1>1, <1>2 DEF FinalInv
<1>6. walk'.at = "filling" => \A s \in 1..walk'.final : walk'.seen[s] = chain'[s]
  BY <1>1, <1>3 DEF FinalInv
<1> QED BY <1>1, <1>4, <1>5, <1>6 DEF FinalInv, FinalRowsStay

\* The rows stay as they are, and the pass goes on without a promotion that is not due.
LEMMA SameRows ==
  ASSUME FinalInv, SameWorld, rows' = rows,
         \A t \in walk'.promote : InRooted(t),
         walk'.at = "filling" => \A s \in 1..walk'.final : walk'.seen[s] = chain[s],
         walk'.at \in {"dropping", "rebuilding"} => walk.at \in {"dropping", "rebuilding"} /\ walk'.gone = walk.gone
  PROVE  FinalInv' /\ FinalRowsStay
<1>1. RowsStep
  BY DEF RowsStep, FinalRowsStay, FinalInv, FinalRowsRooted
<1> QED BY <1>1, FinalMoves DEF FinalInv

\* The steps of a pass that write nothing.
LEMMA QuietFinal ==
  ASSUME IndexInv, FinalInv,
         StartPass \/ List \/ PassKnown \/ Fetches \/ EndWalk \/ DropGone \/ StartFill \/ FillFetch \/ EndFill
           \/ (NotAvailable /\ walk.at = "filling") \/ PassFails \/ Restart
  PROVE  FinalInv' /\ FinalRowsStay
<1>0. /\ walk \in Passes /\ rooted \in Nat /\ walk.final \in Nat /\ walk.final <= rooted /\ rooted <= Len(chain)
      /\ walk.next \in Nat \ {0} /\ Len(chain) \in Nat /\ \A t \in walk.promote : InRooted(t)
  BY SlotTypes DEF IndexInv, WalkAccounted, TypeOK, FinalInv
<1>1. NoPass.promote = {} /\ NoPass.at = "idle"
  BY DEF NoPass
<1>2. CASE StartPass
  <2>1. walk'.promote = {} /\ walk'.at = "listing" /\ rows' = rows /\ SameWorld
    BY <1>2 DEF StartPass, NoPass, SameWorld, world
  <2> QED BY <2>1, SameRows
<1>3. CASE EndFill \/ PassFails \/ Restart
  <2>1. walk' = NoPass /\ rows' = rows /\ SameWorld
    BY <1>3 DEF EndFill, PassFails, Restart, SameWorld, world
  <2> QED BY <1>1, <2>1, SameRows
<1>4. CASE List \/ Fetches \/ EndWalk
  <2>1. /\ walk'.promote = walk.promote /\ walk'.at \in {"walking", "stopped", "checking", "gaps"}
        /\ rows' = rows /\ SameWorld
    BY <1>0, <1>4 DEF List, Fetches, FetchNext, NotAvailable, EndWalk, Passes, SameWorld, world
  <2> QED BY <1>0, <2>1, SameRows
<1>5. CASE PassKnown
  <2>1. /\ walk'.promote = (IF InFinalSlot THEN walk.promote \cup {walk.seen[walk.next]} ELSE walk.promote)
        /\ walk'.at = "walking" /\ rows' = rows /\ SameWorld
    BY <1>0, <1>5 DEF PassKnown, Passes, SameWorld, world
  <2>2. InFinalSlot => InRooted(walk.seen[walk.next])
    <3>1. OnTheWay
      BY <1>5 DEF IndexInv, WalkAccounted, PassKnown
    <3>2. ASSUME InFinalSlot
          PROVE  walk.next \in 1..rooted /\ walk.seen[walk.next] = chain[walk.next]
      BY <1>0, <3>1, <3>2 DEF InFinalSlot, OnTheWay
    <3> QED BY <3>2 DEF InRooted
  <2> QED BY <1>0, <2>1, <2>2, SameRows
<1>6. CASE StartFill
  <2>1. rows' = rows /\ SameWorld
    BY <1>6 DEF StartFill, SameWorld, world
  <2>2. CASE walk' = NoPass
    BY <1>1, <2>1, <2>2, SameRows
  <2>3. CASE walk' = [walk EXCEPT !.at = "filling", !.seen = chain, !.next = 1, !.have = Stored(rows)]
    <3>1. walk'.at = "filling" /\ walk'.seen = chain /\ walk'.promote = walk.promote
      BY <1>0, <2>3 DEF Passes
    <3> QED BY <1>0, <2>1, <3>1, SameRows
  <2> QED BY <1>6, <2>2, <2>3 DEF StartFill
<1>7. CASE FillFetch \/ (NotAvailable /\ walk.at = "filling")
  <2>1. /\ walk'.at = "filling" /\ walk.at = "filling" /\ walk'.seen = walk.seen /\ walk'.final = walk.final
        /\ walk'.promote = walk.promote /\ rows' = rows /\ SameWorld
    BY <1>0, <1>7 DEF FillFetch, NotAvailable, Passes, SameWorld, world
  <2> QED BY <1>0, <2>1, SameRows DEF FinalInv
<1>8. CASE DropGone
  <2>1. /\ walk.at = "dropping" /\ walk'.at = "rebuilding" /\ walk'.gone = walk.gone
        /\ walk'.promote = walk.promote /\ rows' = rows /\ SameWorld
    BY <1>0, <1>8 DEF DropGone, Passes, SameWorld, world
  <2> QED BY <1>0, <2>1, SameRows
<1> QED BY <1>2, <1>3, <1>4, <1>5, <1>6, <1>7, <1>8

\* The live path: it never stores anything as final.
LEMMA BesideFinal ==
  ASSUME IndexInv, FinalInv, Beside
  PROVE  FinalInv' /\ FinalRowsStay
<1>1. CASE LiveWrite
  <2>1. live \in [tx : Txs, at : Nat, waits : BOOLEAN]
    BY <1>1 DEF IndexInv, TypeOK, LiveWrite
  <2>2. live.tx \in Txs /\ live.at \in Nat /\ 0 \in Nat
    BY <2>1
  <2>3. Store(live.tx, live.at, "confirmed", 0) /\ SameWorld /\ walk' = walk
    BY <1>1 DEF LiveWrite, SameWorld, world
  <2>4. RowsStep /\ \A u \in Txs : rows'[u].commitment = "finalized" => rows[u] = rows'[u]
    BY <2>2, <2>3, WriteStep DEF IndexInv, FinalInv
  <2>5. walk.gone \in SUBSET Txs
    BY DEF IndexInv, TypeOK, Passes
  <2>6. walk.at \in {"dropping", "rebuilding"} => \A t \in walk.gone : rows'[t].commitment # "finalized"
    BY <2>4, <2>5 DEF FinalInv
  <2> QED BY <2>3, <2>4, <2>6, FinalMoves DEF FinalInv
<1>2. CASE LiveFails \/ GapAges \/ \E t \in Txs : LiveFetch(t)
  <2>1. rows' = rows /\ walk' = walk /\ SameWorld
    BY <1>2 DEF LiveFails, GapAges, LiveFetch, SameWorld, world
  <2> QED BY <2>1, SameRows DEF FinalInv
<1> QED BY <1>1, <1>2 DEF Beside

\* The pass writes what it fetched: as final only what it saw in a finalized slot.
LEMMA StoreFinal ==
  ASSUME IndexInv, FinalInv, Apply \/ FillWrite
  PROVE  FinalInv' /\ FinalRowsStay
<1> DEFINE t == walk.seen[walk.next]
<1>1. /\ walk \in Passes /\ walk.final \in Nat /\ walk.final <= rooted /\ rooted \in Nat
      /\ walk.next \in Nat \ {0} /\ walk.got \in Nat \ {0} /\ walk.seen \in Seq(Txs)
      /\ \A u \in walk.promote : InRooted(u)
  BY SlotTypes DEF IndexInv, WalkAccounted, TypeOK, Apply, FillWrite, FinalInv
<1>2. t \in Txs
  BY <1>1 DEF Apply, FillWrite, More
<1>3. PICK slot \in Nat : Store(t, walk.got, Commitment, slot)
  BY <1>1 DEF Apply, FillWrite, Write
<1>4. \A s \in 1..walk.final : walk.seen[s] = chain[s]
  BY DEF IndexInv, WalkAccounted, OnTheWay, FinalInv, Apply, FillWrite
<1>5. Commitment \in {"confirmed", "finalized"} /\ (Commitment = "finalized" => InRooted(t))
  <2>1. ASSUME InFinalSlot PROVE walk.next \in 1..rooted /\ t = chain[walk.next]
    BY <1>1, <1>4, <2>1 DEF InFinalSlot
  <2> QED BY <2>1 DEF Commitment, InRooted
<1>6. RowsStep
  <2> HIDE DEF t
  <2> QED BY <1>1, <1>2, <1>3, <1>5, WriteStep DEF IndexInv, FinalInv
<1>7. /\ walk'.at = walk.at /\ walk.at \in {"walking", "filling"} /\ walk'.promote = walk.promote
      /\ walk'.seen = walk.seen /\ walk'.final = walk.final /\ SameWorld
  BY <1>1 DEF Apply, FillWrite, Passes, SameWorld, world
<1> QED BY <1>1, <1>4, <1>6, <1>7, FinalMoves

\* Promotions, of what the walk passed and of what the cluster says of a stale row.
LEMMA PromotionFinal ==
  ASSUME IndexInv, FinalInv, Flush \/ CheckStale
  PROVE  FinalInv' /\ FinalRowsStay
<1>1. walk \in Passes /\ rows \in [Txs -> Rows]
  BY DEF IndexInv, TypeOK
<1>2. CASE Flush
  <2> DEFINE S == walk.promote \cap Stored(rows)
  <2>1. S \in SUBSET Stored(rows) /\ \A t \in S : InRooted(t)
    BY DEF FinalInv
  <2>2. rows' = [t \in Txs |-> IF t \in S THEN Promoted(rows[t], "finalized") ELSE rows[t]]
    BY <1>2 DEF Flush
  <2>3. RowsStep
    <3> HIDE DEF S
    <3> QED BY <2>1, <2>2, PromotionStep DEF IndexInv, FinalInv
  <2>4. walk'.promote = {} /\ walk'.at \in {"walking", "stopped"} /\ SameWorld
    BY <1>1, <1>2 DEF Flush, Passes, SameWorld, world
  <2> QED BY <2>3, <2>4, FinalMoves
<1>3. CASE CheckStale
  <2>1. NowFinal \in SUBSET Stored(rows) /\ Gone \in SUBSET Stored(rows)
    BY DEF NowFinal, Gone, Stale
  <2>2. ASSUME NEW t \in NowFinal PROVE InRooted(t)
    <3>1. t \in Txs /\ SlotOf(t) \in 1..rooted
      BY DEF NowFinal, Stale, Stored
    <3>2. SlotOf(t) # 0
      BY <3>1, SlotTypes DEF IndexInv
    <3>3. t \in Landed
      BY <3>1, <3>2, SlotOfType DEF IndexInv
    <3>4. chain[SlotOf(t)] = t
      BY <3>3 DEF SlotOf, Landed
    <3> QED BY <3>1, <3>4 DEF InRooted
  <2>3. rows' = [t \in Txs |-> IF t \in NowFinal THEN Promoted(rows[t], "finalized") ELSE rows[t]]
    BY <1>3 DEF CheckStale
  <2>4. RowsStep
    BY <2>1, <2>2, <2>3, PromotionStep DEF IndexInv, FinalInv
  <2>5. ASSUME NEW t \in Gone PROVE rows'[t].commitment # "finalized"
    <3>1. t \in Txs /\ t \notin NowFinal /\ rows[t].commitment = "confirmed"
      BY SlotTypes DEF Gone, NowFinal, Stale, Stored, IndexInv
    <3> QED BY <2>3, <3>1
  <2>6. /\ walk'.promote = walk.promote /\ walk'.at \in {"gaps", "dropping"} /\ walk'.gone = Gone
        /\ SameWorld
    BY <1>1, <1>3 DEF CheckStale, Passes, SameWorld, world
  <2> QED BY <2>4, <2>5, <2>6, FinalMoves DEF FinalInv
<1> QED BY <1>2, <1>3

\* Rows decided to be dropped are still not final when they are.
LEMMA RebuildFinal ==
  ASSUME IndexInv, FinalInv, RebuildGone
  PROVE  FinalInv' /\ FinalRowsStay
<1>1. walk \in Passes /\ rows \in [Txs -> Rows]
  BY DEF IndexInv, TypeOK
<1>2. \A t \in Txs : rows'[t] = IF t \in walk.gone THEN NoRow ELSE rows[t]
  BY DEF RebuildGone
<1>3. NoRow.commitment # "finalized" /\ \A t \in walk.gone : rows[t].commitment # "finalized"
  BY DEF NoRow, FinalInv, RebuildGone
<1>4. RowsStep
  BY <1>2, <1>3 DEF RowsStep, FinalRowsStay, FinalInv, FinalRowsRooted
<1>5. walk'.promote = walk.promote /\ walk'.at = "gaps" /\ SameWorld
  BY <1>1 DEF RebuildGone, Passes, SameWorld, world
<1> QED BY <1>4, <1>5, FinalMoves DEF FinalInv

LEMMA FinalStarts == Init => FinalInv
<1> SUFFICES ASSUME Init PROVE FinalInv
  OBVIOUS
<1>1. walk.promote = {} /\ walk.at = "idle" /\ \A t \in Txs : rows[t].commitment = "none"
  BY DEF Init, NoPass, NoRow
<1> QED BY <1>1 DEF FinalInv, FinalRowsRooted

LEMMA FinalHolds ==
  IndexInv /\ FinalInv /\ [Next]_vars => FinalInv' /\ FinalRowsStay
<1> SUFFICES ASSUME IndexInv, FinalInv, [Next]_vars PROVE FinalInv' /\ FinalRowsStay
  OBVIOUS
<1>1. CASE Next
  <2>1. CASE ClusterStep
    BY <2>1, ClusterFinal
  <2>2. CASE Beside
    BY <2>2, BesideFinal
  <2>3. CASE Apply \/ FillWrite
    BY <2>3, StoreFinal
  <2>4. CASE Flush \/ CheckStale
    BY <2>4, PromotionFinal
  <2>5. CASE RebuildGone
    BY <2>5, RebuildFinal
  <2>6. CASE StartPass \/ List \/ PassKnown \/ Fetches \/ EndWalk \/ DropGone \/ StartFill \/ FillFetch \/ EndFill
               \/ (NotAvailable /\ walk.at = "filling") \/ PassFails \/ Restart
    BY <2>6, QuietFinal
  <2>7. NotAvailable => walk.at = "walking" \/ walk.at = "filling"
    BY DEF NotAvailable
  <2> QED BY <1>1, <2>1, <2>2, <2>3, <2>4, <2>5, <2>6, <2>7 DEF Next, PassStep, ClusterStep, Beside, Fetches
<1>2. CASE UNCHANGED vars
  BY <1>2 DEF FinalInv, FinalRowsRooted, FinalRowsStay, InRooted, vars
<1> QED BY <1>1, <1>2

\* For every number of transactions, forks and faults, a row is final only when its transaction is in a
\* finalized slot, and no writer changes or drops it from then on: a drop may delete what was looked up
\* earlier, since nothing becomes final between the two.
THEOREM FinalIsForGoodHolds ==
  Spec => FinalIsForGood
<1>1. FinalInv => \A t \in Txs : rows[t].commitment = "finalized" => \E s \in 1..rooted : chain[s] = t
  BY DEF FinalInv, FinalRowsRooted, InRooted
<1>2. FinalRowsStay /\ [Next]_vars
        => [\A t \in Txs : rows[t].commitment = "finalized" => rows'[t] = rows[t]]_vars
  BY DEF FinalRowsStay
<1> QED BY <1>1, <1>2, IndexInvStarts, IndexInvHolds, FinalStarts, FinalHolds, PTL DEF Spec, FinalIsForGood

============================================================================
