------------------------------ MODULE Indexer ------------------------------
(***************************************************************************)
(* The indexer actor: it keeps the program's transactions, the events they *)
(* emitted and the projections of those events in a database.              *)
(*                                                                         *)
(* Three paths write.  The live path stores what the subscription reports, *)
(* in the order it arrives, and may miss some.  The walk goes through all  *)
(* signatures newer than the cursor, oldest first, promotes or stores them *)
(* and moves the cursor with them.  The gap fill, at the end of a pass,    *)
(* walks a Market whose sequence numbers have had a hole for a while.      *)
(* Walk and gap fill are one pass, passes never overlap, and the live path *)
(* runs beside them.  A step is one database transaction or one request.   *)
(*                                                                         *)
(* One Market stands for all.  Its lock orders the writes of transactions, *)
(* but dropping rows takes no lock: between what a drop deletes and what   *)
(* it selects for the replay, a live write may commit.  Every transaction  *)
(* has a slot of its own and emits one event, so its place on the chain is *)
(* both its slot and its event's sequence number.                          *)
(***************************************************************************)
EXTENDS Integers, FiniteSets, Sequences

CONSTANTS
  MaxTxs,        \* bound: transactions anybody signs
  MaxReorgs,     \* bound: forks the cluster abandons
  MaxFaults      \* bound: restarts, failing calls and missing answers

ASSUME IndexerAssumption == {MaxTxs, MaxReorgs, MaxFaults} \subseteq Nat

Txs == 1..MaxTxs     \* in the order of their signatures

VARIABLES
  chain,      \* the confirmed fork: transactions in the order they landed
  rooted,     \* its finalized slots
  rows,       \* idx_txs with their idx_events: place (0: not stored) and commitment, per transaction
  applied,    \* the projections: events in the order they were applied
  surplus,    \* history: those a live write and a drop that overlapped left beside the replay
  kept,       \* what live writes put into the projections since the running drop deleted them
  cursor,     \* idx_cursor: a slot, 0 before the first
  walk,       \* the running pass
  queue,      \* signatures the subscription reported
  live,       \* what the live path has fetched and not yet written
  gap,        \* the Market's entry in ctx.gaps: none, young, or past the grace period
  reorgs, faults

pass == <<walk, gap>>
world == <<chain, rooted, reorgs>>
projection == <<applied, surplus, kept>>
vars == <<chain, rooted, rows, applied, surplus, kept, cursor, walk, queue, live, gap, reorgs, faults>>

NoRow == [at |-> 0, commitment |-> "none"]
NoPass == [at |-> "idle", final |-> 0, floor |-> 0, seen |-> <<>>, next |-> 1, have |-> {},
           promote |-> {}, upto |-> 0, got |-> 0, gone |-> {}]
NoLive == [tx |-> 0, at |-> 0, waits |-> FALSE]

Init ==
  /\ chain = <<>> /\ rooted = 0
  /\ rows = [t \in Txs |-> NoRow] /\ cursor = 0
  /\ applied = <<>> /\ surplus = <<>> /\ kept = <<>>
  /\ walk = NoPass /\ queue = {} /\ live = NoLive /\ gap = "none"
  /\ reorgs = 0 /\ faults = 0

-----------------------------------------------------------------------------
(* The cluster.                                                            *)

Landed == {chain[s] : s \in DOMAIN chain}

\* The slot a request for a transaction finds it at; 0 when the node has none.
SlotOf(t) == IF t \in Landed THEN CHOOSE s \in DOMAIN chain : chain[s] = t ELSE 0

\* A transaction lands, for the first time or again after a fork lost it; the subscription may be down.
Land(t) ==
  /\ t \notin Landed
  /\ chain' = Append(chain, t)
  /\ queue' \in {queue, queue \cup {t}}
  /\ UNCHANGED <<rooted, rows, projection, cursor, walk, live, gap, reorgs, faults>>

Finalize ==
  /\ rooted < Len(chain)
  /\ rooted' = rooted + 1
  /\ UNCHANGED <<chain, rows, projection, cursor, walk, queue, live, gap, reorgs, faults>>

\* The cluster abandons the fork after some slot; finalized slots stay.
Reorg ==
  /\ reorgs < MaxReorgs
  /\ \E s \in rooted..Len(chain) - 1 : chain' = SubSeq(chain, 1, s)
  /\ reorgs' = reorgs + 1
  /\ UNCHANGED <<rooted, rows, projection, cursor, walk, queue, live, gap, faults>>

-----------------------------------------------------------------------------
(* The writer's database transactions.                                     *)

Stored(r) == {t \in Txs : r[t].at # 0}

\* Replays the stored events, ordered by sequence number and then by signature.
Replay(r) ==
  LET events == {[tx |-> t, seq |-> r[t].at] : t \in Stored(r)}
      Before(e, f) == e.seq < f.seq \/ (e.seq = f.seq /\ e.tx < f.tx)
  IN  CHOOSE s \in [1..Cardinality(events) -> events] :
        \A i, j \in DOMAIN s : i < j => Before(s[i], s[j])

IsNewest(at) == \A i \in DOMAIN applied : applied[i].seq < at

\* mutant: an event is applied where it arrives
AppliedAsItComes(t, at, r) == Append(applied, [tx |-> t, seq |-> at])
\* An event that is not newer than all applied ones makes the Market rebuild.
AppliedWith(t, at, r) == IF IsNewest(at) THEN Append(applied, [tx |-> t, seq |-> at]) ELSE Replay(r)

\* mutant: what is stored already is left as it is
PromotedNever(row, commitment) == row
\* mutant: what is stored already takes the commitment of the write that comes last
PromotedOrDemoted(row, commitment) == [row EXCEPT !.commitment = commitment]
\* A stored transaction is not applied again; its commitment still advances.
Promoted(row, commitment) == IF commitment = "finalized" THEN [row EXCEPT !.commitment = commitment] ELSE row

\* Fewer distinct sequence numbers than the highest one.
Hole(r) ==
  LET seqs == {r[t].at : t \in Stored(r)}
  IN  \E s \in seqs : s > Cardinality(seqs)

Advanced(slot) == IF slot > cursor THEN slot ELSE cursor

\* What writeTransaction stores, and the gap its caller notes.
Store(t, at, commitment, slot) ==
  /\ cursor' = Advanced(slot)
  /\ IF rows[t].at # 0
       THEN rows' = [rows EXCEPT ![t] = Promoted(rows[t], commitment)] /\ UNCHANGED gap
       ELSE /\ rows' = [rows EXCEPT ![t] = [at |-> at, commitment |-> commitment]]
            /\ gap' = IF gap = "none" /\ Hole(rows') THEN "young" ELSE gap

\* What it applies; a rebuild starts from empty projections.
Project(t, at) ==
  IF rows[t].at # 0
    THEN UNCHANGED <<applied, surplus>>
    ELSE applied' = AppliedWith(t, at, rows') /\ surplus' = IF IsNewest(at) THEN surplus ELSE <<>>

Write(t, at, commitment, slot) == Store(t, at, commitment, slot) /\ Project(t, at)

-----------------------------------------------------------------------------
(* The live path.                                                          *)

\* Known, or not available yet: dropped, the walk picks it up.
LiveFetch(t) ==
  /\ t \in queue /\ live = NoLive
  /\ queue' = queue \ {t}
  /\ live' = IF rows[t].at # 0 \/ SlotOf(t) = 0 THEN NoLive ELSE [tx |-> t, at |-> SlotOf(t), waits |-> FALSE]
  /\ UNCHANGED <<chain, rooted, rows, projection, cursor, walk, gap, reorgs, faults>>

\* A signature that a drop is deleting is inserted once the drop is over.
Barred == walk.at = "rebuilding" /\ live.tx \in walk.gone

\* A rebuild that waited for a drop deletes the rows it saw before: what the drop replayed may stay.
ProjectLate ==
  \/ applied' = Replay(rows') /\ surplus' = <<>>
  \/ applied' = applied \o Replay(rows') /\ surplus' = applied

\* Whatever commits between a drop's deleting and its selecting stays in the projections, and is selected again.
KeptWith(t, at, r) ==
  IF walk.at # "rebuilding" \/ rows[t].at # 0 THEN kept
  ELSE IF IsNewest(at) /\ ~live.waits THEN Append(kept, [tx |-> t, seq |-> at])
  ELSE Replay(r)

LiveWrite ==
  /\ live # NoLive /\ ~Barred
  /\ Store(live.tx, live.at, "confirmed", 0)
  /\ IF live.waits THEN ProjectLate ELSE Project(live.tx, live.at)
  /\ kept' = KeptWith(live.tx, live.at, rows')
  /\ live' = NoLive
  /\ UNCHANGED <<world, walk, queue, faults>>

-----------------------------------------------------------------------------
(* The pass: the walk, the dropped rows, the gap.                          *)

StartPass ==
  /\ walk.at = "idle"
  /\ walk' = [NoPass EXCEPT !.at = "listing", !.final = rooted]
  /\ UNCHANGED <<world, rows, projection, cursor, queue, live, gap, faults>>

\* The signatures newer than the cursor, and which of them are stored.
List ==
  /\ walk.at = "listing"
  /\ walk' = [walk EXCEPT !.at = "walking", !.floor = cursor, !.seen = chain, !.next = cursor + 1, !.have = Stored(rows)]
  /\ UNCHANGED <<world, rows, projection, cursor, queue, live, gap, faults>>

More == walk.next <= Len(walk.seen)
Known == walk.seen[walk.next] \in walk.have
Flushed == walk.promote = {} /\ walk.upto = 0

\* mutant: the cursor follows the walk past slots that are not final
AlwaysFinal == TRUE
InFinalSlot == walk.next <= walk.final
Commitment == IF InFinalSlot THEN "finalized" ELSE "confirmed"

\* A stored transaction in a finalized slot will be promoted, and the cursor can move to it.
PassKnown ==
  /\ walk.at = "walking" /\ More /\ Known
  /\ walk' = [walk EXCEPT !.next = walk.next + 1,
                          !.promote = IF InFinalSlot THEN walk.promote \cup {walk.seen[walk.next]} ELSE walk.promote,
                          !.upto = IF InFinalSlot THEN walk.next ELSE walk.upto]
  /\ UNCHANGED <<world, rows, projection, cursor, queue, live, gap, faults>>

\* A transaction that is not available stops the walk before it.
FetchNext ==
  /\ walk.at = "walking" /\ More /\ ~Known /\ walk.got = 0
  /\ LET slot == SlotOf(walk.seen[walk.next])
     IN  walk' = IF slot = 0 THEN [walk EXCEPT !.at = "stopped"] ELSE [walk EXCEPT !.got = slot]
  /\ UNCHANGED <<world, rows, projection, cursor, queue, live, gap, faults>>

Flush ==
  /\ ~Flushed
  /\ \/ walk.at = "stopped"
     \/ walk.at = "walking" /\ (walk.got # 0 \/ ~More)
  /\ rows' = [t \in Txs |-> IF t \in walk.promote \cap Stored(rows) THEN Promoted(rows[t], "finalized") ELSE rows[t]]
  /\ cursor' = Advanced(walk.upto)
  /\ walk' = [walk EXCEPT !.promote = {}, !.upto = 0]
  /\ UNCHANGED <<world, projection, queue, live, gap, faults>>

\* A live write that waits for a drop's rows holds the Market's lock.
LockFree == ~live.waits

Apply ==
  /\ walk.at = "walking" /\ More /\ walk.got # 0 /\ Flushed /\ LockFree
  /\ Write(walk.seen[walk.next], walk.got, Commitment, IF InFinalSlot THEN walk.next ELSE 0)
  /\ walk' = [walk EXCEPT !.next = walk.next + 1, !.got = 0]
  /\ UNCHANGED <<world, kept, queue, live, faults>>

\* Only a walk that reached the head looks for dropped rows.
EndWalk ==
  /\ Flushed
  /\ \/ /\ walk.at = "walking" /\ ~More
        /\ walk' = [walk EXCEPT !.at = "checking"]
     \/ /\ walk.at = "stopped"
        /\ walk' = [walk EXCEPT !.at = "gaps"]
  /\ UNCHANGED <<world, rows, projection, cursor, queue, live, gap, faults>>

Listed == {walk.seen[s] : s \in walk.floor + 1..Len(walk.seen)}

\* Confirmed rows in finalized slots that the walk did not list: the cluster is asked about each.
Stale ==
  {t \in Stored(rows) : rows[t].commitment = "confirmed" /\ rows[t].at \in walk.floor + 1..walk.final} \ Listed
Gone == {t \in Stale : SlotOf(t) = 0}
NowFinal == {t \in Stale : SlotOf(t) \in 1..rooted}

CheckStale ==
  /\ walk.at = "checking"
  /\ rows' = [t \in Txs |-> IF t \in NowFinal THEN Promoted(rows[t], "finalized") ELSE rows[t]]
  /\ walk' = [walk EXCEPT !.at = IF Gone = {} THEN "gaps" ELSE "dropping", !.gone = Gone]
  /\ UNCHANGED <<world, projection, cursor, queue, live, gap, faults>>

\* The drop's transaction deletes the rows and the Market's projections.  Nothing of it is seen before it commits.
DropGone ==
  /\ walk.at = "dropping"
  /\ walk' = [walk EXCEPT !.at = "rebuilding"]
  /\ UNCHANGED <<world, rows, projection, cursor, queue, live, gap, faults>>

\* A live write that is to rebuild may have run into rows the drop deleted.
MayWait == live # NoLive /\ ~Barred /\ rows[live.tx].at = 0 /\ ~IsNewest(live.at)

\* It selects what is stored by now, replays it and commits.
RebuildGone ==
  /\ walk.at = "rebuilding"
  /\ rows' = [t \in Txs |-> IF t \in walk.gone THEN NoRow ELSE rows[t]]
  /\ applied' = kept \o Replay(rows') /\ surplus' = kept /\ kept' = <<>>
  /\ walk' = [walk EXCEPT !.at = "gaps", !.gone = {}]
  /\ \E waits \in {live.waits, live.waits \/ MayWait} : live' = [live EXCEPT !.waits = waits]
  /\ UNCHANGED <<world, cursor, queue, gap, faults>>

\* A hole that outlived the grace period: the Market's own signatures are walked.
StartFill ==
  /\ walk.at = "gaps"
  /\ IF gap = "due" /\ Hole(rows)
       THEN /\ walk' = [walk EXCEPT !.at = "filling", !.seen = chain, !.next = 1, !.have = Stored(rows)]
            /\ UNCHANGED gap
       ELSE /\ walk' = NoPass
            /\ gap' = IF gap = "due" THEN "none" ELSE gap
  /\ UNCHANGED <<world, rows, projection, cursor, queue, live, faults>>

FillFetch ==
  /\ walk.at = "filling" /\ More /\ walk.got = 0
  /\ LET slot == IF Known THEN 0 ELSE SlotOf(walk.seen[walk.next])
     IN  walk' = IF slot = 0 THEN [walk EXCEPT !.next = walk.next + 1] ELSE [walk EXCEPT !.got = slot]
  /\ UNCHANGED <<world, rows, projection, cursor, queue, live, gap, faults>>

FillWrite ==
  /\ walk.at = "filling" /\ More /\ walk.got # 0 /\ LockFree
  /\ Write(walk.seen[walk.next], walk.got, Commitment, 0)
  /\ walk' = [walk EXCEPT !.next = walk.next + 1, !.got = 0]
  /\ UNCHANGED <<world, kept, queue, live, faults>>

EndFill ==
  /\ walk.at = "filling" /\ ~More /\ walk.got = 0
  /\ walk' = NoPass
  /\ gap' = IF Hole(rows) THEN "young" ELSE "none"
  /\ UNCHANGED <<world, rows, projection, cursor, queue, live, faults>>

GapAges ==
  /\ gap = "young"
  /\ gap' = "due"
  /\ UNCHANGED <<world, rows, projection, cursor, walk, queue, live, faults>>

PassStep ==
  \/ StartPass \/ List \/ PassKnown \/ FetchNext \/ Flush \/ Apply \/ EndWalk
  \/ CheckStale \/ DropGone \/ RebuildGone \/ StartFill \/ FillFetch \/ FillWrite \/ EndFill

-----------------------------------------------------------------------------
(* Faults.                                                                 *)

Fault == faults < MaxFaults /\ faults' = faults + 1

\* The node lists a transaction it cannot return yet.
NotAvailable ==
  /\ Fault
  /\ More /\ ~Known /\ walk.got = 0
  /\ \/ walk.at = "walking" /\ walk' = [walk EXCEPT !.at = "stopped"]
     \/ walk.at = "filling" /\ walk' = [walk EXCEPT !.next = walk.next + 1]
  /\ UNCHANGED <<world, rows, projection, cursor, queue, live, gap>>

\* The node or the database fails for good within a pass.
PassFails ==
  /\ Fault
  /\ walk.at # "idle"
  /\ walk' = NoPass /\ kept' = <<>>
  /\ UNCHANGED <<world, rows, applied, surplus, cursor, queue, live, gap>>

\* A live write fails, or deadlocks with a drop; it is not tried again.
LiveFails ==
  /\ Fault
  /\ live # NoLive
  /\ live' = NoLive
  /\ UNCHANGED <<world, rows, projection, cursor, walk, queue, gap>>

\* The process starts again: what it held in memory is gone.
Restart ==
  /\ Fault
  /\ walk # NoPass \/ queue # {} \/ live # NoLive \/ gap # "none"
  /\ walk' = NoPass /\ kept' = <<>> /\ queue' = {} /\ live' = NoLive /\ gap' = "none"
  /\ UNCHANGED <<world, rows, applied, surplus, cursor>>

Next ==
  \/ \E t \in Txs : Land(t) \/ LiveFetch(t)
  \/ Finalize \/ Reorg \/ GapAges
  \/ LiveWrite \/ PassStep
  \/ NotAvailable \/ PassFails \/ LiveFails \/ Restart

Spec == Init /\ [][Next]_vars

-----------------------------------------------------------------------------
(* Properties.                                                             *)

Rows == [at : Nat, commitment : {"none", "confirmed", "finalized"}]
Stages == {"idle", "listing", "walking", "stopped", "checking", "dropping", "rebuilding", "gaps", "filling"}
Passes == [at : Stages, final : Nat, floor : Nat, seen : Seq(Txs), next : Nat \ {0}, have : SUBSET Txs,
           promote : SUBSET Txs, upto : Nat, got : Nat, gone : SUBSET Txs]

\* What applied holds is the subject of ProjectionIsReplay.
TypeOK ==
  /\ chain \in Seq(Txs) /\ rooted \in 0..Len(chain)
  /\ rows \in [Txs -> Rows] /\ cursor \in Nat
  /\ walk \in Passes
  /\ queue \in SUBSET Txs /\ live \in {NoLive} \cup [tx : Txs, at : Nat, waits : BOOLEAN]
  /\ gap \in {"none", "young", "due"} /\ reorgs \in 0..MaxReorgs /\ faults \in 0..MaxFaults

\* idx_cursor is "the newest transaction such that every program transaction at or before it is indexed
\* and finalized": whatever the live path misses, a node withholds or a restart forgets, the cursor
\* leaves nothing behind it.
CursorMeansIndexed ==
  /\ cursor <= rooted
  /\ \A s \in 1..cursor : rows[chain[s]].at # 0 /\ rows[chain[s]].commitment = "finalized"

\* "Projections assume a Market's events apply in seq order": with three writers and arrivals out of order
\* they are what a replay of the stored events gives.  Once forks made rows drop, they are that replay after
\* a surplus, which only a live write that overlapped a drop leaves and the next rebuild removes.
ProjectionIsReplay ==
  /\ applied = surplus \o Replay(rows)
  /\ reorgs = 0 => surplus = <<>>

\* What a reader takes for final is final: only a transaction in a finalized slot is stored as one, and no
\* late write of the live path, no dropping of rows decided earlier and no fork changes its row again.
FinalIsForGood ==
  /\ [](\A t \in Txs : rows[t].commitment = "finalized" => \E s \in 1..rooted : chain[s] = t)
  /\ [][\A t \in Txs : rows[t].commitment = "finalized" => rows'[t] = rows[t]]_vars

\* What the cluster finalizes reaches the index as final.
FinalizedIsIndexed ==
  \A t \in Txs : (\E s \in 1..rooted : chain[s] = t) ~> (rows[t].at # 0 /\ rows[t].commitment = "finalized")
============================================================================
