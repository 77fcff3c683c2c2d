------------------------------- MODULE Relay -------------------------------
(***************************************************************************)
(* The x-relay actor: it reads instructions posted on X, executes each as  *)
(* one order through the vault, and answers with one public reply.         *)
(*                                                                         *)
(* The poll loop (recovery, then the mentions newer than the cursor) runs  *)
(* in one process; the delivery loop drains the reply queue beside it and  *)
(* may overlap with another process's, which is what its leases are for.   *)
(* All that survives a crash are the rows of the database: the cursor, one *)
(* receipt and one delivery per mention.  Every await that writes a row,   *)
(* sends an order or posts a reply is a step; reads are joined to the      *)
(* write that uses them, since the poll loop is the receipts' only writer. *)
(*                                                                         *)
(* A mention is its place in the feed, an order its mention: executing one *)
(* twice would sign a second transaction, which sent counts.               *)
(***************************************************************************)
EXTENDS Integers, FiniteSets, Sequences

CONSTANTS
  Workers,         \* processes that run the delivery loop
  Host,            \* the one of them that also runs the poll loop
  MaxMentions,     \* bound: mentions of the feed
  MaxAttempts,     \* bound: acquisitions of one delivery
  MaxFaults        \* bound: crashes, failing calls and lost answers

ASSUME RelayAssumption ==
  /\ Host \in Workers
  /\ {MaxMentions, MaxAttempts, MaxFaults} \subseteq Nat

Mentions == 1..MaxMentions
NoCursor == -1     \* no row in x_relay_state
NoMention == 0

ResultStatuses == {"filled", "nothing-filled", "reverted"}
OpenStatuses == {"submitted", "unknown"}
Statuses == {"none", "refused"} \cup ResultStatuses \cup OpenStatuses
DeliveryStates == {"none", "pending", "preparing", "posting", "sent", "unknown", "failed"}
Landed == {"filled", "nofill", "failed"}

VARIABLES
  feed,       \* the mentions X shows, oldest first: a user's "command" or the relay's own "reply"
  cursor,     \* x_relay_state: the last mention done
  receipts,   \* x_receipts, per mention
  delivery,   \* x_reply_delivery, per mention
  poll,       \* the poll loop's place and locals
  job,        \* per worker: the delivery loop's place and locals
  chain,      \* per mention: what became of its order on chain
  sent,       \* per mention: transactions handed to the network
  posts,      \* per mention: public replies
  faults      \* faults so far

relayVars == <<feed, cursor, receipts, delivery, poll, job, chain, sent, posts, faults>>

-----------------------------------------------------------------------------
(* Rows.                                                                   *)

\* hash: tx_hash is set; intent: executionActor and intentRecordedAtMs; target: the grant, the Window
\* and the side an order can be recognised by; old: updated_at is past the limit recovery waits for.
NoReceipt == [status |-> "none", hash |-> FALSE, intent |-> FALSE, target |-> FALSE, old |-> FALSE]
NoDelivery == [state |-> "none", lease |-> 0, text |-> "none", old |-> FALSE]

IdlePoll == [at |-> "idle", mention |-> NoMention, until |-> 0, due |-> {}, outcome |-> "none"]
IdleJob == [at |-> "idle", mention |-> NoMention, lease |-> 0, text |-> "none"]

\* A refusal, a doubt or a first claim never replaces what the chain said (xReceiptUpsert).
Upsert(row, status) ==
  IF row.status \in ResultStatuses /\ status \in OpenStatuses \cup {"refused"}
    THEN row ELSE [row EXCEPT !.status = status, !.old = FALSE]

\* mutant: only doubtful receipts are looked at, a claim a crash left behind is not
CandidateUnknown(row) == row.old /\ row.status = "unknown" /\ (row.hash \/ row.intent)
\* xRecoveryCandidates.
Candidate(row) ==
  /\ row.old
  /\ row.status = "submitted" \/ (row.status = "unknown" /\ (row.hash \/ row.intent))

\* mutant: any doubt holds the relay
UnresolvedDoubt(row) == row.status \in OpenStatuses /\ row.intent
\* xHasUnresolvedBroadcast: an order was about to be sent and no hash says which.
Unresolved(row) == row.status \in OpenStatuses /\ row.intent /\ ~row.hash

\* mutant: an absent transaction is taken for a reverted one
RecoveredAbsent(row, state) ==
  IF ~row.hash \/ ~row.target THEN "unknown" ELSE IF state = "filled" THEN "filled" ELSE "reverted"
\* mutant: an order recovery does not find is called refused
RecoveredRefused(row, state) ==
  IF state \notin Landed THEN "refused"
  ELSE IF ~row.hash \/ ~row.target THEN "unknown"
  ELSE IF state = "filled" THEN "filled" ELSE "reverted"
\* resolveXExecution and recoverExecutionReceipt: only a transaction with the stored hash decides.
Recovered(row, state) ==
  IF ~row.hash \/ ~row.target \/ state \notin Landed THEN "unknown"
  ELSE IF state = "filled" THEN "filled" ELSE "reverted"

RelayInit ==
  /\ feed = <<>> /\ cursor = NoCursor
  /\ receipts = [m \in Mentions |-> NoReceipt]
  /\ delivery = [m \in Mentions |-> NoDelivery]
  /\ poll = IdlePoll
  /\ job = [w \in Workers |-> IdleJob]
  /\ chain = [m \in Mentions |-> "none"]
  /\ sent = [m \in Mentions |-> 0]
  /\ posts = [m \in Mentions |-> 0]
  /\ faults = 0

-----------------------------------------------------------------------------
(* Outside: X, the network and the clock.                                  *)

\* A user mentions the relay; X lists mentions in the order of their ids.
Mention ==
  /\ Len(feed) < MaxMentions
  /\ feed' = Append(feed, "command")
  /\ UNCHANGED <<cursor, receipts, delivery, poll, job, chain, sent, posts, faults>>

\* A reply the relay posted shows up as a mention of it.
OwnReply ==
  /\ Len(feed) < MaxMentions
  /\ \E m \in Mentions : posts[m] > 0
  /\ "reply" \notin {feed[k] : k \in DOMAIN feed}
  /\ feed' = Append(feed, "reply")
  /\ UNCHANGED <<cursor, receipts, delivery, poll, job, chain, sent, posts, faults>>

\* The network executes an order, or its blockhash expires first.
Execute(m) ==
  /\ chain[m] = "inflight"
  /\ \E r \in Landed \cup {"expired"} : chain' = [chain EXCEPT ![m] = r]
  /\ UNCHANGED <<feed, cursor, receipts, delivery, poll, job, sent, posts, faults>>

\* A receipt or a delivery is left untouched for long.
ReceiptAges(m) ==
  /\ receipts[m].status \in OpenStatuses /\ ~receipts[m].old
  /\ receipts' = [receipts EXCEPT ![m].old = TRUE]
  /\ UNCHANGED <<feed, cursor, delivery, poll, job, chain, sent, posts, faults>>

DeliveryAges(m) ==
  /\ delivery[m].state \in {"preparing", "posting"} /\ ~delivery[m].old
  /\ delivery' = [delivery EXCEPT ![m].old = TRUE]
  /\ UNCHANGED <<feed, cursor, receipts, poll, job, chain, sent, posts, faults>>

-----------------------------------------------------------------------------
(* The poll loop: recovery first, then the mentions newer than the cursor. *)

StartCycle ==
  /\ poll.at = "idle"
  /\ poll' = [IdlePoll EXCEPT !.at = "recovering", !.due = {m \in Mentions : Candidate(receipts[m])}]
  /\ UNCHANGED <<feed, cursor, receipts, delivery, job, chain, sent, posts, faults>>

\* One candidate is looked up on chain and stored, unless the row changed since it was read.
Recover(m) ==
  /\ poll.at = "recovering" /\ m \in poll.due
  /\ receipts' = [receipts EXCEPT ![m].status = Recovered(receipts[m], chain[m]), ![m].old = FALSE]
  /\ poll' = [poll EXCEPT !.due = @ \ {m}]
  /\ UNCHANGED <<feed, cursor, delivery, job, chain, sent, posts, faults>>

\* The mentions to go through are fixed here.  The very first poll only sets the cursor.
Fetch ==
  /\ poll.at = "recovering" /\ poll.due = {}
  /\ IF cursor = NoCursor
       THEN cursor' = Len(feed) /\ poll' = IdlePoll
       ELSE /\ poll' = [poll EXCEPT !.at = "next", !.mention = cursor + 1, !.until = Len(feed)]
            /\ UNCHANGED cursor
  /\ UNCHANGED <<feed, receipts, delivery, job, chain, sent, posts, faults>>

IsRelayReply(m) == feed[m] = "reply"

\* Nothing left, or an earlier order may be out without a known hash: the cycle ends.
EndCycle ==
  /\ poll.at = "next"
  /\ \/ poll.mention > poll.until
     \/ /\ poll.mention <= poll.until
        /\ ~IsRelayReply(poll.mention)
        /\ \E m \in Mentions : Unresolved(receipts[m])
  /\ poll' = IdlePoll
  /\ UNCHANGED <<feed, cursor, receipts, delivery, job, chain, sent, posts, faults>>

SkipOwnReply ==
  /\ poll.at = "next" /\ poll.mention <= poll.until
  /\ IsRelayReply(poll.mention)
  /\ cursor' = poll.mention
  /\ poll' = [poll EXCEPT !.mention = @ + 1]
  /\ UNCHANGED <<feed, receipts, delivery, job, chain, sent, posts, faults>>

\* mutant: the claim is written whether or not there is one
Claimable(m) == TRUE
\* INSERT ... ON CONFLICT DO NOTHING returned a row.
Unclaimed(m) == receipts[m].status = "none"

\* The receipt and the queued reply are one transaction; a mention already claimed is only passed.
Claim ==
  LET m == poll.mention
  IN  /\ poll.at = "next" /\ m <= poll.until
      /\ ~IsRelayReply(m) /\ \A n \in Mentions : ~Unresolved(receipts[n])
      /\ IF Unclaimed(m)
           THEN /\ receipts' = [receipts EXCEPT ![m] = [NoReceipt EXCEPT !.status = "submitted"]]
                /\ delivery' = [delivery EXCEPT ![m].state = IF @ = "none" THEN "pending" ELSE @]
                /\ poll' = [poll EXCEPT !.at = "claimed"]
           ELSE /\ poll' = [poll EXCEPT !.at = "passing"]
                /\ UNCHANGED <<receipts, delivery>>
      /\ UNCHANGED <<feed, cursor, job, chain, sent, posts, faults>>

-----------------------------------------------------------------------------
(* executeMention and the order lane it sends through.                     *)

Outcome(status) == poll' = [poll EXCEPT !.at = "answered", !.outcome = status]

\* No link, an instruction that does not parse, no grant, no Window, no quote; then the lane's gates.
Refuse ==
  /\ poll.at \in {"claimed", "targeted"}
  /\ Outcome("refused")
  /\ UNCHANGED <<feed, cursor, receipts, delivery, job, chain, sent, posts, faults>>

\* What recovery needs to recognise the order is stored before the lane runs.
Checkpoint ==
  /\ poll.at = "claimed"
  /\ receipts' = [receipts EXCEPT ![poll.mention].target = TRUE, ![poll.mention].old = FALSE]
  /\ poll' = [poll EXCEPT !.at = "targeted"]
  /\ UNCHANGED <<feed, cursor, delivery, job, chain, sent, posts, faults>>

RecordIntent ==
  /\ poll.at = "targeted"
  /\ receipts' = [receipts EXCEPT ![poll.mention].intent = TRUE, ![poll.mention].old = FALSE]
  /\ poll' = [poll EXCEPT !.at = "recorded"]
  /\ UNCHANGED <<feed, cursor, delivery, job, chain, sent, posts, faults>>

\* Signed, and its hash journaled before the bytes leave.
MarkSent ==
  /\ poll.at = "recorded"
  /\ receipts' = [receipts EXCEPT ![poll.mention].hash = TRUE, ![poll.mention].old = FALSE]
  /\ poll' = [poll EXCEPT !.at = "signed"]
  /\ UNCHANGED <<feed, cursor, delivery, job, chain, sent, posts, faults>>

\* The signer refuses, or preflight does: the bytes never left.
NotSent ==
  /\ poll.at \in {"recorded", "signed"}
  /\ Outcome("refused")
  /\ UNCHANGED <<feed, cursor, receipts, delivery, job, chain, sent, posts, faults>>

\* mutant: the bytes leave as soon as they are signed
SendOnceSigned == poll.at \in {"recorded", "signed"}
ReadyToSend == poll.at = "signed"

\* A lost answer to the send leaves the bytes just as likely in the network: the confirm loop re-sends.
Send ==
  /\ ReadyToSend
  /\ chain' = [chain EXCEPT ![poll.mention] = "inflight"]
  /\ sent' = [sent EXCEPT ![poll.mention] = @ + 1]
  /\ poll' = [poll EXCEPT !.at = "confirming"]
  /\ UNCHANGED <<feed, cursor, receipts, delivery, job, posts, faults>>

Booked == [filled |-> "filled", nofill |-> "nothing-filled", failed |-> "reverted"]

\* The landing is read; or nothing is known by the cap, or the fills are not readable yet.
Confirm ==
  /\ poll.at = "confirming"
  /\ \/ chain[poll.mention] \in Landed /\ Outcome(Booked[chain[poll.mention]])
     \/ Outcome("unknown")
  /\ UNCHANGED <<feed, cursor, receipts, delivery, job, chain, sent, posts, faults>>

Save ==
  /\ poll.at = "answered"
  /\ receipts' = [receipts EXCEPT ![poll.mention] = Upsert(@, poll.outcome)]
  /\ poll' = [poll EXCEPT !.at = "passing"]
  /\ UNCHANGED <<feed, cursor, delivery, job, chain, sent, posts, faults>>

PassCursor ==
  /\ poll.at = "passing"
  /\ cursor' = poll.mention
  /\ poll' = [poll EXCEPT !.at = "next", !.mention = @ + 1, !.outcome = "none"]
  /\ UNCHANGED <<feed, receipts, delivery, job, chain, sent, posts, faults>>

PollStep ==
  \/ StartCycle \/ (\E m \in Mentions : Recover(m)) \/ Fetch \/ EndCycle \/ SkipOwnReply \/ Claim
  \/ Refuse \/ Checkpoint \/ RecordIntent \/ MarkSent \/ NotSent \/ Send \/ Confirm \/ Save \/ PassCursor

-----------------------------------------------------------------------------
(* The delivery loop.                                                      *)

Row(w) == delivery[job[w].mention]
Holds(w, state) == Row(w).lease = job[w].lease /\ Row(w).state = state

\* A post nobody finished is for an operator to inspect (xMarkInterruptedReplyPosts).
MarkInterrupted(w) ==
  /\ job[w].at = "idle"
  /\ \E m \in Mentions : delivery[m].state = "posting" /\ delivery[m].old
  /\ delivery' = [m \in Mentions |->
       IF delivery[m].state = "posting" /\ delivery[m].old
         THEN [delivery[m] EXCEPT !.state = "unknown", !.old = FALSE] ELSE delivery[m]]
  /\ UNCHANGED <<feed, cursor, receipts, poll, job, chain, sent, posts, faults>>

\* mutant: a post that went quiet is taken up again
AcquirableQuiet(m) ==
  /\ receipts[m].status # "submitted"
  /\ delivery[m].state = "pending" \/ (delivery[m].state \in {"preparing", "posting"} /\ delivery[m].old)
\* "A stale render/upload can be claimed again; a started POST cannot."
Acquirable(m) ==
  /\ receipts[m].status # "submitted"
  /\ delivery[m].state = "pending" \/ (delivery[m].state = "preparing" /\ delivery[m].old)

\* Every acquisition draws a fresh lease.
Acquire(w) ==
  /\ job[w].at = "idle"
  /\ \E m \in Mentions :
       LET lease == delivery[m].lease + 1
       IN  /\ Acquirable(m) /\ lease <= MaxAttempts
           /\ delivery' = [delivery EXCEPT ![m].state = "preparing", ![m].lease = lease, ![m].old = FALSE]
           /\ job' = [job EXCEPT ![w] = [IdleJob EXCEPT !.at = "acquired", !.mention = m, !.lease = lease]]
  /\ UNCHANGED <<feed, cursor, receipts, poll, chain, sent, posts, faults>>

\* The receipt is read and rendered.
Prepare(w) ==
  /\ job[w].at = "acquired"
  /\ job' = [job EXCEPT ![w].at = "prepared", ![w].text = receipts[job[w].mention].status]
  /\ UNCHANGED <<feed, cursor, receipts, delivery, poll, chain, sent, posts, faults>>

\* The payload is stored before the post, and only by the holder of the lease.
BeginPost(w) ==
  /\ job[w].at = "prepared"
  /\ IF Holds(w, "preparing")
       THEN /\ delivery' = [delivery EXCEPT ![job[w].mention].state = "posting",
                                             ![job[w].mention].text = job[w].text,
                                             ![job[w].mention].old = FALSE]
            /\ job' = [job EXCEPT ![w].at = "posting"]
       ELSE job' = [job EXCEPT ![w] = IdleJob] /\ UNCHANGED delivery
  /\ UNCHANGED <<feed, cursor, receipts, poll, chain, sent, posts, faults>>

\* X publishes the reply and acknowledges it.
Post(w) ==
  /\ job[w].at = "posting"
  /\ posts' = [posts EXCEPT ![job[w].mention] = @ + 1]
  /\ job' = [job EXCEPT ![w].at = "posted"]
  /\ UNCHANGED <<feed, cursor, receipts, delivery, poll, chain, sent, faults>>

Stopped(w, state) ==
  delivery' = IF Holds(w, "preparing") \/ Holds(w, "posting")
                THEN [delivery EXCEPT ![job[w].mention].state = state, ![job[w].mention].old = FALSE]
                ELSE delivery

\* The acknowledgement is stored; a row that moved on meanwhile is left as it is.
FinishPost(w) ==
  /\ job[w].at = "posted"
  /\ IF Holds(w, "posting")
       THEN delivery' = [delivery EXCEPT ![job[w].mention].state = "sent", ![job[w].mention].old = FALSE]
       ELSE Stopped(w, "unknown")
  /\ job' = [job EXCEPT ![w] = IdleJob]
  /\ UNCHANGED <<feed, cursor, receipts, poll, chain, sent, posts, faults>>

DeliveryStep(w) == MarkInterrupted(w) \/ Acquire(w) \/ Prepare(w) \/ BeginPost(w) \/ Post(w) \/ FinishPost(w)

-----------------------------------------------------------------------------
(* Faults: crashes, failing calls, lost answers.                           *)

Fault == faults < MaxFaults /\ faults' = faults + 1

\* A process stops and starts again: what it held in memory is gone.
Crash(w) ==
  /\ Fault
  /\ job[w].at # "idle" \/ (w = Host /\ poll.at # "idle")
  /\ job' = [job EXCEPT ![w] = IdleJob]
  /\ poll' = IF w = Host THEN IdlePoll ELSE poll
  /\ UNCHANGED <<feed, cursor, receipts, delivery, chain, sent, posts>>

\* The store or X fails between mentions: the cycle is given up, the next one starts over.
CycleFails ==
  /\ Fault
  /\ poll.at \in {"recovering", "next", "answered", "passing"}
  /\ poll' = IdlePoll
  /\ UNCHANGED <<feed, cursor, receipts, delivery, job, chain, sent, posts>>

\* The chain cannot be read: the candidate stays, or becomes, unknown.
RecoverBlind(m) ==
  /\ Fault
  /\ poll.at = "recovering" /\ m \in poll.due
  /\ receipts' = [receipts EXCEPT ![m].status = "unknown", ![m].old = FALSE]
  /\ poll' = [poll EXCEPT !.due = @ \ {m}]
  /\ UNCHANGED <<feed, cursor, delivery, job, chain, sent, posts>>

\* executeMention throws before it reaches the lane.
ExecutionThrows ==
  /\ Fault
  /\ poll.at = "claimed"
  /\ Outcome("unknown")
  /\ UNCHANGED <<feed, cursor, receipts, delivery, job, chain, sent, posts>>

\* A journal write of the lane fails: before the send, or after it, the lane's catch answers the same.
LaneThrows ==
  /\ Fault
  /\ poll.at \in {"targeted", "recorded", "confirming"}
  /\ Outcome("refused")
  /\ UNCHANGED <<feed, cursor, receipts, delivery, job, chain, sent, posts>>

\* Rendering or reading fails before the post.
PreparationFails(w) ==
  /\ Fault
  /\ job[w].at \in {"acquired", "prepared"}
  /\ Stopped(w, "failed")
  /\ job' = [job EXCEPT ![w] = IdleJob]
  /\ UNCHANGED <<feed, cursor, receipts, poll, chain, sent, posts>>

\* No acknowledgement by the deadline, or it could not be stored: X may have the reply, then or later.
PostUnacknowledged(w) ==
  /\ Fault
  /\ job[w].at \in {"posting", "posted"}
  /\ \E accepted \in BOOLEAN :
       posts' = IF job[w].at = "posting" /\ accepted THEN [posts EXCEPT ![job[w].mention] = @ + 1] ELSE posts
  /\ Stopped(w, "unknown")
  /\ job' = [job EXCEPT ![w] = IdleJob]
  /\ UNCHANGED <<feed, cursor, receipts, poll, chain, sent>>

RelayFault ==
  \/ \E w \in Workers : Crash(w) \/ PreparationFails(w) \/ PostUnacknowledged(w)
  \/ \E m \in Mentions : RecoverBlind(m)
  \/ CycleFails \/ ExecutionThrows \/ LaneThrows

RelayWorld ==
  \/ Mention \/ OwnReply
  \/ \E m \in Mentions : Execute(m) \/ ReceiptAges(m) \/ DeliveryAges(m)

RelayNext == PollStep \/ (\E w \in Workers : DeliveryStep(w)) \/ RelayWorld \/ RelayFault

RelaySpec == RelayInit /\ [][RelayNext]_relayVars

-----------------------------------------------------------------------------
(* Properties.                                                             *)

RelayTypeOK ==
  /\ feed \in Seq({"command", "reply"}) /\ Len(feed) <= MaxMentions
  /\ cursor \in NoCursor..MaxMentions
  /\ receipts \in [Mentions -> [status : Statuses, hash : BOOLEAN, intent : BOOLEAN, target : BOOLEAN, old : BOOLEAN]]
  /\ delivery \in [Mentions -> [state : DeliveryStates, lease : Nat, text : Statuses, old : BOOLEAN]]
  /\ chain \in [Mentions -> {"none", "inflight", "expired"} \cup Landed]
  /\ sent \in [Mentions -> Nat] /\ posts \in [Mentions -> Nat]
  /\ faults \in 0..MaxFaults

\* "An existing mention is never executed again": whatever is read twice, crashes or gets lost, an
\* instruction becomes at most one transaction, and the relay's own reply none.
OneOrderPerCommand ==
  \A m \in Mentions :
    sent[m] <= 1 /\ (sent[m] = 1 => m \in DOMAIN feed /\ feed[m] = "command")

\* An order that may be anywhere in the network can be asked for by its hash: the hash was stored
\* with what recovery needs before the bytes left.
BroadcastIsRecorded ==
  \A m \in Mentions : chain[m] # "none" => receipts[m].hash /\ receipts[m].target

\* "H[One X POST attempt]": at most one public reply per mention, across lost acknowledgements,
\* expired leases, overlapping workers and crashes.
OneReplyPerMention == \A m \in Mentions : posts[m] <= 1

\* What a receipt says of the chain, and what the public reply said, is what the chain did.
OnlyTrueResults ==
  LET True(m, status) ==
        /\ status = "filled" => chain[m] = "filled"
        /\ status \in {"nothing-filled", "reverted"} => chain[m] \in {"nofill", "failed"}
  IN  \A m \in Mentions : True(m, receipts[m].status) /\ True(m, delivery[m].text)

\* What a user may count on, per mention (Errand): one attempt, on record before it leaves; a receipt
\* that only ever moves towards a final answer; one reply, worded from it and published at most once.
\* No crash, overlap of workers, late recovery or second poll takes an answer back.
Contract(m) ==
  INSTANCE Errand WITH
    asked <- m \in DOMAIN feed /\ feed[m] = "command",
    status <- receipts[m].status,
    recorded <- receipts[m].hash /\ receipts[m].target,
    sent <- sent[m], order <- chain[m], said <- delivery[m].text, replies <- posts[m]
KeepsErrand ==
  /\ \A m \in Mentions : Contract(m)!Init
  /\ [][\A m \in Mentions : [Contract(m)!Next]_(Contract(m)!vars)]_relayVars

\* Every instruction newer than the cursor is taken up, unless an order that may have been sent
\* without a known hash holds the relay for an operator.
EveryCommandIsTaken ==
  \A m \in Mentions :
    m \in DOMAIN feed /\ m > cursor /\ cursor # NoCursor /\ feed[m] = "command"
      ~> \/ receipts[m].status # "none"
         \/ \E n \in Mentions : receipts[n].status \in OpenStatuses /\ receipts[n].intent /\ ~receipts[n].hash

\* "A refusal before anything was sent": an order a receipt calls refused never left the relay.
RefusedWasNeverSent == \A m \in Mentions : receipts[m].status = "refused" => sent[m] = 0

\* What the chain did with an order reaches its receipt, also after a crash or an unreadable chain.
LandedOrderIsReported ==
  \A m \in Mentions : chain[m] \in Landed ~> receipts[m].status \in ResultStatuses \cup {"refused"}
============================================================================
