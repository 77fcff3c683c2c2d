---------------------------- MODULE RelayProofs ----------------------------
(***************************************************************************)
(* An instruction becomes at most one transaction, its hash is stored      *)
(* before its bytes leave, it gets at most one reply, and what is said of  *)
(* it is true: for every number of mentions, workers and faults.           *)
(*                                                                         *)
(* None of the four is inductive.  Each is strengthened by what the two    *)
(* loops hold in memory between their database writes: the poll loop a     *)
(* mention it alone claimed and of which nothing was sent (OrderInv), a    *)
(* worker a delivery nobody else is posting (ReplyInv) and a text that was *)
(* true when it was read (ResultInv).  The refinement of Errand adds which *)
(* receipts may still change (HandInv) and which words may still be said   *)
(* (WordInv).                                                              *)
(***************************************************************************)
EXTENDS Relay, TLAPS

Receipts == [status : Statuses, hash : BOOLEAN, intent : BOOLEAN, target : BOOLEAN, old : BOOLEAN]
Deliveries == [state : DeliveryStates, lease : Nat, text : Statuses, old : BOOLEAN]
Executing == {"claimed", "targeted", "recorded", "signed"}
InHand == Executing \cup {"confirming", "answered", "passing"}
Polls == [at : {"idle", "recovering", "next"} \cup InHand, mention : Nat, until : Nat,
          due : SUBSET Mentions, outcome : Statuses]
Jobs == [at : {"idle", "acquired", "prepared", "posting", "posted"}, mention : Nat, lease : Nat, text : Statuses]
Chains == {"none", "inflight", "expired"} \cup Landed

\* Types, with what the two loops hold in memory.
Typed ==
  /\ feed \in Seq({"command", "reply"}) /\ Len(feed) <= MaxMentions
  /\ cursor \in NoCursor..MaxMentions
  /\ receipts \in [Mentions -> Receipts] /\ delivery \in [Mentions -> Deliveries]
  /\ chain \in [Mentions -> Chains] /\ sent \in [Mentions -> Nat] /\ posts \in [Mentions -> Nat]
  /\ faults \in 0..MaxFaults
  /\ poll \in Polls /\ job \in [Workers -> Jobs]
  /\ poll.until <= Len(feed) /\ (poll.at = "next" => poll.mention # 0)
  /\ poll.at \in InHand => poll.mention \in DOMAIN feed
  /\ \A w \in Workers : job[w].at # "idle" => job[w].mention \in Mentions

LEMMA TypedStarts ==
  RelayInit => Typed
<1> SUFFICES ASSUME RelayInit PROVE Typed
  OBVIOUS
<1> USE RelayAssumption
<1>1. /\ NoReceipt \in Receipts /\ NoDelivery \in Deliveries /\ IdlePoll \in Polls /\ IdleJob \in Jobs
      /\ IdlePoll.at = "idle" /\ IdlePoll.until = 0 /\ IdleJob.at = "idle"
  BY DEF NoReceipt, NoDelivery, IdlePoll, IdleJob, NoMention, Receipts, Deliveries, Polls, Jobs, Statuses,
         DeliveryStates
<1>2. <<>> \in Seq({"command", "reply"}) /\ Len(<<>>) = 0
  OBVIOUS
<1> QED BY <1>1, <1>2 DEF RelayInit, Typed, NoCursor, Chains, InHand, Executing

\* The types of a mention in hand.
LEMMA InHandType ==
  ASSUME Typed, poll.at \in InHand
  PROVE  poll.mention \in Mentions /\ poll.mention \in 1..Len(feed) /\ receipts[poll.mention] \in Receipts
BY RelayAssumption DEF Typed, Mentions

LEMMA PollTypes ==
  ASSUME Typed, PollStep
  PROVE  Typed'
<1> USE RelayAssumption
<1>0. /\ feed \in Seq({"command", "reply"}) /\ Len(feed) \in Nat /\ Len(feed) <= MaxMentions /\ DOMAIN feed = 1..Len(feed)
      /\ cursor \in NoCursor..MaxMentions /\ poll \in Polls /\ MaxMentions \in Nat
      /\ poll.until \in Nat /\ poll.mention \in Nat /\ poll.until <= Len(feed)
  BY DEF Typed, Polls
<1>1. CASE StartCycle
  <2>1. poll' \in Polls /\ poll'.at = "recovering" /\ poll'.until = 0
    BY <1>1 DEF StartCycle, IdlePoll, NoMention, Polls, Statuses
  <2> QED BY <1>0, <1>1, <2>1 DEF Typed, StartCycle, InHand, Executing
<1>2. ASSUME NEW m \in Mentions, Recover(m) PROVE Typed'
  <2>1. Recovered(receipts[m], chain[m]) \in Statuses
    BY DEF Recovered, Statuses, OpenStatuses, ResultStatuses
  <2>2. receipts' \in [Mentions -> Receipts]
    BY <1>2, <2>1 DEF Typed, Recover, Receipts
  <2>3. poll' \in Polls /\ poll'.at = "recovering" /\ poll'.until = poll.until
    BY <1>0, <1>2 DEF Recover, Polls
  <2> QED BY <1>0, <1>2, <2>2, <2>3 DEF Typed, Recover, InHand, Executing
<1>3. CASE Fetch
  <2>1. CASE cursor = NoCursor
    <3>1. poll' = IdlePoll /\ cursor' = Len(feed)
      BY <1>3, <2>1 DEF Fetch
    <3>2. poll' \in Polls /\ poll'.at = "idle" /\ poll'.until = 0
      BY <3>1 DEF IdlePoll, NoMention, Polls, Statuses
    <3> QED BY <1>0, <1>3, <3>1, <3>2 DEF Typed, Fetch, InHand, Executing, NoCursor
  <2>2. CASE cursor # NoCursor
    <3>1. poll' = [poll EXCEPT !.at = "next", !.mention = cursor + 1, !.until = Len(feed)] /\ cursor' = cursor
      BY <1>3, <2>2 DEF Fetch
    <3>2. cursor + 1 \in Nat /\ cursor + 1 # 0
      BY <1>0, <2>2 DEF NoCursor
    <3>3. poll' \in Polls /\ poll'.at = "next" /\ poll'.until = Len(feed) /\ poll'.mention # 0
      BY <1>0, <3>1, <3>2 DEF Polls
    <3> QED BY <1>0, <1>3, <3>1, <3>3 DEF Typed, Fetch, InHand, Executing
  <2> QED BY <2>1, <2>2
<1>4. CASE EndCycle
  <2>1. poll' \in Polls /\ poll'.at = "idle" /\ poll'.until = 0
    BY <1>4 DEF EndCycle, IdlePoll, NoMention, Polls, Statuses
  <2> QED BY <1>0, <1>4, <2>1 DEF Typed, EndCycle, InHand, Executing
<1>5. CASE SkipOwnReply
  <2>1. poll' = [poll EXCEPT !.mention = poll.mention + 1]
    BY <1>5 DEF SkipOwnReply
  <2>2. poll' \in Polls /\ poll'.at = "next" /\ poll'.until = poll.until /\ poll'.mention # 0
    <3>1. poll.at = "next" /\ poll.mention + 1 \in Nat /\ poll.mention + 1 # 0
      BY <1>0, <1>5 DEF SkipOwnReply, Polls
    <3> QED BY <1>0, <2>1, <3>1 DEF Polls
  <2>3. cursor' \in NoCursor..MaxMentions
    BY <1>0, <1>5 DEF SkipOwnReply, NoCursor
  <2> QED BY <1>0, <1>5, <2>2, <2>3 DEF Typed, SkipOwnReply, InHand, Executing
<1>6. CASE Claim
  <2>1. poll.mention \in DOMAIN feed /\ poll.mention \in Mentions /\ poll.mention # 0
    BY <1>0, <1>6 DEF Claim, Typed, Mentions
  <2>2. receipts' \in [Mentions -> Receipts]
    <3>1. [NoReceipt EXCEPT !.status = "submitted"] \in Receipts
      BY DEF NoReceipt, Receipts, Statuses, OpenStatuses
    <3> QED BY <1>6, <2>1, <3>1 DEF Claim, Typed
  <2>3. delivery' \in [Mentions -> Deliveries]
    <3>1. delivery[poll.mention] \in Deliveries
      BY <2>1 DEF Typed
    <3>2. (IF delivery[poll.mention].state = "none" THEN "pending" ELSE delivery[poll.mention].state) \in DeliveryStates
      BY <3>1 DEF Deliveries, DeliveryStates
    <3>3. DEFINE state == IF delivery[poll.mention].state = "none" THEN "pending" ELSE delivery[poll.mention].state
    <3>4. CASE delivery' = [delivery EXCEPT ![poll.mention].state = state]
      <4>1. state \in DeliveryStates
        BY <3>2
      <4> HIDE DEF state
      <4>2. [delivery[poll.mention] EXCEPT !.state = state] \in Deliveries
        BY <3>1, <4>1 DEF Deliveries
      <4> QED BY <2>1, <3>4, <4>2 DEF Typed
    <3>5. CASE delivery' = delivery
      BY <3>5 DEF Typed
    <3> QED BY <1>6, <3>4, <3>5 DEF Claim
  <2>4. /\ poll' \in Polls /\ poll'.at \in InHand /\ poll'.until = poll.until /\ poll'.mention = poll.mention
        /\ poll'.at # "next"
    BY <1>0, <1>6 DEF Claim, Polls, InHand, Executing
  <2> QED BY <1>0, <1>6, <2>1, <2>2, <2>3, <2>4 DEF Typed, Claim
<1>7. CASE Refuse \/ NotSent \/ Confirm
  <2>1. PICK status \in Statuses : poll' = [poll EXCEPT !.at = "answered", !.outcome = status]
    <3>1. CASE Refuse \/ NotSent
      BY <3>1 DEF Refuse, NotSent, Outcome, Statuses
    <3>2. CASE Confirm
      <4>1. {"filled", "nothing-filled", "reverted", "unknown"} \subseteq Statuses
        BY DEF Statuses, ResultStatuses, OpenStatuses
      <4>2. ASSUME chain[poll.mention] \in Landed PROVE Booked[chain[poll.mention]] \in Statuses
        BY <4>1, <4>2 DEF Booked, Landed
      <4> QED BY <3>2, <4>1, <4>2 DEF Confirm, Outcome
    <3> QED BY <1>7, <3>1, <3>2
  <2>2. /\ poll' \in Polls /\ poll'.at = "answered" /\ poll'.until = poll.until /\ poll'.mention = poll.mention
        /\ poll.at \in InHand
    BY <1>0, <1>7, <2>1 DEF Refuse, NotSent, Confirm, Polls, InHand, Executing
  <2> QED BY <1>0, <1>7, <2>2 DEF Typed, Refuse, NotSent, Confirm
<1>8. CASE Checkpoint \/ RecordIntent \/ MarkSent
  <2>1. poll.mention \in Mentions
    BY <1>8, InHandType DEF Checkpoint, RecordIntent, MarkSent, InHand, Executing
  <2>2. receipts' \in [Mentions -> Receipts]
    <3>1. CASE Checkpoint
      BY <2>1, <3>1 DEF Typed, Receipts, Checkpoint
    <3>2. CASE RecordIntent
      BY <2>1, <3>2 DEF Typed, Receipts, RecordIntent
    <3>3. CASE MarkSent
      BY <2>1, <3>3 DEF Typed, Receipts, MarkSent
    <3> QED BY <1>8, <3>1, <3>2, <3>3
  <2>3. /\ poll' \in Polls /\ poll'.at \in InHand /\ poll'.until = poll.until /\ poll'.mention = poll.mention
        /\ poll'.at # "next" /\ poll.at \in InHand
    BY <1>0, <1>8 DEF Checkpoint, RecordIntent, MarkSent, Polls, InHand, Executing
  <2> QED BY <1>0, <1>8, <2>2, <2>3 DEF Typed, Checkpoint, RecordIntent, MarkSent
<1>9. CASE Send
  <2>1. poll.mention \in Mentions
    BY <1>9, InHandType DEF Send, ReadyToSend, InHand, Executing
  <2>2. chain' \in [Mentions -> Chains] /\ sent' \in [Mentions -> Nat]
    BY <1>9, <2>1 DEF Typed, Chains, Send
  <2>3. /\ poll' \in Polls /\ poll'.at = "confirming" /\ poll'.until = poll.until /\ poll'.mention = poll.mention
        /\ poll.at \in InHand
    BY <1>0, <1>9 DEF Send, ReadyToSend, Polls, InHand, Executing
  <2> QED BY <1>0, <1>9, <2>2, <2>3 DEF Typed, Send
<1>10. CASE Save
  <2>1. poll.mention \in Mentions /\ poll.outcome \in Statuses
    BY <1>0, <1>10, InHandType DEF Save, InHand, Polls
  <2>2. Upsert(receipts[poll.mention], poll.outcome) \in Receipts
    <3>1. receipts[poll.mention] \in Receipts
      BY <2>1 DEF Typed
    <3>2. [receipts[poll.mention] EXCEPT !.status = poll.outcome, !.old = FALSE] \in Receipts
      BY <2>1, <3>1 DEF Receipts
    <3> QED BY <3>1, <3>2 DEF Upsert
  <2>3. receipts' \in [Mentions -> Receipts]
    BY <1>10, <2>1, <2>2 DEF Typed, Save
  <2>4. /\ poll' \in Polls /\ poll'.at = "passing" /\ poll'.until = poll.until /\ poll'.mention = poll.mention
        /\ poll.at \in InHand
    BY <1>0, <1>10 DEF Save, Polls, InHand, Executing
  <2> QED BY <1>0, <1>10, <2>3, <2>4 DEF Typed, Save
<1>11. CASE PassCursor
  <2>1. poll.mention \in 1..Len(feed)
    BY <1>11, InHandType DEF PassCursor, InHand
  <2>2. poll' = [poll EXCEPT !.at = "next", !.mention = poll.mention + 1, !.outcome = "none"]
    BY <1>11 DEF PassCursor
  <2>3. poll' \in Polls /\ poll'.at = "next" /\ poll'.until = poll.until /\ poll'.mention # 0
    <3>1. "none" \in Statuses /\ poll.mention + 1 \in Nat /\ poll.mention + 1 # 0
      BY <1>0, <2>1 DEF Statuses
    <3> QED BY <1>0, <2>2, <3>1 DEF Polls
  <2>4. cursor' \in NoCursor..MaxMentions
    BY <1>0, <1>11, <2>1 DEF PassCursor, NoCursor
  <2> QED BY <1>0, <1>11, <2>3, <2>4 DEF Typed, PassCursor, InHand, Executing
<1> QED BY <1>1, <1>2, <1>3, <1>4, <1>5, <1>6, <1>7, <1>8, <1>9, <1>10, <1>11 DEF PollStep

\* What the delivery loop leaves a row as.
LEMMA StoppedTypes ==
  ASSUME Typed, NEW w \in Workers, job[w].at # "idle", NEW state \in DeliveryStates, Stopped(w, state)
  PROVE  delivery' \in [Mentions -> Deliveries]
<1>1. job[w].mention \in Mentions
  BY DEF Typed
<1>2. CASE delivery' = delivery
  BY <1>2 DEF Typed
<1>3. CASE delivery' = [delivery EXCEPT ![job[w].mention].state = state, ![job[w].mention].old = FALSE]
  BY <1>1, <1>3 DEF Typed, Deliveries
<1> QED BY <1>2, <1>3 DEF Stopped

\* A worker's step leaves all but its job, the deliveries and the posts alone.
LEMMA DeliveryTypes ==
  ASSUME Typed, NEW w \in Workers, DeliveryStep(w)
  PROVE  Typed'
<1> USE RelayAssumption
<1>0. /\ job[w] \in Jobs /\ job \in [Workers -> Jobs] /\ delivery \in [Mentions -> Deliveries]
      /\ \A x \in Workers : job[x].at # "idle" => job[x].mention \in Mentions
      /\ IdleJob \in Jobs /\ IdleJob.at = "idle"
  BY DEF Typed, IdleJob, NoMention, Jobs, Statuses
<1>1. CASE MarkInterrupted(w)
  <2>1. delivery' \in [Mentions -> Deliveries]
    <3>1. \A m \in Mentions : [delivery[m] EXCEPT !.state = "unknown", !.old = FALSE] \in Deliveries
      BY <1>0 DEF Deliveries, DeliveryStates
    <3> QED BY <1>0, <1>1, <3>1 DEF MarkInterrupted
  <2> QED BY <1>1, <2>1 DEF Typed, MarkInterrupted
<1>2. CASE Acquire(w)
  <2>1. PICK m \in Mentions :
          /\ delivery' = [delivery EXCEPT ![m].state = "preparing", ![m].lease = delivery[m].lease + 1, ![m].old = FALSE]
          /\ job' = [job EXCEPT ![w] = [IdleJob EXCEPT !.at = "acquired", !.mention = m, !.lease = delivery[m].lease + 1]]
    BY <1>2 DEF Acquire
  <2>2. delivery[m].lease + 1 \in Nat /\ m \in Nat
    BY <1>0 DEF Deliveries, Mentions
  <2>3. delivery' \in [Mentions -> Deliveries]
    BY <1>0, <2>1, <2>2 DEF Deliveries, DeliveryStates
  <2>4. DEFINE new == [IdleJob EXCEPT !.at = "acquired", !.mention = m, !.lease = delivery[m].lease + 1]
  <2>5. new \in Jobs /\ new.mention = m
    BY <1>0, <2>2 DEF Jobs
  <2>6. job' = [job EXCEPT ![w] = new]
    BY <2>1
  <2> HIDE DEF new
  <2>7. job' \in [Workers -> Jobs] /\ \A x \in Workers : job'[x].at # "idle" => job'[x].mention \in Mentions
    BY <1>0, <2>5, <2>6
  <2> QED BY <1>2, <2>3, <2>7 DEF Typed, Acquire
<1>3. CASE Prepare(w)
  <2>1. receipts[job[w].mention].status \in Statuses
    BY <1>0, <1>3 DEF Prepare, Typed, Receipts
  <2>2. job' \in [Workers -> Jobs] /\ \A x \in Workers : job'[x].at # "idle" => job'[x].mention \in Mentions
    BY <1>0, <1>3, <2>1 DEF Prepare, Jobs
  <2> QED BY <1>3, <2>2 DEF Typed, Prepare
<1>4. CASE BeginPost(w)
  <2>1. job[w].mention \in Mentions /\ job[w].text \in Statuses
    BY <1>0, <1>4 DEF BeginPost, Jobs
  <2>2. CASE Holds(w, "preparing")
    <3>1. delivery' \in [Mentions -> Deliveries]
      BY <1>0, <1>4, <2>1, <2>2 DEF BeginPost, Deliveries, DeliveryStates
    <3>2. job' \in [Workers -> Jobs] /\ \A x \in Workers : job'[x].at # "idle" => job'[x].mention \in Mentions
      BY <1>0, <1>4, <2>1, <2>2 DEF BeginPost, Jobs
    <3> QED BY <1>4, <3>1, <3>2 DEF Typed, BeginPost
  <2>3. CASE ~Holds(w, "preparing")
    <3>1. job' \in [Workers -> Jobs] /\ \A x \in Workers : job'[x].at # "idle" => job'[x].mention \in Mentions
      BY <1>0, <1>4, <2>3 DEF BeginPost
    <3> QED BY <1>4, <2>3, <3>1 DEF Typed, BeginPost
  <2> QED BY <2>2, <2>3
<1>5. CASE Post(w)
  <2>1. posts' \in [Mentions -> Nat]
    BY <1>0, <1>5 DEF Post, Typed
  <2>2. job' \in [Workers -> Jobs] /\ \A x \in Workers : job'[x].at # "idle" => job'[x].mention \in Mentions
    BY <1>0, <1>5 DEF Post, Jobs
  <2> QED BY <1>5, <2>1, <2>2 DEF Typed, Post
<1>6. CASE FinishPost(w)
  <2>1. delivery' \in [Mentions -> Deliveries]
    <3>1. CASE Holds(w, "posting")
      BY <1>0, <1>6, <3>1 DEF FinishPost, Deliveries, DeliveryStates
    <3>2. CASE ~Holds(w, "posting")
      BY <1>6, <3>2, StoppedTypes DEF FinishPost, DeliveryStates
    <3> QED BY <3>1, <3>2
  <2>2. job' \in [Workers -> Jobs] /\ \A x \in Workers : job'[x].at # "idle" => job'[x].mention \in Mentions
    BY <1>0, <1>6 DEF FinishPost
  <2> QED BY <1>6, <2>1, <2>2 DEF Typed, FinishPost
<1> QED BY <1>1, <1>2, <1>3, <1>4, <1>5, <1>6 DEF DeliveryStep

LEMMA WorldTypes ==
  ASSUME Typed, RelayWorld
  PROVE  Typed'
<1> USE RelayAssumption
<1>1. ASSUME Mention \/ OwnReply PROVE Typed'
  <2>1. PICK kind \in {"command", "reply"} : feed' = Append(feed, kind)
    BY <1>1 DEF Mention, OwnReply
  <2>2. /\ feed' \in Seq({"command", "reply"}) /\ Len(feed') = Len(feed) + 1 /\ Len(feed') <= MaxMentions
        /\ DOMAIN feed \subseteq DOMAIN feed' /\ poll.until <= Len(feed')
    BY <1>1, <2>1 DEF Mention, OwnReply, Typed, Polls
  <2> QED BY <1>1, <2>2 DEF Typed, Mention, OwnReply
<1>2. ASSUME NEW m \in Mentions, Execute(m) PROVE Typed'
  BY <1>2 DEF Typed, Execute, Chains
<1>3. ASSUME NEW m \in Mentions, ReceiptAges(m) PROVE Typed'
  <2>1. receipts' \in [Mentions -> Receipts]
    BY <1>3 DEF Typed, ReceiptAges, Receipts
  <2> QED BY <1>3, <2>1 DEF Typed, ReceiptAges
<1>4. ASSUME NEW m \in Mentions, DeliveryAges(m) PROVE Typed'
  <2>1. delivery' \in [Mentions -> Deliveries]
    BY <1>4 DEF Typed, DeliveryAges, Deliveries
  <2> QED BY <1>4, <2>1 DEF Typed, DeliveryAges
<1> QED BY <1>1, <1>2, <1>3, <1>4 DEF RelayWorld

LEMMA FaultTypes ==
  ASSUME Typed, RelayFault
  PROVE  Typed'
<1> USE RelayAssumption
<1>0. /\ poll \in Polls /\ job \in [Workers -> Jobs] /\ poll.until \in Nat /\ poll.until <= Len(feed)
      /\ \A x \in Workers : job[x].at # "idle" => job[x].mention \in Mentions
      /\ IdleJob \in Jobs /\ IdleJob.at = "idle" /\ IdlePoll \in Polls /\ IdlePoll.at = "idle" /\ IdlePoll.until = 0
      /\ Len(feed) \in Nat /\ faults \in 0..MaxFaults /\ MaxFaults \in Nat
  BY DEF Typed, IdleJob, IdlePoll, NoMention, Jobs, Polls, Statuses
<1>1. ASSUME NEW w \in Workers, Crash(w) PROVE Typed'
  <2>1. job' \in [Workers -> Jobs] /\ \A x \in Workers : job'[x].at # "idle" => job'[x].mention \in Mentions
    BY <1>0, <1>1 DEF Crash
  <2>2. poll' \in {poll, IdlePoll}
    BY <1>1 DEF Crash
  <2> QED BY <1>0, <1>1, <2>1, <2>2 DEF Typed, Crash, Fault, InHand, Executing
<1>2. ASSUME NEW w \in Workers, PreparationFails(w) \/ PostUnacknowledged(w) PROVE Typed'
  <2>1. job[w].at # "idle" /\ job[w].mention \in Mentions
    BY <1>0, <1>2 DEF PreparationFails, PostUnacknowledged
  <2>2. delivery' \in [Mentions -> Deliveries]
    BY <1>2, <2>1, StoppedTypes DEF PreparationFails, PostUnacknowledged, DeliveryStates
  <2>3. job' \in [Workers -> Jobs] /\ \A x \in Workers : job'[x].at # "idle" => job'[x].mention \in Mentions
    BY <1>0, <1>2 DEF PreparationFails, PostUnacknowledged
  <2>4. posts' \in [Mentions -> Nat]
    <3>1. posts' = posts \/ posts' = [posts EXCEPT ![job[w].mention] = posts[job[w].mention] + 1]
      <4>1. CASE PreparationFails(w)
        BY <4>1 DEF PreparationFails
      <4>2. CASE PostUnacknowledged(w)
        BY <4>2 DEF PostUnacknowledged
      <4> QED BY <1>2, <4>1, <4>2
    <3>2. posts \in [Mentions -> Nat] /\ posts[job[w].mention] + 1 \in Nat
      BY <2>1 DEF Typed
    <3> QED BY <2>1, <3>1, <3>2
  <2>5. faults' \in 0..MaxFaults /\ UNCHANGED <<feed, cursor, receipts, poll, chain, sent>>
    <3>1. CASE PreparationFails(w)
      BY <1>0, <3>1 DEF PreparationFails, Fault
    <3>2. CASE PostUnacknowledged(w)
      BY <1>0, <3>2 DEF PostUnacknowledged, Fault
    <3> QED BY <1>2, <3>1, <3>2
  <2> QED BY <2>2, <2>3, <2>4, <2>5 DEF Typed
<1>3. ASSUME NEW m \in Mentions, RecoverBlind(m) PROVE Typed'
  <2>1. receipts' \in [Mentions -> Receipts]
    <3>1. receipts \in [Mentions -> Receipts] /\ receipts' = [receipts EXCEPT ![m].status = "unknown", ![m].old = FALSE]
      BY <1>3 DEF Typed, RecoverBlind
    <3>2. "unknown" \in Statuses
      BY DEF Statuses, OpenStatuses
    <3> QED BY <3>1, <3>2 DEF Receipts
  <2>2. poll' \in Polls /\ poll'.at = "recovering" /\ poll'.until = poll.until
    BY <1>0, <1>3 DEF RecoverBlind, Polls
  <2> QED BY <1>0, <1>3, <2>1, <2>2 DEF Typed, RecoverBlind, Fault, InHand, Executing
<1>4. CASE CycleFails
  BY <1>0, <1>4 DEF Typed, CycleFails, Fault, InHand, Executing
<1>5. CASE ExecutionThrows \/ LaneThrows
  <2>1. PICK status \in Statuses : poll' = [poll EXCEPT !.at = "answered", !.outcome = status]
    BY <1>5 DEF ExecutionThrows, LaneThrows, Outcome, Statuses, OpenStatuses
  <2>2. /\ poll' \in Polls /\ poll'.at = "answered" /\ poll'.until = poll.until /\ poll'.mention = poll.mention
        /\ poll.at \in InHand
    BY <1>0, <1>5, <2>1 DEF ExecutionThrows, LaneThrows, Polls, InHand, Executing
  <2> QED BY <1>0, <1>5, <2>2 DEF Typed, ExecutionThrows, LaneThrows, Fault
<1> QED BY <1>1, <1>2, <1>3, <1>4, <1>5 DEF RelayFault

LEMMA TypedHolds ==
  Typed /\ [RelayNext]_relayVars => Typed'
<1> SUFFICES ASSUME Typed, [RelayNext]_relayVars PROVE Typed'
  OBVIOUS
<1>1. CASE RelayNext
  BY <1>1, PollTypes, DeliveryTypes, WorldTypes, FaultTypes DEF RelayNext
<1>2. CASE UNCHANGED relayVars
  BY <1>2 DEF Typed, relayVars
<1> QED BY <1>1, <1>2

-----------------------------------------------------------------------------
(* Orders.                                                                 *)

\* What was sent or is on chain was sent once, for a claimed command.
Accounted(m) ==
  /\ chain[m] # "none" => sent[m] # 0
  /\ sent[m] # 0 => /\ sent[m] = 1 /\ m \in DOMAIN feed /\ feed[m] = "command"
                    /\ receipts[m].status # "none" /\ receipts[m].hash /\ receipts[m].target

\* The mention in hand is a claimed command of which nothing was sent.
Claimed ==
  /\ sent[poll.mention] = 0 /\ feed[poll.mention] = "command" /\ receipts[poll.mention].status # "none"
  /\ poll.at # "claimed" => receipts[poll.mention].target
  /\ poll.at = "signed" => receipts[poll.mention].hash

OrderInv ==
  /\ poll.at \in Executing => Claimed
  /\ poll.at = "answered" => poll.outcome # "none"
  /\ \A m \in Mentions : Accounted(m)

\* What recovery and the delivery loop do to a receipt: its claim, its hash and its target stay.
RowKept(m) ==
  /\ receipts[m].status # "none" => receipts'[m].status # "none"
  /\ receipts[m].hash => receipts'[m].hash
  /\ receipts[m].target => receipts'[m].target

\* Nothing is sent, no row loses what it records.
LEMMA AccountedKept ==
  ASSUME Typed, OrderInv, UNCHANGED sent, \A m \in Mentions : RowKept(m) /\ (chain'[m] # "none" => chain[m] # "none"),
         \A m \in DOMAIN feed : m \in DOMAIN feed' /\ feed'[m] = feed[m]
  PROVE  \A m \in Mentions : Accounted(m)'
BY DEF OrderInv, Accounted, RowKept

LEMMA OrderPoll ==
  ASSUME Typed, OrderInv, PollStep
  PROVE  OrderInv'
<1>0. /\ poll \in Polls /\ receipts \in [Mentions -> Receipts] /\ \A m \in Mentions : Accounted(m)
      /\ poll.at \in Executing => Claimed
  BY DEF Typed, OrderInv
<1>1. CASE StartCycle \/ Fetch \/ EndCycle \/ SkipOwnReply \/ PassCursor
  <2>1. poll'.at \notin Executing \cup {"answered"}
    <3>1. CASE StartCycle
      <4>1. poll'.at = "recovering"
        BY <3>1 DEF StartCycle, IdlePoll
      <4> QED BY <4>1 DEF Executing
    <3>2. CASE EndCycle \/ Fetch
      <4>1. poll' = IdlePoll \/ poll' = [poll EXCEPT !.at = "next", !.mention = cursor + 1, !.until = Len(feed)]
        BY <3>2 DEF EndCycle, Fetch
      <4>2. IdlePoll.at = "idle"
        BY DEF IdlePoll
      <4>3. poll'.at \in {"idle", "next"}
        BY <1>0, <4>1, <4>2 DEF Polls
      <4> QED BY <4>3 DEF Executing
    <3>3. CASE SkipOwnReply \/ PassCursor
      BY <1>0, <3>3 DEF SkipOwnReply, PassCursor, Polls, Executing
    <3> QED BY <1>1, <3>1, <3>2, <3>3
  <2>2. UNCHANGED <<feed, receipts, chain, sent>>
    BY <1>1 DEF StartCycle, Fetch, EndCycle, SkipOwnReply, PassCursor
  <2> QED BY <1>0, <2>1, <2>2 DEF OrderInv, Accounted
<1>2. ASSUME NEW m \in Mentions, Recover(m) PROVE OrderInv'
  <2>1. poll'.at \notin Executing \cup {"answered"}
    BY <1>0, <1>2 DEF Recover, Polls, Executing
  <2>2. Recovered(receipts[m], chain[m]) # "none"
    BY DEF Recovered
  <2>3. \A n \in Mentions : RowKept(n)
    BY <1>0, <1>2, <2>2 DEF Recover, RowKept, Receipts
  <2>4. UNCHANGED <<feed, chain, sent>>
    BY <1>2 DEF Recover
  <2> QED BY <2>1, <2>3, <2>4, AccountedKept DEF OrderInv
<1>3. CASE Claim
  <2>1. poll.mention \in Mentions /\ poll.mention \in DOMAIN feed
    BY <1>3, RelayAssumption DEF Claim, Typed, Mentions, Polls
  <2>2. feed[poll.mention] = "command"
    BY <1>3, <2>1 DEF Claim, IsRelayReply, Typed
  <2>3. UNCHANGED <<feed, chain, sent>> /\ poll'.mention = poll.mention
    BY <1>0, <1>3 DEF Claim, Polls
  <2>4. CASE Unclaimed(poll.mention)
    <3>1. /\ receipts' = [receipts EXCEPT ![poll.mention] = [NoReceipt EXCEPT !.status = "submitted"]]
          /\ poll'.at = "claimed"
      BY <1>0, <1>3, <2>4 DEF Claim, Polls
    <3>2. /\ receipts'[poll.mention].status = "submitted"
          /\ \A m \in Mentions \ {poll.mention} : receipts'[m] = receipts[m]
      BY <1>0, <2>1, <3>1 DEF NoReceipt
    <3>3. sent[poll.mention] = 0 /\ chain[poll.mention] = "none"
      BY <1>0, <2>1, <2>4 DEF Accounted, Unclaimed
    <3>4. \A m \in Mentions : Accounted(m)'
      BY <1>0, <2>3, <3>2, <3>3 DEF Accounted
    <3>5. Claimed'
      BY <2>2, <2>3, <3>1, <3>2, <3>3 DEF Claimed
    <3> QED BY <3>1, <3>4, <3>5 DEF OrderInv
  <2>5. CASE ~Unclaimed(poll.mention)
    <3>1. poll'.at = "passing" /\ receipts' = receipts
      BY <1>0, <1>3, <2>5 DEF Claim, Polls
    <3> QED BY <1>0, <2>3, <3>1 DEF OrderInv, Accounted, Executing
  <2> QED BY <2>4, <2>5
<1>4. CASE Refuse \/ NotSent \/ Confirm
  <2>1. PICK status \in Statuses : status # "none" /\ poll' = [poll EXCEPT !.at = "answered", !.outcome = status]
    <3>1. CASE Refuse \/ NotSent
      BY <3>1 DEF Refuse, NotSent, Outcome, Statuses
    <3>2. CASE Confirm
      <4>1. {"filled", "nothing-filled", "reverted", "unknown"} \subseteq Statuses
        BY DEF Statuses, ResultStatuses, OpenStatuses
      <4>2. ASSUME chain[poll.mention] \in Landed
            PROVE  Booked[chain[poll.mention]] \in Statuses /\ Booked[chain[poll.mention]] # "none"
        BY <4>1, <4>2 DEF Booked, Landed
      <4> QED BY <3>2, <4>1, <4>2 DEF Confirm, Outcome
    <3> QED BY <1>4, <3>1, <3>2
  <2>2. poll'.at = "answered" /\ poll'.outcome # "none"
    BY <1>0, <2>1 DEF Polls
  <2>3. UNCHANGED <<feed, receipts, chain, sent>>
    BY <1>4 DEF Refuse, NotSent, Confirm
  <2> QED BY <1>0, <2>2, <2>3 DEF OrderInv, Accounted, Executing
<1>5. CASE Checkpoint \/ RecordIntent \/ MarkSent
  <2>1. poll.mention \in Mentions /\ poll.at \in Executing /\ Claimed
    BY <1>0, <1>5, InHandType DEF Checkpoint, RecordIntent, MarkSent, Executing, InHand
  <2>2. UNCHANGED <<feed, chain, sent>> /\ poll'.mention = poll.mention /\ poll'.at # "answered"
    BY <1>0, <1>5 DEF Checkpoint, RecordIntent, MarkSent, Polls
  <2>3. (\A m \in Mentions : RowKept(m)) /\ Claimed'
    <3>1. CASE Checkpoint
      <4>1. \A m \in Mentions : RowKept(m)
        BY <1>0, <2>1, <3>1 DEF Checkpoint, Receipts, RowKept
      <4>2. receipts'[poll.mention].target /\ poll'.at = "targeted"
        BY <1>0, <2>1, <3>1 DEF Checkpoint, Receipts, Polls
      <4> QED BY <2>1, <2>2, <4>1, <4>2 DEF Claimed, RowKept
    <3>2. CASE RecordIntent
      <4>1. \A m \in Mentions : RowKept(m)
        BY <1>0, <2>1, <3>2 DEF RecordIntent, Receipts, RowKept
      <4>2. receipts[poll.mention].target /\ poll'.at = "recorded"
        BY <1>0, <2>1, <3>2 DEF RecordIntent, Polls, Claimed
      <4> QED BY <2>1, <2>2, <4>1, <4>2 DEF Claimed, RowKept
    <3>3. CASE MarkSent
      <4>1. \A m \in Mentions : RowKept(m)
        BY <1>0, <2>1, <3>3 DEF MarkSent, Receipts, RowKept
      <4>2. receipts[poll.mention].target /\ receipts'[poll.mention].hash /\ poll'.at = "signed"
        BY <1>0, <2>1, <3>3 DEF MarkSent, Receipts, Polls, Claimed
      <4> QED BY <2>1, <2>2, <4>1, <4>2 DEF Claimed, RowKept
    <3> QED BY <1>5, <3>1, <3>2, <3>3
  <2> QED BY <2>2, <2>3, AccountedKept DEF OrderInv
<1>6. CASE Send
  <2>1. poll.mention \in Mentions /\ poll.mention \in DOMAIN feed /\ poll.at = "signed" /\ Claimed
    BY <1>0, <1>6, InHandType DEF Send, ReadyToSend, Executing, InHand, Typed
  <2>2. poll'.at = "confirming"
    BY <1>0, <1>6 DEF Send, Polls
  <2>3. /\ sent'[poll.mention] = 1 /\ feed' = feed /\ receipts' = receipts
        /\ \A m \in Mentions \ {poll.mention} : sent'[m] = sent[m] /\ chain'[m] = chain[m]
    BY <1>6, <2>1 DEF Send, Claimed, Typed
  <2>4. ASSUME NEW m \in Mentions PROVE Accounted(m)'
    <3>1. CASE m = poll.mention
      <4>1. sent'[m] = 1 /\ m \in DOMAIN feed /\ feed[m] = "command" /\ receipts[m].status # "none"
        BY <2>1, <2>3, <3>1 DEF Claimed
      <4>2. receipts[m].hash /\ receipts[m].target
        BY <2>1, <3>1 DEF Claimed
      <4> QED BY <2>3, <4>1, <4>2 DEF Accounted
    <3>2. CASE m # poll.mention
      <4>1. sent'[m] = sent[m] /\ chain'[m] = chain[m]
        BY <2>3, <3>2
      <4> QED BY <1>0, <2>3, <4>1 DEF Accounted
    <3> QED BY <3>1, <3>2
  <2> QED BY <2>2, <2>4 DEF OrderInv, Executing
<1>7. CASE Save
  <2>1. poll.mention \in Mentions /\ poll.outcome # "none"
    BY <1>7, InHandType DEF Save, InHand, OrderInv
  <2>2. poll'.at = "passing" /\ UNCHANGED <<feed, chain, sent>>
    BY <1>0, <1>7 DEF Save, Polls
  <2>3. \A m \in Mentions : RowKept(m)
    <3>1. receipts' = [receipts EXCEPT ![poll.mention] = Upsert(receipts[poll.mention], poll.outcome)]
      BY <1>7 DEF Save
    <3>2. receipts[poll.mention] \in Receipts
      BY <1>0, <2>1
    <3>3. /\ Upsert(receipts[poll.mention], poll.outcome).hash = receipts[poll.mention].hash
          /\ Upsert(receipts[poll.mention], poll.outcome).target = receipts[poll.mention].target
          /\ Upsert(receipts[poll.mention], poll.outcome).status \in {receipts[poll.mention].status, poll.outcome}
      BY <3>2 DEF Upsert, Receipts
    <3> QED BY <1>0, <2>1, <3>1, <3>3 DEF RowKept
  <2> QED BY <2>2, <2>3, AccountedKept DEF OrderInv, Executing
<1> QED BY <1>1, <1>2, <1>3, <1>4, <1>5, <1>6, <1>7 DEF PollStep

LEMMA OrderElsewhere ==
  ASSUME Typed, OrderInv, (\E w \in Workers : DeliveryStep(w)) \/ RelayWorld
  PROVE  OrderInv'
<1>0. /\ receipts \in [Mentions -> Receipts] /\ \A m \in Mentions : Accounted(m)
      /\ feed \in Seq({"command", "reply"}) /\ DOMAIN feed = 1..Len(feed)
      /\ poll.at \in Executing => Claimed /\ poll.mention \in Mentions /\ poll.mention \in DOMAIN feed
  BY InHandType DEF Typed, OrderInv, InHand
<1>1. CASE \E w \in Workers : DeliveryStep(w)
  <2>1. UNCHANGED <<feed, receipts, chain, sent, poll>>
    BY <1>1 DEF DeliveryStep, MarkInterrupted, Acquire, Prepare, BeginPost, Post, FinishPost
  <2> QED BY <2>1 DEF OrderInv, Accounted, Claimed
<1>2. CASE RelayWorld
  <2>1. poll' = poll /\ sent' = sent
    BY <1>2 DEF RelayWorld, Mention, OwnReply, Execute, ReceiptAges, DeliveryAges
  <2>2. \A m \in DOMAIN feed : m \in DOMAIN feed' /\ feed'[m] = feed[m]
    <3>1. feed' = feed \/ \E kind \in {"command", "reply"} : feed' = Append(feed, kind)
      BY <1>2 DEF RelayWorld, Mention, OwnReply, Execute, ReceiptAges, DeliveryAges
    <3> QED BY <1>0, <3>1
  <2>3. \A m \in Mentions : chain'[m] # "none" => chain[m] # "none"
    <3>1. chain' = chain \/ \E m \in Mentions : Execute(m)
      BY <1>2 DEF RelayWorld, Mention, OwnReply, ReceiptAges, DeliveryAges
    <3> QED BY <3>1 DEF Execute, Typed
  <2>4. \A m \in Mentions : RowKept(m)
    <3>1. receipts' = receipts \/ \E m \in Mentions : receipts' = [receipts EXCEPT ![m].old = TRUE]
      BY <1>2 DEF RelayWorld, Mention, OwnReply, Execute, ReceiptAges, DeliveryAges
    <3> QED BY <1>0, <3>1 DEF RowKept, Receipts
  <2>5. ASSUME poll.at \in Executing PROVE Claimed'
    BY <1>0, <2>1, <2>2, <2>4, <2>5 DEF Claimed, RowKept
  <2> QED BY <2>1, <2>2, <2>3, <2>4, <2>5, AccountedKept DEF OrderInv
<1> QED BY <1>1, <1>2

LEMMA OrderFault ==
  ASSUME Typed, OrderInv, RelayFault
  PROVE  OrderInv'
<1>0. /\ poll \in Polls /\ receipts \in [Mentions -> Receipts] /\ \A m \in Mentions : Accounted(m)
      /\ IdlePoll.at = "idle"
  BY DEF Typed, OrderInv, IdlePoll
<1>1. UNCHANGED <<feed, chain, sent>>
  BY DEF RelayFault, Crash, PreparationFails, PostUnacknowledged, RecoverBlind, CycleFails, ExecutionThrows, LaneThrows
<1>2. ASSUME NEW m \in Mentions, RecoverBlind(m) PROVE OrderInv'
  <2>1. poll'.at \notin Executing \cup {"answered"}
    BY <1>0, <1>2 DEF RecoverBlind, Polls, Executing
  <2>2. \A n \in Mentions : RowKept(n)
    BY <1>0, <1>2 DEF RecoverBlind, RowKept, Receipts
  <2> QED BY <1>1, <2>1, <2>2, AccountedKept DEF OrderInv
<1>3. CASE ExecutionThrows \/ LaneThrows
  <2>1. PICK status \in {"unknown", "refused"} : poll' = [poll EXCEPT !.at = "answered", !.outcome = status]
    BY <1>3 DEF ExecutionThrows, LaneThrows, Outcome
  <2>2. poll'.at = "answered" /\ poll'.outcome # "none"
    BY <1>0, <2>1 DEF Polls
  <2>3. receipts' = receipts
    BY <1>3 DEF ExecutionThrows, LaneThrows
  <2> QED BY <1>0, <1>1, <2>2, <2>3 DEF OrderInv, Accounted, Executing
<1>4. ASSUME CycleFails \/ \E w \in Workers : Crash(w) \/ PreparationFails(w) \/ PostUnacknowledged(w)
      PROVE  OrderInv'
  <2>1. poll' \in {poll, IdlePoll} /\ receipts' = receipts
    BY <1>4 DEF CycleFails, Crash, PreparationFails, PostUnacknowledged
  <2>2. CASE poll' = poll
    BY <1>1, <2>1, <2>2 DEF OrderInv, Accounted, Claimed
  <2>3. CASE poll' = IdlePoll
    BY <1>0, <1>1, <2>1, <2>3 DEF OrderInv, Accounted, Executing
  <2> QED BY <2>1, <2>2, <2>3
<1> QED BY <1>2, <1>3, <1>4 DEF RelayFault

LEMMA OrderInvStarts ==
  RelayInit => OrderInv
<1>1. IdlePoll.at = "idle"
  BY DEF IdlePoll
<1> QED BY <1>1 DEF RelayInit, OrderInv, Accounted, Executing

LEMMA OrderInvHolds ==
  Typed /\ OrderInv /\ [RelayNext]_relayVars => OrderInv'
<1> SUFFICES ASSUME Typed, OrderInv, [RelayNext]_relayVars PROVE OrderInv'
  OBVIOUS
<1>1. CASE RelayNext
  <2>1. CASE PollStep
    BY <2>1, OrderPoll
  <2>2. CASE (\E w \in Workers : DeliveryStep(w)) \/ RelayWorld
    BY <2>2, OrderElsewhere
  <2>3. CASE RelayFault
    BY <2>3, OrderFault
  <2> QED BY <1>1, <2>1, <2>2, <2>3 DEF RelayNext
<1>2. CASE UNCHANGED relayVars
  BY <1>2 DEF OrderInv, Accounted, Claimed, relayVars
<1> QED BY <1>1, <1>2

-----------------------------------------------------------------------------
(* Replies.                                                                *)

\* A delivery no worker takes up again.
Started == {"posting", "sent", "unknown", "failed"}

Posting(w) == job[w].at \in {"posting", "posted"}

ReplyInv ==
  /\ \A m \in Mentions : posts[m] # 0 => posts[m] = 1 /\ delivery[m].state \in Started
  /\ \A w \in Workers : Posting(w) => delivery[job[w].mention].state \in Started
  /\ \A w \in Workers : job[w].at = "posting" => posts[job[w].mention] = 0
  /\ \A w, x \in Workers : Posting(w) /\ Posting(x) /\ job[w].mention = job[x].mention => w = x

StartedStays == \A m \in Mentions : delivery[m].state \in Started => delivery'[m].state \in Started

\* No post, no new worker at it.
LEMMA NothingPosted ==
  ASSUME Typed, ReplyInv, StartedStays, posts' = posts,
         \A w \in Workers : job'[w].at \in {"posting", "posted"} => job'[w] = job[w]
  PROVE  ReplyInv'
<1>1. \A w \in Workers : Posting(w)' => Posting(w) /\ job'[w] = job[w] /\ job[w].mention \in Mentions
  BY DEF Posting, Typed
<1>2. \A m \in Mentions : posts'[m] # 0 => posts'[m] = 1 /\ delivery'[m].state \in Started
  BY DEF ReplyInv, StartedStays
<1>3. \A w \in Workers : Posting(w)' => delivery'[job'[w].mention].state \in Started
  BY <1>1 DEF ReplyInv, StartedStays
<1>4. \A w \in Workers : job'[w].at = "posting" => posts'[job'[w].mention] = 0
  BY DEF ReplyInv
<1>5. \A w, x \in Workers : Posting(w)' /\ Posting(x)' /\ job'[w].mention = job'[x].mention => w = x
  BY <1>1 DEF ReplyInv
<1> QED BY <1>2, <1>3, <1>4, <1>5 DEF ReplyInv

\* Giving a delivery up starts no other.
LEMMA StoppedStays ==
  ASSUME Typed, NEW w \in Workers, job[w].at # "idle", NEW state \in {"failed", "unknown"}, Stopped(w, state)
  PROVE  StartedStays
<1>1. job[w].mention \in Mentions /\ delivery \in [Mentions -> Deliveries]
  BY DEF Typed
<1>2. CASE delivery' = delivery
  BY <1>2 DEF StartedStays
<1>3. CASE delivery' = [delivery EXCEPT ![job[w].mention].state = state, ![job[w].mention].old = FALSE]
  <2>1. delivery'[job[w].mention].state = state
    BY <1>1, <1>3 DEF Deliveries
  <2>2. \A m \in Mentions \ {job[w].mention} : delivery'[m] = delivery[m]
    BY <1>1, <1>3
  <2> QED BY <2>1, <2>2 DEF StartedStays, Started
<1> QED BY <1>2, <1>3 DEF Stopped

LEMMA ReplyDelivery ==
  ASSUME Typed, ReplyInv, NEW w \in Workers, DeliveryStep(w)
  PROVE  ReplyInv'
<1>0. /\ job[w] \in Jobs /\ job \in [Workers -> Jobs] /\ delivery \in [Mentions -> Deliveries]
      /\ job[w].at # "idle" => job[w].mention \in Mentions
      /\ IdleJob.at = "idle" /\ IdleJob \in Jobs
  BY DEF Typed, IdleJob, Jobs, NoMention, Statuses
<1>1. CASE MarkInterrupted(w)
  <2>1. \A m \in Mentions : [delivery[m] EXCEPT !.state = "unknown", !.old = FALSE].state = "unknown"
    BY <1>0 DEF Deliveries
  <2>2. StartedStays
    BY <1>1, <2>1 DEF MarkInterrupted, StartedStays, Started
  <2> QED BY <1>1, <2>2, NothingPosted DEF MarkInterrupted
<1>2. CASE Acquire(w)
  <2>1. PICK m \in Mentions :
          /\ Acquirable(m)
          /\ delivery' = [delivery EXCEPT ![m].state = "preparing", ![m].lease = delivery[m].lease + 1, ![m].old = FALSE]
          /\ job' = [job EXCEPT ![w] = [IdleJob EXCEPT !.at = "acquired", !.mention = m, !.lease = delivery[m].lease + 1]]
    BY <1>2 DEF Acquire
  <2>2. delivery[m].state \notin Started
    BY <2>1 DEF Acquirable, Started
  <2>3. StartedStays
    BY <1>0, <2>1, <2>2 DEF StartedStays
  <2>4. job'[w].at = "acquired" /\ \A x \in Workers \ {w} : job'[x] = job[x]
    BY <1>0, <2>1 DEF Jobs
  <2>5. posts' = posts
    BY <1>2 DEF Acquire
  <2> QED BY <2>3, <2>4, <2>5, NothingPosted
<1>3. CASE Prepare(w)
  <2>1. job'[w].at = "prepared" /\ \A x \in Workers \ {w} : job'[x] = job[x]
    BY <1>0, <1>3 DEF Prepare, Jobs
  <2>2. delivery' = delivery /\ posts' = posts
    BY <1>3 DEF Prepare
  <2>3. StartedStays
    BY <2>2 DEF StartedStays
  <2> QED BY <2>1, <2>2, <2>3, NothingPosted
<1>4. CASE BeginPost(w)
  <2>1. job[w].mention \in Mentions /\ posts' = posts
    BY <1>0, <1>4 DEF BeginPost
  <2>2. CASE Holds(w, "preparing")
    <3>1. delivery[job[w].mention].state \notin Started
      BY <2>2 DEF Holds, Row, Started
    <3>2. /\ delivery'[job[w].mention].state = "posting"
          /\ \A m \in Mentions \ {job[w].mention} : delivery'[m] = delivery[m]
      BY <1>0, <1>4, <2>1, <2>2 DEF BeginPost, Deliveries
    <3>3. StartedStays
      BY <3>2 DEF StartedStays, Started
    <3>4. /\ job'[w].at = "posting" /\ job'[w].mention = job[w].mention
          /\ \A x \in Workers \ {w} : job'[x] = job[x]
      BY <1>0, <1>4, <2>2 DEF BeginPost, Jobs
    <3>5. posts[job[w].mention] = 0
      BY <2>1, <3>1 DEF ReplyInv
    <3>6. \A x \in Workers \ {w} : Posting(x) => job[x].mention # job[w].mention /\ job[x].mention \in Mentions
      BY <3>1 DEF ReplyInv, Typed, Posting
    <3>7. \A m \in Mentions : posts'[m] # 0 => posts'[m] = 1 /\ delivery'[m].state \in Started
      BY <2>1, <3>3 DEF ReplyInv, StartedStays
    <3>8. \A x \in Workers : Posting(x)' => delivery'[job'[x].mention].state \in Started
      BY <3>2, <3>3, <3>4, <3>6 DEF ReplyInv, StartedStays, Posting, Started
    <3>9. \A x \in Workers : job'[x].at = "posting" => posts'[job'[x].mention] = 0
      BY <2>1, <3>4, <3>5 DEF ReplyInv
    <3>10. \A x, y \in Workers : Posting(x)' /\ Posting(y)' /\ job'[x].mention = job'[y].mention => x = y
      BY <3>4, <3>6 DEF ReplyInv, Posting
    <3> QED BY <3>7, <3>8, <3>9, <3>10 DEF ReplyInv
  <2>3. CASE ~Holds(w, "preparing")
    <3>1. delivery' = delivery /\ job'[w].at = "idle" /\ \A x \in Workers \ {w} : job'[x] = job[x]
      BY <1>0, <1>4, <2>3 DEF BeginPost
    <3>2. StartedStays
      BY <3>1 DEF StartedStays
    <3> QED BY <2>1, <3>1, <3>2, NothingPosted
  <2> QED BY <2>2, <2>3
<1>5. CASE Post(w)
  <2>1. job[w].mention \in Mentions /\ posts[job[w].mention] = 0 /\ delivery' = delivery /\ Posting(w)
    BY <1>0, <1>5 DEF Post, ReplyInv, Posting
  <2>2. /\ job'[w].at = "posted" /\ job'[w].mention = job[w].mention
        /\ \A x \in Workers \ {w} : job'[x] = job[x]
    BY <1>0, <1>5 DEF Post, Jobs
  <2>3. posts'[job[w].mention] = 1 /\ \A m \in Mentions \ {job[w].mention} : posts'[m] = posts[m]
    BY <1>5, <2>1 DEF Post, Typed
  <2>4. \A m \in Mentions : posts'[m] # 0 => posts'[m] = 1 /\ delivery'[m].state \in Started
    BY <2>1, <2>3 DEF ReplyInv
  <2>5. \A x \in Workers : Posting(x)' => delivery'[job'[x].mention].state \in Started
    BY <2>1, <2>2 DEF ReplyInv, Posting
  <2>6. \A x \in Workers \ {w} : Posting(x) => job[x].mention # job[w].mention /\ job[x].mention \in Mentions
    BY <2>1 DEF ReplyInv, Typed, Posting
  <2>7. \A x \in Workers : job'[x].at = "posting" => posts'[job'[x].mention] = 0
    BY <2>2, <2>3, <2>6 DEF ReplyInv, Posting
  <2>8. \A x, y \in Workers : Posting(x)' /\ Posting(y)' /\ job'[x].mention = job'[y].mention => x = y
    BY <2>2, <2>6 DEF ReplyInv, Posting
  <2> QED BY <2>4, <2>5, <2>7, <2>8 DEF ReplyInv
<1>6. CASE FinishPost(w)
  <2>1. job[w].mention \in Mentions
    BY <1>0, <1>6 DEF FinishPost
  <2>2. job'[w].at = "idle" /\ posts' = posts /\ \A x \in Workers \ {w} : job'[x] = job[x]
    BY <1>0, <1>6 DEF FinishPost
  <2>3. StartedStays
    <3>1. CASE Holds(w, "posting")
      <4>1. /\ delivery'[job[w].mention].state = "sent"
            /\ \A m \in Mentions \ {job[w].mention} : delivery'[m] = delivery[m]
        BY <1>0, <1>6, <2>1, <3>1 DEF FinishPost, Deliveries
      <4> QED BY <4>1 DEF StartedStays, Started
    <3>2. CASE ~Holds(w, "posting")
      BY <1>6, <3>2, StoppedStays DEF FinishPost
    <3> QED BY <3>1, <3>2
  <2> QED BY <2>2, <2>3, NothingPosted
<1> QED BY <1>1, <1>2, <1>3, <1>4, <1>5, <1>6 DEF DeliveryStep

\* A claim queues a reply that was not queued before; nothing else of the poll loop touches deliveries.
LEMMA ReplyElsewhere ==
  ASSUME Typed, ReplyInv, PollStep \/ RelayWorld
  PROVE  ReplyInv'
<1>0. delivery \in [Mentions -> Deliveries]
  BY DEF Typed
<1>1. posts' = posts /\ job' = job
  <2>1. CASE PollStep
    BY <2>1 DEF PollStep, StartCycle, Recover, Fetch, EndCycle, SkipOwnReply, Claim, Refuse, Checkpoint,
                RecordIntent, MarkSent, NotSent, Send, Confirm, Save, PassCursor
  <2>2. CASE RelayWorld
    BY <2>2 DEF RelayWorld, Mention, OwnReply, Execute, ReceiptAges, DeliveryAges
  <2> QED BY <2>1, <2>2
<1>2. StartedStays
  <2>1. CASE delivery' = delivery
    BY <2>1 DEF StartedStays
  <2>2. ASSUME NEW m \in Mentions, DeliveryAges(m) PROVE StartedStays
    BY <1>0, <2>2 DEF DeliveryAges, Deliveries, StartedStays
  <2>3. CASE Claim
    <3>1. delivery' = delivery \/
          delivery' = [delivery EXCEPT ![poll.mention].state =
                         IF delivery[poll.mention].state = "none" THEN "pending" ELSE delivery[poll.mention].state]
      BY <2>3 DEF Claim
    <3>2. poll.mention \in Mentions
      BY <2>3, RelayAssumption DEF Claim, Typed, Mentions, Polls
    <3>3. CASE delivery[poll.mention].state \in Started
      <4>1. delivery' = delivery \/ delivery'[poll.mention].state = delivery[poll.mention].state
        BY <1>0, <3>1, <3>2, <3>3 DEF Deliveries, Started
      <4> QED BY <1>0, <3>1, <3>2, <4>1 DEF StartedStays
    <3>4. CASE delivery[poll.mention].state \notin Started
      BY <1>0, <3>1, <3>2, <3>4 DEF StartedStays
    <3> QED BY <3>3, <3>4
  <2>4. PollStep => Claim \/ delivery' = delivery
    BY DEF PollStep, StartCycle, Recover, Fetch, EndCycle, SkipOwnReply, Refuse, Checkpoint,
           RecordIntent, MarkSent, NotSent, Send, Confirm, Save, PassCursor
  <2>5. RelayWorld => delivery' = delivery \/ \E m \in Mentions : DeliveryAges(m)
    BY DEF RelayWorld, Mention, OwnReply, Execute, ReceiptAges
  <2> QED BY <2>1, <2>2, <2>3, <2>4, <2>5
<1> QED BY <1>1, <1>2, NothingPosted

LEMMA ReplyFault ==
  ASSUME Typed, ReplyInv, RelayFault
  PROVE  ReplyInv'
<1>0. job \in [Workers -> Jobs] /\ IdleJob.at = "idle" /\ posts \in [Mentions -> Nat]
  BY DEF Typed, IdleJob
<1>1. ASSUME NEW w \in Workers, Crash(w) PROVE ReplyInv'
  <2>1. delivery' = delivery /\ posts' = posts /\ job'[w].at = "idle" /\ \A x \in Workers \ {w} : job'[x] = job[x]
    BY <1>0, <1>1 DEF Crash
  <2>2. StartedStays
    BY <2>1 DEF StartedStays
  <2> QED BY <2>1, <2>2, NothingPosted
<1>2. ASSUME NEW w \in Workers, PreparationFails(w) PROVE ReplyInv'
  <2>1. /\ job[w].at # "idle" /\ Stopped(w, "failed") /\ posts' = posts
        /\ job'[w].at = "idle" /\ \A x \in Workers \ {w} : job'[x] = job[x]
    BY <1>0, <1>2 DEF PreparationFails
  <2>2. StartedStays
    BY <2>1, StoppedStays
  <2> QED BY <2>1, <2>2, NothingPosted
<1>3. ASSUME NEW w \in Workers, PostUnacknowledged(w) PROVE ReplyInv'
  <2>1. /\ job[w].at # "idle" /\ Stopped(w, "unknown") /\ Posting(w) /\ job[w].mention \in Mentions
        /\ job'[w].at = "idle" /\ \A x \in Workers \ {w} : job'[x] = job[x]
    BY <1>0, <1>3 DEF PostUnacknowledged, Typed, Posting
  <2>2. StartedStays
    BY <2>1, StoppedStays
  <2>3. CASE posts' = posts
    BY <2>1, <2>2, <2>3, NothingPosted
  <2>4. CASE job[w].at = "posting" /\ posts' = [posts EXCEPT ![job[w].mention] = posts[job[w].mention] + 1]
    <3>1. /\ posts'[job[w].mention] = 1 /\ delivery'[job[w].mention].state \in Started
          /\ \A m \in Mentions \ {job[w].mention} : posts'[m] = posts[m]
      BY <1>0, <2>1, <2>2, <2>4 DEF ReplyInv, StartedStays
    <3>2. \A x \in Workers : Posting(x)' =>
            /\ x # w /\ Posting(x) /\ job'[x] = job[x] /\ job[x].mention \in Mentions \ {job[w].mention}
      BY <2>1 DEF ReplyInv, Typed, Posting
    <3>3. \A m \in Mentions : posts'[m] # 0 => posts'[m] = 1 /\ delivery'[m].state \in Started
      BY <2>2, <3>1 DEF ReplyInv, StartedStays
    <3>4. \A x \in Workers : Posting(x)' => delivery'[job'[x].mention].state \in Started
      BY <2>2, <3>2 DEF ReplyInv, StartedStays
    <3>5. \A x \in Workers : job'[x].at = "posting" => posts'[job'[x].mention] = 0
      BY <3>1, <3>2 DEF ReplyInv, Posting
    <3>6. \A x, y \in Workers : Posting(x)' /\ Posting(y)' /\ job'[x].mention = job'[y].mention => x = y
      BY <3>2 DEF ReplyInv
    <3> QED BY <3>3, <3>4, <3>5, <3>6 DEF ReplyInv
  <2>5. \/ posts' = posts
        \/ job[w].at = "posting" /\ posts' = [posts EXCEPT ![job[w].mention] = posts[job[w].mention] + 1]
    BY <1>3 DEF PostUnacknowledged
  <2> QED BY <2>3, <2>4, <2>5
<1>4. ASSUME CycleFails \/ ExecutionThrows \/ LaneThrows \/ \E m \in Mentions : RecoverBlind(m) PROVE ReplyInv'
  <2>1. UNCHANGED <<delivery, posts, job>>
    BY <1>4 DEF CycleFails, ExecutionThrows, LaneThrows, RecoverBlind
  <2>2. StartedStays
    BY <2>1 DEF StartedStays
  <2> QED BY <2>1, <2>2, NothingPosted
<1> QED BY <1>1, <1>2, <1>3, <1>4 DEF RelayFault

LEMMA ReplyInvStarts ==
  RelayInit => ReplyInv
<1>1. IdleJob.at = "idle"
  BY DEF IdleJob
<1> QED BY <1>1 DEF RelayInit, ReplyInv, Posting

LEMMA ReplyInvHolds ==
  Typed /\ ReplyInv /\ [RelayNext]_relayVars => ReplyInv'
<1> SUFFICES ASSUME Typed, ReplyInv, [RelayNext]_relayVars PROVE ReplyInv'
  OBVIOUS
<1>1. CASE RelayNext
  <2>1. CASE PollStep \/ RelayWorld
    BY <2>1, ReplyElsewhere
  <2>2. CASE \E w \in Workers : DeliveryStep(w)
    BY <2>2, ReplyDelivery
  <2>3. CASE RelayFault
    BY <2>3, ReplyFault
  <2> QED BY <1>1, <2>1, <2>2, <2>3 DEF RelayNext
<1>2. CASE UNCHANGED relayVars
  BY <1>2 DEF ReplyInv, Posting, relayVars
<1> QED BY <1>1, <1>2

-----------------------------------------------------------------------------
(* Results.                                                                *)

\* The status is what the chain did, or says nothing of it.
Truth(m, status) ==
  /\ status = "filled" => chain[m] = "filled"
  /\ status \in {"nothing-filled", "reverted"} => chain[m] \in {"nofill", "failed"}

TrueAfter(m, status) ==
  /\ status = "filled" => chain'[m] = "filled"
  /\ status \in {"nothing-filled", "reverted"} => chain'[m] \in {"nofill", "failed"}

ResultInv ==
  /\ \A m \in Mentions : Truth(m, receipts[m].status)
  /\ \A m \in Mentions : Truth(m, delivery[m].text)
  /\ \A w \in Workers : job[w].at # "idle" => Truth(job[w].mention, job[w].text)
  /\ poll.at = "answered" => Truth(poll.mention, poll.outcome)

\* What landed stays as it landed.
LandedStays == \A m \in Mentions : chain[m] \in Landed => chain'[m] = chain[m]

LEMMA TruthStays ==
  ASSUME LandedStays, NEW m \in Mentions, NEW status, Truth(m, status)
  PROVE  TrueAfter(m, status)
BY DEF LandedStays, Truth, TrueAfter, Landed

LEMMA ChainStays ==
  ASSUME Typed, OrderInv, RelayNext
  PROVE  LandedStays
<1>1. CASE chain' = chain
  BY <1>1 DEF LandedStays
<1>2. ASSUME NEW m \in Mentions, Execute(m) PROVE LandedStays
  BY <1>2 DEF Execute, LandedStays, Landed, Typed
<1>3. CASE Send
  <2>1. poll.mention \in Mentions /\ chain[poll.mention] = "none"
    BY <1>3, InHandType DEF Send, ReadyToSend, OrderInv, Claimed, Accounted, Executing, InHand
  <2> QED BY <1>3, <2>1 DEF Send, LandedStays, Landed, Typed
<1>4. chain' = chain \/ Send \/ \E m \in Mentions : Execute(m)
  <2>1. CASE PollStep
    BY <2>1 DEF PollStep, StartCycle, Recover, Fetch, EndCycle, SkipOwnReply, Claim, Refuse, Checkpoint,
                RecordIntent, MarkSent, NotSent, Confirm, Save, PassCursor
  <2>2. CASE \E w \in Workers : DeliveryStep(w)
    BY <2>2 DEF DeliveryStep, MarkInterrupted, Acquire, Prepare, BeginPost, Post, FinishPost
  <2>3. CASE RelayWorld
    BY <2>3 DEF RelayWorld, Mention, OwnReply, ReceiptAges, DeliveryAges
  <2>4. CASE RelayFault
    BY <2>4 DEF RelayFault, Crash, PreparationFails, PostUnacknowledged, RecoverBlind, CycleFails,
                ExecutionThrows, LaneThrows
  <2> QED BY <2>1, <2>2, <2>3, <2>4 DEF RelayNext
<1> QED BY <1>1, <1>2, <1>3, <1>4

\* A receipt keeps its status, or a step gives it a true one.
LEMMA ReceiptTruth ==
  ASSUME Typed, ResultInv, LandedStays, RelayNext
  PROVE  \A m \in Mentions : TrueAfter(m, receipts'[m].status)
<1>0. receipts \in [Mentions -> Receipts] /\ \A m \in Mentions : TrueAfter(m, receipts[m].status)
  BY TruthStays DEF Typed, ResultInv
<1>1. ASSUME NEW n \in Mentions, Recover(n) PROVE \A m \in Mentions : TrueAfter(m, receipts'[m].status)
  <2>1. TrueAfter(n, Recovered(receipts[n], chain[n]))
    BY <1>1 DEF TrueAfter, Recovered, Recover, Landed
  <2>2. /\ receipts'[n].status = Recovered(receipts[n], chain[n])
        /\ \A m \in Mentions \ {n} : receipts'[m] = receipts[m]
    BY <1>0, <1>1 DEF Recover, Receipts
  <2> QED BY <1>0, <2>1, <2>2
<1>2. ASSUME NEW n \in Mentions, RecoverBlind(n) PROVE \A m \in Mentions : TrueAfter(m, receipts'[m].status)
  <2>1. receipts'[n].status = "unknown" /\ \A m \in Mentions \ {n} : receipts'[m] = receipts[m]
    BY <1>0, <1>2 DEF RecoverBlind, Receipts
  <2> QED BY <1>0, <2>1 DEF TrueAfter
<1>3. CASE Claim
  <2>1. \/ receipts' = receipts
        \/ receipts' = [receipts EXCEPT ![poll.mention] = [NoReceipt EXCEPT !.status = "submitted"]]
    BY <1>3 DEF Claim
  <2>2. \A m \in Mentions : receipts'[m] = receipts[m] \/ receipts'[m].status = "submitted"
    BY <1>0, <2>1 DEF NoReceipt
  <2> QED BY <1>0, <2>2 DEF TrueAfter
<1>4. CASE Save
  <2>1. poll.mention \in Mentions /\ TrueAfter(poll.mention, poll.outcome)
    BY <1>4, InHandType, TruthStays DEF Save, InHand, ResultInv
  <2>2. receipts' = [receipts EXCEPT ![poll.mention] = Upsert(receipts[poll.mention], poll.outcome)]
    BY <1>4 DEF Save
  <2>3. Upsert(receipts[poll.mention], poll.outcome).status \in {receipts[poll.mention].status, poll.outcome}
    BY <1>0, <2>1 DEF Upsert, Receipts
  <2>4. \A m \in Mentions \ {poll.mention} : receipts'[m] = receipts[m]
    BY <1>0, <2>1, <2>2
  <2>5. receipts'[poll.mention].status \in {receipts[poll.mention].status, poll.outcome}
    BY <1>0, <2>1, <2>2, <2>3
  <2> QED BY <1>0, <2>1, <2>4, <2>5
<1>5. CASE Checkpoint \/ RecordIntent \/ MarkSent \/ \E n \in Mentions : ReceiptAges(n)
  <2>1. \A m \in Mentions : receipts'[m].status = receipts[m].status
    <3>1. CASE Checkpoint
      BY <1>0, <3>1 DEF Checkpoint, Receipts
    <3>2. CASE RecordIntent
      BY <1>0, <3>2 DEF RecordIntent, Receipts
    <3>3. CASE MarkSent
      BY <1>0, <3>3 DEF MarkSent, Receipts
    <3>4. ASSUME NEW n \in Mentions, ReceiptAges(n)
          PROVE  \A m \in Mentions : receipts'[m].status = receipts[m].status
      BY <1>0, <3>4 DEF ReceiptAges, Receipts
    <3> QED BY <1>5, <3>1, <3>2, <3>3, <3>4
  <2> QED BY <1>0, <2>1 DEF TrueAfter
<1>6. CASE receipts' = receipts
  BY <1>0, <1>6
<1>7. \/ receipts' = receipts \/ Claim \/ Save \/ Checkpoint \/ RecordIntent \/ MarkSent
      \/ \E n \in Mentions : Recover(n) \/ RecoverBlind(n) \/ ReceiptAges(n)
  <2>1. CASE PollStep
    BY <2>1 DEF PollStep, StartCycle, Fetch, EndCycle, SkipOwnReply, Refuse, NotSent, Send, Confirm, PassCursor
  <2>2. CASE \E w \in Workers : DeliveryStep(w)
    BY <2>2 DEF DeliveryStep, MarkInterrupted, Acquire, Prepare, BeginPost, Post, FinishPost
  <2>3. CASE RelayWorld
    BY <2>3 DEF RelayWorld, Mention, OwnReply, Execute, DeliveryAges
  <2>4. CASE RelayFault
    BY <2>4 DEF RelayFault, Crash, PreparationFails, PostUnacknowledged, CycleFails, ExecutionThrows, LaneThrows
  <2> QED BY <2>1, <2>2, <2>3, <2>4 DEF RelayNext
<1> QED BY <1>1, <1>2, <1>3, <1>4, <1>5, <1>6, <1>7

\* A reply says what its receipt said when it was read.
LEMMA ReplyTruth ==
  ASSUME Typed, ResultInv, LandedStays, RelayNext
  PROVE  /\ \A m \in Mentions : TrueAfter(m, delivery'[m].text)
         /\ \A w \in Workers : job'[w].at # "idle" => TrueAfter(job'[w].mention, job'[w].text)
<1> DEFINE DeliveriesTrue == \A m \in Mentions : TrueAfter(m, delivery'[m].text)
           JobsTrue == \A w \in Workers : job'[w].at # "idle" => TrueAfter(job'[w].mention, job'[w].text)
<1>0. /\ delivery \in [Mentions -> Deliveries] /\ job \in [Workers -> Jobs] /\ IdleJob.at = "idle"
      /\ \A m \in Mentions : TrueAfter(m, delivery[m].text)
      /\ \A m \in Mentions : TrueAfter(m, receipts[m].status)
      /\ \A w \in Workers : job[w].at # "idle" => job[w].mention \in Mentions /\ TrueAfter(job[w].mention, job[w].text)
  BY TruthStays DEF Typed, ResultInv, IdleJob
<1>1. (\A m \in Mentions : delivery'[m].text = delivery[m].text) => DeliveriesTrue
  BY <1>0
<1>2. (\A w \in Workers : job'[w].at = "idle" \/ job'[w] = job[w]) => JobsTrue
  BY <1>0
<1>3. ASSUME NEW w \in Workers, NEW state \in DeliveryStates, Stopped(w, state), job[w].at # "idle" PROVE DeliveriesTrue
  <2>1. \/ delivery' = delivery
        \/ delivery' = [delivery EXCEPT ![job[w].mention].state = state, ![job[w].mention].old = FALSE]
    BY <1>3 DEF Stopped
  <2>2. \A m \in Mentions : delivery'[m].text = delivery[m].text
    BY <1>0, <1>3, <2>1 DEF Deliveries
  <2> QED BY <1>1, <2>2
<1>4. ASSUME NEW w \in Workers, Acquire(w) PROVE DeliveriesTrue /\ JobsTrue
  <2>1. PICK m \in Mentions :
          /\ delivery' = [delivery EXCEPT ![m].state = "preparing", ![m].lease = delivery[m].lease + 1, ![m].old = FALSE]
          /\ job' = [job EXCEPT ![w] = [IdleJob EXCEPT !.at = "acquired", !.mention = m, !.lease = delivery[m].lease + 1]]
    BY <1>4 DEF Acquire
  <2>2. \A n \in Mentions : delivery'[n].text = delivery[n].text
    BY <1>0, <2>1 DEF Deliveries
  <2>3. job'[w].text = "none" /\ \A x \in Workers \ {w} : job'[x] = job[x]
    BY <1>0, <2>1 DEF IdleJob
  <2>4. JobsTrue
    BY <1>0, <2>3 DEF TrueAfter
  <2> QED BY <1>1, <2>2, <2>4
<1>5. ASSUME NEW w \in Workers, Prepare(w) PROVE DeliveriesTrue /\ JobsTrue
  <2>1. /\ job'[w].text = receipts[job[w].mention].status /\ job'[w].mention = job[w].mention
        /\ job[w].mention \in Mentions /\ \A x \in Workers \ {w} : job'[x] = job[x]
    BY <1>0, <1>5 DEF Prepare, Jobs
  <2>2. delivery' = delivery
    BY <1>5 DEF Prepare
  <2> QED BY <1>0, <2>1, <2>2
<1>6. ASSUME NEW w \in Workers, BeginPost(w) PROVE DeliveriesTrue /\ JobsTrue
  <2>1. CASE Holds(w, "preparing")
    <3>1. job[w].mention \in Mentions
      BY <1>0, <1>6 DEF BeginPost
    <3>2. /\ delivery'[job[w].mention].text = job[w].text
          /\ \A m \in Mentions \ {job[w].mention} : delivery'[m] = delivery[m]
      BY <1>0, <1>6, <2>1, <3>1 DEF BeginPost, Deliveries
    <3>3. TrueAfter(job[w].mention, job[w].text)
      BY <1>0, <1>6 DEF BeginPost
    <3>4. DeliveriesTrue
      BY <1>0, <3>2, <3>3
    <3>5. /\ job'[w].text = job[w].text /\ job'[w].mention = job[w].mention
          /\ \A x \in Workers \ {w} : job'[x] = job[x]
      BY <1>0, <1>6, <2>1 DEF BeginPost, Jobs
    <3>6. JobsTrue
      BY <1>0, <3>3, <3>5
    <3> QED BY <3>4, <3>6
  <2>2. CASE ~Holds(w, "preparing")
    <3>1. delivery' = delivery /\ \A x \in Workers : job'[x].at = "idle" \/ job'[x] = job[x]
      BY <1>0, <1>6, <2>2 DEF BeginPost
    <3> QED BY <1>1, <1>2, <3>1
  <2> QED BY <2>1, <2>2
<1>7. ASSUME NEW w \in Workers, Post(w) PROVE DeliveriesTrue /\ JobsTrue
  <2>1. /\ job'[w].text = job[w].text /\ job'[w].mention = job[w].mention /\ job[w].at # "idle"
        /\ \A x \in Workers \ {w} : job'[x] = job[x]
    BY <1>0, <1>7 DEF Post, Jobs
  <2>2. delivery' = delivery
    BY <1>7 DEF Post
  <2> QED BY <1>0, <2>1, <2>2
<1>8. ASSUME NEW w \in Workers, FinishPost(w) \/ PreparationFails(w) \/ PostUnacknowledged(w)
      PROVE  DeliveriesTrue /\ JobsTrue
  <2>1. /\ job[w].at # "idle" /\ job[w].mention \in Mentions
        /\ \A x \in Workers : job'[x].at = "idle" \/ job'[x] = job[x]
    BY <1>0, <1>8 DEF FinishPost, PreparationFails, PostUnacknowledged
  <2>2. CASE FinishPost(w) /\ Holds(w, "posting")
    <3>1. \A m \in Mentions : delivery'[m].text = delivery[m].text
      BY <1>0, <2>1, <2>2 DEF FinishPost, Deliveries
    <3> QED BY <1>1, <1>2, <2>1, <3>1
  <2>3. CASE \E state \in DeliveryStates : Stopped(w, state)
    BY <1>2, <1>3, <2>1, <2>3
  <2>4. (FinishPost(w) /\ Holds(w, "posting")) \/ \E state \in DeliveryStates : Stopped(w, state)
    <3>1. {"failed", "unknown"} \subseteq DeliveryStates
      BY DEF DeliveryStates
    <3> QED BY <1>8, <3>1 DEF FinishPost, PreparationFails, PostUnacknowledged
  <2> QED BY <2>2, <2>3, <2>4
<1>9. CASE \E w \in Workers : MarkInterrupted(w) \/ Crash(w)
  <2>1. \A m \in Mentions : [delivery[m] EXCEPT !.state = "unknown", !.old = FALSE].text = delivery[m].text
    BY <1>0 DEF Deliveries
  <2>2. \A m \in Mentions : delivery'[m].text = delivery[m].text
    BY <1>9, <2>1 DEF MarkInterrupted, Crash
  <2>3. \A x \in Workers : job'[x].at = "idle" \/ job'[x] = job[x]
    BY <1>0, <1>9 DEF MarkInterrupted, Crash
  <2> QED BY <1>1, <1>2, <2>2, <2>3
<1>10. CASE Claim \/ \E m \in Mentions : DeliveryAges(m)
  <2>1. job' = job
    BY <1>10 DEF Claim, DeliveryAges
  <2>2. CASE delivery' = delivery
    BY <1>1, <1>2, <2>1, <2>2
  <2>3. ASSUME NEW m, NEW state, delivery' = [delivery EXCEPT ![m].state = state] PROVE DeliveriesTrue /\ JobsTrue
    <3>1. \A n \in Mentions : delivery'[n].text = delivery[n].text
      BY <1>0, <2>3 DEF Deliveries
    <3> QED BY <1>1, <1>2, <2>1, <3>1
  <2>4. ASSUME NEW m, delivery' = [delivery EXCEPT ![m].old = TRUE] PROVE DeliveriesTrue /\ JobsTrue
    <3>1. \A n \in Mentions : delivery'[n].text = delivery[n].text
      BY <1>0, <2>4 DEF Deliveries
    <3> QED BY <1>1, <1>2, <2>1, <3>1
  <2>5. CASE Claim
    <3>1. \/ delivery' = delivery
          \/ \E state : delivery' = [delivery EXCEPT ![poll.mention].state = state]
      BY <2>5 DEF Claim
    <3> QED BY <2>2, <2>3, <3>1
  <2> QED BY <1>10, <2>4, <2>5 DEF DeliveryAges
<1>11. CASE delivery' = delivery /\ job' = job
  BY <1>1, <1>2, <1>11
<1>12. \/ delivery' = delivery /\ job' = job
       \/ Claim \/ \E m \in Mentions : DeliveryAges(m)
       \/ \E w \in Workers : MarkInterrupted(w) \/ Crash(w)
       \/ \E w \in Workers : Acquire(w) \/ Prepare(w) \/ BeginPost(w) \/ Post(w)
       \/ \E w \in Workers : FinishPost(w) \/ PreparationFails(w) \/ PostUnacknowledged(w)
  <2>1. CASE PollStep
    BY <2>1 DEF PollStep, StartCycle, Recover, Fetch, EndCycle, SkipOwnReply, Refuse, Checkpoint, RecordIntent,
                MarkSent, NotSent, Send, Confirm, Save, PassCursor
  <2>2. CASE \E w \in Workers : DeliveryStep(w)
    BY <2>2 DEF DeliveryStep
  <2>3. CASE RelayWorld
    BY <2>3 DEF RelayWorld, Mention, OwnReply, Execute, ReceiptAges
  <2>4. CASE RelayFault
    BY <2>4 DEF RelayFault, RecoverBlind, CycleFails, ExecutionThrows, LaneThrows
  <2> QED BY <2>1, <2>2, <2>3, <2>4 DEF RelayNext
<1> QED BY <1>4, <1>5, <1>6, <1>7, <1>8, <1>9, <1>10, <1>11, <1>12

\* The lane answers with what it read on chain, or with a status that says nothing of it.
LEMMA OutcomeTruth ==
  ASSUME Typed, ResultInv, LandedStays, RelayNext, poll'.at = "answered"
  PROVE  TrueAfter(poll'.mention, poll'.outcome)
<1>0. poll \in Polls /\ IdlePoll.at = "idle"
  BY DEF Typed, IdlePoll
<1>1. CASE poll' = poll
  <2>1. poll.mention \in Mentions /\ Truth(poll.mention, poll.outcome)
    BY <1>1, InHandType DEF ResultInv, InHand
  <2> QED BY <1>1, <2>1, TruthStays
<1>2. ASSUME NEW status \in {"refused", "unknown"}, Outcome(status) PROVE TrueAfter(poll'.mention, poll'.outcome)
  <2>1. poll'.outcome = status
    BY <1>0, <1>2 DEF Outcome, Polls
  <2> QED BY <2>1 DEF TrueAfter
<1>3. CASE Confirm
  <2>1. CASE chain[poll.mention] \in Landed /\ Outcome(Booked[chain[poll.mention]])
    <3>1. poll'.outcome = Booked[chain[poll.mention]] /\ poll'.mention = poll.mention /\ chain' = chain
      BY <1>0, <1>3, <2>1 DEF Outcome, Confirm, Polls
    <3>2. chain[poll.mention] \in {"filled", "nofill", "failed"}
      BY <2>1 DEF Landed
    <3> QED BY <3>1, <3>2 DEF TrueAfter, Booked
  <2>2. CASE Outcome("unknown")
    BY <1>2, <2>2
  <2> QED BY <1>3, <2>1, <2>2 DEF Confirm
<1>4. CASE Refuse \/ NotSent \/ ExecutionThrows \/ LaneThrows
  BY <1>2, <1>4 DEF Refuse, NotSent, ExecutionThrows, LaneThrows
<1>5. \/ poll' = poll \/ Confirm \/ Refuse \/ NotSent \/ ExecutionThrows \/ LaneThrows
  <2>1. CASE PollStep
    <3>1. CASE StartCycle
      <4>1. poll'.at = "recovering"
        BY <3>1 DEF StartCycle, IdlePoll
      <4> QED BY <4>1
    <3>2. CASE EndCycle \/ Fetch
      <4>1. poll' = IdlePoll \/ poll' = [poll EXCEPT !.at = "next", !.mention = cursor + 1, !.until = Len(feed)]
        BY <3>2 DEF EndCycle, Fetch
      <4>2. poll'.at \in {"idle", "next"}
        BY <1>0, <4>1 DEF Polls
      <4> QED BY <4>2
    <3>3. CASE SkipOwnReply \/ PassCursor \/ Claim \/ Send \/ Save
      <4>1. poll'.at # "answered"
        BY <1>0, <3>3 DEF SkipOwnReply, PassCursor, Claim, Send, Save, Polls
      <4> QED BY <4>1
    <3>4. CASE Checkpoint \/ RecordIntent \/ MarkSent \/ \E m \in Mentions : Recover(m)
      <4>1. poll'.at # "answered"
        BY <1>0, <3>4 DEF Checkpoint, RecordIntent, MarkSent, Recover, Polls
      <4> QED BY <4>1
    <3> QED BY <2>1, <3>1, <3>2, <3>3, <3>4 DEF PollStep
  <2>2. CASE \E w \in Workers : DeliveryStep(w)
    BY <2>2 DEF DeliveryStep, MarkInterrupted, Acquire, Prepare, BeginPost, Post, FinishPost
  <2>3. CASE RelayWorld
    BY <2>3 DEF RelayWorld, Mention, OwnReply, Execute, ReceiptAges, DeliveryAges
  <2>4. CASE RelayFault
    <3>1. ASSUME NEW m \in Mentions, RecoverBlind(m) PROVE poll'.at # "answered"
      BY <1>0, <3>1 DEF RecoverBlind, Polls
    <3>2. CycleFails \/ (\E w \in Workers : Crash(w) \/ PreparationFails(w) \/ PostUnacknowledged(w))
            => poll' \in {poll, IdlePoll}
      BY DEF CycleFails, Crash, PreparationFails, PostUnacknowledged
    <3> QED BY <1>0, <2>4, <3>1, <3>2 DEF RelayFault
  <2> QED BY <2>1, <2>2, <2>3, <2>4 DEF RelayNext
<1> QED BY <1>1, <1>3, <1>4, <1>5

LEMMA ResultInvStarts ==
  RelayInit => ResultInv
<1>1. /\ IdleJob.at = "idle" /\ IdlePoll.at = "idle" /\ NoReceipt.status = "none" /\ NoDelivery.text = "none"
  BY DEF IdleJob, IdlePoll, NoReceipt, NoDelivery
<1> QED BY <1>1 DEF RelayInit, ResultInv, Truth

LEMMA ResultInvHolds ==
  Typed /\ OrderInv /\ ResultInv /\ [RelayNext]_relayVars => ResultInv'
<1> SUFFICES ASSUME Typed, OrderInv, ResultInv, [RelayNext]_relayVars PROVE ResultInv'
  OBVIOUS
<1>1. CASE RelayNext
  <2>1. LandedStays
    BY <1>1, ChainStays
  <2> QED BY <1>1, <2>1, ReceiptTruth, ReplyTruth, OutcomeTruth DEF ResultInv, Truth, TrueAfter
<1>2. CASE UNCHANGED relayVars
  BY <1>2 DEF ResultInv, Truth, relayVars
<1> QED BY <1>1, <1>2

-----------------------------------------------------------------------------
(* The theorems.                                                           *)

LEMMA RelayInvariants ==
  RelaySpec => [](Typed /\ OrderInv /\ ReplyInv /\ ResultInv)
<1> DEFINE Inv == Typed /\ OrderInv /\ ReplyInv /\ ResultInv
<1>1. RelayInit => Inv
  BY TypedStarts, OrderInvStarts, ReplyInvStarts, ResultInvStarts
<1>2. Inv /\ [RelayNext]_relayVars => Inv'
  BY TypedHolds, OrderInvHolds, ReplyInvHolds, ResultInvHolds
<1> QED BY <1>1, <1>2, PTL DEF RelaySpec

\* Rows, chain and counters stay within their types.
THEOREM RelayTypeOKHolds ==
  RelaySpec => []RelayTypeOK
<1>1. Typed => RelayTypeOK
  BY DEF Typed, RelayTypeOK, Receipts, Deliveries, Chains
<1> QED BY <1>1, RelayInvariants, PTL

\* An instruction becomes at most one transaction, and the relay's own replies none, however often the
\* process crashes or reads the feed again ("An existing mention is never executed again").
THEOREM OneOrderPerCommandHolds ==
  RelaySpec => []OneOrderPerCommand
<1>1. Typed /\ OrderInv => OneOrderPerCommand
  BY DEF OrderInv, Accounted, OneOrderPerCommand, Typed
<1> QED BY <1>1, RelayInvariants, PTL

\* Whatever may be on chain can be asked for: hash and target were stored before the bytes left.
THEOREM BroadcastIsRecordedHolds ==
  RelaySpec => []BroadcastIsRecorded
<1>1. OrderInv => BroadcastIsRecorded
  BY DEF OrderInv, Accounted, BroadcastIsRecorded
<1> QED BY <1>1, RelayInvariants, PTL

\* At most one public reply per mention, for every number of workers whose leases and posts overlap.
THEOREM OneReplyPerMentionHolds ==
  RelaySpec => []OneReplyPerMention
<1>1. Typed /\ ReplyInv => OneReplyPerMention
  <2> SUFFICES ASSUME Typed, ReplyInv, NEW m \in Mentions PROVE posts[m] <= 1
    BY DEF OneReplyPerMention
  <2>1. posts[m] \in Nat /\ (posts[m] # 0 => posts[m] = 1)
    BY DEF ReplyInv, Typed
  <2> QED BY <2>1
<1> QED BY <1>1, RelayInvariants, PTL

\* Receipts and replies claim no result the chain does not have.
THEOREM OnlyTrueResultsHolds ==
  RelaySpec => []OnlyTrueResults
<1>1. ResultInv => OnlyTrueResults
  BY DEF ResultInv, Truth, OnlyTrueResults
<1> QED BY <1>1, RelayInvariants, PTL

-----------------------------------------------------------------------------
(* The errand: what every step does to one mention.                        *)

Answers == {"refused", "unknown"} \cup ResultStatuses

\* The poll loop holds a receipt nobody has answered yet, recovery receipts that are still open.
HandInv ==
  /\ poll.at \in Executing \cup {"confirming", "answered"} => receipts[poll.mention].status = "submitted"
  /\ poll.at = "recovering" => \A m \in poll.due : receipts[m].status \in OpenStatuses
  /\ poll.at = "answered" => poll.outcome \in Answers
  /\ \A m \in Mentions : receipts[m].status = "none" => ~receipts[m].hash /\ delivery[m].state = "none"

\* A receipt only moves towards a final answer.
StatusMoves(m) ==
  \/ receipts'[m].status = receipts[m].status
  \/ receipts[m].status = "none" /\ receipts'[m].status = "submitted"
  \/ receipts[m].status = "submitted" /\ receipts'[m].status \in Answers
  \/ receipts[m].status = "unknown" /\ receipts'[m].status \in ResultStatuses

LEMMA RowWriters ==
  ASSUME RelayNext
  PROVE  \/ receipts' = receipts \/ Claim \/ Save \/ Checkpoint \/ RecordIntent \/ MarkSent
         \/ \E n \in Mentions : Recover(n) \/ RecoverBlind(n) \/ ReceiptAges(n)
<1>1. CASE PollStep
  BY <1>1 DEF PollStep, StartCycle, Fetch, EndCycle, SkipOwnReply, Refuse, NotSent, Send, Confirm, PassCursor
<1>2. CASE \E w \in Workers : DeliveryStep(w)
  BY <1>2 DEF DeliveryStep, MarkInterrupted, Acquire, Prepare, BeginPost, Post, FinishPost
<1>3. CASE RelayWorld
  BY <1>3 DEF RelayWorld, Mention, OwnReply, Execute, DeliveryAges
<1>4. CASE RelayFault
  BY <1>4 DEF RelayFault, Crash, PreparationFails, PostUnacknowledged, CycleFails, ExecutionThrows, LaneThrows
<1> QED BY <1>1, <1>2, <1>3, <1>4 DEF RelayNext

\* Steps that write a row and leave every status alone; the hash is written for the mention in hand.
LEMMA RowsKeepStatus ==
  ASSUME Typed, Checkpoint \/ RecordIntent \/ MarkSent \/ \E n \in Mentions : ReceiptAges(n)
  PROVE  /\ \A m \in Mentions : receipts'[m].status = receipts[m].status
         /\ \A m \in Mentions : receipts'[m].hash # receipts[m].hash => MarkSent /\ m = poll.mention
<1>0. receipts \in [Mentions -> Receipts]
  BY DEF Typed
<1>1. CASE Checkpoint
  BY <1>0, <1>1 DEF Checkpoint, Receipts
<1>2. CASE RecordIntent
  BY <1>0, <1>2 DEF RecordIntent, Receipts
<1>3. CASE MarkSent
  BY <1>0, <1>3 DEF MarkSent, Receipts
<1>4. ASSUME NEW n \in Mentions, ReceiptAges(n)
      PROVE  /\ \A m \in Mentions : receipts'[m].status = receipts[m].status
             /\ \A m \in Mentions : receipts'[m].hash = receipts[m].hash
  BY <1>0, <1>4 DEF ReceiptAges, Receipts
<1> QED BY <1>1, <1>2, <1>3, <1>4

\* Recovery, blind or not, answers an open receipt or leaves it in doubt.
LEMMA RecoveryAnswers ==
  ASSUME Typed, HandInv, NEW n \in Mentions, Recover(n) \/ RecoverBlind(n)
  PROVE  /\ receipts[n].status \in OpenStatuses
         /\ receipts'[n].status \in {"unknown"} \cup ResultStatuses
         /\ receipts'[n].hash = receipts[n].hash /\ receipts'[n].target = receipts[n].target
         /\ \A m \in Mentions \ {n} : receipts'[m] = receipts[m]
         /\ poll'.at = "recovering" /\ poll'.due = poll.due \ {n}
<1>0. receipts \in [Mentions -> Receipts] /\ poll \in Polls /\ poll.at = "recovering" /\ n \in poll.due
  BY DEF Typed, Recover, RecoverBlind
<1>1. receipts[n].status \in OpenStatuses
  BY <1>0 DEF HandInv
<1>2. poll' = [poll EXCEPT !.due = poll.due \ {n}]
  BY DEF Recover, RecoverBlind
<1>3. poll'.at = "recovering" /\ poll'.due = poll.due \ {n}
  BY <1>0, <1>2 DEF Polls
<1>4. CASE Recover(n)
  <2>1. Recovered(receipts[n], chain[n]) \in {"unknown"} \cup ResultStatuses
    BY DEF Recovered, ResultStatuses
  <2> QED BY <1>0, <1>1, <1>3, <1>4, <2>1 DEF Recover, Receipts
<1>5. CASE RecoverBlind(n)
  BY <1>0, <1>1, <1>3, <1>5 DEF RecoverBlind, Receipts
<1> QED BY <1>4, <1>5

\* A claim takes a mention nobody took, or changes nothing but the loop's place.
LEMMA ClaimTakes ==
  ASSUME Typed, Claim
  PROVE  /\ poll.mention \in Mentions /\ poll.mention \in DOMAIN feed /\ feed[poll.mention] = "command"
         /\ poll'.mention = poll.mention
         /\ \/ /\ receipts[poll.mention].status = "none" /\ poll'.at = "claimed"
               /\ receipts'[poll.mention] = [NoReceipt EXCEPT !.status = "submitted"]
               /\ receipts'[poll.mention].status = "submitted"
            \/ receipts' = receipts /\ delivery' = delivery /\ poll'.at = "passing"
         /\ \A m \in Mentions \ {poll.mention} : receipts'[m] = receipts[m] /\ delivery'[m] = delivery[m]
         /\ delivery'[poll.mention].text = delivery[poll.mention].text
         /\ delivery'[poll.mention].state \in {delivery[poll.mention].state, "pending"}
         /\ delivery[poll.mention].state # "none" => delivery'[poll.mention] = delivery[poll.mention]
<1>0. receipts \in [Mentions -> Receipts] /\ poll \in Polls /\ delivery \in [Mentions -> Deliveries]
  BY DEF Typed
<1>1. poll.mention \in Mentions /\ poll.mention \in DOMAIN feed
  BY RelayAssumption DEF Claim, Typed, Mentions, Polls
<1>2. feed[poll.mention] = "command" /\ poll'.mention = poll.mention
  BY <1>0, <1>1 DEF Claim, IsRelayReply, Typed, Polls
<1>3. CASE Unclaimed(poll.mention)
  <2>1. /\ receipts' = [receipts EXCEPT ![poll.mention] = [NoReceipt EXCEPT !.status = "submitted"]]
        /\ delivery' = [delivery EXCEPT ![poll.mention].state =
                          IF delivery[poll.mention].state = "none" THEN "pending" ELSE delivery[poll.mention].state]
        /\ poll'.at = "claimed"
    BY <1>0, <1>3 DEF Claim, Polls
  <2>2. /\ receipts'[poll.mention] = [NoReceipt EXCEPT !.status = "submitted"]
        /\ \A m \in Mentions \ {poll.mention} : receipts'[m] = receipts[m]
    BY <1>0, <1>1, <2>1
  <2>3. [NoReceipt EXCEPT !.status = "submitted"].status = "submitted"
    BY DEF NoReceipt
  <2>4. /\ delivery'[poll.mention] = [delivery[poll.mention] EXCEPT !.state =
             IF delivery[poll.mention].state = "none" THEN "pending" ELSE delivery[poll.mention].state]
        /\ \A m \in Mentions \ {poll.mention} : delivery'[m] = delivery[m]
    BY <1>0, <1>1, <2>1
  <2>5. delivery[poll.mention] \in Deliveries
    BY <1>0, <1>1
  <2>6. /\ delivery'[poll.mention].text = delivery[poll.mention].text
        /\ delivery'[poll.mention].state \in {delivery[poll.mention].state, "pending"}
        /\ delivery[poll.mention].state # "none" => delivery'[poll.mention] = delivery[poll.mention]
    BY <2>4, <2>5 DEF Deliveries
  <2> QED BY <1>1, <1>2, <1>3, <2>1, <2>2, <2>3, <2>4, <2>6 DEF Unclaimed
<1>4. CASE ~Unclaimed(poll.mention)
  BY <1>0, <1>1, <1>2, <1>4 DEF Claim, Polls
<1> QED BY <1>3, <1>4

\* The answer is stored over a receipt that had none.
LEMMA SaveAnswers ==
  ASSUME Typed, HandInv, Save
  PROVE  /\ poll.mention \in Mentions /\ receipts[poll.mention].status = "submitted"
         /\ receipts'[poll.mention].status \in Answers
         /\ receipts'[poll.mention].hash = receipts[poll.mention].hash
         /\ receipts'[poll.mention].target = receipts[poll.mention].target
         /\ \A m \in Mentions \ {poll.mention} : receipts'[m] = receipts[m]
         /\ poll'.at = "passing"
<1>0. receipts \in [Mentions -> Receipts] /\ poll \in Polls /\ poll.mention \in Mentions
  BY InHandType DEF Typed, Save, InHand
<1>1. receipts[poll.mention].status = "submitted" /\ poll.outcome \in Answers
  BY DEF HandInv, Save
<1>2. receipts' = [receipts EXCEPT ![poll.mention] = Upsert(receipts[poll.mention], poll.outcome)]
  BY DEF Save
<1>3. Upsert(receipts[poll.mention], poll.outcome) =
        [receipts[poll.mention] EXCEPT !.status = poll.outcome, !.old = FALSE]
  BY <1>1 DEF Upsert, ResultStatuses
<1>4. receipts'[poll.mention] = [receipts[poll.mention] EXCEPT !.status = poll.outcome, !.old = FALSE]
  BY <1>0, <1>2, <1>3
<1>5. receipts[poll.mention] \in Receipts
  BY <1>0
<1>6. poll'.at = "passing"
  BY <1>0 DEF Save, Polls
<1> QED BY <1>0, <1>1, <1>2, <1>4, <1>5, <1>6 DEF Receipts

LEMMA StatusSteps ==
  ASSUME Typed, HandInv, RelayNext
  PROVE  \A m \in Mentions : StatusMoves(m)
<1>1. CASE receipts' = receipts
  BY <1>1 DEF StatusMoves
<1>2. CASE Claim
  BY <1>2, ClaimTakes DEF StatusMoves
<1>3. CASE Save
  BY <1>3, SaveAnswers DEF StatusMoves
<1>4. CASE Checkpoint \/ RecordIntent \/ MarkSent \/ \E n \in Mentions : ReceiptAges(n)
  BY <1>4, RowsKeepStatus DEF StatusMoves
<1>5. ASSUME NEW n \in Mentions, Recover(n) \/ RecoverBlind(n) PROVE \A m \in Mentions : StatusMoves(m)
  <2>1. /\ receipts[n].status \in {"submitted", "unknown"}
        /\ receipts'[n].status \in {"unknown"} \cup ResultStatuses
        /\ \A m \in Mentions \ {n} : receipts'[m] = receipts[m]
    BY <1>5, RecoveryAnswers DEF OpenStatuses
  <2> QED BY <2>1 DEF StatusMoves, Answers
<1> QED BY <1>1, <1>2, <1>3, <1>4, <1>5, RowWriters

\* What delivering does to a row, unless it stores the words to post.
RowMoves(m) ==
  /\ delivery[m].state = "none" => delivery'[m].state = "none"
  /\ delivery[m].state \in Started => delivery'[m].state \in Started
  /\ delivery'[m].text = delivery[m].text

\* The holder of the lease stores the words it is about to post.
Worded(w) ==
  /\ receipts' = receipts /\ posts' = posts
  /\ job[w].at = "prepared" /\ job'[w].at = "posting" /\ job'[w].mention = job[w].mention
  /\ delivery[job[w].mention].state = "preparing"
  /\ delivery'[job[w].mention].state = "posting" /\ delivery'[job[w].mention].text = job[w].text
  /\ \A m \in Mentions \ {job[w].mention} : delivery'[m] = delivery[m]
  /\ \A x \in Workers \ {w} : job'[x] = job[x]

LEMMA StoppedMoves ==
  ASSUME Typed, NEW w \in Workers, job[w].at # "idle", NEW state \in {"failed", "unknown"}, Stopped(w, state)
  PROVE  \A m \in Mentions : RowMoves(m)
<1>1. job[w].mention \in Mentions /\ delivery \in [Mentions -> Deliveries]
  BY DEF Typed
<1>2. CASE delivery' = delivery
  BY <1>2 DEF RowMoves
<1>3. CASE /\ Holds(w, "preparing") \/ Holds(w, "posting")
           /\ delivery' = [delivery EXCEPT ![job[w].mention].state = state, ![job[w].mention].old = FALSE]
  <2>1. /\ delivery'[job[w].mention].state = state
        /\ delivery'[job[w].mention].text = delivery[job[w].mention].text
    BY <1>1, <1>3 DEF Deliveries
  <2>2. \A m \in Mentions \ {job[w].mention} : delivery'[m] = delivery[m]
    BY <1>1, <1>3
  <2>3. delivery[job[w].mention].state # "none"
    BY <1>3 DEF Holds, Row
  <2> QED BY <2>1, <2>2, <2>3 DEF RowMoves, Started
<1> QED BY <1>2, <1>3 DEF Stopped

\* What a step does to what a worker holds in memory.
JobMoves(w) ==
  \/ job'[w].at = "idle"
  \/ job'[w] = job[w]
  \/ /\ receipts' = receipts /\ job'[w].at = "acquired"
     /\ job'[w].mention \in Mentions /\ Acquirable(job'[w].mention)
  \/ /\ receipts' = receipts /\ job[w].at # "idle" /\ job'[w].mention = job[w].mention
     /\ job'[w].at = "prepared" /\ job'[w].text = receipts[job[w].mention].status
  \/ Worded(w)
  \/ job[w].at # "idle" /\ job'[w].at = "posted" /\ job'[w].mention = job[w].mention

LEMMA DeliveryMoves ==
  ASSUME Typed, NEW w \in Workers, DeliveryStep(w) \/ PreparationFails(w) \/ PostUnacknowledged(w)
  PROVE  /\ UNCHANGED <<feed, cursor, receipts, poll, chain, sent>>
         /\ \A x \in Workers \ {w} : job'[x] = job[x]
         /\ JobMoves(w)
         /\ Worded(w) \/ \A m \in Mentions : RowMoves(m)
         /\ posts' # posts => job[w].at = "posting"
<1>0. /\ job \in [Workers -> Jobs] /\ job[w] \in Jobs /\ delivery \in [Mentions -> Deliveries]
      /\ job[w].at # "idle" => job[w].mention \in Mentions
      /\ IdleJob.at = "idle" /\ IdleJob \in Jobs
  BY DEF Typed, IdleJob, Jobs, NoMention, Statuses
<1>1. CASE MarkInterrupted(w)
  <2>1. /\ UNCHANGED <<feed, cursor, receipts, poll, job, chain, sent, posts>>
        /\ delivery' = [m \in Mentions |->
             IF delivery[m].state = "posting" /\ delivery[m].old
               THEN [delivery[m] EXCEPT !.state = "unknown", !.old = FALSE] ELSE delivery[m]]
    BY <1>1 DEF MarkInterrupted
  <2>2. ASSUME NEW m \in Mentions PROVE RowMoves(m)
    <3>1. delivery[m] \in Deliveries
      BY <1>0
    <3>2. CASE delivery[m].state = "posting" /\ delivery[m].old
      <4>1. delivery'[m] = [delivery[m] EXCEPT !.state = "unknown", !.old = FALSE]
        BY <2>1, <3>2
      <4> QED BY <3>1, <3>2, <4>1 DEF RowMoves, Deliveries, Started
    <3>3. CASE ~(delivery[m].state = "posting" /\ delivery[m].old)
      <4>1. delivery'[m] = delivery[m]
        BY <2>1, <3>3
      <4> QED BY <4>1 DEF RowMoves
    <3> QED BY <3>2, <3>3
  <2> QED BY <2>1, <2>2 DEF JobMoves
<1>2. CASE Acquire(w)
  <2>1. PICK m \in Mentions :
          /\ Acquirable(m)
          /\ delivery' = [delivery EXCEPT ![m].state = "preparing", ![m].lease = delivery[m].lease + 1, ![m].old = FALSE]
          /\ job' = [job EXCEPT ![w] = [IdleJob EXCEPT !.at = "acquired", !.mention = m, !.lease = delivery[m].lease + 1]]
    BY <1>2 DEF Acquire
  <2>2. job'[w].at = "acquired" /\ job'[w].mention = m /\ \A x \in Workers \ {w} : job'[x] = job[x]
    BY <1>0, <2>1 DEF IdleJob
  <2>3. delivery'[m].state = "preparing" /\ delivery'[m].text = delivery[m].text
        /\ \A n \in Mentions \ {m} : delivery'[n] = delivery[n]
    BY <1>0, <2>1 DEF Deliveries
  <2>4. delivery[m].state \in {"pending", "preparing"}
    BY <2>1 DEF Acquirable
  <2>5. \A n \in Mentions : RowMoves(n)
    BY <2>3, <2>4 DEF RowMoves, Started
  <2>6. UNCHANGED <<feed, cursor, receipts, poll, chain, sent, posts>>
    BY <1>2 DEF Acquire
  <2>7. JobMoves(w)
    BY <2>1, <2>2, <2>6 DEF JobMoves
  <2> QED BY <2>2, <2>5, <2>6, <2>7
<1>3. CASE Prepare(w)
  <2>1. /\ UNCHANGED <<feed, cursor, receipts, delivery, poll, chain, sent, posts>> /\ job[w].at = "acquired"
        /\ job' = [job EXCEPT ![w].at = "prepared", ![w].text = receipts[job[w].mention].status]
    BY <1>3 DEF Prepare
  <2>2. /\ job'[w].at = "prepared" /\ job'[w].text = receipts[job[w].mention].status
        /\ job'[w].mention = job[w].mention /\ \A x \in Workers \ {w} : job'[x] = job[x]
    BY <1>0, <2>1 DEF Jobs
  <2> QED BY <2>1, <2>2 DEF JobMoves, RowMoves
<1>4. CASE BeginPost(w)
  <2>1. UNCHANGED <<feed, cursor, receipts, poll, chain, sent, posts>> /\ job[w].at = "prepared"
    BY <1>4 DEF BeginPost
  <2>2. CASE Holds(w, "preparing")
    <3>1. /\ delivery' = [delivery EXCEPT ![job[w].mention].state = "posting",
                                          ![job[w].mention].text = job[w].text,
                                          ![job[w].mention].old = FALSE]
          /\ job' = [job EXCEPT ![w].at = "posting"]
      BY <1>4, <2>2 DEF BeginPost
    <3>2. job'[w].at = "posting" /\ job'[w].mention = job[w].mention /\ \A x \in Workers \ {w} : job'[x] = job[x]
      BY <1>0, <3>1 DEF Jobs
    <3>3. /\ delivery'[job[w].mention].state = "posting" /\ delivery'[job[w].mention].text = job[w].text
          /\ \A m \in Mentions \ {job[w].mention} : delivery'[m] = delivery[m]
      BY <1>0, <2>1, <3>1 DEF Deliveries
    <3>4. delivery[job[w].mention].state = "preparing"
      BY <2>2 DEF Holds, Row
    <3>5. Worded(w)
      BY <2>1, <3>2, <3>3, <3>4 DEF Worded
    <3> QED BY <2>1, <3>2, <3>5 DEF JobMoves
  <2>3. CASE ~Holds(w, "preparing")
    <3>1. job' = [job EXCEPT ![w] = IdleJob] /\ delivery' = delivery
      BY <1>4, <2>3 DEF BeginPost
    <3>2. job'[w].at = "idle" /\ \A x \in Workers \ {w} : job'[x] = job[x]
      BY <1>0, <3>1
    <3> QED BY <2>1, <3>1, <3>2 DEF JobMoves, RowMoves
  <2> QED BY <2>2, <2>3
<1>5. CASE Post(w)
  <2>1. /\ UNCHANGED <<feed, cursor, receipts, delivery, poll, chain, sent>> /\ job[w].at = "posting"
        /\ job' = [job EXCEPT ![w].at = "posted"]
    BY <1>5 DEF Post
  <2>2. job'[w].at = "posted" /\ job'[w].mention = job[w].mention /\ \A x \in Workers \ {w} : job'[x] = job[x]
    BY <1>0, <2>1 DEF Jobs
  <2> QED BY <2>1, <2>2 DEF JobMoves, RowMoves
<1>6. CASE FinishPost(w) \/ PreparationFails(w) \/ PostUnacknowledged(w)
  <2>1. /\ UNCHANGED <<feed, cursor, receipts, poll, chain, sent>> /\ job' = [job EXCEPT ![w] = IdleJob]
        /\ job[w].at # "idle" /\ (posts' # posts => job[w].at = "posting")
    BY <1>6 DEF FinishPost, PreparationFails, PostUnacknowledged
  <2>2. job'[w].at = "idle" /\ \A x \in Workers \ {w} : job'[x] = job[x]
    BY <1>0, <2>1
  <2>3. CASE Stopped(w, "failed") \/ Stopped(w, "unknown")
    BY <2>1, <2>2, <2>3, StoppedMoves DEF JobMoves
  <2>4. CASE /\ Holds(w, "posting")
             /\ delivery' = [delivery EXCEPT ![job[w].mention].state = "sent", ![job[w].mention].old = FALSE]
    <3>1. /\ delivery'[job[w].mention].state = "sent"
          /\ delivery'[job[w].mention].text = delivery[job[w].mention].text
          /\ \A m \in Mentions \ {job[w].mention} : delivery'[m] = delivery[m]
      BY <1>0, <2>1, <2>4 DEF Deliveries
    <3>2. delivery[job[w].mention].state = "posting"
      BY <2>4 DEF Holds, Row
    <3>3. \A m \in Mentions : RowMoves(m)
      BY <3>1, <3>2 DEF RowMoves, Started
    <3> QED BY <2>1, <2>2, <3>3 DEF JobMoves
  <2> QED BY <1>6, <2>3, <2>4 DEF FinishPost, PreparationFails, PostUnacknowledged
<1> QED BY <1>1, <1>2, <1>3, <1>4, <1>5, <1>6 DEF DeliveryStep

\* Outside a delivery step, no row but a claimed one changes, and a worker keeps what it holds or loses it.
LEMMA DeliveriesRest ==
  ASSUME Typed, PollStep \/ RelayWorld \/ CycleFails \/ ExecutionThrows \/ LaneThrows
                \/ (\E w \in Workers : Crash(w)) \/ (\E m \in Mentions : RecoverBlind(m))
  PROVE  /\ Claim \/ \A m \in Mentions : RowMoves(m)
         /\ \A x \in Workers : job'[x] = job[x] \/ job'[x].at = "idle"
         /\ posts' = posts
         /\ \A m \in Mentions : delivery'[m].text = delivery[m].text
<1>0. /\ job \in [Workers -> Jobs] /\ delivery \in [Mentions -> Deliveries] /\ IdleJob.at = "idle"
  BY DEF Typed, IdleJob
<1>1. posts' = posts /\ (job' = job \/ \E w \in Workers : job' = [job EXCEPT ![w] = IdleJob])
  <2>1. CASE PollStep
    BY <2>1 DEF PollStep, StartCycle, Recover, Fetch, EndCycle, SkipOwnReply, Claim, Refuse, Checkpoint,
                RecordIntent, MarkSent, NotSent, Send, Confirm, Save, PassCursor
  <2>2. CASE RelayWorld
    BY <2>2 DEF RelayWorld, Mention, OwnReply, Execute, ReceiptAges, DeliveryAges
  <2>3. CASE CycleFails \/ ExecutionThrows \/ LaneThrows \/ (\E w \in Workers : Crash(w))
             \/ (\E m \in Mentions : RecoverBlind(m))
    BY <2>3 DEF CycleFails, ExecutionThrows, LaneThrows, Crash, RecoverBlind
  <2> QED BY <2>1, <2>2, <2>3
<1>2. \A x \in Workers : job'[x] = job[x] \/ job'[x].at = "idle"
  BY <1>0, <1>1
<1>3. CASE Claim
  <2>1. \A m \in Mentions : delivery'[m].text = delivery[m].text
    BY <1>3, ClaimTakes
  <2> QED BY <1>1, <1>2, <1>3, <2>1
<1>4. ASSUME NEW m \in Mentions, DeliveryAges(m) PROVE \A n \in Mentions : RowMoves(n)
  <2>1. delivery' = [delivery EXCEPT ![m].old = TRUE] /\ delivery[m] \in Deliveries
    BY <1>0, <1>4 DEF DeliveryAges
  <2>2. delivery'[m] = [delivery[m] EXCEPT !.old = TRUE] /\ \A n \in Mentions \ {m} : delivery'[n] = delivery[n]
    BY <1>0, <2>1
  <2>3. delivery'[m].state = delivery[m].state /\ delivery'[m].text = delivery[m].text
    BY <2>1, <2>2 DEF Deliveries
  <2> QED BY <2>2, <2>3 DEF RowMoves
<1>5. CASE delivery' = delivery
  BY <1>1, <1>2, <1>5 DEF RowMoves
<1>6. Claim \/ delivery' = delivery \/ \E m \in Mentions : DeliveryAges(m)
  <2>1. CASE PollStep
    BY <2>1 DEF PollStep, StartCycle, Recover, Fetch, EndCycle, SkipOwnReply, Refuse, Checkpoint,
                RecordIntent, MarkSent, NotSent, Send, Confirm, Save, PassCursor
  <2>2. CASE RelayWorld
    BY <2>2 DEF RelayWorld, Mention, OwnReply, Execute, ReceiptAges
  <2>3. CASE CycleFails \/ ExecutionThrows \/ LaneThrows \/ (\E w \in Workers : Crash(w))
             \/ (\E m \in Mentions : RecoverBlind(m))
    BY <2>3 DEF CycleFails, ExecutionThrows, LaneThrows, Crash, RecoverBlind
  <2> QED BY <2>1, <2>2, <2>3
<1>7. CASE \E m \in Mentions : DeliveryAges(m)
  <2>1. \A n \in Mentions : RowMoves(n)
    BY <1>4, <1>7
  <2> QED BY <1>1, <1>2, <2>1 DEF RowMoves
<1> QED BY <1>3, <1>5, <1>6, <1>7

LEMMA HandPoll ==
  ASSUME Typed, HandInv, RelayNext
  PROVE  /\ poll'.at \in Executing \cup {"confirming", "answered"} => receipts'[poll'.mention].status = "submitted"
         /\ poll'.at = "recovering" => \A m \in poll'.due : receipts'[m].status \in OpenStatuses
         /\ poll'.at = "answered" => poll'.outcome \in Answers
<1> DEFINE Goal == /\ poll'.at \in Executing \cup {"confirming", "answered"} => receipts'[poll'.mention].status = "submitted"
                   /\ poll'.at = "recovering" => \A m \in poll'.due : receipts'[m].status \in OpenStatuses
                   /\ poll'.at = "answered" => poll'.outcome \in Answers
<1>0. /\ poll \in Polls /\ receipts \in [Mentions -> Receipts] /\ IdlePoll.at = "idle"
      /\ poll.due \subseteq Mentions
  BY DEF Typed, IdlePoll, Polls
<1>1. CASE StartCycle
  <2>1. poll'.at = "recovering" /\ poll'.due = {m \in Mentions : Candidate(receipts[m])} /\ receipts' = receipts
    BY <1>1 DEF StartCycle, IdlePoll
  <2>2. \A m \in poll'.due : receipts'[m].status \in OpenStatuses
    BY <2>1 DEF Candidate, OpenStatuses
  <2> QED BY <2>1, <2>2 DEF Executing
<1>2. ASSUME NEW n \in Mentions, Recover(n) \/ RecoverBlind(n) PROVE Goal
  <2>1. /\ poll'.at = "recovering" /\ poll'.due = poll.due \ {n}
        /\ \A m \in Mentions \ {n} : receipts'[m] = receipts[m]
    BY <1>2, RecoveryAnswers
  <2>2. poll.at = "recovering"
    BY <1>2 DEF Recover, RecoverBlind
  <2>3. \A m \in poll'.due : receipts'[m].status \in OpenStatuses
    BY <1>0, <2>1, <2>2 DEF HandInv
  <2> QED BY <2>1, <2>3 DEF Executing
<1>3. CASE Fetch \/ EndCycle \/ SkipOwnReply \/ PassCursor \/ Save
  <2>1. poll'.at \in {"idle", "next", "passing"}
    <3>1. CASE Fetch \/ EndCycle
      <4>1. poll' = IdlePoll \/ poll' = [poll EXCEPT !.at = "next", !.mention = cursor + 1, !.until = Len(feed)]
        BY <3>1 DEF Fetch, EndCycle
      <4> QED BY <1>0, <4>1 DEF Polls
    <3>2. CASE SkipOwnReply \/ PassCursor \/ Save
      BY <1>0, <3>2 DEF SkipOwnReply, PassCursor, Save, Polls
    <3> QED BY <1>3, <3>1, <3>2
  <2> QED BY <2>1 DEF Executing
<1>4. CASE Claim
  <2>1. /\ poll'.mention = poll.mention
        /\ poll'.at = "passing" \/ (poll'.at = "claimed" /\ receipts'[poll.mention].status = "submitted")
    BY <1>4, ClaimTakes
  <2> QED BY <2>1 DEF Executing
<1>5. CASE Refuse \/ NotSent \/ Confirm \/ ExecutionThrows \/ LaneThrows
  <2>1. PICK status \in Answers : poll' = [poll EXCEPT !.at = "answered", !.outcome = status]
    <3>1. CASE Refuse \/ NotSent \/ ExecutionThrows \/ LaneThrows
      BY <3>1 DEF Refuse, NotSent, ExecutionThrows, LaneThrows, Outcome, Answers
    <3>2. CASE Confirm
      <4>1. ASSUME chain[poll.mention] \in Landed PROVE Booked[chain[poll.mention]] \in Answers
        BY <4>1 DEF Booked, Landed, Answers, ResultStatuses
      <4> QED BY <3>2, <4>1 DEF Confirm, Outcome, Answers
    <3> QED BY <1>5, <3>1, <3>2
  <2>2. poll'.at = "answered" /\ poll'.outcome = status /\ poll'.mention = poll.mention
    BY <1>0, <2>1 DEF Polls
  <2>3. receipts' = receipts /\ poll.at \in Executing \cup {"confirming"}
    BY <1>5 DEF Refuse, NotSent, Confirm, ExecutionThrows, LaneThrows, Executing
  <2> QED BY <2>1, <2>2, <2>3 DEF HandInv, Executing
<1>6. CASE Checkpoint \/ RecordIntent \/ MarkSent \/ Send
  <2>1. poll.at \in Executing /\ poll.mention \in Mentions /\ poll'.mention = poll.mention
        /\ poll'.at \in Executing \cup {"confirming"}
    BY <1>0, <1>6, InHandType DEF Checkpoint, RecordIntent, MarkSent, Send, ReadyToSend, Executing, InHand, Polls
  <2>2. \A m \in Mentions : receipts'[m].status = receipts[m].status
    <3>1. Send => receipts' = receipts
      BY DEF Send
    <3> QED BY <1>6, <3>1, RowsKeepStatus
  <2> QED BY <2>1, <2>2 DEF HandInv, Executing
<1>7. CASE poll' \in {poll, IdlePoll} /\ \A m \in Mentions : receipts'[m].status = receipts[m].status
  <2>1. CASE poll' = poll
    <3>1. poll.at \in Executing \cup {"confirming", "answered"} => poll.mention \in Mentions
      BY InHandType DEF InHand
    <3> QED BY <1>0, <1>7, <2>1, <3>1 DEF HandInv
  <2>2. CASE poll' = IdlePoll
    BY <1>0, <2>2 DEF Executing
  <2> QED BY <1>7, <2>1, <2>2
<1>8. CASE RelayWorld
  <2>1. poll' = poll /\ (receipts' = receipts \/ \E n \in Mentions : ReceiptAges(n))
    BY <1>8 DEF RelayWorld, Mention, OwnReply, Execute, ReceiptAges, DeliveryAges
  <2>2. \A m \in Mentions : receipts'[m].status = receipts[m].status
    BY <2>1, RowsKeepStatus
  <2> QED BY <1>7, <2>1, <2>2
<1>9. CASE CycleFails \/ (\E w \in Workers : DeliveryStep(w) \/ Crash(w) \/ PreparationFails(w) \/ PostUnacknowledged(w))
  <2>1. poll' \in {poll, IdlePoll} /\ receipts' = receipts
    <3>1. CASE CycleFails \/ \E w \in Workers : Crash(w)
      BY <3>1 DEF CycleFails, Crash
    <3>2. CASE \E w \in Workers : DeliveryStep(w) \/ PreparationFails(w) \/ PostUnacknowledged(w)
      BY <3>2, DeliveryMoves
    <3> QED BY <1>9, <3>1, <3>2
  <2> QED BY <1>7, <2>1
<1>10. CASE PollStep
  BY <1>1, <1>2, <1>3, <1>4, <1>5, <1>6, <1>10 DEF PollStep
<1>11. CASE RelayFault
  BY <1>2, <1>5, <1>9, <1>11 DEF RelayFault
<1> QED BY <1>8, <1>9, <1>10, <1>11 DEF RelayNext

LEMMA HandInvStarts ==
  RelayInit => HandInv
<1>1. IdlePoll.at = "idle" /\ NoReceipt.hash = FALSE /\ NoDelivery.state = "none"
  BY DEF IdlePoll, NoReceipt, NoDelivery
<1> QED BY <1>1 DEF RelayInit, HandInv, Executing

\* A step of the delivery loop or of its faults, or one that leaves rows and workers alone.
LEMMA TwoKinds ==
  ASSUME RelayNext
  PROVE  \/ \E w \in Workers : DeliveryStep(w) \/ PreparationFails(w) \/ PostUnacknowledged(w)
         \/ PollStep \/ RelayWorld \/ CycleFails \/ ExecutionThrows \/ LaneThrows
            \/ (\E w \in Workers : Crash(w)) \/ (\E m \in Mentions : RecoverBlind(m))
BY DEF RelayNext, RelayFault

LEMMA HandInvHolds ==
  Typed /\ HandInv /\ [RelayNext]_relayVars => HandInv'
<1> SUFFICES ASSUME Typed, HandInv, [RelayNext]_relayVars PROVE HandInv'
  OBVIOUS
<1>1. CASE UNCHANGED relayVars
  BY <1>1 DEF HandInv, relayVars
<1>2. CASE RelayNext
  <2>1. ASSUME NEW m \in Mentions, receipts'[m].status = "none"
        PROVE  ~receipts'[m].hash /\ delivery'[m].state = "none"
    <3>1. receipts[m].status = "none"
      BY <1>2, <2>1, StatusSteps DEF StatusMoves, Answers, ResultStatuses
    <3>2. ~receipts[m].hash /\ delivery[m].state = "none"
      BY <3>1 DEF HandInv
    <3>3. receipts'[m].hash = receipts[m].hash
      <4>1. CASE Claim
        <5>1. m # poll.mention \/ receipts' = receipts
          BY <2>1, <4>1, ClaimTakes
        <5> QED BY <4>1, <5>1, ClaimTakes
      <4>2. CASE Save
        BY <4>2, <3>1, SaveAnswers
      <4>3. CASE Checkpoint \/ RecordIntent \/ MarkSent \/ \E n \in Mentions : ReceiptAges(n)
        <5>1. MarkSent => receipts[poll.mention].status = "submitted"
          BY DEF MarkSent, HandInv, Executing
        <5> QED BY <3>1, <4>3, <5>1, RowsKeepStatus
      <4>4. CASE \E n \in Mentions : Recover(n) \/ RecoverBlind(n)
        BY <4>4, RecoveryAnswers
      <4> QED BY <1>2, <4>1, <4>2, <4>3, <4>4, RowWriters
    <3>4. delivery'[m].state = "none"
      <4>1. CASE \E w \in Workers : DeliveryStep(w) \/ PreparationFails(w) \/ PostUnacknowledged(w)
        <5>1. PICK w \in Workers : DeliveryStep(w) \/ PreparationFails(w) \/ PostUnacknowledged(w)
          BY <4>1
        <5>2. CASE Worded(w)
          <6>1. m # job[w].mention
            BY <3>2, <5>2 DEF Worded
          <6> QED BY <3>2, <5>2, <6>1 DEF Worded
        <5>3. CASE RowMoves(m)
          BY <3>2, <5>3 DEF RowMoves
        <5> QED BY <5>1, <5>2, <5>3, DeliveryMoves
      <4>2. CASE Claim
        <5>1. m # poll.mention \/ delivery' = delivery
          BY <2>1, <4>2, ClaimTakes
        <5> QED BY <3>2, <4>2, <5>1, ClaimTakes
      <4>3. CASE RowMoves(m)
        BY <3>2, <4>3 DEF RowMoves
      <4> QED BY <1>2, <4>1, <4>2, <4>3, TwoKinds, DeliveriesRest
    <3> QED BY <3>2, <3>3, <3>4
  <2> QED BY <1>2, <2>1, HandPoll DEF HandInv
<1> QED BY <1>1, <1>2

-----------------------------------------------------------------------------
(* The words of a reply.                                                   *)

\* What the receipt says, or a doubt that was settled since.
FairWord(m, word) ==
  word = receipts[m].status \/ (word = "unknown" /\ receipts[m].status \in ResultStatuses)
Settled(m) == receipts[m].status \notin {"none", "submitted"}

WordInv ==
  /\ \A w \in Workers : job[w].at # "idle" => Settled(job[w].mention)
  /\ \A w \in Workers : job[w].at = "prepared" => FairWord(job[w].mention, job[w].text)
  /\ \A w \in Workers : job[w].at = "posting" => delivery[job[w].mention].text # "none"
  /\ \A m \in Mentions : delivery[m].state \notin Started => delivery[m].text = "none"

LEMMA SettledStays ==
  ASSUME NEW m \in Mentions, StatusMoves(m), Settled(m)
  PROVE  Settled(m)' /\ \A word : FairWord(m, word) => FairWord(m, word)'
BY DEF StatusMoves, Settled, FairWord, ResultStatuses

LEMMA WordInvStarts ==
  RelayInit => WordInv
<1>1. IdleJob.at = "idle" /\ NoDelivery.text = "none"
  BY DEF IdleJob, NoDelivery
<1> QED BY <1>1 DEF RelayInit, WordInv

LEMMA WordsOfRows ==
  ASSUME Typed, HandInv, WordInv, RelayNext
  PROVE  /\ \A m \in Mentions : delivery'[m].state \notin Started => delivery'[m].text = "none"
         /\ \A m \in Mentions : delivery[m].text # "none" => delivery'[m].text = delivery[m].text
<1>0. \A m \in Mentions : delivery[m].state \notin Started => delivery[m].text = "none"
  BY DEF WordInv
<1>1. ASSUME NEW w \in Workers, Worded(w)
      PROVE  /\ \A m \in Mentions : delivery'[m].state \notin Started => delivery'[m].text = "none"
             /\ \A m \in Mentions : delivery[m].text # "none" => delivery'[m].text = delivery[m].text
  <2>1. delivery[job[w].mention].state \notin Started /\ delivery'[job[w].mention].state \in Started
    BY <1>1 DEF Worded, Started
  <2>2. job[w].mention \in Mentions
    BY <1>1 DEF Typed, Worded
  <2> QED BY <1>0, <1>1, <2>1, <2>2 DEF Worded
<1>2. CASE \A m \in Mentions : RowMoves(m)
  BY <1>0, <1>2 DEF RowMoves
<1>3. CASE Claim
  <2>1. /\ \A m \in Mentions \ {poll.mention} : delivery'[m] = delivery[m]
        /\ poll.mention \in Mentions /\ delivery'[poll.mention].text = delivery[poll.mention].text
        /\ delivery[poll.mention].state # "none" => delivery'[poll.mention] = delivery[poll.mention]
    BY <1>3, ClaimTakes
  <2>2. delivery[poll.mention].state = "none" => delivery[poll.mention].text = "none"
    BY <1>0, <2>1 DEF Started
  <2> QED BY <1>0, <2>1, <2>2
<1> QED BY <1>1, <1>2, <1>3, TwoKinds, DeliveryMoves, DeliveriesRest

LEMMA WordInvHolds ==
  Typed /\ HandInv /\ WordInv /\ [RelayNext]_relayVars => WordInv'
<1> SUFFICES ASSUME Typed, HandInv, WordInv, [RelayNext]_relayVars PROVE WordInv'
  OBVIOUS
<1>1. CASE UNCHANGED relayVars
  BY <1>1 DEF WordInv, Settled, FairWord, relayVars
<1>2. CASE RelayNext
  <2>1. \A m \in Mentions : StatusMoves(m)
    BY <1>2, StatusSteps
  <2>2. \A x \in Workers : JobMoves(x)
    <3>1. CASE \E w \in Workers : DeliveryStep(w) \/ PreparationFails(w) \/ PostUnacknowledged(w)
      <4>1. PICK w \in Workers : DeliveryStep(w) \/ PreparationFails(w) \/ PostUnacknowledged(w)
        BY <3>1
      <4>2. JobMoves(w) /\ \A x \in Workers \ {w} : job'[x] = job[x]
        BY <4>1, DeliveryMoves
      <4> QED BY <4>2 DEF JobMoves
    <3>2. CASE \A x \in Workers : job'[x] = job[x] \/ job'[x].at = "idle"
      BY <3>2 DEF JobMoves
    <3> QED BY <1>2, <3>1, <3>2, TwoKinds, DeliveriesRest
  <2>3. ASSUME NEW x \in Workers
        PROVE  /\ job'[x].at # "idle" => receipts'[job'[x].mention].status \notin {"none", "submitted"}
               /\ job'[x].at = "prepared" =>
                    \/ job'[x].text = receipts'[job'[x].mention].status
                    \/ job'[x].text = "unknown" /\ receipts'[job'[x].mention].status \in ResultStatuses
               /\ job'[x].at = "posting" => delivery'[job'[x].mention].text # "none"
    <3> DEFINE m == job[x].mention
               n == job'[x].mention
    <3>0. job[x].at # "idle" => m \in Mentions /\ Settled(m)
      BY DEF Typed, WordInv
    <3>1. CASE job'[x].at = "idle"
      BY <3>1
    <3>2. CASE job'[x] = job[x]
      <4>1. ASSUME job[x].at # "idle"
            PROVE  /\ receipts'[m].status \notin {"none", "submitted"}
                   /\ job[x].at = "prepared" => \/ job[x].text = receipts'[m].status
                                                \/ job[x].text = "unknown" /\ receipts'[m].status \in ResultStatuses
        <5>1. StatusMoves(m) /\ Settled(m) /\ (job[x].at = "prepared" => FairWord(m, job[x].text))
          BY <2>1, <3>0, <4>1 DEF WordInv
        <5> QED BY <5>1 DEF StatusMoves, Settled, FairWord, ResultStatuses
      <4>2. job[x].at = "posting" => delivery'[m].text # "none"
        BY <1>2, <3>0, WordsOfRows DEF WordInv
      <4> QED BY <3>2, <4>1, <4>2
    <3>3. CASE /\ receipts' = receipts /\ job'[x].at = "acquired"
               /\ job'[x].mention \in Mentions /\ Acquirable(job'[x].mention)
      <4>1. receipts[n].status # "submitted" /\ delivery[n].state # "none"
        BY <3>3 DEF Acquirable
      <4>2. receipts[n].status # "none"
        BY <3>3, <4>1 DEF HandInv
      <4> QED BY <3>3, <4>1, <4>2
    <3>4. CASE /\ receipts' = receipts /\ job[x].at # "idle" /\ job'[x].mention = job[x].mention
               /\ job'[x].at = "prepared" /\ job'[x].text = receipts[job[x].mention].status
      BY <3>0, <3>4 DEF Settled, FairWord
    <3>5. CASE Worded(x)
      <4>1. /\ receipts' = receipts /\ job[x].at = "prepared" /\ job'[x].at = "posting"
            /\ job'[x].mention = m /\ delivery'[m].text = job[x].text
        BY <3>5 DEF Worded
      <4>2. Settled(m) /\ FairWord(m, job[x].text)
        BY <4>1 DEF WordInv
      <4>3. job[x].text # "none"
        BY <4>2 DEF Settled, FairWord
      <4> QED BY <4>1, <4>2, <4>3 DEF Settled
    <3>6. CASE job[x].at # "idle" /\ job'[x].at = "posted" /\ job'[x].mention = job[x].mention
      <4>1. receipts'[m].status \notin {"none", "submitted"}
        BY <2>1, <3>0, <3>6 DEF StatusMoves, Settled, ResultStatuses
      <4> QED BY <3>6, <4>1
    <3> QED BY <2>2, <3>1, <3>2, <3>3, <3>4, <3>5, <3>6 DEF JobMoves
  <2>4. \A y \in Mentions : delivery'[y].state \notin Started => delivery'[y].text = "none"
    BY <1>2, WordsOfRows
  <2> QED BY <2>3, <2>4 DEF WordInv, Settled, FairWord
<1> QED BY <1>1, <1>2

-----------------------------------------------------------------------------
(* The refinement of Errand.                                               *)

Asked(m) == m \in DOMAIN feed /\ feed[m] = "command"
Recorded(m) == receipts[m].hash /\ receipts[m].target

Unmoved(m) ==
  /\ Asked(m)' = Asked(m) /\ Recorded(m)' = Recorded(m)
  /\ receipts'[m].status = receipts[m].status
  /\ sent'[m] = sent[m] /\ chain'[m] = chain[m]
  /\ delivery'[m].text = delivery[m].text /\ posts'[m] = posts[m]

ErrandMoves(m) == [Contract(m)!Next]_(Contract(m)!vars)
AllErrandsMove == \A m \in Mentions : [Contract(m)!Next]_(Contract(m)!vars)

LEMMA UnmovedStutters ==
  ASSUME NEW m \in Mentions, Unmoved(m)
  PROVE  ErrandMoves(m)
BY DEF Unmoved, Asked, Recorded, ErrandMoves, Contract!vars

\* One errand moves, the others stutter.
LEMMA OneErrandMoves ==
  ASSUME NEW n \in Mentions, ErrandMoves(n), \A m \in Mentions \ {n} : Unmoved(m)
  PROVE  AllErrandsMove
<1>1. ASSUME NEW m \in Mentions PROVE ErrandMoves(m)
  BY UnmovedStutters
<1> QED BY <1>1 DEF ErrandMoves, AllErrandsMove

LEMMA NoErrandMoves ==
  ASSUME \A m \in Mentions : Unmoved(m)
  PROVE  AllErrandsMove
<1>1. ASSUME NEW m \in Mentions PROVE ErrandMoves(m)
  BY UnmovedStutters
<1> QED BY <1>1 DEF ErrandMoves, AllErrandsMove

\* A mention appended to the feed was not asked before; no other is.
LEMMA FeedGrows ==
  ASSUME Typed, Mention \/ OwnReply
  PROVE  AllErrandsMove
<1>0. feed \in Seq({"command", "reply"}) /\ Len(feed) \in Nat /\ DOMAIN feed = 1..Len(feed)
  BY DEF Typed
<1>1. PICK kind \in {"command", "reply"} : feed' = Append(feed, kind)
  BY DEF Mention, OwnReply
<1>2. UNCHANGED <<receipts, delivery, chain, sent, posts>> /\ Len(feed) < MaxMentions
  BY DEF Mention, OwnReply
<1>3. PICK n \in Mentions : n = Len(feed) + 1
  BY <1>0, <1>2, RelayAssumption DEF Mentions
<1>4. /\ DOMAIN feed' = 1..n /\ feed'[n] = kind
      /\ \A k \in DOMAIN feed : feed'[k] = feed[k]
  BY <1>0, <1>1, <1>3
<1>5. \A m \in Mentions \ {n} : m \in DOMAIN feed' <=> m \in DOMAIN feed
  BY <1>0, <1>4, <1>3, RelayAssumption DEF Mentions
<1>6. \A m \in Mentions \ {n} : Asked(m)' <=> Asked(m)
  BY <1>0, <1>4, <1>5 DEF Asked
<1>7. \A m \in Mentions \ {n} : Unmoved(m)
  BY <1>2, <1>6 DEF Unmoved, Asked, Recorded
<1>8. ~Asked(n)
  BY <1>0, <1>3 DEF Asked
<1>9. ErrandMoves(n)
  <2>1. CASE kind = "command"
    <3>1. Asked(n)' = TRUE /\ Asked(n) = FALSE
      <4>1. n \in DOMAIN feed'
        BY <1>0, <1>4, <1>3
      <4> QED BY <1>4, <1>8, <2>1, <4>1 DEF Asked
    <3>2. Contract(n)!Ask
      BY <1>2, <3>1 DEF Contract!Ask, Asked
    <3> QED BY <3>2 DEF ErrandMoves, Contract!Next
  <2>2. CASE kind = "reply"
    <3>1. Asked(n)' = FALSE /\ Asked(n) = FALSE
      BY <1>4, <1>8, <2>2 DEF Asked
    <3>2. Unmoved(n)
      BY <1>2, <3>1 DEF Unmoved, Recorded
    <3> QED BY <1>3, <3>2, UnmovedStutters
  <2> QED BY <2>1, <2>2
<1> QED BY <1>3, <1>7, <1>9, OneErrandMoves

LEMMA ExecuteLands ==
  ASSUME Typed, NEW n \in Mentions, Execute(n)
  PROVE  AllErrandsMove
<1>1. PICK fate \in Landed \cup {"expired"} : chain' = [chain EXCEPT ![n] = fate]
  BY DEF Execute
<1>2. chain[n] = "inflight" /\ UNCHANGED <<feed, receipts, delivery, sent, posts>>
  BY DEF Execute
<1>3. chain'[n] = fate /\ \A m \in Mentions \ {n} : chain'[m] = chain[m]
  BY <1>1 DEF Typed
<1>4. \A m \in Mentions \ {n} : Unmoved(m)
  BY <1>2, <1>3 DEF Unmoved, Asked, Recorded
<1>5. fate \in {"filled", "nofill", "failed", "expired"}
  BY DEF Landed
<1>6. Contract(n)!Land
  BY <1>2, <1>3, <1>5 DEF Contract!Land, Contract!Fates
<1> QED BY <1>4, <1>6, OneErrandMoves DEF ErrandMoves, Contract!Next

LEMMA SendSends ==
  ASSUME Typed, OrderInv, HandInv, Send
  PROVE  AllErrandsMove
<1>0. poll.mention \in Mentions /\ poll.at = "signed" /\ UNCHANGED <<feed, receipts, delivery, posts>>
  BY InHandType DEF Send, ReadyToSend, InHand, Executing
<1>1. PICK n \in Mentions : n = poll.mention
  BY <1>0
<1>2. receipts[n].status = "submitted" /\ sent[n] = 0 /\ receipts[n].hash /\ receipts[n].target
  BY <1>0, <1>1 DEF HandInv, OrderInv, Claimed, Executing
<1>3. chain[n] = "none"
  BY <1>1, <1>2 DEF OrderInv, Accounted
<1>4. /\ sent'[n] = 1 /\ chain'[n] = "inflight"
      /\ \A m \in Mentions \ {n} : sent'[m] = sent[m] /\ chain'[m] = chain[m]
  BY <1>1, <1>2 DEF Send, Typed
<1>5. \A m \in Mentions \ {n} : Unmoved(m)
  BY <1>0, <1>4 DEF Unmoved, Asked, Recorded
<1>6. Contract(n)!Send
  BY <1>0, <1>2, <1>3, <1>4 DEF Contract!Send
<1>7. ErrandMoves(n)
  BY <1>6 DEF ErrandMoves, Contract!Next
<1> QED BY <1>1, <1>5, <1>7, OneErrandMoves

LEMMA ClaimIsTaken ==
  ASSUME Typed, HandInv, Claim
  PROVE  AllErrandsMove
<1>0. PICK n \in Mentions : n = poll.mention
  BY ClaimTakes
<1>1. /\ Asked(n) /\ UNCHANGED <<feed, chain, sent, posts>>
      /\ \A m \in Mentions \ {n} : receipts'[m] = receipts[m] /\ delivery'[m] = delivery[m]
      /\ delivery'[n].text = delivery[n].text
  BY <1>0, ClaimTakes DEF Claim, Asked
<1>2. \A m \in Mentions \ {n} : Unmoved(m)
  BY <1>1 DEF Unmoved, Asked, Recorded
<1>3. CASE receipts' = receipts
  <2>1. Unmoved(n)
    BY <1>1, <1>3 DEF Unmoved, Asked, Recorded
  <2> QED BY <1>1, <1>2, <2>1, UnmovedStutters, OneErrandMoves
<1>4. CASE receipts[n].status = "none" /\ receipts'[n] = [NoReceipt EXCEPT !.status = "submitted"]
  <2>1. ~receipts[n].hash
    BY <1>1, <1>4 DEF HandInv
  <2>2. receipts'[n].status = "submitted" /\ ~receipts'[n].hash
    BY <1>4 DEF NoReceipt
  <2>3. Recorded(n)' = Recorded(n)
    BY <2>1, <2>2 DEF Recorded
  <2>4. Contract(n)!Take
    BY <1>1, <1>4, <2>2, <2>3 DEF Contract!Take, Asked, Recorded
  <2>5. ErrandMoves(n)
    BY <2>4 DEF ErrandMoves, Contract!Next
  <2> QED BY <1>1, <1>2, <2>5, OneErrandMoves
<1> QED BY <1>0, <1>3, <1>4, ClaimTakes

\* An answer takes its place on a receipt that was open, and is what the chain did or says nothing of it.
LEMMA AnswerMoves ==
  ASSUME NEW n \in Mentions, StatusMoves(n), receipts[n].status # "none", TrueAfter(n, receipts'[n].status),
         UNCHANGED <<feed, delivery, chain, sent, posts>>,
         receipts'[n].hash = receipts[n].hash, receipts'[n].target = receipts[n].target,
         \A m \in Mentions \ {n} : receipts'[m] = receipts[m]
  PROVE  AllErrandsMove
<1>1. \A m \in Mentions \ {n} : Unmoved(m)
  BY DEF Unmoved, Asked, Recorded
<1>2. Recorded(n)' = Recorded(n) /\ Asked(n)' = Asked(n)
  BY DEF Recorded, Asked
<1>3. CASE receipts'[n].status = receipts[n].status
  <2>1. Unmoved(n)
    BY <1>2, <1>3 DEF Unmoved
  <2> QED BY <1>1, <2>1, UnmovedStutters, OneErrandMoves
<1>4. CASE receipts'[n].status # receipts[n].status
  <2>1. /\ receipts'[n].status \in ResultStatuses => receipts'[n].status \in Contract(n)!ResultsOf(chain[n])
        /\ receipts[n].status \in Contract(n)!Open
    <3>1. receipts[n].status \in {"submitted", "unknown"}
      BY <1>4 DEF StatusMoves
    <3>2. receipts'[n].status = "filled" => chain[n] = "filled"
      BY DEF TrueAfter
    <3>3. receipts'[n].status \in {"nothing-filled", "reverted"} => chain[n] \in {"nofill", "failed"}
      BY DEF TrueAfter
    <3> QED BY <3>1, <3>2, <3>3 DEF ResultStatuses, Contract!ResultsOf, Contract!Open
  <2>2. \/ receipts'[n].status \in {"unknown"} \cup Contract(n)!ResultsOf(chain[n])
        \/ receipts[n].status = "submitted" /\ receipts'[n].status = "refused"
    BY <1>4, <2>1 DEF StatusMoves, Answers
  <2>3. Contract(n)!Answer
    BY <1>2, <2>1, <2>2 DEF Contract!Answer, Recorded, Asked
  <2>4. ErrandMoves(n)
    BY <2>3 DEF ErrandMoves, Contract!Next
  <2> QED BY <1>1, <2>4, OneErrandMoves
<1> QED BY <1>3, <1>4

LEMMA AnswersGiven ==
  ASSUME Typed, OrderInv, ResultInv, HandInv, RelayNext,
         Save \/ \E n \in Mentions : Recover(n) \/ RecoverBlind(n)
  PROVE  AllErrandsMove
<1>1. \A m \in Mentions : StatusMoves(m) /\ TrueAfter(m, receipts'[m].status)
  BY StatusSteps, ChainStays, ReceiptTruth
<1>2. UNCHANGED <<feed, delivery, chain, sent, posts>>
  BY DEF Save, Recover, RecoverBlind
<1>3. CASE Save
  <2> DEFINE n == poll.mention
  <2>1. /\ n \in Mentions /\ receipts[n].status = "submitted"
        /\ receipts'[n].hash = receipts[n].hash /\ receipts'[n].target = receipts[n].target
        /\ \A m \in Mentions \ {n} : receipts'[m] = receipts[m]
    BY <1>3, SaveAnswers
  <2> QED BY <1>1, <1>2, <2>1, AnswerMoves
<1>4. ASSUME NEW n \in Mentions, Recover(n) \/ RecoverBlind(n) PROVE AllErrandsMove
  <2>1. /\ receipts[n].status \in OpenStatuses
        /\ receipts'[n].hash = receipts[n].hash /\ receipts'[n].target = receipts[n].target
        /\ \A m \in Mentions \ {n} : receipts'[m] = receipts[m]
    BY <1>4, RecoveryAnswers
  <2>2. receipts[n].status # "none"
    BY <2>1 DEF OpenStatuses
  <2> QED BY <1>1, <1>2, <2>1, <2>2, AnswerMoves
<1> QED BY <1>3, <1>4

\* The target, then the hash, goes on record while the receipt is the poll loop's to answer.
LEMMA RowsRecorded ==
  ASSUME Typed, HandInv, Checkpoint \/ RecordIntent \/ MarkSent \/ \E n \in Mentions : ReceiptAges(n)
  PROVE  AllErrandsMove
<1>0. receipts \in [Mentions -> Receipts]
  BY DEF Typed
<1>1. UNCHANGED <<feed, delivery, chain, sent, posts>>
  BY DEF Checkpoint, RecordIntent, MarkSent, ReceiptAges
<1>2. \A m \in Mentions : receipts'[m].status = receipts[m].status
  BY RowsKeepStatus
<1>3. CASE \A m \in Mentions : receipts'[m].hash = receipts[m].hash /\ receipts'[m].target = receipts[m].target
  <2>1. \A m \in Mentions : Unmoved(m)
    BY <1>1, <1>2, <1>3 DEF Unmoved, Asked, Recorded
  <2> QED BY <2>1, NoErrandMoves
<1>4. CASE RecordIntent \/ \E n \in Mentions : ReceiptAges(n)
  <2>1. \A m \in Mentions : receipts'[m].hash = receipts[m].hash /\ receipts'[m].target = receipts[m].target
    <3>1. CASE RecordIntent
      BY <1>0, <3>1 DEF RecordIntent, Receipts
    <3>2. ASSUME NEW n \in Mentions, ReceiptAges(n)
          PROVE  \A m \in Mentions : receipts'[m].hash = receipts[m].hash /\ receipts'[m].target = receipts[m].target
      BY <1>0, <3>2 DEF ReceiptAges, Receipts
    <3> QED BY <1>4, <3>1, <3>2
  <2> QED BY <1>3, <2>1
<1>5. CASE Checkpoint \/ MarkSent
  <2>0. poll.mention \in Mentions /\ receipts[poll.mention].status = "submitted"
    BY <1>5, InHandType DEF Checkpoint, MarkSent, InHand, Executing, HandInv
  <2>1. PICK n \in Mentions : n = poll.mention /\ receipts[n].status = "submitted"
    BY <2>0
  <2>2. /\ \A m \in Mentions \ {n} : receipts'[m] = receipts[m]
        /\ receipts[n].hash => receipts'[n].hash
        /\ receipts[n].target => receipts'[n].target
    <3>1. CASE Checkpoint
      BY <1>0, <2>1, <3>1 DEF Checkpoint, Receipts
    <3>2. CASE MarkSent
      BY <1>0, <2>1, <3>2 DEF MarkSent, Receipts
    <3> QED BY <1>5, <3>1, <3>2
  <2>3. \A m \in Mentions \ {n} : Unmoved(m)
    BY <1>1, <2>2 DEF Unmoved, Asked, Recorded
  <2>4. ErrandMoves(n)
    <3>1. CASE Recorded(n)' <=> Recorded(n)
      <4>1. Unmoved(n)
        BY <1>1, <1>2, <2>1, <3>1 DEF Unmoved, Asked, Recorded
      <4> QED BY <2>1, <4>1, UnmovedStutters
    <3>2. CASE ~(Recorded(n)' <=> Recorded(n))
      <4>1. Recorded(n)'
        BY <2>2, <3>2 DEF Recorded
      <4>2. Contract(n)!Record
        BY <1>1, <1>2, <2>1, <4>1 DEF Contract!Record, Recorded, Asked
      <4> QED BY <4>2 DEF ErrandMoves, Contract!Next
    <3> QED BY <3>1, <3>2
  <2> QED BY <2>1, <2>3, <2>4, OneErrandMoves
<1> QED BY <1>4, <1>5

\* A worker words a reply or publishes one.
LEMMA DeliverySays ==
  ASSUME Typed, ReplyInv, WordInv, NEW w \in Workers,
         DeliveryStep(w) \/ PreparationFails(w) \/ PostUnacknowledged(w)
  PROVE  AllErrandsMove
<1>0. /\ UNCHANGED <<feed, cursor, receipts, poll, chain, sent>>
      /\ Worded(w) \/ \A m \in Mentions : RowMoves(m)
  BY DeliveryMoves
<1>1. CASE Worded(w)
  <2>0. job[w].at = "prepared" /\ job[w].mention \in Mentions
    BY <1>1 DEF Worded, Typed
  <2>1. PICK n \in Mentions : n = job[w].mention
    BY <2>0
  <2>2. /\ posts' = posts /\ delivery[n].state = "preparing" /\ delivery'[n].text = job[w].text
        /\ \A m \in Mentions \ {n} : delivery'[m] = delivery[m]
    BY <1>1, <2>1 DEF Worded
  <2>3. delivery[n].text = "none" /\ Settled(n) /\ FairWord(n, job[w].text)
    BY <2>0, <2>1, <2>2 DEF WordInv, Started
  <2>4. \/ delivery'[n].text = receipts[n].status
        \/ delivery'[n].text = "unknown" /\ receipts[n].status # "refused"
    BY <2>2, <2>3 DEF FairWord, ResultStatuses
  <2>5. Contract(n)!Say
    BY <1>0, <2>2, <2>3, <2>4 DEF Contract!Say, Settled
  <2>6. \A m \in Mentions \ {n} : Unmoved(m)
    BY <1>0, <2>2 DEF Unmoved, Asked, Recorded
  <2>7. ErrandMoves(n)
    BY <2>5 DEF ErrandMoves, Contract!Next
  <2> QED BY <2>6, <2>7, OneErrandMoves
<1>2. CASE \A m \in Mentions : RowMoves(m)
  <2>1. \A m \in Mentions : delivery'[m].text = delivery[m].text
    BY <1>2 DEF RowMoves
  <2>2. CASE posts' = posts
    <3>1. \A m \in Mentions : Unmoved(m)
      BY <1>0, <2>1, <2>2 DEF Unmoved, Asked, Recorded
    <3> QED BY <3>1, NoErrandMoves
  <2>3. CASE posts' # posts
    <3>0. job[w].at = "posting"
      BY <2>3, DeliveryMoves
    <3>1. PICK n \in Mentions : n = job[w].mention
      BY <3>0 DEF Typed
    <3>2. posts' = [posts EXCEPT ![n] = posts[n] + 1]
      <4>1. Post(w) \/ PostUnacknowledged(w)
        BY <2>3 DEF DeliveryStep, MarkInterrupted, Acquire, Prepare, BeginPost, FinishPost, PreparationFails
      <4> QED BY <2>3, <3>1, <4>1 DEF Post, PostUnacknowledged
    <3>3. posts[n] = 0 /\ delivery[n].text # "none"
      BY <3>0, <3>1 DEF ReplyInv, WordInv
    <3>4. posts'[n] = 1 /\ \A m \in Mentions \ {n} : posts'[m] = posts[m]
      BY <3>2, <3>3 DEF Typed
    <3>5. Contract(n)!Reply
      BY <1>0, <2>1, <3>3, <3>4 DEF Contract!Reply
    <3>6. \A m \in Mentions \ {n} : Unmoved(m)
      BY <1>0, <2>1, <3>4 DEF Unmoved, Asked, Recorded
    <3>7. ErrandMoves(n)
      BY <3>5 DEF ErrandMoves, Contract!Next
    <3> QED BY <3>6, <3>7, OneErrandMoves
  <2> QED BY <2>2, <2>3
<1> QED BY <1>0, <1>1, <1>2

\* Every other step is the loop's own.
LEMMA QuietErrands ==
  ASSUME Typed,
         \/ StartCycle \/ Fetch \/ EndCycle \/ SkipOwnReply \/ Refuse \/ NotSent \/ Confirm \/ PassCursor
         \/ CycleFails \/ ExecutionThrows \/ LaneThrows
         \/ (\E w \in Workers : Crash(w)) \/ (\E m \in Mentions : DeliveryAges(m))
         \/ UNCHANGED relayVars
  PROVE  AllErrandsMove
<1>1. UNCHANGED <<feed, receipts, chain, sent, posts>>
  BY DEF StartCycle, Fetch, EndCycle, SkipOwnReply, Refuse, NotSent, Confirm, PassCursor, CycleFails,
         ExecutionThrows, LaneThrows, Crash, DeliveryAges, relayVars
<1>2. \A m \in Mentions : delivery'[m].text = delivery[m].text
  <2>1. CASE UNCHANGED relayVars
    BY <2>1 DEF relayVars
  <2>2. CASE ~UNCHANGED relayVars
    BY <2>2, DeliveriesRest DEF PollStep, RelayWorld
  <2> QED BY <2>1, <2>2
<1>3. \A m \in Mentions : Unmoved(m)
  BY <1>1, <1>2 DEF Unmoved, Asked, Recorded
<1> QED BY <1>3, NoErrandMoves

LEMMA ErrandsStart ==
  RelayInit => \A m \in Mentions : Contract(m)!Init
<1> SUFFICES ASSUME RelayInit, NEW m \in Mentions PROVE Contract(m)!Init
  OBVIOUS
<1>1. /\ feed = <<>> /\ receipts[m] = NoReceipt /\ delivery[m] = NoDelivery
      /\ chain[m] = "none" /\ sent[m] = 0 /\ posts[m] = 0
  BY DEF RelayInit
<1>2. ~(m \in DOMAIN feed)
  BY <1>1
<1>3. receipts[m].status = "none" /\ receipts[m].hash = FALSE /\ delivery[m].text = "none"
  BY <1>1 DEF NoReceipt, NoDelivery
<1> QED BY <1>1, <1>2, <1>3 DEF Contract!Init

LEMMA ErrandsMove ==
  ASSUME Typed, OrderInv, ReplyInv, ResultInv, HandInv, WordInv, [RelayNext]_relayVars
  PROVE  AllErrandsMove
<1>1. CASE UNCHANGED relayVars
  BY <1>1, QuietErrands
<1>2. CASE RelayNext
  <2>1. CASE PollStep
    <3>1. CASE StartCycle \/ Fetch \/ EndCycle \/ SkipOwnReply \/ Refuse \/ NotSent \/ Confirm \/ PassCursor
      BY <3>1, QuietErrands
    <3>2. CASE Save \/ \E m \in Mentions : Recover(m)
      BY <1>2, <3>2, AnswersGiven
    <3>3. CASE Checkpoint \/ RecordIntent \/ MarkSent
      BY <3>3, RowsRecorded
    <3> QED BY <2>1, <3>1, <3>2, <3>3, ClaimIsTaken, SendSends DEF PollStep
  <2>2. CASE RelayWorld
    BY <2>2, FeedGrows, ExecuteLands, RowsRecorded, QuietErrands DEF RelayWorld
  <2>3. CASE \E w \in Workers : DeliveryStep(w)
    BY <2>3, DeliverySays
  <2>4. CASE RelayFault
    <3>1. CASE \E w \in Workers : PreparationFails(w) \/ PostUnacknowledged(w)
      BY <3>1, DeliverySays
    <3>2. CASE \E m \in Mentions : RecoverBlind(m)
      BY <1>2, <3>2, AnswersGiven
    <3>3. CASE CycleFails \/ ExecutionThrows \/ LaneThrows \/ \E w \in Workers : Crash(w)
      BY <3>3, QuietErrands
    <3> QED BY <2>4, <3>1, <3>2, <3>3 DEF RelayFault
  <2> QED BY <1>2, <2>1, <2>2, <2>3, <2>4 DEF RelayNext
<1> QED BY <1>1, <1>2

\* Every mention is the errand its user may count on, for every number of mentions, workers and faults:
\* an answer on its receipt is never taken back, an order never leaves after a refusal or unrecorded,
\* and its one reply says what the receipt said.
THEOREM RelayKeepsErrand == RelaySpec => KeepsErrand
<1> DEFINE Inv == Typed /\ OrderInv /\ ReplyInv /\ ResultInv
<1>1. RelayInit => HandInv /\ WordInv
  BY HandInvStarts, WordInvStarts
<1>2. Typed /\ HandInv /\ WordInv /\ [RelayNext]_relayVars => (HandInv /\ WordInv)'
  BY HandInvHolds, WordInvHolds
<1>3. RelaySpec => [](Inv /\ HandInv /\ WordInv)
  BY <1>1, <1>2, RelayInvariants, PTL DEF RelaySpec
<1>4. Inv /\ HandInv /\ WordInv /\ [RelayNext]_relayVars
        => \A m \in Mentions : [Contract(m)!Next]_(Contract(m)!vars)
  BY ErrandsMove DEF AllErrandsMove
<1> QED BY <1>3, <1>4, ErrandsStart, PTL DEF RelaySpec, KeepsErrand

=============================================================================
