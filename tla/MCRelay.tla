------------------------------ MODULE MCRelay ------------------------------
(***************************************************************************)
(* One instance of Relay.  Either two instructions are executed and nobody *)
(* delivers replies, or one instruction is answered by two workers and the *)
(* answer shows up as a mention.                                           *)
(***************************************************************************)
EXTENDS Relay, TLC

CONSTANTS w1, w2

OneCommand == \A k \in DOMAIN feed : k = 1 \/ feed[k] = "reply"
NothingDelivered == \A m \in Mentions : delivery[m].state \in {"none", "pending"}

MCNext ==
  \/ PollStep
  \/ \E w \in {v \in Workers : OneCommand} : DeliveryStep(w)
  \/ NothingDelivered /\ Mention
  \/ OwnReply
  \/ \E m \in Mentions : Execute(m) \/ ReceiptAges(m) \/ DeliveryAges(m)
  \/ RelayFault

\* Timers start both loops again and again, transactions land or expire, time passes, and faults are
\* finitely many.
MCFairness ==
  /\ WF_relayVars(PollStep)
  /\ \A w \in Workers : WF_relayVars(OneCommand /\ DeliveryStep(w))
  /\ \A m \in Mentions : WF_relayVars(Execute(m)) /\ WF_relayVars(ReceiptAges(m))

MCSpec == RelayInit /\ [][MCNext]_relayVars /\ MCFairness
============================================================================
