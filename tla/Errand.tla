------------------------------- MODULE Errand -------------------------------
(***************************************************************************)
(* One instruction posted on X, as the user who posted it may count on it. *)
(* It is taken up at most once and sent at most once, after all that finds *)
(* it again is on record.  Its receipt is open until it names what the     *)
(* chain did, or refuses; either is final.  A refused errand is not sent   *)
(* any more, though it may be on its way already.  One reply is worded,    *)
(* from the receipt, and published at most once: what it says is final, or *)
(* says that nothing is known.                                             *)
(*                                                                         *)
(* Relay implements this for each of its mentions.                         *)
(***************************************************************************)
EXTENDS Integers

VARIABLES
  asked,      \* the mention is in the feed, and not one of the relay's own replies
  status,     \* of its receipt
  recorded,   \* the receipt holds the order's hash and target
  sent,       \* transactions handed to the network
  order,      \* what became of the order on chain
  said,       \* the text of the reply, as the receipt's status it was made from
  replies     \* published

vars == <<asked, status, recorded, sent, order, said, replies>>

Open == {"submitted", "unknown"}
Fates == {"filled", "nofill", "failed", "expired"}

\* The results a receipt may name once the order has met its fate.
ResultsOf(fate) ==
  IF fate = "filled" THEN {"filled"}
  ELSE IF fate \in {"nofill", "failed"} THEN {"nothing-filled", "reverted"} ELSE {}

Init ==
  /\ asked = FALSE /\ status = "none" /\ recorded = FALSE /\ sent = 0
  /\ order = "none" /\ said = "none" /\ replies = 0

Ask ==
  /\ ~asked /\ asked' = TRUE
  /\ UNCHANGED <<status, recorded, sent, order, said, replies>>

Take ==
  /\ asked /\ status = "none"
  /\ status' = "submitted"
  /\ UNCHANGED <<asked, recorded, sent, order, said, replies>>

Record ==
  /\ status = "submitted"
  /\ recorded' = TRUE
  /\ UNCHANGED <<asked, status, sent, order, said, replies>>

Send ==
  /\ status = "submitted" /\ recorded
  /\ order = "none" /\ sent = 0
  /\ order' = "inflight" /\ sent' = 1
  /\ UNCHANGED <<asked, status, recorded, said, replies>>

Land ==
  /\ order = "inflight"
  /\ order' \in Fates
  /\ UNCHANGED <<asked, status, recorded, sent, said, replies>>

Answer ==
  /\ \/ status \in Open /\ status' \in {"unknown"} \cup ResultsOf(order)
     \/ status = "submitted" /\ status' = "refused"
  /\ UNCHANGED <<asked, recorded, sent, order, said, replies>>

\* A doubt may have been settled since the receipt was read.
Say ==
  /\ said = "none" /\ status \notin {"none", "submitted"}
  /\ said' = status \/ (said' = "unknown" /\ status # "refused")
  /\ UNCHANGED <<asked, status, recorded, sent, order, replies>>

Reply ==
  /\ said # "none" /\ replies = 0
  /\ replies' = 1
  /\ UNCHANGED <<asked, status, recorded, sent, order, said>>

Next == Ask \/ Take \/ Record \/ Send \/ Land \/ Answer \/ Say \/ Reply

Spec == Init /\ [][Next]_vars
============================================================================
