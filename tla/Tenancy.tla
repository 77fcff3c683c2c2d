------------------------------ MODULE Tenancy ------------------------------
(***************************************************************************)
(* One Window as the tenant of a book and of a ledger: what the program    *)
(* that runs the Window and the program that trades in it have to agree    *)
(* on.  Before the lock orders and seats come and go, and no order rests   *)
(* without a seat; from the lock on they only leave.  A winner is named    *)
(* only after the lock, and no Window is voided before it trades.  An      *)
(* empty book may be given back from the lock on, an empty ledger closed   *)
(* from the verdict on, and the Window is forgotten after both.            *)
(*                                                                         *)
(* Venue implements this with its nodes and seats, Settlement for each of  *)
(* its Windows with two flags: what Settlement takes for granted about     *)
(* trading is what Venue does.                                             *)
(***************************************************************************)

VARIABLES
  stage,        \* "Unlisted", "Listed", "Trading", "Locked", "Resolved", "Voided" or "Closed"
  resting,      \* the book rests an order of the Window
  seated,       \* a seat of its ledger holds something
  released,     \* the book was given back
  ledgerClosed

vars == <<stage, resting, seated, released, ledgerClosed>>

Init ==
  /\ stage \in {"Unlisted", "Listed", "Trading"}
  /\ resting = FALSE /\ seated = FALSE /\ released = FALSE /\ ledgerClosed = FALSE

List ==
  /\ stage = "Unlisted"
  /\ stage' \in {"Listed", "Trading"}
  /\ resting' = FALSE /\ seated' = FALSE /\ released' = FALSE /\ ledgerClosed' = FALSE

Pass ==
  /\ \/ stage = "Listed" /\ stage' = "Trading"
     \/ stage = "Trading" /\ stage' = "Locked"
  /\ UNCHANGED <<resting, seated, released, ledgerClosed>>

Use ==
  /\ stage \in {"Listed", "Trading"}
  /\ resting' \in BOOLEAN /\ seated' \in BOOLEAN
  /\ resting' => seated'
  /\ UNCHANGED <<stage, released, ledgerClosed>>

Leave ==
  /\ stage \in {"Locked", "Resolved", "Voided"}
  /\ resting' \in BOOLEAN /\ seated' \in BOOLEAN
  /\ resting' => resting /\ seated'
  /\ seated' => seated
  /\ UNCHANGED <<stage, released, ledgerClosed>>

Decide ==
  /\ \/ stage = "Locked" /\ stage' = "Resolved"
     \/ stage \in {"Trading", "Locked"} /\ stage' = "Voided"
  /\ UNCHANGED <<resting, seated, released, ledgerClosed>>

GiveBack ==
  /\ stage \in {"Locked", "Resolved", "Voided"}
  /\ ~resting /\ ~released
  /\ released' = TRUE
  /\ UNCHANGED <<stage, resting, seated, ledgerClosed>>

CloseLedger ==
  /\ stage \in {"Resolved", "Voided"}
  /\ ~seated /\ ~ledgerClosed
  /\ ledgerClosed' = TRUE
  /\ UNCHANGED <<stage, resting, seated, released>>

Forget ==
  /\ stage \in {"Resolved", "Voided"}
  /\ released /\ ledgerClosed
  /\ stage' = "Closed"
  /\ UNCHANGED <<resting, seated, released, ledgerClosed>>

Next == List \/ Pass \/ Use \/ Leave \/ Decide \/ GiveBack \/ CloseLedger \/ Forget

Spec == Init /\ [][Next]_vars
============================================================================
