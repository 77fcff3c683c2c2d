------------------------------ MODULE Verdict ------------------------------
(***************************************************************************)
(* What a Series promises about its Windows, whatever the clock, the       *)
(* sources and the books do.  Windows are listed in the order of their     *)
(* indices.  While a Window is open, evidence is added to it and never     *)
(* taken back or changed.  One verdict is given, once, and it follows from *)
(* the evidence; it stands unchanged until the Window is forgotten, which  *)
(* waits until every read announced was called off, by whomever.           *)
(* Settlement implements this.                                             *)
(***************************************************************************)
EXTENDS Integers

CONSTANTS Indices, Slots, Prices, NoPrint

VARIABLES
  phase,      \* "none", "open", "decided" or "closed"
  evidence,   \* per Window and slot, the print or NoPrint
  verdict,    \* "None", "Yes", "No" or "Void"
  readers     \* per Window, how many reads of the verdict are announced

vars == <<phase, evidence, verdict, readers>>

Evidence == [Slots -> Prices \cup {NoPrint}]

Follows(v, e) ==
  /\ v = "Yes" => e["Open"] # NoPrint /\ e["Close"] # NoPrint /\ e["Close"] >= e["Open"]
  /\ v = "No" => e["Open"] # NoPrint /\ e["Close"] # NoPrint /\ e["Close"] < e["Open"]

Init ==
  /\ phase = [i \in Indices |-> "none"]
  /\ evidence = [i \in Indices |-> [s \in Slots |-> NoPrint]]
  /\ verdict = [i \in Indices |-> "None"]
  /\ readers = [i \in Indices |-> 0]

List(i) ==
  /\ phase[i] = "none"
  /\ \A j \in Indices : j < i => phase[j] # "none"
  /\ phase' = [phase EXCEPT ![i] = "open"]
  /\ UNCHANGED <<evidence, verdict, readers>>

Witness(i) ==
  /\ phase[i] = "open"
  /\ evidence'[i] \in Evidence
  /\ \A s \in Slots : evidence[i][s] # NoPrint => evidence'[i][s] = evidence[i][s]
  /\ evidence' = [evidence EXCEPT ![i] = evidence'[i]]
  /\ UNCHANGED <<phase, verdict, readers>>

Decide(i, v) ==
  /\ phase[i] = "open"
  /\ Follows(v, evidence[i])
  /\ phase' = [phase EXCEPT ![i] = "decided"]
  /\ verdict' = [verdict EXCEPT ![i] = v]
  /\ UNCHANGED <<evidence, readers>>

Join(i) ==
  /\ phase[i] \in {"open", "decided"}
  /\ readers' = [readers EXCEPT ![i] = @ + 1]
  /\ UNCHANGED <<phase, evidence, verdict>>

Leave(i) ==
  /\ phase[i] \in {"open", "decided"}
  /\ readers[i] > 0
  /\ readers' = [readers EXCEPT ![i] = @ - 1]
  /\ UNCHANGED <<phase, evidence, verdict>>

Forget(i) ==
  /\ phase[i] = "decided"
  /\ readers[i] = 0
  /\ phase' = [phase EXCEPT ![i] = "closed"]
  /\ UNCHANGED <<evidence, verdict, readers>>

Next ==
  \E i \in Indices :
    \/ List(i)
    \/ Witness(i)
    \/ \E v \in {"Yes", "No", "Void"} : Decide(i, v)
    \/ Join(i) \/ Leave(i)
    \/ Forget(i)

Spec == Init /\ [][Next]_vars

=============================================================================
