---------------------------- MODULE VenueHandles ----------------------------
(***************************************************************************)
(* Venue with a history: the (node, seq) handles whose order has left the  *)
(* book.  A node goes back to the free list when its order is filled,      *)
(* cancelled, evicted or swept, and alloc gives it out again, while a      *)
(* wallet may still hold the old handle and send it at any later time.     *)
(* The history is only written, so every behaviour of Venue is one here.   *)
(***************************************************************************)
EXTENDS Venue

VARIABLE spent   \* handles of orders that are gone

\* The handles that name a live order.
Named(v) == {<<n, v.nodes[n].seq>> : n \in Live(v)}

Retire == spent' = spent \cup (Named(venue) \ Named(venue'))

HandlesInit == Init /\ spent = {}
HandlesNext == Next /\ Retire
HandlesSpec == HandlesInit /\ [][HandlesNext]_<<vars, spent>>

\* A (node, seq) handle names one order for ever: while the order is live it only shrinks, and once it
\* is gone no order ever answers to its handle again, however often and however much later its node is
\* reused, so a stale cancel or reduce meets nothing (user_cancel_orders, user_reduce_order, rest_order).
HandleNamesOneOrder ==
  /\ [](Named(venue) \cap spent = {})
  /\ [][\A n \in Nodes :
          LET a == venue.nodes[n]
              b == venue'.nodes[n]
          IN  a.live /\ b.live /\ a.seq = b.seq => b.lots <= a.lots /\ b = [a EXCEPT !.lots = b.lots]]_vars
============================================================================
