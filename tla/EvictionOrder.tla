--------------------------- MODULE EvictionOrder ---------------------------
(* The textbook queue behind two of the replacement policies: the resident *)
(* pages in eviction order, the next victim first.  With Recency a hit     *)
(* moves its page to the back (least recently used); without it the order  *)
(* is that of arrival (first in, first out).                               *)
EXTENDS Naturals, Sequences, SequencesExt

CONSTANTS Pages, Capacity, Recency

VARIABLE order

OrderInit == order = <<>>

Arrive(p) == /\ ~Contains(order, p)
             /\ order' = Append(IF Len(order) = Capacity THEN Tail(order)
                                ELSE order, p)

Hit(p) == \E i \in 1 .. Len(order) :
            /\ order[i] = p
            /\ order' = IF Recency THEN Append(RemoveAt(order, i), p) ELSE order

OrderNext == \E p \in Pages : Arrive(p) \/ Hit(p)

OrderSpec == OrderInit /\ [][OrderNext]_order
=============================================================================
