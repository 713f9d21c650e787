------------------------------ MODULE FIFO_VMM ------------------------------
(* The FIFO policy (Lab3/src/FIFO_VMM.c): a queue of all the frames, taken *)
(* from the front and put straight back at the end on every fault.  Frames *)
(* are queued as frame + 1 because the FIFO returns 0 (NULL) when empty.   *)
EXTENDS VMM, Sequences

VARIABLE frames

fifovars == <<frame_table, page_table, stats, status, frames>>

FIFOInit == Init /\ frames = [i \in 1 .. NumFrames |-> i]

\* frames->get, then frames->put of the same value.
rotate(q) == Append(Tail(q), Head(q))

FIFOFault(op, p) == /\ ServiceFault(op, p, Head(frames) - 1, {})
                    /\ frames' = rotate(frames)

FIFOHit(op, p) == Hit(op, p) /\ UNCHANGED frames

FIFOStop == (EndOfInput \/ BadInstruction \/ Exited) /\ UNCHANGED frames

FIFONext == \/ \E op \in Operations, p \in Pages : FIFOFault(op, p) \/ FIFOHit(op, p)
            \/ FIFOStop

FIFOSpec == FIFOInit /\ [][FIFONext]_fifovars

-----------------------------------------------------------------------------
\* The resident pages in queue order; the free frames are at the front.
Order == LET free == Cardinality(FreeFrames)
         IN [i \in 1 .. NumFrames - free |-> frame_table[frames[free + i] - 1]]

Arrival == INSTANCE EvictionOrder
             WITH Capacity <- NumFrames, Recency <- FALSE, order <- Order
=============================================================================
