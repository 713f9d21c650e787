----------------------------- MODULE VClockLoop -----------------------------
(* VClock_VMM's while(true) loop, one iteration at a time: pc is where the *)
(* program is, request the faulting instruction it serves, and entry the   *)
(* page table and hand when the loop was entered (history only; no         *)
(* statement reads it).  Nothing bounds the loop but the referenced bits   *)
(* it resets and the resident pages it must meet.                          *)
EXTENDS VClock_VMM

VARIABLES pc, request, entry

loopvars == <<frame_table, page_table, stats, status, hand, pc, request, entry>>
ready    == <<pc, request, entry>>

NoRequest == <<READ, 0>>

LoopInit == /\ VClockInit
            /\ pc = "run"
            /\ request = NoRequest
            /\ entry = <<page_table, hand>>

\* run() asks for a frame; the slot under the hand is not EMPTY.
EnterLoop(op, p) == /\ pc = "run" /\ status = "running"
                    /\ ~page_table[p].present
                    /\ \E slot \in TableEntry(hand) : slot # EMPTY
                    /\ pc' = "loop"
                    /\ request' = <<op, p>>
                    /\ entry' = <<page_table, hand>>
                    /\ UNCHANGED <<frame_table, page_table, stats, status, hand>>

\* Mutant of NextTable: a referenced page keeps its bit.
NextTable_kept == page_table

\* What one iteration that goes on does to the page under the hand.
NextTable == IF page_table[hand].present /\ page_table[hand].referenced
             THEN [page_table EXCEPT ![hand] = [@ EXCEPT !.referenced = FALSE]]
             ELSE page_table

Iterate == /\ pc = "loop" /\ ~Stops(hand)
           /\ page_table' = NextTable
           /\ hand' = (hand + 1) % NumPages
           /\ UNCHANGED <<frame_table, stats, status, pc, request, entry>>

\* break, and the rest of the fault in run().
LeaveLoop == /\ pc = "loop" /\ Stops(hand)
             /\ ServiceFault(request[1], request[2], page_table[hand].frame_number, {})
             /\ hand' = (hand + 1) % NumPages
             /\ pc' = "run"
             /\ request' = NoRequest
             /\ UNCHANGED entry

Elsewhere == /\ pc = "run"
             /\ \/ \E op \in Operations, p \in Pages :
                     TakeEmpty(op, p) \/ (Hit(op, p) /\ UNCHANGED hand)
                \/ TakeBeyond
                \/ (EndOfInput \/ BadInstruction \/ Exited) /\ UNCHANGED hand
             /\ UNCHANGED ready

LoopNext == \/ \E op \in Operations, p \in Pages : EnterLoop(op, p)
            \/ Iterate
            \/ LeaveLoop
            \/ Elsewhere

-----------------------------------------------------------------------------
\* Run to its end, the loop is one step of the atomic clock.
Atomic == INSTANCE VClock_VMM WITH
            page_table <- IF pc = "loop" THEN entry[1] ELSE page_table,
            hand <- IF pc = "loop" THEN entry[2] ELSE hand
=============================================================================
