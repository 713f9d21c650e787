----------------------------- MODULE PClockLoop -----------------------------
(* PClock_VMM's while loop, one iteration at a time.  pc, request and      *)
(* entry are as in VClockLoop.                                             *)
EXTENDS PClock_VMM

VARIABLES pc, request, entry

loopvars == <<frame_table, page_table, stats, status, hand, pc, request, entry>>
ready    == <<pc, request, entry>>

NoRequest == <<READ, 0>>

LoopInit == /\ ClockInit
            /\ pc = "run"
            /\ request = NoRequest
            /\ entry = <<page_table, hand>>

EnterLoop(op, p) == /\ pc = "run" /\ status = "running"
                    /\ ~page_table[p].present
                    /\ frame_table[hand] # EMPTY
                    /\ pc' = "loop"
                    /\ request' = <<op, p>>
                    /\ entry' = <<page_table, hand>>
                    /\ UNCHANGED <<frame_table, page_table, stats, status, hand>>

Referenced == page_table[frame_table[hand]].referenced

\* Mutant of NextTable: the hand was moved first.
NextTable_ahead ==
  [page_table EXCEPT ![frame_table[(hand + 1) % NumFrames]] =
     [@ EXCEPT !.referenced = FALSE]]

NextTable ==
  [page_table EXCEPT ![frame_table[hand]] = [@ EXCEPT !.referenced = FALSE]]

Iterate == /\ pc = "loop" /\ Referenced
           /\ page_table' = NextTable
           /\ hand' = (hand + 1) % NumFrames
           /\ UNCHANGED <<frame_table, stats, status, pc, request, entry>>

LeaveLoop == /\ pc = "loop" /\ ~Referenced
             /\ ServiceFault(request[1], request[2], hand, {})
             /\ Advance(hand)
             /\ pc' = "run"
             /\ request' = NoRequest
             /\ UNCHANGED entry

Elsewhere == /\ pc = "run"
             /\ \/ \E op \in Operations, p \in Pages :
                     TakeEmpty(op, p) \/ (Hit(op, p) /\ UNCHANGED hand)
                \/ (EndOfInput \/ BadInstruction \/ Exited) /\ UNCHANGED hand
             /\ UNCHANGED ready

LoopNext == \/ \E op \in Operations, p \in Pages : EnterLoop(op, p)
            \/ Iterate
            \/ LeaveLoop
            \/ Elsewhere

-----------------------------------------------------------------------------
\* Run to its end, the loop is one step of the atomic clock.
Atomic == INSTANCE PClock_VMM WITH
            page_table <- IF pc = "loop" THEN entry[1] ELSE page_table,
            hand <- IF pc = "loop" THEN entry[2] ELSE hand
=============================================================================
