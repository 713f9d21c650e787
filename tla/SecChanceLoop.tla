---------------------------- MODULE SecChanceLoop ----------------------------
(* SecChance_VMM's do loop, one turn at a time: get, put, and the test of  *)
(* the frame that went round.  pc and request are as in VClockLoop; entry  *)
(* is the page table and the queue the loop started from.                  *)
EXTENDS SecChance_VMM

VARIABLES pc, request, entry

loopvars == <<secvars, pc, request, entry>>
ready    == <<pc, request, entry>>

NoRequest == <<READ, 0>>

LoopInit == /\ SecInit
            /\ pc = "run"
            /\ request = NoRequest
            /\ entry = <<page_table, frames>>

EnterLoop(op, p) == /\ pc = "run" /\ status = "running"
                    /\ ~page_table[p].present
                    /\ pc' = "loop"
                    /\ request' = <<op, p>>
                    /\ entry' = <<page_table, frames>>
                    /\ UNCHANGED secvars

\* Mutant of Turned: the frame is put back at the front.
Turned_kept == frames

\* get and put of the front frame.
Turned == Append(Tail(frames), Head(frames))

Iterate == /\ pc = "loop" /\ ~Stops(1)
           /\ page_table' = [page_table EXCEPT ![PageAt(1)].referenced = FALSE]
           /\ frames' = Turned
           /\ UNCHANGED <<frame_table, stats, status, ready>>

LeaveLoop == /\ pc = "loop" /\ Stops(1)
             /\ frames' = Turned
             /\ ServiceFault(request[1], request[2], Head(frames) - 1, {})
             /\ pc' = "run"
             /\ request' = NoRequest
             /\ UNCHANGED entry

Elsewhere == /\ pc = "run"
             /\ \/ \E op \in Operations, p \in Pages : Hit(op, p)
                \/ EndOfInput \/ BadInstruction \/ Exited
             /\ UNCHANGED <<frames, ready>>

LoopNext == \/ \E op \in Operations, p \in Pages : EnterLoop(op, p)
            \/ Iterate
            \/ LeaveLoop
            \/ Elsewhere

-----------------------------------------------------------------------------
\* Run to its end, the loop is one step of the policy.
Atomic == INSTANCE SecChance_VMM WITH
            page_table <- IF pc = "loop" THEN entry[1] ELSE page_table,
            frames <- IF pc = "loop" THEN entry[2] ELSE frames
=============================================================================
