--------------------------- MODULE SecChance_VMM ---------------------------
(* The second chance policy (Lab3/src/SecChance_VMM.c): a FIFO of all the  *)
(* frames.  Each turn of the do loop moves the front frame to the back and *)
(* stops if the frame is free or its page unreferenced; otherwise it       *)
(* resets the page's bit.  As in FIFO_VMM the queue holds frame + 1.       *)
EXTENDS VMM, Sequences, FiniteSetsExt

VARIABLE frames

secvars == <<frame_table, page_table, stats, status, frames>>

SecInit == Init /\ frames = [i \in 1 .. NumFrames |-> i]

PageAt(i) == frame_table[frames[i] - 1]

\* Mutant of Stops: the test of the bit is the wrong way round.
Stops_unreferenced(i) == PageAt(i) # EMPTY => page_table[PageAt(i)].referenced

Stops(i) == PageAt(i) # EMPTY => ~page_table[PageAt(i)].referenced

\* The turn at which the loop stops; after a full turn every bit is reset.
LastTurn == Min({i \in 1 .. NumFrames : Stops(i)} \cup {NumFrames + 1})

\* The queue after n times get and put.
Rotated(n) == [i \in 1 .. NumFrames |-> frames[((i + n - 1) % NumFrames) + 1]]

SecFault(op, p) ==
  LET n == LastTurn
  IN /\ ServiceFault(op, p, Rotated(n)[NumFrames] - 1,
                     {PageAt(i) : i \in 1 .. n - 1})
     /\ frames' = Rotated(n)

SecNext == \/ \E op \in Operations, p \in Pages :
                SecFault(op, p) \/ (Hit(op, p) /\ UNCHANGED frames)
           \/ (EndOfInput \/ BadInstruction \/ Exited) /\ UNCHANGED frames

SecSpec == SecInit /\ [][SecNext]_secvars

-----------------------------------------------------------------------------
\* The front of the queue is the clock's hand.
Clock == INSTANCE PClock_VMM WITH hand <- Head(frames) - 1
=============================================================================
