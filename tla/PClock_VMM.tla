----------------------------- MODULE PClock_VMM -----------------------------
(* The clock policy over frames (Lab3/src/PClock_VMM.c): a hand that goes  *)
(* round the frame table, resets the referenced bits it passes and stops   *)
(* at the first page whose bit is already reset.  The while loop is one    *)
(* step here; PClockLoop runs it one iteration at a time.                  *)
EXTENDS VMM, FiniteSetsExt

VARIABLE hand

clockvars == <<frame_table, page_table, stats, status, hand>>

ClockInit == Init /\ hand = 0

\* The frame k positions after the hand.
Ahead(k) == (hand + k) % NumFrames

(* How many frames the loop passes: up to the first unreferenced page, or  *)
(* once round when all are referenced (their bits are reset by then).      *)
Passed == Min({k \in 0 .. NumFrames - 1 :
                 ~page_table[frame_table[Ahead(k)]].referenced} \cup {NumFrames})

Advance(index) == hand' = (index + 1) % NumFrames

\* The hand is on a frame that was never used.
TakeEmpty(op, p) == /\ frame_table[hand] = EMPTY
                    /\ ServiceFault(op, p, hand, {})
                    /\ Advance(hand)

Sweep(op, p) == /\ frame_table[hand] # EMPTY
                /\ LET k == Passed
                   IN /\ ServiceFault(op, p, Ahead(k),
                           {frame_table[Ahead(i)] : i \in 0 .. k - 1})
                      /\ Advance(Ahead(k))

ClockNext == \/ \E op \in Operations, p \in Pages :
                  \/ TakeEmpty(op, p)
                  \/ Sweep(op, p)
                  \/ Hit(op, p) /\ UNCHANGED hand
             \/ (EndOfInput \/ BadInstruction \/ Exited) /\ UNCHANGED hand

ClockSpec == ClockInit /\ [][ClockNext]_clockvars

-----------------------------------------------------------------------------
(* While a frame is free the hand is on the lowest free one, so the loop   *)
(* never looks up the page of an empty frame (an index of INT_MIN).        *)
HandFindsFree == FreeFrames # {} => frame_table[hand] = EMPTY
=============================================================================
