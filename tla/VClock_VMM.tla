----------------------------- MODULE VClock_VMM -----------------------------
(* The clock policy over pages (Lab3/src/VClock_VMM.c).  While frames are  *)
(* free the hand counts frames; afterwards it goes round the page table.   *)
(* The test for a free frame stays in front of the sweep and then indexes  *)
(* frame_table with a page number: beyond the last frame it reads whatever *)
(* memory holds, EMPTY or another word.  If it happens to be EMPTY the     *)
(* policy returns a frame that does not exist ("crashed").  The while loop *)
(* is one step here; VClockLoop runs it one iteration at a time.           *)
EXTENDS VMM, FiniteSetsExt

VARIABLE hand

vclockvars == <<frame_table, page_table, stats, status, hand>>

VClockInit == Init /\ hand = 0

\* What memory past the frame table may hold: only EMPTY is tested for.
AnyWord == {0, EMPTY}

TableEntry(h) == IF h \in Frames THEN {frame_table[h]} ELSE AnyWord

\* The page k positions after the hand.
Ahead(k) == (hand + k) % NumPages

\* Mutant of Stops: pages that are out of memory are not skipped.
Stops_absent(p) == ~page_table[p].referenced

Stops(p) == page_table[p].present /\ ~page_table[p].referenced

(* How many pages the loop passes: up to the first resident unreferenced   *)
(* one; when there is none, to the first resident one of the second round. *)
Passed == Min({k \in 0 .. NumPages - 1 : Stops(Ahead(k))} \cup
              {k \in NumPages .. 2 * NumPages - 1 : page_table[Ahead(k)].present})

\* Mutant of NextFrame: the hand stays on the frame it returned.
NextFrame_stay == hand

NextFrame == (hand + 1) % NumFrames

TakeEmpty(op, p) == /\ EMPTY \in TableEntry(hand)
                    /\ hand \in Frames
                    /\ ServiceFault(op, p, hand, {})
                    /\ hand' = NextFrame

TakeBeyond == /\ status = "running"
              /\ Resident # Pages
              /\ hand \notin Frames
              /\ EMPTY \in TableEntry(hand)
              /\ status' = "crashed"
              /\ UNCHANGED <<frame_table, page_table, stats, hand>>

Sweep(op, p) ==
  /\ \E entry \in TableEntry(hand) : entry # EMPTY
  /\ LET k == Passed
         passed == {Ahead(i) : i \in 0 .. k - 1}
     IN /\ ServiceFault(op, p, page_table[Ahead(k)].frame_number,
                        {q \in passed : page_table[q].present})
        /\ hand' = Ahead(k + 1)

VClockNext == \/ \E op \in Operations, p \in Pages :
                   \/ TakeEmpty(op, p)
                   \/ Sweep(op, p)
                   \/ Hit(op, p) /\ UNCHANGED hand
              \/ TakeBeyond
              \/ (EndOfInput \/ BadInstruction \/ Exited) /\ UNCHANGED hand

VClockSpec == VClockInit /\ [][VClockNext]_vclockvars

-----------------------------------------------------------------------------
(* While a frame is free the hand is on it, so that the sweep only starts  *)
(* with every frame in use and always finds a resident page to stop at.    *)
HandFindsFree == FreeFrames # {} => hand \in Frames /\ frame_table[hand] = EMPTY
=============================================================================
