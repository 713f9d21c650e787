----------------------------- MODULE Random_VMM -----------------------------
(* The random policy (Lab3/src/Random_VMM.c): frames are handed out in     *)
(* order until all are used, then any frame may be drawn.  myrandom (see   *)
(* RandomFile) returns some value below its argument.                      *)
EXTENDS VMM

VARIABLE used_frames

randomvars == <<frame_table, page_table, stats, status, used_frames>>

RandomInit == Init /\ used_frames = 0

\* Mutant of AllUsed: one frame short.
AllUsed_short == used_frames >= NumFrames - 1

AllUsed == used_frames >= NumFrames

TakeNext(op, p) == /\ ~AllUsed
                   /\ ServiceFault(op, p, used_frames, {})
                   /\ used_frames' = used_frames + 1

Draw(op, p) == /\ AllUsed
               /\ \E index \in Frames : ServiceFault(op, p, index, {})
               /\ UNCHANGED used_frames

RandomNext == \/ \E op \in Operations, p \in Pages :
                   \/ TakeNext(op, p)
                   \/ Draw(op, p)
                   \/ Hit(op, p) /\ UNCHANGED used_frames
              \/ (EndOfInput \/ BadInstruction \/ Exited) /\ UNCHANGED used_frames

RandomSpec == RandomInit /\ [][RandomNext]_randomvars
=============================================================================
