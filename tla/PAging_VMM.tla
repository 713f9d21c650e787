----------------------------- MODULE PAging_VMM -----------------------------
(* Aging by frames (Lab3/src/PAging_VMM.c): one age per frame; the victim  *)
(* is the first frame whose new age is least.                              *)
EXTENDS VMM, FiniteSetsExt

CONSTANT TopBit  \* of an age, 1 << 31 in the code
VARIABLES used_frames, age_vector

pagingvars == <<frame_table, page_table, stats, status, used_frames, age_vector>>

PAgingInit == /\ Init
              /\ used_frames = 0
              /\ age_vector = [f \in Frames |-> 0]

UINT_MAX == 2 * TopBit - 1

\* age >>= 1, then |= the top bit if the frame's page is referenced.
NewAge(f) == (age_vector[f] \div 2)
             + IF page_table[frame_table[f]].referenced THEN TopBit ELSE 0

\* The loop's min starts at UINT_MAX and its ret at 0.
Victim == LET least == Min({NewAge(f) : f \in Frames} \cup {UINT_MAX})
          IN IF least = UINT_MAX THEN 0 ELSE Min({f \in Frames : NewAge(f) = least})

\* Mutant of Aged: the victim's age stays with its frame.
Aged_kept(victim) == [f \in Frames |-> NewAge(f)]

Aged(victim) == [f \in Frames |-> IF f = victim THEN 0 ELSE NewAge(f)]

TakeNext(op, p) == /\ used_frames < NumFrames
                   /\ ServiceFault(op, p, used_frames, {})
                   /\ used_frames' = used_frames + 1
                   /\ UNCHANGED age_vector

Replace(op, p) == /\ used_frames >= NumFrames
                  /\ ServiceFault(op, p, Victim, {frame_table[f] : f \in Frames})
                  /\ age_vector' = Aged(Victim)
                  /\ UNCHANGED used_frames

PAgingNext == \/ \E op \in Operations, p \in Pages :
                   \/ TakeNext(op, p)
                   \/ Replace(op, p)
                   \/ Hit(op, p) /\ UNCHANGED <<used_frames, age_vector>>
              \/ /\ EndOfInput \/ BadInstruction \/ Exited
                 /\ UNCHANGED <<used_frames, age_vector>>

PAgingSpec == PAgingInit /\ [][PAgingNext]_pagingvars

-----------------------------------------------------------------------------
A == INSTANCE Aging WITH age <-
       [p \in Pages |-> IF page_table[p].present
                        THEN age_vector[page_table[p].frame_number] ELSE 0]
=============================================================================
