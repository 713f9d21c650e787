----------------------------- MODULE VAging_VMM -----------------------------
(* Aging by pages (Lab3/src/VAging_VMM.c): one age per page; the victim is *)
(* the first resident page whose new age is least, or page 0, resident or  *)
(* not, when no new age is below UINT_MAX.                                 *)
EXTENDS VMM, FiniteSetsExt

CONSTANT TopBit  \* of an age, 1 << 31 in the code
VARIABLES used_frames, age_vector

vagingvars == <<frame_table, page_table, stats, status, used_frames, age_vector>>

VAgingInit == /\ Init
              /\ used_frames = 0
              /\ age_vector = [p \in Pages |-> 0]

UINT_MAX == 2 * TopBit - 1

NewAge(p) == IF ~page_table[p].present THEN age_vector[p]
             ELSE (age_vector[p] \div 2)
                  + IF page_table[p].referenced THEN TopBit ELSE 0

Victim == LET least == Min({NewAge(p) : p \in Resident} \cup {UINT_MAX})
          IN IF least = UINT_MAX THEN 0
             ELSE Min({p \in Resident : NewAge(p) = least})

TakeNext(op, p) == /\ used_frames < NumFrames
                   /\ ServiceFault(op, p, used_frames, {})
                   /\ used_frames' = used_frames + 1
                   /\ UNCHANGED age_vector

Replace(op, p) ==
  /\ used_frames >= NumFrames
  /\ ServiceFault(op, p, page_table[Victim].frame_number, Resident)
  /\ age_vector' = [q \in Pages |-> IF q = Victim THEN 0 ELSE NewAge(q)]
  /\ UNCHANGED used_frames

VAgingNext == \/ \E op \in Operations, p \in Pages :
                   \/ TakeNext(op, p)
                   \/ Replace(op, p)
                   \/ Hit(op, p) /\ UNCHANGED <<used_frames, age_vector>>
              \/ /\ EndOfInput \/ BadInstruction \/ Exited
                 /\ UNCHANGED <<used_frames, age_vector>>

VAgingSpec == VAgingInit /\ [][VAgingNext]_vagingvars

-----------------------------------------------------------------------------
A == INSTANCE Aging WITH age <- age_vector
=============================================================================
