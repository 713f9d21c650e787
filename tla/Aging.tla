-------------------------------- MODULE Aging --------------------------------
(* The aging rule, apart from whether ages are kept per frame or per page: *)
(* at each replacement every resident page's age is halved, a referenced   *)
(* page gets the top bit and loses its referenced bit, and some page of    *)
(* least age leaves.  A page comes in with age 0, and a page out of memory *)
(* has none.                                                               *)
EXTENDS VMM

CONSTANT TopBit  \* of an age, 1 << 31 in the code

VARIABLE age

Older(p) == (age[p] \div 2) + IF page_table[p].referenced THEN TopBit ELSE 0

AgingInit == Init /\ age = [p \in Pages |-> 0]

FillFrame(op, p) == /\ FreeFrames # {}
                    /\ \E index \in FreeFrames :
                         /\ SelectFrame(index, {})
                         /\ ServiceFault(op, p, index, {})
                    /\ UNCHANGED age

AgeAndReplace(op, p) ==
  /\ FreeFrames = {}
  /\ ~page_table[p].present
  /\ \E victim \in Resident :
       /\ \A q \in Resident : Older(victim) <= Older(q)
       /\ ServiceFault(op, p, page_table[victim].frame_number, Resident)
       /\ age' = [q \in Pages |-> IF q \in Resident \ {victim} THEN Older(q) ELSE 0]

AgingNext == \/ \E op \in Operations, p \in Pages :
                  \/ FillFrame(op, p)
                  \/ AgeAndReplace(op, p)
                  \/ Hit(op, p) /\ UNCHANGED age
             \/ (EndOfInput \/ BadInstruction \/ Exited) /\ UNCHANGED age

agingvars == <<frame_table, page_table, stats, status, age>>

AgingSpec == AgingInit /\ [][AgingNext]_agingvars
=============================================================================
