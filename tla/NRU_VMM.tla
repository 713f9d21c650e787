------------------------------- MODULE NRU_VMM -------------------------------
(* Not recently used (Lab3/src/NRU_VMM.c): the victim is drawn from the    *)
(* lowest non-empty class of resident pages, by referenced then modified   *)
(* bit.  Every Interval-th replacement also resets the referenced bits,    *)
(* after the pages were put in classes.  2^32, where the counter wraps, is *)
(* no multiple of Interval.                                                *)
EXTENDS VMM, FiniteSetsExt

CONSTANTS Interval,   \* REFERENCE_RESET_INTERVAL
          RequestMod  \* 2^(width of replacement_request)

VARIABLES used_frames, replacement_request

nruvars == <<frame_table, page_table, stats, status, used_frames, replacement_request>>

NRUInit == Init /\ used_frames = 0 /\ replacement_request = 0

Bit(b) == IF b THEN 1 ELSE 0

\* Mutant of Class: the modified bit is left out.
Class_referenced(p) == 2 * Bit(page_table[p].referenced)

Class(p) == 2 * Bit(page_table[p].referenced) + Bit(page_table[p].modified)

Candidates == LET lowest == Min({Class(p) : p \in Resident})
              IN {p \in Resident : Class(p) = lowest}

\* Mutant of ResetBits: the referenced bits are never reset.
ResetBits_never(request) == {}

ResetBits(request) == IF request % Interval = 0 THEN Resident ELSE {}

TakeNext(op, p) == /\ used_frames < NumFrames
                   /\ ServiceFault(op, p, used_frames, {})
                   /\ used_frames' = used_frames + 1
                   /\ UNCHANGED replacement_request

Replace(op, p) ==
  /\ used_frames >= NumFrames
  /\ replacement_request' = (replacement_request + 1) % RequestMod
  /\ \E victim \in Candidates :
       ServiceFault(op, p, page_table[victim].frame_number,
                    ResetBits(replacement_request'))
  /\ UNCHANGED used_frames

NRUNext == \/ \E op \in Operations, p \in Pages :
                \/ TakeNext(op, p)
                \/ Replace(op, p)
                \/ Hit(op, p) /\ UNCHANGED <<used_frames, replacement_request>>
           \/ /\ EndOfInput \/ BadInstruction \/ Exited
              /\ UNCHANGED <<used_frames, replacement_request>>

NRUSpec == NRUInit /\ [][NRUNext]_nruvars

-----------------------------------------------------------------------------
\* A modified page is evicted only for want of a clean one of its class.
EvictsCleanFirst ==
  \A p \in Pages :
    page_table[p].present /\ ~page_table'[p].present /\ page_table[p].modified =>
      \A q \in Resident : page_table[q].referenced = page_table[p].referenced
                            => page_table[q].modified

\* A replacement that resets the bits leaves only the mapped page's set.
LeavesOneBit ==
  used_frames = NumFrames /\ replacement_request' # replacement_request
    /\ replacement_request' % Interval = 0 =>
      Cardinality({p \in Pages : page_table'[p].referenced}) = 1
=============================================================================
