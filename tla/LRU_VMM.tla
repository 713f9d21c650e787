------------------------------- MODULE LRU_VMM -------------------------------
(* The LRU policy (Lab3/src/LRU_VMM.c): a doubly linked list with one      *)
(* element per frame, least recently used first.  Elements are named by    *)
(* the frame they stand for (list_ptrs[f]); the pointers are the variables *)
(* below.  new() leaves the prev pointer of the last element unset.  A     *)
(* dereference of NULL or of the unset pointer ends the run ("crashed").   *)
EXTENDS VMM

NULL  == -1
UNSET == -2

VARIABLES next, prev, sorted_list, tail

list    == <<next, prev, sorted_list, tail>>
lruvars == <<frame_table, page_table, stats, status, list>>

NewPrev(f) ==
  IF f = 0 THEN NULL ELSE IF f < NumFrames - 1 THEN f - 1 ELSE UNSET

LRUInit == /\ Init
           /\ next = [f \in Frames |-> IF f = NumFrames - 1 THEN NULL ELSE f + 1]
           /\ prev = [f \in Frames |-> NewPrev(f)]
           /\ sorted_list = 0
           /\ tail = NumFrames - 1

\* Mutant of MoveToTail: the old tail is not linked to tmp.
MoveToTail_next(tmp, next1, prev1) ==
  /\ prev' = [prev1 EXCEPT ![tmp] = tail]
  /\ next' = [next1 EXCEPT ![tmp] = NULL]
  /\ tail' = tmp

\* this->tail = this->tail->next = tmp, and both pointers of tmp.
MoveToTail(tmp, next1, prev1) ==
  /\ prev' = [prev1 EXCEPT ![tmp] = tail]
  /\ next' = [next1 EXCEPT ![tail] = tmp, ![tmp] = NULL]
  /\ tail' = tmp

\* get_frame_index: the head becomes the tail, and is the frame returned.
GetFrameIndex ==
  LET tmp   == sorted_list
      after == next[tmp]
      prev1 == IF after # NULL THEN [prev EXCEPT ![after] = NULL] ELSE prev
  IN /\ sorted_list' = IF after # NULL THEN after ELSE sorted_list
     /\ IF tail = tmp THEN prev' = prev1 /\ UNCHANGED <<next, tail>>
        ELSE MoveToTail(tmp, next, prev1)

\* update dereferences a NULL pointer or follows the unset one.
BadPointer(tmp) == \/ sorted_list = tmp /\ next[tmp] = NULL
                   \/ tail # tmp /\ prev[tmp] = UNSET

\* The pointer of tmp's predecessor, if any, skips tmp.
UnlinkNext(tmp, prev1) ==
  IF prev1[tmp] # NULL THEN [next EXCEPT ![prev1[tmp]] = next[tmp]] ELSE next

\* Mutant of UnlinkPrev: the element after tmp still points back to tmp.
UnlinkPrev_stale(tmp, prev1) == prev1

UnlinkPrev(tmp, prev1) == [prev1 EXCEPT ![next[tmp]] = prev1[tmp]]

\* Mutant of Update: only the head of the list is moved on an access.
Update_head(tmp) ==
  IF sorted_list = tmp THEN GetFrameIndex ELSE UNCHANGED list

\* update: move the element of the accessed frame to the end of the list.
Update(tmp) ==
  LET prev1 == IF sorted_list = tmp THEN [prev EXCEPT ![next[tmp]] = NULL]
               ELSE prev
  IN /\ sorted_list' = IF sorted_list = tmp THEN next[tmp] ELSE sorted_list
     /\ IF tail = tmp THEN prev' = prev1 /\ UNCHANGED <<next, tail>>
        ELSE MoveToTail(tmp, UnlinkNext(tmp, prev1), UnlinkPrev(tmp, prev1))

LRUFault(op, p) == ServiceFault(op, p, sorted_list, {}) /\ GetFrameIndex

LRUHit(op, p) ==
  /\ status = "running"
  /\ page_table[p].present
  /\ IF BadPointer(page_table[p].frame_number)
     THEN status' = "crashed" /\ UNCHANGED <<frame_table, page_table, stats, list>>
     ELSE Hit(op, p) /\ Update(page_table[p].frame_number)

LRUStop == (EndOfInput \/ BadInstruction \/ Exited) /\ UNCHANGED list

LRUNext == \/ \E op \in Operations, p \in Pages : LRUFault(op, p) \/ LRUHit(op, p)
           \/ LRUStop

LRUSpec == LRUInit /\ [][LRUNext]_lruvars

-----------------------------------------------------------------------------
\* The list from its head on, following the next pointers.
Walk[i \in 1 .. NumFrames] ==
  IF i = 1 THEN sorted_list
  ELSE IF Walk[i - 1] = NULL THEN NULL ELSE next[Walk[i - 1]]

(* The pointers always form one list of all the frames: next leads from    *)
(* sorted_list through every frame to tail, and prev leads back.  Only the *)
(* prev that new() left unset may be missing, while its frame is unused.   *)
ListIsSound ==
  /\ {Walk[i] : i \in 1 .. NumFrames} = Frames
  /\ Walk[NumFrames] = tail /\ next[tail] = NULL
  /\ NumFrames > 1 => prev[sorted_list] = NULL
  /\ \A f \in Frames : next[f] # NULL =>
       \/ prev[next[f]] = f
       \/ /\ prev[next[f]] = UNSET
          /\ next[f] = NumFrames - 1 /\ frame_table[next[f]] = EMPTY

(* No hit ever follows the unset or a NULL pointer: the pointer new()      *)
(* leaves unset is overwritten before its frame can be accessed.           *)
NeverCrashes == status # "crashed"

\* The resident pages in list order; the free frames are at the front.
Order == LET free == Cardinality(FreeFrames)
         IN [i \in 1 .. NumFrames - free |-> frame_table[Walk[free + i]]]

Recent == INSTANCE EvictionOrder
            WITH Capacity <- NumFrames, Recency <- TRUE, order <- Order
=============================================================================
