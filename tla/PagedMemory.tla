---------------------------- MODULE PagedMemory ----------------------------
(* What virtual memory promises its process: a flat memory of NumPages     *)
(* pages, all Zero at first, where a read answers with what was last       *)
(* written to that page.  No frames, no swap, no replacement.              *)
CONSTANTS Pages,   \* the virtual pages
          Values,  \* what a page can hold
          Zero     \* what a page holds before it is first written

VARIABLES memory,  \* page -> its content
          answer   \* what the last read returned

memvars == <<memory, answer>>

MemInit == memory = [p \in Pages |-> Zero] /\ answer = Zero

Read(p) == answer' = memory[p] /\ UNCHANGED memory

Write(p, v) == memory' = [memory EXCEPT ![p] = v] /\ UNCHANGED answer

MemNext == \E p \in Pages : Read(p) \/ \E v \in Values : Write(p, v)

MemSpec == MemInit /\ [][MemNext]_memvars
=============================================================================
