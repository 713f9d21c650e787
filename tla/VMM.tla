-------------------------------- MODULE VMM --------------------------------
(* The engine of the Lab3 memory manager (Lab3/src/vmm.c): the page table, *)
(* the frame table and the counters of one simulated process, driven by a  *)
(* stream of (operation, virtual page) instructions.  The replacement      *)
(* policy is the abstract method VMM_LT.get_frame_index; here it is any    *)
(* choice a policy is allowed to make, and the nine policy modules show    *)
(* that they only ever make such choices.                                  *)
(*                                                                         *)
(* The input is not bounded: the counters are unsigned machine integers    *)
(* and wrap at CounterMod (2^32 in the program), so the state space is     *)
(* finite whatever the length of the input.  free_frames is left out: it   *)
(* is filled by new() and no statement ever reads it.                      *)
EXTENDS Integers, FiniteSets

CONSTANTS NumFrames,   \* the -f option
          NumPages,    \* NUM_VIRT_PAGES
          CounterMod   \* 2^(width of unsigned)

ASSUME VMMAssumption == /\ NumFrames \in Nat \ {0}
                        /\ NumPages \in Nat \ {0}
                        /\ CounterMod \in Nat \ {0}

Frames == 0 .. NumFrames - 1
Pages  == 0 .. NumPages - 1
EMPTY  == -2147483647 - 1          \* INT_MIN

READ  == "read"
WRITE == "write"
Operations == {READ, WRITE}

PTE == [frame_number : Frames, modified : BOOLEAN, pagedout : BOOLEAN,
        present : BOOLEAN, referenced : BOOLEAN]

Counters == {"instr_count", "unmaps", "maps", "pageins", "pageouts", "zeros"}

VARIABLES frame_table,  \* frame -> the page it holds, or EMPTY
          page_table,   \* page  -> its PTE
          stats,        \* the six counters
          status        \* "running", "done" (end of input), "failed" (exit)

vars == <<frame_table, page_table, stats, status>>

TypeOK == /\ frame_table \in [Frames -> Pages \cup {EMPTY}]
          /\ page_table \in [Pages -> PTE]
          /\ stats \in [Counters -> 0 .. CounterMod - 1]
          /\ status \in {"running", "done", "failed"}

Init == /\ frame_table = [f \in Frames |-> EMPTY]
        /\ page_table = [p \in Pages |->
                           [frame_number |-> 0, modified |-> FALSE,
                            pagedout |-> FALSE, present |-> FALSE,
                            referenced |-> FALSE]]
        /\ stats = [c \in Counters |-> 0]
        /\ status = "running"

-----------------------------------------------------------------------------
(* The five page operations, as functions of the page table.               *)

\* Mutants of unmap: the present bit, or the referenced bit, is left alone.
unmap_present(pt, old) == [pt EXCEPT ![old] = [@ EXCEPT !.referenced = FALSE]]
unmap_referenced(pt, old) == [pt EXCEPT ![old] = [@ EXCEPT !.present = FALSE]]

unmap(pt, old) ==
  [pt EXCEPT ![old] = [@ EXCEPT !.present = FALSE, !.referenced = FALSE]]

\* Mutant of page_out: the pagedout bit is left alone.
page_out_pagedout(pt, old) ==
  [pt EXCEPT ![old] = [@ EXCEPT !.modified = FALSE, !.referenced = FALSE]]

page_out(pt, old) ==
  [pt EXCEPT ![old] = [@ EXCEPT !.modified = FALSE, !.referenced = FALSE,
                                !.pagedout = TRUE]]

page_in(pt, p) == [pt EXCEPT ![p] = [@ EXCEPT !.modified = FALSE]]

map(pt, p, index) ==
  [pt EXCEPT ![p] = [@ EXCEPT !.present = TRUE, !.referenced = TRUE,
                              !.frame_number = index]]

\* Mutant of Touched: a read takes the modified bit away.
Touched_read(e, op) == [e EXCEPT !.modified = (op = WRITE), !.referenced = TRUE]

\* What every instruction does to its page's entry, after a fault or a hit.
Touched(e, op) ==
  [e EXCEPT !.modified = IF op = WRITE THEN TRUE ELSE @, !.referenced = TRUE]

Access(pt, op, p) == [pt EXCEPT ![p] = Touched(@, op)]

\* The referenced bits a policy resets while it looks for a frame.
ClearReferenced(pt, cleared) ==
  [p \in Pages |-> [pt[p] EXCEPT !.referenced = @ /\ p \notin cleared]]

\* Mutant of Bump: the counter is wider than the type it is stored in.
Bump_wide(counter, cond) == IF cond THEN counter + 1 ELSE counter

Bump(counter, cond) == IF cond THEN (counter + 1) % CounterMod ELSE counter

-----------------------------------------------------------------------------
FreeFrames == {f \in Frames : frame_table[f] = EMPTY}
Resident   == {p \in Pages : page_table[p].present}

\* Mutant of SelectFrame: an occupied frame may be taken while one is free.
SelectFrame_any(index, cleared) == TRUE

(* What get_frame_index may return and which referenced bits it may reset: *)
(* while a frame is free, the lowest free one and no bit; then any frame,  *)
(* and the bits of any resident pages.                                     *)
SelectFrame(index, cleared) ==
  FreeFrames # {} => /\ index \in FreeFrames
                     /\ \A f \in FreeFrames : index <= f
                     /\ cleared = {}

\* The page table once the frame is free: unmap, then page_out if modified.
Evicted(pt, old) ==
  IF old = EMPTY THEN pt
  ELSE IF pt[old].modified THEN page_out(unmap(pt, old), old)
  ELSE unmap(pt, old)

\* A page with a copy in swap is paged in; zeros leaves the PTE alone.
Loaded(pt, p) == IF pt[p].pagedout THEN page_in(pt, p) ELSE pt

\* Mutant of FaultStats: zeros is counted even when the page is paged in.
FaultStats_zeros(dirty, evicts, paged) ==
  [stats EXCEPT !.instr_count = Bump(@, TRUE),
                !.unmaps = Bump(@, evicts),
                !.pageouts = Bump(@, dirty),
                !.pageins = Bump(@, paged),
                !.zeros = Bump(@, TRUE),
                !.maps = Bump(@, TRUE)]

FaultStats(dirty, evicts, paged) ==
  [stats EXCEPT !.instr_count = Bump(@, TRUE),
                !.unmaps = Bump(@, evicts),
                !.pageouts = Bump(@, dirty),
                !.pageins = Bump(@, paged),
                !.zeros = Bump(@, ~paged),
                !.maps = Bump(@, TRUE)]

(* The fault half of run(), once the policy has picked the frame.  The     *)
(* victim is resident and p is not, so making room leaves p's pagedout     *)
(* bit, which decides between page_in and zeros, as it was.                *)
ServiceFault(op, p, index, cleared) ==
  /\ status = "running"
  /\ ~page_table[p].present
  /\ frame_table' = [frame_table EXCEPT ![index] = p]
  /\ LET pt   == ClearReferenced(page_table, cleared)
         old  == frame_table[index]
         free == Evicted(pt, old)
     IN /\ page_table' = Access(map(Loaded(free, p), p, index), op, p)
        /\ stats' = FaultStats(old # EMPTY /\ pt[old].modified,
                               old # EMPTY, page_table[p].pagedout)
  /\ UNCHANGED status

Fault(op, p) ==
  /\ ~page_table[p].present
  /\ \E index \in Frames, cleared \in SUBSET Resident :
       /\ SelectFrame(index, cleared)
       /\ ServiceFault(op, p, index, cleared)

Hit(op, p) == /\ status = "running"
              /\ page_table[p].present
              /\ page_table' = Access(page_table, op, p)
              /\ stats' = [stats EXCEPT !.instr_count = Bump(@, TRUE)]
              /\ UNCHANGED <<frame_table, status>>

\* read_instruction finds no further pair of numbers.
EndOfInput == /\ status = "running"
              /\ status' = "done"
              /\ UNCHANGED <<frame_table, page_table, stats>>

\* An unknown operation or a page number out of range: exit(EXIT_FAILURE).
BadInstruction == /\ status = "running"
                  /\ status' = "failed"
                  /\ UNCHANGED <<frame_table, page_table, stats>>

\* The process is gone; a state without successor is then a stuck policy.
Exited == status # "running" /\ UNCHANGED vars

Next == \/ \E op \in Operations, p \in Pages : Fault(op, p) \/ Hit(op, p)
        \/ EndOfInput
        \/ BadInstruction
        \/ Exited

Spec == Init /\ [][Next]_vars

-----------------------------------------------------------------------------
(* The engine with what the six policies that look at the referenced bits  *)
(* (NRU, second chance, both clocks, both agings) have in common: a page   *)
(* that was referenced since its bit was last reset is evicted only when   *)
(* every resident page was.                                                *)
SparesReferenced(index) ==
  LET old == frame_table[index]
  IN old # EMPTY /\ page_table[old].referenced =>
       \A q \in Resident : page_table[q].referenced

RefBitFault(op, p) ==
  /\ ~page_table[p].present
  /\ \E index \in Frames, cleared \in SUBSET Resident :
       /\ SelectFrame(index, cleared)
       /\ SparesReferenced(index)
       /\ ServiceFault(op, p, index, cleared)

RefBitNext == \/ \E op \in Operations, p \in Pages : RefBitFault(op, p) \/ Hit(op, p)
              \/ EndOfInput
              \/ BadInstruction
              \/ Exited

RefBitSpec == Init /\ [][RefBitNext]_vars

-----------------------------------------------------------------------------
(* The two tables describe one partial bijection: a frame that holds a     *)
(* page is the frame that page's PTE names, and the other way round.  run  *)
(* never resets frame_table on unmap (the comment in unmap says why that   *)
(* is safe); this is the claim that it is.                                 *)
TablesAgree ==
  /\ \A f \in Frames : frame_table[f] # EMPTY =>
       /\ page_table[frame_table[f]].present
       /\ page_table[frame_table[f]].frame_number = f
  /\ \A p \in Pages : page_table[p].present =>
       frame_table[page_table[p].frame_number] = p

(* A page that is not in a frame carries no access bits: what a later      *)
(* fault brings in starts unmodified and a policy that scans all the pages *)
(* sees no stale bit.                                                      *)
AbsentIsClean ==
  \A p \in Pages : ~page_table[p].present =>
    ~page_table[p].modified /\ ~page_table[p].referenced

(* Frames are handed out from 0 upwards and never given back, which is     *)
(* what the policies that only count used_frames rely on.                  *)
FilledInOrder ==
  \A f, g \in Frames : f < g /\ frame_table[f] = EMPTY => frame_table[g] = EMPTY

(* The counters of the summary line account for the tables, also after     *)
(* they wrapped: every map is one page-in or one zeroing, and the pages    *)
(* mapped and not unmapped since are the resident ones.                    *)
Accounting ==
  /\ stats.maps = (stats.pageins + stats.zeros) % CounterMod
  /\ stats.maps = (stats.unmaps + Cardinality(Resident)) % CounterMod

(* A modified page only loses its modified bit by being written to swap:   *)
(* it leaves its frame, is marked paged out and the OUT is counted.        *)
OnlySwapCleans ==
  \A p \in Pages : page_table[p].modified /\ ~page_table'[p].modified =>
    /\ page_table[p].present /\ ~page_table'[p].present
    /\ page_table'[p].pagedout
    /\ stats'.pageouts = Bump(stats.pageouts, TRUE)

DirtyIsSaved == [][OnlySwapCleans]_vars
=============================================================================
