----------------------------- MODULE VMMProofs -----------------------------
(* Proofs about the engine of the memory manager, for any number of frames *)
(* and pages and any counter width.                                        *)
EXTENDS VMM, SequenceTheorems, FiniteSetTheorems, TLAPS

TablesInv == TablesAgree /\ AbsentIsClean /\ FilledInOrder

IInv == TypeOK /\ TablesInv

-----------------------------------------------------------------------------
(* Lemmas about the constants and the counters.                            *)

LEMMA EmptyIsNoPage == EMPTY \notin Pages
  BY DEF EMPTY, Pages

LEMMA FrameZero == 0 \in Frames
  BY VMMAssumption DEF Frames

LEMMA BumpType ==
  ASSUME NEW c \in 0 .. CounterMod - 1, NEW b
  PROVE  Bump(c, b) \in 0 .. CounterMod - 1
  BY VMMAssumption DEF Bump

LEMMA StatsType ==
  ASSUME TypeOK, NEW dirty, NEW evicts, NEW paged
  PROVE  FaultStats(dirty, evicts, paged) \in [Counters -> 0 .. CounterMod - 1]
  BY BumpType DEF FaultStats, Counters, TypeOK

-----------------------------------------------------------------------------
(* What each page operation does to the entry it is given; the others it   *)
(* leaves alone.                                                           *)

LEMMA UnmapEntry ==
  ASSUME NEW pt \in [Pages -> PTE], NEW old \in Pages
  PROVE  /\ unmap(pt, old) \in [Pages -> PTE]
         /\ ~unmap(pt, old)[old].present
         /\ ~unmap(pt, old)[old].referenced
         /\ unmap(pt, old)[old].frame_number = pt[old].frame_number
         /\ unmap(pt, old)[old].modified <=> pt[old].modified
         /\ unmap(pt, old)[old].pagedout <=> pt[old].pagedout
         /\ \A q \in Pages \ {old} : unmap(pt, old)[q] = pt[q]
<1> DEFINE r == [pt[old] EXCEPT !.present = FALSE, !.referenced = FALSE]
<1>1. pt[old] \in PTE
  OBVIOUS
<1>2. r \in PTE
  BY <1>1 DEF PTE
<1>3. /\ ~r.present
      /\ ~r.referenced
      /\ r.frame_number = pt[old].frame_number
      /\ r.modified <=> pt[old].modified
      /\ r.pagedout <=> pt[old].pagedout
  BY <1>1 DEF PTE
<1>4. unmap(pt, old) = [pt EXCEPT ![old] = r]
  BY DEF unmap
<1> HIDE DEF r
<1> QED
  BY <1>2, <1>3, <1>4

LEMMA PageOutEntry ==
  ASSUME NEW pt \in [Pages -> PTE], NEW old \in Pages
  PROVE  /\ page_out(pt, old) \in [Pages -> PTE]
         /\ ~page_out(pt, old)[old].modified
         /\ ~page_out(pt, old)[old].referenced
         /\ page_out(pt, old)[old].pagedout
         /\ page_out(pt, old)[old].frame_number = pt[old].frame_number
         /\ page_out(pt, old)[old].present <=> pt[old].present
         /\ \A q \in Pages \ {old} : page_out(pt, old)[q] = pt[q]
<1> DEFINE r == [pt[old] EXCEPT !.modified = FALSE, !.referenced = FALSE,
                                !.pagedout = TRUE]
<1>1. pt[old] \in PTE
  OBVIOUS
<1>2. r \in PTE
  BY <1>1 DEF PTE
<1>3. /\ ~r.modified
      /\ ~r.referenced
      /\ r.pagedout
      /\ r.frame_number = pt[old].frame_number
      /\ r.present <=> pt[old].present
  BY <1>1 DEF PTE
<1>4. page_out(pt, old) = [pt EXCEPT ![old] = r]
  BY DEF page_out
<1> HIDE DEF r
<1> QED
  BY <1>2, <1>3, <1>4

LEMMA PageInEntry ==
  ASSUME NEW pt \in [Pages -> PTE], NEW p \in Pages
  PROVE  /\ page_in(pt, p) \in [Pages -> PTE]
         /\ ~page_in(pt, p)[p].modified
         /\ page_in(pt, p)[p].frame_number = pt[p].frame_number
         /\ page_in(pt, p)[p].pagedout <=> pt[p].pagedout
         /\ page_in(pt, p)[p].present <=> pt[p].present
         /\ page_in(pt, p)[p].referenced <=> pt[p].referenced
         /\ \A q \in Pages \ {p} : page_in(pt, p)[q] = pt[q]
<1> DEFINE r == [pt[p] EXCEPT !.modified = FALSE]
<1>1. pt[p] \in PTE
  OBVIOUS
<1>2. r \in PTE
  BY <1>1 DEF PTE
<1>3. /\ ~r.modified
      /\ r.frame_number = pt[p].frame_number
      /\ r.pagedout <=> pt[p].pagedout
      /\ r.present <=> pt[p].present
      /\ r.referenced <=> pt[p].referenced
  BY <1>1 DEF PTE
<1>4. page_in(pt, p) = [pt EXCEPT ![p] = r]
  BY DEF page_in
<1> HIDE DEF r
<1> QED
  BY <1>2, <1>3, <1>4

LEMMA MapEntry ==
  ASSUME NEW pt \in [Pages -> PTE], NEW p \in Pages,
         NEW index \in Frames
  PROVE  /\ map(pt, p, index) \in [Pages -> PTE]
         /\ map(pt, p, index)[p].present
         /\ map(pt, p, index)[p].referenced
         /\ map(pt, p, index)[p].frame_number = index
         /\ map(pt, p, index)[p].modified <=> pt[p].modified
         /\ map(pt, p, index)[p].pagedout <=> pt[p].pagedout
         /\ \A q \in Pages \ {p} : map(pt, p, index)[q] = pt[q]
<1> DEFINE r == [pt[p] EXCEPT !.present = TRUE, !.referenced = TRUE,
                              !.frame_number = index]
<1>1. pt[p] \in PTE
  OBVIOUS
<1>2. r \in PTE
  BY <1>1 DEF PTE
<1>3. /\ r.present
      /\ r.referenced
      /\ r.frame_number = index
      /\ r.modified <=> pt[p].modified
      /\ r.pagedout <=> pt[p].pagedout
  BY <1>1 DEF PTE
<1>4. map(pt, p, index) = [pt EXCEPT ![p] = r]
  BY DEF map
<1> HIDE DEF r
<1> QED
  BY <1>2, <1>3, <1>4

LEMMA TouchedEntry ==
  ASSUME NEW e \in PTE, NEW op
  PROVE  /\ Touched(e, op) \in PTE
         /\ Touched(e, op).modified <=> e.modified \/ op = WRITE
         /\ Touched(e, op).referenced
         /\ Touched(e, op).frame_number = e.frame_number
         /\ Touched(e, op).pagedout <=> e.pagedout
         /\ Touched(e, op).present <=> e.present
  BY DEF Touched, PTE

LEMMA AccessEntry ==
  ASSUME NEW pt \in [Pages -> PTE], NEW p \in Pages, NEW op
  PROVE  /\ Access(pt, op, p) \in [Pages -> PTE]
         /\ Access(pt, op, p)[p] = Touched(pt[p], op)
         /\ \A q \in Pages \ {p} : Access(pt, op, p)[q] = pt[q]
  BY TouchedEntry DEF Access

LEMMA ClearEntry ==
  ASSUME NEW pt \in [Pages -> PTE], NEW cleared
  PROVE  /\ ClearReferenced(pt, cleared) \in [Pages -> PTE]
         /\ \A q \in Pages :
              LET e == ClearReferenced(pt, cleared)[q]
              IN /\ e.present <=> pt[q].present
                 /\ e.modified <=> pt[q].modified
                 /\ e.pagedout <=> pt[q].pagedout
                 /\ e.frame_number = pt[q].frame_number
                 /\ e.referenced <=> (pt[q].referenced /\ q \notin cleared)
  BY DEF ClearReferenced, PTE

(* The victim leaves; a modified one is marked as paged out.               *)
LEMMA EvictedEntry ==
  ASSUME NEW pt \in [Pages -> PTE], NEW old \in Pages \cup {EMPTY}
  PROVE  /\ Evicted(pt, old) \in [Pages -> PTE]
         /\ old \in Pages =>
              LET e == Evicted(pt, old)[old]
              IN /\ ~e.present
                 /\ ~e.referenced
                 /\ ~e.modified
                 /\ e.pagedout <=> (pt[old].pagedout \/ pt[old].modified)
         /\ \A q \in Pages \ {old} : Evicted(pt, old)[q] = pt[q]
<1>1. CASE old = EMPTY
  BY <1>1, EmptyIsNoPage DEF Evicted
<1>2. CASE old \in Pages /\ pt[old].modified
  <2> DEFINE un == unmap(pt, old)
  <2>1. Evicted(pt, old) = page_out(un, old)
    BY <1>2, EmptyIsNoPage DEF Evicted
  <2>2. un \in [Pages -> PTE] /\ ~un[old].present
        /\ \A q \in Pages \ {old} : un[q] = pt[q]
    BY <1>2, UnmapEntry
  <2> HIDE DEF un
  <2> QED
    BY <1>2, <2>1, <2>2, PageOutEntry
<1>3. CASE old \in Pages /\ ~pt[old].modified
  <2>1. Evicted(pt, old) = unmap(pt, old)
    BY <1>3, EmptyIsNoPage DEF Evicted
  <2> QED
    BY <1>3, <2>1, UnmapEntry
<1> QED
  BY <1>1, <1>2, <1>3

LEMMA LoadedEntry ==
  ASSUME NEW pt \in [Pages -> PTE], NEW p \in Pages
  PROVE  /\ Loaded(pt, p) \in [Pages -> PTE]
         /\ Loaded(pt, p)[p].pagedout <=> pt[p].pagedout
         /\ Loaded(pt, p)[p].modified => pt[p].modified
         /\ \A q \in Pages \ {p} : Loaded(pt, p)[q] = pt[q]
  BY PageInEntry DEF Loaded

-----------------------------------------------------------------------------
(* What a fault leaves in the page table, entry by entry.                  *)
VictimGone(q) ==
  /\ ~page_table'[q].present
  /\ ~page_table'[q].referenced
  /\ ~page_table'[q].modified
  /\ page_table'[q].pagedout <=>
       (page_table[q].pagedout \/ page_table[q].modified)

Untouched(q, cleared) ==
  /\ page_table'[q].present <=> page_table[q].present
  /\ page_table'[q].modified <=> page_table[q].modified
  /\ page_table'[q].pagedout <=> page_table[q].pagedout
  /\ page_table'[q].frame_number = page_table[q].frame_number
  /\ page_table'[q].referenced <=>
       (page_table[q].referenced /\ q \notin cleared)

LEMMA FaultPageTable ==
  ASSUME TypeOK, TablesAgree, NEW op, NEW p \in Pages,
         NEW index \in Frames, NEW cleared,
         ServiceFault(op, p, index, cleared)
  PROVE  /\ page_table' \in [Pages -> PTE]
         /\ page_table'[p].present
         /\ page_table'[p].referenced
         /\ page_table'[p].frame_number = index
         /\ page_table'[p].pagedout <=> page_table[p].pagedout
         /\ page_table'[p].modified => page_table[p].modified \/ op = WRITE
         /\ op = WRITE => page_table'[p].modified
         /\ frame_table[index] # p
         /\ frame_table[index] \in Pages => VictimGone(frame_table[index])
         /\ \A q \in Pages \ {p, frame_table[index]} : Untouched(q, cleared)
<1> DEFINE pt   == ClearReferenced(page_table, cleared)
           old  == frame_table[index]
           free == Evicted(pt, old)
           load == Loaded(free, p)
           mapd == map(load, p, index)
<1>1. page_table \in [Pages -> PTE] /\ old \in Pages \cup {EMPTY}
  BY DEF TypeOK
<1>2. old # p
  BY EmptyIsNoPage DEF ServiceFault, TablesAgree
<1>3. page_table' = Access(mapd, op, p)
  BY DEF ServiceFault
<1>4. /\ pt \in [Pages -> PTE]
      /\ \A q \in Pages :
           /\ pt[q].present <=> page_table[q].present
           /\ pt[q].modified <=> page_table[q].modified
           /\ pt[q].pagedout <=> page_table[q].pagedout
           /\ pt[q].frame_number = page_table[q].frame_number
           /\ pt[q].referenced <=> (page_table[q].referenced /\ q \notin cleared)
  BY <1>1, ClearEntry
<1> HIDE DEF pt
<1>5. /\ free \in [Pages -> PTE]
      /\ old \in Pages =>
           /\ ~free[old].present
           /\ ~free[old].referenced
           /\ ~free[old].modified
           /\ free[old].pagedout <=> (pt[old].pagedout \/ pt[old].modified)
      /\ \A q \in Pages \ {old} : free[q] = pt[q]
  BY <1>1, <1>4, EvictedEntry
<1> HIDE DEF free
<1>6. /\ load \in [Pages -> PTE]
      /\ load[p].pagedout <=> free[p].pagedout
      /\ load[p].modified => free[p].modified
      /\ \A q \in Pages \ {p} : load[q] = free[q]
  BY <1>5, LoadedEntry
<1> HIDE DEF load
<1>7. /\ mapd \in [Pages -> PTE]
      /\ mapd[p].present
      /\ mapd[p].frame_number = index
      /\ mapd[p].pagedout <=> load[p].pagedout
      /\ mapd[p].modified <=> load[p].modified
      /\ \A q \in Pages \ {p} : mapd[q] = load[q]
  BY <1>6, MapEntry
<1> HIDE DEF mapd
<1>8. /\ page_table' \in [Pages -> PTE]
      /\ page_table'[p].present
      /\ page_table'[p].referenced
      /\ page_table'[p].frame_number = index
      /\ page_table'[p].pagedout <=> mapd[p].pagedout
      /\ page_table'[p].modified <=> mapd[p].modified \/ op = WRITE
      /\ \A q \in Pages \ {p} : page_table'[q] = mapd[q]
  BY <1>3, <1>7, AccessEntry, TouchedEntry
<1>9. free[p] = pt[p]
  BY <1>2, <1>5
<1>10. page_table'[p].modified => page_table[p].modified \/ op = WRITE
  BY <1>4, <1>6, <1>7, <1>8, <1>9
<1>11. op = WRITE => page_table'[p].modified
  BY <1>8
<1>12. \A q \in Pages \ {p} : page_table'[q] = free[q]
  BY <1>6, <1>7, <1>8
<1>13. page_table'[p].pagedout <=> page_table[p].pagedout
  BY <1>4, <1>6, <1>7, <1>8, <1>9
<1>14. \A q \in Pages \ {p, old} : page_table'[q] = pt[q]
  BY <1>5, <1>12
<1>15. old \in Pages => page_table'[old] = free[old]
  BY <1>2, <1>12
<1>16. old \in Pages => VictimGone(old)
  BY <1>4, <1>5, <1>15 DEF VictimGone
<1>17. \A q \in Pages \ {p, old} : Untouched(q, cleared)
  BY <1>4, <1>14 DEF Untouched
<1> QED
  BY <1>2, <1>8, <1>10, <1>11, <1>13, <1>16, <1>17

LEMMA HitPageTable ==
  ASSUME TypeOK, NEW op, NEW p \in Pages, Hit(op, p)
  PROVE  /\ page_table' \in [Pages -> PTE]
         /\ page_table'[p].referenced
         /\ page_table'[p].present <=> page_table[p].present
         /\ page_table'[p].frame_number = page_table[p].frame_number
         /\ page_table'[p].pagedout <=> page_table[p].pagedout
         /\ page_table'[p].modified <=> page_table[p].modified \/ op = WRITE
         /\ \A q \in Pages \ {p} : page_table'[q] = page_table[q]
  BY AccessEntry, TouchedEntry DEF Hit, TypeOK

-----------------------------------------------------------------------------
(* The inductive invariant: the tables agree, absent pages are clean and   *)
(* frames fill up in order.                                                *)

LEMMA InitInv == Init => IInv
<1> SUFFICES ASSUME Init PROVE IInv
  OBVIOUS
<1>1. TypeOK
  BY FrameZero, VMMAssumption, EmptyIsNoPage DEF Init, TypeOK, PTE
<1>2. TablesInv
  BY DEF Init, TablesInv, TablesAgree, AbsentIsClean, FilledInOrder
<1> QED
  BY <1>1, <1>2 DEF IInv

LEMMA FaultInv ==
  ASSUME IInv, NEW op \in Operations, NEW p \in Pages, NEW index \in Frames,
         NEW cleared \in SUBSET Resident, SelectFrame(index, cleared),
         ServiceFault(op, p, index, cleared)
  PROVE  IInv'
<1> USE DEF IInv, TablesInv
<1> DEFINE old == frame_table[index]
<1>1. /\ page_table' \in [Pages -> PTE]
      /\ page_table'[p].present
      /\ page_table'[p].frame_number = index
      /\ old # p
      /\ old \in Pages => VictimGone(old)
      /\ \A q \in Pages \ {p, old} : Untouched(q, cleared)
  BY FaultPageTable
<1>2. frame_table' = [frame_table EXCEPT ![index] = p] /\ ~page_table[p].present
  BY DEF ServiceFault
<1>3. frame_table \in [Frames -> Pages \cup {EMPTY}]
  BY DEF TypeOK
<1>4. TypeOK'
  <2>1. stats' \in [Counters -> 0 .. CounterMod - 1]
    BY StatsType DEF ServiceFault
  <2>2. status' \in {"running", "done", "failed"}
    BY DEF TypeOK, ServiceFault
  <2>3. frame_table' \in [Frames -> Pages \cup {EMPTY}]
    BY <1>2, <1>3
  <2> QED
    BY <1>1, <2>1, <2>2, <2>3 DEF TypeOK
<1>5. TablesAgree'
  <2>1. ASSUME NEW f \in Frames, frame_table'[f] # EMPTY
        PROVE  /\ page_table'[frame_table'[f]].present
               /\ page_table'[frame_table'[f]].frame_number = f
    <3>1. CASE f = index
      BY <1>1, <1>2, <1>3, <3>1
    <3>2. CASE f # index
      <4>1. frame_table'[f] = frame_table[f] /\ frame_table[f] \in Pages
        BY <1>2, <1>3, <2>1, <3>2
      <4>2. frame_table[f] # old /\ frame_table[f] # p
        BY <1>2, <2>1, <3>2, <4>1 DEF TablesAgree
      <4> QED
        BY <1>1, <2>1, <4>1, <4>2 DEF TablesAgree, Untouched
    <3> QED
      BY <3>1, <3>2
  <2>2. ASSUME NEW q \in Pages, page_table'[q].present
        PROVE  frame_table'[page_table'[q].frame_number] = q
    <3>1. CASE q = p
      BY <1>1, <1>2, <1>3, <3>1
    <3>2. CASE q # p
      <4>1. q # old
        BY <1>1, <2>2 DEF VictimGone
      <4>2. /\ page_table[q].present
            /\ page_table'[q].frame_number = page_table[q].frame_number
        BY <1>1, <2>2, <3>2, <4>1 DEF Untouched
      <4>3. frame_table[page_table[q].frame_number] = q
        BY <4>2 DEF TablesAgree
      <4>4. page_table[q].frame_number \in Frames
        BY DEF TypeOK, PTE
      <4> QED
        BY <1>2, <1>3, <4>1, <4>2, <4>3, <4>4
    <3> QED
      BY <3>1, <3>2
  <2> QED
    BY <2>1, <2>2 DEF TablesAgree
<1>6. AbsentIsClean'
  <2> SUFFICES ASSUME NEW q \in Pages, ~page_table'[q].present
               PROVE  ~page_table'[q].modified /\ ~page_table'[q].referenced
    BY DEF AbsentIsClean
  <2>1. CASE q = old
    BY <1>1, <2>1 DEF VictimGone
  <2>2. CASE q # old
    <3>1. q # p
      BY <1>1
    <3> QED
      BY <1>1, <2>2, <3>1 DEF AbsentIsClean, Untouched
  <2> QED
    BY <2>1, <2>2
<1>7. FilledInOrder'
  <2>1. FreeFrames # {} => frame_table[index] = EMPTY
                           /\ \A f \in Frames : frame_table[f] = EMPTY => index <= f
    BY DEF SelectFrame, FreeFrames
  <2> SUFFICES ASSUME NEW f \in Frames, NEW g \in Frames, f < g,
                      frame_table'[f] = EMPTY
               PROVE  frame_table'[g] = EMPTY
    BY DEF FilledInOrder
  <2>2. f # index /\ frame_table[f] = EMPTY
    BY <1>2, <1>3, EmptyIsNoPage
  <2>3. frame_table[g] = EMPTY
    BY <2>2 DEF FilledInOrder
  <2>4. index <= f
    BY <2>1, <2>2 DEF FreeFrames
  <2>5. g # index
    BY <2>4 DEF Frames
  <2> QED
    BY <1>2, <1>3, <2>3, <2>5
<1> QED
  BY <1>4, <1>5, <1>6, <1>7

LEMMA HitInv ==
  ASSUME IInv, NEW op \in Operations, NEW p \in Pages, Hit(op, p)
  PROVE  IInv'
<1> USE DEF IInv, TablesInv
<1>1. /\ page_table' \in [Pages -> PTE]
      /\ page_table'[p].present <=> page_table[p].present
      /\ page_table'[p].frame_number = page_table[p].frame_number
      /\ \A q \in Pages \ {p} : page_table'[q] = page_table[q]
  BY HitPageTable
<1>2. page_table[p].present /\ frame_table' = frame_table
  BY DEF Hit
<1>3. TypeOK'
  <2>1. stats' \in [Counters -> 0 .. CounterMod - 1]
    BY BumpType DEF TypeOK, Hit, Counters
  <2> QED
    BY <1>1, <2>1 DEF TypeOK, Hit
<1>4. TablesAgree'
  BY <1>1, <1>2, EmptyIsNoPage DEF TablesAgree, TypeOK
<1>5. AbsentIsClean'
  BY <1>1, <1>2 DEF AbsentIsClean
<1>6. FilledInOrder'
  BY <1>2 DEF FilledInOrder
<1> QED
  BY <1>3, <1>4, <1>5, <1>6

LEMMA StepInv == IInv /\ [Next]_vars => IInv'
<1> SUFFICES ASSUME IInv, [Next]_vars PROVE IInv'
  OBVIOUS
<1>1. ASSUME NEW op \in Operations, NEW p \in Pages, Fault(op, p)
      PROVE  IInv'
  BY <1>1, FaultInv DEF Fault
<1>2. ASSUME NEW op \in Operations, NEW p \in Pages, Hit(op, p)
      PROVE  IInv'
  BY <1>2, HitInv
<1>3. CASE EndOfInput
  BY <1>3 DEF EndOfInput, IInv, TypeOK, TablesInv, TablesAgree, AbsentIsClean,
              FilledInOrder
<1>4. CASE BadInstruction
  BY <1>4 DEF BadInstruction, IInv, TypeOK, TablesInv, TablesAgree,
              AbsentIsClean, FilledInOrder
<1>5. CASE UNCHANGED vars
  BY <1>5 DEF vars, IInv, TypeOK, TablesInv, TablesAgree, AbsentIsClean,
              FilledInOrder
<1> QED
  BY <1>1, <1>2, <1>3, <1>4, <1>5 DEF Next, Exited

THEOREM Invariance == Spec => []IInv
  BY InitInv, StepInv, PTL DEF Spec

(* The type invariant of the engine.                                       *)
THEOREM TypeCorrect == Spec => []TypeOK
  BY Invariance, PTL DEF IInv

(* Whatever the policy chooses, the frame table and the page table stay    *)
(* one partial bijection although unmap never resets the frame table.      *)
THEOREM TablesAlwaysAgree == Spec => []TablesAgree
  BY Invariance, PTL DEF IInv, TablesInv

(* Pages out of memory never carry a modified or a referenced bit.         *)
THEOREM AbsentAlwaysClean == Spec => []AbsentIsClean
  BY Invariance, PTL DEF IInv, TablesInv

(* The free frames always are the upper end of the frame table.            *)
THEOREM AlwaysFilledInOrder == Spec => []FilledInOrder
  BY Invariance, PTL DEF IInv, TablesInv

-----------------------------------------------------------------------------
LEMMA FaultCleansToSwap ==
  ASSUME IInv, NEW op \in Operations, NEW p \in Pages, NEW index \in Frames,
         NEW cleared \in SUBSET Resident, ServiceFault(op, p, index, cleared)
  PROVE  OnlySwapCleans
<1> DEFINE old == frame_table[index]
<1>1. /\ old \in Pages => VictimGone(old)
      /\ \A q \in Pages \ {p, old} : Untouched(q, cleared)
  BY FaultPageTable DEF IInv, TablesInv
<1> SUFFICES ASSUME NEW q \in Pages, page_table[q].modified,
                    ~page_table'[q].modified
             PROVE  /\ page_table[q].present /\ ~page_table'[q].present
                    /\ page_table'[q].pagedout
                    /\ stats'.pageouts = Bump(stats.pageouts, TRUE)
  BY DEF OnlySwapCleans
<1>2. page_table[q].present
  BY DEF IInv, TablesInv, AbsentIsClean
<1>3. q = old
  <2>1. q # p
    BY <1>2 DEF ServiceFault
  <2> QED
    BY <1>1, <2>1 DEF Untouched
<1>4. ~page_table'[q].present /\ page_table'[q].pagedout
  BY <1>1, <1>3 DEF VictimGone
<1>5. stats'.pageouts = Bump(stats.pageouts, TRUE)
  <2>1. stats \in [Counters -> 0 .. CounterMod - 1]
    BY DEF IInv, TypeOK
  <2>2. ClearReferenced(page_table, cleared)[q].modified
    BY ClearEntry DEF IInv, TypeOK
  <2>3. PICK paged : stats' = FaultStats(TRUE, TRUE, paged)
    BY <1>3, <2>2, EmptyIsNoPage DEF ServiceFault, FaultStats, Bump
  <2> QED
    BY <2>1, <2>3 DEF FaultStats, Counters
<1> QED
  BY <1>2, <1>4, <1>5

LEMMA StepCleansToSwap == IInv /\ [Next]_vars => [OnlySwapCleans]_vars
<1> SUFFICES ASSUME IInv, Next PROVE OnlySwapCleans \/ UNCHANGED vars
  OBVIOUS
<1>1. ASSUME NEW op \in Operations, NEW p \in Pages, Fault(op, p)
      PROVE  OnlySwapCleans
  BY <1>1, FaultCleansToSwap DEF Fault
<1>2. ASSUME NEW op \in Operations, NEW p \in Pages, Hit(op, p)
      PROVE  OnlySwapCleans
  BY <1>2, HitPageTable DEF OnlySwapCleans, IInv
<1>3. CASE EndOfInput \/ BadInstruction
  BY <1>3 DEF EndOfInput, BadInstruction, OnlySwapCleans
<1> QED
  BY <1>1, <1>2, <1>3 DEF Next, Exited

(* A modified page is never dropped: its modified bit falls only in the    *)
(* step that writes it to swap and counts the OUT.                         *)
THEOREM DirtyAlwaysSaved == Spec => DirtyIsSaved
  BY Invariance, StepCleansToSwap, PTL DEF Spec, DirtyIsSaved

-----------------------------------------------------------------------------
(* Remainders, for a divisor that is not a numeral.                        *)

LEMMA Division ==
  ASSUME NEW m \in Nat \ {0}, NEW a \in Int
  PROVE  a \div m \in Int /\ a % m \in 0 .. m - 1 /\ a = m * (a \div m) + (a % m)
  OBVIOUS

LEMMA Multiple ==
  ASSUME NEW m \in Nat \ {0}, NEW d \in Nat \ {0}
  PROVE  m * d >= m
  OBVIOUS

LEMMA Remainder ==
  ASSUME NEW m \in Nat \ {0}, NEW q \in Int, NEW r \in 0 .. m - 1
  PROVE  (m * q + r) % m = r
<1> DEFINE a == m * q + r
<1>0. a \in Int
  OBVIOUS
<1>1. PICK q2 \in Int, r2 \in 0 .. m - 1 : a = m * q2 + r2 /\ a % m = r2
  BY <1>0, Division
<1>2. m * (q - q2) = r2 - r /\ m * (q2 - q) = r - r2
  BY <1>1
<1>3. CASE q = q2
  BY <1>1, <1>2, <1>3
<1>4. CASE q > q2
  <2>1. q - q2 \in Nat \ {0}
    BY <1>4
  <2>2. m * (q - q2) >= m
    BY <2>1, Multiple
  <2> QED
    BY <1>2, <2>2
<1>5. CASE q < q2
  <2>1. q2 - q \in Nat \ {0}
    BY <1>5
  <2>2. m * (q2 - q) >= m
    BY <2>1, Multiple
  <2> QED
    BY <1>2, <2>2
<1> QED
  BY <1>3, <1>4, <1>5

LEMMA RemainderOfSum ==
  ASSUME NEW m \in Nat \ {0}, NEW a \in Int, NEW b \in Int
  PROVE  ((a % m) + b) % m = (a + b) % m
<1>1. PICK q \in Int, r \in 0 .. m - 1 : a = m * q + r /\ a % m = r
  BY Division
<1> DEFINE s == r + b
<1>2. s \in Int
  OBVIOUS
<1>3. PICK q2 \in Int, r2 \in 0 .. m - 1 : s = m * q2 + r2 /\ s % m = r2
  BY <1>2, Division
<1>4. a + b = m * (q + q2) + r2
  BY <1>1, <1>3
<1>5. (m * (q + q2) + r2) % m = r2
  BY Remainder
<1> QED
  BY <1>1, <1>3, <1>4, <1>5

(* A counter that follows the sum of two when one of them is counted up.   *)
LEMMA SumFollows ==
  ASSUME NEW m \in Nat \ {0}, NEW a \in Int, NEW b \in Int
  PROVE  /\ (((a + b) % m) + 1) % m = (((a + 1) % m) + b) % m
         /\ (((a + b) % m) + 1) % m = (a + ((b + 1) % m)) % m
         /\ (((a + b) % m) + 1) % m = (a + (b + 1)) % m
<1>1. a + b \in Int /\ a + 1 \in Int /\ b + 1 \in Int /\ 1 \in Int
      /\ (b + 1) % m \in Int
  BY Division
<1>2. (((a + b) % m) + 1) % m = ((a + b) + 1) % m
  BY <1>1, RemainderOfSum, Zenon
<1>3. (((a + 1) % m) + b) % m = ((a + 1) + b) % m
  BY <1>1, RemainderOfSum, Zenon
<1>4. (((b + 1) % m) + a) % m = ((b + 1) + a) % m
  BY <1>1, RemainderOfSum, Zenon
<1>5. /\ ((b + 1) % m) + a = a + ((b + 1) % m)
      /\ (a + b) + 1 = (a + 1) + b /\ (a + b) + 1 = (b + 1) + a
      /\ (a + b) + 1 = a + (b + 1)
  BY <1>1
<1> QED
  BY ONLY <1>2, <1>3, <1>4, <1>5, Zenon

-----------------------------------------------------------------------------
(* The counters: a fault maps one page more, pages it in or zeroes it, and *)
(* unmaps the page it replaces; the number of resident pages follows.      *)

LEMMA ResidentFinite ==
  IsFiniteSet(Resident) /\ Cardinality(Resident) \in Nat
<1>1. IsFiniteSet(Pages)
  BY VMMAssumption, FS_Interval DEF Pages
<1>2. IsFiniteSet(Resident)
  BY <1>1, FS_Subset DEF Resident
<1> QED
  BY <1>2, FS_CardinalityType

LEMMA ResidentAfterFault ==
  ASSUME IInv, NEW op, NEW p \in Pages, NEW index \in Frames,
         NEW cleared, ServiceFault(op, p, index, cleared)
  PROVE  Cardinality(Resident)' =
           IF frame_table[index] = EMPTY THEN Cardinality(Resident) + 1
           ELSE Cardinality(Resident)
<1> DEFINE old == frame_table[index]
           kept == Resident \ {old}
<1>1. /\ page_table'[p].present /\ ~page_table[p].present
      /\ old \in Pages => VictimGone(old)
      /\ \A q \in Pages \ {p, old} : Untouched(q, cleared)
  BY FaultPageTable DEF IInv, TablesInv, ServiceFault
<1>2. old \in Pages \cup {EMPTY} /\ (old # EMPTY => page_table[old].present)
  BY DEF IInv, TypeOK, TablesInv, TablesAgree
<1>3. Resident' = kept \cup {p}
  BY <1>1 DEF Resident, VictimGone, Untouched
<1>4. p \notin Resident
  BY <1>1 DEF Resident
<1>5. /\ IsFiniteSet(kept)
      /\ Cardinality(kept) = IF old \in Resident THEN Cardinality(Resident) - 1
                             ELSE Cardinality(Resident)
  BY ResidentFinite, FS_RemoveElement
<1>6. Cardinality(kept \cup {p}) = Cardinality(kept) + 1
  BY <1>4, <1>5, FS_AddElement
<1>7. old \in Resident <=> old # EMPTY
  BY <1>2, EmptyIsNoPage DEF Resident
<1> QED
  BY <1>3, <1>5, <1>6, <1>7, ResidentFinite

LEMMA FaultAccounting ==
  ASSUME IInv, Accounting, NEW op, NEW p \in Pages, NEW index \in Frames,
         NEW cleared, ServiceFault(op, p, index, cleared)
  PROVE  Accounting'
<1> DEFINE evicts == frame_table[index] # EMPTY
           paged  == page_table[p].pagedout
<1>0. CounterMod \in Nat \ {0}
  BY VMMAssumption
<1>1. stats \in [Counters -> 0 .. CounterMod - 1]
  BY DEF IInv, TypeOK
<1>2. PICK dirty : stats' = FaultStats(dirty, evicts, paged)
  BY DEF ServiceFault
<1>3. /\ stats'.maps = (stats.maps + 1) % CounterMod
      /\ stats'.unmaps = IF evicts THEN (stats.unmaps + 1) % CounterMod
                         ELSE stats.unmaps
      /\ stats'.pageins = IF paged THEN (stats.pageins + 1) % CounterMod
                          ELSE stats.pageins
      /\ stats'.zeros = IF paged THEN stats.zeros
                        ELSE (stats.zeros + 1) % CounterMod
  BY <1>1, <1>2 DEF FaultStats, Bump, Counters
<1>4. /\ stats.maps \in Int /\ stats.unmaps \in Int /\ stats.pageins \in Int
      /\ stats.zeros \in Int
  BY <1>0, <1>1 DEF Counters
<1> DEFINE n == Cardinality(Resident)
<1>5. n \in Int /\ Cardinality(Resident)' = IF evicts THEN n ELSE n + 1
  BY ResidentFinite, ResidentAfterFault
<1> HIDE DEF n, evicts, paged
<1>6. stats.maps = (stats.pageins + stats.zeros) % CounterMod
      /\ stats.maps = (stats.unmaps + n) % CounterMod
  BY DEF Accounting, n
<1>7. stats'.maps = (stats'.pageins + stats'.zeros) % CounterMod
  <2>1. /\ (stats.maps + 1) % CounterMod =
             (((stats.pageins + 1) % CounterMod) + stats.zeros) % CounterMod
        /\ (stats.maps + 1) % CounterMod =
             (stats.pageins + ((stats.zeros + 1) % CounterMod)) % CounterMod
    <3> DEFINE a == stats.pageins
               b == stats.zeros
               c == stats.maps
    <3>1. a \in Int /\ b \in Int /\ c \in Int /\ c = (a + b) % CounterMod
      BY <1>4, <1>6
    <3> HIDE DEF a, b, c
    <3>2. (c + 1) % CounterMod = (((a + 1) % CounterMod) + b) % CounterMod
      BY <1>0, <3>1, SumFollows, Zenon
    <3>3. (c + 1) % CounterMod = (a + ((b + 1) % CounterMod)) % CounterMod
      BY <1>0, <3>1, SumFollows, Zenon
    <3> QED
      BY <3>2, <3>3 DEF a, b, c
  <2> QED
    BY <1>3, <2>1, Zenon
<1>8. stats'.maps = (stats'.unmaps + Cardinality(Resident)') % CounterMod
  <2>1. /\ (stats.maps + 1) % CounterMod =
             (((stats.unmaps + 1) % CounterMod) + n) % CounterMod
        /\ (stats.maps + 1) % CounterMod = (stats.unmaps + (n + 1)) % CounterMod
    <3> DEFINE a == stats.unmaps
               c == stats.maps
    <3>1. a \in Int /\ n \in Int /\ c \in Int /\ c = (a + n) % CounterMod
      BY <1>4, <1>5, <1>6
    <3> HIDE DEF a, c
    <3>2. (c + 1) % CounterMod = (((a + 1) % CounterMod) + n) % CounterMod
      BY <1>0, <3>1, SumFollows, Zenon
    <3>3. (c + 1) % CounterMod = (a + (n + 1)) % CounterMod
      BY <1>0, <3>1, SumFollows, Zenon
    <3> QED
      BY <3>2, <3>3 DEF a, c
  <2> QED
    BY <1>3, <1>5, <2>1, Zenon
<1> QED
  BY <1>7, <1>8 DEF Accounting

LEMMA InitAccounting == Init => Accounting
<1> SUFFICES ASSUME Init PROVE Accounting
  OBVIOUS
<1>1. stats.maps = 0 /\ stats.unmaps = 0 /\ stats.pageins = 0 /\ stats.zeros = 0
  BY DEF Init, Counters
<1>2. Cardinality(Resident) = 0
  <2>1. Resident = {}
    BY DEF Init, Resident
  <2> QED
    BY <2>1, FS_EmptySet
<1>3. 0 % CounterMod = 0
  BY VMMAssumption
<1> QED
  BY <1>1, <1>2, <1>3 DEF Accounting

LEMMA StepAccounting == IInv /\ Accounting /\ [Next]_vars => Accounting'
<1> SUFFICES ASSUME IInv, Accounting, [Next]_vars PROVE Accounting'
  OBVIOUS
<1>1. ASSUME NEW op \in Operations, NEW p \in Pages, Fault(op, p)
      PROVE  Accounting'
  BY <1>1, FaultAccounting DEF Fault
<1>2. ASSUME NEW op \in Operations, NEW p \in Pages, Hit(op, p)
      PROVE  Accounting'
  <2>1. Resident' = Resident
    BY <1>2, HitPageTable DEF Resident, IInv
  <2>2. /\ stats'.maps = stats.maps /\ stats'.unmaps = stats.unmaps
        /\ stats'.pageins = stats.pageins /\ stats'.zeros = stats.zeros
    BY <1>2 DEF Hit, IInv, TypeOK, Counters
  <2> QED
    BY <2>1, <2>2 DEF Accounting
<1>3. CASE UNCHANGED <<page_table, stats>>
  BY <1>3 DEF Accounting, Resident
<1> QED
  BY <1>1, <1>2, <1>3 DEF Next, EndOfInput, BadInstruction, Exited, vars

(* The counters of the summary line account for the tables, also after     *)
(* they wrapped at the width of an unsigned.                               *)
THEOREM CountersAlwaysAccount == Spec => []Accounting
  BY Invariance, InitAccounting, StepAccounting, PTL DEF Spec

-----------------------------------------------------------------------------
(* Least elements, and positions that go round.                            *)

LEMMA LeastNatural ==
  ASSUME NEW S \in SUBSET Nat, S # {}
  PROVE  \E n \in S : \A m \in S : n <= m
<1> DEFINE R == {ss \in Nat \X Nat : ss[1] < ss[2]}
<1>1. IsWellFoundedOn(R, Nat)
  BY NatLessThanWellFounded DEF OpToRel
<1> HIDE DEF R
<1>2. PICK n \in S : \A m \in S : ~ (<<m, n>> \in R)
  BY <1>1, WFMin
<1>3. \A m \in S : ~ (m < n)
  BY <1>2 DEF R
<1> QED
  BY <1>3

LEMMA LeastIsChosen ==
  ASSUME NEW S \in SUBSET Nat, S # {}
  PROVE  LET least == CHOOSE x \in S : \A y \in S : x =< y
         IN  least \in S /\ \A y \in S : least <= y
  BY LeastNatural

\* The place that is h places behind i, going round n places 0, ..., n - 1.
Around(h, i, n) == IF h + i < n THEN h + i ELSE h + i - n

LEMMA RemainderOnce ==
  ASSUME NEW n \in Nat \ {0}, NEW a \in Nat, a < 2 * n
  PROVE  a % n = IF a < n THEN a ELSE a - n
<1>1. CASE a < n
  <2>1. (n * 0 + a) % n = a
    BY <1>1, Remainder
  <2> QED
    BY <1>1, <2>1
<1>2. CASE a >= n
  <2>1. a - n \in 0 .. n - 1
    BY <1>2
  <2>2. (n * 1 + (a - n)) % n = a - n
    BY <2>1, Remainder
  <2> QED
    BY <1>2, <2>2
<1> QED
  BY <1>1, <1>2

LEMMA AroundIsRemainder ==
  ASSUME NEW n \in Nat \ {0}, NEW h \in 0 .. n - 1, NEW i \in 0 .. n
  PROVE  (h + i) % n = Around(h, i, n)
<1> DEFINE a == h + i
<1>1. a \in Nat /\ a < 2 * n
  OBVIOUS
<1> HIDE DEF a
<1>2. a % n = IF a < n THEN a ELSE a - n
  BY <1>1, RemainderOnce
<1> QED
  BY <1>2 DEF a, Around

\* Every place is ahead of h by less than one round.
LEMMA AroundReaches ==
  ASSUME NEW n \in Nat \ {0}, NEW h \in 0 .. n - 1, NEW j \in 0 .. n - 1
  PROVE  \E i \in 0 .. n - 1 : Around(h, i, n) = j
<1>1. CASE h <= j
  <2>1. j - h \in 0 .. n - 1 /\ Around(h, j - h, n) = j
    BY <1>1 DEF Around
  <2> QED
    BY <2>1
<1>2. CASE j < h
  <2>1. j - h + n \in 0 .. n - 1 /\ Around(h, j - h + n, n) = j
    BY <1>2 DEF Around
  <2> QED
    BY <2>1
<1> QED
  BY <1>1, <1>2

-----------------------------------------------------------------------------
(* The frames that are free, and steps of the engine a policy may take.    *)

Lowest(h, free) == free # {} => h \in free /\ \A f \in free : h <= f

LEMMA FaultUsesFrame ==
  ASSUME IInv, NEW op, NEW p \in Pages, NEW index \in Frames, NEW cleared,
         ServiceFault(op, p, index, cleared)
  PROVE  /\ FreeFrames' = FreeFrames \ {index}
         /\ frame_table'[index] = p
         /\ \A f \in Frames \ {index} : frame_table'[f] = frame_table[f]
         /\ frame_table \in [Frames -> Pages \cup {EMPTY}]
<1>1. /\ frame_table' = [frame_table EXCEPT ![index] = p]
      /\ frame_table \in [Frames -> Pages \cup {EMPTY}]
  BY DEF ServiceFault, IInv, TypeOK
<1> QED
  BY <1>1, EmptyIsNoPage DEF FreeFrames

\* The frame after the lowest free one is the lowest free one next.
LEMMA LowestAdvances ==
  ASSUME IInv, NEW h \in Frames, Lowest(h, FreeFrames), FreeFrames # {}
  PROVE  Lowest(Around(h, 1, NumFrames), FreeFrames \ {h})
<1> SUFFICES ASSUME NEW g \in FreeFrames \ {h}
             PROVE  /\ Around(h, 1, NumFrames) \in FreeFrames \ {h}
                    /\ \A f \in FreeFrames \ {h} : Around(h, 1, NumFrames) <= f
  BY DEF Lowest
<1>1. /\ h \in FreeFrames /\ NumFrames \in Nat \ {0}
      /\ \A f \in FreeFrames : f \in Frames /\ h <= f
  BY VMMAssumption DEF Lowest, FreeFrames
<1>2. h + 1 <= g /\ g < NumFrames
  BY <1>1 DEF Frames
<1>3. Around(h, 1, NumFrames) = h + 1 /\ h + 1 \in Frames
  BY <1>1, <1>2 DEF Around, Frames
<1>4. h + 1 \in FreeFrames
  BY <1>1, <1>3 DEF FreeFrames, IInv, TablesInv, FilledInOrder, Frames
<1> QED
  BY <1>1, <1>3, <1>4 DEF Frames

LEMMA LowestOfNone ==
  ASSUME FreeFrames = {}, NEW h, NEW index
  PROVE  Lowest(h, FreeFrames \ {index})
  BY DEF Lowest

\* Frames and resident pages name each other.
LEMMA FullMeansResident ==
  ASSUME IInv, FreeFrames = {}
  PROVE  /\ \A f \in Frames : frame_table[f] \in Resident
                             /\ page_table[frame_table[f]].frame_number = f
         /\ \A q \in Resident : page_table[q].frame_number \in Frames
                               /\ frame_table[page_table[q].frame_number] = q
         /\ Resident # {}
  BY FrameZero
     DEF IInv, TypeOK, TablesInv, TablesAgree, FreeFrames, Resident, PTE

LEMMA LowestMayBeTaken ==
  ASSUME IInv, NEW h, Lowest(h, FreeFrames), FreeFrames # {}
  PROVE  h \in Frames /\ SelectFrame(h, {}) /\ SparesReferenced(h)
  BY DEF Lowest, FreeFrames, SelectFrame, SparesReferenced

LEMMA AnyMayBeTaken ==
  ASSUME FreeFrames = {}, NEW index, NEW cleared
  PROVE  SelectFrame(index, cleared)
  BY DEF SelectFrame

\* A fault serviced with a choice the engine allows is a step of the engine.
LEMMA AllowedFault ==
  ASSUME IInv, NEW op \in Operations, NEW p \in Pages, NEW index \in Frames,
         NEW cleared \in SUBSET Resident, SelectFrame(index, cleared),
         ServiceFault(op, p, index, cleared)
  PROVE  /\ Fault(op, p)
         /\ SparesReferenced(index) => RefBitFault(op, p)
         /\ Next
         /\ SparesReferenced(index) => RefBitNext
         /\ IInv'
<1>1. Fault(op, p) /\ (SparesReferenced(index) => RefBitFault(op, p))
  BY DEF Fault, RefBitFault, ServiceFault
<1>2. Next /\ (SparesReferenced(index) => RefBitNext)
  BY <1>1 DEF Next, RefBitNext
<1> QED
  BY <1>1, <1>2, StepInv

\* So are the hits and the ways to stop, whatever the policy.
Quiet == (\E op \in Operations, p \in Pages : Hit(op, p))
         \/ EndOfInput \/ BadInstruction \/ Exited

LEMMA QuietStep ==
  ASSUME IInv, Quiet
  PROVE  Next /\ RefBitNext /\ IInv' /\ FreeFrames' = FreeFrames
         /\ frame_table' = frame_table
<1>1. Next /\ RefBitNext
  BY DEF Quiet, Next, RefBitNext
<1>2. frame_table' = frame_table
  BY DEF Quiet, Hit, EndOfInput, BadInstruction, Exited, vars
<1> QED
  BY <1>1, <1>2, StepInv DEF FreeFrames

-----------------------------------------------------------------------------
(* Queues of all the frames, in turn.                                      *)

\* The queue whose front is frame h: all the frames, in turn.
Queue(h) == [i \in 1 .. NumFrames |-> Around(h, i - 1, NumFrames) + 1]

LEMMA QueueFront ==
  ASSUME NEW h \in Frames
  PROVE  /\ Queue(h)[1] = h + 1 /\ Len(Queue(h)) = NumFrames
         /\ Head(Queue(h)) = h + 1
         /\ Queue(h) \in Seq(Int)
         /\ DOMAIN Queue(h) = 1 .. NumFrames
         /\ Around(h, 1, NumFrames) \in Frames
<1>1. NumFrames \in Nat \ {0} /\ h \in 0 .. NumFrames - 1
  BY VMMAssumption DEF Frames
<1>2. Around(h, 1, NumFrames) \in Frames
  BY <1>1 DEF Around, Frames
<1>3. Queue(h)[1] = h + 1 /\ DOMAIN Queue(h) = 1 .. NumFrames
  BY <1>1 DEF Queue, Around
<1>4. Queue(h) \in Seq(Int)
  BY <1>1 DEF Queue, Around
<1>5. Len(Queue(h)) = NumFrames
  BY <1>1, <1>3, <1>4
<1> QED
  BY <1>1, <1>2, <1>3, <1>4, <1>5

LEMMA QueueStart ==
  ASSUME Init, NEW q, q = [i \in 1 .. NumFrames |-> i]
  PROVE  q = Queue(0) /\ 0 \in Frames /\ Lowest(0, FreeFrames)
<1>1. NumFrames \in Nat \ {0}
  BY VMMAssumption
<1>2. \A i \in 1 .. NumFrames : Around(0, i - 1, NumFrames) + 1 = i
  BY <1>1 DEF Around
<1>3. FreeFrames = Frames
  BY DEF Init, FreeFrames
<1> QED
  BY <1>1, <1>2, <1>3 DEF Queue, Lowest, Frames

LEMMA QueueTurns ==
  ASSUME NEW h \in Frames
  PROVE  Append(Tail(Queue(h)), Head(Queue(h))) = Queue(Around(h, 1, NumFrames))
<1> DEFINE g == Around(h, 1, NumFrames)
           r == Append(Tail(Queue(h)), Head(Queue(h)))
<1>1. NumFrames \in Nat \ {0} /\ h \in 0 .. NumFrames - 1
  BY VMMAssumption DEF Frames
<1>2. r = Append(Tail(Queue(h)), h + 1)
  BY QueueFront
<1>3. DOMAIN r = 1 .. NumFrames
  BY <1>1, <1>2, QueueFront
<1>4. \A i \in 1 .. NumFrames - 1 : r[i] = Queue(h)[i + 1]
  BY <1>1, <1>2, QueueFront
<1>5. r[NumFrames] = h + 1
  BY <1>1, <1>2, QueueFront
<1> HIDE DEF r
<1>6. ASSUME NEW i \in 1 .. NumFrames
      PROVE  r[i] = Around(g, i - 1, NumFrames) + 1
  <2>1. CASE i < NumFrames
    <3>1. r[i] = Around(h, i, NumFrames) + 1
      <4>1. i + 1 \in 1 .. NumFrames /\ (i + 1) - 1 = i /\ i \in 1 .. NumFrames - 1
        BY <1>1, <2>1
      <4>2. Queue(h)[i + 1] = Around(h, i, NumFrames) + 1
        BY <4>1 DEF Queue
      <4> QED
        BY <1>4, <4>1, <4>2
    <3> QED
      BY <1>1, <2>1, <3>1 DEF Around
  <2>2. CASE i = NumFrames
    BY <1>1, <1>5, <2>2 DEF Around
  <2> QED
    BY <1>1, <2>1, <2>2
<1>7. r = [i \in 1 .. NumFrames |-> r[i]]
  BY <1>2, <1>3, QueueFront
<1> QED
  BY <1>6, <1>7 DEF Queue, r

\* Where the loop stops, n positions on: a whole round leads back to h.
Turned(h, n) == IF n = NumFrames + 1 THEN h ELSE Around(h, n - 1, NumFrames)

LEMMA TurnedIsFrame ==
  ASSUME NEW h \in Frames, NEW n \in 1 .. NumFrames + 1
  PROVE  Turned(h, n) \in Frames /\ Around(Turned(h, n), 1, NumFrames) \in Frames
  BY VMMAssumption DEF Turned, Around, Frames

\* n times get and put.
LEMMA QueueRotated ==
  ASSUME NEW h \in Frames, NEW n \in 1 .. NumFrames + 1, NEW r,
         r = [i \in 1 .. NumFrames |-> Queue(h)[((i + n - 1) % NumFrames) + 1]]
  PROVE  /\ r[NumFrames] - 1 = Turned(h, n)
         /\ r = Queue(Around(Turned(h, n), 1, NumFrames))
<1> DEFINE g == Around(Turned(h, n), 1, NumFrames)
           frames == Queue(h)
<1>1. NumFrames \in Nat \ {0} /\ h \in 0 .. NumFrames - 1
  BY VMMAssumption DEF Frames
<1>2. r = [i \in 1 .. NumFrames |-> frames[((i + n - 1) % NumFrames) + 1]]
  OBVIOUS
<1>3. ASSUME NEW i \in 1 .. NumFrames
      PROVE  r[i] = Around(g, i - 1, NumFrames) + 1
  <2> DEFINE a == i + n - 1
             b == a - NumFrames
             m == a % NumFrames
  <2>1. a \in 1 .. 2 * NumFrames /\ b \in (1 - NumFrames) .. NumFrames
    BY <1>1
  <2>2. r[i] = frames[m + 1]
    BY <1>2
  <2>3. ASSUME a < 2 * NumFrames PROVE m = IF a < NumFrames THEN a ELSE b
    <3>1. a \in Nat
      BY <2>1
    <3> HIDE DEF a
    <3> QED
      BY <1>1, <2>3, <3>1, RemainderOnce
  <2>4. CASE a < NumFrames
    <3>1. m = a
      BY <1>1, <2>1, <2>4, <2>3
    <3>2. a + 1 \in 1 .. NumFrames
      BY <1>1, <2>1, <2>4
    <3>3. r[i] = Around(h, a, NumFrames) + 1
      BY <1>1, <2>2, <3>1, <3>2, <2>1 DEF Queue
    <3> QED
      BY <1>1, <2>4, <3>3 DEF Around, Turned
  <2>5. CASE a >= NumFrames /\ b < NumFrames
    <3>1. m = b
      BY <1>1, <2>1, <2>5, <2>3
    <3>2. b + 1 \in 1 .. NumFrames
      BY <1>1, <2>1, <2>5
    <3>3. r[i] = Around(h, b, NumFrames) + 1
      BY <1>1, <2>2, <3>1, <3>2, <2>1 DEF Queue
    <3>4. CASE n = NumFrames + 1
      <4>1. Turned(h, n) = h /\ b = i
        BY <1>1, <3>4 DEF Turned
      <4>2. r[i] = Around(h, i, NumFrames) + 1 /\ g = Around(h, 1, NumFrames)
        BY <3>3, <4>1
      <4>3. i \in 1 .. NumFrames - 1
        BY <1>1, <2>5, <4>1
      <4> HIDE DEF g
      <4> QED
        BY <1>1, <4>2, <4>3 DEF Around
    <3>5. CASE n # NumFrames + 1
      <4>1. Turned(h, n) = Around(h, n - 1, NumFrames)
        BY <3>5 DEF Turned
      <4> QED
        BY <1>1, <2>1, <2>5, <3>3, <3>5, <4>1 DEF Around
    <3> QED
      BY <3>4, <3>5
  <2>6. CASE b = NumFrames
    <3>1. i = NumFrames /\ n = NumFrames + 1
      BY <1>1, <2>6
    <3>2. NumFrames * 2 + 0 = a
      BY <1>1, <2>6
    <3>3. m = 0
      <4>1. 2 \in Int /\ 0 \in 0 .. NumFrames - 1
        BY <1>1
      <4>2. (NumFrames * 2 + 0) % NumFrames = 0
        BY <1>1, <4>1, Remainder
      <4> QED
        BY <3>2, <4>2
    <3>4. r[i] = h + 1
      BY <1>1, <2>2, <3>3 DEF Queue, Around
    <3> QED
      BY <1>1, <3>1, <3>4 DEF Around, Turned
  <2> QED
    BY <1>1, <2>1, <2>4, <2>5, <2>6
<1>4. r = Queue(g)
  BY <1>2, <1>3 DEF Queue
<1>5. g \in Frames
  BY TurnedIsFrame
<1>6. r[NumFrames] = Turned(h, n) + 1
  <2>1. r[NumFrames] = Around(g, NumFrames - 1, NumFrames) + 1
    BY <1>1, <1>3
  <2>2. g \in 0 .. NumFrames - 1 /\ Turned(h, n) \in 0 .. NumFrames - 1
    BY <1>5, TurnedIsFrame DEF Frames
  <2> QED
    BY <1>1, <2>1, <2>2 DEF Around
<1>7. Turned(h, n) \in Int
  BY TurnedIsFrame DEF Frames
<1> HIDE DEF g
<1>8. r[NumFrames] - 1 = Turned(h, n)
  BY <1>6, <1>7
<1> QED
  BY <1>4, <1>8 DEF g
=============================================================================
