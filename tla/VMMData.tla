------------------------------ MODULE VMMData ------------------------------
(* The engine of VMM with the memory it manages: what the frames and the   *)
(* swap device hold when the hardware obeys the OUT, IN and ZERO lines     *)
(* that run() prints.  The program simulates the management only, so the   *)
(* contents are external to it; its decisions, all taken from VMM, are     *)
(* what makes the contents right or wrong.                                 *)
EXTENDS VMM, VMMProofs

CONSTANTS Values, Zero
ASSUME DataAssumption == Zero \in Values

VARIABLES frame_data,  \* frame -> the content it holds
          swap,        \* page  -> its copy on the swap device
          answer       \* what the last READ instruction returned

datavars == <<frame_data, swap, answer>>
allvars  == <<frame_table, page_table, stats, status, frame_data, swap, answer>>

DataTypeOK == /\ frame_data \in [Frames -> Values]
              /\ swap \in [Pages -> Values]
              /\ answer \in Values

DataInit == /\ Init
            /\ frame_data = [f \in Frames |-> Zero]
            /\ swap = [p \in Pages |-> Zero]
            /\ answer = Zero

\* The content a page gets when it is not in memory: IN or ZERO.
Backing(p) == IF page_table[p].pagedout THEN swap[p] ELSE Zero

\* OUT: the frame of a modified victim is written to the victim's swap slot.
SwapOut(index) ==
  LET old == frame_table[index]
  IN IF old # EMPTY /\ page_table[old].modified
     THEN swap' = [swap EXCEPT ![old] = frame_data[index]]
     ELSE UNCHANGED swap

\* The instruction itself, on a frame that holds the page with this content.
Use(op, index, content, v) ==
  /\ frame_data' = [frame_data EXCEPT ![index] = IF op = WRITE THEN v ELSE content]
  /\ answer' = IF op = READ THEN content ELSE answer

DataFault(op, p, v) ==
  /\ ~page_table[p].present
  /\ \E index \in Frames, cleared \in SUBSET Resident :
       /\ SelectFrame(index, cleared)
       /\ ServiceFault(op, p, index, cleared)
       /\ SwapOut(index)
       /\ Use(op, index, Backing(p), v)

DataHit(op, p, v) ==
  /\ Hit(op, p)
  /\ Use(op, page_table[p].frame_number,
         frame_data[page_table[p].frame_number], v)
  /\ UNCHANGED swap

DataStop == (EndOfInput \/ BadInstruction \/ Exited) /\ UNCHANGED datavars

DataNext == \/ \E op \in Operations, p \in Pages, v \in Values :
                 DataFault(op, p, v) \/ DataHit(op, p, v)
            \/ DataStop

DataSpec == DataInit /\ [][DataNext]_allvars

-----------------------------------------------------------------------------
(* A resident page that is not modified is what its swap copy, or Zero,    *)
(* says: dropping it on eviction without an OUT loses nothing.             *)
CleanIsBacked ==
  \A p \in Pages : page_table[p].present /\ ~page_table[p].modified =>
    frame_data[page_table[p].frame_number] = Backing(p)

\* The content of a page, wherever it is.
Content(p) == IF page_table[p].present
              THEN frame_data[page_table[p].frame_number]
              ELSE Backing(p)

Memory == INSTANCE PagedMemory WITH memory <- [p \in Pages |-> Content(p)]

(* Paging is transparent: every READ is answered with the last value       *)
(* written to that page (or Zero), through any sequence of faults,         *)
(* evictions, page-outs and page-ins.                                      *)
Transparent == Memory!MemSpec
-----------------------------------------------------------------------------
(* The proofs: paging is transparent, for any numbers of frames and pages, *)
(* any contents and any policy.                                            *)

DataInv == IInv /\ DataTypeOK /\ CleanIsBacked

LEMMA DataStepIsStep == DataNext => Next
  BY DEF DataNext, DataFault, DataHit, DataStop, Next, Fault

LEMMA DataInitInv == DataInit => DataInv
<1> SUFFICES ASSUME DataInit PROVE DataInv
  OBVIOUS
<1>1. IInv
  BY InitInv DEF DataInit
<1>2. DataTypeOK
  BY DataAssumption DEF DataInit, DataTypeOK
<1>3. CleanIsBacked
  BY DEF DataInit, Init, CleanIsBacked
<1> QED
  BY <1>1, <1>2, <1>3 DEF DataInv

(* What a fault does to the content of every page: nothing, except for     *)
(* what a WRITE stores in the faulting page.                               *)
LEMMA FaultContent ==
  ASSUME DataInv, NEW op \in Operations, NEW p \in Pages, NEW v \in Values,
         DataFault(op, p, v)
  PROVE  /\ DataTypeOK'
         /\ CleanIsBacked'
         /\ answer' = IF op = READ THEN Content(p) ELSE answer
         /\ \A q \in Pages :
              Content(q)' = IF q = p /\ op = WRITE THEN v ELSE Content(q)
<1>1. PICK index \in Frames, cleared \in SUBSET Resident :
        /\ SelectFrame(index, cleared)
        /\ ServiceFault(op, p, index, cleared)
        /\ SwapOut(index)
        /\ Use(op, index, Backing(p), v)
  BY DEF DataFault
<1> DEFINE old == frame_table[index]
<1>2. /\ page_table' \in [Pages -> PTE]
      /\ page_table'[p].present
      /\ page_table'[p].frame_number = index
      /\ page_table'[p].pagedout <=> page_table[p].pagedout
      /\ page_table'[p].modified => page_table[p].modified \/ op = WRITE
      /\ op = WRITE => page_table'[p].modified
      /\ old # p
      /\ old \in Pages => VictimGone(old)
      /\ \A q \in Pages \ {p, old} : Untouched(q, cleared)
  BY <1>1, FaultPageTable DEF DataInv, IInv, TablesInv
<1>3. ~page_table[p].present /\ ~page_table[p].modified
  BY <1>1 DEF ServiceFault, DataInv, IInv, TablesInv, AbsentIsClean
<1>4. /\ frame_data \in [Frames -> Values] /\ swap \in [Pages -> Values]
      /\ answer \in Values /\ Zero \in Values
      /\ frame_table \in [Frames -> Pages \cup {EMPTY}]
      /\ page_table \in [Pages -> PTE]
  BY DataAssumption DEF DataInv, DataTypeOK, IInv, TypeOK
<1>5. \A q \in Pages : Backing(q) \in Values
  BY <1>4 DEF Backing
<1>6. /\ frame_data' = [frame_data EXCEPT ![index] =
                          IF op = WRITE THEN v ELSE Backing(p)]
      /\ answer' = IF op = READ THEN Backing(p) ELSE answer
  BY <1>1 DEF Use
<1>7. /\ swap' \in [Pages -> Values]
      /\ \A q \in Pages \ {old} : swap'[q] = swap[q]
      /\ old \in Pages => swap'[old] = IF page_table[old].modified
                                       THEN frame_data[index] ELSE swap[old]
  BY <1>1, <1>4, EmptyIsNoPage DEF SwapOut
<1>8. DataTypeOK'
  BY <1>4, <1>5, <1>6, <1>7 DEF DataTypeOK
<1>9. old \in Pages => page_table[old].present /\ page_table[old].frame_number = index
  BY <1>1, EmptyIsNoPage DEF DataInv, IInv, TablesInv, TablesAgree
<1>10. ASSUME NEW q \in Pages \ {p, old}, page_table[q].present
       PROVE  /\ page_table[q].frame_number \in Frames
              /\ frame_data'[page_table[q].frame_number] =
                   frame_data[page_table[q].frame_number]
  <2>1. frame_table[page_table[q].frame_number] = q
    BY <1>10 DEF DataInv, IInv, TablesInv, TablesAgree
  <2>2. page_table[q].frame_number \in Frames
    BY <1>4 DEF PTE
  <2>3. page_table[q].frame_number # index
    BY <2>1
  <2> QED
    BY <1>4, <1>6, <2>2, <2>3
<1>11. \A q \in Pages \ {p, old} : Backing(q)' = Backing(q)
  BY <1>2, <1>7 DEF Backing, Untouched
<1>12. Backing(p)' = Backing(p)
  BY <1>2, <1>7 DEF Backing
<1>13. CleanIsBacked'
  <2> SUFFICES ASSUME NEW q \in Pages, page_table'[q].present,
                      ~page_table'[q].modified
               PROVE  frame_data'[page_table'[q].frame_number] = Backing(q)'
    BY DEF CleanIsBacked
  <2>1. CASE q = p
    BY <1>2, <1>4, <1>6, <1>12, <2>1
  <2>2. CASE q # p
    <3>1. q # old
      BY <1>2 DEF VictimGone
    <3>2. /\ page_table[q].present /\ ~page_table[q].modified
          /\ page_table'[q].frame_number = page_table[q].frame_number
      BY <1>2, <2>2, <3>1 DEF Untouched
    <3>3. frame_data[page_table[q].frame_number] = Backing(q)
      BY <3>2 DEF DataInv, CleanIsBacked
    <3> QED
      BY <1>10, <1>11, <2>2, <3>1, <3>2, <3>3
  <2> QED
    BY <2>1, <2>2
<1>14. answer' = IF op = READ THEN Content(p) ELSE answer
  BY <1>3, <1>6 DEF Content
<1>15. ASSUME NEW q \in Pages
       PROVE  Content(q)' = IF q = p /\ op = WRITE THEN v ELSE Content(q)
  <2>1. CASE q = p
    BY <1>2, <1>3, <1>4, <1>6, <2>1 DEF Content
  <2>2. CASE q = old
    <3>1. Content(q)' = Backing(q)'
      BY <1>2, <2>2 DEF Content, VictimGone
    <3>2. Content(q) = frame_data[index]
      BY <1>9, <2>2 DEF Content
    <3>3. CASE page_table[q].modified
      BY <1>2, <1>7, <2>2, <3>1, <3>2, <3>3 DEF Backing, VictimGone
    <3>4. CASE ~page_table[q].modified
      <4>1. frame_data[index] = Backing(q)
        BY <1>9, <2>2, <3>4 DEF DataInv, CleanIsBacked
      <4>2. Backing(q)' = Backing(q)
        BY <1>2, <1>7, <2>2, <3>4 DEF Backing, VictimGone
      <4> QED
        BY <1>2, <2>2, <3>1, <3>2, <4>1, <4>2
    <3> QED
      BY <3>3, <3>4
  <2>3. CASE q # p /\ q # old
    <3>1. page_table'[q].present <=> page_table[q].present
      BY <1>2, <2>3 DEF Untouched
    <3>2. page_table'[q].frame_number = page_table[q].frame_number
      BY <1>2, <2>3 DEF Untouched
    <3>3. CASE page_table[q].present
      BY <1>10, <2>3, <3>1, <3>2, <3>3 DEF Content
    <3>4. CASE ~page_table[q].present
      BY <1>11, <2>3, <3>1, <3>4 DEF Content
    <3> QED
      BY <3>3, <3>4
  <2> QED
    BY <2>1, <2>2, <2>3
<1> QED
  BY <1>8, <1>13, <1>14, <1>15

LEMMA HitContent ==
  ASSUME DataInv, NEW op \in Operations, NEW p \in Pages, NEW v \in Values,
         DataHit(op, p, v)
  PROVE  /\ DataTypeOK'
         /\ CleanIsBacked'
         /\ answer' = IF op = READ THEN Content(p) ELSE answer
         /\ \A q \in Pages :
              Content(q)' = IF q = p /\ op = WRITE THEN v ELSE Content(q)
<1> DEFINE index == page_table[p].frame_number
<1>1. /\ page_table' \in [Pages -> PTE]
      /\ page_table'[p].present <=> page_table[p].present
      /\ page_table'[p].frame_number = page_table[p].frame_number
      /\ page_table'[p].pagedout <=> page_table[p].pagedout
      /\ page_table'[p].modified <=> page_table[p].modified \/ op = WRITE
      /\ \A q \in Pages \ {p} : page_table'[q] = page_table[q]
  BY HitPageTable DEF DataHit, DataInv, IInv
<1>2. page_table[p].present /\ swap' = swap
  BY DEF DataHit, Hit
<1>3. /\ frame_data' = [frame_data EXCEPT ![index] =
                          IF op = WRITE THEN v ELSE frame_data[index]]
      /\ answer' = IF op = READ THEN frame_data[index] ELSE answer
  BY DEF DataHit, Use
<1>4. /\ frame_data \in [Frames -> Values] /\ swap \in [Pages -> Values]
      /\ answer \in Values /\ index \in Frames
  BY DEF DataInv, DataTypeOK, IInv, TypeOK, PTE
<1>5. \A q \in Pages \ {p} : page_table[q].present =>
        page_table[q].frame_number # index /\ page_table[q].frame_number \in Frames
  BY <1>2 DEF DataInv, IInv, TablesInv, TablesAgree, TypeOK, PTE
<1>6. DataTypeOK'
  BY <1>2, <1>3, <1>4 DEF DataTypeOK
<1>7. \A q \in Pages : Backing(q)' = Backing(q)
  BY <1>1, <1>2 DEF Backing
<1>8. CleanIsBacked'
  <2> SUFFICES ASSUME NEW q \in Pages, page_table'[q].present,
                      ~page_table'[q].modified
               PROVE  frame_data'[page_table'[q].frame_number] = Backing(q)'
    BY DEF CleanIsBacked
  <2>1. CASE q = p
    <3>1. frame_data[index] = Backing(p)
      BY <1>1, <1>2, <2>1 DEF DataInv, CleanIsBacked
    <3> QED
      BY <1>1, <1>3, <1>4, <1>7, <2>1, <3>1
  <2>2. CASE q # p
    BY <1>1, <1>3, <1>4, <1>5, <1>7, <2>2 DEF DataInv, CleanIsBacked
  <2> QED
    BY <2>1, <2>2
<1>9. answer' = IF op = READ THEN Content(p) ELSE answer
  BY <1>2, <1>3 DEF Content
<1>10. ASSUME NEW q \in Pages
       PROVE  Content(q)' = IF q = p /\ op = WRITE THEN v ELSE Content(q)
  <2>1. CASE q = p
    BY <1>1, <1>2, <1>3, <1>4, <2>1 DEF Content
  <2>2. CASE q # p /\ page_table[q].present
    BY <1>1, <1>3, <1>4, <1>5, <2>2 DEF Content
  <2>3. CASE q # p /\ ~page_table[q].present
    BY <1>1, <1>7, <2>3 DEF Content
  <2> QED
    BY <2>1, <2>2, <2>3
<1> QED
  BY <1>6, <1>8, <1>9, <1>10

LEMMA StopContent ==
  ASSUME DataInv, DataStop \/ UNCHANGED allvars
  PROVE  /\ DataTypeOK'
         /\ CleanIsBacked'
         /\ answer' = answer
         /\ \A q \in Pages : Content(q)' = Content(q)
<1>1. /\ page_table' = page_table /\ frame_data' = frame_data
      /\ swap' = swap /\ answer' = answer
  BY DEF DataStop, EndOfInput, BadInstruction, Exited, vars, datavars, allvars
<1> QED
  BY <1>1 DEF DataInv, DataTypeOK, CleanIsBacked, Backing, Content

LEMMA DataStepInv == DataInv /\ [DataNext]_allvars => DataInv'
<1> SUFFICES ASSUME DataInv, [DataNext]_allvars PROVE DataInv'
  OBVIOUS
<1>1. IInv'
  BY DataStepIsStep, StepInv DEF DataInv, allvars, vars
<1>2. DataTypeOK' /\ CleanIsBacked'
  BY FaultContent, HitContent, StopContent DEF DataNext
<1> QED
  BY <1>1, <1>2 DEF DataInv

THEOREM DataInvariance == DataSpec => []DataInv
  BY DataInitInv, DataStepInv, PTL DEF DataSpec

(* A clean page can be dropped without an OUT: its copy in swap, or Zero,  *)
(* is what the frame holds.                                                *)
THEOREM CleanAlwaysBacked == DataSpec => []CleanIsBacked
  BY DataInvariance, PTL DEF DataInv

-----------------------------------------------------------------------------
(* The refinement: a fault or a hit is one read or one write of memory.    *)

LEMMA ContentAsMemory ==
  ASSUME NEW p \in Pages, NEW v,
         \A q \in Pages : Content(q)' = IF q = p THEN v ELSE Content(q)
  PROVE  [q \in Pages |-> Content(q)]' =
           [[q \in Pages |-> Content(q)] EXCEPT ![p] = v]
  OBVIOUS

LEMMA DataInitRefines == DataInit => Memory!MemInit
  BY DEF DataInit, Init, Memory!MemInit, Content, Backing

LEMMA AccessRefines ==
  ASSUME NEW op \in Operations, NEW p \in Pages, NEW v \in Values,
         answer' = IF op = READ THEN Content(p) ELSE answer,
         \A q \in Pages :
           Content(q)' = IF q = p /\ op = WRITE THEN v ELSE Content(q)
  PROVE  Memory!MemNext
<1>1. CASE op = READ
  <2>1. [q \in Pages |-> Content(q)]' = [q \in Pages |-> Content(q)]
    BY <1>1 DEF READ, WRITE
  <2>2. Memory!Read(p)
    BY <1>1, <2>1 DEF Memory!Read
  <2> QED
    BY <2>2 DEF Memory!MemNext
<1>2. CASE op = WRITE
  <2>1. [q \in Pages |-> Content(q)]' =
          [[q \in Pages |-> Content(q)] EXCEPT ![p] = v]
    BY <1>2, ContentAsMemory
  <2>2. Memory!Write(p, v)
    BY <1>2, <2>1 DEF Memory!Write, READ, WRITE
  <2> QED
    BY <2>2 DEF Memory!MemNext
<1> QED
  BY <1>1, <1>2 DEF Operations

LEMMA DataStepRefines ==
  DataInv /\ [DataNext]_allvars => [Memory!MemNext]_(Memory!memvars)
<1> SUFFICES ASSUME DataInv, [DataNext]_allvars
             PROVE  Memory!MemNext \/ UNCHANGED Memory!memvars
  OBVIOUS
<1>1. ASSUME NEW op \in Operations, NEW p \in Pages, NEW v \in Values,
             DataFault(op, p, v) \/ DataHit(op, p, v)
      PROVE  Memory!MemNext
  BY <1>1, FaultContent, HitContent, AccessRefines
<1>2. CASE DataStop \/ UNCHANGED allvars
  BY <1>2, StopContent DEF Memory!memvars
<1> QED
  BY <1>1, <1>2 DEF DataNext

(* Every READ is answered with the last value written to its page, with    *)
(* any number of frames and under any replacement policy.                  *)
THEOREM PagingIsTransparent == DataSpec => Transparent
<1>1. DataSpec => Memory!MemInit /\ [][Memory!MemNext]_(Memory!memvars)
  BY DataInitRefines, DataInvariance, DataStepRefines, PTL DEF DataSpec
<1> QED
  BY <1>1 DEF Transparent, Memory!MemSpec
=============================================================================
