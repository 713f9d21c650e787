----------------------------- MODULE ClockLoops -----------------------------
(* The two clocks and second chance with their loops run one iteration at  *)
(* a time: mmu with -a c, -a C or -a s.  pc, request and entry are         *)
(* explained in VClockLoop; the queue of the clocks, and the hand of       *)
(* second chance, do not exist.                                            *)
EXTENDS VMM, VMMProofs

VARIABLES algorithm, hand, frames, pc, request, entry

loopsvars == <<vars, algorithm, hand, frames, pc, request, entry>>

PLoop == INSTANCE PClockLoop
VLoop == INSTANCE VClockLoop
SLoop == INSTANCE SecChanceLoop

NONE == 0

LoopsInit == \/ algorithm = "c" /\ PLoop!LoopInit /\ frames = NONE
             \/ algorithm = "C" /\ VLoop!LoopInit /\ frames = NONE
             \/ algorithm = "s" /\ SLoop!LoopInit /\ hand = NONE

\* An iteration of the loop the process is in, or the way out of it.
Turn == \/ algorithm = "c" /\ (PLoop!Iterate \/ PLoop!LeaveLoop) /\ UNCHANGED frames
        \/ algorithm = "C" /\ (VLoop!Iterate \/ VLoop!LeaveLoop) /\ UNCHANGED frames
        \/ algorithm = "s" /\ (SLoop!Iterate \/ SLoop!LeaveLoop) /\ UNCHANGED hand

LoopsNext == /\ UNCHANGED algorithm
             /\ \/ algorithm = "c" /\ PLoop!LoopNext /\ UNCHANGED frames
                \/ algorithm = "C" /\ VLoop!LoopNext /\ UNCHANGED frames
                \/ algorithm = "s" /\ SLoop!LoopNext /\ UNCHANGED hand

\* The process keeps executing the loop it is in; input may never arrive.
LoopsSpec == /\ LoopsInit /\ [][LoopsNext]_loopsvars
             /\ WF_loopsvars(Turn /\ UNCHANGED algorithm)

-----------------------------------------------------------------------------
(* Nothing bounds the loops but the bits they reset and the resident pages *)
(* they must meet; still every request for a frame is served.              *)
LoopEnds == pc = "loop" ~> pc = "run"

(* Run to its end, each loop has done what its policy's module says in one *)
(* step: the same victim, the same bits reset, the same place for the hand *)
(* or the same order of the queue.                                         *)
LoopIsSweep ==
  /\ algorithm = "c" => PLoop!Atomic!ClockInit
  /\ algorithm = "C" => VLoop!Atomic!VClockInit
  /\ algorithm = "s" => SLoop!Atomic!SecInit
  /\ [][/\ algorithm = "c" => [PLoop!Atomic!ClockNext]_(PLoop!Atomic!clockvars)
        /\ algorithm = "C" => [VLoop!Atomic!VClockNext]_(VLoop!Atomic!vclockvars)
        /\ algorithm = "s" => [SLoop!Atomic!SecNext]_(SLoop!Atomic!secvars)
       ]_loopsvars

-----------------------------------------------------------------------------
(* The proof that the loops are the sweeps, for any numbers of frames and  *)
(* pages.  First, what resetting bits one after the other comes to.        *)

LEMMA ClearedNothing ==
  ASSUME NEW pt \in [Pages -> PTE]
  PROVE  ClearReferenced(pt, {}) = pt
<1>1. ASSUME NEW e \in PTE, NEW b, b <=> e.referenced, b \in BOOLEAN
      PROVE  [e EXCEPT !.referenced = b] = e
  BY <1>1 DEF PTE
<1>2. \A q \in Pages : [pt[q] EXCEPT !.referenced = @ /\ q \notin {}] = pt[q]
  <2> TAKE q \in Pages
  <2> DEFINE b == pt[q].referenced /\ q \notin {}
  <2>1. pt[q] \in PTE /\ (b <=> pt[q].referenced) /\ b \in BOOLEAN
    BY DEF PTE
  <2> HIDE DEF b
  <2>2. [pt[q] EXCEPT !.referenced = b] = pt[q]
    BY <1>1, <2>1
  <2> QED
    BY <2>2 DEF b
<1> QED
  BY <1>2 DEF ClearReferenced

Reset(pt, q) == [pt EXCEPT ![q] = [@ EXCEPT !.referenced = FALSE]]

LEMMA ResetEntry ==
  ASSUME NEW pt \in [Pages -> PTE], NEW q \in Pages
  PROVE  /\ Reset(pt, q) \in [Pages -> PTE]
         /\ ~Reset(pt, q)[q].referenced
         /\ \A r \in Pages \ {q} : Reset(pt, q)[r] = pt[r]
         /\ \A r \in Pages : /\ Reset(pt, q)[r].present = pt[r].present
                             /\ Reset(pt, q)[r].modified = pt[r].modified
                             /\ Reset(pt, q)[r].pagedout = pt[r].pagedout
                             /\ Reset(pt, q)[r].frame_number = pt[r].frame_number
                             /\ Reset(pt, q)[r].referenced => pt[r].referenced
<1>1. pt[q] \in PTE
  OBVIOUS
<1> DEFINE e == [pt[q] EXCEPT !.referenced = FALSE]
<1>2. /\ e \in PTE /\ e.referenced = FALSE /\ e.present = pt[q].present
      /\ e.modified = pt[q].modified /\ e.pagedout = pt[q].pagedout
      /\ e.frame_number = pt[q].frame_number
  BY <1>1 DEF PTE
<1>3. Reset(pt, q) = [pt EXCEPT ![q] = e]
  BY DEF Reset
<1> HIDE DEF e
<1> QED
  BY <1>2, <1>3

LEMMA ClearedMore ==
  ASSUME NEW pt \in [Pages -> PTE], NEW S, NEW q \in Pages
  PROVE  Reset(ClearReferenced(pt, S), q) = ClearReferenced(pt, S \cup {q})
<1> DEFINE a == ClearReferenced(pt, S)
           b == ClearReferenced(pt, S \cup {q})
<1>1. a \in [Pages -> PTE] /\ b \in [Pages -> PTE]
  BY ClearEntry
<1>2. \A r \in Pages \ {q} : a[r] = b[r]
  BY DEF ClearReferenced
<1>3. [a[q] EXCEPT !.referenced = FALSE] = b[q]
  <2>1. a[q] = [pt[q] EXCEPT !.referenced = @ /\ q \notin S]
        /\ b[q] = [pt[q] EXCEPT !.referenced = @ /\ q \notin S \cup {q}]
    BY DEF ClearReferenced
  <2>2. b[q] = [pt[q] EXCEPT !.referenced = FALSE]
    BY <2>1
  <2> QED
    BY <2>1, <2>2 DEF PTE
<1> HIDE DEF a, b
<1> QED
  BY <1>1, <1>2, <1>3 DEF Reset, a, b

LEMMA ClearedNoMore ==
  ASSUME NEW pt \in [Pages -> PTE], NEW S
  PROVE  ClearReferenced(ClearReferenced(pt, S), {}) = ClearReferenced(pt, S)
  BY ClearEntry, ClearedNothing

LEMMA ResetKeeps ==
  ASSUME IInv, NEW q \in Pages, page_table' = Reset(page_table, q),
         UNCHANGED <<frame_table, stats, status>>
  PROVE  IInv' /\ FreeFrames' = FreeFrames
<1>1. page_table \in [Pages -> PTE]
  BY DEF IInv, TypeOK
<1>2. /\ page_table' \in [Pages -> PTE]
      /\ \A r \in Pages : /\ page_table'[r].present = page_table[r].present
                          /\ page_table'[r].modified = page_table[r].modified
                          /\ page_table'[r].frame_number = page_table[r].frame_number
                          /\ page_table'[r].referenced => page_table[r].referenced
  BY <1>1, ResetEntry
<1>3. TypeOK' /\ FreeFrames' = FreeFrames
  BY <1>2 DEF IInv, TypeOK, FreeFrames
<1>4. TablesAgree'
  <2>1. \A f \in Frames : frame_table[f] # EMPTY => frame_table[f] \in Pages
    BY DEF IInv, TypeOK
  <2> QED
    BY <1>2, <2>1 DEF IInv, TablesInv, TablesAgree
<1>5. AbsentIsClean' /\ FilledInOrder'
  BY <1>2 DEF IInv, TablesInv, AbsentIsClean, FilledInOrder
<1> QED
  BY <1>3, <1>4, <1>5 DEF IInv, TablesInv

LEMMA AroundOnce ==
  ASSUME NEW n \in Nat \ {0}, NEW h \in 0 .. n - 1, NEW i \in 0 .. n - 1,
         NEW j \in 0 .. n - 1, Around(h, i, n) = Around(h, j, n)
  PROVE  i = j
  BY DEF Around

\* What a fault does once a policy has left the page table as pt.
Served(op, p, index, pt) ==
  /\ status = "running"
  /\ frame_table' = [frame_table EXCEPT ![index] = p]
  /\ LET old == frame_table[index]
     IN /\ page_table' = Access(map(Loaded(Evicted(pt, old), p), p, index), op, p)
        /\ stats' = FaultStats(old # EMPTY /\ pt[old].modified, old # EMPTY, pt[p].pagedout)
  /\ UNCHANGED status

LEMMA ServedAsItIs ==
  ASSUME page_table \in [Pages -> PTE], NEW op, NEW p, NEW index,
         ServiceFault(op, p, index, {})
  PROVE  ~page_table[p].present /\ Served(op, p, index, page_table)
  BY ClearedNothing DEF ServiceFault, Served

\* The frame i places behind h, going round all of them.
Place(h, i) == (h + i) % NumFrames

LEMMA Places ==
  ASSUME NEW h \in Frames
  PROVE  /\ NumFrames \in Nat \ {0}
         /\ \A i \in 0 .. NumFrames : Place(h, i) \in Frames
         /\ \A i \in 0 .. NumFrames - 1 : /\ Place(h, i) = Around(h, i, NumFrames)
                                          /\ Place(h, i + 1) = (Place(h, i) + 1) % NumFrames
         /\ Place(h, NumFrames) = Place(h, 0) /\ Place(h, 0) = h
<1>1. NumFrames \in Nat \ {0} /\ h \in 0 .. NumFrames - 1
  BY VMMAssumption DEF Frames
<1>2. ASSUME NEW i \in 0 .. NumFrames
      PROVE  (h + i) % NumFrames = Around(h, i, NumFrames)
  BY <1>1, AroundIsRemainder
<1>3. \A i \in 0 .. NumFrames : Around(h, i, NumFrames) \in 0 .. NumFrames - 1
  BY <1>1 DEF Around
<1>4. ASSUME NEW i \in 0 .. NumFrames - 1
      PROVE  (((h + i) % NumFrames) + 1) % NumFrames = (h + (i + 1)) % NumFrames
  <2>1. h + i \in Int /\ 1 \in Int /\ (h + i) + 1 = h + (i + 1)
    BY <1>1
  <2>2. (((h + i) % NumFrames) + 1) % NumFrames = ((h + i) + 1) % NumFrames
    BY <1>1, <2>1, RemainderOfSum, Zenon
  <2> QED
    BY <2>1, <2>2
<1>5. Around(h, 0, NumFrames) = h /\ Around(h, NumFrames, NumFrames) = h
  BY <1>1 DEF Around
<1>6. \A i \in 0 .. NumFrames : Place(h, i) = Around(h, i, NumFrames)
  BY <1>2 DEF Place
<1>7. \A i \in 0 .. NumFrames - 1 : Place(h, i + 1) = (Place(h, i) + 1) % NumFrames
  BY <1>4 DEF Place
<1> QED
  BY <1>1, <1>3, <1>5, <1>6, <1>7 DEF Frames

\* Another place of the round, another page.
LEMMA PlacePages ==
  ASSUME IInv, FreeFrames = {}, NEW h \in Frames,
         NEW i \in 0 .. NumFrames - 1, NEW j \in 0 .. NumFrames - 1, i # j
  PROVE  frame_table[Place(h, i)] # frame_table[Place(h, j)]
<1>1. /\ Place(h, i) \in Frames /\ Place(h, j) \in Frames
      /\ Place(h, i) = Around(h, i, NumFrames)
      /\ Place(h, j) = Around(h, j, NumFrames)
      /\ NumFrames \in Nat \ {0} /\ h \in 0 .. NumFrames - 1
  BY Places DEF Frames
<1>2. Place(h, i) # Place(h, j)
  BY <1>1, AroundOnce
<1> QED
  BY <1>1, <1>2, FullMeansResident

-----------------------------------------------------------------------------
(* The clock over frames.                                                  *)

LEMMA PLoopEngine ==
  ASSUME NEW op, NEW p, NEW index, NEW cleared
  PROVE  /\ PLoop!ServiceFault(op, p, index, cleared) <=> ServiceFault(op, p, index, cleared)
         /\ PLoop!Hit(op, p) <=> Hit(op, p)
         /\ (PLoop!EndOfInput \/ PLoop!BadInstruction \/ PLoop!Exited) <=>
               (EndOfInput \/ BadInstruction \/ Exited)
         /\ PLoop!Init <=> Init
         /\ PLoop!Pages = Pages /\ PLoop!Frames = Frames
         /\ PLoop!Operations = Operations /\ PLoop!EMPTY = EMPTY
  BY DEF PLoop!ServiceFault, ServiceFault, PLoop!ClearReferenced,
         ClearReferenced, PLoop!Evicted, Evicted, PLoop!unmap, unmap,
         PLoop!page_out, page_out, PLoop!EMPTY, EMPTY, PLoop!Access,
         Access, PLoop!map, map, PLoop!Loaded, Loaded, PLoop!page_in,
         page_in, PLoop!Touched, Touched, PLoop!WRITE, WRITE,
         PLoop!FaultStats, FaultStats, PLoop!Bump, Bump, PLoop!Pages,
         Pages, PLoop!Hit, Hit, PLoop!EndOfInput, EndOfInput,
         PLoop!BadInstruction, BadInstruction, PLoop!Exited, Exited,
         PLoop!vars, vars, PLoop!READ, READ, PLoop!Operations, Operations,
         PLoop!Frames, Frames, PLoop!Init, Init, PLoop!Counters, Counters

\* The atomic clock sees the page table as it was when the loop was entered.
LEMMA PAtomicEngine ==
  ASSUME NEW op, NEW p, NEW index, NEW cleared, NEW pt, NEW old, NEW a, NEW b, NEW c
  PROVE  /\ PLoop!Atomic!ClearReferenced(pt, cleared) = ClearReferenced(pt, cleared)
         /\ PLoop!Atomic!Evicted(pt, old) = Evicted(pt, old)
         /\ PLoop!Atomic!Loaded(pt, p) = Loaded(pt, p)
         /\ PLoop!Atomic!map(pt, p, index) = map(pt, p, index)
         /\ PLoop!Atomic!Access(pt, op, p) = Access(pt, op, p)
         /\ PLoop!Atomic!FaultStats(a, b, c) = FaultStats(a, b, c)
         /\ PLoop!Atomic!Bump(a, b) = Bump(a, b)
         /\ PLoop!Atomic!EMPTY = EMPTY /\ PLoop!Atomic!Pages = Pages
         /\ PLoop!Atomic!Operations = Operations
  BY DEF PLoop!Atomic!ClearReferenced,
         ClearReferenced, PLoop!Atomic!Evicted, Evicted, PLoop!Atomic!unmap, unmap,
         PLoop!Atomic!page_out, page_out, PLoop!Atomic!EMPTY, EMPTY, PLoop!Atomic!Access,
         Access, PLoop!Atomic!map, map, PLoop!Atomic!Loaded, Loaded, PLoop!Atomic!page_in,
         page_in, PLoop!Atomic!Touched, Touched, PLoop!Atomic!WRITE, WRITE,
         PLoop!Atomic!FaultStats, FaultStats, PLoop!Atomic!Bump, Bump, PLoop!Atomic!Pages,
         Pages, PLoop!Atomic!READ, READ, PLoop!Atomic!Operations, Operations

LEMMA PAtomicServes ==
  ASSUME NEW op, NEW p, NEW index, NEW cleared, pc' = "run",
         NEW pt, pt = IF pc = "loop" THEN entry[1] ELSE page_table,
         ~pt[p].present, Served(op, p, index, ClearReferenced(pt, cleared)),
         ClearReferenced(pt, cleared)[p].pagedout = pt[p].pagedout
  PROVE  PLoop!Atomic!ServiceFault(op, p, index, cleared)
<1>1. page_table' = (IF pc = "loop" THEN entry[1] ELSE page_table)'
  OBVIOUS
<1> QED
  BY <1>1, PAtomicEngine DEF PLoop!Atomic!ServiceFault, Served

\* What all three loops leave alone.
Asked == /\ status = "running"
         /\ request \in Operations \X Pages /\ ~page_table[request[2]].present
         /\ entry[1] \in [Pages -> PTE]

PSwept(k) ==
  /\ hand = Place(entry[2], k)
  /\ \A i \in 0 .. k - 1 : entry[1][frame_table[Place(entry[2], i)]].referenced
  /\ page_table = ClearReferenced(entry[1], {frame_table[Place(entry[2], i)] : i \in 0 .. k - 1})

PInv == /\ IInv /\ hand \in Frames /\ Lowest(hand, FreeFrames)
        /\ pc \in {"run", "loop"}
        /\ pc = "loop" => /\ Asked /\ FreeFrames = {} /\ entry[2] \in Frames
                          /\ \E k \in 0 .. NumFrames : PSwept(k)

LEMMA PEnters ==
  ASSUME PInv, NEW op \in Operations, NEW p \in Pages, PLoop!EnterLoop(op, p)
  PROVE  PInv' /\ UNCHANGED PLoop!Atomic!clockvars
<1>1. /\ pc = "run" /\ status = "running" /\ ~page_table[p].present
      /\ frame_table[hand] # EMPTY /\ pc' = "loop" /\ request' = <<op, p>>
      /\ entry' = <<page_table, hand>>
      /\ UNCHANGED <<frame_table, page_table, stats, status, hand>>
  BY PLoopEngine DEF PLoop!EnterLoop
<1>2. UNCHANGED PLoop!Atomic!clockvars
  BY <1>1 DEF PLoop!Atomic!clockvars
<1>3. FreeFrames = {}
  BY <1>1 DEF PInv, Lowest, FreeFrames
<1>4. IInv' /\ hand' \in Frames /\ Lowest(hand', FreeFrames') /\ FreeFrames' = {}
  BY <1>1, <1>3 DEF PInv, IInv, TypeOK, TablesInv, TablesAgree, AbsentIsClean, FilledInOrder,
                    FreeFrames, Lowest
<1>5. Asked' /\ entry'[2] = hand /\ entry'[1] = page_table
  BY <1>1 DEF Asked, PInv, IInv, TypeOK
<1>6. PSwept(0)'
  <2>1. 0 .. 0 - 1 = {}
    OBVIOUS
  <2>2. hand' = ((entry[2] + 0) % NumFrames)'
    <3>1. Place(entry[2], 0)' = entry'[2]
      <4>1. hand \in 0 .. NumFrames - 1 /\ NumFrames \in Nat \ {0}
        BY VMMAssumption DEF PInv, Frames
      <4>2. (hand + 0) % NumFrames = hand
        <5>1. 0 \in 0 .. NumFrames /\ Around(hand, 0, NumFrames) = hand
          BY <4>1 DEF Around
        <5> QED
          BY <4>1, <5>1, AroundIsRemainder
      <4> QED
        BY <1>5, <4>2 DEF Place
    <3> QED
      BY <1>1, <1>5, <3>1 DEF Place
  <2>3. page_table' = ClearReferenced(entry'[1], {})
    BY <1>1, <1>5, ClearedNothing DEF PInv, IInv, TypeOK
  <2> QED
    BY <2>1, <2>2, <2>3 DEF PSwept, Place
<1>7. 0 \in 0 .. NumFrames
  BY VMMAssumption
<1> QED
  BY <1>1, <1>2, <1>4, <1>5, <1>6, <1>7 DEF PInv

LEMMA PIterates ==
  ASSUME PInv, PLoop!Iterate
  PROVE  PInv' /\ UNCHANGED PLoop!Atomic!clockvars
<1> DEFINE q == frame_table[hand]
<1>1. /\ pc = "loop" /\ page_table[q].referenced
      /\ page_table' = Reset(page_table, q) /\ hand' = (hand + 1) % NumFrames
      /\ UNCHANGED <<frame_table, stats, status, pc, request, entry>>
  BY DEF PLoop!Iterate, PLoop!Referenced, PLoop!NextTable, Reset
<1>2. /\ IInv /\ hand \in Frames /\ Asked /\ FreeFrames = {} /\ entry[2] \in Frames
      /\ entry[1] \in [Pages -> PTE] /\ page_table \in [Pages -> PTE]
  BY <1>1 DEF PInv, Asked, IInv, TypeOK
<1>3. PICK k \in 0 .. NumFrames : PSwept(k)
  BY <1>1 DEF PInv
<1>4. UNCHANGED PLoop!Atomic!clockvars
  BY <1>1 DEF PLoop!Atomic!clockvars
<1>5. q \in Pages
  BY <1>2, FullMeansResident DEF Resident
<1> DEFINE S == {frame_table[Place(entry[2], i)] : i \in 0 .. k - 1}
           T == {frame_table[Place(entry[2], i)] : i \in 0 .. (k + 1) - 1}
<1>6. NumFrames \in Nat \ {0} /\ k \in Nat
  BY VMMAssumption
<1>7. q = frame_table[Place(entry[2], k)] /\ page_table = ClearReferenced(entry[1], S)
  BY <1>3 DEF PSwept
<1>8. q \notin S /\ entry[1][q].referenced
  BY <1>1, <1>2, <1>5, <1>7, ClearEntry
<1>9. k \in 0 .. NumFrames - 1
  <2> SUFFICES ASSUME k = NumFrames PROVE FALSE
    BY <1>6
  <2>1. 0 \in 0 .. k - 1 /\ Place(entry[2], k) = Place(entry[2], 0)
    BY <1>2, <1>6, Places
  <2> QED
    BY <1>7, <1>8, <2>1
<1>10. T = S \cup {q}
  <2>1. 0 .. (k + 1) - 1 = (0 .. k - 1) \cup {k}
    BY <1>6
  <2> QED
    BY <1>7, <2>1
<1>11. page_table' = ClearReferenced(entry[1], T)
  BY <1>1, <1>2, <1>5, <1>7, <1>10, ClearedMore
<1>12. hand' = Place(entry[2], k + 1) /\ Place(entry[2], k + 1) \in Frames
  <2>1. k + 1 \in 0 .. NumFrames /\ hand = Place(entry[2], k)
    BY <1>3, <1>6, <1>9 DEF PSwept
  <2> QED
    BY <1>1, <1>2, <1>9, <2>1, Places
<1>13. IInv' /\ FreeFrames' = {}
  BY <1>1, <1>2, <1>5, ResetKeeps
<1>14. Asked'
  BY <1>1, <1>2, <1>5, ResetEntry DEF Asked
<1>15. PSwept(k + 1)'
  <2>1. \A i \in 0 .. (k + 1) - 1 : entry[1][frame_table[Place(entry[2], i)]].referenced
    <3>1. \A i \in 0 .. (k + 1) - 1 : i \in 0 .. k - 1 \/ i = k
      BY <1>6
    <3> QED
      BY <1>3, <1>7, <1>8, <3>1 DEF PSwept
  <2>2. \A i : Place(entry[2], i)' = Place(entry[2], i)
    BY <1>1 DEF Place
  <2>3. hand' = Place(entry[2], k + 1)'
    BY <1>12, <2>2
  <2> QED
    BY <1>1, <1>11, <2>1, <2>2, <2>3 DEF PSwept
<1>16. k + 1 \in 0 .. NumFrames
  BY <1>6, <1>9
<1>17. PInv'
  BY <1>1, <1>2, <1>12, <1>13, <1>14, <1>15, <1>16 DEF PInv, Lowest
<1> QED
  BY <1>4, <1>17

LEMMA PPassed ==
  ASSUME pc = "loop", entry[2] \in Frames, NEW k \in 0 .. NumFrames,
         \A i \in 0 .. k - 1 : entry[1][frame_table[Place(entry[2], i)]].referenced,
         k < NumFrames => ~entry[1][frame_table[Place(entry[2], k)]].referenced
  PROVE  PLoop!Atomic!Passed = k /\ \A i : PLoop!Atomic!Ahead(i) = Place(entry[2], i)
<1> DEFINE S == {i \in 0 .. NumFrames - 1 : ~entry[1][frame_table[Place(entry[2], i)]].referenced}
                \cup {NumFrames}
           least == CHOOSE x \in S : \A y \in S : x =< y
<1>1. NumFrames \in Nat \ {0}
  BY VMMAssumption
<1>2. \A i : PLoop!Atomic!Ahead(i) = Place(entry[2], i)
  BY DEF PLoop!Atomic!Ahead, Place
<1>3. PLoop!Atomic!Passed = least
  BY <1>2 DEF PLoop!Atomic!Passed, PLoop!Atomic!Min
<1>4. S \in SUBSET Nat /\ k \in S /\ \A i \in S : k <= i
  BY <1>1
<1> HIDE DEF S
<1>5. least \in S /\ \A y \in S : least <= y
  BY <1>4, LeastIsChosen
<1>6. least = k
  <2>1. least \in Nat /\ k \in Nat /\ least <= k /\ k <= least
    BY <1>4, <1>5
  <2> HIDE DEF least
  <2> QED
    BY <2>1
<1> QED
  BY <1>2, <1>3, <1>6

\* A fault in any frame, the hand one further.
LEMMA PServes ==
  ASSUME PInv, NEW op \in Operations, NEW p \in Pages, ServiceFault(op, p, hand, {}),
         hand' = (hand + 1) % NumFrames, pc' = "run"
  PROVE  PInv'
<1>1. SelectFrame(hand, {})
  BY LowestMayBeTaken, AnyMayBeTaken DEF PInv
<1>2. IInv' /\ FreeFrames' = FreeFrames \ {hand}
  <2>1. {} \in SUBSET Resident
    OBVIOUS
  <2> QED
    BY <1>1, <2>1, AllowedFault, FaultUsesFrame DEF PInv
<1>3. hand' = Around(hand, 1, NumFrames) /\ hand' \in Frames
  <2>1. NumFrames \in Nat \ {0} /\ hand \in 0 .. NumFrames - 1
    BY VMMAssumption DEF PInv, Frames
  <2>2. 1 \in 0 .. NumFrames
    BY <2>1
  <2>3. hand' = Around(hand, 1, NumFrames)
    BY <2>1, <2>2, AroundIsRemainder
  <2> QED
    BY <2>1, <2>3 DEF Around, Frames
<1>4. Lowest(hand', FreeFrames')
  BY <1>2, <1>3, LowestAdvances, LowestOfNone DEF PInv
<1> QED
  BY <1>2, <1>3, <1>4 DEF PInv

LEMMA PLeaves ==
  ASSUME PInv, PLoop!LeaveLoop
  PROVE  PInv' /\ PLoop!Atomic!ClockNext
<1> DEFINE q == frame_table[hand]
           op == request[1]
           p == request[2]
<1>1. /\ pc = "loop" /\ ~page_table[q].referenced
      /\ ServiceFault(op, p, hand, {}) /\ hand' = (hand + 1) % NumFrames
      /\ pc' = "run"
  BY PLoopEngine DEF PLoop!LeaveLoop, PLoop!Referenced, PLoop!Advance
<1>2. /\ IInv /\ hand \in Frames /\ FreeFrames = {} /\ entry[2] \in Frames
      /\ entry[1] \in [Pages -> PTE] /\ page_table \in [Pages -> PTE]
      /\ op \in Operations /\ p \in Pages
  BY <1>1 DEF PInv, Asked, IInv, TypeOK
<1>3. PICK k \in 0 .. NumFrames : PSwept(k)
  BY <1>1 DEF PInv
<1> DEFINE S == {frame_table[Place(entry[2], i)] : i \in 0 .. k - 1}
<1> HIDE DEF op, p
<1>4. /\ q = frame_table[Place(entry[2], k)] /\ page_table = ClearReferenced(entry[1], S)
      /\ hand = Place(entry[2], k) /\ q \in Pages
      /\ \A i \in 0 .. k - 1 : entry[1][frame_table[Place(entry[2], i)]].referenced
  BY <1>2, <1>3, FullMeansResident DEF PSwept, Resident
<1>5. k < NumFrames => ~entry[1][q].referenced
  <2> SUFFICES ASSUME k < NumFrames, entry[1][q].referenced PROVE FALSE
    OBVIOUS
  <2>1. q \in S
    BY <1>1, <1>2, <1>4, ClearEntry
  <2>2. PICK i \in 0 .. k - 1 : q = frame_table[Place(entry[2], i)]
    BY <2>1
  <2>3. i \in 0 .. NumFrames - 1 /\ k \in 0 .. NumFrames - 1 /\ i # k
    BY VMMAssumption
  <2> QED
    BY <1>2, <1>4, <2>2, <2>3, PlacePages
<1>6. PLoop!Atomic!Passed = k /\ \A i : PLoop!Atomic!Ahead(i) = Place(entry[2], i)
  BY <1>1, <1>2, <1>4, <1>5, PPassed
<1>7. PLoop!Atomic!ServiceFault(op, p, hand, S)
  <2> DEFINE pt == IF pc = "loop" THEN entry[1] ELSE page_table
  <2>1. pt = entry[1]
    BY <1>1
  <2>2. ~page_table[p].present /\ Served(op, p, hand, page_table)
    BY <1>1, <1>2, ServedAsItIs
  <2>3. ~entry[1][p].present /\ page_table[p].pagedout = entry[1][p].pagedout
    <3>1. page_table[p] \in PTE /\ entry[1][p] \in PTE
      BY <1>2
    <3>2. (page_table[p].pagedout <=> entry[1][p].pagedout)
          /\ (page_table[p].present <=> entry[1][p].present)
      BY <1>2, <1>4, ClearEntry
    <3> QED
      BY <2>2, <3>1, <3>2 DEF PTE
  <2> HIDE DEF S, pt
  <2> QED
    BY <1>1, <1>4, <2>1, <2>2, <2>3, PAtomicServes DEF pt
<1>8. PLoop!Atomic!Sweep(op, p)
  <2>1. frame_table[entry[2]] # EMPTY
    BY <1>2, FullMeansResident, EmptyIsNoPage DEF Resident
  <2>2. (IF pc = "loop" THEN entry[2] ELSE hand) = entry[2]
        /\ (IF pc = "loop" THEN entry[2] ELSE hand)' = hand'
    BY <1>1
  <2> QED
    BY <1>1, <1>4, <1>6, <1>7, <2>1, <2>2, PAtomicEngine
       DEF PLoop!Atomic!Sweep, PLoop!Atomic!Advance
<1>9. PLoop!Atomic!ClockNext
  BY <1>2, <1>8, PAtomicEngine DEF PLoop!Atomic!ClockNext
<1>10. PInv'
  BY <1>1, <1>2, PServes
<1> QED
  BY <1>9, <1>10

LEMMA PElsewhere ==
  ASSUME PInv, PLoop!Elsewhere
  PROVE  PInv' /\ PLoop!Atomic!ClockNext
<1>1. pc = "run" /\ pc' = "run" /\ page_table \in [Pages -> PTE]
      /\ page_table' = (IF pc = "loop" THEN entry[1] ELSE page_table)'
      /\ hand' = (IF pc = "loop" THEN entry[2] ELSE hand)'
  BY DEF PLoop!Elsewhere, PLoop!ready, PInv, IInv, TypeOK
<1>2. ASSUME NEW op \in Operations, NEW p \in Pages, PLoop!TakeEmpty(op, p)
      PROVE  PInv' /\ PLoop!Atomic!ClockNext
  <2>1. /\ frame_table[hand] = EMPTY /\ ServiceFault(op, p, hand, {})
        /\ hand' = (hand + 1) % NumFrames
    BY <1>2, PLoopEngine DEF PLoop!TakeEmpty, PLoop!Advance
  <2>2. ~page_table[p].present /\ Served(op, p, hand, page_table)
    BY <1>1, <2>1, ServedAsItIs
  <2>3. ClearReferenced(page_table, {}) = page_table
    BY <1>1, ClearedNothing
  <2>4. PLoop!Atomic!ServiceFault(op, p, hand, {})
    BY <1>1, <2>2, <2>3, PAtomicServes
  <2>5. PLoop!Atomic!TakeEmpty(op, p)
    BY <1>1, <2>1, <2>4, PAtomicEngine DEF PLoop!Atomic!TakeEmpty, PLoop!Atomic!Advance
  <2> QED
    BY <1>1, <2>1, <2>5, PServes, PAtomicEngine DEF PLoop!Atomic!ClockNext
<1>3. CASE Quiet /\ UNCHANGED hand
  <2>1. PInv'
    BY <1>1, <1>3, QuietStep DEF PInv
  <2>2. ASSUME NEW op \in Operations, NEW p \in Pages, Hit(op, p)
        PROVE  PLoop!Atomic!ClockNext
    <3>1. PLoop!Atomic!Hit(op, p)
      BY <1>1, <2>2, PAtomicEngine DEF PLoop!Atomic!Hit, Hit
    <3> QED
      BY <1>1, <1>3, <3>1, PAtomicEngine DEF PLoop!Atomic!ClockNext
  <2>3. CASE EndOfInput \/ BadInstruction \/ Exited
    <3>1. PLoop!Atomic!EndOfInput \/ PLoop!Atomic!BadInstruction \/ PLoop!Atomic!Exited
      BY <1>1, <2>3 DEF EndOfInput, BadInstruction, Exited, vars, PLoop!Atomic!EndOfInput,
                        PLoop!Atomic!BadInstruction, PLoop!Atomic!Exited, PLoop!Atomic!vars
    <3>2. UNCHANGED (IF pc = "loop" THEN entry[2] ELSE hand)
      BY <1>1, <1>3
    <3> QED
      BY <2>1, <3>1, <3>2 DEF PLoop!Atomic!ClockNext
  <2> QED
    BY <1>3, <2>1, <2>2, <2>3 DEF Quiet
<1> QED
  BY <1>2, <1>3, PLoopEngine DEF PLoop!Elsewhere, Quiet

LEMMA PStep ==
  ASSUME PInv, PLoop!LoopNext
  PROVE  PInv' /\ (PLoop!Atomic!ClockNext \/ UNCHANGED PLoop!Atomic!clockvars)
  BY PEnters, PIterates, PLeaves, PElsewhere, PLoopEngine DEF PLoop!LoopNext

-----------------------------------------------------------------------------
(* The clock over pages.                                                   *)

LEMMA VLoopEngine ==
  ASSUME NEW op, NEW p, NEW index, NEW cleared
  PROVE  /\ VLoop!ServiceFault(op, p, index, cleared) <=> ServiceFault(op, p, index, cleared)
         /\ VLoop!Hit(op, p) <=> Hit(op, p)
         /\ (VLoop!EndOfInput \/ VLoop!BadInstruction \/ VLoop!Exited) <=>
               (EndOfInput \/ BadInstruction \/ Exited)
         /\ VLoop!Init <=> Init
         /\ VLoop!Pages = Pages /\ VLoop!Frames = Frames
         /\ VLoop!Operations = Operations /\ VLoop!EMPTY = EMPTY
  BY DEF VLoop!ServiceFault, ServiceFault, VLoop!ClearReferenced,
         ClearReferenced, VLoop!Evicted, Evicted, VLoop!unmap, unmap,
         VLoop!page_out, page_out, VLoop!EMPTY, EMPTY, VLoop!Access,
         Access, VLoop!map, map, VLoop!Loaded, Loaded, VLoop!page_in,
         page_in, VLoop!Touched, Touched, VLoop!WRITE, WRITE,
         VLoop!FaultStats, FaultStats, VLoop!Bump, Bump, VLoop!Pages,
         Pages, VLoop!Hit, Hit, VLoop!EndOfInput, EndOfInput,
         VLoop!BadInstruction, BadInstruction, VLoop!Exited, Exited,
         VLoop!vars, vars, VLoop!READ, READ, VLoop!Operations, Operations,
         VLoop!Frames, Frames, VLoop!Init, Init, VLoop!Counters, Counters

\* The atomic clock sees the page table as it was when the loop was entered.
LEMMA VAtomicEngine ==
  ASSUME NEW op, NEW p, NEW index, NEW cleared, NEW pt, NEW old, NEW a, NEW b, NEW c
  PROVE  /\ VLoop!Atomic!ClearReferenced(pt, cleared) = ClearReferenced(pt, cleared)
         /\ VLoop!Atomic!Evicted(pt, old) = Evicted(pt, old)
         /\ VLoop!Atomic!Loaded(pt, p) = Loaded(pt, p)
         /\ VLoop!Atomic!map(pt, p, index) = map(pt, p, index)
         /\ VLoop!Atomic!Access(pt, op, p) = Access(pt, op, p)
         /\ VLoop!Atomic!FaultStats(a, b, c) = FaultStats(a, b, c)
         /\ VLoop!Atomic!Bump(a, b) = Bump(a, b)
         /\ VLoop!Atomic!EMPTY = EMPTY /\ VLoop!Atomic!Pages = Pages
         /\ VLoop!Atomic!Operations = Operations
  BY DEF VLoop!Atomic!ClearReferenced,
         ClearReferenced, VLoop!Atomic!Evicted, Evicted, VLoop!Atomic!unmap, unmap,
         VLoop!Atomic!page_out, page_out, VLoop!Atomic!EMPTY, EMPTY, VLoop!Atomic!Access,
         Access, VLoop!Atomic!map, map, VLoop!Atomic!Loaded, Loaded, VLoop!Atomic!page_in,
         page_in, VLoop!Atomic!Touched, Touched, VLoop!Atomic!WRITE, WRITE,
         VLoop!Atomic!FaultStats, FaultStats, VLoop!Atomic!Bump, Bump, VLoop!Atomic!Pages,
         Pages, VLoop!Atomic!READ, READ, VLoop!Atomic!Operations, Operations

LEMMA VAtomicServes ==
  ASSUME NEW op, NEW p, NEW index, NEW cleared, pc' = "run",
         NEW pt, pt = IF pc = "loop" THEN entry[1] ELSE page_table,
         ~pt[p].present, Served(op, p, index, ClearReferenced(pt, cleared)),
         ClearReferenced(pt, cleared)[p].pagedout = pt[p].pagedout
  PROVE  VLoop!Atomic!ServiceFault(op, p, index, cleared)
<1>1. page_table' = (IF pc = "loop" THEN entry[1] ELSE page_table)'
  OBVIOUS
<1> QED
  BY <1>1, VAtomicEngine DEF VLoop!Atomic!ServiceFault, Served

\* The page i places behind the one the loop began with.
VPlace(i) == (entry[2] + i) % NumPages

\* The i-th page the loop meets is passed: twice round if it must.
VPasses(i) == LET e == entry[1][VPlace(i)]
              IN  IF i < NumPages THEN ~(e.present /\ ~e.referenced) ELSE ~e.present

VPassed(k) == {VPlace(i) : i \in 0 .. k - 1}

VSwept(k) ==
  /\ hand = VPlace(k)
  /\ \A i \in 0 .. k - 1 : VPasses(i)
  /\ page_table = ClearReferenced(entry[1], {q \in VPassed(k) : entry[1][q].present})

VRuns == /\ IInv /\ hand \in Nat /\ Lowest(hand, FreeFrames)
         /\ FreeFrames = {} => hand \in Pages
         /\ pc \in {"run", "loop"}
         /\ pc = "loop" => /\ Asked /\ FreeFrames = {} /\ entry[2] \in Pages
                           /\ \E slot \in VLoop!TableEntry(entry[2]) : slot # EMPTY
                           /\ \E k \in Nat : VSwept(k)

VCrashed == status = "crashed" /\ pc = "run"

VInv == VCrashed \/ VRuns

LEMMA VPlaces ==
  ASSUME entry[2] \in Pages
  PROVE  /\ NumPages \in Nat \ {0} /\ VPlace(0) = entry[2]
         /\ \A i \in Nat : /\ VPlace(i) \in Pages
                           /\ VPlace(i + 1) = (VPlace(i) + 1) % NumPages
                           /\ VPlace(i + NumPages) = VPlace(i)
         /\ \A i, j \in 0 .. NumPages - 1 : VPlace(i) = VPlace(j) => i = j
         /\ \A q \in Pages : \E i \in 0 .. NumPages - 1 : VPlace(i) = q
<1> DEFINE h == entry[2]
<1>1. NumPages \in Nat \ {0} /\ h \in 0 .. NumPages - 1 /\ \A i : VPlace(i) = (h + i) % NumPages
  BY VMMAssumption DEF Pages, VPlace
<1> HIDE DEF h
<1>2. \A i \in 0 .. NumPages : VPlace(i) = Around(h, i, NumPages)
  BY <1>1, AroundIsRemainder
<1>3. VPlace(0) = h
  <2>1. 0 \in 0 .. NumPages /\ Around(h, 0, NumPages) = h
    BY <1>1 DEF Around
  <2> QED
    BY <1>2, <2>1
<1>4. ASSUME NEW i \in Nat
      PROVE  /\ VPlace(i) \in Pages
             /\ VPlace(i + 1) = (VPlace(i) + 1) % NumPages
             /\ VPlace(i + NumPages) = VPlace(i)
  <2> DEFINE a == h + i
  <2>1. a \in Int /\ 1 \in Int /\ a + 1 = h + (i + 1) /\ a + NumPages = h + (i + NumPages)
    BY <1>1
  <2>2. VPlace(i) = a % NumPages
    BY <1>1
  <2>3. VPlace(i + 1) = (a + 1) % NumPages /\ VPlace(i + NumPages) = (a + NumPages) % NumPages
    BY <1>1, <2>1
  <2> HIDE DEF a
  <2>4. ((a % NumPages) + 1) % NumPages = (a + 1) % NumPages
    BY <1>1, <2>1, RemainderOfSum, Zenon
  <2>5. PICK d \in Int, r \in 0 .. NumPages - 1 : a = NumPages * d + r /\ a % NumPages = r
    BY <1>1, <2>1, Division
  <2>6. a + NumPages = NumPages * (d + 1) + r /\ d + 1 \in Int
    BY <1>1, <2>1, <2>5
  <2>7. (NumPages * (d + 1) + r) % NumPages = r
    BY <1>1, <2>6, Remainder
  <2> QED
    BY <2>2, <2>3, <2>4, <2>5, <2>6, <2>7 DEF Pages
<1>5. ASSUME NEW i \in 0 .. NumPages - 1, NEW j \in 0 .. NumPages - 1, VPlace(i) = VPlace(j)
      PROVE  i = j
  <2>1. i \in 0 .. NumPages /\ j \in 0 .. NumPages
    BY <1>1
  <2> QED
    BY <1>1, <1>2, <1>5, <2>1, AroundOnce
<1>6. ASSUME NEW q \in Pages PROVE \E i \in 0 .. NumPages - 1 : VPlace(i) = q
  <2>1. PICK i \in 0 .. NumPages - 1 : Around(h, i, NumPages) = q
    BY <1>1, AroundReaches DEF Pages
  <2>2. i \in 0 .. NumPages
    BY <1>1
  <2> QED
    BY <1>2, <2>1, <2>2
<1> QED
  BY <1>1, <1>3, <1>4, <1>5, <1>6 DEF h

LEMMA VEnters ==
  ASSUME VInv, NEW op \in Operations, NEW p \in Pages, VLoop!EnterLoop(op, p)
  PROVE  VInv' /\ UNCHANGED VLoop!Atomic!vclockvars
<1>1. /\ pc = "run" /\ status = "running" /\ ~page_table[p].present
      /\ \E slot \in VLoop!TableEntry(hand) : slot # EMPTY
      /\ pc' = "loop" /\ request' = <<op, p>> /\ entry' = <<page_table, hand>>
      /\ UNCHANGED <<frame_table, page_table, stats, status, hand>>
  BY VLoopEngine DEF VLoop!EnterLoop
<1>2. UNCHANGED VLoop!Atomic!vclockvars
  BY <1>1 DEF VLoop!Atomic!vclockvars
<1>3. VRuns
  BY <1>1 DEF VInv, VCrashed
<1>4. FreeFrames = {} /\ hand \in Pages
  <2> SUFFICES ASSUME FreeFrames # {} PROVE FALSE
    BY <1>3 DEF VRuns
  <2>1. hand \in Frames /\ frame_table[hand] = EMPTY
    BY <1>3 DEF VRuns, Lowest, FreeFrames
  <2>2. VLoop!TableEntry(hand) = {EMPTY}
    BY <2>1, VLoopEngine DEF VLoop!TableEntry
  <2> QED
    BY <1>1, <2>2
<1>5. IInv' /\ hand' \in Nat /\ Lowest(hand', FreeFrames') /\ FreeFrames' = {} /\ hand' \in Pages
  BY <1>1, <1>3, <1>4 DEF VRuns, IInv, TypeOK, TablesInv, TablesAgree, AbsentIsClean,
                          FilledInOrder, FreeFrames, Lowest
<1>6. Asked' /\ entry'[2] = hand /\ entry'[1] = page_table
  BY <1>1, <1>3 DEF Asked, VRuns, IInv, TypeOK
<1>7. (\E slot \in VLoop!TableEntry(entry[2]) : slot # EMPTY)'
  BY <1>1, <1>6 DEF VLoop!TableEntry
<1>8. VSwept(0)'
  <2>1. 0 .. 0 - 1 = {}
    OBVIOUS
  <2>2. VPlace(0)' = hand
    <3>1. hand \in 0 .. NumPages - 1 /\ NumPages \in Nat \ {0}
      BY <1>4, VMMAssumption DEF Pages
    <3>2. 0 \in 0 .. NumPages /\ Around(hand, 0, NumPages) = hand
      BY <3>1 DEF Around
    <3>3. (hand + 0) % NumPages = hand
      BY <3>1, <3>2, AroundIsRemainder
    <3> QED
      BY <1>6, <3>3 DEF VPlace
  <2>3. page_table' = ClearReferenced(entry'[1], {})
    BY <1>1, <1>3, <1>6, ClearedNothing DEF VRuns, IInv, TypeOK
  <2>4. VPassed(0)' = {}
    BY <2>1 DEF VPassed
  <2>5. {q \in VPassed(0)' : entry'[1][q].present} = {}
    BY <2>4
  <2> QED
    BY <1>1, <2>1, <2>2, <2>3, <2>5 DEF VSwept
<1>9. 0 \in Nat
  OBVIOUS
<1>10. VRuns'
  BY <1>1, <1>4, <1>5, <1>6, <1>7, <1>8, <1>9 DEF VRuns
<1> QED
  BY <1>2, <1>10 DEF VInv

LEMMA VIterates ==
  ASSUME VInv, VLoop!Iterate
  PROVE  VInv' /\ UNCHANGED VLoop!Atomic!vclockvars
<1> DEFINE q == hand
<1>1. /\ pc = "loop" /\ ~(page_table[q].present /\ ~page_table[q].referenced)
      /\ page_table' = IF page_table[q].present /\ page_table[q].referenced
                       THEN Reset(page_table, q) ELSE page_table
      /\ hand' = (hand + 1) % NumPages
      /\ UNCHANGED <<frame_table, stats, status, pc, request, entry>>
  BY DEF VLoop!Iterate, VLoop!Stops, VLoop!NextTable, Reset
<1>2. VRuns
  BY <1>1 DEF VInv, VCrashed
<1>3. /\ IInv /\ Asked /\ FreeFrames = {} /\ entry[2] \in Pages /\ q \in Pages
      /\ entry[1] \in [Pages -> PTE] /\ page_table \in [Pages -> PTE]
  BY <1>1, <1>2 DEF VRuns, Asked, IInv, TypeOK
<1>4. PICK k \in Nat : VSwept(k)
  BY <1>1, <1>2 DEF VRuns
<1>5. UNCHANGED VLoop!Atomic!vclockvars
  BY <1>1 DEF VLoop!Atomic!vclockvars
<1> DEFINE C == {r \in VPassed(k) : entry[1][r].present}
           D == {r \in VPassed(k + 1) : entry[1][r].present}
<1>6. q = VPlace(k) /\ page_table = ClearReferenced(entry[1], C)
  BY <1>4 DEF VSwept
<1>7. /\ page_table[q].present <=> entry[1][q].present
      /\ page_table[q].referenced => entry[1][q].referenced /\ q \notin C
      /\ page_table[q] \in PTE /\ entry[1][q] \in PTE
  BY <1>3, <1>6, ClearEntry
<1>8. VPasses(k)
  <2>1. CASE k < NumPages
    BY <1>1, <1>6, <1>7, <2>1 DEF VPasses
  <2>2. CASE ~(k < NumPages)
    <3> SUFFICES ASSUME entry[1][q].present PROVE FALSE
      BY <1>6, <2>2 DEF VPasses
    <3>1. NumPages \in Nat \ {0}
      BY VMMAssumption
    <3>2. k - NumPages \in Nat /\ k - NumPages \in 0 .. k - 1 /\ (k - NumPages) + NumPages = k
      BY <2>2, <3>1
    <3>3. VPlace(k - NumPages) = VPlace(k)
      BY <1>3, <3>2, VPlaces
    <3>4. q \in C
      BY <1>6, <3>2, <3>3 DEF VPassed
    <3> QED
      BY <1>1, <1>7, <3>4
  <2> QED
    BY <2>1, <2>2
<1>9. VPassed(k + 1) = VPassed(k) \cup {q}
  <2>1. 0 .. (k + 1) - 1 = (0 .. k - 1) \cup {k}
    OBVIOUS
  <2> QED
    BY <1>6, <2>1 DEF VPassed
<1>10. page_table' = ClearReferenced(entry[1], D)
  <2>1. CASE page_table[q].present /\ page_table[q].referenced
    <3>1. D = C \cup {q}
      BY <1>7, <1>9, <2>1
    <3> QED
      BY <1>1, <1>3, <1>6, <2>1, <3>1, ClearedMore
  <2>2. CASE ~(page_table[q].present /\ page_table[q].referenced)
    <3>1. ~entry[1][q].present
      BY <1>1, <1>7, <2>2
    <3>2. D = C
      BY <1>9, <3>1
    <3> QED
      BY <1>1, <1>6, <2>2, <3>2
  <2> QED
    BY <2>1, <2>2
<1> HIDE DEF C, D
<1>11. hand' = VPlace(k + 1) /\ hand' \in Pages /\ hand' \in Nat
  BY <1>1, <1>3, <1>6, VPlaces DEF Pages
<1>12. IInv' /\ FreeFrames' = {} /\ Asked'
  <2>1. CASE page_table' = Reset(page_table, q)
    <3>1. IInv' /\ FreeFrames' = {}
      BY <1>1, <1>3, <2>1, ResetKeeps
    <3>2. Asked'
      BY <1>1, <1>3, <2>1, ResetEntry DEF Asked
    <3> QED
      BY <3>1, <3>2
  <2>2. CASE page_table' = page_table
    BY <1>1, <1>3, <2>2 DEF IInv, TypeOK, TablesInv, TablesAgree, AbsentIsClean,
                            FilledInOrder, FreeFrames, Asked
  <2> QED
    BY <1>1, <2>1, <2>2
<1>13. VSwept(k + 1)'
  <2>1. \A i \in 0 .. (k + 1) - 1 : VPasses(i)
    <3>1. \A i \in 0 .. (k + 1) - 1 : i \in 0 .. k - 1 \/ i = k
      OBVIOUS
    <3> QED
      BY <1>4, <1>8, <3>1 DEF VSwept
  <2>2. \A i : VPlace(i)' = VPlace(i)
    BY <1>1 DEF VPlace
  <2>3. \A i : VPasses(i)' <=> VPasses(i)
    BY <1>1, <2>2 DEF VPasses
  <2>4. VPassed(k + 1)' = VPassed(k + 1)
    BY <2>2 DEF VPassed
  <2> QED
    BY <1>1, <1>10, <1>11, <2>1, <2>2, <2>3, <2>4 DEF VSwept, D
<1>14. (\E slot \in VLoop!TableEntry(entry[2]) : slot # EMPTY)'
  BY <1>1, <1>2 DEF VRuns, VLoop!TableEntry
<1>15. k + 1 \in Nat
  OBVIOUS
<1>16. VRuns'
  BY <1>1, <1>3, <1>11, <1>12, <1>13, <1>14, <1>15 DEF VRuns, Lowest
<1> QED
  BY <1>5, <1>16 DEF VInv

LEMMA VPassedIs ==
  ASSUME pc = "loop", entry[2] \in Pages,
         \E q \in Pages : entry[1][q].present,
         NEW k \in Nat, \A i \in 0 .. k - 1 : VPasses(i), ~VPasses(k)
  PROVE  VLoop!Atomic!Passed = k /\ \A i : VLoop!Atomic!Ahead(i) = VPlace(i)
<1> DEFINE S == {i \in 0 .. NumPages - 1 :
                   entry[1][VPlace(i)].present /\ ~entry[1][VPlace(i)].referenced}
                \cup {i \in NumPages .. 2 * NumPages - 1 : entry[1][VPlace(i)].present}
           least == CHOOSE x \in S : \A y \in S : x =< y
<1>1. NumPages \in Nat \ {0}
  BY VMMAssumption
<1>2. \A i : VLoop!Atomic!Ahead(i) = VPlace(i)
  BY DEF VLoop!Atomic!Ahead, VPlace
<1>3. VLoop!Atomic!Passed = least
  BY <1>2 DEF VLoop!Atomic!Passed, VLoop!Atomic!Min, VLoop!Atomic!Stops
<1>4. \A i : i \in S <=> i \in 0 .. 2 * NumPages - 1 /\ ~VPasses(i)
  BY <1>1 DEF VPasses
<1>5. k < 2 * NumPages
  <2>1. PICK q \in Pages : entry[1][q].present
    OBVIOUS
  <2>2. PICK i \in 0 .. NumPages - 1 : VPlace(i) = q
    BY VPlaces
  <2>3. i \in Nat /\ i + NumPages >= NumPages /\ i + NumPages \in 0 .. 2 * NumPages - 1
    BY <1>1
  <2>4. VPlace(i + NumPages) = q
    BY <2>2, <2>3, VPlaces
  <2>5. ~VPasses(i + NumPages)
    BY <1>1, <2>1, <2>3, <2>4 DEF VPasses
  <2> QED
    BY <1>1, <2>3, <2>5
<1> HIDE DEF S
<1>6. S \in SUBSET Nat /\ k \in S /\ \A i \in S : k <= i
  BY <1>1, <1>4, <1>5
<1>7. least \in S /\ \A y \in S : least <= y
  BY <1>6, LeastIsChosen
<1>8. least = k
  <2>1. least \in Nat /\ k \in Nat /\ least <= k /\ k <= least
    BY <1>6, <1>7
  <2> HIDE DEF least
  <2> QED
    BY <2>1
<1> QED
  BY <1>2, <1>3, <1>8

\* A fault in any frame, with the hand where the search for a frame left it.
LEMMA VServes ==
  ASSUME VRuns, FreeFrames = {}, NEW op \in Operations, NEW p \in Pages,
         NEW index \in Frames, ServiceFault(op, p, index, {}),
         hand' \in Pages, pc' = "run"
  PROVE  VInv'
<1>1. SelectFrame(index, {}) /\ IInv
  BY AnyMayBeTaken DEF VRuns
<1>2. IInv' /\ FreeFrames' = FreeFrames \ {index}
  <2>1. {} \in SUBSET Resident
    OBVIOUS
  <2> QED
    BY <1>1, <2>1, AllowedFault, FaultUsesFrame
<1>3. Lowest(hand', FreeFrames') /\ hand' \in Nat
  BY <1>2, LowestOfNone DEF Pages
<1> QED
  BY <1>2, <1>3 DEF VInv, VRuns

LEMMA VLeaves ==
  ASSUME VInv, VLoop!LeaveLoop
  PROVE  VInv' /\ VLoop!Atomic!VClockNext
<1> DEFINE q == hand
           op == request[1]
           p == request[2]
           index == page_table[q].frame_number
<1>1. /\ pc = "loop" /\ page_table[q].present /\ ~page_table[q].referenced
      /\ ServiceFault(op, p, index, {}) /\ hand' = (hand + 1) % NumPages
      /\ pc' = "run"
  BY VLoopEngine DEF VLoop!LeaveLoop, VLoop!Stops
<1>2. VRuns
  BY <1>1 DEF VInv, VCrashed
<1>3. /\ IInv /\ FreeFrames = {} /\ entry[2] \in Pages /\ q \in Pages
      /\ entry[1] \in [Pages -> PTE] /\ page_table \in [Pages -> PTE]
      /\ op \in Operations /\ p \in Pages
  BY <1>1, <1>2 DEF VRuns, Asked, IInv, TypeOK
<1>4. PICK k \in Nat : VSwept(k)
  BY <1>1, <1>2 DEF VRuns
<1> DEFINE C == {r \in VPassed(k) : entry[1][r].present}
<1> HIDE DEF op, p
<1>5. /\ q = VPlace(k) /\ page_table = ClearReferenced(entry[1], C)
      /\ \A i \in 0 .. k - 1 : VPasses(i)
  BY <1>4 DEF VSwept
<1>6. /\ page_table[q].present <=> entry[1][q].present
      /\ page_table[q].frame_number = entry[1][q].frame_number
      /\ page_table[q].referenced <=> (entry[1][q].referenced /\ q \notin C)
  BY <1>3, <1>5, ClearEntry
<1>7. ~VPasses(k)
  <2> SUFFICES ASSUME k < NumPages, entry[1][q].referenced PROVE FALSE
    BY <1>1, <1>5, <1>6 DEF VPasses
  <2>1. q \in C
    BY <1>1, <1>6
  <2>2. PICK i \in 0 .. k - 1 : q = VPlace(i)
    BY <2>1 DEF VPassed
  <2>3. i \in 0 .. NumPages - 1 /\ k \in 0 .. NumPages - 1 /\ i # k
    BY VMMAssumption
  <2> QED
    BY <1>3, <1>5, <2>2, <2>3, VPlaces
<1>8. VLoop!Atomic!Passed = k /\ \A i : VLoop!Atomic!Ahead(i) = VPlace(i)
  BY <1>1, <1>3, <1>5, <1>6, <1>7, VPassedIs
<1>9. index \in Frames
  BY <1>1, <1>3, FullMeansResident DEF Resident
<1> DEFINE pt == IF pc = "loop" THEN entry[1] ELSE page_table
<1>10. VLoop!Atomic!ServiceFault(op, p, index, C)
  <2>1. pt = entry[1]
    BY <1>1
  <2>2. ~page_table[p].present /\ Served(op, p, index, page_table)
    BY <1>1, <1>3, ServedAsItIs
  <2>3. ~entry[1][p].present /\ page_table[p].pagedout = entry[1][p].pagedout
    <3>1. page_table[p] \in PTE /\ entry[1][p] \in PTE
      BY <1>3
    <3>2. (page_table[p].pagedout <=> entry[1][p].pagedout)
          /\ (page_table[p].present <=> entry[1][p].present)
      BY <1>3, <1>5, ClearEntry
    <3> QED
      BY <2>2, <3>1, <3>2 DEF PTE
  <2> HIDE DEF C, pt, index
  <2> QED
    BY <1>1, <1>5, <2>1, <2>2, <2>3, VAtomicServes DEF pt
<1>11. hand' = VPlace(k + 1) /\ hand' \in Pages
  BY <1>1, <1>3, <1>5, VPlaces
<1>12. VLoop!Atomic!Sweep(op, p)
  <2>1. pt = entry[1] /\ (IF pc = "loop" THEN entry[2] ELSE hand) = entry[2]
        /\ (IF pc = "loop" THEN entry[2] ELSE hand)' = hand'
    BY <1>1
  <2>2. \E slot \in VLoop!Atomic!TableEntry(entry[2]) : slot # EMPTY
    BY <1>1, <1>2 DEF VRuns, VLoop!Atomic!TableEntry, VLoop!TableEntry, VLoop!Atomic!Frames,
                      VLoop!Frames, VLoop!Atomic!AnyWord, VLoop!AnyWord,
                      VLoop!Atomic!EMPTY, VLoop!EMPTY
  <2>3. C = {r \in {VPlace(i) : i \in 0 .. k - 1} : pt[r].present}
    BY <2>1 DEF VPassed
  <2>4. index = pt[VPlace(k)].frame_number
    BY <1>5, <1>6, <2>1
  <2> HIDE DEF C, index
  <2> QED
    BY <1>8, <1>10, <1>11, <2>1, <2>2, <2>3, <2>4, VAtomicEngine
       DEF VLoop!Atomic!Sweep, pt
<1>13. VLoop!Atomic!VClockNext
  BY <1>3, <1>12, VAtomicEngine DEF VLoop!Atomic!VClockNext
<1>14. VInv'
  BY <1>1, <1>2, <1>3, <1>9, <1>11, VServes
<1> QED
  BY <1>13, <1>14

\* The hand counts frames while one is free; with the last of them it is at 0.
LEMMA VTakes ==
  ASSUME VRuns, pc = "run", NEW op \in Operations, NEW p \in Pages,
         hand \in Frames, frame_table[hand] = EMPTY,
         ServiceFault(op, p, hand, {}), hand' = (hand + 1) % NumFrames, pc' = "run"
  PROVE  VInv'
<1>1. IInv /\ Lowest(hand, FreeFrames) /\ FreeFrames # {} /\ NumFrames \in Nat \ {0}
      /\ NumPages \in Nat \ {0}
  BY VMMAssumption DEF VRuns, FreeFrames
<1>2. SelectFrame(hand, {}) /\ {} \in SUBSET Resident
  BY <1>1, LowestMayBeTaken
<1>3. IInv' /\ FreeFrames' = FreeFrames \ {hand}
  BY <1>1, <1>2, AllowedFault, FaultUsesFrame
<1>4. hand' = Around(hand, 1, NumFrames)
  <2>1. 1 \in 0 .. NumFrames /\ hand \in 0 .. NumFrames - 1
    BY <1>1 DEF Frames
  <2> QED
    BY <1>1, <2>1, AroundIsRemainder
<1>5. hand' \in Nat /\ Lowest(hand', FreeFrames')
  <2>1. hand' \in Nat
    BY <1>1, <1>4 DEF Around, Frames
  <2>2. Lowest(Around(hand, 1, NumFrames), FreeFrames \ {hand})
    BY <1>1, LowestAdvances
  <2> QED
    BY <1>3, <1>4, <2>1, <2>2 DEF Lowest
<1>6. FreeFrames' = {} => hand' \in Pages
  <2> SUFFICES ASSUME FreeFrames \ {hand} = {} PROVE hand' \in Pages
    BY <1>3
  <2>1. \A g \in Frames : ~(hand < g)
    BY <1>1 DEF IInv, TablesInv, FilledInOrder, FreeFrames, Frames
  <2>2. hand = NumFrames - 1
    BY <1>1, <2>1 DEF Frames
  <2> QED
    BY <1>1, <1>4, <2>2 DEF Around, Pages
<1> QED
  BY <1>3, <1>5, <1>6 DEF VInv, VRuns

LEMMA VElsewhere ==
  ASSUME VInv, VLoop!Elsewhere
  PROVE  VInv' /\ VLoop!Atomic!VClockNext
<1>1. /\ pc = "run" /\ pc' = "run"
      /\ page_table' = (IF pc = "loop" THEN entry[1] ELSE page_table)'
      /\ hand' = (IF pc = "loop" THEN entry[2] ELSE hand)'
  BY DEF VLoop!Elsewhere, VLoop!ready
<1>2. ASSUME NEW op \in Operations, NEW p \in Pages, VLoop!TakeEmpty(op, p)
      PROVE  VInv' /\ VLoop!Atomic!VClockNext
  <2>1. /\ EMPTY \in VLoop!TableEntry(hand) /\ hand \in Frames
        /\ ServiceFault(op, p, hand, {})
        /\ hand' = (hand + 1) % NumFrames
    BY <1>2, VLoopEngine DEF VLoop!TakeEmpty, VLoop!NextFrame
  <2>2. VRuns /\ page_table \in [Pages -> PTE]
    BY <2>1 DEF VInv, VCrashed, ServiceFault, VRuns, IInv, TypeOK
  <2>3. frame_table[hand] = EMPTY
    BY <2>1, VLoopEngine DEF VLoop!TableEntry
  <2>4. ~page_table[p].present /\ Served(op, p, hand, page_table)
    BY <2>1, <2>2, ServedAsItIs
  <2>5. ClearReferenced(page_table, {}) = page_table
    BY <2>2, ClearedNothing
  <2>6. VLoop!Atomic!ServiceFault(op, p, hand, {})
    BY <1>1, <2>4, <2>5, VAtomicServes
  <2>7. hand \in VLoop!Atomic!Frames /\ EMPTY \in VLoop!Atomic!TableEntry(hand)
    BY <2>1, <2>3 DEF VLoop!Atomic!TableEntry, VLoop!Atomic!Frames, Frames
  <2>8. VLoop!Atomic!TakeEmpty(op, p)
    BY <1>1, <2>1, <2>6, <2>7, VAtomicEngine DEF VLoop!Atomic!TakeEmpty, VLoop!Atomic!NextFrame
  <2> QED
    BY <1>1, <2>1, <2>2, <2>3, <2>8, VTakes, VAtomicEngine DEF VLoop!Atomic!VClockNext
<1>3. ASSUME VLoop!TakeBeyond
      PROVE  VInv' /\ VLoop!Atomic!VClockNext
  <2>1. /\ status = "running" /\ VLoop!Resident # VLoop!Pages /\ hand \notin VLoop!Frames
        /\ EMPTY \in VLoop!TableEntry(hand) /\ status' = "crashed"
        /\ UNCHANGED <<frame_table, page_table, stats, hand>>
    BY <1>3, VLoopEngine DEF VLoop!TakeBeyond
  <2>2. VInv'
    BY <1>1, <2>1 DEF VInv, VCrashed
  <2>3. /\ VLoop!Atomic!Resident = VLoop!Resident /\ VLoop!Atomic!Pages = VLoop!Pages
        /\ VLoop!Atomic!Frames = VLoop!Frames
    BY <1>1 DEF VLoop!Atomic!Resident, VLoop!Resident, VLoop!Atomic!Pages, VLoop!Pages,
                VLoop!Atomic!Frames, VLoop!Frames
  <2>4. EMPTY \in VLoop!Atomic!TableEntry(hand)
    BY <2>1 DEF VLoop!Atomic!TableEntry, VLoop!TableEntry, VLoop!Atomic!Frames, VLoop!Frames,
                VLoop!Atomic!AnyWord, VLoop!AnyWord, VLoop!Atomic!EMPTY, VLoop!EMPTY
  <2>5. UNCHANGED (IF pc = "loop" THEN entry[1] ELSE page_table)
        /\ UNCHANGED (IF pc = "loop" THEN entry[2] ELSE hand)
    BY <1>1, <2>1
  <2>6. VLoop!Atomic!TakeBeyond
    BY <1>1, <2>1, <2>3, <2>4, <2>5, VAtomicEngine DEF VLoop!Atomic!TakeBeyond
  <2> QED
    BY <2>2, <2>6 DEF VLoop!Atomic!VClockNext
<1>4. CASE Quiet /\ UNCHANGED hand
  <2>1. VInv'
    <3>1. CASE VRuns
      BY <1>1, <1>4, <3>1, QuietStep DEF VRuns, VInv
    <3>2. CASE VCrashed
      BY <1>1, <1>4, <3>2 DEF VCrashed, VInv, Quiet, Hit, EndOfInput, BadInstruction, Exited, vars
    <3> QED
      BY <3>1, <3>2 DEF VInv
  <2>2. ASSUME NEW op \in Operations, NEW p \in Pages, Hit(op, p)
        PROVE  VLoop!Atomic!VClockNext
    <3>1. VLoop!Atomic!Hit(op, p)
      BY <1>1, <2>2, VAtomicEngine DEF VLoop!Atomic!Hit, Hit
    <3> QED
      BY <1>1, <1>4, <3>1, VAtomicEngine DEF VLoop!Atomic!VClockNext
  <2>3. CASE EndOfInput \/ BadInstruction \/ Exited
    <3>1. VLoop!Atomic!EndOfInput \/ VLoop!Atomic!BadInstruction \/ VLoop!Atomic!Exited
      BY <1>1, <2>3 DEF EndOfInput, BadInstruction, Exited, vars, VLoop!Atomic!EndOfInput,
                        VLoop!Atomic!BadInstruction, VLoop!Atomic!Exited, VLoop!Atomic!vars
    <3>2. UNCHANGED (IF pc = "loop" THEN entry[2] ELSE hand)
      BY <1>1, <1>4
    <3> QED
      BY <2>1, <3>1, <3>2 DEF VLoop!Atomic!VClockNext
  <2> QED
    BY <1>4, <2>1, <2>2, <2>3 DEF Quiet
<1> QED
  BY <1>2, <1>3, <1>4, VLoopEngine DEF VLoop!Elsewhere, Quiet

LEMMA VStep ==
  ASSUME VInv, VLoop!LoopNext
  PROVE  VInv' /\ (VLoop!Atomic!VClockNext \/ UNCHANGED VLoop!Atomic!vclockvars)
  BY VEnters, VIterates, VLeaves, VElsewhere, VLoopEngine DEF VLoop!LoopNext

-----------------------------------------------------------------------------
(* Second chance: the queue the loop began with, turned k times.           *)

LEMMA SLoopEngine ==
  ASSUME NEW op, NEW p, NEW index, NEW cleared
  PROVE  /\ SLoop!ServiceFault(op, p, index, cleared) <=> ServiceFault(op, p, index, cleared)
         /\ SLoop!Hit(op, p) <=> Hit(op, p)
         /\ (SLoop!EndOfInput \/ SLoop!BadInstruction \/ SLoop!Exited) <=>
               (EndOfInput \/ BadInstruction \/ Exited)
         /\ SLoop!Init <=> Init
         /\ SLoop!Pages = Pages /\ SLoop!Frames = Frames
         /\ SLoop!Operations = Operations /\ SLoop!EMPTY = EMPTY
  BY DEF SLoop!ServiceFault, ServiceFault, SLoop!ClearReferenced,
         ClearReferenced, SLoop!Evicted, Evicted, SLoop!unmap, unmap,
         SLoop!page_out, page_out, SLoop!EMPTY, EMPTY, SLoop!Access,
         Access, SLoop!map, map, SLoop!Loaded, Loaded, SLoop!page_in,
         page_in, SLoop!Touched, Touched, SLoop!WRITE, WRITE,
         SLoop!FaultStats, FaultStats, SLoop!Bump, Bump, SLoop!Pages,
         Pages, SLoop!Hit, Hit, SLoop!EndOfInput, EndOfInput,
         SLoop!BadInstruction, BadInstruction, SLoop!Exited, Exited,
         SLoop!vars, vars, SLoop!READ, READ, SLoop!Operations, Operations,
         SLoop!Frames, Frames, SLoop!Init, Init, SLoop!Counters, Counters

\* The atomic policy sees the page table as it was when the loop was entered.
LEMMA SAtomicEngine ==
  ASSUME NEW op, NEW p, NEW index, NEW cleared, NEW pt, NEW old, NEW a, NEW b, NEW c
  PROVE  /\ SLoop!Atomic!ClearReferenced(pt, cleared) = ClearReferenced(pt, cleared)
         /\ SLoop!Atomic!Evicted(pt, old) = Evicted(pt, old)
         /\ SLoop!Atomic!Loaded(pt, p) = Loaded(pt, p)
         /\ SLoop!Atomic!map(pt, p, index) = map(pt, p, index)
         /\ SLoop!Atomic!Access(pt, op, p) = Access(pt, op, p)
         /\ SLoop!Atomic!FaultStats(a, b, c) = FaultStats(a, b, c)
         /\ SLoop!Atomic!Bump(a, b) = Bump(a, b)
         /\ SLoop!Atomic!EMPTY = EMPTY /\ SLoop!Atomic!Pages = Pages
         /\ SLoop!Atomic!Operations = Operations
  BY DEF SLoop!Atomic!ClearReferenced,
         ClearReferenced, SLoop!Atomic!Evicted, Evicted, SLoop!Atomic!unmap, unmap,
         SLoop!Atomic!page_out, page_out, SLoop!Atomic!EMPTY, EMPTY, SLoop!Atomic!Access,
         Access, SLoop!Atomic!map, map, SLoop!Atomic!Loaded, Loaded, SLoop!Atomic!page_in,
         page_in, SLoop!Atomic!Touched, Touched, SLoop!Atomic!WRITE, WRITE,
         SLoop!Atomic!FaultStats, FaultStats, SLoop!Atomic!Bump, Bump, SLoop!Atomic!Pages,
         Pages, SLoop!Atomic!READ, READ, SLoop!Atomic!Operations, Operations

LEMMA SAtomicServes ==
  ASSUME NEW op, NEW p, NEW index, NEW cleared, pc' = "run",
         NEW pt, pt = IF pc = "loop" THEN entry[1] ELSE page_table,
         ~pt[p].present, Served(op, p, index, ClearReferenced(pt, cleared)),
         ClearReferenced(pt, cleared)[p].pagedout = pt[p].pagedout
  PROVE  SLoop!Atomic!ServiceFault(op, p, index, cleared)
<1>1. page_table' = (IF pc = "loop" THEN entry[1] ELSE page_table)'
  OBVIOUS
<1> QED
  BY <1>1, SAtomicEngine DEF SLoop!Atomic!ServiceFault, Served

SSwept(h, k) ==
  /\ entry[2] = Queue(h) /\ frames = Queue(Place(h, k))
  /\ Lowest(h, FreeFrames) /\ (k > 0 => FreeFrames = {})
  /\ \A i \in 0 .. k - 1 : entry[1][frame_table[Place(h, i)]].referenced
  /\ page_table = ClearReferenced(entry[1], {frame_table[Place(h, i)] : i \in 0 .. k - 1})

SInv == /\ IInv /\ pc \in {"run", "loop"}
        /\ pc = "run" => \E h \in Frames : frames = Queue(h) /\ Lowest(h, FreeFrames)
        /\ pc = "loop" => /\ Asked
                          /\ \E h \in Frames, k \in 0 .. NumFrames : SSwept(h, k)

LEMMA SEnters ==
  ASSUME SInv, NEW op \in Operations, NEW p \in Pages, SLoop!EnterLoop(op, p)
  PROVE  SInv' /\ UNCHANGED SLoop!Atomic!secvars
<1>1. /\ pc = "run" /\ status = "running" /\ ~page_table[p].present
      /\ pc' = "loop" /\ request' = <<op, p>> /\ entry' = <<page_table, frames>>
      /\ UNCHANGED <<frame_table, page_table, stats, status, frames>>
  BY SLoopEngine DEF SLoop!EnterLoop, SLoop!secvars
<1>2. UNCHANGED SLoop!Atomic!secvars
  BY <1>1 DEF SLoop!Atomic!secvars
<1>3. PICK h \in Frames : frames = Queue(h) /\ Lowest(h, FreeFrames)
  BY <1>1 DEF SInv
<1>4. IInv' /\ Lowest(h, FreeFrames')
  BY <1>1, <1>3 DEF SInv, IInv, TypeOK, TablesInv, TablesAgree, AbsentIsClean,
                    FilledInOrder, FreeFrames, Lowest
<1>5. Asked' /\ entry'[2] = frames /\ entry'[1] = page_table
  BY <1>1 DEF Asked, SInv, IInv, TypeOK
<1>6. SSwept(h, 0)'
  <2>1. 0 .. 0 - 1 = {}
    OBVIOUS
  <2>2. page_table' = ClearReferenced(entry'[1], {})
    BY <1>1, <1>5, ClearedNothing DEF SInv, IInv, TypeOK
  <2>3. {frame_table'[Place(h, i)] : i \in 0 .. 0 - 1} = {}
    BY <2>1
  <2>4. entry'[2] = Queue(h) /\ frames' = Queue(Place(h, 0)) /\ ~(0 > 0)
    BY <1>1, <1>3, <1>5, Places
  <2>5. \A i \in 0 .. 0 - 1 : FALSE
    BY <2>1
  <2> QED
    BY <1>4, <2>2, <2>3, <2>4, <2>5 DEF SSwept
<1>7. 0 \in 0 .. NumFrames /\ Frames' = Frames
  BY VMMAssumption DEF Frames
<1> QED
  BY <1>1, <1>2, <1>4, <1>5, <1>6, <1>7 DEF SInv

LEMMA SFront ==
  ASSUME NEW h \in Frames, NEW k \in 0 .. NumFrames, SSwept(h, k)
  PROVE  /\ Head(frames) - 1 = Place(h, k) /\ frames[1] - 1 = Place(h, k)
         /\ Place(h, k) \in Frames
         /\ Append(Tail(frames), Head(frames)) = Queue(Around(Place(h, k), 1, NumFrames))
<1>1. Place(h, k) \in Frames /\ frames = Queue(Place(h, k))
  BY Places DEF SSwept
<1>2. Head(frames) = Place(h, k) + 1 /\ frames[1] = Place(h, k) + 1
  BY <1>1, QueueFront
<1> QED
  BY <1>1, <1>2, QueueTurns, VMMAssumption DEF Frames

LEMMA SIterates ==
  ASSUME SInv, SLoop!Iterate
  PROVE  SInv' /\ UNCHANGED SLoop!Atomic!secvars
<1>1. PICK h \in Frames, k \in 0 .. NumFrames : SSwept(h, k)
  BY DEF SInv, SLoop!Iterate
<1> DEFINE q == frame_table[Place(h, k)]
<1>2. SLoop!PageAt(1) = q
  BY <1>1, SFront DEF SLoop!PageAt
<1>3. /\ pc = "loop" /\ q # EMPTY /\ page_table[q].referenced
      /\ page_table' = [page_table EXCEPT ![q].referenced = FALSE]
      /\ frames' = Queue(Around(Place(h, k), 1, NumFrames))
      /\ UNCHANGED <<frame_table, stats, status, pc, request, entry>>
  BY <1>1, <1>2, SFront, SLoopEngine
     DEF SLoop!Iterate, SLoop!Stops, SLoop!Turned, SLoop!ready
<1>4. UNCHANGED SLoop!Atomic!secvars
  BY <1>3 DEF SLoop!Atomic!secvars
<1>5. NumFrames \in Nat \ {0} /\ k \in Nat /\ Place(h, k) \in Frames
  BY <1>1, VMMAssumption, Places
<1>6. FreeFrames = {}
  <2> SUFFICES ASSUME FreeFrames # {} PROVE FALSE
    OBVIOUS
  <2>1. k = 0
    BY <1>1, <1>5 DEF SSwept
  <2>2. Place(h, k) = h
    BY <2>1, Places
  <2> QED
    BY <1>1, <1>3, <2>2 DEF SSwept, Lowest, FreeFrames
<1>7. /\ IInv /\ Asked /\ q \in Pages
      /\ entry[1] \in [Pages -> PTE] /\ page_table \in [Pages -> PTE]
  BY <1>3, <1>5, <1>6, FullMeansResident DEF SInv, Asked, IInv, TypeOK, Resident
<1> DEFINE S == {frame_table[Place(h, i)] : i \in 0 .. k - 1}
           T == {frame_table[Place(h, i)] : i \in 0 .. (k + 1) - 1}
<1>8. page_table = ClearReferenced(entry[1], S)
  BY <1>1 DEF SSwept
<1>9. q \notin S /\ entry[1][q].referenced
  BY <1>3, <1>7, <1>8, ClearEntry
<1>10. k \in 0 .. NumFrames - 1
  <2> SUFFICES ASSUME k = NumFrames PROVE FALSE
    BY <1>5
  <2>1. 0 \in 0 .. k - 1 /\ Place(h, k) = Place(h, 0)
    BY <1>5, Places
  <2> QED
    BY <1>9, <2>1
<1>11. T = S \cup {q}
  <2>1. 0 .. (k + 1) - 1 = (0 .. k - 1) \cup {k}
    BY <1>5
  <2> QED
    BY <2>1
<1>12. page_table' = Reset(page_table, q)
  BY <1>3 DEF Reset
<1>13. page_table' = ClearReferenced(entry[1], T)
  BY <1>7, <1>8, <1>11, <1>12, ClearedMore
<1>14. Around(Place(h, k), 1, NumFrames) = Place(h, k + 1)
  <2>1. 1 \in 0 .. NumFrames /\ Place(h, k) \in 0 .. NumFrames - 1
    BY <1>5 DEF Frames
  <2>2. (Place(h, k) + 1) % NumFrames = Around(Place(h, k), 1, NumFrames)
    BY <1>5, <2>1, AroundIsRemainder
  <2> QED
    BY <1>10, <2>2, Places
<1>15. IInv' /\ FreeFrames' = {} /\ Asked'
  <2>1. UNCHANGED <<frame_table, stats, status>>
    BY <1>3
  <2>2. IInv' /\ FreeFrames' = {}
    BY <1>6, <1>7, <1>12, <2>1, ResetKeeps
  <2>3. Asked'
    BY <1>3, <1>7, <1>12, ResetEntry DEF Asked
  <2> QED
    BY <2>2, <2>3
<1>16. SSwept(h, k + 1)'
  <2>1. \A i \in 0 .. (k + 1) - 1 : entry[1][frame_table[Place(h, i)]].referenced
    <3>1. \A i \in 0 .. (k + 1) - 1 : i \in 0 .. k - 1 \/ i = k
      BY <1>5
    <3> QED
      BY <1>1, <1>9, <3>1 DEF SSwept
  <2>2. Lowest(h, FreeFrames')
    BY <1>15 DEF Lowest
  <2>3. entry[2] = Queue(h) /\ frames' = Queue(Place(h, k + 1))
    BY <1>1, <1>3, <1>14 DEF SSwept
  <2>4. frame_table' = frame_table /\ entry' = entry
    BY <1>3
  <2> QED
    BY <1>13, <1>15, <2>1, <2>2, <2>3, <2>4 DEF SSwept
<1>17. k + 1 \in 0 .. NumFrames
  BY <1>5, <1>10
<1>18. SInv'
  BY <1>3, <1>15, <1>16, <1>17 DEF SInv, Frames
<1> QED
  BY <1>4, <1>18

\* The policy's own search, one step, from where the loop began.
LEMMA SLastTurnIs ==
  ASSUME pc = "loop", NEW h \in Frames, entry[2] = Queue(h), NEW k \in 0 .. NumFrames,
         \A i \in 0 .. k - 1 : /\ frame_table[Place(h, i)] # EMPTY
                               /\ entry[1][frame_table[Place(h, i)]].referenced,
         k < NumFrames => \/ frame_table[Place(h, k)] = EMPTY
                          \/ ~entry[1][frame_table[Place(h, k)]].referenced
  PROVE  /\ SLoop!Atomic!LastTurn = k + 1
         /\ {SLoop!Atomic!PageAt(i) : i \in 1 .. k} =
              {frame_table[Place(h, i)] : i \in 0 .. k - 1}
         /\ SLoop!Atomic!Rotated(k + 1)[NumFrames] - 1 = Place(h, k)
         /\ SLoop!Atomic!Rotated(k + 1) = Queue(Around(Place(h, k), 1, NumFrames))
<1> DEFINE S == {i \in 1 .. NumFrames : SLoop!Atomic!Stops(i)} \cup {NumFrames + 1}
           least == CHOOSE x \in S : \A y \in S : x =< y
<1>1. NumFrames \in Nat \ {0} /\ k \in Nat
  BY VMMAssumption
<1>2. ASSUME NEW i \in 1 .. NumFrames
      PROVE  SLoop!Atomic!PageAt(i) = frame_table[Place(h, i - 1)]
  <2>1. i - 1 \in 0 .. NumFrames - 1
    BY <1>1
  <2>2. Place(h, i - 1) = Around(h, i - 1, NumFrames) /\ Place(h, i - 1) \in Frames
    BY <1>1, <2>1, Places
  <2>3. Queue(h)[i] = Place(h, i - 1) + 1
    BY <2>2 DEF Queue
  <2>4. Queue(h)[i] - 1 = Place(h, i - 1)
    BY <2>2, <2>3 DEF Frames
  <2> QED
    BY <2>4 DEF SLoop!Atomic!PageAt
<1>3. \A i \in 1 .. NumFrames :
        SLoop!Atomic!Stops(i) <=>
          \/ frame_table[Place(h, i - 1)] = EMPTY
          \/ ~entry[1][frame_table[Place(h, i - 1)]].referenced
  BY <1>2, SAtomicEngine DEF SLoop!Atomic!Stops
<1>4. SLoop!Atomic!LastTurn = least
  BY DEF SLoop!Atomic!LastTurn, SLoop!Atomic!Min
<1>5. S \in SUBSET Nat /\ k + 1 \in S /\ \A i \in S : k + 1 <= i
  <2>1. k + 1 \in S
    <3>1. CASE k < NumFrames
      <4>1. k + 1 \in 1 .. NumFrames /\ (k + 1) - 1 = k
        BY <1>1, <3>1
      <4> QED
        BY <1>3, <3>1, <4>1
    <3>2. CASE k = NumFrames
      BY <3>2
    <3> QED
      BY <1>1, <3>1, <3>2
  <2>2. ASSUME NEW i \in S PROVE k + 1 <= i
    <3>1. CASE i = NumFrames + 1
      BY <1>1, <3>1
    <3>2. CASE i # NumFrames + 1
      <4>1. i \in 1 .. NumFrames /\ SLoop!Atomic!Stops(i)
        BY <3>2
      <4>2. i - 1 \notin 0 .. k - 1
        BY <1>3, <4>1
      <4> QED
        BY <1>1, <4>1, <4>2
    <3> QED
      BY <3>1, <3>2
  <2>3. S \in SUBSET Nat
    BY <1>1
  <2> QED
    BY <2>1, <2>2, <2>3
<1>6. least = k + 1
  <2> HIDE DEF S
  <2>1. least \in S /\ \A y \in S : least <= y
    BY <1>5, LeastIsChosen
  <2>2. least \in Nat /\ least <= k + 1 /\ k + 1 <= least
    BY <1>5, <2>1
  <2> HIDE DEF least
  <2> QED
    BY <1>1, <2>2
<1>7. {SLoop!Atomic!PageAt(i) : i \in 1 .. k} = {frame_table[Place(h, i)] : i \in 0 .. k - 1}
  <2>1. \A i \in 1 .. k : i \in 1 .. NumFrames /\ i - 1 \in 0 .. k - 1
    BY <1>1
  <2>2. \A i \in 0 .. k - 1 : i + 1 \in 1 .. k /\ (i + 1) - 1 = i
    BY <1>1
  <2> QED
    BY <1>2, <2>1, <2>2
<1>8. k + 1 \in 1 .. NumFrames + 1
  BY <1>1
<1>9. Turned(h, k + 1) = Place(h, k)
  <2>1. CASE k < NumFrames
    <3>1. k + 1 # NumFrames + 1 /\ (k + 1) - 1 = k /\ k \in 0 .. NumFrames - 1
      BY <1>1, <2>1
    <3> QED
      BY <3>1, Places DEF Turned
  <2>2. CASE k = NumFrames
    BY <2>2, Places DEF Turned
  <2> QED
    BY <1>1, <2>1, <2>2
<1> DEFINE n == k + 1
           r == SLoop!Atomic!Rotated(n)
<1>10. r = [i \in 1 .. NumFrames |-> Queue(h)[((i + n - 1) % NumFrames) + 1]]
  BY DEF SLoop!Atomic!Rotated
<1>11. /\ r[NumFrames] - 1 = Place(h, k)
       /\ r = Queue(Around(Place(h, k), 1, NumFrames))
  <2> HIDE DEF r
  <2>1. n \in 1 .. NumFrames + 1 /\ Turned(h, n) = Place(h, k)
    BY <1>8, <1>9
  <2> HIDE DEF n
  <2>2. /\ r[NumFrames] - 1 = Turned(h, n)
        /\ r = Queue(Around(Turned(h, n), 1, NumFrames))
    BY <1>10, <2>1, QueueRotated
  <2> QED
    BY <2>1, <2>2
<1> QED
  BY <1>4, <1>6, <1>7, <1>11

LEMMA SLeaves ==
  ASSUME SInv, SLoop!LeaveLoop
  PROVE  SInv' /\ SLoop!Atomic!SecNext
<1>1. PICK h \in Frames, k \in 0 .. NumFrames : SSwept(h, k)
  BY DEF SInv, SLoop!LeaveLoop
<1> DEFINE index == Place(h, k)
           q == frame_table[index]
           op == request[1]
           p == request[2]
           next == Around(index, 1, NumFrames)
<1>2. SLoop!PageAt(1) = q
  BY <1>1, SFront DEF SLoop!PageAt
<1>3. /\ pc = "loop" /\ (q # EMPTY => ~page_table[q].referenced)
      /\ ServiceFault(op, p, index, {}) /\ frames' = Queue(next) /\ pc' = "run"
  BY <1>1, <1>2, SFront, SLoopEngine DEF SLoop!LeaveLoop, SLoop!Stops, SLoop!Turned
<1>4. /\ IInv /\ index \in Frames /\ NumFrames \in Nat \ {0} /\ k \in Nat
      /\ entry[1] \in [Pages -> PTE] /\ page_table \in [Pages -> PTE]
      /\ op \in Operations /\ p \in Pages
  BY <1>1, <1>3, VMMAssumption, Places DEF SInv, Asked, IInv, TypeOK
<1> DEFINE S == {frame_table[Place(h, i)] : i \in 0 .. k - 1}
<1> HIDE DEF op, p
<1>5. /\ page_table = ClearReferenced(entry[1], S) /\ entry[2] = Queue(h)
      /\ Lowest(h, FreeFrames) /\ (k > 0 => FreeFrames = {})
      /\ \A i \in 0 .. k - 1 : entry[1][frame_table[Place(h, i)]].referenced
  BY <1>1 DEF SSwept
<1>6. \A i \in 0 .. k - 1 : frame_table[Place(h, i)] # EMPTY
  <2> TAKE i \in 0 .. k - 1
  <2>1. FreeFrames = {} /\ i \in 0 .. NumFrames
    BY <1>4, <1>5
  <2> QED
    BY <1>4, <2>1, Places, FullMeansResident, EmptyIsNoPage DEF Resident
<1>7. k < NumFrames => q = EMPTY \/ ~entry[1][q].referenced
  <2> SUFFICES ASSUME k < NumFrames, q # EMPTY, entry[1][q].referenced PROVE FALSE
    OBVIOUS
  <2>1. q \in Pages
    BY <1>4 DEF IInv, TypeOK
  <2>2. q \in S
    BY <1>3, <1>4, <1>5, <2>1, ClearEntry
  <2>3. PICK i \in 0 .. k - 1 : q = frame_table[Place(h, i)]
    BY <2>2
  <2>4. i \in 0 .. NumFrames - 1 /\ k \in 0 .. NumFrames - 1 /\ i # k /\ FreeFrames = {}
    BY <1>4, <1>5
  <2> QED
    BY <1>4, <2>3, <2>4, PlacePages
<1>8. /\ SLoop!Atomic!LastTurn = k + 1
      /\ {SLoop!Atomic!PageAt(i) : i \in 1 .. k} = S
      /\ SLoop!Atomic!Rotated(k + 1)[NumFrames] - 1 = index
      /\ SLoop!Atomic!Rotated(k + 1) = Queue(next)
  BY <1>3, <1>5, <1>6, <1>7, SLastTurnIs
<1>9. SLoop!Atomic!ServiceFault(op, p, index, S)
  <2> DEFINE pt == IF pc = "loop" THEN entry[1] ELSE page_table
  <2>1. pt = entry[1]
    BY <1>3
  <2>2. ~page_table[p].present /\ Served(op, p, index, page_table)
    BY <1>3, <1>4, ServedAsItIs
  <2>3. ~entry[1][p].present /\ page_table[p].pagedout = entry[1][p].pagedout
    <3>1. page_table[p] \in PTE /\ entry[1][p] \in PTE
      BY <1>4
    <3>2. (page_table[p].pagedout <=> entry[1][p].pagedout)
          /\ (page_table[p].present <=> entry[1][p].present)
      BY <1>4, <1>5, ClearEntry
    <3> QED
      BY <2>2, <3>1, <3>2 DEF PTE
  <2> HIDE DEF S, pt, index
  <2> QED
    BY <1>3, <1>5, <2>1, <2>2, <2>3, SAtomicServes DEF pt
<1>10. SLoop!Atomic!SecFault(op, p)
  <2>1. (IF pc = "loop" THEN entry[2] ELSE frames)' = frames'
    BY <1>3
  <2>2. 1 .. (k + 1) - 1 = 1 .. k
    BY <1>4
  <2> HIDE DEF S, index, next
  <2> QED
    BY <1>3, <1>8, <1>9, <2>1, <2>2 DEF SLoop!Atomic!SecFault
<1>11. SLoop!Atomic!SecNext
  BY <1>4, <1>10, SAtomicEngine DEF SLoop!Atomic!SecNext
<1>12. IInv' /\ Lowest(next, FreeFrames')
  <2>1. Lowest(index, FreeFrames)
    <3>1. CASE k = 0
      BY <1>5, <3>1, Places
    <3>2. CASE k > 0
      BY <1>5, <3>2 DEF Lowest
    <3> QED
      BY <1>4, <3>1, <3>2
  <2>2. SelectFrame(index, {}) /\ {} \in SUBSET Resident
    BY <1>4, <2>1, LowestMayBeTaken, AnyMayBeTaken
  <2>3. IInv' /\ FreeFrames' = FreeFrames \ {index}
    BY <1>3, <1>4, <2>2, AllowedFault, FaultUsesFrame
  <2> QED
    BY <1>4, <2>1, <2>3, LowestAdvances, LowestOfNone
<1>13. next \in Frames
  BY <1>4, QueueFront
<1>14. SInv'
  BY <1>3, <1>12, <1>13 DEF SInv
<1> QED
  BY <1>11, <1>14

LEMMA SElsewhere ==
  ASSUME SInv, SLoop!Elsewhere
  PROVE  SInv' /\ SLoop!Atomic!SecNext
<1>1. /\ pc = "run" /\ pc' = "run" /\ UNCHANGED frames
      /\ page_table' = (IF pc = "loop" THEN entry[1] ELSE page_table)'
      /\ UNCHANGED (IF pc = "loop" THEN entry[2] ELSE frames)
  BY DEF SLoop!Elsewhere, SLoop!ready
<1>2. Quiet
  BY SLoopEngine DEF SLoop!Elsewhere, Quiet
<1>3. SInv'
  BY <1>1, <1>2, QuietStep DEF SInv
<1>4. ASSUME NEW op \in Operations, NEW p \in Pages, Hit(op, p)
      PROVE  SLoop!Atomic!SecNext
  <2>1. SLoop!Atomic!Hit(op, p)
    BY <1>1, <1>4, SAtomicEngine DEF SLoop!Atomic!Hit, Hit
  <2> QED
    BY <1>1, <2>1, SAtomicEngine DEF SLoop!Atomic!SecNext
<1>5. CASE EndOfInput \/ BadInstruction \/ Exited
  <2>1. SLoop!Atomic!EndOfInput \/ SLoop!Atomic!BadInstruction \/ SLoop!Atomic!Exited
    BY <1>1, <1>5 DEF EndOfInput, BadInstruction, Exited, vars, SLoop!Atomic!EndOfInput,
                      SLoop!Atomic!BadInstruction, SLoop!Atomic!Exited, SLoop!Atomic!vars
  <2>2. UNCHANGED (IF pc = "loop" THEN entry[2] ELSE frames)
    BY <1>1
  <2> QED
    BY <1>3, <2>1, <2>2 DEF SLoop!Atomic!SecNext
<1> QED
  BY <1>2, <1>3, <1>4, <1>5 DEF Quiet

LEMMA SStep ==
  ASSUME SInv, SLoop!LoopNext
  PROVE  SInv' /\ (SLoop!Atomic!SecNext \/ UNCHANGED SLoop!Atomic!secvars)
  BY SEnters, SIterates, SLeaves, SElsewhere, SLoopEngine DEF SLoop!LoopNext

-----------------------------------------------------------------------------
(* All three together: which loop runs is chosen at start-up.              *)

LoopsInv == /\ algorithm \in {"c", "C", "s"}
            /\ algorithm = "c" => PInv
            /\ algorithm = "C" => VInv
            /\ algorithm = "s" => SInv

LoopStarts == /\ algorithm = "c" => PLoop!Atomic!ClockInit
              /\ algorithm = "C" => VLoop!Atomic!VClockInit
              /\ algorithm = "s" => SLoop!Atomic!SecInit

LoopSteps == /\ algorithm = "c" => [PLoop!Atomic!ClockNext]_(PLoop!Atomic!clockvars)
             /\ algorithm = "C" => [VLoop!Atomic!VClockNext]_(VLoop!Atomic!vclockvars)
             /\ algorithm = "s" => [SLoop!Atomic!SecNext]_(SLoop!Atomic!secvars)

LEMMA LoopsStart == LoopsInit => LoopsInv /\ LoopStarts
<1> SUFFICES ASSUME LoopsInit PROVE LoopsInv /\ LoopStarts
  OBVIOUS
<1>1. ASSUME Init PROVE IInv /\ 0 \in Frames /\ 0 \in Pages /\ Lowest(0, FreeFrames)
  <2>1. 0 \in Frames /\ 0 \in Pages
    BY VMMAssumption DEF Frames, Pages
  <2>2. Lowest(0, FreeFrames)
    BY <1>1, <2>1, VMMAssumption DEF Init, FreeFrames, Lowest, Frames
  <2> QED
    BY <1>1, <2>1, <2>2, InitInv
<1>2. CASE algorithm = "c" /\ PLoop!LoopInit
  <2>1. Init /\ hand = 0 /\ pc = "run"
    BY <1>2, PLoopEngine DEF PLoop!LoopInit, PLoop!ClockInit
  <2>2. PInv
    BY <1>1, <2>1 DEF PInv
  <2>3. PLoop!Atomic!ClockInit
    BY <2>1 DEF PLoop!Atomic!ClockInit, PLoop!Atomic!Init, Init, PLoop!Atomic!Frames, Frames,
                PLoop!Atomic!Pages, Pages, PLoop!Atomic!EMPTY, EMPTY, PLoop!Atomic!Counters,
                Counters
  <2> QED
    BY <1>2, <2>2, <2>3 DEF LoopsInv, LoopStarts
<1>3. CASE algorithm = "C" /\ VLoop!LoopInit
  <2>1. Init /\ hand = 0 /\ pc = "run"
    BY <1>3, VLoopEngine DEF VLoop!LoopInit, VLoop!VClockInit
  <2>2. VInv
    BY <1>1, <2>1 DEF VInv, VRuns
  <2>3. VLoop!Atomic!VClockInit
    BY <2>1 DEF VLoop!Atomic!VClockInit, VLoop!Atomic!Init, Init, VLoop!Atomic!Frames, Frames,
                VLoop!Atomic!Pages, Pages, VLoop!Atomic!EMPTY, EMPTY, VLoop!Atomic!Counters,
                Counters
  <2> QED
    BY <1>3, <2>2, <2>3 DEF LoopsInv, LoopStarts
<1>4. CASE algorithm = "s" /\ SLoop!LoopInit
  <2>1. Init /\ frames = [i \in 1 .. NumFrames |-> i] /\ pc = "run"
    BY <1>4, SLoopEngine DEF SLoop!LoopInit, SLoop!SecInit
  <2>2. SInv
    BY <1>1, <2>1, QueueStart DEF SInv
  <2>3. SLoop!Atomic!SecInit
    BY <2>1 DEF SLoop!Atomic!SecInit, SLoop!Atomic!Init, Init, SLoop!Atomic!Frames, Frames,
                SLoop!Atomic!Pages, Pages, SLoop!Atomic!EMPTY, EMPTY, SLoop!Atomic!Counters,
                Counters
  <2> QED
    BY <1>4, <2>2, <2>3 DEF LoopsInv, LoopStarts
<1> QED
  BY <1>2, <1>3, <1>4 DEF LoopsInit

LEMMA LoopsStutter == LoopsInv /\ UNCHANGED loopsvars => LoopsInv'
<1> SUFFICES ASSUME LoopsInv, UNCHANGED loopsvars PROVE LoopsInv'
  OBVIOUS
<1>1. UNCHANGED <<frame_table, page_table, stats, status, algorithm, hand, frames,
                  pc, request, entry>>
  BY DEF loopsvars, vars
<1>2. /\ IInv' <=> IInv
      /\ FreeFrames' = FreeFrames
      /\ \A h : Lowest(h, FreeFrames)' <=> Lowest(h, FreeFrames)
      /\ Lowest(hand, FreeFrames)' <=> Lowest(hand, FreeFrames)
      /\ Asked' <=> Asked
  BY <1>1 DEF IInv, TypeOK, TablesInv, TablesAgree, AbsentIsClean, FilledInOrder, FreeFrames,
              Lowest, Asked
<1>3. ASSUME PInv PROVE PInv'
  <2>1. \A k : PSwept(k)' <=> PSwept(k)
    BY <1>1 DEF PSwept
  <2> QED
    BY <1>1, <1>2, <1>3, <2>1 DEF PInv
<1>4. ASSUME VInv PROVE VInv'
  <2>1. \A i : (VPlace(i)' = VPlace(i)) /\ (VPasses(i)' <=> VPasses(i))
    BY <1>1 DEF VPlace, VPasses
  <2>2. \A k : VPassed(k)' = VPassed(k)
    BY <2>1 DEF VPassed
  <2>3. \A k : VSwept(k)' <=> VSwept(k)
    BY <1>1, <2>1, <2>2 DEF VSwept
  <2>4. \A h : VLoop!TableEntry(h)' = VLoop!TableEntry(h)
    BY <1>1 DEF VLoop!TableEntry
  <2> QED
    BY <1>1, <1>2, <1>4, <2>3, <2>4 DEF VInv, VRuns, VCrashed
<1>5. ASSUME SInv PROVE SInv'
  <2>1. \A h, k : SSwept(h, k)' <=> SSwept(h, k)
    BY <1>1, <1>2 DEF SSwept
  <2> QED
    BY <1>1, <1>2, <1>5, <2>1 DEF SInv
<1> QED
  BY <1>1, <1>3, <1>4, <1>5 DEF LoopsInv

LEMMA LoopsStep == LoopsInv /\ [LoopsNext]_loopsvars => LoopsInv' /\ [LoopSteps]_loopsvars
<1> SUFFICES ASSUME LoopsInv, LoopsNext PROVE LoopsInv' /\ LoopSteps
  BY LoopsStutter
<1>1. algorithm' = algorithm
  BY DEF LoopsNext
<1>2. CASE algorithm = "c"
  <2>1. PInv /\ PLoop!LoopNext
    BY <1>2 DEF LoopsInv, LoopsNext
  <2>2. PInv' /\ (PLoop!Atomic!ClockNext \/ UNCHANGED PLoop!Atomic!clockvars)
    BY <2>1, PStep
  <2> QED
    BY <1>1, <1>2, <2>2 DEF LoopsInv, LoopSteps
<1>3. CASE algorithm = "C"
  <2>1. VInv /\ VLoop!LoopNext
    BY <1>3 DEF LoopsInv, LoopsNext
  <2>2. VInv' /\ (VLoop!Atomic!VClockNext \/ UNCHANGED VLoop!Atomic!vclockvars)
    BY <2>1, VStep
  <2> QED
    BY <1>1, <1>3, <2>2 DEF LoopsInv, LoopSteps
<1>4. CASE algorithm = "s"
  <2>1. SInv /\ SLoop!LoopNext
    BY <1>4 DEF LoopsInv, LoopsNext
  <2>2. SInv' /\ (SLoop!Atomic!SecNext \/ UNCHANGED SLoop!Atomic!secvars)
    BY <2>1, SStep
  <2> QED
    BY <1>1, <1>4, <2>2 DEF LoopsInv, LoopSteps
<1> QED
  BY <1>2, <1>3, <1>4 DEF LoopsInv

(* LoopIsSweep, for any numbers of frames and pages: run to its end, each  *)
(* loop of the two clocks and of second chance chose the victim, reset the *)
(* bits and moved the hand or the queue as its policy says in one step.    *)
THEOREM LoopIsAlwaysSweep == LoopsSpec => LoopIsSweep
<1>1. LoopsInit => LoopsInv /\ LoopStarts
  BY LoopsStart
<1>2. LoopsInv /\ [LoopsNext]_loopsvars => LoopsInv' /\ [LoopSteps]_loopsvars
  BY LoopsStep
<1>3. LoopsSpec => LoopStarts /\ [][LoopSteps]_loopsvars
  BY <1>1, <1>2, PTL DEF LoopsSpec
<1> QED
  BY <1>3 DEF LoopIsSweep, LoopStarts, LoopSteps
=============================================================================
