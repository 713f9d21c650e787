----------------------------- MODULE MMUProofs -----------------------------
(* Proofs about the program with its nine policies, for any number of      *)
(* frames and pages: each policy only makes choices the engine allows.     *)
EXTENDS MMU, VMMProofs

-----------------------------------------------------------------------------
(* The policies' modules extend the engine's: their copies of its          *)
(* definitions are the same.                                               *)

LEMMA FIFOEngine ==
  ASSUME NEW op, NEW p, NEW index, NEW cleared
  PROVE  /\ FIFO!ServiceFault(op, p, index, cleared) <=>
               ServiceFault(op, p, index, cleared)
         /\ FIFO!Hit(op, p) <=> Hit(op, p)
         /\ (FIFO!EndOfInput \/ FIFO!BadInstruction \/ FIFO!Exited) <=>
               (EndOfInput \/ BadInstruction \/ Exited)
         /\ FIFO!Pages = Pages /\ FIFO!Frames = Frames
         /\ FIFO!Operations = Operations /\ FIFO!EMPTY = EMPTY
         /\ FIFO!FreeFrames = FreeFrames /\ FIFO!Resident = Resident
  BY DEF FIFO!ServiceFault, ServiceFault, FIFO!ClearReferenced,
         ClearReferenced, FIFO!Evicted, Evicted, FIFO!unmap, unmap,
         FIFO!page_out, page_out, FIFO!EMPTY, EMPTY, FIFO!Access, Access,
         FIFO!map, map, FIFO!Loaded, Loaded, FIFO!page_in, page_in,
         FIFO!Touched, Touched, FIFO!WRITE, WRITE, FIFO!FaultStats,
         FaultStats, FIFO!Bump, Bump, FIFO!Pages, Pages, FIFO!Hit, Hit,
         FIFO!EndOfInput, EndOfInput, FIFO!BadInstruction, BadInstruction,
         FIFO!Exited, Exited, FIFO!vars, vars, FIFO!READ, READ,
         FIFO!Operations, Operations, FIFO!Frames, Frames, FIFO!FreeFrames,
         FreeFrames, FIFO!Resident, Resident, FIFO!SelectFrame, SelectFrame

LEMMA LRUEngine ==
  ASSUME NEW op, NEW p, NEW index, NEW cleared
  PROVE  /\ LRU!ServiceFault(op, p, index, cleared) <=>
               ServiceFault(op, p, index, cleared)
         /\ LRU!Hit(op, p) <=> Hit(op, p)
         /\ (LRU!EndOfInput \/ LRU!BadInstruction \/ LRU!Exited) <=>
               (EndOfInput \/ BadInstruction \/ Exited)
         /\ LRU!Pages = Pages /\ LRU!Frames = Frames
         /\ LRU!Operations = Operations /\ LRU!EMPTY = EMPTY
         /\ LRU!FreeFrames = FreeFrames /\ LRU!Resident = Resident
  BY DEF LRU!ServiceFault, ServiceFault, LRU!ClearReferenced,
         ClearReferenced, LRU!Evicted, Evicted, LRU!unmap, unmap,
         LRU!page_out, page_out, LRU!EMPTY, EMPTY, LRU!Access, Access,
         LRU!map, map, LRU!Loaded, Loaded, LRU!page_in, page_in, LRU!Touched,
         Touched, LRU!WRITE, WRITE, LRU!FaultStats, FaultStats, LRU!Bump,
         Bump, LRU!Pages, Pages, LRU!Hit, Hit, LRU!EndOfInput, EndOfInput,
         LRU!BadInstruction, BadInstruction, LRU!Exited, Exited, LRU!vars,
         vars, LRU!READ, READ, LRU!Operations, Operations, LRU!Frames,
         Frames, LRU!FreeFrames, FreeFrames, LRU!Resident, Resident,
         LRU!SelectFrame, SelectFrame

LEMMA RandomEngine ==
  ASSUME NEW op, NEW p, NEW index, NEW cleared
  PROVE  /\ Random!ServiceFault(op, p, index, cleared) <=>
               ServiceFault(op, p, index, cleared)
         /\ Random!Hit(op, p) <=> Hit(op, p)
         /\ (Random!EndOfInput \/ Random!BadInstruction \/ Random!Exited) <=>
               (EndOfInput \/ BadInstruction \/ Exited)
         /\ Random!Pages = Pages /\ Random!Frames = Frames
         /\ Random!Operations = Operations /\ Random!EMPTY = EMPTY
         /\ Random!FreeFrames = FreeFrames /\ Random!Resident = Resident
  BY DEF Random!ServiceFault, ServiceFault, Random!ClearReferenced,
         ClearReferenced, Random!Evicted, Evicted, Random!unmap, unmap,
         Random!page_out, page_out, Random!EMPTY, EMPTY, Random!Access,
         Access, Random!map, map, Random!Loaded, Loaded, Random!page_in,
         page_in, Random!Touched, Touched, Random!WRITE, WRITE,
         Random!FaultStats, FaultStats, Random!Bump, Bump, Random!Pages,
         Pages, Random!Hit, Hit, Random!EndOfInput, EndOfInput,
         Random!BadInstruction, BadInstruction, Random!Exited, Exited,
         Random!vars, vars, Random!READ, READ, Random!Operations, Operations,
         Random!Frames, Frames, Random!FreeFrames, FreeFrames,
         Random!Resident, Resident, Random!SelectFrame, SelectFrame

LEMMA NRUEngine ==
  ASSUME NEW op, NEW p, NEW index, NEW cleared
  PROVE  /\ NRU!ServiceFault(op, p, index, cleared) <=>
               ServiceFault(op, p, index, cleared)
         /\ NRU!Hit(op, p) <=> Hit(op, p)
         /\ (NRU!EndOfInput \/ NRU!BadInstruction \/ NRU!Exited) <=>
               (EndOfInput \/ BadInstruction \/ Exited)
         /\ NRU!Pages = Pages /\ NRU!Frames = Frames
         /\ NRU!Operations = Operations /\ NRU!EMPTY = EMPTY
         /\ NRU!FreeFrames = FreeFrames /\ NRU!Resident = Resident
  BY DEF NRU!ServiceFault, ServiceFault, NRU!ClearReferenced,
         ClearReferenced, NRU!Evicted, Evicted, NRU!unmap, unmap,
         NRU!page_out, page_out, NRU!EMPTY, EMPTY, NRU!Access, Access,
         NRU!map, map, NRU!Loaded, Loaded, NRU!page_in, page_in, NRU!Touched,
         Touched, NRU!WRITE, WRITE, NRU!FaultStats, FaultStats, NRU!Bump,
         Bump, NRU!Pages, Pages, NRU!Hit, Hit, NRU!EndOfInput, EndOfInput,
         NRU!BadInstruction, BadInstruction, NRU!Exited, Exited, NRU!vars,
         vars, NRU!READ, READ, NRU!Operations, Operations, NRU!Frames,
         Frames, NRU!FreeFrames, FreeFrames, NRU!Resident, Resident,
         NRU!SelectFrame, SelectFrame

LEMMA SecChanceEngine ==
  ASSUME NEW op, NEW p, NEW index, NEW cleared
  PROVE  /\ SecChance!ServiceFault(op, p, index, cleared) <=>
               ServiceFault(op, p, index, cleared)
         /\ SecChance!Hit(op, p) <=> Hit(op, p)
         /\ (SecChance!EndOfInput \/ SecChance!BadInstruction \/ SecChance!Exited) <=>
               (EndOfInput \/ BadInstruction \/ Exited)
         /\ SecChance!Pages = Pages /\ SecChance!Frames = Frames
         /\ SecChance!Operations = Operations /\ SecChance!EMPTY = EMPTY
         /\ SecChance!FreeFrames = FreeFrames /\ SecChance!Resident = Resident
  BY DEF SecChance!ServiceFault, ServiceFault, SecChance!ClearReferenced,
         ClearReferenced, SecChance!Evicted, Evicted, SecChance!unmap, unmap,
         SecChance!page_out, page_out, SecChance!EMPTY, EMPTY,
         SecChance!Access, Access, SecChance!map, map, SecChance!Loaded,
         Loaded, SecChance!page_in, page_in, SecChance!Touched, Touched,
         SecChance!WRITE, WRITE, SecChance!FaultStats, FaultStats,
         SecChance!Bump, Bump, SecChance!Pages, Pages, SecChance!Hit, Hit,
         SecChance!EndOfInput, EndOfInput, SecChance!BadInstruction,
         BadInstruction, SecChance!Exited, Exited, SecChance!vars, vars,
         SecChance!READ, READ, SecChance!Operations, Operations,
         SecChance!Frames, Frames, SecChance!FreeFrames, FreeFrames,
         SecChance!Resident, Resident, SecChance!SelectFrame, SelectFrame

LEMMA PClockEngine ==
  ASSUME NEW op, NEW p, NEW index, NEW cleared
  PROVE  /\ PClock!ServiceFault(op, p, index, cleared) <=>
               ServiceFault(op, p, index, cleared)
         /\ PClock!Hit(op, p) <=> Hit(op, p)
         /\ (PClock!EndOfInput \/ PClock!BadInstruction \/ PClock!Exited) <=>
               (EndOfInput \/ BadInstruction \/ Exited)
         /\ PClock!Pages = Pages /\ PClock!Frames = Frames
         /\ PClock!Operations = Operations /\ PClock!EMPTY = EMPTY
         /\ PClock!FreeFrames = FreeFrames /\ PClock!Resident = Resident
  BY DEF PClock!ServiceFault, ServiceFault, PClock!ClearReferenced,
         ClearReferenced, PClock!Evicted, Evicted, PClock!unmap, unmap,
         PClock!page_out, page_out, PClock!EMPTY, EMPTY, PClock!Access,
         Access, PClock!map, map, PClock!Loaded, Loaded, PClock!page_in,
         page_in, PClock!Touched, Touched, PClock!WRITE, WRITE,
         PClock!FaultStats, FaultStats, PClock!Bump, Bump, PClock!Pages,
         Pages, PClock!Hit, Hit, PClock!EndOfInput, EndOfInput,
         PClock!BadInstruction, BadInstruction, PClock!Exited, Exited,
         PClock!vars, vars, PClock!READ, READ, PClock!Operations, Operations,
         PClock!Frames, Frames, PClock!FreeFrames, FreeFrames,
         PClock!Resident, Resident, PClock!SelectFrame, SelectFrame

LEMMA VClockEngine ==
  ASSUME NEW op, NEW p, NEW index, NEW cleared
  PROVE  /\ VClock!ServiceFault(op, p, index, cleared) <=>
               ServiceFault(op, p, index, cleared)
         /\ VClock!Hit(op, p) <=> Hit(op, p)
         /\ (VClock!EndOfInput \/ VClock!BadInstruction \/ VClock!Exited) <=>
               (EndOfInput \/ BadInstruction \/ Exited)
         /\ VClock!Pages = Pages /\ VClock!Frames = Frames
         /\ VClock!Operations = Operations /\ VClock!EMPTY = EMPTY
         /\ VClock!FreeFrames = FreeFrames /\ VClock!Resident = Resident
  BY DEF VClock!ServiceFault, ServiceFault, VClock!ClearReferenced,
         ClearReferenced, VClock!Evicted, Evicted, VClock!unmap, unmap,
         VClock!page_out, page_out, VClock!EMPTY, EMPTY, VClock!Access,
         Access, VClock!map, map, VClock!Loaded, Loaded, VClock!page_in,
         page_in, VClock!Touched, Touched, VClock!WRITE, WRITE,
         VClock!FaultStats, FaultStats, VClock!Bump, Bump, VClock!Pages,
         Pages, VClock!Hit, Hit, VClock!EndOfInput, EndOfInput,
         VClock!BadInstruction, BadInstruction, VClock!Exited, Exited,
         VClock!vars, vars, VClock!READ, READ, VClock!Operations, Operations,
         VClock!Frames, Frames, VClock!FreeFrames, FreeFrames,
         VClock!Resident, Resident, VClock!SelectFrame, SelectFrame

LEMMA PAgingEngine ==
  ASSUME NEW op, NEW p, NEW index, NEW cleared
  PROVE  /\ PAging!ServiceFault(op, p, index, cleared) <=>
               ServiceFault(op, p, index, cleared)
         /\ PAging!Hit(op, p) <=> Hit(op, p)
         /\ (PAging!EndOfInput \/ PAging!BadInstruction \/ PAging!Exited) <=>
               (EndOfInput \/ BadInstruction \/ Exited)
         /\ PAging!Pages = Pages /\ PAging!Frames = Frames
         /\ PAging!Operations = Operations /\ PAging!EMPTY = EMPTY
         /\ PAging!FreeFrames = FreeFrames /\ PAging!Resident = Resident
  BY DEF PAging!ServiceFault, ServiceFault, PAging!ClearReferenced,
         ClearReferenced, PAging!Evicted, Evicted, PAging!unmap, unmap,
         PAging!page_out, page_out, PAging!EMPTY, EMPTY, PAging!Access,
         Access, PAging!map, map, PAging!Loaded, Loaded, PAging!page_in,
         page_in, PAging!Touched, Touched, PAging!WRITE, WRITE,
         PAging!FaultStats, FaultStats, PAging!Bump, Bump, PAging!Pages,
         Pages, PAging!Hit, Hit, PAging!EndOfInput, EndOfInput,
         PAging!BadInstruction, BadInstruction, PAging!Exited, Exited,
         PAging!vars, vars, PAging!READ, READ, PAging!Operations, Operations,
         PAging!Frames, Frames, PAging!FreeFrames, FreeFrames,
         PAging!Resident, Resident, PAging!SelectFrame, SelectFrame

LEMMA VAgingEngine ==
  ASSUME NEW op, NEW p, NEW index, NEW cleared
  PROVE  /\ VAging!ServiceFault(op, p, index, cleared) <=>
               ServiceFault(op, p, index, cleared)
         /\ VAging!Hit(op, p) <=> Hit(op, p)
         /\ (VAging!EndOfInput \/ VAging!BadInstruction \/ VAging!Exited) <=>
               (EndOfInput \/ BadInstruction \/ Exited)
         /\ VAging!Pages = Pages /\ VAging!Frames = Frames
         /\ VAging!Operations = Operations /\ VAging!EMPTY = EMPTY
         /\ VAging!FreeFrames = FreeFrames /\ VAging!Resident = Resident
  BY DEF VAging!ServiceFault, ServiceFault, VAging!ClearReferenced,
         ClearReferenced, VAging!Evicted, Evicted, VAging!unmap, unmap,
         VAging!page_out, page_out, VAging!EMPTY, EMPTY, VAging!Access,
         Access, VAging!map, map, VAging!Loaded, Loaded, VAging!page_in,
         page_in, VAging!Touched, Touched, VAging!WRITE, WRITE,
         VAging!FaultStats, FaultStats, VAging!Bump, Bump, VAging!Pages,
         Pages, VAging!Hit, Hit, VAging!EndOfInput, EndOfInput,
         VAging!BadInstruction, BadInstruction, VAging!Exited, Exited,
         VAging!vars, vars, VAging!READ, READ, VAging!Operations, Operations,
         VAging!Frames, Frames, VAging!FreeFrames, FreeFrames,
         VAging!Resident, Resident, VAging!SelectFrame, SelectFrame

-----------------------------------------------------------------------------
(* FIFO.                                                                   *)

QueueInv == \E h \in Frames : frames = Queue(h) /\ Lowest(h, FreeFrames)

LEMMA FIFOStep ==
  ASSUME IInv, QueueInv, FIFO!FIFONext
  PROVE  Next /\ IInv' /\ QueueInv'
<1>1. PICK h \in Frames : frames = Queue(h) /\ Lowest(h, FreeFrames)
  BY DEF QueueInv
<1>2. ASSUME NEW op \in Operations, NEW p \in Pages, FIFO!FIFOFault(op, p)
      PROVE  Next /\ IInv' /\ QueueInv'
  <2>1. ServiceFault(op, p, h, {}) /\ frames' = Queue(Around(h, 1, NumFrames))
    <3>1. Head(frames) - 1 = h
      <4>1. Head(Queue(h)) = h + 1 /\ h \in Int
        BY QueueFront, VMMAssumption DEF Frames
      <4> QED
        BY ONLY <1>1, <4>1
    <3> QED
      BY <1>1, <1>2, <3>1, FIFOEngine, QueueTurns DEF FIFO!FIFOFault, FIFO!rotate
  <2>2. SelectFrame(h, {})
    BY <1>1, LowestMayBeTaken, AnyMayBeTaken
  <2>3. Next /\ IInv'
    BY <2>1, <2>2, AllowedFault
  <2>4. FreeFrames' = FreeFrames \ {h}
    BY <2>1, FaultUsesFrame
  <2>5. Lowest(Around(h, 1, NumFrames), FreeFrames')
    BY <1>1, <2>4, LowestAdvances, LowestOfNone
  <2> QED
    BY <2>1, <2>3, <2>5, QueueFront DEF QueueInv
<1>3. CASE Quiet /\ UNCHANGED frames
  BY <1>1, <1>3, QuietStep DEF QueueInv
<1> QED
  BY <1>2, <1>3, FIFOEngine DEF FIFO!FIFONext, FIFO!FIFOHit, FIFO!FIFOStop, Quiet

-----------------------------------------------------------------------------
(* Second chance: the loop goes to the first frame ahead that is free or   *)
(* holds an unreferenced page, or once round to where it began.            *)

LEMMA SecTurns ==
  ASSUME NEW h \in Frames, frames = Queue(h), NEW n \in 1 .. NumFrames + 1
  PROVE  /\ SecChance!Rotated(n)[NumFrames] - 1 = Turned(h, n)
         /\ SecChance!Rotated(n) = Queue(Around(Turned(h, n), 1, NumFrames))
  BY QueueRotated DEF SecChance!Rotated

LEMMA SecLastTurn ==
  ASSUME NEW n, n = SecChance!LastTurn
  PROVE  /\ n \in 1 .. NumFrames + 1
         /\ n <= NumFrames => SecChance!Stops(n)
         /\ \A i \in 1 .. n - 1 : ~SecChance!Stops(i)
<1> DEFINE S == {i \in 1 .. NumFrames : SecChance!Stops(i)} \cup {NumFrames + 1}
<1>1. NumFrames \in Nat \ {0}
  BY VMMAssumption
<1>2. S \in SUBSET Nat /\ S # {}
  BY <1>1
<1>3. n = CHOOSE x \in S : \A y \in S : x =< y
  BY DEF SecChance!LastTurn, SecChance!Min
<1> HIDE DEF S
<1>4. n \in S /\ \A y \in S : n <= y
  BY <1>2, <1>3, LeastIsChosen
<1> QED
  BY <1>1, <1>4 DEF S

\* The page that the loop meets at its i-th turn.
LEMMA SecPage ==
  ASSUME NEW h \in Frames, frames = Queue(h), NEW i \in 1 .. NumFrames
  PROVE  /\ Around(h, i - 1, NumFrames) \in Frames
         /\ SecChance!PageAt(i) = frame_table[Around(h, i - 1, NumFrames)]
<1>1. NumFrames \in Nat \ {0} /\ h \in 0 .. NumFrames - 1
  BY VMMAssumption DEF Frames
<1>2. Around(h, i - 1, NumFrames) \in Frames
  BY <1>1 DEF Around, Frames
<1>3. frames[i] - 1 = Around(h, i - 1, NumFrames)
  BY <1>1, <1>2 DEF Queue, Frames
<1> QED
  BY <1>2, <1>3 DEF SecChance!PageAt

LEMMA SecChoice ==
  ASSUME IInv, NEW h \in Frames, frames = Queue(h), Lowest(h, FreeFrames),
         NEW n, n = SecChance!LastTurn,
         NEW cleared, cleared = {SecChance!PageAt(i) : i \in 1 .. n - 1}
  PROVE  /\ Turned(h, n) \in Frames
         /\ cleared \in SUBSET Resident
         /\ SelectFrame(Turned(h, n), cleared)
         /\ SparesReferenced(Turned(h, n))
         /\ FreeFrames # {} => Turned(h, n) = h
<1>1. NumFrames \in Nat \ {0} /\ h \in 0 .. NumFrames - 1
  BY VMMAssumption DEF Frames
<1>2. /\ n \in 1 .. NumFrames + 1
      /\ n <= NumFrames => SecChance!Stops(n)
      /\ \A i \in 1 .. n - 1 : ~SecChance!Stops(i)
  BY SecLastTurn
<1>3. Turned(h, n) \in Frames
  BY <1>2, TurnedIsFrame
<1>4. CASE FreeFrames # {}
  <2>1. SecChance!PageAt(1) = EMPTY
    <3>1. frame_table[h] = EMPTY
      BY <1>4 DEF Lowest, FreeFrames
    <3>2. Around(h, 1 - 1, NumFrames) = h
      BY <1>1 DEF Around
    <3> QED
      BY <1>1, <3>1, <3>2, SecPage
  <2>2. SecChance!EMPTY = EMPTY
    BY DEF SecChance!EMPTY, EMPTY
  <2>3. n = 1
    BY <1>1, <1>2, <2>1, <2>2 DEF SecChance!Stops
  <2>4. Turned(h, n) = h /\ cleared = {}
    BY <1>1, <2>3 DEF Turned, Around
  <2> QED
    BY <1>3, <1>4, <2>4, LowestMayBeTaken
<1>5. CASE FreeFrames = {}
  <2>1. cleared \in SUBSET Resident
    BY <1>1, <1>2, <1>5, SecPage, FullMeansResident
  <2>2. SparesReferenced(Turned(h, n))
    <3> DEFINE old == frame_table[Turned(h, n)]
    <3> SUFFICES ASSUME page_table[old].referenced, NEW q \in Resident
                 PROVE  page_table[q].referenced
      BY DEF SparesReferenced
    <3>1. n = NumFrames + 1
      <4> SUFFICES ASSUME n <= NumFrames PROVE FALSE
        BY <1>1, <1>2
      <4>1. SecChance!PageAt(n) = old
        BY <1>1, <1>2, SecPage DEF Turned
      <4>2. old # EMPTY
        BY <1>3, <1>5, FullMeansResident, EmptyIsNoPage DEF Resident
      <4> QED
        BY <1>2, <4>1, <4>2 DEF SecChance!Stops, SecChance!EMPTY, EMPTY
    <3>2. PICK i \in 0 .. NumFrames - 1 :
                 Around(h, i, NumFrames) = page_table[q].frame_number
      BY <1>1, <1>5, FullMeansResident, AroundReaches DEF Frames
    <3>3. SecChance!PageAt(i + 1) = q
      <4>1. i + 1 \in 1 .. NumFrames /\ (i + 1) - 1 = i
        BY <1>1
      <4>2. SecChance!PageAt(i + 1) = frame_table[Around(h, (i + 1) - 1, NumFrames)]
        BY <4>1, SecPage
      <4> QED
        BY <1>5, <3>2, <4>1, <4>2, FullMeansResident
    <3>4. ~SecChance!Stops(i + 1)
      BY <1>1, <1>2, <3>1
    <3> QED
      BY <3>3, <3>4 DEF SecChance!Stops
  <2> QED
    BY <1>3, <1>5, <2>1, <2>2, AnyMayBeTaken
<1> QED
  BY <1>4, <1>5

LEMMA SecStep ==
  ASSUME IInv, QueueInv, SecChance!SecNext
  PROVE  RefBitNext /\ Next /\ IInv' /\ QueueInv'
<1>1. PICK h \in Frames : frames = Queue(h) /\ Lowest(h, FreeFrames)
  BY DEF QueueInv
<1>2. ASSUME NEW op \in Operations, NEW p \in Pages, SecChance!SecFault(op, p)
      PROVE  RefBitNext /\ Next /\ IInv' /\ QueueInv'
  <2> DEFINE n == SecChance!LastTurn
             index == Turned(h, n)
             cleared == {SecChance!PageAt(i) : i \in 1 .. n - 1}
  <2>1. n \in 1 .. NumFrames + 1
    BY SecLastTurn
  <2>2. /\ index \in Frames /\ cleared \in SUBSET Resident
        /\ SelectFrame(index, cleared) /\ SparesReferenced(index)
        /\ FreeFrames # {} => index = h
    BY <1>1, SecChoice
  <2>3. /\ SecChance!ServiceFault(op, p, SecChance!Rotated(n)[NumFrames] - 1, cleared)
        /\ frames' = SecChance!Rotated(n)
    BY <1>2 DEF SecChance!SecFault
  <2> HIDE DEF n, cleared
  <2>4. /\ SecChance!Rotated(n)[NumFrames] - 1 = index
        /\ frames' = Queue(Around(index, 1, NumFrames))
    BY <1>1, <2>1, <2>3, SecTurns
  <2> HIDE DEF index
  <2>5. ServiceFault(op, p, index, cleared)
    BY <2>3, <2>4, SecChanceEngine
  <2>6. RefBitNext /\ Next /\ IInv'
    BY <2>2, <2>5, AllowedFault
  <2>7. FreeFrames' = FreeFrames \ {index}
    BY <2>2, <2>5, FaultUsesFrame
  <2>8. Lowest(Around(index, 1, NumFrames), FreeFrames')
    BY <1>1, <2>2, <2>7, LowestAdvances, LowestOfNone
  <2> QED
    BY <2>2, <2>4, <2>6, <2>8, QueueFront DEF QueueInv
<1>3. CASE Quiet /\ UNCHANGED frames
  BY <1>1, <1>3, QuietStep DEF QueueInv
<1> QED
  BY <1>2, <1>3, SecChanceEngine DEF SecChance!SecNext, Quiet

-----------------------------------------------------------------------------
(* The clock over frames.                                                  *)

HandInv == hand \in Frames /\ Lowest(hand, FreeFrames)

\* Where the loop stops: k frames ahead, or once round.
Swept(h, k) == IF k = NumFrames THEN h ELSE Around(h, k, NumFrames)

LEMMA SweptIsFrame ==
  ASSUME NEW h \in Frames, NEW k \in 0 .. NumFrames
  PROVE  /\ Swept(h, k) \in Frames /\ Around(Swept(h, k), 1, NumFrames) \in Frames
         /\ (h + k) % NumFrames = Swept(h, k)
         /\ (Swept(h, k) + 1) % NumFrames = Around(Swept(h, k), 1, NumFrames)
<1>1. NumFrames \in Nat \ {0} /\ h \in 0 .. NumFrames - 1
  BY VMMAssumption DEF Frames
<1>2. Swept(h, k) \in Frames
  BY <1>1 DEF Swept, Around, Frames
<1>3. (h + k) % NumFrames = Around(h, k, NumFrames)
  BY <1>1, AroundIsRemainder
<1>4. Around(h, k, NumFrames) = Swept(h, k)
  BY <1>1 DEF Around, Swept
<1> DEFINE g == Swept(h, k)
<1>5. g \in 0 .. NumFrames - 1
  BY <1>2 DEF Frames
<1> HIDE DEF g
<1>6. (g + 1) % NumFrames = Around(g, 1, NumFrames)
  <2>1. 1 \in 0 .. NumFrames
    BY <1>1
  <2> QED
    BY <1>1, <1>5, <2>1, AroundIsRemainder
<1>7. Around(g, 1, NumFrames) \in Frames
  BY <1>1, <1>5 DEF Around, Frames
<1> QED
  BY <1>2, <1>3, <1>4, <1>6, <1>7 DEF g

LEMMA PClockPassed ==
  ASSUME hand \in Frames, NEW k, k = PClock!Passed
  PROVE  /\ k \in 0 .. NumFrames
         /\ k < NumFrames =>
              ~page_table[frame_table[PClock!Ahead(k)]].referenced
         /\ \A i \in 0 .. k - 1 :
              page_table[frame_table[PClock!Ahead(i)]].referenced
<1> DEFINE S == {i \in 0 .. NumFrames - 1 :
                   ~page_table[frame_table[PClock!Ahead(i)]].referenced}
                \cup {NumFrames}
<1>1. NumFrames \in Nat \ {0}
  BY VMMAssumption
<1>2. S \in SUBSET Nat /\ S # {}
  BY <1>1
<1>3. k = CHOOSE x \in S : \A y \in S : x =< y
  BY DEF PClock!Passed, PClock!Min
<1> HIDE DEF S
<1>4. k \in S /\ \A y \in S : k <= y
  BY <1>2, <1>3, LeastIsChosen
<1> QED
  BY <1>1, <1>4 DEF S

LEMMA PClockChoice ==
  ASSUME IInv, hand \in Frames, FreeFrames = {},
         NEW k, k = PClock!Passed,
         NEW cleared, cleared = {frame_table[PClock!Ahead(i)] : i \in 0 .. k - 1}
  PROVE  /\ k \in 0 .. NumFrames
         /\ PClock!Ahead(k) = Swept(hand, k)
         /\ cleared \in SUBSET Resident
         /\ SparesReferenced(Swept(hand, k))
<1>1. NumFrames \in Nat \ {0} /\ hand \in 0 .. NumFrames - 1
  BY VMMAssumption DEF Frames
<1>2. /\ k \in 0 .. NumFrames
      /\ k < NumFrames => ~page_table[frame_table[PClock!Ahead(k)]].referenced
      /\ \A i \in 0 .. k - 1 : page_table[frame_table[PClock!Ahead(i)]].referenced
  BY PClockPassed
<1>3. \A i \in 0 .. NumFrames : /\ PClock!Ahead(i) = Swept(hand, i)
                                /\ Swept(hand, i) \in Frames
  BY SweptIsFrame DEF PClock!Ahead
<1>4. cleared \in SUBSET Resident
  <2>1. \A i \in 0 .. k - 1 : i \in 0 .. NumFrames
    BY <1>1, <1>2
  <2>2. \A i \in 0 .. k - 1 : frame_table[PClock!Ahead(i)] \in Resident
    BY <1>3, <2>1, FullMeansResident
  <2> QED
    BY <2>2
<1>5. SparesReferenced(Swept(hand, k))
  <2> SUFFICES ASSUME page_table[frame_table[Swept(hand, k)]].referenced,
                      NEW q \in Resident
               PROVE  page_table[q].referenced
    BY DEF SparesReferenced
  <2>1. k = NumFrames
    BY <1>1, <1>2, <1>3
  <2>2. PICK i \in 0 .. NumFrames - 1 :
               Around(hand, i, NumFrames) = page_table[q].frame_number
    BY <1>1, FullMeansResident, AroundReaches DEF Frames
  <2>3. Swept(hand, i) = Around(hand, i, NumFrames)
    BY <1>1 DEF Swept
  <2>4. i \in 0 .. k - 1 /\ i \in 0 .. NumFrames
    BY <1>1, <2>1
  <2> QED
    BY <1>2, <1>3, <2>2, <2>3, <2>4, FullMeansResident
<1> QED
  BY <1>1, <1>2, <1>3, <1>4, <1>5

LEMMA PClockFault ==
  ASSUME IInv, HandInv, NEW op \in Operations, NEW p \in Pages,
         NEW index \in Frames, FreeFrames # {} => index = hand,
         NEW cleared \in SUBSET Resident, SelectFrame(index, cleared),
         SparesReferenced(index), PClock!ServiceFault(op, p, index, cleared),
         hand' = Around(index, 1, NumFrames), hand' \in Frames
  PROVE  RefBitNext /\ Next /\ IInv' /\ HandInv'
<1>1. ServiceFault(op, p, index, cleared)
  BY PClockEngine
<1>2. RefBitNext /\ Next /\ IInv'
  BY <1>1, AllowedFault
<1>3. FreeFrames' = FreeFrames \ {index}
  BY <1>1, FaultUsesFrame
<1>4. Lowest(hand', FreeFrames')
  BY <1>3, LowestAdvances, LowestOfNone DEF HandInv
<1> QED
  BY <1>2, <1>4 DEF HandInv

LEMMA PClockStep ==
  ASSUME IInv, HandInv, PClock!ClockNext
  PROVE  RefBitNext /\ Next /\ IInv' /\ HandInv'
<1>0. hand \in Frames /\ Lowest(hand, FreeFrames)
  BY DEF HandInv
<1>1. ASSUME NEW op \in Operations, NEW p \in Pages, PClock!TakeEmpty(op, p)
      PROVE  RefBitNext /\ Next /\ IInv' /\ HandInv'
  <2>1. FreeFrames # {}
    BY <1>0, <1>1 DEF PClock!TakeEmpty, PClock!EMPTY, EMPTY, FreeFrames
  <2>2. /\ PClock!ServiceFault(op, p, hand, {})
        /\ hand' = (hand + 1) % NumFrames
    BY <1>1 DEF PClock!TakeEmpty, PClock!Advance
  <2>3. 0 \in 0 .. NumFrames /\ Swept(hand, 0) = hand
    BY <1>0, VMMAssumption DEF Swept, Around, Frames
  <2>4. hand' = Around(hand, 1, NumFrames) /\ hand' \in Frames
    BY <1>0, <2>2, <2>3, SweptIsFrame
  <2>5. SelectFrame(hand, {}) /\ SparesReferenced(hand)
    BY <1>0, <2>1, LowestMayBeTaken
  <2> QED
    BY <1>0, <2>1, <2>2, <2>4, <2>5, PClockFault
<1>2. ASSUME NEW op \in Operations, NEW p \in Pages, PClock!Sweep(op, p)
      PROVE  RefBitNext /\ Next /\ IInv' /\ HandInv'
  <2> DEFINE k == PClock!Passed
             cleared == {frame_table[PClock!Ahead(i)] : i \in 0 .. k - 1}
             index == PClock!Ahead(k)
  <2>1. FreeFrames = {}
    BY <1>0, <1>2 DEF PClock!Sweep, PClock!EMPTY, EMPTY, FreeFrames, Lowest
  <2>2. /\ PClock!ServiceFault(op, p, index, cleared)
        /\ hand' = (index + 1) % NumFrames
    BY <1>2 DEF PClock!Sweep, PClock!Advance
  <2>3. /\ k \in 0 .. NumFrames /\ index = Swept(hand, k)
        /\ cleared \in SUBSET Resident /\ SparesReferenced(index)
    BY <1>0, <2>1, PClockChoice
  <2> HIDE DEF k, cleared, index
  <2>4. index \in Frames /\ hand' = Around(index, 1, NumFrames) /\ hand' \in Frames
    BY <1>0, <2>2, <2>3, SweptIsFrame
  <2>5. SelectFrame(index, cleared)
    BY <2>1, AnyMayBeTaken
  <2> QED
    BY <2>1, <2>2, <2>3, <2>4, <2>5, PClockFault
<1>3. CASE Quiet /\ UNCHANGED hand
  BY <1>0, <1>3, QuietStep DEF HandInv
<1> QED
  BY <1>1, <1>2, <1>3, PClockEngine DEF PClock!ClockNext, Quiet

-----------------------------------------------------------------------------
(* The clock over pages: its hand counts frames while one is free, then it *)
(* goes round the pages.                                                   *)

VHandInv == hand \in Nat /\ Lowest(hand, FreeFrames)

LEMMA VClockAhead ==
  ASSUME hand \in Nat
  PROVE  /\ \A k \in Nat : VClock!Ahead(k) \in Pages
         /\ \A q \in Pages : \E i \in 0 .. NumPages - 1 :
              VClock!Ahead(i) = q /\ VClock!Ahead(i + NumPages) = q
<1>1. NumPages \in Nat \ {0}
  BY VMMAssumption
<1>2. ASSUME NEW k \in Nat PROVE VClock!Ahead(k) \in Pages
  <2>1. hand + k \in Int
    OBVIOUS
  <2> QED
    BY <1>1, <2>1, Division DEF VClock!Ahead, Pages
<1>3. ASSUME NEW q \in Pages
      PROVE  \E i \in 0 .. NumPages - 1 :
               VClock!Ahead(i) = q /\ VClock!Ahead(i + NumPages) = q
  <2> DEFINE h == hand % NumPages
  <2>1. h \in 0 .. NumPages - 1
    BY <1>1, Division
  <2> HIDE DEF h
  <2>2. PICK i \in 0 .. NumPages - 1 : Around(h, i, NumPages) = q
    BY <1>1, <2>1, AroundReaches DEF Pages
  <2>3. (h + i) % NumPages = q
    BY <1>1, <2>1, <2>2, AroundIsRemainder
  <2>4. (hand + i) % NumPages = q
    <3>1. hand \in Int /\ i \in Int
      BY <1>1
    <3>2. ((hand % NumPages) + i) % NumPages = (hand + i) % NumPages
      BY <1>1, <3>1, RemainderOfSum, Zenon
    <3> QED
      BY <2>3, <3>2 DEF h
  <2> DEFINE a == hand + i
             b == hand + (i + NumPages)
  <2>5. a \in Int
    BY <1>1
  <2>6. PICK d \in Int, r \in 0 .. NumPages - 1 :
               a = NumPages * d + r /\ a % NumPages = r
    BY <1>1, <2>5, Division
  <2>7. b = NumPages * (d + 1) + r
    BY <1>1, <2>6
  <2>8. d + 1 \in Int
    BY <2>6
  <2>9. (NumPages * (d + 1) + r) % NumPages = r
    BY <1>1, <2>8, Remainder
  <2>10. b % NumPages = q
    BY <2>4, <2>6, <2>7, <2>9
  <2> QED
    BY <2>4, <2>10 DEF VClock!Ahead
<1> QED
  BY <1>2, <1>3

\* The loop always finds a resident page, in the second round if not before.
LEMMA VClockPassed ==
  ASSUME IInv, FreeFrames = {}, hand \in Nat, NEW k, k = VClock!Passed
  PROVE  /\ k \in Nat
         /\ VClock!Ahead(k) \in Resident
         /\ page_table[VClock!Ahead(k)].referenced =>
              \A q \in Resident : page_table[q].referenced
<1> DEFINE S == {i \in 0 .. NumPages - 1 : VClock!Stops(VClock!Ahead(i))} \cup
                {i \in NumPages .. 2 * NumPages - 1 :
                   page_table[VClock!Ahead(i)].present}
<1>1. NumPages \in Nat \ {0}
  BY VMMAssumption
<1>2. S # {}
  <2>1. PICK q \in Resident : TRUE
    BY FullMeansResident
  <2>2. PICK i \in 0 .. NumPages - 1 : VClock!Ahead(i + NumPages) = q
    BY VClockAhead DEF Resident
  <2>3. i + NumPages \in NumPages .. 2 * NumPages - 1
    BY <1>1
  <2> QED
    BY <2>2, <2>3 DEF Resident
<1>3. S \in SUBSET Nat
  BY <1>1
<1>4. k = CHOOSE x \in S : \A y \in S : x =< y
  BY DEF VClock!Passed, VClock!Min
<1> HIDE DEF S
<1>5. k \in S /\ \A y \in S : k <= y
  BY <1>2, <1>3, <1>4, LeastIsChosen
<1>6. k \in Nat
  BY <1>3, <1>5
<1>7. VClock!Ahead(k) \in Resident
  BY <1>5, <1>6, VClockAhead DEF S, VClock!Stops, Resident
<1>8. ASSUME page_table[VClock!Ahead(k)].referenced, NEW q \in Resident
      PROVE  page_table[q].referenced
  <2>1. k >= NumPages
    BY <1>1, <1>5, <1>8 DEF S, VClock!Stops
  <2>2. PICK i \in 0 .. NumPages - 1 : VClock!Ahead(i) = q
    BY VClockAhead DEF Resident
  <2>3. i \notin S
    BY <1>1, <1>5, <1>6, <2>1, <2>2
  <2> QED
    BY <2>2, <2>3 DEF S, VClock!Stops, Resident
<1> QED
  BY <1>6, <1>7, <1>8

LEMMA VClockTakesEmpty ==
  ASSUME IInv, VHandInv, NEW op \in Operations, NEW p \in Pages,
         VClock!TakeEmpty(op, p)
  PROVE  RefBitNext /\ Next /\ IInv' /\ VHandInv'
<1>0. Lowest(hand, FreeFrames) /\ NumFrames \in Nat \ {0}
  BY VMMAssumption DEF VHandInv
<1>1. /\ hand \in Frames /\ frame_table[hand] = EMPTY
      /\ ServiceFault(op, p, hand, {})
      /\ hand' = (hand + 1) % NumFrames
  BY VClockEngine DEF VClock!TakeEmpty, VClock!TableEntry, VClock!Frames, Frames,
                      VClock!EMPTY, EMPTY, VClock!NextFrame
<1>2. FreeFrames # {}
  BY <1>1 DEF FreeFrames
<1>3. SelectFrame(hand, {}) /\ SparesReferenced(hand)
  BY <1>0, <1>2, LowestMayBeTaken
<1>4. RefBitNext /\ Next /\ IInv'
  BY <1>1, <1>3, AllowedFault
<1>5. FreeFrames' = FreeFrames \ {hand}
  BY <1>1, FaultUsesFrame
<1>6. hand' = Around(hand, 1, NumFrames)
  <2>1. 1 \in 0 .. NumFrames /\ hand \in 0 .. NumFrames - 1
    BY <1>0, <1>1 DEF Frames
  <2> QED
    BY <1>0, <1>1, <2>1, AroundIsRemainder
<1>7. hand' \in Nat
  BY <1>0, <1>1, <1>6 DEF Around, Frames
<1> QED
  BY <1>0, <1>1, <1>2, <1>4, <1>5, <1>6, <1>7, LowestAdvances DEF VHandInv

LEMMA VClockSweeps ==
  ASSUME IInv, VHandInv, NEW op \in Operations, NEW p \in Pages,
         VClock!Sweep(op, p)
  PROVE  RefBitNext /\ Next /\ IInv' /\ VHandInv'
<1> DEFINE k == VClock!Passed
           victim == VClock!Ahead(k)
           index == page_table[victim].frame_number
           passed == {VClock!Ahead(i) : i \in 0 .. k - 1}
           cleared == {q \in passed : page_table[q].present}
<1>0. hand \in Nat /\ Lowest(hand, FreeFrames)
  BY DEF VHandInv
<1>1. FreeFrames = {}
  <2> SUFFICES ASSUME FreeFrames # {} PROVE FALSE
    OBVIOUS
  <2>1. hand \in Frames /\ frame_table[hand] = EMPTY
    BY <1>0 DEF Lowest, FreeFrames
  <2> QED
    BY <2>1 DEF VClock!Sweep, VClock!TableEntry, VClock!Frames, Frames,
                VClock!EMPTY, EMPTY
<1>2. VClock!ServiceFault(op, p, index, cleared) /\ hand' = VClock!Ahead(k + 1)
  BY DEF VClock!Sweep
<1>3. /\ k \in Nat /\ victim \in Resident
      /\ page_table[victim].referenced => \A q \in Resident : page_table[q].referenced
  BY <1>0, <1>1, VClockPassed
<1> HIDE DEF k
<1>4. cleared \in SUBSET Resident
  <2>1. \A i \in 0 .. k - 1 : VClock!Ahead(i) \in Pages
    BY <1>0, <1>3, VClockAhead
  <2> QED
    BY <2>1 DEF Resident
<1> HIDE DEF cleared
<1>5. index \in Frames /\ frame_table[index] = victim
  BY <1>1, <1>3, FullMeansResident
<1>6. SparesReferenced(index)
  BY <1>3, <1>5 DEF SparesReferenced
<1> HIDE DEF index
<1>7. ServiceFault(op, p, index, cleared)
  BY <1>2, VClockEngine
<1>8. SelectFrame(index, cleared)
  BY <1>1, AnyMayBeTaken
<1>9. RefBitNext /\ Next /\ IInv'
  BY <1>4, <1>5, <1>6, <1>7, <1>8, AllowedFault
<1>10. FreeFrames' = FreeFrames \ {index}
  BY <1>5, <1>7, FaultUsesFrame
<1>11. hand' \in Nat
  BY <1>0, <1>2, <1>3, VClockAhead DEF Pages
<1> QED
  BY <1>1, <1>9, <1>10, <1>11, LowestOfNone DEF VHandInv

LEMMA VClockStep ==
  ASSUME IInv, VHandInv, VClock!VClockNext
  PROVE  \/ RefBitNext /\ Next /\ IInv' /\ VHandInv'
         \/ status' = "crashed" /\ hand \notin Frames /\ UNCHANGED <<frame_table, hand>>
<1>1. CASE Quiet /\ UNCHANGED hand
  BY <1>1, QuietStep DEF VHandInv
<1> QED
  BY <1>1, VClockEngine, VClockTakesEmpty, VClockSweeps
     DEF VClock!VClockNext, VClock!TakeBeyond, VClock!Frames, Frames, Quiet

-----------------------------------------------------------------------------
(* The policies that count the frames they handed out.                     *)

CountInv == /\ used_frames \in 0 .. NumFrames
            /\ \A f \in Frames : frame_table[f] = EMPTY <=> f >= used_frames

LEMMA CountStart ==
  ASSUME Init, used_frames = 0
  PROVE  CountInv
  BY VMMAssumption DEF Init, CountInv, Frames

LEMMA CountIsFree ==
  ASSUME CountInv
  PROVE  /\ FreeFrames = {} <=> used_frames >= NumFrames
         /\ FreeFrames = {} => used_frames = NumFrames
         /\ used_frames < NumFrames =>
              /\ used_frames \in Frames
              /\ FreeFrames # {}
              /\ Lowest(used_frames, FreeFrames)
<1>1. NumFrames \in Nat \ {0}
  BY VMMAssumption
<1>2. \A f : f \in FreeFrames <=> f \in used_frames .. NumFrames - 1
  BY <1>1 DEF CountInv, FreeFrames, Frames
<1> QED
  BY <1>1, <1>2 DEF CountInv, Lowest, Frames

LEMMA CountTakesNext ==
  ASSUME IInv, CountInv, used_frames < NumFrames,
         NEW op \in Operations, NEW p \in Pages,
         ServiceFault(op, p, used_frames, {}), used_frames' = used_frames + 1
  PROVE  RefBitNext /\ Next /\ IInv' /\ CountInv'
<1>1. used_frames \in Frames /\ SelectFrame(used_frames, {})
      /\ SparesReferenced(used_frames)
  BY CountIsFree, LowestMayBeTaken
<1>2. RefBitNext /\ Next /\ IInv'
  BY <1>1, AllowedFault
<1>3. /\ frame_table'[used_frames] = p
      /\ \A f \in Frames \ {used_frames} : frame_table'[f] = frame_table[f]
  BY <1>1, FaultUsesFrame
<1> QED
  BY <1>1, <1>2, <1>3, EmptyIsNoPage, VMMAssumption DEF CountInv, Frames

LEMMA CountReplaces ==
  ASSUME IInv, CountInv, used_frames >= NumFrames, UNCHANGED used_frames,
         NEW op \in Operations, NEW p \in Pages, NEW index \in Frames,
         NEW cleared \in SUBSET Resident, ServiceFault(op, p, index, cleared)
  PROVE  /\ Next /\ IInv' /\ CountInv'
         /\ SparesReferenced(index) => RefBitNext
<1>1. FreeFrames = {}
  BY CountIsFree
<1>2. Next /\ IInv' /\ (SparesReferenced(index) => RefBitNext)
  BY <1>1, AnyMayBeTaken, AllowedFault
<1>3. /\ frame_table'[index] = p
      /\ \A f \in Frames \ {index} : frame_table'[f] = frame_table[f]
  BY FaultUsesFrame
<1>4. frame_table[index] # EMPTY
  BY <1>1 DEF FreeFrames
<1> QED
  BY <1>2, <1>3, <1>4, EmptyIsNoPage DEF CountInv

LEMMA CountRests ==
  ASSUME IInv, CountInv, Quiet, UNCHANGED used_frames
  PROVE  RefBitNext /\ Next /\ IInv' /\ CountInv'
  BY QuietStep DEF CountInv

LEMMA RandomStep ==
  ASSUME IInv, CountInv, Random!RandomNext
  PROVE  Next /\ IInv' /\ CountInv'
<1>1. ASSUME NEW op \in Operations, NEW p \in Pages, Random!TakeNext(op, p)
      PROVE  Next /\ IInv' /\ CountInv'
  BY <1>1, RandomEngine, CountTakesNext, VMMAssumption
     DEF Random!TakeNext, Random!AllUsed, CountInv
<1>2. ASSUME NEW op \in Operations, NEW p \in Pages, Random!Draw(op, p)
      PROVE  Next /\ IInv' /\ CountInv'
  BY <1>2, RandomEngine, CountReplaces DEF Random!Draw, Random!AllUsed
<1>3. CASE Quiet /\ UNCHANGED used_frames
  BY <1>3, CountRests
<1> QED
  BY <1>1, <1>2, <1>3, RandomEngine DEF Random!RandomNext, Quiet

-----------------------------------------------------------------------------
(* Not recently used.                                                      *)

LEMMA NRUClasses ==
  ASSUME NEW q \in Pages, NEW r \in Pages
  PROVE  /\ NRU!Class(q) \in Nat
         /\ page_table[q].referenced /\ NRU!Class(q) <= NRU!Class(r) =>
              page_table[r].referenced
         /\ /\ page_table[q].referenced = page_table[r].referenced
            /\ page_table[q].modified
            /\ NRU!Class(q) <= NRU!Class(r)
            => page_table[r].modified
  BY DEF NRU!Class, NRU!Bit

LEMMA NRUCandidate ==
  ASSUME IInv, FreeFrames = {}, NEW victim \in NRU!Candidates
  PROVE  /\ victim \in Resident
         /\ \A q \in Resident : NRU!Class(victim) <= NRU!Class(q)
<1> DEFINE S == {NRU!Class(q) : q \in Resident}
           least == CHOOSE x \in S : \A y \in S : x =< y
<1>1. NRU!Resident = Resident
  BY NRUEngine
<1>2. victim \in Resident /\ NRU!Class(victim) = least
  BY <1>1 DEF NRU!Candidates, NRU!Min
<1>3. S \in SUBSET Nat /\ S # {}
  BY <1>2, NRUClasses DEF Resident
<1>4. \A q \in Resident : NRU!Class(q) \in S
  OBVIOUS
<1> HIDE DEF S
<1>5. \A y \in S : least <= y
  BY <1>3, LeastIsChosen
<1> QED
  BY <1>2, <1>4, <1>5

LEMMA NRUReplaces ==
  ASSUME IInv, CountInv, NEW op \in Operations, NEW p \in Pages,
         NRU!Replace(op, p)
  PROVE  \E victim \in Resident :
           /\ \A q \in Resident : NRU!Class(victim) <= NRU!Class(q)
           /\ page_table[victim].frame_number \in Frames
           /\ frame_table[page_table[victim].frame_number] = victim
           /\ NRU!ResetBits(replacement_request') \in SUBSET Resident
           /\ ServiceFault(op, p, page_table[victim].frame_number,
                           NRU!ResetBits(replacement_request'))
<1>1. FreeFrames = {}
  BY CountIsFree DEF NRU!Replace
<1>2. PICK victim \in NRU!Candidates :
             NRU!ServiceFault(op, p, page_table[victim].frame_number,
                              NRU!ResetBits(replacement_request'))
  BY DEF NRU!Replace
<1>3. NRU!ResetBits(replacement_request') \in SUBSET Resident
  BY NRUEngine DEF NRU!ResetBits
<1> QED
  BY <1>1, <1>2, <1>3, NRUCandidate, NRUEngine, FullMeansResident

LEMMA NRUStep ==
  ASSUME IInv, CountInv, NRU!NRUNext
  PROVE  RefBitNext /\ Next /\ IInv' /\ CountInv'
<1>1. ASSUME NEW op \in Operations, NEW p \in Pages, NRU!TakeNext(op, p)
      PROVE  RefBitNext /\ Next /\ IInv' /\ CountInv'
  BY <1>1, NRUEngine, CountTakesNext DEF NRU!TakeNext
<1>2. ASSUME NEW op \in Operations, NEW p \in Pages, NRU!Replace(op, p)
      PROVE  RefBitNext /\ Next /\ IInv' /\ CountInv'
  <2> DEFINE reset == NRU!ResetBits(replacement_request')
  <2>1. PICK victim \in Resident :
               /\ \A q \in Resident : NRU!Class(victim) <= NRU!Class(q)
               /\ page_table[victim].frame_number \in Frames
               /\ frame_table[page_table[victim].frame_number] = victim
               /\ reset \in SUBSET Resident
               /\ ServiceFault(op, p, page_table[victim].frame_number, reset)
    BY <1>2, NRUReplaces
  <2>2. used_frames >= NumFrames /\ UNCHANGED used_frames
    BY <1>2 DEF NRU!Replace
  <2>3. SparesReferenced(page_table[victim].frame_number)
    BY <2>1, NRUClasses DEF SparesReferenced, Resident
  <2> HIDE DEF reset
  <2> QED
    BY <2>1, <2>2, <2>3, CountReplaces
<1>3. CASE Quiet /\ UNCHANGED used_frames
  BY <1>3, CountRests
<1> QED
  BY <1>1, <1>2, <1>3, NRUEngine DEF NRU!NRUNext, Quiet

-----------------------------------------------------------------------------
(* The agings.                                                             *)

Ages == 0 .. 2 * TopBit - 1

\* An age shifted right, with the page's referenced bit put in at the top.
Shifted(age, bit) == (age \div 2) + IF bit THEN TopBit ELSE 0

LEMMA ShiftedAge ==
  ASSUME NEW age \in Ages, NEW bit
  PROVE  /\ Shifted(age, bit) \in Ages
         /\ Shifted(age, bit) >= TopBit <=> bit
         /\ age = 0 => Shifted(age, bit) <= TopBit
<1>1. TopBit \in Nat \ {0, 1}
  BY MMUAssumption
<1>2. age \div 2 \in 0 .. TopBit - 1 /\ (age = 0 => age \div 2 = 0)
  BY <1>1 DEF Ages
<1> QED
  BY <1>1, <1>2 DEF Shifted, Ages

\* Aging by frames: a frame never used has age 0.
PAgeInv == /\ CountInv
           /\ age_vector \in [Frames -> Ages]
           /\ \A f \in Frames : frame_table[f] = EMPTY => age_vector[f] = 0

LEMMA PAgingAge ==
  ASSUME PAgeInv
  PROVE  \A f \in Frames :
           /\ PAging!NewAge(f) = Shifted(age_vector[f],
                                         page_table[frame_table[f]].referenced)
           /\ PAging!NewAge(f) \in Ages
           /\ PAging!NewAge(f) >= TopBit <=> page_table[frame_table[f]].referenced
  BY ShiftedAge DEF PAgeInv, PAging!NewAge, Shifted

LEMMA PAgingVictim ==
  ASSUME PAgeInv
  PROVE  /\ PAging!Victim \in Frames
         /\ \A f \in Frames : PAging!NewAge(PAging!Victim) <= PAging!NewAge(f)
<1> DEFINE S == {PAging!NewAge(f) : f \in Frames} \cup {PAging!UINT_MAX}
           least == CHOOSE x \in S : \A y \in S : x =< y
           T == {f \in Frames : PAging!NewAge(f) = least}
           first == CHOOSE x \in T : \A y \in T : x =< y
<1>0. NumFrames \in Nat \ {0} /\ TopBit \in Nat \ {0, 1} /\ 0 \in Frames
  BY VMMAssumption, MMUAssumption, FrameZero
<1>1. PAging!UINT_MAX = 2 * TopBit - 1
  BY DEF PAging!UINT_MAX
<1>2. \A f \in Frames : PAging!NewAge(f) \in Ages
  BY PAgingAge
<1>3. S \in SUBSET Nat /\ S # {}
  BY <1>0, <1>1, <1>2 DEF Ages
<1>4. PAging!Victim = IF least = PAging!UINT_MAX THEN 0 ELSE first
  BY DEF PAging!Victim, PAging!Min, PAging!Frames, Frames
<1>5. \A f \in Frames : PAging!NewAge(f) \in S
  OBVIOUS
<1>6. least \in S /\ \A y \in S : least <= y
  <2> HIDE DEF S
  <2> QED
    BY <1>3, LeastIsChosen
<1>7. CASE least = PAging!UINT_MAX
  <2>1. \A f \in Frames : PAging!NewAge(f) = 2 * TopBit - 1
    <3> HIDE DEF least, S
    <3> QED
      BY <1>0, <1>1, <1>2, <1>5, <1>6, <1>7 DEF Ages
  <2> QED
    BY <1>0, <1>4, <1>7, <2>1
<1>8. CASE least # PAging!UINT_MAX
  <2>1. T # {}
    <3> HIDE DEF least
    <3> QED
      BY <1>6, <1>8
  <2>2. T \in SUBSET Nat
    BY <1>0 DEF Frames
  <2>3. first \in T
    <3> HIDE DEF T
    <3> QED
      BY <2>1, <2>2, LeastIsChosen
  <2>4. PAging!Victim \in Frames /\ PAging!NewAge(PAging!Victim) = least
    <3> HIDE DEF first, least
    <3> QED
      BY <1>4, <1>8, <2>3
  <2> HIDE DEF least, S
  <2> QED
    BY <1>5, <1>6, <2>4
<1> QED
  BY <1>7, <1>8

LEMMA PAgingReplaces ==
  ASSUME IInv, PAgeInv, NEW op \in Operations, NEW p \in Pages,
         PAging!Replace(op, p)
  PROVE  LET cleared == {frame_table[f] : f \in Frames}
         IN /\ FreeFrames = {} /\ cleared = Resident
            /\ ServiceFault(op, p, PAging!Victim, cleared)
            /\ SparesReferenced(PAging!Victim)
<1> DEFINE cleared == {frame_table[f] : f \in Frames}
<1>1. FreeFrames = {}
  BY CountIsFree DEF PAging!Replace, PAgeInv
<1>2. cleared = Resident
  BY <1>1, FullMeansResident
<1>3. ServiceFault(op, p, PAging!Victim, cleared)
  BY PAgingEngine DEF PAging!Replace
<1>4. /\ PAging!Victim \in Frames
      /\ \A f \in Frames : PAging!NewAge(PAging!Victim) <= PAging!NewAge(f)
  BY PAgingVictim
<1>5. SparesReferenced(PAging!Victim)
  <2> SUFFICES ASSUME page_table[frame_table[PAging!Victim]].referenced,
                      NEW q \in Resident
               PROVE  page_table[q].referenced
    BY DEF SparesReferenced
  <2>1. PICK f \in Frames : frame_table[f] = q
    BY <1>1, FullMeansResident
  <2>2. PAging!NewAge(PAging!Victim) >= TopBit
    BY <1>4, PAgingAge
  <2>3. /\ PAging!NewAge(f) \in Ages /\ PAging!NewAge(PAging!Victim) \in Ages
        /\ PAging!NewAge(PAging!Victim) <= PAging!NewAge(f)
    BY <1>4, PAgingAge
  <2>4. PAging!NewAge(f) >= TopBit
    BY <2>2, <2>3, MMUAssumption DEF Ages
  <2> QED
    BY <2>1, <2>4, PAgingAge
<1> QED
  BY <1>1, <1>2, <1>3, <1>5

LEMMA PAgingStep ==
  ASSUME IInv, PAgeInv, PAging!PAgingNext
  PROVE  RefBitNext /\ Next /\ IInv' /\ PAgeInv'
<1>1. ASSUME NEW op \in Operations, NEW p \in Pages, PAging!TakeNext(op, p)
      PROVE  RefBitNext /\ Next /\ IInv' /\ PAgeInv'
  <2>1. /\ used_frames < NumFrames /\ used_frames' = used_frames + 1
        /\ ServiceFault(op, p, used_frames, {}) /\ UNCHANGED age_vector
    BY <1>1, PAgingEngine DEF PAging!TakeNext
  <2>2. RefBitNext /\ Next /\ IInv' /\ CountInv'
    BY <2>1, CountTakesNext DEF PAgeInv
  <2>3. \A f \in Frames : frame_table'[f] = EMPTY => frame_table[f] = EMPTY
    BY <2>1, CountIsFree, FaultUsesFrame, EmptyIsNoPage DEF PAgeInv
  <2> QED
    BY <2>1, <2>2, <2>3 DEF PAgeInv
<1>2. ASSUME NEW op \in Operations, NEW p \in Pages, PAging!Replace(op, p)
      PROVE  RefBitNext /\ Next /\ IInv' /\ PAgeInv'
  <2> DEFINE cleared == {frame_table[f] : f \in Frames}
  <2>1. /\ FreeFrames = {} /\ cleared = Resident
        /\ ServiceFault(op, p, PAging!Victim, cleared)
        /\ SparesReferenced(PAging!Victim)
    BY <1>2, PAgingReplaces
  <2> HIDE DEF cleared
  <2>2. /\ used_frames >= NumFrames /\ UNCHANGED used_frames
        /\ age_vector' = PAging!Aged(PAging!Victim)
    BY <1>2 DEF PAging!Replace
  <2>3. RefBitNext /\ Next /\ IInv' /\ CountInv'
    BY <2>1, <2>2, PAgingVictim, CountReplaces DEF PAgeInv
  <2>4. age_vector' \in [Frames -> Ages]
    BY <2>2, PAgingAge, MMUAssumption DEF PAging!Aged, PAging!Frames, Frames, Ages
  <2>5. FreeFrames' = {}
    BY <2>1, PAgingVictim, FaultUsesFrame
  <2> QED
    BY <2>3, <2>4, <2>5 DEF PAgeInv, FreeFrames
<1>3. CASE Quiet /\ UNCHANGED <<used_frames, age_vector>>
  BY <1>3, CountRests, QuietStep DEF PAgeInv
<1> QED
  BY <1>1, <1>2, <1>3, PAgingEngine DEF PAging!PAgingNext, Quiet

\* Aging by pages: a page out of memory has age 0, and so has the page that
\* came in last.
VAgeInv == /\ CountInv
           /\ age_vector \in [Pages -> Ages]
           /\ \A q \in Pages \ Resident : age_vector[q] = 0
           /\ FreeFrames = {} => \E q \in Resident : age_vector[q] = 0

LEMMA VAgingAge ==
  ASSUME VAgeInv
  PROVE  \A q \in Resident :
           /\ VAging!NewAge(q) = Shifted(age_vector[q], page_table[q].referenced)
           /\ VAging!NewAge(q) \in Ages
           /\ VAging!NewAge(q) >= TopBit <=> page_table[q].referenced
           /\ age_vector[q] = 0 => VAging!NewAge(q) <= TopBit
  BY ShiftedAge DEF VAgeInv, VAging!NewAge, Shifted, Resident

\* The loop's search cannot end with the default, which need not be resident.
LEMMA VAgingVictim ==
  ASSUME VAgeInv, FreeFrames = {}
  PROVE  /\ VAging!Victim \in Resident
         /\ \A q \in Resident : VAging!NewAge(VAging!Victim) <= VAging!NewAge(q)
<1> DEFINE S == {VAging!NewAge(q) : q \in Resident} \cup {VAging!UINT_MAX}
           least == CHOOSE x \in S : \A y \in S : x =< y
           T == {q \in Resident : VAging!NewAge(q) = least}
           first == CHOOSE x \in T : \A y \in T : x =< y
<1>0. TopBit \in Nat \ {0, 1}
  BY MMUAssumption
<1>1. VAging!UINT_MAX = 2 * TopBit - 1 /\ VAging!Resident = Resident
  BY VAgingEngine DEF VAging!UINT_MAX
<1>2. \A q \in Resident : VAging!NewAge(q) \in Ages
  BY VAgingAge
<1>3. S \in SUBSET Nat /\ S # {}
  BY <1>0, <1>1, <1>2 DEF Ages
<1>4. VAging!Victim = IF least = VAging!UINT_MAX THEN 0 ELSE first
  BY <1>1 DEF VAging!Victim, VAging!Min
<1>5. \A q \in Resident : VAging!NewAge(q) \in S
  OBVIOUS
<1>6. least \in S /\ \A y \in S : least <= y
  <2> HIDE DEF S
  <2> QED
    BY <1>3, LeastIsChosen
<1>7. least # VAging!UINT_MAX
  <2>1. PICK q \in Resident : age_vector[q] = 0
    BY DEF VAgeInv
  <2>2. VAging!NewAge(q) <= TopBit /\ VAging!NewAge(q) \in Ages
    BY <2>1, VAgingAge
  <2>3. least <= VAging!NewAge(q)
    <3> HIDE DEF least, S
    <3> QED
      BY <1>5, <1>6
  <2>4. least \in Nat
    <3> HIDE DEF S
    <3> QED
      BY <1>3, <1>6
  <2> HIDE DEF least
  <2> QED
    BY <1>0, <1>1, <2>2, <2>3, <2>4 DEF Ages
<1>8. T # {}
  <2> HIDE DEF least
  <2> QED
    BY <1>6, <1>7
<1>9. T \in SUBSET Nat
  BY VMMAssumption DEF Resident, Pages
<1>10. first \in T
  <2> HIDE DEF T
  <2> QED
    BY <1>8, <1>9, LeastIsChosen
<1>11. VAging!Victim \in Resident /\ VAging!NewAge(VAging!Victim) = least
  <2> HIDE DEF first, least
  <2> QED
    BY <1>4, <1>7, <1>10
<1> HIDE DEF least, S
<1> QED
  BY <1>5, <1>6, <1>11

LEMMA VAgingReplaces ==
  ASSUME IInv, VAgeInv, NEW op \in Operations, NEW p \in Pages,
         VAging!Replace(op, p)
  PROVE  LET index == page_table[VAging!Victim].frame_number
         IN /\ FreeFrames = {} /\ index \in Frames
            /\ frame_table[index] = VAging!Victim
            /\ ServiceFault(op, p, index, Resident)
            /\ SparesReferenced(index)
<1> DEFINE index == page_table[VAging!Victim].frame_number
<1>1. FreeFrames = {}
  BY CountIsFree DEF VAging!Replace, VAgeInv
<1>2. /\ VAging!Victim \in Resident
      /\ \A q \in Resident : VAging!NewAge(VAging!Victim) <= VAging!NewAge(q)
  BY <1>1, VAgingVictim
<1>3. index \in Frames /\ frame_table[index] = VAging!Victim
  BY <1>1, <1>2, FullMeansResident
<1>4. ServiceFault(op, p, index, Resident)
  BY VAgingEngine DEF VAging!Replace
<1>5. SparesReferenced(index)
  <2> SUFFICES ASSUME page_table[VAging!Victim].referenced, NEW q \in Resident
               PROVE  page_table[q].referenced
    BY <1>3 DEF SparesReferenced
  <2>1. /\ VAging!NewAge(q) \in Ages /\ VAging!NewAge(VAging!Victim) \in Ages
        /\ VAging!NewAge(VAging!Victim) <= VAging!NewAge(q)
        /\ VAging!NewAge(VAging!Victim) >= TopBit
    BY <1>2, VAgingAge
  <2>2. VAging!NewAge(q) >= TopBit
    BY <2>1, MMUAssumption DEF Ages
  <2> QED
    BY <2>2, VAgingAge
<1> QED
  BY <1>1, <1>3, <1>4, <1>5

LEMMA ResidentAfter ==
  ASSUME IInv, NEW op, NEW p \in Pages, NEW index \in Frames, NEW cleared,
         ServiceFault(op, p, index, cleared)
  PROVE  Resident' = (Resident \ {frame_table[index]}) \cup {p} /\ p \notin Resident
<1>1. /\ page_table'[p].present /\ ~page_table[p].present
      /\ frame_table[index] \in Pages => VictimGone(frame_table[index])
      /\ \A q \in Pages \ {p, frame_table[index]} : Untouched(q, cleared)
  BY FaultPageTable DEF IInv, TablesInv, ServiceFault
<1> QED
  BY <1>1 DEF Resident, VictimGone, Untouched

LEMMA VAgingStep ==
  ASSUME IInv, VAgeInv, VAging!VAgingNext
  PROVE  RefBitNext /\ Next /\ IInv' /\ VAgeInv'
<1>1. ASSUME NEW op \in Operations, NEW p \in Pages, VAging!TakeNext(op, p)
      PROVE  RefBitNext /\ Next /\ IInv' /\ VAgeInv'
  <2>1. /\ used_frames < NumFrames /\ used_frames' = used_frames + 1
        /\ ServiceFault(op, p, used_frames, {}) /\ UNCHANGED age_vector
    BY <1>1, VAgingEngine DEF VAging!TakeNext
  <2>2. RefBitNext /\ Next /\ IInv' /\ CountInv'
    BY <2>1, CountTakesNext DEF VAgeInv
  <2>3. used_frames \in FreeFrames /\ used_frames \in Frames
    BY <2>1, CountIsFree DEF VAgeInv, Lowest
  <2>4. Resident' = Resident \cup {p} /\ p \notin Resident
    <3>1. frame_table[used_frames] = EMPTY
      BY <2>3 DEF FreeFrames
    <3> QED
      BY <2>1, <2>3, <3>1, ResidentAfter, EmptyIsNoPage DEF Resident
  <2> QED
    BY <2>1, <2>2, <2>4 DEF VAgeInv
<1>2. ASSUME NEW op \in Operations, NEW p \in Pages, VAging!Replace(op, p)
      PROVE  RefBitNext /\ Next /\ IInv' /\ VAgeInv'
  <2> DEFINE index == page_table[VAging!Victim].frame_number
  <2>1. /\ FreeFrames = {} /\ index \in Frames
        /\ frame_table[index] = VAging!Victim
        /\ ServiceFault(op, p, index, Resident)
        /\ SparesReferenced(index)
    BY <1>2, VAgingReplaces
  <2>2. /\ used_frames >= NumFrames /\ UNCHANGED used_frames
        /\ age_vector' = [q \in Pages |-> IF q = VAging!Victim THEN 0
                                          ELSE VAging!NewAge(q)]
    BY <1>2, VAgingEngine DEF VAging!Replace
  <2> HIDE DEF index
  <2>3. RefBitNext /\ Next /\ IInv' /\ CountInv'
    BY <2>1, <2>2, CountReplaces DEF VAgeInv
  <2>4. Resident' = (Resident \ {VAging!Victim}) \cup {p} /\ p \notin Resident
    BY <2>1, ResidentAfter
  <2>5. \A q \in Pages \ Resident : VAging!NewAge(q) = 0
    BY DEF VAgeInv, VAging!NewAge, Resident
  <2>6. age_vector' \in [Pages -> Ages]
    BY <2>2, <2>5, VAgingAge, MMUAssumption DEF Ages
  <2> QED
    BY <2>2, <2>3, <2>4, <2>5, <2>6 DEF VAgeInv
<1>3. CASE Quiet /\ UNCHANGED <<used_frames, age_vector>>
  <2>1. Resident' = Resident
    BY <1>3, HitPageTable DEF Quiet, Resident, IInv, EndOfInput, BadInstruction,
                              Exited, vars
  <2> QED
    BY <1>3, <2>1, CountRests, QuietStep DEF VAgeInv
<1> QED
  BY <1>1, <1>2, <1>3, VAgingEngine DEF VAging!VAgingNext, Quiet

-----------------------------------------------------------------------------
(* LRU: the pointers link all the frames in one line w, the free ones at   *)
(* its front in the order of their numbers.  The prev pointer that new()   *)
(* leaves unset may only be missing while its frame, the last, is free.    *)

InLine(w) == /\ w \in [1 .. NumFrames -> Frames]
             /\ \A f \in Frames : \E i \in 1 .. NumFrames : w[i] = f
             /\ \A i, j \in 1 .. NumFrames : w[i] = w[j] => i = j

Linked(w) ==
  /\ next \in [Frames -> Frames \cup {LRU!NULL}]
  /\ prev \in [Frames -> Frames \cup {LRU!NULL, LRU!UNSET}]
  /\ sorted_list = w[1] /\ tail = w[NumFrames]
  /\ \A i \in 1 .. NumFrames - 1 : next[w[i]] = w[i + 1]
  /\ next[w[NumFrames]] = LRU!NULL
  /\ prev[w[1]] = LRU!NULL
  /\ \A i \in 1 .. NumFrames - 1 :
       \/ prev[w[i + 1]] = w[i]
       \/ /\ prev[w[i + 1]] = LRU!UNSET
          /\ w[i + 1] = NumFrames - 1 /\ frame_table[w[i + 1]] = EMPTY

FreeFirst(w) ==
  \A i, j \in 1 .. NumFrames :
    i < j /\ frame_table[w[j]] = EMPTY => frame_table[w[i]] = EMPTY /\ w[i] < w[j]

ListInv == \E w : InLine(w) /\ Linked(w) /\ FreeFirst(w)

\* The line after its k-th element went to the end.
Moved(w, k) == [i \in 1 .. NumFrames |->
                  IF i < k THEN w[i] ELSE IF i < NumFrames THEN w[i + 1] ELSE w[k]]

LEMMA NullIsNoFrame == LRU!NULL \notin Frames /\ LRU!UNSET \notin Frames
                       /\ LRU!NULL # LRU!UNSET
  BY VMMAssumption DEF LRU!NULL, LRU!UNSET, Frames

LEMMA MovedInLine ==
  ASSUME NEW w, InLine(w), NEW k \in 1 .. NumFrames
  PROVE  InLine(Moved(w, k))
<1> DEFINE v == Moved(w, k)
<1>0. NumFrames \in Nat \ {0}
  BY VMMAssumption
<1>1. v \in [1 .. NumFrames -> Frames]
  BY <1>0 DEF InLine, Moved
<1>2. ASSUME NEW f \in Frames PROVE \E i \in 1 .. NumFrames : v[i] = f
  <2>1. PICK j \in 1 .. NumFrames : w[j] = f
    BY DEF InLine
  <2>2. CASE j < k
    BY <1>0, <2>1, <2>2 DEF Moved
  <2>3. CASE j = k
    <3>1. NumFrames \in 1 .. NumFrames /\ ~ (NumFrames < k)
      BY <1>0
    <3> QED
      BY <1>0, <2>1, <2>3, <3>1 DEF Moved
  <2>4. CASE j > k
    <3>1. /\ j - 1 \in 1 .. NumFrames /\ ~ (j - 1 < k) /\ j - 1 < NumFrames
          /\ (j - 1) + 1 = j
      BY <1>0, <2>4
    <3>2. v[j - 1] = w[(j - 1) + 1]
      BY <3>1 DEF Moved
    <3> QED
      BY <2>1, <3>1, <3>2
  <2> QED
    BY <1>0, <2>2, <2>3, <2>4
<1>3. ASSUME NEW i \in 1 .. NumFrames, NEW j \in 1 .. NumFrames, v[i] = v[j]
      PROVE  i = j
  <2> DEFINE At(n) == IF n < k THEN n ELSE IF n < NumFrames THEN n + 1 ELSE k
  <2>1. \A n \in 1 .. NumFrames : v[n] = w[At(n)] /\ At(n) \in 1 .. NumFrames
    BY <1>0 DEF Moved
  <2>2. At(i) = At(j)
    <3> HIDE DEF At, v
    <3> QED
      BY <1>3, <2>1 DEF InLine
  <2> QED
    BY <1>0, <2>2
<1> QED
  BY <1>1, <1>2, <1>3 DEF InLine

\* The frame of the element that is moved is in use afterwards, the others
\* are as they were.
UsesOnly(index) ==
  /\ frame_table'[index] # EMPTY
  /\ \A f \in Frames \ {index} : frame_table'[f] = frame_table[f]

LEMMA MovedFreeFirst ==
  ASSUME NEW w, InLine(w), FreeFirst(w), NEW k \in 1 .. NumFrames, UsesOnly(w[k])
  PROVE  FreeFirst(Moved(w, k))'
<1> DEFINE v == Moved(w, k)
           At(n) == IF n < k THEN n ELSE n + 1
<1>0. NumFrames \in Nat \ {0}
  BY VMMAssumption
<1>1. v[NumFrames] = w[k]
  BY <1>0 DEF Moved
<1>2. \A n \in 1 .. NumFrames - 1 :
        v[n] = w[At(n)] /\ At(n) \in 1 .. NumFrames /\ At(n) # k
  BY <1>0 DEF Moved
<1>3. \A n \in 1 .. NumFrames - 1 : w[At(n)] \in Frames /\ w[At(n)] # w[k]
  BY <1>2 DEF InLine
<1> SUFFICES ASSUME NEW i \in 1 .. NumFrames, NEW j \in 1 .. NumFrames, i < j,
                    frame_table'[v[j]] = EMPTY
             PROVE  frame_table'[v[i]] = EMPTY /\ v[i] < v[j]
  BY DEF FreeFirst
<1>4. j # NumFrames
  BY <1>1 DEF UsesOnly
<1>5. i \in 1 .. NumFrames - 1 /\ j \in 1 .. NumFrames - 1
  BY <1>0, <1>4
<1>6. frame_table[w[At(j)]] = EMPTY
  BY <1>2, <1>3, <1>5 DEF UsesOnly
<1>7. At(i) < At(j)
  BY <1>0, <1>5
<1>8. frame_table[w[At(i)]] = EMPTY /\ w[At(i)] < w[At(j)]
  <2> HIDE DEF At
  <2> QED
    BY <1>2, <1>5, <1>6, <1>7 DEF FreeFirst
<1> HIDE DEF At, v
<1> QED
  BY <1>2, <1>3, <1>5, <1>8 DEF UsesOnly

\* What the pointers are after the k-th of several elements went to the end.
Relinked(w, k) ==
  LET before == IF k = 1 THEN LRU!NULL ELSE w[k - 1]
  IN /\ next' \in [Frames -> Frames \cup {LRU!NULL}]
     /\ prev' \in [Frames -> Frames \cup {LRU!NULL, LRU!UNSET}]
     /\ sorted_list' = IF k = 1 THEN w[2] ELSE w[1]
     /\ tail' = w[k]
     /\ next'[w[k]] = LRU!NULL /\ next'[w[NumFrames]] = w[k]
     /\ k # 1 => next'[before] = w[k + 1]
     /\ \A f \in Frames \ {w[k], w[NumFrames], before} : next'[f] = next[f]
     /\ prev'[w[k]] = w[NumFrames] /\ prev'[w[k + 1]] = before
     /\ \A f \in Frames \ {w[k], w[k + 1]} : prev'[f] = prev[f]

LEMMA MovedLinked ==
  ASSUME NEW w, InLine(w), Linked(w), NEW k \in 1 .. NumFrames - 1,
         UsesOnly(w[k]), Relinked(w, k)
  PROVE  Linked(Moved(w, k))'
<1> DEFINE v == Moved(w, k)
           N == NumFrames
           before == IF k = 1 THEN LRU!NULL ELSE w[k - 1]
<1>0. NumFrames \in Nat \ {0} /\ N > 1
  BY VMMAssumption
<1>1. /\ v[N] = w[k]
      /\ \A n \in 1 .. N - 1 : v[n] = IF n < k THEN w[n] ELSE w[n + 1]
  BY <1>0 DEF Moved
<1>2. /\ \A n \in 1 .. N : w[n] \in Frames
      /\ \A i, j \in 1 .. N : w[i] = w[j] => i = j
  BY DEF InLine
<1>3. sorted_list' = v[1] /\ tail' = v[N]
  <2>1. 1 \in 1 .. N - 1 /\ 1 + 1 = 2
    BY <1>0
  <2>2. v[1] = IF 1 < k THEN w[1] ELSE w[2]
    BY <1>1, <2>1
  <2> QED
    BY <1>0, <1>1, <2>2 DEF Relinked
<1>4. next'[v[N]] = LRU!NULL
  BY <1>1 DEF Relinked
<1>5. ASSUME NEW i \in 1 .. N - 1
      PROVE  next'[v[i]] = v[i + 1]
  <2>1. CASE i = N - 1
    <3>1. v[i] = w[N] /\ v[i + 1] = w[k]
      BY <1>0, <1>1, <2>1
    <3> QED
      BY <3>1 DEF Relinked
  <2>2. CASE i = k - 1 /\ i # N - 1
    <3>1. v[i] = before /\ k # 1 /\ v[i + 1] = w[k + 1]
      <4>1. i + 1 = k /\ i + 1 \in 1 .. N - 1 /\ i < k /\ k # 1
        BY <1>0, <2>2
      <4> QED
        BY <1>1, <2>2, <4>1
    <3> QED
      BY <3>1 DEF Relinked
  <2>3. CASE i < k - 1
    <3>1. v[i] = w[i] /\ v[i + 1] = w[i + 1]
      BY <1>0, <1>1, <2>3
    <3>2. w[i] \in Frames \ {w[k], w[N], before}
      <4>1. i \in 1 .. N /\ i # k /\ i # N /\ i # k - 1 /\ k \in 1 .. N /\ N \in 1 .. N
            /\ (k # 1 => k - 1 \in 1 .. N)
        BY <1>0, <2>3
      <4> QED
        BY <1>2, <4>1, NullIsNoFrame
    <3> QED
      BY <1>0, <2>3, <3>1, <3>2 DEF Relinked, Linked
  <2>4. CASE i >= k /\ i # N - 1
    <3>1. v[i] = w[i + 1] /\ v[i + 1] = w[(i + 1) + 1]
      BY <1>0, <1>1, <2>4
    <3>2. i + 1 \in 1 .. N /\ i + 1 # k /\ i + 1 # N /\ i + 1 # k - 1 /\ k \in 1 .. N
          /\ N \in 1 .. N /\ (k # 1 => k - 1 \in 1 .. N) /\ i + 1 \in 1 .. N - 1
      BY <1>0, <2>4
    <3>3. w[i + 1] \in Frames \ {w[k], w[N], before}
      BY <1>2, <3>2, NullIsNoFrame
    <3> QED
      BY <3>1, <3>2, <3>3 DEF Relinked, Linked
  <2> QED
    BY <1>0, <2>1, <2>2, <2>3, <2>4
<1>6. prev'[v[1]] = LRU!NULL
  <2>1. CASE k = 1
    <3>1. v[1] = w[k + 1]
      BY <1>0, <1>1, <2>1
    <3> QED
      BY <2>1, <3>1 DEF Relinked
  <2>2. CASE k # 1
    <3>1. v[1] = w[1]
      BY <1>0, <1>1, <2>2
    <3>2. w[1] \in Frames \ {w[k], w[k + 1]}
      <4>1. 1 \in 1 .. N /\ k \in 1 .. N /\ k + 1 \in 1 .. N /\ k + 1 # 1
        BY <1>0
      <4> QED
        BY <1>2, <2>2, <4>1
    <3> QED
      BY <3>1, <3>2 DEF Relinked, Linked
  <2> QED
    BY <2>1, <2>2
<1>7. ASSUME NEW i \in 1 .. N - 1
      PROVE  \/ prev'[v[i + 1]] = v[i]
             \/ /\ prev'[v[i + 1]] = LRU!UNSET
                /\ v[i + 1] = N - 1 /\ frame_table'[v[i + 1]] = EMPTY
  <2>1. CASE i = N - 1
    <3>1. v[i] = w[N] /\ v[i + 1] = w[k]
      BY <1>0, <1>1, <2>1
    <3> QED
      BY <3>1 DEF Relinked
  <2>2. CASE i = k - 1 /\ i # N - 1
    <3>1. v[i] = before /\ v[i + 1] = w[k + 1]
      <4>1. i + 1 = k /\ i + 1 \in 1 .. N - 1 /\ i < k /\ k # 1
        BY <1>0, <2>2
      <4> QED
        BY <1>1, <2>2, <4>1
    <3> QED
      BY <3>1 DEF Relinked
  <2> DEFINE n == IF i < k - 1 THEN i ELSE i + 1
  <2>3. CASE i # k - 1 /\ i # N - 1
    <3>1. n \in 1 .. N - 1 /\ n + 1 # k /\ n # k /\ n + 1 \in 1 .. N /\ k \in 1 .. N
          /\ k + 1 \in 1 .. N /\ n + 1 # k + 1
      BY <1>0, <2>3
    <3>2. v[i] = w[n] /\ v[i + 1] = w[n + 1]
      BY <1>0, <1>1, <2>3
    <3> HIDE DEF n, v
    <3>3. w[n + 1] \in Frames \ {w[k], w[k + 1]}
      BY <1>2, <3>1
    <3>4. prev'[w[n + 1]] = prev[w[n + 1]] /\ frame_table'[w[n + 1]] = frame_table[w[n + 1]]
      BY <3>3 DEF Relinked, UsesOnly
    <3> QED
      BY <3>1, <3>2, <3>4 DEF Linked
  <2> QED
    BY <2>1, <2>2, <2>3
<1>8. /\ next' \in [Frames -> Frames \cup {LRU!NULL}]
      /\ prev' \in [Frames -> Frames \cup {LRU!NULL, LRU!UNSET}]
  BY DEF Relinked
<1> HIDE DEF v
<1>9. Linked(v)'
  BY <1>3, <1>4, <1>5, <1>6, <1>7, <1>8 DEF Linked
<1> QED
  BY <1>9 DEF v

LEMMA LineIsLong ==
  ASSUME NEW w, InLine(w), NEW k \in 1 .. NumFrames - 1
  PROVE  /\ NumFrames \in Nat /\ NumFrames > 1
         /\ w[1] \in Frames /\ w[k] \in Frames /\ w[k + 1] \in Frames
         /\ w[NumFrames] \in Frames
         /\ w[k] # w[k + 1] /\ w[k] # w[NumFrames]
         /\ k # 1 => /\ w[k - 1] \in Frames /\ w[k - 1] # w[k]
                     /\ w[k - 1] # w[k + 1] /\ w[k - 1] # w[NumFrames]
                     /\ w[1] # w[k] /\ w[1] # w[k + 1]
<1>1. NumFrames \in Nat /\ NumFrames > 1
  BY VMMAssumption
<1>2. /\ 1 \in 1 .. NumFrames /\ k \in 1 .. NumFrames /\ k + 1 \in 1 .. NumFrames
      /\ NumFrames \in 1 .. NumFrames
      /\ k # 1 => k - 1 \in 1 .. NumFrames /\ k - 1 # k /\ k - 1 # k + 1
                  /\ k - 1 # NumFrames /\ 1 # k + 1
      /\ k # k + 1 /\ k # NumFrames
  BY <1>1
<1> QED
  BY <1>1, <1>2 DEF InLine

LEMMA GetFrameIndexMoves ==
  ASSUME NEW w, InLine(w), Linked(w), NumFrames # 1, LRU!GetFrameIndex
  PROVE  Relinked(w, 1)
<1>0. 1 \in 1 .. NumFrames - 1 /\ 1 + 1 = 2
  BY VMMAssumption
<1>1. /\ w[1] \in Frames /\ w[2] \in Frames /\ w[NumFrames] \in Frames
      /\ w[1] # w[2] /\ w[1] # w[NumFrames]
  BY <1>0, LineIsLong
<1>2. sorted_list = w[1] /\ next[w[1]] = w[2] /\ tail = w[NumFrames]
      /\ w[2] # LRU!NULL
  BY <1>0, <1>1, NullIsNoFrame DEF Linked
<1> DEFINE prev1 == [prev EXCEPT ![w[2]] = LRU!NULL]
<1>3. /\ next \in [Frames -> Frames \cup {LRU!NULL}]
      /\ prev \in [Frames -> Frames \cup {LRU!NULL, LRU!UNSET}]
  BY DEF Linked
<1>4. sorted_list' = w[2] /\ LRU!MoveToTail(w[1], next, prev1)
  BY <1>1, <1>2 DEF LRU!GetFrameIndex
<1>5. /\ prev' = [prev1 EXCEPT ![w[1]] = w[NumFrames]]
      /\ next' = [next EXCEPT ![w[NumFrames]] = w[1], ![w[1]] = LRU!NULL]
      /\ tail' = w[1]
  BY <1>2, <1>4 DEF LRU!MoveToTail
<1> QED
  BY <1>0, <1>1, <1>3, <1>4, <1>5 DEF Relinked

LEMMA GetFrameIndexStays ==
  ASSUME NEW w, Linked(w), NumFrames = 1, LRU!GetFrameIndex
  PROVE  UNCHANGED list
  BY DEF Linked, LRU!GetFrameIndex, list

LEMMA UpdateMoves ==
  ASSUME NEW w, InLine(w), Linked(w), NEW k \in 1 .. NumFrames - 1,
         prev[w[k]] # LRU!UNSET, LRU!Update(w[k])
  PROVE  Relinked(w, k)
<1>0. NumFrames \in Nat /\ NumFrames > 1 /\ 1 + 1 = 2
  BY LineIsLong
<1>1. /\ w[1] \in Frames /\ w[k] \in Frames /\ w[k + 1] \in Frames
      /\ w[NumFrames] \in Frames
      /\ w[k] # w[k + 1] /\ w[k] # w[NumFrames]
      /\ k # 1 => /\ w[k - 1] \in Frames /\ w[k - 1] # w[k]
                  /\ w[k - 1] # w[k + 1] /\ w[k - 1] # w[NumFrames]
                  /\ w[1] # w[k]
  BY LineIsLong
<1>2. sorted_list = w[1] /\ tail = w[NumFrames] /\ next[w[k]] = w[k + 1]
  BY DEF Linked
<1>3. /\ next \in [Frames -> Frames \cup {LRU!NULL}]
      /\ prev \in [Frames -> Frames \cup {LRU!NULL, LRU!UNSET}]
  BY DEF Linked
<1>4. CASE k = 1
  <2> DEFINE prev1 == [prev EXCEPT ![w[k + 1]] = LRU!NULL]
  <2>1. prev[w[k]] = LRU!NULL
    BY <1>4 DEF Linked
  <2>2. /\ sorted_list' = w[k + 1]
        /\ LRU!MoveToTail(w[k], LRU!UnlinkNext(w[k], prev1), LRU!UnlinkPrev(w[k], prev1))
    BY <1>1, <1>2, <1>4 DEF LRU!Update
  <2>3. prev1[w[k]] = LRU!NULL
    BY <1>1, <1>3, <2>1
  <2>4. LRU!UnlinkNext(w[k], prev1) = next
    BY <2>3 DEF LRU!UnlinkNext
  <2>5. LRU!UnlinkPrev(w[k], prev1) = prev1
    BY <1>2, <1>3, <2>3 DEF LRU!UnlinkPrev
  <2>6. /\ prev' = [prev1 EXCEPT ![w[k]] = w[NumFrames]]
        /\ next' = [next EXCEPT ![w[NumFrames]] = w[k], ![w[k]] = LRU!NULL]
        /\ tail' = w[k]
    BY <1>2, <2>2, <2>4, <2>5 DEF LRU!MoveToTail
  <2> QED
    BY <1>0, <1>1, <1>3, <1>4, <2>2, <2>6 DEF Relinked
<1>5. CASE k # 1
  <2> DEFINE next1 == [next EXCEPT ![w[k - 1]] = w[k + 1]]
             prev1 == [prev EXCEPT ![w[k + 1]] = w[k - 1]]
  <2>1. prev[w[k]] = w[k - 1]
    <3>1. k - 1 \in 1 .. NumFrames - 1 /\ (k - 1) + 1 = k
      BY <1>0, <1>5
    <3> QED
      BY <3>1 DEF Linked
  <2>2. /\ sorted_list' = w[1]
        /\ LRU!MoveToTail(w[k], LRU!UnlinkNext(w[k], prev), LRU!UnlinkPrev(w[k], prev))
    BY <1>1, <1>2, <1>5 DEF LRU!Update
  <2>3. LRU!UnlinkNext(w[k], prev) = next1
    BY <1>1, <1>2, <1>5, <2>1, NullIsNoFrame DEF LRU!UnlinkNext
  <2>4. LRU!UnlinkPrev(w[k], prev) = prev1
    BY <1>2, <2>1 DEF LRU!UnlinkPrev
  <2>5. /\ prev' = [prev1 EXCEPT ![w[k]] = w[NumFrames]]
        /\ next' = [next1 EXCEPT ![w[NumFrames]] = w[k], ![w[k]] = LRU!NULL]
        /\ tail' = w[k]
    BY <1>2, <2>2, <2>3, <2>4 DEF LRU!MoveToTail
  <2> QED
    BY <1>0, <1>1, <1>3, <1>5, <2>2, <2>5 DEF Relinked
<1> QED
  BY <1>4, <1>5

LEMMA UpdateStays ==
  ASSUME NEW w, InLine(w), Linked(w), NumFrames # 1, LRU!Update(w[NumFrames])
  PROVE  UNCHANGED list
<1>1. w[NumFrames] # w[1]
  BY VMMAssumption DEF InLine
<1> QED
  BY <1>1 DEF Linked, LRU!Update, list

\* The last element stays where it is.
LEMMA LastStays ==
  ASSUME NEW w, InLine(w), Linked(w), UNCHANGED list, UsesOnly(w[NumFrames]),
         NumFrames # 1 => prev[w[NumFrames]] # LRU!UNSET
  PROVE  Linked(w)' /\ Moved(w, NumFrames) = w
<1>0. NumFrames \in Nat \ {0}
  BY VMMAssumption
<1>1. Moved(w, NumFrames) = w
  <2>1. \A i \in 1 .. NumFrames : Moved(w, NumFrames)[i] = w[i]
    BY <1>0 DEF Moved
  <2> QED
    BY <2>1 DEF InLine, Moved
<1>2. \A i \in 1 .. NumFrames - 1 :
        \/ prev[w[i + 1]] = w[i]
        \/ /\ prev[w[i + 1]] = LRU!UNSET
           /\ w[i + 1] = NumFrames - 1
           /\ frame_table[w[i + 1]] = EMPTY
           /\ frame_table'[w[i + 1]] = EMPTY
  <2> SUFFICES ASSUME NEW i \in 1 .. NumFrames - 1, prev[w[i + 1]] # w[i]
               PROVE  /\ prev[w[i + 1]] = LRU!UNSET
                      /\ w[i + 1] = NumFrames - 1
                      /\ frame_table[w[i + 1]] = EMPTY
                      /\ frame_table'[w[i + 1]] = EMPTY
    OBVIOUS
  <2>1. /\ prev[w[i + 1]] = LRU!UNSET
        /\ w[i + 1] = NumFrames - 1
        /\ frame_table[w[i + 1]] = EMPTY
    BY DEF Linked
  <2>2. w[i + 1] \in Frames /\ NumFrames # 1
    BY <1>0 DEF InLine
  <2>3. w[i + 1] # w[NumFrames]
    BY <2>1, <2>2
  <2> QED
    BY <2>1, <2>2, <2>3 DEF UsesOnly
<1>3. \A i \in 1 .. NumFrames - 1 :
        \/ prev'[w[i + 1]] = w[i]
        \/ /\ prev'[w[i + 1]] = LRU!UNSET
           /\ w[i + 1] = NumFrames - 1 /\ frame_table'[w[i + 1]] = EMPTY
  BY <1>2 DEF list
<1>4. next' = next /\ prev' = prev /\ sorted_list' = sorted_list /\ tail' = tail
  BY DEF list
<1>5. Linked(w)'
  BY <1>3, <1>4 DEF Linked
<1> QED
  BY <1>1, <1>5

Line(w) == InLine(w) /\ Linked(w) /\ FreeFirst(w)

LEMMA LineStart ==
  ASSUME LRU!LRUInit, Init
  PROVE  ListInv
<1> DEFINE w == [i \in 1 .. NumFrames |-> i - 1]
<1>0. NumFrames \in Nat \ {0}
  BY VMMAssumption
<1>1. InLine(w)
  <2>1. w \in [1 .. NumFrames -> Frames]
    BY <1>0 DEF Frames
  <2>2. \A f \in Frames : f + 1 \in 1 .. NumFrames /\ w[f + 1] = f
    BY <1>0 DEF Frames
  <2>3. \A i, j \in 1 .. NumFrames : w[i] = w[j] => i = j
    BY <1>0
  <2> QED
    BY <2>1, <2>2, <2>3 DEF InLine
<1>2. /\ next = [f \in Frames |-> IF f = NumFrames - 1 THEN LRU!NULL ELSE f + 1]
      /\ prev = [f \in Frames |-> IF f = 0 THEN LRU!NULL
                                  ELSE IF f < NumFrames - 1 THEN f - 1 ELSE LRU!UNSET]
      /\ sorted_list = 0 /\ tail = NumFrames - 1
  BY DEF LRU!LRUInit, LRU!NewPrev, LRU!Frames, Frames
<1>3. \A f \in Frames : frame_table[f] = EMPTY
  BY DEF Init
<1>4. /\ next \in [Frames -> Frames \cup {LRU!NULL}]
      /\ prev \in [Frames -> Frames \cup {LRU!NULL, LRU!UNSET}]
  BY <1>0, <1>2 DEF Frames
<1>5. \A i \in 1 .. NumFrames - 1 :
        /\ w[i] \in Frames /\ w[i + 1] \in Frames /\ w[i + 1] = w[i] + 1
        /\ w[i] # NumFrames - 1 /\ w[i + 1] # 0
  BY <1>0 DEF Frames
<1>6. \A i \in 1 .. NumFrames - 1 : next[w[i]] = w[i + 1]
  BY <1>2, <1>5
<1>7. \A i \in 1 .. NumFrames - 1 :
        \/ prev[w[i + 1]] = w[i]
        \/ /\ prev[w[i + 1]] = LRU!UNSET
           /\ w[i + 1] = NumFrames - 1 /\ frame_table[w[i + 1]] = EMPTY
  BY <1>0, <1>2, <1>3, <1>5 DEF Frames
<1>8. /\ w[1] = 0 /\ w[NumFrames] = NumFrames - 1 /\ next[w[NumFrames]] = LRU!NULL
      /\ prev[w[1]] = LRU!NULL
  BY <1>0, <1>2 DEF Frames
<1>9. FreeFirst(w)
  BY <1>0, <1>1, <1>3 DEF FreeFirst, InLine
<1> HIDE DEF w
<1>10. Linked(w)
  BY <1>2, <1>4, <1>6, <1>7, <1>8 DEF Linked
<1> QED
  BY <1>1, <1>9, <1>10 DEF ListInv

LEMMA LineFront ==
  ASSUME NEW w, Line(w)
  PROVE  w[1] \in Frames /\ Lowest(w[1], FreeFrames)
<1>0. NumFrames \in Nat \ {0} /\ 1 \in 1 .. NumFrames
  BY VMMAssumption
<1>1. w[1] \in Frames
  BY <1>0 DEF Line, InLine
<1>2. ASSUME NEW f \in FreeFrames PROVE w[1] \in FreeFrames /\ w[1] <= f
  <2>1. PICK j \in 1 .. NumFrames : w[j] = f
    BY DEF Line, InLine, FreeFrames
  <2>2. CASE j = 1
    BY <1>0, <2>1, <2>2 DEF FreeFrames, Frames
  <2>3. CASE j # 1
    <3>1. 1 < j
      BY <1>0, <2>3
    <3>2. frame_table[w[1]] = EMPTY /\ w[1] < w[j]
      BY <1>0, <2>1, <3>1 DEF Line, FreeFirst, FreeFrames
    <3> QED
      BY <1>0, <1>1, <2>1, <3>2 DEF FreeFrames, Frames
  <2> QED
    BY <2>2, <2>3
<1> QED
  BY <1>1, <1>2 DEF Lowest

\* A fault takes the front element and moves it to the end.
LEMMA LRUFaultMoves ==
  ASSUME IInv, NEW w, Line(w), NEW op \in Operations, NEW p \in Pages,
         LRU!LRUFault(op, p)
  PROVE  /\ ServiceFault(op, p, w[1], {})
         /\ Line(Moved(w, 1))'
         /\ Next /\ IInv'
<1>0. NumFrames \in Nat \ {0} /\ 1 \in 1 .. NumFrames
  BY VMMAssumption
<1>1. w[1] \in Frames /\ Lowest(w[1], FreeFrames) /\ sorted_list = w[1]
  BY LineFront DEF Line, Linked
<1>2. ServiceFault(op, p, w[1], {}) /\ LRU!GetFrameIndex
  BY <1>1, LRUEngine DEF LRU!LRUFault
<1>3. SelectFrame(w[1], {})
  BY <1>1, LowestMayBeTaken, AnyMayBeTaken
<1>4. Next /\ IInv'
  BY <1>1, <1>2, <1>3, AllowedFault
<1>5. UsesOnly(w[1])
  <2>1. /\ frame_table'[w[1]] = p
        /\ \A f \in Frames \ {w[1]} : frame_table'[f] = frame_table[f]
    <3> DEFINE front == w[1]
    <3>1. front \in Frames /\ ServiceFault(op, p, front, {})
      BY <1>1, <1>2
    <3> HIDE DEF front
    <3>2. /\ frame_table'[front] = p
          /\ \A f \in Frames \ {front} : frame_table'[f] = frame_table[f]
      BY <3>1, FaultUsesFrame
    <3> QED
      BY <3>2 DEF front
  <2> QED
    BY <2>1, EmptyIsNoPage DEF UsesOnly
<1>6. InLine(w) /\ Linked(w) /\ FreeFirst(w)
  BY DEF Line
<1>7. Linked(Moved(w, 1))'
  <2>1. CASE NumFrames = 1
    <3>1. UNCHANGED list /\ UsesOnly(w[NumFrames])
      BY <1>2, <1>5, <1>6, <2>1, GetFrameIndexStays
    <3>2. Linked(w)' /\ Moved(w, NumFrames) = w
      BY <1>6, <2>1, <3>1, LastStays
    <3> QED
      BY <2>1, <3>2
  <2>2. CASE NumFrames # 1
    <3>1. Relinked(w, 1) /\ 1 \in 1 .. NumFrames - 1
      BY <1>0, <1>2, <1>6, <2>2, GetFrameIndexMoves
    <3> QED
      BY <1>5, <1>6, <3>1, MovedLinked
  <2> QED
    BY <2>1, <2>2
<1>8. InLine(Moved(w, 1)) /\ FreeFirst(Moved(w, 1))'
  BY <1>0, <1>5, <1>6, MovedInLine, MovedFreeFirst
<1>9. InLine(Moved(w, 1))'
  BY <1>8 DEF InLine
<1> QED
  BY <1>2, <1>4, <1>7, <1>8, <1>9 DEF Line

\* With two frames or more a hit follows no bad pointer, and moves its
\* element to the end.
LEMMA LRUHitMoves ==
  ASSUME IInv, NEW w, Line(w), NEW op \in Operations, NEW p \in Pages,
         LRU!LRUHit(op, p), NumFrames # 1
  PROVE  /\ Hit(op, p)
         /\ \E k \in 1 .. NumFrames :
              w[k] = page_table[p].frame_number /\ Line(Moved(w, k))'
<1> DEFINE tmp == page_table[p].frame_number
<1>0. NumFrames \in Nat \ {0, 1}
  BY VMMAssumption
<1>1. page_table[p].present /\ tmp \in Frames /\ frame_table[tmp] = p
  BY DEF LRU!LRUHit, IInv, TypeOK, PTE, TablesInv, TablesAgree
<1>2. InLine(w) /\ Linked(w) /\ FreeFirst(w)
  BY DEF Line
<1>3. PICK k \in 1 .. NumFrames : w[k] = tmp
  BY <1>1, <1>2 DEF InLine
<1>4. next[w[1]] # LRU!NULL /\ sorted_list = w[1]
  <2>1. 1 \in 1 .. NumFrames - 1 /\ 1 + 1 \in 1 .. NumFrames
    BY <1>0
  <2>2. next[w[1]] = w[1 + 1] /\ w[1 + 1] \in Frames
    BY <1>2, <2>1 DEF Linked, InLine
  <2> QED
    BY <1>2, <2>2, NullIsNoFrame DEF Linked
<1>5. prev[tmp] # LRU!UNSET
  <2>1. CASE k = 1
    BY <1>2, <1>3, <2>1, NullIsNoFrame DEF Linked
  <2>2. CASE k # 1
    <3>1. k - 1 \in 1 .. NumFrames - 1 /\ (k - 1) + 1 = k /\ k - 1 \in 1 .. NumFrames
      BY <1>0, <2>2
    <3>2. frame_table[w[k]] # EMPTY
      BY <1>1, <1>3, EmptyIsNoPage
    <3>3. prev[w[k]] = w[k - 1]
      BY <1>2, <3>1, <3>2 DEF Linked
    <3> QED
      BY <1>2, <1>3, <3>1, <3>3, NullIsNoFrame DEF InLine
  <2> QED
    BY <2>1, <2>2
<1>6. ~LRU!BadPointer(tmp)
  BY <1>4, <1>5 DEF LRU!BadPointer
<1>7. Hit(op, p) /\ LRU!Update(tmp)
  BY <1>6, LRUEngine DEF LRU!LRUHit
<1>8. UsesOnly(w[k])
  BY <1>1, <1>3, <1>7, EmptyIsNoPage DEF UsesOnly, Hit
<1>9. Linked(Moved(w, k))'
  <2>1. CASE k = NumFrames
    <3>1. UNCHANGED list
      BY <1>0, <1>2, <1>3, <1>7, <2>1, UpdateStays
    <3>2. prev[w[NumFrames]] # LRU!UNSET /\ UsesOnly(w[NumFrames])
      BY <1>3, <1>5, <1>8, <2>1
    <3>3. Linked(w)' /\ Moved(w, NumFrames) = w
      BY <1>2, <3>1, <3>2, LastStays
    <3> QED
      BY <2>1, <3>3
  <2>2. CASE k # NumFrames
    <3>1. k \in 1 .. NumFrames - 1
      BY <1>0, <2>2
    <3>2. Relinked(w, k)
      BY <1>2, <1>3, <1>5, <1>7, <3>1, UpdateMoves
    <3> QED
      BY <1>2, <1>8, <3>1, <3>2, MovedLinked
  <2> QED
    BY <2>1, <2>2
<1>10. InLine(Moved(w, k)) /\ FreeFirst(Moved(w, k))'
  BY <1>2, <1>8, MovedInLine, MovedFreeFirst
<1>11. InLine(Moved(w, k))'
  BY <1>10 DEF InLine
<1>12. Line(Moved(w, k))'
  BY <1>9, <1>10, <1>11 DEF Line
<1> QED
  BY <1>3, <1>7, <1>12

LEMMA LRUStep ==
  ASSUME IInv, ListInv, LRU!LRUNext
  PROVE  \/ Next /\ IInv' /\ ListInv'
         \/ NumFrames = 1 /\ status' = "crashed"
<1>1. PICK w : Line(w)
  BY DEF ListInv, Line
<1>2. ASSUME NEW op \in Operations, NEW p \in Pages, LRU!LRUFault(op, p)
      PROVE  Next /\ IInv' /\ ListInv'
  <2>1. Next /\ IInv' /\ Line(Moved(w, 1))'
    BY <1>1, <1>2, LRUFaultMoves
  <2>2. \E v : Line(v)'
    BY <2>1
  <2> QED
    BY <2>1, <2>2 DEF ListInv, Line
<1>3. ASSUME NEW op \in Operations, NEW p \in Pages, LRU!LRUHit(op, p),
             NumFrames # 1
      PROVE  Next /\ IInv' /\ ListInv'
  <2>1. PICK k \in 1 .. NumFrames : Hit(op, p) /\ Line(Moved(w, k))'
    BY <1>1, <1>3, LRUHitMoves
  <2>2. \E v : Line(v)'
    BY <2>1
  <2>3. Next /\ IInv'
    BY <2>1, QuietStep DEF Quiet
  <2> QED
    BY <2>2, <2>3 DEF ListInv, Line
<1>4. ASSUME Quiet, UNCHANGED list
      PROVE  Next /\ IInv' /\ ListInv'
  <2>1. /\ frame_table' = frame_table /\ next' = next /\ prev' = prev
        /\ sorted_list' = sorted_list /\ tail' = tail
    BY <1>4, QuietStep DEF list
  <2>2. ListInv'
    BY <2>1 DEF ListInv, InLine, Linked, FreeFirst
  <2> QED
    BY <1>4, <2>2, QuietStep
<1>5. ASSUME NEW op \in Operations, NEW p \in Pages, LRU!LRUHit(op, p),
             NumFrames = 1
      PROVE  status' = "crashed"
  <2>1. page_table[p].present /\ page_table[p].frame_number \in Frames
    BY <1>5 DEF LRU!LRUHit, IInv, TypeOK, PTE
  <2>2. page_table[p].frame_number = w[1] /\ w[1] = sorted_list
        /\ next[w[1]] = LRU!NULL
    BY <1>1, <1>5, <2>1 DEF Frames, Line, InLine, Linked
  <2> QED
    BY <1>5, <2>2 DEF LRU!LRUHit, LRU!BadPointer
<1>6. LRU!LRUStop => Quiet /\ UNCHANGED list
  <2>1. (LRU!EndOfInput \/ LRU!BadInstruction \/ LRU!Exited) =>
          EndOfInput \/ BadInstruction \/ Exited
    BY LRUEngine
  <2> QED
    BY <2>1 DEF LRU!LRUStop, Quiet, LRU!list, list
<1>7. LRU!Operations = Operations /\ LRU!Pages = Pages
  BY LRUEngine
<1> QED
  BY <1>2, <1>3, <1>4, <1>5, <1>6, <1>7 DEF LRU!LRUNext

\* Following next from the head meets the elements in their line.
LEMMA WalkIsLine ==
  ASSUME NEW w, InLine(w), Linked(w), NEW i \in 1 .. NumFrames
  PROVE  LRU!Walk[i] = w[i]
<1>0. NumFrames \in Nat \ {0}
  BY VMMAssumption
<1> DEFINE F(g) == [j \in 1 .. NumFrames |->
                      IF j = 1 THEN sorted_list
                      ELSE IF g[j - 1] = LRU!NULL THEN LRU!NULL ELSE next[g[j - 1]]]
           walk == CHOOSE g : g = F(g)
<1>1. w = F(w)
  <2>1. \A j \in 1 .. NumFrames : w[j] = F(w)[j]
    <3> SUFFICES ASSUME NEW j \in 1 .. NumFrames PROVE w[j] = F(w)[j]
      OBVIOUS
    <3>1. CASE j = 1
      BY <3>1 DEF Linked
    <3>2. CASE j # 1
      <4>1. j - 1 \in 1 .. NumFrames - 1 /\ (j - 1) + 1 = j /\ j - 1 \in 1 .. NumFrames
        BY <1>0, <3>2
      <4>2. w[j - 1] # LRU!NULL /\ next[w[j - 1]] = w[j]
        BY <4>1, NullIsNoFrame DEF InLine, Linked
      <4> QED
        BY <3>2, <4>2
    <3> QED
      BY <3>1, <3>2
  <2> QED
    BY <2>1 DEF InLine
<1>2. walk = F(walk)
  <2>1. \E g : g = F(g)
    BY <1>1
  <2> QED
    BY <2>1
<1>3. LRU!Walk = walk
  BY DEF LRU!Walk
<1> HIDE DEF walk
<1> DEFINE Bad == {j \in 1 .. NumFrames : walk[j] # w[j]}
<1>4. Bad = {}
  <2> SUFFICES ASSUME Bad # {} PROVE FALSE
    OBVIOUS
  <2>1. Bad \in SUBSET Nat
    BY <1>0
  <2>2. PICK j \in Bad : \A m \in Bad : j <= m
    BY <2>1, LeastNatural
  <2>3. walk[j] = F(walk)[j] /\ w[j] = F(w)[j]
    BY <1>1, <1>2
  <2>4. CASE j = 1
    BY <2>3, <2>4
  <2>5. CASE j # 1
    <3>1. j - 1 \in 1 .. NumFrames /\ j - 1 < j
      BY <1>0, <2>5
    <3>2. walk[j - 1] = w[j - 1]
      BY <1>0, <2>2, <3>1
    <3> QED
      BY <2>3, <2>5, <3>2
  <2> QED
    BY <2>4, <2>5
<1> QED
  BY <1>3, <1>4

LEMMA LineIsSound ==
  ASSUME ListInv
  PROVE  LRU!ListIsSound
<1>0. NumFrames \in Nat \ {0}
  BY VMMAssumption
<1>1. PICK w : InLine(w) /\ Linked(w)
  BY DEF ListInv
<1>2. \A i \in 1 .. NumFrames : LRU!Walk[i] = w[i]
  BY <1>1, WalkIsLine
<1>3. LRU!Frames = Frames /\ LRU!EMPTY = EMPTY
  BY LRUEngine
<1>4. {LRU!Walk[i] : i \in 1 .. NumFrames} = Frames
  BY <1>1, <1>2 DEF InLine
<1>5. LRU!Walk[NumFrames] = tail /\ next[tail] = LRU!NULL /\ prev[sorted_list] = LRU!NULL
  BY <1>0, <1>1, <1>2 DEF Linked
<1>6. ASSUME NEW f \in Frames, next[f] # LRU!NULL
      PROVE  \/ prev[next[f]] = f
             \/ /\ prev[next[f]] = LRU!UNSET
                /\ next[f] = NumFrames - 1 /\ frame_table[next[f]] = EMPTY
  <2>1. PICK i \in 1 .. NumFrames : w[i] = f
    BY <1>1 DEF InLine
  <2>2. i \in 1 .. NumFrames - 1
    BY <1>0, <1>1, <1>6, <2>1 DEF Linked
  <2> QED
    BY <1>1, <2>1, <2>2 DEF Linked
<1> QED
  BY <1>3, <1>4, <1>5, <1>6 DEF LRU!ListIsSound

-----------------------------------------------------------------------------
(* The program: the invariant of the engine with that of the policy that   *)
(* was constructed.  A run only crashes in the clock over pages, reading   *)
(* beyond the frame table, or in LRU with a single frame.                  *)

PolicyInv == /\ algorithm \in {"f", "s"} => QueueInv
             /\ algorithm = "l" => ListInv
             /\ algorithm \in {"r", "N"} => CountInv
             /\ algorithm = "c" => HandInv
             /\ algorithm = "C" => VHandInv
             /\ algorithm = "a" => PAgeInv
             /\ algorithm = "A" => VAgeInv

Crashed == \/ algorithm = "C" /\ hand \notin Frames /\ FreeFrames = {}
           \/ algorithm = "l" /\ NumFrames = 1

MInv == /\ algorithm \in Algorithms
        /\ IF status = "crashed" THEN Crashed ELSE IInv /\ PolicyInv

LEMMA InitEngine ==
  ASSUME MMUInit
  PROVE  Init
  BY DEF MMUInit, Init, FreeFrames, Frames, Pages, EMPTY, Counters,
         FIFO!FIFOInit, FIFO!Init, FIFO!Frames, FIFO!Pages, FIFO!EMPTY, FIFO!Counters,
         LRU!LRUInit, LRU!Init, LRU!Frames, LRU!Pages, LRU!EMPTY, LRU!Counters,
         Random!RandomInit, Random!Init, Random!Frames, Random!Pages, Random!EMPTY,
         Random!Counters,
         NRU!NRUInit, NRU!Init, NRU!Frames, NRU!Pages, NRU!EMPTY, NRU!Counters,
         SecChance!SecInit, SecChance!Init, SecChance!Frames, SecChance!Pages,
         SecChance!EMPTY, SecChance!Counters,
         PClock!ClockInit, PClock!Init, PClock!Frames, PClock!Pages, PClock!EMPTY,
         PClock!Counters,
         VClock!VClockInit, VClock!Init, VClock!Frames, VClock!Pages, VClock!EMPTY,
         VClock!Counters,
         PAging!PAgingInit, PAging!Init, PAging!Frames, PAging!Pages, PAging!EMPTY,
         PAging!Counters,
         VAging!VAgingInit, VAging!Init, VAging!Frames, VAging!Pages, VAging!EMPTY,
         VAging!Counters

LEMMA InitMInv == MMUInit => MInv
<1> SUFFICES ASSUME MMUInit PROVE MInv
  OBVIOUS
<1>1. Init /\ algorithm \in Algorithms /\ algorithm \in Letters
  BY InitEngine, MMUAssumption DEF MMUInit
<1>2. IInv /\ status # "crashed" /\ FreeFrames = Frames /\ Resident = {}
  BY <1>1, InitInv DEF Init, FreeFrames, Resident
<1>3. 0 \in Frames /\ Lowest(0, FreeFrames)
  BY <1>2, FrameZero, VMMAssumption DEF Lowest, Frames
<1>4. 0 \in Ages
  BY MMUAssumption DEF Ages
<1>5. algorithm \in {"f", "s"} => QueueInv
  <2>1. algorithm \in {"f", "s"} => frames = [i \in 1 .. NumFrames |-> i]
    BY DEF MMUInit, FIFO!FIFOInit, SecChance!SecInit
  <2> QED
    BY <1>1, <2>1, QueueStart DEF QueueInv
<1>6. algorithm = "l" => ListInv
  BY <1>1, LineStart DEF MMUInit
<1>7. algorithm \in {"r", "N", "a", "A"} => CountInv
  BY <1>1, CountStart DEF MMUInit, Random!RandomInit, NRU!NRUInit,
                          PAging!PAgingInit, VAging!VAgingInit
<1>8. algorithm = "c" => HandInv
  BY <1>3 DEF MMUInit, PClock!ClockInit, HandInv
<1>9. algorithm = "C" => VHandInv
  BY <1>3 DEF MMUInit, VClock!VClockInit, VHandInv
<1>10. algorithm = "a" => PAgeInv
  BY <1>4, <1>7 DEF MMUInit, PAging!PAgingInit, PAging!Frames, Frames, PAgeInv
<1>11. algorithm = "A" => VAgeInv
  BY <1>2, <1>3, <1>4, <1>7
     DEF MMUInit, VAging!VAgingInit, VAging!Pages, Pages, VAgeInv
<1> QED
  BY <1>1, <1>2, <1>5, <1>6, <1>7, <1>8, <1>9, <1>10, <1>11 DEF MInv, PolicyInv

\* What a step of the program may be, seen from the engine.
Allowed == /\ Next \/ status' = "crashed" \/ UNCHANGED vars
           /\ algorithm \in RefBitPolicies =>
                RefBitNext \/ status' = "crashed" \/ UNCHANGED vars

LEMMA CrashedStays ==
  ASSUME MInv, status = "crashed", MMUNext
  PROVE  UNCHANGED <<vars, algorithm, hand>>
<1>1. CASE algorithm = "C"
  BY <1>1 DEF MMUNext, VClock!VClockNext, VClock!TakeEmpty, VClock!Sweep, VClock!Hit,
              VClock!TakeBeyond, VClock!EndOfInput, VClock!BadInstruction,
              VClock!Exited, VClock!ServiceFault, VClock!vars, vars
<1>2. CASE algorithm = "l"
  BY <1>2 DEF MMUNext, LRU!LRUNext, LRU!LRUFault, LRU!LRUHit, LRU!LRUStop,
              LRU!EndOfInput, LRU!BadInstruction, LRU!Exited, LRU!ServiceFault,
              LRU!vars, vars
<1> QED
  BY <1>1, <1>2 DEF MInv, Crashed

LEMMA StepMInv == MInv /\ [MMUNext]_mmuvars => MInv' /\ Allowed
<1> SUFFICES ASSUME MInv, [MMUNext]_mmuvars PROVE MInv' /\ Allowed
  OBVIOUS
<1>1. CASE UNCHANGED mmuvars
  <2>1. /\ UNCHANGED vars /\ frame_table' = frame_table /\ page_table' = page_table
        /\ status' = status /\ algorithm' = algorithm /\ frames' = frames
        /\ next' = next /\ prev' = prev /\ sorted_list' = sorted_list
        /\ tail' = tail /\ hand' = hand /\ used_frames' = used_frames
        /\ age_vector' = age_vector
    BY <1>1 DEF mmuvars, list, vars
  <2>2. FreeFrames' = FreeFrames /\ Resident' = Resident
    BY <2>1 DEF FreeFrames, Resident
  <2>3. IInv => IInv'
    BY <2>1, StepInv
  <2>4. (QueueInv <=> QueueInv') /\ (HandInv <=> HandInv') /\ (VHandInv <=> VHandInv')
    BY <2>1, <2>2 DEF QueueInv, HandInv, VHandInv
  <2>5. ListInv => ListInv'
    BY <2>1 DEF ListInv, InLine, Linked, FreeFirst
  <2>6. CountInv <=> CountInv'
    BY <2>1 DEF CountInv
  <2>7. (PAgeInv <=> PAgeInv') /\ (VAgeInv <=> VAgeInv')
    BY <2>1, <2>2, <2>6 DEF PAgeInv, VAgeInv
  <2>8. PolicyInv => PolicyInv'
    BY <2>1, <2>4, <2>5, <2>6, <2>7 DEF PolicyInv
  <2> QED
    BY <2>1, <2>2, <2>3, <2>8 DEF MInv, Crashed, Allowed
<1>2. CASE MMUNext /\ status = "crashed"
  <2>1. UNCHANGED <<vars, algorithm, hand>>
    BY <1>2, CrashedStays
  <2> QED
    BY <1>2, <2>1 DEF MInv, Crashed, Allowed, vars, FreeFrames
<1>3. CASE MMUNext /\ status # "crashed"
  <2>1. IInv /\ PolicyInv /\ algorithm' = algorithm /\ algorithm \in Algorithms
    BY <1>3 DEF MInv, MMUNext
  <2>2. IInv' => status' # "crashed"
    BY DEF IInv, TypeOK
  <2> SUFFICES \/ IInv' /\ PolicyInv' /\ Next
                  /\ (algorithm \in RefBitPolicies => RefBitNext)
               \/ status' = "crashed" /\ Crashed'
    BY <2>1, <2>2 DEF MInv, Allowed
  <2>3. CASE algorithm = "f" /\ FIFO!FIFONext
    BY <2>1, <2>3, FIFOStep DEF PolicyInv, RefBitPolicies
  <2>4. CASE algorithm = "l" /\ LRU!LRUNext
    BY <2>1, <2>4, LRUStep DEF PolicyInv, RefBitPolicies, Crashed
  <2>5. CASE algorithm = "r" /\ Random!RandomNext
    BY <2>1, <2>5, RandomStep DEF PolicyInv, RefBitPolicies
  <2>6. CASE algorithm = "N" /\ NRU!NRUNext
    BY <2>1, <2>6, NRUStep DEF PolicyInv
  <2>7. CASE algorithm = "s" /\ SecChance!SecNext
    BY <2>1, <2>7, SecStep DEF PolicyInv
  <2>8. CASE algorithm = "c" /\ PClock!ClockNext
    BY <2>1, <2>8, PClockStep DEF PolicyInv
  <2>9. CASE algorithm = "C" /\ VClock!VClockNext
    <3>1. VHandInv
      BY <2>1, <2>9 DEF PolicyInv
    <3>2. CASE RefBitNext /\ Next /\ IInv' /\ VHandInv'
      BY <2>1, <2>9, <3>2 DEF PolicyInv
    <3>3. CASE status' = "crashed" /\ hand \notin Frames /\ UNCHANGED <<frame_table, hand>>
      BY <2>1, <2>9, <3>1, <3>3 DEF Crashed, VHandInv, Lowest, FreeFrames
    <3> QED
      BY <2>1, <2>9, <3>1, <3>2, <3>3, VClockStep
  <2>10. CASE algorithm = "a" /\ PAging!PAgingNext
    BY <2>1, <2>10, PAgingStep DEF PolicyInv
  <2>11. CASE algorithm = "A" /\ VAging!VAgingNext
    BY <2>1, <2>11, VAgingStep DEF PolicyInv
  <2> QED
    BY <1>3, <2>3, <2>4, <2>5, <2>6, <2>7, <2>8, <2>9, <2>10, <2>11 DEF MMUNext
<1> QED
  BY <1>1, <1>2, <1>3

THEOREM MInvariance == MMUSpec => []MInv
<1>1. MInv /\ [MMUNext]_mmuvars => MInv'
  BY StepMInv
<1> QED
  BY <1>1, InitMInv, PTL DEF MMUSpec

(* Whatever the policy, the program refines the engine.                    *)
THEOREM PoliciesImplementEngine == MMUSpec => ImplementsEngine
<1>1. MInv /\ [MMUNext]_mmuvars => [Next \/ status' = "crashed"]_vars
  BY StepMInv DEF Allowed
<1>2. MMUInit => Init
  BY InitEngine
<1> QED
  BY <1>1, <1>2, MInvariance, PTL DEF MMUSpec, ImplementsEngine

(* NRU, second chance, the clocks and the agings spare referenced pages.   *)
THEOREM ReferencedAlwaysSpared == MMUSpec => SparesReferencedPages
<1>1. MInv /\ [MMUNext]_mmuvars =>
        [(algorithm \in RefBitPolicies) => [RefBitNext \/ status' = "crashed"]_vars]_mmuvars
  BY StepMInv DEF Allowed
<1> QED
  BY <1>1, MInvariance, PTL DEF MMUSpec, SparesReferencedPages

(* LRU with two frames or more, and the clocks, follow no bad pointer.     *)
THEOREM NeverABadPointer ==
  ASSUME NumFrames # 1 \/ "l" \notin Algorithms
  PROVE  MMUSpec => []NoBadPointer
<1>1. MInv => NoBadPointer
  BY DEF MInv, Crashed, NoBadPointer, PolicyInv, HandInv, VHandInv, Lowest, FreeFrames,
         PClock!HandFindsFree, PClock!FreeFrames, PClock!Frames, PClock!EMPTY,
         VClock!HandFindsFree, VClock!FreeFrames, VClock!Frames, VClock!EMPTY,
         Frames, EMPTY
<1> QED
  BY <1>1, MInvariance, PTL

(* LRU's pointers form one list of all the frames at all times.            *)
THEOREM ListAlwaysSound ==
  ASSUME NumFrames # 1 \/ "l" \notin Algorithms
  PROVE  MMUSpec => []ListStaysSound
<1>1. MInv => ListStaysSound
  BY LineIsSound DEF MInv, Crashed, PolicyInv, ListStaysSound
<1> QED
  BY <1>1, MInvariance, PTL

-----------------------------------------------------------------------------
(* What the policies promise beyond the engine.                            *)

LEMMA NRUEvictsCleanFirst ==
  ASSUME IInv, CountInv, NEW op \in Operations, NEW p \in Pages,
         NRU!Replace(op, p)
  PROVE  NRU!EvictsCleanFirst /\ NRU!LeavesOneBit
<1> DEFINE reset == NRU!ResetBits(replacement_request')
<1>1. PICK victim \in Resident :
             /\ \A q \in Resident : NRU!Class(victim) <= NRU!Class(q)
             /\ page_table[victim].frame_number \in Frames
             /\ frame_table[page_table[victim].frame_number] = victim
             /\ reset \in SUBSET Resident
             /\ ServiceFault(op, p, page_table[victim].frame_number, reset)
  BY NRUReplaces
<1> DEFINE index == page_table[victim].frame_number
<1>2. /\ page_table'[p].referenced /\ ~page_table[p].present
      /\ victim \in Pages /\ VictimGone(victim)
      /\ \A q \in Pages \ {p, victim} : Untouched(q, reset)
  <2>1. index \in Frames /\ ServiceFault(op, p, index, reset)
        /\ frame_table[index] = victim
    BY <1>1
  <2> HIDE DEF index
  <2>2. TypeOK /\ TablesAgree
    BY DEF IInv, TablesInv
  <2>3. victim \in Pages
    BY DEF Resident
  <2> QED
    BY <2>1, <2>2, <2>3, FaultPageTable DEF ServiceFault
<1>3. NRU!Pages = Pages /\ NRU!Resident = Resident
  BY NRUEngine
<1>4. NRU!EvictsCleanFirst
  <2> SUFFICES ASSUME NEW q \in Pages, page_table[q].present,
                      ~page_table'[q].present, page_table[q].modified,
                      NEW r \in Resident,
                      page_table[r].referenced = page_table[q].referenced
               PROVE  page_table[r].modified
    BY <1>3 DEF NRU!EvictsCleanFirst
  <2>1. q = victim
    BY <1>2 DEF Untouched
  <2>2. r \in Pages
    BY DEF Resident
  <2> QED
    BY <1>1, <1>2, <2>1, <2>2, NRUClasses
<1>5. NRU!LeavesOneBit
  <2> DEFINE marked == {q \in NRU!Pages : page_table'[q].referenced}
  <2>1. ASSUME replacement_request' % Interval = 0
        PROVE  marked = {p}
    <3>1. reset = Resident
      BY <1>3, <2>1 DEF NRU!ResetBits
    <3>2. \A q \in Pages \ Resident : ~page_table[q].referenced
      BY DEF IInv, TablesInv, AbsentIsClean, Resident
    <3>3. \A q \in Pages \ {p} : ~page_table'[q].referenced
      BY <1>2, <3>1, <3>2 DEF VictimGone, Untouched
    <3> QED
      BY <1>2, <1>3, <3>3
  <2>2. Cardinality({p}) = 1
    BY FS_Singleton
  <2>3. marked = {p} => Cardinality(marked) = 1
    BY <2>2
  <2>4. NRU!Cardinality(marked) = Cardinality(marked)
    BY DEF NRU!Cardinality, Cardinality
  <2> QED
    BY <2>1, <2>3, <2>4 DEF NRU!LeavesOneBit
<1> QED
  BY <1>4, <1>5

LEMMA NRUKeeps ==
  ASSUME IInv, CountInv, NRU!NRUNext
  PROVE  NRU!EvictsCleanFirst /\ NRU!LeavesOneBit
<1>1. ASSUME NEW op \in Operations, NEW p \in Pages, NRU!TakeNext(op, p)
      PROVE  NRU!EvictsCleanFirst /\ NRU!LeavesOneBit
  <2>1. /\ used_frames < NumFrames /\ UNCHANGED replacement_request
        /\ ServiceFault(op, p, used_frames, {})
    BY <1>1, NRUEngine DEF NRU!TakeNext
  <2>2. used_frames \in Frames /\ used_frames \in FreeFrames
    BY <2>1, CountIsFree DEF Lowest
  <2>3. frame_table[used_frames] \notin Pages
    BY <2>2, EmptyIsNoPage DEF FreeFrames
  <2>4. /\ page_table'[p].present
        /\ \A q \in Pages \ {p} : Untouched(q, {})
    <3>1. /\ page_table'[p].present
          /\ \A q \in Pages \ {p, frame_table[used_frames]} : Untouched(q, {})
      BY <2>1, <2>2, FaultPageTable DEF IInv, TablesInv
    <3> QED
      BY <2>3, <3>1
  <2>5. NRU!EvictsCleanFirst
    BY <2>4, NRUEngine DEF NRU!EvictsCleanFirst, Untouched
  <2> QED
    BY <2>1, <2>5 DEF NRU!LeavesOneBit
<1>2. CASE Quiet /\ UNCHANGED replacement_request
  <2>1. \A q \in Pages : page_table[q].present => page_table'[q].present
    BY <1>2, HitPageTable DEF Quiet, IInv, EndOfInput, BadInstruction, Exited, vars
  <2>2. NRU!Pages = Pages
    BY DEF NRU!Pages, Pages
  <2> QED
    BY <1>2, <2>1, <2>2 DEF NRU!EvictsCleanFirst, NRU!LeavesOneBit
<1> QED
  BY <1>1, <1>2, NRUEvictsCleanFirst, NRUEngine DEF NRU!NRUNext, Quiet

(* NRU prefers clean pages within a class, and the referenced bits it      *)
(* resets leave only the page just mapped marked.                          *)
THEOREM ClassesAlwaysKept == MMUSpec => NRUKeepsClasses
<1>1. MInv /\ [MMUNext]_mmuvars =>
        [algorithm = "N" => NRU!EvictsCleanFirst /\ NRU!LeavesOneBit]_mmuvars
  <2> SUFFICES ASSUME MInv, MMUNext, algorithm = "N"
               PROVE  NRU!EvictsCleanFirst /\ NRU!LeavesOneBit
    OBVIOUS
  <2>1. NRU!NRUNext /\ IInv /\ CountInv
    BY DEF MMUNext, MInv, Crashed, PolicyInv
  <2> QED
    BY <2>1, NRUKeeps
<1> QED
  BY <1>1, MInvariance, PTL DEF MMUSpec, NRUKeepsClasses

LEMMA SecClockEngine ==
  ASSUME NEW op, NEW p, NEW index, NEW cleared
  PROVE  /\ SecChance!Clock!ServiceFault(op, p, index, cleared) <=>
               ServiceFault(op, p, index, cleared)
         /\ SecChance!Clock!Hit(op, p) <=> Hit(op, p)
         /\ (SecChance!Clock!EndOfInput \/ SecChance!Clock!BadInstruction \/ SecChance!Clock!Exited) <=>
               (EndOfInput \/ BadInstruction \/ Exited)
         /\ SecChance!Clock!Pages = Pages /\ SecChance!Clock!Frames = Frames
         /\ SecChance!Clock!Operations = Operations /\ SecChance!Clock!EMPTY = EMPTY
         /\ SecChance!Clock!FreeFrames = FreeFrames /\ SecChance!Clock!Resident = Resident
  BY DEF SecChance!Clock!ServiceFault, ServiceFault,
         SecChance!Clock!ClearReferenced, ClearReferenced,
         SecChance!Clock!Evicted, Evicted, SecChance!Clock!unmap, unmap,
         SecChance!Clock!page_out, page_out, SecChance!Clock!EMPTY, EMPTY,
         SecChance!Clock!Access, Access, SecChance!Clock!map, map,
         SecChance!Clock!Loaded, Loaded, SecChance!Clock!page_in, page_in,
         SecChance!Clock!Touched, Touched, SecChance!Clock!WRITE, WRITE,
         SecChance!Clock!FaultStats, FaultStats, SecChance!Clock!Bump, Bump,
         SecChance!Clock!Pages, Pages, SecChance!Clock!Hit, Hit,
         SecChance!Clock!EndOfInput, EndOfInput,
         SecChance!Clock!BadInstruction, BadInstruction,
         SecChance!Clock!Exited, Exited, SecChance!Clock!vars, vars,
         SecChance!Clock!READ, READ, SecChance!Clock!Operations, Operations,
         SecChance!Clock!Frames, Frames, SecChance!Clock!FreeFrames,
         FreeFrames, SecChance!Clock!Resident, Resident,
         SecChance!Clock!SelectFrame, SelectFrame

\* The frames the clock passes are the turns of the second chance loop.
LEMMA SecTurnsAreSwept ==
  ASSUME NEW h \in Frames, frames = Queue(h), NEW n, n = SecChance!LastTurn
  PROVE  /\ SecChance!Clock!Passed = n - 1 \/ FreeFrames # {}
         /\ \A i \in 0 .. NumFrames : SecChance!Clock!Ahead(i) = Swept(h, i)
         /\ Turned(h, n) = Swept(h, n - 1)
<1>0. NumFrames \in Nat \ {0} /\ h \in 0 .. NumFrames - 1
  BY VMMAssumption DEF Frames
<1>1. Head(frames) - 1 = h
  <2>1. Head(Queue(h)) = h + 1
    BY QueueFront
  <2> QED
    BY ONLY <1>0, <2>1, frames = Queue(h)
<1>2. \A i \in 0 .. NumFrames : SecChance!Clock!Ahead(i) = Swept(h, i)
  BY <1>1, SweptIsFrame DEF SecChance!Clock!Ahead
<1>3. /\ n \in 1 .. NumFrames + 1
      /\ n <= NumFrames => SecChance!Stops(n)
      /\ \A i \in 1 .. n - 1 : ~SecChance!Stops(i)
  BY SecLastTurn
<1>4. Turned(h, n) = Swept(h, n - 1)
  BY <1>0, <1>3 DEF Turned, Swept
<1>5. ASSUME FreeFrames = {} PROVE SecChance!Clock!Passed = n - 1
  <2> DEFINE S == {k \in 0 .. NumFrames - 1 :
                     ~page_table[frame_table[SecChance!Clock!Ahead(k)]].referenced}
                  \cup {NumFrames}
             least == CHOOSE x \in S : \A y \in S : x =< y
  <2>1. ASSUME NEW i \in 1 .. NumFrames
        PROVE  SecChance!Stops(i) <=>
                 ~page_table[frame_table[SecChance!Clock!Ahead(i - 1)]].referenced
    <3>1. /\ Around(h, i - 1, NumFrames) \in Frames
          /\ SecChance!PageAt(i) = frame_table[Around(h, i - 1, NumFrames)]
      BY SecPage
    <3>2. i - 1 \in 0 .. NumFrames /\ i - 1 # NumFrames
      BY <1>0
    <3>3. SecChance!Clock!Ahead(i - 1) = Around(h, i - 1, NumFrames)
      BY <1>2, <3>2 DEF Swept
    <3>4. frame_table[Around(h, i - 1, NumFrames)] # EMPTY
      BY <1>5, <3>1 DEF FreeFrames
    <3>5. SecChance!EMPTY = EMPTY
      BY DEF SecChance!EMPTY, EMPTY
    <3> QED
      BY <3>1, <3>3, <3>4, <3>5 DEF SecChance!Stops
  <2>2. \A i \in 1 .. NumFrames : i - 1 \in S <=> SecChance!Stops(i)
    <3> SUFFICES ASSUME NEW i \in 1 .. NumFrames
                 PROVE  i - 1 \in S <=> SecChance!Stops(i)
      OBVIOUS
    <3>1. i - 1 \in 0 .. NumFrames - 1 /\ i - 1 # NumFrames
      BY <1>0
    <3> QED
      BY <2>1, <3>1
  <2>3. SecChance!Clock!Passed = least
    BY DEF SecChance!Clock!Passed, SecChance!Clock!Min
  <2>4. S \in SUBSET Nat /\ NumFrames \in S /\ (\A y \in S : y <= NumFrames)
    BY <1>0
  <2> HIDE DEF S
  <2>5. least \in S /\ \A y \in S : least <= y
    BY <2>4, LeastIsChosen
  <2> HIDE DEF least
  <2>6. n - 1 \in S
    <3>1. CASE n = NumFrames + 1
      BY <1>0, <2>4, <3>1
    <3>2. CASE n <= NumFrames
      BY <1>0, <1>3, <2>2, <3>2
    <3> QED
      BY <1>0, <1>3, <3>1, <3>2
  <2>7. ~ (least < n - 1)
    <3> SUFFICES ASSUME least < n - 1 PROVE FALSE
      OBVIOUS
    <3>1. least + 1 \in 1 .. NumFrames /\ (least + 1) - 1 = least
          /\ least + 1 \in 1 .. n - 1
      BY <1>0, <1>3, <2>4, <2>5
    <3>2. SecChance!Stops(least + 1)
      BY <2>2, <2>5, <3>1
    <3> QED
      BY <1>3, <3>1, <3>2
  <2>8. least \in Nat /\ n - 1 \in Nat
    BY <2>4, <2>5, <2>6
  <2> QED
    BY <2>3, <2>5, <2>6, <2>7, <2>8
<1> QED
  BY <1>2, <1>4, <1>5

LEMMA SecFaultIsClock ==
  ASSUME IInv, QueueInv, NEW op \in Operations, NEW p \in Pages,
         SecChance!SecFault(op, p)
  PROVE  SecChance!Clock!TakeEmpty(op, p) \/ SecChance!Clock!Sweep(op, p)
<1>0. NumFrames \in Nat \ {0}
  BY VMMAssumption
<1>1. PICK h \in Frames : frames = Queue(h) /\ Lowest(h, FreeFrames)
  BY DEF QueueInv
<1> DEFINE n == SecChance!LastTurn
           k == n - 1
           index == Turned(h, n)
           cleared == {SecChance!PageAt(i) : i \in 1 .. n - 1}
           swept == {frame_table[SecChance!Clock!Ahead(i)] : i \in 0 .. k - 1}
<1>2. /\ SecChance!ServiceFault(op, p, SecChance!Rotated(n)[NumFrames] - 1, cleared)
      /\ frames' = SecChance!Rotated(n)
  BY DEF SecChance!SecFault
<1>3. /\ n \in 1 .. NumFrames + 1
      /\ FreeFrames # {} => index = h
      /\ index \in Frames
  BY <1>1, SecLastTurn, SecChoice
<1>4. /\ SecChance!Clock!Passed = k \/ FreeFrames # {}
      /\ \A i \in 0 .. NumFrames : SecChance!Clock!Ahead(i) = Swept(h, i)
      /\ index = Swept(h, k)
  BY <1>1, SecTurnsAreSwept
<1>5. FreeFrames # {} => cleared = {} /\ frame_table[h] = EMPTY
  <2> SUFFICES ASSUME FreeFrames # {} PROVE cleared = {} /\ frame_table[h] = EMPTY
    OBVIOUS
  <2>1. frame_table[h] = EMPTY
    BY <1>1 DEF Lowest, FreeFrames
  <2>2. SecChance!PageAt(1) = EMPTY /\ 1 \in 1 .. NumFrames
    <3>1. 1 \in 1 .. NumFrames /\ Around(h, 1 - 1, NumFrames) = h
      BY <1>0, <1>1 DEF Around, Frames
    <3> QED
      BY <1>1, <2>1, <3>1, SecPage
  <2>3. SecChance!Stops(1)
    BY <2>2 DEF SecChance!Stops, SecChance!EMPTY, EMPTY
  <2>4. ~ (1 \in 1 .. n - 1)
    BY <2>3, SecLastTurn
  <2> HIDE DEF n
  <2> QED
    BY <1>3, <2>1, <2>4
<1>6. cleared = swept
  <2>1. \A i \in 1 .. k : SecChance!PageAt(i) = frame_table[SecChance!Clock!Ahead(i - 1)]
    <3> SUFFICES ASSUME NEW i \in 1 .. k
                 PROVE  SecChance!PageAt(i) = frame_table[SecChance!Clock!Ahead(i - 1)]
      OBVIOUS
    <3> HIDE DEF n
    <3>1. i \in 1 .. NumFrames /\ i - 1 \in 0 .. NumFrames /\ i - 1 # NumFrames
      BY <1>0, <1>3
    <3>2. SecChance!Clock!Ahead(i - 1) = Around(h, i - 1, NumFrames)
      BY <1>4, <3>1 DEF Swept
    <3> QED
      BY <1>1, <3>1, <3>2, SecPage
  <2> HIDE DEF n
  <2>2. \A i \in 0 .. k - 1 : i + 1 \in 1 .. k /\ (i + 1) - 1 = i
    BY <1>0, <1>3
  <2>3. \A i \in 1 .. k : i - 1 \in 0 .. k - 1
    BY <1>0, <1>3
  <2>4. swept \subseteq cleared
    <3> SUFFICES ASSUME NEW i \in 0 .. k - 1
                 PROVE  frame_table[SecChance!Clock!Ahead(i)] \in cleared
      OBVIOUS
    <3>1. frame_table[SecChance!Clock!Ahead(i)] = SecChance!PageAt(i + 1)
      BY <2>1, <2>2
    <3> QED
      BY <2>2, <3>1
  <2>5. cleared \subseteq swept
    BY <2>1, <2>3
  <2> QED
    BY <2>4, <2>5
<1> HIDE DEF n, cleared, swept
<1>7. /\ SecChance!Rotated(n)[NumFrames] - 1 = index
      /\ frames' = Queue(Around(index, 1, NumFrames))
  BY <1>1, <1>2, <1>3, SecTurns
<1>8. k \in 0 .. NumFrames
  BY <1>0, <1>3
<1>9. /\ Around(index, 1, NumFrames) \in Frames
      /\ (index + 1) % NumFrames = Around(index, 1, NumFrames)
      /\ index \in Frames
  BY <1>1, <1>4, <1>8, SweptIsFrame
<1> DEFINE g == Around(index, 1, NumFrames)
<1>10. Head(frames) - 1 = h /\ Head(frames') - 1 = g
  <2>1. Head(Queue(h)) = h + 1 /\ h \in Int
    BY <1>0, QueueFront DEF Frames
  <2>2. g \in Frames
    BY <1>9
  <2> HIDE DEF g
  <2>3. Head(Queue(g)) = g + 1 /\ g \in Int
    BY <1>0, <2>2, QueueFront DEF Frames
  <2>4. frames' = Queue(g)
    BY <1>7 DEF g
  <2> QED
    BY ONLY <1>1, <2>1, <2>3, <2>4
<1>11. ServiceFault(op, p, index, cleared)
  BY <1>2, <1>7, SecChanceEngine
<1>12. SecChance!Clock!ServiceFault(op, p, index, cleared)
  BY <1>11, SecClockEngine
<1>13. SecChance!Clock!Advance(index)
  BY <1>9, <1>10 DEF SecChance!Clock!Advance
<1>14. SecChance!Clock!EMPTY = EMPTY
  BY DEF SecChance!Clock!EMPTY, EMPTY
<1>15. CASE FreeFrames # {}
  <2>1. SecChance!Clock!TakeEmpty(op, p)
    BY <1>3, <1>5, <1>10, <1>12, <1>13, <1>14, <1>15 DEF SecChance!Clock!TakeEmpty
  <2> QED
    BY <2>1
<1>16. CASE FreeFrames = {}
  <2>1. frame_table[h] # EMPTY
    BY <1>1, <1>16 DEF FreeFrames
  <2>2. SecChance!Clock!Passed = k /\ SecChance!Clock!Ahead(k) = index
    BY <1>4, <1>8, <1>16
  <2>3. SecChance!Clock!Sweep(op, p)
    BY <1>6, <1>10, <1>12, <1>13, <1>14, <2>1, <2>2
       DEF SecChance!Clock!Sweep, swept
  <2> QED
    BY <2>3
<1> QED
  BY <1>15, <1>16

(* Second chance is the clock over frames, its queue's front the hand.     *)
THEOREM SecondChanceRefinesClock == MMUSpec => SecondChanceIsTheClock
<1>1. MMUInit => (algorithm = "s" => SecChance!Clock!ClockInit)
  <2> SUFFICES ASSUME MMUInit, algorithm = "s" PROVE SecChance!Clock!ClockInit
    OBVIOUS
  <2>1. Init /\ frames = [i \in 1 .. NumFrames |-> i]
    BY InitEngine DEF MMUInit, SecChance!SecInit
  <2>2. Head(frames) - 1 = 0
    <3>1. frames = Queue(0) /\ 0 \in Frames
      BY <2>1, QueueStart
    <3>2. Head(Queue(0)) = 0 + 1
      BY <3>1, QueueFront
    <3> QED
      BY <3>1, <3>2
  <2> QED
    BY <2>1, <2>2 DEF Init, Frames, Pages, EMPTY, Counters, SecChance!Clock!ClockInit,
                      SecChance!Clock!Init, SecChance!Clock!Frames,
                      SecChance!Clock!Pages, SecChance!Clock!EMPTY,
                      SecChance!Clock!Counters
<1>2. MInv /\ [MMUNext]_mmuvars =>
        [algorithm = "s" =>
           [SecChance!Clock!ClockNext]_(SecChance!Clock!clockvars)]_mmuvars
  <2> SUFFICES ASSUME MInv, MMUNext, algorithm = "s"
               PROVE  SecChance!Clock!ClockNext
    OBVIOUS
  <2>1. SecChance!SecNext /\ IInv /\ QueueInv
    BY DEF MMUNext, MInv, Crashed, PolicyInv
  <2>2. ASSUME NEW op \in Operations, NEW p \in Pages, SecChance!SecFault(op, p)
        PROVE  SecChance!Clock!ClockNext
    BY <2>1, <2>2, SecFaultIsClock, SecClockEngine DEF SecChance!Clock!ClockNext
  <2>3. ASSUME Quiet, UNCHANGED frames PROVE SecChance!Clock!ClockNext
    BY <2>3, SecClockEngine DEF SecChance!Clock!ClockNext, Quiet
  <2> QED
    BY <2>1, <2>2, <2>3, SecChanceEngine DEF SecChance!SecNext, Quiet
<1> QED
  BY <1>1, <1>2, MInvariance, PTL DEF MMUSpec, SecondChanceIsTheClock

LEMMA PAgesEngine ==
  ASSUME NEW op, NEW p, NEW index, NEW cleared
  PROVE  /\ PAging!A!ServiceFault(op, p, index, cleared) <=>
               ServiceFault(op, p, index, cleared)
         /\ PAging!A!Hit(op, p) <=> Hit(op, p)
         /\ (PAging!A!EndOfInput \/ PAging!A!BadInstruction \/ PAging!A!Exited) <=>
               (EndOfInput \/ BadInstruction \/ Exited)
         /\ PAging!A!Pages = Pages /\ PAging!A!Frames = Frames
         /\ PAging!A!Operations = Operations /\ PAging!A!EMPTY = EMPTY
         /\ PAging!A!FreeFrames = FreeFrames /\ PAging!A!Resident = Resident
  BY DEF PAging!A!ServiceFault, ServiceFault, PAging!A!ClearReferenced,
         ClearReferenced, PAging!A!Evicted, Evicted, PAging!A!unmap, unmap,
         PAging!A!page_out, page_out, PAging!A!EMPTY, EMPTY, PAging!A!Access,
         Access, PAging!A!map, map, PAging!A!Loaded, Loaded,
         PAging!A!page_in, page_in, PAging!A!Touched, Touched,
         PAging!A!WRITE, WRITE, PAging!A!FaultStats, FaultStats,
         PAging!A!Bump, Bump, PAging!A!Pages, Pages, PAging!A!Hit, Hit,
         PAging!A!EndOfInput, EndOfInput, PAging!A!BadInstruction,
         BadInstruction, PAging!A!Exited, Exited, PAging!A!vars, vars,
         PAging!A!READ, READ, PAging!A!Operations, Operations,
         PAging!A!Frames, Frames, PAging!A!FreeFrames, FreeFrames,
         PAging!A!Resident, Resident, PAging!A!SelectFrame, SelectFrame

LEMMA VAgesEngine ==
  ASSUME NEW op, NEW p, NEW index, NEW cleared
  PROVE  /\ VAging!A!ServiceFault(op, p, index, cleared) <=>
               ServiceFault(op, p, index, cleared)
         /\ VAging!A!Hit(op, p) <=> Hit(op, p)
         /\ (VAging!A!EndOfInput \/ VAging!A!BadInstruction \/ VAging!A!Exited) <=>
               (EndOfInput \/ BadInstruction \/ Exited)
         /\ VAging!A!Pages = Pages /\ VAging!A!Frames = Frames
         /\ VAging!A!Operations = Operations /\ VAging!A!EMPTY = EMPTY
         /\ VAging!A!FreeFrames = FreeFrames /\ VAging!A!Resident = Resident
  BY DEF VAging!A!ServiceFault, ServiceFault, VAging!A!ClearReferenced,
         ClearReferenced, VAging!A!Evicted, Evicted, VAging!A!unmap, unmap,
         VAging!A!page_out, page_out, VAging!A!EMPTY, EMPTY, VAging!A!Access,
         Access, VAging!A!map, map, VAging!A!Loaded, Loaded,
         VAging!A!page_in, page_in, VAging!A!Touched, Touched,
         VAging!A!WRITE, WRITE, VAging!A!FaultStats, FaultStats,
         VAging!A!Bump, Bump, VAging!A!Pages, Pages, VAging!A!Hit, Hit,
         VAging!A!EndOfInput, EndOfInput, VAging!A!BadInstruction,
         BadInstruction, VAging!A!Exited, Exited, VAging!A!vars, vars,
         VAging!A!READ, READ, VAging!A!Operations, Operations,
         VAging!A!Frames, Frames, VAging!A!FreeFrames, FreeFrames,
         VAging!A!Resident, Resident, VAging!A!SelectFrame, SelectFrame

\* The ages of the pages, as aging by frames keeps them.
PAges == [q \in Pages |-> IF page_table[q].present
                          THEN age_vector[page_table[q].frame_number] ELSE 0]

LEMMA PAgingFills ==
  ASSUME IInv, PAgeInv, NEW op \in Operations, NEW p \in Pages,
         PAging!TakeNext(op, p)
  PROVE  PAging!A!FillFrame(op, p)
<1>1. /\ used_frames < NumFrames /\ UNCHANGED age_vector
      /\ ServiceFault(op, p, used_frames, {})
  BY PAgingEngine DEF PAging!TakeNext
<1>2. used_frames \in FreeFrames /\ used_frames \in Frames
      /\ Lowest(used_frames, FreeFrames) /\ FreeFrames # {}
  BY <1>1, CountIsFree DEF PAgeInv, Lowest
<1>3. SelectFrame(used_frames, {})
  BY <1>2, LowestMayBeTaken
<1>4. PAging!A!SelectFrame(used_frames, {})
  BY <1>3, PAgesEngine DEF PAging!A!SelectFrame, SelectFrame
<1>5. PAging!A!ServiceFault(op, p, used_frames, {})
  BY <1>1, PAgesEngine
<1>6. frame_table[used_frames] \notin Pages /\ age_vector[used_frames] = 0
  BY <1>2, EmptyIsNoPage DEF FreeFrames, PAgeInv
<1>7. /\ page_table'[p].present /\ page_table'[p].frame_number = used_frames
      /\ ~page_table[p].present
      /\ \A q \in Pages \ {p} : Untouched(q, {})
  <2>1. /\ page_table'[p].present /\ page_table'[p].frame_number = used_frames
        /\ \A q \in Pages \ {p, frame_table[used_frames]} : Untouched(q, {})
    BY <1>1, <1>2, FaultPageTable DEF IInv, TablesInv
  <2> QED
    BY <1>1, <1>6, <2>1 DEF ServiceFault
<1>8. \A q \in Pages :
        (IF page_table'[q].present THEN age_vector'[page_table'[q].frame_number] ELSE 0)
        = (IF page_table[q].present THEN age_vector[page_table[q].frame_number] ELSE 0)
  BY <1>1, <1>6, <1>7 DEF Untouched
<1>9. PAging!Pages = Pages /\ PAging!Pages' = Pages
  BY DEF PAging!Pages, Pages
<1>10. PAging!A!FreeFrames = FreeFrames
  BY PAgesEngine
<1> QED
  BY <1>2, <1>4, <1>5, <1>8, <1>9, <1>10 DEF PAging!A!FillFrame

LEMMA PAgingOlder ==
  ASSUME IInv, PAgeInv, FreeFrames = {}, NEW q \in Resident
  PROVE  /\ page_table[q].frame_number \in Frames
         /\ frame_table[page_table[q].frame_number] = q
         /\ PAging!A!Older(q) = PAging!NewAge(page_table[q].frame_number)
<1>1. /\ page_table[q].frame_number \in Frames
      /\ frame_table[page_table[q].frame_number] = q
  BY FullMeansResident
<1>2. q \in Pages /\ page_table[q].present /\ PAging!Pages = Pages
  BY DEF Resident, PAging!Pages, Pages
<1> QED
  BY <1>1, <1>2 DEF PAging!A!Older, PAging!NewAge

LEMMA PAgingAges ==
  ASSUME IInv, PAgeInv, NEW op \in Operations, NEW p \in Pages,
         PAging!Replace(op, p)
  PROVE  PAging!A!AgeAndReplace(op, p)
<1> DEFINE index == PAging!Victim
           victim == frame_table[index]
<1>1. /\ FreeFrames = {}
      /\ ServiceFault(op, p, index, Resident)
  <2>1. /\ FreeFrames = {} /\ {frame_table[f] : f \in Frames} = Resident
        /\ ServiceFault(op, p, index, {frame_table[f] : f \in Frames})
    BY PAgingReplaces
  <2> QED
    BY <2>1
<1>2. /\ index \in Frames
      /\ \A f \in Frames : PAging!NewAge(index) <= PAging!NewAge(f)
  BY PAgingVictim
<1>3. victim \in Resident /\ page_table[victim].frame_number = index
  BY <1>1, <1>2, FullMeansResident
<1>4. age_vector' = [f \in Frames |-> IF f = index THEN 0 ELSE PAging!NewAge(f)]
  BY DEF PAging!Replace, PAging!Aged, PAging!Frames, Frames
<1> HIDE DEF index
<1>5. /\ page_table'[p].present /\ page_table'[p].frame_number = index
      /\ ~page_table[p].present
      /\ ~page_table'[victim].present
      /\ \A q \in Pages \ {p, victim} : Untouched(q, Resident)
  <2>1. TypeOK /\ TablesAgree /\ victim \in Pages
    BY <1>3 DEF IInv, TablesInv, Resident
  <2>2. /\ page_table'[p].present /\ page_table'[p].frame_number = index
        /\ frame_table[index] \in Pages => VictimGone(frame_table[index])
        /\ \A q \in Pages \ {p, frame_table[index]} : Untouched(q, Resident)
    BY <1>1, <1>2, <2>1, FaultPageTable
  <2>3. ~page_table[p].present
    BY <1>1 DEF ServiceFault
  <2> QED
    BY <2>1, <2>2, <2>3 DEF VictimGone
<1>6. \A q \in Resident : PAging!A!Older(victim) <= PAging!A!Older(q)
  BY <1>1, <1>2, <1>3, PAgingOlder
<1>7. PAging!A!ServiceFault(op, p, page_table[victim].frame_number, Resident)
  BY <1>1, <1>3, PAgesEngine
<1>8. \A q \in Pages :
        (IF page_table'[q].present THEN age_vector'[page_table'[q].frame_number] ELSE 0)
        = IF q \in Resident \ {victim} THEN PAging!A!Older(q) ELSE 0
  <2> SUFFICES ASSUME NEW q \in Pages
               PROVE  (IF page_table'[q].present
                       THEN age_vector'[page_table'[q].frame_number] ELSE 0)
                      = IF q \in Resident \ {victim} THEN PAging!A!Older(q) ELSE 0
    OBVIOUS
  <2>1. CASE q = p
    BY <1>2, <1>4, <1>5, <2>1 DEF Resident
  <2>2. CASE q = victim
    BY <1>5, <2>2
  <2>3. CASE q \notin {p, victim} /\ q \notin Resident
    BY <1>5, <2>3 DEF Resident, Untouched
  <2>4. CASE q \notin {p, victim} /\ q \in Resident
    <3>1. /\ page_table'[q].present
          /\ page_table'[q].frame_number = page_table[q].frame_number
      BY <1>5, <2>4 DEF Untouched, Resident
    <3>2. /\ page_table[q].frame_number \in Frames
          /\ frame_table[page_table[q].frame_number] = q
          /\ PAging!A!Older(q) = PAging!NewAge(page_table[q].frame_number)
      BY <1>1, <2>4, PAgingOlder
    <3>3. page_table[q].frame_number # index
      BY <2>4, <3>2
    <3> QED
      BY <1>4, <2>4, <3>1, <3>2, <3>3
  <2> QED
    BY <2>1, <2>2, <2>3, <2>4
<1>9. PAging!Pages = Pages /\ PAging!Pages' = Pages /\ PAging!A!Pages = Pages
  BY DEF PAging!Pages, Pages, PAging!A!Pages
<1>10. PAging!A!FreeFrames = FreeFrames /\ PAging!A!Resident = Resident
  BY PAgesEngine
<1> HIDE DEF victim
<1> QED
  BY <1>1, <1>3, <1>5, <1>6, <1>7, <1>8, <1>9, <1>10 DEF PAging!A!AgeAndReplace

LEMMA PAgingRefines ==
  ASSUME IInv, PAgeInv, PAging!PAgingNext
  PROVE  PAging!A!AgingNext
<1>1. ASSUME NEW op \in Operations, NEW p \in Pages,
             PAging!TakeNext(op, p) \/ PAging!Replace(op, p)
      PROVE  PAging!A!AgingNext
  BY <1>1, PAgingFills, PAgingAges, PAgesEngine DEF PAging!A!AgingNext
<1>2. ASSUME Quiet, UNCHANGED age_vector
      PROVE  PAging!A!AgingNext
  <2>1. \A q \in Pages : /\ page_table'[q].present <=> page_table[q].present
                         /\ page_table'[q].frame_number = page_table[q].frame_number
    BY <1>2, HitPageTable DEF Quiet, IInv, EndOfInput, BadInstruction, Exited, vars
  <2>2. PAging!Pages = Pages /\ PAging!Pages' = Pages
    BY DEF PAging!Pages, Pages
  <2>3. \A q \in Pages :
          (IF page_table'[q].present THEN age_vector'[page_table'[q].frame_number] ELSE 0)
          = (IF page_table[q].present THEN age_vector[page_table[q].frame_number] ELSE 0)
    BY <1>2, <2>1
  <2> QED
    BY <1>2, <2>2, <2>3, PAgesEngine DEF PAging!A!AgingNext, Quiet
<1> QED
  BY <1>1, <1>2, PAgingEngine DEF PAging!PAgingNext, Quiet

LEMMA VAgingRefines ==
  ASSUME IInv, VAgeInv, VAging!VAgingNext
  PROVE  VAging!A!AgingNext
<1>1. ASSUME NEW op \in Operations, NEW p \in Pages, VAging!TakeNext(op, p)
      PROVE  VAging!A!FillFrame(op, p)
  <2>1. /\ used_frames < NumFrames /\ UNCHANGED age_vector
        /\ ServiceFault(op, p, used_frames, {})
    BY <1>1, VAgingEngine DEF VAging!TakeNext
  <2>2. used_frames \in FreeFrames /\ used_frames \in Frames
        /\ Lowest(used_frames, FreeFrames) /\ FreeFrames # {}
    BY <2>1, CountIsFree DEF VAgeInv, Lowest
  <2>3. SelectFrame(used_frames, {})
    BY <2>2, LowestMayBeTaken
  <2>4. VAging!A!SelectFrame(used_frames, {})
    BY <2>3, VAgesEngine DEF VAging!A!SelectFrame, SelectFrame
  <2> QED
    BY <2>1, <2>2, <2>4, VAgesEngine DEF VAging!A!FillFrame
<1>2. ASSUME NEW op \in Operations, NEW p \in Pages, VAging!Replace(op, p)
      PROVE  VAging!A!AgeAndReplace(op, p)
  <2>1. /\ FreeFrames = {}
        /\ ServiceFault(op, p, page_table[VAging!Victim].frame_number, Resident)
    BY <1>2, VAgingReplaces
  <2>2. /\ VAging!Victim \in Resident
        /\ \A q \in Resident : VAging!NewAge(VAging!Victim) <= VAging!NewAge(q)
    BY <2>1, VAgingVictim
  <2>3. \A q \in Resident : VAging!A!Older(q) = VAging!NewAge(q)
    BY DEF VAging!A!Older, VAging!NewAge, Resident
  <2>4. \A q \in Pages \ Resident : VAging!NewAge(q) = 0
    BY DEF VAgeInv, VAging!NewAge, Resident
  <2>5. age_vector' = [q \in Pages |-> IF q = VAging!Victim THEN 0
                                       ELSE VAging!NewAge(q)]
    BY <1>2, VAgingEngine DEF VAging!Replace
  <2>6. age_vector' = [q \in Pages |-> IF q \in Resident \ {VAging!Victim}
                                       THEN VAging!A!Older(q) ELSE 0]
    BY <2>3, <2>4, <2>5
  <2>7. /\ VAging!A!Pages = Pages /\ VAging!A!FreeFrames = FreeFrames
        /\ VAging!A!Resident = Resident
        /\ VAging!A!ServiceFault(op, p, page_table[VAging!Victim].frame_number, Resident)
    BY <2>1, VAgesEngine
  <2>8. ~page_table[p].present
    BY <2>1 DEF ServiceFault
  <2> QED
    BY <2>1, <2>2, <2>3, <2>6, <2>7, <2>8 DEF VAging!A!AgeAndReplace
<1>3. ASSUME Quiet, UNCHANGED age_vector
      PROVE  VAging!A!AgingNext
  BY <1>3, VAgesEngine DEF VAging!A!AgingNext, Quiet
<1> QED
  BY <1>1, <1>2, <1>3, VAgingEngine, VAgesEngine
     DEF VAging!VAgingNext, VAging!A!AgingNext, Quiet

(* Ages kept by frame or by page refine the aging rule: they are those of  *)
(* the resident pages, and the victim is a resident page of least age.     *)
THEOREM AgesAlwaysFollowPages == MMUSpec => AgesFollowPages
<1>1. MMUInit => /\ algorithm = "a" => PAging!A!AgingInit
                 /\ algorithm = "A" => VAging!A!AgingInit
  <2> SUFFICES ASSUME MMUInit
               PROVE  /\ algorithm = "a" => PAging!A!AgingInit
                      /\ algorithm = "A" => VAging!A!AgingInit
    OBVIOUS
  <2>1. Init
    BY InitEngine
  <2>2. PAging!A!Init /\ VAging!A!Init
    BY <2>1 DEF Init, Frames, Pages, EMPTY, Counters,
                PAging!A!Init, PAging!A!Frames, PAging!A!Pages, PAging!A!EMPTY,
                PAging!A!Counters, VAging!A!Init, VAging!A!Frames, VAging!A!Pages,
                VAging!A!EMPTY, VAging!A!Counters
  <2>3. \A q \in Pages : ~page_table[q].present
    BY <2>1 DEF Init
  <2>4. PAging!Pages = Pages /\ PAging!A!Pages = Pages /\ VAging!Pages = Pages
        /\ VAging!A!Pages = Pages
    BY DEF PAging!Pages, PAging!A!Pages, VAging!Pages, VAging!A!Pages, Pages
  <2> QED
    BY <2>2, <2>3, <2>4 DEF PAging!A!AgingInit, VAging!A!AgingInit, MMUInit,
                            VAging!VAgingInit
<1>2. MInv /\ [MMUNext]_mmuvars =>
        [/\ algorithm = "a" => [PAging!A!AgingNext]_(PAging!A!agingvars)
         /\ algorithm = "A" => [VAging!A!AgingNext]_(VAging!A!agingvars)]_mmuvars
  BY PAgingRefines, VAgingRefines DEF MInv, Crashed, PolicyInv, MMUNext
<1> QED
  BY <1>1, <1>2, MInvariance, PTL DEF MMUSpec, AgesFollowPages

-----------------------------------------------------------------------------
(* The order of eviction: FIFO's queue is a line like LRU's list, and the  *)
(* resident pages, in the line's order, are the textbook queue.            *)

LEMMA FreeAtFront ==
  ASSUME NEW w, InLine(w), FreeFirst(w)
  PROVE  /\ Cardinality(FreeFrames) \in 0 .. NumFrames
         /\ \A i \in 1 .. NumFrames :
              w[i] \in FreeFrames <=> i <= Cardinality(FreeFrames)
<1>0. NumFrames \in Nat \ {0}
  BY VMMAssumption
<1> DEFINE used == {i \in 1 .. NumFrames : w[i] \notin FreeFrames} \cup {NumFrames + 1}
<1>1. PICK n \in used : \A i \in used : n <= i
  <2>1. used \in SUBSET Nat /\ used # {}
    BY <1>0
  <2> HIDE DEF used
  <2> QED
    BY <2>1, LeastNatural
<1>2. n \in 1 .. NumFrames + 1
  BY <1>0
<1> DEFINE m == n - 1
<1>3. m \in 0 .. NumFrames
  BY <1>0, <1>2
<1>4. \A i \in 1 .. m : w[i] \in FreeFrames
  BY <1>0, <1>1, <1>2
<1>5. \A i \in 1 .. NumFrames : i > m => w[i] \notin FreeFrames
  <2> SUFFICES ASSUME NEW i \in 1 .. NumFrames, i > m, w[i] \in FreeFrames
               PROVE  FALSE
    OBVIOUS
  <2>1. n \in 1 .. NumFrames /\ w[n] \notin FreeFrames
    BY <1>0, <1>1, <1>2
  <2>2. n < i
    BY <1>0, <1>2, <2>1, i # n
  <2> QED
    BY <2>1, <2>2 DEF FreeFirst, FreeFrames, InLine
<1> HIDE DEF used, m
<1> DEFINE f == [i \in 1 .. m |-> w[i]]
<1>6. f \in Bijection(1 .. m, FreeFrames)
  <2>1. f \in [1 .. m -> FreeFrames]
    BY <1>4
  <2>2. \A i, j \in 1 .. m : f[i] = f[j] => i = j
    BY <1>0, <1>3 DEF InLine
  <2>3. \A g \in FreeFrames : \E i \in 1 .. m : f[i] = g
    <3> SUFFICES ASSUME NEW g \in FreeFrames PROVE \E i \in 1 .. m : f[i] = g
      OBVIOUS
    <3>1. PICK i \in 1 .. NumFrames : w[i] = g
      BY DEF InLine, FreeFrames
    <3>2. i \in 1 .. m
      BY <1>0, <1>3, <1>5, <3>1
    <3> QED
      BY <3>1, <3>2
  <2> QED
    BY <2>1, <2>2, <2>3 DEF Bijection, Injection, Surjection, IsInjective
<1>7. Cardinality(FreeFrames) = m
  <2>1. IsFiniteSet(1 .. m) /\ Cardinality(1 .. m) = m
    BY <1>0, <1>3, FS_Interval
  <2>2. ExistsBijection(1 .. m, FreeFrames)
    BY <1>6 DEF ExistsBijection
  <2> QED
    BY <2>1, <2>2, FS_Bijection
<1> QED
  BY <1>0, <1>3, <1>4, <1>5, <1>7

InOrder(w) == LET free == Cardinality(FreeFrames)
              IN  [i \in 1 .. NumFrames - free |-> frame_table[w[free + i]]]

Requeue(s, i, e) == Append(SubSeq(s, 1, i - 1) \o SubSeq(s, i + 1, Len(s)), e)

LEMMA Requeued ==
  ASSUME NEW S, NEW s \in Seq(S), NEW i \in 1 .. Len(s), NEW e \in S
  PROVE  Requeue(s, i, e) =
         [j \in 1 .. Len(s) |-> IF j < i THEN s[j]
                                ELSE IF j < Len(s) THEN s[j + 1] ELSE e]
<1> DEFINE a == SubSeq(s, 1, i - 1)
           b == SubSeq(s, i + 1, Len(s))
           r == Append(a \o b, e)
           n == Len(s)
<1>0. n \in Nat /\ \A j \in 1 .. n : s[j] \in S
  OBVIOUS
<1>1. /\ a \in Seq(S) /\ Len(a) = i - 1
      /\ \A j \in 1 .. i - 1 : a[j] = s[j]
  <2>1. \A j \in 1 .. i - 1 : s[j] \in S
    BY <1>0
  <2>2. /\ a \in Seq(S) /\ Len(a) = IF 1 <= i - 1 THEN (i - 1) - 1 + 1 ELSE 0
        /\ \A j \in 1 .. (i - 1) - 1 + 1 : a[j] = s[1 + j - 1]
    BY <2>1, SubSeqProperties
  <2> HIDE DEF a
  <2> QED
    BY <1>0, <2>2
<1>2. /\ b \in Seq(S) /\ Len(b) = n - i
      /\ \A j \in 1 .. n - i : b[j] = s[i + j]
  <2>1. \A j \in i + 1 .. n : s[j] \in S
    BY <1>0
  <2>2. i + 1 \in Int /\ n \in Int
    BY <1>0
  <2>3. /\ b \in Seq(S) /\ Len(b) = IF i + 1 <= n THEN n - (i + 1) + 1 ELSE 0
        /\ \A j \in 1 .. n - (i + 1) + 1 : b[j] = s[(i + 1) + j - 1]
    BY <2>1, <2>2, SubSeqProperties
  <2> HIDE DEF b
  <2>4. \A j \in 1 .. n - i : j \in 1 .. n - (i + 1) + 1 /\ (i + 1) + j - 1 = i + j
    BY <1>0
  <2>5. Len(b) = n - i
    BY <1>0, <2>3
  <2> QED
    BY <2>3, <2>4, <2>5
<1> HIDE DEF a, b
<1> DEFINE ab == a \o b
<1>3. /\ ab \in Seq(S) /\ Len(ab) = n - 1
      /\ \A j \in 1 .. n - 1 : ab[j] = IF j < i THEN s[j] ELSE s[j + 1]
  <2>1. ab \in Seq(S) /\ Len(ab) = Len(a) + Len(b)
    BY <1>1, <1>2, ConcatProperties
  <2>2. \A j \in 1 .. n - 1 : ab[j] = IF j <= Len(a) THEN a[j] ELSE b[j - Len(a)]
    BY <1>0, <1>1, <1>2
  <2> HIDE DEF ab
  <2>3. ASSUME NEW j \in 1 .. n - 1
        PROVE  ab[j] = IF j < i THEN s[j] ELSE s[j + 1]
    <3>1. CASE j < i
      <4>1. j \in 1 .. i - 1 /\ j <= i - 1
        BY <1>0, <3>1
      <4>2. ab[j] = a[j] /\ a[j] = s[j]
        BY <1>1, <2>2, <4>1
      <4> QED
        BY <3>1, <4>2
    <3>2. CASE j >= i
      <4>1. j - (i - 1) \in 1 .. n - i /\ i + (j - (i - 1)) = j + 1 /\ ~ (j <= i - 1)
        BY <1>0, <3>2
      <4> QED
        BY <1>1, <1>2, <2>2, <3>2, <4>1
    <3> QED
      BY <1>0, <3>1, <3>2
  <2> QED
    BY <1>0, <1>1, <1>2, <2>1, <2>3
<1> HIDE DEF ab
<1>4. /\ r = Append(ab, e) /\ r \in Seq(S) /\ Len(r) = n
      /\ \A j \in 1 .. n - 1 : r[j] = ab[j]
      /\ r[n] = e
  <2>1. r = Append(ab, e)
    BY DEF ab
  <2> QED
    BY <1>0, <1>3, <2>1
<1> HIDE DEF r
<1>5. r = [j \in 1 .. n |-> r[j]]
  BY <1>0, <1>4, LenProperties
<1>6. \A j \in 1 .. n : r[j] = IF j < i THEN s[j] ELSE IF j < n THEN s[j + 1] ELSE e
  BY <1>0, <1>3, <1>4
<1>7. r = [j \in 1 .. n |-> IF j < i THEN s[j] ELSE IF j < n THEN s[j + 1] ELSE e]
  BY <1>5, <1>6
<1> QED
  BY <1>7 DEF Requeue, r, a, b

LEMMA Appended ==
  ASSUME NEW S, NEW s \in Seq(S), NEW e \in S
  PROVE  /\ Append(s, e) = [j \in 1 .. Len(s) + 1 |-> IF j <= Len(s) THEN s[j] ELSE e]
         /\ s # << >> => Append(Tail(s), e) =
              [j \in 1 .. Len(s) |-> IF j < Len(s) THEN s[j + 1] ELSE e]
<1>1. ASSUME NEW t \in Seq(S)
      PROVE  Append(t, e) = [j \in 1 .. Len(t) + 1 |-> IF j <= Len(t) THEN t[j] ELSE e]
  <2> DEFINE r == Append(t, e)
  <2>1. /\ r \in Seq(S) /\ Len(r) = Len(t) + 1 /\ Len(t) \in Nat
        /\ \A j \in 1 .. Len(t) + 1 : r[j] = IF j <= Len(t) THEN t[j] ELSE e
    OBVIOUS
  <2> HIDE DEF r
  <2>2. r = [j \in 1 .. Len(t) + 1 |-> r[j]]
    BY <2>1
  <2>3. r = [j \in 1 .. Len(t) + 1 |-> IF j <= Len(t) THEN t[j] ELSE e]
    BY <2>1, <2>2
  <2> QED
    BY <2>3 DEF r
<1>2. ASSUME s # << >>
      PROVE  Append(Tail(s), e) =
               [j \in 1 .. Len(s) |-> IF j < Len(s) THEN s[j + 1] ELSE e]
  <2> DEFINE t == Tail(s)
  <2>1. /\ t \in Seq(S) /\ Len(t) = Len(s) - 1 /\ Len(s) \in Nat
        /\ \A j \in 1 .. Len(t) : t[j] = s[j + 1]
    BY <1>2, HeadTailProperties
  <2> HIDE DEF t
  <2>2. Append(t, e) = [j \in 1 .. Len(t) + 1 |-> IF j <= Len(t) THEN t[j] ELSE e]
    BY <1>1, <2>1
  <2>3. Len(t) + 1 = Len(s) /\ \A j \in 1 .. Len(s) : j <= Len(t) <=> j < Len(s)
    BY <2>1
  <2>4. \A j \in 1 .. Len(s) : j < Len(s) => j \in 1 .. Len(t)
    BY <2>1
  <2>5. Append(t, e) = [j \in 1 .. Len(s) |-> IF j < Len(s) THEN s[j + 1] ELSE e]
    BY <2>1, <2>2, <2>3, <2>4
  <2> QED
    BY <2>5 DEF t
<1> QED
  BY <1>1, <1>2

LEMMA InOrderIsQueue ==
  ASSUME IInv, NEW w, InLine(w), FreeFirst(w)
  PROVE  /\ InOrder(w) \in Seq(Pages)
         /\ Len(InOrder(w)) = NumFrames - Cardinality(FreeFrames)
         /\ \A i \in 1 .. Len(InOrder(w)) :
              /\ InOrder(w)[i] = frame_table[w[Cardinality(FreeFrames) + i]]
              /\ InOrder(w)[i] \in Resident
<1> DEFINE c == Cardinality(FreeFrames)
           s == InOrder(w)
<1>0. NumFrames \in Nat \ {0}
  BY VMMAssumption
<1>1. c \in 0 .. NumFrames /\ \A i \in 1 .. NumFrames : w[i] \in FreeFrames <=> i <= c
  BY FreeAtFront
<1>2. s = [i \in 1 .. NumFrames - c |-> frame_table[w[c + i]]]
  BY DEF InOrder
<1> HIDE DEF c, s
<1>3. \A i \in 1 .. NumFrames - c : c + i \in 1 .. NumFrames /\ ~ (c + i <= c)
  BY <1>0, <1>1
<1>4. \A i \in 1 .. NumFrames - c : w[c + i] \in Frames /\ w[c + i] \notin FreeFrames
  BY <1>1, <1>3 DEF InLine
<1>5. \A i \in 1 .. NumFrames - c : s[i] \in Resident /\ s[i] \in Pages
  BY <1>2, <1>4 DEF FreeFrames, Resident, IInv, TypeOK, TablesInv, TablesAgree
<1>6. s \in Seq(Pages) /\ Len(s) = NumFrames - c
  <2>1. NumFrames - c \in Nat
    BY <1>0, <1>1
  <2> QED
    BY <1>2, <1>5, <2>1
<1> QED
  BY <1>2, <1>5, <1>6 DEF s, c

\* The fault of the frame in front: its page joins at the back and the victim,
\* if there must be one, left from the front.
LEMMA FaultArrives ==
  ASSUME IInv, NEW w, InLine(w), FreeFirst(w), NEW op, NEW p \in Pages,
         ServiceFault(op, p, w[1], {})
  PROVE  LET s == InOrder(w)
         IN /\ ~ \E i \in 1 .. Len(s) : s[i] = p
            /\ InOrder(Moved(w, 1))' =
                 Append(IF Len(s) = NumFrames THEN Tail(s) ELSE s, p)
<1> DEFINE c == Cardinality(FreeFrames)
           d == Cardinality(FreeFrames')
           s == InOrder(w)
           v == Moved(w, 1)
           t == InOrder(v)'
<1>0. NumFrames \in Nat \ {0} /\ 1 \in 1 .. NumFrames /\ w[1] \in Frames
  BY VMMAssumption DEF InLine
<1>1. c \in 0 .. NumFrames /\ \A i \in 1 .. NumFrames : w[i] \in FreeFrames <=> i <= c
  BY FreeAtFront
<1>2. /\ s \in Seq(Pages) /\ Len(s) = NumFrames - c
      /\ \A i \in 1 .. Len(s) : s[i] = frame_table[w[c + i]] /\ s[i] \in Resident
  BY InOrderIsQueue
<1>3. ~ \E i \in 1 .. Len(s) : s[i] = p
  BY <1>2 DEF ServiceFault, Resident
<1>4. /\ FreeFrames' = FreeFrames \ {w[1]}
      /\ frame_table'[w[1]] = p
      /\ \A f \in Frames \ {w[1]} : frame_table'[f] = frame_table[f]
  <2> DEFINE front == w[1]
  <2>1. front \in Frames /\ ServiceFault(op, p, front, {})
    BY <1>0
  <2> HIDE DEF front
  <2>2. /\ FreeFrames' = FreeFrames \ {front}
        /\ frame_table'[front] = p
        /\ \A f \in Frames \ {front} : frame_table'[f] = frame_table[f]
    BY <2>1, FaultUsesFrame
  <2> QED
    BY <2>2 DEF front
<1>5. d = IF c = 0 THEN 0 ELSE c - 1
  <2>1. IsFiniteSet(FreeFrames)
    <3>1. IsFiniteSet(Frames)
      BY <1>0, FS_Interval DEF Frames
    <3> QED
      BY <3>1, FS_Subset DEF FreeFrames
  <2>2. d = IF w[1] \in FreeFrames THEN c - 1 ELSE c
    BY <1>4, <2>1, FS_RemoveElement
  <2> QED
    BY <1>0, <1>1, <2>2
<1>6. t = [i \in 1 .. NumFrames - d |-> frame_table'[v[d + i]]]
  BY DEF InOrder
<1>7. /\ v[NumFrames] = w[1]
      /\ \A i \in 1 .. NumFrames - 1 : v[i] = w[i + 1]
  BY <1>0 DEF Moved
<1> HIDE DEF c, d, s, t, v
<1>8. \A i \in 2 .. NumFrames : frame_table'[w[i]] = frame_table[w[i]]
  BY <1>0, <1>4 DEF InLine
<1>9. CASE c = 0
  <2>1. s # << >>
    BY <1>0, <1>2, <1>9
  <2>2. Append(Tail(s), p) = [j \in 1 .. Len(s) |-> IF j < Len(s) THEN s[j + 1] ELSE p]
    BY <1>2, <2>1, Appended
  <2>3. Len(s) = NumFrames /\ d = 0
    BY <1>0, <1>2, <1>5, <1>9
  <2>4. ASSUME NEW i \in 1 .. NumFrames
        PROVE  frame_table'[v[d + i]] = IF i < Len(s) THEN s[i + 1] ELSE p
    <3>1. CASE i = NumFrames
      BY <1>0, <1>4, <1>7, <2>3, <3>1
    <3>2. CASE i < NumFrames
      <4>1. /\ i \in 1 .. NumFrames - 1 /\ i + 1 \in 2 .. NumFrames /\ d + i = i
            /\ i + 1 \in 1 .. Len(s) /\ c + (i + 1) = i + 1
        BY <1>0, <1>9, <2>3, <3>2
      <4> QED
        BY <1>2, <1>7, <1>8, <2>3, <3>2, <4>1
    <3> QED
      BY <1>0, <3>1, <3>2
  <2>5. t = Append(Tail(s), p)
    BY <1>0, <1>6, <2>2, <2>3, <2>4
  <2> QED
    BY <1>3, <2>3, <2>5 DEF s, t, v
<1>10. CASE c # 0
  <2>1. Append(s, p) = [j \in 1 .. Len(s) + 1 |-> IF j <= Len(s) THEN s[j] ELSE p]
    BY <1>2, Appended
  <2>2. Len(s) # NumFrames /\ d = c - 1 /\ NumFrames - d = Len(s) + 1 /\ Len(s) \in Nat
    BY <1>0, <1>1, <1>2, <1>5, <1>10
  <2>3. ASSUME NEW i \in 1 .. NumFrames - d
        PROVE  frame_table'[v[d + i]] = IF i <= Len(s) THEN s[i] ELSE p
    <3>1. CASE i = NumFrames - d
      BY <1>0, <1>1, <1>4, <1>7, <2>2, <3>1
    <3>2. CASE i < NumFrames - d
      <4>1. /\ d + i \in 1 .. NumFrames - 1 /\ (d + i) + 1 = c + i
            /\ c + i \in 2 .. NumFrames /\ i \in 1 .. Len(s)
        BY <1>0, <1>1, <1>10, <2>2, <3>2
      <4> QED
        BY <1>2, <1>7, <1>8, <2>2, <4>1
    <3> QED
      BY <1>0, <1>1, <2>2, <3>1, <3>2
  <2>4. t = Append(s, p)
    BY <1>6, <2>1, <2>2, <2>3
  <2> QED
    BY <1>3, <2>2, <2>4 DEF s, t, v
<1> QED
  BY <1>9, <1>10

\* A hit finds its page in the order, behind the free frames.
LEMMA HitIsInOrder ==
  ASSUME IInv, NEW w, InLine(w), FreeFirst(w), NEW p \in Resident,
         NEW k \in 1 .. NumFrames, w[k] = page_table[p].frame_number
  PROVE  /\ k - Cardinality(FreeFrames) \in 1 .. Len(InOrder(w))
         /\ InOrder(w)[k - Cardinality(FreeFrames)] = p
<1> DEFINE c == Cardinality(FreeFrames)
<1>0. NumFrames \in Nat \ {0}
  BY VMMAssumption
<1>1. c \in 0 .. NumFrames /\ \A i \in 1 .. NumFrames : w[i] \in FreeFrames <=> i <= c
  BY FreeAtFront
<1>2. frame_table[w[k]] = p /\ p # EMPTY
  BY EmptyIsNoPage DEF IInv, TablesInv, TablesAgree, Resident
<1>3. k > c
  BY <1>1, <1>2 DEF FreeFrames
<1> HIDE DEF c
<1>4. k - c \in 1 .. NumFrames - c /\ c + (k - c) = k
  BY <1>0, <1>1, <1>3
<1> QED
  BY <1>2, <1>4, InOrderIsQueue DEF c

LEMMA HitRequeues ==
  ASSUME IInv, NEW w, InLine(w), FreeFirst(w), NEW op, NEW p \in Pages, Hit(op, p),
         NEW k \in 1 .. NumFrames, w[k] = page_table[p].frame_number
  PROVE  LET s == InOrder(w)
             i == k - Cardinality(FreeFrames)
         IN InOrder(Moved(w, k))' =
              Requeue(s, i, p)
<1> DEFINE c == Cardinality(FreeFrames)
           s == InOrder(w)
           i == k - c
           v == Moved(w, k)
           t == InOrder(v)'
<1>0. NumFrames \in Nat \ {0} /\ p \in Resident
  BY VMMAssumption DEF Hit, Resident
<1>1. c \in 0 .. NumFrames
  BY FreeAtFront
<1>2. /\ s \in Seq(Pages) /\ Len(s) = NumFrames - c
      /\ \A j \in 1 .. Len(s) : s[j] = frame_table[w[c + j]]
  BY InOrderIsQueue
<1>3. i \in 1 .. Len(s) /\ s[i] = p
  BY <1>0, HitIsInOrder
<1>4. frame_table' = frame_table /\ FreeFrames' = FreeFrames
  BY DEF Hit, FreeFrames
<1>5. t = [j \in 1 .. NumFrames - c |-> frame_table[v[c + j]]]
  BY <1>4 DEF InOrder
<1>6. \A j \in 1 .. NumFrames :
        v[j] = IF j < k THEN w[j] ELSE IF j < NumFrames THEN w[j + 1] ELSE w[k]
  BY DEF Moved
<1>k. i + c = k /\ i \in Int
  BY <1>0, <1>1
<1> HIDE DEF c, s, v, t, i
<1>7. ASSUME NEW j \in 1 .. NumFrames - c
      PROVE  frame_table[v[c + j]] =
               IF j < i THEN s[j] ELSE IF j < Len(s) THEN s[j + 1] ELSE p
  <2>1. c + j \in 1 .. NumFrames /\ j \in 1 .. Len(s)
    BY <1>0, <1>1, <1>2
  <2>2. CASE j < i
    <3>1. c + j < k
      BY <1>0, <1>1, <1>k, <2>1, <2>2
    <3>2. v[c + j] = w[c + j]
      BY <1>6, <2>1, <3>1
    <3> QED
      BY <1>2, <2>1, <2>2, <3>2
  <2>3. CASE j >= i /\ j < Len(s)
    <3>1. /\ ~ (c + j < k) /\ c + j < NumFrames /\ (c + j) + 1 = c + (j + 1)
          /\ j + 1 \in 1 .. Len(s)
      BY <1>0, <1>1, <1>2, <1>k, <2>1, <2>3
    <3>2. v[c + j] = w[c + (j + 1)]
      BY <1>6, <2>1, <3>1
    <3>3. s[j + 1] = frame_table[w[c + (j + 1)]]
      BY <1>2, <3>1
    <3> QED
      BY <1>3, <2>1, <2>3, <3>2, <3>3
  <2>4. CASE j >= i /\ j = Len(s)
    <3>1. ~ (c + j < k) /\ ~ (c + j < NumFrames) /\ c + i = k
      BY <1>0, <1>1, <1>2, <1>k, <2>1, <2>4
    <3>2. frame_table[w[k]] = p
      BY <1>2, <1>3, <3>1
    <3>3. v[c + j] = w[k]
      BY <1>6, <2>1, <3>1
    <3> QED
      BY <1>3, <2>1, <2>4, <3>2, <3>3
  <2> QED
    <3>1. Len(s) \in Nat /\ j \in Int
      BY <1>2, <2>1
    <3>2. j < i \/ (j >= i /\ j < Len(s)) \/ (j >= i /\ j = Len(s))
      BY <1>k, <2>1, <3>1
    <3> QED
      BY <2>2, <2>3, <2>4, <3>2
<1>8. Requeue(s, i, p) =
        [j \in 1 .. Len(s) |-> IF j < i THEN s[j]
                               ELSE IF j < Len(s) THEN s[j + 1] ELSE p]
  <2>1. s \in Seq(Pages) /\ i \in 1 .. Len(s) /\ p \in Pages
    BY <1>2, <1>3
  <2> QED
    BY <2>1, Requeued
<1>9. t = Requeue(s, i, p)
  BY <1>2, <1>5, <1>7, <1>8
<1> QED
  BY <1>9 DEF t, s, v, c, i

\* FIFO's queue as a line of frames, from its front on.
Front(h) == [i \in 1 .. NumFrames |-> Around(h, i - 1, NumFrames)]

LEMMA FrontIsLine ==
  ASSUME IInv, NEW h \in Frames, Lowest(h, FreeFrames)
  PROVE  /\ InLine(Front(h)) /\ FreeFirst(Front(h)) /\ Front(h)[1] = h
         /\ Moved(Front(h), 1) = Front(Around(h, 1, NumFrames))
<1> DEFINE w == Front(h)
<1>0. NumFrames \in Nat \ {0} /\ h \in 0 .. NumFrames - 1 /\ Frames = 0 .. NumFrames - 1
  BY VMMAssumption DEF Frames
<1>1. /\ DOMAIN w = 1 .. NumFrames
      /\ \A i \in 1 .. NumFrames :
           w[i] = IF h + (i - 1) < NumFrames THEN h + (i - 1) ELSE h + (i - 1) - NumFrames
  BY DEF Front, Around
<1>2. w \in [1 .. NumFrames -> Frames]
  BY <1>0 DEF Front, Around
<1>3. ASSUME NEW f \in Frames PROVE \E i \in 1 .. NumFrames : w[i] = f
  <2>1. PICK i \in 0 .. NumFrames - 1 : Around(h, i, NumFrames) = f
    BY <1>0, AroundReaches
  <2>2. i + 1 \in 1 .. NumFrames /\ (i + 1) - 1 = i
    BY <1>0
  <2> QED
    BY <2>1, <2>2 DEF Front
<1> HIDE DEF w
<1>4. \A i, j \in 1 .. NumFrames : w[i] = w[j] => i = j
  BY <1>0, <1>1
<1>5. InLine(w)
  BY <1>2, <1>3, <1>4 DEF InLine
<1>6. FreeFirst(w)
  <2> SUFFICES ASSUME NEW i \in 1 .. NumFrames, NEW j \in 1 .. NumFrames,
                      i < j, frame_table[w[j]] = EMPTY
               PROVE  frame_table[w[i]] = EMPTY /\ w[i] < w[j]
    BY DEF FreeFirst
  <2>1. w[j] \in FreeFrames /\ w[i] \in Frames /\ w[j] \in Frames
    BY <1>2 DEF FreeFrames
  <2>2. h \in FreeFrames /\ h <= w[j]
    BY <2>1 DEF Lowest
  <2>3. h + (j - 1) < NumFrames
    BY <1>0, <1>1, <2>2
  <2>4. h <= w[i] /\ w[i] < w[j]
    BY <1>0, <1>1, <2>3
  <2>5. w[i] = h \/ h < w[i]
    BY <1>0, <2>1, <2>4
  <2> QED
    BY <2>1, <2>2, <2>4, <2>5 DEF IInv, TablesInv, FilledInOrder, FreeFrames
<1>7. w[1] = h
  BY <1>0, <1>1
<1>8. Moved(w, 1) = Front(Around(h, 1, NumFrames))
  <2> DEFINE g == Around(h, 1, NumFrames)
             v == Moved(w, 1)
             u == Front(g)
  <2>1. DOMAIN v = 1 .. NumFrames /\ DOMAIN u = 1 .. NumFrames
        /\ v = [i \in 1 .. NumFrames |-> v[i]] /\ u = [i \in 1 .. NumFrames |-> u[i]]
    BY DEF Moved, Front
  <2>2. g = IF h + 1 < NumFrames THEN h + 1 ELSE 0
    BY <1>0 DEF Around
  <2>3. \A i \in 1 .. NumFrames :
          u[i] = IF g + (i - 1) < NumFrames THEN g + (i - 1) ELSE g + (i - 1) - NumFrames
    BY DEF Front, Around
  <2>4. \A i \in 1 .. NumFrames : v[i] = IF i < NumFrames THEN w[i + 1] ELSE w[1]
    BY <1>0 DEF Moved
  <2> HIDE DEF g, v, u
  <2>5. ASSUME NEW i \in 1 .. NumFrames PROVE v[i] = u[i]
    <3>1. CASE i < NumFrames
      <4>1. i + 1 \in 1 .. NumFrames /\ (i + 1) - 1 = i
        BY <1>0, <3>1
      <4> QED
        BY <1>0, <1>1, <2>2, <2>3, <2>4, <3>1, <4>1
    <3>2. CASE i = NumFrames
      BY <1>0, <1>7, <2>2, <2>3, <2>4, <3>2
    <3> QED
      BY <1>0, <3>1, <3>2
  <2>6. v = u
    BY <2>1, <2>5
  <2> QED
    BY <2>6 DEF g, v, u
<1> QED
  BY <1>5, <1>6, <1>7, <1>8 DEF w

LEMMA FIFOOrder ==
  ASSUME IInv, NEW h \in Frames, Lowest(h, FreeFrames), frames = Queue(h)
  PROVE  FIFO!Order = InOrder(Front(h))
<1> DEFINE c == Cardinality(FreeFrames)
<1>0. NumFrames \in Nat \ {0} /\ h \in 0 .. NumFrames - 1
  BY VMMAssumption DEF Frames
<1>1. c \in 0 .. NumFrames
  BY FrontIsLine, FreeAtFront
<1>2. FIFO!Cardinality(FIFO!FreeFrames) = c
  BY FIFOEngine DEF FIFO!Cardinality, Cardinality
<1> HIDE DEF c
<1>3. FIFO!Order = [i \in 1 .. NumFrames - c |-> frame_table[frames[c + i] - 1]]
  BY <1>2 DEF FIFO!Order
<1>4. ASSUME NEW i \in 1 .. NumFrames - c
      PROVE  frames[c + i] - 1 = Front(h)[c + i]
  <2>1. c + i \in 1 .. NumFrames
    BY <1>0, <1>1
  <2>2. Around(h, (c + i) - 1, NumFrames) \in Int
    BY <1>0, <2>1 DEF Around
  <2> DEFINE m == c + i
  <2>3. m \in 1 .. NumFrames /\ Around(h, m - 1, NumFrames) \in Int
    BY <2>1, <2>2
  <2> HIDE DEF m
  <2>4. frames[m] = Around(h, m - 1, NumFrames) + 1
        /\ Front(h)[m] = Around(h, m - 1, NumFrames)
    BY <2>3 DEF Queue, Front
  <2>5. frames[m] - 1 = Front(h)[m]
    BY <2>3, <2>4
  <2> QED
    BY <2>5 DEF m
<1>5. FIFO!Order = [i \in 1 .. NumFrames - c |-> frame_table[Front(h)[c + i]]]
  BY <1>3, <1>4
<1> QED
  BY <1>5 DEF InOrder, c

\* The same of the next state.
LEMMA FIFOOrderNext ==
  (\A h \in Frames : IInv /\ Lowest(h, FreeFrames) /\ frames = Queue(h) =>
     FIFO!Order = InOrder(Front(h)))'
<1>1. \A h \in Frames : IInv /\ Lowest(h, FreeFrames) /\ frames = Queue(h) =>
        FIFO!Order = InOrder(Front(h))
  BY FIFOOrder
<1> QED
  BY <1>1, PTL

LEMMA FIFOArrives ==
  ASSUME IInv, QueueInv, NEW op \in Operations, NEW p \in Pages, FIFO!FIFOFault(op, p)
  PROVE  FIFO!Arrival!Arrive(p)
<1>1. PICK h \in Frames : frames = Queue(h) /\ Lowest(h, FreeFrames)
  BY DEF QueueInv
<1> DEFINE w == Front(h)
           g == Around(h, 1, NumFrames)
<1>2. /\ ServiceFault(op, p, h, {}) /\ frames' = Queue(g) /\ g \in Frames
  <2>1. Head(frames) - 1 = h
    <3>1. Head(Queue(h)) = h + 1 /\ h \in Int
      BY QueueFront, VMMAssumption DEF Frames
    <3> QED
      BY ONLY <1>1, <3>1
  <2> QED
    BY <1>1, <2>1, FIFOEngine, QueueTurns, QueueFront DEF FIFO!FIFOFault, FIFO!rotate
<1>3. InLine(w) /\ FreeFirst(w) /\ w[1] = h /\ Moved(w, 1) = Front(g)
  BY <1>1, FrontIsLine
<1> HIDE DEF w, g
<1>4. IInv' /\ Lowest(g, FreeFrames')
  <2>1. SelectFrame(h, {})
    BY <1>1, LowestMayBeTaken, AnyMayBeTaken
  <2>2. FreeFrames' = FreeFrames \ {h}
    BY <1>2, FaultUsesFrame
  <2> QED
    BY <1>1, <1>2, <2>1, <2>2, AllowedFault, LowestAdvances, LowestOfNone DEF g
<1> DEFINE s == InOrder(w)
<1>5. FIFO!Order = s
  BY <1>1, FIFOOrder DEF w
<1>6. FIFO!Order' = InOrder(Front(g))'
  BY <1>2, <1>4, FIFOOrderNext
<1>7. /\ ~ \E i \in 1 .. Len(s) : s[i] = p
      /\ InOrder(Moved(w, 1))' = Append(IF Len(s) = NumFrames THEN Tail(s) ELSE s, p)
  <2>1. ServiceFault(op, p, w[1], {})
    BY <1>2, <1>3
  <2> QED
    BY <1>3, <2>1, FaultArrives
<1>8. FIFO!Order' = Append(IF Len(s) = NumFrames THEN Tail(s) ELSE s, p)
  BY <1>3, <1>6, <1>7
<1> HIDE DEF s
<1> QED
  BY <1>5, <1>7, <1>8 DEF FIFO!Arrival!Arrive, FIFO!Arrival!Contains

LEMMA FIFOHits ==
  ASSUME IInv, QueueInv, NEW op \in Operations, NEW p \in Pages, FIFO!FIFOHit(op, p)
  PROVE  FIFO!Arrival!Hit(p)
<1>1. PICK h \in Frames : frames = Queue(h) /\ Lowest(h, FreeFrames)
  BY DEF QueueInv
<1>2. Hit(op, p) /\ frames' = frames
  BY FIFOEngine DEF FIFO!FIFOHit
<1>3. FIFO!Order' = FIFO!Order
  BY <1>2 DEF FIFO!Order, FIFO!FreeFrames, FIFO!Frames, FIFO!EMPTY, FIFO!Cardinality, Hit
<1> DEFINE w == Front(h)
<1>4. InLine(w) /\ FreeFirst(w) /\ FIFO!Order = InOrder(w)
  BY <1>1, FrontIsLine, FIFOOrder
<1> HIDE DEF w
<1>5. p \in Resident /\ page_table[p].frame_number \in Frames
  BY <1>2 DEF Hit, Resident, IInv, TypeOK, PTE
<1>6. PICK k \in 1 .. NumFrames : w[k] = page_table[p].frame_number
  BY <1>4, <1>5 DEF InLine
<1>7. \E i \in 1 .. Len(InOrder(w)) : InOrder(w)[i] = p
  BY <1>4, <1>5, <1>6, HitIsInOrder
<1> QED
  BY <1>3, <1>4, <1>7 DEF FIFO!Arrival!Hit

LEMMA LRUOrder ==
  ASSUME NEW w, Line(w)
  PROVE  LRU!Order = InOrder(w)
<1> DEFINE c == Cardinality(FreeFrames)
<1>0. NumFrames \in Nat \ {0} /\ InLine(w) /\ Linked(w) /\ FreeFirst(w)
  BY VMMAssumption DEF Line
<1>1. c \in 0 .. NumFrames
  BY <1>0, FreeAtFront
<1>2. LRU!Cardinality(LRU!FreeFrames) = c
  BY LRUEngine DEF LRU!Cardinality, Cardinality
<1> HIDE DEF c
<1>3. LRU!Order = [i \in 1 .. NumFrames - c |-> frame_table[LRU!Walk[c + i]]]
  BY <1>2 DEF LRU!Order
<1>4. \A i \in 1 .. NumFrames - c : c + i \in 1 .. NumFrames
  BY <1>0, <1>1
<1>5. \A i \in 1 .. NumFrames - c : LRU!Walk[c + i] = w[c + i]
  BY <1>0, <1>4, WalkIsLine
<1>6. LRU!Order = [i \in 1 .. NumFrames - c |-> frame_table[w[c + i]]]
  BY <1>3, <1>5
<1> QED
  BY <1>6 DEF InOrder, c

\* The same of the next state.
LEMMA LRUOrderNext == (\A w : Line(w) => LRU!Order = InOrder(w))'
<1>1. \A w : Line(w) => LRU!Order = InOrder(w)
  BY LRUOrder
<1> QED
  BY <1>1, PTL

LEMMA LRUArrives ==
  ASSUME IInv, ListInv, NEW op \in Operations, NEW p \in Pages, LRU!LRUFault(op, p)
  PROVE  LRU!Recent!Arrive(p)
<1>1. PICK w : Line(w)
  BY DEF ListInv, Line
<1>2. InLine(w) /\ FreeFirst(w)
  BY <1>1 DEF Line
<1>3. ServiceFault(op, p, w[1], {}) /\ Line(Moved(w, 1))'
  BY <1>1, LRUFaultMoves
<1> DEFINE s == InOrder(w)
           v == Moved(w, 1)
<1>4. LRU!Order = s
  BY <1>1, LRUOrder
<1>5. LRU!Order' = InOrder(v)'
  BY <1>3, LRUOrderNext
<1>6. /\ ~ \E i \in 1 .. Len(s) : s[i] = p
      /\ InOrder(v)' = Append(IF Len(s) = NumFrames THEN Tail(s) ELSE s, p)
  BY <1>2, <1>3, FaultArrives
<1> HIDE DEF s, v
<1> QED
  BY <1>4, <1>5, <1>6 DEF LRU!Recent!Arrive, LRU!Recent!Contains

LEMMA LRUHits ==
  ASSUME IInv, ListInv, NEW op \in Operations, NEW p \in Pages,
         LRU!LRUHit(op, p), status' = "running"
  PROVE  LRU!Recent!Hit(p)
<1>1. PICK w : Line(w)
  BY DEF ListInv, Line
<1>2. InLine(w) /\ FreeFirst(w)
  BY <1>1 DEF Line
<1>3. NumFrames # 1
  <2> SUFFICES ASSUME NumFrames = 1 PROVE FALSE
    OBVIOUS
  <2>1. page_table[p].present /\ page_table[p].frame_number \in Frames
    BY DEF LRU!LRUHit, IInv, TypeOK, PTE
  <2>2. page_table[p].frame_number = w[1] /\ w[1] = sorted_list
        /\ next[w[1]] = LRU!NULL
    BY <1>1, <2>1 DEF Frames, Line, InLine, Linked
  <2> QED
    BY <2>2 DEF LRU!LRUHit, LRU!BadPointer
<1>4. /\ Hit(op, p)
      /\ \E k \in 1 .. NumFrames :
           w[k] = page_table[p].frame_number /\ Line(Moved(w, k))'
  BY <1>1, <1>3, LRUHitMoves
<1>5. PICK k \in 1 .. NumFrames :
        w[k] = page_table[p].frame_number /\ Line(Moved(w, k))'
  BY <1>4
<1>6. p \in Resident
  BY <1>4 DEF Hit, Resident
<1> DEFINE s == InOrder(w)
           i == k - Cardinality(FreeFrames)
<1>7. LRU!Order = s
  BY <1>1, LRUOrder
<1>8. LRU!Order' = InOrder(Moved(w, k))'
  BY <1>5, LRUOrderNext
<1>9. i \in 1 .. Len(s) /\ s[i] = p
  BY <1>2, <1>5, <1>6, HitIsInOrder
<1>10. InOrder(Moved(w, k))' = Requeue(s, i, p)
  BY <1>2, <1>4, <1>5, HitRequeues
<1> HIDE DEF s, i
<1>11. LRU!Order' = Append(LRU!Recent!RemoveAt(s, i), p)
  BY <1>8, <1>10 DEF Requeue, LRU!Recent!RemoveAt
<1>12. \E j \in 1 .. Len(s) :
         s[j] = p /\ LRU!Order' = Append(LRU!Recent!RemoveAt(s, j), p)
  BY <1>9, <1>11
<1> QED
  BY <1>7, <1>12 DEF LRU!Recent!Hit

\* Nothing is resident at first.
LEMMA OrderStart ==
  ASSUME Init
  PROVE  FIFO!Order = << >> /\ LRU!Order = << >>
<1>1. NumFrames \in Nat \ {0} /\ FreeFrames = 0 .. NumFrames - 1
  BY VMMAssumption DEF Init, FreeFrames, Frames
<1>2. Cardinality(FreeFrames) = NumFrames
  BY <1>1, FS_Interval
<1>3. FIFO!Cardinality(FIFO!FreeFrames) = NumFrames
      /\ LRU!Cardinality(LRU!FreeFrames) = NumFrames
  BY <1>2, FIFOEngine, LRUEngine DEF FIFO!Cardinality, LRU!Cardinality, Cardinality
<1>4. 1 .. NumFrames - NumFrames = {}
  BY <1>1
<1>5. ASSUME NEW f, f = [i \in {} |-> frame_table[i]]
      PROVE  f = << >>
  BY <1>5
<1> QED
  BY <1>3, <1>4 DEF FIFO!Order, LRU!Order

(* The resident pages, in the line's order, are the textbook queue: first  *)
(* in first out for FIFO, least recently used for LRU.                     *)
THEOREM EvictsAlwaysInOrder == MMUSpec => EvictsInOrder
<1>1. MMUInit => /\ algorithm = "f" => FIFO!Arrival!OrderInit
                 /\ algorithm = "l" => LRU!Recent!OrderInit
  BY InitEngine, OrderStart DEF FIFO!Arrival!OrderInit, LRU!Recent!OrderInit
<1>2. MInv /\ [MMUNext]_mmuvars =>
        [\A op \in Operations, p \in Pages :
           /\ algorithm = "f" =>
                /\ FIFO!FIFOFault(op, p) => FIFO!Arrival!Arrive(p)
                /\ FIFO!FIFOHit(op, p) => FIFO!Arrival!Hit(p)
           /\ algorithm = "l" =>
                /\ LRU!LRUFault(op, p) => LRU!Recent!Arrive(p)
                /\ LRU!LRUHit(op, p) /\ status' = "running" => LRU!Recent!Hit(p)]_mmuvars
  <2> SUFFICES ASSUME MInv, NEW op \in Operations, NEW p \in Pages
               PROVE /\ algorithm = "f" =>
                          /\ FIFO!FIFOFault(op, p) => FIFO!Arrival!Arrive(p)
                          /\ FIFO!FIFOHit(op, p) => FIFO!Arrival!Hit(p)
                     /\ algorithm = "l" =>
                          /\ LRU!LRUFault(op, p) => LRU!Recent!Arrive(p)
                          /\ LRU!LRUHit(op, p) /\ status' = "running" =>
                               LRU!Recent!Hit(p)
    OBVIOUS
  <2>1. status = "running" => IInv /\ PolicyInv
    BY DEF MInv
  <2>2. FIFO!FIFOFault(op, p) \/ FIFO!FIFOHit(op, p) => status = "running"
    BY DEF FIFO!FIFOFault, FIFO!FIFOHit, FIFO!ServiceFault, FIFO!Hit
  <2>3. LRU!LRUFault(op, p) \/ LRU!LRUHit(op, p) => status = "running"
    BY DEF LRU!LRUFault, LRU!LRUHit, LRU!ServiceFault
  <2>4. ASSUME algorithm = "f"
        PROVE  /\ FIFO!FIFOFault(op, p) => FIFO!Arrival!Arrive(p)
               /\ FIFO!FIFOHit(op, p) => FIFO!Arrival!Hit(p)
    BY <2>1, <2>2, <2>4, FIFOArrives, FIFOHits DEF PolicyInv
  <2>5. ASSUME algorithm = "l"
        PROVE  /\ LRU!LRUFault(op, p) => LRU!Recent!Arrive(p)
               /\ LRU!LRUHit(op, p) /\ status' = "running" => LRU!Recent!Hit(p)
    BY <2>1, <2>3, <2>5, LRUArrives, LRUHits DEF PolicyInv
  <2> QED
    BY <2>4, <2>5
<1> QED
  BY <1>1, <1>2, MInvariance, PTL DEF MMUSpec, EvictsInOrder
=============================================================================
