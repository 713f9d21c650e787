----------------------------- MODULE Containers -----------------------------
(* The container classes, one at a time: FIFO, on which Lab2 and Lab3      *)
(* rely, Stack, LinkedList, SortedList and Heap of Lab2.  The variables    *)
(* of the other classes do not exist.                                      *)
EXTENDS Cells, Integers

CONSTANTS START_MEM, MaxSize  \* of the heap: see Heap

VARIABLES class,                                       \* the class in use
          queue, alive, answer,                        \* FIFO and the lists
          data, size, room, cloned, strained, heapstatus   \* Heap

array == <<data, size, room, cloned, strained, heapstatus>>
cvars == <<class, heap, used, queue, alive, answer, array>>

Fifo  == INSTANCE FIFO
Lists == INSTANCE LinkedList
Array == INSTANCE Heap

ASSUME RoomAssumption == /\ START_MEM \in Nat \ {0} /\ Array!PowerOfTwo(START_MEM)
                         /\ MaxSize \in Nat

NOTHING == 0
NoArray == /\ data = NOTHING /\ size = NOTHING /\ room = NOTHING
           /\ cloned = NOTHING /\ strained = NOTHING /\ heapstatus = NOTHING
NoCells == heap = NOTHING /\ used = NOTHING /\ queue = NOTHING /\ alive = NOTHING

ChainClasses == {"FIFO", "Stack", "LinkedList", "SortedList"}

CInit == \/ class = "FIFO" /\ Fifo!Init /\ NoArray
         \/ Lists!Init /\ NoArray
         \/ class = "Heap" /\ Array!Init /\ NoCells

CNext == \/ class = "FIFO" /\ Fifo!Next /\ UNCHANGED <<class, array>>
         \/ class \in ChainClasses \ {"FIFO"} /\ Lists!Next /\ UNCHANGED array
         \/ class = "Heap" /\ Array!Next /\ UNCHANGED <<class, heap, used, queue, alive>>

CSpec == CInit /\ [][CNext]_cvars
-----------------------------------------------------------------------------
Chain(q) == IF class = "FIFO" THEN Fifo!Chain(q) ELSE Lists!Chain(q)
CellsOf(q) == {Chain(q)[i] : i \in DOMAIN Chain(q)}

(* The chains of the containers partition the cells in use: none reaches a *)
(* freed cell or a cell of another (or of its clone), and none is leaked.  *)
(* size() is the length of the chain, through clone and through get of an  *)
(* empty container, and the pointer FIFO's put writes through is its last  *)
(* cell's.                                                                 *)
ChainsAreSound ==
  class \in ChainClasses =>
    /\ used = UNION {CellsOf(q) : q \in alive}
    /\ \A q, r \in alive : q # r => CellsOf(q) \cap CellsOf(r) = {}
    /\ \A q \in alive :
         /\ queue[q].size = Len(Chain(q))
         /\ class = "FIFO" /\ Chain(q) # <<>> => queue[q].in = Chain(q)[Len(Chain(q))]

Last(s, o)   == Append(s, o)
First(s, o)  == <<o>> \o s
ByTime(s, o) == Array!Inserted(s, o, Lists!FT)

Contents == [q \in Names |-> IF q \in alive THEN Held(Chain(q)) ELSE <<>>]
Queue  == INSTANCE Queues WITH contents <- Contents, Added <- Last
Stack  == INSTANCE Queues WITH contents <- Contents, Added <- First
Sorted == INSTANCE Queues WITH contents <- Contents, Added <- ByTime

(* The chains behave as independent queues, stacks and lists in the order  *)
(* of time, whatever the dangling pointers; events at the same time keep   *)
(* the order they were inserted in.                                        *)
KeepOrder ==
  /\ class \in ChainClasses => Queue!QInit
  /\ [][/\ class = "FIFO" => [Queue!QNext]_(Queue!qvars)
        /\ class \in {"Stack", "LinkedList"} => [Stack!QNext]_(Stack!qvars)
        /\ class = "SortedList" => [Sorted!QNext]_(Sorted!qvars)]_cvars

(* The array heap, whatever places get compares: no element is lost or made *)
(* up; it is in order while get was called on three elements at most; get  *)
(* reads behind the elements only of seven or more, and only a clone is    *)
(* written behind its end.                                                 *)
HeapIsSound ==
  /\ [](class = "Heap" => Array!SmallIsOrdered /\ Array!ReadsInside /\ Array!WritesInside)
  /\ [][class = "Heap" => Array!KeepsElements]_cvars
=============================================================================
