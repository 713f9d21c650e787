-------------------------------- MODULE Heap --------------------------------
(* The Heap class (Lab2/src/heap.c): an array that grows, ordered by the   *)
(* algorithms of Ordering, and what its clones start with.  One heap; a   *)
(* client that clones it goes on with the clone.                           *)
EXTENDS Ordering

CONSTANTS Objects,    \* what is kept: numbers, by which they are compared
          NIL,
          START_MEM,  \* the places allocated at first, 16 in the code
          MaxSize     \* bound of the model: the most elements put

VARIABLES data,      \* the places in use: 0..size - 1 -> object
          size,
          room,      \* the places allocated
          cloned,    \* is this heap a clone?
          strained,  \* has get been called on more than three elements?
          answer,    \* what the last get or peek returned
          heapstatus \* "running", or "overflow" behind a write out of bounds

heapvars == <<data, size, room, cloned, strained, answer, heapstatus>>

key == [o \in Objects |-> o]

\* (i & (i - 1)) == 0, of a positive number: one of 1, 2, 4, ...
PowerOfTwo(i) ==
  LET power[k \in 0..i] == IF k = 0 THEN 1 ELSE 2 * power[k - 1]
  IN  \E k \in 0..i : power[k] = i

Init == /\ data = <<>> /\ size = 0
        /\ room = START_MEM
        /\ cloned = FALSE /\ strained = FALSE
        /\ answer = NIL /\ heapstatus = "running"

\* Mutant of Grown: the first growth is one element late.
Grown_late(i) == IF i > START_MEM /\ PowerOfTwo(i) THEN 2 * i ELSE room

\* The places there are once the element of number i is added.
Grown(i) == IF i >= START_MEM /\ PowerOfTwo(i) THEN 2 * i ELSE room

put(o) ==
  /\ heapstatus = "running" /\ size < MaxSize
  /\ room' = Grown(size)
  /\ IF size < room'
     THEN data' = Put(key, data, size, o) /\ size' = size + 1 /\ UNCHANGED heapstatus
     ELSE heapstatus' = "overflow" /\ UNCHANGED <<data, size>>
  /\ UNCHANGED <<cloned, strained, answer>>

get ==
  /\ heapstatus = "running"
  /\ IF size > 0
     THEN /\ answer' = data[0]
          /\ \E beyond \in BOOLEAN : data' = Sifted(key, data, size, beyond).a
          /\ size' = size - 1
          /\ strained' = (strained \/ size > 3)
     ELSE answer' = NIL /\ UNCHANGED <<data, size, strained>>
  /\ UNCHANGED <<room, cloned, heapstatus>>

\* Without a test: place 0 of an empty heap holds anything.
peek == /\ heapstatus = "running"
        /\ \/ size > 0 /\ answer' = data[0]
           \/ size = 0 /\ answer' \in Objects \cup {NIL}
        /\ UNCHANGED <<data, size, room, cloned, strained, heapstatus>>

\* The smallest power of two that the elements fit in.
CloneRoom == CHOOSE r \in 1..2 * MaxSize :
               /\ PowerOfTwo(r) /\ size <= r
               /\ \A q \in 1..r - 1 : PowerOfTwo(q) => q < size

clone == /\ heapstatus = "running"
         /\ room' = CloneRoom
         /\ cloned' = TRUE
         /\ UNCHANGED <<data, size, strained, answer, heapstatus>>

\* The elements are deleted with the heap; a new one is as Init says.
delete == /\ heapstatus = "running"
          /\ data' = <<>> /\ size' = 0 /\ room' = START_MEM
          /\ cloned' = FALSE /\ strained' = FALSE /\ answer' = NIL
          /\ UNCHANGED heapstatus

\* Behind a write out of bounds anything may happen: not modelled.
Overflown == heapstatus = "overflow" /\ UNCHANGED heapvars

Next == Overflown \/ get \/ peek \/ clone \/ delete \/ \E o \in Objects : put(o)
Spec == Init /\ [][Next]_heapvars
-----------------------------------------------------------------------------
\* How often o is kept.
Count(o) == Cardinality({i \in 0..size - 1 : data[i] = o})

(* get hands out an element the heap holds and only that one leaves; put   *)
(* adds one: also where get compares the wrong places, or memory that was  *)
(* never written.                                                          *)
KeepsElements ==
  \A o \in Objects :
    /\ put(o) /\ heapstatus' = "running" =>
         \A q \in Objects : Count(q)' = Count(q) + (IF q = o THEN 1 ELSE 0)
    /\ get => Count(o)' = Count(o) - (IF size > 0 /\ answer' = o THEN 1 ELSE 0)

(* As long as get was never called on more than three elements the heap is *)
(* ordered, so the element in front compares first; with four it need not  *)
(* be (put 1, 1, 2, 2, 2, get twice: 1 is in front of 2).                  *)
SmallIsOrdered ==
  ~strained => \A i \in 0..size - 1 : data[i] <= data[0] /\ data[i] <= data[Parent(i)]

(* get reads memory behind the elements only of a heap of seven or more.   *)
ReadsInside == size < 7 => ~Sifted(key, data, size, TRUE).strayed

(* put never writes behind the array, unless the heap is a clone: a clone  *)
(* has as many places as it needs at first and grows as if it had sixteen. *)
WritesInside == heapstatus = "overflow" => cloned
=============================================================================
