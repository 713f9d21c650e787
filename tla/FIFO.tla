-------------------------------- MODULE FIFO --------------------------------
(* The FIFO class (Lab3/src/FIFO.c, and Lab2's, which also deletes and     *)
(* clones what is queued): queues as chains of cells on the shared heap.   *)
(* A queue keeps its pointer to a cell it has freed: get of the last       *)
(* object leaves this->in alone, so it dangles until the next put, when    *)
(* the cell may belong to another queue.                                   *)
EXTENDS Cells

VARIABLES queue,   \* name -> the struct FIFO
          alive,   \* the names of constructed, not yet deleted queues
          answer   \* what the last get, peek or apply returned, as a sequence

vars == <<heap, used, queue, alive, answer>>

EmptyQueue == [in |-> NIL, out |-> NIL, size |-> 0]

Chain(q) == Walk(queue[q].out)
CellsOf(q) == {Chain(q)[i] : i \in DOMAIN Chain(q)}
Objs(q) == Held(Chain(q))
-----------------------------------------------------------------------------
Init == /\ heap = [c \in Cells |-> Blank]
        /\ used = {}
        /\ queue = [q \in Names |-> EmptyQueue]
        /\ alive = {}
        /\ answer = <<NIL>>

new(q) == /\ q \notin alive
          /\ alive' = alive \cup {q}
          /\ queue' = [queue EXCEPT ![q] = EmptyQueue]
          /\ UNCHANGED <<heap, used, answer>>

\* The objects are not deleted, only the cells (Lab3 comments that out).
delete(q) == /\ q \in alive
             /\ alive' = alive \ {q}
             /\ heap' = Freed(CellsOf(q))
             /\ used' = used \ CellsOf(q)
             /\ queue' = [queue EXCEPT ![q] = EmptyQueue]
             /\ UNCHANGED answer

\* Mutant of ClonedStruct: the clone keeps the pointers of the original.
ClonedStruct_shallow(q, copy) == queue[q]

\* Object's clone copies the struct, in and out included; both are then
\* replaced by the ends of a fresh chain, unless the queue is empty: then a
\* dangling in is copied as it stands.
ClonedStruct(q, copy) ==
  IF copy = <<>> THEN queue[q]
  ELSE [queue[q] EXCEPT !.in = copy[Len(copy)], !.out = copy[1]]

clone(q, r) ==
  /\ q \in alive /\ r \notin alive
  /\ alive' = alive \cup {r}
  /\ LET n == Len(Chain(q)) IN
     \E copy \in Fresh(n) :
       /\ used' = used \cup {copy[i] : i \in 1..n}
       /\ heap' = Copied(copy, Objs(q))
       /\ queue' = [queue EXCEPT ![r] = ClonedStruct(q, copy)]
  /\ UNCHANGED answer

Link(q, e) == [heap EXCEPT ![queue[q].in].next = e]

\* Mutant of Appended: the test is on in, which dangles after the last get.
Appended_in(q, e) == IF queue[q].in # NIL THEN Link(q, e) ELSE heap

\* The test is on out: in is followed only when the queue has a last cell.
Appended(q, e) == IF queue[q].out # NIL THEN Link(q, e) ELSE heap

put(q, o) ==
  /\ q \in alive
  /\ \E e \in Cells \ used :
       /\ used' = used \cup {e}
       /\ heap' = [Appended(q, e) EXCEPT ![e] = [obj |-> o, next |-> NIL]]
       /\ queue' = [queue EXCEPT ![q] =
                      [in |-> e,
                       out |-> IF queue[q].out # NIL THEN @.out ELSE e,
                       size |-> @.size + 1]]
  /\ UNCHANGED <<alive, answer>>

\* Mutants of Shortened: the last object is not counted down; the size of an
\* empty queue is.
Shortened_size(q) ==
  IF queue[q].out # NIL
  THEN [queue[q] EXCEPT !.out = heap[queue[q].out].next,
                        !.size = IF heap[queue[q].out].next = NIL THEN @ ELSE @ - 1]
  ELSE [queue[q] EXCEPT !.in = NIL]
Shortened_empty(q) ==
  [queue[q] EXCEPT !.out = IF @ # NIL THEN heap[@].next ELSE NIL,
                   !.in = IF queue[q].out # NIL THEN @ ELSE NIL,
                   !.size = @ - 1]

\* The struct after get: only get of an empty queue clears in.
Shortened(q) ==
  IF queue[q].out # NIL
  THEN [queue[q] EXCEPT !.out = heap[queue[q].out].next, !.size = @ - 1]
  ELSE [queue[q] EXCEPT !.in = NIL]

get(q) ==
  LET c == queue[q].out IN
  /\ q \in alive
  /\ answer' = <<IF c # NIL THEN heap[c].obj ELSE NIL>>
  /\ heap' = Freed({c})
  /\ used' = used \ {c}
  /\ queue' = [queue EXCEPT ![q] = Shortened(q)]
  /\ UNCHANGED alive

peek(q) == /\ q \in alive
           /\ answer' = <<IF queue[q].out = NIL THEN NIL ELSE heap[queue[q].out].obj>>
           /\ UNCHANGED <<heap, used, queue, alive>>

\* func and accu are the caller's: the accumulator is the objects visited.
apply(q) == /\ q \in alive
            /\ answer' = Objs(q)
            /\ UNCHANGED <<heap, used, queue, alive>>

Next == \E q \in Names :
          \/ new(q) \/ get(q) \/ peek(q) \/ apply(q) \/ delete(q)
          \/ \E o \in Objects : put(q, o)
          \/ \E r \in Names : clone(q, r)

Spec == Init /\ [][Next]_vars
=============================================================================
