----------------------------- MODULE LinkedList -----------------------------
(* The classes of Lab2 that hang their cells on one pointer: Stack         *)
(* (stack.c), LinkedList (linkedlist.c), which differs from it in names    *)
(* only, and SortedList (sortedlist.c).  They share the heap with FIFO's   *)
(* queues; objects are compared by their finishing times.                  *)
EXTENDS Cells, Integers

VARIABLES class,   \* "Stack", "LinkedList" or "SortedList"
          queue,   \* name -> the struct
          alive,   \* the names of constructed, not yet deleted containers
          answer   \* what the last get, peek or apply returned, as a sequence

listvars == <<heap, used, class, queue, alive, answer>>

EmptyList == [head |-> NIL, size |-> 0]
FT == [o \in Objects |-> o \div 2]

Chain(q) == Walk(queue[q].head)
CellsOf(q) == {Chain(q)[i] : i \in DOMAIN Chain(q)}
Objs(q) == Held(Chain(q))
-----------------------------------------------------------------------------
Init == /\ class \in {"Stack", "LinkedList", "SortedList"}
        /\ heap = [c \in Cells |-> Blank]
        /\ used = {}
        /\ queue = [q \in Names |-> EmptyList]
        /\ alive = {}
        /\ answer = <<NIL>>

new(q) == /\ q \notin alive
          /\ alive' = alive \cup {q}
          /\ queue' = [queue EXCEPT ![q] = EmptyList]
          /\ UNCHANGED <<heap, used, answer>>

\* The objects are deleted with the cells.
delete(q) == /\ q \in alive
             /\ alive' = alive \ {q}
             /\ heap' = Freed(CellsOf(q))
             /\ used' = used \ CellsOf(q)
             /\ queue' = [queue EXCEPT ![q] = EmptyList]
             /\ UNCHANGED answer

\* Mutant of ClonedStruct: the clone keeps the head of the original.
ClonedStruct_shallow(q, copy) == queue[q]

\* Object's clone copies the struct; head is then replaced by the first of
\* the fresh cells, if there is one.
ClonedStruct(q, copy) ==
  IF copy = <<>> THEN queue[q] ELSE [queue[q] EXCEPT !.head = copy[1]]

clone(q, r) ==
  /\ q \in alive /\ r \notin alive
  /\ alive' = alive \cup {r}
  /\ \E copy \in Fresh(Len(Chain(q))) :
       /\ used' = used \cup {copy[i] : i \in DOMAIN copy}
       /\ heap' = Copied(copy, Objs(q))
       /\ queue' = [queue EXCEPT ![r] = ClonedStruct(q, copy)]
  /\ UNCHANGED answer

\* Mutant of Stops: the walk stops at an equal time.
Stops_equal(o, next) == FT[o] <= FT[next]

\* insert walks on while cmp_finish_evt_time(obj, next) <= 0.
Stops(o, next) == FT[o] < FT[next]

\* The cells insert passes; put and push pass none.
Passed(q, o) ==
  IF class # "SortedList" THEN 0
  ELSE CHOOSE n \in 0..Len(Chain(q)) :
         /\ \A i \in 1..n : ~Stops(o, Objs(q)[i])
         /\ n < Len(Chain(q)) => Stops(o, Objs(q)[n + 1])

\* The new cell e behind the first n cells of the chain.
Hung(q, o, e, n) ==
  LET chain == Chain(q)
      next == IF n < Len(chain) THEN chain[n + 1] ELSE NIL
      cell == [heap EXCEPT ![e] = [obj |-> o, next |-> next]]
  IN  IF n = 0 THEN cell ELSE [cell EXCEPT ![chain[n]].next = e]

\* put, push and insert.
put(q, o) ==
  /\ q \in alive
  /\ \E e \in Cells \ used :
       /\ used' = used \cup {e}
       /\ heap' = Hung(q, o, e, Passed(q, o))
       /\ queue' = [queue EXCEPT ![q] =
                      [head |-> IF Passed(q, o) = 0 THEN e ELSE @.head,
                       size |-> @.size + 1]]
  /\ UNCHANGED <<alive, answer>>

\* get and pop.
get(q) ==
  LET c == queue[q].head IN
  /\ q \in alive
  /\ IF c # NIL
     THEN /\ answer' = <<heap[c].obj>>
          /\ heap' = Freed({c})
          /\ used' = used \ {c}
          /\ queue' = [queue EXCEPT ![q] = [head |-> heap[c].next, size |-> @.size - 1]]
     ELSE answer' = <<NIL>> /\ UNCHANGED <<heap, used, queue>>
  /\ UNCHANGED alive

peek(q) == /\ q \in alive
           /\ answer' = <<IF queue[q].head = NIL THEN NIL ELSE heap[queue[q].head].obj>>
           /\ UNCHANGED <<heap, used, queue, alive>>

\* Stack has no apply.
apply(q) == /\ q \in alive /\ class # "Stack"
            /\ answer' = Objs(q)
            /\ UNCHANGED <<heap, used, queue, alive>>

Next == /\ UNCHANGED class
        /\ \E q \in Names :
             \/ new(q) \/ get(q) \/ peek(q) \/ apply(q) \/ delete(q)
             \/ \E o \in Objects : put(q, o)
             \/ \E r \in Names : clone(q, r)

Spec == Init /\ [][Next]_listvars
=============================================================================
