------------------------------- MODULE Cells -------------------------------
(* The heap cells the container classes chain up (struct Elem of           *)
(* Lab3/src/FIFO.c; Lab2's FIFO.c, stack.c, linkedlist.c and sortedlist.c  *)
(* declare the same).  All containers share one heap, and xmalloc may hand *)
(* out any free cell.                                                      *)
EXTENDS Naturals, Sequences, FiniteSets

CONSTANTS Names,    \* the container variables of the client
          Objects,  \* what is kept
          Cells,    \* the heap: bound on the cells in use at once
          NIL

ASSUME CellsAssumption == /\ Objects \subseteq Nat /\ IsFiniteSet(Cells)
                          /\ NIL \notin Cells \cup Objects

VARIABLES heap,  \* cell -> [obj, next]
          used   \* the cells xmalloc has handed out

Elem == [obj : Objects \cup {NIL}, next : Cells \cup {NIL}]
Blank == [obj |-> NIL, next |-> NIL]

\* The cells met by following next from c; cut off if the chain is a cycle.
Walk(c) ==
  LET walk[n \in 0..Cardinality(Cells)] ==
        [d \in Cells \cup {NIL} |->
           IF n = 0 \/ d = NIL THEN <<>> ELSE <<d>> \o walk[n - 1][heap[d].next]]
  IN  walk[Cardinality(Cells)][c]

\* What the cells of a chain hold.
Held(chain) == [i \in DOMAIN chain |-> heap[chain[i]].obj]

\* free: what the cells held is gone.
Freed(cells) == [c \in Cells |-> IF c \in cells THEN Blank ELSE heap[c]]

\* n fresh cells, in the order the calls of xmalloc return them.
Fresh(n) == {s \in [1..n -> Cells \ used] :
               \A i, j \in 1..n : s[i] = s[j] => i = j}

\* The heap after the fresh cells `copy` were chained to hold objs.
Copied(copy, objs) ==
  [c \in Cells |->
     IF \E i \in DOMAIN copy : copy[i] = c
     THEN LET i == CHOOSE i \in DOMAIN copy : copy[i] = c IN
          [obj |-> objs[i], next |-> IF i = Len(copy) THEN NIL ELSE copy[i + 1]]
     ELSE heap[c]]
=============================================================================
