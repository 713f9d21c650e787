------------------------------ MODULE Ordering ------------------------------
(* What the two ordered containers of Lab2 do to the order of what they    *)
(* hold, as functions.  First SortedList's insert: ascending finishing     *)
(* times, and among equal ones the order of insertion; that the chain of   *)
(* cells keeps it is checked by Containers.                                *)
EXTENDS Integers, SequencesExt

\* Mutant of Place: the list is kept in descending order.
Place_reversed(s, o, FT) == CHOOSE n \in 0..Len(s) :
                              /\ \A i \in 1..n : FT[s[i]] > FT[o]
                              /\ n < Len(s) => FT[s[n + 1]] <= FT[o]

\* How many elements insert passes: up to the first that finishes later.
\* FT maps what is in the list to its finishing time.
Place(s, o, FT) == CHOOSE n \in 0..Len(s) :
                     /\ \A i \in 1..n : FT[s[i]] <= FT[o]
                     /\ n < Len(s) => FT[s[n + 1]] > FT[o]

Inserted(s, o, FT) == InsertAt(s, Place(s, o, FT) + 1, o)
-----------------------------------------------------------------------------
(* The array algorithms of the heap (Lab2/src/heap.c).  The array a is a   *)
(* function on 0..n - 1; place 0 has the one child 1, every other place i  *)
(* the children 2 * i and 2 * i + 1.  get starts down at place 1 as if 1   *)
(* and 2 were siblings, and looks at place i << 1 where i >> 1, the place  *)
(* it may have to move down, is meant.                                     *)
\* compare(x, y) < 0 for processes: the method in Comparable's place is
\* cmp_total_cpu, which puts the larger total first.
Before(key, x, y) == key[x] > key[y]

Parent(i) == i \div 2

\* Mutant of Exchanged: the first element is overwritten.
Exchanged_half(a, i, j) == [a EXCEPT ![i] = a[j]]

Exchanged(a, i, j) == [a EXCEPT ![i] = a[j], ![j] = a[i]]

\* Mutant of Rises: the sign of the comparison is reversed.
Rises_reversed(key, a, x, i) == i > 0 /\ Before(key, a[Parent(i)], x)

\* Does the new element x, now in place i, change places with its parent?
Rises(key, a, x, i) == i > 0 /\ Before(key, x, a[Parent(i)])

\* One round of put's loop: s is the array and the place of x in it.
Raised(key, x, s) ==
  IF Rises(key, s.a, x, s.i)
  THEN [a |-> Exchanged(s.a, s.i, Parent(s.i)), i |-> Parent(s.i)]
  ELSE s

\* put: append, then move up.
Put(key, a, n, x) ==
  LET added == [i \in 0..n |-> IF i = n THEN x ELSE a[i]]
      Up[k \in 0..n] == IF k = 0 THEN [a |-> added, i |-> n]
                        ELSE Raised(key, x, Up[k - 1])
  IN  Up[n].a

\* The child get compares: the earlier of i and i + 1.
Lesser(key, a, i) == IF Before(key, a[i], a[i + 1]) THEN i ELSE i + 1

\* Mutant of GoesOn: the loop also runs when place i has no neighbour.
GoesOn_last(m, i) == i < m

\* The condition of get's loop, with m elements left.
GoesOn(m, i) == i + 1 < m

\* Does the loop read behind the last place that holds an element?
Strays(m, i) == GoesOn(m, i) /\ 2 * i > m

\* One round of get's loop.  A place behind m holds whatever it held:
\* `beyond` is the outcome of comparing that.
Lowered(key, m, beyond, s) ==
  LET i     == s.i
      min   == Lesser(key, s.a, i)
      moves == IF Strays(m, i) THEN beyond ELSE Before(key, s.a[min], s.a[2 * i])
  IN  IF GoesOn(m, i) /\ ~s.done
      THEN IF moves
           THEN [s EXCEPT !.a = Exchanged(s.a, Parent(i), min), !.i = 2 * min,
                          !.strayed = @ \/ Strays(m, i)]
           ELSE [s EXCEPT !.done = TRUE, !.strayed = @ \/ Strays(m, i)]
      ELSE s

\* The array get leaves of n elements, before it is cut to m = n - 1: the
\* last is put in front, and place m still holds it.
Sifted(key, a, n, beyond) ==
  LET m == n - 1
      front == [i \in 0..m |-> IF i = 0 THEN a[m] ELSE a[i]]
      Down[k \in 0..n] ==
        IF k = 0 THEN [a |-> front, i |-> 1, done |-> FALSE, strayed |-> FALSE]
        ELSE Lowered(key, m, beyond, Down[k - 1])
      end  == Down[n]
      last == IF end.i < m /\ Before(key, end.a[end.i], end.a[Parent(end.i)])
              THEN Exchanged(end.a, Parent(end.i), end.i) ELSE end.a
  IN  [a |-> [i \in 0..m - 1 |-> last[i]], strayed |-> end.strayed]
=============================================================================
