------------------------------- MODULE Queues -------------------------------
(* What the container classes promise: independent unbounded sequences.    *)
(* get and peek answer with the front (NIL when empty), a clone starts    *)
(* with the same contents and then lives its own life.  Where put puts an  *)
(* object is what the classes differ in.                                   *)
EXTENDS Naturals, Sequences

CONSTANTS Names, Objects, NIL,
          Added(_, _)  \* a sequence of objects and one more: their sequence

VARIABLES contents,  \* name -> sequence of objects; unused names have none
          alive,     \* the names of the queues that exist
          answer     \* what the last get, peek or apply returned, as a sequence

qvars == <<contents, alive, answer>>

Front(q) == IF contents[q] = <<>> THEN NIL ELSE Head(contents[q])

QInit == /\ contents = [q \in Names |-> <<>>]
         /\ alive = {}
         /\ answer = <<NIL>>

New(q) == /\ q \notin alive /\ alive' = alive \cup {q}
          /\ UNCHANGED <<contents, answer>>

Put(q, o) == /\ q \in alive
             /\ contents' = [contents EXCEPT ![q] = Added(@, o)]
             /\ UNCHANGED <<alive, answer>>

Get(q) == /\ q \in alive
          /\ answer' = <<Front(q)>>
          /\ contents' = [contents EXCEPT ![q] = IF @ = <<>> THEN <<>> ELSE Tail(@)]
          /\ UNCHANGED alive

Peek(q) == q \in alive /\ answer' = <<Front(q)>> /\ UNCHANGED <<contents, alive>>

\* apply folds the caller's function over the contents, front first.
Apply(q) == q \in alive /\ answer' = contents[q] /\ UNCHANGED <<contents, alive>>

Clone(q, r) == /\ q \in alive /\ r \notin alive
               /\ alive' = alive \cup {r}
               /\ contents' = [contents EXCEPT ![r] = contents[q]]
               /\ UNCHANGED answer

Delete(q) == /\ q \in alive /\ alive' = alive \ {q}
             /\ contents' = [contents EXCEPT ![q] = <<>>]
             /\ UNCHANGED answer

QNext == \E q \in Names :
           \/ New(q) \/ Get(q) \/ Peek(q) \/ Apply(q) \/ Delete(q)
           \/ \E o \in Objects : Put(q, o)
           \/ \E r \in Names : Clone(q, r)

QSpec == QInit /\ [][QNext]_qvars
=============================================================================
