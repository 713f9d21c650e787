----------------------------- MODULE RandomFile -----------------------------
(* The random numbers (Lab3/src/random.c, and Lab2's, which adds one to    *)
(* the draw): the file is read piecemeal into an array that doubles when   *)
(* it is used up, and starts over once the end of the file has been met.   *)
(* A value of the file is known by its place (1 is the first after the     *)
(* header line), before it is taken modulo the burst; one to a line.       *)
EXTENDS Integers, Sequences

CONSTANTS RANDOM_MEM,  \* START_MEM in the code, 32; must be a power of two
          Lengths      \* the lengths of the files tried; none is empty

OUTSIDE == -1  \* what lies behind the array

VARIABLES length,        \* of the file: the values behind its header line
          allocated,     \* is randvals allocated?
          randvals,      \* the array proper
          drawn,         \* randvals[-1]
          offset,        \* randvals[-2]: place in the file, then final size
          emptied_file,
          out            \* the last draw; 0 before the first

random == <<length, allocated, randvals, drawn, offset, emptied_file, out>>

\* ftell after n values: every line, the header too, is two bytes or more.
Tell(n) == 2 * (n + 1)
ValuesBefore(place) == (place \div 2) - 1

\* (n & (n - 1)) == 0, of a positive number: one of 1, 2, 4, ...
PowerOfTwo(n) ==
  LET power[k \in 0..n] == IF k = 0 THEN 1 ELSE 2 * power[k - 1]
  IN  \E k \in 0..n : power[k] = n

ASSUME RandomAssumption == /\ RANDOM_MEM \in Nat \ {0} /\ PowerOfTwo(RANDOM_MEM)
                           /\ Lengths \subseteq Nat \ {0}

needs_more_mem(n) == n >= RANDOM_MEM /\ PowerOfTwo(n)

\* The scanning loops: fill arr up to room values from a place of the file.
\* The end is noticed only by the fscanf that fails, hence never when the
\* file fills the array exactly.
Scan(arr, place, room) ==
  LET before == ValuesBefore(place)
      fits == room - Len(arr)
      n == IF fits <= length - before THEN fits ELSE length - before
      got == arr \o [i \in 1..n |-> before + i]
  IN  [vals |-> got, end |-> n < fits,
       off |-> IF n < fits THEN Len(got) ELSE Tell(before + n)]
-----------------------------------------------------------------------------
RandomInit == /\ length \in Lengths
              /\ allocated = FALSE /\ randvals = <<>>
              /\ drawn = 0 /\ offset = 0
              /\ emptied_file = FALSE /\ out = 0

Store(scan) == /\ randvals' = scan.vals
               /\ offset' = scan.off
               /\ emptied_file' = scan.end

init_random == /\ ~allocated
               /\ allocated' = TRUE
               /\ drawn' = 0
               /\ Store(Scan(<<>>, Tell(0), RANDOM_MEM))
               /\ UNCHANGED <<length, out>>

\* Mutant of Refilled: the file is read from its start again.
Refilled_rewound == Scan(SubSeq(randvals, 1, drawn), Tell(0), 2 * drawn)

\* fill_randvals_array, called when everything in the array was drawn.
Refilled == Scan(SubSeq(randvals, 1, drawn), offset, 2 * drawn)

\* The last statement of myrandom (burst, the caller's modulus, left out).
Take(arr, n) == /\ out' = IF n < Len(arr) THEN arr[n + 1] ELSE OUTSIDE
                /\ drawn' = n + 1

\* Mutant of Place: the array starts over one draw late.
Place_late == IF drawn > offset THEN 0 ELSE drawn

\* Where a draw from an array that need not grow reads.
Place == IF drawn >= offset THEN 0 ELSE drawn

\* (randvals is NULL only before init_random, the one place that sets
\* random_file: the lazy call of init_random in myrandom is never made.)
myrandom ==
  \/ ~allocated /\ out' = 0 /\ UNCHANGED <<drawn, randvals, offset, emptied_file, length, allocated>>
  \/ /\ allocated /\ ~emptied_file /\ needs_more_mem(drawn)
     /\ Store(Refilled)
     /\ Take(Refilled.vals, drawn)
     /\ UNCHANGED <<length, allocated>>
  \/ /\ allocated /\ (emptied_file \/ ~needs_more_mem(drawn))
     /\ Take(randvals, Place)
     /\ UNCHANGED <<length, allocated, randvals, offset, emptied_file>>

RandomNext == init_random \/ myrandom
RandomSpec == RandomInit /\ [][RandomNext]_random
-----------------------------------------------------------------------------
\* Files for which the end is met exactly when the array is full.
FillsArray == needs_more_mem(length)

\* Where a draw goes on from the one before it.
DrawsOn ==
  allocated =>
    IF out' = OUTSIDE THEN FillsArray /\ out = length /\ ~emptied_file
    ELSE out' = IF out = OUTSIDE THEN 1 ELSE (out % length) + 1

(* A step of a draw: the draws run through the file in order and start     *)
(* again behind its last value, however often the array has grown in       *)
(* between.  The exception are the files that fill the array exactly: with *)
(* them the draw behind the last value, which is the one that meets the    *)
(* end of the file, reads behind the array.  It does so once: from then on *)
(* emptied_file is set, and the draws start over.                          *)
WrapsAround == [][DrawsOn]_random
=============================================================================
