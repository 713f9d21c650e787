-------------------------------- MODULE Utils --------------------------------
(* The memory of Lab3 (Lab3/src/utils.c): initialize_vector and the pool.  *)
EXTENDS Integers

(* initialize_vector (Lab3/src/utils.c): fills a vector with copies of one *)
(* element by copying its filled part onto what follows, doubling each     *)
(* time; new() of VMM fills the frame table with EMPTY this way.  One step *)
(* is one memcpy; a slot is known by whether it holds the element yet.     *)
CONSTANT Sizes  \* the lengths of the vectors tried
ASSUME SizesAssumption == Sizes \subseteq Nat \ {0}

VARIABLES nmemb,   \* length of the vector
          filled,  \* slot -> does it hold the element?
          i,
          pc       \* "start", "loop", "end"

vectorvars == <<nmemb, filled, i, pc>>

Slots == 0 .. nmemb - 1

VectorInit == /\ nmemb \in Sizes
        /\ filled = [s \in Slots |-> FALSE]
        /\ i = 0 /\ pc = "start"

\* memcpy of n slots from the front to place `to`; outside the vector and
\* for areas that overlap it is undefined.
memcpy(to, n) == [s \in Slots |-> IF s \in to .. to + n - 1 THEN filled[s - to]
                                  ELSE filled[s]]
Defined(to, n) == n \in 0 .. to /\ to + n <= nmemb

CopyElement == /\ pc = "start"
               /\ filled' = [filled EXCEPT ![0] = TRUE]
               /\ i' = 1 /\ pc' = "loop"
               /\ UNCHANGED nmemb

\* Mutant of Fits: the loop also doubles into the last, partial area.
Fits_over == i < nmemb

Fits == 2 * i <= nmemb

Double == /\ pc = "loop" /\ Fits
          /\ filled' = memcpy(i, i)
          /\ i' = 2 * i
          /\ UNCHANGED <<nmemb, pc>>

\* Mutant of Remaining: one slot is forgotten.
Remaining_short == IF i < nmemb THEN nmemb - i - 1 ELSE 0

\* What the memcpy behind the loop copies.
Remaining == nmemb - i

CopyRest == /\ pc = "loop" /\ ~Fits
            /\ filled' = memcpy(i, Remaining)
            /\ pc' = "end"
            /\ UNCHANGED <<nmemb, i>>

Returned == pc = "end" /\ UNCHANGED vectorvars

VectorNext == CopyElement \/ Double \/ CopyRest \/ Returned
VectorSpec == VectorInit /\ [][VectorNext]_vectorvars
-----------------------------------------------------------------------------
\* Every memcpy stays inside the vector and copies an area onto one that
\* does not overlap it.
CopiesDefined == pc = "loop" => Defined(i, IF Fits THEN i ELSE Remaining)

FilledAtEnd == pc = "end" => \A s \in Slots : filled[s]

(* For every length, powers of two or not, initialize_vector returns the   *)
(* vector filled to the last slot, and every copy on the way is defined.   *)
FilledByCopies == CopiesDefined /\ FilledAtEnd
-----------------------------------------------------------------------------
(* The memory pool (Lab3/src/utils.c): a table of chunks of which the      *)
(* first `index` are handed out.  A chunk's header holds its place in the  *)
(* table, written when it is allocated; free reads it back and moves the   *)
(* last chunk handed out into that place, without touching its header.     *)
CONSTANT PoolSize  \* the nmemb of mempool_create
ASSUME PoolAssumption == PoolSize \in Nat

Chunks == 0..PoolSize - 1
NULL == -1

VARIABLES lifo,     \* does the client free last what it was given first?
          ptrs,     \* place -> chunk
          header,   \* chunk -> the place written in front of it
          index,    \* the next place to hand out
          held,     \* chunk -> how many of its clients hold it
          chunk     \* what the last alloc returned

poolvars == <<lifo, ptrs, header, index, held, chunk>>

\* mempool_create; a header is written before it is first read.
PoolInit == /\ lifo \in BOOLEAN
            /\ ptrs = [k \in Chunks |-> k]
            /\ header = [c \in Chunks |-> 0]
            /\ index = 0
            /\ held = [c \in Chunks |-> 0]
            /\ chunk = NULL

\* Mutant of Header: the place is not written.
Header_unset == header

Header == [header EXCEPT ![ptrs[index]] = index]

mempool_alloc ==
  \/ /\ index < PoolSize
     /\ header' = Header
     /\ held' = [held EXCEPT ![ptrs[index]] = @ + 1]
     /\ index' = index + 1
     /\ chunk' = ptrs[index]
     /\ UNCHANGED <<lifo, ptrs>>
  \/ /\ index = PoolSize
     /\ chunk' = NULL
     /\ UNCHANGED <<lifo, ptrs, header, index, held>>

\* Mutant of Swapped: only one half of the exchange.
Swapped_half(idx) == [ptrs EXCEPT ![idx] = ptrs[index - 1]]

\* The table after the chunk in place idx changed places with the last one.
Swapped(idx) ==
  [ptrs EXCEPT ![idx] = ptrs[index - 1], ![index - 1] = ptrs[idx]]

\* A client gives back a chunk it holds: the last it was given, or any.
mempool_free(c) ==
  /\ held[c] > 0
  /\ lifo => c = ptrs[index - 1]
  /\ held' = [held EXCEPT ![c] = @ - 1]
  /\ ptrs' = Swapped(header[c])
  /\ index' = index - 1
  /\ UNCHANGED <<lifo, header, chunk>>

PoolNext == mempool_alloc \/ \E c \in Chunks : mempool_free(c)
PoolSpec == PoolInit /\ [][PoolNext]_poolvars
-----------------------------------------------------------------------------
\* alloc and free only reorder the table, in whatever order chunks come back:
\* no chunk drops out of it, and index never leaves it.
NothingLost ==
  /\ {ptrs[k] : k \in Chunks} = Chunks
  /\ index \in 0..PoolSize

\* For a client that gives chunks back in the reverse order, alloc never hands
\* out a chunk that is held, and answers NULL only when all are (test_mempool.c:
\* after MEMPOOL_SIZE chunks, NULL).  For another order neither is so: the
\* chunk moved by free keeps its old place in its header.
StackIsSafe ==
  lifo => \A k \in Chunks : held[ptrs[k]] = IF k < index THEN 1 ELSE 0

\* What the pool promises its clients: the two together.
PoolIsSafe == NothingLost /\ StackIsSafe
=============================================================================
