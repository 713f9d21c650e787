---------------------------- MODULE SupportProofs ----------------------------
(* What is proved of the parts of Support: initialize_vector, the memory   *)
(* pool, the container classes, the file of random numbers, the reader of  *)
(* instructions and the files that are read beside the parser.             *)
EXTENDS Utils, Containers, RandomFile, InstructionReader, Reading,
        FiniteSetTheorems, SequenceTheorems, WellFoundedInduction, TLAPS

-----------------------------------------------------------------------------
(* initialize_vector.  The inductive invariant: the slots below i are      *)
(* filled, i is inside the vector, and behind the loop all are filled.     *)
VectorTypeOK == /\ nmemb \in Nat \ {0}
                /\ filled \in [Slots -> BOOLEAN]
                /\ i \in Nat
                /\ pc \in {"start", "loop", "end"}

FilledBelow == pc = "loop" => /\ i \in 1 .. nmemb
                              /\ \A s \in 0 .. i - 1 : filled[s]

VectorInv == VectorTypeOK /\ FilledBelow /\ FilledAtEnd

LEMMA InitVectorInv == VectorInit => VectorInv
  BY SizesAssumption DEF VectorInit, VectorInv, VectorTypeOK, FilledBelow, FilledAtEnd, Slots

LEMMA NextVectorInv == VectorInv /\ [VectorNext]_vectorvars => VectorInv'
<1> SUFFICES ASSUME VectorInv, [VectorNext]_vectorvars PROVE VectorInv'
  OBVIOUS
<1> USE DEF VectorInv, VectorTypeOK, FilledBelow, FilledAtEnd, Slots
<1>1. CASE CopyElement
  BY <1>1 DEF CopyElement
<1>2. CASE Double
  <2>1. /\ pc = "loop" /\ 2 * i <= nmemb
        /\ filled' = [s \in 0 .. nmemb - 1 |->
                        IF s \in i .. i + i - 1 THEN filled[s - i] ELSE filled[s]]
        /\ i' = 2 * i /\ nmemb' = nmemb /\ pc' = pc
    BY <1>2 DEF Double, Fits, memcpy
  <2>2. \A s \in 0 .. 2 * i - 1 : filled'[s]
    BY <2>1
  <2>3. filled' \in [0 .. nmemb - 1 -> BOOLEAN]
    BY <2>1
  <2> QED BY <2>1, <2>2, <2>3
<1>3. CASE CopyRest
  <2>1. /\ pc = "loop" /\ ~(2 * i <= nmemb)
        /\ filled' = [s \in 0 .. nmemb - 1 |->
                        IF s \in i .. i + (nmemb - i) - 1 THEN filled[s - i] ELSE filled[s]]
        /\ i' = i /\ nmemb' = nmemb /\ pc' = "end"
    BY <1>3 DEF CopyRest, Fits, memcpy, Remaining
  <2>2. \A s \in 0 .. nmemb - 1 : filled'[s]
    BY <2>1
  <2>3. filled' \in [0 .. nmemb - 1 -> BOOLEAN]
    BY <2>1
  <2> QED BY <2>1, <2>2, <2>3
<1>4. CASE Returned \/ UNCHANGED vectorvars
  BY <1>4 DEF Returned, vectorvars
<1> QED BY <1>1, <1>2, <1>3, <1>4 DEF VectorNext

(* Every state of initialize_vector satisfies the invariant.               *)
THEOREM VectorInvariance == VectorSpec => []VectorInv
  BY InitVectorInv, NextVectorInv, PTL DEF VectorSpec

(* For every length the vector returned is filled to the last slot, and    *)
(* each memcpy is inside the vector and without overlap.                   *)
THEOREM VectorIsFilled == VectorSpec => []FilledByCopies
<1>1. VectorInv => CopiesDefined
  BY DEF VectorInv, VectorTypeOK, FilledBelow, CopiesDefined, Defined, Fits, Remaining
<1>2. VectorInv => FilledByCopies
  BY <1>1 DEF VectorInv, FilledByCopies
<1> QED BY <1>2, VectorInvariance, PTL

-----------------------------------------------------------------------------
(* The pool.  The inductive invariant: chunks are handed out as often as   *)
(* the index says, so that free never meets an empty pool; the table has   *)
(* every chunk and headers hold places.  For a client that gives chunks    *)
(* back in the reverse order the table is as mempool_create left it.       *)
Holdings == {h \in Chunks \X (Nat \ {0}) : h[2] <= held[h[1]]}

PoolTypeOK == /\ lifo \in BOOLEAN
              /\ ptrs \in [Chunks -> Chunks]
              /\ header \in [Chunks -> Chunks]
              /\ index \in 0..PoolSize
              /\ held \in [Chunks -> Nat]

Accounted == IsFiniteSet(Holdings) /\ Cardinality(Holdings) = index

Surjective == \A c \in Chunks : \E k \in Chunks : ptrs[k] = c

Stacked == lifo => \A k \in Chunks :
                     /\ ptrs[k] = k
                     /\ k < index => header[k] = k
                     /\ held[k] = IF k < index THEN 1 ELSE 0

PoolInv == PoolTypeOK /\ Accounted /\ Surjective /\ Stacked

LEMMA InitPoolInv == PoolInit => PoolInv
<1> SUFFICES ASSUME PoolInit PROVE PoolInv
  OBVIOUS
<1>1. PoolTypeOK
  BY PoolAssumption DEF PoolInit, PoolTypeOK, Chunks
<1>2. Holdings = {}
  BY DEF PoolInit, Holdings, Chunks
<1>3. Accounted
  BY <1>2, FS_EmptySet DEF PoolInit, Accounted
<1>4. Surjective /\ Stacked
  BY DEF PoolInit, Surjective, Stacked, Chunks
<1> QED BY <1>1, <1>3, <1>4 DEF PoolInv

(* A chunk handed out is one holding more, one given back one holding less. *)
LEMMA AllocPoolInv == ASSUME PoolInv, mempool_alloc PROVE PoolInv'
<1> USE DEF PoolInv
<1>1. CASE index = PoolSize
  <2>1. UNCHANGED <<lifo, ptrs, header, index, held>>
    BY PoolAssumption, <1>1 DEF mempool_alloc
  <2> QED BY <2>1 DEF PoolTypeOK, Accounted, Holdings, Surjective, Stacked
<1>2. CASE index < PoolSize
  <2> DEFINE c == ptrs[index]
  <2>0. index \in Chunks
    BY PoolAssumption, <1>2 DEF PoolTypeOK, Chunks
  <2>1. index \in Chunks /\ c \in Chunks
    BY <2>0 DEF PoolTypeOK
  <2>2. /\ header' = [header EXCEPT ![c] = index]
        /\ held' = [held EXCEPT ![c] = @ + 1]
        /\ index' = index + 1
        /\ UNCHANGED <<lifo, ptrs>>
    BY PoolAssumption, <1>2 DEF mempool_alloc, Header
  <2> HIDE DEF c
  <2>3. PoolTypeOK'
    BY PoolAssumption, <1>2, <2>1, <2>2 DEF PoolTypeOK
  <2>4. Holdings' = Holdings \cup {<<c, held[c] + 1>>} /\ <<c, held[c] + 1>> \notin Holdings
    BY <2>1, <2>2 DEF PoolTypeOK, Holdings
  <2>5. Accounted'
    BY <2>2, <2>4, FS_AddElement DEF Accounted
  <2>6. Surjective'
    BY <2>2 DEF Surjective
  <2>7. Stacked'
    <3> SUFFICES ASSUME lifo, NEW k \in Chunks
                 PROVE  /\ ptrs[k] = k
                        /\ k < index + 1 => header'[k] = k
                        /\ held'[k] = IF k < index + 1 THEN 1 ELSE 0
      BY <2>2 DEF Stacked
    <3>1. c = index
      BY <2>0 DEF Stacked, c
    <3>2. k \in Int /\ index \in Int
      BY DEF Chunks, PoolTypeOK
    <3>3. CASE k = index
      <4>1. header'[k] = index /\ held'[k] = held[k] + 1 /\ held[k] = 0
        BY <2>2, <3>1, <3>2, <3>3 DEF PoolTypeOK, Stacked
      <4> QED BY <3>2, <3>3, <4>1 DEF Stacked
    <3>4. CASE k # index
      <4>1. header'[k] = header[k] /\ held'[k] = held[k] /\ (k < index + 1 <=> k < index)
        BY <2>2, <3>1, <3>2, <3>4 DEF PoolTypeOK
      <4> QED BY <4>1 DEF Stacked
    <3> QED BY <3>3, <3>4
  <2> QED BY <2>3, <2>5, <2>6, <2>7
<1> QED BY PoolAssumption, <1>1, <1>2 DEF PoolTypeOK

LEMMA FreePoolInv ==
  ASSUME PoolInv, NEW c \in Chunks, mempool_free(c)
  PROVE  PoolInv'
<1> USE DEF PoolInv
<1>1. <<c, held[c]>> \in Holdings
  BY DEF PoolTypeOK, Holdings, mempool_free
<1>2. index > 0
  BY <1>1, FS_EmptySet DEF Accounted, PoolTypeOK
<1>3. header[c] \in Chunks /\ index - 1 \in Chunks
  BY PoolAssumption, <1>2 DEF PoolTypeOK, Chunks
<1>4. /\ held' = [held EXCEPT ![c] = @ - 1]
      /\ ptrs' = [ptrs EXCEPT ![header[c]] = ptrs[index - 1], ![index - 1] = ptrs[header[c]]]
      /\ index' = index - 1
      /\ UNCHANGED <<lifo, header>>
  BY DEF mempool_free, Swapped
<1>5. PoolTypeOK'
  BY PoolAssumption, <1>2, <1>3, <1>4 DEF PoolTypeOK, mempool_free
<1>6. Holdings' = Holdings \ {<<c, held[c]>>}
  BY <1>4 DEF PoolTypeOK, Holdings
<1>7. Accounted'
  BY <1>1, <1>4, <1>6, FS_RemoveElement DEF Accounted
<1>8. Surjective'
  <2> SUFFICES ASSUME NEW d \in Chunks PROVE \E k \in Chunks : ptrs'[k] = d
    BY DEF Surjective
  <2>1. PICK k \in Chunks : ptrs[k] = d
    BY DEF Surjective
  <2>2. ptrs'[IF k = header[c] THEN index - 1
              ELSE IF k = index - 1 THEN header[c] ELSE k] = d
    BY <1>3, <1>4, <2>1 DEF PoolTypeOK
  <2> QED BY <1>3, <2>2
<1>9. Stacked'
  <2> SUFFICES ASSUME lifo PROVE Stacked'
    BY <1>4 DEF Stacked
  <2>1. c = index - 1 /\ header[c] = c
    BY <1>3 DEF mempool_free, Stacked, PoolTypeOK, Chunks
  <2>2. ptrs' = ptrs
    BY <1>4, <2>1 DEF PoolTypeOK
  <2> QED BY <1>4, <2>1, <2>2 DEF Stacked, PoolTypeOK, Chunks
<1> QED BY <1>5, <1>7, <1>8, <1>9

(* Whatever the size of the pool and however its chunks come back: none of *)
(* them drops out of the table and index stays in it; a client that gives  *)
(* them back in the reverse order is never handed one that is held.        *)
THEOREM PoolIsAlwaysSafe == PoolSpec => []PoolIsSafe
<1>1. PoolInv /\ [PoolNext]_poolvars => PoolInv'
  <2>1. ASSUME PoolInv, UNCHANGED poolvars PROVE PoolInv'
    BY <2>1 DEF poolvars, PoolInv, PoolTypeOK, Accounted, Holdings, Surjective, Stacked
  <2> QED BY <2>1, AllocPoolInv, FreePoolInv DEF PoolNext
<1>2. PoolInv => PoolIsSafe
  <2> SUFFICES ASSUME PoolInv PROVE PoolIsSafe
    OBVIOUS
  <2>1. {ptrs[k] : k \in Chunks} = Chunks
    BY DEF PoolInv, PoolTypeOK, Surjective
  <2> QED BY <2>1 DEF PoolInv, PoolTypeOK, Stacked, PoolIsSafe, NothingLost, StackIsSafe
<1> QED BY <1>1, <1>2, InitPoolInv, PTL DEF PoolSpec

-----------------------------------------------------------------------------
LEMMA LeastNatural ==
  ASSUME NEW S \in SUBSET Nat, S # {}
  PROVE  \E n \in S : \A m \in S : n <= m
<1> DEFINE R == {ss \in Nat \X Nat : ss[1] < ss[2]}
<1>1. IsWellFoundedOn(R, Nat)
  BY NatLessThanWellFounded DEF OpToRel
<1> HIDE DEF R
<1>2. PICK n \in S : \A m \in S : ~ (<<m, n>> \in R)
  BY <1>1, WFMin
<1>3. \A m \in S : ~ (m < n)
  BY <1>2 DEF R
<1> QED
  BY <1>3

Rounds(g, n, start, f) ==
  g = [k \in 0 .. n |-> IF k = 0 THEN start ELSE f[k][g[k - 1]]]

\* A function defined by recursion on 0 .. n exists, when every round leads
\* from the k-1-st set of values to the k-th.
LEMMA Iterates ==
  ASSUME NEW n \in Nat, NEW T, NEW start, start \in T[0], NEW f,
         \A k \in 1 .. n : \A x \in T[k - 1] : f[k][x] \in T[k]
  PROVE  \E g : Rounds(g, n, start, f) /\ \A k \in 0 .. n : g[k] \in T[k]
<1> DEFINE Upto(m, g) ==
             /\ g = [k \in 0 .. m |-> IF k = 0 THEN start ELSE f[k][g[k - 1]]]
             /\ \A k \in 0 .. m : g[k] \in T[k]
           Bad == {m \in 0 .. n : ~ \E g : Upto(m, g)}
<1>1. Bad = {}
  <2> SUFFICES ASSUME Bad # {} PROVE FALSE
    OBVIOUS
  <2>1. PICK m \in Bad : \A k \in Bad : m <= k
    <3>1. Bad \in SUBSET Nat
      OBVIOUS
    <3> HIDE DEF Bad
    <3> QED
      BY <3>1, LeastNatural
  <2>2. CASE m = 0
    <3> DEFINE g == [k \in 0 .. 0 |-> start]
    <3>1. Upto(0, g)
      OBVIOUS
    <3>2. \E h : Upto(0, h)
      BY <3>1
    <3> QED
      BY <2>1, <2>2, <3>2
  <2>3. CASE m # 0
    <3>1. m \in 1 .. n /\ m - 1 \in 0 .. n /\ m \in Nat /\ m - 1 < m
      BY <2>3
    <3>2. m - 1 \notin Bad
      <4> HIDE DEF Bad
      <4> QED
        BY <2>1, <3>1
    <3>3. PICK g : Upto(m - 1, g)
      BY <3>1, <3>2
    <3> DEFINE h == [k \in 0 .. m |-> IF k < m THEN g[k] ELSE f[m][g[m - 1]]]
    <3>4. /\ \A k \in 0 .. m - 1 : h[k] = g[k]
          /\ h[m] = f[m][g[m - 1]]
          /\ h = [k \in 0 .. m |-> h[k]]
      BY <3>1
    <3> HIDE DEF h
    <3>5. /\ \A k \in 0 .. m - 1 : g[k] = IF k = 0 THEN start ELSE f[k][g[k - 1]]
          /\ \A k \in 0 .. m - 1 : g[k] \in T[k]
      <4>1. g = [k \in 0 .. m - 1 |-> IF k = 0 THEN start ELSE f[k][g[k - 1]]]
        BY <3>3
      <4>2. ASSUME NEW k \in 0 .. m - 1
            PROVE  g[k] = IF k = 0 THEN start ELSE f[k][g[k - 1]]
        BY <4>1
      <4> QED
        BY <3>3, <4>2
    <3>6. h[m] \in T[m]
      <4>1. m - 1 \in 0 .. m - 1
        BY <3>1
      <4> QED
        BY <3>1, <3>4, <3>5, <4>1
    <3>7. ASSUME NEW k \in 0 .. m
          PROVE  h[k] = (IF k = 0 THEN start ELSE f[k][h[k - 1]]) /\ h[k] \in T[k]
      <4>1. CASE k = 0
        <5>1. k \in 0 .. m - 1
          BY <3>1, <4>1
        <5> QED
          BY <3>4, <3>5, <4>1, <5>1
      <4>2. CASE k # 0 /\ k < m
        <5>1. k \in 0 .. m - 1 /\ k - 1 \in 0 .. m - 1
          BY <3>1, <4>2
        <5> QED
          BY <3>4, <3>5, <4>2, <5>1
      <4>3. CASE k = m
        <5>1. m - 1 \in 0 .. m - 1
          BY <3>1
        <5> QED
          BY <2>3, <3>4, <3>6, <4>3, <5>1
      <4> QED
        BY <3>1, <4>1, <4>2, <4>3
    <3>8. h = [k \in 0 .. m |-> IF k = 0 THEN start ELSE f[k][h[k - 1]]]
      BY <3>4, <3>7
    <3>9. \E e : Upto(m, e)
      BY <3>7, <3>8
    <3> QED
      BY <2>1, <3>9
  <2> QED
    BY <2>2, <2>3
<1>2. \E g : Upto(n, g)
  BY <1>1
<1> QED
  BY <1>2 DEF Rounds

-----------------------------------------------------------------------------
(***************************************************************************)
(* The container classes.  First the chains.                               *)
(***************************************************************************)
Ends == Cells \cup {NIL}

\* The k-th cell of a chain, NIL behind its end.
Nth(s, k) == IF k \in 1 .. Len(s) THEN s[k] ELSE NIL

\* From c on the heap h chains up the cells of s, each once.
Linked(h, c, s) == /\ s \in Seq(Cells)
                   /\ \A k, l \in 1 .. Len(s) : s[k] = s[l] => k = l
                   /\ c = Nth(s, 1)
                   /\ \A k \in 1 .. Len(s) : h[s[k]].next = Nth(s, k + 1)

\* What Walk computes, of any heap.
Walks(h) ==
  CHOOSE walk : walk = [n \in 0 .. Cardinality(Cells) |->
                          [d \in Cells \cup {NIL} |->
                             IF n = 0 \/ d = NIL THEN <<>>
                             ELSE <<d>> \o walk[n - 1][h[d].next]]]

WalkOf(h, c) == Walks(h)[Cardinality(Cells)][c]

LEMMA WalkIsOf == \A c : Walk(c) = WalkOf(heap, c)
  BY DEF Walk, WalkOf, Walks

LEMMA ManyCells == Cardinality(Cells) \in Nat
  BY CellsAssumption, FS_CardinalityType

LEMMA WalkRounds ==
  ASSUME NEW h \in [Cells -> Elem], NEW d \in Ends
  PROVE  /\ Walks(h)[0][d] = <<>>
         /\ \A n \in 1 .. Cardinality(Cells) :
              Walks(h)[n][d] = IF d = NIL THEN <<>> ELSE <<d>> \o Walks(h)[n - 1][h[d].next]
<1> DEFINE N == Cardinality(Cells)
           W == [Ends -> Seq(Cells)]
           T == [k \in 0 .. N |-> W]
           start == [e \in Ends |-> <<>>]
           round == [x \in W |-> [e \in Ends |-> IF e = NIL THEN <<>>
                                                 ELSE <<e>> \o x[h[e].next]]]
           f == [k \in 1 .. N |-> round]
           H(w) == [n \in 0 .. N |->
                      [e \in Ends |-> IF n = 0 \/ e = NIL THEN <<>>
                                      ELSE <<e>> \o w[n - 1][h[e].next]]]
<1>1. N \in Nat /\ \A e \in Ends : e # NIL => e \in Cells /\ h[e].next \in Ends
  BY ManyCells DEF Ends, Elem
<1>2. start \in T[0]
  BY <1>1, EmptySeq
<1>3. \A x \in W : round[x] \in W
  <2> SUFFICES ASSUME NEW x \in W, NEW e \in Ends PROVE round[x][e] \in Seq(Cells)
    OBVIOUS
  <2>1. CASE e = NIL
    BY <2>1, EmptySeq
  <2>2. CASE e # NIL
    <3>1. <<e>> \in Seq(Cells) /\ x[h[e].next] \in Seq(Cells)
      BY <1>1, <2>2
    <3>2. <<e>> \o x[h[e].next] \in Seq(Cells)
      BY <3>1, ConcatProperties
    <3> QED
      BY <2>2, <3>2
  <2> QED
    BY <2>1, <2>2
<1>4. \A k \in 1 .. N : \A x \in T[k - 1] : f[k][x] \in T[k]
  <2> HIDE DEF round, W
  <2> QED
    BY <1>1, <1>3
<1>5. PICK g : Rounds(g, N, start, f) /\ \A k \in 0 .. N : g[k] \in T[k]
  <2> HIDE DEF T, f, start
  <2> QED
    BY <1>1, <1>2, <1>4, Iterates
<1>6. g = H(g)
  <2>1. ASSUME NEW k \in 0 .. N
        PROVE  (IF k = 0 THEN start ELSE f[k][g[k - 1]]) = H(g)[k]
    <3>1. CASE k = 0
      BY <3>1
    <3>2. CASE k # 0
      <4>1. k \in 1 .. N /\ k - 1 \in 0 .. N
        BY <1>1, <3>2
      <4>2. g[k - 1] \in W
        BY <1>5, <4>1
      <4>3. f[k][g[k - 1]] = round[g[k - 1]]
        BY <4>1
      <4> QED
        BY <3>2, <4>1, <4>2, <4>3
    <3> QED
      BY <3>1, <3>2
  <2> HIDE DEF f, start
  <2>2. [k \in 0 .. N |-> IF k = 0 THEN start ELSE f[k][g[k - 1]]] = [k \in 0 .. N |-> H(g)[k]]
    BY <2>1
  <2> QED
    BY <1>5, <2>2 DEF Rounds
<1>7. Walks(h) = H(Walks(h))
  <2>1. Walks(h) = CHOOSE w : w = H(w)
    BY DEF Walks, Ends
  <2> HIDE DEF H
  <2> QED
    BY <1>6, <2>1
<1> DEFINE w == Walks(h)
<1> HIDE DEF w
<1>8. w = H(w)
  BY <1>7 DEF w
<1>9. \A n \in 0 .. N : w[n] = [e \in Ends |-> IF n = 0 \/ e = NIL THEN <<>>
                                               ELSE <<e>> \o w[n - 1][h[e].next]]
  BY <1>8
<1>10. w[0][d] = <<>>
  <2>1. 0 \in 0 .. N
    BY <1>1
  <2>2. w[0] = [e \in Ends |-> IF 0 = 0 \/ e = NIL THEN <<>>
                              ELSE <<e>> \o w[0 - 1][h[e].next]]
    BY <1>9, <2>1
  <2> QED
    BY <2>2
<1>11. ASSUME NEW n \in 1 .. N
       PROVE  w[n][d] = IF d = NIL THEN <<>> ELSE <<d>> \o w[n - 1][h[d].next]
  <2>1. n \in 0 .. N /\ n # 0
    BY <1>1
  <2> QED
    BY <1>9, <2>1
<1> QED
  BY <1>10, <1>11 DEF w

LEMMA ChainsFit ==
  ASSUME NEW h, NEW c, NEW s, Linked(h, c, s)
  PROVE  Len(s) \in 0 .. Cardinality(Cells)
<1> DEFINE n == Len(s)
<1>1. n \in Nat /\ s \in [1 .. n -> Cells]
  BY LenProperties DEF Linked
<1>2. s \in Injection(1 .. n, Cells)
  BY <1>1 DEF Linked, Injection, IsInjective
<1>3. Cardinality(1 .. n) <= Cardinality(Cells)
  BY <1>2, CellsAssumption, FS_Injection
<1>4. Cardinality(1 .. n) = n
  BY <1>1, FS_Interval
<1> QED
  BY <1>1, <1>3, <1>4, ManyCells

\* Walk finds the chain there is, whatever its length.
LEMMA WalkFinds ==
  ASSUME NEW h \in [Cells -> Elem], NEW c, NEW s, Linked(h, c, s)
  PROVE  WalkOf(h, c) = s
<1> DEFINE N == Cardinality(Cells)
           n == Len(s)
           Behind(k) == SubSeq(s, k, n)
           Missed == {m \in 0 .. n : \E j \in m .. N :
                                        Walks(h)[j][Nth(s, n + 1 - m)] # Behind(n + 1 - m)}
<1>1. /\ N \in Nat /\ n \in 0 .. N /\ s \in Seq(Cells) /\ s \in [1 .. n -> Cells]
      /\ \A k \in Int : Nth(s, k) \in Ends
      /\ c = Nth(s, 1)
  BY ManyCells, ChainsFit, LenProperties DEF Linked, Nth, Ends
<1> HIDE DEF N, n
<1>2. Missed = {}
  <2>0. SUFFICES ASSUME Missed # {} PROVE FALSE
    OBVIOUS
  <2>1. PICK m \in Missed : \A k \in Missed : m <= k
    <3>1. Missed \in SUBSET Nat
      BY <1>1
    <3> HIDE DEF Missed
    <3> QED
      BY <3>1, <2>0, LeastNatural
  <2>2. m \in 0 .. n /\ m - 1 \notin Missed
    <3>1. m \in 0 .. n
      BY <2>1
    <3>2. m - 1 \in Missed => m <= m - 1
      <4> HIDE DEF Missed
      <4> QED
        BY <2>1
    <3> QED
      BY <1>1, <3>1, <3>2
  <2>3. PICK j \in m .. N : Walks(h)[j][Nth(s, n + 1 - m)] # Behind(n + 1 - m)
    BY <2>1
  <2> DEFINE k == n + 1 - m
  <2>4. k \in 1 .. n + 1 /\ j \in 0 .. N
    BY <1>1, <2>2, <2>3
  <2>5. CASE m = 0
    <3>1. Nth(s, k) = NIL /\ Behind(k) = <<>>
      BY <1>1, <2>5, SubSeqEmpty DEF Nth, n
    <3>2. NIL \in Ends
      BY DEF Ends
    <3>3. j = 0 \/ j \in 1 .. N
      BY <1>1, <2>4
    <3>4. Walks(h)[j][NIL] = <<>>
      BY <3>2, <3>3, WalkRounds DEF N
    <3> QED
      BY <2>3, <3>1, <3>4
  <2>6. CASE m # 0
    <3>1. /\ k \in 1 .. n /\ j \in 1 .. N /\ m - 1 \in 0 .. n /\ j - 1 \in m - 1 .. N
          /\ n + 1 - (m - 1) = k + 1
      BY <1>1, <2>2, <2>3, <2>6
    <3>2. Nth(s, k) = s[k] /\ s[k] \in Cells /\ s[k] # NIL /\ s[k] \in Ends
      BY <1>1, <3>1, CellsAssumption DEF Nth, Ends, n
    <3>3. h[s[k]].next = Nth(s, k + 1)
      BY <3>1 DEF Linked, n
    <3>4. Walks(h)[j - 1][Nth(s, k + 1)] = Behind(k + 1)
      BY <2>2, <3>1
    <3>5. Walks(h)[j][s[k]] = <<s[k]>> \o Behind(k + 1)
      <4>1. Walks(h)[j][s[k]] = IF s[k] = NIL THEN <<>>
                                ELSE <<s[k]>> \o Walks(h)[j - 1][h[s[k]].next]
        BY <3>1, <3>2, WalkRounds DEF N
      <4> HIDE DEF Behind, k
      <4> QED
        BY <3>2, <3>3, <3>4, <4>1
    <3>6. Behind(k) = <<s[k]>> \o Behind(k + 1)
      <4>1. n \in k .. Len(s) /\ k \in 1 .. Len(s)
        BY <1>1, <3>1 DEF n
      <4> QED
        BY <1>1, <4>1, SubSeqRecursiveFirst
    <3> QED
      BY <2>3, <3>2, <3>5, <3>6
  <2> QED
    BY <2>5, <2>6
<1>3. /\ n \in 0 .. n /\ n + 1 - n = 1 /\ N \in n .. N
  BY <1>1
<1>4. Walks(h)[N][c] = Behind(1)
  BY <1>1, <1>2, <1>3
<1>5. Behind(1) = s
  BY <1>1, SubSeqFull DEF n
<1> QED
  BY <1>4, <1>5 DEF WalkOf, N

\* s with e behind its first n elements.
Spliced(s, n, e) ==
  [k \in 1 .. Len(s) + 1 |-> IF k <= n THEN s[k] ELSE IF k = n + 1 THEN e ELSE s[k - 1]]

\* The chains ch of all names, with what the struct of each points at: they
\* share no cell, and the cells in use are theirs.
Chained(h, u, starts, live, ch) ==
  /\ h \in [Cells -> Elem] /\ u \subseteq Cells /\ live \subseteq Names
  /\ ch \in [Names -> Seq(Cells)]
  /\ \A q \in Names : Linked(h, starts[q], ch[q])
  /\ \A q, r \in Names : \A j \in 1 .. Len(ch[q]), k \in 1 .. Len(ch[r]) :
       ch[q][j] = ch[r][k] => q = r
  /\ \A c \in Cells : c \in u <=> \E q \in Names : \E k \in 1 .. Len(ch[q]) : ch[q][k] = c
  /\ \A q \in Names \ live : ch[q] = <<>>
  /\ \A c \in u : h[c].obj \in Objects

\* What the cells of s hold; what all chains hold.
Kept(h, s) == [k \in 1 .. Len(s) |-> h[s[k]].obj]
Keeps(h, ch) == [q \in Names |-> Kept(h, ch[q])]

LEMMA KeptSame ==
  ASSUME NEW h, NEW h2, NEW s, \A k \in 1 .. Len(s) : h2[s[k]].obj = h[s[k]].obj
  PROVE  Kept(h2, s) = Kept(h, s)
  BY DEF Kept

LEMMA SplicedSeq ==
  ASSUME NEW S, NEW s \in Seq(S), NEW n \in 0 .. Len(s), NEW e \in S
  PROVE  /\ Spliced(s, n, e) \in Seq(S) /\ Len(Spliced(s, n, e)) = Len(s) + 1
         /\ \A k \in 1 .. Len(s) + 1 :
              Spliced(s, n, e)[k] = IF k <= n THEN s[k] ELSE IF k = n + 1 THEN e ELSE s[k - 1]
<1>1. Len(s) \in Nat /\ s \in [1 .. Len(s) -> S]
  BY LenProperties
<1>2. Spliced(s, n, e) \in [1 .. Len(s) + 1 -> S]
  BY <1>1 DEF Spliced
<1> QED
  BY <1>1, <1>2, SeqDef DEF Spliced

LEMMA SplicedAtEnd ==
  ASSUME NEW S, NEW s \in Seq(S), NEW e \in S, NEW n, n = Len(s)
  PROVE  Spliced(s, n, e) = Append(s, e)
<1>1. Len(s) \in Nat /\ s \in [1 .. Len(s) -> S] /\ n = Len(s)
  BY LenProperties
<1>2. Spliced(s, n, e) = [k \in 1 .. Len(s) + 1 |-> IF k <= Len(s) THEN s[k] ELSE e]
  <2>1. \A k \in 1 .. Len(s) + 1 : ~(k <= Len(s)) => k = Len(s) + 1
    BY <1>1
  <2> QED
    BY <1>1, <2>1 DEF Spliced
<1>3. /\ Append(s, e) \in Seq(S) /\ Len(Append(s, e)) = Len(s) + 1
      /\ \A k \in 1 .. Len(s) : Append(s, e)[k] = s[k]
      /\ Append(s, e)[Len(s) + 1] = e
  BY AppendProperties
<1>4. Append(s, e) = [k \in 1 .. Len(s) + 1 |-> Append(s, e)[k]]
  <2> DEFINE t == Append(s, e)
  <2>1. t \in [1 .. Len(t) -> S]
    BY <1>3, LenProperties
  <2> QED
    BY <1>3, <2>1
<1>5. ASSUME NEW k \in 1 .. Len(s) + 1
      PROVE  Append(s, e)[k] = IF k <= Len(s) THEN s[k] ELSE e
  BY <1>1, <1>3
<1> QED
  BY <1>2, <1>4, <1>5

LEMMA SplicedInFront ==
  ASSUME NEW S, NEW s \in Seq(S), NEW e \in S
  PROVE  Spliced(s, 0, e) = <<e>> \o s
<1>1. 0 \in 0 .. Len(s) /\ Len(s) \in Nat
  BY LenProperties
<1>2. /\ Spliced(s, 0, e) \in Seq(S) /\ Len(Spliced(s, 0, e)) = Len(s) + 1
      /\ \A k \in 1 .. Len(s) + 1 :
           Spliced(s, 0, e)[k] = IF k <= 0 THEN s[k] ELSE IF k = 0 + 1 THEN e ELSE s[k - 1]
  <2> DEFINE z == 0
  <2>1. z \in 0 .. Len(s)
    BY <1>1
  <2> HIDE DEF z
  <2>2. /\ Spliced(s, z, e) \in Seq(S) /\ Len(Spliced(s, z, e)) = Len(s) + 1
        /\ \A k \in 1 .. Len(s) + 1 :
             Spliced(s, z, e)[k] = IF k <= z THEN s[k] ELSE IF k = z + 1 THEN e ELSE s[k - 1]
    BY <2>1, SplicedSeq
  <2> QED
    BY <2>2 DEF z
<1>3. <<e>> \in Seq(S) /\ Len(<<e>>) = 1 /\ <<e>>[1] = e
  OBVIOUS
<1>4. /\ <<e>> \o s \in Seq(S) /\ Len(<<e>> \o s) = 1 + Len(s)
      /\ \A k \in 1 .. 1 + Len(s) : (<<e>> \o s)[k] = IF k <= 1 THEN <<e>>[k] ELSE s[k - 1]
  BY <1>3, ConcatProperties
<1>5. \A k \in 1 .. Len(s) + 1 : Spliced(s, 0, e)[k] = (<<e>> \o s)[k]
  BY <1>1, <1>2, <1>3, <1>4
<1>6. Len(Spliced(s, 0, e)) = Len(<<e>> \o s)
  BY <1>1, <1>2, <1>4
<1> QED
  BY <1>2, <1>4, <1>5, <1>6, SeqEqual

LEMMA StaysLinked ==
  ASSUME NEW h, NEW h2, NEW c, NEW s, Linked(h, c, s),
         \A k \in 1 .. Len(s) : h2[s[k]] = h[s[k]]
  PROVE  Linked(h2, c, s)
  BY DEF Linked

\* The cells of a chain, seen from the heap.
LEMMA ChainCells ==
  ASSUME NEW h, NEW u, NEW starts, NEW live, NEW ch, Chained(h, u, starts, live, ch),
         NEW q \in Names
  PROVE  /\ ch[q] \in Seq(Cells) /\ Len(ch[q]) \in Nat /\ ch[q] \in [1 .. Len(ch[q]) -> Cells]
         /\ \A k \in 1 .. Len(ch[q]) : ch[q][k] \in u /\ ch[q][k] \in Cells
         /\ \A k, l \in 1 .. Len(ch[q]) : ch[q][k] = ch[q][l] => k = l
         /\ starts[q] = Nth(ch[q], 1)
         /\ \A k \in 1 .. Len(ch[q]) : h[ch[q][k]].next = Nth(ch[q], k + 1)
         /\ ch[q] = <<>> <=> Len(ch[q]) = 0
<1>1. ch[q] \in Seq(Cells)
  BY DEF Chained
<1>2. Len(ch[q]) \in Nat /\ ch[q] \in [1 .. Len(ch[q]) -> Cells]
  BY <1>1, LenProperties
<1>3. ch[q] = <<>> <=> Len(ch[q]) = 0
  BY <1>1, EmptySeq
<1> QED
  BY <1>1, <1>2, <1>3 DEF Chained, Linked

\* The new cell e holds o, behind the first n cells of s.
Hangs(h, s, n, e, o, h2) ==
  /\ h2 \in [Cells -> Elem] /\ h2[e] = [obj |-> o, next |-> Nth(s, n + 1)]
  /\ \A c \in Cells \ {e} :
       h2[c] = IF n > 0 /\ c = s[n] THEN [obj |-> h[c].obj, next |-> e] ELSE h[c]

\* put into the container q: o behind its first n, in the new cell e.
Puts(h, u, starts, live, ch, q, n, e, o, h2, st2) ==
  /\ Chained(h, u, starts, live, ch)
  /\ q \in live /\ n \in 0 .. Len(ch[q]) /\ e \in Cells \ u /\ o \in Objects
  /\ Hangs(h, ch[q], n, e, o, h2)
  /\ \A r \in Names : st2[r] = IF r = q THEN IF n = 0 THEN e ELSE starts[q] ELSE starts[r]

PutIn(ch, q, n, e) == [ch EXCEPT ![q] = Spliced(ch[q], n, e)]

LEMMA PutChained ==
  ASSUME NEW h, NEW u, NEW starts, NEW live, NEW ch, NEW q, NEW n, NEW e, NEW o, NEW h2, NEW st2,
         Puts(h, u, starts, live, ch, q, n, e, o, h2, st2)
  PROVE  /\ Chained(h2, u \cup {e}, st2, live, PutIn(ch, q, n, e))
         /\ Keeps(h2, PutIn(ch, q, n, e)) = PutIn(Keeps(h, ch), q, n, o)
         /\ Len(PutIn(ch, q, n, e)[q]) = Len(ch[q]) + 1
<1> DEFINE ch2 == PutIn(ch, q, n, e)
<1>0. /\ h2 \in [Cells -> Elem] /\ h2[e] = [obj |-> o, next |-> Nth(ch[q], n + 1)]
      /\ \A c \in Cells \ {e} :
           h2[c] = IF n > 0 /\ c = ch[q][n] THEN [obj |-> h[c].obj, next |-> e] ELSE h[c]
  BY DEF Hangs, Puts
<1>a. /\ Chained(h, u, starts, live, ch)
      /\ q \in live /\ n \in 0 .. Len(ch[q]) /\ e \in Cells \ u /\ o \in Objects
  BY DEF Puts
<1>b. /\ \A r \in Names : st2[r] = IF r = q THEN IF n = 0 THEN e ELSE starts[q] ELSE starts[r]
      /\ ch2 = [ch EXCEPT ![q] = Spliced(ch[q], n, e)]
  BY DEF Puts, PutIn
<1> USE <1>a
<1> HIDE DEF ch2
<1> DEFINE s == ch[q]
           s2 == Spliced(s, n, e)
           L == Len(s)
<1>1. /\ q \in Names /\ live \subseteq Names /\ u \subseteq Cells /\ h \in [Cells -> Elem]
      /\ e \in Cells /\ e \notin u /\ ch \in [Names -> Seq(Cells)]
      /\ \A c \in u : h[c].obj \in Objects
  BY DEF Chained
<1>2. /\ s \in Seq(Cells) /\ L \in Nat /\ n \in 0 .. L
      /\ \A k \in 1 .. L : s[k] \in u /\ s[k] \in Cells /\ s[k] # e
      /\ \A k, l \in 1 .. L : s[k] = s[l] => k = l
      /\ starts[q] = Nth(s, 1)
      /\ \A k \in 1 .. L : h[s[k]].next = Nth(s, k + 1)
  BY <1>1, ChainCells
<1> HIDE DEF s, s2, L
<1>3. /\ s2 \in Seq(Cells) /\ Len(s2) = L + 1
      /\ \A k \in 1 .. L + 1 : s2[k] = IF k <= n THEN s[k] ELSE IF k = n + 1 THEN e ELSE s[k - 1]
      /\ \A k \in 1 .. L + 1 : \/ k <= n /\ k \in 1 .. L /\ s2[k] = s[k]
                               \/ k = n + 1 /\ s2[k] = e
                               \/ k > n + 1 /\ k - 1 \in 1 .. L /\ s2[k] = s[k - 1]
  <2>1. n \in 0 .. Len(s)
    BY <1>2 DEF L
  <2>2. /\ s2 \in Seq(Cells) /\ Len(s2) = L + 1
        /\ \A k \in 1 .. L + 1 : s2[k] = IF k <= n THEN s[k] ELSE IF k = n + 1 THEN e ELSE s[k - 1]
    <3>1. e \in Cells /\ s \in Seq(Cells)
      BY <1>1, <1>2
    <3> DEFINE t == Spliced(s, n, e)
    <3>2. /\ t \in Seq(Cells) /\ Len(t) = Len(s) + 1
          /\ \A k \in 1 .. Len(s) + 1 :
               t[k] = IF k <= n THEN s[k] ELSE IF k = n + 1 THEN e ELSE s[k - 1]
      BY <2>1, <3>1, SplicedSeq
    <3> QED
      BY <3>2 DEF s2, L
  <2> QED
    BY <1>2, <2>2
<1>4. /\ ch2 \in [Names -> Seq(Cells)] /\ ch2[q] = s2
      /\ \A r \in Names \ {q} : ch2[r] = ch[r]
  BY <1>b, <1>1, <1>3 DEF s, s2
<1>5. Linked(h2, st2[q], s2)
  <2>1. ASSUME NEW k \in 1 .. L + 1, NEW l \in 1 .. L + 1, s2[k] = s2[l] PROVE k = l
    <3>0. ASSUME NEW x \in 1 .. L + 1, s2[x] = e PROVE x = n + 1
      BY <1>2, <1>3, <3>0
    <3>1. CASE k = n + 1 \/ l = n + 1
      <4>1. s2[k] = e \/ s2[l] = e
        BY <1>2, <1>3, <3>1
      <4> QED
        BY <2>1, <3>0, <4>1
    <3>2. CASE k # n + 1 /\ l # n + 1
      <4> DEFINE From(x) == IF x <= n THEN x ELSE x - 1
      <4>1. /\ From(k) \in 1 .. L /\ s2[k] = s[From(k)]
            /\ From(l) \in 1 .. L /\ s2[l] = s[From(l)]
        BY <1>3, <3>2
      <4>2. From(k) = From(l)
        <5> HIDE DEF From
        <5> QED
          BY <1>2, <2>1, <4>1
      <4> QED
        BY <1>2, <3>2, <4>2
    <3> QED
      BY <3>1, <3>2
  <2>2. st2[q] = Nth(s2, 1)
    <3>1. Nth(s2, 1) = s2[1]
      BY <1>2, <1>3 DEF Nth
    <3>2. n > 0 => Nth(s, 1) = s[1]
      BY <1>2 DEF Nth, L
    <3>3. st2[q] = IF n = 0 THEN e ELSE starts[q]
      BY <1>b, <1>1
    <3>4. s2[1] = IF n = 0 THEN e ELSE s[1]
      <4>1. 1 \in 1 .. L + 1 /\ (1 <= n <=> n # 0) /\ (1 = n + 1 <=> n = 0)
        BY <1>2
      <4> QED
        BY <1>3, <4>1
    <3> QED
      BY <1>2, <3>1, <3>2, <3>3, <3>4
  <2>3. ASSUME NEW k \in 1 .. L + 1 PROVE h2[s2[k]].next = Nth(s2, k + 1)
    <3>1. Nth(s2, k + 1) = IF k <= L THEN s2[k + 1] ELSE NIL
      BY <1>2, <1>3 DEF Nth
    <3>2. CASE k < n
      <4>1. s2[k] = s[k] /\ s2[k + 1] = s[k + 1] /\ k \in 1 .. L /\ k + 1 \in 1 .. L /\ n \in 1 .. L
        BY <1>2, <1>3, <3>2
      <4>2. h2[s[k]] = h[s[k]]
        <5>1. s[k] # s[n] /\ s[k] \in Cells \ {e}
          BY <1>2, <3>2, <4>1
        <5> QED
          BY <1>0, <5>1 DEF s
      <4>3. Nth(s, k + 1) = s[k + 1]
        BY <4>1 DEF Nth, L
      <4> QED
        BY <1>2, <3>1, <4>1, <4>2, <4>3
    <3>3. CASE k = n
      <4>1. s2[k] = s[n] /\ s2[k + 1] = e /\ n \in 1 .. L
        BY <1>2, <1>3, <3>3
      <4>2. h2[s[n]].next = e
        BY <1>0, <1>2, <4>1 DEF s
      <4> QED
        BY <1>2, <3>1, <3>3, <4>1, <4>2
    <3>4. CASE k = n + 1
      <4>1. s2[k] = e /\ h2[e].next = Nth(s, n + 1)
        BY <1>0, <1>2, <1>3, <3>4 DEF s
      <4>2. Nth(s, n + 1) = IF n + 1 <= L THEN s[n + 1] ELSE NIL
        BY <1>2 DEF Nth, L
      <4>3. k <= L => s2[k + 1] = s[n + 1]
        BY <1>2, <1>3, <3>4
      <4> QED
        BY <1>2, <3>1, <3>4, <4>1, <4>2, <4>3
    <3>5. CASE k > n + 1
      <4>0. k - 1 \in 1 .. L /\ (n > 0 => n \in 1 .. L) /\ n # k - 1
        BY <1>2, <3>5
      <4>1. s2[k] = s[k - 1] /\ (k <= L => s2[k + 1] = s[k])
            /\ (n > 0 => s[k - 1] # s[n])
        <5>1. s2[k] = s[k - 1]
          BY <1>2, <1>3, <3>5
        <5>2. k <= L => k + 1 \in 1 .. L + 1 /\ k + 1 > n + 1 /\ k + 1 - 1 = k
          BY <1>2, <3>5
        <5>3. k <= L => s2[k + 1] = s[k]
          BY <1>2, <1>3, <5>2
        <5>4. n > 0 => s[k - 1] # s[n]
          BY <1>2, <4>0
        <5> QED
          BY <5>1, <5>3, <5>4
      <4>2. h2[s[k - 1]] = h[s[k - 1]]
        BY <1>0, <1>2, <4>0, <4>1 DEF s
      <4>3. Nth(s, k - 1 + 1) = IF k <= L THEN s[k] ELSE NIL
        BY <1>2, <3>5 DEF Nth, L
      <4> QED
        BY <1>2, <3>1, <4>0, <4>1, <4>2, <4>3
    <3> QED
      BY <1>2, <3>2, <3>3, <3>4, <3>5
  <2> QED
    BY <1>3, <2>1, <2>2, <2>3 DEF Linked
<1>6. ASSUME NEW r \in Names, r # q
      PROVE  /\ \A k \in 1 .. Len(ch[r]) : /\ ch[r][k] \in u /\ ch[r][k] \in Cells
                                           /\ h2[ch[r][k]] = h[ch[r][k]]
             /\ Linked(h2, st2[r], ch[r])
  <2>1. \A k \in 1 .. Len(ch[r]) : ch[r][k] \in u /\ ch[r][k] \in Cells
    BY ChainCells
  <2>2. \A k \in 1 .. Len(ch[r]), j \in 1 .. L : ch[r][k] # s[j]
    BY <1>1, <1>6 DEF Chained, s, L
  <2>3. ASSUME NEW k \in 1 .. Len(ch[r]) PROVE h2[ch[r][k]] = h[ch[r][k]]
    <3>1. n > 0 => ch[r][k] # s[n]
      BY <1>2, <2>2
    <3> QED
      BY <1>0, <1>1, <2>1, <3>1 DEF s
  <2>4. Linked(h, starts[r], ch[r]) /\ st2[r] = starts[r]
    BY <1>b, <1>6 DEF Chained
  <2> QED
    BY <2>1, <2>3, <2>4, StaysLinked
<1>7. \A r \in Names : Linked(h2, st2[r], ch2[r])
  BY <1>4, <1>5, <1>6
<1>8. ASSUME NEW q1 \in Names, NEW r1 \in Names,
             NEW j \in 1 .. Len(ch2[q1]), NEW k \in 1 .. Len(ch2[r1]), ch2[q1][j] = ch2[r1][k]
      PROVE  q1 = r1
  <2>1. \A r \in Names \ {q} : \A l \in 1 .. Len(ch[r]), m \in 1 .. L + 1 : ch[r][l] # s2[m]
    <3> SUFFICES ASSUME NEW r \in Names \ {q}, NEW l \in 1 .. Len(ch[r]), NEW m \in 1 .. L + 1,
                        ch[r][l] = s2[m]
                 PROVE  FALSE
      OBVIOUS
    <3>1. ch[r][l] # e
      BY <1>1, <1>6
    <3>2. \E x \in 1 .. L : s2[m] = s[x]
      BY <1>3, <3>1
    <3> QED
      BY <1>1, <3>2 DEF Chained, s, L
  <2>2. CASE q1 # q /\ r1 # q
    BY <1>4, <1>8, <2>2 DEF Chained
  <2>3. CASE q1 = q /\ r1 # q
    BY <1>3, <1>4, <1>8, <2>1, <2>3
  <2>4. CASE q1 # q /\ r1 = q
    BY <1>3, <1>4, <1>8, <2>1, <2>4
  <2> QED
    BY <2>2, <2>3, <2>4
<1>9. ASSUME NEW c \in Cells
      PROVE  c \in u \cup {e} <=> \E r \in Names : \E k \in 1 .. Len(ch2[r]) : ch2[r][k] = c
  <2>1. c \in u <=> \E r \in Names : \E k \in 1 .. Len(ch[r]) : ch[r][k] = c
    BY DEF Chained
  <2>2. c = e \/ (\E k \in 1 .. L : s[k] = c) <=> \E k \in 1 .. L + 1 : s2[k] = c
    <3>1. s2[n + 1] = e /\ n + 1 \in 1 .. L + 1
      BY <1>2, <1>3
    <3>2. ASSUME NEW k \in 1 .. L PROVE \E l \in 1 .. L + 1 : s2[l] = s[k]
      <4>1. CASE k <= n
        BY <1>2, <1>3, <4>1
      <4>2. CASE k > n
        <5>1. k + 1 \in 1 .. L + 1 /\ k + 1 > n + 1 /\ k + 1 - 1 = k
          BY <1>2, <4>2
        <5>2. s2[k + 1] = s[k]
          BY <1>2, <1>3, <5>1
        <5> QED
          BY <5>1, <5>2
      <4> QED
        BY <1>2, <4>1, <4>2
    <3>3. ASSUME NEW l \in 1 .. L + 1, s2[l] # e PROVE \E k \in 1 .. L : s[k] = s2[l]
      <4>1. CASE l <= n
        <5>1. l \in 1 .. L /\ s2[l] = s[l]
          BY <1>2, <1>3, <4>1
        <5> QED
          BY <5>1
      <4>2. CASE l > n
        <5>1. l - 1 \in 1 .. L /\ s2[l] = s[l - 1]
          BY <1>2, <1>3, <3>3, <4>2
        <5> QED
          BY <5>1
      <4> QED
        BY <1>2, <4>1, <4>2
    <3> QED
      BY <3>1, <3>2, <3>3
  <2>3. (\E r \in Names : \E k \in 1 .. Len(ch2[r]) : ch2[r][k] = c)
          <=> \/ \E k \in 1 .. L + 1 : s2[k] = c
              \/ \E r \in Names \ {q} : \E k \in 1 .. Len(ch[r]) : ch[r][k] = c
    BY <1>1, <1>3, <1>4
  <2>4. (\E r \in Names : \E k \in 1 .. Len(ch[r]) : ch[r][k] = c)
          <=> \/ \E k \in 1 .. L : s[k] = c
              \/ \E r \in Names \ {q} : \E k \in 1 .. Len(ch[r]) : ch[r][k] = c
    BY <1>1 DEF s, L
  <2> QED
    BY <2>1, <2>2, <2>3, <2>4
<1>10. \A c \in u \cup {e} : h2[c].obj \in Objects
  BY <1>0, <1>1
<1>11. \A r \in Names \ live : ch2[r] = <<>>
  BY <1>1, <1>4 DEF Chained
<1>12. Chained(h2, u \cup {e}, st2, live, ch2)
  BY <1>0, <1>1, <1>4, <1>7, <1>8, <1>9, <1>10, <1>11 DEF Chained
<1>13. ASSUME NEW r \in Names
       PROVE  Keeps(h2, ch2)[r] = IF r = q THEN Spliced(Keeps(h, ch)[q], n, o) ELSE Keeps(h, ch)[r]
  <2>1. CASE r # q
    <3>1. ch2[r] = ch[r] /\ Kept(h2, ch[r]) = Kept(h, ch[r])
      BY <1>4, <1>6, <2>1, KeptSame
    <3> QED
      BY <2>1, <3>1 DEF Keeps
  <2>2. CASE r = q
    <3> DEFINE g == [k \in 1 .. L |-> h[s[k]].obj]
    <3>1. Keeps(h, ch)[q] = g
      BY <1>1 DEF Keeps, Kept, s, L
    <3>2. Len(g) = L
      BY <1>2
    <3>3. Keeps(h2, ch2)[q] = [k \in 1 .. L + 1 |-> h2[s2[k]].obj]
      <4>1. Keeps(h2, ch2)[q] = Kept(h2, s2)
        BY <1>1, <1>4 DEF Keeps
      <4>2. Kept(h2, s2) = [k \in 1 .. Len(s2) |-> h2[s2[k]].obj]
        BY DEF Kept
      <4> QED
        BY <1>3, <4>1, <4>2
    <3>4. ASSUME NEW k \in 1 .. L + 1
          PROVE  h2[s2[k]].obj = IF k <= n THEN g[k] ELSE IF k = n + 1 THEN o ELSE g[k - 1]
      <4>1. \A l \in 1 .. L : h2[s[l]].obj = h[s[l]].obj
        BY <1>0, <1>1, <1>2
      <4>2. h2[e].obj = o
        BY <1>0
      <4> QED
        BY <1>2, <1>3, <4>1, <4>2
    <3>5. Spliced(g, n, o) = [k \in 1 .. L + 1 |-> h2[s2[k]].obj]
      BY <3>2, <3>4 DEF Spliced
    <3> QED
      BY <2>2, <3>1, <3>3, <3>5
  <2> QED
    BY <2>1, <2>2
<1>14. Keeps(h2, ch2) = PutIn(Keeps(h, ch), q, n, o)
  BY <1>1, <1>13 DEF Keeps, PutIn
<1> QED
  BY <1>3, <1>4, <1>12, <1>14 DEF s, s2, L, ch2

LEMMA KeptSeq ==
  ASSUME NEW h, NEW u, NEW starts, NEW live, NEW ch, Chained(h, u, starts, live, ch),
         NEW q \in Names
  PROVE  /\ Kept(h, ch[q]) \in Seq(Objects) /\ Len(Kept(h, ch[q])) = Len(ch[q])
         /\ \A k \in 1 .. Len(ch[q]) : Kept(h, ch[q])[k] = h[ch[q][k]].obj
         /\ Keeps(h, ch)[q] = Kept(h, ch[q])
         /\ Kept(h, ch[q]) = <<>> <=> ch[q] = <<>>
<1> DEFINE g == Kept(h, ch[q])
           n == Len(ch[q])
<1>1. n \in Nat /\ \A k \in 1 .. n : h[ch[q][k]].obj \in Objects
  BY ChainCells DEF Chained
<1>2. g = [k \in 1 .. n |-> h[ch[q][k]].obj]
  BY DEF Kept
<1> HIDE DEF g
<1>3. g \in [1 .. n -> Objects]
  BY <1>1, <1>2
<1>4. g \in Seq(Objects)
  BY <1>1, <1>3, SeqDef
<1>5. Len(g) = n
  BY <1>1, <1>3, <1>4, LenProperties
<1>6. g = <<>> <=> ch[q] = <<>>
  BY <1>4, <1>5, EmptySeq, ChainCells
<1> QED
  BY <1>2, <1>4, <1>5, <1>6 DEF g, Keeps

\* get and delete: the first n cells of the chain of q are freed.
Frees(h, u, starts, live, ch, q, n, live2, h2, u2, st2) ==
  /\ Chained(h, u, starts, live, ch)
  /\ q \in live /\ n \in 0 .. Len(ch[q])
  /\ live2 \subseteq live /\ \A r \in live \ live2 : r = q /\ n = Len(ch[q])
  /\ h2 = [c \in Cells |-> IF \E k \in 1 .. n : c = ch[q][k] THEN Blank ELSE h[c]]
  /\ u2 = {c \in u : \A k \in 1 .. n : c # ch[q][k]}
  /\ \A r \in Names : st2[r] = IF r = q THEN Nth(ch[q], n + 1) ELSE starts[r]

Cut(ch, q, n) == [ch EXCEPT ![q] = SubSeq(ch[q], n + 1, Len(ch[q]))]

LEMMA FreeChained ==
  ASSUME NEW h, NEW u, NEW starts, NEW live, NEW ch, NEW q, NEW n, NEW live2, NEW h2, NEW u2,
         NEW st2, Frees(h, u, starts, live, ch, q, n, live2, h2, u2, st2)
  PROVE  /\ Chained(h2, u2, st2, live2, Cut(ch, q, n))
         /\ Keeps(h2, Cut(ch, q, n)) = Cut(Keeps(h, ch), q, n)
<1> DEFINE ch2 == Cut(ch, q, n)
<1>a. /\ Chained(h, u, starts, live, ch)
      /\ q \in live /\ n \in 0 .. Len(ch[q]) /\ live2 \in SUBSET live
  BY DEF Frees
<1>b. /\ \A r \in Names : st2[r] = IF r = q THEN Nth(ch[q], n + 1) ELSE starts[r]
      /\ ch2 = [ch EXCEPT ![q] = SubSeq(ch[q], n + 1, Len(ch[q]))]
  BY DEF Frees, Cut
<1>c. /\ h2 = [c \in Cells |-> IF \E k \in 1 .. n : c = ch[q][k] THEN Blank ELSE h[c]]
      /\ u2 = {c \in u : \A k \in 1 .. n : c # ch[q][k]}
  BY DEF Frees
<1>d. \A r \in live \ live2 : r = q /\ n = Len(ch[q])
  BY DEF Frees
<1> USE <1>a
<1> HIDE DEF ch2
<1> DEFINE s == ch[q]
           L == Len(s)
           s2 == SubSeq(s, n + 1, L)
           Gone(c) == \E k \in 1 .. n : c = s[k]
<1>1. /\ q \in Names /\ live \subseteq Names /\ u \subseteq Cells /\ h \in [Cells -> Elem]
      /\ ch \in [Names -> Seq(Cells)]
      /\ \A c \in u : h[c].obj \in Objects
  BY DEF Chained
<1>2. /\ s \in Seq(Cells) /\ L \in Nat /\ n \in 0 .. L
      /\ \A k \in 1 .. L : s[k] \in u /\ s[k] \in Cells
      /\ \A k, l \in 1 .. L : s[k] = s[l] => k = l
      /\ \A k \in 1 .. L : h[s[k]].next = Nth(s, k + 1)
  BY <1>1, ChainCells
<1>3. /\ s2 \in Seq(Cells) /\ Len(s2) = L - n
      /\ \A k \in 1 .. L - n : s2[k] = s[n + k]
  <2>1. n + 1 \in Int /\ L \in Int /\ \A k \in n + 1 .. L : s[k] \in Cells
    BY <1>2
  <2> HIDE DEF s, L
  <2>2. /\ s2 \in Seq(Cells) /\ Len(s2) = IF n + 1 <= L THEN L - (n + 1) + 1 ELSE 0
        /\ \A k \in 1 .. L - (n + 1) + 1 : s2[k] = s[n + 1 + k - 1]
    BY <2>1, SubSeqProperties
  <2> HIDE DEF s2
  <2> QED
    BY <1>2, <2>2
<1>4. /\ ch2 \in [Names -> Seq(Cells)] /\ ch2[q] = s2
      /\ \A r \in Names \ {q} : ch2[r] = ch[r]
  BY <1>b, <1>1, <1>3
<1>0. L \in Nat /\ n \in Nat /\ n <= L
  BY <1>2
<1>5. /\ u2 = {c \in u : ~Gone(c)}
      /\ \A c \in Cells : h2[c] = IF Gone(c) THEN Blank ELSE h[c]
  BY <1>c
<1> HIDE DEF s, s2, L
<1>6. h2 \in [Cells -> Elem]
  <2>1. Blank \in Elem /\ \A c \in Cells : h[c] \in Elem
    BY <1>1 DEF Blank, Elem
  <2> QED
    BY <1>c, <2>1
<1>7. ASSUME NEW k \in 1 .. L - n
      PROVE  /\ n + k \in 1 .. L /\ ~Gone(s[n + k]) /\ h2[s[n + k]] = h[s[n + k]]
             /\ s[n + k] \in u2
  <2>1. n + k \in 1 .. L /\ \A l \in 1 .. n : l \in 1 .. L /\ l # n + k
    BY <1>2
  <2>2. ~Gone(s[n + k])
    BY <1>2, <2>1
  <2> HIDE DEF Gone
  <2> QED
    BY <1>2, <1>5, <2>1, <2>2
<1>8. Linked(h2, st2[q], s2)
  <2>1. ASSUME NEW k \in 1 .. L - n, NEW l \in 1 .. L - n, s2[k] = s2[l] PROVE k = l
    <3>1. s2[k] = s[n + k] /\ s2[l] = s[n + l] /\ n + k \in 1 .. L /\ n + l \in 1 .. L
      BY <1>3, <1>7
    <3>2. n + k = n + l
      BY <1>2, <2>1, <3>1
    <3> QED
      BY <1>2, <3>2
  <2>2. st2[q] = Nth(s2, 1)
    <3>1. st2[q] = Nth(s, n + 1)
      BY <1>b, <1>1 DEF s
    <3>2. Nth(s, n + 1) = Nth(s2, 1)
      <4>1. CASE n < L
        <5>1. n + 1 \in 1 .. L /\ 1 \in 1 .. L - n
          BY <1>0, <4>1
        <5>2. s2[1] = s[n + 1]
          BY <1>3, <5>1
        <5> QED
          BY <1>3, <5>1, <5>2 DEF Nth, L
      <4>2. CASE n = L
        <5>1. ~(n + 1 \in 1 .. L) /\ ~(1 \in 1 .. L - n)
          BY <1>0, <4>2
        <5> QED
          BY <1>3, <5>1 DEF Nth, L
      <4> QED
        BY <1>2, <4>1, <4>2
    <3> QED
      BY <3>1, <3>2
  <2>3. ASSUME NEW k \in 1 .. L - n PROVE h2[s2[k]].next = Nth(s2, k + 1)
    <3>1. h2[s2[k]].next = Nth(s, n + k + 1)
      <4>1. h[s[n + k]].next = Nth(s, n + k + 1)
        BY <1>2, <1>7
      <4> QED
        BY <1>3, <1>7, <4>1
    <3>2. CASE k < L - n
      <4>1. k + 1 \in 1 .. L - n /\ n + k + 1 \in 1 .. L /\ n + (k + 1) = n + k + 1
        BY <1>0, <3>2
      <4>2. s2[k + 1] = s[n + k + 1]
        BY <1>3, <4>1
      <4> QED
        BY <1>3, <3>1, <4>1, <4>2 DEF Nth, L
    <3>3. CASE k = L - n
      <4>1. n + k + 1 = L + 1 /\ ~(k + 1 \in 1 .. L - n) /\ ~(L + 1 \in 1 .. L)
        BY <1>0, <3>3
      <4> QED
        BY <1>3, <3>1, <4>1 DEF Nth, L
    <3> QED
      BY <1>2, <3>2, <3>3
  <2> QED
    BY <1>3, <2>1, <2>2, <2>3 DEF Linked
<1>9. ASSUME NEW r \in Names, r # q
      PROVE  /\ \A k \in 1 .. Len(ch[r]) : /\ ch[r][k] \in u2 /\ ch[r][k] \in Cells
                                           /\ h2[ch[r][k]] = h[ch[r][k]]
             /\ Linked(h2, st2[r], ch[r])
  <2>1. \A k \in 1 .. Len(ch[r]) : ch[r][k] \in u /\ ch[r][k] \in Cells
    BY ChainCells
  <2>2. \A k \in 1 .. Len(ch[r]), j \in 1 .. L : ch[r][k] # s[j]
    BY <1>1, <1>9 DEF Chained, s, L
  <2>3. \A j \in 1 .. n : j \in 1 .. L
    BY <1>2
  <2>4. \A k \in 1 .. Len(ch[r]) : ~Gone(ch[r][k])
    BY <2>2, <2>3
  <2>5. \A k \in 1 .. Len(ch[r]) : ch[r][k] \in u2 /\ h2[ch[r][k]] = h[ch[r][k]]
    <3> HIDE DEF Gone
    <3> QED
      BY <1>5, <2>1, <2>4
  <2>6. Linked(h, starts[r], ch[r]) /\ st2[r] = starts[r]
    BY <1>b, <1>9 DEF Chained
  <2> QED
    BY <2>1, <2>5, <2>6, StaysLinked
<1>10. \A r \in Names : Linked(h2, st2[r], ch2[r])
  BY <1>4, <1>8, <1>9
<1>11. \A r \in Names : \A k \in 1 .. Len(ch2[r]) :
         \E l \in 1 .. Len(ch[r]) : ch2[r][k] = ch[r][l] /\ ch2[r][k] \in u2
  <2>1. ASSUME NEW k \in 1 .. L - n PROVE \E l \in 1 .. L : s2[k] = s[l] /\ s2[k] \in u2
    BY <1>3, <1>7
  <2>2. Len(ch2[q]) = L - n /\ ch[q] = s
    BY <1>3, <1>4 DEF s
  <2> QED
    <3> SUFFICES ASSUME NEW r \in Names, NEW k \in 1 .. Len(ch2[r])
                 PROVE  \E l \in 1 .. Len(ch[r]) : ch2[r][k] = ch[r][l] /\ ch2[r][k] \in u2
      OBVIOUS
    <3>1. CASE r # q
      BY <1>4, <1>9, <3>1
    <3>2. CASE r = q
      BY <1>4, <2>1, <2>2, <3>2 DEF L
    <3> QED
      BY <3>1, <3>2
<1>12. ASSUME NEW q1 \in Names, NEW r1 \in Names,
              NEW j \in 1 .. Len(ch2[q1]), NEW k \in 1 .. Len(ch2[r1]), ch2[q1][j] = ch2[r1][k]
       PROVE  q1 = r1
  <2>1. PICK j0 \in 1 .. Len(ch[q1]) : ch2[q1][j] = ch[q1][j0]
    BY <1>11
  <2>2. PICK k0 \in 1 .. Len(ch[r1]) : ch2[r1][k] = ch[r1][k0]
    BY <1>11
  <2> QED
    <3>1. \A p1, p2 \in Names : \A x \in 1 .. Len(ch[p1]), y \in 1 .. Len(ch[p2]) :
            ch[p1][x] = ch[p2][y] => p1 = p2
      BY DEF Chained
    <3>2. ch[q1][j0] = ch[r1][k0]
      BY <1>12, <2>1, <2>2
    <3> QED
      BY <3>1, <3>2
<1>13. ASSUME NEW c \in Cells
       PROVE  c \in u2 <=> \E r \in Names : \E k \in 1 .. Len(ch2[r]) : ch2[r][k] = c
  <2>1. ASSUME c \in u2 PROVE \E r \in Names : \E k \in 1 .. Len(ch2[r]) : ch2[r][k] = c
    <3>1. c \in u /\ ~Gone(c)
      BY <1>5, <2>1
    <3>2. PICK r \in Names : \E k \in 1 .. Len(ch[r]) : ch[r][k] = c
      BY <3>1 DEF Chained
    <3>3. CASE r # q
      BY <1>4, <3>2, <3>3
    <3>4. CASE r = q
      <4>1. PICK k \in 1 .. L : s[k] = c
        BY <3>2, <3>4 DEF s, L
      <4>2. k > n
        BY <1>2, <3>1, <4>1
      <4>3. k - n \in 1 .. L - n /\ n + (k - n) = k
        BY <1>2, <4>2
      <4>4. s2[k - n] = c
        BY <1>3, <4>1, <4>3
      <4> QED
        BY <1>1, <1>3, <1>4, <4>3, <4>4
    <3> QED
      BY <3>3, <3>4
  <2> QED
    BY <1>11, <2>1
<1>14. \A c \in u2 : c \in u /\ c \in Cells /\ h2[c].obj \in Objects
  BY <1>1, <1>5
<1>15. \A r \in Names \ live2 : ch2[r] = <<>>
  <2>1. ASSUME NEW r \in Names \ live PROVE ch2[r] = <<>>
    BY <1>1, <1>4 DEF Chained
  <2>2. ASSUME NEW r \in live \ live2 PROVE ch2[r] = <<>>
    <3>1. r = q /\ n = L
      BY <1>d DEF s, L
    <3>2. s2 = <<>>
      BY <1>2, <3>1, SubSeqEmpty DEF s2
    <3> QED
      BY <1>4, <3>1, <3>2
  <2> QED
    BY <2>1, <2>2
<1>16. Chained(h2, u2, st2, live2, ch2)
  <2>1. u2 \subseteq Cells /\ live2 \subseteq Names
    BY <1>1, <1>14
  <2> QED
    BY <1>4, <1>6, <1>10, <1>12, <1>13, <1>14, <1>15, <2>1 DEF Chained
<1>17. ASSUME NEW r \in Names
       PROVE  Keeps(h2, ch2)[r] = IF r = q THEN SubSeq(Keeps(h, ch)[q], n + 1, L)
                                  ELSE Keeps(h, ch)[r]
  <2>1. CASE r # q
    <3>0. \A k \in 1 .. Len(ch[r]) : h2[ch[r][k]].obj = h[ch[r][k]].obj
      BY <1>9, <2>1
    <3>1. ch2[r] = ch[r] /\ Kept(h2, ch[r]) = Kept(h, ch[r])
      <4>1. Kept(h2, ch[r]) = Kept(h, ch[r])
        BY <3>0, KeptSame
      <4> QED
        BY <1>4, <2>1, <4>1
    <3> QED
      BY <2>1, <3>1 DEF Keeps
  <2>2. CASE r = q
    <3> DEFINE g == [k \in 1 .. L |-> h[s[k]].obj]
               g2 == [k \in 1 .. L - n |-> h2[s2[k]].obj]
               O == Objects
    <3>1. Keeps(h, ch)[q] = Kept(h, s) /\ Keeps(h2, ch2)[q] = Kept(h2, s2)
      BY <1>1, <1>4 DEF Keeps, s
    <3>0. Kept(h, s) = g /\ Kept(h2, s2) = g2
      BY <1>3 DEF Kept, L
    <3>2. \A k \in n + 1 .. L : g[k] \in O
      BY <1>1, <1>2
    <3>3. \A k \in 1 .. L - n : g2[k] = g[n + k] /\ g2[k] \in O
      <4> SUFFICES ASSUME NEW k \in 1 .. L - n PROVE g2[k] = g[n + k] /\ g2[k] \in O
        OBVIOUS
      <4>1. n + k \in 1 .. L /\ s2[k] = s[n + k] /\ h2[s2[k]] = h[s[n + k]] /\ s[n + k] \in u
        BY <1>2, <1>3, <1>7
      <4> QED
        BY <1>1, <4>1
    <3>4. DOMAIN g2 = 1 .. L - n /\ g2 \in Seq(O) /\ Len(g2) = L - n
      <4>1. L - n \in Nat
        BY <1>0
      <4>2. g2 \in [1 .. L - n -> O]
        BY <3>3
      <4> HIDE DEF g2
      <4>3. g2 \in Seq(O) /\ DOMAIN g2 = 1 .. L - n
        BY <4>1, <4>2, SeqDef
      <4> QED
        BY <4>1, <4>3, LenProperties
    <3> HIDE DEF g, g2
    <3> DEFINE t == SubSeq(g, n + 1, L)
    <3>5. n + 1 \in Int /\ L \in Int
      BY <1>2
    <3>6. /\ t \in Seq(O) /\ Len(t) = (IF n + 1 <= L THEN L - (n + 1) + 1 ELSE 0)
          /\ \A k \in 1 .. L - (n + 1) + 1 : t[k] = g[n + 1 + k - 1]
      BY <3>2, <3>5, SubSeqProperties
    <3> HIDE DEF t
    <3>7. Len(t) = L - n /\ \A k \in 1 .. L - n : t[k] = g2[k]
      BY <1>2, <3>3, <3>6
    <3>8. g2 = t
      BY <3>4, <3>6, <3>7, SeqEqual
    <3> QED
      BY <2>2, <3>0, <3>1, <3>8 DEF t
  <2> QED
    BY <2>1, <2>2
<1>18. Keeps(h2, ch2) = Cut(Keeps(h, ch), q, n)
  <2>1. Len(Keeps(h, ch)[q]) = L
    BY <1>1, KeptSeq DEF s, L
  <2> QED
    BY <1>1, <1>17, <2>1 DEF Keeps, Cut
<1> QED
  BY <1>3, <1>4, <1>16, <1>18 DEF s, s2, L, ch2

\* clone: the fresh cells of copy hold what the chain of q holds.
Copies(h, u, starts, live, ch, q, r, copy, h2, u2, live2, st2) ==
  /\ Chained(h, u, starts, live, ch)
  /\ q \in live /\ r \in Names \ live
  /\ copy \in [1 .. Len(ch[q]) -> Cells \ u]
  /\ \A k, l \in 1 .. Len(ch[q]) : copy[k] = copy[l] => k = l
  /\ h2 \in [Cells -> Elem]
  /\ \A k \in 1 .. Len(ch[q]) :
       h2[copy[k]] = [obj |-> h[ch[q][k]].obj, next |-> Nth(copy, k + 1)]
  /\ \A c \in u : h2[c] = h[c]
  /\ live2 = live \cup {r}
  /\ u2 = u \cup {copy[k] : k \in 1 .. Len(ch[q])}
  /\ \A p \in Names : st2[p] = IF p = r THEN Nth(copy, 1) ELSE starts[p]

Doubled(ch, r, s) == [ch EXCEPT ![r] = s]

LEMMA CloneChained ==
  ASSUME NEW h, NEW u, NEW starts, NEW live, NEW ch, NEW q, NEW r, NEW copy, NEW h2, NEW u2,
         NEW live2, NEW st2, Copies(h, u, starts, live, ch, q, r, copy, h2, u2, live2, st2)
  PROVE  /\ Chained(h2, u2, st2, live2, Doubled(ch, r, copy))
         /\ Keeps(h2, Doubled(ch, r, copy)) = Doubled(Keeps(h, ch), r, Keeps(h, ch)[q])
<1> DEFINE ch2 == Doubled(ch, r, copy)
<1>a. /\ Chained(h, u, starts, live, ch)
      /\ q \in live /\ r \in Names \ live
      /\ copy \in [1 .. Len(ch[q]) -> Cells \ u]
      /\ h2 \in [Cells -> Elem]
  BY DEF Copies
<1>b. /\ \A p \in Names : st2[p] = IF p = r THEN Nth(copy, 1) ELSE starts[p]
      /\ ch2 = [ch EXCEPT ![r] = copy]
  BY DEF Copies, Doubled
<1>c. \A k, l \in 1 .. Len(ch[q]) : copy[k] = copy[l] => k = l
  BY DEF Copies
<1>d. \A k \in 1 .. Len(ch[q]) :
        h2[copy[k]] = [obj |-> h[ch[q][k]].obj, next |-> Nth(copy, k + 1)]
  BY DEF Copies
<1>e. \A c \in u : h2[c] = h[c]
  BY DEF Copies
<1> USE <1>a
<1> HIDE DEF ch2
<1> DEFINE L == Len(ch[q])
<1>f. u2 = u \cup {copy[k] : k \in 1 .. L} /\ live2 = live \cup {r}
  BY DEF Copies
<1>1. /\ q \in Names /\ q # r /\ r \in Names /\ live \subseteq Names /\ u \subseteq Cells
      /\ h \in [Cells -> Elem] /\ ch \in [Names -> Seq(Cells)]
      /\ \A c \in u : h[c].obj \in Objects
  BY DEF Chained
<1>2. L \in Nat /\ \A k \in 1 .. L : ch[q][k] \in u
  BY <1>1, ChainCells
<1>3. copy \in Seq(Cells) /\ Len(copy) = L /\ \A k \in 1 .. L : copy[k] \in Cells \ u
  <2>1. copy \in [1 .. L -> Cells]
    OBVIOUS
  <2> HIDE DEF L
  <2>2. copy \in Seq(Cells)
    BY <1>2, <2>1, SeqDef
  <2> QED
    BY <1>2, <2>1, <2>2, LenProperties DEF L
<1>4. /\ ch2 \in [Names -> Seq(Cells)] /\ ch2[r] = copy
      /\ \A p \in Names \ {r} : ch2[p] = ch[p]
  BY <1>b, <1>1, <1>3
<1>5. Linked(h2, st2[r], copy)
  <2>1. st2[r] = Nth(copy, 1) /\ \A k \in 1 .. L : h2[copy[k]].next = Nth(copy, k + 1)
    <3>1. ASSUME NEW k \in 1 .. L PROVE h2[copy[k]].next = Nth(copy, k + 1)
      <4>1. h2[copy[k]] = [obj |-> h[ch[q][k]].obj, next |-> Nth(copy, k + 1)]
        BY <1>d
      <4> QED
        BY <4>1
    <3>2. st2[r] = Nth(copy, 1)
      BY <1>b, <1>1
    <3> HIDE DEF L
    <3> QED
      BY <3>1, <3>2
  <2>2. \A k, l \in 1 .. L : copy[k] = copy[l] => k = l
    BY <1>c
  <2> HIDE DEF L
  <2> QED
    BY <1>3, <2>1, <2>2 DEF Linked
<1>6. ASSUME NEW p \in Names, p # r
      PROVE  /\ Linked(h2, st2[p], ch2[p])
             /\ \A k \in 1 .. Len(ch[p]) : ch[p][k] \in u /\ h2[ch[p][k]] = h[ch[p][k]]
  <2>1. \A k \in 1 .. Len(ch[p]) : ch[p][k] \in u
    BY ChainCells
  <2>2. Linked(h, starts[p], ch[p]) /\ st2[p] = starts[p]
    BY <1>b, <1>6 DEF Chained
  <2> QED
    BY <1>e, <1>4, <1>6, <2>1, <2>2, StaysLinked
<1>7. ASSUME NEW p1 \in Names, NEW p2 \in Names,
             NEW j \in 1 .. Len(ch2[p1]), NEW k \in 1 .. Len(ch2[p2]), ch2[p1][j] = ch2[p2][k]
      PROVE  p1 = p2
  <2>1. CASE p1 # r /\ p2 # r
    BY <1>4, <1>7, <2>1 DEF Chained
  <2>2. CASE p1 = r /\ p2 # r
    BY <1>3, <1>4, <1>6, <1>7, <2>2
  <2>3. CASE p1 # r /\ p2 = r
    BY <1>3, <1>4, <1>6, <1>7, <2>3
  <2> QED
    BY <2>1, <2>2, <2>3
<1>8. ch[r] = <<>> /\ Len(ch[r]) = 0
  BY <1>1, EmptySeq DEF Chained
<1>9. ASSUME NEW c \in Cells
      PROVE  c \in u2 <=> \E p \in Names : \E k \in 1 .. Len(ch2[p]) : ch2[p][k] = c
  <2>1. c \in u <=> \E p \in Names : \E k \in 1 .. Len(ch[p]) : ch[p][k] = c
    BY DEF Chained
  <2>2. c \in u <=> \E p \in Names \ {r} : \E k \in 1 .. Len(ch[p]) : ch[p][k] = c
    BY <1>8, <2>1
  <2>3. (\E p \in Names : \E k \in 1 .. Len(ch2[p]) : ch2[p][k] = c)
          <=> \/ \E k \in 1 .. L : copy[k] = c
              \/ \E p \in Names \ {r} : \E k \in 1 .. Len(ch[p]) : ch[p][k] = c
    BY <1>1, <1>3, <1>4
  <2> QED
    BY <1>f, <2>2, <2>3
<1>10. \A c \in u2 : c \in Cells /\ h2[c].obj \in Objects
  <2>1. \A c \in u : c \in Cells /\ h2[c].obj \in Objects
    BY <1>e, <1>1
  <2>2. ASSUME NEW k \in 1 .. L PROVE copy[k] \in Cells /\ h2[copy[k]].obj \in Objects
    <3>1. h2[copy[k]] = [obj |-> h[ch[q][k]].obj, next |-> Nth(copy, k + 1)]
      BY <1>d
    <3> HIDE DEF L
    <3> QED
      BY <1>1, <1>2, <1>3, <3>1
  <2> QED
    BY <1>f, <2>1, <2>2
<1>11. \A p \in Names \ live2 : ch2[p] = <<>>
  BY <1>f, <1>1, <1>4 DEF Chained
<1>12. Chained(h2, u2, st2, live2, ch2)
  <2>1. u2 \subseteq Cells /\ live2 \subseteq Names
    BY <1>f, <1>1, <1>10
  <2>2. \A p \in Names : Linked(h2, st2[p], ch2[p])
    BY <1>4, <1>5, <1>6
  <2> QED
    BY <1>4, <1>7, <1>9, <1>10, <1>11, <2>1, <2>2 DEF Chained
<1>13. ASSUME NEW p \in Names
       PROVE  Keeps(h2, ch2)[p] = IF p = r THEN Keeps(h, ch)[q] ELSE Keeps(h, ch)[p]
  <2>1. CASE p # r
    <3>1. ch2[p] = ch[p] /\ Kept(h2, ch[p]) = Kept(h, ch[p])
      BY <1>4, <1>6, <2>1, KeptSame
    <3> QED
      BY <2>1, <3>1 DEF Keeps
  <2>2. CASE p = r
    <3>1. Keeps(h2, ch2)[r] = Kept(h2, copy) /\ Keeps(h, ch)[q] = Kept(h, ch[q])
      BY <1>1, <1>4 DEF Keeps
    <3>2. ASSUME NEW k \in 1 .. L PROVE h2[copy[k]].obj = h[ch[q][k]].obj
      <4>1. h2[copy[k]] = [obj |-> h[ch[q][k]].obj, next |-> Nth(copy, k + 1)]
        BY <1>d
      <4> QED
        BY <4>1
    <3>3. /\ Kept(h2, copy) = [k \in 1 .. L |-> h2[copy[k]].obj]
          /\ Kept(h, ch[q]) = [k \in 1 .. L |-> h[ch[q][k]].obj]
      BY <1>3 DEF Kept
    <3>4. [k \in 1 .. L |-> h2[copy[k]].obj] = [k \in 1 .. L |-> h[ch[q][k]].obj]
      BY <3>2
    <3> QED
      BY <2>2, <3>1, <3>3, <3>4
  <2> QED
    BY <2>1, <2>2
<1>14. Keeps(h2, ch2) = Doubled(Keeps(h, ch), r, Keeps(h, ch)[q])
  BY <1>1, <1>13 DEF Keeps, Doubled
<1> QED
  BY <1>3, <1>12, <1>14 DEF ch2

\* new: a chain without cells.
LEMMA NewChained ==
  ASSUME NEW h, NEW u, NEW starts, NEW live, NEW ch, Chained(h, u, starts, live, ch),
         NEW q \in Names,
         NEW st2, \A r \in Names : st2[r] = starts[r]
  PROVE  Chained(h, u, st2, live \cup {q}, ch)
  BY DEF Chained

-----------------------------------------------------------------------------
\* What the structs point at.
Starts == [q \in Names |-> IF class = "FIFO" THEN queue[q].out ELSE queue[q].head]

\* The structs of the containers whose chains are ch.
Structs(ch) ==
  IF class = "FIFO"
  THEN /\ queue \in [Names -> [in : Ends, out : Ends, size : Nat]]
       /\ \A q \in Names : /\ queue[q].size = Len(ch[q])
                           /\ ch[q] # <<>> => queue[q].in = ch[q][Len(ch[q])]
  ELSE /\ queue \in [Names -> [head : Ends, size : Nat]]
       /\ \A q \in Names : queue[q].size = Len(ch[q])

ChainedBy(ch) == Chained(heap, used, Starts, alive, ch) /\ Structs(ch)

(* The inductive invariant: there are such chains.                         *)
ChainInv == class \in ChainClasses => \E ch : ChainedBy(ch)

\* The operators of Cells as the classes see them.
LEMMA SameCells ==
  /\ Fifo!EmptyQueue = [in |-> NIL, out |-> NIL, size |-> 0]
  /\ Lists!EmptyList = [head |-> NIL, size |-> 0]
  /\ \A q : Fifo!Chain(q) = WalkOf(heap, queue[q].out)
  /\ \A q : Lists!Chain(q) = WalkOf(heap, queue[q].head)
  /\ Fifo!Blank = Blank /\ Lists!Blank = Blank
<1>1. /\ Fifo!EmptyQueue = [in |-> NIL, out |-> NIL, size |-> 0]
      /\ Lists!EmptyList = [head |-> NIL, size |-> 0]
      /\ Fifo!Blank = Blank /\ Lists!Blank = Blank
  BY DEF Fifo!EmptyQueue, Lists!EmptyList, Fifo!Blank, Lists!Blank, Blank
<1>2. \A q : Fifo!Chain(q) = WalkOf(heap, queue[q].out)
  <2>1. \A q : Fifo!Chain(q) = Fifo!Walk(queue[q].out)
    BY DEF Fifo!Chain
  <2>2. \A c : Fifo!Walk(c) = WalkOf(heap, c)
    BY DEF Fifo!Walk, WalkOf, Walks, Fifo!Cardinality, Cardinality
  <2> QED
    BY <2>1, <2>2
<1>3. \A q : Lists!Chain(q) = WalkOf(heap, queue[q].head)
  <2>1. \A q : Lists!Chain(q) = Lists!Walk(queue[q].head)
    BY DEF Lists!Chain
  <2>2. \A c : Lists!Walk(c) = WalkOf(heap, c)
    BY DEF Lists!Walk, WalkOf, Walks, Lists!Cardinality, Cardinality
  <2> QED
    BY <2>1, <2>2
<1> QED
  BY <1>1, <1>2, <1>3

LEMMA ChainIs ==
  ASSUME NEW ch, ChainedBy(ch), NEW q \in Names
  PROVE  /\ class = "FIFO" => Fifo!Chain(q) = ch[q]
         /\ class # "FIFO" => Lists!Chain(q) = ch[q]
         /\ Chain(q) = ch[q]
         /\ DOMAIN ch[q] = 1 .. Len(ch[q])
<1>1. /\ heap \in [Cells -> Elem] /\ Linked(heap, Starts[q], ch[q])
      /\ ch[q] \in Seq(Cells)
  BY DEF ChainedBy, Chained
<1>2. WalkOf(heap, Starts[q]) = ch[q]
  BY <1>1, WalkFinds
<1> QED
  BY <1>1, <1>2, SameCells, LenProperties DEF Starts, Chain

LEMMA ContentsAre ==
  \A ch : ChainedBy(ch) => Contents = Keeps(heap, ch)
<1> SUFFICES ASSUME NEW ch, ChainedBy(ch) PROVE Contents = Keeps(heap, ch)
  OBVIOUS
<1>1. Chained(heap, used, Starts, alive, ch)
  BY DEF ChainedBy
<1>2. ASSUME NEW q \in Names PROVE Contents[q] = Kept(heap, ch[q])
  <2>1. CASE q \in alive
    <3>1. Held(ch[q]) = Kept(heap, ch[q])
      BY ChainIs DEF Held, Kept
    <3> QED
      BY <2>1, <3>1, ChainIs DEF Contents
  <2>2. CASE q \notin alive
    <3>1. ch[q] = <<>>
      BY <1>1, <2>2 DEF Chained
    <3> QED
      BY <1>1, <2>2, <3>1, KeptSeq DEF Contents
  <2> QED
    BY <2>1, <2>2
<1> QED
  BY <1>2 DEF Contents, Keeps

LEMMA ContentsWillBe ==
  \A ch : ChainedBy(ch)' => Contents' = Keeps(heap', ch)
<1>1. (\A ch : ChainedBy(ch) => Contents = Keeps(heap, ch))'
  BY ContentsAre, PTL
<1> QED
  BY <1>1

\* What an operation of FIFO meets: the chain s of q.
LEMMA FifoMeets ==
  ASSUME class = "FIFO", NEW ch, ChainedBy(ch), NEW q \in Names
  PROVE  /\ Chained(heap, used, Starts, alive, ch)
         /\ heap \in [Cells -> Elem] /\ used \subseteq Cells /\ alive \subseteq Names
         /\ ch \in [Names -> Seq(Cells)]
         /\ queue \in [Names -> [in : Ends, out : Ends, size : Nat]]
         /\ queue[q].size = Len(ch[q])
         /\ ch[q] # <<>> => queue[q].in = ch[q][Len(ch[q])]
         /\ queue[q].out = Nth(ch[q], 1)
         /\ Len(ch[q]) \in Nat /\ \A k \in 1 .. Len(ch[q]) : ch[q][k] \in used
         /\ ch[q] = <<>> <=> Len(ch[q]) = 0
         /\ Fifo!Chain(q) = ch[q] /\ DOMAIN ch[q] = 1 .. Len(ch[q])
<1>1. /\ Chained(heap, used, Starts, alive, ch)
      /\ queue \in [Names -> [in : Ends, out : Ends, size : Nat]]
      /\ queue[q].size = Len(ch[q])
      /\ ch[q] # <<>> => queue[q].in = ch[q][Len(ch[q])]
  BY DEF ChainedBy, Structs
<1>2. Starts[q] = Nth(ch[q], 1) /\ Starts[q] = queue[q].out
  BY <1>1, ChainCells DEF Starts
<1> QED
  <2>1. /\ heap \in [Cells -> Elem] /\ used \subseteq Cells /\ alive \subseteq Names
        /\ ch \in [Names -> Seq(Cells)]
    BY <1>1 DEF Chained
  <2>2. /\ Len(ch[q]) \in Nat /\ \A k \in 1 .. Len(ch[q]) : ch[q][k] \in used
        /\ ch[q] = <<>> <=> Len(ch[q]) = 0
    BY <1>1, ChainCells
  <2>3. Fifo!Chain(q) = ch[q] /\ DOMAIN ch[q] = 1 .. Len(ch[q])
    BY ChainIs
  <2> QED
    BY <1>1, <1>2, <2>1, <2>2, <2>3

\* The next state holds the chains ch2 of a FIFO.
LEMMA FifoLeaves ==
  ASSUME class' = "FIFO", NEW ch2, Chained(heap', used', Starts', alive', ch2),
         queue' \in [Names -> [in : Ends, out : Ends, size : Nat]],
         \A q \in Names : /\ queue'[q].size = Len(ch2[q])
                          /\ ch2[q] # <<>> => queue'[q].in = ch2[q][Len(ch2[q])]
  PROVE  ChainedBy(ch2)'
<1>1. Structs(ch2)'
  BY DEF Structs
<1> QED
  BY <1>1 DEF ChainedBy

LEMMA FifoNew ==
  ASSUME class = "FIFO", class' = class, NEW ch, ChainedBy(ch), NEW q \in Names, Fifo!new(q)
  PROVE  (\E ch2 : ChainedBy(ch2)') /\ Queue!New(q)
<1>1. /\ q \notin alive /\ alive' = alive \cup {q} /\ UNCHANGED <<heap, used, answer>>
      /\ queue' = [queue EXCEPT ![q] = [in |-> NIL, out |-> NIL, size |-> 0]]
  BY SameCells DEF Fifo!new
<1>2. /\ Chained(heap, used, Starts, alive, ch)
      /\ queue \in [Names -> [in : Ends, out : Ends, size : Nat]]
      /\ ch[q] = <<>> /\ Len(ch[q]) = 0 /\ queue[q].out = NIL
  BY <1>1, FifoMeets DEF Chained, Nth
<1>3. queue' \in [Names -> [in : Ends, out : Ends, size : Nat]]
  BY <1>1, <1>2 DEF Ends
<1>4. \A r \in Names : Starts'[r] = Starts[r]
  BY <1>1, <1>2 DEF Starts
<1>5. Chained(heap', used', Starts', alive', ch)
  BY <1>1, <1>2, <1>4, NewChained
<1>6. ASSUME NEW r \in Names
      PROVE  /\ queue'[r].size = Len(ch[r])
             /\ ch[r] # <<>> => queue'[r].in = ch[r][Len(ch[r])]
  <2>1. CASE r = q
    BY <1>1, <1>2, <2>1
  <2>2. CASE r # q
    BY <1>1, <1>2, <2>2, FifoMeets
  <2> QED
    BY <2>1, <2>2
<1>7. ChainedBy(ch)'
  BY <1>3, <1>5, <1>6, FifoLeaves
<1>8. Contents' = Contents
  BY <1>1, <1>7, ContentsAre, ContentsWillBe
<1> QED
  BY <1>1, <1>7, <1>8 DEF Queue!New

LEMMA FifoPut ==
  ASSUME class = "FIFO", class' = class, NEW ch, ChainedBy(ch), NEW q \in Names,
         NEW o \in Objects, Fifo!put(q, o)
  PROVE  (\E ch2 : ChainedBy(ch2)') /\ Queue!Put(q, o)
<1> DEFINE s == ch[q]
           L == Len(s)
<1>1. PICK e \in Cells \ used :
        /\ used' = used \cup {e}
        /\ heap' = [Fifo!Appended(q, e) EXCEPT ![e] = [obj |-> o, next |-> NIL]]
        /\ queue' = [queue EXCEPT ![q] =
                       [in |-> e, out |-> IF queue[q].out # NIL THEN queue[q].out ELSE e,
                        size |-> queue[q].size + 1]]
  BY FifoMeets DEF Fifo!put
<1>2. q \in alive /\ alive' = alive /\ answer' = answer
  BY DEF Fifo!put
<1>3. /\ Chained(heap, used, Starts, alive, ch)
      /\ heap \in [Cells -> Elem] /\ used \subseteq Cells
      /\ queue \in [Names -> [in : Ends, out : Ends, size : Nat]]
      /\ queue[q].size = L /\ L \in Nat
      /\ L # 0 => queue[q].in = s[L] /\ s[L] \in used /\ queue[q].out = s[1] /\ s[1] \in used
      /\ L = 0 => queue[q].out = NIL
  BY FifoMeets DEF Nth
<1>4. NIL \notin Cells
  BY CellsAssumption
<1> HIDE DEF s, L
<1>5. Fifo!Appended(q, e) = IF L # 0 THEN [heap EXCEPT ![s[L]] = [@ EXCEPT !.next = e]] ELSE heap
  BY <1>3, <1>4 DEF Fifo!Appended, Fifo!Link
<1>6. \A c \in Cells \ {e} :
        heap'[c] = IF L > 0 /\ c = s[L] THEN [obj |-> heap[c].obj, next |-> e] ELSE heap[c]
  <2>1. CASE L = 0
    BY <1>1, <1>3, <1>5, <2>1
  <2>2. CASE L # 0
    <3>1. heap' = [[heap EXCEPT ![s[L]] = [@ EXCEPT !.next = e]]
                     EXCEPT ![e] = [obj |-> o, next |-> NIL]]
      BY <1>1, <1>5, <2>2
    <3>2. \A c \in Cells : heap[c] \in Elem
      BY <1>3
    <3>3. [heap[s[L]] EXCEPT !.next = e] = [obj |-> heap[s[L]].obj, next |-> e]
      BY <1>3, <2>2, <3>2 DEF Elem
    <3> QED
      BY <1>3, <2>2, <3>1, <3>3
  <2> QED
    BY <2>1, <2>2
<1>7. heap' \in [Cells -> Elem] /\ heap'[e] = [obj |-> o, next |-> NIL]
  <2>1. heap' = [c \in Cells |-> heap'[c]] /\ heap'[e] = [obj |-> o, next |-> NIL]
    BY <1>1, <1>3, <1>5
  <2>2. ASSUME NEW c \in Cells PROVE heap'[c] \in Elem
    <3>1. CASE c = e
      BY <2>1, <3>1 DEF Elem
    <3>2. CASE c # e
      <4>1. heap[c].obj \in Objects \cup {NIL} /\ heap[c] \in Elem /\ e \in Cells \cup {NIL}
        BY <1>1, <1>3 DEF Elem
      <4>2. heap'[c] = heap[c] \/ heap'[c] = [obj |-> heap[c].obj, next |-> e]
        BY <1>6, <3>2
      <4> QED
        BY <4>1, <4>2 DEF Elem
    <3> QED
      BY <3>1, <3>2
  <2> QED
    BY <2>1, <2>2
<1>8. L \in 0 .. Len(ch[q]) /\ Nth(ch[q], L + 1) = NIL
  BY <1>3 DEF L, s, Nth
<1> DEFINE ch2 == PutIn(ch, q, L, e)
<1>9. \A r \in Names : Starts'[r] = IF r = q THEN IF L = 0 THEN e ELSE Starts[q] ELSE Starts[r]
  BY <1>1, <1>3, <1>4 DEF Starts
<1>10. /\ Chained(heap', used \cup {e}, Starts', alive, ch2)
       /\ Keeps(heap', ch2) = PutIn(Keeps(heap, ch), q, L, o)
       /\ Len(ch2[q]) = Len(ch[q]) + 1
  <2>1. Hangs(heap, ch[q], L, e, o, heap')
    BY <1>6, <1>7, <1>8 DEF Hangs, s
  <2>2. Puts(heap, used, Starts, alive, ch, q, L, e, o, heap', Starts')
    BY <1>2, <1>3, <1>8, <1>9, <2>1 DEF Puts
  <2> QED
    BY <2>2, PutChained
<1>11. /\ Spliced(s, L, e)[L + 1] = e
       /\ \A r \in Names : ch2[r] = IF r = q THEN Spliced(s, L, e) ELSE ch[r]
  <2>1. ch \in [Names -> Seq(Cells)]
    BY FifoMeets
  <2> QED
    BY <1>3, <2>1 DEF PutIn, Spliced, s, L
<1>12. queue' \in [Names -> [in : Ends, out : Ends, size : Nat]]
  BY <1>1, <1>3 DEF Ends
<1>13. ASSUME NEW r \in Names
       PROVE  /\ queue'[r].size = Len(ch2[r])
              /\ ch2[r] # <<>> => queue'[r].in = ch2[r][Len(ch2[r])]
  <2>1. CASE r = q
    <3>1. queue'[q].in = e /\ queue'[q].size = L + 1
      BY <1>1, <1>3
    <3>2. Len(ch2[q]) = L + 1 /\ ch2[q][L + 1] = e
      BY <1>10, <1>11 DEF s, L
    <3> QED
      BY <2>1, <3>1, <3>2
  <2>2. CASE r # q
    <3>1. queue'[r] = queue[r] /\ ch2[r] = ch[r]
      BY <1>1, <1>3, <1>11, <2>2
    <3> QED
      BY <3>1, FifoMeets
  <2> QED
    BY <2>1, <2>2
<1> HIDE DEF ch2
<1>14. ChainedBy(ch2)'
  BY <1>1, <1>2, <1>10, <1>12, <1>13, FifoLeaves
<1>15. /\ Contents' = [Contents EXCEPT ![q] = Spliced(@, L, o)]
       /\ Contents[q] \in Seq(Objects) /\ Len(Contents[q]) = L
  BY <1>3, <1>10, <1>14, ContentsAre, ContentsWillBe, KeptSeq DEF PutIn, s, L
<1>16. Spliced(Contents[q], L, o) = Append(Contents[q], o)
  BY <1>15, SplicedAtEnd
<1> QED
  BY <1>2, <1>14, <1>15, <1>16 DEF Queue!Put, Last

-----------------------------------------------------------------------------
\* What get and peek answer with.
LEMMA FrontIs ==
  ASSUME NEW ch, ChainedBy(ch), NEW q \in Names
  PROVE  /\ Queue!Front(q) = IF Starts[q] = NIL THEN NIL ELSE heap[Starts[q]].obj
         /\ Starts[q] = Nth(ch[q], 1)
         /\ Starts[q] = NIL <=> ch[q] = <<>>
         /\ ch[q] # <<>> => Starts[q] = ch[q][1] /\ 1 \in 1 .. Len(ch[q])
<1>1. Chained(heap, used, Starts, alive, ch)
  BY DEF ChainedBy
<1>2. /\ Contents[q] = Kept(heap, ch[q]) /\ Contents[q] \in Seq(Objects)
      /\ \A k \in 1 .. Len(ch[q]) : Contents[q][k] = heap[ch[q][k]].obj
      /\ Contents[q] = <<>> <=> ch[q] = <<>>
  BY <1>1, ContentsAre, KeptSeq
<1>3. /\ Len(ch[q]) \in Nat /\ Starts[q] = Nth(ch[q], 1) /\ (ch[q] = <<>> <=> Len(ch[q]) = 0)
      /\ \A k \in 1 .. Len(ch[q]) : ch[q][k] \in Cells
  BY <1>1, ChainCells
<1>4. Queue!Front(q) = IF Contents[q] = <<>> THEN NIL ELSE Head(Contents[q])
  BY DEF Queue!Front
<1>5. CASE ch[q] = <<>>
  <2>1. Starts[q] = NIL
    BY <1>3, <1>5 DEF Nth
  <2> QED
    BY <1>2, <1>3, <1>4, <1>5, <2>1
<1>6. CASE ch[q] # <<>>
  <2>1. 1 \in 1 .. Len(ch[q]) /\ Starts[q] = ch[q][1] /\ Starts[q] \in Cells
    BY <1>3, <1>6 DEF Nth
  <2>2. Starts[q] # NIL
    BY <2>1, CellsAssumption
  <2>3. Head(Contents[q]) = Contents[q][1]
    BY <1>2, <1>6, HeadTailProperties
  <2>4. Head(Contents[q]) = heap[Starts[q]].obj
    BY <1>2, <2>1, <2>3
  <2> QED
    BY <1>2, <1>3, <1>4, <1>6, <2>1, <2>2, <2>4
<1> QED
  BY <1>5, <1>6

LEMMA CutFront ==
  ASSUME NEW S, NEW s \in Seq(S), NEW n, n = IF s = <<>> THEN 0 ELSE 1
  PROVE  SubSeq(s, n + 1, Len(s)) = IF s = <<>> THEN <<>> ELSE Tail(s)
<1>1. CASE s = <<>>
  <2>1. Len(s) = 0 /\ n + 1 = 1
    BY <1>1, EmptySeq
  <2>2. SubSeq(s, 1, 0) = <<>>
    BY SubSeqEmpty
  <2> QED
    BY <1>1, <2>1, <2>2
<1>2. CASE s # <<>>
  <2>1. n + 1 = 2
    BY <1>2
  <2>2. Tail(s) = SubSeq(s, 2, Len(s))
    BY <1>2, TailIsSubSeq
  <2> QED
    BY <1>2, <2>1, <2>2
<1> QED
  BY <1>1, <1>2

LEMMA CutTail ==
  ASSUME NEW S, NEW s \in Seq(S), NEW n \in 0 .. Len(s)
  PROVE  /\ Len(SubSeq(s, n + 1, Len(s))) = Len(s) - n
         /\ \A k \in 1 .. Len(s) - n : SubSeq(s, n + 1, Len(s))[k] = s[n + k]
<1> DEFINE L == Len(s)
           t == SubSeq(s, n + 1, L)
<1>1. L \in Nat /\ n \in 0 .. L /\ \A k \in n + 1 .. L : s[k] \in S
  BY LenProperties
<1>2. n + 1 \in Int /\ L \in Int
  BY <1>1
<1> HIDE DEF L
<1>3. /\ Len(t) = IF n + 1 <= L THEN L - (n + 1) + 1 ELSE 0
      /\ \A k \in 1 .. L - (n + 1) + 1 : t[k] = s[n + 1 + k - 1]
  BY <1>1, <1>2, SubSeqProperties
<1> HIDE DEF t
<1>4. Len(t) = L - n /\ \A k \in 1 .. L - n : t[k] = s[n + k]
  <2>1. CASE n + 1 <= L
    BY <1>1, <1>3, <2>1
  <2>2. CASE n = L
    BY <1>1, <1>3, <2>2
  <2> QED
    BY <1>1, <2>1, <2>2
<1> QED
  BY <1>4 DEF L, t

\* get frees the first cell, if there is one.
FreesFirst(ch, q, n) ==
  /\ ChainedBy(ch) /\ q \in Names /\ q \in alive
  /\ n = IF ch[q] = <<>> THEN 0 ELSE 1
  /\ heap' = [c \in Cells |-> IF c = Starts[q] THEN Blank ELSE heap[c]]
  /\ used' = used \ {Starts[q]} /\ alive' = alive
  /\ \A r \in Names : Starts'[r] = IF r = q THEN Nth(ch[q], n + 1) ELSE Starts[r]

LEMMA GetFrees ==
  ASSUME NEW ch, NEW q, NEW n, FreesFirst(ch, q, n)
  PROVE  /\ Chained(heap', used', Starts', alive', Cut(ch, q, n))
         /\ Keeps(heap', Cut(ch, q, n))
              = [Contents EXCEPT ![q] = IF @ = <<>> THEN <<>> ELSE Tail(@)]
         /\ Len(Cut(ch, q, n)[q]) = Len(ch[q]) - n
         /\ \A k \in 1 .. Len(ch[q]) - n : Cut(ch, q, n)[q][k] = ch[q][n + k]
         /\ \A r \in Names \ {q} : Cut(ch, q, n)[r] = ch[r]
<1>0. /\ ChainedBy(ch) /\ q \in Names /\ q \in alive
      /\ n = IF ch[q] = <<>> THEN 0 ELSE 1
      /\ heap' = [c \in Cells |-> IF c = Starts[q] THEN Blank ELSE heap[c]]
      /\ used' = used \ {Starts[q]} /\ alive' = alive
  BY DEF FreesFirst
<1>a. \A r \in Names : Starts'[r] = IF r = q THEN Nth(ch[q], n + 1) ELSE Starts[r]
  BY DEF FreesFirst
<1> USE <1>0
<1>1. Chained(heap, used, Starts, alive, ch) /\ used \subseteq Cells
  BY DEF ChainedBy, Chained
<1>2. Len(ch[q]) \in Nat /\ ch[q] \in Seq(Cells) /\ (ch[q] = <<>> <=> Len(ch[q]) = 0)
  BY <1>1, ChainCells
<1>3. n \in 0 .. Len(ch[q])
  BY <1>2
<1>4. \A c \in Cells : (\E k \in 1 .. n : c = ch[q][k]) <=> c = Starts[q]
  <2>1. CASE ch[q] = <<>>
    BY <2>1, FrontIs, CellsAssumption
  <2>2. CASE ch[q] # <<>>
    <3>1. Starts[q] = ch[q][1] /\ n = 1
      BY <2>2, FrontIs
    <3>2. \A k : k \in 1 .. 1 <=> k = 1
      OBVIOUS
    <3> QED
      BY <3>1, <3>2
  <2> QED
    BY <2>1, <2>2
<1>5. heap' = [c \in Cells |-> IF \E k \in 1 .. n : c = ch[q][k] THEN Blank ELSE heap[c]]
  BY <1>4
<1>6. used' = {c \in used : \A k \in 1 .. n : c # ch[q][k]}
  BY <1>1, <1>4
<1>7. Frees(heap, used, Starts, alive, ch, q, n, alive', heap', used', Starts')
  BY <1>a, <1>1, <1>3, <1>5, <1>6 DEF Frees
<1>8. /\ Contents = Keeps(heap, ch) /\ Contents[q] \in Seq(Objects)
      /\ Len(Contents[q]) = Len(ch[q]) /\ (Contents[q] = <<>> <=> ch[q] = <<>>)
  BY <1>1, ContentsAre, KeptSeq
<1>9. Cut(Contents, q, n) = [Contents EXCEPT ![q] = IF @ = <<>> THEN <<>> ELSE Tail(@)]
  <2>1. SubSeq(Contents[q], n + 1, Len(Contents[q]))
          = IF Contents[q] = <<>> THEN <<>> ELSE Tail(Contents[q])
    BY <1>8, CutFront
  <2> QED
    BY <2>1 DEF Cut
<1>10. \A r \in Names \ {q} : Cut(ch, q, n)[r] = ch[r]
  BY <1>1 DEF Cut, Chained
<1> QED
  <2>1. /\ Chained(heap', used', Starts', alive', Cut(ch, q, n))
        /\ Keeps(heap', Cut(ch, q, n)) = Cut(Keeps(heap, ch), q, n)
    BY <1>7, FreeChained
  <2>2. /\ Len(Cut(ch, q, n)[q]) = Len(ch[q]) - n
        /\ \A k \in 1 .. Len(ch[q]) - n : Cut(ch, q, n)[q][k] = ch[q][n + k]
    <3>1. SubSeq(ch[q], n + 1, Len(ch[q])) = Cut(ch, q, n)[q]
      BY <1>1 DEF Cut, Chained
    <3> DEFINE s == ch[q]
    <3>2. s \in Seq(Cells) /\ n \in 0 .. Len(s)
      BY <1>2, <1>3
    <3> HIDE DEF s
    <3>3. /\ Len(SubSeq(s, n + 1, Len(s))) = Len(s) - n
          /\ \A k \in 1 .. Len(s) - n : SubSeq(s, n + 1, Len(s))[k] = s[n + k]
      BY <3>2, CutTail
    <3> QED
      BY <3>1, <3>3 DEF s
  <2> QED
    BY <1>8, <1>9, <1>10, <2>1, <2>2

\* delete frees all cells.
LEMMA DeleteFrees ==
  ASSUME NEW ch, ChainedBy(ch), NEW q \in Names, q \in alive,
         heap' = [c \in Cells |-> IF c \in {ch[q][k] : k \in DOMAIN ch[q]} THEN Blank ELSE heap[c]],
         used' = used \ {ch[q][k] : k \in DOMAIN ch[q]}, alive' = alive \ {q},
         \A r \in Names : Starts'[r] = IF r = q THEN NIL ELSE Starts[r]
  PROVE  /\ Chained(heap', used', Starts', alive', Cut(ch, q, Len(ch[q])))
         /\ Keeps(heap', Cut(ch, q, Len(ch[q]))) = [Contents EXCEPT ![q] = <<>>]
         /\ Cut(ch, q, Len(ch[q]))[q] = <<>>
         /\ \A r \in Names \ {q} : Cut(ch, q, Len(ch[q]))[r] = ch[r]
<1> DEFINE n == Len(ch[q])
<1>1. Chained(heap, used, Starts, alive, ch) /\ used \subseteq Cells
  BY DEF ChainedBy, Chained
<1>2. n \in Nat /\ DOMAIN ch[q] = 1 .. n
  BY <1>1, ChainCells, ChainIs
<1>3. n \in 0 .. Len(ch[q]) /\ Nth(ch[q], n + 1) = NIL
  BY <1>2 DEF Nth
<1>4. \A c : c \in {ch[q][k] : k \in DOMAIN ch[q]} <=> \E k \in 1 .. n : c = ch[q][k]
  BY <1>2
<1> HIDE DEF n
<1>5. heap' = [c \in Cells |-> IF \E k \in 1 .. n : c = ch[q][k] THEN Blank ELSE heap[c]]
  BY <1>4
<1>6. used' = {c \in used : \A k \in 1 .. n : c # ch[q][k]}
  BY <1>1, <1>4
<1>7. Frees(heap, used, Starts, alive, ch, q, n, alive', heap', used', Starts')
  <2>1. alive' \subseteq alive /\ \A r \in alive \ alive' : r = q /\ n = Len(ch[q])
    BY DEF n
  <2>2. \A r \in Names : Starts'[r] = IF r = q THEN Nth(ch[q], n + 1) ELSE Starts[r]
    BY <1>3
  <2> QED
    BY <1>1, <1>3, <1>5, <1>6, <2>1, <2>2 DEF Frees
<1>8. /\ Contents = Keeps(heap, ch) /\ Contents[q] \in Seq(Objects)
      /\ Len(Contents[q]) = n
  BY <1>1, ContentsAre, KeptSeq DEF n
<1>9. Cut(Contents, q, n) = [Contents EXCEPT ![q] = <<>>]
  <2>1. SubSeq(Contents[q], n + 1, Len(Contents[q])) = <<>>
    BY <1>2, <1>8, SubSeqEmpty DEF n
  <2> QED
    BY <2>1 DEF Cut
<1>10. /\ \A r \in Names \ {q} : Cut(ch, q, n)[r] = ch[r]
       /\ Cut(ch, q, n)[q] = <<>>
  <2>1. SubSeq(ch[q], n + 1, Len(ch[q])) = <<>>
    BY <1>2, SubSeqEmpty DEF n
  <2> QED
    BY <1>1, <2>1 DEF Cut, Chained
<1> QED
  <2>1. /\ Chained(heap', used', Starts', alive', Cut(ch, q, n))
        /\ Keeps(heap', Cut(ch, q, n)) = Cut(Keeps(heap, ch), q, n)
    BY <1>7, FreeChained
  <2> QED
    BY <1>8, <1>9, <1>10, <2>1 DEF n

\* clone chains up fresh cells.
CopiesChain(ch, q, r, copy) ==
  /\ ChainedBy(ch) /\ q \in Names /\ q \in alive /\ r \in Names /\ r \notin alive
  /\ copy \in [1 .. Len(ch[q]) -> Cells \ used]
  /\ \A k, l \in 1 .. Len(ch[q]) : copy[k] = copy[l] => k = l
  /\ heap' = Copied(copy, Kept(heap, ch[q]))
  /\ used' = used \cup {copy[k] : k \in 1 .. Len(ch[q])} /\ alive' = alive \cup {r}
  /\ \A p \in Names : Starts'[p] = IF p = r THEN Nth(copy, 1) ELSE Starts[p]

LEMMA CloneCopies ==
  ASSUME NEW ch, NEW q, NEW r, NEW copy, CopiesChain(ch, q, r, copy)
  PROVE  /\ Chained(heap', used', Starts', alive', Doubled(ch, r, copy))
         /\ Keeps(heap', Doubled(ch, r, copy)) = [Contents EXCEPT ![r] = Contents[q]]
         /\ Len(copy) = Len(ch[q]) /\ copy \in Seq(Cells)
         /\ Doubled(ch, r, copy)[r] = copy
         /\ \A p \in Names \ {r} : Doubled(ch, r, copy)[p] = ch[p]
<1>0. /\ ChainedBy(ch) /\ q \in Names /\ q \in alive /\ r \in Names /\ r \notin alive
      /\ copy \in [1 .. Len(ch[q]) -> Cells \ used]
      /\ heap' = Copied(copy, Kept(heap, ch[q]))
      /\ used' = used \cup {copy[k] : k \in 1 .. Len(ch[q])} /\ alive' = alive \cup {r}
  BY DEF CopiesChain
<1>a. \A p \in Names : Starts'[p] = IF p = r THEN Nth(copy, 1) ELSE Starts[p]
  BY DEF CopiesChain
<1>b. \A k, l \in 1 .. Len(ch[q]) : copy[k] = copy[l] => k = l
  BY DEF CopiesChain
<1> USE <1>0
<1> DEFINE n == Len(ch[q])
           objs == Kept(heap, ch[q])
<1>1. /\ Chained(heap, used, Starts, alive, ch) /\ used \subseteq Cells /\ heap \in [Cells -> Elem]
      /\ \A c \in used : heap[c].obj \in Objects
  BY DEF ChainedBy, Chained
<1>2. /\ n \in Nat /\ \A k \in 1 .. n : ch[q][k] \in used
      /\ \A k \in 1 .. n : objs[k] = heap[ch[q][k]].obj
  BY <1>1, ChainCells, KeptSeq
<1>3. /\ DOMAIN copy = 1 .. n /\ \A k \in 1 .. n : copy[k] \in Cells /\ copy[k] \notin used
      /\ \A k, l \in 1 .. n : copy[k] = copy[l] => k = l
  BY <1>b, <1>1
<1>4. Len(copy) = n /\ copy \in Seq(Cells)
  <2>1. copy \in [1 .. n -> Cells]
    BY <1>3
  <2> HIDE DEF n
  <2>2. copy \in Seq(Cells)
    BY <1>2, <2>1, SeqDef
  <2> QED
    BY <1>2, <2>1, <2>2, LenProperties
<1> HIDE DEF n, objs
<1>5. \A c \in Cells :
        heap'[c] = IF \E k \in 1 .. n : copy[k] = c
                   THEN LET k == CHOOSE k \in 1 .. n : copy[k] = c IN
                        [obj |-> objs[k], next |-> IF k = n THEN NIL ELSE copy[k + 1]]
                   ELSE heap[c]
  BY <1>3, <1>4 DEF Copied, objs
<1>6. ASSUME NEW k \in 1 .. n
      PROVE  heap'[copy[k]] = [obj |-> heap[ch[q][k]].obj, next |-> Nth(copy, k + 1)]
  <2>1. (CHOOSE l \in 1 .. n : copy[l] = copy[k]) = k
    BY <1>3
  <2>2. heap'[copy[k]] = [obj |-> objs[k], next |-> IF k = n THEN NIL ELSE copy[k + 1]]
    <3>1. copy[k] \in Cells /\ \E l \in 1 .. n : copy[l] = copy[k]
      BY <1>3
    <3> DEFINE j == CHOOSE l \in 1 .. n : copy[l] = copy[k]
    <3>2. heap'[copy[k]] = [obj |-> objs[j], next |-> IF j = n THEN NIL ELSE copy[j + 1]]
      BY <1>5, <3>1
    <3>3. j = k
      BY <2>1
    <3> HIDE DEF j
    <3> QED
      BY <3>2, <3>3
  <2>3. Nth(copy, k + 1) = IF k = n THEN NIL ELSE copy[k + 1]
    <3>1. k + 1 \in 1 .. n <=> k # n
      BY <1>2
    <3> QED
      BY <1>4, <3>1 DEF Nth
  <2> QED
    BY <1>2, <2>2, <2>3
<1>7. \A c \in used : heap'[c] = heap[c]
  <2> SUFFICES ASSUME NEW c \in used PROVE heap'[c] = heap[c]
    OBVIOUS
  <2>1. c \in Cells /\ ~ \E k \in 1 .. n : copy[k] = c
    BY <1>1, <1>3
  <2> QED
    BY <1>5, <2>1
<1>8. heap' \in [Cells -> Elem]
  <2>1. heap' = [c \in Cells |-> heap'[c]]
    BY DEF Copied
  <2>2. ASSUME NEW c \in Cells PROVE heap'[c] \in Elem
    <3>1. CASE \E k \in 1 .. n : copy[k] = c
      <4>1. PICK k \in 1 .. n : copy[k] = c
        BY <3>1
      <4>2. heap'[c] = [obj |-> heap[ch[q][k]].obj, next |-> Nth(copy, k + 1)]
        BY <1>6, <4>1
      <4>3. heap[ch[q][k]].obj \in Objects /\ Nth(copy, k + 1) \in Cells \cup {NIL}
        BY <1>1, <1>2, <1>3, <1>4 DEF Nth
      <4> QED
        BY <4>2, <4>3 DEF Elem
    <3>2. CASE ~ \E k \in 1 .. n : copy[k] = c
      BY <1>1, <1>5, <3>2
    <3> QED
      BY <3>1, <3>2
  <2> QED
    BY <2>1, <2>2
<1>9. Copies(heap, used, Starts, alive, ch, q, r, copy, heap', used', alive', Starts')
  <2>1. copy \in [1 .. Len(ch[q]) -> Cells \ used]
    OBVIOUS
  <2>2. \A k, l \in 1 .. Len(ch[q]) : copy[k] = copy[l] => k = l
    BY <1>b
  <2>3. \A k \in 1 .. Len(ch[q]) :
          heap'[copy[k]] = [obj |-> heap[ch[q][k]].obj, next |-> Nth(copy, k + 1)]
    BY <1>6 DEF n
  <2>4. used' = used \cup {copy[k] : k \in 1 .. Len(ch[q])}
    OBVIOUS
  <2> QED
    BY <1>a, <1>1, <1>7, <1>8, <2>1, <2>2, <2>3, <2>4 DEF Copies
<1>10. Contents = Keeps(heap, ch)
  BY ContentsAre
<1>11. /\ Chained(heap', used', Starts', alive', Doubled(ch, r, copy))
       /\ Keeps(heap', Doubled(ch, r, copy)) = Doubled(Contents, r, Contents[q])
  <2>1. Chained(heap', used', Starts', alive', Doubled(ch, r, copy))
    BY <1>9, CloneChained
  <2>2. Keeps(heap', Doubled(ch, r, copy)) = Doubled(Keeps(heap, ch), r, Keeps(heap, ch)[q])
    BY <1>9, CloneChained
  <2> QED
    BY <1>10, <2>1, <2>2
<1>12. /\ Doubled(ch, r, copy)[r] = copy
       /\ \A p \in Names \ {r} : Doubled(ch, r, copy)[p] = ch[p]
  BY <1>1 DEF Doubled, Chained
<1> QED
  BY <1>4, <1>11, <1>12 DEF Doubled, n

-----------------------------------------------------------------------------
LEMMA FifoGet ==
  ASSUME class = "FIFO", class' = class, NEW ch, ChainedBy(ch), NEW q \in Names, Fifo!get(q)
  PROVE  (\E ch2 : ChainedBy(ch2)') /\ Queue!Get(q)
<1> DEFINE s == ch[q]
           L == Len(s)
           n == IF s = <<>> THEN 0 ELSE 1
           c == queue[q].out
           ch2 == Cut(ch, q, n)
<1>1. /\ q \in alive /\ alive' = alive
      /\ answer' = <<IF c # NIL THEN heap[c].obj ELSE NIL>>
      /\ heap' = Fifo!Freed({c}) /\ used' = used \ {c}
      /\ queue' = [queue EXCEPT ![q] =
                     IF queue[q].out # NIL
                     THEN [queue[q] EXCEPT !.out = heap[queue[q].out].next, !.size = @ - 1]
                     ELSE [queue[q] EXCEPT !.in = NIL]]
  BY DEF Fifo!get, Fifo!Shortened
<1>2. /\ Chained(heap, used, Starts, alive, ch) /\ heap \in [Cells -> Elem] /\ used \subseteq Cells
      /\ ch \in [Names -> Seq(Cells)]
      /\ queue \in [Names -> [in : Ends, out : Ends, size : Nat]]
      /\ queue[q].size = L /\ L \in Nat
      /\ s # <<>> => queue[q].in = s[L]
      /\ s = <<>> <=> L = 0
      /\ \A k \in 1 .. L : s[k] \in used
  BY FifoMeets
<1>3. /\ Starts[q] = c /\ (c = NIL <=> s = <<>>)
      /\ s # <<>> => c = s[1] /\ 1 \in 1 .. L /\ heap[c].next = Nth(s, 2) /\ c \in Cells
      /\ Queue!Front(q) = IF c = NIL THEN NIL ELSE heap[c].obj
  <2>1. Starts[q] = c
    BY DEF Starts
  <2>2. \A k \in 1 .. L : heap[s[k]].next = Nth(s, k + 1)
    BY <1>2, ChainCells
  <2>3. s # <<>> => c = s[1] /\ 1 \in 1 .. L
    BY <2>1, FrontIs
  <2>4. s # <<>> => heap[c].next = Nth(s, 2) /\ c \in Cells
    <3>1. 1 + 1 = 2
      OBVIOUS
    <3> HIDE DEF s, L, c
    <3> QED
      BY <1>2, <2>2, <2>3, <3>1
  <2> QED
    BY <2>1, <2>3, <2>4, FrontIs
<1> HIDE DEF s, L
<1>4. heap' = [d \in Cells |-> IF d = Starts[q] THEN Blank ELSE heap[d]] /\ used' = used \ {Starts[q]}
  BY <1>1, <1>3, SameCells DEF Fifo!Freed
<1> DEFINE st == IF s # <<>>
                 THEN [in |-> queue[q].in, out |-> Nth(s, 2), size |-> L - 1]
                 ELSE [in |-> NIL, out |-> NIL, size |-> 0]
<1>5. /\ queue' = [queue EXCEPT ![q] = st]
      /\ st \in [in : Ends, out : Ends, size : Nat]
  <2>1. queue[q] = [in |-> queue[q].in, out |-> queue[q].out, size |-> queue[q].size]
    BY <1>2
  <2>2. CASE s # <<>>
    <3>0. L - 1 \in Nat /\ Nth(s, 2) \in Ends
      <4>1. \A k \in 1 .. L : s[k] \in Cells
        BY <1>2
      <4>2. Len(s) = L
        BY DEF L
      <4> QED
        BY <1>2, <2>2, <4>1, <4>2 DEF Nth, Ends
    <3> DEFINE u == [queue[q] EXCEPT !.out = heap[queue[q].out].next, !.size = @ - 1]
    <3>1. /\ u \in [in : Ends, out : Ends, size : Nat]
          /\ u.in = queue[q].in /\ u.out = Nth(s, 2) /\ u.size = L - 1
      <4> DEFINE t == queue[q]
                 x == heap[queue[q].out].next
      <4>1. t \in [in : Ends, out : Ends, size : Nat] /\ t.size = L /\ x = Nth(s, 2)
        BY <1>2, <1>3, <2>2
      <4> HIDE DEF t, x
      <4>2. /\ [t EXCEPT !.out = x, !.size = @ - 1] \in [in : Ends, out : Ends, size : Nat]
            /\ [t EXCEPT !.out = x, !.size = @ - 1].in = t.in
            /\ [t EXCEPT !.out = x, !.size = @ - 1].out = x
            /\ [t EXCEPT !.out = x, !.size = @ - 1].size = L - 1
        BY <3>0, <4>1
      <4> QED
        BY <4>1, <4>2 DEF t, x
    <3> HIDE DEF u
    <3>2. u = st
      <4>1. u = [in |-> u.in, out |-> u.out, size |-> u.size]
        BY <3>1
      <4> QED
        BY <2>2, <3>1, <4>1
    <3>3. st \in [in : Ends, out : Ends, size : Nat]
      BY <3>1, <3>2
    <3> QED
      BY <1>1, <1>3, <2>2, <3>2, <3>3 DEF u
  <2>3. CASE s = <<>>
    <3>0. [queue[q] EXCEPT !.in = NIL] = [in |-> NIL, out |-> queue[q].out, size |-> queue[q].size]
      BY <1>2
    <3>1. [queue[q] EXCEPT !.in = NIL] = st
      BY <1>2, <1>3, <2>3, <3>0
    <3> QED
      BY <1>1, <1>3, <2>3, <3>1 DEF Ends
  <2> QED
    BY <2>2, <2>3
<1> HIDE DEF st
<1>6. \A r \in Names : Starts'[r] = IF r = q THEN Nth(ch[q], n + 1) ELSE Starts[r]
  <2>1. st.out = Nth(s, n + 1)
    BY <1>2 DEF st, Nth, L
  <2>2. \A r \in Names : queue'[r] = IF r = q THEN st ELSE queue[r]
    BY <1>2, <1>5
  <2>3. \A r \in Names : Starts'[r] = queue'[r].out /\ Starts[r] = queue[r].out
    BY DEF Starts
  <2> HIDE DEF n
  <2> QED
    BY <2>1, <2>2, <2>3 DEF s
<1>7. /\ Chained(heap', used', Starts', alive', ch2)
      /\ Keeps(heap', ch2) = [Contents EXCEPT ![q] = IF @ = <<>> THEN <<>> ELSE Tail(@)]
      /\ Len(ch2[q]) = Len(ch[q]) - n
      /\ \A k \in 1 .. Len(ch[q]) - n : ch2[q][k] = ch[q][n + k]
      /\ \A r \in Names \ {q} : ch2[r] = ch[r]
  <2>1. n = IF ch[q] = <<>> THEN 0 ELSE 1
    BY DEF s
  <2> HIDE DEF n, ch2
  <2> QED
    <3>1. FreesFirst(ch, q, n)
      BY <1>1, <1>4, <1>6, <2>1 DEF FreesFirst
    <3> QED
      BY <3>1, GetFrees DEF ch2
<1> HIDE DEF ch2
<1>8. queue' \in [Names -> [in : Ends, out : Ends, size : Nat]]
  BY <1>2, <1>5
<1>9. ASSUME NEW r \in Names
      PROVE  /\ queue'[r].size = Len(ch2[r])
             /\ ch2[r] # <<>> => queue'[r].in = ch2[r][Len(ch2[r])]
  <2>1. CASE r # q
    <3>1. queue'[r] = queue[r] /\ ch2[r] = ch[r]
      BY <1>2, <1>5, <1>7, <2>1
    <3> QED
      BY <3>1, FifoMeets
  <2>2. CASE r = q /\ s = <<>>
    <3>1. queue'[q].size = 0 /\ Len(ch2[q]) = 0
      BY <1>2, <1>5, <1>7, <2>2 DEF st, s, L
    <3>2. ch2[q] = <<>>
      BY <1>7, <3>1, ChainCells
    <3> QED
      BY <2>2, <3>1, <3>2
  <2>3. CASE r = q /\ s # <<>>
    <3>1. queue'[q].size = L - 1 /\ queue'[q].in = s[L]
      BY <1>2, <1>5, <2>3 DEF st
    <3>2. Len(ch2[q]) = L - 1 /\ \A k \in 1 .. L - 1 : ch2[q][k] = s[1 + k]
      BY <1>7, <2>3 DEF s, L
    <3>3. ch2[q] # <<>> => L - 1 \in 1 .. L - 1 /\ 1 + (L - 1) = L
      BY <1>2, <1>7, <3>2, ChainCells
    <3> QED
      BY <2>3, <3>1, <3>2, <3>3
  <2> QED
    BY <2>1, <2>2, <2>3
<1>10. ChainedBy(ch2)'
  BY <1>7, <1>8, <1>9, FifoLeaves
<1>11. Contents' = [Contents EXCEPT ![q] = IF @ = <<>> THEN <<>> ELSE Tail(@)]
  BY <1>7, <1>10, ContentsWillBe
<1>12. answer' = <<Queue!Front(q)>>
  BY <1>1, <1>3
<1> QED
  BY <1>1, <1>10, <1>11, <1>12 DEF Queue!Get

\* The structs and the chains stay as they are.
LEMMA Unmoved ==
  ASSUME class' = class, NEW ch, ChainedBy(ch), UNCHANGED <<heap, used, queue, alive>>
  PROVE  ChainedBy(ch)' /\ Contents' = Contents
<1>1. ChainedBy(ch)'
  BY DEF ChainedBy, Structs, Starts
<1> QED
  BY <1>1, ContentsAre, ContentsWillBe

LEMMA FifoPeek ==
  ASSUME class = "FIFO", class' = class, NEW ch, ChainedBy(ch), NEW q \in Names, Fifo!peek(q)
  PROVE  (\E ch2 : ChainedBy(ch2)') /\ Queue!Peek(q)
<1>1. /\ q \in alive /\ UNCHANGED <<heap, used, queue, alive>>
      /\ answer' = <<IF queue[q].out = NIL THEN NIL ELSE heap[queue[q].out].obj>>
  BY DEF Fifo!peek
<1>2. Starts[q] = queue[q].out
  BY DEF Starts
<1>3. answer' = <<Queue!Front(q)>>
  BY <1>1, <1>2, FrontIs
<1> QED
  BY <1>1, <1>3, Unmoved DEF Queue!Peek

LEMMA WholeIs ==
  ASSUME NEW ch, ChainedBy(ch), NEW q \in Names
  PROVE  /\ class = "FIFO" => Fifo!Objs(q) = Kept(heap, ch[q])
         /\ class # "FIFO" => Lists!Objs(q) = Kept(heap, ch[q])
         /\ Contents[q] = Kept(heap, ch[q])
<1>1. Chained(heap, used, Starts, alive, ch)
  BY DEF ChainedBy
<1>2. Contents[q] = Kept(heap, ch[q])
  BY <1>1, ContentsAre, KeptSeq
<1>3. class = "FIFO" => Fifo!Objs(q) = Kept(heap, ch[q])
  BY ChainIs DEF Fifo!Objs, Fifo!Held, Kept
<1>4. class # "FIFO" => Lists!Objs(q) = Kept(heap, ch[q])
  BY ChainIs DEF Lists!Objs, Lists!Held, Kept
<1> QED
  BY <1>2, <1>3, <1>4

LEMMA FifoApply ==
  ASSUME class = "FIFO", class' = class, NEW ch, ChainedBy(ch), NEW q \in Names, Fifo!apply(q)
  PROVE  (\E ch2 : ChainedBy(ch2)') /\ Queue!Apply(q)
<1>1. q \in alive /\ UNCHANGED <<heap, used, queue, alive>> /\ answer' = Fifo!Objs(q)
  BY DEF Fifo!apply
<1>2. answer' = Contents[q]
  BY <1>1, WholeIs
<1> QED
  BY <1>1, <1>2, Unmoved DEF Queue!Apply

LEMMA FifoDelete ==
  ASSUME class = "FIFO", class' = class, NEW ch, ChainedBy(ch), NEW q \in Names, Fifo!delete(q)
  PROVE  (\E ch2 : ChainedBy(ch2)') /\ Queue!Delete(q)
<1> DEFINE gone == {ch[q][k] : k \in DOMAIN ch[q]}
           ch2 == Cut(ch, q, Len(ch[q]))
<1>1. Fifo!CellsOf(q) = gone
  BY ChainIs DEF Fifo!CellsOf
<1>2. /\ q \in alive /\ alive' = alive \ {q}
      /\ heap' = [c \in Cells |-> IF c \in gone THEN Blank ELSE heap[c]]
      /\ used' = used \ gone /\ answer' = answer
      /\ queue' = [queue EXCEPT ![q] = [in |-> NIL, out |-> NIL, size |-> 0]]
  <2> HIDE DEF gone
  <2> QED
    BY <1>1, SameCells DEF Fifo!delete, Fifo!Freed
<1>3. queue \in [Names -> [in : Ends, out : Ends, size : Nat]]
  BY FifoMeets
<1>4. /\ queue' \in [Names -> [in : Ends, out : Ends, size : Nat]]
      /\ queue'[q].out = NIL /\ queue'[q].size = 0
      /\ \A r \in Names \ {q} : queue'[r] = queue[r]
  BY <1>2, <1>3 DEF Ends
<1>5. \A r \in Names : Starts'[r] = IF r = q THEN NIL ELSE Starts[r]
  BY <1>4 DEF Starts
<1>6. /\ Chained(heap', used', Starts', alive', ch2)
      /\ Keeps(heap', ch2) = [Contents EXCEPT ![q] = <<>>]
      /\ ch2[q] = <<>>
      /\ \A r \in Names \ {q} : ch2[r] = ch[r]
  BY <1>2, <1>5, DeleteFrees
<1> HIDE DEF ch2
<1>7. ASSUME NEW r \in Names
      PROVE  /\ queue'[r].size = Len(ch2[r])
             /\ ch2[r] # <<>> => queue'[r].in = ch2[r][Len(ch2[r])]
  <2>1. CASE r # q
    BY <1>4, <1>6, <2>1, FifoMeets
  <2>2. CASE r = q
    BY <1>4, <1>6, <2>2, EmptySeq
  <2> QED
    BY <2>1, <2>2
<1>8. ChainedBy(ch2)'
  BY <1>4, <1>6, <1>7, FifoLeaves
<1>9. Contents' = [Contents EXCEPT ![q] = <<>>]
  BY <1>6, <1>8, ContentsWillBe
<1> QED
  BY <1>2, <1>8, <1>9 DEF Queue!Delete

LEMMA FifoClone ==
  ASSUME class = "FIFO", class' = class, NEW ch, ChainedBy(ch), NEW q \in Names,
         NEW r \in Names, Fifo!clone(q, r)
  PROVE  (\E ch2 : ChainedBy(ch2)') /\ Queue!Clone(q, r)
<1> DEFINE L == Len(ch[q])
<1>1. Fifo!Chain(q) = ch[q] /\ Fifo!Objs(q) = Kept(heap, ch[q])
  BY ChainIs, WholeIs
<1>2. PICK copy \in Fifo!Fresh(L) :
        /\ used' = used \cup {copy[k] : k \in 1 .. L}
        /\ heap' = Fifo!Copied(copy, Kept(heap, ch[q]))
        /\ queue' = [queue EXCEPT ![r] = Fifo!ClonedStruct(q, copy)]
  BY <1>1 DEF Fifo!clone
<1>3. q \in alive /\ r \notin alive /\ alive' = alive \cup {r} /\ answer' = answer
  BY DEF Fifo!clone
<1>4. /\ copy \in [1 .. L -> Cells \ used]
      /\ \A k, l \in 1 .. L : copy[k] = copy[l] => k = l
  BY DEF Fifo!Fresh
<1>5. heap' = Copied(copy, Kept(heap, ch[q]))
  BY <1>2 DEF Fifo!Copied, Copied
<1>6. /\ queue \in [Names -> [in : Ends, out : Ends, size : Nat]]
      /\ queue[q].size = L /\ L \in Nat /\ queue[q].out = Nth(ch[q], 1)
      /\ used \subseteq Cells
  BY FifoMeets
<1>7. copy \in Seq(Cells) /\ Len(copy) = L /\ (copy = <<>> <=> L = 0)
  <2>1. copy \in [1 .. L -> Cells]
    BY <1>4
  <2> HIDE DEF L
  <2>2. copy \in Seq(Cells)
    BY <1>6, <2>1, SeqDef
  <2> QED
    BY <1>6, <2>1, <2>2, LenProperties, EmptySeq
<1> DEFINE st == Fifo!ClonedStruct(q, copy)
<1>8. /\ st \in [in : Ends, out : Ends, size : Nat] /\ st.size = L
      /\ st.out = Nth(copy, 1) /\ (copy # <<>> => st.in = copy[L])
  <2>1. CASE copy = <<>>
    <3>1. st = queue[q]
      BY <2>1 DEF Fifo!ClonedStruct
    <3> QED
      BY <1>6, <1>7, <2>1, <3>1 DEF Nth
  <2>2. CASE copy # <<>>
    <3>1. st = [queue[q] EXCEPT !.in = copy[L], !.out = copy[1]]
      BY <1>7, <2>2 DEF Fifo!ClonedStruct
    <3>2. 1 \in 1 .. L /\ L \in 1 .. L
      BY <1>6, <1>7, <2>2
    <3>3. copy[1] \in Ends /\ copy[L] \in Ends /\ Nth(copy, 1) = copy[1]
      BY <1>4, <1>7, <3>2 DEF Ends, Nth
    <3> HIDE DEF st, L
    <3> QED
      BY <1>6, <3>1, <3>3
  <2> QED
    BY <2>1, <2>2
<1> HIDE DEF st
<1>9. /\ queue' \in [Names -> [in : Ends, out : Ends, size : Nat]] /\ queue'[r] = st
      /\ \A p \in Names \ {r} : queue'[p] = queue[p]
  BY <1>2, <1>6, <1>8 DEF st
<1>10. \A p \in Names : Starts'[p] = IF p = r THEN Nth(copy, 1) ELSE Starts[p]
  BY <1>8, <1>9 DEF Starts
<1> DEFINE ch2 == Doubled(ch, r, copy)
<1>11. /\ Chained(heap', used', Starts', alive', ch2)
       /\ Keeps(heap', ch2) = [Contents EXCEPT ![r] = Contents[q]]
       /\ ch2[r] = copy
       /\ \A p \in Names \ {r} : ch2[p] = ch[p]
  <2>1. CopiesChain(ch, q, r, copy)
    BY <1>2, <1>3, <1>4, <1>5, <1>10 DEF CopiesChain
  <2> QED
    BY <2>1, CloneCopies
<1> HIDE DEF ch2
<1>12. ASSUME NEW p \in Names
       PROVE  /\ queue'[p].size = Len(ch2[p])
              /\ ch2[p] # <<>> => queue'[p].in = ch2[p][Len(ch2[p])]
  <2>1. CASE p # r
    BY <1>9, <1>11, <2>1, FifoMeets
  <2>2. CASE p = r
    BY <1>7, <1>8, <1>9, <1>11, <2>2
  <2> QED
    BY <2>1, <2>2
<1>13. ChainedBy(ch2)'
  BY <1>9, <1>11, <1>12, FifoLeaves
<1>14. Contents' = [Contents EXCEPT ![r] = Contents[q]]
  BY <1>11, <1>13, ContentsWillBe
<1> QED
  BY <1>3, <1>13, <1>14 DEF Queue!Clone

-----------------------------------------------------------------------------
\* What an operation of the lists meets: the chain of q.
LEMMA ListMeets ==
  ASSUME class # "FIFO", NEW ch, ChainedBy(ch), NEW q \in Names
  PROVE  /\ Chained(heap, used, Starts, alive, ch)
         /\ heap \in [Cells -> Elem] /\ used \subseteq Cells /\ alive \subseteq Names
         /\ ch \in [Names -> Seq(Cells)]
         /\ queue \in [Names -> [head : Ends, size : Nat]]
         /\ queue[q].size = Len(ch[q])
         /\ queue[q].head = Nth(ch[q], 1)
         /\ Len(ch[q]) \in Nat /\ \A k \in 1 .. Len(ch[q]) : ch[q][k] \in used
         /\ ch[q] = <<>> <=> Len(ch[q]) = 0
         /\ Lists!Chain(q) = ch[q] /\ DOMAIN ch[q] = 1 .. Len(ch[q])
<1>1. /\ Chained(heap, used, Starts, alive, ch)
      /\ queue \in [Names -> [head : Ends, size : Nat]]
      /\ queue[q].size = Len(ch[q])
  BY DEF ChainedBy, Structs
<1>2. Starts[q] = Nth(ch[q], 1) /\ Starts[q] = queue[q].head
  BY <1>1, ChainCells DEF Starts
<1> QED
  <2>1. /\ heap \in [Cells -> Elem] /\ used \subseteq Cells /\ alive \subseteq Names
        /\ ch \in [Names -> Seq(Cells)]
    BY <1>1 DEF Chained
  <2>2. /\ Len(ch[q]) \in Nat /\ \A k \in 1 .. Len(ch[q]) : ch[q][k] \in used
        /\ ch[q] = <<>> <=> Len(ch[q]) = 0
    BY <1>1, ChainCells
  <2>3. Lists!Chain(q) = ch[q] /\ DOMAIN ch[q] = 1 .. Len(ch[q])
    BY ChainIs
  <2> QED
    BY <1>1, <1>2, <2>1, <2>2, <2>3

LEMMA ListLeaves ==
  ASSUME class' # "FIFO", NEW ch2, Chained(heap', used', Starts', alive', ch2),
         queue' \in [Names -> [head : Ends, size : Nat]],
         \A q \in Names : queue'[q].size = Len(ch2[q])
  PROVE  ChainedBy(ch2)'
<1>1. Structs(ch2)'
  BY DEF Structs
<1> QED
  BY <1>1 DEF ChainedBy

LEMMA ListNew ==
  ASSUME class # "FIFO", class' = class, NEW ch, ChainedBy(ch), NEW q \in Names, Lists!new(q)
  PROVE  (\E ch2 : ChainedBy(ch2)') /\ Queue!New(q)
<1>1. /\ q \notin alive /\ alive' = alive \cup {q} /\ UNCHANGED <<heap, used, answer>>
      /\ queue' = [queue EXCEPT ![q] = [head |-> NIL, size |-> 0]]
  BY SameCells DEF Lists!new
<1>2. /\ Chained(heap, used, Starts, alive, ch)
      /\ queue \in [Names -> [head : Ends, size : Nat]]
      /\ ch[q] = <<>> /\ Len(ch[q]) = 0 /\ queue[q].head = NIL
  BY <1>1, ListMeets DEF Chained, Nth
<1>3. queue' \in [Names -> [head : Ends, size : Nat]]
  BY <1>1, <1>2 DEF Ends
<1>4. \A r \in Names : Starts'[r] = Starts[r]
  BY <1>1, <1>2 DEF Starts
<1>5. Chained(heap', used', Starts', alive', ch)
  BY <1>1, <1>2, <1>4, NewChained
<1>6. ASSUME NEW r \in Names PROVE queue'[r].size = Len(ch[r])
  <2>1. CASE r = q
    BY <1>1, <1>2, <2>1
  <2>2. CASE r # q
    BY <1>1, <1>2, <2>2, ListMeets
  <2> QED
    BY <2>1, <2>2
<1>7. ChainedBy(ch)'
  BY <1>3, <1>5, <1>6, ListLeaves
<1>8. Contents' = Contents
  BY <1>1, <1>7, ContentsAre, ContentsWillBe
<1> QED
  BY <1>1, <1>7, <1>8 DEF Queue!New

LEMMA ListGet ==
  ASSUME class # "FIFO", class' = class, NEW ch, ChainedBy(ch), NEW q \in Names, Lists!get(q)
  PROVE  (\E ch2 : ChainedBy(ch2)') /\ Queue!Get(q)
<1> DEFINE s == ch[q]
           L == Len(s)
           n == IF s = <<>> THEN 0 ELSE 1
           c == queue[q].head
           ch2 == Cut(ch, q, n)
<1>1. /\ q \in alive /\ alive' = alive
      /\ c # NIL => /\ answer' = <<heap[c].obj>>
                    /\ heap' = Lists!Freed({c}) /\ used' = used \ {c}
                    /\ queue' = [queue EXCEPT ![q] = [head |-> heap[c].next,
                                                      size |-> queue[q].size - 1]]
      /\ c = NIL => answer' = <<NIL>> /\ heap' = heap /\ used' = used /\ queue' = queue
  BY DEF Lists!get
<1>2. /\ Chained(heap, used, Starts, alive, ch) /\ heap \in [Cells -> Elem] /\ used \subseteq Cells
      /\ ch \in [Names -> Seq(Cells)]
      /\ queue \in [Names -> [head : Ends, size : Nat]]
      /\ queue[q].size = L /\ L \in Nat
      /\ s = <<>> <=> L = 0
      /\ \A k \in 1 .. L : s[k] \in used
  BY ListMeets
<1>3. /\ Starts[q] = c /\ (c = NIL <=> s = <<>>)
      /\ s # <<>> => c = s[1] /\ 1 \in 1 .. L /\ heap[c].next = Nth(s, 2) /\ c \in Cells
      /\ Queue!Front(q) = IF c = NIL THEN NIL ELSE heap[c].obj
  <2>1. Starts[q] = c
    BY DEF Starts
  <2>2. \A k \in 1 .. L : heap[s[k]].next = Nth(s, k + 1)
    BY <1>2, ChainCells
  <2>3. s # <<>> => c = s[1] /\ 1 \in 1 .. L
    BY <2>1, FrontIs
  <2>4. s # <<>> => heap[c].next = Nth(s, 2) /\ c \in Cells
    <3>1. 1 + 1 = 2
      OBVIOUS
    <3> HIDE DEF s, L, c
    <3> QED
      BY <1>2, <2>2, <2>3, <3>1
  <2> QED
    BY <2>1, <2>3, <2>4, FrontIs
<1> HIDE DEF s, L
<1>4. heap' = [d \in Cells |-> IF d = Starts[q] THEN Blank ELSE heap[d]] /\ used' = used \ {Starts[q]}
  <2>1. CASE c # NIL
    BY <1>1, <1>3, <2>1, SameCells DEF Lists!Freed
  <2>2. CASE c = NIL
    BY <1>1, <1>2, <1>3, <2>2, CellsAssumption
  <2> QED
    BY <2>1, <2>2
<1> DEFINE st == IF s # <<>> THEN [head |-> Nth(s, 2), size |-> L - 1]
                 ELSE [head |-> NIL, size |-> 0]
<1>5. /\ queue' = [queue EXCEPT ![q] = st]
      /\ st \in [head : Ends, size : Nat]
  <2>1. queue[q] = [head |-> queue[q].head, size |-> queue[q].size]
    BY <1>2
  <2>2. CASE s # <<>>
    <3>0. L - 1 \in Nat /\ Nth(s, 2) \in Ends
      <4>1. \A k \in 1 .. L : s[k] \in Cells
        BY <1>2
      <4>2. Len(s) = L
        BY DEF L
      <4> QED
        BY <1>2, <2>2, <4>1, <4>2 DEF Nth, Ends
    <3>1. queue' = [queue EXCEPT ![q] = st]
      BY <1>1, <1>2, <1>3, <2>2
    <3> QED
      BY <2>2, <3>0, <3>1
  <2>3. CASE s = <<>>
    <3>1. queue[q] = st
      BY <1>2, <1>3, <2>1, <2>3
    <3>2. queue' = queue
      BY <1>1, <1>3, <2>3
    <3> HIDE DEF st
    <3> QED
      BY <1>2, <3>1, <3>2
  <2> QED
    BY <2>2, <2>3
<1> HIDE DEF st
<1>6. \A r \in Names : Starts'[r] = IF r = q THEN Nth(ch[q], n + 1) ELSE Starts[r]
  <2>1. st.head = Nth(s, n + 1)
    BY <1>2 DEF st, Nth, L
  <2>2. \A r \in Names : queue'[r] = IF r = q THEN st ELSE queue[r]
    BY <1>2, <1>5
  <2>3. \A r \in Names : Starts'[r] = queue'[r].head /\ Starts[r] = queue[r].head
    BY DEF Starts
  <2> HIDE DEF n
  <2> QED
    BY <2>1, <2>2, <2>3 DEF s
<1>7. /\ Chained(heap', used', Starts', alive', ch2)
      /\ Keeps(heap', ch2) = [Contents EXCEPT ![q] = IF @ = <<>> THEN <<>> ELSE Tail(@)]
      /\ Len(ch2[q]) = Len(ch[q]) - n
      /\ \A r \in Names \ {q} : ch2[r] = ch[r]
  <2>1. n = IF ch[q] = <<>> THEN 0 ELSE 1
    BY DEF s
  <2> HIDE DEF n, ch2
  <2>2. FreesFirst(ch, q, n)
    BY <1>1, <1>4, <1>6, <2>1 DEF FreesFirst
  <2> QED
    BY <2>2, GetFrees DEF ch2
<1> HIDE DEF ch2
<1>8. queue' \in [Names -> [head : Ends, size : Nat]]
  BY <1>2, <1>5
<1>9. ASSUME NEW r \in Names PROVE queue'[r].size = Len(ch2[r])
  <2>1. CASE r # q
    <3>1. queue'[r] = queue[r] /\ ch2[r] = ch[r]
      BY <1>2, <1>5, <1>7, <2>1
    <3> QED
      BY <3>1, ListMeets
  <2>2. CASE r = q
    <3>1. queue'[q].size = L - n /\ Len(ch2[q]) = L - n
      BY <1>2, <1>5, <1>7 DEF st, s, L
    <3> QED
      BY <2>2, <3>1
  <2> QED
    BY <2>1, <2>2
<1>10. ChainedBy(ch2)'
  BY <1>7, <1>8, <1>9, ListLeaves
<1>11. Contents' = [Contents EXCEPT ![q] = IF @ = <<>> THEN <<>> ELSE Tail(@)]
  BY <1>7, <1>10, ContentsWillBe
<1>12. answer' = <<Queue!Front(q)>>
  BY <1>1, <1>3
<1> QED
  BY <1>1, <1>10, <1>11, <1>12 DEF Queue!Get

LEMMA ListPeek ==
  ASSUME class # "FIFO", class' = class, NEW ch, ChainedBy(ch), NEW q \in Names, Lists!peek(q)
  PROVE  (\E ch2 : ChainedBy(ch2)') /\ Queue!Peek(q)
<1>1. /\ q \in alive /\ UNCHANGED <<heap, used, queue, alive>>
      /\ answer' = <<IF queue[q].head = NIL THEN NIL ELSE heap[queue[q].head].obj>>
  BY DEF Lists!peek
<1>2. Starts[q] = queue[q].head
  BY DEF Starts
<1>3. answer' = <<Queue!Front(q)>>
  BY <1>1, <1>2, FrontIs
<1> QED
  BY <1>1, <1>3, Unmoved DEF Queue!Peek

LEMMA ListApply ==
  ASSUME class # "FIFO", class' = class, NEW ch, ChainedBy(ch), NEW q \in Names, Lists!apply(q)
  PROVE  (\E ch2 : ChainedBy(ch2)') /\ Queue!Apply(q)
<1>1. q \in alive /\ UNCHANGED <<heap, used, queue, alive>> /\ answer' = Lists!Objs(q)
  BY DEF Lists!apply
<1>2. answer' = Contents[q]
  BY <1>1, WholeIs
<1> QED
  BY <1>1, <1>2, Unmoved DEF Queue!Apply

LEMMA ListDelete ==
  ASSUME class # "FIFO", class' = class, NEW ch, ChainedBy(ch), NEW q \in Names, Lists!delete(q)
  PROVE  (\E ch2 : ChainedBy(ch2)') /\ Queue!Delete(q)
<1> DEFINE gone == {ch[q][k] : k \in DOMAIN ch[q]}
           ch2 == Cut(ch, q, Len(ch[q]))
<1>1. Lists!CellsOf(q) = gone
  BY ChainIs DEF Lists!CellsOf
<1>2. /\ q \in alive /\ alive' = alive \ {q}
      /\ heap' = [c \in Cells |-> IF c \in gone THEN Blank ELSE heap[c]]
      /\ used' = used \ gone /\ answer' = answer
      /\ queue' = [queue EXCEPT ![q] = [head |-> NIL, size |-> 0]]
  <2> HIDE DEF gone
  <2> QED
    BY <1>1, SameCells DEF Lists!delete, Lists!Freed
<1>3. queue \in [Names -> [head : Ends, size : Nat]]
  BY ListMeets
<1>4. /\ queue' \in [Names -> [head : Ends, size : Nat]]
      /\ queue'[q].head = NIL /\ queue'[q].size = 0
      /\ \A r \in Names \ {q} : queue'[r] = queue[r]
  BY <1>2, <1>3 DEF Ends
<1>5. \A r \in Names : Starts'[r] = IF r = q THEN NIL ELSE Starts[r]
  BY <1>4 DEF Starts
<1>6. /\ Chained(heap', used', Starts', alive', ch2)
      /\ Keeps(heap', ch2) = [Contents EXCEPT ![q] = <<>>]
      /\ ch2[q] = <<>>
      /\ \A r \in Names \ {q} : ch2[r] = ch[r]
  BY <1>2, <1>5, DeleteFrees
<1> HIDE DEF ch2
<1>7. ASSUME NEW r \in Names PROVE queue'[r].size = Len(ch2[r])
  <2>1. CASE r # q
    BY <1>4, <1>6, <2>1, ListMeets
  <2>2. CASE r = q
    BY <1>4, <1>6, <2>2, EmptySeq
  <2> QED
    BY <2>1, <2>2
<1>8. ChainedBy(ch2)'
  BY <1>4, <1>6, <1>7, ListLeaves
<1>9. Contents' = [Contents EXCEPT ![q] = <<>>]
  BY <1>6, <1>8, ContentsWillBe
<1> QED
  BY <1>2, <1>8, <1>9 DEF Queue!Delete

LEMMA ListClone ==
  ASSUME class # "FIFO", class' = class, NEW ch, ChainedBy(ch), NEW q \in Names,
         NEW r \in Names, Lists!clone(q, r)
  PROVE  (\E ch2 : ChainedBy(ch2)') /\ Queue!Clone(q, r)
<1> DEFINE L == Len(ch[q])
<1>1. Lists!Chain(q) = ch[q] /\ Lists!Objs(q) = Kept(heap, ch[q])
  BY ChainIs, WholeIs
<1>2. PICK copy \in Lists!Fresh(L) :
        /\ used' = used \cup {copy[k] : k \in DOMAIN copy}
        /\ heap' = Lists!Copied(copy, Kept(heap, ch[q]))
        /\ queue' = [queue EXCEPT ![r] = Lists!ClonedStruct(q, copy)]
  BY <1>1 DEF Lists!clone
<1>3. q \in alive /\ r \notin alive /\ alive' = alive \cup {r} /\ answer' = answer
  BY DEF Lists!clone
<1>4. /\ copy \in [1 .. L -> Cells \ used] /\ DOMAIN copy = 1 .. L
      /\ \A k, l \in 1 .. L : copy[k] = copy[l] => k = l
  BY DEF Lists!Fresh
<1>5. heap' = Copied(copy, Kept(heap, ch[q]))
  BY <1>2 DEF Lists!Copied, Copied
<1>6. /\ queue \in [Names -> [head : Ends, size : Nat]]
      /\ queue[q].size = L /\ L \in Nat /\ queue[q].head = Nth(ch[q], 1)
      /\ used \subseteq Cells
  BY ListMeets
<1>7. copy \in Seq(Cells) /\ Len(copy) = L /\ (copy = <<>> <=> L = 0)
  <2>1. copy \in [1 .. L -> Cells]
    BY <1>4
  <2> HIDE DEF L
  <2>2. copy \in Seq(Cells)
    BY <1>6, <2>1, SeqDef
  <2> QED
    BY <1>6, <2>1, <2>2, LenProperties, EmptySeq
<1> DEFINE st == Lists!ClonedStruct(q, copy)
<1>8. /\ st \in [head : Ends, size : Nat] /\ st.size = L /\ st.head = Nth(copy, 1)
  <2>1. CASE copy = <<>>
    <3>1. st = queue[q]
      BY <2>1 DEF Lists!ClonedStruct
    <3> QED
      BY <1>6, <1>7, <2>1, <3>1 DEF Nth
  <2>2. CASE copy # <<>>
    <3>1. st = [queue[q] EXCEPT !.head = copy[1]]
      BY <1>7, <2>2 DEF Lists!ClonedStruct
    <3>2. 1 \in 1 .. L
      BY <1>6, <1>7, <2>2
    <3>3. copy[1] \in Ends /\ Nth(copy, 1) = copy[1]
      BY <1>4, <1>7, <3>2 DEF Ends, Nth
    <3> HIDE DEF st, L
    <3> QED
      BY <1>6, <3>1, <3>3
  <2> QED
    BY <2>1, <2>2
<1> HIDE DEF st
<1>9. /\ queue' \in [Names -> [head : Ends, size : Nat]] /\ queue'[r] = st
      /\ \A p \in Names \ {r} : queue'[p] = queue[p]
  BY <1>2, <1>6, <1>8 DEF st
<1>10. \A p \in Names : Starts'[p] = IF p = r THEN Nth(copy, 1) ELSE Starts[p]
  BY <1>8, <1>9 DEF Starts
<1> DEFINE ch2 == Doubled(ch, r, copy)
<1>11. /\ Chained(heap', used', Starts', alive', ch2)
       /\ Keeps(heap', ch2) = [Contents EXCEPT ![r] = Contents[q]]
       /\ ch2[r] = copy
       /\ \A p \in Names \ {r} : ch2[p] = ch[p]
  <2>1. CopiesChain(ch, q, r, copy)
    BY <1>2, <1>3, <1>4, <1>5, <1>10 DEF CopiesChain
  <2> QED
    BY <2>1, CloneCopies
<1> HIDE DEF ch2
<1>12. ASSUME NEW p \in Names PROVE queue'[p].size = Len(ch2[p])
  <2>1. CASE p # r
    BY <1>9, <1>11, <2>1, ListMeets
  <2>2. CASE p = r
    BY <1>7, <1>8, <1>9, <1>11, <2>2
  <2> QED
    BY <2>1, <2>2
<1>13. ChainedBy(ch2)'
  BY <1>9, <1>11, <1>12, ListLeaves
<1>14. Contents' = [Contents EXCEPT ![r] = Contents[q]]
  BY <1>11, <1>13, ContentsWillBe
<1> QED
  BY <1>3, <1>13, <1>14 DEF Queue!Clone

-----------------------------------------------------------------------------
\* What InsertAt makes of s, n places on.
LEMMA InsertedAt ==
  ASSUME NEW S, NEW s \in Seq(S), NEW n \in 0 .. Len(s), NEW o \in S
  PROVE  LET r == Array!InsertAt(s, n + 1, o)
         IN  /\ r \in Seq(S) /\ Len(r) = Len(s) + 1
             /\ \A j \in 1 .. Len(s) + 1 :
                  r[j] = IF j <= n THEN s[j] ELSE IF j = n + 1 THEN o ELSE s[j - 1]
<1> DEFINE a == SubSeq(s, 1, n)
           b == SubSeq(s, n + 1, Len(s))
           m == Len(s)
<1>0. m \in Nat /\ n \in Nat /\ n <= m /\ \A j \in 1 .. m : s[j] \in S
  OBVIOUS
<1>1. a \in Seq(S) /\ Len(a) = n /\ \A j \in 1 .. n : a[j] = s[j]
  <2>1. \A j \in 1 .. n : s[j] \in S
    BY <1>0
  <2>2. /\ a \in Seq(S) /\ Len(a) = IF 1 <= n THEN n - 1 + 1 ELSE 0
        /\ \A j \in 1 .. n - 1 + 1 : a[j] = s[1 + j - 1]
    BY <2>1, SubSeqProperties
  <2> HIDE DEF a
  <2> QED
    BY <1>0, <2>2
<1>2. b \in Seq(S) /\ Len(b) = m - n /\ \A j \in 1 .. m - n : b[j] = s[n + j]
  <2>1. \A j \in n + 1 .. m : s[j] \in S
    BY <1>0
  <2>2. n + 1 \in Int /\ m \in Int
    BY <1>0
  <2>3. /\ b \in Seq(S) /\ Len(b) = IF n + 1 <= m THEN m - (n + 1) + 1 ELSE 0
        /\ \A j \in 1 .. m - (n + 1) + 1 : b[j] = s[(n + 1) + j - 1]
    BY <2>1, <2>2, SubSeqProperties
  <2> HIDE DEF b
  <2>4. \A j \in 1 .. m - n : j \in 1 .. m - (n + 1) + 1 /\ (n + 1) + j - 1 = n + j
    BY <1>0
  <2>5. Len(b) = m - n
    BY <1>0, <2>3
  <2> QED
    BY <2>3, <2>4, <2>5
<1> HIDE DEF a, b
<1>3. <<o>> \in Seq(S) /\ Len(<<o>>) = 1 /\ <<o>>[1] = o
  OBVIOUS
<1> DEFINE c == <<o>>
           ac == a \o c
<1> HIDE DEF c
<1>4. /\ ac \in Seq(S) /\ Len(ac) = n + 1
      /\ \A j \in 1 .. n + 1 : ac[j] = IF j <= n THEN s[j] ELSE o
  <2>1. /\ ac \in Seq(S) /\ Len(ac) = Len(a) + Len(c)
        /\ \A j \in 1 .. Len(a) + Len(c) :
             ac[j] = IF j <= Len(a) THEN a[j] ELSE c[j - Len(a)]
    BY <1>1, <1>3, ConcatProperties DEF c
  <2> HIDE DEF ac
  <2>2. ASSUME NEW j \in 1 .. n + 1 PROVE ac[j] = IF j <= n THEN s[j] ELSE o
    <3>1. CASE j <= n
      BY <1>0, <1>1, <1>3, <2>1, <3>1 DEF c
    <3>2. CASE ~ (j <= n)
      <4>1. j - n = 1 /\ c[1] = o
        BY <1>0, <3>2 DEF c
      <4> QED
        BY <1>0, <1>1, <1>3, <2>1, <3>2, <4>1 DEF c
    <3> QED
      BY <3>1, <3>2
  <2> QED
    BY <1>0, <1>1, <1>3, <2>1, <2>2 DEF c
<1> HIDE DEF ac
<1> DEFINE r == ac \o b
<1>5. /\ r \in Seq(S) /\ Len(r) = m + 1
      /\ \A j \in 1 .. m + 1 : r[j] = IF j <= n + 1 THEN ac[j] ELSE b[j - (n + 1)]
  <2>1. /\ r \in Seq(S) /\ Len(r) = Len(ac) + Len(b)
        /\ \A j \in 1 .. Len(ac) + Len(b) :
             r[j] = IF j <= Len(ac) THEN ac[j] ELSE b[j - Len(ac)]
    BY <1>2, <1>4, ConcatProperties
  <2> HIDE DEF r
  <2>2. Len(ac) + Len(b) = m + 1
    BY <1>0, <1>2, <1>4
  <2> QED
    BY <1>4, <2>1, <2>2
<1> HIDE DEF r
<1>6. ASSUME NEW j \in 1 .. m + 1
      PROVE  r[j] = IF j <= n THEN s[j] ELSE IF j = n + 1 THEN o ELSE s[j - 1]
  <2>1. CASE j <= n + 1
    BY <1>0, <1>4, <1>5, <2>1
  <2>2. CASE j > n + 1
    <3>1. /\ j - (n + 1) \in 1 .. m - n /\ n + (j - (n + 1)) = j - 1
          /\ ~ (j <= n + 1) /\ ~ (j <= n) /\ j # n + 1
      BY <1>0, <2>2
    <3>2. r[j] = b[j - (n + 1)]
      BY <1>5, <3>1
    <3>3. b[j - (n + 1)] = s[j - 1]
      BY <1>2, <3>1
    <3> QED
      BY <3>1, <3>2, <3>3
  <2> QED
    BY <1>0, <2>1, <2>2
<1>7. r = Array!InsertAt(s, n + 1, o)
  <2>1. (n + 1) - 1 = n
    BY <1>0
  <2> QED
    BY <2>1 DEF Array!InsertAt, r, ac, a, b, c
<1> QED
  BY <1>5, <1>6, <1>7

LEMMA InsertedIsSpliced ==
  ASSUME NEW S, NEW s \in Seq(S), NEW n \in 0 .. Len(s), NEW o \in S
  PROVE  Array!InsertAt(s, n + 1, o) = Spliced(s, n, o)
<1>0. /\ Spliced(s, n, o) \in Seq(S) /\ Len(Spliced(s, n, o)) = Len(s) + 1
      /\ \A k \in 1 .. Len(s) + 1 :
           Spliced(s, n, o)[k] = IF k <= n THEN s[k] ELSE IF k = n + 1 THEN o ELSE s[k - 1]
  BY SplicedSeq
<1> DEFINE r == Array!InsertAt(s, n + 1, o)
           t == Spliced(s, n, o)
<1>1. /\ r \in Seq(S) /\ Len(r) = Len(s) + 1
      /\ \A j \in 1 .. Len(s) + 1 :
           r[j] = IF j <= n THEN s[j] ELSE IF j = n + 1 THEN o ELSE s[j - 1]
  BY InsertedAt
<1>2. /\ t \in Seq(S) /\ Len(t) = Len(s) + 1
      /\ \A j \in 1 .. Len(s) + 1 :
           t[j] = IF j <= n THEN s[j] ELSE IF j = n + 1 THEN o ELSE s[j - 1]
  BY <1>0
<1> HIDE DEF r, t
<1>3. \A j \in 1 .. Len(r) : r[j] = t[j]
  BY <1>1, <1>2
<1>4. r = t
  BY <1>1, <1>2, <1>3, SeqEqual
<1> QED
  BY <1>4 DEF r, t

\* n is where the walk of insert stops, on finishing times.
StopsAt(s, o, f, n) == /\ n \in 0 .. Len(s)
                       /\ \A k \in 1 .. n : f[s[k]] <= f[o]
                       /\ n < Len(s) => f[s[n + 1]] > f[o]

LEMMA StopsOnce ==
  ASSUME NEW s \in Seq(Objects), NEW o \in Objects, NEW f \in [Objects -> Int]
  PROVE  /\ \E n \in 0 .. Len(s) : StopsAt(s, o, f, n)
         /\ \A m, n \in 0 .. Len(s) : StopsAt(s, o, f, m) /\ StopsAt(s, o, f, n) => m = n
<1> DEFINE L == Len(s)
           Halts == {n \in 0 .. L : n < L => f[s[n + 1]] > f[o]}
<1>0. L \in Nat /\ \A k \in 1 .. L : s[k] \in Objects /\ f[s[k]] \in Int
  BY LenProperties
<1>a. f[o] \in Int
  OBVIOUS
<1>1. PICK n \in Halts : \A m \in Halts : n <= m
  <2>1. Halts \in SUBSET Nat /\ L \in Halts
    BY <1>0
  <2> HIDE DEF Halts
  <2> QED
    BY <2>1, LeastNatural
<1>2. ASSUME NEW k \in 1 .. n PROVE f[s[k]] <= f[o]
  <2>1. /\ k - 1 \in 0 .. L /\ k - 1 < n /\ k - 1 < L /\ (k - 1) + 1 = k
        /\ k - 1 \in Nat /\ n \in Nat /\ k \in 1 .. L
    BY <1>0
  <2>2. k - 1 \notin Halts
    <3> HIDE DEF Halts
    <3> QED
      BY <1>1, <2>1
  <2>3. ~ (f[s[k]] > f[o])
    BY <2>1, <2>2
  <2> QED
    BY <1>0, <1>a, <2>1, <2>3
<1>3. StopsAt(s, o, f, n)
  BY <1>1, <1>2 DEF StopsAt
<1>4. ASSUME NEW x \in 0 .. L, NEW y \in 0 .. L, StopsAt(s, o, f, x), StopsAt(s, o, f, y), x < y
      PROVE  FALSE
  <2>1. x + 1 \in 1 .. y /\ x + 1 \in 1 .. L /\ x < L
    BY <1>0, <1>4
  <2>2. f[s[x + 1]] <= f[o] /\ f[s[x + 1]] > f[o]
    BY <1>4, <2>1 DEF StopsAt
  <2> QED
    BY <1>0, <1>a, <2>1, <2>2
<1>5. \A x, y \in 0 .. L : StopsAt(s, o, f, x) /\ StopsAt(s, o, f, y) => x = y
  <2> SUFFICES ASSUME NEW x \in 0 .. L, NEW y \in 0 .. L,
                      StopsAt(s, o, f, x), StopsAt(s, o, f, y)
               PROVE  x = y
    OBVIOUS
  <2>1. ~ (x < y) /\ ~ (y < x)
    BY <1>4
  <2> QED
    BY <1>0, <2>1
<1> QED
  BY <1>1, <1>3, <1>5

\* The cells that put of a list passes.
LEMMA PassesTo ==
  ASSUME class # "FIFO", NEW ch, ChainedBy(ch), NEW q \in Names, NEW o \in Objects
  PROVE  /\ Lists!Passed(q, o) \in 0 .. Len(ch[q])
         /\ class # "SortedList" => Lists!Passed(q, o) = 0
         /\ class = "SortedList" => Lists!Passed(q, o) = Array!Place(Contents[q], o, Lists!FT)
<1> DEFINE s == Contents[q]
           f == Lists!FT
           n == Lists!Passed(q, o)
           m == Array!Place(s, o, f)
<1>1. /\ s \in Seq(Objects) /\ Len(s) = Len(ch[q]) /\ Len(s) \in Nat
      /\ Lists!Chain(q) = ch[q] /\ Lists!Objs(q) = s
  <2>1. Chained(heap, used, Starts, alive, ch)
    BY ListMeets
  <2> QED
    BY <2>1, ListMeets, WholeIs, KeptSeq
<1>2. CASE class # "SortedList"
  BY <1>1, <1>2 DEF Lists!Passed
<1>3. CASE class = "SortedList"
  <2>1. f \in [Objects -> Int] /\ \A x \in Objects : f[x] \in Int
    <3>1. \A x \in Objects : x \div 2 \in Int
      BY CellsAssumption
    <3> QED
      BY <3>1 DEF Lists!FT
  <2>2. n = CHOOSE k \in 0 .. Len(s) : /\ \A j \in 1 .. k : ~Lists!Stops(o, s[j])
                                       /\ k < Len(s) => Lists!Stops(o, s[k + 1])
    BY <1>1, <1>3 DEF Lists!Passed
  <2>3. m = CHOOSE k \in 0 .. Len(s) : /\ \A j \in 1 .. k : f[s[j]] <= f[o]
                                       /\ k < Len(s) => f[s[k + 1]] > f[o]
    BY DEF Array!Place
  <2> HIDE DEF s, n, m
  <2>4. \A j \in 1 .. Len(s) : /\ ~Lists!Stops(o, s[j]) <=> f[s[j]] <= f[o]
                               /\ Lists!Stops(o, s[j]) <=> f[s[j]] > f[o]
    <3> SUFFICES ASSUME NEW j \in 1 .. Len(s)
                 PROVE  /\ ~Lists!Stops(o, s[j]) <=> f[s[j]] <= f[o]
                        /\ Lists!Stops(o, s[j]) <=> f[s[j]] > f[o]
      OBVIOUS
    <3>1. s[j] \in Objects /\ f[s[j]] \in Int /\ f[o] \in Int
      BY <1>1, <2>1
    <3>2. Lists!Stops(o, s[j]) <=> f[o] < f[s[j]]
      BY DEF Lists!Stops
    <3> HIDE DEF f
    <3> QED
      BY <3>1, <3>2
  <2> HIDE DEF f
  <2>5. ASSUME NEW k \in 0 .. Len(s)
        PROVE  StopsAt(s, o, f, k) <=> /\ \A j \in 1 .. k : ~Lists!Stops(o, s[j])
                                       /\ k < Len(s) => Lists!Stops(o, s[k + 1])
    <3>1. \A j \in 1 .. k : j \in 1 .. Len(s)
      BY <1>1
    <3>2. k < Len(s) => k + 1 \in 1 .. Len(s)
      BY <1>1
    <3> QED
      BY <2>4, <3>1, <3>2 DEF StopsAt
  <2>6. PICK k \in 0 .. Len(s) : StopsAt(s, o, f, k)
    BY <1>1, <2>1, StopsOnce
  <2>7. n \in 0 .. Len(s) /\ StopsAt(s, o, f, n)
    <3>1. /\ n \in 0 .. Len(s)
          /\ \A j \in 1 .. n : ~Lists!Stops(o, s[j])
          /\ n < Len(s) => Lists!Stops(o, s[n + 1])
      BY <2>2, <2>5, <2>6
    <3> QED
      BY <2>5, <3>1
  <2>8. m \in 0 .. Len(s) /\ StopsAt(s, o, f, m)
    <3>1. /\ m \in 0 .. Len(s)
          /\ \A j \in 1 .. m : f[s[j]] <= f[o]
          /\ m < Len(s) => f[s[m + 1]] > f[o]
      BY <2>3, <2>6 DEF StopsAt
    <3> QED
      BY <3>1 DEF StopsAt
  <2>9. n = m
    BY <1>1, <2>1, <2>7, <2>8, StopsOnce
  <2> QED
    BY <1>1, <1>3, <2>7, <2>9 DEF s, n, m, f
<1> QED
  BY <1>2, <1>3

\* What put of a list chains up: o, behind the cells it passes.
LEMMA ListPut ==
  ASSUME class # "FIFO", class' = class, NEW ch, ChainedBy(ch), NEW q \in Names,
         NEW o \in Objects, Lists!put(q, o)
  PROVE  /\ \E ch2 : ChainedBy(ch2)'
         /\ q \in alive /\ alive' = alive /\ answer' = answer
         /\ Contents' = PutIn(Contents, q, Lists!Passed(q, o), o)
<1> DEFINE s == ch[q]
           L == Len(s)
<1>0. PICK n : n \in 0 .. L /\ n = Lists!Passed(q, o)
  BY PassesTo
<1>1. PICK e \in Cells \ used :
        /\ used' = used \cup {e}
        /\ heap' = Lists!Hung(q, o, e, n)
        /\ queue' = [queue EXCEPT ![q] = [head |-> IF n = 0 THEN e ELSE queue[q].head,
                                          size |-> queue[q].size + 1]]
  BY <1>0 DEF Lists!put
<1>2. q \in alive /\ alive' = alive /\ answer' = answer
  BY DEF Lists!put
<1>3. /\ Chained(heap, used, Starts, alive, ch) /\ ch \in [Names -> Seq(Cells)]
      /\ heap \in [Cells -> Elem] /\ used \subseteq Cells
      /\ queue \in [Names -> [head : Ends, size : Nat]]
      /\ queue[q].size = L /\ L \in Nat /\ Lists!Chain(q) = s
      /\ \A k \in 1 .. L : s[k] \in used
  BY ListMeets
<1> DEFINE next == IF n < L THEN s[n + 1] ELSE NIL
           cell == [heap EXCEPT ![e] = [obj |-> o, next |-> next]]
<1>4. heap' = IF n = 0 THEN cell ELSE [cell EXCEPT ![s[n]].next = e]
  BY <1>1, <1>3 DEF Lists!Hung
<1>5. next = Nth(s, n + 1) /\ next \in Ends
  <2>1. n < L <=> n + 1 \in 1 .. L
    BY <1>0, <1>3
  <2>2. next = Nth(s, n + 1)
    BY <2>1 DEF Nth
  <2> QED
    BY <1>3, <2>1, <2>2 DEF Nth, Ends
<1>6. n > 0 => n \in 1 .. L /\ s[n] \in used /\ s[n] \in Cells /\ s[n] # e
  BY <1>0, <1>3
<1> HIDE DEF s, L, next
<1>7. /\ heap' \in [Cells -> Elem]
      /\ heap'[e] = [obj |-> o, next |-> next]
      /\ \A c \in Cells \ {e} :
           heap'[c] = IF n > 0 /\ c = s[n] THEN [obj |-> heap[c].obj, next |-> e] ELSE heap[c]
  <2>1. /\ cell \in [Cells -> Elem] /\ cell[e] = [obj |-> o, next |-> next]
        /\ \A c \in Cells \ {e} : cell[c] = heap[c]
    <3>1. [obj |-> o, next |-> next] \in Elem
      BY <1>5 DEF Elem, Ends
    <3> QED
      BY <1>3, <3>1
  <2> HIDE DEF cell
  <2>2. CASE n = 0
    BY <1>4, <2>1, <2>2
  <2>3. CASE n # 0
    <3>0. n > 0
      BY <1>0, <2>3
    <3>1. heap' = [cell EXCEPT ![s[n]].next = e] /\ s[n] \in Cells /\ s[n] # e
      BY <1>4, <1>6, <2>3, <3>0
    <3>2. cell[s[n]] = heap[s[n]] /\ heap[s[n]] \in Elem
      BY <1>3, <2>1, <3>1
    <3>3. [cell[s[n]] EXCEPT !.next = e] = [obj |-> heap[s[n]].obj, next |-> e]
      BY <3>2 DEF Elem
    <3>4. [obj |-> heap[s[n]].obj, next |-> e] \in Elem
      BY <3>2 DEF Elem
    <3> DEFINE new == [obj |-> heap[s[n]].obj, next |-> e]
    <3>5. heap' = [cell EXCEPT ![s[n]] = new]
      BY <3>1, <3>3
    <3>6. heap'[s[n]] = new /\ \A c \in Cells \ {s[n]} : heap'[c] = cell[c]
      BY <2>1, <3>1, <3>5
    <3>7. heap' \in [Cells -> Elem]
      BY <2>1, <3>1, <3>4, <3>5
    <3> QED
      BY <2>1, <3>0, <3>1, <3>6, <3>7
  <2> QED
    BY <2>2, <2>3
<1> HIDE DEF cell
<1>8. Hangs(heap, ch[q], n, e, o, heap')
  BY <1>5, <1>7 DEF Hangs, s
<1>9. /\ queue' \in [Names -> [head : Ends, size : Nat]]
      /\ queue'[q].size = L + 1 /\ queue'[q].head = IF n = 0 THEN e ELSE queue[q].head
      /\ \A r \in Names \ {q} : queue'[r] = queue[r]
  BY <1>1, <1>3 DEF Ends
<1>10. \A r \in Names : Starts'[r] = IF r = q THEN IF n = 0 THEN e ELSE Starts[q] ELSE Starts[r]
  BY <1>9 DEF Starts
<1> DEFINE ch2 == PutIn(ch, q, n, e)
<1>11. /\ Chained(heap', used \cup {e}, Starts', alive, ch2)
       /\ Keeps(heap', ch2) = PutIn(Keeps(heap, ch), q, n, o)
       /\ Len(ch2[q]) = Len(ch[q]) + 1
  <2>1. Puts(heap, used, Starts, alive, ch, q, n, e, o, heap', Starts')
    BY <1>0, <1>2, <1>3, <1>8, <1>10 DEF Puts, s, L
  <2> QED
    BY <2>1, PutChained
<1>12. \A r \in Names \ {q} : ch2[r] = ch[r]
  BY <1>3 DEF PutIn
<1> HIDE DEF ch2
<1>13. ASSUME NEW r \in Names PROVE queue'[r].size = Len(ch2[r])
  <2>1. CASE r = q
    BY <1>9, <1>11, <2>1 DEF s, L
  <2>2. CASE r # q
    BY <1>9, <1>12, <2>2, ListMeets
  <2> QED
    BY <2>1, <2>2
<1>14. ChainedBy(ch2)'
  <2>1. Chained(heap', used', Starts', alive', ch2)
    BY <1>1, <1>2, <1>11
  <2>2. class' # "FIFO" /\ queue' \in [Names -> [head : Ends, size : Nat]]
    BY <1>9
  <2> QED
    BY <1>13, <2>1, <2>2, ListLeaves
<1>15. Contents' = PutIn(Contents, q, n, o)
  <2>1. Contents = Keeps(heap, ch)
    BY ContentsAre
  <2>2. Contents' = Keeps(heap', ch2)
    BY <1>14, ContentsWillBe
  <2> QED
    BY <1>11, <2>1, <2>2
<1> QED
  BY <1>0, <1>2, <1>14, <1>15

LEMMA ContentsSeq ==
  ASSUME NEW ch, ChainedBy(ch), NEW q \in Names
  PROVE  Contents[q] \in Seq(Objects)
<1>1. Chained(heap, used, Starts, alive, ch)
  BY DEF ChainedBy
<1> QED
  BY <1>1, ContentsAre, KeptSeq

LEMMA StackPut ==
  ASSUME class \in {"Stack", "LinkedList"}, class' = class, NEW ch, ChainedBy(ch),
         NEW q \in Names, NEW o \in Objects, Lists!put(q, o)
  PROVE  Stack!Put(q, o)
<1>1. /\ q \in alive /\ alive' = alive /\ answer' = answer
      /\ Contents' = PutIn(Contents, q, Lists!Passed(q, o), o)
  BY ListPut
<1>2. Lists!Passed(q, o) = 0
  BY PassesTo
<1>3. Spliced(Contents[q], 0, o) = <<o>> \o Contents[q]
  BY ContentsSeq, SplicedInFront
<1>4. Contents' = [Contents EXCEPT ![q] = <<o>> \o Contents[q]]
  BY <1>1, <1>2, <1>3 DEF PutIn
<1> QED
  BY <1>1, <1>4 DEF Stack!Put, First

LEMMA SortedPut ==
  ASSUME class = "SortedList", class' = class, NEW ch, ChainedBy(ch),
         NEW q \in Names, NEW o \in Objects, Lists!put(q, o)
  PROVE  Sorted!Put(q, o)
<1> DEFINE n == Lists!Passed(q, o)
<1>1. /\ q \in alive /\ alive' = alive /\ answer' = answer
      /\ Contents' = PutIn(Contents, q, n, o)
  BY ListPut
<1>2. n \in 0 .. Len(ch[q]) /\ n = Array!Place(Contents[q], o, Lists!FT)
  BY PassesTo
<1>3. Contents[q] \in Seq(Objects) /\ n \in 0 .. Len(Contents[q])
  <2>1. Chained(heap, used, Starts, alive, ch)
    BY DEF ChainedBy
  <2> QED
    BY <1>2, <2>1, ContentsAre, KeptSeq
<1> HIDE DEF n
<1>4. Array!InsertAt(Contents[q], n + 1, o) = Spliced(Contents[q], n, o)
  BY <1>3, InsertedIsSpliced
<1>5. ByTime(Contents[q], o) = Spliced(Contents[q], n, o)
  BY <1>2, <1>4 DEF ByTime, Array!Inserted
<1>6. Contents' = [Contents EXCEPT ![q] = ByTime(Contents[q], o)]
  BY <1>1, <1>5 DEF PutIn
<1> QED
  BY <1>1, <1>6 DEF Sorted!Put

-----------------------------------------------------------------------------
\* At first all chains are empty.
LEMMA InitChainInv == CInit => ChainInv /\ (class \in ChainClasses => Queue!QInit)
<1> SUFFICES ASSUME CInit, class \in ChainClasses PROVE (\E ch : ChainedBy(ch)) /\ Queue!QInit
  BY DEF ChainInv
<1> DEFINE ch == [q \in Names |-> <<>>]
<1>1. \/ class = "FIFO" /\ Fifo!Init
      \/ class # "FIFO" /\ Lists!Init
  BY DEF CInit, ChainClasses, Lists!Init
<1>2. /\ heap = [c \in Cells |-> Blank] /\ used = {} /\ alive = {} /\ answer = <<NIL>>
      /\ class = "FIFO" => queue = [q \in Names |-> [in |-> NIL, out |-> NIL, size |-> 0]]
      /\ class # "FIFO" => queue = [q \in Names |-> [head |-> NIL, size |-> 0]]
  BY <1>1, SameCells DEF Fifo!Init, Lists!Init
<1>3. Blank \in Elem
  BY DEF Blank, Elem
<1>4. ch \in [Names -> Seq(Cells)] /\ \A q \in Names : ch[q] = <<>> /\ Len(ch[q]) = 0
  BY EmptySeq
<1>5. \A q \in Names : Starts[q] = NIL
  BY <1>2 DEF Starts
<1> HIDE DEF ch
<1>6. ASSUME NEW q \in Names PROVE Linked(heap, Starts[q], ch[q])
  BY <1>4, <1>5 DEF Linked, Nth
<1>7. Chained(heap, used, Starts, alive, ch)
  <2>1. heap \in [Cells -> Elem]
    BY <1>2, <1>3
  <2>2. \A q \in Names : \A k : k \notin 1 .. Len(ch[q])
    BY <1>4
  <2> QED
    BY <1>2, <1>4, <1>6, <2>1, <2>2 DEF Chained
<1>8. Structs(ch)
  BY <1>2, <1>4 DEF Structs, Ends
<1>9. ChainedBy(ch)
  BY <1>7, <1>8 DEF ChainedBy
<1>10. Contents = [q \in Names |-> <<>>]
  BY <1>2 DEF Contents
<1> QED
  BY <1>2, <1>9, <1>10 DEF Queue!QInit

\* A step of FIFO, and of the lists.
LEMMA FifoSteps ==
  ASSUME class = "FIFO", class' = class, NEW ch, ChainedBy(ch), Fifo!Next
  PROVE  (\E ch2 : ChainedBy(ch2)') /\ Queue!QNext
<1>1. PICK q \in Names : \/ Fifo!new(q) \/ Fifo!get(q) \/ Fifo!peek(q) \/ Fifo!apply(q)
                         \/ Fifo!delete(q) \/ \E o \in Objects : Fifo!put(q, o)
                         \/ \E r \in Names : Fifo!clone(q, r)
  BY DEF Fifo!Next
<1>2. CASE Fifo!new(q)
  BY <1>2, FifoNew DEF Queue!QNext
<1>3. CASE Fifo!get(q)
  BY <1>3, FifoGet DEF Queue!QNext
<1>4. CASE Fifo!peek(q)
  BY <1>4, FifoPeek DEF Queue!QNext
<1>5. CASE Fifo!apply(q)
  BY <1>5, FifoApply DEF Queue!QNext
<1>6. CASE Fifo!delete(q)
  BY <1>6, FifoDelete DEF Queue!QNext
<1>7. ASSUME NEW o \in Objects, Fifo!put(q, o) PROVE (\E ch2 : ChainedBy(ch2)') /\ Queue!QNext
  BY <1>7, FifoPut DEF Queue!QNext
<1>8. ASSUME NEW r \in Names, Fifo!clone(q, r) PROVE (\E ch2 : ChainedBy(ch2)') /\ Queue!QNext
  BY <1>8, FifoClone DEF Queue!QNext
<1> QED
  BY <1>1, <1>2, <1>3, <1>4, <1>5, <1>6, <1>7, <1>8

LEMMA ListSteps ==
  ASSUME class \in ChainClasses \ {"FIFO"}, class' = class, NEW ch, ChainedBy(ch), Lists!Next
  PROVE  /\ \E ch2 : ChainedBy(ch2)'
         /\ class \in {"Stack", "LinkedList"} => Stack!QNext
         /\ class = "SortedList" => Sorted!QNext
<1>0. class # "FIFO" /\ (class \in {"Stack", "LinkedList"} \/ class = "SortedList")
  BY DEF ChainClasses
<1>a. ASSUME NEW q \in Names,
             \/ Queue!New(q) \/ Queue!Get(q) \/ Queue!Peek(q) \/ Queue!Apply(q) \/ Queue!Delete(q)
             \/ \E r \in Names : Queue!Clone(q, r)
      PROVE  Stack!QNext /\ Sorted!QNext
  <2>1. \/ Stack!New(q) \/ Stack!Get(q) \/ Stack!Peek(q) \/ Stack!Apply(q) \/ Stack!Delete(q)
        \/ \E r \in Names : Stack!Clone(q, r)
    BY <1>a DEF Queue!New, Queue!Get, Queue!Peek, Queue!Apply, Queue!Delete, Queue!Clone,
                Queue!Front, Stack!New, Stack!Get, Stack!Peek, Stack!Apply, Stack!Delete,
                Stack!Clone, Stack!Front
  <2>2. \/ Sorted!New(q) \/ Sorted!Get(q) \/ Sorted!Peek(q) \/ Sorted!Apply(q)
        \/ Sorted!Delete(q) \/ \E r \in Names : Sorted!Clone(q, r)
    BY <1>a DEF Queue!New, Queue!Get, Queue!Peek, Queue!Apply, Queue!Delete, Queue!Clone,
                Queue!Front, Sorted!New, Sorted!Get, Sorted!Peek, Sorted!Apply, Sorted!Delete,
                Sorted!Clone, Sorted!Front
  <2> QED
    BY <2>1, <2>2 DEF Stack!QNext, Sorted!QNext
<1>1. PICK q \in Names : \/ Lists!new(q) \/ Lists!get(q) \/ Lists!peek(q) \/ Lists!apply(q)
                         \/ Lists!delete(q) \/ \E o \in Objects : Lists!put(q, o)
                         \/ \E r \in Names : Lists!clone(q, r)
  BY DEF Lists!Next
<1>2. CASE Lists!new(q)
  BY <1>0, <1>2, <1>a, ListNew
<1>3. CASE Lists!get(q)
  BY <1>0, <1>3, <1>a, ListGet
<1>4. CASE Lists!peek(q)
  BY <1>0, <1>4, <1>a, ListPeek
<1>5. CASE Lists!apply(q)
  BY <1>0, <1>5, <1>a, ListApply
<1>6. CASE Lists!delete(q)
  BY <1>0, <1>6, <1>a, ListDelete
<1>7. ASSUME NEW o \in Objects, Lists!put(q, o)
      PROVE  /\ \E ch2 : ChainedBy(ch2)'
             /\ class \in {"Stack", "LinkedList"} => Stack!QNext
             /\ class = "SortedList" => Sorted!QNext
  <2>1. \E ch2 : ChainedBy(ch2)'
    BY <1>0, <1>7, ListPut
  <2>2. class \in {"Stack", "LinkedList"} => Stack!QNext
    BY <1>7, StackPut DEF Stack!QNext
  <2>3. class = "SortedList" => Sorted!QNext
    BY <1>7, SortedPut DEF Sorted!QNext
  <2> QED
    BY <2>1, <2>2, <2>3
<1>8. ASSUME NEW r \in Names, Lists!clone(q, r)
      PROVE  (\E ch2 : ChainedBy(ch2)') /\ Stack!QNext /\ Sorted!QNext
  BY <1>0, <1>8, <1>a, ListClone
<1> QED
  BY <1>1, <1>2, <1>3, <1>4, <1>5, <1>6, <1>7, <1>8

\* What KeepOrder says of a step.
InOrder == /\ class = "FIFO" => [Queue!QNext]_(Queue!qvars)
           /\ class \in {"Stack", "LinkedList"} => [Stack!QNext]_(Stack!qvars)
           /\ class = "SortedList" => [Sorted!QNext]_(Sorted!qvars)

LEMMA NextChainInv == ChainInv /\ [CNext]_cvars => ChainInv' /\ InOrder
<1> SUFFICES ASSUME ChainInv, [CNext]_cvars PROVE ChainInv' /\ InOrder
  OBVIOUS
<1>1. CASE class = "FIFO" /\ Fifo!Next /\ UNCHANGED <<class, array>>
  <2>1. class' = class /\ class \in ChainClasses
    BY <1>1 DEF ChainClasses
  <2>2. PICK ch : ChainedBy(ch)
    BY <2>1 DEF ChainInv
  <2>3. (\E ch2 : ChainedBy(ch2)') /\ Queue!QNext
    BY <1>1, <2>1, <2>2, FifoSteps
  <2> QED
    BY <1>1, <2>3 DEF ChainInv, InOrder
<1>2. CASE class \in ChainClasses \ {"FIFO"} /\ Lists!Next /\ UNCHANGED array
  <2>1. class' = class /\ class \in ChainClasses \ {"FIFO"}
    BY <1>2 DEF Lists!Next
  <2>2. PICK ch : ChainedBy(ch)
    BY <2>1 DEF ChainInv
  <2>3. /\ \E ch2 : ChainedBy(ch2)'
        /\ class \in {"Stack", "LinkedList"} => Stack!QNext
        /\ class = "SortedList" => Sorted!QNext
    BY <1>2, <2>1, <2>2, ListSteps
  <2> QED
    BY <2>1, <2>3 DEF ChainInv, InOrder
<1>3. CASE class = "Heap" /\ UNCHANGED <<class, heap, used, queue, alive>>
  <2>1. class' = class /\ class \notin ChainClasses
    BY <1>3 DEF ChainClasses
  <2> QED
    BY <1>3, <2>1 DEF ChainInv, InOrder
<1>4. CASE UNCHANGED cvars
  <2>1. UNCHANGED <<class, heap, used, queue, alive, answer>>
    BY <1>4 DEF cvars
  <2>2. ASSUME NEW ch, ChainedBy(ch) PROVE ChainedBy(ch)' /\ Contents' = Contents
    BY <2>1, <2>2, Unmoved
  <2>3. CASE class \in ChainClasses
    <3>1. PICK ch : ChainedBy(ch)
      BY <2>3 DEF ChainInv
    <3> QED
      BY <2>1, <2>2, <3>1 DEF ChainInv, InOrder, Queue!qvars, Stack!qvars, Sorted!qvars
  <2>4. CASE class \notin ChainClasses
    BY <2>1, <2>4 DEF ChainInv, InOrder, ChainClasses
  <2> QED
    BY <2>3, <2>4
<1> QED
  BY <1>1, <1>2, <1>3, <1>4 DEF CNext

LEMMA ChainInvIsSound == ChainInv => ChainsAreSound
<1> SUFFICES ASSUME ChainInv, class \in ChainClasses
             PROVE  /\ used = UNION {CellsOf(q) : q \in alive}
                    /\ \A q, r \in alive : q # r => CellsOf(q) \cap CellsOf(r) = {}
                    /\ \A q \in alive :
                         /\ queue[q].size = Len(Chain(q))
                         /\ class = "FIFO" /\ Chain(q) # <<>> =>
                              queue[q].in = Chain(q)[Len(Chain(q))]
  BY DEF ChainsAreSound
<1>1. PICK ch : ChainedBy(ch)
  BY DEF ChainInv
<1>2. /\ Chained(heap, used, Starts, alive, ch) /\ Structs(ch)
      /\ used \subseteq Cells /\ alive \subseteq Names
  BY <1>1 DEF ChainedBy, Chained
<1>3. \A q \in Names : Chain(q) = ch[q] /\ CellsOf(q) = {ch[q][k] : k \in 1 .. Len(ch[q])}
  BY <1>1, ChainIs DEF CellsOf
<1>4. used = UNION {CellsOf(q) : q \in alive}
  <2>1. ASSUME NEW c \in used PROVE \E q \in alive : c \in CellsOf(q)
    <3>1. PICK q \in Names : \E k \in 1 .. Len(ch[q]) : ch[q][k] = c
      BY <1>2 DEF Chained
    <3>2. q \in alive
      <4>1. ch[q] # <<>>
        BY <3>1, EmptySeq
      <4> QED
        BY <1>2, <4>1 DEF Chained
    <3> QED
      BY <1>3, <3>1, <3>2
  <2>2. ASSUME NEW q \in alive, NEW c \in CellsOf(q) PROVE c \in used
    <3>1. PICK k \in 1 .. Len(ch[q]) : ch[q][k] = c
      BY <1>2, <1>3
    <3> QED
      BY <1>2, <3>1, ChainCells
  <2> QED
    BY <2>1, <2>2
<1>5. ASSUME NEW q \in alive, NEW r \in alive, q # r PROVE CellsOf(q) \cap CellsOf(r) = {}
  <2>1. \A j \in 1 .. Len(ch[q]), k \in 1 .. Len(ch[r]) : ch[q][j] # ch[r][k]
    BY <1>2, <1>5 DEF Chained
  <2> QED
    BY <1>2, <1>3, <2>1
<1>6. ASSUME NEW q \in alive
      PROVE  /\ queue[q].size = Len(Chain(q))
             /\ class = "FIFO" /\ Chain(q) # <<>> => queue[q].in = Chain(q)[Len(Chain(q))]
  BY <1>2, <1>3 DEF Structs
<1> QED
  BY <1>4, <1>5, <1>6

(* The chains of the container classes partition the cells in use, and      *)
(* size() and FIFO's pointer to its last cell agree with them: through put, *)
(* get, clone and delete of any number of containers that share the heap.   *)
THEOREM ChainsAlwaysSound == CSpec => []ChainsAreSound
<1>1. CInit => ChainInv
  BY InitChainInv
<1>2. ChainInv /\ [CNext]_cvars => ChainInv'
  BY NextChainInv
<1>3. ChainInv => ChainsAreSound
  BY ChainInvIsSound
<1> QED
  BY <1>1, <1>2, <1>3, PTL DEF CSpec

(* Every class implements its abstract queue, stack or list in order of     *)
(* time: each step of its functions on cells is a step of that sequence.    *)
THEOREM OrderAlwaysKept == CSpec => KeepOrder
<1>1. CInit => ChainInv /\ (class \in ChainClasses => Queue!QInit)
  BY InitChainInv
<1>2. ChainInv /\ [CNext]_cvars => ChainInv' /\ [InOrder]_cvars
  BY NextChainInv
<1>3. KeepOrder <=> (class \in ChainClasses => Queue!QInit) /\ [][InOrder]_cvars
  BY DEF KeepOrder, InOrder
<1> QED
  BY <1>1, <1>2, <1>3, PTL DEF CSpec

-----------------------------------------------------------------------------
(***************************************************************************)
(* The heap.  What holds in front of a loop and is kept by each round      *)
(* holds behind it: of put's loop, and of get's.                           *)
(***************************************************************************)
Appended(a, n, x) == [t \in 0 .. n |-> IF t = n THEN x ELSE a[t]]

LEMMA PutRounds ==
  ASSUME NEW n \in Nat, NEW a, NEW x, NEW k, NEW T,
         [a |-> Appended(a, n, x), i |-> n] \in T[0],
         \A r \in 1 .. n : \A s \in T[r - 1] : Array!Raised(k, x, s) \in T[r]
  PROVE  \E e \in T[n] : Array!Put(k, a, n, x) = e.a
<1> DEFINE start == [a |-> Appended(a, n, x), i |-> n]
           f == [r \in 1 .. n |-> [s \in T[r - 1] |-> Array!Raised(k, x, s)]]
           H(g) == [r \in 0 .. n |-> IF r = 0 THEN start ELSE Array!Raised(k, x, g[r - 1])]
           Up == CHOOSE g : g = H(g)
<1>1. \A r \in 1 .. n : r - 1 \in 0 .. n /\ r \in 0 .. n
  OBVIOUS
<1>2. \A r \in 1 .. n : \A s \in T[r - 1] :
        f[r][s] = Array!Raised(k, x, s) /\ f[r][s] \in T[r]
  OBVIOUS
<1>3. start \in T[0]
  OBVIOUS
<1>4. PICK g : Rounds(g, n, start, f) /\ \A r \in 0 .. n : g[r] \in T[r]
  <2> HIDE DEF f, start
  <2> QED
    BY <1>2, <1>3, Iterates
<1>5. g = H(g)
  <2> HIDE DEF f, start
  <2>1. \A r \in 0 .. n : (IF r = 0 THEN start ELSE f[r][g[r - 1]]) =
                          (IF r = 0 THEN start ELSE Array!Raised(k, x, g[r - 1]))
    BY <1>1, <1>2, <1>4
  <2>2. [r \in 0 .. n |-> IF r = 0 THEN start ELSE f[r][g[r - 1]]] = H(g)
    BY <2>1
  <2> QED
    BY <1>4, <2>2 DEF Rounds
<1>6. Array!Put(k, a, n, x) = Up[n].a
  BY DEF Array!Put, Appended
<1>7. Up = H(Up)
  <2> HIDE DEF H
  <2> QED
    BY <1>5
<1>8. \A r \in 0 .. n : Up[r] \in T[r]
  <2> DEFINE Bad == {r \in 0 .. n : Up[r] \notin T[r]}
  <2> SUFFICES ASSUME Bad # {} PROVE FALSE
    OBVIOUS
  <2> HIDE DEF Up, start, f
  <2>1. PICK l \in Bad : \A r \in Bad : l <= r
    <3>1. Bad \in SUBSET Nat
      OBVIOUS
    <3> HIDE DEF Bad
    <3> QED
      BY <3>1, LeastNatural
  <2>2. \A r \in 0 .. n : Up[r] = H(Up)[r]
    BY <1>7
  <2>3. l \in 1 .. n /\ l - 1 \in 0 .. n /\ l - 1 < l
    <3>1. l # 0
      BY <1>3, <2>1, <2>2
    <3> QED
      BY <2>1, <3>1
  <2>4. l - 1 \notin Bad
    <3> HIDE DEF Bad
    <3> QED
      BY <2>1, <2>3
  <2>5. Up[l] = Array!Raised(k, x, Up[l - 1])
    BY <2>1, <2>2, <2>3
  <2> QED
    BY <1>2, <2>1, <2>3, <2>4, <2>5
<1> HIDE DEF Up
<1> QED
  BY <1>6, <1>8

\* The array in front of get's loop, and behind it.
Fronted(a, m) == [t \in 0 .. m |-> IF t = 0 THEN a[m] ELSE a[t]]

Settled(k, m, end) ==
  IF end.i < m /\ Array!Before(k, end.a[end.i], end.a[Array!Parent(end.i)])
  THEN Array!Exchanged(end.a, Array!Parent(end.i), end.i) ELSE end.a

LEMMA SiftRounds ==
  ASSUME NEW n \in Nat, NEW a, NEW k, NEW beyond, NEW T,
         [a |-> Fronted(a, n - 1), i |-> 1, done |-> FALSE, strayed |-> FALSE] \in T[0],
         \A r \in 1 .. n : \A s \in T[r - 1] : Array!Lowered(k, n - 1, beyond, s) \in T[r]
  PROVE  \E e \in T[n] :
           Array!Sifted(k, a, n, beyond) =
             [a |-> [t \in 0 .. n - 2 |-> Settled(k, n - 1, e)[t]], strayed |-> e.strayed]
<1> DEFINE m == n - 1
           start == [a |-> Fronted(a, m), i |-> 1, done |-> FALSE, strayed |-> FALSE]
           f == [r \in 1 .. n |-> [s \in T[r - 1] |-> Array!Lowered(k, m, beyond, s)]]
           H(g) == [r \in 0 .. n |-> IF r = 0 THEN start
                                     ELSE Array!Lowered(k, m, beyond, g[r - 1])]
           Down == CHOOSE g : g = H(g)
           end  == Down[n]
           last == IF end.i < m /\ Array!Before(k, end.a[end.i], end.a[Array!Parent(end.i)])
                   THEN Array!Exchanged(end.a, Array!Parent(end.i), end.i) ELSE end.a
<1>1. \A r \in 1 .. n : r - 1 \in 0 .. n /\ r \in 0 .. n
  OBVIOUS
<1>2. \A r \in 1 .. n : \A s \in T[r - 1] :
        f[r][s] = Array!Lowered(k, m, beyond, s) /\ f[r][s] \in T[r]
  OBVIOUS
<1>3. start \in T[0]
  OBVIOUS
<1>4. PICK g : Rounds(g, n, start, f) /\ \A r \in 0 .. n : g[r] \in T[r]
  <2> HIDE DEF f, start, m
  <2> QED
    BY <1>2, <1>3, Iterates
<1>5. g = H(g)
  <2> HIDE DEF f, start, m
  <2>1. \A r \in 0 .. n : (IF r = 0 THEN start ELSE f[r][g[r - 1]]) =
                          (IF r = 0 THEN start ELSE Array!Lowered(k, m, beyond, g[r - 1]))
    BY <1>1, <1>2, <1>4
  <2>2. [r \in 0 .. n |-> IF r = 0 THEN start ELSE f[r][g[r - 1]]] = H(g)
    BY <2>1
  <2> QED
    BY <1>4, <2>2 DEF Rounds
<1>6. Array!Sifted(k, a, n, beyond) =
        [a |-> [t \in 0 .. m - 1 |-> last[t]], strayed |-> end.strayed]
  BY DEF Array!Sifted, Fronted
<1>7. Down = H(Down)
  <2> HIDE DEF H
  <2> QED
    BY <1>5
<1>8. \A r \in 0 .. n : Down[r] \in T[r]
  <2> DEFINE Bad == {r \in 0 .. n : Down[r] \notin T[r]}
  <2> SUFFICES ASSUME Bad # {} PROVE FALSE
    OBVIOUS
  <2> HIDE DEF Down, start, f, m
  <2>1. PICK l \in Bad : \A r \in Bad : l <= r
    <3>1. Bad \in SUBSET Nat
      OBVIOUS
    <3> HIDE DEF Bad
    <3> QED
      BY <3>1, LeastNatural
  <2>2. \A r \in 0 .. n : Down[r] = H(Down)[r]
    BY <1>7
  <2>3. l \in 1 .. n /\ l - 1 \in 0 .. n /\ l - 1 < l
    <3>1. l # 0
      BY <1>3, <2>1, <2>2
    <3> QED
      BY <2>1, <3>1
  <2>4. l - 1 \notin Bad
    <3> HIDE DEF Bad
    <3> QED
      BY <2>1, <2>3
  <2>5. Down[l] = Array!Lowered(k, m, beyond, Down[l - 1])
    BY <2>1, <2>2, <2>3
  <2> QED
    BY <1>2, <2>1, <2>3, <2>4, <2>5
<1> HIDE DEF Down
<1>9. last = Settled(k, m, end) /\ m - 1 = n - 2 /\ end \in T[n]
  BY <1>8 DEF Settled
<1> HIDE DEF last, end, m
<1>10. Array!Sifted(k, a, n, beyond) =
         [a |-> [t \in 0 .. n - 2 |-> Settled(k, m, end)[t]], strayed |-> end.strayed]
  BY <1>6, <1>9
<1> QED
  BY <1>9, <1>10 DEF m

-----------------------------------------------------------------------------
\* How often o is in the places S of a.
Times(a, S, o) == Cardinality({t \in S : a[t] = o})

\* b holds in these places what a does, each element as often.
SameTimes(b, a, S) == \A o : Times(b, S, o) = Times(a, S, o)

LEMMA MovedCard ==
  ASSUME NEW X, IsFiniteSet(X), NEW t \in X, NEW j, j \notin X
  PROVE  Cardinality((X \ {t}) \cup {j}) = Cardinality(X)
<1>1. IsFiniteSet(X \ {t}) /\ Cardinality(X \ {t}) = Cardinality(X) - 1
  BY FS_RemoveElement
<1>2. Cardinality((X \ {t}) \cup {j}) = Cardinality(X \ {t}) + 1
  BY <1>1, FS_AddElement
<1>3. Cardinality(X) \in Nat
  BY FS_CardinalityType
<1> QED
  BY <1>1, <1>2, <1>3

\* b is a with the places t and j exchanged.
Crossed(b, a, D, t, j) ==
  \A l \in D : b[l] = IF l = j THEN a[t] ELSE IF l = t THEN a[j] ELSE a[l]

LEMMA ExchangedAt ==
  ASSUME NEW D, NEW E, NEW a \in [D -> E], NEW t \in D, NEW j \in D
  PROVE  /\ Array!Exchanged(a, t, j) \in [D -> E]
         /\ Crossed(Array!Exchanged(a, t, j), a, D, t, j)
  BY DEF Array!Exchanged, Crossed

\* An exchange of two places loses nothing.
LEMMA ExchangedTimes ==
  ASSUME NEW D, NEW E, NEW a \in [D -> E], NEW S \in SUBSET D, IsFiniteSet(S),
         NEW t \in S, NEW j \in S
  PROVE  SameTimes(Array!Exchanged(a, t, j), a, S)
<1> SUFFICES ASSUME NEW o PROVE Times(Array!Exchanged(a, t, j), S, o) = Times(a, S, o)
  BY DEF SameTimes
<1> DEFINE b == Array!Exchanged(a, t, j)
           X == {l \in S : a[l] = o}
           Y == {l \in S : b[l] = o}
<1>0. Crossed(b, a, D, t, j)
  <2>1. t \in D /\ j \in D
    OBVIOUS
  <2> QED
    BY <2>1, ExchangedAt
<1>1. b[t] = a[j] /\ b[j] = a[t] /\ \A l \in S : l # t /\ l # j => b[l] = a[l]
  BY <1>0 DEF Crossed
<1> HIDE DEF b
<1>2. IsFiniteSet(X)
  BY FS_Subset
<1>3. CASE a[t] = o /\ a[j] # o
  <2>1. Y = (X \ {t}) \cup {j} /\ t \in X /\ j \notin X
    BY <1>1, <1>3
  <2> HIDE DEF X, Y
  <2>2. Cardinality(Y) = Cardinality(X)
    BY <1>2, <2>1, MovedCard
  <2> QED
    BY <2>2 DEF X, Y, Times, b
<1>4. CASE a[t] # o /\ a[j] = o
  <2>1. Y = (X \ {j}) \cup {t} /\ j \in X /\ t \notin X
    BY <1>1, <1>4
  <2> HIDE DEF X, Y
  <2>2. Cardinality(Y) = Cardinality(X)
    BY <1>2, <2>1, MovedCard
  <2> QED
    BY <2>2 DEF X, Y, Times, b
<1>5. CASE (a[t] = o) = (a[j] = o)
  <2>1. Y = X
    BY <1>1, <1>5
  <2> QED
    BY <2>1 DEF Times, b
<1> QED
  BY <1>3, <1>4, <1>5

LEMMA PlacesFinite ==
  ASSUME NEW l \in Int, NEW a, NEW o
  PROVE  /\ IsFiniteSet({t \in 0 .. l : a[t] = o})
         /\ Cardinality({t \in 0 .. l : a[t] = o}) \in Nat
<1> DEFINE X == {t \in 0 .. l : a[t] = o}
<1>1. IsFiniteSet(0 .. l) /\ X \in SUBSET (0 .. l)
  BY FS_Interval
<1> HIDE DEF X
<1>2. IsFiniteSet(X)
  BY <1>1, FS_Subset
<1>3. Cardinality(X) \in Nat
  BY <1>2, FS_CardinalityType
<1> QED
  BY <1>2, <1>3 DEF X

LEMMA TimesNatural ==
  ASSUME NEW l \in Int, NEW a, NEW o
  PROVE  Times(a, 0 .. l, o) \in Nat
  BY PlacesFinite DEF Times

LEMMA AppendedTimes ==
  ASSUME NEW n \in Nat, NEW a, NEW x, NEW o
  PROVE  Times(Appended(a, n, x), 0 .. n, o) =
           Times(a, 0 .. n - 1, o) + (IF o = x THEN 1 ELSE 0)
<1> DEFINE X == {l \in 0 .. n - 1 : a[l] = o}
           Y == {l \in 0 .. n : Appended(a, n, x)[l] = o}
<1>1. IsFiniteSet(X) /\ Cardinality(X) \in Nat
  BY PlacesFinite
<1>2. \A l \in 0 .. n : Appended(a, n, x)[l] = IF l = n THEN x ELSE a[l]
  BY DEF Appended
<1>3. 0 .. n = (0 .. n - 1) \cup {n} /\ n \notin 0 .. n - 1
  OBVIOUS
<1>4. CASE o = x
  <2>1. Y = X \cup {n} /\ n \notin X
    BY <1>2, <1>3, <1>4
  <2> HIDE DEF X, Y
  <2>2. Cardinality(Y) = Cardinality(X) + 1
    BY <1>1, <2>1, FS_AddElement
  <2> QED
    BY <1>4, <2>2 DEF X, Y, Times
<1>5. CASE o # x
  <2>1. Y = X
    BY <1>2, <1>3, <1>5
  <2>2. /\ Times(Appended(a, n, x), 0 .. n, o) = Cardinality(Y)
        /\ Times(a, 0 .. n - 1, o) = Cardinality(X)
    BY DEF Times
  <2> HIDE DEF X, Y
  <2> QED
    BY <1>1, <1>5, <2>1, <2>2
<1> QED
  BY <1>4, <1>5

LEMMA FrontedTimes ==
  ASSUME NEW m \in Nat, NEW a, NEW o
  PROVE  Times(Fronted(a, m), 0 .. m - 1, o) =
           Times(a, 0 .. m, o) - (IF o = a[0] THEN 1 ELSE 0)
<1> DEFINE X == {l \in 0 .. m : a[l] = o}
           Y == {l \in 0 .. m - 1 : Fronted(a, m)[l] = o}
<1>1. IsFiniteSet(X) /\ Cardinality(X) \in Nat
  <2>1. m \in Int
    OBVIOUS
  <2> QED
    BY <2>1, PlacesFinite
<1>2. \A l \in 0 .. m - 1 : Fronted(a, m)[l] = IF l = 0 THEN a[m] ELSE a[l]
  BY DEF Fronted
<1>3. /\ 0 .. m = (0 .. m - 1) \cup {m} /\ m \notin 0 .. m - 1
      /\ 0 \in 0 .. m /\ (m # 0 => 0 \in 0 .. m - 1)
  OBVIOUS
<1>4. CASE a[0] # o /\ a[m] # o
  <2>1. Y = X
    BY <1>2, <1>3, <1>4
  <2> QED
    BY <1>1, <1>4, <2>1 DEF Times
<1>5. CASE a[0] # o /\ a[m] = o
  <2>1. Y = (X \ {m}) \cup {0} /\ m \in X /\ 0 \notin X
    BY <1>2, <1>3, <1>5
  <2> HIDE DEF X, Y
  <2>2. Cardinality(Y) = Cardinality(X)
    BY <1>1, <2>1, MovedCard
  <2> QED
    BY <1>1, <1>5, <2>2 DEF X, Y, Times
<1>6. CASE a[0] = o
  <2>1. \E d \in X : Y = X \ {d}
    <3>1. CASE m = 0
      <4>1. X = {0} /\ Y = {}
        BY <1>6, <3>1
      <4> QED
        BY <4>1
    <3>2. CASE m # 0 /\ a[m] = o
      <4>1. Y = X \ {m} /\ m \in X
        BY <1>2, <1>3, <1>6, <3>2
      <4> QED
        BY <4>1
    <3>3. CASE m # 0 /\ a[m] # o
      <4>1. Y = X \ {0} /\ 0 \in X
        BY <1>2, <1>3, <1>6, <3>3
      <4> QED
        BY <4>1
    <3> QED
      BY <3>1, <3>2, <3>3
  <2> HIDE DEF X, Y
  <2>2. Cardinality(Y) = Cardinality(X) - 1
    BY <1>1, <2>1, FS_RemoveElement
  <2> QED
    BY <1>6, <2>2 DEF X, Y, Times
<1> QED
  BY <1>4, <1>5, <1>6

-----------------------------------------------------------------------------
Numbers == Array!key

LEMMA Compares ==
  ASSUME NEW x \in Objects, NEW y \in Objects
  PROVE  /\ x \in Nat /\ y \in Nat
         /\ Array!Before(Numbers, x, y) <=> x > y
  BY CellsAssumption DEF Array!Before, Array!key, Numbers

LEMMA HeapParent ==
  ASSUME NEW t \in Nat
  PROVE  /\ Array!Parent(t) \in 0 .. t
         /\ t > 0 => Array!Parent(t) < t
         /\ t = 0 => Array!Parent(t) = 0
         /\ t = 1 => Array!Parent(t) = 0
         /\ t = 2 => Array!Parent(t) = 1
  BY DEF Array!Parent

\* put adds its element and loses none.
LEMMA PutKeeps ==
  ASSUME NEW n \in Nat, NEW a \in [0 .. n - 1 -> Objects], NEW x \in Objects
  PROVE  /\ Array!Put(Numbers, a, n, x) \in [0 .. n -> Objects]
         /\ \A o \in Objects : Times(Array!Put(Numbers, a, n, x), 0 .. n, o) =
                               Times(a, 0 .. n - 1, o) + (IF o = x THEN 1 ELSE 0)
<1> DEFINE D == 0 .. n
           Same(b) == SameTimes(b, Appended(a, n, x), D)
           Arrays == {b \in [D -> Objects] : Same(b)}
           Q == [a : Arrays, i : D]
           T == [r \in D |-> Q]
           start == [a |-> Appended(a, n, x), i |-> n]
<1>1. start \in Q
  <2>1. \A t \in D : t # n => t \in 0 .. n - 1
    OBVIOUS
  <2>2. Appended(a, n, x) \in [D -> Objects]
    BY <2>1 DEF Appended
  <2>3. n \in D
    OBVIOUS
  <2> HIDE DEF D
  <2> QED
    BY <2>2, <2>3 DEF SameTimes
<1>2. ASSUME NEW s \in Q PROVE Array!Raised(Numbers, x, s) \in Q
  <2>1. s.a \in Arrays /\ s.i \in D /\ Array!Parent(s.i) \in D
    BY HeapParent
  <2>2. Array!Exchanged(s.a, s.i, Array!Parent(s.i)) \in Arrays
    <3>1. IsFiniteSet(D) /\ D \in SUBSET D
      BY FS_Interval
    <3>2. s.a \in [D -> Objects]
      BY <2>1
    <3> HIDE DEF D
    <3>3. Array!Exchanged(s.a, s.i, Array!Parent(s.i)) \in [D -> Objects]
      BY <2>1, <3>2, ExchangedAt
    <3> DEFINE j == Array!Parent(s.i)
               b == s.a
               l == s.i
    <3>4. SameTimes(Array!Exchanged(b, l, j), b, D)
      <4>1. l \in D /\ j \in D /\ b \in [D -> Objects]
        BY <2>1, <3>2
      <4> HIDE DEF b, l, j
      <4> QED
        BY <3>1, <4>1, ExchangedTimes
    <3> QED
      BY <2>1, <3>3, <3>4 DEF SameTimes
  <2> HIDE DEF Arrays, D
  <2> QED
    BY <2>1, <2>2 DEF Array!Raised
<1>3. \A r \in 0 .. n : T[r] = Q
  OBVIOUS
<1>4. PICK e \in T[n] : Array!Put(Numbers, a, n, x) = e.a
  <2>1. 0 \in 0 .. n /\ \A r \in 1 .. n : r - 1 \in 0 .. n /\ r \in 0 .. n
    OBVIOUS
  <2> HIDE DEF T, Q
  <2>2. start \in T[0]
    BY <1>1, <1>3, <2>1
  <2>3. \A r \in 1 .. n : \A s \in T[r - 1] : Array!Raised(Numbers, x, s) \in T[r]
    BY <1>2, <1>3, <2>1
  <2> QED
    BY <2>2, <2>3, PutRounds
<1>5. e.a \in [D -> Objects] /\ Same(e.a)
  BY <1>3, <1>4
<1> QED
  BY <1>4, <1>5, AppendedTimes DEF SameTimes

\* The first is the largest, and none is larger than its parent.
IsHeap(a, n) == \A t \in 0 .. n - 1 : a[t] <= a[0] /\ a[t] <= a[Array!Parent(t)]

\* It is but for the element in place t, which may be too large.
IsHeapBut(a, n, t) ==
  \A j \in 0 .. n : j # t =>
    /\ a[j] <= a[0] /\ a[j] <= a[Array!Parent(j)]
    /\ t > 0 /\ Array!Parent(j) = t => a[j] <= a[Array!Parent(t)]

LEMMA RaisedIsHeapBut ==
  ASSUME NEW n \in Nat, NEW b \in [0 .. n -> Objects], NEW t \in 1 .. n,
         IsHeapBut(b, n, t), b[t] > b[Array!Parent(t)]
  PROVE  IsHeapBut(Array!Exchanged(b, t, Array!Parent(t)), n, Array!Parent(t))
<1> DEFINE p == Array!Parent(t)
           c == Array!Exchanged(b, t, p)
<1>1. p \in 0 .. n /\ p < t /\ t \in 0 .. n /\ 0 \in 0 .. n
  BY HeapParent
<1>2. /\ c[t] = b[p] /\ c[p] = b[t]
      /\ \A l \in 0 .. n : l # t /\ l # p => c[l] = b[l]
  <2> DEFINE D == 0 .. n
  <2>1. t \in D /\ p \in D /\ b \in [D -> Objects]
    BY <1>1
  <2> HIDE DEF D, p
  <2>2. Crossed(c, b, D, t, p)
    BY <2>1, ExchangedAt
  <2> HIDE DEF c
  <2>3. /\ c[t] = b[p] /\ c[p] = b[t]
        /\ \A l \in D : l # t /\ l # p => c[l] = b[l]
    BY <2>1, <2>2 DEF Crossed
  <2> QED
    BY <2>3 DEF D
<1>3. \A l \in 0 .. n : b[l] \in Nat
  BY CellsAssumption
<1>4. p > 0 => /\ Array!Parent(p) \in 0 .. n /\ Array!Parent(p) < p
               /\ c[Array!Parent(p)] = b[Array!Parent(p)] /\ c[0] = b[0]
               /\ b[p] <= b[Array!Parent(p)]
  <2> SUFFICES ASSUME p > 0 PROVE /\ Array!Parent(p) \in 0 .. n /\ Array!Parent(p) < p
                                  /\ c[Array!Parent(p)] = b[Array!Parent(p)] /\ c[0] = b[0]
                                  /\ b[p] <= b[Array!Parent(p)]
    OBVIOUS
  <2> HIDE DEF p, c
  <2>1. Array!Parent(p) \in 0 .. n /\ Array!Parent(p) < p
    BY <1>1, HeapParent
  <2>2. b[p] <= b[Array!Parent(p)]
    BY <1>1 DEF IsHeapBut
  <2> QED
    BY <1>1, <1>2, <2>1, <2>2
<1> SUFFICES ASSUME NEW j \in 0 .. n, j # p
             PROVE  /\ c[j] <= c[0] /\ c[j] <= c[Array!Parent(j)]
                    /\ p > 0 /\ Array!Parent(j) = p => c[j] <= c[Array!Parent(p)]
  BY DEF IsHeapBut
<1>5. Array!Parent(j) \in 0 .. n
  BY HeapParent
<1>6. b[p] <= b[0] /\ b[p] < b[t]
  BY <1>1 DEF IsHeapBut
<1>7. CASE j = t
  <2>1. Array!Parent(j) = p
    BY <1>7
  <2> HIDE DEF p, c
  <2> QED
    BY <1>1, <1>2, <1>3, <1>4, <1>6, <1>7, <2>1
<1>8. CASE j # t
  <2>1. /\ b[j] <= b[0] /\ b[j] <= b[Array!Parent(j)]
        /\ Array!Parent(j) = t => b[j] <= b[p]
    BY <1>8 DEF IsHeapBut
  <2>2. c[j] = b[j]
    BY <1>2, <1>8
  <2> DEFINE q == Array!Parent(j)
  <2>3. q \in 0 .. n
    BY <1>5
  <2>4. b[j] \in Nat /\ b[t] \in Nat /\ b[p] \in Nat /\ b[0] \in Nat /\ b[q] \in Nat
    BY <1>1, <1>3, <2>3
  <2> HIDE DEF p, c, q
  <2>5. c[j] <= c[0]
    <3>1. CASE p > 0
      BY <1>4, <2>1, <2>2, <3>1
    <3>2. CASE ~(p > 0)
      <4>1. p = 0
        BY <1>1, <3>2
      <4> QED
        BY <1>2, <1>6, <2>1, <2>2, <2>4, <4>1
    <3> QED
      BY <3>1, <3>2
  <2>6. c[j] <= c[q]
    <3>1. CASE q = t
      BY <1>2, <2>1, <2>2, <3>1 DEF q
    <3>2. CASE q = p
      BY <1>2, <1>6, <2>1, <2>2, <2>4, <3>2 DEF q
    <3>3. CASE q # t /\ q # p
      <4>1. c[q] = b[q]
        BY <1>2, <2>3, <3>3
      <4> QED
        BY <2>1, <2>2, <4>1 DEF q
    <3> QED
      BY <3>1, <3>2, <3>3
  <2>7. p > 0 /\ q = p => c[j] <= c[Array!Parent(p)]
    <3> SUFFICES ASSUME p > 0, q = p PROVE c[j] <= c[Array!Parent(p)]
      OBVIOUS
    <3>1. b[j] <= b[p]
      BY <2>1 DEF q
    <3>2. b[Array!Parent(p)] \in Nat
      BY <1>3, <1>4
    <3> QED
      BY <1>4, <2>2, <2>4, <3>1, <3>2
  <2> QED
    BY <2>5, <2>6, <2>7 DEF q
<1> QED
  BY <1>7, <1>8

\* Behind put a heap is a heap again.
LEMMA PutOrders ==
  ASSUME NEW n \in Nat, NEW a \in [0 .. n - 1 -> Objects], NEW x \in Objects, IsHeap(a, n)
  PROVE  IsHeap(Array!Put(Numbers, a, n, x), n + 1)
<1> DEFINE D == 0 .. n
           Q == {s \in [a : [D -> Objects], i : D] : s.a[s.i] = x /\ IsHeapBut(s.a, n, s.i)}
           Left(r) == {s \in Q : s.i <= n - r \/ ~Array!Rises(Numbers, s.a, x, s.i)}
           T == [r \in D |-> Left(r)]
           start == [a |-> Appended(a, n, x), i |-> n]
<1>1. start \in Left(0)
  <2>1. \A t \in D : t # n => t \in 0 .. n - 1
    OBVIOUS
  <2>2. /\ Appended(a, n, x) \in [D -> Objects] /\ Appended(a, n, x)[n] = x
        /\ \A t \in 0 .. n - 1 : Appended(a, n, x)[t] = a[t]
    BY <2>1 DEF Appended
  <2>3. IsHeapBut(Appended(a, n, x), n, n)
    <3> SUFFICES ASSUME NEW j \in D, j # n
                 PROVE  LET b == Appended(a, n, x) IN
                        /\ b[j] <= b[0] /\ b[j] <= b[Array!Parent(j)]
                        /\ n > 0 /\ Array!Parent(j) = n => b[j] <= b[Array!Parent(n)]
      BY DEF IsHeapBut
    <3>1. /\ j \in 0 .. n - 1 /\ 0 \in 0 .. n - 1 /\ Array!Parent(j) \in 0 .. n - 1
          /\ Array!Parent(j) # n
      BY HeapParent
    <3> QED
      BY <2>2, <3>1 DEF IsHeap
  <2> QED
    BY <2>2, <2>3
<1>2. ASSUME NEW r \in 1 .. n, NEW s \in Left(r - 1)
      PROVE  Array!Raised(Numbers, x, s) \in Left(r)
  <2> DEFINE p == Array!Parent(s.i)
  <2>1. s.a \in [D -> Objects] /\ s.i \in D /\ s.a[s.i] = x /\ IsHeapBut(s.a, n, s.i)
    OBVIOUS
  <2>2. CASE ~Array!Rises(Numbers, s.a, x, s.i)
    BY <2>2 DEF Array!Raised
  <2>3. CASE Array!Rises(Numbers, s.a, x, s.i)
    <3>1. s.i \in 1 .. n /\ s.i <= n - (r - 1) /\ p \in D /\ p < s.i
      <4>1. s.i \in Nat /\ s.i > 0
        BY <2>1, <2>3 DEF Array!Rises
      <4>2. p \in 0 .. s.i /\ p < s.i
        BY <4>1, HeapParent
      <4>3. s.i <= n - (r - 1)
        BY <2>3
      <4> HIDE DEF p
      <4> QED
        BY <2>1, <4>1, <4>2, <4>3
    <3>2. s.a[s.i] > s.a[p]
      BY <2>1, <2>3, <3>1, Compares DEF Array!Rises
    <3>3. IsHeapBut(Array!Exchanged(s.a, s.i, p), n, p)
      BY <2>1, <3>1, <3>2, RaisedIsHeapBut
    <3>4. Array!Exchanged(s.a, s.i, p) \in [D -> Objects] /\ Array!Exchanged(s.a, s.i, p)[p] = x
      <4> DEFINE b == s.a
                 l == s.i
      <4>1. l \in D /\ p \in D /\ b \in [D -> Objects] /\ b[l] = x
        BY <2>1, <3>1
      <4> HIDE DEF b, l, p, D
      <4>2. /\ Array!Exchanged(b, l, p) \in [D -> Objects]
            /\ Crossed(Array!Exchanged(b, l, p), b, D, l, p)
        BY <4>1, ExchangedAt
      <4>3. Array!Exchanged(b, l, p)[p] = b[l]
        BY <4>1, <4>2 DEF Crossed
      <4> QED
        BY <4>1, <4>2, <4>3 DEF b, l
    <3>5. Array!Raised(Numbers, x, s) = [a |-> Array!Exchanged(s.a, s.i, p), i |-> p]
      BY <2>3 DEF Array!Raised
    <3>6. p <= n - r
      BY <3>1
    <3> HIDE DEF p, D
    <3> QED
      BY <3>1, <3>3, <3>4, <3>5, <3>6
  <2> QED
    BY <2>2, <2>3
<1>3. \A r \in 0 .. n : T[r] = Left(r)
  OBVIOUS
<1>4. PICK e \in T[n] : Array!Put(Numbers, a, n, x) = e.a
  <2>1. 0 \in 0 .. n /\ \A r \in 1 .. n : r - 1 \in 0 .. n /\ r \in 0 .. n
    OBVIOUS
  <2> HIDE DEF T, Left
  <2>2. start \in T[0]
    BY <1>1, <1>3, <2>1
  <2>3. \A r \in 1 .. n : \A s \in T[r - 1] : Array!Raised(Numbers, x, s) \in T[r]
    BY <1>2, <1>3, <2>1
  <2> QED
    BY <2>2, <2>3, PutRounds
<1>5. /\ e.a \in [D -> Objects] /\ e.i \in D /\ e.a[e.i] = x /\ IsHeapBut(e.a, n, e.i)
      /\ e.i = 0 \/ ~Array!Rises(Numbers, e.a, x, e.i)
  BY <1>3, <1>4
<1>6. \A l \in D : e.a[l] \in Nat
  BY <1>5, CellsAssumption
<1>7. e.a[e.i] <= e.a[0] /\ e.a[e.i] <= e.a[Array!Parent(e.i)]
  <2>1. CASE e.i = 0
    BY <1>5, <1>6, <2>1, HeapParent
  <2>2. CASE e.i # 0
    <3>1. Array!Parent(e.i) \in D /\ Array!Parent(e.i) # e.i /\ e.i > 0
      BY <1>5, <2>2, HeapParent
    <3>2. e.a[e.i] <= e.a[Array!Parent(e.i)]
      BY <1>5, <1>6, <2>2, <3>1, Compares DEF Array!Rises
    <3>3. e.a[Array!Parent(e.i)] <= e.a[0]
      BY <1>5, <3>1 DEF IsHeapBut
    <3> QED
      BY <1>5, <1>6, <3>1, <3>2, <3>3
  <2> QED
    BY <2>1, <2>2
<1>8. ASSUME NEW j \in 0 .. n PROVE e.a[j] <= e.a[0] /\ e.a[j] <= e.a[Array!Parent(j)]
  BY <1>5, <1>7 DEF IsHeapBut
<1> QED
  BY <1>4, <1>8 DEF IsHeap

-----------------------------------------------------------------------------
\* get's loop moves elements within the places there are.
LoweredTo(l, m, s) ==
  \/ l = s
  \/ /\ Array!GoesOn(m, s.i)
     /\ l = [s EXCEPT !.done = TRUE, !.strayed = @ \/ Array!Strays(m, s.i)]
  \/ /\ Array!GoesOn(m, s.i)
     /\ \E min \in {s.i, s.i + 1} :
          l = [s EXCEPT !.a = Array!Exchanged(s.a, Array!Parent(s.i), min), !.i = 2 * min,
                        !.strayed = @ \/ Array!Strays(m, s.i)]

LEMMA LoweredBy ==
  ASSUME NEW k, NEW m, NEW beyond \in BOOLEAN, NEW s
  PROVE  LoweredTo(Array!Lowered(k, m, beyond, s), m, s)
  BY DEF LoweredTo, Array!Lowered, Array!Lesser

\* get takes the first element away and loses no other.
LEMMA SiftKeeps ==
  ASSUME NEW n \in Nat \ {0}, NEW a \in [0 .. n - 1 -> Objects], NEW beyond \in BOOLEAN
  PROVE  /\ Array!Sifted(Numbers, a, n, beyond).a \in [0 .. n - 2 -> Objects]
         /\ \A o \in Objects :
              Times(Array!Sifted(Numbers, a, n, beyond).a, 0 .. n - 2, o) =
              Times(a, 0 .. n - 1, o) - (IF o = a[0] THEN 1 ELSE 0)
<1> DEFINE m == n - 1
           D == 0 .. m
           C == 0 .. m - 1
           Same(b) == SameTimes(b, Fronted(a, m), C)
           Arrays == {b \in [D -> Objects] : Same(b)}
           Q == [a : Arrays, i : Nat \ {0}, done : BOOLEAN, strayed : BOOLEAN]
           T == [r \in 0 .. n |-> Q]
           start == [a |-> Fronted(a, m), i |-> 1, done |-> FALSE, strayed |-> FALSE]
<1>1. m \in Nat /\ C \in SUBSET D /\ m - 1 = n - 2 /\ IsFiniteSet(C)
  BY FS_Interval
<1>2. start \in Q
  <2>1. Fronted(a, m) \in [D -> Objects]
    BY <1>1 DEF Fronted
  <2> HIDE DEF D, C, m
  <2> QED
    BY <2>1 DEF SameTimes
<1>3. ASSUME NEW b \in Arrays, NEW t \in C, NEW j \in C
      PROVE  Array!Exchanged(b, t, j) \in Arrays
  <2> HIDE DEF D, C, m
  <2>1. b \in [D -> Objects] /\ t \in D /\ j \in D
    BY <1>1
  <2>2. Array!Exchanged(b, t, j) \in [D -> Objects]
    BY <2>1, ExchangedAt
  <2>3. C \in SUBSET D /\ IsFiniteSet(C)
    BY <1>1
  <2> HIDE DEF Arrays
  <2>4. SameTimes(Array!Exchanged(b, t, j), b, C)
    BY <2>1, <2>3, ExchangedTimes
  <2> QED
    BY <2>1, <2>2, <2>4 DEF Arrays, SameTimes
<1>4. ASSUME NEW s \in Q PROVE Array!Lowered(Numbers, m, beyond, s) \in Q
  <2>1. s \in [a : [0 .. m -> Objects], i : Nat \ {0}, done : BOOLEAN, strayed : BOOLEAN]
    OBVIOUS
  <2>2. s.a \in Arrays /\ s.i \in Nat \ {0} /\ Array!Parent(s.i) \in 0 .. s.i
    BY HeapParent
  <2>3. ASSUME Array!GoesOn(m, s.i), NEW min \in {s.i, s.i + 1}
        PROVE  Array!Exchanged(s.a, Array!Parent(s.i), min) \in Arrays /\ 2 * min \in Nat \ {0}
    <3>1. Array!Parent(s.i) \in C /\ min \in C /\ 2 * min \in Nat \ {0}
      BY <1>1, <2>2, <2>3 DEF Array!GoesOn
    <3> HIDE DEF C, Arrays, m
    <3> QED
      BY <1>3, <2>2, <3>1
  <2>4. Array!Strays(m, s.i) \in BOOLEAN
    BY DEF Array!Strays
  <2> DEFINE l == Array!Lowered(Numbers, m, beyond, s)
  <2>6. LoweredTo(l, m, s)
    BY LoweredBy
  <2> HIDE DEF l, Arrays, m
  <2>7. l \in Q
    <3>1. CASE l = s
      BY <3>1
    <3>2. CASE l = [s EXCEPT !.done = TRUE, !.strayed = @ \/ Array!Strays(m, s.i)]
      BY <2>4, <3>2
    <3>3. CASE /\ Array!GoesOn(m, s.i)
               /\ \E min \in {s.i, s.i + 1} :
                    l = [s EXCEPT !.a = Array!Exchanged(s.a, Array!Parent(s.i), min),
                                  !.i = 2 * min, !.strayed = @ \/ Array!Strays(m, s.i)]
      <4>1. PICK min \in {s.i, s.i + 1} :
                   l = [s EXCEPT !.a = Array!Exchanged(s.a, Array!Parent(s.i), min),
                                 !.i = 2 * min, !.strayed = @ \/ Array!Strays(m, s.i)]
        BY <3>3
      <4>2. Array!Exchanged(s.a, Array!Parent(s.i), min) \in Arrays /\ 2 * min \in Nat \ {0}
        BY <2>3, <3>3
      <4> QED
        BY <2>4, <4>1, <4>2
    <3> QED
      BY <2>6, <3>1, <3>2, <3>3 DEF LoweredTo
  <2> QED
    BY <2>7 DEF l
<1>5. \A r \in 0 .. n : T[r] = Q
  OBVIOUS
<1>6. PICK e \in T[n] :
        Array!Sifted(Numbers, a, n, beyond) =
          [a |-> [t \in 0 .. n - 2 |-> Settled(Numbers, n - 1, e)[t]], strayed |-> e.strayed]
  <2>1. 0 \in 0 .. n /\ \A r \in 1 .. n : r - 1 \in 0 .. n /\ r \in 0 .. n
    OBVIOUS
  <2> HIDE DEF T, Q
  <2>2. [a |-> Fronted(a, n - 1), i |-> 1, done |-> FALSE, strayed |-> FALSE] \in T[0]
    BY <1>2, <1>5, <2>1
  <2>3. \A r \in 1 .. n : \A s \in T[r - 1] : Array!Lowered(Numbers, n - 1, beyond, s) \in T[r]
    BY <1>4, <1>5, <2>1
  <2> QED
    BY <2>2, <2>3, SiftRounds
<1>7. e.a \in Arrays /\ e.i \in Nat \ {0} /\ Array!Parent(e.i) \in 0 .. e.i
  <2>1. e \in Q
    BY <1>5, <1>6
  <2> QED
    BY <2>1, HeapParent
<1>8. Settled(Numbers, m, e) \in Arrays
  <2>1. CASE e.i < m
    <3>1. e.i \in C /\ Array!Parent(e.i) \in C
      BY <1>1, <1>7, <2>1
    <3> HIDE DEF C, Arrays, m
    <3>2. Array!Exchanged(e.a, Array!Parent(e.i), e.i) \in Arrays
      BY <1>3, <1>7, <3>1
    <3> QED
      BY <1>7, <3>2 DEF Settled
  <2>2. CASE ~(e.i < m)
    BY <1>7, <2>2 DEF Settled
  <2> QED
    BY <2>1, <2>2
<1> DEFINE b == Settled(Numbers, m, e)
           c == [t \in 0 .. n - 2 |-> b[t]]
<1>9. b \in [D -> Objects] /\ Same(b)
  BY <1>8
<1> HIDE DEF b
<1>10. c \in [0 .. n - 2 -> Objects]
  BY <1>1, <1>9
<1>11. \A o \in Objects : Times(c, 0 .. n - 2, o) = Times(b, C, o)
  <2> SUFFICES ASSUME NEW o \in Objects
               PROVE  {t \in 0 .. n - 2 : c[t] = o} = {t \in 0 .. n - 2 : b[t] = o}
    BY <1>1 DEF Times
  <2> QED
    OBVIOUS
<1>12. \A o \in Objects : Times(Fronted(a, m), C, o) =
                          Times(a, D, o) - (IF o = a[0] THEN 1 ELSE 0)
  BY <1>1, FrontedTimes
<1>13. Array!Sifted(Numbers, a, n, beyond).a = c
  BY <1>6 DEF b
<1> HIDE DEF c
<1> QED
  BY <1>9, <1>10, <1>11, <1>12, <1>13 DEF SameTimes

\* Behind get of three elements at most a heap is a heap again: the loop
\* makes no turn.
LEMMA SiftOrders ==
  ASSUME NEW n \in Nat, n > 0, n < 4, NEW a \in [0 .. n - 1 -> Objects], NEW beyond \in BOOLEAN,
         IsHeap(a, n)
  PROVE  IsHeap(Array!Sifted(Numbers, a, n, beyond).a, n - 1)
<1> DEFINE start == [a |-> Fronted(a, n - 1), i |-> 1, done |-> FALSE, strayed |-> FALSE]
           T == [r \in 0 .. n |-> {start}]
<1>0. \A l \in 0 .. n - 1 : a[l] \in Objects /\ a[l] \in Nat
  BY CellsAssumption
<1>1. \A s : s.i = 1 => Array!Lowered(Numbers, n - 1, beyond, s) = s
  BY DEF Array!Lowered, Array!GoesOn
<1>2. PICK e \in T[n] :
        Array!Sifted(Numbers, a, n, beyond) =
          [a |-> [t \in 0 .. n - 2 |-> Settled(Numbers, n - 1, e)[t]], strayed |-> e.strayed]
  <2>1. n \in Nat /\ 0 \in 0 .. n /\ \A r \in 1 .. n : r - 1 \in 0 .. n /\ r \in 0 .. n
    OBVIOUS
  <2>2. start.i = 1
    OBVIOUS
  <2>3. \A r \in 0 .. n : T[r] = {start}
    OBVIOUS
  <2>4. \A r \in 1 .. n : \A s \in T[r - 1] : Array!Lowered(Numbers, n - 1, beyond, s) \in T[r]
    <3> HIDE DEF T, start
    <3> QED
      BY <1>1, <2>1, <2>2, <2>3
  <2>5. start \in T[0]
    BY <2>1, <2>3
  <2> HIDE DEF T
  <2> QED
    BY <2>1, <2>4, <2>5, SiftRounds
<1>3. e = start
  BY <1>2
<1> DEFINE b == Settled(Numbers, n - 1, start)
           r == Array!Sifted(Numbers, a, n, beyond).a
<1>4. r = [t \in 0 .. n - 2 |-> b[t]]
  BY <1>2, <1>3
<1> SUFFICES IsHeap(r, n - 1)
  OBVIOUS
<1> HIDE DEF r
<1>5. CASE n < 3
  <2>1. \A t \in 0 .. n - 2 : t = 0
    BY <1>5
  <2>2. \A t \in 0 .. n - 2 : r[t] \in Nat /\ r[0] \in Nat
    <3>1. ASSUME n = 2 PROVE b[0] \in Nat
      <4>1. a[1] \in Nat
        BY <1>0, <3>1
      <4>2. ~(start.i < n - 1)
        BY <3>1
      <4>3. b = Fronted(a, n - 1)
        BY <4>2 DEF Settled
      <4> HIDE DEF b
      <4>4. b[0] = a[n - 1] /\ n - 1 = 1
        BY <3>1, <4>3 DEF Fronted
      <4> QED
        BY <4>1, <4>4
    <3> HIDE DEF b
    <3> QED
      BY <1>4, <1>5, <3>1
  <2>3. Array!Parent(0) = 0
    BY HeapParent
  <2> QED
    BY <2>1, <2>2, <2>3 DEF IsHeap
<1>6. CASE n = 3
  <2>1. /\ a[0] \in Objects /\ a[1] \in Objects /\ a[2] \in Objects
        /\ a[0] \in Nat /\ a[1] \in Nat /\ a[2] \in Nat
    <3>1. 0 \in 0 .. n - 1 /\ 1 \in 0 .. n - 1 /\ 2 \in 0 .. n - 1
      BY <1>6
    <3> QED
      BY <1>0, <3>1
  <2>2. Fronted(a, 2) \in [0 .. 2 -> Objects] /\ Fronted(a, 2)[0] = a[2] /\ Fronted(a, 2)[1] = a[1]
    BY <1>6, <2>1 DEF Fronted
  <2>3. Array!Parent(1) = 0 /\ Array!Parent(0) = 0
    BY HeapParent
  <2>4. b[0] \in Nat /\ b[1] \in Nat /\ b[1] <= b[0]
    <3>1. CASE a[1] > a[2]
      <4>1. Array!Before(Numbers, Fronted(a, 2)[1], Fronted(a, 2)[0])
        BY <2>1, <2>2, <3>1, Compares
      <4>2. b = Array!Exchanged(Fronted(a, 2), 0, 1)
        BY <1>6, <2>3, <4>1 DEF Settled
      <4>3. 0 \in 0 .. 2 /\ 1 \in 0 .. 2
        OBVIOUS
      <4>4. b[0] = a[1] /\ b[1] = a[2]
        <5> DEFINE D == 0 .. 2
        <5>1. 0 \in D /\ 1 \in D /\ Fronted(a, 2) \in [D -> Objects]
          BY <2>2
        <5> HIDE DEF b, D
        <5>2. Crossed(b, Fronted(a, 2), D, 0, 1)
          BY <4>2, <5>1, ExchangedAt
        <5> QED
          BY <2>2, <5>1, <5>2 DEF Crossed
      <4> QED
        BY <2>1, <3>1, <4>4
    <3>2. CASE ~(a[1] > a[2])
      <4>1. ~Array!Before(Numbers, Fronted(a, 2)[1], Fronted(a, 2)[0])
        BY <2>1, <2>2, <3>2, Compares
      <4>2. b = Fronted(a, 2)
        BY <1>6, <2>3, <4>1 DEF Settled
      <4> QED
        BY <2>1, <2>2, <3>2, <4>2
    <3> QED
      BY <3>1, <3>2
  <2> HIDE DEF b
  <2>5. r[0] = b[0] /\ r[1] = b[1]
    BY <1>4, <1>6
  <2>6. \A t \in 0 .. n - 1 - 1 : t = 0 \/ t = 1
    BY <1>6
  <2> QED
    BY <2>3, <2>4, <2>5, <2>6 DEF IsHeap
<1> QED
  BY <1>5, <1>6

\* With six elements at most get reads none behind the last.
LEMMA SiftInside ==
  ASSUME NEW n \in Nat, n < 7, NEW a \in [0 .. n - 1 -> Objects],
         NEW beyond \in BOOLEAN
  PROVE  Array!Sifted(Numbers, a, n, beyond).strayed = FALSE
<1> DEFINE m == n - 1
           Q == {s \in [a : [0 .. m -> Objects], i : Nat \ {0}, done : BOOLEAN,
                        strayed : BOOLEAN] :
                   s.strayed = FALSE /\ (s.i = 1 \/ s.i = 2 \/ s.i > 3)}
           T == [r \in 0 .. n |-> Q]
<1>1. m \in Int /\ m < 6
  OBVIOUS
<1>2. [a |-> Fronted(a, m), i |-> 1, done |-> FALSE, strayed |-> FALSE] \in Q
  <2>1. Fronted(a, m) \in [0 .. m -> Objects]
    <3>1. \A t \in 0 .. m : t \in 0 .. n - 1 /\ m \in 0 .. n - 1
      OBVIOUS
    <3> QED
      BY <3>1 DEF Fronted
  <2> HIDE DEF m
  <2> QED
    BY <2>1
<1>3. ASSUME NEW s \in Q PROVE Array!Lowered(Numbers, m, beyond, s) \in Q
  <2>1. /\ s \in [a : [0 .. m -> Objects], i : Nat \ {0}, done : BOOLEAN, strayed : BOOLEAN]
        /\ s.strayed = FALSE /\ (s.i = 1 \/ s.i = 2 \/ s.i > 3)
    OBVIOUS
  <2> DEFINE l == Array!Lowered(Numbers, m, beyond, s)
  <2>2. LoweredTo(l, m, s)
    <3> HIDE DEF m
    <3> QED
      BY LoweredBy
  <2> SUFFICES l \in Q
    OBVIOUS
  <2> HIDE DEF l, Q, m
  <2>3. ~Array!Strays(m, s.i)
    BY <1>1, <2>1 DEF Array!Strays, Array!GoesOn
  <2>4. ASSUME Array!GoesOn(m, s.i), NEW min \in {s.i, s.i + 1}
        PROVE  /\ Array!Exchanged(s.a, Array!Parent(s.i), min) \in [0 .. m -> Objects]
               /\ 2 * min \in Nat \ {0} /\ (2 * min = 2 \/ 2 * min > 3)
    <3>1. Array!Parent(s.i) \in 0 .. m /\ min \in 0 .. m
      BY <1>1, <2>1, <2>4, HeapParent DEF Array!GoesOn
    <3> QED
      <4> DEFINE D == 0 .. m
                 b == s.a
                 p == Array!Parent(s.i)
      <4>1. b \in [D -> Objects] /\ p \in D /\ min \in D
        BY <2>1, <3>1
      <4> HIDE DEF b, D, p
      <4>2. Array!Exchanged(b, p, min) \in [D -> Objects]
        BY <4>1, ExchangedAt
      <4>3. 2 * min \in Nat \ {0} /\ (2 * min = 2 \/ 2 * min > 3)
        BY <2>1, <2>4
      <4> QED
        BY <4>2, <4>3 DEF b, D, p
  <2>5. CASE l = s
    BY <2>5
  <2>6. CASE l = [s EXCEPT !.done = TRUE, !.strayed = @ \/ Array!Strays(m, s.i)]
    BY <2>1, <2>3, <2>6 DEF Q
  <2>7. CASE /\ Array!GoesOn(m, s.i)
             /\ \E min \in {s.i, s.i + 1} :
                  l = [s EXCEPT !.a = Array!Exchanged(s.a, Array!Parent(s.i), min),
                                !.i = 2 * min, !.strayed = @ \/ Array!Strays(m, s.i)]
    <3>1. PICK min \in {s.i, s.i + 1} :
                 l = [s EXCEPT !.a = Array!Exchanged(s.a, Array!Parent(s.i), min),
                               !.i = 2 * min, !.strayed = @ \/ Array!Strays(m, s.i)]
      BY <2>7
    <3>2. /\ Array!Exchanged(s.a, Array!Parent(s.i), min) \in [0 .. m -> Objects]
          /\ 2 * min \in Nat \ {0} /\ (2 * min = 2 \/ 2 * min > 3)
      BY <2>4, <2>7
    <3> QED
      BY <2>1, <2>3, <3>1, <3>2 DEF Q
  <2> QED
    BY <2>2, <2>5, <2>6, <2>7 DEF LoweredTo
<1>4. \A r \in 0 .. n : T[r] = Q
  OBVIOUS
<1>5. PICK e \in T[n] :
        Array!Sifted(Numbers, a, n, beyond) =
          [a |-> [t \in 0 .. n - 2 |-> Settled(Numbers, n - 1, e)[t]], strayed |-> e.strayed]
  <2>1. 0 \in 0 .. n /\ \A r \in 1 .. n : r - 1 \in 0 .. n /\ r \in 0 .. n
    OBVIOUS
  <2> HIDE DEF T, Q
  <2>2. [a |-> Fronted(a, n - 1), i |-> 1, done |-> FALSE, strayed |-> FALSE] \in T[0]
    BY <1>2, <1>4, <2>1
  <2>3. \A r \in 1 .. n : \A s \in T[r - 1] : Array!Lowered(Numbers, n - 1, beyond, s) \in T[r]
    BY <1>3, <1>4, <2>1
  <2> QED
    BY <2>2, <2>3, SiftRounds
<1>6. e.strayed = FALSE
  BY <1>4, <1>5
<1> QED
  BY <1>5, <1>6

-----------------------------------------------------------------------------
\* The powers of two up to the n-th.
Powers(n) == CHOOSE g : g = [k \in 0 .. n |-> IF k = 0 THEN 1 ELSE 2 * g[k - 1]]

LEMMA PowersAre ==
  ASSUME NEW n \in Nat
  PROVE  \A k \in 0 .. n : Powers(n)[k] = IF k = 0 THEN 1 ELSE 2 * Powers(n)[k - 1]
<1> DEFINE T == [k \in 0 .. n |-> Nat]
           double == [x \in Nat |-> 2 * x]
           f == [k \in 1 .. n |-> double]
           H(g) == [k \in 0 .. n |-> IF k = 0 THEN 1 ELSE 2 * g[k - 1]]
<1>1. \A k \in 1 .. n : k - 1 \in 0 .. n
  OBVIOUS
<1>2. \A k \in 1 .. n : \A x \in T[k - 1] : f[k][x] \in T[k]
  <2>1. \A x \in Nat : double[x] \in Nat
    OBVIOUS
  <2>2. \A k \in 0 .. n : T[k] = Nat
    OBVIOUS
  <2>3. \A k \in 1 .. n : f[k] = double
    OBVIOUS
  <2> HIDE DEF T, f, double
  <2> QED
    BY <1>1, <2>1, <2>2, <2>3
<1>3. 1 \in T[0]
  OBVIOUS
<1>4. PICK g : Rounds(g, n, 1, f) /\ \A k \in 0 .. n : g[k] \in T[k]
  <2> HIDE DEF T, f
  <2> QED
    BY <1>2, <1>3, Iterates
<1>5. g = H(g)
  <2>1. \A k \in 0 .. n : (IF k = 0 THEN 1 ELSE f[k][g[k - 1]]) =
                          (IF k = 0 THEN 1 ELSE 2 * g[k - 1])
    <3>1. \A k \in 1 .. n : g[k - 1] \in Nat
      BY <1>1, <1>4
    <3>2. \A k \in 1 .. n : f[k] = double
      OBVIOUS
    <3>3. \A x \in Nat : double[x] = 2 * x
      OBVIOUS
    <3> HIDE DEF f, double, T
    <3>4. \A k \in 1 .. n : f[k][g[k - 1]] = 2 * g[k - 1]
      BY <3>1, <3>2, <3>3
    <3> QED
      BY <3>4
  <2> HIDE DEF f
  <2>2. [k \in 0 .. n |-> IF k = 0 THEN 1 ELSE f[k][g[k - 1]]] = H(g)
    BY <2>1
  <2> QED
    BY <1>4, <2>2 DEF Rounds
<1>6. Powers(n) = H(Powers(n))
  <2>1. Powers(n) = CHOOSE e : e = H(e)
    BY DEF Powers
  <2> HIDE DEF H
  <2> QED
    BY <1>5, <2>1
<1> DEFINE p == Powers(n)
<1> HIDE DEF p
<1>7. p = H(p)
  BY <1>6 DEF p
<1>8. \A k \in 0 .. n : p[k] = IF k = 0 THEN 1 ELSE 2 * p[k - 1]
  BY <1>7
<1> QED
  BY <1>8 DEF p

LEMMA SamePowers ==
  ASSUME NEW n \in Nat, NEW m \in Nat, n <= m
  PROVE  \A k \in 0 .. n : Powers(n)[k] = Powers(m)[k]
<1> DEFINE P == Powers(n)
           Q == Powers(m)
           Bad == {k \in 0 .. n : P[k] # Q[k]}
<1> SUFFICES ASSUME Bad # {} PROVE FALSE
  OBVIOUS
<1>1. /\ \A k \in 0 .. n : P[k] = IF k = 0 THEN 1 ELSE 2 * P[k - 1]
      /\ \A k \in 0 .. m : Q[k] = IF k = 0 THEN 1 ELSE 2 * Q[k - 1]
  BY PowersAre
<1> HIDE DEF P, Q
<1>2. PICK l \in Bad : \A k \in Bad : l <= k
  <2>1. Bad \in SUBSET Nat
    OBVIOUS
  <2> HIDE DEF Bad
  <2> QED
    BY <2>1, LeastNatural
<1>3. l \in 0 .. n /\ l \in 0 .. m /\ P[l] # Q[l]
  OBVIOUS
<1>4. l # 0
  BY <1>1, <1>3
<1>5. l - 1 \in 0 .. n /\ l - 1 < l
  BY <1>3, <1>4
<1>6. P[l - 1] = Q[l - 1]
  <2>1. l - 1 \notin Bad
    <3> HIDE DEF Bad
    <3> QED
      BY <1>2, <1>3, <1>5
  <2> QED
    BY <1>5, <2>1
<1> QED
  BY <1>1, <1>3, <1>4, <1>6

LEMMA PowerOfTwoIs ==
  ASSUME NEW n \in Nat
  PROVE  Array!PowerOfTwo(n) <=> \E k \in 0 .. n : Powers(n)[k] = n
  BY DEF Array!PowerOfTwo, Powers

\* Twice a power of two is one.
LEMMA DoubledIsPower ==
  ASSUME NEW n \in Nat \ {0}, Array!PowerOfTwo(n)
  PROVE  Array!PowerOfTwo(2 * n)
<1>1. PICK k \in 0 .. n : Powers(n)[k] = n
  BY PowerOfTwoIs
<1>2. k \in 0 .. 2 * n /\ k + 1 \in 0 .. 2 * n /\ k + 1 # 0 /\ (k + 1) - 1 = k /\ 2 * n \in Nat
  OBVIOUS
<1>3. Powers(2 * n)[k] = n
  <2>1. n <= 2 * n
    OBVIOUS
  <2> QED
    BY <1>1, <1>2, <2>1, SamePowers
<1>4. Powers(2 * n)[k + 1] = 2 * Powers(2 * n)[k]
  <2> DEFINE m == 2 * n
             p == Powers(m)
  <2>1. \A l \in 0 .. m : p[l] = IF l = 0 THEN 1 ELSE 2 * p[l - 1]
    BY <1>2, PowersAre
  <2> HIDE DEF m, p
  <2>2. p[k + 1] = 2 * p[k]
    BY <1>2, <2>1 DEF m
  <2> QED
    BY <2>2 DEF m, p
<1>5. Powers(2 * n)[k + 1] = 2 * n
  BY <1>3, <1>4
<1> QED
  BY <1>2, <1>5, PowerOfTwoIs

-----------------------------------------------------------------------------
\* The invariant of the heap: it is ordered until get has strained it, and as
\* long as it is no clone its elements fit in the array, which has been
\* doubled so often and no more.
HeapTypeOK == /\ size \in Nat /\ data \in [0 .. size - 1 -> Objects]
              /\ cloned \in BOOLEAN /\ strained \in BOOLEAN

HeapFits == ~cloned => /\ heapstatus = "running"
                       /\ room \in Nat \ {0} /\ size <= room
                       /\ START_MEM <= room /\ Array!PowerOfTwo(room)

HeapInv == class = "Heap" => /\ HeapTypeOK /\ HeapFits
                             /\ ~strained => IsHeap(data, size)

LEMMA EmptyHeap ==
  /\ <<>> \in [0 .. 0 - 1 -> Objects]
  /\ IsHeap(<<>>, 0)
<1>1. 0 .. 0 - 1 = {} /\ DOMAIN <<>> = {}
  BY EmptySeq
<1>2. <<>> = [t \in 0 .. 0 - 1 |-> <<>>[t]]
  BY <1>1
<1> QED
  BY <1>1, <1>2 DEF IsHeap

LEMMA InitHeapInv == CInit => HeapInv
<1> SUFFICES ASSUME CInit, class = "Heap" PROVE HeapInv
  BY DEF HeapInv
<1>1. Array!Init
  BY DEF CInit, Lists!Init
<1>2. /\ data = <<>> /\ size = 0 /\ room = START_MEM /\ cloned = FALSE /\ strained = FALSE
      /\ heapstatus = "running"
  BY <1>1 DEF Array!Init
<1>3. HeapTypeOK
  <2>1. data \in [0 .. size - 1 -> Objects]
    BY <1>2, EmptyHeap
  <2> QED
    BY <1>2, <2>1 DEF HeapTypeOK
<1>4. HeapFits /\ IsHeap(data, size)
  <2>1. IsHeap(data, size)
    BY <1>2, EmptyHeap
  <2> QED
    BY <1>2, <2>1, RoomAssumption DEF HeapFits
<1> QED
  BY <1>3, <1>4 DEF HeapInv

LEMMA PutHeapInv ==
  ASSUME HeapTypeOK, HeapFits, ~strained => IsHeap(data, size), NEW o \in Objects, Array!put(o)
  PROVE  HeapTypeOK' /\ HeapFits' /\ (~strained => IsHeap(data, size))'
<1>1. /\ heapstatus = "running" /\ room' = Array!Grown(size)
      /\ IF size < room'
         THEN data' = Array!Put(Numbers, data, size, o) /\ size' = size + 1 /\ heapstatus' = heapstatus
         ELSE heapstatus' = "overflow" /\ data' = data /\ size' = size
      /\ cloned' = cloned /\ strained' = strained
  BY DEF Array!put, Numbers
<1>2. Array!Put(Numbers, data, size, o) \in [0 .. size -> Objects]
  BY PutKeeps DEF HeapTypeOK
<1>3. IsHeap(data, size) => IsHeap(Array!Put(Numbers, data, size, o), size + 1)
  BY PutOrders DEF HeapTypeOK
<1>4. ~cloned => /\ size < room' /\ room' \in Nat \ {0}
                 /\ START_MEM <= room' /\ Array!PowerOfTwo(room')
  <2> SUFFICES ASSUME ~cloned PROVE /\ size < room' /\ room' \in Nat \ {0}
                                    /\ START_MEM <= room' /\ Array!PowerOfTwo(room')
    OBVIOUS
  <2>1. /\ room \in Nat \ {0} /\ size <= room /\ START_MEM <= room /\ Array!PowerOfTwo(room)
        /\ size \in Nat /\ START_MEM \in Nat \ {0}
    BY RoomAssumption DEF HeapFits, HeapTypeOK
  <2>2. CASE size >= START_MEM /\ Array!PowerOfTwo(size)
    <3>1. room' = 2 * size
      BY <1>1, <2>2 DEF Array!Grown
    <3>2. Array!PowerOfTwo(2 * size)
      <4>1. size \in Nat \ {0}
        BY <2>1, <2>2
      <4> QED
        BY <2>2, <4>1, DoubledIsPower
    <3> QED
      BY <2>1, <2>2, <3>1, <3>2
  <2>3. CASE ~(size >= START_MEM /\ Array!PowerOfTwo(size))
    <3>1. room' = room
      BY <1>1, <2>3 DEF Array!Grown
    <3>2. size # room
      BY <2>1, <2>3
    <3> QED
      BY <2>1, <3>1, <3>2
  <2> QED
    BY <2>2, <2>3
<1>5. CASE size < room'
  <2>1. /\ data' = Array!Put(Numbers, data, size, o) /\ size' = size + 1
        /\ heapstatus' = "running"
    BY <1>1, <1>5
  <2>2. size' - 1 = size /\ size' \in Nat
    BY <2>1 DEF HeapTypeOK
  <2>3. HeapTypeOK'
    BY <1>1, <1>2, <2>1, <2>2 DEF HeapTypeOK
  <2>4. HeapFits'
    BY <1>1, <1>4, <2>1 DEF HeapFits, HeapTypeOK
  <2> QED
    BY <1>1, <1>3, <2>1, <2>3, <2>4
<1>6. CASE ~(size < room')
  <2>1. data' = data /\ size' = size /\ cloned
    BY <1>1, <1>4, <1>6 DEF HeapTypeOK
  <2> QED
    BY <1>1, <2>1 DEF HeapTypeOK, HeapFits
<1> QED
  BY <1>5, <1>6

LEMMA GetHeapInv ==
  ASSUME HeapTypeOK, HeapFits, ~strained => IsHeap(data, size), Array!get
  PROVE  HeapTypeOK' /\ HeapFits' /\ (~strained => IsHeap(data, size))'
<1>1. room' = room /\ cloned' = cloned /\ heapstatus' = heapstatus
  BY DEF Array!get
<1>2. CASE size > 0
  <2>1. PICK beyond \in BOOLEAN : data' = Array!Sifted(Numbers, data, size, beyond).a
    BY <1>2 DEF Array!get, Numbers
  <2>2. size' = size - 1 /\ strained' = (strained \/ size > 3)
    BY <1>2 DEF Array!get
  <2>3. size \in Nat \ {0} /\ data \in [0 .. size - 1 -> Objects]
    BY <1>2 DEF HeapTypeOK
  <2>4. data' \in [0 .. size - 2 -> Objects]
    BY <2>1, <2>3, SiftKeeps
  <2>5. size' - 1 = size - 2 /\ size' \in Nat
    BY <2>2, <2>3
  <2>6. ~strained' => IsHeap(data', size')
    <3>0. strained' <=> strained \/ size > 3
      BY <2>2
    <3> SUFFICES ASSUME ~strained, size < 4 PROVE IsHeap(data', size')
      BY <2>3, <3>0
    <3>1. size \in Nat /\ size > 0 /\ IsHeap(data, size)
      BY <1>2, <2>3
    <3> QED
      BY <2>1, <2>2, <2>3, <3>1, SiftOrders
  <2> QED
    BY <1>1, <2>2, <2>3, <2>4, <2>5, <2>6 DEF HeapTypeOK, HeapFits
<1>3. CASE ~(size > 0)
  BY <1>1, <1>3 DEF Array!get, HeapTypeOK, HeapFits
<1> QED
  BY <1>2, <1>3

LEMMA NextHeapInv == HeapInv /\ [CNext]_cvars => HeapInv'
<1> SUFFICES ASSUME HeapInv, [CNext]_cvars, class' = "Heap" PROVE HeapInv'
  BY DEF HeapInv
<1>1. \/ class = "Heap" /\ Array!Next
      \/ UNCHANGED cvars
  BY DEF CNext, ChainClasses, Lists!Next
<1>2. class = "Heap" /\ HeapTypeOK /\ HeapFits /\ (~strained => IsHeap(data, size))
  BY <1>1 DEF HeapInv, cvars
<1> SUFFICES HeapTypeOK' /\ HeapFits' /\ (~strained => IsHeap(data, size))'
  BY DEF HeapInv
<1>3. ASSUME NEW o \in Objects, Array!put(o)
      PROVE  HeapTypeOK' /\ HeapFits' /\ (~strained => IsHeap(data, size))'
  BY <1>2, <1>3, PutHeapInv
<1>4. CASE Array!get
  BY <1>2, <1>4, GetHeapInv
<1>5. CASE Array!peek \/ Array!Overflown \/ UNCHANGED cvars
  <2>1. UNCHANGED array
    BY <1>5 DEF Array!peek, Array!Overflown, Array!heapvars, cvars, array
  <2> QED
    BY <1>2, <2>1 DEF array, HeapTypeOK, HeapFits
<1>6. CASE Array!clone
  BY <1>2, <1>6 DEF Array!clone, HeapTypeOK, HeapFits
<1>7. CASE Array!delete
  <2>1. /\ data' = <<>> /\ size' = 0 /\ room' = START_MEM /\ cloned' = FALSE
        /\ strained' = FALSE /\ heapstatus' = "running"
    BY <1>7 DEF Array!delete
  <2>2. (data \in [0 .. size - 1 -> Objects])' /\ IsHeap(data, size)'
    <3>1. data' \in [0 .. size' - 1 -> Objects] /\ IsHeap(data', size')
      BY <2>1, EmptyHeap
    <3> QED
      BY <3>1
  <2>3. HeapTypeOK'
    BY <2>1, <2>2 DEF HeapTypeOK
  <2>4. HeapFits'
    BY <2>1, RoomAssumption DEF HeapFits
  <2> QED
    BY <2>2, <2>3, <2>4
<1> QED
  BY <1>1, <1>3, <1>4, <1>5, <1>6, <1>7 DEF Array!Next

LEMMA CountIsTimes ==
  ASSUME NEW o
  PROVE  /\ Array!Count(o) = Times(data, 0 .. size - 1, o)
         /\ Array!Count(o)' = Times(data', 0 .. size' - 1, o)
<1>1. Array!Count(o) = Times(data, 0 .. size - 1, o)
  BY DEF Array!Count, Times, Array!Cardinality, Cardinality
<1>2. Array!Count(o)' = Times(data', 0 .. size' - 1, o)
  BY DEF Array!Count, Times, Array!Cardinality, Cardinality
<1> QED
  BY <1>1, <1>2

LEMMA HeapInvKeeps == HeapInv /\ class = "Heap" => Array!KeepsElements
<1> SUFFICES ASSUME HeapTypeOK, NEW o \in Objects
             PROVE  /\ Array!put(o) /\ heapstatus' = "running" =>
                         \A q \in Objects : Array!Count(q)' =
                                            Array!Count(q) + (IF q = o THEN 1 ELSE 0)
                    /\ Array!get => Array!Count(o)' = Array!Count(o) -
                                      (IF size > 0 /\ answer' = o THEN 1 ELSE 0)
  BY DEF HeapInv, Array!KeepsElements
<1>1. /\ \A q : Array!Count(q) = Times(data, 0 .. size - 1, q)
      /\ \A q : Array!Count(q)' = Times(data', 0 .. size' - 1, q)
  BY CountIsTimes
<1>2. size \in Nat /\ data \in [0 .. size - 1 -> Objects]
  BY DEF HeapTypeOK
<1>3. ASSUME Array!put(o), heapstatus' = "running", NEW q \in Objects
      PROVE  Array!Count(q)' = Array!Count(q) + (IF q = o THEN 1 ELSE 0)
  <2>1. data' = Array!Put(Numbers, data, size, o) /\ size' = size + 1
    BY <1>3 DEF Array!put, Numbers
  <2>2. size' - 1 = size
    BY <1>2, <2>1
  <2>3. Times(data', 0 .. size, q) =
          Times(data, 0 .. size - 1, q) + (IF q = o THEN 1 ELSE 0)
    BY <1>2, <2>1, PutKeeps
  <2> QED
    BY <1>1, <2>2, <2>3
<1>4. ASSUME Array!get
      PROVE  Array!Count(o)' = Array!Count(o) - (IF size > 0 /\ answer' = o THEN 1 ELSE 0)
  <2>1. CASE size > 0
    <3>1. PICK beyond \in BOOLEAN : data' = Array!Sifted(Numbers, data, size, beyond).a
      BY <1>4, <2>1 DEF Array!get, Numbers
    <3>2. size' = size - 1 /\ answer' = data[0]
      BY <1>4, <2>1 DEF Array!get
    <3>3. size \in Nat \ {0} /\ size' - 1 = size - 2
      BY <1>2, <2>1, <3>2
    <3>4. Times(data', 0 .. size - 2, o) =
            Times(data, 0 .. size - 1, o) - (IF o = data[0] THEN 1 ELSE 0)
      BY <1>2, <3>1, <3>3, SiftKeeps
    <3> QED
      BY <1>1, <2>1, <3>2, <3>3, <3>4
  <2>2. CASE ~(size > 0)
    <3>1. data' = data /\ size' = size
      BY <1>4, <2>2 DEF Array!get
    <3>2. Array!Count(o) \in Nat
      <4>1. size - 1 \in Int
        BY <1>2
      <4>2. Times(data, 0 .. size - 1, o) \in Nat
        BY <4>1, TimesNatural
      <4> QED
        BY <1>1, <4>2
    <3> QED
      BY <1>1, <2>2, <3>1, <3>2
  <2> QED
    BY <2>1, <2>2
<1> QED
  BY <1>3, <1>4

LEMMA HeapInvIsSound ==
  HeapInv => (class = "Heap" => Array!SmallIsOrdered /\ Array!ReadsInside /\ Array!WritesInside)
<1> SUFFICES ASSUME HeapTypeOK, HeapFits, ~strained => IsHeap(data, size)
             PROVE  Array!SmallIsOrdered /\ Array!ReadsInside /\ Array!WritesInside
  BY DEF HeapInv
<1>1. Array!SmallIsOrdered
  BY DEF Array!SmallIsOrdered, IsHeap
<1>2. Array!ReadsInside
  <2>1. size < 7 => Array!Sifted(Numbers, data, size, TRUE).strayed = FALSE
    BY SiftInside DEF HeapTypeOK
  <2> QED
    BY <2>1 DEF Array!ReadsInside, Numbers
<1>3. Array!WritesInside
  BY DEF Array!WritesInside, HeapFits
<1> QED
  BY <1>1, <1>2, <1>3

(* The array heap, of any size and with any objects: put and get lose no    *)
(* element and make none up, it is in order until get was called on more    *)
(* than three, get compares none behind the last of six, and put writes     *)
(* inside the array unless the heap is a clone.                             *)
THEOREM HeapAlwaysSound == CSpec => HeapIsSound
<1>1. HeapInv /\ [CNext]_cvars => [class = "Heap" => Array!KeepsElements]_cvars
  BY HeapInvKeeps
<1>2. HeapIsSound <=>
        /\ [](class = "Heap" => Array!SmallIsOrdered /\ Array!ReadsInside /\ Array!WritesInside)
        /\ [][class = "Heap" => Array!KeepsElements]_cvars
  BY DEF HeapIsSound
<1> QED
  BY <1>1, <1>2, InitHeapInv, NextHeapInv, HeapInvIsSound, PTL DEF CSpec
-----------------------------------------------------------------------------
(* The random numbers.  Between two different powers of two lies none.     *)
LEMMA PowersGrow ==
  ASSUME NEW n \in Nat
  PROVE  \A l \in 0 .. n : /\ Powers(n)[l] \in Nat \ {0}
                           /\ \A k \in 0 .. l - 1 : 2 * Powers(n)[k] <= Powers(n)[l]
<1> DEFINE P == Powers(n)
           Grows(l) == P[l] \in Nat \ {0} /\ \A k \in 0 .. l - 1 : 2 * P[k] <= P[l]
           Bad == {l \in 0 .. n : ~Grows(l)}
<1> SUFFICES ASSUME Bad # {} PROVE FALSE
  OBVIOUS
<1>1. \A k \in 0 .. n : P[k] = IF k = 0 THEN 1 ELSE 2 * P[k - 1]
  BY PowersAre
<1> HIDE DEF P
<1>2. PICK l \in Bad : \A k \in Bad : l <= k
  <2>1. Bad \in SUBSET Nat
    OBVIOUS
  <2> HIDE DEF Bad
  <2> QED
    BY <2>1, LeastNatural
<1>3. l \in 0 .. n /\ ~Grows(l)
  OBVIOUS
<1>4. l # 0
  BY <1>1, <1>3
<1>5. Grows(l - 1)
  <2>1. l - 1 \in 0 .. n /\ l - 1 < l
    BY <1>3, <1>4
  <2>2. l - 1 \notin Bad
    <3> HIDE DEF Bad
    <3> QED
      BY <1>2, <1>3, <2>1
  <2> QED
    BY <2>1, <2>2
<1>6. P[l] = 2 * P[l - 1]
  BY <1>1, <1>3, <1>4
<1>7. P[l - 1] \in Nat \ {0} /\ P[l] \in Nat \ {0} /\ P[l - 1] <= P[l]
  BY <1>5, <1>6
<1>8. ASSUME NEW k \in 0 .. l - 1 PROVE 2 * P[k] <= P[l]
  <2>1. CASE k = l - 1
    BY <1>6, <1>7, <2>1
  <2>2. CASE k # l - 1
    <3>1. k \in 0 .. (l - 1) - 1 /\ k \in 0 .. n
      BY <1>3, <2>2
    <3>2. P[k] \in Nat
      <4>1. k < l
        BY <1>3, <3>1
      <4>2. k \notin Bad
        <5> HIDE DEF Bad
        <5> QED
          BY <1>2, <1>3, <3>1, <4>1
      <4> QED
        BY <3>1, <4>2
    <3>3. 2 * P[k] <= P[l - 1]
      BY <1>5, <3>1
    <3> QED
      BY <1>7, <3>2, <3>3
  <2> QED
    BY <2>1, <2>2
<1> QED
  BY <1>3, <1>7, <1>8

LEMMA PowerOfTwoAt ==
  ASSUME NEW n \in Nat
  PROVE  PowerOfTwo(n) <=> \E k \in 0 .. n : Powers(n)[k] = n
  BY DEF PowerOfTwo, Powers

LEMMA SamePowerOfTwo ==
  ASSUME NEW n \in Nat
  PROVE  PowerOfTwo(n) <=> Array!PowerOfTwo(n)
  BY PowerOfTwoAt, PowerOfTwoIs

LEMMA PowersApart ==
  ASSUME NEW p \in Nat, NEW q \in Nat, PowerOfTwo(p), PowerOfTwo(q), p < q
  PROVE  2 * p <= q
<1> DEFINE Q == Powers(q)
<1>1. PICK k \in 0 .. p : Powers(p)[k] = p
  BY PowerOfTwoAt
<1>2. PICK l \in 0 .. q : Q[l] = q
  BY PowerOfTwoAt
<1>3. k \in 0 .. q /\ Q[k] = p
  BY <1>1, SamePowers
<1>4. \A a \in 0 .. q : \A b \in 0 .. a - 1 : 2 * Q[b] <= Q[a]
  BY PowersGrow
<1> HIDE DEF Q
<1>5. k < l
  <2> SUFFICES ASSUME l <= k PROVE FALSE
    BY <1>2, <1>3
  <2>1. l # k
    BY <1>2, <1>3
  <2>2. l \in 0 .. k - 1
    BY <1>2, <1>3, <2>1
  <2>3. 2 * q <= p
    BY <1>2, <1>3, <1>4, <2>2
  <2> QED
    BY <2>3
<1>6. k \in 0 .. l - 1
  BY <1>2, <1>3, <1>5
<1> QED
  BY <1>2, <1>3, <1>4, <1>6

\* The first n values of the file.
FromStart(arr, n) == /\ arr \in Seq(Nat) /\ Len(arr) = n
                     /\ \A k \in 1 .. n : arr[k] = k

\* What a scan yields that goes on behind the first b values.
LEMMA ScanGoesOn ==
  ASSUME length \in Nat, NEW b \in Nat, NEW arr, FromStart(arr, b), NEW upto \in Nat,
         b <= length, b <= upto
  PROVE  LET scan == Scan(arr, Tell(b), upto)
         IN  /\ upto <= length => /\ scan.end = FALSE
                                  /\ FromStart(scan.vals, upto)
                                  /\ scan.off = 2 * (upto + 1)
             /\ length < upto => /\ scan.end = TRUE
                                 /\ FromStart(scan.vals, length)
                                 /\ scan.off = length
<1> DEFINE n == IF upto - b <= length - b THEN upto - b ELSE length - b
           more == [k \in 1 .. n |-> b + k]
           got == arr \o more
           fin == n < upto - b
           scan == Scan(arr, Tell(b), upto)
<1>1. /\ arr \in Seq(Nat) /\ Len(arr) = b
      /\ \A k \in 1 .. b : arr[k] = k
  BY DEF FromStart
<1>2. ValuesBefore(Tell(b)) = b
  BY DEF ValuesBefore, Tell
<1>3. scan = [vals |-> got, end |-> fin, off |-> IF fin THEN Len(got) ELSE Tell(b + n)]
  BY <1>1, <1>2 DEF Scan
<1>4. n \in Nat
  OBVIOUS
<1> HIDE DEF n
<1>5. more \in Seq(Nat) /\ Len(more) = n
  BY <1>4
<1>6. FromStart(got, b + n)
  <2>1. /\ got \in Seq(Nat) /\ Len(got) = b + n
        /\ \A k \in 1 .. b + n : got[k] = IF k <= b THEN arr[k] ELSE more[k - b]
    <3> HIDE DEF more
    <3>1. /\ got \in Seq(Nat) /\ Len(got) = Len(arr) + Len(more)
          /\ \A k \in 1 .. Len(arr) + Len(more) :
               got[k] = IF k <= Len(arr) THEN arr[k] ELSE more[k - Len(arr)]
      BY <1>1, <1>5, ConcatProperties
    <3> HIDE DEF got
    <3> QED
      BY <1>1, <1>5, <3>1
  <2>2. ASSUME NEW k \in 1 .. b + n PROVE got[k] = k
    <3>1. CASE k <= b
      <4> HIDE DEF got, more
      <4> QED
        BY <1>1, <1>4, <2>1, <3>1
    <3>2. CASE b < k
      <4>1. k - b \in 1 .. n
        BY <1>4, <3>2
      <4>2. more[k - b] = b + (k - b)
        BY <4>1
      <4> HIDE DEF got, more
      <4>3. got[k] = more[k - b]
        BY <1>4, <2>1, <3>2
      <4> QED
        BY <4>2, <4>3
    <3> HIDE DEF got
    <3> QED
      BY <1>4, <3>1, <3>2
  <2> QED
    BY <2>1, <2>2 DEF FromStart
<1> HIDE DEF got, more, fin, scan
<1>7. CASE upto <= length
  <2>1. n = upto - b /\ b + n = upto
    BY <1>7 DEF n
  <2>2. fin = FALSE
    BY <2>1 DEF fin
  <2>3. scan.end = FALSE /\ scan.vals = got /\ scan.off = Tell(b + n)
    BY <1>3, <2>2
  <2> QED
    BY <1>6, <1>7, <2>1, <2>3 DEF scan, Tell
<1>8. CASE length < upto
  <2>1. n = length - b /\ b + n = length /\ n < upto - b
    BY <1>8 DEF n
  <2>2. fin = TRUE /\ Len(got) = length
    BY <1>6, <2>1 DEF FromStart, fin
  <2>3. scan.end = TRUE /\ scan.vals = got /\ scan.off = length
    BY <1>3, <2>1, <2>2
  <2> QED
    BY <1>6, <1>8, <2>1, <2>3 DEF scan
<1> QED
  BY <1>7, <1>8

\* The numbers drawn so far, in any state.
RandomTypeOK == /\ length \in Nat \ {0} /\ drawn \in Nat
                /\ allocated \in BOOLEAN /\ emptied_file \in BOOLEAN

\* Before the end of the file was met: the array, a power of two long, holds
\* the front of the file, and since it was last doubled the number drawn has
\* been more than a half of it, so no power of two until it is used up.
Grows(n) == /\ FromStart(randvals, n)
            /\ n \in Nat /\ n <= length /\ needs_more_mem(n)
            /\ offset = Tell(n)
            /\ drawn <= n /\ out = drawn
            /\ n = RANDOM_MEM \/ n < 2 * drawn

\* Behind it: all the file, and the last draw was inside unless the array was
\* found full when it should have been doubled.
HoldsAll == /\ FromStart(randvals, length)
            /\ offset = length
            /\ \/ drawn <= length /\ out = drawn
               \/ drawn = length + 1 /\ out = OUTSIDE

RandomInv == /\ RandomTypeOK
             /\ allocated = FALSE => emptied_file = FALSE /\ out = 0
             /\ allocated = TRUE /\ emptied_file = FALSE => \E n \in Nat : Grows(n)
             /\ allocated = TRUE /\ emptied_file = TRUE => HoldsAll

LEMMA InitRandomInv == RandomInit => RandomInv
<1> SUFFICES ASSUME RandomInit PROVE RandomInv
  OBVIOUS
<1>1. length \in Nat \ {0} /\ drawn = 0 /\ allocated = FALSE /\ emptied_file = FALSE /\ out = 0
  BY RandomAssumption DEF RandomInit
<1>2. RandomTypeOK
  BY <1>1 DEF RandomTypeOK
<1> QED
  BY <1>1, <1>2 DEF RandomInv

LEMMA InitRandomKeeps ==
  ASSUME RandomInv, init_random
  PROVE  RandomInv'
<1> DEFINE scan == Scan(<<>>, Tell(0), RANDOM_MEM)
<1>1. /\ allocated = FALSE /\ allocated' = TRUE /\ drawn' = 0
      /\ randvals' = scan.vals /\ offset' = scan.off /\ emptied_file' = scan.end
      /\ length' = length /\ out' = 0
  BY DEF init_random, RandomInv, RandomTypeOK, Store
<1>2. length \in Nat \ {0}
  BY DEF RandomInv, RandomTypeOK
<1>3. /\ RANDOM_MEM <= length => /\ scan.end = FALSE
                                 /\ FromStart(scan.vals, RANDOM_MEM)
                                 /\ scan.off = 2 * (RANDOM_MEM + 1)
      /\ length < RANDOM_MEM => /\ scan.end = TRUE
                                /\ FromStart(scan.vals, length)
                                /\ scan.off = length
  <2>1. FromStart(<<>>, 0)
    BY DEF FromStart
  <2>2. RANDOM_MEM \in Nat /\ 0 \in Nat /\ 0 <= RANDOM_MEM /\ 0 <= length /\ length \in Nat
    BY <1>2, RandomAssumption
  <2> QED
    BY <2>1, <2>2, ScanGoesOn
<1> HIDE DEF scan
<1>4. CASE RANDOM_MEM <= length
  <2>1. Grows(RANDOM_MEM)'
    BY <1>1, <1>2, <1>3, <1>4, RandomAssumption DEF Grows, FromStart, needs_more_mem, Tell
  <2>2. emptied_file' = FALSE /\ RANDOM_MEM \in Nat
    BY <1>1, <1>3, <1>4, RandomAssumption
  <2> QED
    BY <1>1, <1>2, <2>1, <2>2 DEF RandomInv, RandomTypeOK
<1>5. CASE length < RANDOM_MEM
  <2>1. HoldsAll'
    BY <1>1, <1>2, <1>3, <1>5 DEF HoldsAll, FromStart
  <2>2. emptied_file' = TRUE
    BY <1>1, <1>3, <1>5
  <2> QED
    BY <1>1, <1>2, <2>1, <2>2 DEF RandomInv, RandomTypeOK
<1> QED
  BY <1>2, <1>4, <1>5, RandomAssumption

\* A draw takes the next value, of the array as it is or doubled.
LEMMA DrawKeeps ==
  ASSUME RandomInv, myrandom
  PROVE  RandomInv' /\ DrawsOn
<1>1. /\ length \in Nat \ {0} /\ drawn \in Nat
      /\ allocated \in BOOLEAN /\ emptied_file \in BOOLEAN
  BY DEF RandomInv, RandomTypeOK
<1>2. length' = length /\ allocated' = allocated
  BY DEF myrandom
<1>3. CASE allocated = FALSE
  <2>1. out' = 0 /\ emptied_file' = emptied_file /\ drawn' = drawn
    BY <1>3 DEF myrandom
  <2> QED
    BY <1>1, <1>2, <1>3, <2>1 DEF RandomInv, RandomTypeOK, DrawsOn
<1>4. CASE allocated = TRUE /\ emptied_file = FALSE
  <2>1. PICK n \in Nat : Grows(n)
    BY <1>4 DEF RandomInv
  <2>2. /\ FromStart(randvals, n) /\ n <= length /\ needs_more_mem(n) /\ offset = Tell(n)
        /\ drawn <= n /\ out = drawn
        /\ n = RANDOM_MEM \/ n < 2 * drawn
    BY <2>1 DEF Grows
  <2>3. RANDOM_MEM \in Nat \ {0} /\ n >= RANDOM_MEM /\ PowerOfTwo(n)
    BY <2>2, RandomAssumption DEF needs_more_mem
  <2>4. needs_more_mem(drawn) <=> drawn = n
    <3>1. needs_more_mem(drawn) => drawn = n
      <4> SUFFICES ASSUME drawn >= RANDOM_MEM, PowerOfTwo(drawn), drawn < n PROVE FALSE
        BY <1>1, <2>2 DEF needs_more_mem
      <4>1. 2 * drawn <= n
        BY <1>1, <2>3, PowersApart
      <4> QED
        BY <1>1, <2>2, <2>3, <4>1
    <3> QED
      BY <2>2, <3>1
  <2>5. CASE drawn # n
    <3>1. Take(randvals, Place) /\ randvals' = randvals /\ offset' = offset
          /\ emptied_file' = emptied_file
      BY <1>4, <2>4, <2>5 DEF myrandom
    <3>2. Place = drawn /\ drawn < n
      BY <1>1, <2>2, <2>5 DEF Place, Tell
    <3>3. out' = drawn + 1 /\ drawn' = drawn + 1
      BY <1>1, <2>2, <3>1, <3>2 DEF Take, FromStart
    <3>4. Grows(n)'
      BY <1>1, <1>2, <2>2, <3>1, <3>2, <3>3 DEF Grows, FromStart, needs_more_mem, Tell
    <3>5. DrawsOn
      <4>1. out' # OUTSIDE /\ out # OUTSIDE
        BY <1>1, <2>2, <3>3 DEF OUTSIDE
      <4>2. out < length /\ out \in Nat
        BY <1>1, <2>2, <3>2
      <4>3. out % length = out
        BY <1>1, <4>2
      <4> QED
        BY <2>2, <3>3, <4>1, <4>3 DEF DrawsOn
    <3> QED
      BY <1>1, <1>2, <1>4, <3>1, <3>3, <3>4, <3>5 DEF RandomInv, RandomTypeOK
  <2>6. CASE drawn = n
    <3> DEFINE scan == Refilled
    <3>1. /\ randvals' = scan.vals /\ offset' = scan.off /\ emptied_file' = scan.end
          /\ Take(scan.vals, n)
      BY <1>4, <2>4, <2>6 DEF myrandom, Store
    <3>2. scan = Scan(randvals, Tell(n), 2 * n)
      <4>1. SubSeq(randvals, 1, n) = randvals
        BY <2>2 DEF FromStart
      <4> QED
        BY <2>2, <2>6, <4>1 DEF Refilled
    <3>3. /\ 2 * n <= length => /\ scan.end = FALSE
                                /\ FromStart(scan.vals, 2 * n)
                                /\ scan.off = 2 * (2 * n + 1)
          /\ length < 2 * n => /\ scan.end = TRUE
                               /\ FromStart(scan.vals, length)
                               /\ scan.off = length
      <4>1. length \in Nat /\ n \in Nat /\ 2 * n \in Nat /\ n <= length /\ n <= 2 * n
        BY <1>1, <2>2
      <4> HIDE DEF scan
      <4>2. FromStart(randvals, n)
        BY <2>2
      <4> QED
        BY <3>2, <4>1, <4>2, ScanGoesOn
    <3> HIDE DEF scan
    <3>4. drawn' = n + 1
      BY <3>1 DEF Take
    <3>5. ASSUME n < length PROVE out' = n + 1 /\ DrawsOn
      <4>1. PICK m \in Nat : FromStart(scan.vals, m) /\ n < m
        <5>1. 2 * n \in Nat /\ n < 2 * n /\ length \in Nat
          BY <1>1, <2>3
        <5> QED
          BY <3>3, <3>5, <5>1
      <4>2. out' = n + 1
        BY <3>1, <4>1 DEF Take, FromStart
      <4>3. out' # OUTSIDE /\ out # OUTSIDE /\ out = n
        BY <2>2, <2>6, <4>2 DEF OUTSIDE
      <4>4. n % length = n
        BY <1>1, <3>5
      <4> QED
        BY <4>2, <4>3, <4>4 DEF DrawsOn
    <3>6. CASE 2 * n <= length
      <4>1. n < length /\ 2 * n \in Nat
        BY <1>1, <2>3, <3>6
      <4>2. PowerOfTwo(2 * n)
        <5>1. n \in Nat \ {0} /\ Array!PowerOfTwo(n)
          BY <2>3, SamePowerOfTwo
        <5> QED
          BY <4>1, <5>1, DoubledIsPower, SamePowerOfTwo
      <4>3. needs_more_mem(2 * n)
        BY <2>3, <4>2 DEF needs_more_mem
      <4>4. 2 * n < 2 * drawn' /\ drawn' <= 2 * n
        BY <2>3, <3>4
      <4>5. Grows(2 * n)'
        BY <1>2, <3>1, <3>3, <3>4, <3>5, <3>6, <4>1, <4>3, <4>4
           DEF Grows, FromStart, needs_more_mem, Tell
      <4>6. emptied_file' = FALSE
        BY <3>1, <3>3, <3>6
      <4>7. (\E m \in Nat : Grows(m))'
        BY <4>1, <4>5
      <4>8. RandomTypeOK' /\ allocated' = TRUE
        <5>1. drawn' \in Nat
          BY <3>4
        <5> QED
          BY <1>1, <1>2, <1>4, <4>6, <5>1 DEF RandomTypeOK
      <4> QED
        BY <3>5, <4>1, <4>6, <4>7, <4>8 DEF RandomInv
    <3>7. CASE length < 2 * n
      <4>1. emptied_file' = TRUE /\ offset' = length /\ FromStart(randvals, length)'
        BY <1>2, <3>1, <3>3, <3>7 DEF FromStart
      <4>2. CASE n < length
        <5>1. HoldsAll'
          BY <1>1, <1>2, <3>4, <3>5, <4>1, <4>2 DEF HoldsAll
        <5> QED
          BY <1>1, <1>2, <1>4, <3>4, <3>5, <4>1, <4>2, <5>1 DEF RandomInv, RandomTypeOK
      <4>3. CASE n = length
        <5>1. out' = OUTSIDE
          BY <3>1, <3>3, <3>7, <4>3 DEF Take, FromStart
        <5>2. HoldsAll'
          BY <1>2, <3>4, <4>1, <4>3, <5>1 DEF HoldsAll
        <5>3. DrawsOn
          BY <1>4, <2>2, <2>6, <4>3, <5>1 DEF DrawsOn, FillsArray
        <5> QED
          BY <1>1, <1>2, <1>4, <3>4, <4>1, <5>2, <5>3 DEF RandomInv, RandomTypeOK
      <4> QED
        BY <1>1, <2>2, <4>2, <4>3
    <3> QED
      BY <1>1, <3>6, <3>7
  <2> QED
    BY <2>5, <2>6
<1>5. CASE allocated = TRUE /\ emptied_file = TRUE
  <2>1. /\ FromStart(randvals, length) /\ offset = length
        /\ \/ drawn <= length /\ out = drawn
           \/ drawn = length + 1 /\ out = OUTSIDE
    BY <1>5 DEF RandomInv, HoldsAll
  <2>2. Take(randvals, Place) /\ randvals' = randvals /\ offset' = offset
        /\ emptied_file' = emptied_file
    BY <1>5 DEF myrandom
  <2>3. Place \in Nat /\ Place < length /\ Place = IF drawn >= length THEN 0 ELSE drawn
    BY <1>1, <2>1 DEF Place
  <2>4. out' = Place + 1 /\ drawn' = Place + 1
    BY <2>1, <2>2, <2>3 DEF Take, FromStart
  <2>5. HoldsAll'
    BY <1>1, <1>2, <2>1, <2>2, <2>3, <2>4 DEF HoldsAll, FromStart
  <2>6. DrawsOn
    <3>1. out' # OUTSIDE
      BY <2>3, <2>4 DEF OUTSIDE
    <3>2. CASE out = OUTSIDE
      <4>1. drawn = length + 1
        BY <1>1, <2>1, <3>2 DEF OUTSIDE
      <4> QED
        BY <1>1, <2>3, <2>4, <3>1, <3>2, <4>1 DEF DrawsOn
    <3>3. CASE out # OUTSIDE
      <4>1. drawn <= length /\ out = drawn
        BY <2>1, <3>3
      <4>2. out % length = Place
        <5>1. CASE drawn = length
          <6>1. length % length = 0
            BY <1>1
          <6> QED
            BY <1>1, <2>3, <4>1, <5>1, <6>1
        <5>2. CASE drawn < length
          BY <1>1, <2>3, <4>1, <5>2
        <5> QED
          BY <1>1, <4>1, <5>1, <5>2
      <4> QED
        BY <2>4, <3>1, <3>3, <4>2 DEF DrawsOn
    <3> QED
      BY <3>2, <3>3
  <2> QED
    BY <1>1, <1>2, <1>5, <2>2, <2>3, <2>4, <2>5, <2>6 DEF RandomInv, RandomTypeOK
<1> QED
  BY <1>1, <1>3, <1>4, <1>5

LEMMA NextRandomInv == RandomInv /\ [RandomNext]_random => RandomInv' /\ [DrawsOn]_random
<1> SUFFICES ASSUME RandomInv, [RandomNext]_random PROVE RandomInv' /\ [DrawsOn]_random
  OBVIOUS
<1>1. CASE init_random
  <2>1. DrawsOn
    BY <1>1 DEF init_random, DrawsOn
  <2> QED
    BY <1>1, <2>1, InitRandomKeeps
<1>2. CASE myrandom
  BY <1>2, DrawKeeps
<1>3. CASE UNCHANGED random
  BY <1>3 DEF random, RandomInv, RandomTypeOK, Grows, HoldsAll, FromStart, needs_more_mem
<1> QED
  BY <1>1, <1>2, <1>3 DEF RandomNext

(* Of a file of any length, with a first array of any power of two: the     *)
(* draws are its values in order, over and over; where the file fills the   *)
(* array exactly, the draw that meets its end, and no later one, lies       *)
(* outside the array.                                                       *)
THEOREM DrawsAlwaysOn == RandomSpec => WrapsAround
  BY InitRandomInv, NextRandomInv, PTL DEF RandomSpec, WrapsAround
-----------------------------------------------------------------------------
(* The reader of instructions.  Behind place p the text is that of a       *)
(* comment if there is a '#' with no end of a line up to p; whether place  *)
(* k is in the code, and what number it holds, follows from k - 1.         *)
InComment(p) == \E h \in 1 .. p : stream[h] = HASH /\ \A n \in h .. p : stream[n] # LF

NumbersTo(p) == Cardinality({n \in Places : n <= p})

\* All that stops the reader: the obstacles and the hidden comments.
Barriers == Obstacles \cup Hidden

\* Nothing up to p stops the reader.
ClearTo(p) == \A k \in Barriers : k > p

\* How many numbers are in front of the first barrier.
Total == IF Barriers = {} THEN Cardinality(Places)
         ELSE NumbersBefore(CHOOSE k \in Barriers : \A l \in Barriers : k <= l)

Tried == stream \in InputFiles

LEMMA FileIs ==
  ASSUME Tried
  PROVE  /\ Len(stream) \in Nat /\ DOMAIN stream = 1 .. Len(stream)
         /\ \A k \in 1 .. Len(stream) : CharAt(k) = stream[k] /\ stream[k] # END
         /\ CharAt(Len(stream) + 1) = END
<1>1. /\ Len(stream) \in Nat /\ DOMAIN stream = 1 .. Len(stream)
      /\ \A k \in 1 .. Len(stream) : stream[k] # END
  BY InputAssumption DEF Tried
<1>2. Len(stream) + 1 \notin 1 .. Len(stream)
  BY <1>1
<1> QED
  BY <1>1, <1>2 DEF CharAt

LEMMA Kinds ==
  /\ ~IsNum(END) /\ ~IsNum(HASH) /\ \A e \in Whitespace : ~IsNum(e)
  /\ END \notin Whitespace /\ HASH \notin Whitespace /\ HASH # END /\ HASH # LF
  /\ LF \in Whitespace /\ LF \in Swallowed /\ LF # END
  /\ CR \notin Swallowed
  /\ \A e \in Whitespace \ Swallowed : e = CR
  /\ HASH # CR /\ Swallowed \subseteq Whitespace
  BY InputAssumption DEF END, HASH, Whitespace, Swallowed, LF, CR

LEMMA CommentNext ==
  ASSUME Tried, NEW p \in 0 .. Len(stream) - 1
  PROVE  InComment(p + 1) <=> stream[p + 1] # LF /\ (InComment(p) \/ stream[p + 1] = HASH)
<1>1. p \in Nat /\ p + 1 \in 1 .. Len(stream)
  BY FileIs
<1>2. ASSUME InComment(p + 1)
      PROVE  stream[p + 1] # LF /\ (InComment(p) \/ stream[p + 1] = HASH)
  <2>1. PICK h \in 1 .. p + 1 : stream[h] = HASH /\ \A n \in h .. p + 1 : stream[n] # LF
    BY <1>2 DEF InComment
  <2>2. p + 1 \in h .. p + 1
    BY <1>1, <2>1
  <2>3. CASE h = p + 1
    BY <2>1, <2>2, <2>3
  <2>4. CASE h # p + 1
    <3>1. h \in 1 .. p /\ \A n \in h .. p : n \in h .. p + 1
      BY <1>1, <2>1, <2>4
    <3> QED
      BY <2>1, <2>2, <3>1 DEF InComment
  <2> QED
    BY <2>3, <2>4
<1>3. ASSUME stream[p + 1] # LF, InComment(p)
      PROVE  InComment(p + 1)
  <2>1. PICK h \in 1 .. p : stream[h] = HASH /\ \A n \in h .. p : stream[n] # LF
    BY <1>3 DEF InComment
  <2>2. h \in 1 .. p + 1 /\ \A n \in h .. p + 1 : n \in h .. p \/ n = p + 1
    BY <1>1, <2>1
  <2> QED
    BY <1>3, <2>1, <2>2 DEF InComment
<1>4. ASSUME stream[p + 1] # LF, stream[p + 1] = HASH
      PROVE  InComment(p + 1)
  <2>1. p + 1 \in 1 .. p + 1 /\ \A n \in p + 1 .. p + 1 : n = p + 1
    BY <1>1
  <2> QED
    BY <1>4, <2>1 DEF InComment
<1> QED
  BY <1>2, <1>3, <1>4

LEMMA NoneAtFirst == ~InComment(0)
  BY DEF InComment

LEMMA CodeIs ==
  ASSUME Tried, NEW k \in 1 .. Len(stream)
  PROVE  k \in Code <=> ~InComment(k - 1) /\ stream[k] # HASH
<1>1. k \in Nat \ {0} /\ k \in DOMAIN stream
  BY FileIs
<1>2. k \in Code <=> \A h \in 1 .. k : stream[h] = HASH => \E n \in h .. k - 1 : stream[n] = LF
  BY <1>1 DEF Code
<1>3. \A h : h \in 1 .. k <=> h \in 1 .. k - 1 \/ h = k
  BY <1>1
<1>4. k .. k - 1 = {}
  BY <1>1
<1> QED
  BY <1>2, <1>3, <1>4 DEF InComment

LEMMA PlacesAre ==
  ASSUME Tried
  PROVE  /\ Code \subseteq 1 .. Len(stream) /\ Places \subseteq Code
         /\ Barriers \subseteq 1 .. Len(stream)
         /\ IsFiniteSet(Places) /\ NumbersTo(0) = 0
         /\ NumbersTo(Len(stream)) = Cardinality(Places)
         /\ \A p : NumbersTo(p) \in Nat
         /\ \A p \in Nat, q \in Nat : p <= q => NumbersTo(p) <= NumbersTo(q)
         /\ \A k \in Nat : NumbersBefore(k) = NumbersTo(k - 1)
<1>1. /\ Code \subseteq 1 .. Len(stream) /\ Places \subseteq Code
      /\ Barriers \subseteq 1 .. Len(stream)
  BY FileIs DEF Code, Places, Barriers, Obstacles, Hidden, Comments
<1>2. IsFiniteSet(Places)
  <2>1. Len(stream) \in Int /\ 1 \in Int
    BY FileIs
  <2>2. IsFiniteSet(1 .. Len(stream))
    BY <2>1, FS_Interval
  <2>3. Places \in SUBSET (1 .. Len(stream))
    BY <1>1
  <2> QED
    BY <2>2, <2>3, FS_Subset
<1>3. ASSUME NEW p
      PROVE  IsFiniteSet({n \in Places : n <= p})
  BY <1>2, FS_Subset
<1>4. \A p : NumbersTo(p) \in Nat
  BY <1>3, FS_CardinalityType DEF NumbersTo
<1>5. ASSUME NEW p \in Nat, NEW q \in Nat, p <= q
      PROVE  NumbersTo(p) <= NumbersTo(q)
  <2>1. \A n \in Places : n \in Nat
    BY <1>1
  <2>2. {n \in Places : n <= p} \subseteq {n \in Places : n <= q}
    BY <1>5, <2>1
  <2> QED
    BY <1>3, <2>2, FS_Subset DEF NumbersTo
<1>6. NumbersTo(0) = 0
  <2>1. {n \in Places : n <= 0} = {}
    <3>1. \A n \in Places : n \in 1 .. Len(stream)
      BY <1>1
    <3>2. \A n \in Places : ~ (n <= 0)
      BY <3>1, FileIs
    <3> QED
      BY <3>2
  <2> QED
    BY <2>1, FS_EmptySet DEF NumbersTo
<1>7. NumbersTo(Len(stream)) = Cardinality(Places)
  <2>1. {n \in Places : n <= Len(stream)} = Places
    <3>1. \A n \in Places : n \in 1 .. Len(stream)
      BY <1>1
    <3>2. \A n \in Places : n <= Len(stream)
      BY <3>1, FileIs
    <3> QED
      BY <3>2
  <2> QED
    BY <2>1 DEF NumbersTo
<1>8. ASSUME NEW k \in Nat
      PROVE  NumbersBefore(k) = NumbersTo(k - 1)
  <2>1. \A n \in Places : n \in Nat
    BY <1>1
  <2>2. {n \in Places : n < k} = {n \in Places : n <= k - 1}
    BY <2>1
  <2> QED
    BY <2>2 DEF NumbersBefore, NumbersTo
<1> QED
  BY <1>1, <1>2, <1>4, <1>5, <1>6, <1>7, <1>8

\* One place on, the numbers are the same but for that place.
LEMMA CountNext ==
  ASSUME Tried, NEW p \in Nat
  PROVE  /\ p + 1 \in Places => NumbersTo(p + 1) = NumbersTo(p) + 1
         /\ p + 1 \notin Places => NumbersTo(p + 1) = NumbersTo(p)
<1>1. \A n \in Places : n \in Nat
  BY PlacesAre
<1>2. IsFiniteSet({n \in Places : n <= p})
  BY PlacesAre, FS_Subset
<1>3. p + 1 \notin {n \in Places : n <= p}
  OBVIOUS
<1>4. CASE p + 1 \in Places
  <2>1. {n \in Places : n <= p + 1} = {n \in Places : n <= p} \cup {p + 1}
    BY <1>1, <1>4
  <2> QED
    BY <1>2, <1>3, <1>4, <2>1, FS_AddElement DEF NumbersTo
<1>5. CASE p + 1 \notin Places
  <2>1. {n \in Places : n <= p + 1} = {n \in Places : n <= p}
    BY <1>1, <1>5
  <2> QED
    BY <1>5, <2>1 DEF NumbersTo
<1> QED
  BY <1>4, <1>5

\* Where no number is passed the count stays.
LEMMA CountStays ==
  ASSUME Tried, NEW p \in Nat, NEW q \in Nat, p <= q,
         \A l \in p + 1 .. q : l \notin Places
  PROVE  NumbersTo(q) = NumbersTo(p)
<1>1. \A n \in Places : n \in Nat
  BY PlacesAre
<1>2. {n \in Places : n <= q} = {n \in Places : n <= p}
  BY <1>1
<1> QED
  BY <1>2 DEF NumbersTo

\* The number at place k is the one that the count up to k says.
LEMMA NumberIs ==
  ASSUME Tried, NEW k \in Places
  PROVE  Number(Places, NumbersTo(k)) = k
<1> DEFINE N(a) == {n \in Places : n <= a}
<1>1. \A n \in Places : n \in Nat
  BY PlacesAre
<1>2. ASSUME NEW a \in Places, NEW b \in Places, a < b
      PROVE  Cardinality(N(a)) # Cardinality(N(b))
  <2>1. IsFiniteSet(N(b))
    <3>1. N(b) \in SUBSET Places /\ IsFiniteSet(Places)
      BY PlacesAre
    <3> HIDE DEF N
    <3> QED
      BY <3>1, FS_Subset
  <2>2. N(a) \in SUBSET N(b) /\ b \in N(b) /\ b \notin N(a)
    BY <1>1, <1>2
  <2> HIDE DEF N
  <2>3. N(a) # N(b)
    BY <2>2
  <2> QED
    BY <2>1, <2>2, <2>3, FS_Subset
<1>3. \A a \in Places : Cardinality(N(a)) = NumbersTo(k) => a = k
  <2> SUFFICES ASSUME NEW a \in Places, Cardinality(N(a)) = NumbersTo(k), a # k
               PROVE  FALSE
    OBVIOUS
  <2>1. Cardinality(N(a)) = Cardinality(N(k))
    BY DEF NumbersTo
  <2>2. a < k \/ k < a
    BY <1>1
  <2> QED
    BY <1>2, <2>1, <2>2
<1>4. Cardinality(N(k)) = NumbersTo(k)
  BY DEF NumbersTo
<1> QED
  BY <1>3, <1>4 DEF Number

\* Outside of comments, and as long as no '#' comes, one stays outside.
LEMMA StaysOutside ==
  ASSUME Tried, NEW p \in Nat, NEW q \in Nat, p <= q, q <= Len(stream), ~InComment(p),
         \A l \in p + 1 .. q : stream[l] # HASH
  PROVE  (\A l \in p .. q : ~InComment(l)) /\ \A l \in p + 1 .. q : l \in Code
<1>1. \A l \in p .. q : ~InComment(l)
  <2> SUFFICES ASSUME NEW l \in p .. q, InComment(l)
               PROVE  FALSE
    OBVIOUS
  <2> DEFINE S == {m \in Nat : m \in p .. q /\ InComment(m)}
  <2>1. S \in SUBSET Nat /\ S # {}
    OBVIOUS
  <2> HIDE DEF S
  <2>2. PICK m \in S : \A n \in S : m <= n
    BY <2>1, LeastNatural
  <2>3. m \in Nat /\ m \in p .. q /\ InComment(m)
    BY <2>2 DEF S
  <2>4. m # p
    BY <2>3
  <2>5. m - 1 \in Nat /\ m - 1 \in p .. q /\ m \in p + 1 .. q
    BY <2>3, <2>4
  <2>6. ~InComment(m - 1)
    <3>1. ~ (m <= m - 1)
      BY <2>3
    <3> QED
      BY <2>2, <2>5, <3>1 DEF S
  <2>7. m - 1 \in 0 .. Len(stream) - 1 /\ (m - 1) + 1 = m
    BY <2>3, <2>5, FileIs
  <2> QED
    BY <2>3, <2>5, <2>6, <2>7, CommentNext
<1>2. ASSUME NEW l \in p + 1 .. q
      PROVE  l \in Code
  <2>1. l \in 1 .. Len(stream) /\ l - 1 \in p .. q
    BY <1>2, FileIs
  <2> QED
    BY <1>1, <2>1, CodeIs
<1> QED
  BY <1>1, <1>2

\* The next place that fscanf looks at.
LEMMA NextOfIs ==
  ASSUME Tried, NEW p \in Nat, p <= Len(stream)
  PROVE  /\ NextOf(p) \in p + 1 .. Len(stream) + 1
         /\ CharAt(NextOf(p)) \notin Whitespace
         /\ \A l \in p + 1 .. NextOf(p) - 1 : CharAt(l) \in Whitespace
<1> DEFINE S == {k \in Nat : k \in p + 1 .. Len(stream) + 1 /\ CharAt(k) \notin Whitespace}
           F(k) == /\ k > p \/ k > Len(stream)
                   /\ CharAt(k) \notin Whitespace
                   /\ \A l \in p + 1 .. k - 1 : CharAt(l) \in Whitespace
<1>1. Len(stream) \in Nat /\ CharAt(Len(stream) + 1) = END
  BY FileIs
<1>2. S \in SUBSET Nat /\ Len(stream) + 1 \in S
  BY <1>1, Kinds
<1>3. PICK k \in S : \A m \in S : k <= m
  <2> HIDE DEF S
  <2>1. S # {}
    BY <1>2
  <2> QED
    BY <1>2, <2>1, LeastNatural
<1>4. k \in p + 1 .. Len(stream) + 1 /\ CharAt(k) \notin Whitespace /\ k \in Nat
  BY <1>3
<1>5. ASSUME NEW l \in p + 1 .. k - 1
      PROVE  CharAt(l) \in Whitespace
  <2>1. l \in Nat /\ l \in p + 1 .. Len(stream) + 1 /\ ~ (k <= l)
    BY <1>1, <1>4, <1>5
  <2> QED
    BY <1>3, <2>1
<1>6. k \in 1 .. Len(stream) + 1 /\ F(k)
  BY <1>4, <1>5
<1>7. NextOf(p) = CHOOSE m \in 1 .. Len(stream) + 1 : F(m)
  BY DEF NextOf
<1>8. NextOf(p) \in 1 .. Len(stream) + 1 /\ F(NextOf(p))
  <2> HIDE DEF F
  <2> QED
    BY <1>6, <1>7
<1> QED
  BY <1>1, <1>8

\* White space and numbers do not stop the reader.
LEMMA PassesOn ==
  ASSUME Tried, NEW p \in Nat, NEW q \in Nat, p <= q, ClearTo(p),
         \A l \in p + 1 .. q : l \in Code /\ (IsNum(stream[l]) \/ stream[l] \in Whitespace)
  PROVE  ClearTo(q)
<1> SUFFICES ASSUME NEW k \in Barriers, ~ (k > q)
             PROVE  FALSE
  BY DEF ClearTo
<1>1. k \in Nat /\ k > p
  BY PlacesAre DEF ClearTo
<1>2. k \in p + 1 .. q
  BY <1>1
<1>3. k \in Code /\ (IsNum(stream[k]) \/ stream[k] \in Whitespace)
  BY <1>2
<1> QED
  BY <1>3 DEF Barriers, Obstacles, Hidden, Comments

\* fscanf looks for the next number.
LEMMA Advances ==
  ASSUME Tried, NEW p \in Nat, p <= Len(stream), ~InComment(p), ClearTo(p),
         NEW f, f = NextOf(p)
  PROVE  /\ f \in p + 1 .. Len(stream) + 1
         /\ CharAt(f) \notin Whitespace
         /\ \A l \in p + 1 .. f - 1 : l \in Code /\ stream[l] \in Whitespace
         /\ ~InComment(f - 1) /\ ClearTo(f - 1) /\ NumbersTo(f - 1) = NumbersTo(p)
<1>1. /\ f \in p + 1 .. Len(stream) + 1 /\ CharAt(f) \notin Whitespace
      /\ \A l \in p + 1 .. f - 1 : CharAt(l) \in Whitespace
  BY NextOfIs
<1>2. Len(stream) \in Nat /\ f - 1 \in Nat /\ p <= f - 1 /\ f - 1 <= Len(stream)
  BY <1>1, FileIs
<1>3. \A l \in p + 1 .. f - 1 : l \in 1 .. Len(stream)
  BY <1>2
<1>4. \A l \in p + 1 .. f - 1 : stream[l] \in Whitespace
  BY <1>1, <1>3, FileIs
<1>5. \A l \in p + 1 .. f - 1 : stream[l] # HASH /\ ~IsNum(stream[l])
  BY <1>4, Kinds
<1>6. /\ \A l \in p .. f - 1 : ~InComment(l)
      /\ \A l \in p + 1 .. f - 1 : l \in Code
  BY <1>2, <1>5, StaysOutside
<1>7. ~InComment(f - 1)
  BY <1>2, <1>6
<1>8. ClearTo(f - 1)
  BY <1>2, <1>4, <1>6, PassesOn
<1>9. NumbersTo(f - 1) = NumbersTo(p)
  <2>1. \A l \in p + 1 .. f - 1 : l \notin Places
    BY <1>5 DEF Places
  <2> QED
    BY <1>2, <2>1, CountStays
<1> QED
  BY <1>1, <1>4, <1>6, <1>7, <1>8, <1>9

\* It takes the number it finds,
LEMMA Takes ==
  ASSUME Tried, NEW f \in 1 .. Len(stream) + 1, ~InComment(f - 1), ClearTo(f - 1), IsNum(CharAt(f))
  PROVE  /\ f \in 1 .. Len(stream) /\ f \in Places /\ CharAt(f) = stream[f]
         /\ ~InComment(f) /\ ClearTo(f) /\ NumbersTo(f) = NumbersTo(f - 1) + 1
<1>1. f \in 1 .. Len(stream) /\ CharAt(f) = stream[f] /\ f - 1 \in Nat /\ f \in Nat
  BY FileIs, Kinds
<1>2. IsNum(stream[f]) /\ stream[f] # HASH
  BY <1>1, Kinds
<1>3. f \in Code
  BY <1>1, <1>2, CodeIs
<1>4. f \in Places
  BY <1>2, <1>3 DEF Places
<1>5. ~InComment(f)
  <2>1. f - 1 \in 0 .. Len(stream) - 1 /\ (f - 1) + 1 = f
    BY <1>1, FileIs
  <2> QED
    BY <1>2, <2>1, CommentNext
<1>6. ClearTo(f)
  <2>1. \A l \in (f - 1) + 1 .. f : l = f
    BY <1>1
  <2>2. f - 1 <= f
    BY <1>1
  <2> QED
    BY <1>1, <1>2, <1>3, <2>1, <2>2, PassesOn
<1>7. NumbersTo(f) = NumbersTo(f - 1) + 1
  <2>1. (f - 1) + 1 = f
    BY <1>1
  <2> QED
    BY <1>1, <1>4, <2>1, CountNext
<1> QED
  BY <1>1, <1>4, <1>5, <1>6, <1>7

\* How many numbers can be read.
LEMMA TotalIs ==
  ASSUME Tried
  PROVE  /\ Total \in Nat
         /\ \A p \in 0 .. Len(stream) : ClearTo(p) => NumbersTo(p) <= Total
         /\ ClearTo(Len(stream)) => Total = NumbersTo(Len(stream))
         /\ \A f \in Barriers : ClearTo(f - 1) => Total = NumbersTo(f - 1)
<1>1. /\ Len(stream) \in Nat /\ Barriers \subseteq 1 .. Len(stream)
      /\ \A p : NumbersTo(p) \in Nat
  BY PlacesAre, FileIs
<1>2. CASE Barriers = {}
  <2>1. Total = NumbersTo(Len(stream))
    BY <1>2, PlacesAre DEF Total
  <2>2. \A p \in 0 .. Len(stream) : NumbersTo(p) <= NumbersTo(Len(stream))
    BY <1>1, PlacesAre
  <2> QED
    BY <1>1, <1>2, <2>1, <2>2
<1>3. CASE Barriers # {}
  <2> DEFINE g == CHOOSE k \in Barriers : \A l \in Barriers : k <= l
  <2>1. g \in Barriers /\ \A l \in Barriers : g <= l
    <3>1. Barriers \in SUBSET Nat
      BY <1>1
    <3>2. \E k \in Barriers : \A l \in Barriers : k <= l
      BY <1>3, <3>1, LeastNatural
    <3> QED
      BY <3>2
  <2>2. Total = NumbersBefore(g)
    BY <1>3 DEF Total
  <2> HIDE DEF g
  <2>3. g \in 1 .. Len(stream) /\ g \in Nat /\ g - 1 \in Nat
    BY <1>1, <2>1
  <2>4. Total = NumbersTo(g - 1)
    BY <2>2, <2>3, PlacesAre
  <2>5. ASSUME NEW p \in 0 .. Len(stream), ClearTo(p)
        PROVE  NumbersTo(p) <= Total
    <3>1. p \in Nat /\ p <= g - 1
      BY <1>1, <2>1, <2>3, <2>5 DEF ClearTo
    <3> QED
      BY <2>3, <2>4, <3>1, PlacesAre
  <2>6. ~ClearTo(Len(stream))
    BY <1>1, <2>1, <2>3 DEF ClearTo
  <2>7. ASSUME NEW f \in Barriers, ClearTo(f - 1)
        PROVE  Total = NumbersTo(f - 1)
    <3>1. f \in Nat /\ g <= f /\ g > f - 1
      BY <1>1, <2>1, <2>7 DEF ClearTo
    <3>2. f = g
      BY <2>3, <3>1
    <3> QED
      BY <2>4, <3>2
  <2> QED
    BY <1>1, <2>4, <2>5, <2>6, <2>7
<1> QED
  BY <1>2, <1>3

\* or stops there.
LEMMA Halts ==
  ASSUME Tried, NEW f \in 1 .. Len(stream) + 1, ~InComment(f - 1) \/ f = Len(stream) + 1,
         ClearTo(f - 1), ~IsNum(CharAt(f)), CharAt(f) \notin Whitespace,
         CharAt(f) = HASH =>
           /\ f - 1 \in Code
           /\ \/ NumbersTo(f - 1) % 2 = 1
              \/ \E r \in Code : r < f /\ stream[r] = CR /\ NumbersBefore(r) = NumbersTo(f - 1)
  PROVE  Total = NumbersTo(f - 1)
<1>1. Len(stream) \in Nat /\ f \in Nat
  BY FileIs
<1>2. CASE f = Len(stream) + 1
  <2>1. f - 1 = Len(stream)
    BY <1>1, <1>2
  <2> QED
    BY <2>1, TotalIs
<1>3. CASE f # Len(stream) + 1
  <2>1. f \in 1 .. Len(stream) /\ CharAt(f) = stream[f] /\ ~InComment(f - 1)
    BY <1>1, <1>3, FileIs
  <2>2. CASE stream[f] = HASH
    <3>1. f \notin Code
      BY <2>1, <2>2, CodeIs
    <3>2. f \in Comments
      BY <2>1, <2>2, <3>1, FileIs DEF Comments
    <3>3. NumbersBefore(f) = NumbersTo(f - 1)
      BY <1>1, PlacesAre
    <3>4. f \in Barriers
      BY <2>1, <2>2, <3>2, <3>3 DEF Barriers, Obstacles, Hidden
    <3> QED
      BY <3>4, TotalIs
  <2>3. CASE stream[f] # HASH
    <3>1. f \in Code
      BY <2>1, <2>3, CodeIs
    <3>2. f \in Barriers
      BY <2>1, <3>1 DEF Barriers, Obstacles, Hidden
    <3> QED
      BY <3>2, TotalIs
  <2> QED
    BY <2>2, <2>3
<1> QED
  BY <1>2, <1>3

InstructionAt(j) == [operation_type |-> ValueOf[stream[Number(Places, 2 * j - 1)]],
                     virtual_page   |-> ValueOf[stream[Number(Places, 2 * j)]]]

\* The instructions in front of the first barrier.
Reached == LET places == Places
               n == IF Barriers = {} THEN Cardinality(places)
                    ELSE NumbersBefore(CHOOSE k \in Barriers : \A l \in Barriers : k <= l)
           IN  [j \in 1 .. n \div 2 |->
                  [operation_type |-> ValueOf[stream[Number(places, 2 * j - 1)]],
                   virtual_page   |-> ValueOf[stream[Number(places, 2 * j)]]]]

\* What the program does, said with the barriers: it performs just these.
InstructionsReach ==
  /\ \A j \in DOMAIN instructions : /\ j \in DOMAIN Reached
                                    /\ instructions[j] = Reached[j]
                                    /\ IsValid(instructions[j])
  /\ stage = "end" => Len(instructions) = Len(Reached)
  /\ stage = "exit" => /\ Len(instructions) + 1 \in DOMAIN Reached
                       /\ ~IsValid(Reached[Len(instructions) + 1])

LEMMA ReachedIs == Reached = [j \in 1 .. Total \div 2 |-> InstructionAt(j)]
  BY DEF Reached, Total, InstructionAt

\* Every carriage return passed is in front of a number passed.
ReturnsBehind == \A r \in Code :
                   r <= seen /\ stream[r] = CR => NumbersBefore(r) < 2 * Len(instructions)

InstrTypeOK == /\ Tried /\ seen \in 0 .. Len(stream)
               /\ stage \in {"swallow", "comment", "scan", "end", "exit"}
               /\ instructions \in Seq([operation_type : {0, 1},
                                       virtual_page : 0 .. NUM_VIRT_PAGES - 1])

\* The reader has taken all numbers up to seen, and nothing there stops it.
OnItsWay == /\ ClearTo(seen) /\ NumbersTo(seen) = 2 * Len(instructions)
            /\ IF stage = "comment" THEN InComment(seen) ELSE ~InComment(seen) \/ seen = Len(stream)
            /\ IF stage = "scan" THEN CharAt(seen + 1) \notin Swallowed \cup {HASH}
               ELSE ReturnsBehind

InstrInv == /\ InstrTypeOK
            /\ stage \in {"swallow", "comment", "scan"} => OnItsWay
            /\ InstructionsReach

LEMMA SameText ==
  ASSUME stream' = stream
  PROVE  /\ Tried' = Tried /\ Code' = Code /\ Places' = Places /\ Barriers' = Barriers
         /\ Reached' = Reached
         /\ \A p : /\ InComment(p)' = InComment(p) /\ ClearTo(p)' = ClearTo(p)
                   /\ NumbersTo(p)' = NumbersTo(p)
                   /\ NumbersBefore(p)' = NumbersBefore(p) /\ CharAt(p)' = CharAt(p)
<1>1. Code' = Code
  BY DEF Code
<1>2. Places' = Places /\ Comments' = Comments
  BY <1>1 DEF Places, Comments
<1>3. \A p : NumbersBefore(p)' = NumbersBefore(p) /\ NumbersTo(p)' = NumbersTo(p)
  BY <1>2 DEF NumbersBefore, NumbersTo
<1>4. Barriers' = Barriers
  BY <1>1, <1>2, <1>3 DEF Barriers, Obstacles, Hidden
<1>5. Total' = Total
  BY <1>2, <1>3, <1>4 DEF Total
<1>6. \A j : InstructionAt(j)' = InstructionAt(j)
  BY <1>2 DEF InstructionAt, Number
<1>7. Reached' = Reached
  <2>1. Reached' = [j \in 1 .. Total' \div 2 |-> InstructionAt(j)']
    BY DEF Reached, Total, InstructionAt
  <2>2. [j \in 1 .. Total' \div 2 |-> InstructionAt(j)']
        = [j \in 1 .. Total \div 2 |-> InstructionAt(j)]
    BY <1>5, <1>6
  <2> QED
    BY <2>1, <2>2, ReachedIs
<1>8. \A p : InComment(p)' = InComment(p) /\ ClearTo(p)' = ClearTo(p) /\ CharAt(p)' = CharAt(p)
  BY <1>4 DEF InComment, ClearTo, CharAt
<1> QED
  BY <1>1, <1>2, <1>3, <1>4, <1>7, <1>8 DEF Tried

LEMMA InitInstrInv == InstrInit => InstrInv
<1> SUFFICES ASSUME InstrInit
             PROVE  InstrInv
  OBVIOUS
<1>1. Tried /\ Len(stream) \in Nat /\ instructions = <<>> /\ seen = 0 /\ stage = "swallow"
  BY FileIs DEF InstrInit, Tried
<1>2. InstrTypeOK
  BY <1>1 DEF InstrTypeOK
<1>3. \A k \in 1 .. Len(stream) : k > 0
  OBVIOUS
<1>4. ClearTo(seen) /\ NumbersTo(seen) = 2 * Len(instructions)
  BY <1>1, <1>3, PlacesAre DEF ClearTo
<1>5. ReturnsBehind
  BY <1>1, <1>3, PlacesAre DEF ReturnsBehind
<1>6. InstructionsReach
  BY <1>1 DEF InstructionsReach
<1> QED
  BY <1>1, <1>2, <1>4, <1>5, <1>6, NoneAtFirst DEF InstrInv, OnItsWay

\* What holds while no instruction is taken and the run goes on.
LEMMA NoneTaken ==
  ASSUME InstrInv, UNCHANGED <<stream, instructions>>, seen' \in 0 .. Len(stream),
         stage' \in {"swallow", "comment", "scan"}
  PROVE  InstrTypeOK' /\ InstructionsReach'
<1>1. InstrTypeOK'
  BY SameText DEF InstrInv, InstrTypeOK
<1>2. InstructionsReach'
  BY SameText DEF InstrInv, InstructionsReach, IsValid
<1> QED
  BY <1>1, <1>2

\* A character of a comment, or what swallow_whitespace reads over.
LEMMA ReadsOver ==
  ASSUME InstrInv, OnItsWay, stage \in {"swallow", "comment"},
         seen + 1 \in 1 .. Len(stream),
         UNCHANGED <<stream, instructions>>, seen' = seen + 1, stage' \in {"swallow", "comment"},
         seen + 1 \notin Barriers, seen + 1 \notin Places,
         seen + 1 \in Code => stream[seen + 1] # CR,
         stage' = "comment" <=> InComment(seen + 1)
  PROVE  InstrInv'
<1>1. Tried /\ seen \in Nat /\ Len(stream) \in Nat
  BY FileIs DEF InstrInv, InstrTypeOK
<1>2. InstrTypeOK' /\ InstructionsReach'
  BY <1>1, NoneTaken
<1>3. ClearTo(seen + 1)
  <2>1. Barriers \subseteq 1 .. Len(stream)
    BY <1>1, PlacesAre
  <2>2. \A k \in Barriers : k \in Nat /\ k # seen + 1
    BY <2>1
  <2>3. \A k \in Barriers : k > seen
    BY DEF OnItsWay, ClearTo
  <2>4. \A k \in Barriers : k > seen + 1
    BY <1>1, <2>2, <2>3
  <2> QED
    BY <2>4 DEF ClearTo
<1>4. NumbersTo(seen + 1) = 2 * Len(instructions)
  BY <1>1, CountNext DEF OnItsWay
<1>5. ASSUME NEW r \in Code, r <= seen + 1, stream[r] = CR
      PROVE  NumbersBefore(r) < 2 * Len(instructions)
  <2>1. r \in Nat /\ r # seen + 1
    <3>1. r \in 1 .. Len(stream)
      BY <1>1, PlacesAre
    <3> QED
      BY <1>5, <3>1
  <2>2. r <= seen
    BY <1>1, <1>5, <2>1
  <2> QED
    BY <1>5, <2>2 DEF OnItsWay, ReturnsBehind
<1>6. ReturnsBehind'
  BY <1>5, SameText DEF ReturnsBehind
<1>7. OnItsWay'
  BY <1>3, <1>4, <1>6, SameText DEF OnItsWay
<1> QED
  BY <1>2, <1>7 DEF InstrInv

LEMMA SwallowInv ==
  ASSUME InstrInv, Swallow
  PROVE  InstrInv'
<1>1. Tried /\ seen \in Nat /\ seen \in 0 .. Len(stream) /\ Len(stream) \in Nat
  BY FileIs DEF InstrInv, InstrTypeOK
<1>2. OnItsWay /\ stage = "swallow" /\ UNCHANGED <<stream, instructions>>
  BY DEF InstrInv, Swallow
<1>3. ClearTo(seen) /\ NumbersTo(seen) = 2 * Len(instructions) /\ ReturnsBehind
      /\ (~InComment(seen) \/ seen = Len(stream))
  BY <1>2 DEF OnItsWay
<1>4. seen + 1 \notin 1 .. Len(stream) => CharAt(seen + 1) = END
  <2>1. seen + 1 \notin 1 .. Len(stream) => seen + 1 = Len(stream) + 1
    BY <1>1
  <2> QED
    BY <1>1, <2>1, FileIs
<1>5. CASE CharAt(seen + 1) \in Skipped \cup {HASH}
  <2>1. seen + 1 \in 1 .. Len(stream) /\ CharAt(seen + 1) = stream[seen + 1] /\ ~InComment(seen)
        /\ seen \in 0 .. Len(stream) - 1
    <3>1. seen + 1 \in 1 .. Len(stream)
      BY <1>4, <1>5, Kinds DEF Skipped
    <3>2. seen # Len(stream) /\ seen \in 0 .. Len(stream) - 1
      BY <1>1, <3>1
    <3> QED
      BY <1>1, <1>3, <3>1, <3>2, FileIs
  <2>2. ~IsNum(stream[seen + 1]) /\ stream[seen + 1] # CR /\ seen' = seen + 1
    BY <1>5, <2>1, Kinds DEF Skipped, Swallow
  <2>3. seen + 1 \notin Places
    BY <2>2 DEF Places
  <2>4. seen + 1 \in Code <=> stream[seen + 1] # HASH
    <3>1. (seen + 1) - 1 = seen
      BY <1>1
    <3> QED
      BY <1>1, <2>1, <3>1, CodeIs
  <2>5. seen + 1 \notin Barriers
    <3>1. CASE stream[seen + 1] = HASH
      <4>1. NumbersBefore(seen + 1) = 2 * Len(instructions)
        <5>1. seen + 1 \in Nat /\ (seen + 1) - 1 = seen
          BY <1>1
        <5> QED
          BY <1>1, <1>3, <5>1, PlacesAre
      <4>2. Len(instructions) \in Nat
        BY DEF InstrInv, InstrTypeOK
      <4>3. (2 * Len(instructions)) % 2 # 1
        BY <4>2
      <4>4. ASSUME NEW r \in Code, r < seen + 1, stream[r] = CR
            PROVE  NumbersBefore(r) # NumbersBefore(seen + 1)
        <5>1. r \in Nat
          BY <1>1, PlacesAre
        <5>2. r <= seen
          BY <1>1, <4>4, <5>1
        <5>3. NumbersBefore(r) < 2 * Len(instructions)
          BY <1>3, <4>4, <5>2 DEF ReturnsBehind
        <5>4. NumbersBefore(r) \in Nat
          BY <1>1, <5>1, PlacesAre
        <5> QED
          BY <4>1, <4>2, <5>3, <5>4
      <4> QED
        BY <2>4, <3>1, <4>1, <4>3, <4>4 DEF Barriers, Obstacles, Hidden
    <3>2. CASE stream[seen + 1] # HASH
      <4>1. stream[seen + 1] \in Whitespace
        BY <1>5, <2>1, <3>2, Kinds DEF Skipped
      <4> QED
        BY <2>4, <3>2, <4>1 DEF Barriers, Obstacles, Hidden, Comments
    <3> QED
      BY <3>1, <3>2
  <2>6. stage' = "comment" <=> InComment(seen + 1)
    <3>1. InComment(seen + 1) <=> stream[seen + 1] = HASH
      BY <1>1, <2>1, Kinds, CommentNext
    <3>2. HASH \notin Skipped
      BY Kinds DEF Skipped
    <3> QED
      BY <1>5, <2>1, <3>1, <3>2 DEF Swallow
  <2>7. stage' \in {"swallow", "comment"}
    BY <1>5 DEF Swallow
  <2> QED
    BY <1>2, <2>1, <2>2, <2>3, <2>5, <2>6, <2>7, ReadsOver
<1>6. CASE CharAt(seen + 1) \notin Skipped \cup {HASH}
  <2>1. seen' = seen /\ stage' = "scan"
    BY <1>6 DEF Swallow
  <2>2. InstrTypeOK' /\ InstructionsReach'
    BY <1>1, <1>2, <2>1, NoneTaken
  <2>3. OnItsWay'
    BY <1>2, <1>3, <1>6, <2>1, SameText DEF OnItsWay, Skipped
  <2> QED
    BY <2>2, <2>3 DEF InstrInv
<1> QED
  BY <1>5, <1>6

LEMMA CommentInv ==
  ASSUME InstrInv, Comment
  PROVE  InstrInv'
<1>1. Tried /\ seen \in Nat /\ seen \in 0 .. Len(stream) /\ Len(stream) \in Nat
  BY FileIs DEF InstrInv, InstrTypeOK
<1>2. OnItsWay /\ stage = "comment" /\ UNCHANGED <<stream, instructions>>
  BY DEF InstrInv, Comment
<1>3. ClearTo(seen) /\ NumbersTo(seen) = 2 * Len(instructions) /\ ReturnsBehind /\ InComment(seen)
  BY <1>2 DEF OnItsWay
<1>4. CASE seen = Len(stream)
  <2>1. CharAt(seen + 1) = END
    BY <1>1, <1>4, FileIs
  <2>2. seen' = seen /\ stage' = "swallow"
    BY <2>1 DEF Comment
  <2>3. InstrTypeOK' /\ InstructionsReach'
    BY <1>1, <1>2, <2>2, NoneTaken
  <2>4. ReturnsBehind'
    BY <1>2, <1>3, <2>2, SameText DEF ReturnsBehind
  <2>5. OnItsWay'
    BY <1>2, <1>3, <1>4, <2>2, <2>4, SameText DEF OnItsWay
  <2> QED
    BY <2>3, <2>5 DEF InstrInv
<1>5. CASE seen # Len(stream)
  <2>1. seen + 1 \in 1 .. Len(stream) /\ seen \in 0 .. Len(stream) - 1 /\ (seen + 1) - 1 = seen
    BY <1>1, <1>5
  <2>2. CharAt(seen + 1) = stream[seen + 1] /\ stream[seen + 1] # END
    BY <1>1, <2>1, FileIs
  <2>3. seen' = seen + 1 /\ stage' \in {"swallow", "comment"}
        /\ (stage' = "comment" <=> stream[seen + 1] # LF)
    BY <1>2, <2>2 DEF Comment
  <2>4. stage' = "comment" <=> InComment(seen + 1)
    BY <1>1, <1>3, <2>1, <2>3, CommentNext
  <2>5. seen + 1 \notin Code
    BY <1>1, <1>3, <2>1, CodeIs
  <2>6. seen + 1 \notin Places
    BY <2>5 DEF Places
  <2>7. seen + 1 \notin Barriers
    <3>1. seen # 0
      BY <1>3, NoneAtFirst
    <3>2. seen \notin Code
      <4>1. seen \in 1 .. Len(stream) /\ seen - 1 \in 0 .. Len(stream) - 1 /\ (seen - 1) + 1 = seen
        BY <1>1, <3>1
      <4> QED
        BY <1>1, <1>3, <4>1, CodeIs, CommentNext
    <3> QED
      BY <2>1, <2>5, <3>1, <3>2 DEF Barriers, Obstacles, Hidden, Comments
  <2> QED
    BY <1>2, <2>1, <2>3, <2>4, <2>5, <2>6, <2>7, ReadsOver
<1> QED
  BY <1>4, <1>5

\* The instructions that can be read are at least those for which there are
\* numbers in front of the first barrier.
LEMMA CanBeRead ==
  ASSUME Tried, NEW m \in Nat, NEW p \in 0 .. Len(stream), ClearTo(p), NumbersTo(p) = 2 * m + 2
  PROVE  m + 1 \in DOMAIN Reached
<1>1. Total \in Nat /\ 2 * m + 2 <= Total
  BY TotalIs
<1>2. m + 1 <= Total \div 2
  BY <1>1
<1>3. m + 1 \in 1 .. Total \div 2
  BY <1>1, <1>2
<1> QED
  BY <1>3, ReachedIs

LEMMA EndsComplete ==
  ASSUME Tried, NEW m \in Nat, Total = 2 * m \/ Total = 2 * m + 1
  PROVE  Len(Reached) = m
<1>1. Total \div 2 = m
  OBVIOUS
<1>2. Reached = [j \in 1 .. m |-> InstructionAt(j)]
  BY <1>1, ReachedIs
<1> QED
  BY <1>2

LEMMA ScanfInv ==
  ASSUME InstrInv, Scanf
  PROVE  InstrInv'
<1> DEFINE first  == NextOf(seen)
           second == NextOf(first)
           m      == Len(instructions)
           read   == IsNum(CharAt(first)) /\ IsNum(CharAt(second))
           valid  == /\ ValueOf[CharAt(first)] \in {0, 1}
                     /\ ValueOf[CharAt(second)] \in 0 .. NUM_VIRT_PAGES - 1
           new    == [operation_type |-> ValueOf[CharAt(first)],
                      virtual_page |-> ValueOf[CharAt(second)]]
<1>1. Tried /\ seen \in Nat /\ seen \in 0 .. Len(stream) /\ Len(stream) \in Nat /\ m \in Nat
  BY FileIs DEF InstrInv, InstrTypeOK
<1>2. OnItsWay /\ stage = "scan" /\ stream' = stream
  BY DEF InstrInv, Scanf
<1>3. /\ ClearTo(seen) /\ NumbersTo(seen) = 2 * m /\ (~InComment(seen) \/ seen = Len(stream))
      /\ CharAt(seen + 1) \notin Swallowed \cup {HASH}
  BY <1>2 DEF OnItsWay
<1>4. \/ ~read /\ stage' = "end" /\ UNCHANGED <<seen, instructions>>
      \/ read /\ ~valid /\ stage' = "exit" /\ seen' = second /\ UNCHANGED instructions
      \/ /\ read /\ valid /\ instructions' = Append(instructions, new)
         /\ seen' = second /\ stage' = "swallow"
  BY DEF Scanf
<1>5. InstructionsReach
  BY DEF InstrInv
<1>6. \A j \in DOMAIN instructions : /\ j \in DOMAIN Reached
                                     /\ instructions[j] = Reached[j] /\ IsValid(instructions[j])
  BY <1>5 DEF InstructionsReach
<1>7. seen = Len(stream) => first = Len(stream) + 1 /\ CharAt(first) = END
  <2>1. first \in seen + 1 .. Len(stream) + 1
    BY <1>1, NextOfIs
  <2> HIDE DEF first
  <2>2. seen = Len(stream) => first = Len(stream) + 1
    BY <1>1, <2>1
  <2> QED
    BY <1>1, <2>2, FileIs
<1>8. seen # Len(stream) =>
        /\ first \in seen + 1 .. Len(stream) + 1 /\ CharAt(first) \notin Whitespace
        /\ \A l \in seen + 1 .. first - 1 : l \in Code /\ stream[l] \in Whitespace
        /\ ~InComment(first - 1) /\ ClearTo(first - 1) /\ NumbersTo(first - 1) = 2 * m
  <2>1. seen <= Len(stream)
    BY <1>1
  <2> QED
    BY <1>1, <1>3, <2>1, Advances
<1>9. IsNum(CharAt(first)) =>
        /\ first \in 1 .. Len(stream) /\ first \in Places /\ CharAt(first) = stream[first]
        /\ ~InComment(first) /\ ClearTo(first) /\ NumbersTo(first) = 2 * m + 1
        /\ second \in first + 1 .. Len(stream) + 1 /\ CharAt(second) \notin Whitespace
        /\ \A l \in first + 1 .. second - 1 : l \in Code /\ stream[l] \in Whitespace
        /\ ~InComment(second - 1) /\ ClearTo(second - 1) /\ NumbersTo(second - 1) = 2 * m + 1
  <2> SUFFICES ASSUME IsNum(CharAt(first))
               PROVE  /\ first \in 1 .. Len(stream) /\ first \in Places
                      /\ CharAt(first) = stream[first]
                      /\ ~InComment(first) /\ ClearTo(first) /\ NumbersTo(first) = 2 * m + 1
                      /\ second \in first + 1 .. Len(stream) + 1 /\ CharAt(second) \notin Whitespace
                      /\ \A l \in first + 1 .. second - 1 : l \in Code /\ stream[l] \in Whitespace
                      /\ ~InComment(second - 1) /\ ClearTo(second - 1)
                      /\ NumbersTo(second - 1) = 2 * m + 1
    OBVIOUS
  <2>1. seen # Len(stream)
    BY <1>7, Kinds
  <2> HIDE DEF first
  <2>2. first \in 1 .. Len(stream) + 1
    BY <1>1, <1>8, <2>1
  <2>3. /\ first \in 1 .. Len(stream) /\ first \in Places /\ CharAt(first) = stream[first]
        /\ ~InComment(first) /\ ClearTo(first) /\ NumbersTo(first) = 2 * m + 1
    BY <1>1, <1>8, <2>1, <2>2, Takes
  <2>4. first \in Nat /\ first <= Len(stream)
    BY <2>3
  <2> QED
    BY <1>1, <2>3, <2>4, Advances
<1>10. CASE ~read
  <2>1. stage' = "end" /\ UNCHANGED <<seen, instructions>>
    BY <1>4, <1>10
  <2>2. Total = 2 * m \/ Total = 2 * m + 1
    <3>1. CASE seen = Len(stream)
      BY <1>1, <1>3, <3>1, TotalIs
    <3>2. CASE seen # Len(stream) /\ ~IsNum(CharAt(first))
      <4> HIDE DEF first
      <4>1. first \in 1 .. Len(stream) + 1
        BY <1>1, <1>8, <3>2
      <4>2. ASSUME CharAt(first) = HASH
            PROVE  /\ first - 1 \in Code
                   /\ \E r \in Code : /\ r < first /\ stream[r] = CR
                                      /\ NumbersBefore(r) = NumbersTo(first - 1)
        <5>1. first # seen + 1
          BY <1>3, <4>2
        <5>2. /\ first - 1 \in seen + 1 .. first - 1 /\ seen + 1 \in seen + 1 .. first - 1
              /\ seen + 1 < first
              /\ seen + 1 \in 1 .. Len(stream)
          BY <1>1, <1>8, <3>2, <5>1
        <5>3. stream[seen + 1] = CR
          <6>1. stream[seen + 1] \in Whitespace /\ CharAt(seen + 1) = stream[seen + 1]
            BY <1>1, <1>8, <3>2, <5>2, FileIs
          <6> QED
            BY <1>3, <6>1, Kinds
        <5>4. NumbersBefore(seen + 1) = NumbersTo(first - 1)
          <6>1. seen + 1 \in Nat /\ (seen + 1) - 1 = seen
            BY <1>1
          <6> QED
            BY <1>1, <1>3, <1>8, <3>2, <6>1, PlacesAre
        <5> QED
          BY <1>8, <3>2, <5>2, <5>3, <5>4
      <4>3. Total = NumbersTo(first - 1)
        BY <1>1, <1>8, <3>2, <4>1, <4>2, Halts
      <4> QED
        BY <1>8, <3>2, <4>3
    <3>3. CASE IsNum(CharAt(first)) /\ ~IsNum(CharAt(second))
      <4> HIDE DEF first, second
      <4>1. second \in 1 .. Len(stream) + 1 /\ first \in Nat /\ second \in Nat
        BY <1>1, <1>9, <3>3
      <4>2. second - 1 \in Code
        <5>1. CASE second = first + 1
          <6>1. second - 1 = first
            BY <4>1, <5>1
          <6> QED
            BY <1>1, <1>9, <3>3, <6>1, PlacesAre
        <5>2. CASE second # first + 1
          <6>1. second - 1 \in first + 1 .. second - 1
            BY <1>1, <1>9, <3>3, <4>1, <5>2
          <6> QED
            BY <1>9, <3>3, <6>1
        <5> QED
          BY <5>1, <5>2
      <4>3. NumbersTo(second - 1) % 2 = 1
        <5>1. (2 * m + 1) % 2 = 1
          BY <1>1
        <5> QED
          BY <1>9, <3>3, <5>1
      <4>4. Total = NumbersTo(second - 1)
        BY <1>1, <1>9, <3>3, <4>1, <4>2, <4>3, Halts
      <4> QED
        BY <1>9, <3>3, <4>4
    <3> QED
      BY <1>10, <3>1, <3>2, <3>3
  <2>3. Len(Reached) = m
    BY <1>1, <2>2, EndsComplete
  <2>4. InstructionsReach'
    BY <1>2, <1>6, <2>1, <2>3, SameText DEF InstructionsReach, IsValid
  <2>5. InstrTypeOK'
    BY <1>2, <2>1, SameText DEF InstrInv, InstrTypeOK
  <2> QED
    BY <2>1, <2>4, <2>5 DEF InstrInv
<1>11. CASE read
  <2> HIDE DEF first, second
  <2>1. second \in 1 .. Len(stream) + 1
    BY <1>1, <1>9, <1>11
  <2>2. /\ second \in 1 .. Len(stream) /\ second \in Places /\ CharAt(second) = stream[second]
        /\ ~InComment(second) /\ ClearTo(second) /\ NumbersTo(second) = 2 * m + 2
    BY <1>1, <1>9, <1>11, <2>1, Takes
  <2>3. second \in 0 .. Len(stream)
    BY <2>2
  <2>4. m + 1 \in DOMAIN Reached
    BY <1>1, <2>2, <2>3, CanBeRead
  <2>5. Reached[m + 1] = new
    <3>1. Number(Places, 2 * m + 1) = first /\ Number(Places, 2 * m + 2) = second
      BY <1>1, <1>9, <1>11, <2>2, NumberIs
    <3>2. 2 * (m + 1) - 1 = 2 * m + 1 /\ 2 * (m + 1) = 2 * m + 2
      BY <1>1
    <3>3. InstructionAt(m + 1) = new
      BY <1>9, <1>11, <2>2, <3>1, <3>2 DEF InstructionAt
    <3>4. Reached[m + 1] = InstructionAt(m + 1)
      BY <2>4, ReachedIs
    <3> QED
      BY <3>3, <3>4
  <2>6. CASE ~valid
    <3>1. stage' = "exit" /\ seen' = second /\ UNCHANGED instructions
      BY <1>4, <1>11, <2>6
    <3>2. ~IsValid(new)
      BY <2>6 DEF IsValid
    <3>3. InstructionsReach'
      BY <1>2, <1>6, <2>4, <2>5, <3>1, <3>2, SameText DEF InstructionsReach, IsValid
    <3>4. InstrTypeOK'
      BY <1>2, <2>3, <3>1, SameText DEF InstrInv, InstrTypeOK
    <3> QED
      BY <3>1, <3>3, <3>4 DEF InstrInv
  <2>7. CASE valid
    <3>1. stage' = "swallow" /\ seen' = second /\ instructions' = Append(instructions, new)
      BY <1>4, <1>11, <2>7
    <3> DEFINE V == [operation_type : {0, 1}, virtual_page : 0 .. NUM_VIRT_PAGES - 1]
    <3>2. new \in V /\ IsValid(new)
      BY <2>7 DEF IsValid
    <3>3. instructions \in Seq(V)
      BY DEF InstrInv, InstrTypeOK
    <3> HIDE DEF V, new, valid, read
    <3>4. /\ instructions' \in Seq(V) /\ Len(instructions') = m + 1
          /\ DOMAIN instructions' = 1 .. m + 1
          /\ \A j \in 1 .. m : instructions'[j] = instructions[j] /\ j \in DOMAIN instructions
          /\ instructions'[m + 1] = new
      BY <3>1, <3>2, <3>3
    <3>5. InstrTypeOK'
      BY <1>2, <2>3, <3>1, <3>4, SameText DEF InstrInv, InstrTypeOK, V
    <3>6. ASSUME NEW j \in DOMAIN instructions'
          PROVE  /\ j \in DOMAIN Reached
                 /\ instructions'[j] = Reached[j] /\ IsValid(instructions'[j])
      <4>1. j \in 1 .. m \/ j = m + 1
        BY <1>1, <3>4, <3>6
      <4> QED
        BY <1>6, <2>4, <2>5, <3>2, <3>4, <4>1
    <3>7. InstructionsReach'
      BY <1>2, <3>1, <3>6, SameText DEF InstructionsReach, IsValid
    <3>8. ASSUME NEW r \in Code, r <= second, stream[r] = CR
          PROVE  NumbersBefore(r) < 2 * (m + 1)
      <4>1. r \in Nat /\ r \in 1 .. Len(stream)
        BY <1>1, PlacesAre
      <4>2. r # second
        <5>1. IsNum(stream[second]) /\ ~IsNum(CR)
          BY <2>2, InputAssumption DEF Places, Whitespace
        <5> QED
          BY <3>8, <5>1
      <4>3. r - 1 \in Nat /\ second - 1 \in Nat /\ r - 1 <= second - 1
        BY <2>2, <3>8, <4>1
      <4>4. NumbersBefore(r) <= NumbersTo(second - 1) /\ NumbersBefore(r) \in Nat
        BY <1>1, <4>1, <4>3, PlacesAre
      <4>5. NumbersTo(second - 1) = 2 * m + 1
        BY <1>9, <1>11 DEF read
      <4> QED
        BY <1>1, <4>4, <4>5
    <3>9. ReturnsBehind'
      BY <1>2, <3>1, <3>4, <3>8, SameText DEF ReturnsBehind
    <3>10. NumbersTo(second) = 2 * (m + 1)
      BY <1>1, <2>2
    <3>11. OnItsWay'
      BY <1>2, <2>2, <3>1, <3>4, <3>9, <3>10, SameText DEF OnItsWay
    <3> QED
      BY <3>1, <3>5, <3>7, <3>11 DEF InstrInv
  <2> QED
    BY <2>6, <2>7
<1> QED
  BY <1>10, <1>11

LEMMA NextInstrInv == InstrInv /\ [InstrNext]_instrvars => InstrInv'
<1> SUFFICES ASSUME InstrInv, [InstrNext]_instrvars
             PROVE  InstrInv'
  OBVIOUS
<1>1. CASE UNCHANGED instrvars
  <2>1. stream' = stream /\ seen' = seen /\ stage' = stage /\ instructions' = instructions
    BY <1>1 DEF instrvars
  <2>2. OnItsWay' = OnItsWay
    BY <2>1, SameText DEF OnItsWay, ReturnsBehind
  <2>3. InstrTypeOK' /\ InstructionsReach'
    BY <2>1, SameText DEF InstrInv, InstrTypeOK, InstructionsReach, IsValid
  <2> QED
    BY <2>1, <2>2, <2>3 DEF InstrInv
<1> QED
  BY <1>1, SwallowInv, CommentInv, ScanfInv DEF InstrNext, Stopped

\* How many numbers are in front of the first obstacle.
AllTold == IF Obstacles = {} THEN Cardinality(Places)
           ELSE NumbersBefore(CHOOSE k \in Obstacles : \A l \in Obstacles : k <= l)

LEMMA CompleteIs == Complete = [j \in 1 .. AllTold \div 2 |-> InstructionAt(j)]
  BY DEF Complete, AllTold, InstructionAt

\* What is reached is the beginning of what there is.
LEMMA ReachedIsPrefix ==
  ASSUME Tried
  PROVE  /\ AllTold \in Nat /\ Total \in Nat /\ Total <= AllTold
         /\ \A j \in DOMAIN Reached : j \in DOMAIN Complete /\ Reached[j] = Complete[j]
<1>1. /\ Len(stream) \in Nat /\ Barriers \subseteq 1 .. Len(stream)
      /\ Obstacles \subseteq Barriers
  BY PlacesAre, FileIs DEF Barriers
<1>2. /\ AllTold \in Nat
      /\ \A p \in 0 .. Len(stream) : ClearTo(p) => NumbersTo(p) <= AllTold
  <2>1. CASE Obstacles = {}
    BY <1>1, <2>1, PlacesAre DEF AllTold
  <2>2. CASE Obstacles # {}
    <3> DEFINE g == CHOOSE k \in Obstacles : \A l \in Obstacles : k <= l
    <3>1. g \in Obstacles /\ \A l \in Obstacles : g <= l
      <4>1. Obstacles \in SUBSET Nat
        BY <1>1
      <4>2. \E k \in Obstacles : \A l \in Obstacles : k <= l
        BY <2>2, <4>1, LeastNatural
      <4> QED
        BY <4>2
    <3>2. AllTold = NumbersBefore(g)
      BY <2>2 DEF AllTold
    <3> HIDE DEF g
    <3>3. g \in Nat /\ g - 1 \in Nat /\ g \in Barriers
      BY <1>1, <3>1
    <3>4. AllTold = NumbersTo(g - 1)
      BY <3>2, <3>3, PlacesAre
    <3>5. ASSUME NEW p \in 0 .. Len(stream), ClearTo(p)
          PROVE  NumbersTo(p) <= AllTold
      <4>1. p \in Nat /\ p <= g - 1
        BY <1>1, <3>3, <3>5 DEF ClearTo
      <4> QED
        BY <3>3, <3>4, <4>1, PlacesAre
    <3> QED
      BY <3>4, <3>5, PlacesAre
  <2> QED
    BY <2>1, <2>2
<1>3. Total \in Nat /\ Total <= AllTold
  <2>1. CASE Barriers = {}
    <3>1. Obstacles = {}
      BY <1>1, <2>1
    <3>2. Total = AllTold
      BY <2>1, <3>1 DEF Total, AllTold
    <3> QED
      BY <1>2, <3>2
  <2>2. CASE Barriers # {}
    <3>1. PICK f \in Barriers : \A l \in Barriers : f <= l
      <4>1. Barriers \in SUBSET Nat
        BY <1>1
      <4> QED
        BY <2>2, <4>1, LeastNatural
    <3>2. f - 1 \in 0 .. Len(stream) /\ ClearTo(f - 1)
      BY <1>1, <3>1 DEF ClearTo
    <3>3. Total = NumbersTo(f - 1)
      BY <3>1, <3>2, TotalIs
    <3> QED
      BY <1>2, <3>2, <3>3, TotalIs
  <2> QED
    BY <2>1, <2>2
<1>4. ASSUME NEW j \in DOMAIN Reached
      PROVE  j \in DOMAIN Complete /\ Reached[j] = Complete[j]
  <2>1. j \in 1 .. Total \div 2 /\ Reached[j] = InstructionAt(j)
    BY <1>4, ReachedIs
  <2>2. j \in 1 .. AllTold \div 2
    BY <1>2, <1>3, <2>1
  <2> QED
    BY <2>1, <2>2, CompleteIs
<1> QED
  BY <1>2, <1>3, <1>4

LEMMA ReadsAll == InstrInv => InstructionsAreRead
<1> SUFFICES ASSUME InstrInv
             PROVE  InstructionsAreRead
  OBVIOUS
<1>1. InstructionsReach /\ Tried
  BY DEF InstrInv, InstrTypeOK
<1>2. ASSUME Hidden = {}
      PROVE  Complete = Reached
  <2>1. Barriers = Obstacles
    BY <1>2 DEF Barriers
  <2> QED
    BY <2>1 DEF Complete, Reached
<1>3. \A j \in DOMAIN Reached : j \in DOMAIN Complete /\ Reached[j] = Complete[j]
  BY <1>1, ReachedIsPrefix
<1>4. \A j \in DOMAIN instructions :
        j \in DOMAIN Complete /\ instructions[j] = Complete[j] /\ IsValid(instructions[j])
  BY <1>1, <1>3 DEF InstructionsReach
<1>5. stage = "end" /\ Hidden = {} => Len(instructions) = Len(Complete)
  BY <1>1, <1>2 DEF InstructionsReach
<1>6. stage = "exit" => /\ Len(instructions) + 1 \in DOMAIN Complete
                       /\ ~IsValid(Complete[Len(instructions) + 1])
  BY <1>1, <1>3 DEF InstructionsReach
<1> QED
  BY <1>4, <1>5, <1>6 DEF InstructionsAreRead

(* Of any files, and numbers of any values, the instructions performed are *)
(* those written, in order from the first; and unless a comment is hidden  *)
(* all of them, up to the first that is not valid or cannot be read.       *)
THEOREM InstructionsAreAlwaysRead == InstrSpec => []InstructionsAreRead
<1> QED
  BY ReadsAll, InitInstrInv, NextInstrInv, PTL DEF InstrSpec
-----------------------------------------------------------------------------
(* Files read by the library beside the parser.                            *)
Memory == Chars \cup {"p", GARBAGE}

LEMMA ContentsAreRead ==
  ASSUME input \in FilesTried
  PROVE  /\ Len(input) \in Nat /\ input \in Seq(Memory) /\ DOMAIN input = 1 .. Len(input)
         /\ \A k \in 1 .. Len(input) : input[k] # EOF /\ input[k] # GARBAGE
<1>1. \A e \in Chars \cup {"p"} : e # EOF /\ e # GARBAGE /\ e \in Memory
  BY ReadingAssumption DEF EOF, GARBAGE, Memory
<1>2. \E k \in Nat : input \in [1 .. k -> Chars \cup {"p"}]
  <2> DEFINE all   == UNION {[1 .. k -> Chars] : k \in 0 .. Short}
             plain == {[k \in 1 .. l |-> "p"] : l \in 0 .. Long}
  <2>1. CASE input \in all
    <3>1. PICK k \in 0 .. Short : input \in [1 .. k -> Chars]
      BY <2>1
    <3>2. k \in Nat
      BY <3>1
    <3>3. input \in [1 .. k -> Chars \cup {"p"}]
      BY <3>1
    <3> QED
      BY <3>2, <3>3
  <2>2. CASE input \in plain
    <3>1. PICK l \in 0 .. Long : input = [k \in 1 .. l |-> "p"]
      BY <2>2
    <3>2. l \in Nat /\ input \in [1 .. l -> Chars \cup {"p"}]
      BY <3>1
    <3> QED
      BY <3>2
  <2>3. input \in all \cup plain
    BY DEF FilesTried
  <2> HIDE DEF all, plain
  <2> QED
    BY <2>1, <2>2, <2>3
<1>3. PICK k \in Nat : input \in [1 .. k -> Chars \cup {"p"}]
  BY <1>2
<1>4. input \in Seq(Chars \cup {"p"}) /\ Len(input) = k
  BY <1>3
<1> HIDE DEF Memory
<1>5. input \in Seq(Memory)
  BY <1>1, <1>3
<1> QED
  BY <1>1, <1>3, <1>4, <1>5

\* Two texts that begin alike.
LEMMA BeginAlike ==
  ASSUME NEW S, NEW s \in Seq(S), NEW t \in Seq(S), NEW n \in Nat, n <= Len(s), n <= Len(t),
         \A k \in 1 .. n : s[k] = t[k]
  PROVE  /\ SubSeq(s, 1, n) = SubSeq(t, 1, n) /\ SubSeq(s, 1, n) \in Seq(S)
         /\ Len(SubSeq(s, 1, n)) = n /\ \A k \in 1 .. n : SubSeq(s, 1, n)[k] = s[k]
<1>1. /\ SubSeq(s, 1, n) \in Seq(S) /\ Len(SubSeq(s, 1, n)) = n
      /\ \A k \in 1 .. n : SubSeq(s, 1, n)[k] = s[k]
  OBVIOUS
<1>2. /\ SubSeq(t, 1, n) \in Seq(S) /\ Len(SubSeq(t, 1, n)) = n
      /\ \A k \in 1 .. n : SubSeq(t, 1, n)[k] = t[k]
  OBVIOUS
<1>3. SubSeq(s, 1, n) = SubSeq(t, 1, n)
  BY <1>1, <1>2, SeqEqual
<1> QED
  BY <1>1, <1>3

LEMMA WholeText ==
  ASSUME NEW S, NEW s \in Seq(S)
  PROVE  SubSeq(s, 1, Len(s)) = s
<1>1. Len(s) \in Nat
  OBVIOUS
<1>2. /\ SubSeq(s, 1, Len(s)) \in Seq(S) /\ Len(SubSeq(s, 1, Len(s))) = Len(s)
      /\ \A k \in 1 .. Len(s) : SubSeq(s, 1, Len(s))[k] = s[k]
  BY <1>1, BeginAlike
<1> QED
  BY <1>2, SeqEqual

\* What readLine returns: the characters in front of the first that it
\* takes for the end of a line.
CutLine ==
  LET ends == {k \in DOMAIN input : input[k] \in {NEWLINE, FF}}
  IN  IF ends = {} THEN input
      ELSE SubSeq(input, 1, (CHOOSE k \in ends : \A l \in ends : k <= l) - 1)

\* KeepData, of that line.
KeepsCut ==
  /\ at \in {"read", "test", "grow"} => Len(str) <= currentSize
  /\ at = "returned" => place < currentSize
  /\ at = "returned" /\ "memory" \notin failed =>
       IF fun = "readLine" THEN Result = CutLine
       ELSE /\ \E n \in 0 .. pos : Result = Stripped(SubSeq(input, 1, n))
            /\ failed = {} => Result = Stripped(input)
  /\ at = "null" /\ failed = {} =>
       IF fun = "readLine" THEN CutLine = <<>> ELSE input[1] = EOT
  /\ at = "underrun" /\ failed = {} => Stripped(input) = <<>>

LEMMA CutLineIs ==
  ASSUME input \in FilesTried, NEW n \in 0 .. Len(input),
         \A k \in 1 .. n : input[k] \notin {NEWLINE, FF},
         n # Len(input) => input[n + 1] \in {NEWLINE, FF}
  PROVE  CutLine = SubSeq(input, 1, n)
<1> DEFINE ends == {k \in DOMAIN input : input[k] \in {NEWLINE, FF}}
<1>1. Len(input) \in Nat /\ input \in Seq(Memory) /\ DOMAIN input = 1 .. Len(input)
  BY ContentsAreRead
<1>2. CutLine = IF ends = {} THEN input
                  ELSE SubSeq(input, 1, (CHOOSE k \in ends : \A l \in ends : k <= l) - 1)
  BY DEF CutLine
<1>3. CASE n = Len(input)
  <2>1. ends = {}
    BY <1>1, <1>3
  <2> QED
    BY <1>1, <1>2, <1>3, <2>1, WholeText
<1>4. CASE n # Len(input)
  <2>1. n + 1 \in ends
    <3>1. n + 1 \in 1 .. Len(input)
      <4> HIDE DEF ends
      <4>1. Len(input) \in Nat /\ n \in 0 .. Len(input)
        BY <1>1
      <4>2. \A l \in Nat : n \in 0 .. l /\ n # l => n + 1 \in 1 .. l
        OBVIOUS
      <4> QED
        BY <1>4, <4>1, <4>2
    <3> QED
      BY <1>1, <1>4, <3>1
  <2>2. \A k \in ends : k \in 1 .. Len(input) /\ k \notin 1 .. n
    <3>1. \A k \in ends : k \in DOMAIN input /\ input[k] \in {NEWLINE, FF}
      OBVIOUS
    <3> QED
      BY <1>1, <3>1
  <2>3. \A k \in ends : n + 1 <= k
    <3> SUFFICES ASSUME NEW k \in ends
                 PROVE  n + 1 <= k
      OBVIOUS
    <3>1. k \in 1 .. Len(input) /\ k \notin 1 .. n
      BY <2>2
    <3> QED
      BY <3>1
  <2>4. \A k \in ends : (\A l \in ends : k <= l) => k = n + 1
    <3> HIDE DEF ends
    <3> SUFFICES ASSUME NEW k \in ends, k <= n + 1
                 PROVE  k = n + 1
      BY <2>1
    <3>1. k \in 1 .. Len(input) /\ n + 1 <= k
      BY <2>2, <2>3
    <3> QED
      BY <3>1
  <2> HIDE DEF ends
  <2>5. (CHOOSE k \in ends : \A l \in ends : k <= l) = n + 1
    BY <2>1, <2>3, <2>4
  <2>6. (n + 1) - 1 = n
    OBVIOUS
  <2> QED
    BY <1>2, <2>1, <2>5, <2>6
<1> QED
  BY <1>3, <1>4

\* A text is cut behind the last character that can be printed.
LEMMA StrippedIs ==
  ASSUME NEW S, NEW s \in Seq(S), NEW last \in 0 .. Len(s),
         \A k \in last + 1 .. Len(s) : ~Printable(s[k]), last > 0 => Printable(s[last])
  PROVE  Stripped(s) = SubSeq(s, 1, last)
<1> DEFINE good == {k \in DOMAIN s : Printable(s[k])}
           A    == {k \in DOMAIN s : \E l \in good : k <= l}
<1>1. Len(s) \in Nat /\ DOMAIN s = 1 .. Len(s)
  OBVIOUS
<1>2. A = 1 .. last
  <2>1. \A l \in good : l \in 1 .. Len(s) /\ l \notin last + 1 .. Len(s)
    BY <1>1
  <2>2. \A l \in good : l <= last
    BY <1>1, <2>1
  <2>3. last > 0 => last \in good
    BY <1>1
  <2>4. ASSUME NEW k \in A
        PROVE  k \in 1 .. last
    BY <1>1, <2>1, <2>2
  <2>5. ASSUME NEW k \in 1 .. last
        PROVE  k \in A
    BY <1>1, <2>3
  <2> HIDE DEF A
  <2> QED
    BY <2>4, <2>5
<1>3. Cardinality(1 .. last) = last
  <2>1. last \in Int /\ 1 \in Int /\ last \in Nat
    OBVIOUS
  <2>2. Cardinality(1 .. last) = IF 1 > last THEN 0 ELSE last - 1 + 1
    BY <2>1, FS_Interval
  <2> QED
    BY <2>1, <2>2
<1>4. Stripped(s) = SubSeq(s, 1, Cardinality(A))
  BY DEF Stripped
<1> HIDE DEF A
<1> QED
  BY <1>2, <1>3, <1>4

\* As long as realloc did not fail, what is stored is what was read.
Stored == "memory" \notin failed => \A k \in 1 .. pos : str[k] = input[k]

\* In the loop of readLine.
InLine == /\ at \in {"read", "grow"} /\ place = pos /\ pos <= currentSize
          /\ at = "grow" => pos = currentSize
          /\ \A k \in 1 .. pos : input[k] \notin {NEWLINE, FF}

\* In that of read_file_descriptor: whenever something is read the array is
\* empty or half full, so that a read that failed, one place short, ends it.
HalfFull == pos = 0 \/ 2 * pos = currentSize

InFile ==
  \/ at = "read" /\ place = pos /\ pos < currentSize /\ HalfFull
  \/ at = "grow" /\ place = pos /\ pos = currentSize
  \/ /\ at \in {"test", "finish"} /\ place = pos /\ pos <= currentSize
     /\ failed = {} => pos = Len(input) \/ (at = "test" /\ pos = currentSize)
  \/ /\ at \in {"test", "finish"} /\ place = pos - 1 /\ pos < currentSize /\ HalfFull
     /\ "read" \in failed

\* What is returned is right.
Right == IF fun = "readLine" THEN Result = CutLine
         ELSE /\ \E n \in 0 .. pos : Result = Stripped(SubSeq(input, 1, n))
              /\ failed = {} => Result = Stripped(input)

ReadingTypeOK ==
  /\ fun \in {"readLine", "read_file_descriptor"}
  /\ input \in FilesTried /\ pos \in 0 .. Len(input)
  /\ at \in {"open", "read", "test", "grow", "finish", "shrink", "returned", "null",
             "underrun", "exit"}
  /\ str \in Seq(Memory) /\ currentSize \in Nat \ {0} /\ place \in Int /\ count \in Nat

AtWork == /\ Len(str) = pos /\ Stored
          /\ IF fun = "readLine" THEN InLine ELSE InFile

ReadingInv ==
  /\ ReadingTypeOK
  /\ at = "open" => pos = 0 /\ place = 0 /\ str = <<>> /\ failed = {}
  /\ at \in {"read", "test", "finish"} => count = 0
  /\ at \in {"grow", "shrink"} => count = 0 \/ "memory" \in failed
  /\ at \in {"read", "grow", "test", "finish"} => AtWork
  /\ at \in {"shrink", "returned"} => /\ place \in 0 .. Len(str)
                                      /\ "memory" \notin failed => Right
  /\ KeepsCut

LEMMA InitReadingInv == ReadingInit => ReadingInv
<1> SUFFICES ASSUME ReadingInit
             PROVE  ReadingInv
  OBVIOUS
<1>1. input \in FilesTried /\ Len(input) \in Nat
  BY ContentsAreRead DEF ReadingInit
<1>2. ReadingTypeOK
  BY <1>1, ReadingAssumption DEF ReadingInit, ReadingTypeOK
<1> QED
  BY <1>2 DEF ReadingInit, ReadingInv, KeepsCut

LEMMA SameFile ==
  ASSUME UNCHANGED <<fun, input>>
  PROVE  CutLine' = CutLine /\ Stripped(input)' = Stripped(input)
  BY DEF CutLine, Stripped, Printable

LEMMA OpenInv ==
  ASSUME ReadingInv, Open
  PROVE  ReadingInv'
<1>1. /\ UNCHANGED <<fun, input, pos, str, currentSize, place, failed>>
      /\ count' \in Nat /\ at' \in {"open", "exit", "read"} /\ (at' = "read" => count' = 0)
      /\ pos = 0 /\ place = 0 /\ str = <<>> /\ failed = {}
  BY DEF ReadingInv, ReadingTypeOK, Open, OutOfMemory, OtherError
<1>2. ReadingTypeOK'
  BY <1>1 DEF ReadingInv, ReadingTypeOK
<1>3. AtWork' \/ at' # "read"
  BY <1>1 DEF ReadingInv, ReadingTypeOK, AtWork, Stored, InLine, InFile, HalfFull
<1>4. KeepsCut'
  BY <1>1 DEF ReadingInv, ReadingTypeOK, KeepsCut
<1> QED
  BY <1>1, <1>2, <1>3, <1>4 DEF ReadingInv

\* One turn of xrealloc: it is tried again or given up, or, if it succeeds
\* and never failed, everything is where it was.
LEMMA Reallocated ==
  ASSUME ReadingInv, at \in {"grow", "shrink"}, NEW large \in Nat \ {0}, NEW next,
         Reallocate(large, next)
  PROVE  \/ /\ at' \in {at, "exit"} /\ count' \in Nat /\ UNCHANGED <<str, currentSize>>
            /\ at' = at => "memory" \in failed'
         \/ /\ at' = next /\ count' = 0 /\ currentSize' = large /\ failed' = failed
            /\ str' \in Seq(Memory) /\ Len(str') = Len(str)
            /\ "memory" \notin failed => str' = str
<1>1. count \in Nat /\ str \in Seq(Memory) /\ (count = 0 \/ "memory" \in failed)
  BY DEF ReadingInv, ReadingTypeOK
<1>2. CASE OutOfMemory /\ failed' = failed \cup {"memory"} /\ UNCHANGED <<str, currentSize>>
  BY <1>1, <1>2 DEF OutOfMemory
<1>3. CASE OtherError /\ UNCHANGED <<str, currentSize, failed>>
  BY <1>1, <1>3 DEF OtherError
<1>4. CASE /\ str' = Moved /\ currentSize' = large /\ count' = 0 /\ at' = next
           /\ UNCHANGED failed
  <2>1. CASE count = 0
    BY <1>1, <1>4, <2>1 DEF Moved
  <2>2. CASE count # 0
    <3>1. str' = [k \in DOMAIN str |-> GARBAGE]
      BY <1>4, <2>2 DEF Moved
    <3>2. DOMAIN str = 1 .. Len(str) /\ Len(str) \in Nat /\ GARBAGE \in Memory
      BY <1>1 DEF Memory
    <3>3. str' \in Seq(Memory) /\ Len(str') = Len(str)
      BY <3>1, <3>2
    <3> QED
      BY <1>1, <1>4, <2>2, <3>3
  <2> QED
    BY <2>1, <2>2
<1> QED
  BY <1>2, <1>3, <1>4 DEF Reallocate

LEMMA GrowInv ==
  ASSUME ReadingInv, Grow
  PROVE  ReadingInv'
<1>1. /\ ReadingTypeOK /\ AtWork /\ at = "grow" /\ UNCHANGED <<fun, input, pos, place>>
      /\ Reallocate(2 * currentSize, "read")
  BY DEF ReadingInv, Grow
<1>2. 2 * currentSize \in Nat \ {0}
  BY <1>1 DEF ReadingTypeOK
<1>3. CASE /\ at' \in {at, "exit"} /\ count' \in Nat /\ UNCHANGED <<str, currentSize>>
           /\ at' = at => "memory" \in failed'
  <2>1. ReadingTypeOK'
    BY <1>1, <1>3 DEF ReadingTypeOK
  <2>2. at' = "grow" => AtWork'
    BY <1>1, <1>3 DEF AtWork, Stored, InLine, InFile
  <2>3. KeepsCut'
    BY <1>1, <1>3 DEF ReadingInv, KeepsCut
  <2> QED
    BY <1>1, <1>3, <2>1, <2>2, <2>3 DEF ReadingInv
<1>4. CASE /\ at' = "read" /\ count' = 0 /\ currentSize' = 2 * currentSize /\ failed' = failed
           /\ str' \in Seq(Memory) /\ Len(str') = Len(str)
           /\ "memory" \notin failed => str' = str
  <2>1. ReadingTypeOK'
    BY <1>1, <1>2, <1>4 DEF ReadingTypeOK
  <2>2. /\ pos = currentSize /\ place = pos /\ currentSize \in Nat \ {0}
        /\ Len(str) = pos /\ pos \in Nat
    BY <1>1, ContentsAreRead DEF ReadingTypeOK, AtWork, InLine, InFile
  <2>3. Stored'
    BY <1>1, <1>4 DEF AtWork, Stored
  <2>4. AtWork'
    BY <1>1, <1>4, <2>2, <2>3 DEF AtWork, InLine, InFile, HalfFull
  <2>5. KeepsCut'
    BY <1>4, <2>2 DEF KeepsCut
  <2> QED
    BY <1>4, <2>1, <2>4, <2>5 DEF ReadingInv
<1> QED
  BY <1>1, <1>2, <1>3, <1>4, Reallocated

LEMMA ShrinkInv ==
  ASSUME ReadingInv, Shrink
  PROVE  ReadingInv'
<1>1. /\ ReadingTypeOK /\ at = "shrink" /\ UNCHANGED <<fun, input, pos, place>>
      /\ Reallocate(place + 1, "returned")
      /\ place \in 0 .. Len(str) /\ ("memory" \notin failed => Right)
  BY DEF ReadingInv, Shrink
<1>2. place + 1 \in Nat \ {0} /\ Len(str) \in Nat
  BY <1>1 DEF ReadingTypeOK
<1>3. CASE /\ at' \in {at, "exit"} /\ count' \in Nat /\ UNCHANGED <<str, currentSize>>
           /\ at' = at => "memory" \in failed'
  <2>1. ReadingTypeOK'
    BY <1>1, <1>3 DEF ReadingTypeOK
  <2>2. KeepsCut'
    BY <1>1, <1>3 DEF KeepsCut
  <2> QED
    BY <1>1, <1>3, <2>1, <2>2 DEF ReadingInv
<1>4. CASE /\ at' = "returned" /\ count' = 0 /\ currentSize' = place + 1 /\ failed' = failed
           /\ str' \in Seq(Memory) /\ Len(str') = Len(str)
           /\ "memory" \notin failed => str' = str
  <2>1. ReadingTypeOK'
    BY <1>1, <1>2, <1>4 DEF ReadingTypeOK
  <2>2. place' \in 0 .. Len(str')
    BY <1>1, <1>4
  <2>3. "memory" \notin failed => Right'
    <3> SUFFICES ASSUME "memory" \notin failed
                 PROVE  Right'
      OBVIOUS
    <3>1. Right /\ Result' = Result
      BY <1>1, <1>4 DEF Result
    <3>2. \A n : Stripped(SubSeq(input, 1, n))' = Stripped(SubSeq(input, 1, n))
      BY <1>1 DEF Stripped, Printable
    <3> QED
      BY <1>1, <1>4, <3>1, <3>2, SameFile DEF Right
  <2>4. KeepsCut'
    <3>1. place < place + 1
      BY <1>1
    <3> QED
      BY <1>1, <1>4, <2>3, <3>1 DEF KeepsCut, Right
  <2> QED
    BY <1>4, <2>1, <2>2, <2>3, <2>4 DEF ReadingInv
<1> QED
  BY <1>1, <1>2, <1>3, <1>4, Reallocated


\* What the loops leave alone.
LEMMA LookedAt ==
  ASSUME ReadingTypeOK, pos < Len(input)
  PROVE  CharHere = input[pos + 1] /\ pos + 1 \in 1 .. Len(input) /\ CharHere \in Memory
         /\ CharHere # EOF
<1>1. pos + 1 \in 1 .. Len(input) /\ Len(input) \in Nat /\ pos \in Nat
  BY ContentsAreRead DEF ReadingTypeOK
<1>2. CharHere = input[pos + 1]
  BY DEF CharHere
<1>3. input[pos + 1] \in Memory /\ input[pos + 1] # EOF
  BY <1>1, ContentsAreRead DEF ReadingTypeOK
<1> QED
  BY <1>1, <1>2, <1>3

LEMMA StoreCharInv ==
  ASSUME ReadingInv, StoreChar
  PROVE  ReadingInv'
<1>1. /\ ReadingTypeOK /\ AtWork /\ count = 0 /\ fun = "readLine" /\ at = "read" /\ ~EndsLine
      /\ UNCHANGED <<fun, input, currentSize, count, failed>>
  BY DEF ReadingInv, StoreChar
<1>2. /\ Len(input) \in Nat /\ pos \in Nat /\ currentSize \in Nat /\ place = pos
      /\ pos <= currentSize /\ Len(str) = pos /\ str \in Seq(Memory)
  BY <1>1, ContentsAreRead DEF ReadingTypeOK, AtWork, InLine
<1>3. CASE Full(place)
  <2>1. at' = "grow" /\ UNCHANGED <<pos, str, place>> /\ pos = currentSize
    BY <1>2, <1>3 DEF StoreChar, Full
  <2>2. ReadingTypeOK'
    BY <1>1, <2>1 DEF ReadingTypeOK
  <2>3. AtWork'
    BY <1>1, <2>1 DEF AtWork, Stored, InLine
  <2>4. KeepsCut'
    BY <1>1, <1>2, <2>1 DEF KeepsCut
  <2> QED
    BY <1>1, <2>1, <2>2, <2>3, <2>4 DEF ReadingInv
<1>4. CASE ~Full(place)
  <2>1. /\ str' = Append(str, CharHere) /\ pos' = pos + 1 /\ place' = place + 1 /\ at' = at
        /\ pos # currentSize
    BY <1>2, <1>4 DEF StoreChar, Full
  <2>2. pos < Len(input)
    BY <1>1 DEF EndsLine, CharHere
  <2>3. CharHere = input[pos + 1] /\ pos + 1 \in 1 .. Len(input) /\ CharHere \in Memory
    BY <1>1, <2>2, LookedAt
  <2>4. /\ str' \in Seq(Memory) /\ Len(str') = pos + 1 /\ str'[pos + 1] = CharHere
        /\ \A k \in 1 .. pos : str'[k] = str[k]
    <3> HIDE DEF Memory
    <3> QED
      BY <1>2, <2>1, <2>3
  <2>5. ReadingTypeOK'
    BY <1>1, <1>2, <2>1, <2>3, <2>4 DEF ReadingTypeOK
  <2>6. \A k \in 1 .. pos + 1 : k \in 1 .. pos \/ k = pos + 1
    BY <1>2
  <2>7. Stored'
    BY <1>1, <2>1, <2>3, <2>4, <2>6 DEF AtWork, Stored
  <2>8. InLine'
    <3>1. \A k \in 1 .. pos + 1 : input[k] \notin {NEWLINE, FF}
      BY <1>1, <2>3, <2>6 DEF AtWork, InLine, EndsLine
    <3>2. pos + 1 <= currentSize
      BY <1>2, <2>1
    <3> QED
      BY <1>1, <1>2, <2>1, <3>1, <3>2 DEF InLine
  <2>9. AtWork'
    BY <1>1, <2>1, <2>4, <2>7, <2>8 DEF AtWork
  <2>10. KeepsCut'
    BY <1>1, <1>2, <2>1, <2>4 DEF KeepsCut
  <2> QED
    BY <1>1, <2>1, <2>5, <2>9, <2>10 DEF ReadingInv
<1> QED
  BY <1>3, <1>4

LEMMA EndOfLineInv ==
  ASSUME ReadingInv, EndOfLine
  PROVE  ReadingInv'
<1>1. /\ ReadingTypeOK /\ AtWork /\ count = 0 /\ fun = "readLine" /\ EndsLine
      /\ UNCHANGED <<fun, input, str, currentSize, place, count, failed>>
      /\ pos' = (IF CharHere = EOF THEN pos ELSE pos + 1)
      /\ at' = (IF place = 0 /\ CharHere # NEWLINE THEN "null" ELSE "shrink")
  BY DEF ReadingInv, EndOfLine
<1>2. /\ Len(input) \in Nat /\ pos \in 0 .. Len(input) /\ place = pos
      /\ Len(str) = pos /\ str \in Seq(Memory) /\ input \in Seq(Memory)
      /\ \A k \in 1 .. pos : input[k] \notin {NEWLINE, FF}
  BY <1>1, ContentsAreRead DEF ReadingTypeOK, AtWork, InLine, EndOfLine
<1>3. pos < Len(input) => input[pos + 1] \in {NEWLINE, FF} /\ pos + 1 \in 0 .. Len(input)
  BY <1>1, LookedAt DEF EndsLine
<1>4. CharHere # EOF => pos < Len(input)
  BY DEF CharHere
<1>5. CutLine = SubSeq(input, 1, pos)
  <2>1. pos # Len(input) => pos < Len(input)
    BY <1>2
  <2> QED
    BY <1>1, <1>2, <1>3, <2>1, CutLineIs DEF ReadingTypeOK
<1>6. ReadingTypeOK'
  <2>1. pos' \in 0 .. Len(input)
    BY <1>1, <1>2, <1>3, <1>4
  <2> QED
    BY <1>1, <2>1 DEF ReadingTypeOK
<1>7. "memory" \notin failed => Right'
  <2> SUFFICES ASSUME "memory" \notin failed
               PROVE  Right'
    OBVIOUS
  <2>1. \A k \in 1 .. pos : str[k] = input[k]
    BY <1>1 DEF AtWork, Stored
  <2>2. SubSeq(str, 1, pos) = SubSeq(input, 1, pos)
    <3> HIDE DEF Memory
    <3>1. pos \in Nat /\ pos <= Len(str) /\ pos <= Len(input)
      BY <1>2
    <3> QED
      BY <1>2, <2>1, <3>1, BeginAlike
  <2>3. Result' = SubSeq(str, 1, pos)
    BY <1>1, <1>2 DEF Result
  <2> QED
    BY <1>1, <1>5, <2>2, <2>3, SameFile DEF Right
<1>8. place = 0 => CutLine = <<>>
  BY <1>2, <1>5
<1>9. place' \in 0 .. Len(str')
  BY <1>1, <1>2
<1>10. KeepsCut'
  BY <1>1, <1>8, SameFile DEF KeepsCut
<1> QED
  BY <1>1, <1>6, <1>7, <1>9, <1>10 DEF ReadingInv

LEMMA JoinedFiles ==
  ASSUME NEW S, NEW s \in Seq(S), NEW t \in Seq(S), NEW n \in Nat, Len(s) + n <= Len(t),
         NEW j, j = s \o SubSeq(t, Len(s) + 1, Len(s) + n)
  PROVE  /\ j \in Seq(S) /\ Len(j) = Len(s) + n
         /\ \A k \in 1 .. Len(s) : j[k] = s[k]
         /\ \A k \in Len(s) + 1 .. Len(s) + n : j[k] = t[k]
<1> DEFINE p == Len(s)
           r == SubSeq(t, p + 1, p + n)
<1>1. p \in Nat /\ Len(t) \in Nat
  OBVIOUS
<1>2. r \in Seq(S) /\ Len(r) = n /\ \A k \in 1 .. n : r[k] = t[p + k]
  BY <1>1
<1> HIDE DEF r
<1>3. s \o r \in Seq(S) /\ Len(s \o r) = p + n
      /\ \A k \in 1 .. p + n : (s \o r)[k] = IF k <= p THEN s[k] ELSE r[k - p]
  BY <1>1, <1>2, ConcatProperties
<1>4. ASSUME NEW k \in p + 1 .. p + n
      PROVE  (s \o r)[k] = t[k]
  <2>1. k - p \in 1 .. n /\ p + (k - p) = k /\ k \in 1 .. p + n /\ ~(k <= p)
    BY <1>1
  <2> QED
    BY <1>2, <1>3, <2>1
<1>5. ASSUME NEW k \in 1 .. p
      PROVE  (s \o r)[k] = s[k]
  BY <1>1, <1>3
<1> QED
  BY <1>3, <1>4, <1>5 DEF r

LEMMA ReadInv ==
  ASSUME ReadingInv, Read
  PROVE  ReadingInv'
<1>1. /\ ReadingTypeOK /\ AtWork /\ count = 0 /\ fun = "read_file_descriptor" /\ at = "read"
      /\ at' = "test" /\ UNCHANGED <<fun, input, currentSize, count>>
  BY DEF ReadingInv, Read
<1>2. /\ Len(input) \in Nat /\ pos \in 0 .. Len(input) /\ place = pos /\ currentSize \in Nat \ {0}
      /\ pos < currentSize /\ HalfFull
      /\ Len(str) = pos /\ str \in Seq(Memory) /\ input \in Seq(Memory) /\ Stored
  BY <1>1, ContentsAreRead DEF ReadingTypeOK, AtWork, InFile
<1>3. PICK n \in -1 .. currentSize - place :
        /\ n > 0 => n <= Len(input) - pos
        /\ n = 0 => pos = Len(input)
        /\ place' = place + n
        /\ pos' = IF n > 0 THEN pos + n ELSE pos
        /\ str' = IF n > 0 THEN str \o SubSeq(input, pos + 1, pos + n) ELSE str
        /\ failed' = failed \cup (IF n = -1 THEN {"read"} ELSE {})
                            \cup (IF n \in 0 .. currentSize - place - 1 /\ pos + n < Len(input)
                                  THEN {"short"} ELSE {})
  BY DEF Read
<1>4. "memory" \notin failed' => "memory" \notin failed
  BY <1>3
<1>5. CASE n = -1
  <2>1. place' = pos - 1 /\ pos' = pos /\ str' = str /\ "read" \in failed'
    BY <1>2, <1>3, <1>5
  <2>2. ReadingTypeOK'
    BY <1>1, <1>2, <2>1 DEF ReadingTypeOK
  <2>3. AtWork'
    BY <1>1, <1>2, <1>4, <2>1 DEF AtWork, Stored, InFile, HalfFull
  <2>4. KeepsCut'
    BY <1>1, <1>2, <2>1 DEF KeepsCut
  <2> QED
    BY <1>1, <2>2, <2>3, <2>4 DEF ReadingInv
<1>6. CASE n = 0
  <2>1. place' = pos /\ pos' = pos /\ str' = str /\ pos = Len(input)
    BY <1>2, <1>3, <1>6
  <2>2. ReadingTypeOK'
    BY <1>1, <1>2, <2>1 DEF ReadingTypeOK
  <2>3. Stored' /\ pos <= currentSize
    BY <1>1, <1>2, <1>4, <2>1 DEF Stored
  <2>4. InFile'
    <3>1. /\ at' \in {"test", "finish"} /\ place' = pos' /\ pos' <= currentSize'
          /\ failed' = {} => pos' = Len(input') \/ (at' = "test" /\ pos' = currentSize')
      BY <1>1, <2>1, <2>3
    <3> QED
      BY <3>1 DEF InFile
  <2>5. AtWork'
    BY <1>1, <1>2, <2>1, <2>3, <2>4 DEF AtWork
  <2>6. KeepsCut'
    BY <1>1, <1>2, <2>1 DEF KeepsCut
  <2> QED
    BY <1>1, <2>2, <2>5, <2>6 DEF ReadingInv
<1>7. CASE n > 0
  <2>1. /\ n \in Nat /\ pos + n <= Len(input) /\ pos + n <= currentSize /\ pos + n \in Nat
        /\ place' = pos + n /\ pos' = pos + n
        /\ str' = str \o SubSeq(input, pos + 1, pos + n)
    BY <1>2, <1>3, <1>7
  <2>2. /\ str' \in Seq(Memory) /\ Len(str') = pos + n
        /\ \A k \in 1 .. pos : str'[k] = str[k]
        /\ \A k \in pos + 1 .. pos + n : str'[k] = input[k]
    <3> HIDE DEF Memory
    <3>1. /\ Len(str) + n <= Len(input) /\ n \in Nat
          /\ str' = str \o SubSeq(input, Len(str) + 1, Len(str) + n)
      BY <1>2, <2>1
    <3>2. /\ str' \in Seq(Memory) /\ Len(str') = Len(str) + n
          /\ \A k \in 1 .. Len(str) : str'[k] = str[k]
          /\ \A k \in Len(str) + 1 .. Len(str) + n : str'[k] = input[k]
      BY <1>2, <3>1, JoinedFiles
    <3> QED
      BY <1>2, <3>2
  <2>3. ReadingTypeOK'
    BY <1>1, <1>2, <2>1, <2>2 DEF ReadingTypeOK
  <2>4. Stored'
    <3>1. \A k \in 1 .. pos + n : k \in 1 .. pos \/ k \in pos + 1 .. pos + n
      BY <1>2, <2>1
    <3> QED
      BY <1>1, <1>2, <1>4, <2>1, <2>2, <3>1 DEF Stored
  <2>5. failed' = {} => pos + n = Len(input) \/ pos + n = currentSize
    <3> SUFFICES ASSUME failed' = {}
                 PROVE  pos + n = Len(input) \/ pos + n = currentSize
      OBVIOUS
    <3>1. ~(n \in 0 .. currentSize - place - 1 /\ pos + n < Len(input))
      BY <1>3
    <3> QED
      BY <1>2, <2>1, <3>1
  <2>6. AtWork'
    <3>1. InFile'
      <4>1. /\ at' \in {"test", "finish"} /\ place' = pos' /\ pos' <= currentSize'
            /\ failed' = {} => pos' = Len(input') \/ (at' = "test" /\ pos' = currentSize')
        BY <1>1, <2>1, <2>5
      <4> QED
        BY <4>1 DEF InFile
    <3> QED
      BY <1>1, <2>1, <2>2, <2>4, <3>1 DEF AtWork
  <2>7. KeepsCut'
    BY <1>1, <2>1, <2>2 DEF KeepsCut
  <2> QED
    BY <1>1, <2>3, <2>6, <2>7 DEF ReadingInv
<1>8. n = -1 \/ n = 0 \/ n > 0
  BY <1>2
<1> QED
  BY <1>5, <1>6, <1>7, <1>8

LEMMA TestInv ==
  ASSUME ReadingInv, Test
  PROVE  ReadingInv'
<1>1. /\ ReadingTypeOK /\ AtWork /\ count = 0 /\ at = "test"
      /\ UNCHANGED <<fun, input, pos, str, currentSize, place, count, failed>>
      /\ at' = (IF Full(place) THEN "grow"
                ELSE IF 2 * place = currentSize THEN "read" ELSE "finish")
  BY DEF ReadingInv, Test
<1>2. /\ fun = "read_file_descriptor" /\ Stored /\ InFile /\ Len(str) = pos
      /\ pos \in Nat /\ currentSize \in Nat \ {0} /\ place \in Int /\ Len(input) \in Nat
  BY <1>1, ContentsAreRead DEF ReadingTypeOK, AtWork, InLine
<1>3. ReadingTypeOK'
  BY <1>1 DEF ReadingTypeOK
<1>4. InFile'
  <2>1. CASE place = pos /\ pos <= currentSize
             /\ (failed = {} => pos = Len(input) \/ (at = "test" /\ pos = currentSize))
    <3>1. CASE Full(place)
      BY <1>1, <1>2, <2>1, <3>1 DEF InFile, Full
    <3>2. CASE ~Full(place) /\ 2 * place = currentSize
      <4>1. pos < currentSize
        BY <1>2, <2>1, <3>2
      <4> QED
        BY <1>1, <2>1, <3>2, <4>1 DEF InFile, HalfFull
    <3>3. CASE ~Full(place) /\ 2 * place # currentSize
      BY <1>1, <2>1, <3>3 DEF InFile, Full
    <3> QED
      BY <3>1, <3>2, <3>3
  <2>2. CASE place = pos - 1 /\ pos < currentSize /\ HalfFull /\ "read" \in failed
    <3>1. ~Full(place) /\ 2 * place # currentSize
      BY <1>2, <2>2 DEF Full, HalfFull
    <3> QED
      BY <1>1, <2>2, <3>1 DEF InFile, HalfFull
  <2> QED
    BY <1>1, <1>2, <2>1, <2>2 DEF InFile
<1>5. AtWork'
  BY <1>1, <1>2, <1>4 DEF AtWork, Stored
<1>6. pos <= currentSize
  BY <1>2 DEF InFile
<1>7. KeepsCut'
  BY <1>1, <1>2, <1>6 DEF KeepsCut
<1> QED
  BY <1>1, <1>3, <1>5, <1>7 DEF ReadingInv

LEMMA FinishInv ==
  ASSUME ReadingInv, Finish
  PROVE  ReadingInv'
<1>1. /\ ReadingTypeOK /\ AtWork /\ count = 0 /\ fun = "read_file_descriptor" /\ at = "finish"
      /\ UNCHANGED <<fun, input, pos, str, currentSize, count, failed>>
  BY DEF ReadingInv, Finish
<1>2. /\ Len(input) \in Nat /\ pos \in 0 .. Len(input) /\ place \in Int
      /\ Len(str) = pos /\ str \in Seq(Memory) /\ input \in Seq(Memory) /\ Stored
      /\ \A k \in 1 .. Len(input) : input[k] # GARBAGE
  BY <1>1, ContentsAreRead DEF ReadingTypeOK, AtWork
<1>3. place \in {pos, pos - 1} /\ (failed = {} => place = pos /\ pos = Len(input))
  BY <1>1, <1>2 DEF AtWork, InFile
<1>4. place' \in Int => ReadingTypeOK' \/ at' \notin {"null", "underrun", "shrink"}
  BY <1>1 DEF ReadingTypeOK
<1>5. CASE place = -1 /\ at' = "null" /\ UNCHANGED place
  <2>1. KeepsCut'
    BY <1>1, <1>2, <1>3, <1>5 DEF KeepsCut
  <2> QED
    BY <1>1, <1>2, <1>4, <1>5, <2>1 DEF ReadingInv
<1>6. CASE place > 0 /\ str[1] \in {EOT, GARBAGE} /\ at' = "null" /\ UNCHANGED place
  <2>1. failed = {} => input[1] = EOT
    <3> SUFFICES ASSUME failed = {}
                 PROVE  input[1] = EOT
      OBVIOUS
    <3>1. 1 \in 1 .. pos /\ 1 \in 1 .. Len(input)
      BY <1>2, <1>3, <1>6
    <3>2. str[1] = input[1] /\ input[1] # GARBAGE
      BY <1>2, <3>1 DEF Stored
    <3> QED
      BY <1>6, <3>2
  <2>2. KeepsCut'
    BY <1>1, <1>6, <2>1 DEF KeepsCut
  <2> QED
    BY <1>1, <1>2, <1>4, <1>6, <2>2 DEF ReadingInv
<1>7. ASSUME NEW last \in 0 .. place, place >= 0,
             \A k \in last + 1 .. place : MayBeOther(k), last > 0 => MayPrint(last),
             place' = last, at' = IF last = 0 THEN "underrun" ELSE "shrink"
      PROVE  ReadingInv'
  <2> DEFINE t == SubSeq(input, 1, place)
  <2>1. place \in 0 .. pos /\ last \in Nat /\ last <= place
    BY <1>2, <1>3, <1>7
  <2>2. /\ t \in Seq(Memory) /\ Len(t) = place
        /\ \A k \in 1 .. place : t[k] = input[k] /\ k \in 1 .. pos /\ k \in 1 .. Len(input)
    <3> HIDE DEF Memory
    <3>1. place \in Nat /\ place <= Len(input)
      BY <1>2, <2>1
    <3>2. /\ t \in Seq(Memory) /\ Len(t) = place /\ \A k \in 1 .. place : t[k] = input[k]
      BY <1>2, <3>1, BeginAlike
    <3> QED
      BY <1>2, <2>1, <3>2
  <2> HIDE DEF t
  <2>3. failed = {} => t = input
    BY <1>2, <1>3, WholeText DEF t
  <2>4. "memory" \notin failed => Stripped(t) = SubSeq(t, 1, last)
                                  /\ SubSeq(t, 1, last) = SubSeq(str, 1, last)
    <3> SUFFICES ASSUME "memory" \notin failed
                 PROVE  /\ Stripped(t) = SubSeq(t, 1, last)
                        /\ SubSeq(t, 1, last) = SubSeq(str, 1, last)
      OBVIOUS
    <3>1. \A k \in 1 .. place : str[k] = t[k] /\ t[k] # GARBAGE
      BY <1>2, <2>2 DEF Stored
    <3>2. \A k \in last + 1 .. Len(t) : ~Printable(t[k])
      <4>1. \A k \in last + 1 .. place : k \in 1 .. place
        BY <2>1
      <4> QED
        BY <1>7, <2>2, <3>1, <4>1 DEF MayBeOther
    <3>3. last > 0 => Printable(t[last])
      BY <1>7, <2>1, <3>1 DEF MayPrint
    <3>4. last \in 0 .. Len(t)
      BY <2>1, <2>2
    <3>5. Stripped(t) = SubSeq(t, 1, last)
      <4> HIDE DEF Memory
      <4> QED
        BY <2>2, <3>2, <3>3, <3>4, StrippedIs
    <3>6. SubSeq(t, 1, last) = SubSeq(str, 1, last)
      <4> HIDE DEF Memory
      <4>1. last <= Len(t) /\ last <= Len(str) /\ \A k \in 1 .. last : t[k] = str[k]
        BY <1>2, <2>1, <2>2, <3>1
      <4> QED
        BY <1>2, <2>1, <2>2, <4>1, BeginAlike
    <3> QED
      BY <3>5, <3>6
  <2>5. ReadingTypeOK'
    BY <1>4, <1>7, <2>1
  <2>6. CASE last = 0
    <3>1. failed = {} => Stripped(input) = <<>>
      <4>1. SubSeq(t, 1, 0) = <<>>
        OBVIOUS
      <4> QED
        BY <2>3, <2>4, <2>6, <4>1
    <3>2. KeepsCut'
      BY <1>1, <1>7, <2>6, <3>1, SameFile DEF KeepsCut
    <3> QED
      BY <1>7, <2>5, <2>6, <3>2 DEF ReadingInv
  <2>7. CASE last # 0
    <3>1. place' \in 0 .. Len(str')
      BY <1>1, <1>2, <1>7, <2>1
    <3>2. "memory" \notin failed => Right'
      <4> SUFFICES ASSUME "memory" \notin failed
                   PROVE  Right'
        OBVIOUS
      <4>1. Result' = Stripped(t)
        BY <1>1, <1>7, <2>4 DEF Result
      <4>2. \A n : Stripped(SubSeq(input, 1, n))' = Stripped(SubSeq(input, 1, n))
        BY <1>1 DEF Stripped, Printable
      <4>3. place \in 0 .. pos /\ Result' = Stripped(SubSeq(input, 1, place))
        BY <2>1, <4>1 DEF t
      <4>4. failed = {} => Result' = Stripped(input)
        BY <2>3, <4>1
      <4> QED
        BY <1>1, <4>2, <4>3, <4>4, SameFile DEF Right
    <3>3. KeepsCut'
      BY <1>1, <1>7, <2>7 DEF KeepsCut
    <3> QED
      BY <1>1, <1>7, <2>5, <2>7, <3>1, <3>2, <3>3 DEF ReadingInv
  <2> QED
    BY <2>6, <2>7
<1> QED
  BY <1>5, <1>6, <1>7 DEF Finish

LEMMA NextReadingInv ==
  ASSUME ReadingInv, [ReadingNext]_readingvars
  PROVE  ReadingInv'
<1>1. CASE UNCHANGED readingvars
  <2>1. Right' = Right /\ KeepsCut' = KeepsCut
    BY <1>1 DEF readingvars, Right, KeepsCut, Result, CutLine, Stripped, Printable
  <2>2. ReadingTypeOK' /\ (AtWork' \/ ~AtWork)
    BY <1>1 DEF readingvars, ReadingInv, ReadingTypeOK, AtWork, Stored, InLine, InFile, HalfFull
  <2> QED
    BY <1>1, <2>1, <2>2 DEF readingvars, ReadingInv
<1> QED
  BY <1>1, OpenInv, GrowInv, StoreCharInv, EndOfLineInv, ReadInv, TestInv, FinishInv, ShrinkInv
  DEF ReadingNext, ReadingStopped

\* A line without an FF is returned whole.
LEMMA FirstLineIsCut ==
  ASSUME input \in FilesTried, ~HasFF(FirstLine)
  PROVE  CutLine = FirstLine
<1> DEFINE ends == {k \in DOMAIN input : input[k] = NEWLINE}
<1>1. Len(input) \in Nat /\ input \in Seq(Memory) /\ DOMAIN input = 1 .. Len(input)
  BY ContentsAreRead
<1>2. FirstLine = IF ends = {} THEN input
                  ELSE SubSeq(input, 1, (CHOOSE k \in ends : \A l \in ends : k <= l) - 1)
  BY DEF FirstLine
<1>3. CASE ends = {}
  <2>1. FirstLine = input
    BY <1>2, <1>3
  <2>2. \A k \in DOMAIN input : input[k] \notin {NEWLINE, FF}
    BY <1>3, <2>1 DEF HasFF
  <2> QED
    BY <2>1, <2>2 DEF CutLine
<1>4. CASE ends # {}
  <2> DEFINE m == CHOOSE k \in ends : \A l \in ends : k <= l
  <2>1. m \in ends /\ \A l \in ends : m <= l
    <3>1. ends \in SUBSET Nat
      BY <1>1
    <3>2. \E k \in ends : \A l \in ends : k <= l
      <4> HIDE DEF ends
      <4> QED
        BY <1>4, <3>1, LeastNatural
    <3> QED
      BY <3>2
  <2>2. FirstLine = SubSeq(input, 1, m - 1)
    BY <1>2, <1>4
  <2>3. \A k \in 1 .. Len(input) : input[k] = NEWLINE => m <= k
    BY <1>1, <2>1
  <2>4. m \in 1 .. Len(input) /\ input[m] = NEWLINE
    BY <1>1, <2>1
  <2> HIDE DEF m, ends
  <2>5. m - 1 \in 0 .. Len(input) /\ m - 1 <= Len(input) /\ (m - 1) + 1 = m
    BY <1>1, <2>4
  <2>6. Len(FirstLine) = m - 1 /\ \A k \in 1 .. m - 1 : FirstLine[k] = input[k]
    BY <1>1, <2>2, <2>5, BeginAlike
  <2>7. DOMAIN FirstLine = 1 .. m - 1
    <3>1. FirstLine \in Seq(Memory)
      BY <1>1, <2>2, <2>5, BeginAlike
    <3> QED
      BY <2>6, <3>1
  <2>8. ASSUME NEW k \in 1 .. m - 1
        PROVE  input[k] \notin {NEWLINE, FF}
    <3>1. input[k] # FF
      BY <2>6, <2>7 DEF HasFF
    <3>2. k \in 1 .. Len(input) /\ ~(m <= k)
      BY <1>1, <2>4
    <3> QED
      BY <2>3, <3>1, <3>2
  <2> QED
    BY <2>2, <2>4, <2>5, <2>8, CutLineIs
<1> QED
  BY <1>3, <1>4

(* Whatever fails: nothing is written behind the buffer.  Unless a         *)
(* reallocation was tried twice, what a reader returns is the whole line,  *)
(* if it has no character 0xFF, or all it read of the descriptor without   *)
(* what cannot be printed at the end (readLine, read_file_descriptor and   *)
(* xrealloc of parser/utilsV4.c), for files and buffers of every size.     *)
THEOREM FilesAreAlwaysKept == ReadingSpec => []KeepData
<1>1. ReadingInv => KeepData
  BY FirstLineIsCut DEF ReadingInv, ReadingTypeOK, KeepsCut, KeepData
<1> QED
  BY InitReadingInv, NextReadingInv, <1>1, PTL DEF ReadingSpec
=============================================================================
